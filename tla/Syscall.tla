------------------------------ MODULE Syscall -------------------------------
(***************************************************************************)
(* The system call registry and the copy of a ring-3 caller's config       *)
(* (kernel/syscall.c).  Every caller's config goes through one buffer,     *)
(* syscall_kbuf, and the thread may be gone when the handler returns.      *)
(*                                                                         *)
(* A byte is where it came from: a process, or the kernel (the zeroes of   *)
(* memset and the OUT values of a handler).  A caller is a process of one  *)
(* thread, and every process has its config at the same virtual address:   *)
(* which config copy_to_user reaches depends on CR3 alone.  A dispatch is  *)
(* one step: the gate runs with interrupts off and refuses re-entry.       *)
(***************************************************************************)
EXTENDS Naturals, FiniteSets

CONSTANTS
  Callers,          \* ring-3 processes
  Numbers,          \* system call numbers
  Top,              \* bound: bytes of the largest config
  Sizes,            \* sizes of configs, at most Top
  SYSCALL_KBUF_MAX,
  NoCall            \* no config filled in

ASSUME GateAssumption ==
  /\ Top \in Nat /\ Sizes \subseteq 0..Top
  /\ NoCall \notin [num : Numbers, size : Sizes]

VARIABLES
  syscalls,         \* max_param_size of each registered number
  syscall_kbuf,
  mem,              \* the bytes at the config's address, by address space
  live,             \* the processes that exist
  ready,            \* those the scheduler may switch to
  cur,              \* thread_get_tid, and CR3 between two gates
  call              \* the call each process has filled in and not yet made

gateVars == <<syscalls, syscall_kbuf, mem, live, ready, cur, call>>

Bytes == 1..Top
Least(a, b) == IF a < b THEN a ELSE b

GateInit ==
  /\ syscalls = [n \in {} |-> 0]
  /\ syscall_kbuf = [i \in Bytes |-> "kernel"]
  /\ mem = [c \in Callers |-> [i \in Bytes |-> c]]
  /\ live = Callers
  /\ cur \in Callers /\ ready = Callers \ {cur}
  /\ call = [c \in Callers |-> NoCall]

-----------------------------------------------------------------------------
\* A number that is taken is refused.
syscall_register(num, max) ==
  /\ num \notin DOMAIN syscalls
  /\ syscalls' = [n \in DOMAIN syscalls \cup {num} |-> IF n = num THEN max ELSE syscalls[n]]
  /\ UNCHANGED <<syscall_kbuf, mem, live, ready, cur, call>>

syscall_unregister(num) ==
  /\ num \in DOMAIN syscalls
  /\ syscalls' = [n \in DOMAIN syscalls \ {num} |-> syscalls[n]]
  /\ UNCHANGED <<syscall_kbuf, mem, live, ready, cur, call>>

\* Mutant of Zeroed: only what the caller passes is cleared.
Zeroed_Passed(buf, max, n) == [i \in Bytes |-> IF i <= n THEN "kernel" ELSE buf[i]]

\* The buffer after memset, n bytes of which the copy will replace; one byte is
\* cleared for a handler that knows none.
Zeroed(buf, max, n) ==
  [i \in Bytes |-> IF i <= max \/ i = 1 THEN "kernel" ELSE buf[i]]

\* copy_from_user and copy_to_user of a range that is valid.
Copied(to, from, n) == [i \in Bytes |-> IF i <= n THEN from[i] ELSE to[i]]

\* What a handler may make of the max bytes it knows: it leaves them, fills in
\* an OUT value or repeats one field in another.
Handled(buf, max) ==
  {buf} \cup {[buf EXCEPT ![i] = "kernel"] : i \in 1..max}
        \cup {[buf EXCEPT ![i] = buf[j]] : i, j \in 1..max}

\* What a handler may make of its caller c: tid and cr3 are thread_get_tid and
\* CR3 when it returns, gone is the process it ended, if any.
Fates(c) ==
  LET Fate(t, d, g) == [tid |-> t, cr3 |-> d, gone |-> g]
  IN {Fate(c, c, {})}                                   \* it returns
       \cup {Fate(c, c, {d}) : d \in live \ {c}}        \* after ending another
       \cup {Fate(u, c, {}) : u \in ready}              \* blocks: the switch is only requested
       \cup {Fate(u, c, {c}) : u \in ready}             \* deletes its own thread: likewise
       \cup {Fate(u, u, {c}) : u \in ready}             \* exits: the switch is made at once

\* Mutant of StillThere: the address space alone is compared.
StillThere_Cr3(c, f) == f.cr3 = c

\* The caller was not switched away by the handler.
StillThere(c, f) == f.tid = c /\ f.cr3 = c

\* The caller's config cannot be read: E_FAULT, after the buffer was cleared.
DispatchFaults(c) ==
  /\ c = cur /\ call[c] # NoCall /\ call[c].num \in DOMAIN syscalls
  /\ LET max == syscalls[call[c].num]
     IN syscall_kbuf' = IF max <= SYSCALL_KBUF_MAX
                        THEN Zeroed(syscall_kbuf, max, Least(call[c].size, max))
                        ELSE syscall_kbuf
  /\ call' = [call EXCEPT ![c] = NoCall]
  /\ UNCHANGED <<syscalls, mem, live, ready, cur>>

\* E_NOTFOUND for an unknown number, E_NOMEM for a config above
\* SYSCALL_KBUF_MAX that gets no buffer.
DispatchRefused(c) ==
  /\ c = cur /\ call[c] # NoCall
  /\ call[c].num \in DOMAIN syscalls => syscalls[call[c].num] > SYSCALL_KBUF_MAX
  /\ call' = [call EXCEPT ![c] = NoCall]
  /\ UNCHANGED <<syscalls, syscall_kbuf, mem, live, ready, cur>>

\* syscall_dispatch of a ring-3 call.  The write-back goes to whatever CR3 maps
\* when the handler has returned, or fails.  A config above SYSCALL_KBUF_MAX
\* has a buffer of its own.  The gate's exit makes the requested switch.
syscall_dispatch(c) ==
  LET max == syscalls[call[c].num]
      n == Least(call[c].size, max)
      own == max > SYSCALL_KBUF_MAX
      fresh == IF own THEN [i \in Bytes |-> "kernel"] ELSE Zeroed(syscall_kbuf, max, n)
  IN /\ c = cur /\ call[c] # NoCall /\ call[c].num \in DOMAIN syscalls
     /\ \E buf \in Handled(Copied(fresh, mem[c], n), max), f \in Fates(c) :
          /\ syscall_kbuf' = IF own THEN syscall_kbuf ELSE buf
          /\ live' = live \ f.gone
          /\ ready' = ready \ (f.gone \cup {f.tid})
          /\ cur' = f.tid
          /\ call' = [d \in Callers |-> IF d \in f.gone \cup {c} THEN NoCall ELSE call[d]]
          /\ \/ /\ StillThere(c, f) /\ f.cr3 \in live \ f.gone
                /\ mem' = [mem EXCEPT ![f.cr3] = Copied(@, buf, n)]
             \/ mem' = mem
     /\ UNCHANGED syscalls

\* The running process fills in its config for the next call.
Prepare(c, num, size) ==
  /\ c = cur /\ call[c] = NoCall
  /\ mem' = [mem EXCEPT ![c] = [i \in Bytes |-> c]]
  /\ call' = [call EXCEPT ![c] = [num |-> num, size |-> size]]
  /\ UNCHANGED <<syscalls, syscall_kbuf, live, ready, cur>>

\* The timer switches to another thread.
Schedule(u) ==
  /\ u \in ready
  /\ cur' = u /\ ready' = (ready \ {u}) \cup {cur}
  /\ UNCHANGED <<syscalls, syscall_kbuf, mem, live, call>>

\* A blocked thread is woken, or a process is started with memory of its own.
Wake(c) ==
  /\ c \notin ready \cup {cur}
  /\ live' = live \cup {c} /\ ready' = ready \cup {c}
  /\ mem' = IF c \in live THEN mem ELSE [mem EXCEPT ![c] = [i \in Bytes |-> c]]
  /\ UNCHANGED <<syscalls, syscall_kbuf, cur, call>>

GateNext ==
  \/ \E num \in Numbers, max \in Sizes : syscall_register(num, max)
  \/ \E num \in Numbers : syscall_unregister(num)
  \/ \E c \in Callers :
       \/ DispatchFaults(c) \/ DispatchRefused(c) \/ syscall_dispatch(c)
       \/ \E num \in Numbers, size \in Sizes : Prepare(c, num, size)
       \/ Schedule(c) \/ Wake(c)

GateSpec == GateInit /\ [][GateNext]_gateVars

-----------------------------------------------------------------------------
\* Whatever handlers do with what they see, and although all configs share one
\* buffer that nobody clears behind a caller that was switched away: no process
\* gets a byte of another process's config.
Confined ==
  \A c \in Callers : \A i \in Bytes : mem[c][i] \in {c, "kernel"}

\* Whatever becomes of the caller inside the handler: the memory of a process
\* that exists changes only while it fills in a config, or by the call it has
\* filled in; that call reaches no byte beyond what both sides agreed on, and
\* only a caller that goes on running: one that sleeps on, or is gone, finds
\* its config as it left it, and so does the process that runs in its place.
WriteBackBounded ==
  [][\A c \in live : \A i \in Bytes :
       mem'[c][i] # mem[c][i] =>
         /\ c = cur /\ cur' = c
         /\ \/ call[c] = NoCall
            \/ i <= Least(call[c].size, syscalls[call[c].num])]_gateVars
=============================================================================
