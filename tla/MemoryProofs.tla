---------------------------- MODULE MemoryProofs ----------------------------
(***************************************************************************)
(* Proofs about the address spaces of the processes.  PagingProofs shows   *)
(* that a region comes and goes entirely; here the parts of the system     *)
(* calls are put together (threads and their stacks, process exit, images, *)
(* grants, shares, device windows, the start of the machine), and          *)
(* MemoryInv is shown to hold after boot and to be kept by every call.     *)
(* The invariants of Memory follow from it.                                *)
(*                                                                         *)
(* MemoryInv says of the machine between two calls that                    *)
(*   Core     the pages, the tables and the pool are accounted for by the  *)
(*            kernel, the user heap and the regions of the processes;      *)
(*   Links    what a process maps without owning it is a window on device  *)
(*            memory or a share of a page some region owns, either under a *)
(*            capability, and no capability reaches into the kernel.       *)
(***************************************************************************)
EXTENDS PagingProofs

-----------------------------------------------------------------------------
(* Processes. *)

\* The process table of x is that of m with c at p.
Put(m, x, p, c) == x.proc = [m.proc EXCEPT ![p] = c]

WithCaps(c, S) == [c EXCEPT !.caps = S]
WithStacks(c, S) == [c EXCEPT !.stacks = S]

\* The fields of a record with other capabilities or stacks.
LEMMA OtherFields ==
    ASSUME NEW c, IsRecord(c), NEW S
    PROVE  /\ IsRecord(WithCaps(c, S)) /\ IsRecord(WithStacks(c, S))
           /\ WithCaps(c, S).st = c.st /\ WithStacks(c, S).st = c.st
           /\ WithCaps(c, S).priv = c.priv /\ WithStacks(c, S).priv = c.priv
           /\ WithCaps(c, S).cr3 = c.cr3 /\ WithStacks(c, S).cr3 = c.cr3
           /\ WithCaps(c, S).regs = c.regs /\ WithStacks(c, S).regs = c.regs
           /\ WithCaps(c, S).caps = S /\ WithStacks(c, S).caps = c.caps
           /\ WithCaps(c, S).stacks = c.stacks /\ WithStacks(c, S).stacks = S
<1>1. PICK a, b, d, e, f, g :
        c = [st |-> a, priv |-> b, cr3 |-> d, regs |-> e, caps |-> f, stacks |-> g]
  BY DEF IsRecord
<1>2. WithCaps(c, S) = [st |-> a, priv |-> b, cr3 |-> d, regs |-> e, caps |-> S, stacks |-> g]
  BY <1>1 DEF WithCaps
<1>3. WithStacks(c, S) = [st |-> a, priv |-> b, cr3 |-> d, regs |-> e, caps |-> f, stacks |-> S]
  BY <1>1 DEF WithStacks
<1> QED BY <1>1, <1>2, <1>3 DEF IsRecord

\* The process table of a machine, and what Put leaves of it.
HasProcs(m) == m.proc = [q \in Proc |-> m.proc[q]]
OthersSame(m, x, p) == \A q \in Proc : q # p => x.proc[q] = m.proc[q]

\* What Put leaves, and two Puts in a row.
LEMMA PutAt ==
    ASSUME NEW m, NEW x, NEW p \in Proc, NEW c, HasProcs(m), Put(m, x, p, c)
    PROVE  HasProcs(x) /\ x.proc[p] = c /\ OthersSame(m, x, p)
<1>1. PICK P, Q : P = m.proc /\ Q = x.proc
  OBVIOUS
<1>2. P = [q \in Proc |-> P[q]] /\ Q = [P EXCEPT ![p] = c]
  BY <1>1 DEF Put, HasProcs
<1>3. Q = [q \in Proc |-> Q[q]] /\ Q[p] = c /\ \A q \in Proc : q # p => Q[q] = P[q]
  BY ONLY <1>2, p \in Proc, ProcPut
<1> QED BY <1>1, <1>3 DEF HasProcs, OthersSame

\* The second write of an entry of the process table is the one that stays.
LEMMA PutPut ==
    ASSUME NEW m, NEW y, NEW x, NEW p \in Proc, NEW c, NEW d,
           HasProcs(m), Put(m, y, p, c), Put(y, x, p, d)
    PROVE  Put(m, x, p, d)
<1>1. PICK P, Q : P = m.proc /\ Q = y.proc
  OBVIOUS
<1>2. P = [q \in Proc |-> P[q]] /\ Q = [P EXCEPT ![p] = c]
  BY <1>1 DEF Put, HasProcs
<1>3. [Q EXCEPT ![p] = d] = [P EXCEPT ![p] = d]
  BY <1>2
<1> QED BY <1>1, <1>3 DEF Put

\* A machine in which only capabilities or stacks of p are others.
LEMMA FieldCore ==
    ASSUME NEW m, NEW X, Core(m, X), NEW p \in Proc, NEW c, IsRecord(c),
           c.st = m.proc[p].st, c.cr3 = m.proc[p].cr3, c.regs = m.proc[p].regs,
           IsFiniteSet(c.stacks), c.st # "live" => c.stacks = {},
           NEW x, SameTables(m, x), x.used = m.used, x.free = m.free, Put(m, x, p, c)
    PROVE  Core(x, X) /\ x.proc[p] = c
<1>1. /\ x.proc = [q \in Proc |-> x.proc[q]] /\ x.proc[p] = c
      /\ \A q \in Proc : q # p => x.proc[q] = m.proc[q]
  <2>1. HasProcs(m)
    BY DEF Core, Shape, HasProcs
  <2>2. HasProcs(x) /\ x.proc[p] = c /\ OthersSame(m, x, p)
    BY <2>1, PutAt
  <2> QED BY <2>2 DEF HasProcs, OthersSame
<1>2. \A q \in Proc : IsProc(m.proc[q])
  BY DEF Core, Shape
<1>3. IsProc(c)
  BY <1>2 DEF IsProc, IsRecord
<1>4. ASSUME NEW q \in Proc
      PROVE  /\ IsProc(x.proc[q]) /\ x.proc[q].st = m.proc[q].st
             /\ x.proc[q].cr3 = m.proc[q].cr3 /\ x.proc[q].regs = m.proc[q].regs
  <2>1. CASE q = p
    BY <1>1, <1>3, <2>1
  <2>2. CASE q # p
    BY <1>1, <1>2, <2>2
  <2> QED BY <2>1, <2>2
<1>5. SameSpaces(m, x)
  BY <1>1, <1>4 DEF SameSpaces, SameSpace, Live
<1> QED BY <1>1, <1>5, CoreSame

\* The stacks of p.
LEMMA StackCore ==
    ASSUME NEW m, NEW X, Core(m, X), NEW p \in Proc, Live(m, p), NEW S, IsFiniteSet(S),
           NEW x, x = [m EXCEPT !.proc[p].stacks = S]
    PROVE  /\ Core(x, X) /\ Put(m, x, p, WithStacks(m.proc[p], S)) /\ x.ok = m.ok /\ x.out = m.out
<1>1. PICK P : P = [m.proc EXCEPT ![p] = WithStacks(m.proc[p], S)]
  OBVIOUS
<1>2. IsMachine(m) /\ IsRecord(m.proc[p])
  BY DEF Core, Shape, IsProc, IsRecord
<1>3. x = [m EXCEPT !.proc = P, !.heap = m.heap]
  <2>1. x = [m EXCEPT !.proc = P]
    BY <1>1, Zenon DEF WithStacks
  <2> QED BY <1>2, <2>1 DEF IsMachine
<1>4. /\ SameTables(m, x) /\ x.used = m.used /\ x.free = m.free /\ x.proc = P
      /\ x.ok = m.ok /\ x.out = m.out
  BY <1>2, <1>3 DEF IsMachine, SameTables
<1>5. Put(m, x, p, WithStacks(m.proc[p], S))
  BY <1>1, <1>4 DEF Put
<1>6. PICK c : c = WithStacks(m.proc[p], S)
  OBVIOUS
<1>7. /\ IsRecord(c) /\ c.st = m.proc[p].st /\ c.cr3 = m.proc[p].cr3 /\ c.regs = m.proc[p].regs
      /\ c.stacks = S
  BY <1>2, <1>6, OtherFields
<1>8. Core(x, X)
  BY <1>4, <1>5, <1>6, <1>7, FieldCore DEF Live
<1> QED BY <1>4, <1>5, <1>8

\* Only the capabilities of p differ.
LEMMA CapsPut ==
    ASSUME NEW m, NEW X, Core(m, X), NEW p \in Proc, NEW S, NEW x, SameTables(m, x),
           x.used = m.used, x.free = m.free, Put(m, x, p, WithCaps(m.proc[p], S))
    PROVE  Core(x, X)
<1>1. IsRecord(m.proc[p])
  BY DEF Core, Shape, IsProc, IsRecord
<1>2. PICK c : c = WithCaps(m.proc[p], S)
  OBVIOUS
<1>3. /\ IsRecord(c) /\ c.st = m.proc[p].st /\ c.cr3 = m.proc[p].cr3 /\ c.regs = m.proc[p].regs
      /\ c.stacks = m.proc[p].stacks
  BY <1>1, <1>2, OtherFields
<1>4. IsFiniteSet(c.stacks) /\ (c.st # "live" => c.stacks = {})
  BY <1>3 DEF Core, Shape, IsProc
<1> QED BY <1>2, <1>3, <1>4, FieldCore

\* The capabilities of p, with the calls of kmalloc they took.
LEMMA CapsCore ==
    ASSUME NEW m, NEW X, Core(m, X), NEW p \in Proc, NEW S, NEW h,
           NEW x, x = [m EXCEPT !.proc[p].caps = S, !.heap = h]
    PROVE  Core(x, X) /\ Put(m, x, p, WithCaps(m.proc[p], S)) /\ x.ok = m.ok /\ x.out = m.out
<1>1. PICK P : P = [m.proc EXCEPT ![p] = WithCaps(m.proc[p], S)]
  OBVIOUS
<1>2. x = [m EXCEPT !.proc = P, !.heap = h]
  BY <1>1, Zenon DEF WithCaps
<1>3. IsMachine(m)
  BY DEF Core, Shape
<1>4. /\ SameTables(m, x) /\ x.used = m.used /\ x.free = m.free /\ x.proc = P
      /\ x.ok = m.ok /\ x.out = m.out
  BY <1>2, <1>3 DEF IsMachine, SameTables
<1>5. Put(m, x, p, WithCaps(m.proc[p], S))
  BY <1>1, <1>4 DEF Put
<1> QED BY <1>4, <1>5, CapsPut

\* The capabilities of p.
LEMMA JustCaps ==
    ASSUME NEW m, NEW X, Core(m, X), NEW p \in Proc, NEW S,
           NEW x, x = [m EXCEPT !.proc[p].caps = S]
    PROVE  Core(x, X) /\ Put(m, x, p, WithCaps(m.proc[p], S)) /\ x.ok = m.ok /\ x.out = m.out
<1>1. PICK P : P = [m.proc EXCEPT ![p] = WithCaps(m.proc[p], S)]
  OBVIOUS
<1>2. x = [m EXCEPT !.proc = P]
  BY <1>1, Zenon DEF WithCaps
<1>3. IsMachine(m)
  BY DEF Core, Shape
<1>4. /\ SameTables(m, x) /\ x.used = m.used /\ x.free = m.free /\ x.proc = P
      /\ x.ok = m.ok /\ x.out = m.out
  BY <1>2, <1>3 DEF IsMachine, SameTables
<1>5. Put(m, x, p, WithCaps(m.proc[p], S))
  BY <1>1, <1>4 DEF Put
<1> QED BY <1>4, <1>5, CapsPut

\* d is c with the regions S.
RegsOf(c, d, S) ==
    /\ d.st = c.st /\ d.priv = c.priv /\ d.cr3 = c.cr3 /\ d.regs = S
    /\ d.caps = c.caps /\ d.stacks = c.stacks

\* Regioned is a Put.
LEMMA RegionedPut ==
    ASSUME NEW m, NEW x, NEW p \in Proc, NEW S, Regioned(m, x, p, S), Shape(m)
    PROVE  /\ Put(m, x, p, WithRegs(m.proc[p], S)) /\ x.proc[p] = WithRegs(m.proc[p], S)
           /\ OthersSame(m, x, p) /\ RegsOf(m.proc[p], x.proc[p], S)
<1>1. Put(m, x, p, WithRegs(m.proc[p], S)) /\ HasProcs(m)
  BY DEF Put, Regioned, Shape, HasProcs
<1>2. x.proc[p] = WithRegs(m.proc[p], S) /\ OthersSame(m, x, p)
  BY <1>1, PutAt
<1>3. IsRecord(m.proc[p])
  BY DEF Shape, IsProc, IsRecord
<1> QED BY <1>1, <1>2, <1>3, RegsFields DEF RegsOf

\* One change of the regions after another.
LEMMA RegionedTrans ==
    ASSUME NEW m, NEW y, NEW x, NEW p \in Proc, NEW S, NEW T, Shape(m),
           Regioned(m, y, p, S), Regioned(y, x, p, T)
    PROVE  Regioned(m, x, p, T)
<1>1. Put(m, y, p, WithRegs(m.proc[p], S)) /\ y.proc[p] = WithRegs(m.proc[p], S)
  BY RegionedPut
<1>2. Put(y, x, p, WithRegs(y.proc[p], T))
  BY DEF Regioned, Put
<1>3. WithRegs(y.proc[p], T) = WithRegs(m.proc[p], T)
  <2>1. IsRecord(m.proc[p])
    BY DEF Shape, IsProc, IsRecord
  <2> QED BY <1>1, <2>1 DEF WithRegs, IsRecord
<1>4. Put(m, x, p, WithRegs(m.proc[p], T))
  BY <1>1, <1>2, <1>3, PutPut DEF Shape, HasProcs
<1> QED BY <1>4 DEF Put, Regioned

-----------------------------------------------------------------------------
(* The end of a process. *)

\* The loop of vmm_destroy, round by round.
LEMMA DestroyLoop ==
    ASSUME NEW m, NEW p, NEW d, d = m.proc[p].cr3, NEW n \in Nat, n = Cardinality(Regions(m, p))
    PROVE  \E g : /\ g[0] = m
                  /\ vmm_destroy(m, p) =
                        [arch_paging_pool_free(arch_destroy_address_space(g[n], d), d)
                            EXCEPT !.proc[p].cr3 = 0]
                  /\ \A i \in 1 .. n :
                        g[i] = RemoveRegion(g[i - 1], p, Lowest(Regions(g[i - 1], p)))
<1> DEFINE f == CHOOSE g : g = [i \in 0 .. n |-> IF i = 0 THEN m
                    ELSE RemoveRegion(g[i - 1], p, Lowest(Regions(g[i - 1], p)))]
<1>1. vmm_destroy(m, p) = [arch_paging_pool_free(arch_destroy_address_space(f[n], d), d)
                            EXCEPT !.proc[p].cr3 = 0]
  BY DEF Loop, vmm_destroy, Lowest
<1>2. ASSUME NEW g
      PROVE  Runs(g, "destroy", m, n, p, 0, 0) <=>
                g = [i \in 0 .. n |-> IF i = 0 THEN m
                        ELSE RemoveRegion(g[i - 1], p, Lowest(Regions(g[i - 1], p)))]
  BY DEF Runs, Round
<1>3. Runs(f, "destroy", m, n, p, 0, 0)
  BY <1>2, LoopRuns
<1> HIDE DEF f
<1>4. f[0] = m /\ \A i \in 1 .. n : f[i] = RemoveRegion(f[i - 1], p, Lowest(Regions(f[i - 1], p)))
  BY <1>3 DEF Runs, Round
<1> QED BY <1>1, <1>4

\* p has lost regions and k are left.
Losing(m, x, p, k, X) ==
    \E S : Regioned(m, x, p, S) /\ Core(x, X) /\ Live(x, p) /\ Regular(S) /\ Cardinality(S) = k

\* A round takes one.
LEMMA LosingStep ==
    ASSUME NEW m, NEW X, Core(m, X), NEW p \in Proc, Live(m, p), NEW y, NEW k \in Nat, k > 0,
           Losing(m, y, p, k, X), NEW x, x = RemoveRegion(y, p, Lowest(Regions(y, p)))
    PROVE  Losing(m, x, p, k - 1, X)
<1>1. PICK S : Regioned(m, y, p, S) /\ Core(y, X) /\ Live(y, p) /\ Regular(S) /\ Cardinality(S) = k
  BY DEF Losing
<1>2. Shape(m) /\ Shape(y)
  BY <1>1 DEF Core
<1>3. y.proc[p].regs = S
  <2>1. RegsOf(m.proc[p], y.proc[p], S)
    BY <1>1, <1>2, RegionedPut
  <2> QED BY <2>1 DEF RegsOf
<1>4. PICK r : r = Lowest(S)
  OBVIOUS
<1>5. S # {}
  BY <1>1, FS_EmptySet
<1>6. r \in S
  BY <1>1, <1>4, <1>5, LowestIs
<1>7. LosesRegion(y, x, p, r, X)
  BY <1>1, <1>3, <1>4, <1>6, RemoveRegionCore DEF Regions
<1>8. Regioned(y, x, p, S \ {r}) /\ Core(x, X)
  BY <1>3, <1>7 DEF LosesRegion
<1>9. Regioned(m, x, p, S \ {r})
  BY <1>1, <1>2, <1>8, RegionedTrans
<1>10. Regular(S \ {r}) /\ Cardinality(S \ {r}) = k - 1
  <2>1. IsFiniteSet(S \ {r}) /\ Cardinality(S \ {r}) = k - 1
    BY <1>1, <1>6, FS_RemoveElement DEF Regular
  <2> QED BY <1>1, <2>1 DEF Regular
<1>11. Live(x, p)
  <2>1. RegsOf(y.proc[p], x.proc[p], S \ {r})
    BY <1>2, <1>8, RegionedPut
  <2> QED BY <1>1, <2>1 DEF Live, RegsOf
<1> QED BY <1>8, <1>9, <1>10, <1>11 DEF Losing

\* A process that is gone.
DeadProc == [NoProcess EXCEPT !.st = "dead"]

\* The fields of a process that has exited.
LEMMA DeadFields ==
    /\ IsProc(DeadProc) /\ DeadProc.st = "dead" /\ DeadProc.regs = {} /\ DeadProc.caps = {}
    /\ DeadProc.stacks = {}
<1>1. DeadProc = [st |-> "dead", priv |-> "user", cr3 |-> 0, regs |-> {}, caps |-> {}, stacks |-> {}]
  BY DEF DeadProc, NoProcess
<1>2. IsFiniteSet({}) /\ Regular({})
  BY FS_EmptySet DEF Regular
<1> QED BY <1>1, <1>2 DEF IsProc

\* Tables that are sound and walks that show the regions.
LEMMA TablesTogether ==
    ASSUME NEW m, NEW x, TablesSound(m), Structs(x, DirsOf(x)), DirsApart(x), SameKernel(m, x),
           AllWalks(x)
    PROVE  TablesSound(x) /\ Base(x) = Base(m)
<1>1. HeapFrames(x) = HeapFrames(m) /\ Base(x) = Base(m) /\ Identity(x)
  BY KernelKept DEF TablesSound
<1> QED BY <1>1 DEF TablesSound

\* A process without regions goes with its directory and its tables.
LEMMA SpaceDropped ==
    ASSUME NEW m, NEW X, Core(m, X), NEW p \in Proc, Live(m, p), m.proc[p].regs = {},
           NEW z, DropsDirectory(m, z, m.proc[p].cr3), NEW x, SameTables(z, x),
           x.used = m.used, x.free = m.free, Put(m, x, p, DeadProc)
    PROVE  Core(x, X)
<1>1. PICK D, d : D = DirsOf(m) /\ d = m.proc[p].cr3
  OBVIOUS
<1>2. TablesSound(m) /\ Shape(m) /\ Structs(m, D) /\ d \in D /\ HasProcs(m)
  BY <1>1, LiveDirectory DEF Core, Shape, HasProcs
<1>3. /\ Structs(z, D \ {d}) /\ z.ent[KernelDir] = m.ent[KernelDir]
      /\ \A e \in (D \cup {KernelDir}) \ {d} : SameWalks(m, z, e)
  BY <1>1, <1>2, DropDirectory
<1>4. \A e : SameWalks(z, x, e)
  BY DEF SameTables, SameWalks, Translate, Present
<1>5. Structs(x, D \ {d}) /\ x.ent[KernelDir] = m.ent[KernelDir]
  <2>1. Beside(z, x, D \ {d}, d)
    BY <1>3, SameBeside
  <2> QED BY <1>3, <2>1 DEF Beside
<1>6. \A e \in (D \cup {KernelDir}) \ {d} : SameWalks(m, x, e)
  BY <1>3, <1>4 DEF SameWalks
<1>7. HasProcs(x) /\ x.proc[p] = DeadProc /\ OthersSame(m, x, p)
  BY <1>2, PutAt
<1>8. ~Live(x, p) /\ \A q \in Proc : q # p => (Live(x, q) <=> Live(m, q))
  BY <1>7, DeadFields DEF Live, OthersSame
<1>9. \A q \in Proc : Live(m, q) /\ m.proc[q].cr3 = d => q = p
  BY <1>1, <1>2 DEF TablesSound, DirsApart
<1>10. DirsOf(x) = D \ {d}
  BY <1>1, <1>7, <1>8, <1>9 DEF DirsOf, OthersSame
<1>11. DirsApart(x)
  BY <1>2, <1>7, <1>8 DEF TablesSound, DirsApart, OthersSame
<1>12. AllWalks(x)
  <2>1. SUFFICES ASSUME NEW q \in Proc, Live(x, q) PROVE Walks(x, x.proc[q].cr3, x.proc[q].regs)
    BY DEF AllWalks
  <2>2. q # p /\ Live(m, q) /\ x.proc[q] = m.proc[q]
    BY <1>7, <1>8, <2>1 DEF OthersSame
  <2>3. m.proc[q].cr3 \in D \ {d}
    BY <1>1, <1>9, <2>2 DEF DirsOf
  <2>4. SameWalks(m, x, m.proc[q].cr3)
    BY <1>6, <2>3
  <2>5. Walks(m, m.proc[q].cr3, m.proc[q].regs)
    BY <1>2, <2>2 DEF TablesSound, AllWalks
  <2>6. Walks(x, m.proc[q].cr3, m.proc[q].regs)
    BY <2>4, <2>5 DEF Walks, SameWalks
  <2> QED BY <2>2, <2>6
<1>13. SameKernel(m, x)
  <2>1. KernelDir # d
    BY <1>2, DirFrames DEF Structs
  <2> QED BY <1>5, <1>6, <2>1 DEF SameKernel
<1>14. TablesSound(x) /\ Base(x) = Base(m)
  BY <1>2, <1>5, <1>10, <1>11, <1>12, <1>13, TablesTogether
<1>15. Shape(x)
  <2>1. \A q \in Proc : IsProc(x.proc[q])
    BY <1>2, <1>7, DeadFields DEF Shape, OthersSame
  <2> QED BY <1>7, <2>1 DEF Shape, HasProcs, SameTables
<1>16. \A q \in Proc : x.proc[q].regs = m.proc[q].regs
  BY <1>7, DeadFields DEF OthersSame
<1>17. PagesSound(m.used, m.free, x.proc, Base(m), X)
  BY <1>16, PagesSame DEF Core
<1> QED BY <1>14, <1>15, <1>17 DEF Core

\* vmm_destroy and the end of the process table's entry: everything of the process
\* goes and nothing else.
LEMMA DestroyCore ==
    ASSUME NEW m, NEW X, Core(m, X), NEW p \in Proc, Live(m, p),
           NEW x, x = Gone(vmm_destroy(m, p), p)
    PROVE  Core(x, X) /\ Put(m, x, p, DeadProc)
<1>1. PICK S, d : S = m.proc[p].regs /\ d = m.proc[p].cr3 /\ Regular(S)
  BY DEF Core, Shape, IsProc
<1>2. PICK n \in Nat : n = Cardinality(S)
  BY <1>1, FS_CardinalityType DEF Regular
<1>3. PICK g : /\ g[0] = m
               /\ vmm_destroy(m, p) =
                    [arch_paging_pool_free(arch_destroy_address_space(g[n], d), d)
                        EXCEPT !.proc[p].cr3 = 0]
               /\ \A i \in 1 .. n :
                    g[i] = RemoveRegion(g[i - 1], p, Lowest(Regions(g[i - 1], p)))
  BY <1>1, <1>2, DestroyLoop, SMTT(60) DEF Regions
<1>4. Shape(m) /\ HasProcs(m)
  BY DEF Core, Shape, HasProcs
<1> DEFINE N == {i \in 0 .. n : Losing(m, g[i], p, n - i, X)}
<1>5. 0 \in N
  <2>1. Regioned(m, m, p, S)
    <3>1. WithRegs(m.proc[p], S) = m.proc[p]
      BY <1>1, <1>4 DEF WithRegs, Shape, IsProc
    <3>2. [m.proc EXCEPT ![p] = m.proc[p]] = m.proc
      BY <1>4 DEF HasProcs
    <3> QED BY <3>1, <3>2 DEF Regioned
  <2>2. Losing(m, g[0], p, n, X)
    BY <1>1, <1>2, <1>3, <2>1 DEF Losing
  <2>3. n - 0 = n /\ 0 \in 0 .. n
    OBVIOUS
  <2> QED BY <2>2, <2>3
<1>6. ASSUME NEW i \in 1 .. n, i - 1 \in N PROVE i \in N
  <2>1. PICK k \in Nat : k = n - (i - 1) /\ k > 0 /\ k - 1 = n - i
    OBVIOUS
  <2>2. Losing(m, g[i - 1], p, k, X)
    BY <1>6, <2>1
  <2>3. g[i] = RemoveRegion(g[i - 1], p, Lowest(Regions(g[i - 1], p)))
    BY <1>3
  <2>4. Losing(m, g[i], p, k - 1, X)
    BY <2>1, <2>2, <2>3, LosingStep
  <2> QED BY <2>1, <2>4
<1>7. n \in N
  <2> HIDE DEF N
  <2> QED BY <1>5, <1>6, LoopInvariant
<1>8. PICK y : y = g[n]
  OBVIOUS
<1>9. Regioned(m, y, p, {}) /\ Core(y, X) /\ Live(y, p)
  <2>1. Losing(m, y, p, 0, X)
    BY <1>7, <1>8
  <2>2. PICK T : Regioned(m, y, p, T) /\ Core(y, X) /\ Live(y, p) /\ Regular(T) /\ Cardinality(T) = 0
    BY <2>1 DEF Losing
  <2>3. T = {}
    BY <2>2, FS_EmptySet DEF Regular
  <2> QED BY <2>2, <2>3
<1>10. /\ Put(m, y, p, WithRegs(m.proc[p], {})) /\ y.proc[p].regs = {} /\ y.proc[p].cr3 = d
  <2>1. Put(m, y, p, WithRegs(m.proc[p], {})) /\ RegsOf(m.proc[p], y.proc[p], {})
    BY <1>4, <1>9, RegionedPut
  <2> QED BY <1>1, <2>1 DEF RegsOf
<1>11. PICK z : z = arch_paging_pool_free(arch_destroy_address_space(y, d), d)
  OBVIOUS
<1>12. DropsDirectory(y, z, d)
  <2>1. Structs(y, DirsOf(y)) /\ d \in DirsOf(y)
    BY <1>9, <1>10, LiveDirectory DEF Core
  <2> QED BY <1>11, <2>1, DestroyIsDrop
<1>13. IsMachine(z) /\ z.used = y.used /\ z.free = y.free /\ z.proc = y.proc
  BY <1>12 DEF DropsDirectory, TablesOnly
<1>14. /\ SameTables(z, x) /\ x.used = z.used /\ x.free = z.free
       /\ x.proc = [z.proc EXCEPT ![p] = DeadProc]
  <2>1. PICK w : w = [z EXCEPT !.proc[p].cr3 = 0]
    OBVIOUS
  <2>2. x = [w EXCEPT !.proc[p] = DeadProc]
    BY <1>3, <1>8, <1>11, <2>1 DEF Gone, DeadProc
  <2>3. PICK e : e = [z.proc[p] EXCEPT !.cr3 = 0]
    OBVIOUS
  <2>4. w = [z EXCEPT !.proc = [z.proc EXCEPT ![p] = e]]
    BY <2>1, <2>3, Zenon
  <2>5. SameTables(z, w) /\ w.used = z.used /\ w.free = z.free /\ w.proc = [z.proc EXCEPT ![p] = e]
    BY <1>13, <2>4 DEF IsMachine, SameTables
  <2>6. /\ SameTables(w, x) /\ x.used = w.used /\ x.free = w.free
        /\ x.proc = [w.proc EXCEPT ![p] = DeadProc]
    <3>1. x = [w EXCEPT !.proc = [w.proc EXCEPT ![p] = DeadProc]]
      BY <2>2, Zenon
    <3> QED BY <2>5, <3>1 DEF IsMachine, SameTables
  <2>7. x.proc = [z.proc EXCEPT ![p] = DeadProc]
    <3>1. PICK P : P = z.proc
      OBVIOUS
    <3>2. [[P EXCEPT ![p] = e] EXCEPT ![p] = DeadProc] = [P EXCEPT ![p] = DeadProc]
      OBVIOUS
    <3> QED BY <2>5, <2>6, <3>1, <3>2
  <2> QED BY <2>5, <2>6, <2>7 DEF SameTables
<1>15. Put(y, x, p, DeadProc) /\ x.used = y.used /\ x.free = y.free
  BY <1>13, <1>14 DEF Put
<1>16. Core(x, X)
  BY <1>9, <1>10, <1>12, <1>14, <1>15, SpaceDropped
<1>17. Put(m, x, p, DeadProc)
  BY <1>4, <1>10, <1>15, PutPut
<1> QED BY <1>16, <1>17

\* What FreeStack does: the owned region around va goes, if there is one, and the stack.
FreesStack(m, x, p, va, X) ==
    /\ Core(x, X) /\ Live(x, p)
    /\ \E S : /\ Put(m, x, p, WithStacks(WithRegs(m.proc[p], S), m.proc[p].stacks \ {va}))
              /\ \/ S = m.proc[p].regs /\ \A r \in S : ~(r.own /\ Covers(r, va))
                 \/ \E r \in m.proc[p].regs :
                        r.own /\ Covers(r, va) /\ S = m.proc[p].regs \ {r}

\* Giving back a stack keeps the invariant and takes at most its region.
LEMMA FreeStackCore ==
    ASSUME NEW m, NEW X, Core(m, X), NEW p \in Proc, Live(m, p), NEW va,
           NEW x, x = FreeStack(m, p, va)
    PROVE  FreesStack(m, x, p, va, X)
<1>1. PICK y : y = vmm_free_pages(m, p, va)
  OBVIOUS
<1>2. Shape(m) /\ HasProcs(m)
  BY DEF Core, Shape, HasProcs
<1>3. PICK S : /\ Regioned(m, y, p, S) /\ Core(y, X)
               /\ \/ S = m.proc[p].regs /\ \A r \in S : ~(r.own /\ Covers(r, va))
                  \/ \E r \in m.proc[p].regs :
                        r.own /\ Covers(r, va) /\ S = m.proc[p].regs \ {r}
  <2>1. CASE y = m /\ \A r \in m.proc[p].regs : ~(r.own /\ Covers(r, va))
    <3>1. WithRegs(m.proc[p], m.proc[p].regs) = m.proc[p]
      BY <1>2 DEF WithRegs, Shape, IsProc
    <3>2. [m.proc EXCEPT ![p] = m.proc[p]] = m.proc
      BY <1>2 DEF HasProcs
    <3>3. Regioned(m, y, p, m.proc[p].regs)
      BY <2>1, <3>1, <3>2 DEF Regioned
    <3> QED BY <2>1, <3>3
  <2>2. CASE \E r \in m.proc[p].regs : r.own /\ Covers(r, va) /\ LosesRegion(m, y, p, r, X)
    BY <2>2 DEF LosesRegion
  <2> QED BY <1>1, <2>1, <2>2, FreePagesCore
<1>4. /\ Put(m, y, p, WithRegs(m.proc[p], S)) /\ y.proc[p] = WithRegs(m.proc[p], S)
      /\ RegsOf(m.proc[p], y.proc[p], S)
  <2>1. Regioned(m, y, p, S)
    BY <1>3
  <2> QED BY ONLY p \in Proc, <1>2, <2>1, RegionedPut
<1>5. Live(y, p) /\ y.proc[p].stacks = m.proc[p].stacks
  BY <1>4 DEF Live, RegsOf
<1>6. PICK T : T = m.proc[p].stacks \ {va}
  OBVIOUS
<1>7. x = [y EXCEPT !.proc[p].stacks = T]
  BY <1>1, <1>5, <1>6 DEF FreeStack
<1>8. IsFiniteSet(T)
  BY <1>2, <1>6, FS_Subset DEF Shape, IsProc
<1>9. Core(x, X) /\ Put(y, x, p, WithStacks(y.proc[p], T))
  BY <1>3, <1>5, <1>7, <1>8, StackCore
<1>10. Put(m, x, p, WithStacks(WithRegs(m.proc[p], S), T))
  BY <1>2, <1>4, <1>9, PutPut
<1>11. Live(x, p)
  <2>1. HasProcs(y) /\ IsRecord(y.proc[p])
    BY <1>3 DEF Core, Shape, IsProc, IsRecord, HasProcs
  <2>2. x.proc[p] = WithStacks(y.proc[p], T)
    BY <1>9, <2>1, PutAt
  <2>3. x.proc[p].st = y.proc[p].st
    BY <2>1, <2>2, OtherFields
  <2> QED BY <1>5, <2>3 DEF Live
<1> QED BY <1>3, <1>6, <1>9, <1>10, <1>11 DEF FreesStack

\* p without its capabilities.
Capless(x, p) == [x EXCEPT !.proc[p].caps = {}]

\* The loop of proc_exit, round by round.
LEMMA ExitLoop ==
    ASSUME NEW m, NEW p, NEW n \in Nat, n = Cardinality(m.proc[p].stacks)
    PROVE  \E g : /\ g[0] = m
                  /\ proc_exit(m, p) = Gone(vmm_destroy(Capless(g[n], p), p), p)
                  /\ \A i \in 1 .. n :
                        g[i] = FreeStack(g[i - 1], p, AStack(g[i - 1], p))
<1> DEFINE f == CHOOSE g : g = [i \in 0 .. n |-> IF i = 0 THEN m
                    ELSE FreeStack(g[i - 1], p, AStack(g[i - 1], p))]
<1>1. proc_exit(m, p) = Gone(vmm_destroy(Capless(f[n], p), p), p)
  BY DEF Loop, proc_exit, AStack, Capless
<1>2. ASSUME NEW g
      PROVE  Runs(g, "exit", m, n, p, 0, 0) <=>
                g = [i \in 0 .. n |-> IF i = 0 THEN m
                    ELSE FreeStack(g[i - 1], p, AStack(g[i - 1], p))]
  BY DEF Runs, Round
<1>3. Runs(f, "exit", m, n, p, 0, 0)
  BY <1>2, LoopRuns
<1> HIDE DEF f
<1>4. f[0] = m /\ \A i \in 1 .. n :
        f[i] = FreeStack(f[i - 1], p, AStack(f[i - 1], p))
  BY <1>3 DEF Runs, Round
<1> QED BY <1>1, <1>4

\* p is still there, with k stacks, and no other process has changed.
Exiting(m, x, p, k, X) ==
    /\ Core(x, X) /\ Live(x, p) /\ Put(m, x, p, x.proc[p])
    /\ IsFiniteSet(x.proc[p].stacks) /\ Cardinality(x.proc[p].stacks) = k

\* One round of the loop of proc_exit over the stacks.
LEMMA ExitingStep ==
    ASSUME NEW m, HasProcs(m), NEW X, NEW p \in Proc, NEW y, NEW k \in Nat, k > 0,
           Exiting(m, y, p, k, X), NEW va, va = AStack(y, p),
           NEW x, x = FreeStack(y, p, va)
    PROVE  Exiting(m, x, p, k - 1, X)
<1>1. FreesStack(y, x, p, va, X)
  BY FreeStackCore DEF Exiting
<1>2. PICK S : Put(y, x, p, WithStacks(WithRegs(y.proc[p], S), y.proc[p].stacks \ {va}))
  BY <1>1 DEF FreesStack
<1>3. va \in y.proc[p].stacks
  BY FS_EmptySet DEF Exiting, AStack
<1>4. HasProcs(y) /\ IsRecord(y.proc[p])
  BY DEF Exiting, Core, Shape, IsProc, IsRecord, HasProcs
<1>5. x.proc[p] = WithStacks(WithRegs(y.proc[p], S), y.proc[p].stacks \ {va})
  <2>1. PICK c : c = WithStacks(WithRegs(y.proc[p], S), y.proc[p].stacks \ {va})
    OBVIOUS
  <2>2. Put(y, x, p, c)
    BY <1>2, <2>1
  <2>3. x.proc[p] = c
    BY ONLY p \in Proc, <1>4, <2>2, PutAt
  <2> QED BY <2>1, <2>3
<1>6. x.proc[p].stacks = y.proc[p].stacks \ {va}
  <2>1. PICK c, T : c = WithRegs(y.proc[p], S) /\ T = y.proc[p].stacks \ {va}
    OBVIOUS
  <2>2. IsRecord(c)
    BY <1>4, <2>1, RegsFields
  <2>3. WithStacks(c, T).stacks = T
    BY <2>2, OtherFields
  <2> QED BY <1>5, <2>1, <2>3
<1>7. IsFiniteSet(x.proc[p].stacks) /\ Cardinality(x.proc[p].stacks) = k - 1
  <2>1. PICK T : T = y.proc[p].stacks /\ IsFiniteSet(T) /\ Cardinality(T) = k /\ va \in T
    BY <1>3 DEF Exiting
  <2>2. IsFiniteSet(T \ {va}) /\ Cardinality(T \ {va}) = k - 1
    BY ONLY <2>1, FS_RemoveElement
  <2> QED BY <1>6, <2>1, <2>2
<1>8. Put(m, x, p, x.proc[p])
  BY <1>2, <1>5, PutPut DEF Exiting
<1> QED BY <1>1, <1>7, <1>8 DEF Exiting, FreesStack

\* proc_exit: everything of the process goes and nothing else.
LEMMA ExitCore ==
    ASSUME NEW m, NEW X, Core(m, X), NEW p \in Proc, Live(m, p), NEW x, x = proc_exit(m, p)
    PROVE  Core(x, X) /\ Put(m, x, p, DeadProc)
<1>1. HasProcs(m) /\ IsFiniteSet(m.proc[p].stacks)
  BY DEF Core, Shape, IsProc, HasProcs
<1>2. PICK n \in Nat : n = Cardinality(m.proc[p].stacks)
  BY <1>1, FS_CardinalityType
<1>3. PICK g : /\ g[0] = m
               /\ proc_exit(m, p) = Gone(vmm_destroy(Capless(g[n], p), p), p)
               /\ \A i \in 1 .. n :
                    g[i] = FreeStack(g[i - 1], p, AStack(g[i - 1], p))
  BY ONLY <1>2, n \in Nat, ExitLoop
<1> DEFINE N == {i \in 0 .. n : Exiting(m, g[i], p, n - i, X)}
<1>4. 0 \in N
  <2>1. Put(m, m, p, m.proc[p])
    BY <1>1 DEF HasProcs, Put
  <2>2. Exiting(m, g[0], p, n, X)
    BY <1>1, <1>2, <1>3, <2>1 DEF Exiting
  <2>3. n - 0 = n /\ 0 \in 0 .. n
    OBVIOUS
  <2> QED BY <2>2, <2>3
<1>5. ASSUME NEW i \in 1 .. n, i - 1 \in N PROVE i \in N
  <2>1. PICK k \in Nat : k = n - (i - 1) /\ k > 0 /\ k - 1 = n - i
    OBVIOUS
  <2>2. Exiting(m, g[i - 1], p, k, X)
    BY <1>5, <2>1
  <2>3. g[i] = FreeStack(g[i - 1], p, AStack(g[i - 1], p))
    BY <1>3
  <2>4. Exiting(m, g[i], p, k - 1, X)
    BY <1>1, <2>1, <2>2, <2>3, ExitingStep
  <2> QED BY <2>1, <2>4
<1>6. n \in N
  <2> HIDE DEF N
  <2> QED BY <1>4, <1>5, LoopInvariant
<1>7. PICK y, z : y = g[n] /\ z = Capless(y, p)
  OBVIOUS
<1>8. Core(y, X) /\ Live(y, p) /\ Put(m, y, p, y.proc[p])
  BY <1>6, <1>7 DEF Exiting
<1>9. Core(z, X) /\ Put(y, z, p, WithCaps(y.proc[p], {}))
  <2>1. z = [y EXCEPT !.proc[p].caps = {}, !.heap = y.heap]
    BY <1>7, <1>8 DEF Core, Shape, IsMachine, Capless
  <2> QED BY <1>8, <2>1, CapsCore
<1>10. Live(z, p)
  <2>1. HasProcs(y) /\ IsRecord(y.proc[p])
    BY <1>8 DEF Core, Shape, IsProc, IsRecord, HasProcs
  <2>2. z.proc[p] = WithCaps(y.proc[p], {})
    BY <1>9, <2>1, PutAt
  <2>3. z.proc[p].st = y.proc[p].st
    BY <2>1, <2>2, OtherFields
  <2> QED BY <1>8, <2>3 DEF Live
<1>11. x = Gone(vmm_destroy(z, p), p)
  BY <1>3, <1>7
<1>12. Core(x, X) /\ Put(z, x, p, DeadProc)
  BY <1>9, <1>10, <1>11, DestroyCore
<1>13. Put(m, z, p, WithCaps(y.proc[p], {}))
  BY <1>1, <1>8, <1>9, PutPut
<1>14. Put(m, x, p, DeadProc)
  BY <1>1, <1>12, <1>13, PutPut
<1> QED BY <1>12, <1>14

-----------------------------------------------------------------------------
(* The start of a process. *)

\* The master directory is a directory like the others.
LEMMA MasterDirectory ==
    ASSUME NEW m, NEW D, Structs(m, D)
    PROVE  Directory(m, KernelDir)
<1>1. InUse(m, D) /\ MasterPart(m) /\ TabsIn(m, D) /\ TabsApart(m, D)
  BY DEF Structs
<1>2. KernelDir \notin m.pool /\ KernelDir \in D \cup {KernelDir}
  BY <1>1, DirFrames
<1>3. \A i \in DOMAIN m.ent[KernelDir] : m.ent[KernelDir][i].big \in BOOLEAN
  BY <1>1 DEF MasterPart, KernelEntry
<1>4. \A i \in DOMAIN m.ent[KernelDir] :
        m.ent[KernelDir][i].big = FALSE => Tab(m, KernelDir, i)
  BY DEF Tab
<1>5. \A i \in DOMAIN m.ent[KernelDir] :
        m.ent[KernelDir][i].big = FALSE => m.ent[KernelDir][i].frame \in m.pool \ {KernelDir}
  BY <1>1, <1>2, <1>4 DEF TabsIn
<1>6. \A i, j \in DOMAIN m.ent[KernelDir] :
        /\ m.ent[KernelDir][i].big = FALSE /\ m.ent[KernelDir][j].big = FALSE
        /\ m.ent[KernelDir][i].frame = m.ent[KernelDir][j].frame
        => i = j
  BY <1>1, <1>2, <1>4 DEF TabsApart
<1> QED BY <1>1, <1>3, <1>5, <1>6 DEF Directory, InUse

\* A process that is not live is replaced by a dead one.
LEMMA NeverLived ==
    ASSUME NEW m, NEW X, Core(m, X), NEW p \in Proc, ~Live(m, p),
           NEW x, SameTables(m, x), x.used = m.used, x.free = m.free, Put(m, x, p, DeadProc)
    PROVE  Core(x, X)
<1>1. Shape(m) /\ HasProcs(m)
  BY DEF Core, Shape, HasProcs
<1>2. HasProcs(x) /\ x.proc[p] = DeadProc /\ OthersSame(m, x, p)
  BY <1>1, PutAt
<1>3. m.proc[p].regs = {} /\ \A q \in Proc : IsProc(m.proc[q])
  BY <1>1 DEF Shape, IsProc, Live
<1>4. SameSpace(m, x, p) /\ IsProc(x.proc[p])
  BY <1>2, <1>3, DeadFields DEF SameSpace, Live
<1>5. \A q \in Proc : q # p => SameSpace(m, x, q) /\ IsProc(x.proc[q])
  BY <1>2, <1>3 DEF SameSpace, OthersSame, Live
<1>6. SameSpaces(m, x)
  BY <1>2, <1>4, <1>5 DEF SameSpaces, HasProcs
<1> QED BY <1>6, CoreSame

\* A live process without regions, capabilities and stacks under the directory f.
NewProc(priv, f) == [st |-> "live", priv |-> priv, cr3 |-> f, regs |-> {}, caps |-> {}, stacks |-> {}]

\* The fields of a process p_create_ex has just set up.
LEMMA NewFields ==
    ASSUME NEW priv, NEW f, NEW c, c = NewProc(priv, f)
    PROVE  /\ IsProc(c) /\ IsRecord(c) /\ c.st = "live" /\ c.priv = priv /\ c.cr3 = f
           /\ c.regs = {} /\ c.caps = {} /\ c.stacks = {}
<1>1. IsFiniteSet({}) /\ Regular({})
  BY FS_EmptySet DEF Regular
<1> QED BY <1>1 DEF IsProc, IsRecord, NewProc

\* Above the user heap the master directory maps nothing.
LEMMA NothingAbove ==
    ASSUME NEW m, NEW D, Structs(m, D), NEW a \in Nat, PageOf(HeapEnd) <= PageOf(a)
    PROVE  Translate(m, KernelDir, a) = {}
<1>1. HeapEnd \in Nat /\ HeapEnd % (PageSize * PerTable) = 0
  BY PagingAssumption
<1>2. PICK i, h, b : i = PD_INDEX(a) /\ h = PD_INDEX(HeapEnd) /\ b = PD_INDEX(HeapBase)
  OBVIOUS
<1>3. i \in Nat /\ h \in Nat /\ b \in Nat
  BY <1>2, IndexOfPage, Bounds
<1>4. h <= i
  BY <1>1, <1>2, EntryOrder
<1>5. b <= h
  <2>1. PageOf(HeapBase) <= PageOf(HeapEnd)
    BY Bounds
  <2>2. HeapBase \in Nat /\ HeapBase % (PageSize * PerTable) = 0
    BY PagingAssumption
  <2> QED BY <1>1, <1>2, <2>1, <2>2, EntryOrder
<1>6. i \notin DOMAIN m.ent[KernelDir]
  BY <1>2, <1>3, <1>4, <1>5 DEF Structs, MasterPart, KernelEntry
<1> QED BY <1>2, <1>6 DEF Translate, Present

\* A process more, with a directory of its own.
LEMMA SpaceAdded ==
    ASSUME NEW m, NEW X, Core(m, X), NEW p \in Proc, ~Live(m, p), NEW f, NEW x,
           AddsDirectory(m, x, f), NEW priv, Put(m, x, p, NewProc(priv, f)),
           x.used = m.used, x.free = m.free
    PROVE  Core(x, X)
<1>1. PICK D, c : D = DirsOf(m) /\ c = NewProc(priv, f)
  OBVIOUS
<1>2. TablesSound(m) /\ Shape(m) /\ Structs(m, D) /\ HasProcs(m)
  BY <1>1 DEF Core, Shape, HasProcs, TablesSound
<1>3. /\ Structs(x, D \cup {f}) /\ x.ent[KernelDir] = m.ent[KernelDir] /\ f \notin D
      /\ \A e \in D \cup {KernelDir} : SameWalks(m, x, e)
      /\ \A a : Translate(x, f, a) = Translate(x, KernelDir, a)
  BY <1>2, NewDirectory
<1>4. HasProcs(x) /\ x.proc[p] = c /\ OthersSame(m, x, p)
  BY <1>1, <1>2, PutAt
<1>5. /\ IsProc(c) /\ c.st = "live" /\ c.cr3 = f /\ c.regs = {}
  BY <1>1, NewFields
<1>6. Live(x, p) /\ \A q \in Proc : q # p => (Live(x, q) <=> Live(m, q))
  BY <1>4, <1>5 DEF Live, OthersSame
<1>7. DirsOf(x) = D \cup {f}
  <2>1. \A g : g \in DirsOf(x) <=> \E q \in Proc : Live(x, q) /\ g = x.proc[q].cr3
    BY DEF DirsOf
  <2>2. \A g : g \in D <=> \E q \in Proc : Live(m, q) /\ g = m.proc[q].cr3
    BY <1>1 DEF DirsOf
  <2>3. \A g : g \in DirsOf(x) => g \in D \cup {f}
    BY <1>4, <1>5, <1>6, <2>1, <2>2 DEF OthersSame
  <2>4. \A g : g \in D => g \in DirsOf(x)
    BY <1>4, <1>6, <2>1, <2>2 DEF OthersSame
  <2>5. f \in DirsOf(x)
    BY <1>4, <1>5, <1>6, <2>1
  <2> QED BY <2>3, <2>4, <2>5
<1>8. DirsApart(x)
  <2>1. SUFFICES ASSUME NEW a \in Proc, NEW b \in Proc, Live(x, a), Live(x, b),
                        x.proc[a].cr3 = x.proc[b].cr3
                 PROVE  a = b
    BY DEF DirsApart
  <2>2. \A q \in Proc : q # p /\ Live(x, q) => x.proc[q].cr3 \in D
    BY <1>1, <1>4, <1>6 DEF OthersSame, DirsOf
  <2>3. CASE a = p \/ b = p
    BY <1>3, <1>4, <1>5, <2>1, <2>2, <2>3
  <2>4. CASE a # p /\ b # p
    BY <1>2, <1>4, <1>6, <2>1, <2>4 DEF OthersSame, TablesSound, DirsApart
  <2> QED BY <2>3, <2>4
<1>9. AllWalks(x)
  <2>1. SUFFICES ASSUME NEW q \in Proc, Live(x, q) PROVE Walks(x, x.proc[q].cr3, x.proc[q].regs)
    BY DEF AllWalks
  <2>2. CASE q # p
    <3>1. Live(m, q) /\ x.proc[q] = m.proc[q]
      BY <1>4, <1>6, <2>1, <2>2 DEF OthersSame
    <3>2. SameWalks(m, x, m.proc[q].cr3)
      BY <1>1, <1>3, <3>1 DEF DirsOf
    <3>3. Walks(m, m.proc[q].cr3, m.proc[q].regs)
      BY <1>2, <3>1 DEF TablesSound, AllWalks
    <3>4. Walks(x, m.proc[q].cr3, m.proc[q].regs)
      BY <3>2, <3>3 DEF Walks, SameWalks
    <3> QED BY <3>1, <3>4
  <2>3. CASE q = p
    <3>1. \A a \in Nat : PageOf(HeapEnd) <= PageOf(a) => Translate(x, KernelDir, a) = {}
      BY <1>3, NothingAbove
    <3>2. \A b : Shown({}, b) = {}
      BY DEF Shown
    <3>3. Walks(x, f, {})
      BY <1>3, <3>1, <3>2 DEF Walks
    <3> QED BY <1>4, <1>5, <2>3, <3>3
  <2> QED BY <2>2, <2>3
<1>10. SameKernel(m, x)
  BY <1>3 DEF SameKernel
<1>11. TablesSound(x) /\ Base(x) = Base(m)
  BY <1>2, <1>3, <1>7, <1>8, <1>9, <1>10, TablesTogether
<1>12. Shape(x)
  <2>1. \A q \in Proc : IsProc(x.proc[q])
    BY <1>2, <1>4, <1>5 DEF Shape, OthersSame
  <2> QED BY <1>4, <2>1 DEF Shape, HasProcs, AddsDirectory
<1>13. \A q \in Proc : x.proc[q].regs = m.proc[q].regs
  <2>1. m.proc[p].regs = {}
    BY <1>2 DEF Shape, IsProc, Live
  <2> QED BY <1>4, <1>5, <2>1 DEF OthersSame
<1>14. PagesSound(m.used, m.free, x.proc, Base(m), X)
  BY <1>13, PagesSame DEF Core
<1> QED BY <1>11, <1>12, <1>14 DEF Core

\* A call that started no process: p is as it was, or dead.
Ends(m, x, p, X) == ~x.ok /\ Core(x, X) /\ (x.proc = m.proc \/ Put(m, x, p, DeadProc))

\* A call that started the process p.
Fresh(m, x, p, priv, X) == x.ok /\ Core(x, X) /\ \E f : Put(m, x, p, NewProc(priv, f))

\* The tables, the pages and, but for p, the processes of m.
Beginning(m, x, p, c) ==
    SameTables(m, x) /\ x.used = m.used /\ x.free = m.free /\ Put(m, x, p, c)

\* p is given up before it had a directory.
LEMMA BeginningEnds ==
    ASSUME NEW m, NEW X, Core(m, X), NEW p \in Proc, ~Live(m, p), NEW y, NEW c,
           Beginning(m, y, p, c), NEW x, x = Failed(Gone(y, p))
    PROVE  Ends(m, x, p, X)
<1>1. IsMachine(y) /\ HasProcs(m) /\ Put(m, y, p, c)
  BY DEF Beginning, SameTables, Core, Shape, HasProcs
<1>2. PICK z : z = Gone(y, p)
  OBVIOUS
<1>3. z = [y EXCEPT !.proc = [y.proc EXCEPT ![p] = DeadProc]]
  BY <1>2, Zenon DEF Gone, DeadProc
<1>4. /\ SameTables(y, z) /\ z.used = y.used /\ z.free = y.free
      /\ z.proc = [y.proc EXCEPT ![p] = DeadProc]
  BY <1>1, <1>3 DEF IsMachine, SameTables
<1>5. Put(y, z, p, DeadProc) /\ IsMachine(z)
  BY <1>4 DEF Put, SameTables
<1>6. Put(m, z, p, DeadProc)
  BY <1>1, <1>5, PutPut
<1>7. SameTables(m, z) /\ z.used = m.used /\ z.free = m.free
  BY <1>4 DEF Beginning, SameTables
<1>8. Core(z, X)
  BY <1>6, <1>7, NeverLived
<1>9. Idle(z, x) /\ ~x.ok
  BY <1>2, <1>5, IdleSteps
<1>10. Core(x, X)
  BY <1>8, <1>9, CoreIdle
<1>11. Put(m, x, p, DeadProc)
  BY <1>6, <1>9 DEF Put, Idle
<1> QED BY <1>9, <1>10, <1>11 DEF Ends

\* The same when the call failed.
Stuck(m, x, p, c) == ~x.ok /\ Beginning(m, x, p, c)

\* Idle steps go on with the beginning.
LEMMA BeginningIdle ==
    ASSUME NEW m, NEW y, NEW x, NEW p, NEW c, Beginning(m, y, p, c), Idle(y, x)
    PROVE  Beginning(m, x, p, c)
BY DEF Beginning, Idle, SameTables, Put

\* vmm_create: a directory for p, or none.
LEMMA CreateSpace ==
    ASSUME NEW m, NEW X, Core(m, X), NEW p \in Proc, ~Live(m, p), NEW priv,
           NEW z, NEW e, Beginning(m, e, p, NewProc(priv, z)), NEW x, x = vmm_create(e, p)
    PROVE  Fresh(m, x, p, priv, X) \/ Stuck(m, x, p, NewProc(priv, z))
<1>1. PICK t, s, a, c : /\ t = kmalloc(e) /\ s = kmalloc(t) /\ a = arch_paging_pool_alloc(s)
                        /\ c = NewProc(priv, z)
  OBVIOUS
<1>2. Idle(e, t) /\ IsMachine(t)
  <2>1. IsMachine(e)
    BY DEF Beginning, SameTables
  <2>2. Idle(e, t)
    BY <1>1, <2>1, IdleSteps
  <2> QED BY <2>2 DEF Idle, SameTables
<1>3. Idle(t, s) /\ IsMachine(s)
  <2>1. Idle(t, s)
    BY <1>1, <1>2, IdleSteps
  <2> QED BY <2>1 DEF Idle, SameTables
<1>4. Beginning(m, t, p, c) /\ Beginning(m, s, p, c)
  BY <1>1, <1>2, <1>3, BeginningIdle
<1>5. CASE ~t.ok
  <2>1. x = t
    BY <1>1, <1>5 DEF vmm_create, Then
  <2> QED BY <1>1, <1>4, <1>5, <2>1 DEF Stuck
<1>6. CASE t.ok /\ ~s.ok
  <2>1. x = s
    BY <1>1, <1>6 DEF vmm_create, Then
  <2> QED BY <1>1, <1>4, <1>6, <2>1 DEF Stuck
<1>7. CASE t.ok /\ s.ok
  <2>1. x = IF a.ok THEN [arch_clone_kernel_pde(a, a.out) EXCEPT !.proc[p].cr3 = a.out,
                                                                 !.proc[p].regs = {}]
            ELSE a
    BY <1>1, <1>7 DEF vmm_create, Then
  <2>2. Structs(m, DirsOf(m)) /\ HasProcs(m) /\ InUse(m, DirsOf(m))
    BY DEF Core, TablesSound, Shape, HasProcs, Structs
  <2>3. Directory(m, KernelDir) /\ SameTables(m, s)
    BY <1>4, <2>2, MasterDirectory DEF Beginning
  <2>4. Directory(s, KernelDir)
    BY <2>3, SameTablesKeep
  <2>5. /\ IsMachine(a) /\ TablesOnly(s, a)
        /\ \/ a.ok = FALSE /\ a.pool = s.pool /\ a.ent = s.ent
           \/ /\ a.ok = TRUE /\ a.out \in PoolFrames \ s.pool
              /\ a.pool = s.pool \cup {a.out}
              /\ a.ent = [s.ent EXCEPT ![a.out] = NoEntries]
    BY <1>1, <2>4, PoolAlloc
  <2>6. CASE a.ok = FALSE
    <3>1. Idle(s, a)
      BY <2>5, <2>6 DEF Idle, SameTables, TablesOnly
    <3>2. Beginning(m, a, p, c)
      BY <1>4, <3>1, BeginningIdle
    <3> QED BY <1>1, <2>1, <2>6, <3>2 DEF Stuck
  <2>7. CASE a.ok = TRUE
    <3>1. PICK f, k : f = a.out /\ k = arch_clone_kernel_pde(a, f)
      OBVIOUS
    <3>2. x = [k EXCEPT !.proc[p].cr3 = f, !.proc[p].regs = {}]
      BY <2>1, <2>7, <3>1
    <3>3. /\ f \in PoolFrames \ m.pool /\ a.pool = m.pool \cup {f}
          /\ a.ent = [m.ent EXCEPT ![f] = NoEntries] /\ a.proc = s.proc
          /\ a.used = m.used /\ a.free = m.free
      BY <1>4, <2>5, <2>7, <3>1 DEF Beginning, SameTables, TablesOnly
    <3>4. /\ m.ent = [g \in Frames |-> m.ent[g]] /\ f \in Frames /\ KernelDir \in Frames
          /\ f # KernelDir
      BY <2>2, <3>3, PagingAssumption DEF InUse, Frames
    <3>5. k = [a EXCEPT !.ent = [a.ent EXCEPT ![f] = a.ent[KernelDir]]]
      BY <3>1, Zenon DEF arch_clone_kernel_pde
    <3>6. /\ IsMachine(k) /\ k.ent = [a.ent EXCEPT ![f] = a.ent[KernelDir]] /\ k.pool = a.pool
          /\ k.used = a.used /\ k.free = a.free /\ k.proc = a.proc /\ k.ok = a.ok
      BY <2>5, <3>5 DEF IsMachine
    <3>7. PICK F, G : F = m.ent /\ G = k.ent
      OBVIOUS
    <3>8. /\ F = [g \in Frames |-> F[g]]
          /\ G = [[F EXCEPT ![f] = NoEntries] EXCEPT ![f] = [F EXCEPT ![f] = NoEntries][KernelDir]]
      BY <3>3, <3>4, <3>6, <3>7
    <3>9. /\ G = [g \in Frames |-> G[g]] /\ G[f] = F[KernelDir]
          /\ \A g \in Frames : g # f => G[g] = F[g]
      BY <3>4, <3>8
    <3>10. PICK d : d = NewProc(priv, f)
      OBVIOUS
    <3>11. PICK P : P = k.proc
      OBVIOUS
    <3>12. P = s.proc /\ Put(m, s, p, c)
      BY <1>4, <3>3, <3>6, <3>11 DEF Beginning
    <3>13. s.proc[p] = c /\ HasProcs(s)
      BY <2>2, <3>12, PutAt
    <3>14. P[p] = c /\ P = [q \in Proc |-> P[q]]
      BY <3>12, <3>13 DEF HasProcs
    <3>15. [[P[p] EXCEPT !.cr3 = f] EXCEPT !.regs = {}] = d
      <4>1. c = [st |-> "live", priv |-> priv, cr3 |-> z, regs |-> {}, caps |-> {}, stacks |-> {}]
        BY <1>1 DEF NewProc
      <4>2. PICK u : u = [c EXCEPT !.cr3 = f]
        OBVIOUS
      <4>3. u = d
        BY <3>10, <4>1, <4>2 DEF NewProc
      <4>4. [d EXCEPT !.regs = {}] = d
        BY <3>10 DEF NewProc
      <4> QED BY <3>14, <4>2, <4>3, <4>4
    <3>16. PICK Q : Q = [P EXCEPT ![p] = d]
      OBVIOUS
    <3>17. x = [k EXCEPT !.proc = Q]
      <4>1. PICK u : u = [P[p] EXCEPT !.cr3 = f]
        OBVIOUS
      <4>2. x = [k EXCEPT !.proc = [[k.proc EXCEPT ![p] = [k.proc[p] EXCEPT !.cr3 = f]]
                    EXCEPT ![p] = [[k.proc EXCEPT ![p] = [k.proc[p] EXCEPT !.cr3 = f]][p] EXCEPT !.regs = {}]]]
        BY <3>2, <3>6 DEF IsMachine
      <4>3. [P EXCEPT ![p] = u][p] = u
        BY <3>14
      <4>4. x = [k EXCEPT !.proc = [[P EXCEPT ![p] = u] EXCEPT ![p] = [u EXCEPT !.regs = {}]]]
        BY <3>11, <4>1, <4>2, <4>3
      <4>5. [[P EXCEPT ![p] = u] EXCEPT ![p] = d] = Q
        BY <3>14, <3>16
      <4> QED BY <3>15, <4>1, <4>4, <4>5
    <3>18. /\ IsMachine(x) /\ x.ent = k.ent /\ x.pool = k.pool /\ x.used = k.used
           /\ x.free = k.free /\ x.proc = Q /\ x.ok = k.ok
      BY <3>6, <3>17 DEF IsMachine
    <3>19. AddsDirectory(m, x, f)
      BY <3>3, <3>6, <3>7, <3>9, <3>18 DEF AddsDirectory
    <3>20. Put(s, x, p, d)
      BY <3>12, <3>16, <3>18 DEF Put
    <3>21. Put(m, x, p, d)
      BY <2>2, <3>12, <3>20, PutPut
    <3>22. Core(x, X)
      BY <3>3, <3>6, <3>10, <3>18, <3>19, <3>21, SpaceAdded
    <3> QED BY <2>7, <3>6, <3>10, <3>18, <3>21, <3>22 DEF Fresh
  <2> QED BY <2>5, <2>6, <2>7
<1> QED BY <1>5, <1>6, <1>7

\* NewProcess: a process without regions, or none.
LEMMA NewProcessCore ==
    ASSUME NEW m, NEW X, Core(m, X), NEW p \in Proc, ~Live(m, p), NEW priv,
           NEW x, x = NewProcess(m, p, priv)
    PROVE  Ends(m, x, p, X) \/ Fresh(m, x, p, priv, X)
<1>1. PICK h, c : h = kmalloc(m) /\ c = NewProc(priv, 0)
  OBVIOUS
<1>2. Idle(m, h) /\ IsMachine(h)
  <2>1. Idle(m, h)
    BY <1>1, IdleSteps DEF Core, Shape
  <2> QED BY <2>1 DEF Idle, SameTables
<1>3. CASE ~h.ok
  <2>1. x = h
    BY <1>1, <1>3 DEF NewProcess, Then
  <2>2. Core(h, X)
    BY <1>2, CoreIdle
  <2> QED BY <1>2, <1>3, <2>1, <2>2 DEF Ends, Idle
<1>4. CASE h.ok
  <2>1. [NoProcess EXCEPT !.st = "live", !.priv = priv] = c
    <3>1. PICK u : u = [NoProcess EXCEPT !.st = "live"]
      OBVIOUS
    <3>2. u = [st |-> "live", priv |-> "user", cr3 |-> 0, regs |-> {}, caps |-> {}, stacks |-> {}]
      BY <3>1 DEF NoProcess
    <3>3. [u EXCEPT !.priv = priv] = c
      BY <1>1, <3>2 DEF NewProc
    <3> QED BY <3>1, <3>3
  <2>2. PICK e : e = [h EXCEPT !.proc = [h.proc EXCEPT ![p] = c]]
    OBVIOUS
  <2>3. [h EXCEPT !.proc[p] = [NoProcess EXCEPT !.st = "live", !.priv = priv]] = e
    BY <2>1, <2>2, Zenon
  <2>4. PICK y : y = vmm_create(e, p)
    OBVIOUS
  <2>5. x = IF y.ok THEN y ELSE Failed(Gone(y, p))
    BY <1>1, <1>4, <2>3, <2>4 DEF NewProcess, Then, OrUndo
  <2>6. /\ SameTables(h, e) /\ e.used = h.used /\ e.free = h.free
        /\ e.proc = [h.proc EXCEPT ![p] = c]
    BY <1>2, <2>2 DEF IsMachine, SameTables
  <2>7. Beginning(m, e, p, c)
    BY <1>2, <2>6 DEF Beginning, Idle, SameTables, Put
  <2>8. Fresh(m, y, p, priv, X) \/ Stuck(m, y, p, c)
    <3>1. PICK z : z = 0
      OBVIOUS
    <3>2. c = NewProc(priv, z)
      BY <1>1, <3>1
    <3>3. Beginning(m, e, p, NewProc(priv, z))
      BY <2>7, <3>2
    <3>4. Fresh(m, y, p, priv, X) \/ Stuck(m, y, p, NewProc(priv, z))
      BY ONLY Core(m, X), p \in Proc, ~Live(m, p), <2>4, <3>3, CreateSpace
    <3> QED BY <3>2, <3>4
  <2>9. CASE Fresh(m, y, p, priv, X)
    BY <2>5, <2>9 DEF Fresh
  <2>10. CASE Stuck(m, y, p, c)
    BY <2>5, <2>10, BeginningEnds DEF Stuck
  <2> QED BY <2>8, <2>9, <2>10
<1> QED BY <1>3, <1>4

\* The process c with the region r as a stack more.
StackIn(c, r) == WithStacks(WithRegs(c, c.regs \cup {r}), c.stacks \cup {r.start})

\* p has a stack more, in a region of its own.
GetsStack(m, x, p, X) ==
    /\ x.ok /\ Core(x, X)
    /\ \E r : r.own = TRUE /\ Put(m, x, p, StackIn(m.proc[p], r))

\* A call that succeeded and left the processes as they were.
Succeeds(m, x, X) == x.ok /\ x.proc = m.proc /\ Core(x, X)

\* There is room for a stack of p.
StackRoom(m, p) ==
    \/ m.proc[p].priv = "kernel"
    \/ FindVa(m.proc[p].regs, PageSize, AnonBase) + PageSize <= SpaceTop

\* The region of vmm_alloc_pages becomes a stack.
LEMMA StackGot ==
    ASSUME NEW m, NEW X, Core(m, X), NEW p \in Proc, Live(m, p), NEW r, r.own = TRUE,
           NEW y, GetsRegion(m, y, p, r, X),
           NEW x, x = [y EXCEPT !.proc[p].stacks = y.proc[p].stacks \cup {y.out}]
    PROVE  GetsStack(m, x, p, X)
<1>1. Shape(m) /\ HasProcs(m)
  BY DEF Core, Shape, HasProcs
<1>2. PICK S, T : S = m.proc[p].regs \cup {r} /\ T = m.proc[p].stacks \cup {r.start}
  OBVIOUS
<1>3. y.ok /\ y.out = r.start /\ Regioned(m, y, p, S) /\ Core(y, X)
  BY <1>2 DEF GetsRegion
<1>4. Put(m, y, p, WithRegs(m.proc[p], S)) /\ y.proc[p] = WithRegs(m.proc[p], S) /\ RegsOf(m.proc[p], y.proc[p], S)
  <2>1. Regioned(m, y, p, S)
    BY <1>3
  <2> QED BY ONLY p \in Proc, <1>1, <2>1, RegionedPut
<1>5. Live(y, p) /\ y.proc[p].stacks = m.proc[p].stacks
  BY <1>4 DEF Live, RegsOf
<1>6. IsFiniteSet(T)
  <2>1. IsFiniteSet(m.proc[p].stacks)
    BY <1>1 DEF Shape, IsProc
  <2> QED BY <1>2, <2>1, FS_AddElement
<1>7. x = [y EXCEPT !.proc[p].stacks = T]
  BY <1>2, <1>3, <1>5
<1>8. Core(x, X) /\ Put(y, x, p, WithStacks(y.proc[p], T)) /\ x.ok = y.ok
  <2>1. Core(y, X) /\ Live(y, p)
    BY <1>3, <1>5
  <2> QED BY ONLY p \in Proc, <2>1, <1>6, <1>7, StackCore
<1>9. Put(m, x, p, WithStacks(WithRegs(m.proc[p], S), T))
  BY <1>1, <1>4, <1>8, PutPut
<1> QED BY <1>2, <1>3, <1>8, <1>9 DEF GetsStack, StackIn

\* ThreadWithStack: a stack, nothing for a thread of the kernel, or failure.
LEMMA ThreadCore ==
    ASSUME NEW m, NEW X, Core(m, X), NEW p \in Proc, Live(m, p), StackRoom(m, p),
           NEW x, x = ThreadWithStack(m, p)
    PROVE  \/ GivesUp(m, x, X) \/ GetsStack(m, x, p, X)
           \/ Succeeds(m, x, X) /\ m.proc[p].priv = "kernel"
<1>1. PICK h : h = kmalloc(m)
  OBVIOUS
<1>2. Idle(m, h) /\ IsMachine(h) /\ Core(h, X) /\ h.proc = m.proc
  <2>1. Idle(m, h)
    BY <1>1, IdleSteps DEF Core, Shape
  <2> QED BY <2>1, CoreIdle DEF Idle, SameTables
<1>3. CASE ~h.ok
  BY <1>1, <1>2, <1>3 DEF ThreadWithStack, Then, GivesUp
<1>4. CASE h.ok /\ m.proc[p].priv = "kernel"
  <2>1. x = kmalloc(h)
    BY <1>1, <1>4 DEF ThreadWithStack, Then
  <2>2. Idle(h, x)
    BY <1>2, <2>1, IdleSteps
  <2>3. Core(x, X) /\ x.proc = m.proc
    BY <1>2, <2>2, CoreIdle DEF Idle
  <2> QED BY <1>4, <2>3 DEF GivesUp, Succeeds
<1>5. CASE h.ok /\ m.proc[p].priv # "kernel"
  <2>1. PICK y, n, va : /\ n = 1 /\ y = vmm_alloc_pages(h, p, n)
                        /\ va = FindVa(h.proc[p].regs, n * PageSize, AnonBase)
    OBVIOUS
  <2>2. n \in Nat /\ n * PageSize = PageSize
    BY <2>1, PagingAssumption
  <2>3. va + n * PageSize <= SpaceTop
    BY <1>2, <1>5, <2>1, <2>2 DEF StackRoom
  <2>4. x = IF y.ok THEN [y EXCEPT !.proc[p].stacks = y.proc[p].stacks \cup {y.out}] ELSE y
    BY <1>1, <1>5, <2>1 DEF ThreadWithStack, Then
  <2>5. Live(h, p)
    BY <1>2 DEF Live
  <2>6. GivesUp(h, y, X) \/ \E b \in Nat : GetsRegion(h, y, p, RegionOf(va, n, b, TRUE), X)
    BY <1>2, <2>1, <2>2, <2>3, <2>5, AllocPagesCore
  <2>7. CASE GivesUp(h, y, X)
    BY <1>2, <2>4, <2>7 DEF GivesUp
  <2>8. ASSUME NEW b \in Nat, GetsRegion(h, y, p, RegionOf(va, n, b, TRUE), X)
        PROVE  GetsStack(m, x, p, X)
    <3>1. PICK r : r = RegionOf(va, n, b, TRUE)
      OBVIOUS
    <3>2. r.own = TRUE /\ GetsRegion(h, y, p, r, X) /\ y.ok
      BY <2>8, <3>1 DEF RegionOf, GetsRegion
    <3>3. x = [y EXCEPT !.proc[p].stacks = y.proc[p].stacks \cup {y.out}]
      BY <2>4, <3>2
    <3>4. GetsStack(h, x, p, X)
      BY ONLY p \in Proc, <1>2, <2>5, <3>2, <3>3, StackGot
    <3> QED BY <1>2, <3>4 DEF GetsStack, Put
  <2> QED BY <2>6, <2>7, <2>8
<1> QED BY <1>3, <1>4, <1>5

-----------------------------------------------------------------------------
(* Processes that own all they map. *)

\* A capability for memory names no page of the kernel but device memory.
Clean(c) ==
    c.type = "MAP_MEM" =>
        /\ c.base \in Nat /\ c.size \in Nat
        /\ \A b \in 0 .. FirstFree - 1 : b * PageSize \in Reach(c) => b * PageSize \in DevicePages

CleanCaps(caps) == \A c \in caps : Clean(c)

\* Every stack is a region of its own.
Stacked(c) == \A va \in c.stacks : \E r \in c.regs : r.own = TRUE /\ r.start = va

AllOwn(regs) == \A r \in regs : r.own = TRUE

Owner(c) == CleanCaps(c.caps) /\ Stacked(c) /\ AllOwn(c.regs)

\* p is a live process that owns all it maps; no other has changed.
Grown(m, x, p, X) ==
    x.ok /\ Core(x, X) /\ Live(x, p) /\ Put(m, x, p, x.proc[p]) /\ Owner(x.proc[p])

\* The region r owns its pages.
OwnRegion(r) == r.own = TRUE

\* A process that owns all gets a stack.
LEMMA OwnerStack ==
    ASSUME NEW m, Shape(m), NEW x, NEW p \in Proc, NEW r, OwnRegion(r), NEW c, c = m.proc[p],
           Owner(c), Put(m, x, p, StackIn(c, r))
    PROVE  Owner(x.proc[p]) /\ x.proc[p].st = c.st
<1>1. PICK S, T : S = c.regs \cup {r} /\ T = c.stacks \cup {r.start}
  OBVIOUS
<1>2. PICK d, e : d = WithRegs(c, S) /\ e = WithStacks(d, T)
  OBVIOUS
<1>3. HasProcs(m) /\ IsRecord(c) /\ Put(m, x, p, e)
  BY <1>1, <1>2 DEF Shape, HasProcs, IsProc, IsRecord, StackIn
<1>4. x.proc[p] = e
  BY <1>3, PutAt
<1>5. IsRecord(d) /\ d.st = c.st /\ d.regs = S /\ d.caps = c.caps
  BY <1>2, <1>3, RegsFields
<1>6. e.st = d.st /\ e.regs = d.regs /\ e.caps = d.caps /\ e.stacks = T
  BY <1>2, <1>5, OtherFields
<1>7. CleanCaps(e.caps) /\ AllOwn(e.regs)
  BY <1>1, <1>5, <1>6 DEF Owner, AllOwn, OwnRegion
<1>8. Stacked(e)
  <2>1. Stacked(c)
    BY <1>1 DEF Owner
  <2> QED BY <1>1, <1>5, <1>6, <2>1 DEF Stacked, OwnRegion
<1> QED BY <1>1, <1>4, <1>5, <1>6, <1>7, <1>8 DEF Owner

\* The process table with its own entry.
LEMMA PutSelf ==
    ASSUME NEW m, HasProcs(m), NEW x, NEW p \in Proc, NEW c, Put(m, x, p, c)
    PROVE  Put(m, x, p, x.proc[p])
<1>1. x.proc[p] = c
  BY PutAt
<1> QED BY <1>1

\* A thread for a process without regions.
LEMMA FirstThread ==
    ASSUME NEW m, NEW X, Core(m, X), NEW p \in Proc, Live(m, p), m.proc[p].regs = {},
           Owner(m.proc[p]), NEW x, x = ThreadWithStack(m, p)
    PROVE  GivesUp(m, x, X) \/ Grown(m, x, p, X)
<1>1. HasProcs(m) /\ Shape(m)
  BY DEF Core, Shape, HasProcs
<1>2. StackRoom(m, p)
  <2>1. FindVa(m.proc[p].regs, PageSize, AnonBase) = AnonBase
    BY DEF FindVa
  <2>2. PICK a, s \in Nat : AnonBase = a * PageSize /\ SpaceTop = s * PageSize
    <3>1. AnonBase \in Nat /\ AnonBase % PageSize = 0
      BY MemoryAssumption, PagingAssumption
    <3>2. AnonBase = PageOf(AnonBase) * PageSize /\ PageOf(AnonBase) \in Nat
      BY <3>1, Rounding
    <3> QED BY <3>2, Bounds
  <2>3. AnonBase < SpaceTop
    BY MemoryAssumption, PagingAssumption
  <2>4. a < s
    BY <2>2, <2>3, MulOrder
  <2>5. a + 1 <= s /\ a + 1 \in Nat
    BY <2>4
  <2>6. (a + 1) * PageSize <= s * PageSize
    BY <2>5, MulOrder
  <2>7. (a + 1) * PageSize = a * PageSize + PageSize
    BY PagingAssumption
  <2> QED BY <2>1, <2>2, <2>6, <2>7 DEF StackRoom
<1>3. \/ GivesUp(m, x, X) \/ GetsStack(m, x, p, X) \/ Succeeds(m, x, X)
  BY <1>2, ThreadCore
<1>4. CASE Succeeds(m, x, X)
  <2>1. x.ok /\ Core(x, X) /\ x.proc = m.proc
    BY <1>4 DEF Succeeds
  <2>2. Put(m, x, p, m.proc[p])
    BY <1>1, <2>1 DEF Put, HasProcs
  <2> QED BY <2>1, <2>2 DEF Grown, Live
<1>5. CASE GetsStack(m, x, p, X)
  <2>1. PICK r : r.own = TRUE /\ Put(m, x, p, StackIn(m.proc[p], r))
    BY <1>5 DEF GetsStack
  <2>2. Owner(x.proc[p]) /\ x.proc[p].st = m.proc[p].st
    <3>1. PICK c : c = m.proc[p]
      OBVIOUS
    <3>2. Owner(c) /\ Put(m, x, p, StackIn(c, r)) /\ OwnRegion(r) /\ Shape(m)
      BY <1>1, <2>1, <3>1 DEF OwnRegion
    <3>3. Owner(x.proc[p]) /\ x.proc[p].st = c.st
      BY ONLY p \in Proc, <3>1, <3>2, OwnerStack
    <3> QED BY <3>1, <3>3
  <2>3. Put(m, x, p, x.proc[p])
    BY <1>1, <2>1, PutSelf
  <2>4. x.ok /\ Core(x, X)
    BY <1>5 DEF GetsStack
  <2> QED BY <2>2, <2>3, <2>4 DEF Grown, Live
<1> QED BY <1>3, <1>4, <1>5

\* A new process with capabilities is an owner.
LEMMA NewOwner ==
    ASSUME NEW priv, NEW f, NEW S, CleanCaps(S), NEW c, c = WithCaps(NewProc(priv, f), S)
    PROVE  Owner(c) /\ c.regs = {} /\ c.st = "live"
<1>1. PICK d : d = NewProc(priv, f)
  OBVIOUS
<1>2. /\ IsRecord(d) /\ d.st = "live" /\ d.regs = {} /\ d.stacks = {}
  BY <1>1, NewFields
<1>3. /\ c.st = "live" /\ c.regs = {} /\ c.stacks = {} /\ c.caps = S
  BY <1>1, <1>2, OtherFields
<1> QED BY <1>3 DEF Owner, Stacked, AllOwn

\* p_create_ex: a process with its first thread, or none.
LEMMA CreateCore ==
    ASSUME NEW m, NEW X, Core(m, X), NEW p \in Proc, ~Live(m, p), NEW priv, NEW S, CleanCaps(S),
           NEW x, x = p_create_ex(m, p, priv, S)
    PROVE  Ends(m, x, p, X) \/ Grown(m, x, p, X)
<1>1. HasProcs(m)
  BY DEF Core, Shape, HasProcs
<1>2. PICK y : y = NewProcess(m, p, priv)
  OBVIOUS
<1>3. Ends(m, y, p, X) \/ Fresh(m, y, p, priv, X)
  BY <1>2, NewProcessCore
<1>4. CASE Ends(m, y, p, X)
  <2>1. x = y
    BY <1>2, <1>4 DEF p_create_ex, Then, Ends
  <2> QED BY <1>4, <2>1
<1>5. CASE Fresh(m, y, p, priv, X)
  <2>1. PICK f : Put(m, y, p, NewProc(priv, f))
    BY <1>5 DEF Fresh
  <2>2. y.ok /\ Core(y, X)
    BY <1>5 DEF Fresh
  <2>3. PICK n, z, t : /\ n = y.heap - Cardinality(S) /\ z = [y EXCEPT !.proc[p].caps = S, !.heap = n]
                       /\ t = ThreadWithStack(z, p)
    OBVIOUS
  <2>4. x = IF t.ok THEN t ELSE Failed(Gone(vmm_destroy(t, p), p))
    BY <1>2, <2>2, <2>3 DEF p_create_ex, Then, OrUndo
  <2>5. Core(z, X) /\ Put(y, z, p, WithCaps(y.proc[p], S))
    BY <2>2, <2>3, CapsCore
  <2>6. y.proc[p] = NewProc(priv, f) /\ HasProcs(y)
    BY <1>1, <2>1, PutAt
  <2>7. PICK c : c = WithCaps(NewProc(priv, f), S)
    OBVIOUS
  <2>8. z.proc[p] = c
    BY <2>5, <2>6, <2>7, PutAt
  <2>9. Owner(c) /\ c.regs = {} /\ c.st = "live"
    BY <2>7, NewOwner
  <2>10. Put(m, z, p, c)
    BY <1>1, <2>1, <2>5, <2>6, <2>7, PutPut
  <2>11. Live(z, p)
    BY <2>8, <2>9 DEF Live
  <2>12. GivesUp(z, t, X) \/ Grown(z, t, p, X)
    BY <2>3, <2>5, <2>8, <2>9, <2>11, FirstThread
  <2>13. CASE Grown(z, t, p, X)
    <3>1. t.ok /\ Core(t, X) /\ Live(t, p) /\ Put(z, t, p, t.proc[p]) /\ Owner(t.proc[p])
      BY <2>13 DEF Grown
    <3>2. Put(m, t, p, t.proc[p])
      BY <1>1, <2>10, <3>1, PutPut
    <3> QED BY <2>4, <3>1, <3>2 DEF Grown
  <2>14. CASE GivesUp(z, t, X)
    <3>1. ~t.ok /\ t.proc = z.proc /\ Core(t, X)
      BY <2>14 DEF GivesUp
    <3>2. Live(t, p) /\ Put(m, t, p, c)
      BY <2>10, <2>11, <3>1 DEF Live, Put
    <3>3. PICK w : w = Gone(vmm_destroy(t, p), p)
      OBVIOUS
    <3>4. Core(w, X) /\ Put(t, w, p, DeadProc)
      BY <3>1, <3>2, <3>3, DestroyCore
    <3>5. x = Failed(w) /\ IsMachine(w)
      BY <2>4, <3>1, <3>3, <3>4 DEF Core, Shape
    <3>6. Idle(w, x) /\ ~x.ok
      BY <3>5, IdleSteps
    <3>7. Core(x, X) /\ x.proc = w.proc
      BY <3>4, <3>6, CoreIdle DEF Idle
    <3>8. Put(m, w, p, DeadProc)
      BY <1>1, <3>2, <3>4, PutPut
    <3> QED BY <3>6, <3>7, <3>8 DEF Ends, Put
  <2> QED BY <2>12, <2>13, <2>14
<1> QED BY <1>3, <1>4, <1>5

-----------------------------------------------------------------------------
(* Grants and images. *)

\* A call that put c on the list of p.
Grants(m, x, p, c, X) ==
    /\ x.ok /\ Core(x, X) /\ c \notin m.proc[p].caps
    /\ Put(m, x, p, WithCaps(m.proc[p], m.proc[p].caps \cup {c}))

\* Granting: the capability is new, or nothing happens.
LEMMA GrantingCore ==
    ASSUME NEW m, NEW X, Core(m, X), NEW p \in Proc, NEW c, NEW x, x = Granting(m, p, c)
    PROVE  GivesUp(m, x, X) \/ Grants(m, x, p, c, X)
<1>1. IsMachine(m)
  BY DEF Core, Shape
<1>2. CASE ~Grantable(m.proc[p].caps, c)
  <2>1. x = Failed(m)
    BY <1>2 DEF Granting
  <2>2. Idle(m, x) /\ ~x.ok
    BY <1>1, <2>1, IdleSteps
  <2> QED BY <2>2, CoreIdle DEF GivesUp, Idle
<1>3. CASE Grantable(m.proc[p].caps, c)
  <2>1. PICK h, S : h = kmalloc(m) /\ S = m.proc[p].caps \cup {c}
    OBVIOUS
  <2>2. Idle(m, h)
    BY <1>1, <2>1, IdleSteps
  <2>3. Core(h, X) /\ h.proc = m.proc
    BY <2>2, CoreIdle DEF Idle
  <2>4. CASE ~h.ok
    BY <1>3, <2>1, <2>3, <2>4 DEF Granting, Then, GivesUp
  <2>5. CASE h.ok
    <3>1. cap_grant(h.proc[p].caps, c) = S /\ c \notin m.proc[p].caps
      BY <1>3, <2>1, <2>3 DEF cap_grant, Grantable
    <3>2. x = [h EXCEPT !.proc[p].caps = S]
      BY <1>3, <2>1, <2>5, <3>1 DEF Granting, Then
    <3>3. Core(x, X) /\ Put(h, x, p, WithCaps(h.proc[p], S)) /\ x.ok = h.ok
      BY <2>3, <3>2, JustCaps
    <3>4. Put(m, x, p, WithCaps(m.proc[p], S))
      BY <2>3, <3>3 DEF Put
    <3> QED BY <2>1, <2>5, <3>1, <3>3, <3>4 DEF Grants
  <2> QED BY <2>4, <2>5
<1> QED BY <1>2, <1>3

\* A grant that is taken back leaves no trace.
LEMMA GrantUndone ==
    ASSUME NEW m, NEW X, Core(m, X), NEW p \in Proc, NEW c, NEW g, NEW Y, Grants(m, g, p, c, Y),
           NEW y, y.proc = g.proc, Core(y, Y), NEW x, x = Failed(Revoking(y, p, c))
    PROVE  GivesUp(m, x, Y)
<1>1. PICK d, S : d = m.proc[p] /\ S = d.caps \cup {c}
  OBVIOUS
<1>2. HasProcs(m) /\ IsRecord(d) /\ c \notin d.caps
  BY <1>1 DEF Core, Shape, HasProcs, IsProc, IsRecord, Grants
<1>3. Put(m, y, p, WithCaps(d, S))
  BY <1>1 DEF Grants, Put
<1>4. y.proc[p] = WithCaps(d, S)
  BY <1>2, <1>3, PutAt
<1>5. PICK z : z = Revoking(y, p, c)
  OBVIOUS
<1>6. WithCaps(d, S).caps = S
  BY <1>2, OtherFields
<1>7. cap_revoke(y.proc[p].caps, c) = d.caps
  BY <1>1, <1>2, <1>4, <1>6 DEF cap_revoke
<1>8. PICK T : T = d.caps
  OBVIOUS
<1>9. z = [y EXCEPT !.proc[p].caps = T]
  BY <1>5, <1>7, <1>8 DEF Revoking
<1>10. Core(z, Y) /\ Put(y, z, p, WithCaps(y.proc[p], T))
  BY <1>9, JustCaps
<1>11. WithCaps(y.proc[p], T) = d
  BY <1>2, <1>4, <1>8 DEF WithCaps, IsRecord
<1>12. Put(m, z, p, d)
  BY <1>2, <1>3, <1>10, <1>11, PutPut
<1>13. z.proc = m.proc
  BY <1>1, <1>2, <1>12 DEF Put, HasProcs
<1>14. Idle(z, x) /\ ~x.ok
  BY <1>5, <1>10, IdleSteps DEF Core, Shape
<1> QED BY <1>10, <1>13, <1>14, CoreIdle DEF GivesUp, Idle

\* The pages from b on, behind the kernel, under a capability.
LEMMA CleanPages ==
    ASSUME NEW b \in Nat, FirstFree <= b, NEW size \in Nat, NEW c,
           c = CapMem(b * PageSize, size, PTE_USER_PAGE)
    PROVE  Clean(c)
<1>1. c.type = "MAP_MEM" /\ c.base = b * PageSize /\ c.size = size
  BY DEF CapMem
<1>2. b * PageSize \in Nat
  BY PageMul
<1>3. \A k \in 0 .. FirstFree - 1 : k * PageSize \notin Reach(c)
  <2>1. SUFFICES ASSUME NEW k \in 0 .. FirstFree - 1 PROVE k * PageSize \notin Reach(c)
    OBVIOUS
  <2>2. k \in Nat /\ k < b
    BY PagingAssumption
  <2>3. k * PageSize \in Nat /\ k * PageSize < b * PageSize
    BY <2>2, MulOrder, PageMul
  <2>4. PICK u \in Nat, v \in Nat : u = k * PageSize /\ v = b * PageSize /\ u < v
    BY <1>2, <2>3
  <2> QED BY <1>1, <2>4 DEF Reach
<1> QED BY <1>1, <1>2, <1>3 DEF Clean

\* elf_load's grant and mapping of pages for a segment.
GrantAndMap(a, p, r, c) ==
    LET g == Granting(a, p, c)
        f == vmm_map_fixed(g, p, r.pa, r.start, r.size, r.own)
    IN  IF g.ok THEN IF f.ok THEN f ELSE Failed(Revoking(f, p, c)) ELSE g

\* An owner with a capability more and a region more that is its own.
LEMMA OwnerMore ==
    ASSUME NEW d, IsRecord(d), Owner(d), NEW c, Clean(c), NEW r, OwnRegion(r), NEW e,
           e = WithRegs(WithCaps(d, d.caps \cup {c}), d.regs \cup {r})
    PROVE  Owner(e) /\ e.st = d.st
<1>1. PICK S, T, f : S = d.caps \cup {c} /\ T = d.regs \cup {r} /\ f = WithCaps(d, S)
  OBVIOUS
<1>2. /\ IsRecord(f) /\ f.st = d.st /\ f.caps = S /\ f.stacks = d.stacks
  BY <1>1, OtherFields
<1>3. e = WithRegs(f, T)
  BY <1>1
<1>4. /\ e.st = f.st /\ e.regs = T /\ e.caps = f.caps /\ e.stacks = f.stacks
  BY <1>2, <1>3, RegsFields
<1>5. CleanCaps(e.caps) /\ AllOwn(e.regs)
  BY <1>1, <1>2, <1>4 DEF Owner, CleanCaps, AllOwn, OwnRegion
<1>6. Stacked(e)
  <2>1. Stacked(d)
    BY DEF Owner
  <2> QED BY <1>1, <1>2, <1>4, <2>1 DEF Stacked
<1> QED BY <1>2, <1>4, <1>5, <1>6 DEF Owner

\* Both or neither.
LEMMA SegmentMapped ==
    ASSUME NEW m, NEW X, Core(m, X), NEW p \in Proc, Live(m, p), Owner(m.proc[p]),
           NEW r, Placed(r, X), OwnRegion(r), NEW c, Clean(c),
           NEW x, x = GrantAndMap(m, p, r, c)
    PROVE  GivesUp(m, x, X) \/ Grown(m, x, p, X \ PagesOf(r))
<1>1. PICK g : g = Granting(m, p, c)
  OBVIOUS
<1>2. PICK f : f = vmm_map_fixed(g, p, r.pa, r.start, r.size, r.own)
  OBVIOUS
<1>3. x = IF g.ok THEN IF f.ok THEN f ELSE Failed(Revoking(f, p, c)) ELSE g
  BY <1>1, <1>2 DEF GrantAndMap
<1>4. GivesUp(m, g, X) \/ Grants(m, g, p, c, X)
  BY <1>1, GrantingCore
<1>5. CASE GivesUp(m, g, X)
  BY <1>3, <1>5 DEF GivesUp
<1>6. CASE Grants(m, g, p, c, X)
  <2>1. PICK d, S, e : d = m.proc[p] /\ S = d.caps \cup {c} /\ e = WithCaps(d, S)
    OBVIOUS
  <2>2. HasProcs(m) /\ IsRecord(d)
    BY <2>1 DEF Core, Shape, HasProcs, IsProc, IsRecord
  <2>3. g.ok /\ Core(g, X) /\ Put(m, g, p, e)
    BY <1>6, <2>1 DEF Grants
  <2>4. g.proc[p] = e /\ HasProcs(g)
    BY <2>2, <2>3, PutAt
  <2>5. e.st = d.st /\ e.regs = d.regs
    BY <2>1, <2>2, OtherFields
  <2>6. Live(g, p)
    BY <2>1, <2>4, <2>5 DEF Live
  <2>7. GivesUp(g, f, X) \/ MapsFixed(g, f, p, r, X)
    BY <1>2, <2>3, <2>6, MapFixedCore
  <2>8. CASE GivesUp(g, f, X)
    <3>1. x = Failed(Revoking(f, p, c)) /\ f.proc = g.proc /\ Core(f, X)
      BY <1>3, <2>3, <2>8 DEF GivesUp
    <3> QED BY <1>6, <3>1, GrantUndone
  <2>9. CASE MapsFixed(g, f, p, r, X)
    <3>1. PICK T : T = d.regs \cup {r}
      OBVIOUS
    <3>2. f.ok /\ Regioned(g, f, p, T) /\ Core(f, Left(X, r))
      BY <2>4, <2>5, <2>9, <3>1 DEF MapsFixed, GetsRegion
    <3>3. x = f
      BY <1>3, <2>3, <3>2
    <3>4. Left(X, r) = X \ PagesOf(r)
      BY DEF Left, OwnRegion
    <3>5. PICK w : w = WithRegs(e, T)
      OBVIOUS
    <3>6. Put(g, f, p, w)
      BY <2>4, <3>2, <3>5 DEF Regioned, Put
    <3>7. Put(m, f, p, w)
      BY <2>2, <2>3, <3>6, PutPut
    <3>8. f.proc[p] = w
      BY <2>4, <3>6, PutAt
    <3>9. Owner(w) /\ w.st = d.st
      BY <2>1, <2>2, <3>1, <3>5, OwnerMore
    <3>10. Live(f, p)
      BY <2>1, <3>8, <3>9 DEF Live
    <3> QED BY <3>2, <3>3, <3>4, <3>7, <3>8, <3>9, <3>10 DEF Grown
  <2> QED BY <2>7, <2>8, <2>9
<1> QED BY <1>4, <1>5, <1>6

\* A segment above the user heap.
IsSegment(seg) == seg.vaddr \in Nat /\ seg.memsz \in Nat /\ HeapEnd <= seg.vaddr

\* Rounding up stays below a page boundary.
LEMMA RoundingFits ==
    ASSUME NEW s \in Nat, NEW t \in Nat, NEW w \in Nat, s * PageSize + w <= t * PageSize,
           NEW n, n = PageOf(w + PageSize - 1)
    PROVE  n \in Nat /\ s + n <= t /\ (w > 0 => n > 0) /\ AlignUp(w) = n * PageSize
<1>1. /\ AlignUp(w) = n * PageSize /\ AlignUp(w) \in Nat /\ w <= AlignUp(w) /\ n \in Nat
  BY Rounding
<1>2. w + PageSize - 1 \in Nat /\ PageSize \in Nat /\ PageSize > 0
  BY PagingAssumption
<1>3. PICK a \in Nat : a = w + PageSize - 1
  BY <1>2
<1>4. n * PageSize <= a
  BY <1>3, Rounding
<1>5. s * PageSize + n * PageSize = (s + n) * PageSize /\ s + n \in Nat /\ t + 1 \in Nat
  <2>1. n \in Nat /\ s \in Nat
    BY <1>1
  <2>2. s * PageSize + n * PageSize = (s + n) * PageSize
    BY ONLY <2>1, MulOrder
  <2> QED BY <2>1, <2>2
<1>6. (t + 1) * PageSize = t * PageSize + PageSize
  BY <1>2
<1>7. PICK A \in Nat, B \in Nat, C \in Nat : A = s * PageSize /\ B = n * PageSize /\ C = t * PageSize
  BY <1>1, PageMul
<1>8. A + B < C + PageSize
  BY <1>2, <1>3, <1>4, <1>7
<1>9. (s + n) * PageSize < (t + 1) * PageSize
  BY <1>5, <1>6, <1>7, <1>8
<1>10. s + n < t + 1
  <2>1. PICK j \in Nat, k \in Nat : j = s + n /\ k = t + 1
    BY ONLY <1>5
  <2> QED BY <1>9, <2>1, MulOrder
<1>11. w > 0 => n > 0
  <2>1. n = 0 => n * PageSize = 0
    BY <1>2
  <2> QED BY <1>1, <2>1
<1> QED BY <1>1, <1>5, <1>10, <1>11

\* Where a segment goes: n pages from the page s on.
SegmentAt(seg, s, n) ==
    /\ AlignDown(seg.vaddr) = s * PageSize
    /\ AlignUp(seg.memsz + seg.vaddr - AlignDown(seg.vaddr)) = n * PageSize
    /\ n > 0 /\ PageOf(HeapEnd) <= s /\ s + n <= PageOf(SpaceTop)

\* A segment that elf_load accepts has its pages above the heap and below the top.
LEMMA SegmentPages ==
    ASSUME NEW seg, IsSegment(seg), seg.memsz # 0, seg.vaddr + seg.memsz <= SpaceTop
    PROVE  \E s \in Nat, n \in Nat : SegmentAt(seg, s, n)
<1>1. PICK v \in Nat, k \in Nat : v = seg.vaddr /\ k = seg.memsz /\ k > 0 /\ v + k <= SpaceTop
                                  /\ HeapEnd <= v
  BY DEF IsSegment
<1>2. PICK s \in Nat : s = PageOf(v) /\ AlignDown(v) = s * PageSize /\ s * PageSize <= v
  BY Rounding
<1>3. s * PageSize \in Nat
  BY PageMul
<1>4. PICK w \in Nat : w = k + v - s * PageSize /\ w > 0 /\ s * PageSize + w = v + k
  BY <1>1, <1>2, <1>3
<1>5. PICK t \in Nat : t = PageOf(SpaceTop) /\ SpaceTop = t * PageSize
  BY Bounds
<1>6. PICK n : n = PageOf(w + PageSize - 1)
  OBVIOUS
<1>7. n \in Nat /\ s + n <= t /\ n > 0 /\ AlignUp(w) = n * PageSize
  BY <1>1, <1>4, <1>5, <1>6, RoundingFits
<1>8. PageOf(HeapEnd) <= s
  <2>1. PICK h \in Nat : h = PageOf(HeapEnd) /\ HeapEnd = h * PageSize
    BY Bounds
  <2> QED BY <1>1, <1>2, <2>1, PageOrder
<1> QED BY <1>1, <1>2, <1>4, <1>5, <1>7, <1>8 DEF SegmentAt

\* The n frames from b on, of X, may go to the n pages from s on.
GoesTo(b, s, n, X) ==
    /\ b < TotalBlocks /\ PageOf(HeapEnd) <= s /\ s + n <= PageOf(SpaceTop)
    /\ b .. b + n - 1 \subseteq X

\* The region r maps them there and owns them.
OwnRun(r, s, n, b) == r = RegionOf(s * PageSize, n, b, TRUE)

\* The region of a segment may be placed there.
LEMMA SegmentPlaced ==
    ASSUME NEW s \in Nat, NEW n \in Nat, NEW b \in Nat, NEW X, GoesTo(b, s, n, X),
           NEW r, OwnRun(r, s, n, b)
    PROVE  Placed(r, X) /\ OwnRegion(r) /\ PagesOf(r) = b .. b + n - 1
<1>0. /\ b < TotalBlocks /\ PageOf(HeapEnd) <= s /\ s + n <= PageOf(SpaceTop)
      /\ b .. b + n - 1 \subseteq X
  BY DEF GoesTo
<1>1. /\ s * PageSize \in Nat /\ n * PageSize \in Nat /\ b * PageSize \in Nat
      /\ PageOf(b * PageSize) = b /\ Pages(n * PageSize) = n
  BY PageMul
<1>2. r = [start |-> s * PageSize, size |-> n * PageSize, pa |-> b * PageSize, own |-> TRUE]
  BY DEF RegionOf, OwnRun
<1>3. HeapEnd <= s * PageSize
  BY <1>0, Bounds, MulOrder
<1>4. s * PageSize + n * PageSize <= SpaceTop
  <2>1. s + n \in Nat /\ PageOf(SpaceTop) \in Nat
    BY Bounds
  <2>2. PICK j \in Nat, k \in Nat : j = s + n /\ k = PageOf(SpaceTop) /\ j <= k
    BY ONLY <1>0, <2>1
  <2>3. j * PageSize <= k * PageSize
    BY <2>2, MulOrder
  <2>4. s * PageSize + n * PageSize = j * PageSize
    BY <2>2, MulOrder
  <2> QED BY <2>2, <2>3, <2>4, Bounds
<1>5. PICK S \in Nat, N \in Nat, B \in Nat : S = s * PageSize /\ N = n * PageSize /\ B = b * PageSize
  BY <1>1
<1>6. /\ r = [start |-> S, size |-> N, pa |-> B, own |-> TRUE]
      /\ r.start = S /\ r.size = N /\ r.pa = B /\ r.own = TRUE
  <2>1. r = [start |-> S, size |-> N, pa |-> B, own |-> TRUE]
    BY <1>2, <1>5
  <2> QED BY ONLY <2>1
<1>7. Placed(r, X)
  BY <1>0, <1>1, <1>3, <1>4, <1>5, <1>6 DEF Placed
<1> QED BY <1>1, <1>5, <1>6, <1>7 DEF OwnRegion, PagesOf

\* LoadSegment: the pages with their grant and their mapping, or nothing.
LEMMA LoadCore ==
    ASSUME NEW m, NEW X, Core(m, X), NEW p \in Proc, Live(m, p), Owner(m.proc[p]), m.ok,
           NEW seg, IsSegment(seg), NEW x, x = LoadSegment(m, p, seg)
    PROVE  GivesUp(m, x, X) \/ Grown(m, x, p, X)
<1>1. HasProcs(m) /\ IsMachine(m)
  BY DEF Core, Shape, HasProcs
<1>2. CASE seg.memsz = 0
  <2>1. x = m
    BY <1>2 DEF LoadSegment
  <2>2. Put(m, m, p, m.proc[p])
    BY <1>1 DEF Put, HasProcs
  <2> QED BY <2>1, <2>2 DEF Grown
<1>3. CASE seg.memsz # 0 /\ (~seg.good \/ seg.vaddr + seg.memsz > SpaceTop)
  <2>1. x = Failed(m)
    BY <1>3 DEF LoadSegment
  <2>2. Idle(m, x) /\ ~x.ok
    BY <1>1, <2>1, IdleSteps
  <2> QED BY <2>2, CoreIdle DEF GivesUp, Idle
<1>4. CASE seg.memsz # 0 /\ ~(~seg.good \/ seg.vaddr + seg.memsz > SpaceTop)
  <2>1. seg.vaddr + seg.memsz <= SpaceTop
    BY <1>4, Bounds DEF IsSegment
  <2>2. PICK s \in Nat, n \in Nat : SegmentAt(seg, s, n)
    BY <1>4, <2>1, SegmentPages
  <2>3. /\ AlignDown(seg.vaddr) = s * PageSize
        /\ AlignUp(seg.memsz + seg.vaddr - AlignDown(seg.vaddr)) = n * PageSize
        /\ n > 0 /\ PageOf(HeapEnd) <= s /\ s + n <= PageOf(SpaceTop)
    BY <2>2 DEF SegmentAt
  <2>4. Pages(n * PageSize) = n /\ n * PageSize \in Nat
    BY PageMul
  <2>5. PICK a : a = pmm_alloc_pages(m, n)
    OBVIOUS
  <2>6. PICK r, c, y : /\ r = [start |-> s * PageSize, size |-> n * PageSize, pa |-> a.out, own |-> TRUE]
                       /\ c = CapMem(a.out, n * PageSize, PTE_USER_PAGE)
                       /\ y = GrantAndMap(a, p, r, c)
    OBVIOUS
  <2>7. x = IF a.ok THEN IF y.ok THEN y ELSE Failed(pmm_free_pages(y, a.out, n)) ELSE a
    <3>1. r.start = s * PageSize /\ r.size = n * PageSize /\ r.pa = a.out /\ r.own = TRUE
      BY <2>6
    <3>2. PICK v, z : v = AlignDown(seg.vaddr) /\ z = AlignUp(seg.memsz + seg.vaddr - v)
      OBVIOUS
    <3>3. v = s * PageSize /\ z = n * PageSize
      BY <2>3, <3>2
    <3>4. y = Then(Granting(a, p, c), LAMBDA g :
                OrUndo(vmm_map_fixed(g, p, a.out, v, z, TRUE),
                       LAMBDA k : Revoking(k, p, c)))
      BY <2>6, <3>1, <3>3 DEF GrantAndMap, Then, OrUndo
    <3>5. c = CapMem(a.out, z, PTE_USER_PAGE) /\ Pages(z) = n
      BY <2>4, <2>6, <3>3
    <3> QED BY <1>4, <2>5, <3>2, <3>4, <3>5 DEF LoadSegment, Then, OrUndo
  <2>8. CASE GivesUp(m, a, X)
    <3>1. x = a
      BY <2>7, <2>8 DEF GivesUp
    <3> QED BY <2>8, <3>1
  <2>9. ASSUME NEW b \in Nat, TakesPages(m, a, b, n, X)
        PROVE  GivesUp(m, x, X) \/ Grown(m, x, p, X)
    <3>1. PICK I, Y : I = b .. b + n - 1 /\ Y = X \cup I
      OBVIOUS
    <3>2. /\ a.ok /\ a.out = b * PageSize /\ I \subseteq Blocks \ m.used /\ FirstFree <= b
          /\ b < TotalBlocks /\ a.proc = m.proc /\ Core(a, Y)
      BY <2>9, <3>1 DEF TakesPages
    <3>3. Live(a, p) /\ Owner(a.proc[p])
      BY <3>2 DEF Live
    <3>4. OwnRun(r, s, n, b)
      BY <2>6, <3>2 DEF RegionOf, OwnRun
    <3>5. Placed(r, Y) /\ OwnRegion(r) /\ PagesOf(r) = I
      <4>1. GoesTo(b, s, n, Y)
        BY <2>3, <3>1, <3>2 DEF GoesTo
      <4>2. Placed(r, Y) /\ OwnRegion(r) /\ PagesOf(r) = b .. b + n - 1
        BY ONLY s \in Nat, n \in Nat, b \in Nat, <3>4, <4>1, SegmentPlaced
      <4> QED BY <3>1, <4>2
    <3>6. Clean(c)
      <4>1. PICK z \in Nat : z = n * PageSize
        BY <2>4
      <4>2. c = CapMem(b * PageSize, z, PTE_USER_PAGE)
        BY <2>6, <3>2, <4>1
      <4> QED BY ONLY b \in Nat, z \in Nat, <3>2, <4>2, CleanPages
    <3>7. GivesUp(a, y, Y) \/ Grown(a, y, p, Y \ PagesOf(r))
      BY ONLY p \in Proc, <2>6, <3>2, <3>3, <3>5, <3>6, SegmentMapped
    <3>8. Y \ I = X
      <4>1. \A k : k \in X => k \in m.used
        BY DEF Core, PagesSound
      <4> QED BY <3>1, <3>2, <4>1
    <3>9. CASE Grown(a, y, p, Y \ PagesOf(r))
      <4>1. x = y
        BY <2>7, <3>2, <3>9 DEF Grown
      <4> QED BY <3>2, <3>5, <3>8, <3>9, <4>1 DEF Grown, Put
    <3>10. CASE GivesUp(a, y, Y)
      <4>1. PICK z : z = pmm_free_pages(y, b * PageSize, n)
        OBVIOUS
      <4>2. x = Failed(z) /\ Core(y, Y) /\ y.proc = m.proc
        BY <2>7, <3>2, <3>10, <4>1 DEF GivesUp
      <4>3. b .. b + n - 1 \subseteq Y
        BY <3>1
      <4>4. z.proc = y.proc /\ Core(z, Y \ (b .. b + n - 1))
        BY ONLY <4>1, <4>2, <4>3, b \in Nat, n \in Nat, FreeCore
      <4>5. Core(z, X) /\ z.proc = m.proc
        BY <3>1, <3>8, <4>2, <4>4
      <4>6. Idle(z, x) /\ ~x.ok
        BY <4>2, <4>5, IdleSteps DEF Core, Shape
      <4> QED BY <4>5, <4>6, CoreIdle DEF GivesUp, Idle
    <3> QED BY <3>7, <3>9, <3>10
  <2> QED BY <2>5, <2>8, <2>9, AllocCore
<1> QED BY <1>2, <1>3, <1>4

\* p is live and owns all it maps; no other process has changed.
Loading(m, x, p, X) == Core(x, X) /\ Live(x, p) /\ Put(m, x, p, x.proc[p]) /\ Owner(x.proc[p])

\* Changes of p on top of each other.
LEMMA LoadingTrans ==
    ASSUME NEW m, HasProcs(m), NEW y, NEW x, NEW p \in Proc, NEW X,
           Loading(m, y, p, X), Loading(y, x, p, X)
    PROVE  Loading(m, x, p, X)
<1>1. Put(m, y, p, y.proc[p]) /\ Put(y, x, p, x.proc[p])
  BY DEF Loading
<1>2. Put(m, x, p, x.proc[p])
  BY <1>1, PutPut
<1> QED BY <1>2 DEF Loading

\* A step that leaves the processes alone.
LEMMA LoadingIdle ==
    ASSUME NEW m, NEW y, NEW x, NEW p \in Proc, NEW X, Loading(m, y, p, X), x.proc = y.proc, Core(x, X)
    PROVE  Loading(m, x, p, X)
BY DEF Loading, Live, Put

\* Every process that owns all it maps is such a change of itself.
LEMMA LoadingStart ==
    ASSUME NEW m, NEW p \in Proc, NEW X, Core(m, X), Live(m, p), Owner(m.proc[p])
    PROVE  Loading(m, m, p, X)
<1>1. HasProcs(m)
  BY DEF Core, Shape, HasProcs
<1>2. Put(m, m, p, m.proc[p])
  BY <1>1 DEF Put, HasProcs
<1> QED BY <1>2 DEF Loading

\* One segment, if the ones before it were loaded.
NextSegment(y, p, seg) == IF y.ok THEN LoadSegment(y, p, seg) ELSE y

\* The loop of elf_load, segment by segment.
LEMMA ElfLoop ==
    ASSUME NEW m, NEW p, NEW image, NEW n \in Nat, n = Len(image)
    PROVE  \E g : /\ g[0] = m
                  /\ elf_load(m, p, image) =
                        [g[n] EXCEPT !.ok = @ /\ \E i \in DOMAIN image : image[i].memsz # 0]
                  /\ \A i \in 1 .. n : g[i] = NextSegment(g[i - 1], p, image[i])
<1> DEFINE f == CHOOSE g : g = [i \in 0 .. n |-> IF i = 0 THEN m
                    ELSE NextSegment(g[i - 1], p, image[i])]
<1>1. elf_load(m, p, image) = [f[n] EXCEPT !.ok = @ /\ \E i \in DOMAIN image : image[i].memsz # 0]
  BY DEF Loop, elf_load, NextSegment, Then
<1>2. ASSUME NEW g
      PROVE  Runs(g, "load", m, n, p, image, 0) <=>
                g = [i \in 0 .. n |-> IF i = 0 THEN m ELSE NextSegment(g[i - 1], p, image[i])]
  BY DEF Runs, Round, NextSegment
<1>3. Runs(f, "load", m, n, p, image, 0)
  BY <1>2, LoopRuns
<1> HIDE DEF f
<1>4. f[0] = m /\ \A i \in 1 .. n : f[i] = NextSegment(f[i - 1], p, image[i])
  BY <1>3 DEF Runs, Round, NextSegment
<1> QED BY <1>1, <1>4

\* One round of it.
LEMMA SegmentLoads ==
    ASSUME NEW m, HasProcs(m), NEW y, NEW p \in Proc, NEW X, Loading(m, y, p, X),
           NEW seg, IsSegment(seg), NEW x, x = NextSegment(y, p, seg)
    PROVE  Loading(m, x, p, X)
<1>1. Core(y, X) /\ Live(y, p) /\ Owner(y.proc[p])
  BY DEF Loading
<1>2. CASE ~y.ok
  BY <1>2 DEF NextSegment
<1>3. CASE y.ok
  <2>1. x = LoadSegment(y, p, seg)
    BY <1>3 DEF NextSegment
  <2>2. GivesUp(y, x, X) \/ Grown(y, x, p, X)
    BY <1>1, <1>3, <2>1, LoadCore
  <2>3. CASE GivesUp(y, x, X)
    BY <2>3, LoadingIdle DEF GivesUp
  <2>4. CASE Grown(y, x, p, X)
    <3>1. Loading(y, x, p, X)
      BY <2>4 DEF Grown, Loading
    <3> QED BY <3>1, LoadingTrans
  <2> QED BY <2>2, <2>3, <2>4
<1> QED BY <1>2, <1>3

\* An image of segments above the user heap.
IsImage(image) == Len(image) \in Nat /\ \A i \in 1 .. Len(image) : IsSegment(image[i])

\* elf_load keeps p an owner of all it maps, whether it succeeds or not.
LEMMA ElfCore ==
    ASSUME NEW m, NEW p \in Proc, NEW X, Core(m, X), Live(m, p), Owner(m.proc[p]),
           NEW image, IsImage(image), NEW x, x = elf_load(m, p, image)
    PROVE  Loading(m, x, p, X)
<1>1. PICK n \in Nat : n = Len(image)
  BY DEF IsImage
<1>2. PICK g : /\ g[0] = m
               /\ elf_load(m, p, image) =
                    [g[n] EXCEPT !.ok = @ /\ \E i \in DOMAIN image : image[i].memsz # 0]
               /\ \A i \in 1 .. n : g[i] = NextSegment(g[i - 1], p, image[i])
  BY <1>1, ElfLoop
<1>3. HasProcs(m)
  BY DEF Core, Shape, HasProcs
<1> DEFINE N == {i \in 0 .. n : Loading(m, g[i], p, X)}
<1>4. 0 \in N
  BY <1>2, LoadingStart
<1>5. ASSUME NEW i \in 1 .. n, i - 1 \in N PROVE i \in N
  <2>1. PICK y, z, seg : y = g[i - 1] /\ z = g[i] /\ seg = image[i]
    OBVIOUS
  <2>2. Loading(m, y, p, X) /\ z = NextSegment(y, p, seg) /\ IsSegment(seg)
    BY <1>1, <1>2, <1>5, <2>1 DEF IsImage
  <2>3. Loading(m, z, p, X)
    BY ONLY p \in Proc, <1>3, <2>2, SegmentLoads
  <2> QED BY <2>1, <2>3
<1>6. n \in N
  <2> HIDE DEF N
  <2> QED BY <1>4, <1>5, LoopInvariant
<1>7. PICK y : y = g[n] /\ Loading(m, y, p, X)
  BY <1>6
<1>8. PICK o : o = (y.ok /\ \E i \in DOMAIN image : image[i].memsz # 0)
  OBVIOUS
<1>9. x = [y EXCEPT !.ok = o]
  BY <1>2, <1>7, <1>8
<1>10. IsMachine(y) /\ Core(y, X)
  BY <1>7 DEF Loading, Core, Shape
<1>11. Idle(y, x)
  BY <1>9, <1>10 DEF IsMachine, Idle, SameTables
<1>12. Core(x, X) /\ x.proc = y.proc
  BY <1>10, <1>11, CoreIdle DEF Idle
<1> QED BY <1>7, <1>12, LoadingIdle

\* proc_load_from_elf: a process with its image, or none.
LEMMA LoadProcCore ==
    ASSUME NEW m, NEW X, Core(m, X), NEW p \in Proc, ~Live(m, p), NEW S, CleanCaps(S),
           NEW image, IsImage(image), NEW x, x = proc_load_from_elf(m, p, S, image)
    PROVE  Ends(m, x, p, X) \/ Grown(m, x, p, X)
<1>1. HasProcs(m)
  BY DEF Core, Shape, HasProcs
<1>2. PICK h, y, e : /\ h = kmalloc(m) /\ y = p_create_ex(h, p, "user", S)
                     /\ e = elf_load(y, p, image)
  OBVIOUS
<1>3. x = IF h.ok THEN IF y.ok THEN IF e.ok THEN e ELSE Failed(proc_exit(e, p)) ELSE y ELSE h
  BY <1>2 DEF proc_load_from_elf, Then, OrUndo
<1>4. Core(h, X) /\ h.proc = m.proc
  <2>1. Idle(m, h)
    BY <1>2, IdleSteps DEF Core, Shape
  <2> QED BY <2>1, CoreIdle DEF Idle
<1>5. CASE ~h.ok
  BY <1>3, <1>4, <1>5 DEF Ends
<1>6. CASE h.ok
  <2>1. ~Live(h, p)
    BY <1>4 DEF Live
  <2>2. PICK priv : priv = "user"
    OBVIOUS
  <2>3. y = p_create_ex(h, p, priv, S)
    BY <1>2, <2>2
  <2>4. Ends(h, y, p, X) \/ Grown(h, y, p, X)
    BY <1>4, <2>1, <2>3, CreateCore
  <2>5. CASE Ends(h, y, p, X)
    <3>1. x = y
      BY <1>3, <1>6, <2>5 DEF Ends
    <3> QED BY <1>4, <2>5, <3>1 DEF Ends, Put
  <2>6. CASE Grown(h, y, p, X)
    <3>1. y.ok /\ Core(y, X) /\ Live(y, p) /\ Owner(y.proc[p]) /\ Put(m, y, p, y.proc[p])
      BY <1>4, <2>6 DEF Grown, Put
    <3>2. Loading(y, e, p, X)
      BY <1>2, <3>1, ElfCore
    <3>3. Loading(m, y, p, X)
      BY <3>1 DEF Loading
    <3>4. Loading(m, e, p, X)
      BY <1>1, <3>2, <3>3, LoadingTrans
    <3>5. CASE e.ok
      BY <1>3, <1>6, <3>1, <3>4, <3>5 DEF Loading, Grown
    <3>6. CASE ~e.ok
      <4>1. PICK w : w = proc_exit(e, p)
        OBVIOUS
      <4>2. x = Failed(w)
        BY <1>3, <1>6, <3>1, <3>6, <4>1
      <4>3. Core(e, X) /\ Live(e, p) /\ Put(m, e, p, e.proc[p])
        BY <3>4 DEF Loading
      <4>4. Core(w, X) /\ Put(e, w, p, DeadProc)
        BY <4>1, <4>3, ExitCore
      <4>5. Put(m, w, p, DeadProc)
        BY <1>1, <4>3, <4>4, PutPut
      <4>6. Idle(w, x) /\ ~x.ok
        BY <4>2, <4>4, IdleSteps DEF Core, Shape
      <4> QED BY <4>4, <4>5, <4>6, CoreIdle DEF Ends, Idle, Put
    <3> QED BY <3>5, <3>6
  <2> QED BY <2>4, <2>5, <2>6
<1> QED BY <1>5, <1>6

\* init_thread's grants to p.
OneGrant(x, p, c) == [x EXCEPT !.proc[p].caps = cap_grant(x.proc[p].caps, c)]

GrantAll(x, p, grants) ==
    LET Grant(y, i) == [y EXCEPT !.proc[p].caps = cap_grant(@, grants[i])]
    IN  Loop(Grant, x, Len(grants))

\* They are granted one by one.
LEMMA GrantLoop ==
    ASSUME NEW m, NEW p, NEW grants, NEW n \in Nat, n = Len(grants)
    PROVE  \E g : /\ g[0] = m /\ GrantAll(m, p, grants) = g[n]
                  /\ \A i \in 1 .. n : g[i] = OneGrant(g[i - 1], p, grants[i])
<1> DEFINE f == CHOOSE g : g = [i \in 0 .. n |-> IF i = 0 THEN m
                    ELSE OneGrant(g[i - 1], p, grants[i])]
<1>1. GrantAll(m, p, grants) = f[n]
  BY DEF Loop, GrantAll, OneGrant
<1>2. ASSUME NEW g
      PROVE  Runs(g, "grant", m, n, p, grants, 0) <=>
                g = [i \in 0 .. n |-> IF i = 0 THEN m ELSE OneGrant(g[i - 1], p, grants[i])]
  BY DEF Runs, Round, OneGrant
<1>3. Runs(f, "grant", m, n, p, grants, 0)
  BY <1>2, LoopRuns
<1> HIDE DEF f
<1>4. f[0] = m /\ \A i \in 1 .. n : f[i] = OneGrant(f[i - 1], p, grants[i])
  <2>1. f = [i \in 0 .. n |-> IF i = 0 THEN m ELSE OneGrant(f[i - 1], p, grants[i])]
    BY <1>2, <1>3
  <2> QED BY <2>1
<1> QED BY <1>1, <1>4

\* An owner with other capabilities.
LEMMA OwnerCaps ==
    ASSUME NEW d, IsRecord(d), Owner(d), NEW S, CleanCaps(S), NEW e, e = WithCaps(d, S)
    PROVE  Owner(e) /\ e.st = d.st
<1>1. e.st = d.st /\ e.regs = d.regs /\ e.caps = S /\ e.stacks = d.stacks
  BY OtherFields
<1> QED BY <1>1 DEF Owner, Stacked, AllOwn

\* One grant.
LEMMA GrantLoads ==
    ASSUME NEW m, HasProcs(m), NEW y, NEW p \in Proc, NEW X, Loading(m, y, p, X),
           NEW c, Clean(c), NEW x, x = OneGrant(y, p, c)
    PROVE  Loading(m, x, p, X)
<1>1. PICK d, S, e : d = y.proc[p] /\ S = cap_grant(d.caps, c) /\ e = WithCaps(d, S)
  OBVIOUS
<1>2. Core(y, X) /\ Live(y, p) /\ Owner(d)
  BY <1>1 DEF Loading
<1>3. HasProcs(y) /\ IsRecord(d)
  BY <1>1, <1>2 DEF Core, Shape, HasProcs, IsProc, IsRecord
<1>4. CleanCaps(S)
  BY <1>1, <1>2 DEF cap_grant, Owner, CleanCaps
<1>5. x = [y EXCEPT !.proc[p].caps = S]
  BY <1>1 DEF OneGrant
<1>6. Core(x, X) /\ Put(y, x, p, WithCaps(y.proc[p], S))
  BY <1>2, <1>5, JustCaps
<1>7. x.proc[p] = e /\ Put(y, x, p, e)
  BY <1>1, <1>3, <1>6, PutAt
<1>8. Owner(e) /\ e.st = d.st
  BY <1>1, <1>2, <1>3, <1>4, OwnerCaps
<1>9. Loading(y, x, p, X)
  BY <1>1, <1>2, <1>6, <1>7, <1>8 DEF Loading, Live
<1> QED BY <1>9, LoadingTrans

\* A list of grants of device memory.
CleanGrants(grants) == Len(grants) \in Nat /\ \A i \in 1 .. Len(grants) : Clean(grants[i])

\* The grants of init_thread, one after the other.
LEMMA GrantsLoad ==
    ASSUME NEW m, HasProcs(m), NEW y, NEW p \in Proc, NEW X, Loading(m, y, p, X),
           NEW grants, CleanGrants(grants), NEW x, x = GrantAll(y, p, grants)
    PROVE  Loading(m, x, p, X)
<1>1. PICK n \in Nat : n = Len(grants)
  BY DEF CleanGrants
<1>2. PICK g : /\ g[0] = y /\ GrantAll(y, p, grants) = g[n]
               /\ \A i \in 1 .. n : g[i] = OneGrant(g[i - 1], p, grants[i])
  BY <1>1, GrantLoop
<1> DEFINE N == {i \in 0 .. n : Loading(m, g[i], p, X)}
<1>3. 0 \in N
  BY <1>2
<1>4. ASSUME NEW i \in 1 .. n, i - 1 \in N PROVE i \in N
  <2>1. PICK v, z, c : v = g[i - 1] /\ z = g[i] /\ c = grants[i]
    OBVIOUS
  <2>2. Loading(m, v, p, X) /\ z = OneGrant(v, p, c) /\ Clean(c)
    BY <1>1, <1>2, <1>4, <2>1 DEF CleanGrants
  <2>3. Loading(m, z, p, X)
    BY ONLY HasProcs(m), p \in Proc, <2>2, GrantLoads
  <2> QED BY <2>1, <2>3
<1>5. n \in N
  <2> HIDE DEF N
  <2> QED BY <1>3, <1>4, LoopInvariant
<1> QED BY <1>2, <1>5

\* init_thread's loading of a server: a process with its grants, or none.
LEMMA ServerCore ==
    ASSUME NEW m, NEW X, Core(m, X), NEW p \in Proc, ~Live(m, p), NEW image, IsImage(image),
           NEW grants, CleanGrants(grants), NEW y, y = proc_load_from_elf(m, p, {}, image),
           NEW x, x = IF y.ok THEN GrantAll(y, p, grants) ELSE y
    PROVE  Ends(m, x, p, X) \/ Loading(m, x, p, X)
<1>1. HasProcs(m)
  BY DEF Core, Shape, HasProcs
<1>2. PICK S : S = {} /\ CleanCaps(S)
  BY DEF CleanCaps
<1>3. y = proc_load_from_elf(m, p, S, image)
  BY <1>2
<1>4. Ends(m, y, p, X) \/ Grown(m, y, p, X)
  BY <1>2, <1>3, LoadProcCore
<1>5. CASE Ends(m, y, p, X)
  <2>1. x = y
    BY <1>5 DEF Ends
  <2> QED BY <1>5, <2>1
<1>6. CASE Grown(m, y, p, X)
  <2>1. Loading(m, y, p, X) /\ x = GrantAll(y, p, grants)
    BY <1>6 DEF Grown, Loading
  <2> QED BY <1>1, <2>1, GrantsLoad
<1> QED BY <1>4, <1>5, <1>6

\* The images and the grants of the constants are such.
LEMMA ConstantsClean ==
    /\ \A image \in Images : IsImage(image)
    /\ \A grants \in BootGrants : CleanGrants(grants)
<1>1. ASSUME NEW image \in Images PROVE IsImage(image)
  <2>1. /\ image \in Seq([vaddr : Nat, memsz : Nat, good : BOOLEAN])
        /\ \A i \in DOMAIN image : image[i].vaddr >= HeapEnd
    BY MemoryAssumption
  <2>2. Len(image) \in Nat /\ DOMAIN image = 1 .. Len(image)
    BY <2>1
  <2>3. \A i \in 1 .. Len(image) : image[i] \in [vaddr : Nat, memsz : Nat, good : BOOLEAN]
    <3>1. PICK T : T = [vaddr : Nat, memsz : Nat, good : BOOLEAN]
      OBVIOUS
    <3>2. image \in Seq(T)
      BY <2>1, <3>1
    <3>3. \A i \in 1 .. Len(image) : image[i] \in T
      BY ONLY <3>2
    <3> QED BY <3>1, <3>3
  <2>4. HeapEnd \in Nat
    BY Bounds
  <2> QED BY <2>1, <2>2, <2>3, <2>4 DEF IsImage, IsSegment
<1>2. ASSUME NEW grants \in BootGrants PROVE CleanGrants(grants)
  <2>1. /\ grants \in Seq(Capability(PTE_USER_PAGE)) /\ \A i \in DOMAIN grants : DeviceOnly(grants[i])
    BY MemoryAssumption
  <2>2. Len(grants) \in Nat /\ DOMAIN grants = 1 .. Len(grants)
    BY <2>1
  <2>3. ASSUME NEW i \in 1 .. Len(grants) PROVE Clean(grants[i])
    <3>1. PICK c : c = grants[i]
      OBVIOUS
    <3>2. c \in Capability(PTE_USER_PAGE) /\ DeviceOnly(c)
      BY <2>1, <2>2, <3>1
    <3>3. c.base \in Nat /\ c.size \in Nat
      BY <3>2, CapFields
    <3>4. \A b \in 0 .. FirstFree - 1 : (b * PageSize) % PageSize = 0
      BY PageMul
    <3>5. Clean(c)
      BY <3>2, <3>3, <3>4 DEF Clean, DeviceOnly, Reach
    <3> QED BY <3>1, <3>5
  <2> QED BY <2>2, <2>3 DEF CleanGrants
<1> QED BY <1>1, <1>2

-----------------------------------------------------------------------------
(* What processes map without owning it. *)

\* A page of device memory that a capability covers.
Window(caps, r) ==
    /\ r.pa \in DevicePages /\ r.size = PageSize
    /\ cap_check(caps, CapMem(r.pa, r.size, PTE_USER_PAGE))

\* Pages that some process owns, under a capability of their own.
Share(P, caps, r) ==
    /\ CapMem(r.pa, r.size, PTE_USER_PAGE) \in caps /\ r.pa \notin DevicePages
    /\ \A b \in PagesOf(r) : Held(P, b)

Alien(r) == r.own = FALSE

AllBacked(P, c) == \A r \in c.regs : Alien(r) => Window(c.caps, r) \/ Share(P, c.caps, r)

\* What is shared is mapped once.
SharedOnce(regs) ==
    \A r, o \in regs : /\ Alien(r) /\ Alien(o) /\ r.pa \notin DevicePages
                       /\ r.pa = o.pa /\ r.size = o.size
                       => r = o

Linked(P, c) == CleanCaps(c.caps) /\ Stacked(c) /\ SharedOnce(c.regs) /\ AllBacked(P, c)

Links(m) == \A q \in Proc : Linked(m.proc, m.proc[q])

\* No process maps a page of r that it does not own.
NotLent(P, r) ==
    \A q \in Proc : \A o \in P[q].regs : Alien(o) => PagesOf(o) \cap PagesOf(r) = {}

\* What p gives up nobody else maps.
GivesUnlent(m, x, p) ==
    \A r \in m.proc[p].regs : OwnRegion(r) /\ r \notin x.proc[p].regs => NotLent(m.proc, r)

\* What is shared remains so.
LEMMA ShareKept ==
    ASSUME NEW m, NEW x, NEW p \in Proc, OthersSame(m, x, p), GivesUnlent(m, x, p),
           NEW q \in Proc, NEW r \in m.proc[q].regs, Alien(r), NEW caps, Share(m.proc, caps, r)
    PROVE  Share(x.proc, caps, r)
<1>1. SUFFICES ASSUME NEW b \in PagesOf(r) PROVE Held(x.proc, b)
  BY DEF Share
<1>2. PICK k \in Proc : \E o \in m.proc[k].regs : o.own /\ b \in PagesOf(o)
  BY DEF Share, Held
<1>3. PICK o \in m.proc[k].regs : o.own /\ b \in PagesOf(o)
  BY <1>2
<1>4. CASE k # p
  BY <1>3, <1>4 DEF Held, OthersSame
<1>5. CASE k = p /\ o \in x.proc[p].regs
  BY <1>3, <1>5 DEF Held
<1>6. CASE k = p /\ o \notin x.proc[p].regs /\ o.own = TRUE
  <2>1. NotLent(m.proc, o)
    BY <1>6 DEF GivesUnlent, OwnRegion
  <2>2. PagesOf(r) \cap PagesOf(o) = {}
    BY <2>1 DEF NotLent
  <2> QED BY <1>3, <2>2
<1>7. CASE k = p /\ o \notin x.proc[p].regs /\ o.own # TRUE
  <2>1. o.own = TRUE
    BY <1>3, <1>7
  <2> QED BY <1>7, <2>1
<1> QED BY <1>4, <1>5, <1>6, <1>7

\* A change of p keeps the links if p is linked after it and gave up nothing lent.
LEMMA LinksPut ==
    ASSUME NEW m, Links(m), NEW x, NEW p \in Proc, OthersSame(m, x, p), GivesUnlent(m, x, p),
           Linked(x.proc, x.proc[p])
    PROVE  Links(x)
<1>1. SUFFICES ASSUME NEW q \in Proc, q # p PROVE Linked(x.proc, x.proc[q])
  BY DEF Links
<1>2. PICK c : c = m.proc[q] /\ x.proc[q] = c /\ Linked(m.proc, c)
  BY <1>1 DEF OthersSame, Links
<1>3. AllBacked(x.proc, c)
  <2>1. SUFFICES ASSUME NEW r \in c.regs, Alien(r) PROVE Window(c.caps, r) \/ Share(x.proc, c.caps, r)
    BY DEF AllBacked
  <2>2. Window(c.caps, r) \/ Share(m.proc, c.caps, r)
    BY <1>2, <2>1 DEF Linked, AllBacked
  <2>3. Share(m.proc, c.caps, r) => Share(x.proc, c.caps, r)
    BY <1>2, <2>1, ShareKept
  <2> QED BY <2>2, <2>3
<1> QED BY <1>2, <1>3 DEF Linked

\* A process that owns all it maps is linked.
LEMMA OwnerLinked ==
    ASSUME NEW P, NEW c, Owner(c)
    PROVE  Linked(P, c)
BY DEF Owner, Linked, AllOwn, SharedOnce, AllBacked, Alien

\* So it may take the place of one without regions.
LEMMA LinksLoading ==
    ASSUME NEW m, NEW X, Core(m, X), Links(m), NEW p \in Proc, ~Live(m, p), NEW x, Loading(m, x, p, X)
    PROVE  Links(x)
<1>1. HasProcs(m) /\ m.proc[p].regs = {}
  BY DEF Core, Shape, HasProcs, IsProc, Live
<1>2. Put(m, x, p, x.proc[p]) /\ Owner(x.proc[p])
  BY DEF Loading
<1>3. OthersSame(m, x, p)
  BY <1>1, <1>2, PutAt
<1>4. GivesUnlent(m, x, p)
  BY <1>1 DEF GivesUnlent
<1> QED BY <1>2, <1>3, <1>4, OwnerLinked, LinksPut

\* A dead process is linked.
LEMMA DeadOwner ==
    Owner(DeadProc)
BY DeadFields DEF Owner, CleanCaps, Stacked, AllOwn

\* A process that exits has lent nothing.
LEMMA LinksDead ==
    ASSUME NEW m, HasProcs(m), Links(m), NEW p \in Proc, NEW x, Put(m, x, p, DeadProc),
           GivesUnlent(m, x, p)
    PROVE  Links(x)
<1>1. x.proc[p] = DeadProc /\ OthersSame(m, x, p)
  BY PutAt
<1>2. Linked(x.proc, x.proc[p])
  BY <1>1, DeadOwner, OwnerLinked
<1> QED BY <1>1, <1>2, LinksPut

\* A call that started no process.
LEMMA LinksEnds ==
    ASSUME NEW m, NEW X, Core(m, X), Links(m), NEW p \in Proc, ~Live(m, p), NEW x, Ends(m, x, p, X)
    PROVE  Links(x)
<1>1. HasProcs(m) /\ m.proc[p].regs = {}
  BY DEF Core, Shape, HasProcs, IsProc, Live
<1>2. CASE x.proc = m.proc
  BY <1>2 DEF Links
<1>3. CASE Put(m, x, p, DeadProc)
  <2>1. GivesUnlent(m, x, p)
    BY <1>1 DEF GivesUnlent
  <2> QED BY <1>1, <1>3, <2>1, LinksDead
<1> QED BY <1>2, <1>3 DEF Ends

\* The pages that processes own are none of the kernel's.
LEMMA HeldHigh ==
    ASSUME NEW m, NEW X, Core(m, X), NEW b \in Nat, Held(m.proc, b)
    PROVE  FirstFree <= b /\ b \notin Base(m)
<1>1. b \notin Base(m)
  BY DEF Core, PagesSound
<1>2. b \notin 0 .. FirstFree - 1
  BY <1>1 DEF Base, Fixed
<1> QED BY <1>1, <1>2, PagingAssumption

-----------------------------------------------------------------------------
(* The links, call by call. *)

\* p keeps the pages it owns.
KeepsOwn(m, x, p) == \A r \in m.proc[p].regs : OwnRegion(r) => r \in x.proc[p].regs

\* Then pages that were held remain so.
LEMMA HeldMore ==
    ASSUME NEW m, NEW x, NEW p \in Proc, OthersSame(m, x, p), KeepsOwn(m, x, p),
           NEW b, Held(m.proc, b)
    PROVE  Held(x.proc, b)
<1>1. PICK k \in Proc : \E o \in m.proc[k].regs : o.own /\ b \in PagesOf(o)
  BY DEF Held
<1>2. PICK o \in m.proc[k].regs : o.own /\ b \in PagesOf(o)
  BY <1>1
<1>3. CASE k # p
  BY <1>2, <1>3 DEF Held, OthersSame
<1>4. CASE k = p
  <2>1. o.own = TRUE \/ o.own # TRUE
    OBVIOUS
  <2>2. CASE o.own = TRUE
    BY <1>2, <1>4, <2>2 DEF Held, KeepsOwn, OwnRegion
  <2>3. CASE o.own # TRUE
    BY <1>2, <2>3
  <2> QED BY <2>1, <2>2, <2>3
<1> QED BY <1>3, <1>4

\* p gets more, and is linked after it by what was there before.
LEMMA LinksGrow ==
    ASSUME NEW m, Links(m), NEW x, NEW p \in Proc, OthersSame(m, x, p), KeepsOwn(m, x, p),
           Linked(m.proc, x.proc[p])
    PROVE  Links(x)
<1>1. GivesUnlent(m, x, p)
  BY DEF GivesUnlent, KeepsOwn
<1>2. Linked(x.proc, x.proc[p])
  <2>1. \A b : Held(m.proc, b) => Held(x.proc, b)
    BY HeldMore
  <2>2. AllBacked(m.proc, x.proc[p])
    BY DEF Linked
  <2>3. AllBacked(x.proc, x.proc[p])
    BY <2>1, <2>2 DEF AllBacked, Share
  <2> QED BY <2>3 DEF Linked
<1> QED BY <1>1, <1>2, LinksPut

\* p has fewer regions, none of which was lent, and the same capabilities.
Loses(c, d) == d.regs \subseteq c.regs /\ d.caps = c.caps /\ Stacked(d)

\* A process that loses regions nobody borrows keeps the links.
LEMMA LinksShrink ==
    ASSUME NEW m, Links(m), NEW x, NEW p \in Proc, OthersSame(m, x, p), GivesUnlent(m, x, p),
           Loses(m.proc[p], x.proc[p])
    PROVE  Links(x)
<1>1. PICK c : c = m.proc[p] /\ Linked(m.proc, c)
  BY DEF Links
<1>2. PICK d : d = x.proc[p] /\ Loses(c, d)
  BY <1>1
<1>3. AllBacked(x.proc, d)
  <2>1. SUFFICES ASSUME NEW r \in d.regs, Alien(r)
                 PROVE  Window(d.caps, r) \/ Share(x.proc, d.caps, r)
    BY DEF AllBacked
  <2>2. r \in c.regs /\ d.caps = c.caps
    BY <1>2 DEF Loses
  <2>3. Window(c.caps, r) \/ Share(m.proc, c.caps, r)
    BY <1>1, <2>1, <2>2 DEF Linked, AllBacked
  <2>4. Share(m.proc, c.caps, r) => Share(x.proc, c.caps, r)
    BY <1>1, <2>1, <2>2, ShareKept
  <2> QED BY <2>2, <2>3, <2>4
<1>4. CleanCaps(d.caps) /\ Stacked(d)
  BY <1>1, <1>2 DEF Loses, Linked
<1>5. SharedOnce(d.regs)
  BY <1>1, <1>2 DEF Loses, Linked, SharedOnce
<1>6. Linked(x.proc, x.proc[p])
  BY <1>2, <1>3, <1>4, <1>5 DEF Linked
<1> QED BY <1>6, LinksPut

\* Regions that share a page are near each other.
LEMMA CommonPage ==
    ASSUME NEW r, IsRegion(r), NEW o, IsRegion(o), NEW b, b \in PagesOf(r), b \in PagesOf(o)
    PROVE  o.pa < r.pa + r.size
<1>1. PICK s, n, f \in Nat : RegionIs(r, s, n, f)
  BY RegionPages
<1>2. PICK t, k, g \in Nat : RegionIs(o, t, k, g)
  BY RegionPages
<1>3. b \in f .. f + n - 1 /\ b \in g .. g + k - 1
  BY <1>1, <1>2 DEF RegionIs
<1>4. f + n \in Nat /\ g < f + n
  BY <1>3
<1>5. g * PageSize < (f + n) * PageSize
  BY <1>4, MulOrder
<1>6. f * PageSize + n * PageSize = (f + n) * PageSize
  BY MulOrder
<1> QED BY <1>1, <1>2, <1>5, <1>6 DEF RegionIs

\* What no process has been lent, as the processes see it.
Loaned(P, r) == \E q \in Proc : \E o \in P[q].regs :
    ~o.own /\ o.pa < r.pa + r.size /\ r.pa < o.pa + o.size

\* The pages of a region whose range nobody else maps are not lent.
LEMMA UnlentPages ==
    ASSUME NEW m, NEW X, Core(m, X), NEW p \in Proc, NEW r \in m.proc[p].regs, ~Loaned(m.proc, r)
    PROVE  NotLent(m.proc, r)
<1>1. SUFFICES ASSUME NEW q \in Proc, NEW o \in m.proc[q].regs, Alien(o),
                      NEW b, b \in PagesOf(o), b \in PagesOf(r)
               PROVE  FALSE
  BY DEF NotLent
<1>2. IsRegion(r) /\ IsRegion(o)
  BY DEF Core, Shape, IsProc, Regular
<1>3. o.pa < r.pa + r.size /\ r.pa < o.pa + o.size
  BY <1>1, <1>2, CommonPage
<1>4. ~o.own
  BY <1>1 DEF Alien
<1> QED BY <1>3, <1>4 DEF Loaned

\* A call that failed, or changed no process.
LEMMA LinksSame ==
    ASSUME NEW m, Links(m), NEW x, x.proc = m.proc
    PROVE  Links(x)
BY DEF Links

\* thread_create: the stack is the thread's own.
LEMMA LinksStack ==
    ASSUME NEW m, NEW X, Core(m, X), Links(m), NEW p \in Proc, NEW x, GetsStack(m, x, p, X)
    PROVE  Links(x)
<1>1. PICK c : c = m.proc[p] /\ Linked(m.proc, c) /\ IsRecord(c) /\ HasProcs(m)
  BY DEF Links, Core, Shape, IsProc, IsRecord, HasProcs
<1>2. PICK r : r.own = TRUE /\ Put(m, x, p, StackIn(c, r))
  BY <1>1 DEF GetsStack
<1>3. PICK d : d = StackIn(c, r) /\ x.proc[p] = d /\ OthersSame(m, x, p)
  BY <1>1, <1>2, PutAt
<1>4. d.regs = c.regs \cup {r} /\ d.caps = c.caps /\ d.stacks = c.stacks \cup {r.start}
  <2>1. PICK e : e = WithRegs(c, c.regs \cup {r})
    OBVIOUS
  <2>2. IsRecord(e) /\ e.regs = c.regs \cup {r} /\ e.caps = c.caps /\ e.stacks = c.stacks
    BY <1>1, <2>1, RegsFields
  <2>3. d = WithStacks(e, c.stacks \cup {r.start})
    BY <1>3, <2>1 DEF StackIn
  <2> QED BY <2>2, <2>3, OtherFields
<1>5. KeepsOwn(m, x, p)
  BY <1>1, <1>3, <1>4 DEF KeepsOwn
<1>6. Stacked(d)
  BY <1>1, <1>2, <1>4 DEF Linked, Stacked
<1>7. ~Alien(r)
  BY <1>2 DEF Alien
<1>8. SharedOnce(d.regs)
  BY <1>1, <1>4, <1>7 DEF Linked, SharedOnce
<1>9. AllBacked(m.proc, d)
  BY <1>1, <1>4, <1>7 DEF Linked, AllBacked
<1>10. Linked(m.proc, x.proc[p])
  BY <1>1, <1>3, <1>4, <1>6, <1>8, <1>9 DEF Linked
<1> QED BY <1>3, <1>5, <1>10, LinksGrow

\* ThreadWithStack keeps the invariant and the links.
LEMMA ThreadLinks ==
    ASSUME NEW m, NEW X, Core(m, X), Links(m), NEW p \in Proc, Live(m, p), StackRoom(m, p),
           NEW x, x = ThreadWithStack(m, p)
    PROVE  Core(x, X) /\ Links(x)
<1>1. CASE GivesUp(m, x, X)
  BY <1>1, LinksSame DEF GivesUp
<1>2. CASE GetsStack(m, x, p, X)
  BY <1>2, LinksStack DEF GetsStack
<1>3. CASE Succeeds(m, x, X)
  BY <1>3, LinksSame DEF Succeeds
<1> QED BY <1>1, <1>2, <1>3, ThreadCore

\* The stack a thread gives back was lent to nobody.
StackUnlent(m, p, va) == \A r \in m.proc[p].regs : Covers(r, va) => ~Loaned(m.proc, r)

\* thread_delete: the region that goes is the stack, and no other thread's.
LEMMA FreeStackLinks ==
    ASSUME NEW m, NEW X, Core(m, X), Links(m), NEW p \in Proc, NEW va \in m.proc[p].stacks,
           StackUnlent(m, p, va), NEW x, x = FreeStack(m, p, va)
    PROVE  Core(x, X) /\ Links(x)
<1>1. PICK c : c = m.proc[p] /\ Linked(m.proc, c) /\ IsRecord(c) /\ HasProcs(m)
  BY DEF Links, Core, Shape, IsProc, IsRecord, HasProcs
<1>2. Live(m, p)
  BY DEF Core, Shape, IsProc, Live
<1>3. FreesStack(m, x, p, va, X)
  BY <1>2, FreeStackCore
<1>4. PICK S : /\ Put(m, x, p, WithStacks(WithRegs(c, S), c.stacks \ {va}))
               /\ \/ S = c.regs
                  \/ \E r \in c.regs : r.own /\ Covers(r, va) /\ S = c.regs \ {r}
  BY <1>1, <1>3 DEF FreesStack
<1>5. PICK d : d = WithStacks(WithRegs(c, S), c.stacks \ {va}) /\ x.proc[p] = d
                /\ OthersSame(m, x, p)
  BY <1>1, <1>4, PutAt
<1>6. d.regs = S /\ d.caps = c.caps /\ d.stacks = c.stacks \ {va}
  <2>1. PICK e : e = WithRegs(c, S)
    OBVIOUS
  <2>2. IsRecord(e) /\ e.regs = S /\ e.caps = c.caps /\ e.stacks = c.stacks
    BY <1>1, <2>1, RegsFields
  <2>3. d = WithStacks(e, c.stacks \ {va})
    BY <1>5, <2>1
  <2> QED BY <2>2, <2>3, OtherFields
<1>7. PICK o \in c.regs : o.own = TRUE /\ o.start = va
  BY <1>1 DEF Linked, Stacked
<1>8. va \in Nat /\ Covers(o, va)
  <2>1. IsRegion(o)
    BY <1>1 DEF Core, Shape, IsProc, Regular
  <2>2. PICK s, n, f \in Nat : RegionIs(o, s, n, f)
    BY <2>1, RegionPages
  <2>3. o.start \in Nat /\ o.start < End(o)
    BY <2>2, RegionEnd
  <2> QED BY <1>7, <2>3 DEF Covers
<1>9. \A q \in c.regs : Covers(q, va) => q = o
  BY <1>1, <1>7, <1>8, RegionAtOne
<1>10. S = c.regs \/ S = c.regs \ {o}
  BY <1>4, <1>9
<1>11. Stacked(d)
  <2>1. SUFFICES ASSUME NEW v \in c.stacks, v # va PROVE \E r \in S : r.own = TRUE /\ r.start = v
    BY <1>6 DEF Stacked
  <2>2. PICK r \in c.regs : r.own = TRUE /\ r.start = v
    BY <1>1 DEF Linked, Stacked
  <2>3. r # o
    BY <1>7, <2>1, <2>2
  <2> QED BY <1>10, <2>2, <2>3
<1>12. GivesUnlent(m, x, p)
  <2>1. ~Loaned(m.proc, o)
    BY <1>1, <1>8 DEF StackUnlent
  <2>2. NotLent(m.proc, o)
    BY <1>1, <2>1, UnlentPages
  <2>3. \A r \in c.regs : r \notin S => r = o
    BY <1>10
  <2> QED BY <1>1, <1>5, <1>6, <2>2, <2>3 DEF GivesUnlent
<1>13. Loses(m.proc[p], x.proc[p])
  BY <1>1, <1>5, <1>6, <1>10, <1>11 DEF Loses
<1>14. Core(x, X)
  BY <1>3 DEF FreesStack
<1> QED BY <1>5, <1>12, <1>13, <1>14, LinksShrink

\* p owns nothing that is lent.
OwnUnlent(m, p) == \A r \in m.proc[p].regs : r.own => ~Loaned(m.proc, r)

\* proc_exit
LEMMA ExitLinks ==
    ASSUME NEW m, NEW X, Core(m, X), Links(m), NEW p \in Proc, Live(m, p), OwnUnlent(m, p),
           NEW x, x = proc_exit(m, p)
    PROVE  Core(x, X) /\ Links(x)
<1>1. Core(x, X) /\ Put(m, x, p, DeadProc)
  BY ExitCore
<1>2. HasProcs(m)
  BY DEF Core, Shape, HasProcs
<1>3. GivesUnlent(m, x, p)
  <2>1. SUFFICES ASSUME NEW r \in m.proc[p].regs, OwnRegion(r) PROVE NotLent(m.proc, r)
    BY DEF GivesUnlent
  <2>2. ~Loaned(m.proc, r)
    BY <2>1 DEF OwnUnlent, OwnRegion
  <2> QED BY <2>2, UnlentPages
<1> QED BY <1>1, <1>2, <1>3, LinksDead

\* p_create_ex
LEMMA CreateLinks ==
    ASSUME NEW m, NEW X, Core(m, X), Links(m), NEW p \in Proc, ~Live(m, p), NEW priv,
           NEW S, CleanCaps(S), NEW x, x = p_create_ex(m, p, priv, S)
    PROVE  Core(x, X) /\ Links(x)
<1>1. CASE Ends(m, x, p, X)
  BY <1>1, LinksEnds DEF Ends
<1>2. CASE Grown(m, x, p, X)
  <2>1. Loading(m, x, p, X)
    BY <1>2 DEF Grown, Loading
  <2> QED BY <1>2, <2>1, LinksLoading DEF Grown
<1> QED BY <1>1, <1>2, CreateCore

\* proc_load_from_elf
LEMMA LoadLinks ==
    ASSUME NEW m, NEW X, Core(m, X), Links(m), NEW p \in Proc, ~Live(m, p), NEW S, CleanCaps(S),
           NEW image, IsImage(image), NEW x, x = proc_load_from_elf(m, p, S, image)
    PROVE  Core(x, X) /\ Links(x)
<1>1. CASE Ends(m, x, p, X)
  BY <1>1, LinksEnds DEF Ends
<1>2. CASE Grown(m, x, p, X)
  <2>1. Loading(m, x, p, X)
    BY <1>2 DEF Grown, Loading
  <2> QED BY <1>2, <2>1, LinksLoading DEF Grown
<1> QED BY <1>1, <1>2, LoadProcCore

\* load_user_elf_by_name
LEMMA ServerLinks ==
    ASSUME NEW m, NEW X, Core(m, X), Links(m), NEW p \in Proc, ~Live(m, p), NEW image, IsImage(image),
           NEW grants, CleanGrants(grants), NEW y, y = proc_load_from_elf(m, p, {}, image),
           NEW x, x = IF y.ok THEN GrantAll(y, p, grants) ELSE y
    PROVE  Core(x, X) /\ Links(x)
<1>1. Ends(m, x, p, X) \/ Loading(m, x, p, X)
  BY ServerCore
<1>2. CASE Ends(m, x, p, X)
  BY <1>2, LinksEnds DEF Ends
<1>3. CASE Loading(m, x, p, X)
  BY <1>3, LinksLoading DEF Loading
<1> QED BY <1>1, <1>2, <1>3

-----------------------------------------------------------------------------
(* Windows. *)

\* A page below FirstFree that a clean list lets through is device memory.
LEMMA GrantedDevice ==
    ASSUME NEW caps, CleanCaps(caps), NEW f \in Nat, f < FirstFree,
           cap_check(caps, CapMem(f * PageSize, PageSize, PTE_USER_PAGE))
    PROVE  f * PageSize \in DevicePages
<1>1. PICK d \in caps : Allows(d, CapMem(f * PageSize, PageSize, PTE_USER_PAGE))
  BY DEF cap_check
<1>2. PICK a \in Nat : a = f * PageSize
  BY PageMul
<1>3. d.type = "MAP_MEM" /\ d.base <= a /\ PageSize <= d.size /\ a - d.base <= d.size - PageSize
  BY <1>1, <1>2 DEF Allows, CapMem, InRange
<1>4. d.base \in Nat /\ d.size \in Nat /\ Clean(d)
  BY <1>3 DEF CleanCaps, Clean
<1>5. a \in Reach(d)
  BY <1>2, <1>3, <1>4, PagingAssumption DEF Reach
<1>6. f \in 0 .. FirstFree - 1
  BY PagingAssumption
<1> QED BY <1>2, <1>3, <1>4, <1>5, <1>6 DEF Clean

\* A window of one page of memory that is always there.
IsWindow(r) ==
    /\ Placed(r, {}) /\ Alien(r) /\ r.size = PageSize /\ r.pa < FirstFree * PageSize

\* mmio_exec, MAP
LEMMA WindowLinks ==
    ASSUME NEW m, Core(m, {}), Links(m), NEW p \in Proc, Live(m, p), NEW r, IsWindow(r),
           NEW x, x = vmm_map_fixed(m, p, r.pa, r.start, r.size, r.own)
    PROVE  Core(x, {}) /\ Links(x)
<1>1. GivesUp(m, x, {}) \/ MapsFixed(m, x, p, r, {})
  BY MapFixedCore DEF IsWindow
<1>2. CASE GivesUp(m, x, {})
  BY <1>2, LinksSame DEF GivesUp
<1>3. CASE MapsFixed(m, x, p, r, {})
  <2>1. PICK c : c = m.proc[p] /\ Linked(m.proc, c) /\ IsRecord(c) /\ Shape(m)
    BY DEF Links, Core, Shape, IsProc, IsRecord
  <2>2. GetsRegion(m, x, p, r, {}) /\ IsRegion(r)
        /\ cap_check(c.caps, CapMem(r.pa, r.size, PTE_USER_PAGE))
    BY <1>3, <2>1 DEF MapsFixed, Left, IsWindow, Alien
  <2>3. Core(x, {}) /\ Regioned(m, x, p, c.regs \cup {r})
    BY <2>1, <2>2 DEF GetsRegion
  <2>4. PICK d : /\ d = x.proc[p] /\ OthersSame(m, x, p) /\ d.regs = c.regs \cup {r}
                 /\ d.caps = c.caps /\ d.stacks = c.stacks
    BY <2>1, <2>3, RegionedPut DEF RegsOf
  <2>5. r.pa \in DevicePages
    <3>1. PICK s, n, f \in Nat : RegionIs(r, s, n, f)
      BY <2>2, RegionPages
    <3>2. r.pa = f * PageSize
      BY <3>1 DEF RegionIs
    <3>3. FirstFree \in Nat
      BY PagingAssumption
    <3>4. f < FirstFree
      BY <3>2, <3>3, MulOrder DEF IsWindow
    <3>5. cap_check(c.caps, CapMem(f * PageSize, PageSize, PTE_USER_PAGE))
      BY <2>2, <3>2 DEF IsWindow
    <3>6. CleanCaps(c.caps)
      BY <2>1 DEF Linked
    <3> QED BY <3>2, <3>4, <3>5, <3>6, GrantedDevice
  <2>6. Window(d.caps, r)
    BY <2>2, <2>4, <2>5 DEF Window, IsWindow
  <2>7. SharedOnce(d.regs)
    BY <2>1, <2>4, <2>5 DEF Linked, SharedOnce
  <2>8. AllBacked(m.proc, d)
    BY <2>1, <2>4, <2>6 DEF Linked, AllBacked
  <2>9. Stacked(d) /\ CleanCaps(d.caps)
    BY <2>1, <2>4 DEF Linked, Stacked
  <2>10. KeepsOwn(m, x, p)
    BY <2>1, <2>4 DEF KeepsOwn
  <2>11. Linked(m.proc, x.proc[p])
    BY <2>4, <2>7, <2>8, <2>9 DEF Linked
  <2> QED BY <2>3, <2>4, <2>10, <2>11, LinksGrow
<1> QED BY <1>1, <1>2, <1>3

\* Device memory is owned by no region.
LEMMA DeviceAlien ==
    ASSUME NEW m, NEW X, Core(m, X), NEW p \in Proc, NEW r \in m.proc[p].regs,
           r.pa \in DevicePages
    PROVE  r.own = FALSE
<1>1. PICK s, n, f \in Nat : RegionIs(r, s, n, f)
  <2>1. IsRegion(r)
    BY DEF Core, Shape, IsProc, Regular
  <2> QED BY <2>1, RegionPages
<1>2. PICK b \in Nat : r.pa = b * PageSize /\ b < FirstFree
  <2>1. DevicePages \subseteq {b * PageSize : b \in 0 .. FirstFree - 1} /\ FirstFree \in Nat
    <3>1. DevicePages \subseteq {b * PageSize : b \in 0 .. FirstFree - 1}
      BY MemoryAssumption, Zenon
    <3>2. FirstFree \in Nat
      BY PagingAssumption
    <3> QED BY <3>1, <3>2, Zenon
  <2>2. PICK b \in 0 .. FirstFree - 1 : r.pa = b * PageSize
    BY <2>1
  <2>3. b \in Nat /\ b < FirstFree
    BY <2>1
  <2> QED BY <2>2, <2>3
<1>3. f = b
  BY <1>1, <1>2, MulOrder DEF RegionIs
<1>4. f \in PagesOf(r) /\ r.own \in BOOLEAN
  BY <1>1 DEF RegionIs
<1>5. SUFFICES ASSUME r.own = TRUE PROVE FALSE
  BY <1>4
<1>6. Held(m.proc, f)
  BY <1>4, <1>5 DEF Held
<1>7. FirstFree <= f
  BY <1>6, HeldHigh
<1> QED BY <1>2, <1>3, <1>7, PagingAssumption

\* A region that is given up without having been owned.
LEMMA LinksDropAlien ==
    ASSUME NEW m, NEW X, Core(m, X), Links(m), NEW p \in Proc, NEW r \in m.proc[p].regs, Alien(r),
           NEW x, Regioned(m, x, p, m.proc[p].regs \ {r})
    PROVE  Links(x)
<1>1. PICK c : c = m.proc[p] /\ Linked(m.proc, c) /\ Shape(m)
  BY DEF Links, Core
<1>2. PICK d : /\ d = x.proc[p] /\ OthersSame(m, x, p) /\ d.regs = c.regs \ {r}
               /\ d.caps = c.caps /\ d.stacks = c.stacks
  BY <1>1, RegionedPut DEF RegsOf
<1>3. GivesUnlent(m, x, p)
  BY <1>1, <1>2 DEF GivesUnlent, OwnRegion, Alien
<1>4. Stacked(d)
  BY <1>1, <1>2 DEF Linked, Stacked, Alien
<1>5. Loses(m.proc[p], x.proc[p])
  BY <1>1, <1>2, <1>4 DEF Loses
<1> QED BY <1>2, <1>3, <1>5, LinksShrink

\* Only windows are mapped around va.
OnlyWindows(m, p, va) == \A r \in m.proc[p].regs : Covers(r, va) => r.pa \in DevicePages

\* mmio_exec, UNMAP
LEMMA UnmapLinks ==
    ASSUME NEW m, NEW X, Core(m, X), Links(m), NEW p \in Proc, Live(m, p), NEW va,
           OnlyWindows(m, p, va), NEW size, NEW x, x = vmm_unmap_fixed(m, p, va, size)
    PROVE  Core(x, X) /\ Links(x)
<1>1. \/ GivesUp(m, x, X)
      \/ \E r \in m.proc[p].regs : Covers(r, va) /\ Unmaps(m, x, p, r, X)
  BY UnmapCore
<1>2. CASE GivesUp(m, x, X)
  BY <1>2, LinksSame DEF GivesUp
<1>3. CASE \E r \in m.proc[p].regs : Covers(r, va) /\ Unmaps(m, x, p, r, X)
  <2>1. PICK r \in m.proc[p].regs : Covers(r, va) /\ Unmaps(m, x, p, r, X)
    BY <1>3
  <2>2. Core(x, X) /\ Regioned(m, x, p, m.proc[p].regs \ {r})
    BY <2>1 DEF Unmaps, LosesRegion
  <2>3. r.pa \in DevicePages
    BY <2>1 DEF OnlyWindows
  <2>4. Alien(r)
    BY <2>3, DeviceAlien DEF Alien
  <2> QED BY <2>2, <2>4, LinksDropAlien
<1> QED BY <1>1, <1>2, <1>3

-----------------------------------------------------------------------------
(* Shared memory. *)

\* The grant and the mapping of shm_share, with its roll-back.
ShareOut(m, q, pa, size, c) ==
    LET g == Granting(m, q, c)
        y == vmm_map_memory(g, q, pa, size)
    IN  IF g.ok THEN IF y.ok THEN y ELSE Failed(Revoking(y, q, c)) ELSE g

\* The page at address a is not a device's.
LEMMA NotDevice ==
    ASSUME NEW f \in Nat, FirstFree <= f
    PROVE  f * PageSize \notin DevicePages
<1>1. DevicePages \subseteq {b * PageSize : b \in 0 .. FirstFree - 1}
  BY MemoryAssumption, Zenon
<1>2. FirstFree \in Nat
  BY PagingAssumption
<1>3. SUFFICES ASSUME NEW b \in 0 .. FirstFree - 1, f * PageSize = b * PageSize PROVE FALSE
  BY <1>1, Zenon
<1>4. b \in Nat /\ b < FirstFree
  BY <1>2
<1>5. f = b
  BY <1>3, <1>4, MulOrder
<1> QED BY <1>2, <1>4, <1>5

\* What a process maps of others stays granted when its list grows.
LEMMA MoreCaps ==
    ASSUME NEW P, NEW r, NEW caps, NEW S, caps \subseteq S
    PROVE  /\ Window(caps, r) => Window(S, r)
           /\ Share(P, caps, r) => Share(P, S, r)
BY DEF Window, Share, cap_check

\* A process that gets pages of another under a capability of their own is linked.
NewShare(P, c, d, r, k) ==
    /\ d.regs = c.regs \cup {r} /\ d.caps = c.caps \cup {k} /\ d.stacks = c.stacks
    /\ k = CapMem(r.pa, r.size, PTE_USER_PAGE) /\ k \notin c.caps /\ Clean(k)
    /\ r.pa \notin DevicePages /\ \A b \in PagesOf(r) : Held(P, b)

\* A process with one more share and the capability for it stays linked.
LEMMA ShareLinked ==
    ASSUME NEW P, NEW c, Linked(P, c), NEW d, NEW r, NEW k, NewShare(P, c, d, r, k)
    PROVE  Linked(P, d)
<1>1. CleanCaps(d.caps) /\ Stacked(d)
  BY DEF NewShare, Linked, CleanCaps, Stacked
<1>2. Share(P, d.caps, r)
  BY DEF NewShare, Share
<1>3. AllBacked(P, d)
  <2>1. SUFFICES ASSUME NEW o \in d.regs, Alien(o), o # r PROVE Window(d.caps, o) \/ Share(P, d.caps, o)
    BY <1>2 DEF AllBacked
  <2>2. Window(c.caps, o) \/ Share(P, c.caps, o)
    BY <2>1 DEF NewShare, Linked, AllBacked
  <2>3. c.caps \subseteq d.caps
    BY DEF NewShare
  <2> QED BY <2>2, <2>3, MoreCaps
<1>4. \A o \in c.regs : Alien(o) /\ o.pa = r.pa => o.size # r.size
  <2>1. SUFFICES ASSUME NEW o \in c.regs, Alien(o), o.pa = r.pa, o.size = r.size PROVE FALSE
    OBVIOUS
  <2>2. Window(c.caps, o) \/ Share(P, c.caps, o)
    BY <2>1 DEF Linked, AllBacked
  <2>3. ~Window(c.caps, o)
    BY <2>1 DEF Window, NewShare
  <2>4. k \in c.caps
    BY <2>1, <2>2, <2>3 DEF Share, NewShare
  <2> QED BY <2>4 DEF NewShare
<1>5. SharedOnce(d.regs)
  BY <1>4 DEF NewShare, Linked, SharedOnce
<1> QED BY <1>1, <1>3, <1>5 DEF Linked

\* Pages from f on, held by some process, and where they go in q.
Lends(m, q, pa, size, n, f) ==
    /\ pa \in Nat /\ size \in Nat /\ n \in Nat /\ f \in Nat
    /\ f = PageOf(pa) /\ n * PageSize = AlignUp(size + pa - AlignDown(pa))
    /\ FirstFree <= f /\ f < TotalBlocks /\ \A b \in f .. f + n - 1 : Held(m.proc, b)
    /\ m.proc[q].regs # {}
    /\ FindVa(m.proc[q].regs, n * PageSize, AnonBase) + n * PageSize <= SpaceTop

\* Granting and mapping what is shared keeps the invariant and the links,
\* whichever of the two fails.
LEMMA ShareOutLinks ==
    ASSUME NEW m, NEW X, Core(m, X), Links(m), NEW q \in Proc, Live(m, q), NEW pa, NEW size,
           NEW n, NEW f, Lends(m, q, pa, size, n, f),
           NEW k, k = CapMem(f * PageSize, n * PageSize, PTE_USER_PAGE),
           NEW x, x = ShareOut(m, q, pa, size, k)
    PROVE  Core(x, X) /\ Links(x)
<1>1. PICK g : g = Granting(m, q, k)
  OBVIOUS
<1>2. PICK y : y = vmm_map_memory(g, q, pa, size)
  OBVIOUS
<1>3. /\ g.ok /\ y.ok => x = y
      /\ g.ok /\ ~y.ok => x = Failed(Revoking(y, q, k))
      /\ ~g.ok => x = g
  BY <1>1, <1>2 DEF ShareOut
<1>4. CASE GivesUp(m, g, X)
  BY <1>3, <1>4, LinksSame DEF GivesUp
<1>5. CASE Grants(m, g, q, k, X)
  <2>1. PICK c : c = m.proc[q] /\ Linked(m.proc, c) /\ IsRecord(c) /\ HasProcs(m)
    BY DEF Links, Core, Shape, IsProc, IsRecord, HasProcs
  <2>2. PICK e : e = WithCaps(c, c.caps \cup {k}) /\ Put(m, g, q, e)
    BY <1>5, <2>1 DEF Grants
  <2>3. g.proc[q] = e /\ OthersSame(m, g, q) /\ HasProcs(g)
    BY <2>1, <2>2, PutAt
  <2>4. e.regs = c.regs /\ e.caps = c.caps \cup {k} /\ e.stacks = c.stacks /\ e.st = c.st
    BY <2>1, <2>2, OtherFields
  <2>5. Core(g, X) /\ Live(g, q) /\ g.ok /\ k \notin c.caps
    BY <1>5, <2>1, <2>3, <2>4 DEF Grants, Live
  <2>6. PICK va : va = FindVa(g.proc[q].regs, n * PageSize, AnonBase)
    OBVIOUS
  <2>7. /\ pa \in Nat /\ size \in Nat /\ n \in Nat /\ g.proc[q].regs # {} /\ PageOf(pa) < TotalBlocks
        /\ n * PageSize = AlignUp(size + pa - AlignDown(pa)) /\ va + n * PageSize <= SpaceTop
    BY <2>1, <2>3, <2>4, <2>6 DEF Lends
  <2>8. \/ GivesUp(g, y, X)
        \/ HasRegion(g, y, q, RegionOf(va, n, PageOf(pa), FALSE), X)
    BY <1>2, <2>5, <2>6, <2>7, MapMemoryCore
  <2>9. CASE GivesUp(g, y, X)
    <3>1. x = Failed(Revoking(y, q, k)) /\ y.proc = g.proc /\ Core(y, X)
      BY <1>3, <2>5, <2>9 DEF GivesUp
    <3>2. GivesUp(m, x, X)
      BY <1>5, <3>1, GrantUndone
    <3> QED BY <3>2, LinksSame DEF GivesUp
  <2>10. CASE HasRegion(g, y, q, RegionOf(va, n, PageOf(pa), FALSE), X)
    <3>1. PICK r : r = RegionOf(va, n, PageOf(pa), FALSE)
      OBVIOUS
    <3>2. Core(y, X) /\ Regioned(g, y, q, e.regs \cup {r}) /\ x = y
      BY <1>3, <2>3, <2>5, <2>10, <3>1 DEF HasRegion
    <3>3. Shape(g)
      BY <2>5 DEF Core
    <3>4. PICK d : d = y.proc[q] /\ OthersSame(g, y, q) /\ RegsOf(e, d, e.regs \cup {r})
      BY <2>3, <3>2, <3>3, RegionedPut
    <3>5. d.regs = c.regs \cup {r} /\ d.caps = c.caps \cup {k} /\ d.stacks = c.stacks
      BY <2>4, <3>4 DEF RegsOf
    <3>6. r.pa = f * PageSize /\ r.size = n * PageSize /\ PagesOf(r) = f .. f + n - 1
      <4>1. r.pa = f * PageSize /\ r.size = n * PageSize
        BY <3>1 DEF RegionOf, Lends
      <4>2. PageOf(r.pa) = f /\ Pages(r.size) = n
        BY <4>1, PageMul DEF Lends
      <4> QED BY <4>1, <4>2 DEF PagesOf
    <3>7. r.pa \notin DevicePages
      BY <3>6, NotDevice DEF Lends
    <3>8. PICK w : w = n * PageSize /\ w \in Nat /\ k = CapMem(f * PageSize, w, PTE_USER_PAGE)
      BY PageMul DEF Lends
    <3>9. f \in Nat /\ FirstFree <= f
      BY DEF Lends
    <3>10. Clean(k)
      BY ONLY <3>8, <3>9, CleanPages
    <3>11. NewShare(m.proc, c, d, r, k)
      BY <2>5, <3>5, <3>6, <3>7, <3>10 DEF NewShare, Lends
    <3>12. Linked(m.proc, x.proc[q])
      BY <2>1, <3>2, <3>4, <3>11, ShareLinked
    <3>13. OthersSame(m, x, q)
      BY <2>3, <3>2, <3>4 DEF OthersSame
    <3>14. KeepsOwn(m, x, q)
      BY <2>1, <3>2, <3>4, <3>5 DEF KeepsOwn
    <3> QED BY <3>2, <3>12, <3>13, <3>14, LinksGrow
  <2> QED BY <2>8, <2>9, <2>10
<1> QED BY <1>1, <1>4, <1>5, GrantingCore

\* What shm_share finds at va, e bytes into the region r of p.
FoundPages(m, p, r, va, e, s, k, f) ==
    /\ RegionIs(r, s, k, f) /\ f < TotalBlocks /\ va \in Nat
    /\ RegionAt(m, p, va) = {r} /\ va % PageSize = e
    /\ vmm_va_to_pa(m, p, va) = f * PageSize + e
    /\ AlignDown(f * PageSize + e) = f * PageSize /\ PageOf(f * PageSize + e) = f

\* In the first page of a region shm_share finds the region's pages.
LEMMA SharePages ==
    ASSUME NEW m, NEW X, Core(m, X), NEW p \in Proc, NEW r \in m.proc[p].regs,
           NEW e \in Nat, e < PageSize, NEW va, va = r.start + e
    PROVE  \E s, k, f \in Nat : FoundPages(m, p, r, va, e, s, k, f)
<1>1. IsRegion(r)
  BY DEF Core, Shape, IsProc, Regular
<1>2. PICK s, k, f \in Nat : RegionIs(r, s, k, f) /\ f < TotalBlocks
  BY <1>1, RegionPages
<1>3. PageSize \in Nat \ {0}
  BY PagingAssumption
<1>4. s * PageSize \in Nat /\ f * PageSize \in Nat /\ k * PageSize \in Nat
  BY PageMul
<1>5. r.start = s * PageSize /\ r.pa = f * PageSize /\ r.size = k * PageSize /\ k > 0
  BY <1>2 DEF RegionIs
<1>6. va \in Nat /\ va = s * PageSize + e
  BY <1>4, <1>5
<1>7. PageSize <= k * PageSize
  <2>1. 1 * PageSize <= k * PageSize
    BY <1>5, MulOrder
  <2> QED BY <1>3, <2>1
<1>8. Covers(r, va)
  BY <1>3, <1>4, <1>5, <1>6, <1>7 DEF Covers, End
<1>9. RegionAt(m, p, va) = {r}
  BY <1>6, <1>8, RegionAtOne
<1>10. va % PageSize = e
  <2>1. (s * PageSize + e) % PageSize = e
    BY <1>3, QuotientUnique
  <2> QED BY <1>6, <2>1
<1>11. vmm_va_to_pa(m, p, va) = f * PageSize + e
  <2>1. (CHOOSE o \in {r} : TRUE) = r
    OBVIOUS
  <2>2. vmm_va_to_pa(m, p, va) = r.pa + va - r.start
    BY <1>9, <2>1 DEF vmm_va_to_pa
  <2> QED BY <1>4, <1>5, <1>6, <2>2
<1>12. (f * PageSize + e) % PageSize = e /\ (f * PageSize + e) \div PageSize = f
  BY <1>3, QuotientUnique
<1>13. AlignDown(f * PageSize + e) = f * PageSize /\ PageOf(f * PageSize + e) = f
  BY <1>4, <1>12 DEF AlignDown, PageOf
<1> QED BY <1>2, <1>6, <1>9, <1>10, <1>11, <1>13 DEF FoundPages

\* Sharing size bytes at va with q stays below the top of q's space.
ShareRoom(m, q, va, size) ==
    /\ m.proc[q].regs # {}
    /\ FindVa(m.proc[q].regs, AlignUp(size + (va % PageSize)), AnonBase)
            + AlignUp(size + (va % PageSize)) <= SpaceTop

\* shm_share
LEMMA ShareLinks ==
    ASSUME NEW m, NEW X, Core(m, X), Links(m), NEW p \in Proc, NEW q \in Proc, Live(m, q),
           NEW r \in m.proc[p].regs, r.own, NEW e \in Nat, e < PageSize,
           NEW va, va = r.start + e, NEW size \in Nat, ShareRoom(m, q, va, size),
           NEW x, x = shm_share(m, p, q, va, size)
    PROVE  Core(x, X) /\ Links(x)
<1>1. PICK s, k, f \in Nat : FoundPages(m, p, r, va, e, s, k, f)
  BY SharePages
<1>2. PICK pa : pa = vmm_va_to_pa(m, p, va) /\ pa = f * PageSize + e
  BY <1>1 DEF FoundPages
<1>3. f * PageSize \in Nat /\ k * PageSize \in Nat /\ pa \in Nat
  BY <1>2, PageMul
<1>4. size + pa - AlignDown(pa) = size + e /\ size + e \in Nat
  BY <1>1, <1>2, <1>3 DEF FoundPages
<1>5. PICK n : n = PageOf(size + e + PageSize - 1)
  OBVIOUS
<1>6. n \in Nat /\ AlignUp(size + e) = n * PageSize
  BY <1>4, <1>5, Rounding
<1>7. PICK c : c = CapMem(f * PageSize, n * PageSize, PTE_USER_PAGE)
  OBVIOUS
<1>8. r.pa = f * PageSize /\ r.size = k * PageSize /\ PagesOf(r) = f .. f + k - 1 /\ k > 0
  BY <1>1 DEF RegionIs, FoundPages
<1>9. x = Failed(m) \/ (x = ShareOut(m, q, pa, size, c) /\ n * PageSize <= k * PageSize)
  <2>1. AlignDown(pa) = f * PageSize /\ AlignUp(size + pa - AlignDown(pa)) = n * PageSize
    BY <1>1, <1>2, <1>4, <1>6 DEF FoundPages
  <2>2. shm_share(m, p, q, va, size) =
           IF \/ size = 0 \/ ~MayIpc(m, p) \/ pa = 0
              \/ \E o \in {r} : f * PageSize < o.pa \/ n * PageSize > o.size - (f * PageSize - o.pa)
           THEN Failed(m) ELSE ShareOut(m, q, pa, size, c)
    BY <1>1, <1>2, <1>7, <2>1 DEF FoundPages, shm_share, ShareOut, Then, OrUndo
  <2>3. n * PageSize \in Nat
    BY <1>6, PageMul
  <2> QED BY <1>3, <1>8, <2>2, <2>3
<1>10. CASE x = Failed(m)
  <2>1. Idle(m, x)
    BY <1>10, IdleSteps DEF Core, Shape
  <2> QED BY <2>1, CoreIdle, LinksSame DEF Idle
<1>11. CASE x = ShareOut(m, q, pa, size, c) /\ n * PageSize <= k * PageSize
  <2>1. n <= k
    BY <1>6, <1>11, MulOrder
  <2>2. \A b \in f .. f + k - 1 : Held(m.proc, b)
    BY <1>8 DEF Held
  <2>3. FirstFree <= f
    <3>1. Held(m.proc, f)
      BY <1>8, <2>2
    <3> QED BY <3>1, HeldHigh
  <2>4. \A b \in f .. f + n - 1 : Held(m.proc, b)
    BY <1>6, <2>1, <2>2
  <2>5. /\ m.proc[q].regs # {}
        /\ FindVa(m.proc[q].regs, n * PageSize, AnonBase) + n * PageSize <= SpaceTop
    BY <1>1, <1>6 DEF ShareRoom, FoundPages
  <2>6. Lends(m, q, pa, size, n, f)
    BY <1>1, <1>2, <1>3, <1>4, <1>6, <2>3, <2>4, <2>5 DEF Lends, FoundPages
  <2> QED BY <1>7, <1>11, <2>6, ShareOutLinks
<1> QED BY <1>9, <1>10, <1>11

\* The capability of one share lets no window through.
LEMMA ShareNoWindow ==
    ASSUME NEW f \in Nat, FirstFree <= f, NEW size, NEW c, c = CapMem(f * PageSize, size, PTE_USER_PAGE),
           NEW a \in DevicePages, NEW w, NEW F
    PROVE  ~Allows(c, CapMem(a, w, F))
<1>1. DevicePages \subseteq {b * PageSize : b \in 0 .. FirstFree - 1}
  BY MemoryAssumption, Zenon
<1>2. PICK b \in 0 .. FirstFree - 1 : a = b * PageSize
  BY <1>1, Zenon
<1>3. FirstFree \in Nat /\ b \in Nat /\ b < f
  BY PagingAssumption
<1>4. b * PageSize < f * PageSize /\ b * PageSize \in Nat /\ f * PageSize \in Nat
  BY <1>3, MulOrder, PageMul
<1> QED BY <1>2, <1>4 DEF Allows, CapMem, InRange

\* Revoking the capability of a share that is no longer mapped.
Unshared(c, d, r) ==
    /\ d.regs = c.regs \ {r} /\ d.stacks = c.stacks
    /\ d.caps = c.caps \ {CapMem(r.pa, r.size, PTE_USER_PAGE)}

\* A process that loses a share and the capability for it stays linked: no other
\* region of it rests on that capability.
LEMMA UnsharedBacked ==
    ASSUME NEW P, NEW c, Linked(P, c), NEW d, NEW r \in c.regs, Alien(r), r.pa \notin DevicePages,
           NEW f \in Nat, FirstFree <= f, r.pa = f * PageSize, Unshared(c, d, r)
    PROVE  Linked(P, d)
<1>1. PICK k : k = CapMem(r.pa, r.size, PTE_USER_PAGE)
  OBVIOUS
<1>2. d.regs = c.regs \ {r} /\ d.stacks = c.stacks /\ d.caps = c.caps \ {k}
  BY <1>1 DEF Unshared
<1>3. CleanCaps(d.caps) /\ Stacked(d) /\ SharedOnce(d.regs)
  BY <1>2 DEF Linked, CleanCaps, Stacked, SharedOnce, Alien
<1>4. ASSUME NEW o \in d.regs, Alien(o) PROVE Window(d.caps, o) \/ Share(P, d.caps, o)
  <2>1. o \in c.regs /\ o # r
    BY <1>2
  <2>2. Window(c.caps, o) \/ Share(P, c.caps, o)
    BY <1>4, <2>1 DEF Linked, AllBacked
  <2>3. CASE Window(c.caps, o)
    <3>1. PICK h \in c.caps : Allows(h, CapMem(o.pa, o.size, PTE_USER_PAGE))
      BY <2>3 DEF Window, cap_check
    <3>2. o.pa \in DevicePages
      BY <2>3 DEF Window
    <3>3. k = CapMem(f * PageSize, r.size, PTE_USER_PAGE)
      BY <1>1
    <3>4. ~Allows(k, CapMem(o.pa, o.size, PTE_USER_PAGE))
      BY <3>2, <3>3, ShareNoWindow
    <3>5. h \in d.caps
      BY <1>2, <3>1, <3>4
    <3> QED BY <2>3, <3>1, <3>5 DEF Window, cap_check
  <2>4. CASE Share(P, c.caps, o)
    <3>1. o.pa \notin DevicePages /\ CapMem(o.pa, o.size, PTE_USER_PAGE) \in c.caps
      BY <2>4 DEF Share
    <3>2. ~(o.pa = r.pa /\ o.size = r.size)
      BY <1>4, <2>1, <3>1 DEF Linked, SharedOnce
    <3>3. CapMem(o.pa, o.size, PTE_USER_PAGE) # k
      BY <1>1, <3>2 DEF CapMem
    <3> QED BY <1>2, <2>4, <3>1, <3>3 DEF Share
  <2> QED BY <2>2, <2>3, <2>4
<1>5. AllBacked(P, d)
  BY <1>4 DEF AllBacked
<1> QED BY <1>3, <1>5 DEF Linked

\* shm_unshare when the unmapping succeeded.
LEMMA RevokeLinks ==
    ASSUME NEW m, NEW X, Core(m, X), Links(m), NEW q \in Proc, Live(m, q), NEW r \in m.proc[q].regs,
           Alien(r), r.pa \notin DevicePages, NEW y, LosesRegion(m, y, q, r, X),
           NEW x, x = Revoking(y, q, CapMem(r.pa, r.size, PTE_USER_PAGE))
    PROVE  Core(x, X) /\ Links(x)
<1>1. PICK c : c = m.proc[q] /\ Linked(m.proc, c) /\ IsRecord(c) /\ Shape(m)
  BY DEF Links, Core, Shape, IsProc, IsRecord
<1>2. Core(y, X) /\ Regioned(m, y, q, c.regs \ {r})
  BY <1>1 DEF LosesRegion
<1>3. PICK e : e = y.proc[q] /\ OthersSame(m, y, q) /\ RegsOf(c, e, c.regs \ {r})
  BY <1>1, <1>2, RegionedPut
<1>4. PICK k : k = CapMem(r.pa, r.size, PTE_USER_PAGE)
  OBVIOUS
<1>5. x = [y EXCEPT !.proc[q].caps = e.caps \ {k}]
  BY <1>3, <1>4 DEF Revoking, cap_revoke
<1>6. Core(x, X) /\ Put(y, x, q, WithCaps(e, e.caps \ {k}))
  <2>1. PICK S : S = e.caps \ {k}
    OBVIOUS
  <2>2. x = [y EXCEPT !.proc[q].caps = S]
    BY <1>5, <2>1
  <2>3. Core(x, X) /\ Put(y, x, q, WithCaps(y.proc[q], S))
    BY ONLY <1>2, <2>2, q \in Proc, JustCaps
  <2> QED BY <1>3, <2>1, <2>3
<1>7. HasProcs(y) /\ IsRecord(e)
  BY <1>2, <1>3 DEF Core, Shape, HasProcs, IsProc, IsRecord
<1>8. PICK d : d = x.proc[q] /\ d = WithCaps(e, e.caps \ {k}) /\ OthersSame(y, x, q)
  BY <1>6, <1>7, PutAt
<1>9. d.regs = e.regs /\ d.caps = e.caps \ {k} /\ d.stacks = e.stacks
  BY <1>7, <1>8, OtherFields
<1>10. Unshared(c, d, r)
  BY <1>3, <1>4, <1>9 DEF Unshared, RegsOf
<1>11. PICK f \in Nat : FirstFree <= f /\ r.pa = f * PageSize
  <2>1. IsRegion(r)
    BY DEF Core, Shape, IsProc, Regular
  <2>2. PICK s, n, f \in Nat : RegionIs(r, s, n, f)
    BY <2>1, RegionPages
  <2>3. f \in PagesOf(r)
    BY <2>2 DEF RegionIs
  <2>4. Window(c.caps, r) \/ Share(m.proc, c.caps, r)
    BY <1>1 DEF Linked, AllBacked
  <2>5. Held(m.proc, f)
    BY <2>3, <2>4 DEF Window, Share
  <2>6. FirstFree <= f
    BY <2>5, HeldHigh
  <2> QED BY <2>2, <2>6 DEF RegionIs
<1>12. Linked(m.proc, d)
  BY <1>1, <1>10, <1>11, UnsharedBacked
<1>13. OthersSame(m, x, q)
  BY <1>3, <1>8 DEF OthersSame
<1>14. KeepsOwn(m, x, q)
  BY <1>1, <1>8, <1>10 DEF KeepsOwn, Unshared, OwnRegion, Alien
<1> QED BY <1>6, <1>8, <1>12, <1>13, <1>14, LinksGrow

\* shm_unshare: the mapping and the grant go together.
LEMMA UnshareLinks ==
    ASSUME NEW m, NEW X, Core(m, X), Links(m), NEW p \in Proc, NEW q \in Proc, Live(m, q),
           NEW r \in m.proc[q].regs, r.pa \notin DevicePages,
           NEW x, x = shm_unshare(m, p, q, End(r) - 1)
    PROVE  Core(x, X) /\ Links(x)
<1>1. PICK s, n, f \in Nat : RegionIs(r, s, n, f)
  <2>1. IsRegion(r)
    BY DEF Core, Shape, IsProc, Regular
  <2> QED BY <2>1, RegionPages
<1>2. r.start \in Nat /\ End(r) \in Nat /\ r.start < End(r)
  BY <1>1, RegionEnd
<1>3. PICK va \in Nat : va = End(r) - 1
  BY <1>2
<1>4. Covers(r, va) /\ Covers(r, r.start)
  BY <1>2, <1>3 DEF Covers
<1>5. RegionAt(m, q, va) = {r}
  BY <1>4, RegionAtOne
<1>6. PICK y : y = vmm_unmap_memory(m, q, r.start, r.size)
  OBVIOUS
<1>7. \/ x = Failed(m)
      \/ ~y.ok /\ x = y
      \/ y.ok /\ x = Revoking(y, q, CapMem(r.pa, r.size, PTE_USER_PAGE))
  <2>1. (CHOOSE o \in {r} : TRUE) = r
    OBVIOUS
  <2> QED BY <1>3, <1>5, <1>6, <2>1 DEF shm_unshare, Then
<1>8. CASE x = Failed(m)
  <2>1. Idle(m, x)
    BY <1>8, IdleSteps DEF Core, Shape
  <2> QED BY <2>1, CoreIdle, LinksSame DEF Idle
<1>9. \/ GivesUp(m, y, X)
      \/ \E o \in m.proc[q].regs : Covers(o, r.start) /\ o.own = FALSE /\ Unmaps(m, y, q, o, X)
  BY <1>6, UnmapCore
<1>10. CASE GivesUp(m, y, X)
  BY <1>7, <1>8, <1>10, LinksSame DEF GivesUp
<1>11. CASE \E o \in m.proc[q].regs : Covers(o, r.start) /\ o.own = FALSE /\ Unmaps(m, y, q, o, X)
  <2>1. PICK o \in m.proc[q].regs : Covers(o, r.start) /\ o.own = FALSE /\ Unmaps(m, y, q, o, X)
    BY <1>11
  <2>2. o = r
    BY <1>2, <1>4, <2>1, RegionAtOne
  <2>3. y.ok /\ LosesRegion(m, y, q, r, X) /\ Alien(r)
    BY <2>1, <2>2 DEF Unmaps, Alien
  <2> QED BY <1>7, <1>8, <2>3, RevokeLinks
<1> QED BY <1>9, <1>10, <1>11

-----------------------------------------------------------------------------
(* The invariant and the steps. *)

\* What holds between two system calls: every page and every table is
\* accounted for, and what processes map of others is theirs to map.
Sound(m) == Core(m, {}) /\ Links(m)
MemoryInv == Sound(Now)

\* The start of a call that may call kmalloc n times.
LEMMA CallStarts ==
    ASSUME MemoryInv, NEW n
    PROVE  LET m == Machine(n) IN Core(m, {}) /\ Links(m) /\ m.proc = proc
<1>1. PICK w : w = Now
  OBVIOUS
<1>2. PICK m : m = Machine(n)
  OBVIOUS
<1>3. Core(w, {}) /\ Links(w)
  BY <1>1 DEF MemoryInv, Sound
<1>4. Idle(w, m) /\ m.proc = proc
  BY <1>1, <1>2 DEF Now, Machine, Idle, SameTables, IsMachine
<1>5. Core(m, {})
  BY <1>3, <1>4, CoreIdle
<1>6. Links(m)
  BY <1>3, <1>4, LinksSame DEF Idle
<1> QED BY <1>2, <1>4, <1>5, <1>6

\* The end of a call.
LEMMA CallEnds ==
    ASSUME NEW x, Core(x, {}), Links(x), Becomes(x)
    PROVE  MemoryInv'
<1>1. PICK w : w = [used |-> x.used, free |-> x.free, pool |-> x.pool, ent |-> x.ent,
                    proc |-> x.proc, heap |-> 0, ok |-> TRUE, out |-> 0]
  OBVIOUS
<1>2. Idle(x, w)
  BY <1>1 DEF Idle, SameTables, IsMachine
<1>3. Core(w, {}) /\ Links(w)
  BY <1>2, CoreIdle, LinksSame DEF Idle
<1>4. Now' = w
  BY <1>1 DEF Now, Machine, Becomes
<1>5. Sound(w)
  BY <1>3 DEF Sound
<1> QED BY <1>4, <1>5 DEF MemoryInv

\* Stuttering.
LEMMA StaysSound ==
    ASSUME MemoryInv, UNCHANGED vars
    PROVE  MemoryInv'
<1>1. PICK m : m = Machine(0)
  OBVIOUS
<1>2. Core(m, {}) /\ Links(m)
  BY <1>1, CallStarts
<1>3. Becomes(m)
  BY <1>1 DEF Machine, Becomes, vars
<1> QED BY <1>2, <1>3, CallEnds

\* A pid that is given out next has no process.
LEMMA FreePid ==
    ASSUME NEW p, NextPid(p), NEW m, m.proc = proc
    PROVE  ~Live(m, p)
BY DEF NextPid, Live

\* What a child inherits is as clean as what its parent holds.
LEMMA InheritedClean ==
    ASSUME NEW m, Links(m), m.proc = proc, NEW parent \in Proc, NEW n, NEW k,
           NEW s \in Inherited(parent, n, k)
    PROVE  CleanCaps(s)
<1>1. CleanCaps(proc[parent].caps)
  BY DEF Links, Linked
<1>2. s \subseteq proc[parent].caps
  BY DEF Inherited, cap_inherit_all
<1> QED BY <1>1, <1>2 DEF CleanCaps

\* p_create_ex.
LEMMA ProcCreateStep ==
    ASSUME MemoryInv, NEW parent \in Proc, NEW p \in Proc, ProcCreate(parent, p)
    PROVE  MemoryInv'
<1>1. PICK n \in HeapRoom, priv \in {"kernel", "user"} :
        NextPid(p) /\ \E s \in Inherited(parent, n, 3) : Becomes(p_create_ex(Machine(n), p, priv, s))
  BY DEF ProcCreate
<1>2. PICK s \in Inherited(parent, n, 3) : Becomes(p_create_ex(Machine(n), p, priv, s))
  BY <1>1
<1>3. PICK m : m = Machine(n) /\ Core(m, {}) /\ Links(m) /\ m.proc = proc
  BY CallStarts
<1>4. PICK x : x = p_create_ex(m, p, priv, s) /\ Becomes(x)
  BY <1>2, <1>3
<1>5. ~Live(m, p) /\ CleanCaps(s)
  BY <1>1, <1>3, FreePid, InheritedClean
<1>6. Core(x, {}) /\ Links(x)
  BY <1>3, <1>4, <1>5, CreateLinks
<1> QED BY <1>4, <1>6, CallEnds

\* proc_load_from_elf.
LEMMA ProcLoadStep ==
    ASSUME MemoryInv, NEW parent \in Proc, NEW p \in Proc, ProcLoadFromElf(parent, p)
    PROVE  MemoryInv'
<1>1. PICK n \in HeapRoom, image \in Images :
        NextPid(p) /\ \E s \in Inherited(parent, n, 4) : Becomes(proc_load_from_elf(Machine(n), p, s, image))
  BY DEF ProcLoadFromElf
<1>2. PICK s \in Inherited(parent, n, 4) : Becomes(proc_load_from_elf(Machine(n), p, s, image))
  BY <1>1
<1>3. PICK m : m = Machine(n) /\ Core(m, {}) /\ Links(m) /\ m.proc = proc
  BY CallStarts
<1>4. PICK x : x = proc_load_from_elf(m, p, s, image) /\ Becomes(x)
  BY <1>2, <1>3
<1>5. ~Live(m, p) /\ CleanCaps(s)
  BY <1>1, <1>3, FreePid, InheritedClean
<1>6. IsImage(image)
  BY ConstantsClean
<1>7. Core(x, {}) /\ Links(x)
  BY <1>3, <1>4, <1>5, <1>6, LoadLinks
<1> QED BY <1>4, <1>7, CallEnds

\* load_user_elf_by_name.
LEMMA LoadServerStep ==
    ASSUME MemoryInv, NEW p \in Proc, LoadServer(p)
    PROVE  MemoryInv'
<1>1. PICK n \in HeapRoom, image \in Images, grants \in BootGrants :
        /\ NextPid(p)
        /\ Becomes(IF proc_load_from_elf(Machine(n), p, {}, image).ok
                   THEN GrantAll(proc_load_from_elf(Machine(n), p, {}, image), p, grants)
                   ELSE proc_load_from_elf(Machine(n), p, {}, image))
  BY DEF LoadServer, Then, GrantAll
<1>2. PICK m : m = Machine(n) /\ Core(m, {}) /\ Links(m) /\ m.proc = proc
  BY CallStarts
<1>3. PICK y : y = proc_load_from_elf(m, p, {}, image)
  OBVIOUS
<1>4. PICK x : x = (IF y.ok THEN GrantAll(y, p, grants) ELSE y) /\ Becomes(x)
  BY <1>1, <1>2, <1>3
<1>5. ~Live(m, p) /\ IsImage(image) /\ CleanGrants(grants)
  BY <1>1, <1>2, FreePid, ConstantsClean
<1>6. Core(x, {}) /\ Links(x)
  BY <1>2, <1>3, <1>4, <1>5, ServerLinks
<1> QED BY <1>4, <1>6, CallEnds

\* A thread and its stack.
LEMMA ThreadCreateStep ==
    ASSUME MemoryInv, NEW p \in Proc, ThreadCreate(p)
    PROVE  MemoryInv'
<1>1. PICK n \in RoomFor(2) : /\ proc[p].st = "live" /\ BelowTop(p, PageSize)
                              /\ Becomes(ThreadWithStack(Machine(n), p))
  BY DEF ThreadCreate
<1>2. PICK m : m = Machine(n) /\ Core(m, {}) /\ Links(m) /\ m.proc = proc
  BY CallStarts
<1>3. PICK x : x = ThreadWithStack(m, p) /\ Becomes(x)
  BY <1>1, <1>2
<1>4. Live(m, p) /\ StackRoom(m, p)
  BY <1>1, <1>2 DEF Live, StackRoom, BelowTop
<1>5. Core(x, {}) /\ Links(x)
  BY <1>2, <1>3, <1>4, ThreadLinks
<1> QED BY <1>3, <1>5, CallEnds

\* Nobody borrows a region that is not lent.
LEMMA LentIsLoaned ==
    ASSUME NEW m, m.proc = proc, NEW r, ~Lent(r)
    PROVE  ~Loaned(m.proc, r)
BY DEF Lent, Loaned

\* The stack of a thread that is deleted.
LEMMA ThreadDeleteStep ==
    ASSUME MemoryInv, NEW p \in Proc, ThreadDelete(p)
    PROVE  MemoryInv'
<1>1. PICK va \in proc[p].stacks : /\ \A r \in proc[p].regs : Covers(r, va) => ~Lent(r)
                                   /\ Becomes(FreeStack(Machine(0), p, va))
  BY DEF ThreadDelete
<1>2. PICK m : m = Machine(0) /\ Core(m, {}) /\ Links(m) /\ m.proc = proc
  BY CallStarts
<1>3. PICK x : x = FreeStack(m, p, va) /\ Becomes(x)
  BY <1>1, <1>2
<1>4. StackUnlent(m, p, va) /\ va \in m.proc[p].stacks
  BY <1>1, <1>2, LentIsLoaned DEF StackUnlent
<1>5. Core(x, {}) /\ Links(x)
  BY <1>2, <1>3, <1>4, FreeStackLinks
<1> QED BY <1>3, <1>5, CallEnds

\* proc_exit.
LEMMA ProcExitStep ==
    ASSUME MemoryInv, NEW p \in Proc, ProcExit(p)
    PROVE  MemoryInv'
<1>1. /\ proc[p].st = "live" /\ \A r \in proc[p].regs : r.own => ~Lent(r)
      /\ Becomes(proc_exit(Machine(0), p))
  BY DEF ProcExit
<1>2. PICK m : m = Machine(0) /\ Core(m, {}) /\ Links(m) /\ m.proc = proc
  BY CallStarts
<1>3. PICK x : x = proc_exit(m, p) /\ Becomes(x)
  BY <1>1, <1>2
<1>4. Live(m, p) /\ OwnUnlent(m, p)
  BY <1>1, <1>2, LentIsLoaned DEF OwnUnlent, Live
<1>5. Core(x, {}) /\ Links(x)
  BY <1>2, <1>3, <1>4, ExitLinks
<1> QED BY <1>3, <1>5, CallEnds

\* What mmio_exec lets through is a window of one page.
LEMMA AskedWindow ==
    ASSUME NEW pa \in AskedPages, NEW va \in WindowPages, va >= HeapEnd,
           PageSize <= (SpaceTop - va) % Word,
           NEW r, r = [start |-> va, size |-> PageSize, pa |-> pa, own |-> FALSE]
    PROVE  IsWindow(r)
<1>1. PageSize \in Nat /\ FirstFree \in Nat /\ TotalBlocks \in Nat /\ FirstFree <= TotalBlocks
      /\ SpaceTop \in Nat
  BY PagingAssumption
<1>2. SpaceTop < Word /\ Word \in Nat
  BY MemoryAssumption, CapAssumption
<1>3. va \in 0 .. SpaceTop
  BY MemoryAssumption
<1>4. (SpaceTop - va) % Word = SpaceTop - va
  BY <1>1, <1>2, <1>3
<1>5. va + PageSize <= SpaceTop /\ va \in Nat
  BY <1>1, <1>3, <1>4
<1>6. pa \in 0 .. FirstFree * PageSize - 1
  BY MemoryAssumption
<1>7. FirstFree * PageSize \in Nat
  BY <1>1, PageMul
<1>8. pa \in Nat /\ pa < FirstFree * PageSize
  BY <1>6, <1>7
<1>9. PageOf(pa) < FirstFree /\ PageOf(pa) \in Nat
  BY <1>1, <1>8, PageOrder, Rounding
<1>10. PageOf(pa) < TotalBlocks
  BY <1>1, <1>9
<1> QED BY <1>1, <1>5, <1>8, <1>10 DEF IsWindow, Placed, Alien

\* mmio_exec, MAP.
LEMMA MmioMapStep ==
    ASSUME MemoryInv, NEW p \in Proc, MmioMap(p)
    PROVE  MemoryInv'
<1>1. PICK n \in RoomFor(1), pa \in AskedPages, va \in WindowPages :
        /\ \E r \in proc[p].regs : r.own
        /\ va >= HeapEnd /\ PageSize <= (SpaceTop - va) % Word
        /\ Becomes(vmm_map_fixed(Machine(n), p, pa, va, PageSize, FALSE))
  BY DEF MmioMap
<1>2. PICK m : m = Machine(n) /\ Core(m, {}) /\ Links(m) /\ m.proc = proc
  BY CallStarts
<1>3. PICK r : r = [start |-> va, size |-> PageSize, pa |-> pa, own |-> FALSE]
  OBVIOUS
<1>4. r.start = va /\ r.size = PageSize /\ r.pa = pa /\ r.own = FALSE
  BY <1>3
<1>5. PICK x : x = vmm_map_fixed(m, p, r.pa, r.start, r.size, r.own) /\ Becomes(x)
  BY <1>1, <1>2, <1>4
<1>6. IsWindow(r)
  BY <1>1, <1>3, AskedWindow
<1>7. Live(m, p)
  BY <1>1, <1>2 DEF Live, Core, Shape, IsProc
<1>8. Core(x, {}) /\ Links(x)
  BY <1>2, <1>5, <1>6, <1>7, WindowLinks
<1> QED BY <1>5, <1>8, CallEnds

\* mmio_exec, UNMAP.
LEMMA MmioUnmapStep ==
    ASSUME MemoryInv, NEW p \in Proc, MmioUnmap(p)
    PROVE  MemoryInv'
<1>1. PICK va \in WindowPages :
        /\ proc[p].st = "live"
        /\ \A r \in proc[p].regs : Covers(r, va) => r.pa \in DevicePages
        /\ Becomes(vmm_unmap_fixed(Machine(0), p, va, PageSize))
  BY DEF MmioUnmap
<1>2. PICK m : m = Machine(0) /\ Core(m, {}) /\ Links(m) /\ m.proc = proc
  BY CallStarts
<1>3. PICK x : x = vmm_unmap_fixed(m, p, va, PageSize) /\ Becomes(x)
  BY <1>1, <1>2
<1>4. Live(m, p) /\ OnlyWindows(m, p, va)
  BY <1>1, <1>2 DEF Live, OnlyWindows
<1>5. Core(x, {}) /\ Links(x)
  BY <1>2, <1>3, <1>4, UnmapLinks
<1> QED BY <1>3, <1>5, CallEnds

\* shm_share with a process that has a region.
LEMMA ShmShareStep ==
    ASSUME MemoryInv, ~ShareToEmpty, NEW p \in Proc, NEW q \in Proc, ShmShare(p, q)
    PROVE  MemoryInv'
<1>1. PICK n \in RoomFor(2), size \in Sizes, r \in proc[p].regs :
        \E va \in {r.start, r.start + PageSize - 1} :
            /\ r.own /\ proc[q].st = "live" /\ BelowTop(q, AlignUp(size + (va % PageSize)))
            /\ proc[q].regs # {}
            /\ Becomes(shm_share(Machine(n), p, q, va, size))
  BY DEF ShmShare
<1>2. PICK va \in {r.start, r.start + PageSize - 1} :
            /\ r.own /\ proc[q].st = "live" /\ BelowTop(q, AlignUp(size + (va % PageSize)))
            /\ proc[q].regs # {}
            /\ Becomes(shm_share(Machine(n), p, q, va, size))
  BY <1>1
<1>3. PICK m : m = Machine(n) /\ Core(m, {}) /\ Links(m) /\ m.proc = proc
  BY CallStarts
<1>4. PICK x : x = shm_share(m, p, q, va, size) /\ Becomes(x)
  BY <1>2, <1>3
<1>5. size \in Nat /\ r \in m.proc[p].regs
  BY <1>3, MemoryAssumption
<1>6. r.start \in Nat
  <2>1. IsRegion(r)
    BY <1>3, <1>5 DEF Core, Shape, IsProc, Regular
  <2>2. PICK s, k, f \in Nat : RegionIs(r, s, k, f)
    BY <2>1, RegionPages
  <2> QED BY <2>2, RegionEnd
<1>7. PICK e \in Nat : e < PageSize /\ va = r.start + e
  <2>1. PageSize \in Nat \ {0}
    BY PagingAssumption
  <2>2. CASE va = r.start
    BY <1>6, <2>1, <2>2
  <2>3. CASE va = r.start + PageSize - 1
    <3>1. PageSize - 1 \in Nat /\ PageSize - 1 < PageSize /\ va = r.start + (PageSize - 1)
      BY <1>6, <2>1, <2>3
    <3> QED BY <3>1
  <2> QED BY <2>2, <2>3
<1>8. Live(m, q) /\ ShareRoom(m, q, va, size)
  BY <1>2, <1>3 DEF Live, ShareRoom, BelowTop
<1>9. Core(x, {}) /\ Links(x)
  BY <1>2, <1>3, <1>4, <1>5, <1>7, <1>8, ShareLinks
<1> QED BY <1>4, <1>9, CallEnds

\* shm_unshare.
LEMMA ShmUnshareStep ==
    ASSUME MemoryInv, NEW p \in Proc, NEW q \in Proc, ShmUnshare(p, q)
    PROVE  MemoryInv'
<1>1. PICK r \in proc[q].regs :
        /\ r.pa \notin DevicePages /\ proc[q].st = "live"
        /\ Becomes(shm_unshare(Machine(0), p, q, End(r) - 1))
  BY DEF ShmUnshare
<1>2. PICK m : m = Machine(0) /\ Core(m, {}) /\ Links(m) /\ m.proc = proc
  BY CallStarts
<1>3. PICK x : x = shm_unshare(m, p, q, End(r) - 1) /\ Becomes(x)
  BY <1>1, <1>2
<1>4. Live(m, q) /\ r \in m.proc[q].regs
  BY <1>1, <1>2 DEF Live
<1>5. Core(x, {}) /\ Links(x)
  BY <1>1, <1>2, <1>3, <1>4, UnshareLinks
<1> QED BY <1>3, <1>5, CallEnds

\* Every system call keeps the invariant.
LEMMA StepSound ==
    ASSUME MemoryInv, ~ShareToEmpty, [Next]_vars
    PROVE  MemoryInv'
<1>1. CASE UNCHANGED vars
  BY <1>1, StaysSound
<1>2. ASSUME NEW p \in Proc, LoadServer(p) PROVE MemoryInv'
  BY <1>2, LoadServerStep
<1>3. ASSUME NEW p \in Proc, ThreadCreate(p) PROVE MemoryInv'
  BY <1>3, ThreadCreateStep
<1>4. ASSUME NEW p \in Proc, ThreadDelete(p) PROVE MemoryInv'
  BY <1>4, ThreadDeleteStep
<1>5. ASSUME NEW p \in Proc, ProcExit(p) PROVE MemoryInv'
  BY <1>5, ProcExitStep
<1>6. ASSUME NEW p \in Proc, MmioMap(p) PROVE MemoryInv'
  BY <1>6, MmioMapStep
<1>7. ASSUME NEW p \in Proc, MmioUnmap(p) PROVE MemoryInv'
  BY <1>7, MmioUnmapStep
<1>8. ASSUME NEW p \in Proc, NEW q \in Proc, ProcCreate(p, q) PROVE MemoryInv'
  BY <1>8, ProcCreateStep
<1>9. ASSUME NEW p \in Proc, NEW q \in Proc, ProcLoadFromElf(p, q) PROVE MemoryInv'
  BY <1>9, ProcLoadStep
<1>10. ASSUME NEW p \in Proc, NEW q \in Proc, ShmShare(p, q) PROVE MemoryInv'
  BY <1>10, ShmShareStep
<1>11. ASSUME NEW p \in Proc, NEW q \in Proc, ShmUnshare(p, q) PROVE MemoryInv'
  BY <1>11, ShmUnshareStep
<1> QED BY <1>1, <1>2, <1>3, <1>4, <1>5, <1>6, <1>7, <1>8, <1>9, <1>10, <1>11 DEF Next

-----------------------------------------------------------------------------
(* arch_paging_init *)

\* An entry of the master directory for the user heap.
HeapIndex(i) == i \in Nat /\ PD_INDEX(HeapBase) <= i /\ i < PD_INDEX(HeapEnd)

\* Before there is a process only the master directory counts.
MasterOnly(m) == Structs(m, {}) /\ Identity(m)

\* A table of the master directory may be written.
LEMMA MasterWrite ==
    ASSUME NEW m, MasterOnly(m), NEW i, Tab(m, KernelDir, i),
           NEW t, t = m.ent[KernelDir][i].frame, NEW x, Rewrites(m, x, t)
    PROVE  MasterOnly(x)
<1>0. /\ IsMachine(x) /\ x.pool = m.pool /\ x.ent = [f \in Frames |-> x.ent[f]]
      /\ \A f \in Frames : f # t => x.ent[f] = m.ent[f]
  BY DEF Rewrites
<1>1. i \in DOMAIN m.ent[KernelDir] /\ t \in m.pool
  BY DEF MasterOnly, Structs, TabsIn, Tab
<1>2. x.ent[KernelDir] = m.ent[KernelDir]
  BY <1>0, <1>1, DirFrames DEF MasterOnly, Structs
<1>3. \A k : Tab(x, KernelDir, k) <=> Tab(m, KernelDir, k)
  BY <1>2 DEF Tab
<1>4. Structs(x, {})
  <2>1. InUse(x, {})
    BY <1>0 DEF MasterOnly, Structs, InUse
  <2>2. MasterPart(x)
    BY <1>2 DEF MasterOnly, Structs, MasterPart
  <2>3. Copies(x, {}) /\ UserParts(x, {})
    BY DEF Copies, UserParts
  <2>4. TabsIn(x, {})
    BY <1>0, <1>2, <1>3 DEF MasterOnly, Structs, TabsIn
  <2>5. TabsApart(x, {})
    BY <1>2, <1>3 DEF MasterOnly, Structs, TabsApart
  <2>6. TabsAll(x, {})
    BY <1>0, <1>2, <1>3 DEF MasterOnly, Structs, TabsAll
  <2> QED BY <2>1, <2>2, <2>3, <2>4, <2>5, <2>6 DEF Structs
<1>5. Identity(x)
  BY <1>2 DEF MasterOnly, Identity
<1> QED BY <1>4, <1>5 DEF MasterOnly

\* The master directory may get a table for the user heap.
LEMMA MasterAdd ==
    ASSUME NEW m, MasterOnly(m), NEW i, HeapIndex(i), NEW w, NEW f, AddsTable(m, w, KernelDir, i, f)
    PROVE  MasterOnly(w)
<1>0. /\ f \in PoolFrames \ m.pool /\ IsMachine(w) /\ w.pool = m.pool \cup {f}
      /\ w.ent = [g \in Frames |-> w.ent[g]]
      /\ i \notin DOMAIN m.ent[KernelDir]
      /\ DOMAIN w.ent[KernelDir] = DOMAIN m.ent[KernelDir] \cup {i}
      /\ w.ent[KernelDir][i].frame = f /\ w.ent[KernelDir][i].user = TRUE
      /\ w.ent[KernelDir][i].big = FALSE
      /\ \A k \in DOMAIN m.ent[KernelDir] : w.ent[KernelDir][k] = m.ent[KernelDir][k]
  BY DEF AddsTable
<1>1. \A k \in DOMAIN m.ent[KernelDir] : Tab(w, KernelDir, k) <=> Tab(m, KernelDir, k)
  BY <1>0 DEF Tab
<1>2. Tab(w, KernelDir, i)
  BY <1>0 DEF Tab
<1>3. \A k \in DOMAIN m.ent[KernelDir] : Tab(m, KernelDir, k) => m.ent[KernelDir][k].frame \in m.pool
  BY DEF MasterOnly, Structs, TabsIn
<1>4. Structs(w, {})
  <2>1. InUse(w, {})
    BY <1>0 DEF MasterOnly, Structs, InUse
  <2>2. MasterPart(w)
    <3>1. KernelEntry(i, w.ent[KernelDir][i])
      BY <1>0 DEF KernelEntry, HeapIndex
    <3> QED BY <1>0, <3>1 DEF MasterOnly, Structs, MasterPart
  <2>3. Copies(w, {}) /\ UserParts(w, {})
    BY DEF Copies, UserParts
  <2>4. TabsIn(w, {})
    BY <1>0, <1>1, <1>3 DEF TabsIn
  <2>5. TabsApart(w, {})
    <3> SUFFICES ASSUME NEW k \in DOMAIN w.ent[KernelDir], NEW l \in DOMAIN w.ent[KernelDir],
                        Tab(w, KernelDir, k), Tab(w, KernelDir, l),
                        w.ent[KernelDir][k].frame = w.ent[KernelDir][l].frame
                 PROVE  k = l
      BY DEF TabsApart
    <3>1. CASE k # i /\ l # i
      <4>1. k \in DOMAIN m.ent[KernelDir] /\ l \in DOMAIN m.ent[KernelDir]
        BY <1>0, <3>1
      <4> QED BY <1>0, <1>1, <4>1 DEF MasterOnly, Structs, TabsApart
    <3>2. CASE k = i /\ l # i
      BY <1>0, <1>1, <1>3, <3>2
    <3>3. CASE k # i /\ l = i
      BY <1>0, <1>1, <1>3, <3>3
    <3> QED BY <3>1, <3>2, <3>3
  <2>6. TabsAll(w, {})
    <3> SUFFICES ASSUME NEW g \in w.pool
                 PROVE  \E k \in DOMAIN w.ent[KernelDir] :
                            Tab(w, KernelDir, k) /\ w.ent[KernelDir][k].frame = g
      BY DEF TabsAll
    <3>1. CASE g = f
      BY <1>0, <1>2, <3>1
    <3>2. CASE g \in m.pool
      <4>1. PICK k \in DOMAIN m.ent[KernelDir] :
                Tab(m, KernelDir, k) /\ m.ent[KernelDir][k].frame = g
        BY <3>2 DEF MasterOnly, Structs, TabsAll
      <4> QED BY <1>0, <1>1, <4>1
    <3> QED BY <1>0, <3>1, <3>2
  <2> QED BY <2>1, <2>2, <2>3, <2>4, <2>5, <2>6 DEF Structs
<1>5. Identity(w)
  BY <1>0 DEF MasterOnly, Identity
<1> QED BY <1>4, <1>5 DEF MasterOnly

\* The pool holds a table for every entry of the user heap.
LEMMA PoolSuffices ==
    ASSUME NEW m, MasterOnly(m), NEW i, HeapIndex(i), i \notin DOMAIN m.ent[KernelDir]
    PROVE  ~(PoolFrames \subseteq m.pool)
<1>1. SUFFICES ASSUME PoolFrames \subseteq m.pool PROVE FALSE
  OBVIOUS
<1>2. PICK lo, hi \in Nat : lo = PD_INDEX(HeapBase) /\ hi = PD_INDEX(HeapEnd) /\ lo <= i /\ i < hi
  BY Bounds DEF HeapIndex
<1>3. PICK T : T = {k \in DOMAIN m.ent[KernelDir] : Tab(m, KernelDir, k)}
  OBVIOUS
<1>4. T \subseteq (lo .. hi - 1) \ {i}
  <2>1. SUFFICES ASSUME NEW k \in T PROVE k \in lo .. hi - 1 /\ k # i
    OBVIOUS
  <2>2. k \in DOMAIN m.ent[KernelDir] /\ Tab(m, KernelDir, k)
    BY <1>3
  <2>3. KernelEntry(k, m.ent[KernelDir][k]) /\ m.ent[KernelDir][k].big = FALSE
    BY <2>2 DEF MasterOnly, Structs, MasterPart, Tab
  <2> QED BY <1>2, <2>2, <2>3 DEF KernelEntry
<1>5. IsFiniteSet(lo .. hi - 1) /\ Cardinality(lo .. hi - 1) = hi - lo /\ i \in lo .. hi - 1
  BY <1>2, FS_Interval DEF HeapIndex
<1>6. IsFiniteSet((lo .. hi - 1) \ {i}) /\ Cardinality((lo .. hi - 1) \ {i}) = hi - lo - 1
  <2>1. PICK S : S = lo .. hi - 1
    OBVIOUS
  <2>2. IsFiniteSet(S) /\ i \in S /\ Cardinality(S) = hi - lo
    BY <1>5, <2>1
  <2>3. IsFiniteSet(S \ {i}) /\ Cardinality(S \ {i}) = Cardinality(S) - 1
    BY <2>2, FS_RemoveElement
  <2> QED BY <2>1, <2>2, <2>3
<1>7. IsFiniteSet(T) /\ Cardinality(T) <= hi - lo - 1
  BY <1>4, <1>6, FS_Subset, ZenonT(60)
<1>8. PICK h : h = [k \in T |-> m.ent[KernelDir][k].frame]
  OBVIOUS
<1>9. m.pool = PoolFrames
  BY <1>1 DEF MasterOnly, Structs, InUse
<1>10. h \in Surjection(T, PoolFrames)
  <2>1. \A k \in T : h[k] \in PoolFrames
    BY <1>3, <1>8, <1>9 DEF MasterOnly, Structs, TabsIn
  <2>2. \A f \in PoolFrames : \E k \in T : h[k] = f
    BY <1>3, <1>8, <1>9 DEF MasterOnly, Structs, TabsAll
  <2>3. h \in [T -> PoolFrames]
    BY <1>8, <2>1
  <2> QED BY <2>2, <2>3 DEF Surjection
<1>11. Cardinality(PoolFrames) <= Cardinality(T) /\ Cardinality(PoolFrames) \in Nat
  BY <1>7, <1>10, FS_Surjection, FS_CardinalityType
<1>12. (HeapEnd - HeapBase) \div (PageSize * PerTable) = hi - lo
  <2>1. PICK w \in Nat \ {0} : w = PageSize * PerTable
    BY PagingAssumption
  <2>2. HeapBase % w = 0 /\ HeapEnd % w = 0 /\ HeapBase \in Nat /\ HeapEnd \in Nat
    BY <2>1, PagingAssumption
  <2>3. HeapBase = lo * w /\ HeapEnd = hi * w
    <3>1. HeapBase = (HeapBase \div w) * w + (HeapBase % w)
          /\ HeapEnd = (HeapEnd \div w) * w + (HeapEnd % w)
      BY <2>1, <2>2, Division
    <3>2. lo = HeapBase \div w /\ hi = HeapEnd \div w
      BY <1>2, <2>1 DEF PD_INDEX
    <3>3. HeapBase = lo * w + 0 /\ HeapEnd = hi * w + 0
      BY <2>2, <3>1, <3>2
    <3>4. lo * w \in Nat /\ hi * w \in Nat
      BY <1>2, <2>1
    <3> QED BY <3>3, <3>4
  <2>4. PICK d \in Nat : d = hi - lo
    BY <1>2 DEF HeapIndex
  <2>5. hi * w - lo * w = d * w + 0
    BY <1>2, <2>1, <2>4
  <2>6. (d * w + 0) \div w = d
    BY <2>1, <2>4, QuotientUnique
  <2> QED BY <2>1, <2>3, <2>4, <2>5, <2>6
<1>13. Cardinality(PoolFrames) >= hi - lo
  BY <1>12, PagingAssumption
<1>14. Cardinality(T) \in Nat
  BY <1>7, FS_CardinalityType
<1> QED BY <1>2, <1>7, <1>11, <1>13, <1>14

\* What mapping a page of the user heap leaves behind.
HeapPage(m, x, va, pa) ==
    /\ MasterOnly(x) /\ TablesOnly(m, x)
    /\ \A a \in Nat : Translate(x, KernelDir, a) =
                        IF PageOf(a) = PageOf(va) THEN {Entry(PageOf(pa), TRUE, FALSE)}
                        ELSE Translate(m, KernelDir, a)

\* A page of the user heap is mapped, always.
LEMMA HeapMaps ==
    ASSUME NEW m, MasterOnly(m), NEW va \in Nat, HeapIndex(PD_INDEX(va)), NEW pa,
           NEW x, x = arch_map_4kb(m, KernelDir, va, pa, TRUE)
    PROVE  HeapPage(m, x, va, pa)
<1>0. PICK i, j, e, w : /\ i = PD_INDEX(va) /\ j = PT_INDEX(va)
                        /\ e = Entry(PageOf(pa), TRUE, FALSE)
                        /\ w = WithTable(m, KernelDir, i, TRUE)
  OBVIOUS
<1>1. x = IF w.ok THEN SetEntry(w, w.ent[KernelDir][i].frame, j, e) ELSE w
  BY <1>0 DEF arch_map_4kb, Then
<1>2. HeapIndex(i) /\ Directory(m, KernelDir)
  BY <1>0, MasterDirectory DEF MasterOnly
<1>3. UserPart(m, KernelDir, i)
  <2>1. SUFFICES ASSUME i \in DOMAIN m.ent[KernelDir] PROVE Tabled(m, KernelDir, i)
    BY DEF UserPart
  <2>2. KernelEntry(i, m.ent[KernelDir][i])
    BY <2>1 DEF MasterOnly, Structs, MasterPart
  <2>3. PD_INDEX(HeapBase) \in Nat
    BY Bounds
  <2> QED BY <1>2, <2>1, <2>2, <2>3 DEF KernelEntry, HeapIndex, Tabled
<1>4. Directory(w, KernelDir) /\ w.ok \in BOOLEAN /\ (w.ok = TRUE => Tabled(w, KernelDir, i))
  BY ONLY <1>0, <1>2, <1>3, NewTable, ZenonT(60)
<1>5. w.ok = TRUE
  <2>1. CASE i \in DOMAIN m.ent[KernelDir]
    <3>1. m.ent[KernelDir][i].big = FALSE
      BY <1>3, <2>1 DEF UserPart, Tabled
    <3>2. w = [m EXCEPT !.ok = TRUE, !.out = 0]
      BY <1>0, <2>1, <3>1 DEF WithTable, Returns, Present
    <3> QED BY <1>2, <3>2 DEF Directory, IsMachine
  <2>2. CASE i \notin DOMAIN m.ent[KernelDir]
    <3>1. ~(PoolFrames \subseteq m.pool)
      BY <1>2, <2>2, PoolSuffices
    <3>2. PICK f : f = Min(PoolFrames \ m.pool)
      OBVIOUS
    <3>3. PICK a : a = arch_paging_pool_alloc(m)
      OBVIOUS
    <3>4. a = [m EXCEPT !.pool = m.pool \cup {f}, !.ent[f] = NoEntries, !.ok = TRUE, !.out = f]
      BY <3>1, <3>2, <3>3 DEF arch_paging_pool_alloc
    <3>5. a.ok = TRUE /\ IsMachine(a)
      BY <1>2, <3>4 DEF Directory, IsMachine
    <3>6. w = SetEntry(a, KernelDir, i, Entry(a.out, TRUE, FALSE))
      BY <1>0, <2>2, <3>3, <3>5 DEF WithTable, Then, Present
    <3> QED BY <3>5, <3>6 DEF SetEntry, IsMachine
  <2> QED BY <2>1, <2>2
<1>6. MasterOnly(w)
  <2>1. SameTables(m, w) \/ \E f : AddsTable(m, w, KernelDir, i, f)
    BY ONLY <1>0, <1>2, <1>3, TableAdded
  <2>2. CASE SameTables(m, w)
    <3>1. Structs(w, {})
      BY <2>2, SameBeside DEF MasterOnly, Beside
    <3>2. Identity(w)
      BY <2>2 DEF MasterOnly, Identity, SameTables
    <3> QED BY <3>1, <3>2 DEF MasterOnly
  <2>3. ASSUME NEW f, AddsTable(m, w, KernelDir, i, f) PROVE MasterOnly(w)
    BY <1>2, <2>3, MasterAdd
  <2> QED BY <2>1, <2>2, <2>3
<1>7. PICK t : t = w.ent[KernelDir][i].frame
  OBVIOUS
<1>8. x = SetEntry(w, t, j, e)
  BY <1>1, <1>5, <1>7
<1>9. Tab(w, KernelDir, i)
  BY <1>4, <1>5 DEF Tab, Tabled
<1>10. t \in Frames /\ IsMachine(w) /\ w.ent = [f \in Frames |-> w.ent[f]]
  BY <1>6, <1>7, <1>9, DirFrames DEF MasterOnly, Structs, TabsIn, Tab, InUse
<1>11. /\ IsMachine(x) /\ x.pool = w.pool /\ x.ent = [f \in Frames |-> x.ent[f]] /\ x.ok = w.ok
       /\ \A f \in Frames : f # t => x.ent[f] = w.ent[f]
  BY ONLY <1>8, <1>10, WriteEntry
<1>12. Rewrites(w, x, t)
  BY <1>11 DEF Rewrites
<1>13. MasterOnly(x)
  BY <1>6, <1>7, <1>9, <1>12, MasterWrite
<1>14. UserPart(m, KernelDir, PD_INDEX(va)) /\ x.ok = TRUE
  BY <1>0, <1>3, <1>5, <1>11
<1>15. /\ Keeps(m, x, KernelDir)
       /\ x.ok = TRUE => \A a \in Nat :
            Translate(x, KernelDir, a) = IF PageOf(a) = PageOf(va)
                                         THEN {Entry(PageOf(pa), TRUE, FALSE)}
                                         ELSE Translate(m, KernelDir, a)
  BY ONLY x = arch_map_4kb(m, KernelDir, va, pa, TRUE), va \in Nat, <1>2, <1>14, MapAt
<1> QED BY <1>13, <1>14, <1>15 DEF HeapPage, Keeps

\* The loop that maps the user heap.
MapHeap(m, n) ==
    LET Step(x, i) == arch_map_4kb(x, KernelDir, HeapBase + (i - 1) * PageSize,
                                   m.out + (i - 1) * PageSize, TRUE)
    IN  Loop(Step, m, n)

\* One round of it.
HeapRound(x, i, pa) ==
    arch_map_4kb(x, KernelDir, HeapBase + (i - 1) * PageSize, pa + (i - 1) * PageSize, TRUE)

\* The loop that maps the user heap.
LEMMA HeapLoop ==
    ASSUME NEW m, NEW n \in Nat
    PROVE  \E g : /\ g[0] = m /\ MapHeap(m, n) = g[n]
                  /\ \A i \in 1 .. n : g[i] = HeapRound(g[i - 1], i, m.out)
<1> DEFINE f == CHOOSE g : g = [i \in 0 .. n |-> IF i = 0 THEN m ELSE HeapRound(g[i - 1], i, m.out)]
<1>1. MapHeap(m, n) = f[n]
  BY DEF Loop, MapHeap, HeapRound
<1>2. ASSUME NEW g
      PROVE  Runs(g, "heap", m, n, KernelDir, HeapBase, m.out) <=>
                g = [i \in 0 .. n |-> IF i = 0 THEN m ELSE HeapRound(g[i - 1], i, m.out)]
  BY DEF Runs, Round, HeapRound
<1>3. Runs(f, "heap", m, n, KernelDir, HeapBase, m.out)
  BY <1>2, LoopRuns
<1> HIDE DEF f
<1>4. f[0] = m /\ \A i \in 1 .. n : f[i] = HeapRound(f[i - 1], i, m.out)
  <2>1. f = [i \in 0 .. n |-> IF i = 0 THEN m ELSE HeapRound(f[i - 1], i, m.out)]
    BY <1>2, <1>3
  <2> QED BY <2>1
<1> QED BY <1>1, <1>4

\* The loop that takes the modules.
MarkAll(m, modules) ==
    LET Mark(x, i) == pmm_mark_used(x, modules[i])
    IN  Loop(Mark, m, Len(modules))

\* The loop that takes the modules.
LEMMA MarkLoop ==
    ASSUME NEW m, NEW modules, NEW n \in Nat, n = Len(modules)
    PROVE  \E g : /\ g[0] = m /\ MarkAll(m, modules) = g[n]
                  /\ \A i \in 1 .. n : g[i] = pmm_mark_used(g[i - 1], modules[i])
<1> DEFINE f == CHOOSE g : g = [i \in 0 .. n |-> IF i = 0 THEN m
                    ELSE pmm_mark_used(g[i - 1], modules[i])]
<1>1. MarkAll(m, modules) = f[n]
  BY DEF Loop, MarkAll
<1>2. ASSUME NEW g
      PROVE  Runs(g, "mark", m, n, modules, 0, 0) <=>
                g = [i \in 0 .. n |-> IF i = 0 THEN m ELSE pmm_mark_used(g[i - 1], modules[i])]
  BY DEF Runs, Round
<1>3. Runs(f, "mark", m, n, modules, 0, 0)
  BY <1>2, LoopRuns
<1> HIDE DEF f
<1>4. f[0] = m /\ \A i \in 1 .. n : f[i] = pmm_mark_used(f[i - 1], modules[i])
  BY <1>3 DEF Runs, Round
<1> QED BY <1>1, <1>4

\* i pages of the user heap are mapped, to the pages from b on.
HeapDone(m, x, b, i) ==
    MasterOnly(x) /\ TablesOnly(m, x) /\ Mapped(m, x, KernelDir, PageOf(HeapBase), b, i)

\* One more page of the user heap.
LEMMA HeapStep ==
    ASSUME NEW m, NEW y, NEW b \in Nat, NEW k \in Nat, PageOf(HeapBase) + k < PageOf(HeapEnd),
           HeapDone(m, y, b, k), NEW pa, pa = b * PageSize, NEW x, x = HeapRound(y, k + 1, pa)
    PROVE  HeapDone(m, x, b, k + 1)
<1>1. PICK h \in Nat : h = PageOf(HeapBase)
  BY Bounds
<1>2. PICK va : va = HeapBase + k * PageSize
  OBVIOUS
<1>3. va \in Nat /\ PageOf(va) = h + k
  BY <1>1, <1>2, Bounds, PageBehind
<1>4. PICK qa : qa = pa + k * PageSize
  OBVIOUS
<1>5. PageOf(qa) = b + k
  <2>1. pa \in Nat /\ PageOf(pa) = b
    BY PageMul
  <2> QED BY <1>4, <2>1, PageBehind
<1>6. x = arch_map_4kb(y, KernelDir, va, qa, TRUE)
  <2>1. (k + 1) - 1 = k
    OBVIOUS
  <2> QED BY <1>2, <1>4, <2>1 DEF HeapRound
<1>7. HeapIndex(PD_INDEX(va))
  <2>1. HeapBase % (PageSize * PerTable) = 0 /\ HeapEnd % (PageSize * PerTable) = 0
    BY PagingAssumption
  <2>2. PD_INDEX(va) \in Nat
    BY <1>3, IndexOfPage
  <2>3. PageOf(HeapBase) <= PageOf(va) /\ PageOf(va) < PageOf(HeapEnd)
    BY <1>1, <1>3
  <2>4. PD_INDEX(HeapBase) <= PD_INDEX(va)
    BY <1>3, <2>1, <2>3, Bounds, EntryOrder
  <2>5. PD_INDEX(va) < PD_INDEX(HeapEnd)
    BY <1>3, <2>1, <2>3, Bounds, EntryOrder
  <2> QED BY <2>2, <2>4, <2>5 DEF HeapIndex
<1>8. HeapPage(y, x, va, qa)
  BY <1>3, <1>6, <1>7, HeapMaps DEF HeapDone
<1>9. Mapped(m, x, KernelDir, h, b, k + 1)
  <2>1. SUFFICES ASSUME NEW a \in Nat
                 PROVE  Translate(x, KernelDir, a) =
                            IF PageOf(a) \in h .. h + (k + 1) - 1
                            THEN {Entry(b + (PageOf(a) - h), TRUE, FALSE)}
                            ELSE Translate(m, KernelDir, a)
    BY DEF Mapped
  <2>2. Translate(x, KernelDir, a) = IF PageOf(a) = h + k THEN {Entry(b + k, TRUE, FALSE)}
                                     ELSE Translate(y, KernelDir, a)
    BY <1>3, <1>5, <1>8 DEF HeapPage
  <2>3. Translate(y, KernelDir, a) = IF PageOf(a) \in h .. h + k - 1
                                     THEN {Entry(b + (PageOf(a) - h), TRUE, FALSE)}
                                     ELSE Translate(m, KernelDir, a)
    BY <1>1 DEF HeapDone, Mapped
  <2>4. PageOf(a) \in Nat
    BY IndexOfPage
  <2>5. CASE PageOf(a) = h + k
    <3>1. b + (PageOf(a) - h) = b + k /\ PageOf(a) \in h .. h + (k + 1) - 1
      BY <2>5
    <3> QED BY <2>2, <2>5, <3>1
  <2>6. CASE PageOf(a) # h + k
    <3>1. PageOf(a) \in h .. h + (k + 1) - 1 <=> PageOf(a) \in h .. h + k - 1
      BY <2>4, <2>6
    <3> QED BY <2>2, <2>3, <2>6, <3>1
  <2> QED BY <2>5, <2>6
<1>10. MasterOnly(x) /\ TablesOnly(m, x)
  BY <1>8 DEF HeapPage, HeapDone, TablesOnly
<1> QED BY <1>1, <1>9, <1>10 DEF HeapDone

\* All pages of the user heap, of which none fails: the pool suffices.
LEMMA HeapAll ==
    ASSUME NEW m, MasterOnly(m), NEW b \in Nat, m.out = b * PageSize, NEW n \in Nat,
           PageOf(HeapBase) + n <= PageOf(HeapEnd), NEW x, x = MapHeap(m, n)
    PROVE  HeapDone(m, x, b, n)
<1>1. PICK g : /\ g[0] = m /\ x = g[n]
               /\ \A i \in 1 .. n : g[i] = HeapRound(g[i - 1], i, m.out)
  BY HeapLoop
<1>2. PICK N : N = {i \in 0 .. n : HeapDone(m, g[i], b, i)}
  OBVIOUS
<1>3. 0 \in N
  <2>1. PageOf(HeapBase) \in Nat
    BY Bounds
  <2>2. Mapped(m, m, KernelDir, PageOf(HeapBase), b, 0)
    <3>1. ASSUME NEW a \in Nat PROVE PageOf(a) \notin PageOf(HeapBase) .. PageOf(HeapBase) + 0 - 1
      BY <2>1, IndexOfPage
    <3> QED BY <3>1 DEF Mapped
  <2>3. HeapDone(m, m, b, 0)
    BY <2>2 DEF HeapDone, TablesOnly
  <2> QED BY <1>1, <1>2, <2>3
<1>4. ASSUME NEW i \in 1 .. n, i - 1 \in N PROVE i \in N
  <2>1. PICK k \in Nat : k = i - 1 /\ i = k + 1 /\ k < n
    OBVIOUS
  <2>2. PICK y : y = g[k] /\ HeapDone(m, y, b, k)
    BY <1>2, <1>4, <2>1
  <2>3. PICK z : z = g[i] /\ z = HeapRound(y, k + 1, m.out)
    BY <1>1, <2>1, <2>2
  <2>4. PageOf(HeapBase) + k < PageOf(HeapEnd)
    BY <2>1, Bounds
  <2>5. HeapDone(m, z, b, k + 1)
    BY <2>2, <2>3, <2>4, HeapStep
  <2>6. HeapDone(m, g[i], b, i)
    BY <2>1, <2>3, <2>5
  <2> QED BY <1>2, <2>6
<1>5. n \in N
  BY <1>3, <1>4, LoopInvariant
<1> QED BY <1>1, <1>2, <1>5

\* Nothing is mapped for the user heap yet.
NoHeap(m) == \A a \in Nat : PageOf(HeapBase) <= PageOf(a) => Translate(m, KernelDir, a) = {}

\* The pages of the addresses in the user heap.
LEMMA HeapAddress ==
    ASSUME NEW a \in HeapBase .. HeapEnd - 1
    PROVE  /\ a \in Nat /\ PageOf(a) \in Nat /\ PageOf(HeapBase) <= PageOf(a)
           /\ PageOf(a) < PageOf(HeapEnd)
<1>1. a \in Nat /\ HeapBase <= a /\ a < HeapEnd
  BY Bounds
<1>2. PageOf(a) \in Nat
  BY <1>1, IndexOfPage
<1>3. PICK h, e \in Nat : h = PageOf(HeapBase) /\ e = PageOf(HeapEnd)
                           /\ HeapBase = h * PageSize /\ HeapEnd = e * PageSize
  BY Bounds
<1>4. h <= PageOf(a) /\ PageOf(a) < e
  BY <1>1, <1>3, PageOrder
<1> QED BY <1>1, <1>2, <1>3, <1>4

\* An unmapped heap has no pages.
LEMMA NoHeapFrames ==
    ASSUME NEW m, NoHeap(m)
    PROVE  HeapFrames(m) = {}
<1>1. \A va \in HeapBase .. HeapEnd - 1 : Translate(m, KernelDir, va) = {}
  BY HeapAddress DEF NoHeap
<1> QED BY <1>1 DEF HeapFrames

\* The pages of the heap are those that were allocated for it.
LEMMA HeapFramesAre ==
    ASSUME NEW m, NEW x, NEW b \in Nat, NEW n \in Nat, PageOf(HeapBase) + n = PageOf(HeapEnd),
           Mapped(m, x, KernelDir, PageOf(HeapBase), b, n)
    PROVE  HeapFrames(x) = b .. b + n - 1
<1>1. PICK h \in Nat : h = PageOf(HeapBase) /\ h + n = PageOf(HeapEnd)
  BY Bounds
<1>2. PICK A : A = {a \in HeapBase .. HeapEnd - 1 : a % PageSize = 0}
  OBVIOUS
<1>3. HeapFrames(x) = {e.frame : e \in UNION {Translate(x, KernelDir, va) : va \in A}}
  BY <1>2 DEF HeapFrames
<1>4. ASSUME NEW va \in A
      PROVE  /\ PageOf(va) - h \in 0 .. n - 1
             /\ Translate(x, KernelDir, va) = {Entry(b + (PageOf(va) - h), TRUE, FALSE)}
  <2>1. va \in Nat /\ PageOf(va) \in Nat /\ h <= PageOf(va) /\ PageOf(va) < h + n
    BY <1>1, <1>2, HeapAddress
  <2>2. PageOf(va) \in h .. h + n - 1
    BY <2>1
  <2>3. Translate(x, KernelDir, va) = {Entry(b + (PageOf(va) - h), TRUE, FALSE)}
    BY <1>1, <2>1, <2>2 DEF Mapped
  <2> QED BY <2>1, <2>3
<1>5. ASSUME NEW c \in b .. b + n - 1 PROVE c \in HeapFrames(x)
  <2>1. PICK j \in Nat : j = c - b /\ j < n
    OBVIOUS
  <2>2. PICK va : va = (h + j) * PageSize
    OBVIOUS
  <2>3. h + j \in Nat
    OBVIOUS
  <2>4. va \in Nat /\ PageOf(va) = h + j /\ va % PageSize = 0
    BY <2>2, <2>3, PageMul
  <2>5. HeapBase <= va /\ va < HeapEnd
    <3>1. HeapBase = h * PageSize /\ HeapEnd = (h + n) * PageSize
      BY <1>1, Bounds
    <3>2. h * PageSize <= va /\ va < (h + n) * PageSize
      <4>1. PICK s, t \in Nat : s = h + j /\ t = h + n /\ h <= s /\ s < t
        BY <2>1, <2>3
      <4>2. h * PageSize <= s * PageSize /\ s * PageSize < t * PageSize
        BY <4>1, MulOrder
      <4> QED BY <2>2, <4>1, <4>2
    <3> QED BY <3>1, <3>2
  <2>6. va \in A
    BY <1>2, <2>4, <2>5, Bounds
  <2>7. Translate(x, KernelDir, va) = {Entry(b + (PageOf(va) - h), TRUE, FALSE)}
    BY <1>4, <2>6
  <2>8. b + (PageOf(va) - h) = c
    BY <2>1, <2>4
  <2>9. PICK e : e = Entry(c, TRUE, FALSE) /\ e.frame = c
    <3>1. Entry(c, TRUE, FALSE).frame = c
      BY DEF Entry
    <3> QED BY <3>1
  <2>10. e \in Translate(x, KernelDir, va)
    BY <2>7, <2>8, <2>9
  <2> QED BY <1>3, <2>6, <2>9, <2>10
<1>6. ASSUME NEW c \in HeapFrames(x) PROVE c \in b .. b + n - 1
  <2>1. PICK va \in A : \E e \in Translate(x, KernelDir, va) : c = e.frame
    BY <1>3
  <2>2. PICK e \in Translate(x, KernelDir, va) : c = e.frame
    BY <2>1
  <2>3. PICK j : j = PageOf(va) - h /\ j \in 0 .. n - 1 /\ e = Entry(b + j, TRUE, FALSE)
    BY <1>4, <2>2
  <2>4. c = b + j
    BY <2>2, <2>3 DEF Entry
  <2> QED BY <2>3, <2>4
<1> QED BY <1>5, <1>6

\* The master directory as arch_paging_init sets it up.
BigPages == [i \in 0 .. (TotalBlocks - 1) \div PerTable |-> Entry(i * PerTable, FALSE, TRUE)]

\* The machine before the modules are taken.
BootStart == [Blank EXCEPT !.ent[KernelDir] = BigPages, !.used = 0 .. FirstFree - 1,
                           !.free = TotalBlocks - FirstFree]

\* The fields of the machine before the modules are taken.
LEMMA StartFields ==
    /\ IsMachine(BootStart) /\ BootStart.pool = {}
    /\ BootStart.proc = [q \in Proc |-> NoProcess]
    /\ BootStart.ent = [f \in Frames |-> BootStart.ent[f]]
    /\ BootStart.ent[KernelDir] = BigPages
    /\ BootStart.used = 0 .. FirstFree - 1 /\ BootStart.free = TotalBlocks - FirstFree
<1>1. PICK z : z = Blank
  OBVIOUS
<1>2. /\ IsMachine(z) /\ z.pool = {} /\ z.proc = [q \in Proc |-> NoProcess]
      /\ z.ent = [f \in Frames |-> NoEntries]
  BY <1>1 DEF Blank, IsMachine, Frames
<1>3. PICK E : E = [z.ent EXCEPT ![KernelDir] = BigPages]
  OBVIOUS
<1>4. E = [f \in Frames |-> E[f]] /\ E[KernelDir] = BigPages
  BY <1>2, <1>3 DEF Frames
<1>5. BootStart = [z EXCEPT !.ent = E, !.used = 0 .. FirstFree - 1, !.free = TotalBlocks - FirstFree]
  BY <1>1, <1>3 DEF BootStart
<1> QED BY <1>2, <1>4, <1>5 DEF IsMachine

\* The big pages end below the user heap.
LEMMA BigIndex ==
    ASSUME NEW i \in 0 .. (TotalBlocks - 1) \div PerTable
    PROVE  i \in Nat /\ i < PD_INDEX(HeapBase)
<1>1. PICK t, w, d \in Nat : t = TotalBlocks - 1 /\ w = PerTable /\ w > 0 /\ d = PD_INDEX(HeapBase)
  <2>1. TotalBlocks \in Nat /\ FirstFree \in 1 .. TotalBlocks /\ PerTable \in Nat \ {0}
    BY PagingAssumption
  <2>2. TotalBlocks - 1 \in Nat /\ PerTable \in Nat /\ PerTable > 0
    BY <2>1
  <2> QED BY <2>2, Bounds
<1>2. PageOf(HeapBase) = d * w
  BY <1>1, EntryStart, PagingAssumption
<1>3. t < d * w
  BY <1>1, <1>2, Bounds, PagingAssumption, SMTT(60)
<1>4. t \div w \in Nat /\ t = (t \div w) * w + (t % w) /\ t % w \in Nat
  BY <1>1, Division
<1>5. PICK q, r \in Nat : q = t \div w /\ t = q * w + r
  BY <1>4
<1>6. q * w <= t /\ q * w \in Nat
  <2>1. q * w \in Nat
    BY <1>1, <1>5
  <2> QED BY <1>5, <2>1
<1>7. q < d
  <2>1. SUFFICES ASSUME d <= q PROVE FALSE
    BY <1>1
  <2>2. PICK k \in Nat : q = d + k
    <3>1. q - d \in Nat /\ q = d + (q - d)
      BY <1>1, <2>1
    <3> QED BY <3>1
  <2>3. q * w = d * w + k * w /\ k * w \in Nat /\ d * w \in Nat
    BY <1>1, <2>2
  <2> QED BY <1>1, <1>3, <1>6, <2>3
<1> QED BY <1>1, <1>5, <1>7

\* Its master directory has big pages for all of memory, and nothing else.
LEMMA StartMaster ==
    MasterOnly(BootStart) /\ NoHeap(BootStart)
<1>1. PICK m : m = BootStart
  OBVIOUS
<1>2. /\ IsMachine(m) /\ m.pool = {} /\ m.ent = [f \in Frames |-> m.ent[f]]
      /\ m.ent[KernelDir] = BigPages
  BY <1>1, StartFields
<1>3. DOMAIN m.ent[KernelDir] = 0 .. (TotalBlocks - 1) \div PerTable
  BY <1>2 DEF BigPages
<1>4. ASSUME NEW i \in DOMAIN m.ent[KernelDir]
      PROVE  /\ m.ent[KernelDir][i] = Entry(i * PerTable, FALSE, TRUE)
             /\ m.ent[KernelDir][i].big = TRUE /\ m.ent[KernelDir][i].user = FALSE
  <2>1. m.ent[KernelDir][i] = Entry(i * PerTable, FALSE, TRUE)
    BY <1>2, <1>3 DEF BigPages
  <2> QED BY <2>1 DEF Entry
<1>5. \A i : ~Tab(m, KernelDir, i)
  BY <1>4 DEF Tab
<1>6. Structs(m, {})
  <2>1. InUse(m, {})
    BY <1>2 DEF InUse
  <2>2. MasterPart(m)
    BY <1>3, <1>4, BigIndex DEF MasterPart, KernelEntry
  <2>3. Copies(m, {}) /\ UserParts(m, {})
    BY DEF Copies, UserParts
  <2>4. TabsIn(m, {}) /\ TabsApart(m, {})
    BY <1>5 DEF TabsIn, TabsApart
  <2>5. TabsAll(m, {})
    BY <1>2 DEF TabsAll
  <2> QED BY <2>1, <2>2, <2>3, <2>4, <2>5 DEF Structs
<1>7. Identity(m)
  <2>1. SUFFICES ASSUME NEW b \in Blocks
                 PROVE  b \div PerTable \in DOMAIN m.ent[KernelDir]
    BY <1>4 DEF Identity
  <2>2. PICK t, w \in Nat : t = TotalBlocks - 1 /\ w = PerTable /\ w > 0
    BY PagingAssumption
  <2>3. b \in Nat /\ b <= t
    BY <2>2 DEF Blocks
  <2>4. /\ b \div w \in Nat /\ b = (b \div w) * w + (b % w) /\ b % w \in Nat
        /\ t \div w \in Nat /\ t = (t \div w) * w + (t % w) /\ t % w \in Nat /\ t % w < w
    BY <2>2, <2>3, Division
  <2>5. PICK q, r, c, d \in Nat : /\ q = b \div w /\ r = t \div w /\ d < w
                                  /\ b = q * w + c /\ t = r * w + d
    BY <2>4
  <2>6. q * w <= b /\ t < r * w + w /\ q * w \in Nat /\ r * w \in Nat
    <3>1. q * w \in Nat /\ r * w \in Nat
      BY <2>2, <2>5
    <3> QED BY <2>2, <2>5, <3>1
  <2>7. q <= r
    <3>1. SUFFICES ASSUME r + 1 <= q PROVE FALSE
      OBVIOUS
    <3>2. PICK k \in Nat : q = (r + 1) + k
      <4>1. q - (r + 1) \in Nat /\ q = (r + 1) + (q - (r + 1))
        BY <3>1
      <4> QED BY <4>1
    <3>3. q * w = (r * w + w) + k * w /\ k * w \in Nat
      BY <2>2, <3>2
    <3> QED BY <2>2, <2>3, <2>6, <3>3
  <2> QED BY <1>3, <2>2, <2>5, <2>7
<1>8. NoHeap(m)
  <2>1. SUFFICES ASSUME NEW a \in Nat, PageOf(HeapBase) <= PageOf(a)
                 PROVE  Translate(m, KernelDir, a) = {}
    BY DEF NoHeap
  <2>2. HeapBase % (PageSize * PerTable) = 0
    BY PagingAssumption
  <2>3. PD_INDEX(HeapBase) <= PD_INDEX(a)
    BY <2>1, <2>2, Bounds, EntryOrder
  <2>4. PD_INDEX(a) \notin DOMAIN m.ent[KernelDir]
    <3>1. PD_INDEX(a) \in Nat /\ PD_INDEX(HeapBase) \in Nat
      BY IndexOfPage, Bounds
    <3> QED BY <1>3, <2>3, <3>1, BigIndex
  <2> QED BY <2>4 DEF Translate, Present
<1> QED BY <1>1, <1>6, <1>7, <1>8 DEF MasterOnly

\* The pages that are taken after i modules.
Marks(i) == (0 .. FirstFree - 1) \cup {Modules[j] : j \in 1 .. i}
Marked(m, x, i) ==
    /\ SameTables(m, x) /\ x.proc = m.proc /\ x.used = Marks(i)
    /\ x.free = TotalBlocks - Cardinality(Marks(i))

\* The modules are pages of memory.
LEMMA ModulesAre ==
    /\ Len(Modules) \in Nat /\ DOMAIN Modules = 1 .. Len(Modules)
    /\ \A i \in 1 .. Len(Modules) : Modules[i] \in Blocks
BY MemoryAssumption

\* The pages taken after i modules.
LEMMA MarksIn ==
    ASSUME NEW i \in Nat, i <= Len(Modules)
    PROVE  Marks(i) \subseteq Blocks /\ IsFiniteSet(Marks(i)) /\ Cardinality(Marks(i)) \in Nat
<1>1. 0 .. FirstFree - 1 \subseteq Blocks
  BY PagingAssumption DEF Blocks
<1>2. \A j \in 1 .. i : Modules[j] \in Blocks
  BY ModulesAre
<1>3. Marks(i) \subseteq Blocks
  BY <1>1, <1>2 DEF Marks
<1> QED BY <1>3, BlocksFinite

\* One more module, which may lie in a page that is taken already.
LEMMA MarkStep ==
    ASSUME NEW m, NEW y, NEW k \in Nat, k < Len(Modules), Marked(m, y, k),
           NEW b, b = Modules[k + 1], NEW x, x = pmm_mark_used(y, b)
    PROVE  Marked(m, x, k + 1)
<1>1. Marks(k + 1) = Marks(k) \cup {b}
  <2>1. 1 .. k + 1 = (1 .. k) \cup {k + 1}
    OBVIOUS
  <2> QED BY <2>1 DEF Marks
<1>2. IsFiniteSet(Marks(k)) /\ Cardinality(Marks(k)) \in Nat
  BY ModulesAre, MarksIn
<1>3. IsMachine(y)
  BY DEF Marked, SameTables
<1>4. CASE b \in y.used
  <2>1. x = y /\ Marks(k + 1) = Marks(k)
    BY <1>1, <1>4 DEF pmm_mark_used, Marked
  <2> QED BY <2>1 DEF Marked
<1>5. CASE b \notin y.used
  <2>1. x = [y EXCEPT !.used = y.used \cup {b}, !.free = y.free - 1]
    BY <1>5 DEF pmm_mark_used
  <2>2. SameTables(y, x) /\ x.proc = y.proc /\ x.used = y.used \cup {b} /\ x.free = y.free - 1
    BY <1>3, <2>1 DEF SameTables, IsMachine
  <2>3. Cardinality(Marks(k) \cup {b}) = Cardinality(Marks(k)) + 1
    BY <1>2, <1>5, FS_AddElement DEF Marked
  <2>4. x.free = TotalBlocks - Cardinality(Marks(k + 1))
    <3>1. PICK c \in Nat : c = Cardinality(Marks(k)) /\ Cardinality(Marks(k + 1)) = c + 1
      BY <1>1, <1>2, <2>3
    <3>2. TotalBlocks \in Nat /\ x.free = TotalBlocks - c - 1
      BY <2>2, <3>1, PagingAssumption DEF Marked
    <3> QED BY <3>1, <3>2
  <2> QED BY <1>1, <2>2, <2>4 DEF Marked, SameTables
<1> QED BY <1>4, <1>5

\* After the loop the kernel and all modules are taken.
LEMMA MarksDone ==
    ASSUME NEW x, x = MarkAll(BootStart, Modules)
    PROVE  Marked(BootStart, x, Len(Modules)) /\ Marks(Len(Modules)) = Fixed
<1>1. PICK m, n : m = BootStart /\ n = Len(Modules) /\ n \in Nat
  BY ModulesAre
<1>2. PICK g : /\ g[0] = m /\ x = g[n]
               /\ \A i \in 1 .. n : g[i] = pmm_mark_used(g[i - 1], Modules[i])
  BY <1>1, MarkLoop
<1>3. PICK N : N = {i \in 0 .. n : Marked(m, g[i], i)}
  OBVIOUS
<1>4. 0 \in N
  <2>1. Marks(0) = 0 .. FirstFree - 1
    BY DEF Marks
  <2>2. FirstFree \in Nat
    BY PagingAssumption
  <2>3. Cardinality(0 .. FirstFree - 1) = FirstFree
    <3>1. 0 .. FirstFree - 1 = 0 .. 0 + FirstFree - 1
      BY <2>2
    <3> QED BY <2>2, <3>1, RunLength
  <2>4. Marked(m, m, 0)
    BY <1>1, <2>1, <2>3, StartFields DEF Marked, SameTables
  <2> QED BY <1>1, <1>2, <1>3, <2>4
<1>5. ASSUME NEW i \in 1 .. n, i - 1 \in N PROVE i \in N
  <2>1. PICK k \in Nat : k = i - 1 /\ i = k + 1 /\ k < n
    BY <1>1
  <2>2. PICK y : y = g[k] /\ Marked(m, y, k)
    BY <1>3, <1>5, <2>1
  <2>3. PICK z : z = g[i] /\ z = pmm_mark_used(y, Modules[k + 1])
    BY <1>2, <2>1, <2>2
  <2>4. Marked(m, z, k + 1)
    BY <1>1, <2>1, <2>2, <2>3, MarkStep
  <2>5. Marked(m, g[i], i)
    BY <2>1, <2>3, <2>4
  <2> QED BY <1>3, <2>5
<1>6. n \in N
  BY <1>1, <1>4, <1>5, LoopInvariant
<1>7. Marks(n) = Fixed
  BY <1>1, ModulesAre DEF Marks, Fixed
<1> QED BY <1>1, <1>2, <1>3, <1>6, <1>7

\* No process has been created.
Nobody(x) == x.proc = [q \in Proc |-> NoProcess]

\* The fields of a pid that was never given out.
LEMMA NoProcessFields ==
    /\ IsProc(NoProcess) /\ NoProcess.st = "free" /\ NoProcess.regs = {} /\ NoProcess.caps = {}
    /\ NoProcess.stacks = {}
<1>1. PICK c : c = NoProcess
  OBVIOUS
<1>2. /\ c = [st |-> c.st, priv |-> c.priv, cr3 |-> c.cr3, regs |-> c.regs, caps |-> c.caps,
              stacks |-> c.stacks]
      /\ c.st = "free" /\ c.regs = {} /\ c.caps = {} /\ c.stacks = {}
  BY <1>1 DEF NoProcess
<1>3. IsFiniteSet(c.regs) /\ IsFiniteSet(c.stacks)
  BY <1>2, FS_EmptySet
<1>4. Regular(c.regs)
  BY <1>2, <1>3 DEF Regular
<1> QED BY <1>1, <1>2, <1>3, <1>4 DEF IsProc

\* Without processes the pages in use are the base and what is in hand.
LEMMA NobodyPages ==
    ASSUME NEW x, Nobody(x), NEW u, u \subseteq Blocks, NEW f, f = TotalBlocks - Cardinality(u),
           NEW B, NEW X, u = B \cup X, B \cap X = {}
    PROVE  PagesSound(u, f, x.proc, B, X)
<1>1. \A q \in Proc : x.proc[q].regs = {}
  BY NoProcessFields DEF Nobody
<1>2. \A b : ~Held(x.proc, b)
  BY <1>1 DEF Held
<1>3. OneOwner(x.proc)
  BY <1>1 DEF OneOwner
<1> QED BY <1>2, <1>3 DEF PagesSound

\* Without processes the invariant is about the master directory and the pages.
LEMMA NobodyCore ==
    ASSUME NEW x, MasterOnly(x), Nobody(x), Fixed \cap HeapFrames(x) = {}, NEW X,
           PagesSound(x.used, x.free, x.proc, Base(x), X)
    PROVE  Core(x, X)
<1>1. \A q \in Proc : x.proc[q] = NoProcess
  BY DEF Nobody
<1>2. \A q \in Proc : IsProc(x.proc[q]) /\ ~Live(x, q)
  BY <1>1, NoProcessFields DEF Live
<1>3. Shape(x)
  BY <1>2 DEF Shape, Nobody, MasterOnly, Structs, InUse
<1>4. DirsOf(x) = {}
  BY <1>2 DEF DirsOf
<1>5. TablesSound(x)
  BY <1>2, <1>4 DEF TablesSound, MasterOnly, DirsApart, AllWalks
<1> QED BY <1>3, <1>5 DEF Core

\* Without processes there are no links.
LEMMA NobodyLinks ==
    ASSUME NEW x, Nobody(x)
    PROVE  Links(x)
<1>1. SUFFICES ASSUME NEW q \in Proc PROVE Linked(x.proc, x.proc[q])
  BY DEF Links
<1>2. x.proc[q] = NoProcess
  BY DEF Nobody
<1>3. Owner(NoProcess)
  BY NoProcessFields DEF Owner, CleanCaps, Stacked, AllOwn
<1> QED BY <1>2, <1>3, OwnerLinked

\* The pages of the user heap.
LEMMA HeapSize ==
    \E n \in Nat : /\ n = (HeapEnd - HeapBase) \div PageSize /\ n > 0
                   /\ PageOf(HeapBase) + n = PageOf(HeapEnd)
<1>1. PICK h, e \in Nat : /\ h = PageOf(HeapBase) /\ e = PageOf(HeapEnd) /\ h < e
                          /\ HeapBase = h * PageSize /\ HeapEnd = e * PageSize
  BY Bounds
<1>2. PICK n \in Nat : n = e - h /\ h + n = e /\ n > 0
  BY <1>1
<1>3. h * PageSize + n * PageSize = e * PageSize
  BY <1>2, MulOrder
<1>4. h * PageSize \in Nat /\ n * PageSize \in Nat /\ e * PageSize \in Nat
  BY PageMul
<1>5. HeapEnd - HeapBase = n * PageSize
  BY <1>1, <1>3, <1>4
<1>6. (n * PageSize) \div PageSize = n
  BY PageMul DEF Pages
<1> QED BY <1>1, <1>2, <1>5, <1>6

\* arch_paging_init takes the modules and the pages of the heap, and maps these.
LEMMA InitIs ==
    arch_paging_init(Blank, Modules) =
      LET a == pmm_alloc_pages(MarkAll(BootStart, Modules), (HeapEnd - HeapBase) \div PageSize)
      IN  IF a.ok THEN MapHeap(a, (HeapEnd - HeapBase) \div PageSize) ELSE a
BY Zenon DEF arch_paging_init, MarkAll, BootStart, BigPages, MapHeap, Then

\* After arch_paging_init every page that is taken is the kernel's, a module or
\* of the user heap, which is mapped.
LEMMA PagingInitCore ==
    ASSUME NEW x, x = arch_paging_init(Blank, Modules)
    PROVE  Core(x, {}) /\ Nobody(x)
<1>1. PICK n \in Nat : /\ n = (HeapEnd - HeapBase) \div PageSize /\ n > 0
                       /\ PageOf(HeapBase) + n = PageOf(HeapEnd)
  BY HeapSize
<1>2. PICK m : m = MarkAll(BootStart, Modules)
  OBVIOUS
<1>3. PICK a : a = pmm_alloc_pages(m, n)
  OBVIOUS
<1>4. x = IF a.ok THEN MapHeap(a, n) ELSE a
  BY <1>1, <1>2, <1>3, InitIs
<1>5. /\ SameTables(BootStart, m) /\ m.proc = BootStart.proc /\ m.used = Fixed
      /\ m.free = TotalBlocks - Cardinality(Fixed)
  BY <1>2, MarksDone DEF Marked
<1>6. Nobody(m)
  BY <1>5, StartFields DEF Nobody
<1>7. ASSUME NEW y, SameTables(BootStart, y) PROVE MasterOnly(y) /\ NoHeap(y)
  <2>1. PICK s : s = BootStart /\ MasterOnly(s) /\ NoHeap(s) /\ SameTables(s, y)
    BY <1>7, StartMaster
  <2>2. Structs(y, {}) /\ SameWalks(s, y, KernelDir)
    <3>1. Structs(s, {}) /\ Directory(s, KernelDir)
      BY <2>1, MasterDirectory DEF MasterOnly
    <3>2. Beside(s, y, {}, 0)
      BY <2>1, <3>1, SameBeside
    <3> QED BY <2>1, <3>1, <3>2, SameTablesKeep DEF Beside
  <2>3. Identity(y)
    BY <2>1 DEF MasterOnly, Identity, SameTables
  <2> QED BY <2>1, <2>2, <2>3 DEF MasterOnly, NoHeap, SameWalks
<1>8. MasterOnly(m) /\ NoHeap(m)
  BY <1>5, <1>7
<1>9. HeapFrames(m) = {} /\ Base(m) = Fixed
  BY <1>8, NoHeapFrames DEF Base
<1>10. Fixed \subseteq Blocks
  BY ModulesAre, MarksIn, MarksDone
<1>11. PagesSound(m.used, m.free, m.proc, Base(m), {})
  BY <1>5, <1>6, <1>9, <1>10, NobodyPages
<1>12. Core(m, {})
  BY <1>6, <1>8, <1>9, <1>11, NobodyCore
<1>13. CASE GivesUp(m, a, {})
  BY <1>4, <1>6, <1>13 DEF GivesUp, Nobody
<1>14. CASE \E b \in Nat : TakesPages(m, a, b, n, {})
  <2>1. PICK b \in Nat : TakesPages(m, a, b, n, {})
    BY <1>14
  <2>2. PICK I : I = b .. b + n - 1
    OBVIOUS
  <2>3. a.ok /\ a.out = b * PageSize /\ I \subseteq Blocks \ m.used /\ a.proc = m.proc /\ Core(a, I)
    BY <2>1, <2>2 DEF TakesPages
  <2>4. x = MapHeap(a, n)
    BY <1>4, <2>3
  <2>5. SameTables(m, a)
    BY <1>3, <1>12, PagesTaken DEF Takes, Core, Shape
  <2>6. SameTables(BootStart, a)
    BY <1>5, <2>5 DEF SameTables
  <2>7. MasterOnly(a) /\ NoHeap(a) /\ HeapFrames(a) = {} /\ Base(a) = Fixed
    BY <1>7, <2>6, NoHeapFrames DEF Base
  <2>8. PageOf(HeapBase) + n <= PageOf(HeapEnd)
    BY <1>1, Bounds
  <2>9. HeapDone(a, x, b, n)
    BY <2>3, <2>4, <2>7, <2>8, HeapAll
  <2>10. MasterOnly(x) /\ x.used = a.used /\ x.free = a.free /\ x.proc = a.proc
    BY <2>9 DEF HeapDone, TablesOnly
  <2>11. HeapFrames(x) = I
    BY <1>1, <2>2, <2>9, HeapFramesAre DEF HeapDone
  <2>12. PagesSound(a.used, a.free, a.proc, Fixed, I)
    BY <2>3, <2>7 DEF Core
  <2>13. Nobody(x)
    BY <1>6, <2>3, <2>10 DEF Nobody
  <2>14. Fixed \cap I = {} /\ Base(x) = Fixed \cup I
    BY <1>5, <2>3, <2>11 DEF Base
  <2>15. PICK u, f : u = x.used /\ f = x.free /\ u \subseteq Blocks /\ f = TotalBlocks - Cardinality(u)
    BY <2>10, <2>12 DEF PagesSound
  <2>16. u = Base(x) \cup {}
    <3>1. \A b2 : ~Held(a.proc, b2)
      BY <1>6, <2>3, NoProcessFields DEF Held, Nobody
    <3>2. \A b2 : b2 \in u <=> b2 \in Fixed \/ b2 \in I
      BY <2>10, <2>12, <2>15, <3>1 DEF PagesSound
    <3> QED BY <2>14, <3>2
  <2>17. PagesSound(u, f, x.proc, Base(x), {})
    BY <2>13, <2>15, <2>16, NobodyPages
  <2>18. Core(x, {})
    BY <2>10, <2>11, <2>13, <2>14, <2>15, <2>17, NobodyCore
  <2> QED BY <2>13, <2>18
<1> QED BY <1>3, <1>12, <1>13, <1>14, AllocCore

\* The machine after the first process is created.
LEMMA BootedSound ==
    Core(Booted, {}) /\ Links(Booted)
<1>1. PICK m : m = arch_paging_init(Blank, Modules)
  OBVIOUS
<1>2. Core(m, {}) /\ Nobody(m) /\ Links(m)
  BY <1>1, PagingInitCore, NobodyLinks
<1>3. InitProc \in Proc
  BY MemoryAssumption DEF InitProc, Proc
<1>4. ~Live(m, InitProc)
  BY <1>2, <1>3, NoProcessFields DEF Nobody, Live
<1>5. PICK x : x = p_create_ex(m, InitProc, "kernel", {})
  OBVIOUS
<1>6. CleanCaps({})
  BY DEF CleanCaps
<1>7. Core(x, {}) /\ Links(x)
  BY <1>2, <1>3, <1>4, <1>5, <1>6, CreateLinks
<1> QED BY <1>1, <1>5, <1>7 DEF Booted

\* The state after boot.
LEMMA InitSound ==
    ASSUME Init
    PROVE  MemoryInv
<1>1. PICK x : x = Booted /\ Core(x, {}) /\ Links(x)
  BY BootedSound
<1>2. used = x.used /\ free = x.free /\ pool = x.pool /\ ent = x.ent /\ proc = x.proc
  BY <1>1 DEF Init
<1>3. PICK w : w = Now
  OBVIOUS
<1>4. Idle(x, w)
  BY <1>2, <1>3 DEF Now, Machine, Idle, SameTables, IsMachine
<1>5. Core(w, {}) /\ Links(w)
  BY <1>1, <1>4, CoreIdle, LinksSame DEF Idle
<1> QED BY <1>3, <1>5 DEF MemoryInv, Sound

-----------------------------------------------------------------------------
(* The invariants of Memory, from MemoryInv. *)

\* The machine between two calls.
LEMMA NowIs ==
    ASSUME MemoryInv
    PROVE  \E w : /\ w = Now /\ Core(w, {}) /\ Links(w) /\ IsMachine(w)
                  /\ w.used = used /\ w.free = free /\ w.pool = pool /\ w.ent = ent
                  /\ w.proc = proc
<1>1. PICK w : w = Now
  OBVIOUS
<1>2. Core(w, {}) /\ Links(w)
  BY <1>1 DEF MemoryInv, Sound
<1>3. /\ w.used = used /\ w.free = free /\ w.pool = pool /\ w.ent = ent /\ w.proc = proc
      /\ IsMachine(w)
  BY <1>1 DEF Now, Machine, IsMachine
<1> QED BY <1>1, <1>2, <1>3

\* What the regions of the live processes own is what is held.
LEMMA OwnedIsHeld ==
    ASSUME NEW w, Core(w, {}), w.proc = proc, NEW b
    PROVE  Held(w.proc, b) <=> \E p \in LiveProcs : b \in Owned(p)
<1>1. ASSUME Held(w.proc, b) PROVE \E p \in LiveProcs : b \in Owned(p)
  <2>0. PICK q \in Proc : \E r \in proc[q].regs : r.own /\ b \in PagesOf(r)
    BY <1>1 DEF Held
  <2>1. PICK r \in proc[q].regs : r.own /\ b \in PagesOf(r)
    BY <2>0
  <2>2. IsProc(proc[q])
    BY DEF Core, Shape
  <2>3. proc[q].st = "live"
    BY <2>1, <2>2 DEF IsProc
  <2> QED BY <2>1, <2>3 DEF LiveProcs, Owned
<1>2. ASSUME NEW p \in LiveProcs, b \in Owned(p) PROVE Held(w.proc, b)
  BY <1>2 DEF LiveProcs, Owned, Held
<1> QED BY <1>1, <1>2

\* The accounting of the pages (pmm.c), from the invariant.
LEMMA PagesAreExact ==
    ASSUME MemoryInv
    PROVE  PagesExact
<1>1. PICK w : /\ w = Now /\ Core(w, {}) /\ w.used = used /\ w.free = free /\ w.proc = proc
  BY NowIs
<1>2. PagesSound(used, free, proc, Base(w), {})
  BY <1>1 DEF Core
<1>3. PICK H : H = HeapPages /\ Base(w) = Fixed \cup H
  <2>1. HeapPages = HeapFrames(Now)
    BY DEF HeapPages, HeapFrames
  <2> QED BY <1>1, <2>1 DEF Base
<1>4. \A b : b \in used <=> b \in Base(w) \/ Held(proc, b)
  BY <1>2 DEF PagesSound
<1>5. PICK U : U = UNION {Owned(p) : p \in LiveProcs}
  OBVIOUS
<1>6. \A b : Held(proc, b) <=> b \in U
  BY <1>1, <1>5, OwnedIsHeld
<1>7. used = 0 .. FirstFree - 1 \cup {Modules[i] : i \in DOMAIN Modules} \cup H \cup U
  <2>1. PICK M : M = {Modules[i] : i \in DOMAIN Modules}
    OBVIOUS
  <2>2. PICK K : K = 0 .. FirstFree - 1
    OBVIOUS
  <2>3. Base(w) = K \cup M \cup H
    BY <1>3, <2>1, <2>2 DEF Fixed
  <2>4. used = K \cup M \cup H \cup U
    BY <1>4, <1>6, <2>3
  <2> QED BY <2>1, <2>2, <2>4
<1>8. free = TotalBlocks - Cardinality(used)
  BY <1>2 DEF PagesSound
<1>9. ASSUME NEW p \in LiveProcs, NEW q \in LiveProcs, NEW r \in proc[p].regs, NEW o \in proc[q].regs,
             r.own, o.own, <<p, r>> # <<q, o>>
      PROVE  PagesOf(r) \cap PagesOf(o) = {}
  <2>1. p \in Proc /\ q \in Proc
    BY DEF LiveProcs
  <2>2. OneOwner(proc)
    BY <1>2 DEF PagesSound
  <2>3. ASSUME NEW b, b \in PagesOf(r), b \in PagesOf(o) PROVE FALSE
    <3>1. p = q /\ r = o
      BY <1>9, <2>1, <2>2, <2>3 DEF OneOwner
    <3> QED BY <1>9, <3>1
  <2> QED BY <2>3
<1> QED BY <1>3, <1>5, <1>7, <1>8, <1>9 DEF PagesExact

\* Below the end of the user heap every directory leads where the master's does.
LEMMA HeapWalk ==
    ASSUME NEW m, NEW D, Structs(m, D), NEW d \in D, NEW a \in Nat, PageOf(a) < PageOf(HeapEnd)
    PROVE  Translate(m, d, a) = Translate(m, KernelDir, a)
<1>1. PICK i, j \in Nat : i = PD_INDEX(a) /\ j = PT_INDEX(a)
  BY IndexOfPage
<1>2. i < PD_INDEX(HeapEnd)
  BY <1>1, EntryOrder, PagingAssumption
<1>3. i \in DOMAIN m.ent[KernelDir] => i \in DOMAIN m.ent[d] /\ m.ent[d][i] = m.ent[KernelDir][i]
  BY DEF Structs, Copies
<1>4. i \in DOMAIN m.ent[d] => i \in DOMAIN m.ent[KernelDir]
  BY <1>2, Bounds DEF Structs, UserParts, UserEntry, UserIndex
<1>5. Walk(m, d, i, j) = Walk(m, KernelDir, i, j)
  BY <1>3, <1>4 DEF Walk
<1> QED BY <1>1, <1>5, TranslateIsWalk

\* A region covers a page exactly if the page is one of its pages, and then the
\* page it leads to is as far from the first one.
LEMMA CoversPage ==
    ASSUME NEW r, IsRegion(r), NEW b \in Nat, NEW va, va = b * PageSize
    PROVE  /\ Covers(r, va) <=> b \in VPages(r)
           /\ b \in VPages(r) => /\ PageOf(r.pa + va - r.start) = PageOf(r.pa) + (b - PageOf(r.start))
                                 /\ PageOf(r.pa) + (b - PageOf(r.start)) \in PagesOf(r)
<1>1. PICK s, n, f \in Nat : RegionIs(r, s, n, f)
  BY RegionPages
<1>2. r.start = s * PageSize /\ End(r) = (s + n) * PageSize /\ VPages(r) = s .. s + n - 1
      /\ r.pa = f * PageSize /\ PageOf(r.pa) = f /\ PageOf(r.start) = s /\ PagesOf(r) = f .. f + n - 1
  BY <1>1, RegionEnd DEF RegionIs
<1>3. Covers(r, va) <=> s * PageSize <= b * PageSize /\ b * PageSize < (s + n) * PageSize
  BY <1>2 DEF Covers
<1>4. (s * PageSize <= b * PageSize <=> s <= b)
  BY MulOrder
<1>5. (b * PageSize < (s + n) * PageSize <=> b < s + n)
  <2>1. s + n \in Nat
    BY <1>1
  <2> QED BY <2>1, MulOrder
<1>6. Covers(r, va) <=> b \in VPages(r)
  BY <1>2, <1>3, <1>4, <1>5
<1>7. ASSUME b \in VPages(r) PROVE PageOf(r.pa + va - r.start) = f + (b - s) /\ f + (b - s) \in f .. f + n - 1
  <2>1. PICK k \in Nat : k = b - s /\ b = s + k /\ k < n
    <3>1. b - s \in Nat /\ b = s + (b - s) /\ b - s < n
      BY <1>1, <1>2, <1>7
    <3> QED BY <3>1
  <2>2. b * PageSize = s * PageSize + k * PageSize
    BY <2>1, MulOrder
  <2>3. f * PageSize + k * PageSize = (f + k) * PageSize
    BY <2>1, MulOrder
  <2>4. s * PageSize \in Nat /\ k * PageSize \in Nat /\ f * PageSize \in Nat /\ b * PageSize \in Nat
    BY <2>1, PageMul
  <2>5. r.pa + va - r.start = (f + k) * PageSize
    BY <1>2, <2>2, <2>3, <2>4
  <2>6. f + k \in Nat /\ PageOf((f + k) * PageSize) = f + k
    BY <1>1, <2>1, PageMul
  <2> QED BY <2>1, <2>5, <2>6
<1> QED BY <1>2, <1>6, <1>7

\* The regions of a process and its stacks, from the invariant.
LEMMA RegionsAreApart ==
    ASSUME MemoryInv, NEW p \in LiveProcs
    PROVE  RegionsApart(p)
<1>1. PICK w : w = Now /\ Core(w, {}) /\ Links(w) /\ w.proc = proc
  BY NowIs
<1>2. p \in Proc /\ IsProc(proc[p]) /\ Linked(proc, proc[p])
  BY <1>1 DEF LiveProcs, Core, Shape, Links
<1>3. PICK regs : regs = proc[p].regs /\ Regular(regs)
  BY <1>2 DEF IsProc
<1>4. ASSUME NEW r \in regs
      PROVE  r \in Region /\ r.start >= HeapEnd /\ End(r) <= SpaceTop
  <2>1. PICK s, n, f \in Nat : /\ RegionIs(r, s, n, f) /\ f < TotalBlocks /\ PageOf(HeapEnd) <= s
    BY <1>3, RegionPages DEF Regular
  <2>2. /\ r.start \in Nat /\ r.size \in Nat /\ r.pa \in Nat /\ End(r) \in Nat /\ End(r) <= SpaceTop
    BY <1>3, <2>1, RegionEnd, RegionOrder
  <2>3. r.start >= HeapEnd
    <3>1. PICK h \in Nat : h = PageOf(HeapEnd) /\ HeapEnd = h * PageSize
      BY Bounds
    <3>2. h * PageSize <= s * PageSize
      BY <2>1, <3>1, MulOrder
    <3>3. r.start = s * PageSize /\ HeapEnd \in Nat
      BY <2>1, Bounds DEF RegionIs
    <3> QED BY <2>2, <3>1, <3>2, <3>3
  <2>4. r.pa < HeapBase
    <3>1. PICK h \in Nat : h = PageOf(HeapBase) /\ HeapBase = h * PageSize /\ f < h
      BY <2>1, Bounds, PagingAssumption
    <3>2. f * PageSize < h * PageSize
      BY <3>1, MulOrder
    <3> QED BY <2>1, <3>1, <3>2 DEF RegionIs
  <2>5. HeapBase \in Nat /\ HeapBase <= SpaceTop /\ SpaceTop \in Nat /\ Word \in Nat /\ SpaceTop < Word
    BY PagingAssumption, MemoryAssumption, CapAssumption
  <2>6. r.start <= Word /\ r.size <= Word /\ r.pa <= Word
    <3>1. End(r) = r.start + r.size
      BY DEF End
    <3> QED BY <2>2, <2>4, <2>5, <3>1
  <2>7. r.start \in 0 .. Word /\ r.size \in 0 .. Word /\ r.pa \in 0 .. Word
    BY <2>2, <2>5, <2>6
  <2>8. r.own \in BOOLEAN
    BY <2>1 DEF RegionIs
  <2>9. r = [start |-> r.start, size |-> r.size, pa |-> r.pa, own |-> r.own]
    BY <1>3 DEF Regular, IsRegion
  <2>10. r \in Region
    BY <2>7, <2>8, <2>9 DEF Region
  <2> QED BY <2>2, <2>3, <2>10
<1>5. ASSUME NEW r \in regs, NEW o \in regs, r # o
      PROVE  End(r) <= o.start \/ End(o) <= r.start
  <2>1. r.start \in Nat /\ o.start \in Nat
    BY <1>3, RegionOrder
  <2>2. r.start < o.start \/ r.start = o.start \/ o.start < r.start
    BY <2>1
  <2> QED BY <1>3, <1>5, <2>2, RegionOrder
<1>6. ASSUME NEW va \in proc[p].stacks PROVE \E r \in regs : r.own /\ r.start = va
  BY <1>2, <1>3 DEF Linked, Stacked
<1> QED BY <1>3, <1>4, <1>5, <1>6 DEF RegionsApart

\* Where an address from the user heap on leads under the directory of c.
LeadsRight(m, c, va) ==
    Translate(m, c.cr3, va) =
        IF va < HeapEnd THEN Translate(m, KernelDir, va)
        ELSE {Entry(PageOf(r.pa + va - r.start), TRUE, FALSE) : r \in {q \in c.regs : Covers(q, va)}}

\* What the tables of a process map, from the invariant.
LEMMA TablesAreExact ==
    ASSUME MemoryInv
    PROVE  TablesExact
<1>1. PICK w : w = Now /\ Core(w, {}) /\ w.proc = proc
  BY NowIs
<1>2. ASSUME NEW p \in LiveProcs, NEW b \in PageOf(HeapBase) .. PageOf(Word) - 1,
             NEW va, va = b * PageSize
      PROVE  LeadsRight(w, proc[p], va)
  <2>1. p \in Proc /\ Live(w, p) /\ IsProc(proc[p]) /\ TablesSound(w)
    BY <1>1 DEF LiveProcs, Live, Core, Shape
  <2>2. PICK d : /\ d = proc[p].cr3 /\ Structs(w, DirsOf(w)) /\ d \in DirsOf(w)
                 /\ Walks(w, d, proc[p].regs)
    BY <1>1, <2>1, LiveDirectory
  <2>3. b \in Nat
    BY Bounds
  <2>4. va \in Nat /\ PageOf(va) = b
    BY <1>2, <2>3, PageMul
  <2>5. HeapEnd = PageOf(HeapEnd) * PageSize /\ PageOf(HeapEnd) \in Nat
    BY Bounds
  <2>6. va < HeapEnd <=> PageOf(va) < PageOf(HeapEnd)
    BY <2>4, <2>5, PageOrder
  <2>7. CASE va < HeapEnd
    <3>1. Translate(w, d, va) = Translate(w, KernelDir, va)
      BY <2>2, <2>4, <2>6, <2>7, HeapWalk
    <3> QED BY <2>2, <2>7, <3>1 DEF LeadsRight
  <2>8. CASE ~(va < HeapEnd)
    <3>1. Translate(w, d, va) = Shown(proc[p].regs, b)
      <4>1. PageOf(HeapEnd) <= PageOf(va)
        BY <2>3, <2>4, <2>5, <2>6, <2>8
      <4> QED BY <2>2, <2>4, <4>1 DEF Walks
    <3>2. \A q \in proc[p].regs : IsRegion(q)
      BY <2>1 DEF IsProc, Regular
    <3>3. \A q \in proc[p].regs :
            /\ Covers(q, va) <=> b \in VPages(q)
            /\ b \in VPages(q) =>
                 PageOf(q.pa + va - q.start) = PageOf(q.pa) + (b - PageOf(q.start))
      BY <1>2, <2>3, <3>2, CoversPage
    <3>4. PICK S : S = {q \in proc[p].regs : Covers(q, va)}
      OBVIOUS
    <3>5. S = {q \in proc[p].regs : b \in VPages(q)}
      BY <3>3, <3>4
    <3>6. \A q \in S : PageOf(q.pa + va - q.start) = PageOf(q.pa) + (b - PageOf(q.start))
      BY <3>3, <3>5
    <3>7. {Entry(PageOf(r.pa + va - r.start), TRUE, FALSE) : r \in S}
            = {Entry(PageOf(r.pa) + (b - PageOf(r.start)), TRUE, FALSE) : r \in S}
      BY <3>6
    <3>8. Shown(proc[p].regs, b)
            = {Entry(PageOf(r.pa) + (b - PageOf(r.start)), TRUE, FALSE) : r \in S}
      BY <3>5 DEF Shown
    <3> QED BY <2>2, <2>8, <3>1, <3>4, <3>7, <3>8 DEF LeadsRight
  <2> QED BY <2>7, <2>8
<1>3. ASSUME NEW p \in LiveProcs, NEW b \in PageOf(HeapBase) .. PageOf(Word) - 1
      PROVE  LeadsRight(Now, proc[p], b * PageSize)
  BY <1>1, <1>2
<1> QED BY <1>3, RegionsAreApart DEF TablesExact, LeadsRight

\* The tables of a process are those of the master directory and its own.
LEMMA TablesAre ==
    ASSUME MemoryInv, NEW w, w = Now, NEW p \in LiveProcs, NEW f
    PROVE  /\ f \in KernelTables <=>
                \E i \in DOMAIN w.ent[KernelDir] : Tab(w, KernelDir, i) /\ w.ent[KernelDir][i].frame = f
           /\ f \in TablesOf(p) <=> \/ f \in KernelTables
                                    \/ \E i \in DOMAIN w.ent[proc[p].cr3] :
                                          /\ Tab(w, proc[p].cr3, i)
                                          /\ w.ent[proc[p].cr3][i].frame = f
           /\ f \in TablesOf(p) => f \in pool \ DirsOf(w)
           /\ f \in KernelTables => f \in pool
<1>1. Core(w, {}) /\ w.proc = proc /\ w.ent = ent /\ w.pool = pool
  BY NowIs
<1>2. p \in Proc /\ Live(w, p) /\ TablesSound(w)
  BY <1>1 DEF LiveProcs, Live, Core
<1>3. PICK d, D : d = proc[p].cr3 /\ D = DirsOf(w) /\ Structs(w, D) /\ d \in D
  BY <1>1, <1>2, LiveDirectory
<1>4. ASSUME NEW e \in D \cup {KernelDir}, NEW i \in DOMAIN w.ent[e]
      PROVE  Kinds(w, D, e, i) /\ (w.ent[e][i].big = FALSE => w.ent[e][i].frame \in w.pool \ D)
  BY <1>3, EntryKinds, TableFrames
<1>5. f \in KernelTables <=> \E i \in DOMAIN w.ent[KernelDir] :
                                ~w.ent[KernelDir][i].big /\ w.ent[KernelDir][i].frame = f
  BY <1>1 DEF KernelTables
<1>6. f \in TablesOf(p) <=> \E i \in DOMAIN w.ent[d] : ~w.ent[d][i].big /\ w.ent[d][i].frame = f
  BY <1>1, <1>3 DEF TablesOf
<1>7. f \in KernelTables <=>
        \E i \in DOMAIN w.ent[KernelDir] : Tab(w, KernelDir, i) /\ w.ent[KernelDir][i].frame = f
  <2>1. ASSUME NEW i \in DOMAIN w.ent[KernelDir]
        PROVE  ~w.ent[KernelDir][i].big <=> Tab(w, KernelDir, i)
    BY <1>4 DEF Kinds, Tab
  <2> QED BY <1>5, <2>1
<1>8. f \in TablesOf(p) => f \in w.pool \ D
  <2>1. ASSUME NEW i \in DOMAIN w.ent[d], ~w.ent[d][i].big PROVE w.ent[d][i].frame \in w.pool \ D
    BY <1>3, <1>4, <2>1 DEF Kinds
  <2> QED BY <1>6, <2>1
<1>9. ASSUME f \in KernelTables PROVE f \in w.pool
  <2>1. PICK i \in DOMAIN w.ent[KernelDir] : Tab(w, KernelDir, i) /\ w.ent[KernelDir][i].frame = f
    BY <1>7, <1>9
  <2>2. w.ent[KernelDir][i].big = FALSE /\ KernelDir \in D \cup {KernelDir}
    BY <2>1 DEF Tab
  <2> QED BY <1>4, <2>1, <2>2
<1>10. ASSUME f \in TablesOf(p)
       PROVE  f \in KernelTables \/ \E i \in DOMAIN w.ent[d] : Tab(w, d, i) /\ w.ent[d][i].frame = f
  <2>1. PICK i \in DOMAIN w.ent[d] : ~w.ent[d][i].big /\ w.ent[d][i].frame = f
    BY <1>6, <1>10
  <2>2. Tab(w, d, i) \/ (w.ent[d][i] = w.ent[KernelDir][i] /\ Tab(w, KernelDir, i))
    <3>1. Kinds(w, D, d, i)
      BY <1>3, <1>4
    <3>2. w.ent[d][i].big # TRUE
      BY <2>1
    <3> QED BY <3>1, <3>2 DEF Kinds
  <2> QED BY <1>7, <2>1, <2>2 DEF Tab
<1>11. ASSUME f \in KernelTables PROVE f \in TablesOf(p)
  <2>1. PICK i \in DOMAIN w.ent[KernelDir] : Tab(w, KernelDir, i) /\ w.ent[KernelDir][i].frame = f
    BY <1>7, <1>11
  <2>2. i \in DOMAIN w.ent[d] /\ w.ent[d][i] = w.ent[KernelDir][i]
    BY <1>3 DEF Structs, Copies
  <2> QED BY <1>6, <2>1, <2>2 DEF Tab
<1>12. ASSUME NEW i \in DOMAIN w.ent[d], Tab(w, d, i), w.ent[d][i].frame = f PROVE f \in TablesOf(p)
  BY <1>6, <1>12 DEF Tab
<1> QED BY <1>1, <1>3, <1>7, <1>8, <1>9, <1>10, <1>11, <1>12

\* The slots of the paging pool, from the invariant.
LEMMA PoolIsExact ==
    ASSUME MemoryInv
    PROVE  PoolExact
<1>1. PICK w : w = Now /\ Core(w, {}) /\ w.proc = proc /\ w.ent = ent /\ w.pool = pool
  BY NowIs
<1>2. PICK D : D = DirsOf(w) /\ Structs(w, D) /\ DirsApart(w)
  BY <1>1 DEF Core, TablesSound
<1>3. D = {proc[p].cr3 : p \in LiveProcs}
  BY <1>1, <1>2 DEF DirsOf, Live, LiveProcs
<1>4. D \subseteq pool
  BY <1>1, <1>2 DEF Structs, InUse
<1>5. KernelTables = {f \in pool : \E i \in DOMAIN w.ent[KernelDir] :
                                      Tab(w, KernelDir, i) /\ w.ent[KernelDir][i].frame = f}
  <2>1. ASSUME NEW i \in DOMAIN w.ent[KernelDir]
        PROVE  /\ ~w.ent[KernelDir][i].big <=> Tab(w, KernelDir, i)
               /\ Tab(w, KernelDir, i) => w.ent[KernelDir][i].frame \in pool
    <3>1. Kinds(w, D, KernelDir, i)
      BY <1>2, EntryKinds
    <3>2. Tab(w, KernelDir, i) => w.ent[KernelDir][i].frame \in pool
      BY <1>1, <1>2 DEF Structs, TabsIn
    <3> QED BY <3>1, <3>2 DEF Kinds, Tab
  <2>2. \A f : f \in KernelTables <=> \E i \in DOMAIN w.ent[KernelDir] :
                                ~w.ent[KernelDir][i].big /\ w.ent[KernelDir][i].frame = f
    BY <1>1 DEF KernelTables
  <2> QED BY <2>1, <2>2
<1>6. ASSUME NEW f \in pool PROVE f \in KernelTables \/ f \in D \/ \E p \in LiveProcs : f \in TablesOf(p)
  <2>1. CASE f \notin D
    <3>1. PICK d \in D \cup {KernelDir} : \E i \in DOMAIN w.ent[d] : Tab(w, d, i) /\ w.ent[d][i].frame = f
      BY <1>1, <1>2, <2>1 DEF Structs, TabsAll
    <3>2. CASE d = KernelDir
      BY <1>5, <3>1, <3>2
    <3>3. CASE d \in D
      <4>1. PICK p \in LiveProcs : d = proc[p].cr3
        BY <1>3, <3>3
      <4>2. f \in TablesOf(p)
        BY <1>1, <3>1, <4>1, TablesAre
      <4> QED BY <4>2
    <3> QED BY <3>1, <3>2, <3>3
  <2> QED BY <2>1
<1>7. ASSUME NEW p \in LiveProcs, NEW f \in TablesOf(p) PROVE f \in pool /\ f \notin D
  BY <1>1, <1>2, TablesAre
<1>8. pool = KernelTables \cup D \cup UNION {TablesOf(p) : p \in LiveProcs}
  <2>1. PICK U : U = UNION {TablesOf(p) : p \in LiveProcs}
    OBVIOUS
  <2>2. \A f : f \in U <=> \E p \in LiveProcs : f \in TablesOf(p)
    BY <2>1
  <2>3. KernelTables \subseteq pool
    BY <1>5
  <2>4. U \subseteq pool
    BY <1>7, <2>2
  <2>5. pool \subseteq KernelTables \cup D \cup U
    BY <1>6, <2>2
  <2> QED BY <1>4, <2>1, <2>3, <2>4, <2>5
<1>9. ASSUME NEW p \in LiveProcs, NEW q \in LiveProcs, p # q
      PROVE  /\ proc[p].cr3 # proc[q].cr3
             /\ TablesOf(p) \cap TablesOf(q) = KernelTables
             /\ proc[p].cr3 \notin TablesOf(q)
  <2>1. proc[p].cr3 # proc[q].cr3
    BY <1>1, <1>2, <1>9 DEF DirsApart, LiveProcs, Live
  <2>2. PICK d, e \in D : d = proc[p].cr3 /\ e = proc[q].cr3 /\ d # e
    BY <1>3, <2>1
  <2>3. d \notin TablesOf(q)
    BY <1>7, <2>2
  <2>4. ASSUME NEW f, f \in TablesOf(p), f \in TablesOf(q) PROVE f \in KernelTables
    <3>1. SUFFICES ASSUME f \notin KernelTables PROVE FALSE
      OBVIOUS
    <3>2. PICK i \in DOMAIN w.ent[d] : Tab(w, d, i) /\ w.ent[d][i].frame = f
      BY <1>1, <2>2, <2>4, <3>1, TablesAre
    <3>3. PICK j \in DOMAIN w.ent[e] : Tab(w, e, j) /\ w.ent[e][j].frame = f
      BY <1>1, <2>2, <2>4, <3>1, TablesAre
    <3>4. TabsApart(w, D)
      BY <1>2 DEF Structs
    <3>5. d = e
      BY <3>2, <3>3, <3>4 DEF TabsApart
    <3> QED BY <2>2, <3>5
  <2>5. ASSUME NEW f \in KernelTables PROVE f \in TablesOf(p) /\ f \in TablesOf(q)
    BY <1>1, TablesAre
  <2> QED BY <2>1, <2>2, <2>3, <2>4, <2>5
<1> QED BY <1>3, <1>8, <1>9 DEF PoolExact

\* A capability for memory allows a mapping of just what it names.
LEMMA OwnCapAllows ==
    ASSUME NEW caps, NEW b \in Nat, NEW s \in Nat, s # 0, NEW F, CapMem(b, s, F) \in caps
    PROVE  cap_check(caps, CapMem(b, s, F))
<1>1. PICK c : c = CapMem(b, s, F) /\ c \in caps
  OBVIOUS
<1>2. c.type = "MAP_MEM" /\ c.base = b /\ c.size = s /\ c.flags = F
  BY <1>1 DEF CapMem
<1>3. InRange(c, c)
  BY <1>2 DEF InRange
<1>4. c.type \notin Permissions /\ c.type # "OWN_IRQ" /\ c.type # "ACCESS_IO"
  BY <1>2 DEF Permissions
<1>5. Allows(c, c)
  BY <1>3, <1>4 DEF Allows
<1> QED BY <1>1, <1>5 DEF cap_check

\* The one page of a device window is device memory.
LEMMA WindowPage ==
    ASSUME NEW r, IsRegion(r), NEW caps, Window(caps, r), NEW b, b \in PagesOf(r)
    PROVE  b * PageSize \in DevicePages
<1>1. PICK s, n, f \in Nat : RegionIs(r, s, n, f)
  BY RegionPages
<1>2. n * PageSize = 1 * PageSize
  BY <1>1, PagingAssumption DEF Window, RegionIs
<1>3. n = 1
  BY <1>2, MulOrder
<1>4. b = f
  BY <1>1, <1>3 DEF RegionIs
<1> QED BY <1>1, <1>4 DEF Window, RegionIs

\* What is mapped and not owned, from the invariant.
LEMMA MappedIsGranted ==
    ASSUME MemoryInv
    PROVE  MappedGranted
<1>1. PICK w : w = Now /\ Core(w, {}) /\ Links(w) /\ w.proc = proc
  BY NowIs
<1>2. ASSUME NEW p \in LiveProcs, NEW r \in proc[p].regs, ~r.own
      PROVE  /\ cap_check(proc[p].caps, CapMem(r.pa, r.size, PTE_USER_PAGE))
             /\ \A b \in PagesOf(r) : b * PageSize \in DevicePages
                                   \/ \E q \in LiveProcs : b \in Owned(q)
  <2>1. p \in Proc /\ IsProc(proc[p]) /\ Linked(proc, proc[p])
    BY <1>1 DEF LiveProcs, Core, Shape, Links
  <2>2. IsRegion(r)
    BY <2>1 DEF IsProc, Regular
  <2>3. PICK s, n, f \in Nat : RegionIs(r, s, n, f)
    BY <2>2, RegionPages
  <2>4. r.own \in BOOLEAN /\ Alien(r)
    BY <1>2, <2>3 DEF RegionIs, Alien
  <2>5. Window(proc[p].caps, r) \/ Share(proc, proc[p].caps, r)
    BY <2>1, <2>4 DEF Linked, AllBacked
  <2>6. CASE Window(proc[p].caps, r)
    <3>1. \A b \in PagesOf(r) : b * PageSize \in DevicePages
      BY <2>2, <2>6, WindowPage
    <3> QED BY <2>6, <3>1 DEF Window
  <2>7. CASE Share(proc, proc[p].caps, r)
    <3>1. \A b \in PagesOf(r) : \E q \in LiveProcs : b \in Owned(q)
      BY <1>1, <2>7, OwnedIsHeld DEF Share
    <3>2. r.pa \in Nat /\ r.size \in Nat /\ r.start \in Nat /\ r.start < End(r)
      BY <2>3, RegionEnd
    <3>3. r.size # 0
      BY <3>2 DEF End
    <3>4. CapMem(r.pa, r.size, PTE_USER_PAGE) \in proc[p].caps
      BY <2>7 DEF Share
    <3>5. cap_check(proc[p].caps, CapMem(r.pa, r.size, PTE_USER_PAGE))
      BY <3>2, <3>3, <3>4, OwnCapAllows
    <3> QED BY <3>1, <3>5
  <2> QED BY <2>5, <2>6, <2>7
<1> QED BY <1>2 DEF MappedGranted

\* What a region leads to is not the kernel's, nor a module, unless it is device
\* memory.
LEMMA RegionClosed ==
    ASSUME NEW w, Core(w, {}), Links(w), NEW p \in Proc, NEW r \in w.proc[p].regs,
           NEW b \in PagesOf(r), b \in Fixed
    PROVE  b * PageSize \in DevicePages
<1>1. IsProc(w.proc[p]) /\ Linked(w.proc, w.proc[p])
  BY DEF Core, Shape, Links
<1>2. IsRegion(r)
  BY <1>1 DEF IsProc, Regular
<1>3. ~Held(w.proc, b)
  BY DEF Core, PagesSound, Base
<1>4. PICK s, n, f \in Nat : RegionIs(r, s, n, f)
  BY <1>2, RegionPages
<1>5. r.own \in BOOLEAN
  BY <1>4 DEF RegionIs
<1>6. Alien(r)
  BY <1>3, <1>5 DEF Held, Alien
<1>7. Window(w.proc[p].caps, r) \/ Share(w.proc, w.proc[p].caps, r)
  BY <1>1, <1>6 DEF Linked, AllBacked
<1>8. ~Share(w.proc, w.proc[p].caps, r)
  BY <1>3 DEF Share
<1> QED BY <1>2, <1>7, <1>8, WindowPage

\* Below the user heap the master directory opens nothing to the user.
LEMMA MasterClosed ==
    ASSUME NEW m, NEW D, Structs(m, D), NEW a \in Nat, PageOf(a) < PageOf(HeapBase),
           NEW e \in Translate(m, KernelDir, a)
    PROVE  ~e.user
<1>1. PICK i, j : i = PD_INDEX(a) /\ j = PT_INDEX(a) /\ i \in Nat /\ i < PD_INDEX(HeapBase)
  BY IndexOfPage, EntryOrder, PagingAssumption
<1>2. e \in Walk(m, KernelDir, i, j)
  BY <1>1, TranslateIsWalk
<1>3. i \in DOMAIN m.ent[KernelDir]
  BY <1>2 DEF Walk
<1>4. KernelEntry(i, m.ent[KernelDir][i])
  BY <1>3 DEF Structs, MasterPart
<1>5. m.ent[KernelDir][i].big = TRUE /\ m.ent[KernelDir][i].user = FALSE
  BY <1>1, <1>4, Bounds DEF KernelEntry
<1>6. e = Entry(m.ent[KernelDir][i].frame + j, FALSE, FALSE)
  BY <1>2, <1>3, <1>5 DEF Walk
<1> QED BY <1>6 DEF Entry

\* The page of an address in the user heap is one of the heap's.
LEMMA HeapPageIsOne ==
    ASSUME NEW m, NEW b \in Nat, PageOf(HeapBase) <= b, b < PageOf(HeapEnd),
           NEW e \in Translate(m, KernelDir, b * PageSize)
    PROVE  e.frame \in HeapFrames(m)
<1>1. PICK va \in Nat : va = b * PageSize /\ va % PageSize = 0
  BY PageMul
<1>2. PICK h, k \in Nat : /\ h = PageOf(HeapBase) /\ k = PageOf(HeapEnd)
                          /\ HeapBase = h * PageSize /\ HeapEnd = k * PageSize
  BY Bounds
<1>3. HeapBase <= va /\ va < HeapEnd
  BY <1>1, <1>2, MulOrder
<1>4. va \in HeapBase .. HeapEnd - 1
  BY <1>1, <1>3, Bounds
<1> QED BY <1>1, <1>4 DEF HeapFrames

\* What the user reaches, from the invariant.
LEMMA KernelIsClosed ==
    ASSUME MemoryInv
    PROVE  KernelClosed
<1>1. PICK w : w = Now /\ Core(w, {}) /\ Links(w) /\ w.proc = proc
  BY NowIs
<1>2. ASSUME NEW p \in LiveProcs, NEW b \in 0 .. PageOf(Word) - 1,
             NEW e \in Translate(w, proc[p].cr3, b * PageSize), e.user,
             e.frame < FirstFree \/ \E i \in DOMAIN Modules : Modules[i] = e.frame
      PROVE  e.frame * PageSize \in DevicePages
  <2>1. p \in Proc /\ Live(w, p) /\ IsProc(proc[p]) /\ TablesSound(w)
    BY <1>1 DEF LiveProcs, Live, Core, Shape
  <2>2. PICK d : /\ d = proc[p].cr3 /\ Structs(w, DirsOf(w)) /\ d \in DirsOf(w)
                 /\ Walks(w, d, proc[p].regs)
    BY <1>1, <2>1, LiveDirectory
  <2>3. PICK va \in Nat : va = b * PageSize /\ PageOf(va) = b /\ b \in Nat
    BY PageMul
  <2>4. e \in Translate(w, d, va)
    BY <1>2, <2>2, <2>3
  <2>5. e.frame \in Nat => e.frame \in Fixed
    BY <1>2, PagingAssumption DEF Fixed
  <2>6. CASE b < PageOf(HeapEnd)
    <3>1. e \in Translate(w, KernelDir, va)
      BY <2>2, <2>3, <2>4, <2>6, HeapWalk
    <3>2. ~(b < PageOf(HeapBase))
      BY <1>2, <2>2, <2>3, <3>1, MasterClosed
    <3>3. e.frame \in HeapFrames(w)
      BY <2>3, <2>6, <3>1, <3>2, HeapPageIsOne, Bounds
    <3>4. HeapFrames(w) \subseteq Blocks /\ Fixed \cap HeapFrames(w) = {}
      BY <1>1, <2>1 DEF Core, PagesSound, Base, TablesSound
    <3>5. e.frame \in Nat
      BY <3>3, <3>4 DEF Blocks
    <3> QED BY <2>5, <3>3, <3>4, <3>5
  <2>7. CASE ~(b < PageOf(HeapEnd))
    <3>1. e \in Shown(proc[p].regs, b)
      <4>1. PageOf(HeapEnd) <= PageOf(va)
        BY <2>3, <2>7, Bounds
      <4> QED BY <2>2, <2>3, <2>4, <4>1 DEF Walks
    <3>2. PICK r \in proc[p].regs : /\ b \in VPages(r)
                                    /\ e = Entry(PageOf(r.pa) + (b - PageOf(r.start)), TRUE, FALSE)
      BY <3>1 DEF Shown
    <3>3. IsRegion(r)
      BY <2>1 DEF IsProc, Regular
    <3>4. e.frame = PageOf(r.pa) + (b - PageOf(r.start))
      BY <3>2 DEF Entry
    <3>5. e.frame \in PagesOf(r)
      BY <2>3, <3>2, <3>3, <3>4, CoversPage
    <3>6. e.frame \in Nat
      <4>1. PICK s, n, f \in Nat : RegionIs(r, s, n, f)
        BY <3>3, RegionPages
      <4> QED BY <3>5, <4>1 DEF RegionIs
    <3> QED BY <1>1, <2>1, <2>5, <3>5, <3>6, RegionClosed
  <2> QED BY <2>6, <2>7
<1>3. ASSUME NEW p \in LiveProcs, NEW b \in 0 .. PageOf(Word) - 1,
             NEW e \in Translate(Now, proc[p].cr3, b * PageSize), e.user,
             e.frame < FirstFree \/ \E i \in DOMAIN Modules : Modules[i] = e.frame
      PROVE  e.frame * PageSize \in DevicePages
  BY <1>1, <1>2, <1>3
<1> QED BY <1>3 DEF KernelClosed

\* The identity mapping of memory, from the invariant.
LEMMA IdentityIsIntact ==
    ASSUME MemoryInv
    PROVE  IdentityIntact
<1>1. PICK w : w = Now /\ Core(w, {}) /\ w.proc = proc
  BY NowIs
<1>2. ASSUME NEW p \in LiveProcs, NEW b \in Blocks
      PROVE  \E e \in Translate(w, proc[p].cr3, b * PageSize) : e.frame = b
  <2>1. p \in Proc /\ Live(w, p) /\ TablesSound(w)
    BY <1>1 DEF LiveProcs, Live, Core
  <2>2. PICK d : d = proc[p].cr3 /\ Structs(w, DirsOf(w)) /\ d \in DirsOf(w)
    BY <1>1, <2>1, LiveDirectory
  <2>3. b \in Nat /\ b < TotalBlocks
    BY PagingAssumption DEF Blocks
  <2>4. PICK va \in Nat : va = b * PageSize /\ PageOf(va) = b
    BY <2>3, PageMul
  <2>5. Translate(w, d, va) = Translate(w, KernelDir, va)
    <3>1. PageOf(va) < PageOf(HeapEnd)
      BY <2>3, <2>4, Bounds, PagingAssumption
    <3> QED BY <2>2, <3>1, HeapWalk
  <2>6. PICK i, j \in Nat : /\ i = PD_INDEX(va) /\ j = PT_INDEX(va) /\ j < PerTable
                            /\ b = i * PerTable + j
    BY <2>4, IndexOfPage
  <2>7. b \div PerTable = i
    BY <2>6, QuotientUnique, PagingAssumption
  <2>8. /\ i \in DOMAIN w.ent[KernelDir]
        /\ w.ent[KernelDir][i] = Entry(i * PerTable, FALSE, TRUE)
    BY <2>1, <2>7 DEF TablesSound, Identity
  <2>9. Walk(w, KernelDir, i, j) = {Entry(i * PerTable + j, FALSE, FALSE)}
    BY <2>8 DEF Walk, Entry
  <2>10. Translate(w, d, va) = {Entry(b, FALSE, FALSE)}
    BY <2>5, <2>6, <2>9, TranslateIsWalk
  <2>11. Entry(b, FALSE, FALSE).frame = b
    BY DEF Entry
  <2> QED BY <2>2, <2>4, <2>10, <2>11
<1>3. ASSUME NEW p \in LiveProcs, NEW b \in Blocks
      PROVE  \E e \in Translate(Now, proc[p].cr3, b * PageSize) : e.frame = b
  BY <1>1, <1>2
<1> QED BY <1>3 DEF IdentityIntact

-----------------------------------------------------------------------------
(* The theorems. *)

\* The inductive invariant: as long as memory is shared only with processes that
\* have a region, the machine between two system calls is sound.
THEOREM MemoryInvariant ==
    ASSUME ~ShareToEmpty
    PROVE  Spec => []MemoryInv
<1>1. Init => MemoryInv
  BY InitSound
<1>2. MemoryInv /\ [Next]_vars => MemoryInv'
  BY StepSound
<1> QED BY <1>1, <1>2, PTL DEF Spec

\* Every page is free or has one owner, and free_blocks counts what is free.
THEOREM PagesStayExact ==
    ASSUME ~ShareToEmpty
    PROVE  Spec => []PagesExact
<1>1. MemoryInv => PagesExact
  BY PagesAreExact
<1> QED BY <1>1, MemoryInvariant, PTL

\* The tables of a process map its regions, which keep apart, and nothing else
\* above the user heap.
THEOREM TablesStayExact ==
    ASSUME ~ShareToEmpty
    PROVE  Spec => []TablesExact
<1>1. MemoryInv => TablesExact
  BY TablesAreExact
<1> QED BY <1>1, MemoryInvariant, PTL

\* No slot of the paging pool leaks and none is freed while it is used.
THEOREM PoolStaysExact ==
    ASSUME ~ShareToEmpty
    PROVE  Spec => []PoolExact
<1>1. MemoryInv => PoolExact
  BY PoolIsExact
<1> QED BY <1>1, MemoryInvariant, PTL

\* What a process maps and does not own is covered by its capabilities and has
\* an owner.
THEOREM MappedStaysGranted ==
    ASSUME ~ShareToEmpty
    PROVE  Spec => []MappedGranted
<1>1. MemoryInv => MappedGranted
  BY MappedIsGranted
<1> QED BY <1>1, MemoryInvariant, PTL

\* No user reaches a page of the kernel that is not device memory.
THEOREM KernelStaysClosed ==
    ASSUME ~ShareToEmpty
    PROVE  Spec => []KernelClosed
<1>1. MemoryInv => KernelClosed
  BY KernelIsClosed
<1> QED BY <1>1, MemoryInvariant, PTL

\* Every page of memory stays where the kernel looks for it, unless memory is
\* shared with a process without regions: that is the only way to lose it.
THEOREM IdentityStays ==
    ASSUME ~ShareToEmpty
    PROVE  Spec => []IdentityIntact
<1>1. MemoryInv => IdentityIntact
  BY IdentityIsIntact
<1> QED BY <1>1, MemoryInvariant, PTL

=============================================================================
