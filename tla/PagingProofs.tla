---------------------------- MODULE PagingProofs ----------------------------
(***************************************************************************)
(* Proofs about the operators of the memory side of the kernel: what the   *)
(* comparisons of capability.c decide, for every word size and every list; *)
(* that pages are mapped and allocated for a process entirely or not at    *)
(* all, whatever runs out half way (paging.c, pmm.c, vmm.c); and that a    *)
(* region comes and goes with its pages and its mappings, on a machine on  *)
(* which everything else is accounted for (Core), which stays so.          *)
(* MemoryProofs goes on from here to the system calls.                     *)
(***************************************************************************)
EXTENDS Memory, FiniteSetTheorems, TLAPS

\* The bytes or ports a capability names.
Reach(c) == c.base .. c.base + c.size - 1

\* A list as cap_grant and cap_inherit_all build it.
Granted(caps, Flags) == \A d \in caps : d \in Capability(Flags) /\ GrantCheck(d)

\* What a record of the list holds.
LEMMA CapFields ==
    ASSUME NEW Flags, NEW c \in Capability(Flags)
    PROVE  /\ c.type \in CapType /\ c.base \in Nat /\ c.size \in Nat
           /\ c.base < Word /\ c.size < Word /\ Word \in Nat /\ Word > 0
BY CapAssumption DEF Capability

\* The comparison of the code by subtraction is inclusion of ranges, at every
\* edge: ranges that touch, end together, are equal or reach to the last address.
THEOREM InRangeIsInclusion ==
    ASSUME NEW Flags, NEW d \in Capability(Flags), NEW c \in Capability(Flags)
    PROVE  InRange(d, c) <=> c.size # 0 /\ Reach(c) \subseteq Reach(d)
<1>1. PICK b \in Nat, s \in Nat, db \in Nat, ds \in Nat :
        c.base = b /\ c.size = s /\ d.base = db /\ d.size = ds
  BY CapFields
<1>2. InRange(d, c) <=> s # 0 /\ b >= db /\ s <= ds /\ b - db <= ds - s
  BY <1>1 DEF InRange
<1>3. Reach(c) = b .. b + s - 1 /\ Reach(d) = db .. db + ds - 1
  BY <1>1 DEF Reach
<1>4. ASSUME s # 0, b >= db, b + s <= db + ds PROVE b .. b + s - 1 \subseteq db .. db + ds - 1
  BY <1>4
<1>5. ASSUME s # 0, b .. b + s - 1 \subseteq db .. db + ds - 1
      PROVE  b >= db /\ b + s <= db + ds
  <2>1. b \in b .. b + s - 1 /\ b + s - 1 \in b .. b + s - 1
    BY <1>5
  <2>2. b \in db .. db + ds - 1 /\ b + s - 1 \in db .. db + ds - 1
    BY <1>5, <2>1
  <2> QED BY <2>2
<1>6. InRange(d, c) <=> s # 0 /\ b >= db /\ b + s <= db + ds
  BY <1>2
<1> QED BY <1>1, <1>3, <1>4, <1>5, <1>6

\* What cap_grant lets onto a list is not empty and does not wrap: it ends below
\* the last address of the word.
THEOREM GrantsDoNotWrap ==
    ASSUME NEW Flags, NEW c \in Capability(Flags), c.type \in {"MAP_MEM", "ACCESS_IO"}
    PROVE  GrantCheck(c) <=> c.size # 0 /\ c.base + c.size < Word
<1>1. PICK b \in Nat, s \in Nat, w \in Nat :
        c.base = b /\ c.size = s /\ Word = w /\ b < w /\ s < w /\ w > 0
  BY CapFields
<1>2. GrantCheck(c) <=> s # 0 /\ (b + s) % w >= b
  BY <1>1 DEF GrantCheck, Permissions
<1>3. CASE b + s < w
  <2>1. (b + s) % w = b + s
    BY <1>1, <1>3
  <2> QED BY <1>1, <1>2, <1>3, <2>1
<1>4. CASE b + s >= w
  <2>1. (b + s) % w = b + s - w
    BY <1>1, <1>4
  <2> QED BY <1>1, <1>2, <1>4, <2>1
<1> QED BY <1>3, <1>4

\* cap_check allows a mapping exactly if one grant covers all of it with these
\* flags; what it allows lies below the end of the address space, whatever base
\* and size the caller names.
THEOREM CheckedIsGranted ==
    ASSUME NEW Flags, NEW caps, Granted(caps, Flags),
           NEW b \in 0 .. Word - 1, NEW s \in 0 .. Word - 1, NEW f \in SUBSET Flags
    PROVE  /\ cap_check(caps, CapMem(b, s, f)) <=>
                \E d \in caps : /\ d.type = "MAP_MEM" /\ f \subseteq d.flags
                                /\ s # 0 /\ Reach(CapMem(b, s, f)) \subseteq Reach(d)
           /\ cap_check(caps, CapMem(b, s, f)) => b + s < Word
<1>1. PICK c : c = CapMem(b, s, f)
  OBVIOUS
<1>2. c \in Capability(Flags) /\ c.type = "MAP_MEM" /\ c.base = b /\ c.size = s /\ c.flags = f
  BY <1>1 DEF CapMem, Capability, CapType
<1>3. ASSUME NEW d \in caps
      PROVE  Allows(d, c) <=> d.type = "MAP_MEM" /\ f \subseteq d.flags /\ InRange(d, c)
  BY <1>2, Zenon DEF Allows, Permissions
<1>4. ASSUME NEW d \in caps
      PROVE  InRange(d, c) <=> s # 0 /\ Reach(c) \subseteq Reach(d)
  BY <1>2, InRangeIsInclusion DEF Granted
<1>5. ASSUME NEW d \in caps, d.type = "MAP_MEM", InRange(d, c) PROVE b + s < Word
  <2>1. d \in Capability(Flags) /\ d.base + d.size < Word
    BY <1>5, GrantsDoNotWrap DEF Granted
  <2> QED BY <1>2, <1>5, <2>1, CapFields DEF InRange
<1> QED BY <1>1, <1>3, <1>4, <1>5 DEF cap_check

\* A child is allowed nothing its parent is not, however many entries there was
\* memory for (cap_inherit_all).
THEOREM InheritedIsLess ==
    ASSUME NEW caps, NEW n \in Nat, NEW s \in cap_inherit_all(caps, n), NEW c
    PROVE  cap_check(s, c) => cap_check(caps, c)
BY DEF cap_inherit_all, cap_check

\* Grants and revocations keep a list well-formed.
LEMMA GrantedKept ==
    ASSUME NEW Flags, NEW caps, Granted(caps, Flags), NEW c \in Capability(Flags)
    PROVE  Granted(cap_grant(caps, c), Flags) /\ Granted(cap_revoke(caps, c), Flags)
BY DEF Granted, cap_grant, Grantable, cap_revoke
-----------------------------------------------------------------------------
(* Addresses, and the entries that lead to them. *)

\* The quotient is the only number with a remainder below the divisor.
LEMMA QuotientUnique ==
    ASSUME NEW w \in Nat \ {0}, NEW q \in Nat, NEW r \in Nat, r < w
    PROVE  (q * w + r) \div w = q /\ (q * w + r) % w = r
<1> DEFINE a == q * w + r
<1>1. a \in Nat /\ q * w \in Nat
  OBVIOUS
<1>2. PICK d \in Nat, e \in Nat : d = a \div w /\ e = a % w
  BY <1>1
<1>3. a = d * w + e /\ e < w
  BY <1>1, <1>2
<1>4. CASE d = q
  BY <1>2, <1>3, <1>4
<1>5. CASE d < q
  <2>1. PICK k \in Nat : q = d + 1 + k
    <3>1. q - d - 1 \in Nat /\ q = d + 1 + (q - d - 1)
      BY <1>5
    <3> QED BY <3>1
  <2>2. q * w = d * w + w + k * w /\ k * w \in Nat /\ d * w \in Nat
    BY <2>1
  <2> QED BY <1>3, <2>2
<1>6. CASE d > q
  <2>1. PICK k \in Nat : d = q + 1 + k
    <3>1. d - q - 1 \in Nat /\ d = q + 1 + (d - q - 1)
      BY <1>6
    <3> QED BY <3>1
  <2>2. d * w = q * w + w + k * w /\ k * w \in Nat
    BY <2>1
  <2> QED BY <1>3, <2>2
<1> QED BY <1>4, <1>5, <1>6

\* Quotient and remainder.
LEMMA Division ==
    ASSUME NEW a \in Nat, NEW w \in Nat \ {0}
    PROVE  /\ a \div w \in Nat /\ a % w \in Nat /\ a % w < w
           /\ a = (a \div w) * w + (a % w)
OBVIOUS

\* An address is found by its page: the entry of the directory and the entry of
\* the table are the two digits of the page's number.
LEMMA IndexOfPage ==
    ASSUME NEW a \in Nat
    PROVE  /\ PageOf(a) \in Nat /\ PD_INDEX(a) \in Nat /\ PT_INDEX(a) \in Nat
           /\ PT_INDEX(a) < PerTable
           /\ PageOf(a) = PD_INDEX(a) * PerTable + PT_INDEX(a)
<1>1. PICK P \in Nat \ {0}, T \in Nat \ {0} : P = PageSize /\ T = PerTable
  BY PagingAssumption
<1>2. PICK b \in Nat, o \in Nat : b = a \div P /\ a = b * P + o /\ o < P
  BY <1>1, Division
<1>3. PICK i \in Nat, j \in Nat : i = b \div T /\ j = b % T /\ b = i * T + j /\ j < T
  BY <1>1, <1>2, Division
<1>4. a \div (P * T) = i
  <2>1. PICK w \in Nat \ {0} : w = P * T
    BY <1>1
  <2>2. PICK r \in Nat : r = j * P + o
    BY <1>1, <1>2, <1>3
  <2>3. a = i * w + r
    <3>1. b * P = i * T * P + j * P
      BY <1>3
    <3>2. i * T * P = i * w
      BY <2>1
    <3> QED BY <1>2, <2>2, <3>1, <3>2
  <2>4. r < w
    <3>1. PICK k \in Nat : T = j + 1 + k
      <4>1. T - j - 1 \in Nat /\ T = j + 1 + (T - j - 1)
        BY <1>1, <1>3
      <4> QED BY <4>1
    <3>2. w = j * P + P + k * P /\ k * P \in Nat
      BY <2>1, <3>1
    <3> QED BY <1>2, <2>2, <3>2
  <2> QED BY <2>1, <2>3, <2>4, QuotientUnique
<1> QED BY <1>1, <1>2, <1>3, <1>4 DEF PageOf, PD_INDEX, PT_INDEX

\* Pages that differ have entries that differ.
LEMMA IndexApart ==
    ASSUME NEW a \in Nat, NEW b \in Nat, PD_INDEX(a) = PD_INDEX(b), PT_INDEX(a) = PT_INDEX(b)
    PROVE  PageOf(a) = PageOf(b)
BY IndexOfPage

\* Addresses of the same page share both entries.
LEMMA PageIndex ==
    ASSUME NEW a \in Nat, NEW b \in Nat, PageOf(a) = PageOf(b)
    PROVE  PD_INDEX(a) = PD_INDEX(b) /\ PT_INDEX(a) = PT_INDEX(b)
<1>1. PICK T \in Nat \ {0} : T = PerTable
  BY PagingAssumption
<1>2. PICK i \in Nat, j \in Nat : i = PD_INDEX(a) /\ j = PT_INDEX(a) /\ j < T
  BY <1>1, IndexOfPage
<1>3. PICK k \in Nat, l \in Nat : k = PD_INDEX(b) /\ l = PT_INDEX(b) /\ l < T
  BY <1>1, IndexOfPage
<1>4. i * T + j = k * T + l
  BY <1>1, <1>2, <1>3, IndexOfPage
<1>5. (i * T + j) \div T = i /\ (i * T + j) % T = j
  BY ONLY <1>2, T \in Nat \ {0}, QuotientUnique
<1>6. (k * T + l) \div T = k /\ (k * T + l) % T = l
  BY ONLY <1>3, T \in Nat \ {0}, QuotientUnique
<1> QED BY <1>2, <1>3, <1>4, <1>5, <1>6

\* The pages behind an address follow each other.
LEMMA PageBehind ==
    ASSUME NEW a \in Nat, NEW k \in Nat
    PROVE  a + k * PageSize \in Nat /\ PageOf(a + k * PageSize) = PageOf(a) + k
<1>1. PICK P \in Nat \ {0} : P = PageSize
  BY PagingAssumption
<1>2. PICK b \in Nat, o \in Nat : b = a \div P /\ a = b * P + o /\ o < P
  BY <1>1, Division
<1>3. PICK c \in Nat : c = b + k
  BY <1>2
<1>4. (a + k * P) \div P = b + k
  <2>1. a + k * P = c * P + o
    BY <1>2, <1>3
  <2>2. (c * P + o) \div P = c
    BY ONLY <1>2, P \in Nat \ {0}, c \in Nat, o \in Nat, QuotientUnique
  <2> QED BY <1>3, <2>1, <2>2
<1>5. a + k * P \in Nat
  BY <1>1
<1> QED BY <1>1, <1>2, <1>4, <1>5 DEF PageOf
-----------------------------------------------------------------------------
(* One directory and its tables. *)

Frames == PoolFrames \cup {KernelDir}

\* The fields of a machine.
IsMachine(m) ==
    m = [used |-> m.used, free |-> m.free, pool |-> m.pool, ent |-> m.ent, proc |-> m.proc,
         heap |-> m.heap, ok |-> m.ok, out |-> m.out]

\* dir and the tables it leads to are in use, and it has a table of its own for
\* each entry.
Directory(m, dir) ==
    /\ IsMachine(m) /\ dir \in m.pool \cup {KernelDir} /\ m.pool \subseteq PoolFrames
    /\ m.ent = [f \in Frames |-> m.ent[f]]
    /\ \A i \in DOMAIN m.ent[dir] :
        /\ m.ent[dir][i].big \in BOOLEAN
        /\ m.ent[dir][i].big = FALSE => m.ent[dir][i].frame \in m.pool \ {dir}
    /\ \A i, j \in DOMAIN m.ent[dir] :
        /\ m.ent[dir][i].big = FALSE /\ m.ent[dir][j].big = FALSE
        /\ m.ent[dir][i].frame = m.ent[dir][j].frame
        => i = j

\* The entry i of dir leads to a table the user may use, or nowhere yet.
Tabled(m, dir, i) ==
    i \in DOMAIN m.ent[dir] /\ m.ent[dir][i].big = FALSE /\ m.ent[dir][i].user = TRUE

UserPart(m, dir, i) == i \in DOMAIN m.ent[dir] => Tabled(m, dir, i)

\* Translate by the indices of an address.
Walk(m, dir, i, j) ==
    IF i \notin DOMAIN m.ent[dir] THEN {}
    ELSE IF m.ent[dir][i].big
        THEN {Entry(m.ent[dir][i].frame + j, m.ent[dir][i].user, FALSE)}
    ELSE IF j \notin DOMAIN m.ent[m.ent[dir][i].frame] THEN {}
    ELSE {Entry(m.ent[m.ent[dir][i].frame][j].frame,
                m.ent[dir][i].user /\ m.ent[m.ent[dir][i].frame][j].user, FALSE)}

\* The MMU's walk of an address is the walk by its two indices.
LEMMA TranslateIsWalk ==
    ASSUME NEW m, NEW dir, NEW a
    PROVE  Translate(m, dir, a) = Walk(m, dir, PD_INDEX(a), PT_INDEX(a))
BY DEF Translate, Walk, Present

\* What a step leaves alone that only writes to tables.
TablesOnly(m, m2) ==
    m2.used = m.used /\ m2.free = m.free /\ m2.proc = m.proc /\ m2.heap = m.heap

\* A set of numbers that is not empty has a least one.
LEMMA Least ==
    ASSUME NEW T \in SUBSET Nat, T # {}
    PROVE  \E x \in T : \A y \in T : x <= y
<1> DEFINE Below == {0..(x - 1) : x \in T}
<1>1. Below \subseteq FiniteSubsetsOf(Nat)
  <2>1. \A x \in T : 0..(x - 1) \in SUBSET Nat /\ IsFiniteSet(0..(x - 1))
    BY FS_Interval
  <2> QED BY <2>1 DEF FiniteSubsetsOf
<1>2. Below # {}
  OBVIOUS
<1>3. PICK b \in Below : \A c \in Below : ~(<<c, b>> \in StrictSubsetOrdering(Nat))
  <2> HIDE DEF Below
  <2> QED BY <1>1, <1>2, FS_StrictSubsetOrderingWellFounded, WFMin
<1>4. PICK x \in T : b = 0..(x - 1)
  OBVIOUS
<1>5. ASSUME NEW y \in T, y < x PROVE FALSE
  <2>1. 0..(y - 1) \in Below /\ y \in 0..(x - 1) /\ y \notin 0..(y - 1)
    BY <1>5
  <2>2. 0..(y - 1) \subseteq 0..(x - 1) /\ 0..(y - 1) # 0..(x - 1)
    BY <1>5, <2>1
  <2>3. <<0..(y - 1), 0..(x - 1)>> \in StrictSubsetOrdering(Nat)
    BY <2>2, SMTT(30) DEF StrictSubsetOrdering
  <2> QED BY <1>3, <1>4, <2>1, <2>3
<1>6. \A y \in T : x <= y
  BY <1>5
<1> QED BY <1>6

\* Min finds it: the first free slot of the pool, the first run of pages.
LEMMA LeastFrame ==
    ASSUME NEW T \in SUBSET Nat, T # {}
    PROVE  Min(T) \in T
BY Least DEF Min

\* Induction over the numbers, from the least counterexample.
LEMMA Induction ==
    ASSUME NEW S \in SUBSET Nat, 0 \in S, \A n \in S : n + 1 \in S
    PROVE  \A n \in Nat : n \in S
<1> DEFINE T == Nat \ S
<1> SUFFICES ASSUME T # {} PROVE FALSE
  OBVIOUS
<1>1. PICK x \in T : \A y \in T : x <= y
  <2>1. T \in SUBSET Nat
    OBVIOUS
  <2> HIDE DEF T
  <2> QED BY <2>1, Least
<1>2. x # 0 /\ x - 1 \in Nat
  OBVIOUS
<1>3. x - 1 \in S
  BY <1>1, <1>2
<1>4. (x - 1) + 1 \in S
  BY <1>3
<1> QED BY <1>1, <1>2, <1>4

\* What holds before a loop of n rounds and is kept by each holds after it: N are
\* the numbers of rounds after which it holds.
LEMMA LoopInvariant ==
    ASSUME NEW n \in Nat, NEW N, 0 \in N, \A i \in 1 .. n : i - 1 \in N => i \in N
    PROVE  n \in N
<1> DEFINE S == {i \in Nat : i <= n => i \in N}
<1>1. 0 \in S /\ S \in SUBSET Nat
  OBVIOUS
<1>2. ASSUME NEW i \in S PROVE i + 1 \in S
  <2> SUFFICES ASSUME i + 1 <= n PROVE i + 1 \in N
    OBVIOUS
  <2>1. i + 1 \in 1 .. n /\ (i + 1) - 1 = i /\ i \in N
    OBVIOUS
  <2> QED BY <2>1
<1>3. n \in S
  <2> HIDE DEF S
  <2> QED BY <1>1, <1>2, Induction
<1> QED BY <1>3

\* The slot that arch_paging_pool_alloc hands out.
LEMMA PoolAlloc ==
    ASSUME NEW m, NEW dir, Directory(m, dir)
    PROVE  LET a == arch_paging_pool_alloc(m)
           IN  /\ IsMachine(a) /\ TablesOnly(m, a)
               /\ \/ a.ok = FALSE /\ a.pool = m.pool /\ a.ent = m.ent
                  \/ /\ a.ok = TRUE /\ a.out \in PoolFrames \ m.pool
                     /\ a.pool = m.pool \cup {a.out}
                     /\ a.ent = [m.ent EXCEPT ![a.out] = NoEntries]
<1> DEFINE a == arch_paging_pool_alloc(m)
<1>0. IsMachine(m)
  BY DEF Directory
<1>1. CASE PoolFrames \subseteq m.pool
  <2>1. a = [m EXCEPT !.ok = FALSE, !.out = 0]
    BY <1>1 DEF arch_paging_pool_alloc, Failed
  <2> QED BY <1>0, <2>1 DEF IsMachine, TablesOnly
<1>2. CASE ~(PoolFrames \subseteq m.pool)
  <2>1. PICK f : f = Min(PoolFrames \ m.pool)
    OBVIOUS
  <2>2. f \in PoolFrames \ m.pool
    <3>1. PoolFrames \ m.pool \in SUBSET Nat /\ PoolFrames \ m.pool # {}
      BY <1>2, PagingAssumption
    <3> QED BY <2>1, <3>1, LeastFrame
  <2>3. a = [m EXCEPT !.pool = m.pool \cup {f}, !.ent[f] = NoEntries, !.ok = TRUE, !.out = f]
    BY <1>2, <2>1 DEF arch_paging_pool_alloc
  <2>4. /\ a.ok = TRUE /\ a.out = f /\ a.pool = m.pool \cup {f}
        /\ a.ent = [m.ent EXCEPT ![f] = NoEntries]
        /\ IsMachine(a) /\ TablesOnly(m, a)
    BY <1>0, <2>3 DEF IsMachine, TablesOnly
  <2> QED BY <2>2, <2>4
<1> QED BY <1>1, <1>2

\* An entry written into a frame.
LEMMA WriteEntry ==
    ASSUME NEW m, IsMachine(m), m.ent = [f \in Frames |-> m.ent[f]], NEW t \in Frames, NEW j,
           NEW e
    PROVE  LET m2 == SetEntry(m, t, j, e)
           IN  /\ IsMachine(m2) /\ TablesOnly(m, m2)
               /\ m2.pool = m.pool /\ m2.ok = m.ok /\ m2.out = m.out
               /\ m2.ent = [f \in Frames |-> m2.ent[f]]
               /\ \A f \in Frames : f # t => m2.ent[f] = m.ent[f]
               /\ DOMAIN m2.ent[t] = DOMAIN m.ent[t] \cup {j} /\ m2.ent[t][j] = e
               /\ \A k \in DOMAIN m.ent[t] : k # j => m2.ent[t][k] = m.ent[t][k]
<1> DEFINE m2 == SetEntry(m, t, j, e)
<1>1. PICK g : g = [k \in DOMAIN m.ent[t] \cup {j} |-> IF k = j THEN e ELSE m.ent[t][k]]
  OBVIOUS
<1>2. m2 = [m EXCEPT !.ent[t] = g]
  BY <1>1 DEF SetEntry
<1>3. /\ m2.ent = [m.ent EXCEPT ![t] = g] /\ IsMachine(m2) /\ TablesOnly(m, m2)
      /\ m2.pool = m.pool /\ m2.ok = m.ok /\ m2.out = m.out
  BY <1>2 DEF IsMachine, TablesOnly
<1> HIDE DEF m2
<1>4. /\ m2.ent = [f \in Frames |-> m2.ent[f]] /\ m2.ent[t] = g
      /\ \A f \in Frames : f # t => m2.ent[f] = m.ent[f]
  BY <1>3
<1>5. DOMAIN g = DOMAIN m.ent[t] \cup {j} /\ g[j] = e
      /\ \A k \in DOMAIN m.ent[t] : k # j => g[k] = m.ent[t][k]
  BY <1>1
<1> QED BY <1>3, <1>4, <1>5 DEF m2

\* An entry removed from a frame.
LEMMA EraseEntry ==
    ASSUME NEW m, IsMachine(m), m.ent = [f \in Frames |-> m.ent[f]], NEW t \in Frames, NEW j
    PROVE  LET m2 == ClearEntry(m, t, j)
           IN  /\ IsMachine(m2) /\ TablesOnly(m, m2)
               /\ m2.pool = m.pool /\ m2.ok = m.ok /\ m2.out = m.out
               /\ m2.ent = [f \in Frames |-> m2.ent[f]]
               /\ \A f \in Frames : f # t => m2.ent[f] = m.ent[f]
               /\ DOMAIN m2.ent[t] = DOMAIN m.ent[t] \ {j}
               /\ \A k \in DOMAIN m.ent[t] : k # j => m2.ent[t][k] = m.ent[t][k]
<1> DEFINE m2 == ClearEntry(m, t, j)
<1>1. PICK g : g = [k \in DOMAIN m.ent[t] \ {j} |-> m.ent[t][k]]
  OBVIOUS
<1>2. m2 = [m EXCEPT !.ent[t] = g]
  BY <1>1 DEF ClearEntry
<1>3. /\ m2.ent = [m.ent EXCEPT ![t] = g] /\ IsMachine(m2) /\ TablesOnly(m, m2)
      /\ m2.pool = m.pool /\ m2.ok = m.ok /\ m2.out = m.out
  BY <1>2 DEF IsMachine, TablesOnly
<1> HIDE DEF m2
<1>4. /\ m2.ent = [f \in Frames |-> m2.ent[f]] /\ m2.ent[t] = g
      /\ \A f \in Frames : f # t => m2.ent[f] = m.ent[f]
  BY <1>3
<1>5. DOMAIN g = DOMAIN m.ent[t] \ {j}
      /\ \A k \in DOMAIN m.ent[t] : k # j => g[k] = m.ent[t][k]
  BY <1>1
<1> QED BY <1>3, <1>4, <1>5 DEF m2

\* The entry i of dir leads to the table t.
TableAt(m, dir, i, t) ==
    i \in DOMAIN m.ent[dir] /\ m.ent[dir][i].big = FALSE /\ t = m.ent[dir][i].frame

\* A write to the frame t alone.
Rewrites(m, m2, t) ==
    /\ IsMachine(m2) /\ m2.pool = m.pool /\ m2.ent = [f \in Frames |-> m2.ent[f]]
    /\ \A f \in Frames : f # t => m2.ent[f] = m.ent[f]

\* The walks that do not pass the entry i of dir stay as they are.
WalksBut(m, m2, dir, i) ==
    \A k : k # i => \A j : Walk(m2, dir, k, j) = Walk(m, dir, k, j)

\* A directory whose own entries stay is one after a write to another frame, and
\* every walk but those through the frame goes the same way.
LEMMA WriteTable ==
    ASSUME NEW m, NEW m2, NEW dir, NEW i, NEW t,
           Directory(m, dir), TableAt(m, dir, i, t), Rewrites(m, m2, t)
    PROVE  Directory(m2, dir) /\ m2.ent[dir] = m.ent[dir] /\ WalksBut(m, m2, dir, i)
<1>. i \in DOMAIN m.ent[dir] /\ m.ent[dir][i].big = FALSE /\ t = m.ent[dir][i].frame
  BY DEF TableAt
<1>0. /\ IsMachine(m2) /\ m2.pool = m.pool /\ m2.ent = [f \in Frames |-> m2.ent[f]]
      /\ \A f \in Frames : f # t => m2.ent[f] = m.ent[f]
  BY DEF Rewrites
<1>1. m2.ent[dir] = m.ent[dir]
  BY <1>0 DEF Directory, Frames
<1>2. Directory(m2, dir)
  BY <1>0, <1>1 DEF Directory
<1>3. ASSUME NEW k, k # i, NEW j PROVE Walk(m2, dir, k, j) = Walk(m, dir, k, j)
  <2>1. CASE k \in DOMAIN m.ent[dir] /\ m.ent[dir][k].big = FALSE
    <3>1. m.ent[dir][k].frame # t /\ m.ent[dir][k].frame \in Frames
      BY <1>3, <2>1 DEF Directory, Frames
    <3>2. m2.ent[m.ent[dir][k].frame] = m.ent[m.ent[dir][k].frame]
      BY <1>0, <3>1
    <3> QED BY <1>1, <3>2 DEF Walk
  <2>2. CASE k \notin DOMAIN m.ent[dir]
    BY <1>1, <2>2 DEF Walk
  <2>3. CASE k \in DOMAIN m.ent[dir] /\ m.ent[dir][k].big = TRUE
    BY <1>1, <2>3 DEF Walk
  <2> QED BY <2>1, <2>2, <2>3 DEF Directory
<1> QED BY <1>1, <1>2, <1>3 DEF WalksBut

\* A table for an entry that leads nowhere yet: no walk changes.
LEMMA NewTable ==
    ASSUME NEW m, NEW dir, Directory(m, dir), NEW i, UserPart(m, dir, i)
    PROVE  LET w == WithTable(m, dir, i, TRUE)
           IN  /\ Directory(w, dir) /\ TablesOnly(m, w) /\ w.ok \in BOOLEAN
               /\ w.ok = TRUE => Tabled(w, dir, i)
               /\ \A k : Tabled(m, dir, k) => Tabled(w, dir, k)
               /\ \A k : UserPart(m, dir, k) => UserPart(w, dir, k)
               /\ \A k, j : Walk(w, dir, k, j) = Walk(m, dir, k, j)
<1> DEFINE w == WithTable(m, dir, i, TRUE)
<1>0. IsMachine(m)
  BY DEF Directory
<1>1. CASE i \in DOMAIN m.ent[dir]
  <2>1. m.ent[dir][i].big = FALSE /\ Tabled(m, dir, i)
    BY <1>1 DEF UserPart, Tabled
  <2>2. w = [m EXCEPT !.ok = TRUE, !.out = 0]
    BY <1>1, <2>1 DEF WithTable, Returns, Present
  <2>3. /\ IsMachine(w) /\ TablesOnly(m, w) /\ w.ok = TRUE /\ w.ent = m.ent /\ w.pool = m.pool
    BY <1>0, <2>2 DEF IsMachine, TablesOnly
  <2> HIDE DEF w
  <2>4. Directory(w, dir)
    BY <2>3 DEF Directory
  <2>5. \A k, j : Walk(w, dir, k, j) = Walk(m, dir, k, j)
    BY <2>3 DEF Walk
  <2> QED BY <2>1, <2>3, <2>4, <2>5 DEF w, Tabled, UserPart
<1>2. CASE i \notin DOMAIN m.ent[dir]
  <2>0. PICK a : a = arch_paging_pool_alloc(m)
    OBVIOUS
  <2>1. w = IF a.ok THEN SetEntry(a, dir, i, Entry(a.out, TRUE, FALSE)) ELSE a
    BY <1>2, <2>0 DEF WithTable, Then, Present
  <2>2. /\ IsMachine(a) /\ TablesOnly(m, a)
        /\ \/ a.ok = FALSE /\ a.pool = m.pool /\ a.ent = m.ent
           \/ /\ a.ok = TRUE /\ a.out \in PoolFrames \ m.pool
              /\ a.pool = m.pool \cup {a.out}
              /\ a.ent = [m.ent EXCEPT ![a.out] = NoEntries]
    BY <2>0, PoolAlloc
  <2>3. CASE a.ok = FALSE
    <3>1. w = a /\ a.pool = m.pool /\ a.ent = m.ent
      BY <2>1, <2>2, <2>3
    <3> HIDE DEF w
    <3>2. Directory(w, dir)
      BY <2>2, <3>1 DEF Directory
    <3>3. \A k, j : Walk(w, dir, k, j) = Walk(m, dir, k, j)
      BY <3>1 DEF Walk
    <3> QED BY <2>2, <2>3, <3>1, <3>2, <3>3 DEF w, Tabled, UserPart
  <2>4. CASE a.ok = TRUE
    <3>1. PICK f \in PoolFrames \ m.pool : f = a.out
      BY <2>2, <2>4
    <3>2. PICK e : e = Entry(f, TRUE, FALSE)
      OBVIOUS
    <3>3. e.frame = f /\ e.user = TRUE /\ e.big = FALSE
      BY <3>2 DEF Entry
    <3>4. w = SetEntry(a, dir, i, e)
      BY <2>1, <2>4, <3>1, <3>2
    <3> HIDE DEF w
    <3>5. /\ a.pool = m.pool \cup {f} /\ a.ent = [m.ent EXCEPT ![f] = NoEntries]
          /\ f \in Frames /\ dir \in Frames /\ m.ent = [g \in Frames |-> m.ent[g]]
      BY <2>2, <2>4, <3>1 DEF Directory, Frames
    <3>6. /\ a.ent = [g \in Frames |-> a.ent[g]] /\ a.ent[f] = NoEntries
          /\ \A g \in Frames : g # f => a.ent[g] = m.ent[g]
      BY <3>5
    <3>7. /\ IsMachine(w) /\ TablesOnly(a, w) /\ w.pool = a.pool /\ w.ok = a.ok
          /\ w.ent = [g \in Frames |-> w.ent[g]]
          /\ \A g \in Frames : g # dir => w.ent[g] = a.ent[g]
          /\ DOMAIN w.ent[dir] = DOMAIN a.ent[dir] \cup {i} /\ w.ent[dir][i] = e
          /\ \A k \in DOMAIN a.ent[dir] : k # i => w.ent[dir][k] = a.ent[dir][k]
      BY ONLY <2>2, <3>4, <3>5, <3>6, WriteEntry
    <3>8. f # dir /\ f # KernelDir
      BY <3>1, PagingAssumption DEF Directory
    <3>9. a.ent[dir] = m.ent[dir] /\ w.ent[f] = NoEntries
          /\ \A g \in Frames : g # dir /\ g # f => w.ent[g] = m.ent[g]
      BY <3>5, <3>6, <3>7, <3>8
    <3>10. /\ DOMAIN w.ent[dir] = DOMAIN m.ent[dir] \cup {i} /\ w.ent[dir][i] = e
           /\ \A k \in DOMAIN m.ent[dir] : w.ent[dir][k] = m.ent[dir][k]
           /\ w.pool = m.pool \cup {f} /\ TablesOnly(m, w) /\ w.ok = TRUE
      BY <1>2, <2>2, <2>4, <3>5, <3>7, <3>9 DEF TablesOnly
    <3>11. Directory(w, dir)
      <4>1. /\ IsMachine(w) /\ dir \in w.pool \cup {KernelDir} /\ w.pool \subseteq PoolFrames
            /\ w.ent = [g \in Frames |-> w.ent[g]]
        BY <3>1, <3>7, <3>10 DEF Directory
      <4>2. ASSUME NEW k \in DOMAIN w.ent[dir]
            PROVE  /\ w.ent[dir][k].big \in BOOLEAN
                   /\ w.ent[dir][k].big = FALSE => w.ent[dir][k].frame \in w.pool \ {dir}
        <5>1. CASE k = i
          BY <3>3, <3>8, <3>10, <5>1
        <5>2. CASE k \in DOMAIN m.ent[dir]
          BY <3>10, <5>2 DEF Directory
        <5> QED BY <3>10, <5>1, <5>2
      <4>3. ASSUME NEW k \in DOMAIN w.ent[dir], NEW l \in DOMAIN w.ent[dir],
                   w.ent[dir][k].big = FALSE, w.ent[dir][l].big = FALSE,
                   w.ent[dir][k].frame = w.ent[dir][l].frame
            PROVE  k = l
        <5>1. ASSUME NEW q \in DOMAIN m.ent[dir], w.ent[dir][q].big = FALSE
              PROVE  w.ent[dir][q].frame # f
          BY <3>1, <3>10, <5>1 DEF Directory
        <5>2. CASE k \in DOMAIN m.ent[dir] /\ l \in DOMAIN m.ent[dir]
          BY <3>10, <4>3, <5>2 DEF Directory
        <5> QED BY <3>3, <3>10, <4>3, <5>1, <5>2
      <4> QED BY <4>1, <4>2, <4>3 DEF Directory
    <3>12. Tabled(w, dir, i) /\ \A k : k # i => (Tabled(w, dir, k) <=> Tabled(m, dir, k))
      BY <3>3, <3>10 DEF Tabled
    <3>13. \A k : UserPart(m, dir, k) => UserPart(w, dir, k)
      BY <3>10, <3>12 DEF UserPart
    <3>14. ASSUME NEW k, NEW j PROVE Walk(w, dir, k, j) = Walk(m, dir, k, j)
      <4>1. CASE k = i
        <5>1. Walk(m, dir, k, j) = {}
          BY <1>2, <4>1 DEF Walk
        <5>2. w.ent[w.ent[dir][i].frame] = NoEntries /\ j \notin DOMAIN NoEntries
          BY <3>3, <3>9, <3>10 DEF NoEntries
        <5> QED BY <3>3, <3>10, <4>1, <5>1, <5>2 DEF Walk
      <4>2. CASE k \in DOMAIN m.ent[dir] /\ m.ent[dir][k].big = FALSE
        <5>1. m.ent[dir][k].frame \in Frames \ {dir, f}
          BY <3>1, <4>2 DEF Directory, Frames
        <5>2. w.ent[m.ent[dir][k].frame] = m.ent[m.ent[dir][k].frame]
          BY <3>9, <5>1
        <5> QED BY <3>10, <4>2, <5>2 DEF Walk
      <4>3. CASE k \in DOMAIN m.ent[dir] /\ m.ent[dir][k].big = TRUE
        BY <3>10, <4>3 DEF Walk
      <4>4. CASE k \notin DOMAIN m.ent[dir] /\ k # i
        BY <3>10, <4>4 DEF Walk
      <4> QED BY <4>1, <4>2, <4>3, <4>4 DEF Directory
    <3>15. \A k : Tabled(m, dir, k) => Tabled(w, dir, k)
      BY <3>12
    <3> QED BY <3>10, <3>11, <3>12, <3>13, <3>14, <3>15 DEF w
  <2> QED BY <2>2, <2>3, <2>4
<1> QED BY <1>1, <1>2

\* What a call may do to dir that finds a table for each entry it uses.
Keeps(m, m2, dir) ==
    /\ Directory(m2, dir) /\ TablesOnly(m, m2)
    /\ \A k : Tabled(m, dir, k) => Tabled(m2, dir, k)
    /\ \A k : UserPart(m, dir, k) => UserPart(m2, dir, k)

SameWalks(m, m2, dir) ==
    \A a \in Nat : Translate(m2, dir, a) = Translate(m, dir, a)

\* One call after another.
LEMMA KeepsTrans ==
    ASSUME NEW m, NEW m2, NEW m3, NEW dir, Keeps(m, m2, dir), Keeps(m2, m3, dir)
    PROVE  Keeps(m, m3, dir)
BY DEF Keeps, TablesOnly

\* arch_map_4kb maps its page and no other, or fails and maps nothing.
LEMMA MapAt ==
    ASSUME NEW m, NEW dir, Directory(m, dir), NEW va \in Nat, NEW pa,
           UserPart(m, dir, PD_INDEX(va))
    PROVE  LET r == arch_map_4kb(m, dir, va, pa, TRUE)
           IN  /\ Keeps(m, r, dir) /\ r.ok \in BOOLEAN
               /\ r.ok = FALSE => SameWalks(m, r, dir)
               /\ r.ok = TRUE => \A a \in Nat :
                    Translate(r, dir, a) = IF PageOf(a) = PageOf(va)
                                           THEN {Entry(PageOf(pa), TRUE, FALSE)}
                                           ELSE Translate(m, dir, a)
<1> DEFINE r == arch_map_4kb(m, dir, va, pa, TRUE)
<1>0. PICK i, j, e : /\ i = PD_INDEX(va) /\ j = PT_INDEX(va)
                     /\ e = Entry(PageOf(pa), TRUE, FALSE)
  OBVIOUS
<1> DEFINE w == WithTable(m, dir, i, TRUE)
<1>1. r = IF w.ok THEN SetEntry(w, w.ent[dir][i].frame, j, e) ELSE w
  BY <1>0 DEF arch_map_4kb, Then
<1>2. /\ Directory(w, dir) /\ TablesOnly(m, w) /\ w.ok \in BOOLEAN
      /\ w.ok = TRUE => Tabled(w, dir, i)
      /\ \A k : Tabled(m, dir, k) => Tabled(w, dir, k)
      /\ \A k : UserPart(m, dir, k) => UserPart(w, dir, k)
      /\ \A k, l : Walk(w, dir, k, l) = Walk(m, dir, k, l)
  <2>1. UserPart(m, dir, i)
    BY <1>0
  <2> QED BY ONLY Directory(m, dir), <2>1, NewTable, ZenonT(60)
<1> HIDE DEF r, w
<1>3. CASE w.ok = FALSE
  <2>1. r = w
    BY <1>1, <1>3
  <2>2. SameWalks(m, r, dir)
    BY <1>2, <2>1, TranslateIsWalk DEF SameWalks
  <2> QED BY <1>2, <1>3, <2>1, <2>2 DEF Keeps, r
<1>4. CASE w.ok = TRUE
  <2>1. PICK t : t = w.ent[dir][i].frame
    OBVIOUS
  <2>2. r = SetEntry(w, t, j, e)
    BY <1>1, <1>4, <2>1
  <2>3. /\ i \in DOMAIN w.ent[dir] /\ w.ent[dir][i].big = FALSE /\ w.ent[dir][i].user = TRUE
        /\ t \in Frames /\ IsMachine(w) /\ w.ent = [f \in Frames |-> w.ent[f]]
    BY <1>2, <1>4, <2>1 DEF Tabled, Directory, Frames
  <2>4. /\ IsMachine(r) /\ TablesOnly(w, r) /\ r.pool = w.pool /\ r.ok = w.ok
        /\ r.ent = [f \in Frames |-> r.ent[f]]
        /\ \A f \in Frames : f # t => r.ent[f] = w.ent[f]
        /\ DOMAIN r.ent[t] = DOMAIN w.ent[t] \cup {j} /\ r.ent[t][j] = e
        /\ \A k \in DOMAIN w.ent[t] : k # j => r.ent[t][k] = w.ent[t][k]
    BY ONLY <2>2, <2>3, WriteEntry
  <2>5. /\ Directory(r, dir) /\ r.ent[dir] = w.ent[dir]
        /\ \A k : k # i => \A l : Walk(r, dir, k, l) = Walk(w, dir, k, l)
    <3>1. Directory(w, dir)
      BY <1>2
    <3>2. Rewrites(w, r, t)
      BY <2>4 DEF Rewrites
    <3>3. WalksBut(w, r, dir, i) /\ Directory(r, dir) /\ r.ent[dir] = w.ent[dir]
      <4>1. PICK x, y : x = w /\ y = r
        OBVIOUS
      <4>2. Directory(x, dir) /\ TableAt(x, dir, i, t) /\ Rewrites(x, y, t)
        BY <2>1, <2>3, <3>1, <3>2, <4>1 DEF TableAt
      <4>3. WalksBut(x, y, dir, i) /\ Directory(y, dir) /\ y.ent[dir] = x.ent[dir]
        BY ONLY <4>2, WriteTable, SMT
      <4> QED BY <4>1, <4>3
    <3> QED BY <3>3 DEF WalksBut
  <2>6. Keeps(m, r, dir)
    BY <1>2, <2>4, <2>5 DEF Keeps, Tabled, UserPart, TablesOnly
  <2>7. Walk(r, dir, i, j) = {Entry(PageOf(pa), TRUE, FALSE)}
    <3>1. e.frame = PageOf(pa) /\ e.user = TRUE
      BY <1>0 DEF Entry
    <3>2. Walk(r, dir, i, j) = {Entry(e.frame, w.ent[dir][i].user /\ e.user, FALSE)}
      BY <2>1, <2>3, <2>4, <2>5 DEF Walk
    <3> QED BY <2>3, <3>1, <3>2
  <2>8. ASSUME NEW l, l # j PROVE Walk(r, dir, i, l) = Walk(w, dir, i, l)
    <3>1. CASE l \in DOMAIN w.ent[t]
      <4>1. r.ent[t][l] = w.ent[t][l] /\ l \in DOMAIN r.ent[t]
        BY <2>4, <2>8, <3>1
      <4> QED BY <2>1, <2>3, <2>5, <3>1, <4>1 DEF Walk
    <3>2. CASE l \notin DOMAIN w.ent[t]
      BY <2>1, <2>3, <2>4, <2>5, <2>8, <3>2 DEF Walk
    <3> QED BY <3>1, <3>2
  <2>9. ASSUME NEW a \in Nat
        PROVE  Translate(r, dir, a) = IF PageOf(a) = PageOf(va)
                                      THEN {Entry(PageOf(pa), TRUE, FALSE)}
                                      ELSE Translate(m, dir, a)
    <3>1. Translate(r, dir, a) = Walk(r, dir, PD_INDEX(a), PT_INDEX(a))
          /\ Translate(m, dir, a) = Walk(m, dir, PD_INDEX(a), PT_INDEX(a))
      BY TranslateIsWalk
    <3>2. CASE PageOf(a) = PageOf(va)
      <4>1. PD_INDEX(a) = i /\ PT_INDEX(a) = j
        BY <1>0, <3>2, PageIndex
      <4> QED BY <2>7, <3>1, <3>2, <4>1
    <3>3. CASE PageOf(a) # PageOf(va)
      <4>1. PD_INDEX(a) # i \/ PT_INDEX(a) # j
        BY <1>0, <3>3, IndexApart
      <4> QED BY <1>2, <2>5, <2>8, <3>1, <3>3, <4>1
    <3> QED BY <3>2, <3>3
  <2> QED BY <1>4, <2>4, <2>6, <2>9 DEF r
<1> QED BY <1>2, <1>3, <1>4

\* arch_unmap_4kb unmaps its page and no other.
LEMMA UnmapAt ==
    ASSUME NEW m, NEW dir, Directory(m, dir), NEW va \in Nat, ~(va < HeapBase),
           UserPart(m, dir, PD_INDEX(va))
    PROVE  LET r == arch_unmap_4kb(m, dir, va)
           IN  /\ Keeps(m, r, dir)
               /\ \A a \in Nat :
                    Translate(r, dir, a) = IF PageOf(a) = PageOf(va) THEN {}
                                           ELSE Translate(m, dir, a)
<1> DEFINE r == arch_unmap_4kb(m, dir, va)
<1>0. PICK i, j, t : i = PD_INDEX(va) /\ j = PT_INDEX(va) /\ t = m.ent[dir][i].frame
  OBVIOUS
<1>1. r = IF i \notin DOMAIN m.ent[dir] \/ j \notin DOMAIN m.ent[t] THEN m
          ELSE ClearEntry(m, t, j)
  BY <1>0 DEF arch_unmap_4kb, Present
<1> HIDE DEF r
<1>2. ASSUME NEW a \in Nat
      PROVE  /\ Translate(r, dir, a) = Walk(r, dir, PD_INDEX(a), PT_INDEX(a))
             /\ Translate(m, dir, a) = Walk(m, dir, PD_INDEX(a), PT_INDEX(a))
             /\ PageOf(a) = PageOf(va) <=> PD_INDEX(a) = i /\ PT_INDEX(a) = j
  BY <1>0, TranslateIsWalk, PageIndex, IndexApart
<1>3. i \in DOMAIN m.ent[dir] => m.ent[dir][i].big = FALSE
  BY <1>0 DEF UserPart, Tabled
<1>4. CASE r = m /\ Walk(m, dir, i, j) = {}
  <2>1. Keeps(m, r, dir)
    BY <1>4 DEF Keeps, TablesOnly
  <2> QED BY <1>2, <1>4, <2>1 DEF r
<1>5. CASE i \notin DOMAIN m.ent[dir] \/ j \notin DOMAIN m.ent[t]
  <2>1. r = m
    BY <1>1, <1>5
  <2>2. Walk(m, dir, i, j) = {}
    BY <1>0, <1>3, <1>5 DEF Walk
  <2> QED BY <1>4, <2>1, <2>2
<1>6. CASE i \in DOMAIN m.ent[dir] /\ j \in DOMAIN m.ent[t]
  <2>1. r = ClearEntry(m, t, j)
    BY <1>1, <1>6
  <2>2. t \in Frames /\ IsMachine(m) /\ m.ent = [f \in Frames |-> m.ent[f]]
    BY <1>0, <1>3, <1>6 DEF Directory, Frames
  <2>3. /\ IsMachine(r) /\ TablesOnly(m, r) /\ r.pool = m.pool
        /\ r.ent = [f \in Frames |-> r.ent[f]]
        /\ \A f \in Frames : f # t => r.ent[f] = m.ent[f]
        /\ DOMAIN r.ent[t] = DOMAIN m.ent[t] \ {j}
        /\ \A k \in DOMAIN m.ent[t] : k # j => r.ent[t][k] = m.ent[t][k]
    BY ONLY <2>1, <2>2, EraseEntry
  <2>4. /\ Directory(r, dir) /\ r.ent[dir] = m.ent[dir]
        /\ \A k : k # i => \A l : Walk(r, dir, k, l) = Walk(m, dir, k, l)
    <3>1. TableAt(m, dir, i, t)
      BY <1>0, <1>3, <1>6 DEF TableAt
    <3>2. Rewrites(m, r, t)
      BY <2>3 DEF Rewrites
    <3>3. WalksBut(m, r, dir, i) /\ Directory(r, dir) /\ r.ent[dir] = m.ent[dir]
      <4>1. PICK x : x = r
        OBVIOUS
      <4>2. Rewrites(m, x, t)
        BY <3>2, <4>1
      <4>3. WalksBut(m, x, dir, i) /\ Directory(x, dir) /\ x.ent[dir] = m.ent[dir]
        BY ONLY Directory(m, dir), <3>1, <4>2, WriteTable, SMT
      <4> QED BY <4>1, <4>3
    <3> QED BY <3>3 DEF WalksBut
  <2>5. Keeps(m, r, dir)
    BY <2>3, <2>4 DEF Keeps, Tabled, UserPart
  <2>6. Walk(r, dir, i, j) = {}
    BY <1>0, <1>3, <1>6, <2>3, <2>4 DEF Walk
  <2>7. ASSUME NEW l, l # j PROVE Walk(r, dir, i, l) = Walk(m, dir, i, l)
    <3>1. CASE l \in DOMAIN m.ent[t]
      <4>1. r.ent[t][l] = m.ent[t][l] /\ l \in DOMAIN r.ent[t]
        BY <2>3, <2>7, <3>1
      <4> QED BY <1>0, <1>3, <1>6, <2>4, <3>1, <4>1 DEF Walk
    <3>2. CASE l \notin DOMAIN m.ent[t]
      BY <1>0, <1>3, <1>6, <2>3, <2>4, <2>7, <3>2 DEF Walk
    <3> QED BY <3>1, <3>2
  <2>8. ASSUME NEW a \in Nat
        PROVE  Translate(r, dir, a) = IF PageOf(a) = PageOf(va) THEN {}
                                      ELSE Translate(m, dir, a)
    BY <1>2, <2>4, <2>6, <2>7
  <2> QED BY <2>5, <2>8 DEF r
<1> QED BY <1>5, <1>6
-----------------------------------------------------------------------------
(* The loops over pages. *)

\* One round of the loop of MapPages.
MapRound(x, i, dir, va, pa) ==
    LET y == arch_map_4kb(x, dir, va + (i - 1) * PageSize, pa + (i - 1) * PageSize, TRUE)
    IN  IF x.ok THEN IF y.ok THEN y ELSE Failed(UnmapPages(y, dir, va, i - 1)) ELSE x

\* The lowest of some regions.
Lowest(S) == CHOOSE r \in S : \A q \in S : r.start <= q.start

\* A stack of p.
AStack(x, p) == CHOOSE va \in x.proc[p].stacks : TRUE

\* The rounds of all loops under one name; what the arguments stand for depends on
\* the loop.
Round(body, x, i, a, b, c) ==
    IF body = "unmap" THEN arch_unmap_4kb(x, a, b + (i - 1) * PageSize)
    ELSE IF body = "map" THEN MapRound(x, i, a, b, c)
    ELSE IF body = "heap"
        THEN arch_map_4kb(x, a, b + (i - 1) * PageSize, c + (i - 1) * PageSize, TRUE)
    ELSE IF body = "mark" THEN pmm_mark_used(x, a[i])
    ELSE IF body = "destroy" THEN RemoveRegion(x, a, Lowest(Regions(x, a)))
    ELSE IF body = "exit" THEN FreeStack(x, a, AStack(x, a))
    ELSE IF body = "load" THEN IF x.ok THEN LoadSegment(x, a, b[i]) ELSE x
    ELSE [x EXCEPT !.proc[a].caps = cap_grant(x.proc[a].caps, b[i])]

\* The machines g that a loop of n rounds runs through.
Runs(g, body, base, n, dir, va, pa) ==
    g = [i \in 0 .. n |-> IF i = 0 THEN base ELSE Round(body, g[i - 1], i, dir, va, pa)]

\* A loop of any number of rounds has such a run.
LEMMA LoopRuns ==
    ASSUME NEW body, NEW base, NEW dir, NEW va, NEW pa, NEW n \in Nat
    PROVE  \E g : Runs(g, body, base, n, dir, va, pa)
<1> DEFINE S == {k \in Nat : \E g : Runs(g, body, base, k, dir, va, pa)}
<1>1. 0 \in S
  <2> DEFINE g == [i \in 0 .. 0 |-> base]
  <2>1. Runs(g, body, base, 0, dir, va, pa)
    BY DEF Runs
  <2> QED BY <2>1
<1>2. ASSUME NEW k \in S PROVE k + 1 \in S
  <2>1. PICK g : Runs(g, body, base, k, dir, va, pa)
    OBVIOUS
  <2> DEFINE g2 == [i \in 0 .. k + 1 |-> IF i <= k THEN g[i]
                                         ELSE Round(body, g[k], k + 1, dir, va, pa)]
  <2>2. ASSUME NEW i \in 0 .. k + 1
        PROVE  g2[i] = IF i = 0 THEN base ELSE Round(body, g2[i - 1], i, dir, va, pa)
    <3>1. CASE i = 0
      <4>1. g2[0] = g[0] /\ g[0] = base
        BY <2>1 DEF Runs
      <4> QED BY <3>1, <4>1
    <3>2. CASE i \in 1 .. k
      <4>1. i \in 0 .. k /\ i - 1 \in 0 .. k /\ i # 0
        BY <3>2
      <4>2. g2[i] = g[i] /\ g2[i - 1] = g[i - 1]
        BY <4>1
      <4>3. g[i] = Round(body, g[i - 1], i, dir, va, pa)
        BY <2>1, <4>1 DEF Runs
      <4> QED BY <4>1, <4>2, <4>3
    <3>3. CASE i = k + 1
      <4>1. /\ g2[i] = Round(body, g[k], k + 1, dir, va, pa) /\ g2[k] = g[k]
            /\ i - 1 = k /\ i # 0
        BY <3>3
      <4> HIDE DEF g2
      <4> QED BY <3>3, <4>1
    <3> QED BY <3>1, <3>2, <3>3
  <2>3. Runs(g2, body, base, k + 1, dir, va, pa)
    <3>1. g2 = [i \in 0 .. k + 1 |-> g2[i]]
      OBVIOUS
    <3> HIDE DEF g2
    <3> QED BY <2>2, <3>1 DEF Runs
  <2> QED BY <2>3
<1>3. n \in S
  <2> HIDE DEF S
  <2>1. S \in SUBSET Nat
    BY DEF S
  <2> QED BY <1>1, <1>2, <2>1, Induction
<1> QED BY <1>3

\* UnmapPages, round by round.
LEMMA UnmapLoop ==
    ASSUME NEW base, NEW dir, NEW va, NEW n \in Nat
    PROVE  \E g : /\ g[0] = base /\ UnmapPages(base, dir, va, n) = g[n]
                  /\ \A i \in 1 .. n :
                        g[i] = arch_unmap_4kb(g[i - 1], dir, va + (i - 1) * PageSize)
<1> DEFINE f == CHOOSE g : g = [i \in 0 .. n |-> IF i = 0 THEN base
                    ELSE arch_unmap_4kb(g[i - 1], dir, va + (i - 1) * PageSize)]
<1>1. UnmapPages(base, dir, va, n) = f[n]
  BY DEF Loop, UnmapPages
<1>2. ASSUME NEW g
      PROVE  Runs(g, "unmap", base, n, dir, va, 0) <=>
                g = [i \in 0 .. n |-> IF i = 0 THEN base
                        ELSE arch_unmap_4kb(g[i - 1], dir, va + (i - 1) * PageSize)]
  BY DEF Runs, Round
<1>3. Runs(f, "unmap", base, n, dir, va, 0)
  BY <1>2, LoopRuns
<1> HIDE DEF f
<1>4. f[0] = base /\ \A i \in 1 .. n :
        f[i] = arch_unmap_4kb(f[i - 1], dir, va + (i - 1) * PageSize)
  BY <1>3 DEF Runs, Round
<1> QED BY <1>1, <1>4

\* MapPages, round by round.
LEMMA MapLoop ==
    ASSUME NEW m, NEW dir, NEW va, NEW pa, NEW n \in Nat
    PROVE  \E g : /\ g[0] = Returns(m, va) /\ MapPages(m, dir, va, pa, n) = g[n]
                  /\ \A i \in 1 .. n : g[i] = MapRound(g[i - 1], i, dir, va, pa)
<1> DEFINE base == Returns(m, va)
           f == CHOOSE g : g = [i \in 0 .. n |-> IF i = 0 THEN base
                    ELSE MapRound(g[i - 1], i, dir, va, pa)]
<1>1. MapPages(m, dir, va, pa, n) = f[n]
  BY DEF Loop, MapPages, MapRound, Then, OrUndo
<1>2. ASSUME NEW g
      PROVE  Runs(g, "map", base, n, dir, va, pa) <=>
                g = [i \in 0 .. n |-> IF i = 0 THEN base
                        ELSE MapRound(g[i - 1], i, dir, va, pa)]
  BY DEF Runs, Round
<1>3. Runs(f, "map", base, n, dir, va, pa)
  BY <1>2, LoopRuns
<1> HIDE DEF f
<1>4. f[0] = base /\ \A i \in 1 .. n : f[i] = MapRound(f[i - 1], i, dir, va, pa)
  BY <1>3 DEF Runs, Round
<1> QED BY <1>1, <1>4

\* m2 is m with nothing mapped at the n pages from p on.
Unmapped(m, m2, dir, p, n) ==
    \A a \in Nat : Translate(m2, dir, a) = IF PageOf(a) \in p .. p + n - 1 THEN {}
                                           ELSE Translate(m, dir, a)

\* m2 is m with the n pages from p on mapped for the user to the frames from q on.
Mapped(m, m2, dir, p, q, n) ==
    \A a \in Nat : Translate(m2, dir, a) = IF PageOf(a) \in p .. p + n - 1
                                           THEN {Entry(q + (PageOf(a) - p), TRUE, FALSE)}
                                           ELSE Translate(m, dir, a)

\* The n pages from p on lie in the part of the directory that has user tables or
\* none yet.
UserPages(m, dir, p, n) ==
    \A a \in Nat : PageOf(a) \in p .. p + n - 1 => UserPart(m, dir, PD_INDEX(a))

\* The page of a round of the loops.
LEMMA RoundPage ==
    ASSUME NEW va \in Nat, NEW n \in Nat, NEW i \in 1 .. n
    PROVE  /\ va + (i - 1) * PageSize \in Nat /\ va <= va + (i - 1) * PageSize
           /\ PageOf(va) \in Nat
           /\ PageOf(va + (i - 1) * PageSize) = PageOf(va) + (i - 1)
           /\ PageOf(va + (i - 1) * PageSize) \in PageOf(va) .. PageOf(va) + n - 1
<1>1. PICK k \in Nat : k = i - 1 /\ k < n
  OBVIOUS
<1>2. va + k * PageSize \in Nat /\ PageOf(va + k * PageSize) = PageOf(va) + k
  BY PageBehind
<1>3. k * PageSize \in Nat
  BY PagingAssumption
<1>4. PageOf(va) \in Nat
  BY IndexOfPage
<1> QED BY <1>1, <1>2, <1>3, <1>4

\* UnmapPages unmaps its pages and no others.
LEMMA UnmapRange ==
    ASSUME NEW m, NEW dir, Directory(m, dir), NEW va \in Nat, ~(va < HeapBase),
           NEW n \in Nat, UserPages(m, dir, PageOf(va), n)
    PROVE  /\ Keeps(m, UnmapPages(m, dir, va, n), dir)
           /\ Unmapped(m, UnmapPages(m, dir, va, n), dir, PageOf(va), n)
<1>1. PICK g : /\ g[0] = m /\ UnmapPages(m, dir, va, n) = g[n]
               /\ \A i \in 1 .. n :
                     g[i] = arch_unmap_4kb(g[i - 1], dir, va + (i - 1) * PageSize)
  BY UnmapLoop
<1>2. PICK p \in Nat : p = PageOf(va)
  BY IndexOfPage
<1> DEFINE N == {i \in 0 .. n : Keeps(m, g[i], dir) /\ Unmapped(m, g[i], dir, p, i)}
<1>3. 0 \in N
  <2>1. Keeps(m, m, dir)
    BY DEF Keeps, TablesOnly
  <2>2. p .. p + 0 - 1 = {}
    OBVIOUS
  <2>3. Unmapped(m, m, dir, p, 0)
    BY <2>2 DEF Unmapped
  <2> QED BY <1>1, <2>1, <2>3
<1>4. ASSUME NEW i \in 1 .. n, i - 1 \in N PROVE i \in N
  <2>1. PICK x, y, b : x = g[i - 1] /\ y = g[i] /\ b = va + (i - 1) * PageSize
    OBVIOUS
  <2>2. Keeps(m, x, dir) /\ Unmapped(m, x, dir, p, i - 1)
    BY <1>4, <2>1
  <2>3. /\ b \in Nat /\ va <= b /\ PageOf(b) = p + (i - 1) /\ PageOf(b) \in p .. p + n - 1
    BY <1>2, <2>1, RoundPage
  <2>4. b \in Nat /\ ~(b < HeapBase)
    BY <2>3, PagingAssumption
  <2>5. Directory(x, dir) /\ UserPart(x, dir, PD_INDEX(b))
    BY <1>2, <2>2, <2>3 DEF Keeps, UserPages
  <2>6. y = arch_unmap_4kb(x, dir, b)
    BY <1>1, <2>1
  <2>7. /\ Keeps(x, y, dir)
        /\ \A a \in Nat : Translate(y, dir, a) = IF PageOf(a) = PageOf(b) THEN {}
                                                  ELSE Translate(x, dir, a)
    BY ONLY <2>4, <2>5, <2>6, UnmapAt
  <2>8. Keeps(m, y, dir)
    BY ONLY <2>2, <2>7, KeepsTrans
  <2>9. ASSUME NEW a \in Nat
        PROVE  Translate(y, dir, a) = IF PageOf(a) \in p .. p + i - 1 THEN {}
                                      ELSE Translate(m, dir, a)
    <3>1. PICK c \in Nat : c = PageOf(a)
      BY IndexOfPage
    <3>2. c \in p .. p + i - 1 <=> c \in p .. p + (i - 1) - 1 \/ c = p + (i - 1)
      OBVIOUS
    <3>3. Translate(x, dir, a) = IF c \in p .. p + (i - 1) - 1 THEN {}
                                 ELSE Translate(m, dir, a)
      BY <2>2, <3>1 DEF Unmapped
    <3> QED BY <2>3, <2>7, <3>1, <3>2, <3>3
  <2> QED BY <2>1, <2>8, <2>9 DEF Unmapped
<1>5. n \in N
  <2> HIDE DEF N
  <2> QED BY <1>3, <1>4, LoopInvariant
<1> QED BY <1>1, <1>2, <1>5

\* A call that only reports its failure or its result changes no table.
LEMMA Reports ==
    ASSUME NEW m, NEW dir, Directory(m, dir), NEW v
    PROVE  /\ Keeps(m, Failed(m), dir) /\ Failed(m).ok = FALSE /\ SameWalks(m, Failed(m), dir)
           /\ Keeps(m, Returns(m, v), dir) /\ Returns(m, v).ok = TRUE
           /\ SameWalks(m, Returns(m, v), dir)
<1>1. ASSUME NEW m2, NEW k, NEW l, m2 = [m EXCEPT !.ok = k, !.out = l]
      PROVE  Keeps(m, m2, dir) /\ m2.ok = k /\ SameWalks(m, m2, dir)
  <2>1. /\ IsMachine(m2) /\ m2.ent = m.ent /\ m2.pool = m.pool /\ m2.ok = k
        /\ TablesOnly(m, m2)
    BY <1>1 DEF Directory, IsMachine, TablesOnly
  <2>2. Keeps(m, m2, dir)
    BY <2>1 DEF Keeps, Directory, Tabled, UserPart
  <2>3. SameWalks(m, m2, dir)
    BY <2>1 DEF SameWalks, Translate, Present
  <2> QED BY <2>1, <2>2, <2>3
<1> QED BY <1>1 DEF Failed, Returns

\* The loop that regions are mapped with (vmm_alloc_pages, vmm_map_memory): all
\* n pages are mapped to the frames from pa on, open to the user, and no other page
\* changes; or, when the pool is out of tables half way, the pages before are
\* unmapped again and every address leads where it led before the call.
THEOREM MapPagesAllOrNothing ==
    ASSUME NEW m, NEW dir, Directory(m, dir), NEW va \in Nat, ~(va < HeapBase), NEW pa \in Nat,
           NEW n \in Nat, UserPages(m, dir, PageOf(va), n),
           \A a \in Nat : PageOf(a) \in PageOf(va) .. PageOf(va) + n - 1
                              => Translate(m, dir, a) = {}
    PROVE  LET r == MapPages(m, dir, va, pa, n)
           IN  /\ Keeps(m, r, dir) /\ r.ok \in BOOLEAN
               /\ r.ok = TRUE => Mapped(m, r, dir, PageOf(va), PageOf(pa), n)
               /\ r.ok = FALSE => SameWalks(m, r, dir)
<1>1. PICK g : /\ g[0] = Returns(m, va) /\ MapPages(m, dir, va, pa, n) = g[n]
               /\ \A i \in 1 .. n : g[i] = MapRound(g[i - 1], i, dir, va, pa)
  BY ONLY n \in Nat, MapLoop, SMTT(30)
<1>2. PICK p \in Nat, q \in Nat : p = PageOf(va) /\ q = PageOf(pa)
  BY IndexOfPage
<1> DEFINE Good(x, i) == /\ Keeps(m, x, dir) /\ x.ok \in BOOLEAN
                         /\ x.ok = TRUE => Mapped(m, x, dir, p, q, i)
                         /\ x.ok = FALSE => SameWalks(m, x, dir)
           N == {i \in 0 .. n : Good(g[i], i)}
<1>3. 0 \in N
  <2>1. PICK x : x = Returns(m, va)
    OBVIOUS
  <2>2. Keeps(m, x, dir) /\ x.ok = TRUE /\ SameWalks(m, x, dir)
    BY <2>1, Reports
  <2>3. p .. p + 0 - 1 = {}
    OBVIOUS
  <2>4. Mapped(m, x, dir, p, q, 0)
    BY <2>2, <2>3 DEF Mapped, SameWalks
  <2>5. Good(x, 0)
    BY <2>2, <2>4
  <2> HIDE DEF Good
  <2>6. Good(g[0], 0)
    BY <1>1, <2>1, <2>5
  <2> QED BY <2>6
<1>4. ASSUME NEW i \in 1 .. n, i - 1 \in N PROVE i \in N
  <2>1. PICK x, b, c : /\ x = g[i - 1]
                       /\ b = va + (i - 1) * PageSize /\ c = pa + (i - 1) * PageSize
    OBVIOUS
  <2>2. Good(x, i - 1)
    BY <1>4, <2>1
  <2>3. g[i] = MapRound(x, i, dir, va, pa)
    BY <1>1, <2>1
  <2> SUFFICES Good(MapRound(x, i, dir, va, pa), i)
    BY <2>3
  <2>4. CASE x.ok = FALSE
    <3>1. MapRound(x, i, dir, va, pa) = x
      BY <2>4 DEF MapRound
    <3> QED BY <2>2, <2>4, <3>1
  <2>5. CASE x.ok = TRUE
    <3>1. PICK y : y = arch_map_4kb(x, dir, b, c, TRUE)
      OBVIOUS
    <3>2. /\ b \in Nat /\ PageOf(b) = p + (i - 1) /\ PageOf(b) \in p .. p + n - 1
          /\ PageOf(c) = q + (i - 1)
      BY <1>2, <2>1, RoundPage
    <3>3. Directory(x, dir) /\ UserPart(x, dir, PD_INDEX(b)) /\ b \in Nat
      BY <1>2, <2>2, <3>2 DEF Keeps, UserPages
    <3>4. /\ Keeps(x, y, dir) /\ y.ok \in BOOLEAN
          /\ y.ok = FALSE => SameWalks(x, y, dir)
          /\ y.ok = TRUE => \A a \in Nat :
                Translate(y, dir, a) = IF PageOf(a) = PageOf(b)
                                       THEN {Entry(PageOf(c), TRUE, FALSE)}
                                       ELSE Translate(x, dir, a)
      BY ONLY <3>1, <3>3, MapAt
    <3>5. Mapped(m, x, dir, p, q, i - 1) /\ Keeps(m, x, dir)
      BY <2>2, <2>5
    <3>6. Keeps(m, y, dir)
      BY ONLY <3>4, <3>5, KeepsTrans
    <3>7. CASE y.ok = TRUE
      <4>1. MapRound(x, i, dir, va, pa) = y
        BY <2>1, <2>5, <3>1, <3>7 DEF MapRound
      <4>2. ASSUME NEW a \in Nat
            PROVE  Translate(y, dir, a) = IF PageOf(a) \in p .. p + i - 1
                                          THEN {Entry(q + (PageOf(a) - p), TRUE, FALSE)}
                                          ELSE Translate(m, dir, a)
        <5>1. PICK d \in Nat : d = PageOf(a)
          BY IndexOfPage
        <5>2. /\ d \in p .. p + i - 1 <=> d \in p .. p + (i - 1) - 1 \/ d = p + (i - 1)
              /\ d = p + (i - 1) => d \notin p .. p + (i - 1) - 1 /\ q + (d - p) = q + (i - 1)
          OBVIOUS
        <5>3. Translate(x, dir, a) = IF d \in p .. p + (i - 1) - 1
                                     THEN {Entry(q + (d - p), TRUE, FALSE)}
                                     ELSE Translate(m, dir, a)
          BY <3>5, <5>1 DEF Mapped
        <5>4. Translate(y, dir, a) = IF d = p + (i - 1)
                                     THEN {Entry(q + (i - 1), TRUE, FALSE)}
                                     ELSE Translate(x, dir, a)
          BY <3>2, <3>4, <3>7, <5>1
        <5> QED BY <5>1, <5>2, <5>3, <5>4
      <4> QED BY <3>6, <3>7, <4>1, <4>2 DEF Mapped
    <3>8. CASE y.ok = FALSE
      <4>1. PICK z : z = UnmapPages(y, dir, va, i - 1)
        OBVIOUS
      <4>2. MapRound(x, i, dir, va, pa) = Failed(z)
        BY <2>1, <2>5, <3>1, <3>8, <4>1 DEF MapRound
      <4>3. Directory(y, dir) /\ i - 1 \in Nat
        BY <3>4 DEF Keeps
      <4>4. UserPages(y, dir, PageOf(va), i - 1)
        <5>1. p .. p + (i - 1) - 1 \subseteq p .. p + n - 1
          OBVIOUS
        <5> QED BY <1>2, <3>6, <5>1 DEF UserPages, Keeps
      <4>5. Keeps(y, z, dir) /\ Unmapped(y, z, dir, PageOf(va), i - 1)
        BY <4>1, <4>3, <4>4, UnmapRange
      <4>6. Keeps(m, z, dir)
        BY ONLY <3>6, <4>5, KeepsTrans
      <4>7. ASSUME NEW a \in Nat PROVE Translate(z, dir, a) = Translate(m, dir, a)
        <5>1. PICK d \in Nat : d = PageOf(a)
          BY IndexOfPage
        <5>2. Translate(y, dir, a) = Translate(x, dir, a)
          BY <3>4, <3>8 DEF SameWalks
        <5>3. CASE d \in p .. p + (i - 1) - 1
          <6>1. d \in p .. p + n - 1
            BY <5>3
          <6>2. Translate(m, dir, a) = {}
            BY <1>2, <5>1, <6>1
          <6>3. Translate(z, dir, a) = {}
            BY <1>2, <4>5, <5>1, <5>3 DEF Unmapped
          <6> QED BY <6>2, <6>3
        <5>4. CASE d \notin p .. p + (i - 1) - 1
          <6>1. Translate(z, dir, a) = Translate(y, dir, a)
            BY <1>2, <4>5, <5>1, <5>4 DEF Unmapped
          <6>2. Translate(x, dir, a) = Translate(m, dir, a)
            BY <3>5, <5>1, <5>4 DEF Mapped
          <6> QED BY <5>2, <6>1, <6>2
        <5> QED BY <5>3, <5>4
      <4>8. /\ Keeps(z, Failed(z), dir) /\ Failed(z).ok = FALSE
            /\ SameWalks(z, Failed(z), dir)
        BY <4>6, Reports DEF Keeps
      <4>9. Keeps(m, Failed(z), dir) /\ SameWalks(m, Failed(z), dir)
        <5>1. SameWalks(m, Failed(z), dir)
          BY <4>7, <4>8 DEF SameWalks
        <5> QED BY <4>6, <4>8, <5>1, KeepsTrans
      <4> QED BY <4>2, <4>8, <4>9
    <3> QED BY <3>4, <3>7, <3>8
  <2> QED BY <2>2, <2>4, <2>5
<1>5. n \in N
  <2> HIDE DEF N
  <2> QED BY <1>3, <1>4, LoopInvariant
<1>6. Good(g[n], n)
  BY <1>5
<1> QED BY <1>1, <1>2, <1>6
-----------------------------------------------------------------------------
(* Regions: vmm_alloc_pages from the pages to the mappings. *)

\* m2 has the tables of m.
SameTables(m, m2) == IsMachine(m2) /\ m2.ent = m.ent /\ m2.pool = m.pool

\* Equal tables are equal walks.
LEMMA SameTablesKeep ==
    ASSUME NEW m, NEW m2, NEW dir, Directory(m, dir), SameTables(m, m2)
    PROVE  /\ Directory(m2, dir) /\ SameWalks(m, m2, dir)
           /\ \A k : UserPart(m, dir, k) <=> UserPart(m2, dir, k)
<1>1. Directory(m2, dir)
  BY DEF Directory, SameTables
<1>2. SameWalks(m, m2, dir)
  BY DEF SameWalks, Translate, Present, SameTables
<1> QED BY <1>1, <1>2 DEF UserPart, Tabled, SameTables

\* A process of m.
IsProcess(m, p) ==
    /\ m.proc = [q \in Proc |-> m.proc[q]] /\ p \in Proc
    /\ m.proc[p] = [st |-> m.proc[p].st, priv |-> m.proc[p].priv, cr3 |-> m.proc[p].cr3,
                    regs |-> m.proc[p].regs, caps |-> m.proc[p].caps,
                    stacks |-> m.proc[p].stacks]

\* The processes of m after a region came to p.
WithRegion(m, p, r) == [m.proc EXCEPT ![p].regs = m.proc[p].regs \cup {r}]

\* The n pages from va on are free for a new region under dir: nothing is mapped
\* there, and the directory has a table for the user there or none yet.
Vacant(m, dir, va, n) ==
    /\ va \in Nat /\ ~(va < HeapBase) /\ UserPages(m, dir, PageOf(va), n)
    /\ \A a \in Nat : PageOf(a) \in PageOf(va) .. PageOf(va) + n - 1
                          => Translate(m, dir, a) = {}

\* Pages stay free while no table changes.
LEMMA VacantKept ==
    ASSUME NEW m, NEW m2, NEW dir, Directory(m, dir), SameTables(m, m2), NEW va, NEW n,
           Vacant(m, dir, va, n)
    PROVE  Vacant(m2, dir, va, n)
BY SameTablesKeep DEF Vacant, UserPages, SameWalks

\* Adding a region touches nothing else.
LEMMA AddBack ==
    ASSUME NEW m, NEW p, NEW r, IsMachine(m)
    PROVE  /\ SameTables(m, AddRegion(m, p, r))
           /\ AddRegion(m, p, r).proc = WithRegion(m, p, r)
           /\ AddRegion(m, p, r).used = m.used /\ AddRegion(m, p, r).free = m.free
BY DEF AddRegion, SameTables, IsMachine, WithRegion

\* Taking a region away touches nothing else.
LEMMA DropBack ==
    ASSUME NEW m, NEW p, NEW r, IsMachine(m)
    PROVE  /\ SameTables(m, DropRegion(m, p, r)) /\ DropRegion(m, p, r).used = m.used
           /\ DropRegion(m, p, r).free = m.free
           /\ DropRegion(m, p, r).proc = [m.proc EXCEPT ![p].regs = m.proc[p].regs \ {r}]
BY DEF DropRegion, SameTables, IsMachine

\* A region that was new is gone without a trace when it is taken away.
LEMMA RegionRestored ==
    ASSUME NEW m, NEW m2, NEW p, NEW r, IsProcess(m, p), r \notin m.proc[p].regs,
           m2.proc = WithRegion(m, p, r)
    PROVE  /\ IsProcess(m2, p)
           /\ [m2.proc EXCEPT ![p].regs = m2.proc[p].regs \ {r}] = m.proc
<1>1. /\ m.proc = [q \in Proc |-> m.proc[q]] /\ p \in Proc
  BY DEF IsProcess
<1>2. PICK c : c = m.proc[p]
  OBVIOUS
<1>3. c = [st |-> c.st, priv |-> c.priv, cr3 |-> c.cr3, regs |-> c.regs, caps |-> c.caps,
           stacks |-> c.stacks]
  BY <1>2 DEF IsProcess
<1>4. m2.proc = [m.proc EXCEPT ![p] = [c EXCEPT !.regs = c.regs \cup {r}]]
  BY <1>2 DEF WithRegion
<1>5. PICK d : d = [c EXCEPT !.regs = c.regs \cup {r}]
  OBVIOUS
<1>6. d = [st |-> d.st, priv |-> d.priv, cr3 |-> d.cr3, regs |-> d.regs, caps |-> d.caps,
           stacks |-> d.stacks] /\ d.regs = c.regs \cup {r}
  BY <1>3, <1>5
<1>7. /\ m2.proc = [q \in Proc |-> m2.proc[q]] /\ m2.proc[p] = d
  BY <1>1, <1>4, <1>5
<1>8. IsProcess(m2, p)
  BY <1>1, <1>6, <1>7 DEF IsProcess
<1>9. c.regs = (c.regs \cup {r}) \ {r}
  BY <1>2
<1>10. [d EXCEPT !.regs = d.regs \ {r}] = c
  BY <1>3, <1>5, <1>6, <1>9
<1>11. [m2.proc EXCEPT ![p].regs = m2.proc[p].regs \ {r}]
        = [m2.proc EXCEPT ![p] = [d EXCEPT !.regs = d.regs \ {r}]]
  BY <1>7
<1>12. [m2.proc EXCEPT ![p] = c] = m.proc
  BY <1>1, <1>2, <1>4
<1> QED BY <1>8, <1>10, <1>11, <1>12

\* kmalloc changes the heap alone.
LEMMA KmallocKeeps ==
    ASSUME NEW m, IsMachine(m), m.heap \in Nat
    PROVE  /\ SameTables(m, kmalloc(m)) /\ kmalloc(m).ok \in BOOLEAN
           /\ kmalloc(m).used = m.used /\ kmalloc(m).free = m.free /\ kmalloc(m).proc = m.proc
<1>1. \E k \in BOOLEAN : \E l : kmalloc(m) = [m EXCEPT !.ok = k, !.heap = l]
  <2>1. CASE m.heap > 0
    <3>1. kmalloc(m) = [m EXCEPT !.ok = TRUE, !.heap = m.heap - 1]
      BY <2>1 DEF kmalloc
    <3> QED BY <3>1
  <2>2. CASE ~(m.heap > 0)
    <3>1. (m.heap > 0) = FALSE
      <4>1. m.heap = 0
        BY <2>2
      <4>2. (0 > 0) = FALSE
        OBVIOUS
      <4> QED BY <4>1, <4>2
    <3>2. kmalloc(m) = [m EXCEPT !.ok = FALSE, !.heap = m.heap]
      BY <2>2, <3>1, Zenon DEF kmalloc
    <3> QED BY <3>2
  <2> QED BY <2>1, <2>2
<1>2. PICK k \in BOOLEAN : \E l : kmalloc(m) = [m EXCEPT !.ok = k, !.heap = l]
  BY <1>1
<1>3. PICK l : kmalloc(m) = [m EXCEPT !.ok = k, !.heap = l]
  BY <1>2
<1>4. /\ SameTables(m, kmalloc(m)) /\ kmalloc(m).ok = k
      /\ kmalloc(m).used = m.used /\ kmalloc(m).free = m.free /\ kmalloc(m).proc = m.proc
  BY <1>3 DEF SameTables, IsMachine
<1> QED BY <1>4

\* What a call leaves when it gives up: no page taken, no region, every address as before.
GivenUp(m, x, dir) ==
    x.used = m.used /\ x.free = m.free /\ x.proc = m.proc /\ SameWalks(m, x, dir)

\* The walks of a machine that has the tables of another.
LEMMA MappedTrans ==
    ASSUME NEW m, NEW h, NEW k, NEW x, NEW dir, NEW q, NEW b, NEW n,
           SameWalks(m, h, dir), SameWalks(k, x, dir)
    PROVE  /\ Mapped(h, k, dir, q, b, n) => Mapped(m, x, dir, q, b, n)
           /\ SameWalks(h, k, dir) => SameWalks(m, x, dir)
BY DEF SameWalks, Mapped

\* NewRegion adds the region with all of its mappings, or leaves neither.
LEMMA NewRegionAllOrNothing ==
    ASSUME NEW m, NEW p, NEW r, NEW dir, Directory(m, dir), dir = m.proc[p].cr3,
           IsProcess(m, p), m.heap \in Nat, r \notin m.proc[p].regs,
           r.pa \in Nat, Pages(r.size) \in Nat,
           r.start # Word => Vacant(m, dir, r.start, Pages(r.size))
    PROVE  LET x == NewRegion(m, p, r)
           IN  /\ Directory(x, dir) /\ x.ok \in BOOLEAN
               /\ x.ok = FALSE => GivenUp(m, x, dir)
               /\ x.ok = TRUE =>
                    /\ x.used = m.used /\ x.free = m.free /\ x.out = r.start
                    /\ x.proc = WithRegion(m, p, r)
                    /\ r.start # Word
                    /\ Mapped(m, x, dir, PageOf(r.start), PageOf(r.pa), Pages(r.size))
<1> DEFINE Good(x) == /\ Directory(x, dir) /\ x.ok \in BOOLEAN
                      /\ x.ok = FALSE => GivenUp(m, x, dir)
                      /\ x.ok = TRUE =>
                            /\ x.used = m.used /\ x.free = m.free /\ x.out = r.start
                            /\ x.proc = WithRegion(m, p, r)
                            /\ r.start # Word
                            /\ Mapped(m, x, dir, PageOf(r.start), PageOf(r.pa), Pages(r.size))
<1> SUFFICES Good(NewRegion(m, p, r))
  OBVIOUS
<1>0. IsMachine(m)
  BY DEF Directory
<1>1. PICK h : h = kmalloc(m)
  OBVIOUS
<1>2. /\ SameTables(m, h) /\ h.ok \in BOOLEAN /\ h.used = m.used /\ h.free = m.free
      /\ h.proc = m.proc
  BY <1>0, <1>1, KmallocKeeps
<1>3. Directory(h, dir) /\ SameWalks(m, h, dir)
  BY <1>2, SameTablesKeep
<1>4. CASE h.ok = FALSE
  <2>1. NewRegion(m, p, r) = h
    BY <1>1, <1>4 DEF NewRegion, Then
  <2> QED BY <1>2, <1>3, <1>4, <2>1 DEF GivenUp
<1>5. CASE h.ok = TRUE /\ r.start = Word
  <2>1. PICK x : x = Failed(h)
    OBVIOUS
  <2>2. NewRegion(m, p, r) = x
    BY <1>1, <1>5, <2>1 DEF NewRegion, Then
  <2>3. Keeps(h, x, dir) /\ x.ok = FALSE /\ SameWalks(h, x, dir)
    BY <1>3, <2>1, Reports
  <2>4. x.used = m.used /\ x.free = m.free /\ x.proc = m.proc
    BY <1>2, <2>3 DEF Keeps, TablesOnly
  <2>5. SameWalks(m, x, dir)
    BY <1>3, <2>3 DEF SameWalks
  <2> QED BY <2>2, <2>3, <2>4, <2>5 DEF GivenUp, Keeps
<1>6. CASE h.ok = TRUE /\ r.start # Word
  <2>1. PICK s, k : s = AddRegion(h, p, r)
                    /\ k = MapPages(s, dir, r.start, r.pa, Pages(r.size))
    OBVIOUS
  <2>2. IsMachine(h) /\ IsProcess(h, p) /\ WithRegion(h, p, r) = WithRegion(m, p, r)
    BY <1>2, <1>3, ZenonT(60) DEF Directory, IsProcess, WithRegion
  <2>3. /\ SameTables(h, s) /\ s.proc = WithRegion(m, p, r)
        /\ s.used = m.used /\ s.free = m.free
    <3>1. /\ SameTables(h, AddRegion(h, p, r)) /\ AddRegion(h, p, r).proc = WithRegion(h, p, r)
          /\ AddRegion(h, p, r).used = h.used /\ AddRegion(h, p, r).free = h.free
      BY ONLY <2>2, AddBack
    <3> QED BY <1>2, <2>1, <2>2, <3>1
  <2>4. SameTables(m, s)
    BY <1>2, <2>3 DEF SameTables
  <2>5. Directory(s, dir) /\ SameWalks(m, s, dir) /\ Vacant(s, dir, r.start, Pages(r.size))
    BY <1>6, <2>4, SameTablesKeep, VacantKept
  <2>6. /\ Keeps(s, k, dir) /\ k.ok \in BOOLEAN
        /\ k.ok = TRUE => Mapped(s, k, dir, PageOf(r.start), PageOf(r.pa), Pages(r.size))
        /\ k.ok = FALSE => SameWalks(s, k, dir)
    BY <2>1, <2>5, MapPagesAllOrNothing DEF Vacant
  <2>7. Directory(k, dir) /\ k.used = m.used /\ k.free = m.free /\ k.proc = WithRegion(m, p, r)
    BY <2>3, <2>6 DEF Keeps, TablesOnly
  <2>8. CASE k.ok = TRUE
    <3>1. PICK x : x = Returns(k, r.start)
      OBVIOUS
    <3>2. NewRegion(m, p, r) = x
      BY <1>1, <1>6, <2>1, <2>8, <3>1 DEF NewRegion, Then, OrUndo
    <3>3. Keeps(k, x, dir) /\ x.ok = TRUE /\ SameWalks(k, x, dir) /\ x.out = r.start
      <4>1. x.out = r.start
        BY <2>7, <3>1 DEF Returns, Directory, IsMachine
      <4> QED BY <2>7, <3>1, <4>1, Reports
    <3>4. Mapped(m, x, dir, PageOf(r.start), PageOf(r.pa), Pages(r.size))
      BY <2>5, <2>6, <2>8, <3>3, MappedTrans
    <3> QED BY <1>6, <2>7, <3>2, <3>3, <3>4 DEF Keeps, TablesOnly
  <2>9. CASE k.ok = FALSE
    <3>1. PICK d, x : d = DropRegion(k, p, r) /\ x = Failed(d)
      OBVIOUS
    <3>2. x.ok = FALSE => NewRegion(m, p, r) = x
      BY <1>1, <1>6, <2>1, <2>9, <3>1 DEF NewRegion, Then, OrUndo
    <3>3. IsMachine(k) /\ IsProcess(k, p)
          /\ [k.proc EXCEPT ![p].regs = k.proc[p].regs \ {r}] = m.proc
      <4>1. k.proc = WithRegion(m, p, r) /\ IsMachine(k)
        BY <2>7 DEF Directory
      <4> QED BY ONLY <4>1, IsProcess(m, p), r \notin m.proc[p].regs, RegionRestored
    <3>4. SameTables(k, d) /\ d.used = m.used /\ d.free = m.free /\ d.proc = m.proc
      BY <2>7, <3>1, <3>3, DropBack
    <3>5. Directory(d, dir) /\ SameWalks(k, d, dir)
      BY <2>7, <3>4, SameTablesKeep
    <3>6. Keeps(d, x, dir) /\ x.ok = FALSE /\ SameWalks(d, x, dir)
      BY <3>1, <3>5, Reports
    <3>7. SameWalks(m, x, dir)
      BY <2>5, <2>6, <2>9, <3>5, <3>6 DEF SameWalks
    <3>8. x.used = m.used /\ x.free = m.free /\ x.proc = m.proc /\ Directory(x, dir)
      BY <3>4, <3>6 DEF Keeps, TablesOnly
    <3> QED BY <3>2, <3>6, <3>7, <3>8 DEF GivenUp
  <2> QED BY <2>6, <2>8, <2>9
<1> QED BY <1>2, <1>4, <1>5, <1>6

\* a is m with a run of n free pages taken, or with nothing taken.
Takes(m, a, n) ==
    /\ SameTables(m, a) /\ a.proc = m.proc /\ a.heap = m.heap
    /\ \/ a.ok = FALSE /\ a.used = m.used /\ a.free = m.free
       \/ /\ a.ok = TRUE
          /\ \E b \in Nat :
                 /\ b .. b + n - 1 \subseteq Blocks \ m.used /\ a.out = b * PageSize
                 /\ a.used = m.used \cup b .. b + n - 1 /\ a.free = m.free - n

\* pmm_alloc_pages takes a run of n free pages, or nothing.
LEMMA PagesTaken ==
    ASSUME NEW m, IsMachine(m), NEW n \in Nat
    PROVE  Takes(m, pmm_alloc_pages(m, n), n)
<1> DEFINE a == pmm_alloc_pages(m, n)
           starts == {b \in Blocks : \A i \in b .. b + n - 1 : i \in Blocks \ m.used}
<1>1. CASE n = 0 \/ starts = {}
  <2>1. a = [m EXCEPT !.ok = FALSE, !.out = 0]
    BY <1>1 DEF pmm_alloc_pages, Failed
  <2> QED BY <2>1 DEF Takes, SameTables, IsMachine
<1>2. CASE ~(n = 0 \/ starts = {})
  <2>1. PICK b : b = Min(starts)
    OBVIOUS
  <2>2. b \in starts /\ b \in Nat
    <3>1. starts \in SUBSET Nat /\ starts # {}
      BY <1>2, PagingAssumption DEF Blocks
    <3> HIDE DEF starts
    <3> QED BY <2>1, <3>1, LeastFrame
  <2>3. PICK u, f, o : u = m.used \cup b .. b + n - 1 /\ f = m.free - n /\ o = b * PageSize
    OBVIOUS
  <2>4. a = [m EXCEPT !.used = u, !.free = f, !.ok = TRUE, !.out = o]
    BY <1>2, <2>1, <2>3 DEF pmm_alloc_pages
  <2> HIDE DEF a
  <2>5. /\ SameTables(m, a) /\ a.proc = m.proc /\ a.heap = m.heap
        /\ a.ok = TRUE /\ a.used = u /\ a.free = f /\ a.out = o
    BY <2>4 DEF SameTables, IsMachine
  <2>6. b .. b + n - 1 \subseteq Blocks \ m.used
    BY <2>2
  <2> QED BY <2>2, <2>3, <2>5, <2>6 DEF a, Takes
<1> QED BY <1>1, <1>2

\* pmm_free_pages gives such a run back.
LEMMA PagesGiven ==
    ASSUME NEW m, NEW x, IsMachine(x), m.free \in Int, NEW n \in Nat, NEW b \in Nat,
           b .. b + n - 1 \subseteq Blocks \ m.used,
           x.used = m.used \cup b .. b + n - 1, x.free = m.free - n
    PROVE  LET y == pmm_free_pages(x, b * PageSize, n)
           IN  SameTables(x, y) /\ y.proc = x.proc /\ y.used = m.used /\ y.free = m.free
<1>1. PageOf(b * PageSize) = b
  <2>1. PICK P \in Nat \ {0} : P = PageSize
    BY PagingAssumption
  <2>2. (b * P + 0) \div P = b
    BY ONLY b \in Nat, P \in Nat \ {0}, QuotientUnique
  <2> QED BY <2>1, <2>2 DEF PageOf
<1>2. PICK I : I = b .. b + n - 1
  OBVIOUS
<1>3. Cardinality(I) = n
  <2>1. CASE n = 0
    BY <1>2, <2>1, FS_Interval
  <2>2. CASE n # 0
    BY <1>2, <2>2, FS_Interval
  <2> QED BY <2>1, <2>2
<1>4. x.used \cap I = I /\ x.used \ I = m.used
  BY <1>2
<1>5. pmm_free_pages(x, b * PageSize, n) = [x EXCEPT !.used = m.used, !.free = m.free]
  <2>1. x.free + Cardinality(I) = m.free
    BY <1>3
  <2>2. pmm_free_pages(x, b * PageSize, n)
         = [x EXCEPT !.used = x.used \ (x.used \cap I),
                     !.free = x.free + Cardinality(x.used \cap I)]
    BY <1>1, <1>2 DEF pmm_free_pages
  <2> QED BY <1>4, <2>1, <2>2
<1> QED BY <1>5 DEF SameTables, IsMachine

\* vmm_alloc_pages, behind the stack of every user thread, takes the pages,
\* the region and all of the mappings, or none of them: whichever of the three runs
\* out (pages, memory for the region, tables half way through), no page is lost, no
\* region stays behind and no address of the process leads elsewhere than before.
THEOREM AllocPagesAllOrNothing ==
    ASSUME NEW m, NEW p, NEW n \in Nat, NEW dir, NEW va,
           Directory(m, dir), dir = m.proc[p].cr3, IsProcess(m, p),
           m.heap \in Nat, m.free \in Int,
           va = FindVa(Regions(m, p), n * PageSize, AnonBase),
           va # Word => Vacant(m, dir, va, n), \A q \in Regions(m, p) : q.start # va
    PROVE  LET x == vmm_alloc_pages(m, p, n)
           IN  /\ Directory(x, dir) /\ x.ok \in BOOLEAN
               /\ x.ok = FALSE => GivenUp(m, x, dir)
               /\ x.ok = TRUE => \E b \in Nat :
                    /\ b .. b + n - 1 \subseteq Blocks \ m.used /\ x.out = va
                    /\ x.used = m.used \cup b .. b + n - 1 /\ x.free = m.free - n
                    /\ x.proc = WithRegion(m, p, [start |-> va, size |-> n * PageSize,
                                                  pa |-> b * PageSize, own |-> TRUE])
                    /\ Mapped(m, x, dir, PageOf(va), b, n)
<1> DEFINE Good(x) ==
        /\ Directory(x, dir) /\ x.ok \in BOOLEAN
        /\ x.ok = FALSE => GivenUp(m, x, dir)
        /\ x.ok = TRUE => \E b \in Nat :
             /\ b .. b + n - 1 \subseteq Blocks \ m.used /\ x.out = va
             /\ x.used = m.used \cup b .. b + n - 1 /\ x.free = m.free - n
             /\ x.proc = WithRegion(m, p, [start |-> va, size |-> n * PageSize,
                                           pa |-> b * PageSize, own |-> TRUE])
             /\ Mapped(m, x, dir, PageOf(va), b, n)
<1> SUFFICES Good(vmm_alloc_pages(m, p, n))
  OBVIOUS
<1>1. PICK a : a = pmm_alloc_pages(m, n)
  OBVIOUS
<1>2. /\ SameTables(m, a) /\ a.proc = m.proc /\ a.heap = m.heap
      /\ \/ a.ok = FALSE /\ a.used = m.used /\ a.free = m.free
         \/ /\ a.ok = TRUE
            /\ \E b \in Nat :
                   /\ b .. b + n - 1 \subseteq Blocks \ m.used /\ a.out = b * PageSize
                   /\ a.used = m.used \cup b .. b + n - 1 /\ a.free = m.free - n
  <2>1. IsMachine(m)
    BY DEF Directory
  <2>2. Takes(m, a, n)
    BY <1>1, <2>1, PagesTaken
  <2> QED BY <2>2 DEF Takes
<1>3. Directory(a, dir) /\ SameWalks(m, a, dir)
  BY <1>2, SameTablesKeep
<1>4. CASE a.ok = FALSE
  <2>1. vmm_alloc_pages(m, p, n) = a
    BY <1>1, <1>4 DEF vmm_alloc_pages, Then
  <2>2. GivenUp(m, a, dir)
    BY <1>2, <1>3, <1>4 DEF GivenUp
  <2> QED BY <1>3, <1>4, <2>1, <2>2
<1>5. CASE a.ok = TRUE
  <2>1. PICK b \in Nat : /\ b .. b + n - 1 \subseteq Blocks \ m.used /\ a.out = b * PageSize
                         /\ a.used = m.used \cup b .. b + n - 1 /\ a.free = m.free - n
    BY <1>2, <1>5
  <2>2. PICK r : r = [start |-> va, size |-> n * PageSize, pa |-> b * PageSize, own |-> TRUE]
    OBVIOUS
  <2>3. PICK x : x = NewRegion(a, p, r)
    OBVIOUS
  <2>4. vmm_alloc_pages(m, p, n) = IF x.ok THEN x
                                   ELSE Failed(pmm_free_pages(x, b * PageSize, n))
    BY <1>1, <1>5, <2>1, <2>2, <2>3 DEF vmm_alloc_pages, Then, OrUndo
  <2>5. /\ r.start = va /\ r.pa \in Nat /\ r.pa = b * PageSize /\ Pages(r.size) = n
        /\ PageOf(r.pa) = b /\ r \notin m.proc[p].regs
    <3>1. PICK P \in Nat \ {0} : P = PageSize
      BY PagingAssumption
    <3>2. (b * P + 0) \div P = b /\ (n * P + 0) \div P = n
      BY ONLY b \in Nat, n \in Nat, P \in Nat \ {0}, QuotientUnique
    <3>3. r.start = va /\ r.size = n * P /\ r.pa = b * P
      BY <2>2, <3>1
    <3>4. r \notin m.proc[p].regs
      BY <3>3 DEF Regions
    <3>5. b * P + 0 = b * P /\ n * P + 0 = n * P /\ b * P \in Nat
      OBVIOUS
    <3> QED BY <3>1, <3>2, <3>3, <3>4, <3>5 DEF Pages, PageOf
  <2>6. IsProcess(a, p) /\ dir = a.proc[p].cr3 /\ r \notin a.proc[p].regs /\ a.heap \in Nat
    BY <1>2, <2>5 DEF IsProcess
  <2>7. r.start # Word => Vacant(a, dir, r.start, Pages(r.size))
    BY <1>2, <2>5, VacantKept
  <2>8. /\ Directory(x, dir) /\ x.ok \in BOOLEAN
        /\ x.ok = FALSE => GivenUp(a, x, dir)
        /\ x.ok = TRUE =>
             /\ x.used = a.used /\ x.free = a.free /\ x.out = r.start
             /\ x.proc = WithRegion(a, p, r)
             /\ Mapped(a, x, dir, PageOf(r.start), PageOf(r.pa), Pages(r.size))
    BY <1>3, <2>3, <2>5, <2>6, <2>7, NewRegionAllOrNothing
  <2>9. CASE x.ok = TRUE
    <3>1. SameWalks(x, x, dir)
      BY DEF SameWalks
    <3>2. Mapped(m, x, dir, PageOf(va), b, n)
      BY <1>3, <2>5, <2>8, <2>9, <3>1, MappedTrans
    <3>3. x.proc = WithRegion(m, p, r)
      BY <1>2, <2>8, <2>9 DEF WithRegion
    <3>4. vmm_alloc_pages(m, p, n) = x
      BY <2>4, <2>9
    <3>5. x.used = m.used \cup b .. b + n - 1 /\ x.free = m.free - n /\ x.out = va
      BY <2>1, <2>5, <2>8, <2>9
    <3> QED BY <2>1, <2>2, <2>8, <2>9, <3>2, <3>3, <3>4, <3>5
  <2>10. CASE x.ok = FALSE
    <3>1. PICK y : y = pmm_free_pages(x, b * PageSize, n)
      OBVIOUS
    <3>2. x.used = a.used /\ x.free = a.free /\ x.proc = m.proc /\ SameWalks(a, x, dir)
      BY <1>2, <2>8, <2>10 DEF GivenUp
    <3>3. SameTables(x, y) /\ y.proc = m.proc /\ y.used = m.used /\ y.free = m.free
      <4>1. IsMachine(x)
        BY <2>8 DEF Directory
      <4> QED BY <2>1, <3>1, <3>2, <4>1, PagesGiven
    <3>4. Directory(y, dir) /\ SameWalks(x, y, dir)
      BY <2>8, <3>3, SameTablesKeep
    <3>5. PICK z : z = Failed(y)
      OBVIOUS
    <3>6. Keeps(y, z, dir) /\ z.ok = FALSE /\ SameWalks(y, z, dir)
      BY <3>4, <3>5, Reports
    <3>7. SameWalks(m, z, dir)
      BY <1>3, <3>2, <3>4, <3>6 DEF SameWalks
    <3>8. GivenUp(m, z, dir) /\ Directory(z, dir)
      BY <3>3, <3>6, <3>7 DEF GivenUp, Keeps, TablesOnly
    <3>9. vmm_alloc_pages(m, p, n) = z
      BY <2>4, <2>10, <3>1, <3>5
    <3> QED BY <3>6, <3>8, <3>9
  <2> QED BY <2>8, <2>9, <2>10
<1> QED BY <1>2, <1>4, <1>5

-----------------------------------------------------------------------------
(* All directories together. *)

\* An entry of the master directory: a 4 MB page of the supervisor below the user
\* heap, or a table of the user heap.
KernelEntry(i, e) ==
    /\ i \in Nat
    /\ \/ i < PD_INDEX(HeapBase) /\ e.big = TRUE /\ e.user = FALSE
       \/ PD_INDEX(HeapBase) <= i /\ i < PD_INDEX(HeapEnd) /\ e.big = FALSE /\ e.user = TRUE

\* The entries in which a process has tables of its own.
UserIndex(i) == i \in Nat /\ PD_INDEX(HeapEnd) <= i /\ i < PD_INDEX(SpaceTop)

UserEntry(i, e) == UserIndex(i) /\ e.big = FALSE /\ e.user = TRUE

\* The entry i of d leads to a table of its own, not one of the master's.
Tab(m, d, i) ==
    /\ i \in DOMAIN m.ent[d] /\ m.ent[d][i].big = FALSE
    /\ d # KernelDir => i \notin DOMAIN m.ent[KernelDir]

InUse(m, D) ==
    /\ IsMachine(m) /\ m.pool \subseteq PoolFrames /\ D \subseteq m.pool
    /\ m.ent = [f \in Frames |-> m.ent[f]]

MasterPart(m) == \A i \in DOMAIN m.ent[KernelDir] : KernelEntry(i, m.ent[KernelDir][i])

Copies(m, D) ==
    \A d \in D : \A i \in DOMAIN m.ent[KernelDir] :
        i \in DOMAIN m.ent[d] /\ m.ent[d][i] = m.ent[KernelDir][i]

UserParts(m, D) ==
    \A d \in D : \A i \in DOMAIN m.ent[d] :
        i \in DOMAIN m.ent[KernelDir] \/ UserEntry(i, m.ent[d][i])

TabsIn(m, D) ==
    \A d \in D \cup {KernelDir} : \A i \in DOMAIN m.ent[d] :
        Tab(m, d, i) => m.ent[d][i].frame \in m.pool \ D

TabsApart(m, D) ==
    \A d, e \in D \cup {KernelDir} : \A i \in DOMAIN m.ent[d], j \in DOMAIN m.ent[e] :
        Tab(m, d, i) /\ Tab(m, e, j) /\ m.ent[d][i].frame = m.ent[e][j].frame
        => d = e /\ i = j

TabsAll(m, D) ==
    \A f \in m.pool \ D : \E d \in D \cup {KernelDir} : \E i \in DOMAIN m.ent[d] :
        Tab(m, d, i) /\ m.ent[d][i].frame = f

\* The paging structures under the directories D: every slot of the pool in use is
\* one of D or the table of one entry of one directory, and each of D has the
\* entries of the master directory, and besides only user tables above the heap.
Structs(m, D) ==
    /\ InUse(m, D) /\ MasterPart(m) /\ Copies(m, D) /\ UserParts(m, D)
    /\ TabsIn(m, D) /\ TabsApart(m, D) /\ TabsAll(m, D)

\* A call on behalf of dir leaves the structures sound and disturbs no walk of
\* another directory.
Beside(m, m2, D, dir) ==
    /\ Structs(m2, D) /\ m2.ent[KernelDir] = m.ent[KernelDir]
    /\ \A e \in (D \cup {KernelDir}) \ {dir} : SameWalks(m, m2, e)

\* One such call after another.
LEMMA BesideTrans ==
    ASSUME NEW m, NEW m2, NEW m3, NEW D, NEW dir, Beside(m, m2, D, dir), Beside(m2, m3, D, dir)
    PROVE  Beside(m, m3, D, dir)
BY DEF Beside, SameWalks

\* The directories are frames, and none is the master directory.
LEMMA DirFrames ==
    ASSUME NEW m, NEW D, InUse(m, D)
    PROVE  /\ D \subseteq Frames /\ KernelDir \notin D /\ KernelDir \in Frames
           /\ KernelDir \notin m.pool /\ m.pool \subseteq Frames
BY PagingAssumption DEF InUse, Frames

\* An entry is big, leads to a table of its directory or is one of the master's.
Kinds(m, D, d, i) ==
    \/ m.ent[d][i].big = TRUE
    \/ m.ent[d][i].big = FALSE /\ Tab(m, d, i)
    \/ /\ m.ent[d][i].big = FALSE /\ d \in D
       /\ m.ent[d][i] = m.ent[KernelDir][i] /\ Tab(m, KernelDir, i)

\* The entries of a directory are of these kinds.
LEMMA EntryKinds ==
    ASSUME NEW m, NEW D, Structs(m, D), NEW d \in D \cup {KernelDir}, NEW i \in DOMAIN m.ent[d]
    PROVE  Kinds(m, D, d, i)
<1>1. CASE i \in DOMAIN m.ent[KernelDir]
  <2>1. m.ent[d][i] = m.ent[KernelDir][i]
    BY <1>1 DEF Structs, Copies
  <2>2. m.ent[d][i].big = TRUE \/ m.ent[d][i].big = FALSE
    BY <1>1, <2>1 DEF Structs, MasterPart, KernelEntry
  <2> QED BY <1>1, <2>1, <2>2 DEF Tab, Kinds
<1>2. CASE i \notin DOMAIN m.ent[KernelDir]
  BY <1>2 DEF Tab, Kinds, Structs, UserParts, UserEntry
<1> QED BY <1>1, <1>2

\* The frames of a directory's tables are in use, and are no directories.
LEMMA TableFrames ==
    ASSUME NEW m, NEW D, Structs(m, D), NEW d \in D \cup {KernelDir}, NEW i \in DOMAIN m.ent[d],
           m.ent[d][i].big = FALSE
    PROVE  m.ent[d][i].frame \in m.pool \ D
<1>1. CASE Tab(m, d, i)
  BY <1>1 DEF Structs, TabsIn
<1>2. CASE m.ent[d][i] = m.ent[KernelDir][i] /\ Tab(m, KernelDir, i)
  BY <1>2 DEF Structs, TabsIn, Tab
<1>3. Kinds(m, D, d, i)
  BY EntryKinds
<1> QED BY <1>1, <1>2, <1>3 DEF Kinds

\* The tables of e are the same in both machines.
SameBelow(m, m2, e) ==
    \A i \in DOMAIN m.ent[e] :
        \/ m.ent[e][i].big = TRUE
        \/ /\ m.ent[e][i].big = FALSE
           /\ m2.ent[m.ent[e][i].frame] = m.ent[m.ent[e][i].frame]

\* Walks that find the same entries.
LEMMA WalkSame ==
    ASSUME NEW m, NEW m2, NEW e, m2.ent[e] = m.ent[e], SameBelow(m, m2, e)
    PROVE  SameWalks(m, m2, e)
<1>1. ASSUME NEW i, NEW j PROVE Walk(m2, e, i, j) = Walk(m, e, i, j)
  BY DEF Walk, SameBelow
<1> QED BY <1>1, TranslateIsWalk DEF SameWalks

\* A write to a table of dir.
LEMMA WriteBeside ==
    ASSUME NEW m, NEW m2, NEW D, Structs(m, D), NEW dir \in D, NEW i, Tab(m, dir, i),
           NEW t, t = m.ent[dir][i].frame, Rewrites(m, m2, t)
    PROVE  Beside(m, m2, D, dir)
<1>0. /\ IsMachine(m2) /\ m2.pool = m.pool /\ m2.ent = [f \in Frames |-> m2.ent[f]]
      /\ \A f \in Frames : f # t => m2.ent[f] = m.ent[f]
  BY DEF Rewrites
<1>1. i \in DOMAIN m.ent[dir] /\ t \in m.pool \ D
  BY DEF Structs, TabsIn, Tab
<1>2. \A d \in D \cup {KernelDir} : m2.ent[d] = m.ent[d]
  BY <1>0, <1>1, DirFrames DEF Structs
<1>3. \A d \in D \cup {KernelDir} : \A k : Tab(m2, d, k) <=> Tab(m, d, k)
  BY <1>2 DEF Tab
<1>4. Structs(m2, D)
  <2>1. InUse(m2, D)
    BY <1>0 DEF Structs, InUse
  <2>2. MasterPart(m2)
    BY <1>2 DEF Structs, MasterPart
  <2>3. Copies(m2, D)
    BY <1>2 DEF Structs, Copies
  <2>4. UserParts(m2, D)
    BY <1>2 DEF Structs, UserParts
  <2>5. TabsIn(m2, D)
    BY <1>0, <1>2, <1>3 DEF Structs, TabsIn
  <2>6. TabsApart(m2, D)
    BY <1>2, <1>3 DEF Structs, TabsApart
  <2>7. TabsAll(m2, D)
    <3> SUFFICES ASSUME NEW f \in m.pool \ D
                 PROVE  \E d \in D \cup {KernelDir} : \E k \in DOMAIN m2.ent[d] :
                            Tab(m2, d, k) /\ m2.ent[d][k].frame = f
      BY <1>0 DEF TabsAll
    <3>1. PICK d \in D \cup {KernelDir} : \E k \in DOMAIN m.ent[d] :
                Tab(m, d, k) /\ m.ent[d][k].frame = f
      BY DEF Structs, TabsAll
    <3> QED BY <1>2, <1>3, <3>1
  <2> QED BY <2>1, <2>2, <2>3, <2>4, <2>5, <2>6, <2>7 DEF Structs
<1>5. ASSUME NEW e \in (D \cup {KernelDir}) \ {dir} PROVE SameWalks(m, m2, e)
  <2>1. ASSUME NEW k \in DOMAIN m.ent[e], m.ent[e][k].big = FALSE
        PROVE  m2.ent[m.ent[e][k].frame] = m.ent[m.ent[e][k].frame]
    <3>1. m.ent[e][k].frame # t
      <4>1. CASE Tab(m, e, k)
        BY <1>1, <4>1 DEF Structs, TabsApart
      <4>2. CASE e \in D /\ m.ent[e][k] = m.ent[KernelDir][k] /\ Tab(m, KernelDir, k)
        <5>1. KernelDir # dir /\ k \in DOMAIN m.ent[KernelDir]
          BY <4>2, DirFrames DEF Structs, Tab
        <5> QED BY <1>1, <4>2, <5>1 DEF Structs, TabsApart
      <4>3. Kinds(m, D, e, k)
        BY EntryKinds
      <4> QED BY <2>1, <4>1, <4>2, <4>3 DEF Kinds
    <3>2. m.ent[e][k].frame \in Frames
      BY <2>1, TableFrames, DirFrames, ZenonT(60) DEF Structs
    <3> QED BY <1>0, <3>1, <3>2
  <2>2. ASSUME NEW k \in DOMAIN m.ent[e]
        PROVE  m.ent[e][k].big = TRUE \/ m.ent[e][k].big = FALSE
    BY EntryKinds DEF Kinds
  <2>3. SameBelow(m, m2, e) /\ m2.ent[e] = m.ent[e]
    BY <1>2, <2>1, <2>2 DEF SameBelow
  <2> QED BY <2>3, WalkSame, Zenon
<1> QED BY <1>2, <1>4, <1>5 DEF Beside

\* w is m with the empty table f for the entry i of dir.
AddsTable(m, w, dir, i, f) ==
    /\ f \in PoolFrames \ m.pool /\ IsMachine(w) /\ w.pool = m.pool \cup {f}
    /\ w.ent = [g \in Frames |-> w.ent[g]] /\ w.ent[f] = NoEntries
    /\ \A g \in Frames : g # dir /\ g # f => w.ent[g] = m.ent[g]
    /\ i \notin DOMAIN m.ent[dir] /\ DOMAIN w.ent[dir] = DOMAIN m.ent[dir] \cup {i}
    /\ w.ent[dir][i].frame = f /\ w.ent[dir][i].user = TRUE /\ w.ent[dir][i].big = FALSE
    /\ \A k \in DOMAIN m.ent[dir] : w.ent[dir][k] = m.ent[dir][k]

\* A table more for dir.
LEMMA AddBeside ==
    ASSUME NEW m, NEW w, NEW D, Structs(m, D), NEW dir \in D, NEW i, UserIndex(i),
           NEW f, AddsTable(m, w, dir, i, f)
    PROVE  Beside(m, w, D, dir)
<1>0. /\ f \in PoolFrames \ m.pool /\ IsMachine(w) /\ w.pool = m.pool \cup {f}
      /\ w.ent = [g \in Frames |-> w.ent[g]] /\ w.ent[f] = NoEntries
      /\ \A g \in Frames : g # dir /\ g # f => w.ent[g] = m.ent[g]
      /\ i \notin DOMAIN m.ent[dir] /\ DOMAIN w.ent[dir] = DOMAIN m.ent[dir] \cup {i}
      /\ w.ent[dir][i].frame = f /\ w.ent[dir][i].user = TRUE /\ w.ent[dir][i].big = FALSE
      /\ \A k \in DOMAIN m.ent[dir] : w.ent[dir][k] = m.ent[dir][k]
  BY DEF AddsTable
<1>1. /\ D \subseteq Frames /\ KernelDir \notin D /\ KernelDir \in Frames
      /\ KernelDir \notin m.pool /\ m.pool \subseteq Frames /\ D \subseteq m.pool
      /\ f \notin D /\ f # KernelDir
  BY <1>0, DirFrames, PagingAssumption DEF Structs, InUse
<1>2. \A d \in D \cup {KernelDir} : d # dir => w.ent[d] = m.ent[d]
  BY <1>0, <1>1
<1>3. w.ent[KernelDir] = m.ent[KernelDir] /\ i \notin DOMAIN m.ent[KernelDir]
  <2>1. i \notin DOMAIN m.ent[KernelDir]
    BY <1>0 DEF Structs, Copies
  <2> QED BY <1>1, <1>2, <2>1
<1>4. \A d \in D \cup {KernelDir} : \A k \in DOMAIN m.ent[d] :
        /\ k \in DOMAIN w.ent[d] /\ w.ent[d][k] = m.ent[d][k]
        /\ Tab(w, d, k) <=> Tab(m, d, k)
  BY <1>0, <1>2, <1>3 DEF Tab
<1>5. \A d \in D \cup {KernelDir} : \A k \in DOMAIN w.ent[d] :
        k \in DOMAIN m.ent[d] \/ (d = dir /\ k = i)
  BY <1>0, <1>2
<1>6. Tab(w, dir, i) /\ i \in DOMAIN w.ent[dir]
  BY <1>0, <1>3 DEF Tab
<1>7. \A d \in D \cup {KernelDir} : \A k \in DOMAIN m.ent[d] :
        Tab(m, d, k) => m.ent[d][k].frame # f
  BY <1>0 DEF Structs, TabsIn
<1>8. Structs(w, D)
  <2>1. InUse(w, D)
    BY <1>0, <1>1 DEF Structs, InUse
  <2>2. MasterPart(w)
    BY <1>3 DEF Structs, MasterPart
  <2>3. Copies(w, D)
    BY <1>3, <1>4 DEF Structs, Copies
  <2>4. UserParts(w, D)
    <3>1. UserEntry(i, w.ent[dir][i])
      BY <1>0 DEF UserEntry
    <3> QED BY <1>3, <1>4, <1>5, <3>1 DEF Structs, UserParts
  <2>5. TabsIn(w, D)
    BY <1>0, <1>1, <1>4, <1>5 DEF Structs, TabsIn
  <2>6. TabsApart(w, D)
    <3> SUFFICES ASSUME NEW d \in D \cup {KernelDir}, NEW e \in D \cup {KernelDir},
                        NEW k \in DOMAIN w.ent[d], NEW l \in DOMAIN w.ent[e],
                        Tab(w, d, k), Tab(w, e, l), w.ent[d][k].frame = w.ent[e][l].frame
                 PROVE  d = e /\ k = l
      BY DEF TabsApart
    <3>1. CASE k \in DOMAIN m.ent[d] /\ l \in DOMAIN m.ent[e]
      BY <1>4, <3>1 DEF Structs, TabsApart
    <3>2. CASE d = dir /\ k = i /\ l \in DOMAIN m.ent[e]
      BY <1>0, <1>4, <1>7, <3>2
    <3>3. CASE e = dir /\ l = i /\ k \in DOMAIN m.ent[d]
      BY <1>0, <1>4, <1>7, <3>3
    <3> QED BY <1>5, <3>1, <3>2, <3>3
  <2>7. TabsAll(w, D)
    <3> SUFFICES ASSUME NEW g \in w.pool \ D
                 PROVE  \E d \in D \cup {KernelDir} : \E k \in DOMAIN w.ent[d] :
                            Tab(w, d, k) /\ w.ent[d][k].frame = g
      BY DEF TabsAll
    <3>1. CASE g = f
      BY <1>0, <1>6, <3>1
    <3>2. CASE g \in m.pool \ D
      <4>1. PICK d \in D \cup {KernelDir} : \E k \in DOMAIN m.ent[d] :
                Tab(m, d, k) /\ m.ent[d][k].frame = g
        BY <3>2 DEF Structs, TabsAll
      <4> QED BY <1>4, <4>1
    <3> QED BY <1>0, <3>1, <3>2
  <2> QED BY <2>1, <2>2, <2>3, <2>4, <2>5, <2>6, <2>7 DEF Structs
<1>9. ASSUME NEW e \in (D \cup {KernelDir}) \ {dir} PROVE SameWalks(m, w, e)
  <2>1. ASSUME NEW k \in DOMAIN m.ent[e], m.ent[e][k].big = FALSE
        PROVE  w.ent[m.ent[e][k].frame] = m.ent[m.ent[e][k].frame]
    <3>1. m.ent[e][k].frame \in m.pool \ D
      BY <2>1, TableFrames
    <3> QED BY <1>0, <1>1, <3>1
  <2>2. ASSUME NEW k \in DOMAIN m.ent[e]
        PROVE  m.ent[e][k].big = TRUE \/ m.ent[e][k].big = FALSE
    BY EntryKinds DEF Kinds
  <2>3. SameBelow(m, w, e) /\ w.ent[e] = m.ent[e]
    BY <1>2, <2>1, <2>2 DEF SameBelow
  <2> QED BY <2>3, WalkSame, Zenon
<1> QED BY <1>3, <1>8, <1>9 DEF Beside

\* Machines with the same tables.
LEMMA SameBeside ==
    ASSUME NEW m, NEW m2, NEW D, NEW dir, Structs(m, D), SameTables(m, m2)
    PROVE  Beside(m, m2, D, dir)
<1>1. IsMachine(m2) /\ m2.ent = m.ent /\ m2.pool = m.pool
  BY DEF SameTables
<1>2. \A d, k : Tab(m2, d, k) <=> Tab(m, d, k)
  BY <1>1 DEF Tab
<1>3. InUse(m2, D) /\ MasterPart(m2)
  BY <1>1 DEF Structs, InUse, MasterPart
<1>4. Copies(m2, D) /\ UserParts(m2, D)
  BY <1>1 DEF Structs, Copies, UserParts
<1>5. TabsIn(m2, D) /\ TabsApart(m2, D)
  BY <1>1, <1>2 DEF Structs, TabsIn, TabsApart
<1>6. TabsAll(m2, D)
  BY <1>1, <1>2 DEF Structs, TabsAll
<1>7. \A e : SameWalks(m, m2, e)
  BY <1>1 DEF SameWalks, Translate, Present
<1> QED BY <1>1, <1>3, <1>4, <1>5, <1>6, <1>7 DEF Beside, Structs

\* In its own part each directory has user tables or nothing.
LEMMA StructsDirectory ==
    ASSUME NEW m, NEW D, Structs(m, D), NEW dir \in D
    PROVE  /\ Directory(m, dir)
           /\ \A i : UserIndex(i) => UserPart(m, dir, i) /\ i \notin DOMAIN m.ent[KernelDir]
<1>1. /\ IsMachine(m) /\ dir \in m.pool \cup {KernelDir} /\ m.pool \subseteq PoolFrames
      /\ m.ent = [f \in Frames |-> m.ent[f]]
  BY DEF Structs, InUse
<1>2. ASSUME NEW i \in DOMAIN m.ent[dir]
      PROVE  /\ m.ent[dir][i].big \in BOOLEAN
             /\ m.ent[dir][i].big = FALSE => m.ent[dir][i].frame \in m.pool \ {dir}
  <2>1. Kinds(m, D, dir, i)
    BY EntryKinds
  <2>2. m.ent[dir][i].big = FALSE => m.ent[dir][i].frame \in m.pool \ D
    BY TableFrames
  <2> QED BY <2>1, <2>2 DEF Kinds
<1>3. ASSUME NEW i \in DOMAIN m.ent[dir], NEW j \in DOMAIN m.ent[dir],
             m.ent[dir][i].big = FALSE, m.ent[dir][j].big = FALSE,
             m.ent[dir][i].frame = m.ent[dir][j].frame
      PROVE  i = j
  <2>1. Kinds(m, D, dir, i) /\ Kinds(m, D, dir, j)
    BY EntryKinds
  <2>2. ASSUME NEW k, Tab(m, KernelDir, k) PROVE k \in DOMAIN m.ent[KernelDir]
    BY <2>2 DEF Tab
  <2>3. dir # KernelDir
    BY DirFrames DEF Structs
  <2>4. CASE Tab(m, dir, i) /\ Tab(m, dir, j)
    BY <1>3, <2>4 DEF Structs, TabsApart
  <2>5. CASE Tab(m, dir, i) /\ m.ent[dir][j] = m.ent[KernelDir][j] /\ Tab(m, KernelDir, j)
    BY <1>3, <2>2, <2>3, <2>5 DEF Structs, TabsApart
  <2>6. CASE Tab(m, dir, j) /\ m.ent[dir][i] = m.ent[KernelDir][i] /\ Tab(m, KernelDir, i)
    BY <1>3, <2>2, <2>3, <2>6 DEF Structs, TabsApart
  <2>7. CASE /\ m.ent[dir][i] = m.ent[KernelDir][i] /\ Tab(m, KernelDir, i)
             /\ m.ent[dir][j] = m.ent[KernelDir][j] /\ Tab(m, KernelDir, j)
    BY <1>3, <2>2, <2>7 DEF Structs, TabsApart
  <2> QED BY <1>3, <2>1, <2>4, <2>5, <2>6, <2>7 DEF Kinds
<1>4. ASSUME NEW i, UserIndex(i)
      PROVE  UserPart(m, dir, i) /\ i \notin DOMAIN m.ent[KernelDir]
  <2>1. PD_INDEX(HeapBase) \in Nat /\ PD_INDEX(HeapEnd) \in Nat
    BY IndexOfPage, PagingAssumption
  <2>2. i \notin DOMAIN m.ent[KernelDir]
    <3> SUFFICES ASSUME i \in DOMAIN m.ent[KernelDir] PROVE FALSE
      OBVIOUS
    <3>1. i \in Nat /\ PD_INDEX(HeapEnd) <= i
      BY <1>4 DEF UserIndex
    <3>2. KernelEntry(i, m.ent[KernelDir][i])
      BY DEF Structs, MasterPart
    <3>3. PD_INDEX(HeapBase) <= PD_INDEX(HeapEnd)
      <4>1. PICK w \in Nat \ {0} : w = PageSize * PerTable
        BY PagingAssumption
      <4>2. PICK a \in Nat, b \in Nat : a = HeapBase \div w /\ b = HeapEnd \div w
        BY <4>1, PagingAssumption
      <4>3. HeapBase = a * w /\ HeapEnd = b * w
        <5>1. /\ HeapBase \in Nat /\ HeapEnd \in Nat
              /\ HeapBase % w = 0 /\ HeapEnd % w = 0
          BY <4>1, PagingAssumption
        <5>2. /\ HeapBase = (HeapBase \div w) * w + (HeapBase % w)
              /\ HeapEnd = (HeapEnd \div w) * w + (HeapEnd % w)
          BY <5>1, Division
        <5>3. a * w \in Nat /\ b * w \in Nat
          OBVIOUS
        <5> QED BY <4>2, <5>1, <5>2, <5>3
      <4>4. a * w < b * w
        BY <4>3, PagingAssumption
      <4>5. a <= b
        <5> SUFFICES ASSUME b < a PROVE FALSE
          OBVIOUS
        <5>1. PICK c \in Nat : a = b + c
          <6>1. a - b \in Nat /\ a = b + (a - b)
            OBVIOUS
          <6> QED BY <6>1
        <5>2. a * w = b * w + c * w /\ c * w \in Nat /\ b * w \in Nat
          BY <5>1
        <5> QED BY <4>4, <5>2
      <4> QED BY <4>1, <4>2, <4>5 DEF PD_INDEX
    <3> QED BY <2>1, <3>1, <3>2, <3>3 DEF KernelEntry
  <2>3. ASSUME i \in DOMAIN m.ent[dir] PROVE Tabled(m, dir, i)
    BY <2>2, <2>3 DEF Structs, UserParts, UserEntry, Tabled
  <2> QED BY <2>2, <2>3 DEF UserPart
<1> QED BY <1>1, <1>2, <1>3, <1>4 DEF Directory

\* WithTable finds the table or adds one.
LEMMA TableAdded ==
    ASSUME NEW m, NEW dir, Directory(m, dir), NEW i, UserPart(m, dir, i),
           NEW w, w = WithTable(m, dir, i, TRUE)
    PROVE  SameTables(m, w) \/ \E f : AddsTable(m, w, dir, i, f)
<1>0. IsMachine(m)
  BY DEF Directory
<1>1. CASE i \in DOMAIN m.ent[dir]
  <2>1. m.ent[dir][i].big = FALSE
    BY <1>1 DEF UserPart, Tabled
  <2>2. w = [m EXCEPT !.ok = TRUE, !.out = 0]
    BY <1>1, <2>1 DEF WithTable, Returns, Present
  <2> QED BY <1>0, <2>2 DEF IsMachine, SameTables
<1>2. CASE i \notin DOMAIN m.ent[dir]
  <2>0. PICK a : a = arch_paging_pool_alloc(m)
    OBVIOUS
  <2>1. w = IF a.ok THEN SetEntry(a, dir, i, Entry(a.out, TRUE, FALSE)) ELSE a
    BY <1>2, <2>0 DEF WithTable, Then, Present
  <2>2. /\ IsMachine(a) /\ TablesOnly(m, a)
        /\ \/ a.ok = FALSE /\ a.pool = m.pool /\ a.ent = m.ent
           \/ /\ a.ok = TRUE /\ a.out \in PoolFrames \ m.pool
              /\ a.pool = m.pool \cup {a.out}
              /\ a.ent = [m.ent EXCEPT ![a.out] = NoEntries]
    BY <2>0, PoolAlloc
  <2>3. CASE a.ok = FALSE
    BY <2>1, <2>2, <2>3 DEF SameTables
  <2>4. CASE a.ok = TRUE
    <3>1. PICK f \in PoolFrames \ m.pool : f = a.out
      BY <2>2, <2>4
    <3>2. PICK e : e = Entry(f, TRUE, FALSE)
      OBVIOUS
    <3>3. e.frame = f /\ e.user = TRUE /\ e.big = FALSE
      BY <3>2 DEF Entry
    <3>4. w = SetEntry(a, dir, i, e)
      BY <2>1, <2>4, <3>1, <3>2
    <3>5. /\ a.pool = m.pool \cup {f} /\ a.ent = [m.ent EXCEPT ![f] = NoEntries]
          /\ f \in Frames /\ dir \in Frames /\ m.ent = [g \in Frames |-> m.ent[g]]
      BY <2>2, <2>4, <3>1 DEF Directory, Frames
    <3>6. /\ a.ent = [g \in Frames |-> a.ent[g]] /\ a.ent[f] = NoEntries
          /\ \A g \in Frames : g # f => a.ent[g] = m.ent[g]
      BY <3>5
    <3>7. /\ IsMachine(w) /\ w.pool = a.pool
          /\ w.ent = [g \in Frames |-> w.ent[g]]
          /\ \A g \in Frames : g # dir => w.ent[g] = a.ent[g]
          /\ DOMAIN w.ent[dir] = DOMAIN a.ent[dir] \cup {i} /\ w.ent[dir][i] = e
          /\ \A k \in DOMAIN a.ent[dir] : k # i => w.ent[dir][k] = a.ent[dir][k]
      BY ONLY <2>2, <3>4, <3>5, <3>6, WriteEntry
    <3>8. f # dir
      BY <3>1, PagingAssumption DEF Directory
    <3>9. a.ent[dir] = m.ent[dir]
      BY <3>5, <3>6, <3>8
    <3>10. /\ f \in PoolFrames \ m.pool /\ w.pool = m.pool \cup {f}
           /\ w.ent[f] = NoEntries
           /\ \A g \in Frames : g # dir /\ g # f => w.ent[g] = m.ent[g]
      BY <3>1, <3>5, <3>6, <3>7, <3>8
    <3>11. /\ DOMAIN w.ent[dir] = DOMAIN m.ent[dir] \cup {i}
           /\ w.ent[dir][i].frame = f /\ w.ent[dir][i].user = TRUE /\ w.ent[dir][i].big = FALSE
           /\ \A k \in DOMAIN m.ent[dir] : w.ent[dir][k] = m.ent[dir][k]
      BY <1>2, <3>3, <3>7, <3>9
    <3>12. AddsTable(m, w, dir, i, f)
      BY <1>2, <3>7, <3>10, <3>11 DEF AddsTable
    <3> QED BY <3>12
  <2> QED BY <2>2, <2>3, <2>4
<1> QED BY <1>1, <1>2

\* Mapping a page for dir.
LEMMA MapBeside ==
    ASSUME NEW m, NEW D, Structs(m, D), NEW dir \in D, NEW va, NEW pa,
           UserIndex(PD_INDEX(va))
    PROVE  Beside(m, arch_map_4kb(m, dir, va, pa, TRUE), D, dir)
<1>0. PICK r, i, j, e, w : /\ r = arch_map_4kb(m, dir, va, pa, TRUE)
                           /\ i = PD_INDEX(va) /\ j = PT_INDEX(va)
                           /\ e = Entry(PageOf(pa), TRUE, FALSE)
                           /\ w = WithTable(m, dir, i, TRUE)
  OBVIOUS
<1>1. r = IF w.ok THEN SetEntry(w, w.ent[dir][i].frame, j, e) ELSE w
  BY <1>0 DEF arch_map_4kb, Then
<1>2. Directory(m, dir) /\ UserPart(m, dir, i) /\ UserIndex(i)
  BY <1>0, StructsDirectory
<1>3. Directory(w, dir) /\ w.ok \in BOOLEAN /\ (w.ok = TRUE => Tabled(w, dir, i))
  BY ONLY <1>0, <1>2, NewTable, ZenonT(60)
<1>4. Beside(m, w, D, dir)
  <2>1. SameTables(m, w) \/ \E f : AddsTable(m, w, dir, i, f)
    BY ONLY <1>0, <1>2, TableAdded
  <2>2. CASE SameTables(m, w)
    BY <2>2, SameBeside
  <2>3. ASSUME NEW f, AddsTable(m, w, dir, i, f) PROVE Beside(m, w, D, dir)
    BY <1>2, <2>3, AddBeside
  <2> QED BY <2>1, <2>2, <2>3
<1>5. CASE w.ok = FALSE
  BY <1>0, <1>1, <1>4, <1>5
<1>6. CASE w.ok = TRUE
  <2>1. PICK t : t = w.ent[dir][i].frame
    OBVIOUS
  <2>2. r = SetEntry(w, t, j, e)
    BY <1>1, <1>6, <2>1
  <2>3. Structs(w, D)
    BY <1>4 DEF Beside
  <2>4. Tab(w, dir, i)
    BY <1>2, <1>3, <1>6, <2>3, StructsDirectory DEF Tab, Tabled
  <2>5. t \in Frames /\ IsMachine(w) /\ w.ent = [f \in Frames |-> w.ent[f]]
    BY <2>1, <2>3, <2>4, DirFrames DEF Structs, TabsIn, Tab, InUse
  <2>6. /\ IsMachine(r) /\ r.pool = w.pool /\ r.ent = [f \in Frames |-> r.ent[f]]
        /\ \A f \in Frames : f # t => r.ent[f] = w.ent[f]
    BY ONLY <2>2, <2>5, WriteEntry
  <2>7. Rewrites(w, r, t)
    BY <2>6 DEF Rewrites
  <2>8. Beside(w, r, D, dir)
    BY <2>1, <2>3, <2>4, <2>7, WriteBeside
  <2> QED BY <1>0, <1>4, <2>8, BesideTrans
<1> QED BY <1>3, <1>5, <1>6

\* Unmapping a page for dir.
LEMMA UnmapBeside ==
    ASSUME NEW m, NEW D, Structs(m, D), NEW dir \in D, NEW va, ~(va < HeapBase),
           UserIndex(PD_INDEX(va))
    PROVE  Beside(m, arch_unmap_4kb(m, dir, va), D, dir)
<1>0. PICK r, i, j, t : /\ r = arch_unmap_4kb(m, dir, va)
                        /\ i = PD_INDEX(va) /\ j = PT_INDEX(va) /\ t = m.ent[dir][i].frame
  OBVIOUS
<1>1. r = IF i \notin DOMAIN m.ent[dir] \/ j \notin DOMAIN m.ent[t] THEN m
          ELSE ClearEntry(m, t, j)
  BY <1>0 DEF arch_unmap_4kb, Present
<1>2. UserPart(m, dir, i) /\ i \notin DOMAIN m.ent[KernelDir]
  BY <1>0, StructsDirectory
<1>3. CASE r = m
  <2>1. SameTables(m, m)
    BY DEF SameTables, Structs, InUse
  <2> QED BY <1>0, <1>3, <2>1, SameBeside
<1>4. CASE i \in DOMAIN m.ent[dir] /\ r = ClearEntry(m, t, j)
  <2>1. Tab(m, dir, i)
    BY <1>2, <1>4 DEF Tab, UserPart, Tabled
  <2>2. t \in Frames /\ IsMachine(m) /\ m.ent = [f \in Frames |-> m.ent[f]]
    BY <1>0, <2>1, DirFrames DEF Structs, TabsIn, Tab, InUse
  <2>3. /\ IsMachine(r) /\ r.pool = m.pool /\ r.ent = [f \in Frames |-> r.ent[f]]
        /\ \A f \in Frames : f # t => r.ent[f] = m.ent[f]
    BY ONLY <1>4, <2>2, EraseEntry
  <2>4. Rewrites(m, r, t)
    BY <2>3 DEF Rewrites
  <2> QED BY <1>0, <2>1, <2>4, WriteBeside
<1> QED BY <1>1, <1>3, <1>4

\* The n pages from the page p on lie where processes have tables of their own.
UserRange(p, n) == \A a \in Nat : PageOf(a) \in p .. p + n - 1 => UserIndex(PD_INDEX(a))

\* UnmapPages for dir.
LEMMA UnmapRangeBeside ==
    ASSUME NEW m, NEW D, Structs(m, D), NEW dir \in D, NEW va \in Nat, ~(va < HeapBase),
           NEW n \in Nat, UserRange(PageOf(va), n)
    PROVE  Beside(m, UnmapPages(m, dir, va, n), D, dir)
<1>1. PICK g : /\ g[0] = m /\ UnmapPages(m, dir, va, n) = g[n]
               /\ \A i \in 1 .. n :
                     g[i] = arch_unmap_4kb(g[i - 1], dir, va + (i - 1) * PageSize)
  BY UnmapLoop
<1> DEFINE N == {i \in 0 .. n : Beside(m, g[i], D, dir)}
<1>2. 0 \in N
  <2>1. SameTables(m, m)
    BY DEF SameTables, Structs, InUse
  <2>2. Beside(m, m, D, dir)
    BY <2>1, SameBeside
  <2> QED BY <1>1, <2>2
<1>3. ASSUME NEW i \in 1 .. n, i - 1 \in N PROVE i \in N
  <2>1. PICK x, y, b : x = g[i - 1] /\ y = g[i] /\ b = va + (i - 1) * PageSize
    OBVIOUS
  <2>2. Beside(m, x, D, dir) /\ Structs(x, D)
    BY <1>3, <2>1 DEF Beside
  <2>3. b \in Nat /\ va <= b /\ PageOf(b) \in PageOf(va) .. PageOf(va) + n - 1
    BY <2>1, RoundPage
  <2>4. ~(b < HeapBase) /\ UserIndex(PD_INDEX(b))
    BY <2>3, PagingAssumption DEF UserRange
  <2>5. y = arch_unmap_4kb(x, dir, b)
    BY <1>1, <2>1
  <2>6. Beside(x, y, D, dir)
    BY <2>2, <2>4, <2>5, UnmapBeside
  <2>7. Beside(m, y, D, dir)
    BY <2>2, <2>6, BesideTrans
  <2> QED BY <2>1, <2>7
<1>4. n \in N
  <2> HIDE DEF N
  <2> QED BY <1>2, <1>3, LoopInvariant
<1> QED BY <1>1, <1>4

\* MapPages for dir, whether it succeeds or not.
LEMMA MapPagesBeside ==
    ASSUME NEW m, NEW D, Structs(m, D), NEW dir \in D, NEW va \in Nat, ~(va < HeapBase),
           NEW pa, NEW n \in Nat, UserRange(PageOf(va), n)
    PROVE  Beside(m, MapPages(m, dir, va, pa, n), D, dir)
<1>1. PICK g : /\ g[0] = Returns(m, va) /\ MapPages(m, dir, va, pa, n) = g[n]
               /\ \A i \in 1 .. n : g[i] = MapRound(g[i - 1], i, dir, va, pa)
  BY ONLY n \in Nat, MapLoop, SMTT(30)
<1>0. ASSUME NEW x, IsMachine(x), NEW v
      PROVE  SameTables(x, Failed(x)) /\ SameTables(x, Returns(x, v))
  <2>1. ASSUME NEW m2, NEW k, NEW l, m2 = [x EXCEPT !.ok = k, !.out = l]
        PROVE  SameTables(x, m2)
    BY <1>0, <2>1 DEF SameTables, IsMachine
  <2> QED BY <2>1 DEF Failed, Returns
<1> DEFINE N == {i \in 0 .. n : Beside(m, g[i], D, dir)}
<1>2. 0 \in N
  <2>1. SameTables(m, Returns(m, va))
    BY <1>0 DEF Structs, InUse
  <2>2. PICK x : x = Returns(m, va)
    OBVIOUS
  <2>3. Beside(m, x, D, dir)
    BY <2>1, <2>2, SameBeside
  <2> QED BY <1>1, <2>2, <2>3
<1>3. ASSUME NEW i \in 1 .. n, i - 1 \in N PROVE i \in N
  <2>1. PICK x, y, z, b, c : /\ x = g[i - 1] /\ b = va + (i - 1) * PageSize
                             /\ c = pa + (i - 1) * PageSize
                             /\ y = arch_map_4kb(x, dir, b, c, TRUE)
                             /\ z = UnmapPages(y, dir, va, i - 1)
    OBVIOUS
  <2>2. Beside(m, x, D, dir) /\ Structs(x, D)
    BY <1>3, <2>1 DEF Beside
  <2>3. b \in Nat /\ PageOf(b) \in PageOf(va) .. PageOf(va) + n - 1 /\ PageOf(va) \in Nat
    BY <2>1, RoundPage
  <2>4. UserIndex(PD_INDEX(b))
    BY <2>3 DEF UserRange
  <2>5. Beside(x, y, D, dir)
    BY <2>1, <2>2, <2>4, MapBeside
  <2>6. Beside(m, y, D, dir) /\ Structs(y, D)
    BY <2>2, <2>5, BesideTrans DEF Beside
  <2>7. Beside(y, z, D, dir)
    <3>1. UserRange(PageOf(va), i - 1)
      <4>1. PageOf(va) .. PageOf(va) + (i - 1) - 1 \subseteq PageOf(va) .. PageOf(va) + n - 1
        BY <2>3
      <4> QED BY <4>1 DEF UserRange
    <3>2. i - 1 \in Nat
      OBVIOUS
    <3> QED BY <2>1, <2>6, <3>1, <3>2, UnmapRangeBeside
  <2>8. Beside(m, z, D, dir) /\ Structs(z, D)
    BY <2>6, <2>7, BesideTrans DEF Beside
  <2>9. PICK k : k = Failed(z)
    OBVIOUS
  <2>10. Beside(m, k, D, dir)
    <3>1. SameTables(z, k)
      BY <1>0, <2>8, <2>9 DEF Structs, InUse
    <3>2. Beside(z, k, D, dir)
      BY <2>8, <3>1, SameBeside
    <3> QED BY <2>8, <3>2, BesideTrans
  <2>11. g[i] = x \/ g[i] = y \/ g[i] = k
    BY <1>1, <2>1, <2>9 DEF MapRound
  <2> QED BY <2>2, <2>6, <2>10, <2>11
<1>4. n \in N
  <2> HIDE DEF N
  <2> QED BY <1>2, <1>3, LoopInvariant
<1> QED BY <1>1, <1>4

\* m2 is m with f as one more directory, a copy of the master's.
AddsDirectory(m, m2, f) ==
    /\ f \in PoolFrames \ m.pool /\ IsMachine(m2) /\ m2.pool = m.pool \cup {f}
    /\ m2.ent = [g \in Frames |-> m2.ent[g]] /\ m2.ent[f] = m.ent[KernelDir]
    /\ \A g \in Frames : g # f => m2.ent[g] = m.ent[g]

\* A new directory disturbs no other and shows what the master shows.
LEMMA NewDirectory ==
    ASSUME NEW m, NEW m2, NEW D, Structs(m, D), NEW f, AddsDirectory(m, m2, f)
    PROVE  /\ Structs(m2, D \cup {f}) /\ m2.ent[KernelDir] = m.ent[KernelDir] /\ f \notin D
           /\ \A e \in D \cup {KernelDir} : SameWalks(m, m2, e)
           /\ \A a : Translate(m2, f, a) = Translate(m2, KernelDir, a)
<1> DEFINE E == D \cup {f}
<1>0. /\ f \in PoolFrames \ m.pool /\ IsMachine(m2) /\ m2.pool = m.pool \cup {f}
      /\ m2.ent = [g \in Frames |-> m2.ent[g]] /\ m2.ent[f] = m.ent[KernelDir]
      /\ \A g \in Frames : g # f => m2.ent[g] = m.ent[g]
  BY DEF AddsDirectory
<1>1. /\ D \subseteq Frames /\ KernelDir \notin D /\ KernelDir \in Frames
      /\ KernelDir \notin m.pool /\ m.pool \subseteq Frames /\ D \subseteq m.pool
      /\ f \notin D /\ f # KernelDir
  BY <1>0, DirFrames, PagingAssumption DEF Structs, InUse
<1>2. \A d \in D \cup {KernelDir} : m2.ent[d] = m.ent[d] /\ d # f
  BY <1>0, <1>1
<1>3. \A d \in D \cup {KernelDir} : \A k : Tab(m2, d, k) <=> Tab(m, d, k)
  BY <1>2 DEF Tab
<1>4. \A k : ~Tab(m2, f, k)
  BY <1>0, <1>1, <1>2 DEF Tab
<1>5. Structs(m2, E)
  <2>1. InUse(m2, E)
    BY <1>0, <1>1 DEF Structs, InUse
  <2>2. MasterPart(m2)
    BY <1>2 DEF Structs, MasterPart
  <2>3. Copies(m2, E)
    BY <1>0, <1>2 DEF Structs, Copies
  <2>4. UserParts(m2, E)
    BY <1>0, <1>2 DEF Structs, UserParts
  <2>5. TabsIn(m2, E)
    BY <1>0, <1>2, <1>3, <1>4 DEF Structs, TabsIn
  <2>6. TabsApart(m2, E)
    BY <1>2, <1>3, <1>4 DEF Structs, TabsApart
  <2>7. TabsAll(m2, E)
    <3> SUFFICES ASSUME NEW g \in m2.pool \ E
                 PROVE  \E d \in E \cup {KernelDir} : \E k \in DOMAIN m2.ent[d] :
                            Tab(m2, d, k) /\ m2.ent[d][k].frame = g
      BY DEF TabsAll
    <3>1. g \in m.pool \ D
      BY <1>0
    <3>2. PICK d \in D \cup {KernelDir} : \E k \in DOMAIN m.ent[d] :
              Tab(m, d, k) /\ m.ent[d][k].frame = g
      BY <3>1 DEF Structs, TabsAll
    <3> QED BY <1>2, <1>3, <3>2
  <2> HIDE DEF E
  <2> QED BY <2>1, <2>2, <2>3, <2>4, <2>5, <2>6, <2>7 DEF Structs
<1>6. ASSUME NEW e \in D \cup {KernelDir} PROVE SameWalks(m, m2, e)
  <2>1. ASSUME NEW k \in DOMAIN m.ent[e], m.ent[e][k].big = FALSE
        PROVE  m2.ent[m.ent[e][k].frame] = m.ent[m.ent[e][k].frame]
    <3>1. m.ent[e][k].frame \in m.pool \ D
      BY <2>1, TableFrames
    <3> QED BY <1>0, <1>1, <3>1
  <2>2. ASSUME NEW k \in DOMAIN m.ent[e]
        PROVE  m.ent[e][k].big = TRUE \/ m.ent[e][k].big = FALSE
    BY EntryKinds DEF Kinds
  <2>3. SameBelow(m, m2, e) /\ m2.ent[e] = m.ent[e]
    BY <1>2, <2>1, <2>2 DEF SameBelow
  <2> QED BY <2>3, WalkSame, Zenon
<1>7. ASSUME NEW a PROVE Translate(m2, f, a) = Translate(m2, KernelDir, a)
  BY <1>0, <1>2 DEF Translate, Present
<1> QED BY <1>1, <1>2, <1>5, <1>6, <1>7

\* The slots of the pool that hold tables of d alone.
TablesUnder(m, d) == {m.ent[d][i].frame : i \in {k \in DOMAIN m.ent[d] : Tab(m, d, k)}}

\* m2 is m without the directory d and its tables.
DropsDirectory(m, m2, d) ==
    /\ IsMachine(m2) /\ TablesOnly(m, m2) /\ m2.pool = (m.pool \ TablesUnder(m, d)) \ {d}
    /\ m2.ent = [g \in Frames |-> m2.ent[g]]
    /\ \A g \in Frames : g \notin TablesUnder(m, d) /\ g # d => m2.ent[g] = m.ent[g]

\* arch_destroy_address_space, and the directory with it, gives back these and no others.
LEMMA DestroyIsDrop ==
    ASSUME NEW m, NEW D, Structs(m, D), NEW d \in D
    PROVE  LET y == arch_paging_pool_free(arch_destroy_address_space(m, d), d)
           IN  DropsDirectory(m, y, d) /\ y.ok = m.ok /\ y.out = m.out
<1> DEFINE own == {i \in DOMAIN m.ent[d] :
                    /\ i < PD_INDEX(SpaceTop)
                    /\ ~(Present(m, KernelDir, i)
                         /\ m.ent[KernelDir][i].frame = m.ent[d][i].frame)}
           T == TablesUnder(m, d)
<1>0. /\ IsMachine(m) /\ m.pool \subseteq PoolFrames /\ D \subseteq m.pool
      /\ m.ent = [f \in Frames |-> m.ent[f]] /\ d \in Frames /\ d \in PoolFrames
  BY DirFrames DEF Structs, InUse
<1>1. \A i \in DOMAIN m.ent[d] : i \in own <=> Tab(m, d, i)
  <2> SUFFICES ASSUME NEW i \in DOMAIN m.ent[d] PROVE i \in own <=> Tab(m, d, i)
    OBVIOUS
  <2>1. CASE i \in DOMAIN m.ent[KernelDir]
    <3>1. m.ent[d][i] = m.ent[KernelDir][i]
      BY <2>1 DEF Structs, Copies
    <3>2. d # KernelDir
      BY DirFrames DEF Structs
    <3> QED BY <2>1, <3>1, <3>2 DEF Present, Tab
  <2>2. CASE i \notin DOMAIN m.ent[KernelDir]
    BY <2>2 DEF Present, Tab, Structs, UserParts, UserEntry, UserIndex
  <2> QED BY <2>1, <2>2
<1>2. {m.ent[d][i].frame : i \in own} = T
  BY <1>1 DEF TablesUnder
<1>3. T \subseteq m.pool \ D
  BY DEF TablesUnder, Structs, TabsIn
<1>4. PICK h : h = [i \in DOMAIN m.ent[d] \ own |-> m.ent[d][i]]
  OBVIOUS
<1>5. PICK x, e0, e1 :
        /\ e0 = [f \in DOMAIN m.ent |-> IF f \in T \cap PoolFrames THEN NoEntries ELSE m.ent[f]]
        /\ e1 = [e0 EXCEPT ![d] = h]
        /\ x = [m EXCEPT !.pool = m.pool \ T, !.ent = e1]
  OBVIOUS
<1>6. e0[d] = m.ent[d]
  BY <1>0, <1>3, <1>5
<1>7. arch_destroy_address_space(m, d) = x
  <2>1. PoolFree(m, T) = [m EXCEPT !.pool = m.pool \ T, !.ent = e0]
    BY <1>5 DEF PoolFree
  <2>2. arch_destroy_address_space(m, d) =
            [PoolFree(m, {m.ent[d][i].frame : i \in own})
                EXCEPT !.ent[d] = [i \in DOMAIN @ \ own |-> @[i]]]
    BY DEF arch_destroy_address_space
  <2>3. arch_destroy_address_space(m, d) =
            [[m EXCEPT !.pool = m.pool \ T, !.ent = e0]
                EXCEPT !.ent[d] = [i \in DOMAIN @ \ own |-> @[i]]]
    BY <1>2, <2>1, <2>2
  <2> HIDE DEF own, T
  <2>4. PICK z : z = [m EXCEPT !.pool = m.pool \ T, !.ent = e0]
    OBVIOUS
  <2>5. z.ent = e0
    BY <1>0, <2>4 DEF IsMachine
  <2>6. arch_destroy_address_space(m, d) = [z EXCEPT !.ent = [e0 EXCEPT ![d] = h]]
    BY <1>4, <1>6, <2>3, <2>4, <2>5
  <2> QED BY <1>0, <1>5, <2>4, <2>6 DEF IsMachine
<1> HIDE DEF own, T
<1>8. PICK y : y = arch_paging_pool_free(x, d)
  OBVIOUS
<1>9. /\ IsMachine(x) /\ x.pool = m.pool \ T /\ x.ent = e1 /\ TablesOnly(m, x)
      /\ x.ok = m.ok /\ x.out = m.out
  BY <1>0, <1>5 DEF IsMachine, TablesOnly
<1>10. PICK e2 : e2 = [f \in DOMAIN e1 |-> IF f \in {d} \cap PoolFrames THEN NoEntries ELSE e1[f]]
  OBVIOUS
<1>11. y = [x EXCEPT !.pool = x.pool \ {d}, !.ent = e2]
  BY <1>8, <1>9, <1>10 DEF arch_paging_pool_free, PoolFree
<1>12. /\ IsMachine(y) /\ y.pool = (m.pool \ T) \ {d} /\ y.ent = e2 /\ TablesOnly(m, y)
       /\ y.ok = m.ok /\ y.out = m.out
  BY <1>9, <1>11 DEF IsMachine, TablesOnly
<1>13. DOMAIN e0 = Frames /\ DOMAIN e1 = Frames
  BY <1>0, <1>5
<1>14. y.ent = [g \in Frames |-> y.ent[g]]
  BY <1>10, <1>12, <1>13
<1>15. ASSUME NEW g \in Frames, g \notin T, g # d PROVE y.ent[g] = m.ent[g]
  <2>1. e2[g] = e1[g]
    BY <1>10, <1>13, <1>15
  <2>2. e1[g] = e0[g]
    BY <1>5, <1>13, <1>15
  <2>3. e0[g] = m.ent[g]
    BY <1>0, <1>5, <1>15
  <2> QED BY <1>12, <2>1, <2>2, <2>3
<1>16. DropsDirectory(m, y, d)
  BY <1>12, <1>14, <1>15 DEF DropsDirectory, T
<1> QED BY <1>7, <1>8, <1>12, <1>16

\* The other directories do not notice.
LEMMA DropDirectory ==
    ASSUME NEW m, NEW m2, NEW D, Structs(m, D), NEW dir \in D, DropsDirectory(m, m2, dir)
    PROVE  /\ Structs(m2, D \ {dir}) /\ m2.ent[KernelDir] = m.ent[KernelDir]
           /\ \A e \in (D \cup {KernelDir}) \ {dir} : SameWalks(m, m2, e)
<1> DEFINE E == D \ {dir}
           T == TablesUnder(m, dir)
<1>0. /\ IsMachine(m2) /\ m2.pool = (m.pool \ T) \ {dir}
      /\ m2.ent = [g \in Frames |-> m2.ent[g]]
      /\ \A g \in Frames : g \notin T /\ g # dir => m2.ent[g] = m.ent[g]
  BY DEF DropsDirectory
<1>1. T \subseteq m.pool \ D
  BY DEF TablesUnder, Structs, TabsIn
<1>2. /\ D \subseteq Frames /\ KernelDir \notin D /\ KernelDir \in Frames
      /\ KernelDir \notin m.pool /\ m.pool \subseteq Frames /\ D \subseteq m.pool
  BY DirFrames DEF Structs, InUse
<1>3. \A k \in DOMAIN m.ent[dir] : Tab(m, dir, k) => m.ent[dir][k].frame \in T
  BY DEF TablesUnder
<1>4. \A g \in T : \E k \in DOMAIN m.ent[dir] : Tab(m, dir, k) /\ m.ent[dir][k].frame = g
  BY DEF TablesUnder
<1> HIDE DEF T
<1>5. \A d \in E \cup {KernelDir} : m2.ent[d] = m.ent[d] /\ d # dir /\ d \in D \cup {KernelDir}
  BY <1>0, <1>1, <1>2
<1>6. \A d \in E \cup {KernelDir} : \A k : Tab(m2, d, k) <=> Tab(m, d, k)
  BY <1>5 DEF Tab
<1>7. \A d \in E \cup {KernelDir} : \A k \in DOMAIN m.ent[d] :
        Tab(m, d, k) => m.ent[d][k].frame \notin T
  BY <1>4, <1>5 DEF Structs, TabsApart
<1>8. Structs(m2, E)
  <2>1. InUse(m2, E)
    BY <1>0, <1>1, <1>2 DEF Structs, InUse
  <2>2. MasterPart(m2)
    BY <1>5 DEF Structs, MasterPart
  <2>3. Copies(m2, E)
    BY <1>5 DEF Structs, Copies
  <2>4. UserParts(m2, E)
    BY <1>5 DEF Structs, UserParts
  <2>5. TabsIn(m2, E)
    BY <1>0, <1>5, <1>6, <1>7 DEF Structs, TabsIn
  <2>6. TabsApart(m2, E)
    BY <1>5, <1>6 DEF Structs, TabsApart
  <2>7. TabsAll(m2, E)
    <3> SUFFICES ASSUME NEW g \in m2.pool \ E
                 PROVE  \E d \in E \cup {KernelDir} : \E k \in DOMAIN m2.ent[d] :
                            Tab(m2, d, k) /\ m2.ent[d][k].frame = g
      BY DEF TabsAll
    <3>1. g \in m.pool \ D /\ g \notin T
      BY <1>0
    <3>2. PICK d \in D \cup {KernelDir} : \E k \in DOMAIN m.ent[d] :
              Tab(m, d, k) /\ m.ent[d][k].frame = g
      BY <3>1 DEF Structs, TabsAll
    <3>3. d \in E \cup {KernelDir}
      BY <1>3, <3>1, <3>2
    <3> QED BY <1>5, <1>6, <3>2, <3>3
  <2> HIDE DEF E
  <2> QED BY <2>1, <2>2, <2>3, <2>4, <2>5, <2>6, <2>7 DEF Structs
<1>9. ASSUME NEW e \in (D \cup {KernelDir}) \ {dir} PROVE SameWalks(m, m2, e)
  <2>1. ASSUME NEW k \in DOMAIN m.ent[e], m.ent[e][k].big = FALSE
        PROVE  m2.ent[m.ent[e][k].frame] = m.ent[m.ent[e][k].frame]
    <3>1. m.ent[e][k].frame \in m.pool \ D
      BY <2>1, TableFrames
    <3>2. m.ent[e][k].frame \notin T
      <4>1. Kinds(m, D, e, k)
        BY EntryKinds
      <4>2. CASE Tab(m, e, k)
        BY <1>7, <4>2
      <4>3. CASE m.ent[e][k] = m.ent[KernelDir][k] /\ Tab(m, KernelDir, k)
        BY <1>7, <4>3 DEF Tab
      <4> QED BY <2>1, <4>1, <4>2, <4>3 DEF Kinds
    <3> QED BY <1>0, <1>2, <3>1, <3>2
  <2>2. ASSUME NEW k \in DOMAIN m.ent[e]
        PROVE  m.ent[e][k].big = TRUE \/ m.ent[e][k].big = FALSE
    BY EntryKinds DEF Kinds
  <2>3. SameBelow(m, m2, e) /\ m2.ent[e] = m.ent[e]
    BY <1>5, <2>1, <2>2 DEF SameBelow
  <2> QED BY <2>3, WalkSame, Zenon
<1> QED BY <1>5, <1>8, <1>9

-----------------------------------------------------------------------------
(* Regions in pages. *)

\* The pages of addresses a region covers.
VPages(r) == PageOf(r.start) .. PageOf(r.start) + Pages(r.size) - 1

\* A region of s's pages: it starts and ends at pages, above the user heap and
\* below the top, and its frames are memory.
IsRegion(r) ==
    \E s, n, f \in Nat : \E o \in BOOLEAN :
        /\ r = [start |-> s * PageSize, size |-> n * PageSize, pa |-> f * PageSize, own |-> o]
        /\ n > 0 /\ f < TotalBlocks /\ PageOf(HeapEnd) <= s /\ s + n <= PageOf(SpaceTop)

\* The region r in pages: n of them from the address s on, at the frames from f on.
RegionIs(r, s, n, f) ==
    /\ r.start = s * PageSize /\ r.size = n * PageSize /\ r.pa = f * PageSize
    /\ n > 0 /\ r.own \in BOOLEAN
    /\ PageOf(r.start) = s /\ Pages(r.size) = n /\ PageOf(r.pa) = f
    /\ VPages(r) = s .. s + n - 1 /\ PagesOf(r) = f .. f + n - 1

\* Multiples of the page size.
LEMMA PageMul ==
    ASSUME NEW s \in Nat
    PROVE  /\ s * PageSize \in Nat /\ PageOf(s * PageSize) = s /\ Pages(s * PageSize) = s
           /\ (s * PageSize) % PageSize = 0
<1>1. PICK P \in Nat \ {0} : P = PageSize
  BY PagingAssumption
<1>2. (s * P + 0) \div P = s /\ (s * P + 0) % P = 0
  BY ONLY s \in Nat, P \in Nat \ {0}, QuotientUnique
<1>3. s * P \in Nat /\ s * P + 0 = s * P
  OBVIOUS
<1> QED BY <1>1, <1>2, <1>3 DEF PageOf, Pages

\* Multiplication by the page size keeps the order.
LEMMA MulOrder ==
    ASSUME NEW j \in Nat, NEW k \in Nat
    PROVE  /\ j * PageSize <= k * PageSize <=> j <= k
           /\ j * PageSize < k * PageSize <=> j < k
           /\ j * PageSize = k * PageSize <=> j = k
           /\ j * PageSize + k * PageSize = (j + k) * PageSize
<1>1. PICK P \in Nat \ {0} : P = PageSize
  BY PagingAssumption
<1>2. ASSUME NEW x \in Nat, NEW y \in Nat, x < y PROVE x * P < y * P
  <2>1. PICK d \in Nat : y = x + 1 + d
    <3>1. y - x - 1 \in Nat /\ y = x + 1 + (y - x - 1)
      BY <1>2
    <3> QED BY <3>1
  <2>2. y * P = x * P + P + d * P /\ d * P \in Nat /\ x * P \in Nat
    BY <2>1
  <2> QED BY <2>2
<1>3. j * P \in Nat /\ k * P \in Nat
  OBVIOUS
<1>4. /\ j < k => j * P < k * P
      /\ k < j => k * P < j * P
      /\ j = k => j * P = k * P
  BY <1>2
<1>5. j * P + k * P = (j + k) * P
  OBVIOUS
<1> QED BY <1>1, <1>3, <1>4, <1>5

\* An address lies before the page s exactly if its page does.
LEMMA PageOrder ==
    ASSUME NEW a \in Nat, NEW s \in Nat
    PROVE  /\ a < s * PageSize <=> PageOf(a) < s
           /\ s * PageSize <= a <=> s <= PageOf(a)
<1>1. PICK P \in Nat \ {0} : P = PageSize
  BY PagingAssumption
<1>2. PICK b \in Nat, o \in Nat : b = a \div P /\ a = b * P + o /\ o < P
  BY <1>1, Division
<1>3. ASSUME b < s PROVE a < s * P
  <2>1. PICK d \in Nat : s = b + 1 + d
    <3>1. s - b - 1 \in Nat /\ s = b + 1 + (s - b - 1)
      BY <1>3
    <3> QED BY <3>1
  <2>2. s * P = b * P + P + d * P /\ d * P \in Nat /\ b * P \in Nat
    BY <2>1
  <2> QED BY <1>2, <2>2
<1>4. ASSUME s <= b PROVE s * P <= a
  <2>1. PICK d \in Nat : b = s + d
    <3>1. b - s \in Nat /\ b = s + (b - s)
      BY <1>4
    <3> QED BY <3>1
  <2>2. b * P = s * P + d * P /\ d * P \in Nat /\ s * P \in Nat
    BY <2>1
  <2> QED BY <1>2, <2>2
<1>5. s * P \in Nat
  OBVIOUS
<1> QED BY <1>1, <1>2, <1>3, <1>4, <1>5 DEF PageOf

\* An address that is a multiple of a table's reach is the first of its page and
\* of its directory entry.
LEMMA EntryStart ==
    ASSUME NEW a \in Nat, a % (PageSize * PerTable) = 0
    PROVE  /\ a = PageOf(a) * PageSize /\ PageOf(a) = PD_INDEX(a) * PerTable
           /\ PD_INDEX(a) \in Nat /\ PageOf(a) \in Nat
<1>1. PICK P \in Nat \ {0}, T \in Nat \ {0} : P = PageSize /\ T = PerTable
  BY PagingAssumption
<1>2. PICK w \in Nat \ {0} : w = P * T
  OBVIOUS
<1>3. PICK i \in Nat : i = a \div w /\ a = i * w
  <2>0. a % w = 0
    BY <1>1, <1>2
  <2>1. a \div w \in Nat /\ a = (a \div w) * w + (a % w) /\ a % w = 0
    BY ONLY a \in Nat, w \in Nat \ {0}, <2>0, Division
  <2>2. (a \div w) * w \in Nat
    BY <2>1
  <2> QED BY <2>1, <2>2
<1>4. PICK b \in Nat : b = i * T
  OBVIOUS
<1>5. a = b * P
  <2>1. i * w = i * T * P
    BY <1>2
  <2> QED BY <1>3, <1>4, <2>1
<1>6. PageOf(a) = b
  BY <1>1, <1>5, PageMul
<1>7. PD_INDEX(a) = i
  BY <1>1, <1>2, <1>3 DEF PD_INDEX
<1> QED BY <1>1, <1>4, <1>5, <1>6, <1>7

\* Where the pages of an address lie, its directory entry lies.
LEMMA EntryOrder ==
    ASSUME NEW a \in Nat, NEW c \in Nat, c % (PageSize * PerTable) = 0
    PROVE  /\ PageOf(a) < PageOf(c) <=> PD_INDEX(a) < PD_INDEX(c)
           /\ PageOf(c) <= PageOf(a) <=> PD_INDEX(c) <= PD_INDEX(a)
<1>1. PICK T \in Nat \ {0} : T = PerTable
  BY PagingAssumption
<1>2. PICK i \in Nat, j \in Nat : /\ i = PD_INDEX(a) /\ j = PT_INDEX(a) /\ j < T
                                  /\ PageOf(a) = i * T + j
  BY <1>1, IndexOfPage
<1>3. PICK k \in Nat : k = PD_INDEX(c) /\ PageOf(c) = k * T
  BY <1>1, EntryStart
<1>4. ASSUME i < k PROVE i * T + j < k * T
  <2>1. PICK d \in Nat : k = i + 1 + d
    <3>1. k - i - 1 \in Nat /\ k = i + 1 + (k - i - 1)
      BY <1>4
    <3> QED BY <3>1
  <2>2. k * T = i * T + T + d * T /\ d * T \in Nat /\ i * T \in Nat
    BY <2>1
  <2> QED BY <1>2, <2>2
<1>5. ASSUME k <= i PROVE k * T <= i * T + j
  <2>1. PICK d \in Nat : i = k + d
    <3>1. i - k \in Nat /\ i = k + (i - k)
      BY <1>5
    <3> QED BY <3>1
  <2>2. i * T = k * T + d * T /\ d * T \in Nat /\ k * T \in Nat
    BY <2>1
  <2> QED BY <1>2, <2>2
<1>6. k * T \in Nat /\ i * T + j \in Nat
  OBVIOUS
<1> QED BY <1>2, <1>3, <1>4, <1>5, <1>6

\* The bounds of the address space are bounds of pages and of directory entries.
LEMMA Bounds ==
    /\ HeapBase \in Nat /\ HeapEnd \in Nat /\ SpaceTop \in Nat
    /\ HeapBase = PageOf(HeapBase) * PageSize /\ HeapEnd = PageOf(HeapEnd) * PageSize
    /\ SpaceTop = PageOf(SpaceTop) * PageSize
    /\ PageOf(HeapBase) \in Nat /\ PageOf(HeapEnd) \in Nat /\ PageOf(SpaceTop) \in Nat
    /\ PD_INDEX(HeapBase) \in Nat /\ PD_INDEX(HeapEnd) \in Nat /\ PD_INDEX(SpaceTop) \in Nat
    /\ TotalBlocks <= PageOf(HeapBase) /\ PageOf(HeapBase) < PageOf(HeapEnd)
    /\ PageOf(HeapEnd) <= PageOf(SpaceTop)
<1>1. /\ HeapBase \in Nat /\ HeapEnd \in Nat /\ SpaceTop \in Nat /\ TotalBlocks \in Nat
      /\ HeapBase % (PageSize * PerTable) = 0 /\ HeapEnd % (PageSize * PerTable) = 0
      /\ SpaceTop % (PageSize * PerTable) = 0
      /\ TotalBlocks * PageSize <= HeapBase /\ HeapBase < HeapEnd /\ HeapEnd <= SpaceTop
  BY PagingAssumption
<1>2. PICK b \in Nat, e \in Nat, t \in Nat :
        b = PageOf(HeapBase) /\ e = PageOf(HeapEnd) /\ t = PageOf(SpaceTop)
  BY <1>1, EntryStart
<1>3. HeapBase = b * PageSize /\ HeapEnd = e * PageSize /\ SpaceTop = t * PageSize
  BY <1>1, <1>2, EntryStart
<1>4. TotalBlocks <= b /\ b < e /\ e <= t
  BY <1>1, <1>3, MulOrder
<1>5. PD_INDEX(HeapBase) \in Nat /\ PD_INDEX(HeapEnd) \in Nat /\ PD_INDEX(SpaceTop) \in Nat
  BY <1>1, EntryStart
<1> QED BY <1>1, <1>2, <1>3, <1>4, <1>5

\* Pages between the user heap and the top have entries of the process.
LEMMA UserRangeOf ==
    ASSUME NEW s \in Nat, NEW n \in Nat, PageOf(HeapEnd) <= s, s + n <= PageOf(SpaceTop)
    PROVE  UserRange(s, n)
<1> SUFFICES ASSUME NEW a \in Nat, PageOf(a) \in s .. s + n - 1 PROVE UserIndex(PD_INDEX(a))
  BY DEF UserRange
<1>1. PageOf(HeapEnd) <= PageOf(a) /\ PageOf(a) < PageOf(SpaceTop)
  BY Bounds
<1>2. PD_INDEX(HeapEnd) <= PD_INDEX(a) /\ PD_INDEX(a) < PD_INDEX(SpaceTop)
  BY <1>1, Bounds, EntryOrder, PagingAssumption
<1> QED BY <1>2, IndexOfPage DEF UserIndex

\* A region has its pages.
LEMMA RegionPages ==
    ASSUME NEW r, IsRegion(r)
    PROVE  \E s, n, f \in Nat : /\ RegionIs(r, s, n, f) /\ f < TotalBlocks
                                /\ PageOf(HeapEnd) <= s /\ s + n <= PageOf(SpaceTop)
<1>1. PICK s \in Nat, n \in Nat, f \in Nat, o \in BOOLEAN :
        /\ r = [start |-> s * PageSize, size |-> n * PageSize, pa |-> f * PageSize, own |-> o]
        /\ n > 0 /\ f < TotalBlocks /\ PageOf(HeapEnd) <= s /\ s + n <= PageOf(SpaceTop)
  BY DEF IsRegion
<1>2. /\ r.start = s * PageSize /\ r.size = n * PageSize /\ r.pa = f * PageSize /\ r.own = o
  BY <1>1
<1>3. PageOf(s * PageSize) = s /\ Pages(n * PageSize) = n /\ PageOf(f * PageSize) = f
  BY PageMul
<1>4. RegionIs(r, s, n, f)
  BY <1>1, <1>2, <1>3 DEF RegionIs, VPages, PagesOf
<1> QED BY <1>1, <1>4
-----------------------------------------------------------------------------
(* What holds of the machine between two calls. *)

\* Finitely many regions that are apart.
Regular(S) ==
    /\ IsFiniteSet(S) /\ \A r \in S : IsRegion(r)
    /\ \A r, o \in S : r # o => VPages(r) \cap VPages(o) = {}

\* A process: only a live one has regions and stacks, and its regions are apart.
IsProc(c) ==
    /\ c = [st |-> c.st, priv |-> c.priv, cr3 |-> c.cr3, regs |-> c.regs, caps |-> c.caps,
            stacks |-> c.stacks]
    /\ c.st # "live" => c.regs = {} /\ c.stacks = {}
    /\ Regular(c.regs) /\ IsFiniteSet(c.stacks)

Shape(m) ==
    /\ IsMachine(m) /\ m.proc = [q \in Proc |-> m.proc[q]]
    /\ \A q \in Proc : IsProc(m.proc[q])

\* The directories of the live processes.
DirsOf(m) == {m.proc[q].cr3 : q \in {k \in Proc : Live(m, k)}}

DirsApart(m) ==
    \A p, q \in Proc : Live(m, p) /\ Live(m, q) /\ m.proc[p].cr3 = m.proc[q].cr3 => p = q

\* What regions show at the page b.
Shown(regs, b) ==
    {Entry(PageOf(r.pa) + (b - PageOf(r.start)), TRUE, FALSE) : r \in {q \in regs : b \in VPages(q)}}

\* Above the user heap the directory d shows these regions and nothing else.
Walks(m, d, regs) ==
    \A a \in Nat : PageOf(HeapEnd) <= PageOf(a) => Translate(m, d, a) = Shown(regs, PageOf(a))

AllWalks(m) == \A p \in Proc : Live(m, p) => Walks(m, m.proc[p].cr3, m.proc[p].regs)

\* All of memory lies under the 4 MB pages of the master directory.
Identity(m) ==
    \A b \in Blocks :
        /\ b \div PerTable \in DOMAIN m.ent[KernelDir]
        /\ m.ent[KernelDir][b \div PerTable] = Entry((b \div PerTable) * PerTable, FALSE, TRUE)

\* Pages of the kernel and of the modules, and those of the user heap.
Fixed == (0 .. FirstFree - 1) \cup {Modules[i] : i \in DOMAIN Modules}
HeapFrames(m) == {e.frame : e \in UNION {Translate(m, KernelDir, va) :
                                va \in {a \in HeapBase .. HeapEnd - 1 : a % PageSize = 0}}}
Base(m) == Fixed \cup HeapFrames(m)

\* The tables of a machine agree with its processes.
TablesSound(m) ==
    /\ Structs(m, DirsOf(m)) /\ DirsApart(m) /\ AllWalks(m)
    /\ Identity(m) /\ Fixed \cap HeapFrames(m) = {}

\* The page b belongs to a region of a process.
Held(P, b) == \E q \in Proc : \E r \in P[q].regs : r.own /\ b \in PagesOf(r)

OneOwner(P) ==
    \A p, q \in Proc : \A r \in P[p].regs, o \in P[q].regs : \A b :
        r.own /\ o.own /\ b \in PagesOf(r) /\ b \in PagesOf(o) => p = q /\ r = o

\* The pages in use are those of B, those of X, which a call has taken and no region
\* holds yet, and those of the regions, each only once.
PagesSound(u, f, P, B, X) ==
    /\ u \subseteq Blocks /\ f = TotalBlocks - Cardinality(u)
    /\ \A b : b \in u <=> b \in B \/ b \in X \/ Held(P, b)
    /\ \A b \in X : b \notin B
    /\ \A b : Held(P, b) => b \notin X /\ b \notin B
    /\ OneOwner(P)

\* The machine in the middle of a call that has taken the pages X.
Core(m, X) ==
    Shape(m) /\ TablesSound(m) /\ PagesSound(m.used, m.free, m.proc, Base(m), X)

\* The master directory and what it shows are the same.
SameKernel(m, m2) == m2.ent[KernelDir] = m.ent[KernelDir] /\ SameWalks(m, m2, KernelDir)

\* Then the user heap and the identity mapping are.
LEMMA KernelKept ==
    ASSUME NEW m, NEW m2, SameKernel(m, m2)
    PROVE  HeapFrames(m2) = HeapFrames(m) /\ Base(m2) = Base(m) /\ (Identity(m) => Identity(m2))
<1>1. \A a \in HeapBase .. HeapEnd - 1 : Translate(m2, KernelDir, a) = Translate(m, KernelDir, a)
  BY Bounds DEF SameKernel, SameWalks
<1>2. {Translate(m2, KernelDir, va) : va \in {a \in HeapBase .. HeapEnd - 1 : a % PageSize = 0}}
      = {Translate(m, KernelDir, va) : va \in {a \in HeapBase .. HeapEnd - 1 : a % PageSize = 0}}
  BY <1>1
<1>3. HeapFrames(m2) = HeapFrames(m)
  BY <1>2, Zenon DEF HeapFrames
<1> QED BY <1>3 DEF Base, Identity, SameKernel

\* The region r has addresses that none of these has.
ApartFrom(regs, r) == \A o \in regs : VPages(o) \cap VPages(r) = {}

\* A region more is shown at its pages.
LEMMA ShownAdd ==
    ASSUME NEW regs, NEW r, NEW b, ApartFrom(regs, r)
    PROVE  /\ b \in VPages(r) => Shown(regs \cup {r}, b)
                = {Entry(PageOf(r.pa) + (b - PageOf(r.start)), TRUE, FALSE)}
           /\ b \in VPages(r) => Shown(regs, b) = {}
           /\ b \notin VPages(r) => Shown(regs \cup {r}, b) = Shown(regs, b)
<1>1. ASSUME b \in VPages(r)
      PROVE  {q \in regs \cup {r} : b \in VPages(q)} = {r} /\ {q \in regs : b \in VPages(q)} = {}
  BY <1>1 DEF ApartFrom
<1>2. ASSUME b \notin VPages(r)
      PROVE  {q \in regs \cup {r} : b \in VPages(q)} = {q \in regs : b \in VPages(q)}
  BY <1>2 DEF ApartFrom
<1> QED BY <1>1, <1>2 DEF Shown

\* And is gone with it.
LEMMA ShownDrop ==
    ASSUME NEW regs, NEW r \in regs, NEW b,
           \A o \in regs : o # r => VPages(o) \cap VPages(r) = {}
    PROVE  /\ b \in VPages(r) => Shown(regs \ {r}, b) = {}
           /\ b \notin VPages(r) => Shown(regs \ {r}, b) = Shown(regs, b)
<1>1. ASSUME b \in VPages(r)
      PROVE  {q \in regs \ {r} : b \in VPages(q)} = {}
  BY <1>1
<1>2. ASSUME b \notin VPages(r)
      PROVE  {q \in regs \ {r} : b \in VPages(q)} = {q \in regs : b \in VPages(q)}
  BY <1>2
<1> QED BY <1>1, <1>2 DEF Shown

-----------------------------------------------------------------------------
(* Pages that come and go. *)

\* The regions of two process tables differ at p only, where they are S.
RegsAt(P, Q, p, S) == \A q \in Proc : Q[q].regs = IF q = p THEN S ELSE P[q].regs

\* A region that owns what it maps takes over pages of X.
LEMMA PagesAdd ==
    ASSUME NEW u, NEW f, NEW P, NEW Q, NEW B, NEW X, PagesSound(u, f, P, B, X), NEW p \in Proc,
           NEW r, RegsAt(P, Q, p, P[p].regs \cup {r}), r.own = TRUE, PagesOf(r) \subseteq X
    PROVE  PagesSound(u, f, Q, B, X \ PagesOf(r))
<1>1. \A b : Held(Q, b) <=> Held(P, b) \/ b \in PagesOf(r)
  BY DEF Held, RegsAt
<1>2. ASSUME NEW k \in Proc, NEW l \in Proc, NEW c \in Q[k].regs, NEW d \in Q[l].regs, NEW b,
             c.own, d.own, b \in PagesOf(c), b \in PagesOf(d)
      PROVE  k = l /\ c = d
  <2>1. ASSUME NEW i \in Proc, NEW e \in Q[i].regs PROVE e \in P[i].regs \/ (i = p /\ e = r)
    BY DEF RegsAt
  <2>2. ASSUME NEW i \in Proc, NEW e \in P[i].regs, e.own, b \in PagesOf(e) PROVE b \notin X
    BY <2>2 DEF PagesSound, Held
  <2>3. CASE c \in P[k].regs /\ d \in P[l].regs
    BY <1>2, <2>3 DEF PagesSound, OneOwner
  <2>4. CASE c \in P[k].regs /\ l = p /\ d = r
    BY <1>2, <2>2, <2>4
  <2>5. CASE d \in P[l].regs /\ k = p /\ c = r
    BY <1>2, <2>2, <2>5
  <2> QED BY <2>1, <2>3, <2>4, <2>5
<1>3. OneOwner(Q)
  BY <1>2 DEF OneOwner
<1> QED BY <1>1, <1>3 DEF PagesSound

\* One that does not own changes nothing.
LEMMA PagesAddAlien ==
    ASSUME NEW u, NEW f, NEW P, NEW Q, NEW B, NEW X, PagesSound(u, f, P, B, X), NEW p \in Proc,
           NEW r, RegsAt(P, Q, p, P[p].regs \cup {r}), r.own = FALSE
    PROVE  PagesSound(u, f, Q, B, X)
<1>1. \A b : Held(Q, b) <=> Held(P, b)
  BY DEF Held, RegsAt
<1>2. ASSUME NEW i \in Proc, NEW e \in Q[i].regs, e.own PROVE e \in P[i].regs
  BY <1>2 DEF RegsAt
<1>3. OneOwner(Q)
  BY <1>2 DEF PagesSound, OneOwner
<1> QED BY <1>1, <1>3 DEF PagesSound

\* A region that goes leaves its pages to X.
LEMMA PagesDrop ==
    ASSUME NEW u, NEW f, NEW P, NEW Q, NEW B, NEW X, PagesSound(u, f, P, B, X), NEW p \in Proc,
           NEW r \in P[p].regs, RegsAt(P, Q, p, P[p].regs \ {r}), r.own = TRUE
    PROVE  PagesSound(u, f, Q, B, X \cup PagesOf(r))
<1>1. \A b : b \in PagesOf(r) => Held(P, b) /\ ~Held(Q, b)
  BY DEF Held, RegsAt, PagesSound, OneOwner
<1>2. \A b : Held(P, b) <=> Held(Q, b) \/ b \in PagesOf(r)
  BY DEF Held, RegsAt
<1>3. ASSUME NEW i \in Proc, NEW e \in Q[i].regs PROVE e \in P[i].regs
  BY DEF RegsAt
<1>4. OneOwner(Q)
  BY <1>3 DEF PagesSound, OneOwner
<1> QED BY <1>1, <1>2, <1>4 DEF PagesSound

\* A region that does not own its pages goes: no page changes hands.
LEMMA PagesDropAlien ==
    ASSUME NEW u, NEW f, NEW P, NEW Q, NEW B, NEW X, PagesSound(u, f, P, B, X), NEW p \in Proc,
           NEW r \in P[p].regs, RegsAt(P, Q, p, P[p].regs \ {r}), r.own = FALSE
    PROVE  PagesSound(u, f, Q, B, X)
<1>1. \A b : Held(P, b) <=> Held(Q, b)
  BY DEF Held, RegsAt
<1>3. ASSUME NEW i \in Proc, NEW e \in Q[i].regs PROVE e \in P[i].regs
  BY DEF RegsAt
<1>4. OneOwner(Q)
  BY <1>3 DEF PagesSound, OneOwner
<1> QED BY <1>1, <1>4 DEF PagesSound

\* The pages are accounted for by the regions alone.
LEMMA PagesSame ==
    ASSUME NEW u, NEW f, NEW P, NEW Q, NEW B, NEW X, PagesSound(u, f, P, B, X),
           \A q \in Proc : Q[q].regs = P[q].regs
    PROVE  PagesSound(u, f, Q, B, X)
<1>1. \A b : Held(P, b) <=> Held(Q, b)
  BY DEF Held
<1>2. OneOwner(Q)
  BY DEF PagesSound, OneOwner
<1> QED BY <1>1, <1>2 DEF PagesSound

\* How many pages a run has.
LEMMA RunLength ==
    ASSUME NEW b \in Nat, NEW n \in Nat
    PROVE  IsFiniteSet(b .. b + n - 1) /\ Cardinality(b .. b + n - 1) = n
<1>1. CASE n = 0
  BY <1>1, FS_Interval
<1>2. CASE n # 0
  BY <1>2, FS_Interval
<1> QED BY <1>1, <1>2

\* Sets of pages are finite.
LEMMA BlocksFinite ==
    ASSUME NEW u \in SUBSET Blocks
    PROVE  IsFiniteSet(u) /\ Cardinality(u) \in Nat /\ IsFiniteSet(Blocks)
<1>1. IsFiniteSet(Blocks)
  BY PagingAssumption, FS_Interval DEF Blocks
<1> QED BY <1>1, FS_Subset, FS_CardinalityType

\* A free run is taken.
LEMMA PagesAlloc ==
    ASSUME NEW u, NEW f, NEW P, NEW B, NEW X, PagesSound(u, f, P, B, X),
           NEW b \in Nat, NEW n \in Nat, b .. b + n - 1 \subseteq Blocks \ u
    PROVE  PagesSound(u \cup b .. b + n - 1, f - n, P, B, X \cup b .. b + n - 1)
<1>1. PICK I : I = b .. b + n - 1
  OBVIOUS
<1>2. IsFiniteSet(I) /\ Cardinality(I) = n
  BY <1>1, RunLength
<1>3. u \in SUBSET Blocks /\ f = TotalBlocks - Cardinality(u) /\ I \subseteq Blocks \ u
  BY <1>1 DEF PagesSound
<1>4. IsFiniteSet(u) /\ Cardinality(u) \in Nat
  BY <1>3, BlocksFinite
<1>5. Cardinality(u \cup I) = Cardinality(u) + n
  <2>1. Cardinality(u \cup I) = Cardinality(u) + Cardinality(I) - Cardinality(u \cap I)
    BY <1>2, <1>4, FS_Union
  <2>2. u \cap I = {}
    BY <1>3
  <2> QED BY <1>2, <1>4, <2>1, <2>2, FS_EmptySet
<1>6. f - n = TotalBlocks - Cardinality(u \cup I)
  BY <1>3, <1>4, <1>5, PagingAssumption
<1>7. PagesSound(u \cup I, f - n, P, B, X \cup I)
  BY <1>3, <1>6 DEF PagesSound
<1> QED BY <1>1, <1>7

\* Pages of X are given back.
LEMMA PagesFree ==
    ASSUME NEW u, NEW f, NEW P, NEW B, NEW X, PagesSound(u, f, P, B, X),
           NEW I, I \subseteq X
    PROVE  PagesSound(u \ (u \cap I), f + Cardinality(u \cap I), P, B, X \ I)
<1>1. PICK J : J = u \cap I
  OBVIOUS
<1>2. u \in SUBSET Blocks /\ f = TotalBlocks - Cardinality(u) /\ J \in SUBSET Blocks
  BY <1>1 DEF PagesSound
<1>3. IsFiniteSet(u) /\ Cardinality(u) \in Nat /\ IsFiniteSet(J) /\ Cardinality(J) \in Nat
  BY <1>2, BlocksFinite
<1>4. Cardinality(u \ J) = Cardinality(u) - Cardinality(J)
  <2>1. Cardinality(u \ J) = Cardinality(u) - Cardinality(u \cap J)
    BY <1>3, FS_Difference
  <2>2. u \cap J = J
    BY <1>1
  <2> QED BY <2>1, <2>2
<1>5. f + Cardinality(J) = TotalBlocks - Cardinality(u \ J)
  BY <1>2, <1>3, <1>4, PagingAssumption
<1>6. PagesSound(u \ J, f + Cardinality(J), P, B, X \ I)
  BY <1>1, <1>2, <1>5 DEF PagesSound
<1> QED BY <1>1, <1>6

-----------------------------------------------------------------------------
(* Machines whose address spaces are the same. *)

SameSpace(m, x, q) ==
    /\ Live(x, q) <=> Live(m, q)
    /\ Live(m, q) => x.proc[q].cr3 = m.proc[q].cr3
    /\ x.proc[q].regs = m.proc[q].regs

SameSpaces(m, x) ==
    /\ SameTables(m, x) /\ x.used = m.used /\ x.free = m.free
    /\ x.proc = [q \in Proc |-> x.proc[q]]
    /\ \A q \in Proc : IsProc(x.proc[q]) /\ SameSpace(m, x, q)

\* Equal tables and equal spaces are sound together.
LEMMA TablesSame ==
    ASSUME NEW m, NEW x, TablesSound(m), SameTables(m, x),
           \A q \in Proc : SameSpace(m, x, q)
    PROVE  TablesSound(x) /\ Base(x) = Base(m)
<1>1. \A q \in Proc : /\ Live(x, q) <=> Live(m, q)
                      /\ Live(m, q) => x.proc[q].cr3 = m.proc[q].cr3
                      /\ x.proc[q].regs = m.proc[q].regs
  BY DEF SameSpace
<1>2. DirsOf(x) = DirsOf(m)
  <2>1. \A f : f \in DirsOf(x) <=> \E q \in Proc : Live(x, q) /\ f = x.proc[q].cr3
    BY DEF DirsOf
  <2>2. \A f : f \in DirsOf(m) <=> \E q \in Proc : Live(m, q) /\ f = m.proc[q].cr3
    BY DEF DirsOf
  <2>3. \A f : f \in DirsOf(x) <=> f \in DirsOf(m)
    BY <1>1, <2>1, <2>2
  <2> QED BY <2>3
<1>3. \A e : SameWalks(m, x, e)
  BY DEF SameTables, SameWalks, Translate, Present
<1>4. Structs(x, DirsOf(x))
  <2>1. PICK D : D = DirsOf(m)
    OBVIOUS
  <2>2. Structs(m, D)
    BY <2>1 DEF TablesSound
  <2>3. Beside(m, x, D, KernelDir)
    BY <2>2, SameBeside
  <2> QED BY <1>2, <2>1, <2>3 DEF Beside
<1>5. DirsApart(x)
  BY <1>1 DEF TablesSound, DirsApart
<1>6. AllWalks(x)
  BY <1>1, <1>3 DEF TablesSound, AllWalks, Walks, SameWalks
<1>7. SameKernel(m, x)
  BY <1>3 DEF SameKernel, SameTables
<1>8. HeapFrames(x) = HeapFrames(m) /\ Base(x) = Base(m) /\ Identity(x)
  BY <1>7, KernelKept DEF TablesSound
<1> QED BY <1>4, <1>5, <1>6, <1>8 DEF TablesSound

\* What keeps the pages, the tables and the spaces keeps the invariant.
LEMMA CoreSame ==
    ASSUME NEW m, NEW x, NEW X, Core(m, X), SameSpaces(m, x)
    PROVE  Core(x, X)
<1>1. TablesSound(x) /\ Base(x) = Base(m)
  BY TablesSame DEF Core, SameSpaces
<1>2. Shape(x)
  BY DEF SameSpaces, SameTables, Shape
<1>3. PagesSound(m.used, m.free, m.proc, Base(m), X) /\ \A q \in Proc : x.proc[q].regs = m.proc[q].regs
  BY DEF Core, SameSpaces, SameSpace
<1>4. PagesSound(m.used, m.free, x.proc, Base(m), X)
  BY <1>3, PagesSame
<1> QED BY <1>1, <1>2, <1>4 DEF Core, SameSpaces

\* A step that touches neither tables, pages nor processes.
Idle(m, x) == SameTables(m, x) /\ x.used = m.used /\ x.free = m.free /\ x.proc = m.proc

\* A step that writes only its result keeps the invariant.
LEMMA CoreIdle ==
    ASSUME NEW m, NEW x, NEW X, Core(m, X), Idle(m, x)
    PROVE  Core(x, X)
<1>1. SameSpaces(m, x)
  BY DEF Idle, SameSpaces, SameSpace, Live, Core, Shape
<1> QED BY <1>1, CoreSame

\* Two such steps in a row are one.
LEMMA IdleTrans ==
    ASSUME NEW m, NEW x, NEW y, Idle(m, x), Idle(x, y)
    PROVE  Idle(m, y)
BY DEF Idle, SameTables

\* kmalloc and the reports of a call are such steps.
LEMMA IdleSteps ==
    ASSUME NEW m, IsMachine(m), NEW v
    PROVE  /\ Idle(m, m) /\ Idle(m, kmalloc(m))
           /\ Idle(m, Failed(m)) /\ ~Failed(m).ok
           /\ Idle(m, Returns(m, v)) /\ Returns(m, v).ok /\ Returns(m, v).out = v
<1>1. ASSUME NEW x, NEW k, NEW h, NEW l, x = [m EXCEPT !.ok = k, !.heap = h, !.out = l]
      PROVE  Idle(m, x) /\ x.ok = k /\ x.out = l
  BY <1>1 DEF Idle, SameTables, IsMachine
<1>2. Idle(m, m)
  BY DEF Idle, SameTables
<1>3. \E k, h : kmalloc(m) = [m EXCEPT !.ok = k, !.heap = h, !.out = m.out]
  <2>1. PICK k, h : k = (m.heap > 0) /\ h = IF m.heap > 0 THEN m.heap - 1 ELSE m.heap
    OBVIOUS
  <2>2. kmalloc(m) = [m EXCEPT !.ok = k, !.heap = h]
    BY <2>1, Zenon DEF kmalloc
  <2>3. [m EXCEPT !.ok = k, !.heap = h] = [m EXCEPT !.ok = k, !.heap = h, !.out = m.out]
    BY DEF IsMachine
  <2> QED BY <2>2, <2>3
<1>4. Idle(m, kmalloc(m))
  BY <1>1, <1>3
<1>5. Failed(m) = [m EXCEPT !.ok = FALSE, !.heap = m.heap, !.out = 0]
  BY DEF Failed, IsMachine
<1>6. Returns(m, v) = [m EXCEPT !.ok = TRUE, !.heap = m.heap, !.out = v]
  BY DEF Returns, IsMachine
<1>7. Idle(m, Failed(m)) /\ Failed(m).ok = FALSE
  BY <1>1, <1>5
<1>8. Idle(m, Returns(m, v)) /\ Returns(m, v).ok = TRUE /\ Returns(m, v).out = v
  <2>1. PICK x : x = Returns(m, v)
    OBVIOUS
  <2>2. x = [m EXCEPT !.ok = TRUE, !.heap = m.heap, !.out = v]
    BY <1>6, <2>1
  <2>3. Idle(m, x) /\ x.ok = TRUE /\ x.out = v
    BY <2>2 DEF Idle, SameTables, IsMachine
  <2> QED BY <2>1, <2>3
<1> QED BY <1>2, <1>4, <1>7, <1>8
-----------------------------------------------------------------------------
(* Regions that come and go. *)

\* A process table with another entry at p.
LEMMA ProcPut ==
    ASSUME NEW P, P = [q \in Proc |-> P[q]], NEW p \in Proc, NEW c, NEW Q, Q = [P EXCEPT ![p] = c]
    PROVE  /\ Q = [q \in Proc |-> Q[q]] /\ Q[p] = c
           /\ \A q \in Proc : q # p => Q[q] = P[q]
OBVIOUS

\* The fields of a process.
IsRecord(c) ==
    c = [st |-> c.st, priv |-> c.priv, cr3 |-> c.cr3, regs |-> c.regs, caps |-> c.caps,
         stacks |-> c.stacks]

\* c with the regions S.
WithRegs(c, S) == [c EXCEPT !.regs = S]

\* The fields of a process with other regions.
LEMMA RegsFields ==
    ASSUME NEW c, IsRecord(c), NEW S
    PROVE  LET d == WithRegs(c, S)
           IN  /\ IsRecord(d) /\ d.st = c.st /\ d.priv = c.priv /\ d.cr3 = c.cr3 /\ d.regs = S
               /\ d.caps = c.caps /\ d.stacks = c.stacks
BY DEF IsRecord, WithRegs

\* The processes of x are those of m, except that p has the regions S.
Regioned(m, x, p, S) == x.proc = [m.proc EXCEPT ![p] = WithRegs(m.proc[p], S)]

\* Only the regions of p differ.
OnlyRegs(m, x, p, S) ==
    /\ RegsAt(m.proc, x.proc, p, S) /\ x.proc[p] = WithRegs(m.proc[p], S)
    /\ \A q \in Proc : q # p => x.proc[q] = m.proc[q]
    /\ \A q \in Proc : x.proc[q].st = m.proc[q].st /\ x.proc[q].cr3 = m.proc[q].cr3

\* A process table with the regions S at p, which are regions and apart.
LEMMA RegionedShape ==
    ASSUME NEW m, NEW x, NEW p \in Proc, NEW S, Shape(m), Live(m, p), IsMachine(x),
           Regioned(m, x, p, S), Regular(S)
    PROVE  Shape(x) /\ OnlyRegs(m, x, p, S)
<1>1. PICK c, d : c = m.proc[p] /\ d = WithRegs(c, S)
  OBVIOUS
<1>2. IsRecord(c) /\ c.st = "live" /\ IsFiniteSet(c.stacks)
  BY <1>1 DEF Shape, IsProc, IsRecord, Live
<1>3. /\ IsRecord(d) /\ d.st = c.st /\ d.cr3 = c.cr3 /\ d.regs = S /\ d.stacks = c.stacks
  BY <1>1, <1>2, RegsFields
<1>4. /\ x.proc = [q \in Proc |-> x.proc[q]] /\ x.proc[p] = d
      /\ \A q \in Proc : q # p => x.proc[q] = m.proc[q]
  <2>1. PICK P, Q : P = m.proc /\ Q = x.proc
    OBVIOUS
  <2>2. P = [q \in Proc |-> P[q]] /\ Q = [P EXCEPT ![p] = d]
    BY <1>1, <2>1 DEF Shape, Regioned
  <2>3. Q = [q \in Proc |-> Q[q]] /\ Q[p] = d /\ \A q \in Proc : q # p => Q[q] = P[q]
    BY ONLY <2>2, p \in Proc, ProcPut
  <2> QED BY <2>1, <2>3
<1>5. IsProc(d)
  BY <1>2, <1>3 DEF IsProc, IsRecord
<1>6. \A q \in Proc : IsProc(x.proc[q])
  BY <1>4, <1>5 DEF Shape
<1>7. Shape(x)
  BY <1>4, <1>6 DEF Shape
<1>8. RegsAt(m.proc, x.proc, p, S)
  BY <1>3, <1>4 DEF RegsAt
<1>9. \A q \in Proc : x.proc[q].st = m.proc[q].st /\ x.proc[q].cr3 = m.proc[q].cr3
  BY <1>1, <1>3, <1>4
<1> QED BY <1>1, <1>4, <1>7, <1>8, <1>9 DEF OnlyRegs

\* New mappings of p, shown by its new regions, leave all tables sound.
LEMMA TablesRegion ==
    ASSUME NEW m, NEW x, NEW p \in Proc, TablesSound(m), Live(m, p),
           Beside(m, x, DirsOf(m), m.proc[p].cr3),
           \A q \in Proc : x.proc[q].st = m.proc[q].st /\ x.proc[q].cr3 = m.proc[q].cr3,
           \A q \in Proc : q # p => x.proc[q].regs = m.proc[q].regs,
           Walks(x, m.proc[p].cr3, x.proc[p].regs)
    PROVE  TablesSound(x) /\ Base(x) = Base(m)
<1>0. PICK D, d : D = DirsOf(m) /\ d = m.proc[p].cr3
  OBVIOUS
<1>1. \A q \in Proc : Live(x, q) <=> Live(m, q)
  BY DEF Live
<1>2. DirsOf(x) = D
  BY <1>0, <1>1 DEF DirsOf
<1>3. /\ Structs(x, D) /\ x.ent[KernelDir] = m.ent[KernelDir]
      /\ \A e \in (D \cup {KernelDir}) \ {d} : SameWalks(m, x, e)
  BY <1>0 DEF Beside
<1>4. DirsApart(x)
  BY <1>1 DEF TablesSound, DirsApart
<1>5. ASSUME NEW q \in Proc, Live(x, q) PROVE Walks(x, x.proc[q].cr3, x.proc[q].regs)
  <2>1. CASE q = p
    BY <2>1
  <2>2. CASE q # p
    <3>1. m.proc[q].cr3 \in D \ {d}
      BY <1>0, <1>1, <1>5, <2>2 DEF DirsOf, TablesSound, DirsApart
    <3>2. SameWalks(m, x, m.proc[q].cr3)
      BY <1>3, <3>1
    <3>3. Walks(m, m.proc[q].cr3, m.proc[q].regs)
      BY <1>1, <1>5 DEF TablesSound, AllWalks
    <3>4. Walks(x, m.proc[q].cr3, m.proc[q].regs)
      BY <3>2, <3>3 DEF Walks, SameWalks
    <3> QED BY <2>2, <3>4
  <2> QED BY <2>1, <2>2
<1>6. AllWalks(x)
  BY <1>5 DEF AllWalks
<1>7. SameKernel(m, x)
  <2>1. KernelDir # d
    <3>1. d \in D /\ Structs(m, D)
      BY <1>0 DEF DirsOf, TablesSound
    <3> QED BY <3>1, DirFrames DEF Structs
  <2> QED BY <1>3, <2>1 DEF SameKernel
<1>8. HeapFrames(x) = HeapFrames(m) /\ Base(x) = Base(m) /\ Identity(x)
  BY <1>7, KernelKept DEF TablesSound
<1> QED BY <1>2, <1>3, <1>4, <1>6, <1>8 DEF TablesSound

\* The directory of a live process.
LEMMA LiveDirectory ==
    ASSUME NEW m, TablesSound(m), NEW p \in Proc, Live(m, p)
    PROVE  /\ Structs(m, DirsOf(m)) /\ m.proc[p].cr3 \in DirsOf(m)
           /\ Directory(m, m.proc[p].cr3) /\ Walks(m, m.proc[p].cr3, m.proc[p].regs)
<1>1. Structs(m, DirsOf(m)) /\ m.proc[p].cr3 \in DirsOf(m)
  BY DEF TablesSound, DirsOf
<1>2. Directory(m, m.proc[p].cr3)
  BY <1>1, StructsDirectory
<1> QED BY <1>1, <1>2 DEF TablesSound, AllWalks

-----------------------------------------------------------------------------
(* A region comes. *)

\* A call that failed and left processes, tables and pages as they were.
GivesUp(m, x, X) == ~x.ok /\ x.proc = m.proc /\ Core(x, X)

\* A call that succeeded and gave the region r to p.
GetsRegion(m, x, p, r, X) ==
    x.ok /\ x.out = r.start /\ Regioned(m, x, p, m.proc[p].regs \cup {r}) /\ Core(x, X)

\* The page r has a room for in the address space of p.
Room(m, p, r) == ApartFrom(m.proc[p].regs, r)

\* The walks of p after r was mapped show r besides the regions before.
LEMMA WalksAdd ==
    ASSUME NEW m, NEW x, NEW d, NEW regs, NEW r, NEW s \in Nat, NEW n \in Nat, NEW f \in Nat,
           RegionIs(r, s, n, f), ApartFrom(regs, r),
           Walks(m, d, regs), Mapped(m, x, d, s, f, n)
    PROVE  Walks(x, d, regs \cup {r})
<1> SUFFICES ASSUME NEW a \in Nat, PageOf(HeapEnd) <= PageOf(a)
             PROVE  Translate(x, d, a) = Shown(regs \cup {r}, PageOf(a))
  BY DEF Walks
<1>1. PICK b \in Nat : b = PageOf(a)
  BY IndexOfPage
<1>2. /\ b \in VPages(r) => Shown(regs \cup {r}, b)
                = {Entry(PageOf(r.pa) + (b - PageOf(r.start)), TRUE, FALSE)}
      /\ b \notin VPages(r) => Shown(regs \cup {r}, b) = Shown(regs, b)
  BY ONLY ApartFrom(regs, r), ShownAdd
<1>3. CASE b \in VPages(r)
  <2>1. Translate(x, d, a) = {Entry(f + (b - s), TRUE, FALSE)}
    BY <1>1, <1>3 DEF Mapped, RegionIs
  <2> QED BY <1>1, <1>2, <1>3, <2>1 DEF RegionIs
<1>4. CASE b \notin VPages(r)
  <2>1. Translate(x, d, a) = Translate(m, d, a)
    BY <1>1, <1>4 DEF Mapped, RegionIs
  <2>2. Translate(m, d, a) = Shown(regs, b)
    BY <1>1 DEF Walks
  <2> QED BY <1>1, <1>2, <1>4, <2>1, <2>2
<1> QED BY <1>3, <1>4

\* Where r has room nothing is mapped.
LEMMA RoomVacant ==
    ASSUME NEW m, NEW d, NEW regs, NEW r, NEW s \in Nat, NEW n \in Nat, NEW f \in Nat,
           RegionIs(r, s, n, f), PageOf(HeapEnd) <= s,
           ApartFrom(regs, r), Walks(m, d, regs)
    PROVE  \A a \in Nat : PageOf(a) \in s .. s + n - 1 => Translate(m, d, a) = {}
<1> SUFFICES ASSUME NEW a \in Nat, PageOf(a) \in s .. s + n - 1 PROVE Translate(m, d, a) = {}
  OBVIOUS
<1>1. PICK b \in Nat : b = PageOf(a)
  BY IndexOfPage
<1>2. b \in VPages(r) => Shown(regs, b) = {}
  BY ShownAdd
<1>3. b \in VPages(r)
  BY <1>1 DEF RegionIs
<1>4. PageOf(HeapEnd) <= b
  BY <1>1, Bounds
<1> QED BY <1>1, <1>2, <1>3, <1>4 DEF Walks

\* The region r of p is sound in a machine that maps it besides those of m.
LEMMA RegionAdded ==
    ASSUME NEW m, NEW x, NEW X, Core(m, X), NEW p \in Proc, Live(m, p), NEW r, IsRegion(r),
           Room(m, p, r), r.own = TRUE => PagesOf(r) \subseteq X,
           IsMachine(x), x.used = m.used, x.free = m.free,
           Regioned(m, x, p, m.proc[p].regs \cup {r}),
           Beside(m, x, DirsOf(m), m.proc[p].cr3),
           Mapped(m, x, m.proc[p].cr3, PageOf(r.start), PageOf(r.pa), Pages(r.size))
    PROVE  Core(x, IF r.own THEN X \ PagesOf(r) ELSE X)
<1>1. PICK d, regs, S : d = m.proc[p].cr3 /\ regs = m.proc[p].regs /\ S = regs \cup {r}
  OBVIOUS
<1>2. Shape(m) /\ TablesSound(m) /\ PagesSound(m.used, m.free, m.proc, Base(m), X)
  BY DEF Core
<1>3. Regular(regs)
  BY <1>1, <1>2 DEF Shape, IsProc
<1>4. ApartFrom(regs, r)
  BY <1>1 DEF Room
<1>5. Regular(S)
  <2>1. IsFiniteSet(S)
    BY <1>1, <1>3, FS_AddElement DEF Regular
  <2> QED BY <1>1, <1>3, <1>4, <2>1 DEF Regular, ApartFrom
<1>6. Regioned(m, x, p, S)
  BY <1>1
<1>7. /\ Shape(x) /\ RegsAt(m.proc, x.proc, p, S)
      /\ \A q \in Proc : q # p => x.proc[q] = m.proc[q]
      /\ \A q \in Proc : x.proc[q].st = m.proc[q].st /\ x.proc[q].cr3 = m.proc[q].cr3
  <2>1. Shape(x) /\ OnlyRegs(m, x, p, S)
    BY <1>2, <1>5, <1>6, RegionedShape
  <2> QED BY <2>1 DEF OnlyRegs
<1>8. x.proc[p].regs = S
  BY <1>7 DEF RegsAt
<1>9. PICK s \in Nat, n \in Nat, f \in Nat : RegionIs(r, s, n, f)
  BY RegionPages
<1>10. Walks(x, d, S)
  <2>1. Walks(m, d, regs)
    BY <1>1, <1>2, LiveDirectory
  <2>2. Mapped(m, x, d, s, f, n)
    BY <1>1, <1>9 DEF RegionIs
  <2> QED BY <1>1, <1>4, <1>9, <2>1, <2>2, WalksAdd
<1>11. TablesSound(x) /\ Base(x) = Base(m)
  BY <1>1, <1>2, <1>7, <1>8, <1>10, TablesRegion, ZenonT(60)
<1>12. RegsAt(m.proc, x.proc, p, m.proc[p].regs \cup {r})
  BY <1>1, <1>7
<1>13. PagesSound(x.used, x.free, x.proc, Base(x), IF r.own THEN X \ PagesOf(r) ELSE X)
  <2>1. CASE r.own = TRUE
    <3>1. PagesSound(m.used, m.free, x.proc, Base(m), X \ PagesOf(r))
      BY <1>2, <1>12, <2>1, PagesAdd
    <3> QED BY <1>11, <2>1, <3>1
  <2>2. CASE r.own = FALSE
    <3>1. PagesSound(m.used, m.free, x.proc, Base(m), X)
      BY <1>2, <1>12, <2>2, PagesAddAlien
    <3> QED BY <1>11, <2>2, <3>1
  <2> QED BY <1>9, <2>1, <2>2 DEF RegionIs
<1> QED BY <1>7, <1>11, <1>13 DEF Core

\* A machine whose walks are those of m and whose processes are.
LEMMA RegionNotAdded ==
    ASSUME NEW m, NEW x, NEW X, Core(m, X), NEW p \in Proc, Live(m, p),
           IsMachine(x), x.used = m.used, x.free = m.free, x.proc = m.proc,
           Beside(m, x, DirsOf(m), m.proc[p].cr3), SameWalks(m, x, m.proc[p].cr3)
    PROVE  Core(x, X)
<1>1. Shape(m) /\ TablesSound(m) /\ PagesSound(m.used, m.free, m.proc, Base(m), X)
  BY DEF Core
<1>2. Walks(m, m.proc[p].cr3, m.proc[p].regs)
  BY <1>1, LiveDirectory
<1>3. Walks(x, m.proc[p].cr3, x.proc[p].regs)
  BY <1>2 DEF Walks, SameWalks
<1>4. TablesSound(x) /\ Base(x) = Base(m)
  BY <1>1, <1>3, TablesRegion
<1>5. Shape(x)
  BY <1>1 DEF Shape
<1> QED BY <1>1, <1>4, <1>5 DEF Core

\* The pages of X after the region r took its own.
Left(X, r) == IF r.own THEN X \ PagesOf(r) ELSE X

\* MapPages for the room of a region of p: all of it, or none.
LEMMA MapRegion ==
    ASSUME NEW m, NEW X, Core(m, X), NEW p \in Proc, Live(m, p), NEW r, IsRegion(r),
           Room(m, p, r), NEW y, SameTables(m, y), NEW k,
           k = MapPages(y, m.proc[p].cr3, r.start, r.pa, Pages(r.size))
    PROVE  /\ Beside(m, k, DirsOf(m), m.proc[p].cr3) /\ TablesOnly(y, k) /\ IsMachine(k)
           /\ k.ok => Mapped(m, k, m.proc[p].cr3, PageOf(r.start), PageOf(r.pa), Pages(r.size))
           /\ ~k.ok => SameWalks(m, k, m.proc[p].cr3)
<1>1. PICK d, D : d = m.proc[p].cr3 /\ D = DirsOf(m)
  OBVIOUS
<1>2. /\ Structs(m, D) /\ d \in D /\ Directory(m, d) /\ Walks(m, d, m.proc[p].regs)
  BY <1>1, LiveDirectory DEF Core
<1>3. PICK s \in Nat, n \in Nat, f \in Nat :
        /\ RegionIs(r, s, n, f) /\ PageOf(HeapEnd) <= s /\ s + n <= PageOf(SpaceTop)
  BY RegionPages
<1>4. Beside(m, y, D, d) /\ Directory(y, d) /\ SameWalks(m, y, d) /\ Structs(y, D)
  <2>1. Beside(m, y, D, d)
    BY <1>2, SameBeside
  <2>2. Directory(y, d) /\ SameWalks(m, y, d)
    BY <1>2, SameTablesKeep
  <2> QED BY <2>1, <2>2 DEF Beside
<1>5. UserRange(s, n)
  BY <1>3, UserRangeOf
<1>6. UserPages(y, d, s, n)
  BY <1>2, <1>4, <1>5, StructsDirectory DEF UserPages, UserRange
<1>7. \A a \in Nat : PageOf(a) \in s .. s + n - 1 => Translate(y, d, a) = {}
  <2>1. \A a \in Nat : PageOf(a) \in s .. s + n - 1 => Translate(m, d, a) = {}
    BY <1>2, <1>3, RoomVacant DEF Room
  <2> QED BY <1>4, <2>1 DEF SameWalks
<1>8. /\ r.start \in Nat /\ r.pa \in Nat /\ ~(r.start < HeapBase)
      /\ PageOf(r.start) = s /\ PageOf(r.pa) = f /\ Pages(r.size) = n
  <2>1. r.start = s * PageSize /\ r.pa = f * PageSize
    BY <1>3 DEF RegionIs
  <2>2. r.start \in Nat /\ r.pa \in Nat
    BY <2>1, PageMul
  <2>3. PageOf(r.start) = s /\ PageOf(r.pa) = f /\ Pages(r.size) = n
    BY <1>3 DEF RegionIs
  <2>4. PICK hb \in Nat : hb = PageOf(HeapBase) /\ HeapBase = hb * PageSize /\ hb <= s
    BY <1>3, Bounds
  <2>5. hb * PageSize <= s * PageSize
    BY <2>4, MulOrder
  <2> QED BY <2>1, <2>2, <2>3, <2>4, <2>5, Bounds
<1>9. k = MapPages(y, d, r.start, r.pa, n)
  BY <1>1, <1>8
<1>10. /\ Keeps(y, k, d) /\ k.ok \in BOOLEAN
       /\ k.ok = TRUE => Mapped(y, k, d, s, f, n)
       /\ k.ok = FALSE => SameWalks(y, k, d)
  <2>1. UserPages(y, d, PageOf(r.start), n)
    BY <1>6, <1>8
  <2>2. \A a \in Nat : PageOf(a) \in PageOf(r.start) .. PageOf(r.start) + n - 1
                          => Translate(y, d, a) = {}
    BY <1>7, <1>8
  <2>3. PICK va \in Nat, pa \in Nat : va = r.start /\ pa = r.pa
    BY <1>8
  <2>4. /\ Directory(y, d) /\ ~(va < HeapBase) /\ UserPages(y, d, PageOf(va), n)
        /\ \A a \in Nat : PageOf(a) \in PageOf(va) .. PageOf(va) + n - 1
                          => Translate(y, d, a) = {}
    BY <1>4, <1>8, <2>1, <2>2, <2>3
  <2>5. PICK u : u = MapPages(y, d, va, pa, n)
    OBVIOUS
  <2>6. /\ Keeps(y, u, d) /\ u.ok \in BOOLEAN
        /\ u.ok = TRUE => Mapped(y, u, d, PageOf(va), PageOf(pa), n)
        /\ u.ok = FALSE => SameWalks(y, u, d)
    BY ONLY <2>4, <2>5, va \in Nat, pa \in Nat, n \in Nat, MapPagesAllOrNothing
  <2> QED BY <1>8, <1>9, <2>3, <2>5, <2>6
<1>11. Beside(y, k, D, d)
  <2>1. UserRange(PageOf(r.start), n)
    BY <1>5, <1>8
  <2> QED BY <1>2, <1>4, <1>8, <1>9, <2>1, MapPagesBeside
<1>12. Beside(m, k, D, d)
  BY <1>4, <1>11, BesideTrans
<1>13. SameWalks(m, y, d) /\ SameWalks(k, k, d)
  BY <1>4 DEF SameWalks
<1>14. /\ Mapped(y, k, d, s, f, n) => Mapped(m, k, d, s, f, n)
       /\ SameWalks(y, k, d) => SameWalks(m, k, d)
  BY ONLY <1>13, MappedTrans
<1>15. TablesOnly(y, k) /\ IsMachine(k)
  BY <1>10 DEF Keeps, Directory
<1> QED BY <1>1, <1>8, <1>10, <1>12, <1>14, <1>15

\* NewRegion: the region with its mappings, or nothing.
LEMMA NewRegionCore ==
    ASSUME NEW m, NEW X, Core(m, X), NEW p \in Proc, Live(m, p), NEW r, IsRegion(r),
           Room(m, p, r), r.own = TRUE => PagesOf(r) \subseteq X,
           NEW x, x = NewRegion(m, p, r)
    PROVE  GetsRegion(m, x, p, r, Left(X, r)) \/ GivesUp(m, x, X)
<1>1. PICK h : h = kmalloc(m)
  OBVIOUS
<1>2. Idle(m, h) /\ Core(h, X) /\ IsMachine(m)
  BY <1>1, IdleSteps, CoreIdle DEF Core, Shape
<1>3. CASE ~h.ok
  <2>1. x = h
    BY <1>1, <1>3 DEF NewRegion, Then
  <2> QED BY <1>2, <1>3, <2>1 DEF GivesUp, Idle
<1>4. r.start # Word
  <2>1. PICK s \in Nat, n \in Nat, f \in Nat :
        /\ RegionIs(r, s, n, f) /\ s + n <= PageOf(SpaceTop)
    BY RegionPages
  <2>2. s <= PageOf(SpaceTop)
    BY <2>1, Bounds
  <2>3. s * PageSize <= PageOf(SpaceTop) * PageSize
    BY <2>2, MulOrder, Bounds
  <2>4. r.start \in Nat /\ r.start <= SpaceTop /\ SpaceTop < Word
    BY <2>1, <2>3, Bounds, PageMul, MemoryAssumption DEF RegionIs
  <2> QED BY <2>4, Bounds, CapAssumption
<1>5. PICK y, k : /\ y = AddRegion(h, p, r)
                  /\ k = MapPages(y, m.proc[p].cr3, r.start, r.pa, Pages(r.size))
  OBVIOUS
<1>6. /\ SameTables(m, y) /\ y.used = m.used /\ y.free = m.free
      /\ Regioned(m, y, p, m.proc[p].regs \cup {r})
  <2>1. /\ SameTables(h, y) /\ y.proc = WithRegion(h, p, r) /\ y.used = h.used /\ y.free = h.free
    BY <1>2, <1>5, AddBack DEF Core, Shape
  <2>2. WithRegion(h, p, r) = [m.proc EXCEPT ![p] = WithRegs(m.proc[p], m.proc[p].regs \cup {r})]
    BY <1>2, Zenon DEF WithRegion, WithRegs, Idle
  <2> QED BY <1>2, <2>1, <2>2 DEF Idle, SameTables, Regioned
<1>7. /\ Beside(m, k, DirsOf(m), m.proc[p].cr3) /\ TablesOnly(y, k) /\ IsMachine(k)
      /\ k.ok => Mapped(m, k, m.proc[p].cr3, PageOf(r.start), PageOf(r.pa), Pages(r.size))
      /\ ~k.ok => SameWalks(m, k, m.proc[p].cr3)
  BY <1>5, <1>6, MapRegion
<1>8. k.used = m.used /\ k.free = m.free /\ Regioned(m, k, p, m.proc[p].regs \cup {r})
  BY <1>6, <1>7 DEF TablesOnly, Regioned
<1>9. CASE h.ok /\ k.ok
  <2>1. x = Returns(k, r.start)
    BY <1>1, <1>4, <1>5, <1>9 DEF NewRegion, Then, OrUndo
  <2>2. Idle(k, x) /\ x.ok /\ x.out = r.start
    BY <1>7, <2>1, IdleSteps
  <2>3. Core(k, Left(X, r))
    BY <1>7, <1>8, <1>9, RegionAdded DEF Left
  <2>4. Core(x, Left(X, r))
    BY <2>2, <2>3, CoreIdle
  <2> QED BY <1>8, <2>2, <2>4 DEF GetsRegion, Idle, Regioned
<1>10. CASE h.ok /\ ~k.ok
  <2>1. PICK z : z = DropRegion(k, p, r)
    OBVIOUS
  <2>2. x = Failed(z)
    <3>1. x = LET u == Failed(z) IN IF u.ok THEN Returns(u, r.start) ELSE u
      BY <1>1, <1>4, <1>5, <1>10, <2>1 DEF NewRegion, Then, OrUndo
    <3>2. ~Failed(z).ok
      BY <1>7, <2>1, DropBack, IdleSteps DEF SameTables
    <3> QED BY <3>1, <3>2
  <2>3. /\ SameTables(k, z) /\ z.used = k.used /\ z.free = k.free
        /\ z.proc = [k.proc EXCEPT ![p].regs = k.proc[p].regs \ {r}]
    BY <1>7, <2>1, DropBack
  <2>4. Idle(z, x) /\ ~x.ok
    BY <2>2, <2>3, IdleSteps DEF SameTables
  <2>5. z.proc = m.proc
    <3>1. r \notin m.proc[p].regs
      <4>1. PICK s \in Nat, n \in Nat, f \in Nat : RegionIs(r, s, n, f)
        BY RegionPages
      <4>2. s \in VPages(r)
        BY <4>1 DEF RegionIs
      <4> QED BY <4>2 DEF Room, ApartFrom
    <3>2. k.proc = WithRegion(m, p, r)
      BY <1>8, Zenon DEF Regioned, WithRegs, WithRegion
    <3>3. IsProcess(m, p)
      BY DEF Core, Shape, IsProc, IsProcess
    <3> QED BY <2>3, <3>1, <3>2, <3>3, RegionRestored
  <2>6. SameTables(k, x) /\ x.used = m.used /\ x.free = m.free /\ x.proc = m.proc
    BY <1>8, <2>3, <2>4, <2>5 DEF Idle, SameTables
  <2>7. Beside(m, x, DirsOf(m), m.proc[p].cr3) /\ SameWalks(m, x, m.proc[p].cr3)
    <3>1. PICK d, D : d = m.proc[p].cr3 /\ D = DirsOf(m)
      OBVIOUS
    <3>2. Beside(m, k, D, d) /\ SameWalks(m, k, d)
      BY <1>7, <1>10, <3>1
    <3>3. Beside(k, x, D, d)
      BY <2>6, <3>2, SameBeside DEF Beside
    <3>4. SameWalks(k, x, d)
      BY <2>6 DEF SameTables, SameWalks, Translate, Present
    <3>5. Beside(m, x, D, d)
      BY <3>2, <3>3, BesideTrans
    <3> QED BY <3>1, <3>2, <3>4, <3>5 DEF SameWalks
  <2>8. Core(x, X)
    BY <2>6, <2>7, RegionNotAdded DEF SameTables
  <2> QED BY <2>4, <2>6, <2>8 DEF GivesUp
<1> QED BY <1>3, <1>9, <1>10

-----------------------------------------------------------------------------
(* Pages are taken and given back. *)

\* Equal tables and processes: only the pages count.
LEMMA CorePages ==
    ASSUME NEW m, NEW x, NEW X, NEW Y, Core(m, X), SameTables(m, x), x.proc = m.proc,
           PagesSound(x.used, x.free, m.proc, Base(m), Y)
    PROVE  Core(x, Y)
<1>1. Shape(m) /\ TablesSound(m)
  BY DEF Core
<1>2. TablesSound(x) /\ Base(x) = Base(m)
  BY <1>1, TablesSame DEF SameSpace, Live
<1>3. Shape(x)
  BY <1>1 DEF Shape, SameTables
<1> QED BY <1>2, <1>3 DEF Core

\* A call that took the n pages from b on.
TakesPages(m, a, b, n, X) ==
    /\ a.ok /\ a.out = b * PageSize /\ n > 0 /\ b .. b + n - 1 \subseteq Blocks \ m.used
    /\ FirstFree <= b /\ b < TotalBlocks
    /\ a.proc = m.proc /\ Core(a, X \cup (b .. b + n - 1))

\* pmm_alloc_pages takes pages that are free, or none.
LEMMA AllocCore ==
    ASSUME NEW m, NEW X, Core(m, X), NEW n \in Nat, NEW a, a = pmm_alloc_pages(m, n)
    PROVE  GivesUp(m, a, X) \/ \E b \in Nat : TakesPages(m, a, b, n, X)
<1>1. IsMachine(m) /\ PagesSound(m.used, m.free, m.proc, Base(m), X)
  BY DEF Core, Shape
<1>2. Takes(m, a, n)
  BY <1>1, PagesTaken
<1>3. SameTables(m, a) /\ a.proc = m.proc
  BY <1>2 DEF Takes
<1>4. CASE a.ok = FALSE /\ a.used = m.used /\ a.free = m.free
  <2>1. Core(a, X)
    BY <1>1, <1>3, <1>4, CorePages
  <2> QED BY <1>3, <1>4, <2>1 DEF GivesUp
<1>5. ASSUME a.ok = TRUE, NEW b \in Nat, b .. b + n - 1 \subseteq Blocks \ m.used,
             a.out = b * PageSize, a.used = m.used \cup b .. b + n - 1, a.free = m.free - n
      PROVE  TakesPages(m, a, b, n, X)
  <2>1. n > 0
    <3>1. SUFFICES ASSUME n = 0 PROVE FALSE
      OBVIOUS
    <3>2. a = Failed(m)
      BY <3>1 DEF pmm_alloc_pages
    <3> QED BY <1>1, <1>5, <3>2, IdleSteps
  <2>2. PagesSound(a.used, a.free, m.proc, Base(m), X \cup (b .. b + n - 1))
    BY <1>1, <1>5, PagesAlloc
  <2>3. Core(a, X \cup (b .. b + n - 1))
    BY <1>3, <2>2, CorePages
  <2>4. b \in b .. b + n - 1
    BY <2>1
  <2>5. b \in Blocks /\ b \notin m.used
    BY <1>5, <2>4
  <2>6. \A c : c \in Fixed => c \in m.used
    BY <1>1 DEF PagesSound, Base
  <2>7. FirstFree <= b /\ b < TotalBlocks
    BY <2>5, <2>6, PagingAssumption DEF Fixed, Blocks
  <2> QED BY <1>3, <1>5, <2>1, <2>3, <2>7 DEF TakesPages
<1> QED BY <1>2, <1>4, <1>5 DEF Takes

\* pmm_free_pages gives back pages of X.
LEMMA FreeCore ==
    ASSUME NEW m, NEW X, Core(m, X), NEW b \in Nat, NEW n \in Nat, b .. b + n - 1 \subseteq X,
           NEW x, x = pmm_free_pages(m, b * PageSize, n)
    PROVE  x.proc = m.proc /\ Core(x, X \ (b .. b + n - 1))
<1>1. IsMachine(m) /\ PagesSound(m.used, m.free, m.proc, Base(m), X)
  BY DEF Core, Shape
<1>2. PICK I : I = b .. b + n - 1
  OBVIOUS
<1>3. /\ SameTables(m, x) /\ x.proc = m.proc /\ x.used = m.used \ (m.used \cap I)
      /\ x.free = m.free + Cardinality(m.used \cap I)
  <2>1. PICK J, c : J = m.used \cap I /\ c = Cardinality(J)
    OBVIOUS
  <2>2. x = [m EXCEPT !.used = m.used \ J, !.free = m.free + c]
    <3>1. PageOf(b * PageSize) = b
      BY PageMul
    <3> QED BY <1>2, <2>1, <3>1, Zenon DEF pmm_free_pages
  <2>3. SameTables(m, x) /\ x.proc = m.proc /\ x.used = m.used \ J /\ x.free = m.free + c
    BY <1>1, <2>2 DEF IsMachine, SameTables
  <2> QED BY <2>1, <2>3
<1>4. PagesSound(x.used, x.free, m.proc, Base(m), X \ I)
  <2>1. PICK u, f, P, B : u = m.used /\ f = m.free /\ P = m.proc /\ B = Base(m)
    OBVIOUS
  <2>2. PagesSound(u, f, P, B, X) /\ I \subseteq X
    BY <1>1, <1>2, <2>1
  <2>3. PagesSound(u \ (u \cap I), f + Cardinality(u \cap I), P, B, X \ I)
    BY ONLY <2>2, PagesFree
  <2> QED BY <1>3, <2>1, <2>3
<1>5. Core(x, X \ I)
  BY <1>3, <1>4, CorePages
<1> QED BY <1>2, <1>3, <1>5

-----------------------------------------------------------------------------
(* A region goes. *)

\* The walks of p after r was unmapped.
LEMMA WalksDrop ==
    ASSUME NEW m, NEW x, NEW d, NEW regs, Regular(regs), NEW r \in regs,
           NEW s \in Nat, NEW n \in Nat, NEW f \in Nat, RegionIs(r, s, n, f),
           Walks(m, d, regs), Unmapped(m, x, d, s, n)
    PROVE  Walks(x, d, regs \ {r})
<1> SUFFICES ASSUME NEW a \in Nat, PageOf(HeapEnd) <= PageOf(a)
             PROVE  Translate(x, d, a) = Shown(regs \ {r}, PageOf(a))
  BY DEF Walks
<1>1. PICK b \in Nat : b = PageOf(a)
  BY IndexOfPage
<1>2. \A o \in regs : o # r => VPages(o) \cap VPages(r) = {}
  BY DEF Regular
<1>3. /\ b \in VPages(r) => Shown(regs \ {r}, b) = {}
      /\ b \notin VPages(r) => Shown(regs \ {r}, b) = Shown(regs, b)
  BY ONLY <1>2, r \in regs, ShownDrop
<1>4. CASE b \in VPages(r)
  BY <1>1, <1>3, <1>4 DEF Unmapped, RegionIs
<1>5. CASE b \notin VPages(r)
  <2>1. Translate(x, d, a) = Translate(m, d, a)
    BY <1>1, <1>5 DEF Unmapped, RegionIs
  <2>2. Translate(m, d, a) = Shown(regs, b)
    BY <1>1 DEF Walks
  <2> QED BY <1>1, <1>3, <1>5, <2>1, <2>2
<1> QED BY <1>4, <1>5

\* The pages of X with those of a region that went.
Freed(X, r) == IF r.own THEN X \cup PagesOf(r) ELSE X

\* A region and its mappings are gone; its pages remain with the call.
LEMMA RegionDropped ==
    ASSUME NEW m, NEW x, NEW X, Core(m, X), NEW p \in Proc, Live(m, p), NEW r \in m.proc[p].regs,
           IsMachine(x), x.used = m.used, x.free = m.free,
           Regioned(m, x, p, m.proc[p].regs \ {r}),
           Beside(m, x, DirsOf(m), m.proc[p].cr3),
           Unmapped(m, x, m.proc[p].cr3, PageOf(r.start), Pages(r.size))
    PROVE  Core(x, Freed(X, r))
<1>1. PICK d, regs, S : d = m.proc[p].cr3 /\ regs = m.proc[p].regs /\ S = regs \ {r}
  OBVIOUS
<1>2. Shape(m) /\ TablesSound(m) /\ PagesSound(m.used, m.free, m.proc, Base(m), X)
  BY DEF Core
<1>3. Regular(regs)
  BY <1>1, <1>2 DEF Shape, IsProc
<1>5. Regular(S)
  <2>1. IsFiniteSet(S)
    BY <1>1, <1>3, FS_Subset DEF Regular
  <2> QED BY <1>1, <1>3, <2>1 DEF Regular
<1>6. Regioned(m, x, p, S)
  BY <1>1
<1>7. /\ Shape(x) /\ RegsAt(m.proc, x.proc, p, S)
      /\ \A q \in Proc : q # p => x.proc[q] = m.proc[q]
      /\ \A q \in Proc : x.proc[q].st = m.proc[q].st /\ x.proc[q].cr3 = m.proc[q].cr3
  <2>1. Shape(x) /\ OnlyRegs(m, x, p, S)
    BY <1>2, <1>5, <1>6, RegionedShape
  <2> QED BY <2>1 DEF OnlyRegs
<1>8. x.proc[p].regs = S
  BY <1>7 DEF RegsAt
<1>9. PICK s \in Nat, n \in Nat, f \in Nat : RegionIs(r, s, n, f)
  BY <1>1, <1>3, RegionPages DEF Regular
<1>10. Walks(x, d, S)
  <2>1. Walks(m, d, regs)
    BY <1>1, <1>2, LiveDirectory
  <2>2. Unmapped(m, x, d, s, n)
    BY <1>1, <1>9 DEF RegionIs
  <2> QED BY <1>1, <1>3, <1>9, <2>1, <2>2, WalksDrop
<1>11. TablesSound(x) /\ Base(x) = Base(m)
  BY <1>1, <1>2, <1>7, <1>8, <1>10, TablesRegion, ZenonT(60)
<1>12. RegsAt(m.proc, x.proc, p, m.proc[p].regs \ {r})
  BY <1>1, <1>7
<1>13. PagesSound(x.used, x.free, x.proc, Base(x), Freed(X, r))
  <2>1. CASE r.own = TRUE
    <3>1. PagesSound(m.used, m.free, x.proc, Base(m), X \cup PagesOf(r))
      BY <1>2, <1>12, <2>1, PagesDrop
    <3> QED BY <1>11, <2>1, <3>1 DEF Freed
  <2>2. CASE r.own = FALSE
    <3>1. PagesSound(m.used, m.free, x.proc, Base(m), X)
      BY <1>2, <1>12, <2>2, PagesDropAlien
    <3> QED BY <1>11, <2>2, <3>1 DEF Freed
  <2> QED BY <1>9, <2>1, <2>2 DEF RegionIs
<1> QED BY <1>7, <1>11, <1>13 DEF Core

\* A call that took the region r from p.
LosesRegion(m, x, p, r, X) == Regioned(m, x, p, m.proc[p].regs \ {r}) /\ Core(x, X)

\* RemoveRegion: region, mappings and pages go together.
LEMMA RemoveRegionCore ==
    ASSUME NEW m, NEW X, Core(m, X), NEW p \in Proc, Live(m, p), NEW r \in m.proc[p].regs,
           NEW x, x = RemoveRegion(m, p, r)
    PROVE  LosesRegion(m, x, p, r, X)
<1>1. PICK d, D, z, y : /\ d = m.proc[p].cr3 /\ D = DirsOf(m) /\ z = DropRegion(m, p, r)
                        /\ y = UnmapPages(z, d, r.start, Pages(r.size))
  OBVIOUS
<1>2. /\ Structs(m, D) /\ d \in D /\ Directory(m, d) /\ IsMachine(m)
  BY <1>1, LiveDirectory DEF Core, Shape
<1>3. IsRegion(r)
  BY DEF Core, Shape, IsProc, Regular
<1>4. PICK s \in Nat, n \in Nat, f \in Nat :
        /\ RegionIs(r, s, n, f) /\ PageOf(HeapEnd) <= s /\ s + n <= PageOf(SpaceTop)
  BY <1>3, RegionPages
<1>5. /\ SameTables(m, z) /\ z.used = m.used /\ z.free = m.free
      /\ Regioned(m, z, p, m.proc[p].regs \ {r})
  <2>0. z = DropRegion(m, p, r) /\ IsMachine(m)
    BY <1>1, <1>2
  <2>1. /\ z.proc = [m.proc EXCEPT ![p].regs = m.proc[p].regs \ {r}]
        /\ SameTables(m, z) /\ z.used = m.used /\ z.free = m.free
    BY ONLY <2>0, DropBack
  <2>2. z.proc = [m.proc EXCEPT ![p] = WithRegs(m.proc[p], m.proc[p].regs \ {r})]
    BY <2>1, Zenon DEF WithRegs
  <2> QED BY <2>1, <2>2 DEF Regioned
<1>6. Beside(m, z, D, d) /\ Directory(z, d) /\ SameWalks(m, z, d) /\ Structs(z, D)
  <2>1. Beside(m, z, D, d)
    BY <1>2, <1>5, SameBeside
  <2>2. Directory(z, d) /\ SameWalks(m, z, d)
    BY <1>2, <1>5, SameTablesKeep
  <2> QED BY <2>1, <2>2 DEF Beside
<1>7. UserRange(s, n)
  BY <1>4, UserRangeOf
<1>8. UserPages(z, d, s, n)
  BY <1>2, <1>6, <1>7, StructsDirectory DEF UserPages, UserRange
<1>9. /\ r.start \in Nat /\ r.pa \in Nat /\ ~(r.start < HeapBase)
      /\ PageOf(r.start) = s /\ PageOf(r.pa) = f /\ Pages(r.size) = n /\ r.pa = f * PageSize
  <2>1. r.start = s * PageSize /\ r.pa = f * PageSize
    BY <1>4 DEF RegionIs
  <2>2. r.start \in Nat /\ r.pa \in Nat
    BY <2>1, PageMul
  <2>3. PageOf(r.start) = s /\ PageOf(r.pa) = f /\ Pages(r.size) = n
    BY <1>4 DEF RegionIs
  <2>4. PICK hb \in Nat : hb = PageOf(HeapBase) /\ HeapBase = hb * PageSize /\ hb <= s
    BY <1>4, Bounds
  <2>5. hb * PageSize <= s * PageSize
    BY <2>4, MulOrder
  <2> QED BY <2>1, <2>2, <2>3, <2>4, <2>5, Bounds
<1>10. y = UnmapPages(z, d, r.start, n)
  BY <1>1, <1>9
<1>11. Keeps(z, y, d) /\ Unmapped(z, y, d, s, n) /\ Beside(z, y, D, d)
  <2>1. UserPages(z, d, PageOf(r.start), n) /\ UserRange(PageOf(r.start), n)
    BY <1>7, <1>8, <1>9
  <2>2. Keeps(z, y, d) /\ Unmapped(z, y, d, PageOf(r.start), n)
    BY <1>6, <1>9, <1>10, <2>1, UnmapRange
  <2>3. Beside(z, y, D, d)
    BY <1>2, <1>6, <1>9, <1>10, <2>1, UnmapRangeBeside
  <2> QED BY <1>9, <2>2, <2>3
<1>12. Beside(m, y, D, d) /\ Unmapped(m, y, d, s, n)
  <2>1. Unmapped(m, y, d, s, n)
    BY <1>6, <1>11 DEF Unmapped, SameWalks
  <2> QED BY <1>6, <1>11, <2>1, BesideTrans
<1>13. /\ IsMachine(y) /\ y.used = m.used /\ y.free = m.free
       /\ Regioned(m, y, p, m.proc[p].regs \ {r})
  BY <1>5, <1>11 DEF Keeps, TablesOnly, Directory, Regioned
<1>14. Core(y, Freed(X, r))
  BY <1>1, <1>9, <1>12, <1>13, RegionDropped
<1>15. CASE r.own = TRUE
  <2>1. x = pmm_free_pages(y, f * PageSize, n)
    BY <1>1, <1>9, <1>15 DEF RemoveRegion
  <2>2. f .. f + n - 1 = PagesOf(r) /\ Freed(X, r) = X \cup PagesOf(r)
    BY <1>4, <1>15 DEF RegionIs, Freed
  <2>3. x.proc = y.proc /\ Core(x, (X \cup PagesOf(r)) \ PagesOf(r))
    BY <1>14, <2>1, <2>2, FreeCore
  <2>4. (X \cup PagesOf(r)) \ PagesOf(r) = X
    <3>1. \A b : b \in PagesOf(r) => b \notin X
      BY <1>15 DEF Core, PagesSound, Held
    <3> QED BY <3>1
  <2> QED BY <1>13, <2>3, <2>4 DEF LosesRegion, Regioned
<1>16. CASE r.own = FALSE
  <2>1. x = y
    BY <1>1, <1>16 DEF RemoveRegion
  <2> QED BY <1>13, <1>14, <1>16, <2>1 DEF LosesRegion, Freed
<1> QED BY <1>4, <1>15, <1>16 DEF RegionIs

-----------------------------------------------------------------------------
(* Where a region goes. *)

\* Rounding down and up to pages.
LEMMA Rounding ==
    ASSUME NEW a \in Nat
    PROVE  /\ AlignDown(a) = PageOf(a) * PageSize /\ AlignDown(a) \in Nat /\ AlignDown(a) <= a
           /\ a < AlignDown(a) + PageSize /\ PageOf(a) \in Nat
           /\ a % PageSize = 0 => a = PageOf(a) * PageSize
           /\ AlignUp(a) = PageOf(a + PageSize - 1) * PageSize /\ AlignUp(a) \in Nat
           /\ a <= AlignUp(a) /\ PageOf(a + PageSize - 1) \in Nat
<1>1. PICK P \in Nat \ {0} : P = PageSize
  BY PagingAssumption
<1>2. ASSUME NEW c \in Nat
      PROVE  /\ AlignDown(c) = (c \div P) * P /\ AlignDown(c) \in Nat /\ AlignDown(c) <= c
             /\ c < AlignDown(c) + P /\ c \div P \in Nat /\ (c % P = 0 => c = (c \div P) * P)
  <2>1. c \div P \in Nat /\ c % P \in Nat /\ c % P < P /\ c = (c \div P) * P + (c % P)
    BY Division
  <2>2. PICK q \in Nat, o \in Nat : q = c \div P /\ o = c % P /\ o < P /\ c = q * P + o
    BY <2>1
  <2>3. q * P \in Nat
    OBVIOUS
  <2>4. AlignDown(c) = c - o
    BY <1>1, <2>2 DEF AlignDown
  <2> QED BY <2>2, <2>3, <2>4
<1>3. a + P - 1 \in Nat
  OBVIOUS
<1>4. AlignUp(a) = AlignDown(a + P - 1)
  BY <1>1 DEF AlignUp
<1>5. /\ AlignDown(a + P - 1) = ((a + P - 1) \div P) * P /\ AlignDown(a + P - 1) \in Nat
      /\ a + P - 1 < AlignDown(a + P - 1) + P /\ (a + P - 1) \div P \in Nat
  BY <1>2, <1>3
<1>6. a <= AlignUp(a)
  BY <1>4, <1>5
<1> QED BY <1>1, <1>2, <1>4, <1>5, <1>6 DEF PageOf

\* A region and its end.
LEMMA RegionEnd ==
    ASSUME NEW r, NEW s \in Nat, NEW n \in Nat, NEW f \in Nat, RegionIs(r, s, n, f)
    PROVE  /\ r.start \in Nat /\ r.size \in Nat /\ r.pa \in Nat /\ End(r) \in Nat
           /\ End(r) = (s + n) * PageSize /\ r.start < End(r)
<1>1. r.start = s * PageSize /\ r.size = n * PageSize /\ r.pa = f * PageSize /\ n > 0
  BY DEF RegionIs
<1>2. s * PageSize \in Nat /\ n * PageSize \in Nat /\ f * PageSize \in Nat
      /\ (s + n) * PageSize \in Nat
  BY PageMul
<1>3. s * PageSize + n * PageSize = (s + n) * PageSize
  BY MulOrder
<1>4. s * PageSize < (s + n) * PageSize
  BY <1>1, MulOrder
<1> QED BY <1>1, <1>2, <1>3, <1>4 DEF End

\* Of regions that are apart one ends before the other begins, in their order.
LEMMA RegionOrder ==
    ASSUME NEW regs, Regular(regs), NEW r \in regs, NEW o \in regs
    PROVE  /\ r.start < o.start => End(r) <= o.start
           /\ r.start = o.start => r = o
           /\ r.start \in Nat /\ End(r) \in Nat /\ r.start < End(r) /\ End(r) <= SpaceTop
<1>1. PICK s \in Nat, n \in Nat, f \in Nat : RegionIs(r, s, n, f) /\ s + n <= PageOf(SpaceTop)
  BY RegionPages DEF Regular
<1>2. PICK t \in Nat, k \in Nat, g \in Nat : RegionIs(o, t, k, g)
  BY RegionPages DEF Regular
<1>3. /\ r.start = s * PageSize /\ End(r) = (s + n) * PageSize /\ r.start < End(r)
      /\ r.start \in Nat /\ End(r) \in Nat
  BY <1>1, RegionEnd DEF RegionIs
<1>4. o.start = t * PageSize
  BY <1>2 DEF RegionIs
<1>5. r # o => (s .. s + n - 1) \cap (t .. t + k - 1) = {}
  BY <1>1, <1>2 DEF Regular, RegionIs
<1>6. n > 0 /\ k > 0
  BY <1>1, <1>2 DEF RegionIs
<1>7. ASSUME s < t PROVE s + n <= t
  <2>1. r # o
    BY <1>3, <1>4, <1>7, MulOrder
  <2>2. t \in t .. t + k - 1 /\ ~(t \in s .. s + n - 1)
    BY <1>5, <1>6, <2>1
  <2> QED BY <1>7, <2>2
<1>8. ASSUME s = t PROVE r = o
  <2>1. s \in s .. s + n - 1 /\ s \in t .. t + k - 1
    BY <1>6, <1>8
  <2> QED BY <1>5, <2>1
<1>9. s * PageSize < t * PageSize <=> s < t
  BY MulOrder
<1>10. s * PageSize = t * PageSize <=> s = t
  BY MulOrder
<1>11. (s + n) * PageSize <= t * PageSize <=> s + n <= t
  BY MulOrder
<1>12. (s + n) * PageSize <= PageOf(SpaceTop) * PageSize
  <2>1. PICK j \in Nat, k0 \in Nat : j = s + n /\ k0 = PageOf(SpaceTop) /\ j <= k0
    BY <1>1, Bounds
  <2>2. j * PageSize <= k0 * PageSize
    BY <2>1, MulOrder
  <2> QED BY <2>1, <2>2
<1> QED BY <1>3, <1>4, <1>7, <1>8, <1>9, <1>10, <1>11, <1>12, Bounds

\* Regions have a lowest.
LEMMA LowestIs ==
    ASSUME NEW regs, Regular(regs), NEW S, S \subseteq regs, S # {}
    PROVE  /\ Lowest(S) \in S /\ \A q \in S : Lowest(S).start <= q.start
<1>1. PICK T : T = {r.start : r \in S}
  OBVIOUS
<1>2. T \in SUBSET Nat /\ T # {}
  BY <1>1, RegionOrder
<1>3. PICK x \in T : \A y \in T : x <= y
  BY <1>2, Least
<1>4. PICK r \in S : r.start = x
  BY <1>1, <1>3
<1>5. \A q \in S : r.start <= q.start
  BY <1>1, <1>3, <1>4
<1> QED BY <1>4, <1>5 DEF Lowest

\* And a highest.
LEMMA HighestIs ==
    ASSUME NEW regs, Regular(regs), regs # {}
    PROVE  \E r \in regs : \A q \in regs : q.start <= r.start
<1>1. \A r \in regs : r.start \in Nat /\ r.start < SpaceTop /\ SpaceTop \in Nat
  BY RegionOrder, Bounds
<1>2. PICK T : T = {SpaceTop - r.start : r \in regs}
  OBVIOUS
<1>3. T \in SUBSET Nat /\ T # {}
  BY <1>1, <1>2
<1>4. PICK x \in T : \A y \in T : x <= y
  BY <1>3, Least
<1>5. PICK r \in regs : SpaceTop - r.start = x
  BY <1>2, <1>4
<1>6. ASSUME NEW q \in regs PROVE q.start <= r.start
  <2>1. SpaceTop - r.start <= SpaceTop - q.start
    BY <1>2, <1>4, <1>5
  <2> QED BY <1>1, <2>1
<1> QED BY <1>6

\* The address FindVa finds is behind a region and has room for the size.
LEMMA Found ==
    ASSUME NEW regs, Regular(regs), regs # {}, NEW size \in Nat, NEW empty,
           NEW va, va = FindVa(regs, size, empty), va # Word
    PROVE  \E r \in regs : /\ va = End(r)
                           /\ \A q \in regs : End(q) <= va \/ va + size <= q.start
<1> DEFINE After(r) == {q \in regs : q.start > r.start}
           Over(r) == End(r) >= Word \/ size > Word - 1 - End(r)
           Fits(r) == \A q \in After(r) : End(r) + size <= q.start
           stops == {r \in regs : Over(r) \/ Fits(r)}
<1>1. PICK f : f = Lowest(stops)
  OBVIOUS
<1>2. va = IF Over(f) THEN Word ELSE End(f)
  BY <1>1 DEF FindVa, Lowest
<1>3. stops # {}
  <2>1. PICK h \in regs : \A q \in regs : q.start <= h.start
    BY HighestIs
  <2>2. After(h) = {}
    BY <2>1, RegionOrder
  <2>3. Fits(h)
    BY <2>2
  <2> QED BY <2>3
<1>4. f \in stops
  <2>1. stops \subseteq regs
    OBVIOUS
  <2> HIDE DEF stops
  <2> QED BY <1>1, <1>3, <2>1, LowestIs
<1>5. f \in regs /\ ~Over(f) /\ Fits(f) /\ va = End(f)
  BY <1>2, <1>4
<1>6. ASSUME NEW q \in regs PROVE End(q) <= va \/ va + size <= q.start
  <2>1. /\ q.start \in Nat /\ f.start \in Nat /\ End(f) \in Nat /\ End(q) \in Nat
    BY <1>5, RegionOrder
  <2>2. CASE q.start > f.start
    BY <1>5, <2>2
  <2>3. CASE q.start = f.start
    <3>1. q = f
      BY <1>5, <2>3, RegionOrder
    <3> QED BY <1>5, <2>1, <3>1
  <2>4. CASE q.start < f.start
    <3>1. End(q) <= f.start /\ f.start < End(f)
      BY <1>5, <2>4, RegionOrder
    <3> QED BY <1>5, <2>1, <3>1
  <2> QED BY <2>1, <2>2, <2>3, <2>4
<1> QED BY <1>5, <1>6

\* FindVa finds va for n pages, below the top.
FoundAt(regs, n, empty, va) ==
    /\ va = FindVa(regs, n * PageSize, empty) /\ va + n * PageSize <= SpaceTop /\ n > 0
    /\ regs = {} => empty \in Nat /\ empty % PageSize = 0 /\ HeapEnd <= empty

\* The region of n pages from the frame f on at va.
RegionOf(va, n, f, own) ==
    [start |-> va, size |-> n * PageSize, pa |-> f * PageSize, own |-> own]

\* A region of n pages at the address FindVa finds.
LEMMA FoundRegion ==
    ASSUME NEW regs, Regular(regs), NEW n \in Nat, NEW empty, NEW va,
           FoundAt(regs, n, empty, va), NEW f \in Nat, f < TotalBlocks, NEW o \in BOOLEAN,
           NEW r, r = RegionOf(va, n, f, o)
    PROVE  IsRegion(r) /\ ApartFrom(regs, r) /\ PagesOf(r) = f .. f + n - 1 /\ va \in Nat
<1> USE DEF FoundAt
<1>0. PICK z \in Nat : z = n * PageSize
  BY PageMul
<1>1. PICK s \in Nat : /\ va = s * PageSize /\ PageOf(HeapEnd) <= s
                       /\ \A q \in regs : End(q) <= va \/ va + z <= q.start
  <2>1. CASE regs = {}
    <3>1. va = empty
      BY <2>1 DEF FindVa
    <3>2. PICK s \in Nat : s = PageOf(va) /\ va = s * PageSize
      BY <2>1, <3>1, Rounding
    <3>3. PageOf(HeapEnd) * PageSize <= s * PageSize
      BY <2>1, <3>1, <3>2, Bounds
    <3>4. PageOf(HeapEnd) <= s
      BY <3>3, Bounds, MulOrder
    <3> QED BY <2>1, <3>2, <3>4
  <2>2. CASE regs # {}
    <3>1. PICK q0 : q0 \in regs
      BY <2>2
    <3>2. va # Word
      <4>1. SUFFICES ASSUME va = Word PROVE FALSE
        OBVIOUS
      <4>2. Word \in Nat /\ SpaceTop \in Nat /\ SpaceTop < Word
        BY CapAssumption, MemoryAssumption, Bounds
      <4> QED BY <1>0, <4>1, <4>2
    <3>3. PICK e \in regs : /\ va = End(e)
                            /\ \A q \in regs : End(q) <= va \/ va + z <= q.start
      BY <1>0, <2>2, <3>2, Found
    <3>4. PICK t \in Nat, k \in Nat, g \in Nat : RegionIs(e, t, k, g) /\ PageOf(HeapEnd) <= t
      BY RegionPages DEF Regular
    <3>5. End(e) = (t + k) * PageSize
      BY <3>4, RegionEnd
    <3>6. PICK s \in Nat : s = t + k /\ PageOf(HeapEnd) <= s
      BY <3>4, Bounds
    <3> QED BY <3>3, <3>5, <3>6
  <2> QED BY <2>1, <2>2
<1>2. va + z = (s + n) * PageSize /\ va \in Nat
  BY <1>0, <1>1, MulOrder, PageMul
<1>3. s + n <= PageOf(SpaceTop)
  <2>1. PICK j \in Nat, k \in Nat : j = s + n /\ k = PageOf(SpaceTop)
    BY ONLY s \in Nat, n \in Nat, Bounds
  <2>2. j * PageSize <= k * PageSize
    BY <1>0, <1>2, <2>1, Bounds
  <2> QED BY <2>1, <2>2, MulOrder
<1>4. IsRegion(r)
  BY <1>1, <1>3 DEF IsRegion, RegionOf
<1>5. r.start = s * PageSize /\ r.size = n * PageSize /\ r.pa = f * PageSize
  BY <1>1 DEF RegionOf
<1>6. PageOf(s * PageSize) = s /\ Pages(n * PageSize) = n /\ PageOf(f * PageSize) = f
  BY PageMul
<1>7. VPages(r) = s .. s + n - 1 /\ PagesOf(r) = f .. f + n - 1
  BY <1>5, <1>6 DEF VPages, PagesOf
<1>8. ASSUME NEW q \in regs PROVE VPages(q) \cap VPages(r) = {}
  <2>1. PICK t \in Nat, k \in Nat, g \in Nat : RegionIs(q, t, k, g)
    BY RegionPages DEF Regular
  <2>2. End(q) = (t + k) * PageSize /\ q.start = t * PageSize /\ VPages(q) = t .. t + k - 1
    BY <2>1, RegionEnd DEF RegionIs
  <2>3. (t + k) * PageSize <= s * PageSize \/ (s + n) * PageSize <= t * PageSize
    BY <1>1, <1>2, <2>2
  <2>4. t + k <= s \/ s + n <= t
    <3>1. t + k \in Nat /\ s + n \in Nat
      OBVIOUS
    <3> QED BY <2>3, <3>1, MulOrder
  <2> QED BY <1>7, <2>2, <2>4
<1> QED BY <1>2, <1>4, <1>7, <1>8 DEF ApartFrom

-----------------------------------------------------------------------------
(* vmm.c, call by call. *)

\* vmm_alloc_pages: pages and a region that owns them, or nothing.
LEMMA AllocPagesCore ==
    ASSUME NEW m, NEW X, Core(m, X), NEW p \in Proc, Live(m, p), NEW n \in Nat,
           NEW va, va = FindVa(m.proc[p].regs, n * PageSize, AnonBase),
           va + n * PageSize <= SpaceTop, NEW x, x = vmm_alloc_pages(m, p, n)
    PROVE  \/ GivesUp(m, x, X)
           \/ \E b \in Nat : GetsRegion(m, x, p, RegionOf(va, n, b, TRUE), X)
<1>1. PICK a : a = pmm_alloc_pages(m, n)
  OBVIOUS
<1>2. CASE GivesUp(m, a, X)
  <2>1. x = a
    BY <1>1, <1>2 DEF vmm_alloc_pages, Then, GivesUp
  <2> QED BY <1>2, <2>1
<1>3. ASSUME NEW b \in Nat, TakesPages(m, a, b, n, X)
      PROVE  \/ GivesUp(m, x, X) \/ GetsRegion(m, x, p, RegionOf(va, n, b, TRUE), X)
  <2>1. PICK r, I : r = RegionOf(va, n, b, TRUE) /\ I = b .. b + n - 1
    OBVIOUS
  <2>2. /\ a.ok /\ a.out = b * PageSize /\ n > 0 /\ I \subseteq Blocks \ m.used
        /\ b < TotalBlocks /\ a.proc = m.proc /\ Core(a, X \cup I)
    BY <1>3, <2>1 DEF TakesPages
  <2>3. Regular(m.proc[p].regs)
    BY DEF Core, Shape, IsProc
  <2>4. AnonBase \in Nat /\ AnonBase % PageSize = 0 /\ HeapEnd <= AnonBase
    BY MemoryAssumption, Bounds
  <2>5. IsRegion(r) /\ ApartFrom(m.proc[p].regs, r) /\ PagesOf(r) = I
    <3>1. PICK regs : regs = m.proc[p].regs
      OBVIOUS
    <3>2. Regular(regs) /\ FoundAt(regs, n, AnonBase, va) /\ r = RegionOf(va, n, b, TRUE)
      BY <2>1, <2>2, <2>3, <2>4, <3>1 DEF FoundAt
    <3>3. IsRegion(r) /\ ApartFrom(regs, r) /\ PagesOf(r) = b .. b + n - 1
      <4>1. PICK o \in BOOLEAN : o = TRUE
        OBVIOUS
      <4>2. Regular(regs) /\ FoundAt(regs, n, AnonBase, va) /\ r = RegionOf(va, n, b, o)
            /\ b < TotalBlocks
        BY <2>2, <3>2, <4>1
      <4> QED BY ONLY <4>2, o \in BOOLEAN, n \in Nat, b \in Nat, FoundRegion
    <3> QED BY <2>1, <3>1, <3>3
  <2>6. PICK y : y = NewRegion(a, p, r)
    OBVIOUS
  <2>7. GetsRegion(a, y, p, r, Left(X \cup I, r)) \/ GivesUp(a, y, X \cup I)
    BY <2>2, <2>5, <2>6, NewRegionCore DEF Room, Live
  <2>8. (X \cup I) \ I = X
    <3>1. \A c : c \in X => c \in m.used
      BY DEF Core, PagesSound
    <3> QED BY <2>2, <3>1
  <2>9. CASE GetsRegion(a, y, p, r, Left(X \cup I, r))
    <3>1. Left(X \cup I, r) = X
      BY <2>1, <2>5, <2>8 DEF Left, RegionOf
    <3>2. x = y
      BY <1>1, <2>1, <2>2, <2>6, <2>9 DEF vmm_alloc_pages, Then, OrUndo, GetsRegion, RegionOf, Regions
    <3> QED BY <2>1, <2>2, <2>9, <3>1, <3>2 DEF GetsRegion, Regioned
  <2>10. CASE GivesUp(a, y, X \cup I)
    <3>1. PICK z : z = pmm_free_pages(y, b * PageSize, n)
      OBVIOUS
    <3>2. x = Failed(z)
      BY <1>1, <2>1, <2>2, <2>6, <2>10, <3>1
         DEF vmm_alloc_pages, Then, OrUndo, GivesUp, RegionOf, Regions
    <3>3. z.proc = y.proc /\ Core(z, (X \cup I) \ I)
      <4>1. PICK Y : Y = X \cup I
        OBVIOUS
      <4>2. Core(y, Y) /\ b .. b + n - 1 \subseteq Y
        BY <2>1, <2>10, <4>1 DEF GivesUp
      <4>3. z.proc = y.proc /\ Core(z, Y \ (b .. b + n - 1))
        BY ONLY <3>1, <4>2, b \in Nat, n \in Nat, FreeCore
      <4> QED BY <2>1, <4>1, <4>3
    <3>4. Core(z, X) /\ z.proc = m.proc
      BY <2>2, <2>8, <2>10, <3>3 DEF GivesUp
    <3>5. Idle(z, x) /\ ~x.ok
      BY <3>2, <3>4, IdleSteps DEF Core, Shape
    <3> QED BY <3>4, <3>5, CoreIdle DEF GivesUp, Idle
  <2> QED BY <2>7, <2>9, <2>10
<1> QED BY <1>1, <1>2, <1>3, AllocCore

\* vmm_free_pages: the owned region around va, if there is one.
LEMMA FreePagesCore ==
    ASSUME NEW m, NEW X, Core(m, X), NEW p \in Proc, Live(m, p), NEW va,
           NEW x, x = vmm_free_pages(m, p, va)
    PROVE  \/ x = m /\ \A r \in m.proc[p].regs : ~(r.own /\ Covers(r, va))
           \/ \E r \in m.proc[p].regs : r.own /\ Covers(r, va) /\ LosesRegion(m, x, p, r, X)
<1>1. PICK regs, hit : regs = m.proc[p].regs /\ hit = {r \in regs : r.own /\ Covers(r, va)}
  OBVIOUS
<1>2. CASE hit = {}
  BY <1>1, <1>2 DEF vmm_free_pages, Regions
<1>3. CASE hit # {}
  <2>1. PICK r : r = Lowest(hit)
    OBVIOUS
  <2>2. r \in hit
    <3>1. Regular(regs) /\ hit \subseteq regs
      BY <1>1 DEF Core, Shape, IsProc
    <3> QED BY <1>3, <2>1, <3>1, LowestIs
  <2>3. x = RemoveRegion(m, p, r)
    BY <1>1, <1>3, <2>1 DEF vmm_free_pages, Regions, Lowest
  <2>4. LosesRegion(m, x, p, r, X)
    BY <1>1, <2>2, <2>3, RemoveRegionCore
  <2> QED BY <1>1, <2>2, <2>4
<1> QED BY <1>2, <1>3

\* The region r may be placed where it says, and its pages, if it is to own them, are
\* those of X.
Placed(r, X) ==
    /\ r.pa \in Nat /\ r.start \in Nat /\ r.size \in Nat /\ r.own \in BOOLEAN
    /\ r = [start |-> r.start, size |-> r.size, pa |-> r.pa, own |-> r.own]
    /\ PageOf(r.pa) < TotalBlocks /\ HeapEnd <= r.start /\ r.start + r.size <= SpaceTop
    /\ r.own = TRUE => PageOf(r.pa) .. PageOf(r.pa) + Pages(r.size) - 1 \subseteq X

\* p has the region r, for which it has a capability.
MapsFixed(m, x, p, r, X) ==
    /\ cap_check(m.proc[p].caps, CapMem(r.pa, r.size, PTE_USER_PAGE)) /\ IsRegion(r)
    /\ GetsRegion(m, x, p, r, Left(X, r))

\* vmm_map_fixed: the region the caller names, or nothing.
LEMMA MapFixedCore ==
    ASSUME NEW m, NEW X, Core(m, X), NEW p \in Proc, Live(m, p), NEW r, Placed(r, X),
           NEW x, x = vmm_map_fixed(m, p, r.pa, r.start, r.size, r.own)
    PROVE  GivesUp(m, x, X) \/ MapsFixed(m, x, p, r, X)
<1>0. PICK pa \in Nat, va \in Nat, size \in Nat, own \in BOOLEAN :
        /\ pa = r.pa /\ va = r.start /\ size = r.size /\ own = r.own
        /\ r = [start |-> va, size |-> size, pa |-> pa, own |-> own]
        /\ PageOf(pa) < TotalBlocks /\ HeapEnd <= va /\ va + size <= SpaceTop
        /\ own = TRUE => PageOf(pa) .. PageOf(pa) + Pages(size) - 1 \subseteq X
  BY DEF Placed
<1>00. x = vmm_map_fixed(m, p, pa, va, size, own)
  BY <1>0
<1> DEFINE No == \/ pa % PageSize # 0 \/ va % PageSize # 0 \/ size % PageSize # 0 \/ size = 0
                 \/ ~cap_check(m.proc[p].caps, CapMem(pa, size, PTE_USER_PAGE))
                 \/ \E q \in Regions(m, p) : Overlaps(q, va, size)
<1>1. CASE No
  <2>1. x = Failed(m)
    BY <1>00, <1>1 DEF vmm_map_fixed
  <2>2. Idle(m, x) /\ ~x.ok
    BY <2>1, IdleSteps DEF Core, Shape
  <2> QED BY <2>2, CoreIdle DEF GivesUp, Idle
<1>2. CASE ~No
  <2>0. /\ pa % PageSize = 0 /\ va % PageSize = 0 /\ size % PageSize = 0 /\ size # 0
        /\ cap_check(m.proc[p].caps, CapMem(pa, size, PTE_USER_PAGE))
        /\ \A q \in m.proc[p].regs : ~Overlaps(q, va, size)
    BY <1>2 DEF Regions
  <2>1. x = NewRegion(m, p, r)
    BY <1>0, <1>00, <1>2 DEF vmm_map_fixed
  <2>2. PICK s \in Nat, n \in Nat, f \in Nat :
          /\ va = s * PageSize /\ size = n * PageSize /\ pa = f * PageSize
          /\ s = PageOf(va) /\ n = PageOf(size) /\ f = PageOf(pa)
    BY <2>0, Rounding
  <2>3. n > 0
    BY <2>0, <2>2, PagingAssumption
  <2>4. va + size = (s + n) * PageSize
    BY <2>2, MulOrder
  <2>5. PageOf(HeapEnd) <= s
    BY <1>0, <2>2, Bounds, MulOrder
  <2>6. s + n <= PageOf(SpaceTop)
    <3>0. s + n \in Nat /\ PageOf(SpaceTop) \in Nat
      BY Bounds
    <3>1. PICK j \in Nat, k \in Nat : j = s + n /\ k = PageOf(SpaceTop)
      BY ONLY <3>0
    <3>2. j * PageSize <= k * PageSize
      BY <1>0, <2>4, <3>1, Bounds
    <3> QED BY <3>1, <3>2, MulOrder
  <2>7. IsRegion(r)
    BY <1>0, <2>2, <2>3, <2>5, <2>6 DEF IsRegion
  <2>8. VPages(r) = s .. s + n - 1 /\ PagesOf(r) = f .. f + n - 1 /\ Pages(size) = n
    BY <1>0, <2>2 DEF VPages, PagesOf, Pages, PageOf
  <2>9. Room(m, p, r)
    <3>1. SUFFICES ASSUME NEW q \in m.proc[p].regs PROVE VPages(q) \cap VPages(r) = {}
      BY DEF Room, ApartFrom
    <3>2. IsRegion(q)
      BY DEF Core, Shape, IsProc, Regular
    <3>3. PICK t \in Nat, k \in Nat, g \in Nat : RegionIs(q, t, k, g)
      BY <3>2, RegionPages
    <3>4. End(q) = (t + k) * PageSize /\ q.start = t * PageSize /\ VPages(q) = t .. t + k - 1
      BY <3>3, RegionEnd DEF RegionIs
    <3>5. ~(s * PageSize < (t + k) * PageSize /\ t * PageSize < (s + n) * PageSize)
      BY <2>0, <2>2, <2>4, <3>4 DEF Overlaps
    <3>6. ~(s < t + k /\ t < s + n)
      <4>1. t + k \in Nat /\ s + n \in Nat
        OBVIOUS
      <4> QED BY <3>5, <4>1, MulOrder
    <3> QED BY <2>8, <3>4, <3>6
  <2>10. r.own = TRUE => PagesOf(r) \subseteq X
    BY <1>0, <2>2, <2>8
  <2>11. GetsRegion(m, x, p, r, Left(X, r)) \/ GivesUp(m, x, X)
    BY <2>1, <2>7, <2>9, <2>10, NewRegionCore
  <2> QED BY <1>0, <2>0, <2>7, <2>11 DEF MapsFixed
<1> QED BY <1>1, <1>2

\* Some region of p is new.
HasRegion(m, x, p, r, X) ==
    x.ok /\ Regioned(m, x, p, m.proc[p].regs \cup {r}) /\ Core(x, X)

\* vmm_map_memory, in a process that has regions.
LEMMA MapMemoryCore ==
    ASSUME NEW m, NEW X, Core(m, X), NEW p \in Proc, Live(m, p), NEW pa \in Nat,
           NEW size \in Nat, NEW n \in Nat, n * PageSize = AlignUp(size + pa - AlignDown(pa)),
           PageOf(pa) < TotalBlocks, m.proc[p].regs # {},
           NEW va, va = FindVa(m.proc[p].regs, n * PageSize, AnonBase),
           va + n * PageSize <= SpaceTop,
           NEW x, x = vmm_map_memory(m, p, pa, size)
    PROVE  \/ GivesUp(m, x, X)
           \/ /\ size # 0 /\ IsRegion(RegionOf(va, n, PageOf(pa), FALSE))
              /\ HasRegion(m, x, p, RegionOf(va, n, PageOf(pa), FALSE), X)
<1>1. PICK base \in Nat, f \in Nat : base = AlignDown(pa) /\ f = PageOf(pa) /\ base = f * PageSize
  BY Rounding
<1>2. CASE \/ ~cap_check(m.proc[p].caps, CapMem(pa, size, PTE_USER_PAGE))
           \/ size = 0 \/ size > Word - 1 - (pa - base) - (PageSize - 1)
  <2>1. x = Failed(m)
    BY <1>1, <1>2 DEF vmm_map_memory
  <2>2. Idle(m, x) /\ ~x.ok
    BY <2>1, IdleSteps DEF Core, Shape
  <2> QED BY <2>2, CoreIdle DEF GivesUp, Idle
<1>3. CASE ~(\/ ~cap_check(m.proc[p].caps, CapMem(pa, size, PTE_USER_PAGE))
             \/ size = 0 \/ size > Word - 1 - (pa - base) - (PageSize - 1))
  <2>1. PICK regs : regs = m.proc[p].regs
    OBVIOUS
  <2>2. FindVa(regs, n * PageSize, base) = va
    BY <2>1 DEF FindVa
  <2>3. PICK o, r : o = FALSE /\ o \in BOOLEAN /\ r = RegionOf(va, n, f, o)
    OBVIOUS
  <2>4. PICK y : y = NewRegion(m, p, r)
    OBVIOUS
  <2>5. x = IF y.ok THEN Returns(y, y.out + pa - base) ELSE y
    <3>1. PICK sz, w, v : /\ sz = AlignUp(size + pa - base) /\ w = FindVa(Regions(m, p), sz, base)
                          /\ v = [start |-> w, size |-> sz, pa |-> base, own |-> FALSE]
      OBVIOUS
    <3>2. x = IF NewRegion(m, p, v).ok
              THEN Returns(NewRegion(m, p, v), NewRegion(m, p, v).out + pa - base)
              ELSE NewRegion(m, p, v)
      BY <1>1, <1>3, <3>1 DEF vmm_map_memory, Then
    <3>3. v = r
      BY <1>1, <2>1, <2>2, <2>3, <3>1 DEF Regions, RegionOf
    <3> QED BY <2>4, <3>2, <3>3
  <2>6. n > 0
    <3>1. size + pa - base \in Nat /\ size + pa - base > 0
      BY <1>1, <1>3, Rounding
    <3>2. n * PageSize > 0
      BY <1>1, <3>1, Rounding
    <3> QED BY <3>2, PagingAssumption
  <2>7. FoundAt(regs, n, base, va)
    BY <2>1, <2>2, <2>6 DEF FoundAt
  <2>8. Regular(regs) /\ f < TotalBlocks
    BY <1>1, <2>1 DEF Core, Shape, IsProc
  <2>9. IsRegion(r) /\ ApartFrom(regs, r)
    BY ONLY <2>3, <2>7, <2>8, n \in Nat, f \in Nat, o \in BOOLEAN, FoundRegion
  <2>10. r.own = FALSE
    BY <2>3 DEF RegionOf
  <2>11. GetsRegion(m, y, p, r, Left(X, r)) \/ GivesUp(m, y, X)
    BY <2>1, <2>4, <2>9, <2>10, NewRegionCore DEF Room
  <2>12. Left(X, r) = X
    BY <2>10 DEF Left
  <2>13. CASE GivesUp(m, y, X)
    BY <2>5, <2>13 DEF GivesUp
  <2>14. CASE GetsRegion(m, y, p, r, X)
    <3>1. x = Returns(y, y.out + pa - base)
      BY <2>5, <2>14 DEF GetsRegion
    <3>2. Idle(y, x) /\ x.ok
      BY <2>14, <3>1, IdleSteps DEF GetsRegion, Core, Shape
    <3>3. Core(x, X) /\ Regioned(m, x, p, m.proc[p].regs \cup {r})
      BY <2>14, <3>2, CoreIdle DEF GetsRegion, Idle, Regioned
    <3> QED BY <1>1, <1>3, <2>3, <2>9, <3>2, <3>3 DEF HasRegion
  <2> QED BY <2>11, <2>12, <2>13, <2>14
<1> QED BY <1>2, <1>3

\* The region around va is the only one there.
LEMMA RegionAtOne ==
    ASSUME NEW m, NEW X, Core(m, X), NEW p \in Proc, NEW r \in m.proc[p].regs, NEW va \in Nat,
           Covers(r, va)
    PROVE  RegionAt(m, p, va) = {r} /\ \A q \in m.proc[p].regs : Covers(q, va) => q = r
<1>1. PICK regs : regs = m.proc[p].regs /\ Regular(regs)
  BY DEF Core, Shape, IsProc
<1>2. ASSUME NEW q \in regs, Covers(q, va) PROVE q = r
  <2>1. /\ r.start \in Nat /\ End(r) \in Nat /\ q.start \in Nat /\ End(q) \in Nat
    BY <1>1, RegionOrder
  <2>2. /\ r.start < q.start => End(r) <= q.start
        /\ q.start < r.start => End(q) <= r.start
        /\ r.start = q.start => r = q
    BY <1>1, RegionOrder
  <2> QED BY <1>2, <2>1, <2>2 DEF Covers
<1>3. r.start <= r.start
  BY <1>1, RegionOrder
<1> QED BY <1>1, <1>2, <1>3 DEF RegionAt, Regions

\* A call that took the region r from p and succeeded.
Unmaps(m, x, p, r, X) == x.ok /\ LosesRegion(m, x, p, r, X)

\* vmm_unmap_memory and vmm_unmap_fixed: the region around va, or nothing.
LEMMA UnmapCore ==
    ASSUME NEW m, NEW X, Core(m, X), NEW p \in Proc, Live(m, p), NEW va, NEW size,
           NEW x, NEW y, x = vmm_unmap_memory(m, p, va, size), y = vmm_unmap_fixed(m, p, va, size)
    PROVE  /\ \/ GivesUp(m, x, X)
              \/ \E r \in m.proc[p].regs : /\ Covers(r, va) /\ r.own = FALSE
                                           /\ Unmaps(m, x, p, r, X)
           /\ \/ GivesUp(m, y, X)
              \/ \E r \in m.proc[p].regs : Covers(r, va) /\ Unmaps(m, y, p, r, X)
<1>1. PICK at, r : at = RegionAt(m, p, va) /\ r = CHOOSE q \in at : TRUE
  OBVIOUS
<1>2. GivesUp(m, Failed(m), X)
  <2>1. Idle(m, Failed(m)) /\ ~Failed(m).ok
    BY IdleSteps DEF Core, Shape
  <2> QED BY <2>1, CoreIdle DEF GivesUp, Idle
<1>3. at # {} => r \in at
  BY <1>1
<1>4. at # {} => r \in m.proc[p].regs /\ Covers(r, va) /\ r.own \in BOOLEAN
  <2>1. at # {} => r \in m.proc[p].regs /\ Covers(r, va)
    BY <1>1, <1>3 DEF RegionAt, Regions
  <2>2. at # {} => IsRegion(r)
    BY <2>1 DEF Core, Shape, IsProc, Regular
  <2>3. at # {} => r.own \in BOOLEAN
    BY <2>2, RegionPages DEF RegionIs
  <2> QED BY <2>1, <2>3
<1>5. PICK z, u : z = RemoveRegion(m, p, r) /\ u = Returns(z, 0)
  OBVIOUS
<1>6. ASSUME at # {} PROVE Unmaps(m, u, p, r, X)
  <2>1. LosesRegion(m, z, p, r, X)
    BY <1>4, <1>5, <1>6, RemoveRegionCore
  <2>2. Idle(z, u) /\ u.ok
    BY <1>5, <2>1, IdleSteps DEF LosesRegion, Core, Shape
  <2>3. Core(u, X)
    BY <2>1, <2>2, CoreIdle DEF LosesRegion
  <2> QED BY <2>1, <2>2, <2>3 DEF Unmaps, LosesRegion, Regioned, Idle
<1>7. x = Failed(m) \/ (x = u /\ at # {} /\ ~r.own)
  BY <1>1, <1>5 DEF vmm_unmap_memory
<1>8. y = Failed(m) \/ (y = u /\ at # {})
  BY <1>1, <1>5 DEF vmm_unmap_fixed
<1> QED BY <1>2, <1>4, <1>6, <1>7, <1>8

=============================================================================
