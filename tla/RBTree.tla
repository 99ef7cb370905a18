------------------------------- MODULE RBTree -------------------------------
(***************************************************************************)
(* The red-black tree of kernel/lib/rbtree.c that holds the regions of an  *)
(* address space, the capabilities of a process, the processes and the     *)
(* portals.  Memory and Capability use it as a set ordered by key; this    *)
(* module shows that it is one.                                            *)
(*                                                                         *)
(* A node is its key: every tree of the kernel has unique keys, because    *)
(* its users search before they insert.  The sentinel nil is a node like   *)
(* any other, as in the code: delete_fixup walks up from it, so its parent *)
(* matters while a node is removed.  The two halves of each fixup and the  *)
(* two rotations are mirror images and are written once, with the side as  *)
(* a parameter.                                                            *)
(***************************************************************************)
EXTENDS Naturals, FiniteSets, SequencesExt

CONSTANT Keys       \* the nodes the callers own, by key

VARIABLES
  tree,             \* [root, n: the fields of every node]
  held              \* the nodes that were inserted and not deleted since

nil == 0
Fields == [col : {"red", "black"}, parent : Keys \cup {nil},
           left : Keys \cup {nil}, right : Keys \cup {nil}]

\* A node outside of the tree; its caller frees it or never linked it.
Unlinked == [col |-> "black", parent |-> nil, left |-> nil, right |-> nil]

rbtree_init == [root |-> nil, n |-> [k \in Keys \cup {nil} |-> Unlinked]]

Mirror(s) == IF s = "left" THEN "right" ELSE "left"
Set(t, x, f, v) == [t EXCEPT !.n[x][f] = v]
Parent(t, x) == t.n[x].parent
Side(t, x) == IF t.n[Parent(t, x)].left = x THEN "left" ELSE "right"

-----------------------------------------------------------------------------
\* left_rotate and right_rotate: x goes down to side s, its other child up.
rotate(t, x, s) ==
  LET y == t.n[x][Mirror(s)]
      p == Parent(t, x)
      inner == t.n[y][s]
      given == Set(t, x, Mirror(s), inner)
      kept == IF inner = nil THEN given ELSE Set(given, inner, "parent", x)
      turned == Set(Set(kept, y, s, x), y, "parent", p)
      hung == IF p = nil THEN [turned EXCEPT !.root = y]
                         ELSE Set(turned, p, Side(t, x), y)
  IN Set(hung, x, "parent", y)

\* nil gets a parent here too, which delete_fixup relies on.
rbtree_replace_node(t, old, new) ==
  LET p == Parent(t, old)
      hung == IF p = nil THEN [t EXCEPT !.root = new] ELSE Set(t, p, Side(t, old), new)
  IN Set(hung, new, "parent", p)

-----------------------------------------------------------------------------
\* Find and iterate.

RECURSIVE SearchFrom(_, _, _)
SearchFrom(t, x, key) ==
  IF x = nil \/ x = key THEN x
  ELSE SearchFrom(t, IF key < x THEN t.n[x].left ELSE t.n[x].right, key)
rbtree_search(t, key) == SearchFrom(t, t.root, key)

RECURSIVE Outermost(_, _, _)
Outermost(t, x, s) == IF t.n[x][s] = nil THEN x ELSE Outermost(t, t.n[x][s], s)

\* rbtree_first and rbtree_last; nil stands for the null pointer.
End(t, s) == IF t.root = nil THEN nil ELSE Outermost(t, t.root, s)

\* Mutant of Climb: one step up is taken for enough.
Climb_Once(t, x, s) == Parent(t, x)

RECURSIVE Climb(_, _, _)
Climb(t, x, s) ==
  LET p == Parent(t, x) IN IF p # nil /\ x = t.n[p][s] THEN Climb(t, p, s) ELSE p

\* rbtree_next goes to side "right", rbtree_prev to side "left".
Neighbour(t, x, s) ==
  IF t.n[x][s] # nil THEN Outermost(t, t.n[x][s], Mirror(s)) ELSE Climb(t, x, s)

\* rbtree_for_each; it visits no more nodes than there are.
RECURSIVE VisitFrom(_, _, _, _)
VisitFrom(t, x, s, room) ==
  IF x = nil \/ room = 0 THEN << >>
  ELSE <<x>> \o VisitFrom(t, Neighbour(t, x, s), s, room - 1)
rbtree_for_each(t, s) == VisitFrom(t, End(t, Mirror(s)), s, Cardinality(Keys) + 1)

-----------------------------------------------------------------------------
\* Insert.

RECURSIVE insert_fixup(_, _)
insert_fixup(t, x) ==
  LET p == Parent(t, x)
      g == Parent(t, p)
      s == Side(t, p)
      uncle == t.n[g][Mirror(s)]
  IN IF p = nil \/ t.n[p].col = "black" THEN t
     ELSE IF t.n[uncle].col = "red"
     THEN insert_fixup(Set(Set(Set(t, p, "col", "black"), uncle, "col", "black"),
                           g, "col", "red"), g)
     ELSE LET inside == x = t.n[p][Mirror(s)]
              low == IF inside THEN p ELSE x
              straight == IF inside THEN rotate(t, p, s) ELSE t
              up == Parent(straight, low)
          IN rotate(Set(Set(straight, up, "col", "black"),
                        Parent(straight, up), "col", "red"),
                    Parent(straight, up), Mirror(s))

RECURSIVE LeafFor(_, _, _)
LeafFor(t, x, key) ==
  LET s == IF key < x THEN "left" ELSE "right"
  IN IF t.n[x][s] = nil THEN x ELSE LeafFor(t, t.n[x][s], key)

rbtree_insert(t, new) ==
  LET fresh == [t EXCEPT !.n[new] = [Unlinked EXCEPT !.col = "red"]]
      p == LeafFor(t, t.root, new)
      s == IF new < p THEN "left" ELSE "right"
      hung == insert_fixup(Set(Set(fresh, new, "parent", p), p, s, new), new)
  IN IF t.root = nil THEN Set([fresh EXCEPT !.root = new], new, "col", "black")
     ELSE Set(hung, hung.root, "col", "black")

-----------------------------------------------------------------------------
\* Delete.

RECURSIVE delete_fixup(_, _)
delete_fixup(t, x) ==
  IF x = t.root \/ t.n[x].col = "red" THEN Set(t, x, "col", "black")
  ELSE LET s == IF x = t.n[Parent(t, x)].left THEN "left" ELSE "right"
           o == Mirror(s)
           p == Parent(t, x)
           Black(u, y) == u.n[y].col = "black"
           \* case 1: a red brother goes up, its child becomes the brother
           b1 == t.n[p][o]
           t1 == IF Black(t, b1) THEN t
                 ELSE rotate(Set(Set(t, b1, "col", "black"), Parent(t, b1), "col", "red"), p, s)
           b2 == t1.n[p][o]
           \* case 3: the far nephew is black, the near one goes up
           t3 == IF Black(t1, t1.n[b2][o])
                 THEN rotate(Set(Set(t1, t1.n[b2][s], "col", "black"), b2, "col", "red"), b2, o)
                 ELSE t1
           b4 == t3.n[p][o]
       IN IF Black(t1, t1.n[b2].left) /\ Black(t1, t1.n[b2].right)   \* case 2
          THEN delete_fixup(IF b2 = nil THEN t1 ELSE Set(t1, b2, "col", "red"), p)
          ELSE LET t4 == rotate(Set(Set(Set(t3, b4, "col", t3.n[p].col), p, "col", "black"),
                                    t3.n[b4][o], "col", "black"), p, s)
               IN Set(t4, x, "col", "black")

\* The tree after node has been unlinked, the colour that left it and where.
Spliced(t, node) ==
  LET left == t.n[node].left
      right == t.n[node].right
  IN IF left = nil \/ right = nil
     THEN LET child == IF left = nil THEN right ELSE left
          IN [t |-> rbtree_replace_node(t, node, child), gone |-> t.n[node].col, at |-> child]
     ELSE LET new == Outermost(t, right, "left")
              below == t.n[new].right
              freed == IF Parent(t, new) = node
                       THEN Set(Set(Set(t, left, "parent", new), new, "left", left),
                                below, "parent", new)
                       ELSE LET out == Set(rbtree_replace_node(t, new, below), new, "right", right)
                            IN Set(out, right, "parent", new)
              placed == rbtree_replace_node(freed, node, new)
          IN [t |-> Set(Set(Set(placed, new, "left", left), left, "parent", new),
                        new, "col", t.n[node].col),
              gone |-> t.n[new].col, at |-> below]

\* Mutant of rbtree_delete: the colour of the node that goes is taken for the
\* colour of the place that goes.
rbtree_delete_OwnColour(t, node) ==
  LET cut == Spliced(t, node)
      fixed == IF t.n[node].col = "black" THEN delete_fixup(cut.t, cut.at) ELSE cut.t
  IN [fixed EXCEPT !.n[node] = Unlinked]
rbtree_delete(t, node) ==
  LET cut == Spliced(t, node)
      fixed == IF cut.gone = "black" THEN delete_fixup(cut.t, cut.at) ELSE cut.t
  IN [fixed EXCEPT !.n[node] = Unlinked]

-----------------------------------------------------------------------------
Init == tree = rbtree_init /\ held = {}

\* rbtree_find_or_insert, and the search that precedes every other insert.
Insert(k) ==
  /\ k \notin held
  /\ tree' = rbtree_insert(tree, k)
  /\ held' = held \cup {k}

\* The caller passes the node it found.
Delete(k) ==
  /\ k \in held
  /\ tree' = rbtree_delete(tree, k)
  /\ held' = held \ {k}

Next == \E k \in Keys : Insert(k) \/ Delete(k)
Spec == Init /\ [][Next]_<<tree, held>>

-----------------------------------------------------------------------------
\* Whatever was inserted and deleted before, rbtree_search finds exactly the
\* nodes that are in, and rbtree_for_each visits them in order, forwards with
\* rbtree_next and backwards with rbtree_prev: the tree is the sorted set that
\* placement of regions and lookup of capabilities take it for.
Ordered ==
  LET visited == rbtree_for_each(tree, "right")
  IN /\ \A k \in Keys : rbtree_search(tree, k) = IF k \in held THEN k ELSE nil
     /\ ToSet(visited) = held
     /\ \A i \in 2..Len(visited) : visited[i - 1] < visited[i]
     /\ rbtree_for_each(tree, "left") = Reverse(visited)

\* Black nodes from x down to a leaf, or 0 when two paths differ or a red node
\* has a red child.
RECURSIVE BlackHeight(_)
BlackHeight(x) ==
  IF x = nil THEN 1
  ELSE LET l == BlackHeight(tree.n[x].left)
           r == BlackHeight(tree.n[x].right)
           reds == tree.n[x].col = "red"
                   /\ "red" \in {tree.n[tree.n[x].left].col, tree.n[tree.n[x].right].col}
       IN IF l = 0 \/ l # r \/ reds THEN 0
          ELSE l + IF tree.n[x].col = "black" THEN 1 ELSE 0

\* The two directions of every link agree, and no node of the tree points to one
\* that was taken out (and freed).
LinksAgree ==
  /\ tree \in [root : Keys \cup {nil}, n : [Keys \cup {nil} -> Fields]]
  /\ tree.root # nil => Parent(tree, tree.root) = nil
  /\ \A k \in held :
       /\ {tree.n[k].left, tree.n[k].right, Parent(tree, k)} \subseteq held \cup {nil}
       /\ \A s \in {"left", "right"} : tree.n[k][s] # nil => Parent(tree, tree.n[k][s]) = k
       /\ k = tree.root \/ (Parent(tree, k) # nil /\ tree.n[Parent(tree, k)][Side(tree, k)] = k)

\* Rotations and splices keep the links together and the fixups restore the
\* balance: the root and nil are black, no red node has a red child and every
\* path has the same number of black nodes, so no search takes more than twice
\* the logarithm of the number of nodes.
Balanced ==
  /\ LinksAgree
  /\ tree.n[tree.root].col = "black"
  /\ [tree.n[nil] EXCEPT !.parent = nil] = Unlinked
  /\ BlackHeight(tree.root) # 0
=============================================================================
