----------------------------- MODULE TreeLinks ------------------------------
(***************************************************************************)
(* What the search trees of libdict and of clib/rbdict.c have in common:   *)
(* nodes with links to a parent and two children, one iterator, and the    *)
(* walks along the links.  A tree and its iterator are one record          *)
(*                                                                         *)
(*   [root, count, itor, dat, parent, left, right, aux]                    *)
(*                                                                         *)
(* where aux is what the discipline keeps in a node: its colour, balance   *)
(* or weight.  A node is named by the key in it, so exchanging the         *)
(* contents of two nodes (SWAP in the code) exchanges their names.  The    *)
(* end of a branch is NULL, or in the red-black trees the node NIL, which  *)
(* has links of its own: operators take it as the parameter e.             *)
(***************************************************************************)
EXTENDS Integers, Sequences, FiniteSets

CONSTANT MaxKey         \* bound: the keys are 1 .. MaxKey

ASSUME TreeLinksAssumption == MaxKey \in Nat \ {0}

Key == 1 .. MaxKey
NIL == MaxKey + 1
NULL == 0
WILD == -1              \* a pointer to freed memory, or one read through NULL
Place == 1 .. NIL       \* what has fields

None == 0               \* no data
Addr == 9               \* the address of the caller's variable, stored in place of its value

\* What a call returns: the tree it leaves, its code, the data it hands out.
R(t, code, dat) == [heap |-> t, ret |-> <<code, dat>>]
Crash == -9             \* the code of a call that follows a NULL pointer
Crashed(t) == R(t, Crash, None)

NewTree(e) ==
  LET blank == [n \in Place |-> NULL]
  IN  [root |-> e, count |-> 0, itor |-> e, dat |-> [n \in Key |-> None],
       parent |-> blank, left |-> blank, right |-> blank, aux |-> blank]

\* Twin functions differ in their sides: the fields left and right.
Other(side) == IF side = "left" THEN "right" ELSE "left"

-----------------------------------------------------------------------------
\* The node a descent for k ends at: k's, or the end of the branch.
RECURSIVE Descend(_, _, _)
Descend(t, n, k) ==
  IF n \notin Key \/ n = k THEN n ELSE Descend(t, IF k < n THEN t.left[n] ELSE t.right[n], k)
Find(t, k) == Descend(t, t.root, k)

\* The nodes a descent for k goes through before it, from the root.
RECURSIVE PathFrom(_, _, _)
PathFrom(t, n, k) ==
  IF n \notin Key \/ n = k THEN << >>
  ELSE <<n>> \o PathFrom(t, IF k < n THEN t.left[n] ELSE t.right[n], k)
Path(t, k) == PathFrom(t, t.root, k)

\* p, whose child old is, or the root when p is the end, points to new instead.
Adopt(t, p, old, new, e) ==
  IF p = e THEN [t EXCEPT !.root = new]
  ELSE IF t.left[p] = old THEN [t EXCEPT !.left[p] = new] ELSE [t EXCEPT !.right[p] = new]

SetParent(t, n, p, e) == IF n = e THEN t ELSE [t EXCEPT !.parent[n] = p]

\* A new node for k, hung where the descent for k ended.
Hang(t, k, d, aux, e) ==
  LET path == Path(t, k)
      p == IF path = << >> THEN e ELSE path[Len(path)]
      t1 == [t EXCEPT !.dat[k] = d, !.aux[k] = aux, !.parent[k] = p,
                      !.left[k] = e, !.right[k] = e]
  IN  IF p = e THEN [t1 EXCEPT !.root = k]
      ELSE IF k < p THEN [t1 EXCEPT !.left[p] = k] ELSE [t1 EXCEPT !.right[p] = k]

\* The node n, which has one child at most, is taken out of its branch.
Unlink(t, n, e) ==
  LET c == IF t.left[n] # e THEN t.left[n] ELSE t.right[n]
  IN  SetParent(Adopt(t, t.parent[n], n, c, e), c, t.parent[n], e)

\* The node n is freed; an iterator on it may not be used any more.
Drop(t, n) ==
  [t EXCEPT !.aux[n] = NULL, !.parent[n] = NULL, !.left[n] = NULL, !.right[n] = NULL,
            !.itor = IF @ = n THEN WILD ELSE @]

\* Slip: the subtree that changes sides keeps its old parent.
Rotate_Parent(t, n, side, e) ==
  LET r == t[Other(side)][n]
      t1 == [t EXCEPT ![Other(side)][n] = t[side][r], !.parent[r] = t.parent[n]]
      t2 == Adopt(t1, t.parent[n], n, r, e)
  IN  [t2 EXCEPT ![side][r] = n, !.parent[n] = r]

\* n goes down on that side, and its child on the other takes its place.
Rotate(t, n, side, e) ==
  LET r == t[Other(side)][n]
      t1 == SetParent([t EXCEPT ![Other(side)][n] = t[side][r], !.parent[r] = t.parent[n]],
                      t[side][r], n, e)
      t2 == Adopt(t1, t.parent[n], n, r, e)
  IN  [t2 EXCEPT ![side][r] = n, !.parent[n] = r]
RotLeft(t, n, e) == Rotate(t, n, "left", e)
RotRight(t, n, e) == Rotate(t, n, "right", e)

\* SWAP of the keys and data of two nodes: their names change places in every link.
Exchange(t, a, b) ==
  LET to(n) == CASE n = a -> b [] n = b -> a [] OTHER -> n
      links(f) == [n \in Place |-> to(f[to(n)])]
  IN  [t EXCEPT !.root = to(@), !.itor = to(@), !.parent = links(@), !.left = links(@),
                !.right = links(@), !.aux = [n \in Place |-> @[to(n)]]]

-----------------------------------------------------------------------------
\* The last node under n on one side.
RECURSIVE Outermost(_, _, _, _)
Outermost(t, n, side, e) ==
  IF n \notin Place THEN WILD
  ELSE IF t[side][n] = e THEN n ELSE Outermost(t, t[side][n], side, e)
NodeMin(t, n, e) == Outermost(t, n, "left", e)
NodeMax(t, n, e) == Outermost(t, n, "right", e)

\* The first ancestor that n is not on that side of.
RECURSIVE AncestorBeyond(_, _, _, _)
AncestorBeyond(t, n, side, e) ==
  LET p == t.parent[n]
  IN  IF p # e /\ t[side][p] = n THEN AncestorBeyond(t, p, side, e) ELSE p

\* The next node on one side in the order of the keys.
Neighbour(t, n, side, e) ==
  IF n \notin Place THEN WILD
  ELSE IF t[side][n] # e THEN Outermost(t, t[side][n], Other(side), e)
  ELSE AncestorBeyond(t, n, side, e)
NodeNext(t, n, e) == Neighbour(t, n, "right", e)
NodePrev(t, n, e) == Neighbour(t, n, "left", e)

\* Slip: the right child, for the first node of the right branch.
Out_Child(t, k, e) == IF t.left[k] # e /\ t.right[k] # e THEN t.right[k] ELSE k

\* The node that leaves when k is removed: k's, or its successor's when k's has two children.
\* The two have exchanged their contents then; here they do when the rest is done.
Out(t, k, e) ==
  IF t.left[k] # e /\ t.right[k] # e THEN NodeMin(t, t.right[k], e) ELSE k
Removed(t, k, out) ==
  LET s == IF out = k THEN t ELSE Exchange(t, k, out)
  IN  [s EXCEPT !.dat[k] = None, !.count = @ - 1]

RECURSIVE WalkFrom(_, _, _)
WalkFrom(t, n, e) ==
  IF n = e THEN << >> ELSE IF n = WILD THEN <<WILD>>
  ELSE <<n>> \o WalkFrom(t, NodeNext(t, n, e), e)
\* The keys a walk visits when no visit stops it.
Walk(t, e) == IF t.root = e THEN << >> ELSE WalkFrom(t, NodeMin(t, t.root, e), e)

RECURSIVE Height(_, _, _)
Height(t, n, e) ==
  LET of(c) == IF c = e THEN 0 ELSE Height(t, c, e) + 1
      l == of(t.left[n])  r == of(t.right[n])
  IN  IF l > r THEN l ELSE r

RECURSIVE MinHeight(_, _, _)
MinHeight(t, n, e) ==
  LET of(c) == IF c = e THEN 0 ELSE MinHeight(t, c, e) + 1
      l == of(t.left[n])  r == of(t.right[n])
  IN  IF l < r THEN l ELSE r

\* The loop for (node = root; node->back; node = node->left) of the tree_max functions
\* that go left once they have gone right: with back = right it stops at the first node
\* without a right child.
RECURSIVE LeftWhileRight(_, _)
LeftWhileRight(t, n) ==
  IF n = NULL THEN WILD ELSE IF t.right[n] = NULL THEN n ELSE LeftWhileRight(t, t.left[n])

-----------------------------------------------------------------------------
\* The iterator's operations: a call on an iterator past the end starts again from the
\* other end.
ItorEnd(t, side, e) ==
  [t EXCEPT !.itor = IF t.root = e THEN e ELSE Outermost(t, t.root, side, e)]
ItorFirst(t, e) == ItorEnd(t, "left", e)
ItorLast(t, e) == ItorEnd(t, "right", e)
ItorNext(t, e) ==
  IF t.itor = e THEN ItorFirst(t, e) ELSE [t EXCEPT !.itor = NodeNext(t, t.itor, e)]
ItorPrev(t, e) ==
  IF t.itor = e THEN ItorLast(t, e) ELSE [t EXCEPT !.itor = NodePrev(t, t.itor, e)]

\* while (count-- && itor->node): the test is for NULL in every tree.
RECURSIVE Advance(_, _, _, _, _)
Advance(t, n, c, side, e) ==
  IF c = 0 \/ n \in {NULL, WILD} THEN n
  ELSE Advance(t, Neighbour(t, n, side, e), c - 1, side, e)
ItorSteps(t, c, side, e) ==
  LET start == IF t.itor = e THEN ItorEnd(t, Other(side), e).itor ELSE t.itor
      left == IF t.itor = e THEN c - 1 ELSE c
  IN  IF c = 0 THEN t ELSE [t EXCEPT !.itor = Advance(t, start, left, side, e)]
ItorNextN(t, c, e) == ItorSteps(t, c, "right", e)
ItorPrevN(t, c, e) == ItorSteps(t, c, "left", e)

ItorKey(t, e) == IF t.itor = e THEN NULL ELSE t.itor
ItorData(t, e) == IF t.itor = e THEN None ELSE t.dat[t.itor]

\* What a call on the iterator returns: whether it is on a node.  One that followed NULL
\* has crashed.
Moved(t, e) == IF t.itor = WILD THEN Crashed(t) ELSE R(t, IF t.itor = e THEN 0 ELSE 1, None)
=============================================================================
