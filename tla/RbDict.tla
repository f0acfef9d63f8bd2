------------------------------- MODULE RbDict -------------------------------
(***************************************************************************)
(* neocrawler/clib/rbdict.c: the red-black tree in which the center keeps  *)
(* its domains and URLs and the fetcher its addresses.  aux is the colour. *)
(* Branches end in the static node nil, one for all trees of the process,  *)
(* whose own links are NULL; here each tree has its own.                   *)
(***************************************************************************)
EXTENDS TreeLinks

RB_RED == 0
RB_BLACK == 1

rb_dict_new == [NewTree(NIL) EXCEPT !.aux[NIL] = RB_BLACK]

rb_rot_left(t, n) == RotLeft(t, n, NIL)
rb_rot_right(t, n) == RotRight(t, n, NIL)

\* One round of the loop when the parent of n is a child on that side: the tree and the
\* node to go on with.
Recolour(t, n, side) ==
  LET p == t.parent[n]  g == t.parent[p]  uncle == t[Other(side)][g]
      bent == n = t[Other(side)][p]
      t1 == IF bent THEN Rotate(t, p, side, NIL) ELSE t
      m == IF bent THEN p ELSE n
      q == IF bent THEN n ELSE p
  IN  IF t.aux[uncle] = RB_RED
      THEN [t |-> [t EXCEPT !.aux[uncle] = RB_BLACK, !.aux[p] = RB_BLACK, !.aux[g] = RB_RED],
            n |-> g]
      ELSE [t |-> Rotate([t1 EXCEPT !.aux[q] = RB_BLACK, !.aux[g] = RB_RED],
                         g, Other(side), NIL),
            n |-> m]

RECURSIVE rb_insert_fixup(_, _)
rb_insert_fixup(t, n) ==
  LET p == t.parent[n]
      s == Recolour(t, n, IF p = t.left[t.parent[p]] THEN "left" ELSE "right")
  IN  IF n = t.root \/ t.aux[p] # RB_RED THEN [t EXCEPT !.aux[t.root] = RB_BLACK]
      ELSE rb_insert_fixup(s.t, s.n)

rb_insert_node(t, k, d) ==
  [rb_insert_fixup(Hang(t, k, d, RB_RED, NIL), k) EXCEPT !.count = @ + 1]

rb_dict_insert(t, k, d, overwrite) ==
  CASE Find(t, k) = NULL -> Crashed(t)
    [] Find(t, k) = NIL -> R(rb_insert_node(t, k, d), 0, None)
    [] Find(t, k) = k /\ overwrite -> R([t EXCEPT !.dat[k] = d], 0, None)
    [] OTHER -> R(t, 1, None)

rb_dict_probe(t, k, d) ==
  CASE Find(t, k) = NULL -> Crashed(t)
    [] Find(t, k) = NIL -> R(rb_insert_node(t, k, d), 1, d)
    [] OTHER -> R(t, 0, t.dat[k])

\* One round of the loop when n is a child on that side: its sibling lends it a black node,
\* or the loss moves up to the parent.
Lend(t, p, side) ==
  LET s == t[Other(side)][p]
      near == t[side][s]  far == t[Other(side)][s]
      turn == t.aux[far] = RB_BLACK
      t1 == IF turn THEN Rotate([t EXCEPT !.aux[near] = RB_BLACK, !.aux[s] = RB_RED],
                                s, Other(side), NIL) ELSE t
      s1 == IF turn THEN near ELSE s
      far1 == IF turn THEN s ELSE far
  IN  Rotate([t1 EXCEPT !.aux[s1] = t.aux[p], !.aux[far1] = RB_BLACK, !.aux[p] = RB_BLACK],
             p, side, NIL)

Rebalance(t, n, side) ==
  LET p == t.parent[n]
      s == t[Other(side)][p]
      t1 == IF t.aux[s] = RB_RED
            THEN Rotate([t EXCEPT !.aux[s] = RB_BLACK, !.aux[p] = RB_RED], p, side, NIL) ELSE t
      s1 == t1[Other(side)][p]
      t2 == Lend(t1, p, side)
  IN  IF t1.aux[t1.left[s1]] = RB_BLACK /\ t1.aux[t1.right[s1]] = RB_BLACK
      THEN [t |-> [t1 EXCEPT !.aux[s1] = RB_RED], n |-> p]
      ELSE [t |-> t2, n |-> t2.root]

RECURSIVE rb_delete_fixup(_, _)
rb_delete_fixup(t, n) ==
  LET s == Rebalance(t, n, IF t.left[t.parent[n]] = n THEN "left" ELSE "right")
  IN  IF n = t.root \/ t.aux[n] # RB_BLACK THEN [t EXCEPT !.aux[n] = RB_BLACK]
      ELSE rb_delete_fixup(s.t, s.n)

\* The child of the node that leaves gets its parent even when it is nil.
Cut(t, k) ==
  LET out == Out(t, k, NIL)
      c == IF t.left[out] # NIL THEN t.left[out] ELSE t.right[out]
      t1 == [Unlink(t, out, NIL) EXCEPT !.parent[c] = t.parent[out]]
      t2 == IF t.aux[out] = RB_BLACK THEN rb_delete_fixup(t1, c) ELSE t1
  IN  Removed(Drop(t2, out), k, out)

\* The test for an absent key is node == NULL, but the search ends at nil: nil is taken
\* for an inner node and its right child, NULL, is followed.
rb_dict_remove(t, k) == IF Find(t, k) # k THEN Crashed(t) ELSE R(Cut(t, k), 0, None)

\* Every node is freed; the root is left NULL, which no other function takes for empty.
rb_dict_empty(t) ==
  IF t.root = NULL THEN Crashed(t)
  ELSE R([NewTree(NIL) EXCEPT !.root = NULL, !.aux[NIL] = t.aux[NIL],
                              !.parent[NIL] = t.parent[NIL],
                              !.itor = IF t.itor \in Key THEN WILD ELSE t.itor], 0, None)

rb_dict_destroy(t) == IF t.root # NIL THEN rb_dict_empty(t) ELSE R(t, 0, None)

\* Returns the last comparison when k is not there: k's sign against where it would hang.
rb_dict_search(t, k) ==
  LET path == Path(t, k)
  IN  CASE Find(t, k) = NULL -> Crashed(t)
        [] Find(t, k) = k -> R(t, 0, t.dat[k])
        [] OTHER -> R(t, IF path # << >> /\ k > path[Len(path)] THEN 1 ELSE -1, None)

rb_dict_count(t) == t.count
rb_dict_walk(t) == Walk(t, NIL)
rb_dict_height(t) ==
  CASE t.root = NULL -> WILD [] t.root = NIL -> 0 [] OTHER -> Height(t, t.root, NIL)
rb_dict_mheight(t) ==
  CASE t.root = NULL -> WILD [] t.root = NIL -> 0 [] OTHER -> MinHeight(t, t.root, NIL)

\* The loops look for a NULL child and find it in nil, whose key is NULL.
rb_dict_min(t) == LET n == NodeMin(t, t.root, NULL) IN IF n = NIL THEN NULL ELSE n
rb_dict_max(t) == LET n == NodeMax(t, t.root, NULL) IN IF n = NIL THEN NULL ELSE n

rb_itor_new(t) == ItorFirst(t, NIL)
rb_itor_valid(t) == t.itor # NIL
rb_itor_invalidate(t) == [t EXCEPT !.itor = NIL]
rb_itor_next(t) == Moved(ItorNext(t, NIL), NIL)
rb_itor_prev(t) == Moved(ItorPrev(t, NIL), NIL)

\* Their loop stops at NULL only, and goes on from nil.
rb_itor_nextn(t, c) == Moved(ItorNextN(t, c, NIL), NIL)
rb_itor_prevn(t, c) == Moved(ItorPrevN(t, c, NIL), NIL)
rb_itor_first(t) == Moved(ItorFirst(t, NIL), NIL)
rb_itor_last(t) == Moved(ItorLast(t, NIL), NIL)
rb_itor_key(t) == ItorKey(t, NIL)
rb_itor_data(t) == ItorData(t, NIL)
=============================================================================
