------------------------------- MODULE PrTree -------------------------------
(***************************************************************************)
(* libdict-1.0/pr_tree.c: a path-reduction tree, which rotates only when   *)
(* that shortens the total path length.  Nodes, weights, rotations and     *)
(* deletion are a copy of wb_tree.c's.                                     *)
(***************************************************************************)
EXTENDS WbTree

pr_tree_new == NewTree(NULL)
pr_dict_new == {"inew", "destroy", "insert", "probe", "search", "csearch", "remove",
                "empty", "walk", "count"}
pr_dict_itor_new == {"destroy", "valid", "invalid", "next", "prev", "nextn", "prevn",
                     "first", "last", "key", "data", "cdata"}

pr_rot_left(t, n) == wb_rot_left(t, n)
pr_rot_right(t, n) == wb_rot_right(t, n)

\* When n's right subtree is the heavier one: a rotation, single or double, if it makes the
\* heavier grandchild's path shorter than the path of n's left subtree grows longer.  The
\* nodes that came down are treated in turn.
RECURSIVE pr_fixup(_, _)
pr_fixup(t, n) ==
  LET wl == WEIGHT(t, t.left[n])  wr == WEIGHT(t, t.right[n])
      fix(s, c) == IF c = NULL THEN s ELSE pr_fixup(s, c)
      r == t.right[n]  l == t.left[n]
      LL == pr_rot_left(t, n)
      RL == pr_rot_left(pr_rot_right(t, r), n)
      RR == pr_rot_right(t, n)
      LR == pr_rot_right(pr_rot_left(t, l), n)
      \* temp is where it was before the rotations; its children are those after them.
      both(s, temp) == LET s1 == fix(s, s.left[temp]) IN fix(s1, s1.right[temp])
  IN  CASE wr > wl /\ WEIGHT(t, t.right[r]) > wl -> fix(LL, LL.left[r])
        [] wr > wl /\ WEIGHT(t, t.right[r]) <= wl /\ WEIGHT(t, t.left[r]) > wl -> both(RL, r)
        [] wl > wr /\ WEIGHT(t, t.left[l]) > wr -> fix(RR, RR.right[l])
        [] wl > wr /\ WEIGHT(t, t.left[l]) <= wr /\ WEIGHT(t, t.right[l]) > wr -> both(LR, l)
        [] OTHER -> t

\* The climb from the new leaf fixes every ancestor, and gives none its new weight: only
\* rotations do.
FIXUP(n, t) == pr_fixup(t, n)
pr_insert_node(t, k, d) ==
  [FoldRight(FIXUP, Path(t, k), Hang(t, k, d, 2, NULL)) EXCEPT !.count = @ + 1]

pr_tree_insert(t, k, d, overwrite) ==
  IF Find(t, k) = NULL THEN R(pr_insert_node(t, k, d), 0, None)
  ELSE IF overwrite THEN R([t EXCEPT !.dat[k] = d], 0, None)
  ELSE R(t, 1, None)

pr_tree_probe(t, k, d) ==
  IF Find(t, k) = NULL THEN R(pr_insert_node(t, k, Addr), 1, d) ELSE R(t, 0, t.dat[k])

pr_delete(t, n, k) == wb_delete(t, n, k)
pr_tree_remove(t, k) ==
  IF Find(t, k) = NULL THEN R(t, 0, None)
  ELSE R(Removed(pr_delete(t, t.root, k), k, k), 0, None)

pr_tree_empty(t) ==
  [NewTree(NULL) EXCEPT !.count = t.count - Len(Walk(t, NULL)),
                        !.itor = IF t.itor \in Key THEN WILD ELSE t.itor]
pr_tree_destroy(t) == IF t.root # NULL THEN R(pr_tree_empty(t), 0, None) ELSE R(t, 0, None)

pr_tree_search(t, k) == R(t, 0, IF Find(t, k) = NULL THEN None ELSE t.dat[k])
pr_tree_csearch(t, k) == IF Find(t, k) = NULL THEN None ELSE t.dat[k]
pr_tree_count(t) == t.count
pr_tree_walk(t) == Walk(t, NULL)
pr_tree_min(t) == IF t.root = NULL THEN NULL ELSE NodeMin(t, t.root, NULL)
pr_tree_max(t) == IF t.root = NULL THEN NULL ELSE LeftWhileRight(t, t.root)
pr_tree_height(t) == IF t.root = NULL THEN 0 ELSE Height(t, t.root, NULL)
pr_tree_mheight(t) == IF t.root = NULL THEN 0 ELSE MinHeight(t, t.root, NULL)

pr_itor_new(t) == ItorFirst(t, NULL)
pr_itor_valid(t) == t.itor # NULL
pr_itor_invalidate(t) == [t EXCEPT !.itor = NULL]
pr_itor_next(t) == Moved(ItorNext(t, NULL), NULL)
pr_itor_prev(t) == Moved(ItorPrev(t, NULL), NULL)
pr_itor_nextn(t, c) == Moved(ItorNextN(t, c, NULL), NULL)
pr_itor_prevn(t, c) == Moved(ItorPrevN(t, c, NULL), NULL)
pr_itor_first(t) == Moved(ItorFirst(t, NULL), NULL)
pr_itor_last(t) == Moved(ItorLast(t, NULL), NULL)
pr_itor_key(t) == ItorKey(t, NULL)
pr_itor_data(t) == ItorData(t, NULL)
=============================================================================
