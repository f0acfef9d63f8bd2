------------------------------- MODULE HbTree -------------------------------
(***************************************************************************)
(* libdict-1.0/hb_tree.c: a height-balanced (AVL) tree.  aux is bal, the   *)
(* height of the right subtree less that of the left.  Built with NDEBUG,  *)
(* as the Makefile does: ASSERT tests nothing.                             *)
(***************************************************************************)
EXTENDS TreeLinks, SequencesExt

hb_tree_new == NewTree(NULL)

\* The function pointers a dict, and an iterator of a dict, are given.
hb_dict_new == {"inew", "destroy", "insert", "probe", "search", "csearch", "remove",
                "empty", "walk", "count"}
hb_dict_itor_new == {"destroy", "valid", "invalid", "next", "prev", "nextn", "prevn",
                     "first", "last", "key", "data", "cdata"}

-----------------------------------------------------------------------------
\* Slip: the old balance of the child is not taken into account.
hb_rot_left_Plain(t, n) ==
  LET r == t.right[n]
  IN  [t |-> [RotLeft(t, n, NULL) EXCEPT !.aux[n] = 0, !.aux[r] = 0],
       hc |-> IF t.aux[r] = 0 THEN 1 ELSE 0]

\* A rotation, and whether it leaves the height as it was.
hb_rot_left(t, n) ==
  LET r == t.right[n]
      nb == t.aux[n] - (1 + IF t.aux[r] > 0 THEN t.aux[r] ELSE 0)
      rb == t.aux[r] - (1 - IF nb < 0 THEN nb ELSE 0)
  IN  [t |-> [RotLeft(t, n, NULL) EXCEPT !.aux[n] = nb, !.aux[r] = rb],
       hc |-> IF t.aux[r] = 0 THEN 1 ELSE 0]

hb_rot_right(t, n) ==
  LET l == t.left[n]
      nb == t.aux[n] + (1 - IF t.aux[l] < 0 THEN t.aux[l] ELSE 0)
      lb == t.aux[l] + (1 + IF nb > 0 THEN nb ELSE 0)
  IN  [t |-> [RotRight(t, n, NULL) EXCEPT !.aux[n] = nb, !.aux[l] = lb],
       hc |-> IF t.aux[l] = 0 THEN 1 ELSE 0]

\* Balances n, and says whether that made its subtree lower.
hb_fixup(t, n) ==
  LET once(s) == [t |-> s.t, lower |-> 1 - s.hc]
      twice(s) == [t |-> s.t, lower |-> 1]
      l == t.left[n]  r == t.right[n]
  IN  CASE t.aux[n] < -1 /\ t.aux[l] <= 0 -> once(hb_rot_right(t, n))
        [] t.aux[n] < -1 /\ t.aux[l] > 0 -> twice(hb_rot_right(hb_rot_left(t, l).t, n))
        [] t.aux[n] > 1 /\ t.aux[r] >= 0 -> once(hb_rot_left(t, n))
        [] t.aux[n] > 1 /\ t.aux[r] < 0 -> twice(hb_rot_left(hb_rot_right(t, r).t, n))
        [] OTHER -> [t |-> t, lower |-> 0]

\* The balance of n after its subtree on k's side grew by d.
Tilt(n, k, d) == IF k < n THEN -d ELSE d

\* The way back up from the new leaf: chg is 1 while the subtree below has grown.
hb_insert_node(t, k, d) ==
  LET up(n, s) ==
        IF s.chg = 0 THEN s
        ELSE LET t1 == [s.t EXCEPT !.aux[n] = @ + Tilt(n, k, 1)]
                 f == hb_fixup(t1, n)
             IN  IF t1.aux[n] = 0 THEN [t |-> t1, chg |-> 0]
                 ELSE [t |-> f.t, chg |-> 1 - f.lower]
  IN  FoldRight(up, Path(t, k), [t |-> Hang(t, k, d, 0, NULL), chg |-> 1]).t

Counted(t, by) == [t EXCEPT !.count = @ + by]

\* The count goes up when an insertion only overwrites, too.
hb_tree_insert(t, k, d, overwrite) ==
  IF Find(t, k) = NULL THEN R(Counted(hb_insert_node(t, k, d), 1), 0, None)
  ELSE IF overwrite THEN R(Counted([t EXCEPT !.dat[k] = d], 1), 0, None)
  ELSE R(t, 1, None)

hb_tree_probe(t, k, d) ==
  IF Find(t, k) = NULL THEN R(Counted(hb_insert_node(t, k, d), 1), 1, d) ELSE R(t, 0, t.dat[k])

\* The node that leaves is cut out; on the way back up to the root chg is 1 while the
\* subtree below has become lower.
hb_delete(t, k) ==
  LET out == Out(t, k, NULL)
      up(n, s) ==
        IF s.chg = 0 THEN s
        ELSE LET t1 == [s.t EXCEPT !.aux[n] = @ - Tilt(n, out, 1)]
                 f == hb_fixup(t1, n)
             IN  IF t1.aux[n] = 0 THEN [t |-> t1, chg |-> 1]
                 ELSE [t |-> f.t, chg |-> f.lower]
      cut == Drop(Unlink(t, out, NULL), out)
  IN  Removed(FoldRight(up, Path(t, out), [t |-> cut, chg |-> 1]).t, k, out)

hb_tree_remove(t, k) == IF Find(t, k) = NULL THEN R(t, -1, None) ELSE R(hb_delete(t, k), 0, None)

\* Frees every node and counts each down; what insert counted too often stays.
hb_tree_empty(t) ==
  LET nodes == Len(Walk(t, NULL))
  IN  [NewTree(NULL) EXCEPT !.count = t.count - nodes,
                            !.itor = IF t.itor \in Key THEN WILD ELSE t.itor]

hb_tree_destroy(t) == IF t.root # NULL THEN R(hb_tree_empty(t), 0, None) ELSE R(t, 0, None)

hb_tree_search(t, k) == R(t, 0, IF Find(t, k) = NULL THEN None ELSE t.dat[k])
hb_tree_csearch(t, k) == IF Find(t, k) = NULL THEN None ELSE t.dat[k]
hb_tree_count(t) == t.count
hb_tree_walk(t) == Walk(t, NULL)
hb_tree_min(t) == IF t.root = NULL THEN NULL ELSE NodeMin(t, t.root, NULL)

\* Goes right only to ask, and left.
hb_tree_max(t) == IF t.root = NULL THEN NULL ELSE LeftWhileRight(t, t.root)
hb_tree_height(t) == IF t.root = NULL THEN 0 ELSE Height(t, t.root, NULL)
hb_tree_mheight(t) == IF t.root = NULL THEN 0 ELSE MinHeight(t, t.root, NULL)

hb_itor_new(t) == ItorFirst(t, NULL)
hb_itor_valid(t) == t.itor # NULL
hb_itor_invalidate(t) == [t EXCEPT !.itor = NULL]
hb_itor_next(t) == Moved(ItorNext(t, NULL), NULL)
hb_itor_prev(t) == Moved(ItorPrev(t, NULL), NULL)
hb_itor_nextn(t, c) == Moved(ItorNextN(t, c, NULL), NULL)
hb_itor_prevn(t, c) == Moved(ItorPrevN(t, c, NULL), NULL)
hb_itor_first(t) == Moved(ItorFirst(t, NULL), NULL)
hb_itor_last(t) == Moved(ItorLast(t, NULL), NULL)
hb_itor_key(t) == ItorKey(t, NULL)
hb_itor_data(t) == ItorData(t, NULL)
=============================================================================
