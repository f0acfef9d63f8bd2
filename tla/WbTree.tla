------------------------------- MODULE WbTree -------------------------------
(***************************************************************************)
(* libdict-1.0/wb_tree.c: a tree balanced by weight.  aux is the weight, 2 *)
(* for a leaf and the sum of the children's otherwise, where no child      *)
(* weighs 1.  The thresholds are in millionths.                            *)
(***************************************************************************)
EXTENDS TreeLinks, SequencesExt

ALPHA_0 == 292893
ALPHA_1 == 707106
ALPHA_2 == 414213
ALPHA_3 == 585786

wb_tree_new == NewTree(NULL)
wb_dict_new == {"inew", "destroy", "insert", "probe", "search", "csearch", "remove",
                "empty", "walk", "count"}
wb_dict_itor_new == {"destroy", "valid", "invalid", "next", "prev", "nextn", "prevn",
                     "first", "last", "key", "data", "cdata"}

WEIGHT(t, n) == IF n = NULL THEN 1 ELSE t.aux[n]
Reweigh(t, n) ==
  IF n = NULL THEN t ELSE [t EXCEPT !.aux[n] = WEIGHT(t, t.left[n]) + WEIGHT(t, t.right[n])]

wb_rot_left(t, n) == Reweigh(Reweigh(RotLeft(t, n, NULL), n), t.right[n])
wb_rot_right(t, n) == Reweigh(Reweigh(RotRight(t, n, NULL), n), t.left[n])

\* WEIGHT(left) / weight of n, in millionths, rounded down.
Balance(t, n) == (WEIGHT(t, t.left[n]) * 1000000) \div t.aux[n]

\* A node on the way up from the new leaf: its weight, and rotations when it leans.  The
\* test for a double rotation to the left reads the balance of n where the one to the right
\* takes that of the child: it never succeeds.
wb_climb(n, t) ==
  LET t1 == Reweigh(t, n)
      l == t1.left[n]  r == t1.right[n]
      wbal == Balance(t1, n)
  IN  CASE wbal < ALPHA_0 /\ wbal < ALPHA_3 -> wb_rot_left(t1, n)
        [] wbal < ALPHA_0 /\ wbal >= ALPHA_3 -> wb_rot_left(wb_rot_right(t1, r), n)
        [] wbal > ALPHA_1 /\ Balance(t1, l) > ALPHA_2 -> wb_rot_right(t1, n)
        [] wbal > ALPHA_1 /\ Balance(t1, l) <= ALPHA_2 -> wb_rot_right(wb_rot_left(t1, l), n)
        [] OTHER -> t1

wb_insert_node(t, k, d) ==
  [FoldRight(wb_climb, Path(t, k), Hang(t, k, d, 2, NULL)) EXCEPT !.count = @ + 1]

wb_tree_insert(t, k, d, overwrite) ==
  IF Find(t, k) = NULL THEN R(wb_insert_node(t, k, d), 0, None)
  ELSE IF overwrite THEN R([t EXCEPT !.dat[k] = d], 0, None)
  ELSE R(t, 1, None)

\* node_new(key, dat): the new node gets the pointer to the caller's variable.
wb_tree_probe(t, k, d) ==
  IF Find(t, k) = NULL THEN R(wb_insert_node(t, k, Addr), 1, d) ELSE R(t, 0, t.dat[k])

\* The node of k is turned down, away from its heavier subtree, until it has an empty one;
\* n is the node where the descent for k is.
RECURSIVE wb_delete(_, _, _)
wb_delete(t, n, k) ==
  LET l == t.left[n]  r == t.right[n]
      c == IF l = NULL THEN r ELSE l
      cut == Drop(Unlink(t, n, NULL), n)
      tl == IF WEIGHT(t, t.left[l]) < WEIGHT(t, t.right[l]) THEN wb_rot_left(t, l) ELSE t
      tr == IF WEIGHT(t, t.left[r]) > WEIGHT(t, t.right[r]) THEN wb_rot_right(t, r) ELSE t
  IN  CASE k < n -> Reweigh(wb_delete(t, l, k), n)
        [] k > n -> Reweigh(wb_delete(t, r, k), n)
        [] k = n /\ (l = NULL \/ r = NULL) -> Reweigh(cut, c)
        [] k = n /\ l # NULL /\ r # NULL /\ WEIGHT(t, l) > WEIGHT(t, r) ->
             Reweigh(wb_delete(wb_rot_right(tl, n), n, k), tl.left[n])
        [] OTHER -> Reweigh(wb_delete(wb_rot_left(tr, n), n, k), tr.right[n])

\* Returns 0 for an absent key, too.
wb_tree_remove(t, k) ==
  IF Find(t, k) = NULL THEN R(t, 0, None)
  ELSE R(Removed(wb_delete(t, t.root, k), k, k), 0, None)

wb_tree_empty(t) ==
  [NewTree(NULL) EXCEPT !.count = t.count - Len(Walk(t, NULL)),
                        !.itor = IF t.itor \in Key THEN WILD ELSE t.itor]
wb_tree_destroy(t) == IF t.root # NULL THEN R(wb_tree_empty(t), 0, None) ELSE R(t, 0, None)

wb_tree_search(t, k) == R(t, 0, IF Find(t, k) = NULL THEN None ELSE t.dat[k])
wb_tree_csearch(t, k) == IF Find(t, k) = NULL THEN None ELSE t.dat[k]
wb_tree_count(t) == t.count
wb_tree_walk(t) == Walk(t, NULL)
wb_tree_min(t) == IF t.root = NULL THEN NULL ELSE NodeMin(t, t.root, NULL)
wb_tree_max(t) == IF t.root = NULL THEN NULL ELSE LeftWhileRight(t, t.root)
wb_tree_height(t) == IF t.root = NULL THEN 0 ELSE Height(t, t.root, NULL)
wb_tree_mheight(t) == IF t.root = NULL THEN 0 ELSE MinHeight(t, t.root, NULL)

wb_itor_new(t) == ItorFirst(t, NULL)
wb_itor_valid(t) == t.itor # NULL
wb_itor_invalidate(t) == [t EXCEPT !.itor = NULL]
wb_itor_next(t) == Moved(ItorNext(t, NULL), NULL)
wb_itor_prev(t) == Moved(ItorPrev(t, NULL), NULL)
wb_itor_nextn(t, c) == Moved(ItorNextN(t, c, NULL), NULL)
wb_itor_prevn(t, c) == Moved(ItorPrevN(t, c, NULL), NULL)
wb_itor_first(t) == Moved(ItorFirst(t, NULL), NULL)
wb_itor_last(t) == Moved(ItorLast(t, NULL), NULL)
wb_itor_key(t) == ItorKey(t, NULL)
wb_itor_data(t) == ItorData(t, NULL)
=============================================================================
