------------------------------- MODULE RbTree -------------------------------
(***************************************************************************)
(* libdict-1.0/rb_tree.c, of which clib/rbdict.c is a copy with changes.   *)
(* Its functions that are named as rbdict's are rbt_ here.                 *)
(***************************************************************************)
EXTENDS RbDict

rb_tree_new == [NewTree(NIL) EXCEPT !.aux[NIL] = RB_BLACK]
rbt_dict_new == {"inew", "destroy", "insert", "probe", "search", "csearch", "remove",
                 "empty", "walk", "count"}
rbt_dict_itor_new == {"destroy", "valid", "invalid", "next", "prev", "nextn", "prevn",
                      "first", "last", "key", "data", "cdata"}

rbt_rot_left(t, n) == rb_rot_left(t, n)
rbt_rot_right(t, n) == rb_rot_right(t, n)
rbt_insert_fixup(t, n) == rb_insert_fixup(t, n)
rbt_delete_fixup(t, n) == rb_delete_fixup(t, n)

rbt_insert_node(t, k, d) ==
  [rbt_insert_fixup(Hang(t, k, d, RB_RED, NIL), k) EXCEPT !.count = @ + 1]

rb_tree_insert(t, k, d, overwrite) ==
  CASE Find(t, k) = NULL -> Crashed(t)
    [] Find(t, k) = NIL -> R(rbt_insert_node(t, k, d), 0, None)
    [] Find(t, k) = k /\ overwrite -> R([t EXCEPT !.dat[k] = d], 0, None)
    [] OTHER -> R(t, 1, None)

rb_tree_probe(t, k, d) ==
  CASE Find(t, k) = NULL -> Crashed(t)
    [] Find(t, k) = NIL -> R(rbt_insert_node(t, k, d), 1, d)
    [] OTHER -> R(t, 0, t.dat[k])

\* As in rbdict, an absent key is taken for the node nil.
rb_tree_remove(t, k) == IF Find(t, k) # k THEN Crashed(t) ELSE R(Cut(t, k), 0, None)

\* The loop goes down to nil, which ends it: no node is freed and the count stays, but the
\* tree has lost its nodes.  An iterator still walks them.
rb_tree_empty(t) == IF t.root = NULL THEN Crashed(t) ELSE R([t EXCEPT !.root = NULL], 0, None)
rb_tree_destroy(t) == IF t.root # NIL THEN rb_tree_empty(t) ELSE R(t, 0, None)

rb_tree_search(t, k) ==
  IF Find(t, k) = NULL THEN Crashed(t) ELSE R(t, 0, IF Find(t, k) = k THEN t.dat[k] ELSE None)
rb_tree_csearch(t, k) == rb_tree_search(t, k)
rb_tree_count(t) == t.count
rb_tree_walk(t) == Walk(t, NIL)
rb_tree_min(t) == LET n == NodeMin(t, t.root, NULL) IN IF n = NIL THEN NULL ELSE n
rb_tree_max(t) == LET n == NodeMax(t, t.root, NULL) IN IF n = NIL THEN NULL ELSE n
rb_tree_height(t) ==
  CASE t.root = NULL -> WILD [] t.root = NIL -> 0 [] OTHER -> Height(t, t.root, NIL)
rb_tree_mheight(t) ==
  CASE t.root = NULL -> WILD [] t.root = NIL -> 0 [] OTHER -> MinHeight(t, t.root, NIL)

rbt_itor_new(t) == ItorFirst(t, NIL)
rbt_itor_valid(t) == t.itor # NIL
rbt_itor_invalidate(t) == [t EXCEPT !.itor = NIL]
rbt_itor_next(t) == Moved(ItorNext(t, NIL), NIL)
rbt_itor_prev(t) == Moved(ItorPrev(t, NIL), NIL)
rbt_itor_nextn(t, c) == Moved(ItorNextN(t, c, NIL), NIL)
rbt_itor_prevn(t, c) == Moved(ItorPrevN(t, c, NIL), NIL)
rbt_itor_first(t) == Moved(ItorFirst(t, NIL), NIL)
rbt_itor_last(t) == Moved(ItorLast(t, NIL), NIL)
rbt_itor_key(t) == ItorKey(t, NIL)
rbt_itor_data(t) == ItorData(t, NIL)
=============================================================================
