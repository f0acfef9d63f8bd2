------------------------------- MODULE SpTree -------------------------------
(***************************************************************************)
(* libdict-1.0/sp_tree.c: a splay tree, which turns the node it was last   *)
(* asked for up to the root.  aux is not used.                             *)
(***************************************************************************)
EXTENDS TreeLinks

sp_tree_new == NewTree(NULL)
sp_dict_new == {"inew", "destroy", "insert", "probe", "search", "csearch", "remove",
                "empty", "walk", "count"}
sp_dict_itor_new == {"destroy", "valid", "invalid", "next", "prev", "nextn", "prevn",
                     "first", "last", "key", "data", "cdata", "dataset", "remove"}

sp_rot_left(t, n) == RotLeft(t, n, NULL)
sp_rot_right(t, n) == RotRight(t, n, NULL)

\* Two rotations; the second one's parent is that of the tree the first left.
zig_zig_right(t, n) ==
  LET s == sp_rot_right(t, t.parent[t.parent[n]]) IN sp_rot_right(s, s.parent[n])
zig_zig_left(t, n) ==
  LET s == sp_rot_left(t, t.parent[t.parent[n]]) IN sp_rot_left(s, s.parent[n])
zig_zag_right(t, n) == LET s == sp_rot_right(t, t.parent[n]) IN sp_rot_left(s, s.parent[n])
zig_zag_left(t, n) == LET s == sp_rot_left(t, t.parent[n]) IN sp_rot_right(s, s.parent[n])

splay(t, n) ==
  LET p == t.parent[n]  g == t.parent[p]
      isLeft == t.left[p] = n
  IN  CASE p = t.root /\ isLeft -> sp_rot_right(t, p)
        [] p = t.root /\ ~isLeft -> sp_rot_left(t, p)
        [] p # t.root /\ isLeft /\ t.left[g] = p -> zig_zig_right(t, n)
        [] p # t.root /\ isLeft /\ t.left[g] # p -> zig_zag_right(t, n)
        [] p # t.root /\ ~isLeft /\ t.right[g] = p -> zig_zig_left(t, n)
        [] OTHER -> zig_zag_left(t, n)

\* while (tree->root != n) splay(tree, n)
RECURSIVE ToRoot(_, _)
ToRoot(t, n) == IF t.root = n THEN t ELSE ToRoot(splay(t, n), n)

sp_insert_node(t, k, d) == ToRoot([Hang(t, k, d, 0, NULL) EXCEPT !.count = @ + 1], k)

sp_tree_insert(t, k, d, overwrite) ==
  IF Find(t, k) = NULL THEN R(sp_insert_node(t, k, d), 0, None)
  ELSE IF overwrite THEN R([t EXCEPT !.dat[k] = d], 0, None)
  ELSE R(t, 1, None)

sp_tree_probe(t, k, d) ==
  IF Find(t, k) = NULL THEN R(sp_insert_node(t, k, d), 1, d) ELSE R(ToRoot(t, k), 0, t.dat[k])

sp_tree_search(t, k) ==
  IF Find(t, k) = NULL THEN R(t, 0, None) ELSE R(ToRoot(t, k), 0, t.dat[k])
sp_tree_csearch(t, k) == sp_tree_search(t, k)

\* The first of these nodes that there is goes to the root.
SplayFirst(t, a, b, c) ==
  LET n == CASE a # NULL -> a [] a = NULL /\ b # NULL -> b [] OTHER -> c
  IN  IF n = NULL THEN t ELSE ToRoot(t, n)

sp_remove_node(t, k) ==
  LET out == Out(t, k, NULL)
      t1 == Unlink(t, out, NULL)
  IN  Removed(Drop(SplayFirst(t1, t1.parent[k], t1.left[k], t1.right[k]), out), k, out)

sp_tree_remove(t, k) ==
  IF Find(t, k) = NULL THEN R(t, -1, None) ELSE R(sp_remove_node(t, k), 0, None)

sp_tree_empty(t) ==
  [NewTree(NULL) EXCEPT !.count = t.count - Len(Walk(t, NULL)),
                        !.itor = IF t.itor \in Key THEN WILD ELSE t.itor]
sp_tree_destroy(t) == IF t.root # NULL THEN R(sp_tree_empty(t), 0, None) ELSE R(t, 0, None)

sp_tree_count(t) == t.count
sp_tree_walk(t) == Walk(t, NULL)
sp_tree_min(t) == IF t.root = NULL THEN NULL ELSE NodeMin(t, t.root, NULL)
sp_tree_max(t) == IF t.root = NULL THEN NULL ELSE NodeMax(t, t.root, NULL)
sp_tree_height(t) == IF t.root = NULL THEN 0 ELSE Height(t, t.root, NULL)

\* node_mheight adds no level: it is 0 for every tree.
sp_tree_mheight(t) == 0

sp_itor_new(t) == ItorFirst(t, NULL)
sp_itor_valid(t) == t.itor # NULL
sp_itor_invalidate(t) == [t EXCEPT !.itor = NULL]
sp_itor_next(t) == Moved(ItorNext(t, NULL), NULL)
sp_itor_prev(t) == Moved(ItorPrev(t, NULL), NULL)
sp_itor_nextn(t, c) == Moved(ItorNextN(t, c, NULL), NULL)
sp_itor_prevn(t, c) == Moved(ItorPrevN(t, c, NULL), NULL)
sp_itor_first(t) == Moved(ItorFirst(t, NULL), NULL)
sp_itor_last(t) == Moved(ItorLast(t, NULL), NULL)
sp_itor_key(t) == ItorKey(t, NULL)
sp_itor_data(t) == ItorData(t, NULL)

sp_itor_set_data(t, d) ==
  IF t.itor = NULL THEN R(t, -1, None) ELSE R([t EXCEPT !.dat[t.itor] = d], 0, None)

\* Removes the node under the iterator, which goes on to the next one.  At the last node it
\* should step back, but calls node_prev on the NULL that node_next returned.
sp_itor_remove(t) ==
  LET k == t.itor
      out == Out(t, k, NULL)
      t1 == Unlink(IF out = k THEN [t EXCEPT !.itor = NodeNext(t, k, NULL)] ELSE t, out, NULL)
      t2 == SplayFirst(t1, t1.left[k], t1.right[k], t1.parent[k])
  IN  CASE k = NULL -> R(t, -1, None)
        [] k # NULL /\ out = k /\ NodeNext(t, k, NULL) = NULL -> Crashed(t)
        [] OTHER -> R(Removed(Drop(t2, out), k, out), 0, None)
=============================================================================
