-------------------------------- MODULE Dict --------------------------------
(***************************************************************************)
(* libdict-1.0/dict.c: the calls every dictionary answers, through the     *)
(* function pointers its X_dict_new and X_dict_itor_new filled in.         *)
(***************************************************************************)
EXTENDS HbTree, RbTree, PrTree, SpTree, HtTable

dict_insert(kind, t, k, d, overwrite) ==
  CASE kind = "hb" -> hb_tree_insert(t, k, d, overwrite)
    [] kind = "rb" -> rb_tree_insert(t, k, d, overwrite)
    [] kind = "wb" -> wb_tree_insert(t, k, d, overwrite)
    [] kind = "pr" -> pr_tree_insert(t, k, d, overwrite)
    [] kind = "sp" -> sp_tree_insert(t, k, d, overwrite)
    [] kind = "ht" -> ht_insert(t, k, d, overwrite)

dict_probe(kind, t, k, d) ==
  CASE kind = "hb" -> hb_tree_probe(t, k, d)
    [] kind = "rb" -> rb_tree_probe(t, k, d)
    [] kind = "wb" -> wb_tree_probe(t, k, d)
    [] kind = "pr" -> pr_tree_probe(t, k, d)
    [] kind = "sp" -> sp_tree_probe(t, k, d)
    [] kind = "ht" -> ht_probe(t, k, d)

dict_search(kind, t, k) ==
  CASE kind = "hb" -> hb_tree_search(t, k)
    [] kind = "rb" -> rb_tree_search(t, k)
    [] kind = "wb" -> wb_tree_search(t, k)
    [] kind = "pr" -> pr_tree_search(t, k)
    [] kind = "sp" -> sp_tree_search(t, k)
    [] kind = "ht" -> ht_search(t, k)

dict_csearch(kind, t, k) ==
  CASE kind = "hb" -> R(t, 0, hb_tree_csearch(t, k))
    [] kind = "rb" -> rb_tree_csearch(t, k)
    [] kind = "wb" -> R(t, 0, wb_tree_csearch(t, k))
    [] kind = "pr" -> R(t, 0, pr_tree_csearch(t, k))
    [] kind = "sp" -> sp_tree_csearch(t, k)
    [] kind = "ht" -> ht_csearch(t, k)

dict_remove(kind, t, k) ==
  CASE kind = "hb" -> hb_tree_remove(t, k)
    [] kind = "rb" -> rb_tree_remove(t, k)
    [] kind = "wb" -> wb_tree_remove(t, k)
    [] kind = "pr" -> pr_tree_remove(t, k)
    [] kind = "sp" -> sp_tree_remove(t, k)
    [] kind = "ht" -> ht_remove(t, k)

dict_empty(kind, t) ==
  CASE kind = "hb" -> R(hb_tree_empty(t), 0, None)
    [] kind = "rb" -> rb_tree_empty(t)
    [] kind = "wb" -> R(wb_tree_empty(t), 0, None)
    [] kind = "pr" -> R(pr_tree_empty(t), 0, None)
    [] kind = "sp" -> R(sp_tree_empty(t), 0, None)
    [] kind = "ht" -> R(ht_empty(t), 0, None)

dict_destroy(kind, t) ==
  CASE kind = "hb" -> hb_tree_destroy(t)
    [] kind = "rb" -> rb_tree_destroy(t)
    [] kind = "wb" -> wb_tree_destroy(t)
    [] kind = "pr" -> pr_tree_destroy(t)
    [] kind = "sp" -> sp_tree_destroy(t)
    [] kind = "ht" -> ht_destroy(t)

dict_walk(kind, t) ==
  CASE kind = "hb" -> hb_tree_walk(t)
    [] kind = "rb" -> rb_tree_walk(t)
    [] kind = "wb" -> wb_tree_walk(t)
    [] kind = "pr" -> pr_tree_walk(t)
    [] kind = "sp" -> sp_tree_walk(t)
    [] kind = "ht" -> ht_walk(t)

dict_count(kind, t) ==
  CASE kind = "hb" -> hb_tree_count(t)
    [] kind = "rb" -> rb_tree_count(t)
    [] kind = "wb" -> wb_tree_count(t)
    [] kind = "pr" -> pr_tree_count(t)
    [] kind = "sp" -> sp_tree_count(t)
    [] kind = "ht" -> ht_count(t)

dict_itor_new(kind, t) ==
  CASE kind = "hb" -> hb_itor_new(t)
    [] kind = "rb" -> rbt_itor_new(t)
    [] kind = "wb" -> wb_itor_new(t)
    [] kind = "pr" -> pr_itor_new(t)
    [] kind = "sp" -> sp_itor_new(t)
    [] kind = "ht" -> ht_itor_new(t)

dict_itor_next(kind, t) ==
  CASE kind = "hb" -> hb_itor_next(t)
    [] kind = "rb" -> rbt_itor_next(t)
    [] kind = "wb" -> wb_itor_next(t)
    [] kind = "pr" -> pr_itor_next(t)
    [] kind = "sp" -> sp_itor_next(t)
    [] kind = "ht" -> Moved(ht_itor_next(t), NULL)

dict_itor_prev(kind, t) ==
  CASE kind = "hb" -> hb_itor_prev(t)
    [] kind = "rb" -> rbt_itor_prev(t)
    [] kind = "wb" -> wb_itor_prev(t)
    [] kind = "pr" -> pr_itor_prev(t)
    [] kind = "sp" -> sp_itor_prev(t)
    [] kind = "ht" -> Moved(ht_itor_prev(t), NULL)

dict_itor_nextn(kind, t, c) ==
  CASE kind = "hb" -> hb_itor_nextn(t, c)
    [] kind = "rb" -> rbt_itor_nextn(t, c)
    [] kind = "wb" -> wb_itor_nextn(t, c)
    [] kind = "pr" -> pr_itor_nextn(t, c)
    [] kind = "sp" -> sp_itor_nextn(t, c)
    [] kind = "ht" -> Moved(ht_itor_nextn(t, c), NULL)

dict_itor_prevn(kind, t, c) ==
  CASE kind = "hb" -> hb_itor_prevn(t, c)
    [] kind = "rb" -> rbt_itor_prevn(t, c)
    [] kind = "wb" -> wb_itor_prevn(t, c)
    [] kind = "pr" -> pr_itor_prevn(t, c)
    [] kind = "sp" -> sp_itor_prevn(t, c)
    [] kind = "ht" -> Moved(ht_itor_prevn(t, c), NULL)

dict_itor_first(kind, t) ==
  CASE kind = "hb" -> hb_itor_first(t)
    [] kind = "rb" -> rbt_itor_first(t)
    [] kind = "wb" -> wb_itor_first(t)
    [] kind = "pr" -> pr_itor_first(t)
    [] kind = "sp" -> sp_itor_first(t)
    [] kind = "ht" -> Moved(ht_itor_first(t), NULL)

dict_itor_last(kind, t) ==
  CASE kind = "hb" -> hb_itor_last(t)
    [] kind = "rb" -> rbt_itor_last(t)
    [] kind = "wb" -> wb_itor_last(t)
    [] kind = "pr" -> pr_itor_last(t)
    [] kind = "sp" -> sp_itor_last(t)
    [] kind = "ht" -> Moved(ht_itor_last(t), NULL)

dict_itor_invalidate(kind, t) ==
  CASE kind = "hb" -> hb_itor_invalidate(t)
    [] kind = "rb" -> rbt_itor_invalidate(t)
    [] kind = "wb" -> wb_itor_invalidate(t)
    [] kind = "pr" -> pr_itor_invalidate(t)
    [] kind = "sp" -> sp_itor_invalidate(t)
    [] kind = "ht" -> ht_itor_invalidate(t)

dict_itor_valid(kind, t) ==
  CASE kind = "hb" -> hb_itor_valid(t)
    [] kind = "rb" -> rbt_itor_valid(t)
    [] kind = "wb" -> wb_itor_valid(t)
    [] kind = "pr" -> pr_itor_valid(t)
    [] kind = "sp" -> sp_itor_valid(t)
    [] kind = "ht" -> ht_itor_valid(t)

dict_itor_key(kind, t) ==
  CASE kind = "hb" -> hb_itor_key(t)
    [] kind = "rb" -> rbt_itor_key(t)
    [] kind = "wb" -> wb_itor_key(t)
    [] kind = "pr" -> pr_itor_key(t)
    [] kind = "sp" -> sp_itor_key(t)
    [] kind = "ht" -> ht_itor_key(t)

dict_itor_data(kind, t) ==
  CASE kind = "hb" -> hb_itor_data(t)
    [] kind = "rb" -> rbt_itor_data(t)
    [] kind = "wb" -> wb_itor_data(t)
    [] kind = "pr" -> pr_itor_data(t)
    [] kind = "sp" -> sp_itor_data(t)
    [] kind = "ht" -> ht_itor_data(t)

\* The functions a dict and its iterators were given.  dict_insert and its like take one of
\* the first, dict_itor_first and its like one of the second; a call through a pointer that
\* was given none goes astray.
DictFunctions(kind) ==
  CASE kind = "hb" -> hb_dict_new [] kind = "rb" -> rbt_dict_new [] kind = "wb" -> wb_dict_new
    [] kind = "pr" -> pr_dict_new [] kind = "sp" -> sp_dict_new [] kind = "ht" -> ht_dict_new
ItorFunctions(kind) ==
  CASE kind = "hb" -> hb_dict_itor_new [] kind = "rb" -> rbt_dict_itor_new
    [] kind = "wb" -> wb_dict_itor_new [] kind = "pr" -> pr_dict_itor_new
    [] kind = "sp" -> sp_dict_itor_new [] kind = "ht" -> ht_dict_itor_new

Pointer == [itor_new |-> "inew", destroy |-> "destroy", insert |-> "insert",
            overwrite |-> "insert", probe |-> "probe", search |-> "search",
            csearch |-> "csearch", remove |-> "remove", empty |-> "empty", count |-> "count"]
ItorPointer == [first |-> "first", last |-> "last", next |-> "next", prev |-> "prev",
                nextn |-> "nextn", prevn |-> "prevn", invalidate |-> "invalid", valid |-> "valid",
                itor |-> "key",
                itor_set_data |-> "dataset", itor_remove |-> "remove"]
Given(kind, op) ==
  IF op \in DOMAIN Pointer THEN Pointer[op] \in DictFunctions(kind)
  ELSE ItorPointer[op] \in ItorFunctions(kind)

\* These two pass on the dict_itor where sp_tree's functions, the only ones that are given,
\* expect the iterator inside it, and take its function pointer for a node.
dict_itor_set_data(kind, t, d) == Crashed(t)
dict_itor_remove(kind, t) == Crashed(t)
=============================================================================
