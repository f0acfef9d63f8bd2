------------------------------ MODULE MCDicts -------------------------------
(* The six dictionaries of libdict and the tree of clib/rbdict.c, on five   *)
(* or six keys: enough for every rotation and every case of a removal.      *)
(* rb_tree.c has four, for it repairs a tree as rbdict.c does.  The table   *)
(* has two sizes, so that it is resized up and down.                        *)
EXTENDS Dicts

MCKeysOf ==
  [x \in Kinds |-> CASE x = "ht" -> 1 .. 3 [] x = "rb" -> 1 .. 4
                     [] x \in {"hb", "rbdict"} -> 1 .. 6 [] OTHER -> 1 .. 5]
\* One key has two data, to tell an overwriting insert from one that keeps.
MCDataOf == [k \in Key |-> IF k = 2 THEN {1, 2} ELSE {1}]
=============================================================================
