----------------------------- MODULE MCBdbStore -----------------------------
(* Two files, the keys all in the last one; two writers and two readers. *)
EXTENDS BdbStore

MCModOf == [k \in Key |-> MaxBdbNum - 1]
=============================================================================
