---------------------------- MODULE MCHashTable ----------------------------
(* Four signatures, three of them in one slot; three nodes of two blocks.  *)
EXTENDS HashTable, TLC

CONSTANTS k1, k2, k3, k4

MCSig == {k1, k2, k3, k4}
MCSlotOf == [k \in MCSig |-> IF k = k4 THEN 1 ELSE 0]

\* The signatures of one slot are alike, and so are the data.
DataSymmetry == Permutations({k1, k2, k3}) \cup Permutations(Info)
=============================================================================
