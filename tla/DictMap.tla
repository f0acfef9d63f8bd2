------------------------------ MODULE DictMap -------------------------------
(***************************************************************************)
(* What a dictionary of the crawler promises (hashtable.h): a partial map  *)
(* from signatures to data, and return values that tell what was done.     *)
(***************************************************************************)
EXTENDS Integers

CONSTANTS Sig, Info, None

VARIABLES map, ret

vars == <<map, ret>>

Init == map = [k \in Sig |-> None] /\ ret = <<0, None>>

\* Return, and change the map or not.
Return(code, data) == ret' = <<code, data>>
Becomes(k, v) == map' = [map EXCEPT ![k] = v]

Insert(k, v) ==
  IF map[k] = None THEN Return(1, None) /\ Becomes(k, v) ELSE Return(0, None) /\ UNCHANGED map

Update(k, v) ==
  IF map[k] = None THEN Return(0, None) /\ UNCHANGED map ELSE Return(1, None) /\ Becomes(k, v)

Delete(k) ==
  IF map[k] = None THEN Return(0, None) /\ UNCHANGED map ELSE Return(1, None) /\ Becomes(k, None)

Seek(k) ==
  /\ Return(IF map[k] = None THEN 0 ELSE 1, map[k])
  /\ UNCHANGED map

Next == \E k \in Sig : Delete(k) \/ Seek(k) \/ \E v \in Info : Insert(k, v) \/ Update(k, v)

Spec == Init /\ [][Next]_vars
=============================================================================
