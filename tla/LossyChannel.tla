---------------------------- MODULE LossyChannel ----------------------------
(***************************************************************************)
(* What node_send and node_recv promise each other, without sockets: a     *)
(* queue of whole messages.  A message is sent once, may be lost, and      *)
(* otherwise is received once, complete, and after those sent before it.   *)
(***************************************************************************)
EXTENDS Integers, Sequences

CONSTANT Msg

VARIABLES queue, sent, got

vars == <<queue, sent, got>>

Init ==
  /\ queue = <<>>
  /\ sent = {}
  /\ got = <<>>

Send(m) ==
  /\ m \notin sent
  /\ sent' = sent \cup {m}
  /\ queue' \in {queue, Append(queue, m)}
  /\ UNCHANGED got

Receive ==
  /\ queue # <<>>
  /\ got' = Append(got, Head(queue))
  /\ queue' = Tail(queue)
  /\ UNCHANGED sent

\* What is left are n of the messages, in their order: f tells where they were.
Lose ==
  /\ \E n \in 0 .. Len(queue) : \E f \in [1 .. n -> 1 .. Len(queue)] :
       /\ \A i, j \in 1 .. n : i < j => f[i] < f[j]
       /\ queue' = [i \in 1 .. n |-> queue[f[i]]]
  /\ UNCHANGED <<sent, got>>

Next == (\E m \in Msg : Send(m)) \/ Receive \/ Lose

Spec == Init /\ [][Next]_vars
=============================================================================
