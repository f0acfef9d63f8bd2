----------------------------- MODULE HashTable ------------------------------
(***************************************************************************)
(* clib/hashtable.c: a hash table whose nodes come from blocks of BlkSize, *)
(* and go to a free list when they are deleted; radar and neoproduce keep  *)
(* their sets of known URLs in one.  A node is the number of its place in  *)
(* the blocks, in the order they are allocated; pointers are node numbers. *)
(***************************************************************************)
EXTENDS Integers, FiniteSets

CONSTANTS
  Sig,          \* signatures: slot and key of a string, from its MD5
  SlotOf,       \* signature |-> its slot; within a slot the key tells signatures apart
  Info,         \* the data of a node
  None,
  BlkSize,      \* NODE_NUM_PER_BLK
  MaxNode       \* bound: nodes ever taken from the blocks

Slot == {SlotOf[k] : k \in Sig}
Node == 0 .. (MaxNode - 1)
NULL == -1

ASSUME HashTableAssumption ==
  /\ BlkSize \in Nat \ {0} /\ MaxNode \in Nat \ {0}
  /\ IsFiniteSet(Sig) /\ None \notin Sig \cup Info

VARIABLES
  slots,        \* slot |-> first node of its chain
  next,         \* node |-> the node after it
  key,          \* node |-> the signature in it; None before it is first used
  info,         \* node |-> its data
  wasteNodeStart, \* first node of the free list
  nodeNum, blkNum,
  ret           \* what the last call returned: the code, and what hashtable_seek copied out

vars == <<slots, next, key, info, wasteNodeStart, nodeNum, blkNum, ret>>

Init ==
  /\ slots = [s \in Slot |-> NULL]
  /\ next = [n \in Node |-> NULL]
  /\ key = [n \in Node |-> None] /\ info = [n \in Node |-> None]
  /\ wasteNodeStart = NULL
  /\ nodeNum = 0 /\ blkNum = 0
  /\ ret = <<0, None>>

-----------------------------------------------------------------------------
\* The i-th pointer of the list that starts at p; a list of more nodes than there are
\* is a cycle, on which it goes on for ever.
At(p) ==
  LET at[i \in 0 .. Cardinality(Node)] ==
        IF i = 0 THEN p ELSE LET q == at[i - 1] IN IF q = NULL THEN NULL ELSE next[q]
  IN  at

\* The nodes of the list that starts at p.
Chain(p) == LET at == At(p) IN {at[i] : i \in DOMAIN at} \ {NULL}

\* The search loop all operations share: the pointers before and at the first node with
\* the signature, if there is one.
Found(k) ==
  LET at == At(slots[SlotOf[k]])
      hit == {i \in DOMAIN at : LET p == at[i] IN p # NULL /\ key[p] = k}
      first == {i \in hit : \A j \in hit : i <= j}
  IN  {[prev |-> IF i = 0 THEN NULL ELSE at[i - 1], node |-> at[i]] : i \in first}

Return(code, data) == ret' = <<code, data>>

\* Slip: the index is that of the node after.
FreshNode_Next ==
  IF nodeNum >= blkNum * BlkSize THEN blkNum * BlkSize
  ELSE (blkNum - 1) * BlkSize + ((nodeNum + 1) % BlkSize)

\* Where hashtable_insert takes a node that was never used: the first of a new block, or
\* the place in the last block that nodeNum gives.
FreshNode ==
  IF nodeNum >= blkNum * BlkSize THEN blkNum * BlkSize
  ELSE (blkNum - 1) * BlkSize + (nodeNum % BlkSize)

\* Slip: the free list keeps the node that was taken from it.
TakeWaste_Keep(t) == t

\* The free list after its head t was taken.
TakeWaste(t) == next[t]

hashtable_insert(k, v) ==
  LET reuse == wasteNodeStart # NULL
      t == IF reuse THEN wasteNodeStart ELSE FreshNode
  IN
  \/ /\ Found(k) # {}
     /\ Return(0, None)
     /\ UNCHANGED <<slots, next, key, info, wasteNodeStart, nodeNum, blkNum>>
  \/ /\ Found(k) = {} /\ t \in Node
     /\ wasteNodeStart' = IF reuse THEN TakeWaste(t) ELSE NULL
     /\ blkNum' = IF ~reuse /\ nodeNum >= blkNum * BlkSize THEN blkNum + 1 ELSE blkNum
     /\ key' = [key EXCEPT ![t] = k]
     /\ info' = [info EXCEPT ![t] = v]
     /\ next' = [next EXCEPT ![t] = slots[SlotOf[k]]]
     /\ slots' = [slots EXCEPT ![SlotOf[k]] = t]
     /\ nodeNum' = nodeNum + 1
     /\ Return(1, None)

hashtable_update(k, v) ==
  /\ \/ Found(k) = {} /\ Return(0, None) /\ UNCHANGED info
     \/ \E f \in Found(k) : info' = [info EXCEPT ![f.node] = v] /\ Return(1, None)
  /\ UNCHANGED <<slots, next, key, wasteNodeStart, nodeNum, blkNum>>

\* Slip: only the head of a chain is ever unlinked.
NextAfterDelete_Head(f) == [next EXCEPT ![f.node] = wasteNodeStart]

\* f.node goes to the head of the free list, and the node before it in its chain points
\* past it.
NextAfterDelete(f) ==
  [n \in Node |-> CASE n = f.node -> wasteNodeStart
                    [] n = f.prev /\ n # f.node -> next[f.node]
                    [] OTHER -> next[n]]

hashtable_delete(k) ==
  /\ \/ /\ Found(k) = {}
        /\ Return(0, None)
        /\ UNCHANGED <<slots, next, wasteNodeStart, nodeNum>>
     \/ /\ \E f \in Found(k) :
             /\ slots' = [slots EXCEPT ![SlotOf[k]] = IF f.prev = NULL THEN next[f.node] ELSE @]
             /\ next' = NextAfterDelete(f)
             /\ wasteNodeStart' = f.node
        /\ nodeNum' = nodeNum - 1
        /\ Return(1, None)
  /\ UNCHANGED <<key, info, blkNum>>

hashtable_seek(k) ==
  /\ \/ Found(k) = {} /\ Return(0, None)
     \/ \E f \in Found(k) : Return(1, info[f.node])
  /\ UNCHANGED <<slots, next, key, info, wasteNodeStart, nodeNum, blkNum>>

Next ==
  \E k \in Sig :
    \/ hashtable_delete(k) \/ hashtable_seek(k)
    \/ \E v \in Info : hashtable_insert(k, v) \/ hashtable_update(k, v)

Spec == Init /\ [][Next]_vars

-----------------------------------------------------------------------------
\* Every list ends, no node is in two, and nodeNum counts the nodes in the chains: what
\* pointer surgery and the reuse of deleted nodes must keep.
Lists == {slots[s] : s \in Slot} \cup {wasteNodeStart}
InChains == UNION {Chain(slots[s]) : s \in Slot}
ListsSound ==
  /\ \A p \in Lists : At(p)[Cardinality(Node)] = NULL
  /\ \A s, t \in Slot : s # t => Chain(slots[s]) \cap Chain(slots[t]) = {}
  /\ InChains \cap Chain(wasteNodeStart) = {}
  /\ nodeNum = Cardinality(InChains)

\* When the free list is empty, nodeNum says where the next unused node is: the assertion
\* of hashtable_insert holds and the node is in no chain, though deletions have lowered
\* nodeNum and insertions raised it again.
FreshIsUnused ==
  wasteNodeStart = NULL =>
    /\ nodeNum >= blkNum * BlkSize \/ (blkNum >= 1 /\ nodeNum > (blkNum - 1) * BlkSize)
    /\ FreshNode \notin InChains

\* What hashtable_seek would find.
Contents ==
  [k \in Sig |-> LET found == Found(k)
                 IN  IF found = {} THEN None ELSE info[(CHOOSE f \in found : TRUE).node]]

\* The table is a map, and its return values are the map's.
Map == INSTANCE DictMap WITH map <- Contents
MapSpec == Map!Spec
=============================================================================
