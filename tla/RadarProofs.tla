---------------------------- MODULE RadarProofs ----------------------------
(***************************************************************************)
(* Proofs about neoradar for any set of URLs, any number of threads and    *)
(* connections, any list and dictionary size.                              *)
(***************************************************************************)
EXTENDS Radar, TLAPS, FiniteSetTheorems, SequenceTheorems

LEMMA BuffersTyped == NoEntry \in Entry /\ NoMsg \in [url : URL, kind : Kind, ep : Nat]
  BY RadarAssumption DEF NoEntry, NoMsg, Entry, Kind

LEMMA ContinueTyped ==
  ASSUME TypeOK, NEW t \in RecvThr, Continue(t)
  PROVE  /\ rpc' \in [RecvThr -> {"none", "recv", "got", "dict", "search", "add"}]
         /\ rmsg' \in [RecvThr -> [url : URL, kind : Kind, ep : Nat]]
  BY BuffersTyped DEF TypeOK, Continue

LEMMA StorageTyped ==
  ASSUME TypeOK, NEW u \in URL, NEW rec \in Rec, transformer_storage(u, rec)
  PROVE  bdb' \in [URL -> Rec] /\ disk' \in [URL -> Rec]
  BY DEF TypeOK, transformer_storage

LEMMA WaitingTyped == TypeOK => Waiting \subseteq Entry
<1> SUFFICES ASSUME TypeOK, NEW x \in Waiting PROVE x \in Entry
  OBVIOUS
<1>1. CASE \E t \in RecvThr : x = EntryOf(t)
  BY <1>1 DEF TypeOK, EntryOf, Entry
<1>2. CASE \E i \in DOMAIN radarList : x = radarList[i]
  BY <1>2 DEF TypeOK
<1>3. CASE \E s \in SendThr : x = smsg[s]
  BY <1>3 DEF TypeOK
<1>4. QED
  BY <1>1, <1>2, <1>3 DEF Waiting

\* Every reachable state of neoradar has the types of its variables.
THEOREM TypeCorrect == Spec => []TypeOK
<1>1. Init => TypeOK
  BY BuffersTyped DEF Init, TypeOK, Rec
<1>2. TypeOK /\ [Next]_vars => TypeOK'
  <2> SUFFICES ASSUME TypeOK, [Next]_vars PROVE TypeOK'
    OBVIOUS
  <2> USE BuffersTyped DEF TypeOK
  <2>1. ASSUME NEW t \in RecvThr, AcceptRecv(t) PROVE TypeOK'
    BY <2>1 DEF AcceptRecv
  <2>2. ASSUME NEW t \in RecvThr, RecvFail(t) PROVE TypeOK'
    BY <2>2 DEF RecvFail
  <2>3. ASSUME NEW t \in RecvThr, RadarRecv(t) PROVE TypeOK'
    <3>1. PICK u \in URL, k \in Kind : RadarRecv(t)!(u, k)
      BY <2>3 DEF RadarRecv
    <3>2. CASE u \in LongURL
      BY <3>1, <3>2
    <3>3. CASE u \notin LongURL
      <4>1. [url |-> u, kind |-> k, ep |-> 0] \in [url : URL, kind : Kind, ep : Nat]
        OBVIOUS
      <4>2. rmsg' \in [RecvThr -> [url : URL, kind : Kind, ep : Nat]]
        BY <3>1, <3>3, <4>1
      <4>3. rpc' \in [RecvThr -> {"none", "recv", "got", "dict", "search", "add"}]
        BY <3>1, <3>3
      <4>4. /\ inputs' \in Nat
            /\ UNCHANGED <<radarList, link_dict, spc, smsg, bdb, disk,
                           epoch, delivered, lost, crashes>>
        BY <3>1
      <4>5. QED
        BY <4>2, <4>3, <4>4
    <3>4. QED BY <3>2, <3>3
  <2>4. ASSUME NEW t \in RecvThr, StorePage(t) PROVE TypeOK'
    <3>1. bdb' \in [URL -> Rec] /\ disk' \in [URL -> Rec]
      BY <2>4, StorageTyped DEF StorePage, Rec
    <3>2. QED
      BY <2>4, <3>1, ContinueTyped DEF StorePage
  <2>5. ASSUME NEW t \in RecvThr, CheckRoom(t) PROVE TypeOK'
    BY <2>5 DEF CheckRoom, Continue
  <2>6. ASSUME NEW t \in RecvThr, LinkDict(t) PROVE TypeOK'
    <3>1. CASE rmsg[t].url \in link_dict
      BY <2>6, <3>1, ContinueTyped DEF LinkDict
    <3>2. CASE rmsg[t].url \notin link_dict
      <4>1. rmsg' \in [RecvThr -> [url : URL, kind : Kind, ep : Nat]]
        <5> DEFINE m == [rmsg[t] EXCEPT !.ep = epoch]
        <5>1. m \in [url : URL, kind : Kind, ep : Nat]
          OBVIOUS
        <5>2. rmsg' = [rmsg EXCEPT ![t] = m]
          BY <2>6, <3>2 DEF LinkDict
        <5> HIDE DEF m
        <5>3. QED BY <5>1, <5>2
      <4>2. link_dict' \in SUBSET URL /\ epoch' \in Nat
        BY <2>6, <3>2 DEF LinkDict
      <4>3. QED
        BY <2>6, <3>2, <4>1, <4>2 DEF LinkDict
    <3>3. QED BY <3>1, <3>2
  <2>7. ASSUME NEW t \in RecvThr, SearchBdb(t) PROVE TypeOK'
    BY <2>7 DEF SearchBdb, Continue
  <2>8. ASSUME NEW t \in RecvThr, ListAdd(t) PROVE TypeOK'
    BY <2>8 DEF ListAdd, Continue, EntryOf, Entry
  <2>9. ASSUME NEW s \in SendThr, AcceptSend(s) PROVE TypeOK'
    BY <2>9 DEF AcceptSend
  <2>10. ASSUME NEW s \in SendThr, ListGet(s) PROVE TypeOK'
    BY <2>10 DEF ListGet
  <2>11. ASSUME NEW s \in SendThr, RadarSend(s) PROVE TypeOK'
    BY <2>11 DEF RadarSend
  <2>12. ASSUME NEW s \in SendThr, RadarSendFail(s) PROVE TypeOK'
    BY <2>12 DEF RadarSendFail, Free
  <2>13. ASSUME NEW s \in SendThr, StoreSent(s) PROVE TypeOK'
    BY <2>13 DEF StoreSent, Free, transformer_storage, Rec
  <2>14. CASE Crash
    <3>1. lost' \subseteq Entry
      BY <2>14, WaitingTyped DEF Crash
    <3>2. rmsg' \in [RecvThr -> [url : URL, kind : Kind, ep : Nat]]
      BY <2>14 DEF Crash
    <3>3. smsg' \in [SendThr -> Entry]
      BY <2>14 DEF Crash
    <3>4. QED BY <2>14, <3>1, <3>2, <3>3 DEF Crash
  <2>15. CASE UNCHANGED vars
    BY <2>15 DEF vars
  <2>16. QED
    BY <2>1, <2>2, <2>3, <2>4, <2>5, <2>6, <2>7, <2>8, <2>9, <2>10, <2>11, <2>12, <2>13,
       <2>14, <2>15 DEF Next, RecvStep, SendStep
<1>3. QED
  BY <1>1, <1>2, PTL DEF Spec

----------------------------------------------------------------------------
\* The overshoot of MAX_LIST_NUM.  A thread that passes the test of listNum does so with at
\* most MAX_LIST_NUM entries in the list and with fewer than all threads committed.

LEMMA CommittedFinite ==
  /\ IsFiniteSet(Committed)
  /\ Cardinality(Committed) \in Nat
  /\ Cardinality(Committed) <= Cardinality(RecvThr)
  /\ Cardinality(RecvThr) \in Nat
<1>1. Committed \in SUBSET RecvThr
  BY DEF Committed
<1>2. QED
  BY <1>1, FS_Subset, FS_CardinalityType, RadarAssumption

LEMMA CommittedFinitePrime ==
  /\ IsFiniteSet(Committed')
  /\ Cardinality(Committed') \in Nat
  /\ Cardinality(Committed') <= Cardinality(RecvThr)
<1>1. Committed' \in SUBSET RecvThr
  BY DEF Committed
<1>2. QED
  BY <1>1, FS_Subset, FS_CardinalityType, RadarAssumption

\* A step that commits no further thread and does not lengthen the list keeps the bound.
LEMMA NoGrowth ==
  ASSUME TypeOK, ListBounded, Committed' \subseteq Committed,
         Len(radarList') \in Nat, Len(radarList') <= Len(radarList)
  PROVE  ListBounded'
<1>1. Cardinality(Committed') <= Cardinality(Committed)
  BY FS_Subset, CommittedFinite
<1>2. Len(radarList) \in Nat
  BY DEF TypeOK
<1>3. QED
  BY <1>1, <1>2, CommittedFinite, CommittedFinitePrime, RadarAssumption DEF ListBounded

\* MAX_LIST_NUM is overshot by at most the number of receive threads.
THEOREM ListOvershoot == Spec => []ListBounded
<1>1. Init => ListBounded
  <2> SUFFICES ASSUME Init PROVE ListBounded
    OBVIOUS
  <2>1. Committed = {} /\ Len(radarList) = 0
    BY DEF Init, Committed
  <2>2. QED
    BY <2>1, FS_EmptySet, CommittedFinite, RadarAssumption DEF ListBounded
<1>2. TypeOK /\ TypeOK' /\ ListBounded /\ [Next]_vars => ListBounded'
  <2> SUFFICES ASSUME TypeOK, TypeOK', ListBounded, [Next]_vars PROVE ListBounded'
    OBVIOUS
  <2>0. Len(radarList) \in Nat /\ Len(radarList') \in Nat
    BY DEF TypeOK
  <2>1. ASSUME NEW t \in RecvThr, CheckRoom(t) PROVE ListBounded'
    <3>1. CASE HasRoom
      <4>1. Len(radarList') <= MaxListNum
        BY <2>1, <3>1 DEF CheckRoom, HasRoom
      <4>2. QED
        BY <2>0, <4>1, CommittedFinitePrime, CommittedFinite, RadarAssumption DEF ListBounded
    <3>2. CASE ~HasRoom
      BY <2>0, <2>1, <3>2, NoGrowth DEF CheckRoom, Continue, Committed, TypeOK
    <3>3. QED BY <3>1, <3>2
  <2>2. ASSUME NEW t \in RecvThr, ListAdd(t) PROVE ListBounded'
    <3>1. t \in Committed /\ Committed' = Committed \ {t}
      BY <2>2 DEF ListAdd, Continue, Committed, TypeOK
    <3>2. Cardinality(Committed') = Cardinality(Committed) - 1
      BY <3>1, FS_RemoveElement, CommittedFinite
    <3>3. Len(radarList') = Len(radarList) + 1
      BY <2>2 DEF ListAdd, EntryOf, Entry, TypeOK
    <3>4. QED
      BY <2>0, <3>2, <3>3, CommittedFinite, RadarAssumption DEF ListBounded
  <2>3. ASSUME NEW t \in RecvThr,
               AcceptRecv(t) \/ RecvFail(t) \/ RadarRecv(t) \/ StorePage(t)
                 \/ LinkDict(t) \/ SearchBdb(t)
        PROVE  ListBounded'
    <3>1. radarList' = radarList
      BY <2>3 DEF AcceptRecv, RecvFail, RadarRecv, StorePage, LinkDict, SearchBdb
    <3>2. Committed' \subseteq Committed
      BY <2>3 DEF AcceptRecv, RecvFail, RadarRecv, StorePage, LinkDict, SearchBdb, Continue,
                  Committed, TypeOK
    <3>3. QED BY <2>0, <3>1, <3>2, NoGrowth
  <2>4. ASSUME NEW s \in SendThr, AcceptSend(s) \/ SendStep(s) PROVE ListBounded'
    <3>1. Committed' = Committed
      BY <2>4 DEF AcceptSend, SendStep, ListGet, RadarSend, RadarSendFail, StoreSent, Committed
    <3>2. CASE ListGet(s)
      <4>1. Len(radarList') = Len(radarList) - 1
        BY <3>2, HeadTailProperties DEF ListGet, TypeOK
      <4>2. QED BY <2>0, <3>1, <4>1, NoGrowth
    <3>3. CASE ~ListGet(s)
      <4>1. radarList' = radarList
        BY <2>4, <3>3 DEF AcceptSend, SendStep, RadarSend, RadarSendFail, StoreSent
      <4>2. QED BY <2>0, <3>1, <4>1, NoGrowth
    <3>4. QED BY <3>2, <3>3
  <2>5. CASE Crash
    <3>1. Committed' = {} /\ Len(radarList') = 0
      BY <2>5 DEF Crash, Committed
    <3>2. QED BY <2>0, <3>1, NoGrowth
  <2>6. CASE UNCHANGED vars
    BY <2>0, <2>6, NoGrowth DEF vars, Committed
  <2>7. QED
    BY <2>1, <2>2, <2>3, <2>4, <2>5, <2>6 DEF Next, RecvStep
<1>3. QED
  BY <1>1, <1>2, TypeCorrect, PTL DEF Spec

----------------------------------------------------------------------------
\* At most one admission of a URL per dictionary, and each in one place only.

\* Membership in Waiting, for the steps below.
WaitingShape ==
  \A x : x \in Waiting <=>
           \/ \E t \in RecvThr : Admitted(t) /\ x = EntryOf(t)
           \/ \E i \in DOMAIN radarList : x = radarList[i]
           \/ \E s \in SendThr : Sending(s) /\ x = smsg[s]

LEMMA WaitingCases == WaitingShape
<1> SUFFICES ASSUME NEW x
             PROVE  x \in Waiting <=>
                      \/ \E t \in RecvThr : Admitted(t) /\ x = EntryOf(t)
                      \/ \E i \in DOMAIN radarList : x = radarList[i]
                      \/ \E s \in SendThr : Sending(s) /\ x = smsg[s]
  BY DEF WaitingShape
<1>1. x \in {EntryOf(t) : t \in {r \in RecvThr : Admitted(r)}}
        <=> \E t \in RecvThr : Admitted(t) /\ x = EntryOf(t)
  OBVIOUS
<1>2. x \in {radarList[i] : i \in DOMAIN radarList} <=> \E i \in DOMAIN radarList : x = radarList[i]
  OBVIOUS
<1>3. x \in {smsg[s] : s \in {r \in SendThr : Sending(r)}}
        <=> \E s \in SendThr : Sending(s) /\ x = smsg[s]
  OBVIOUS
<1>4. QED
  BY <1>1, <1>2, <1>3, Zenon DEF Waiting

LEMMA WaitingCasesPrime == WaitingShape'
  BY WaitingCases, PTL

\* A step of a receive thread that lets nothing in and touches neither the list nor the
\* send threads only removes entries.
LEMMA RecvOnlyRemoves ==
  ASSUME AtMostOnce, Generations,
         \A t \in RecvThr : Admitted(t)' => Admitted(t) /\ EntryOf(t)' = EntryOf(t),
         UNCHANGED <<radarList, link_dict, spc, smsg, epoch, delivered, lost>>
  PROVE  AtMostOnce' /\ Generations'
<1>1. Waiting' \subseteq Waiting
  BY WaitingCases, WaitingCasesPrime DEF WaitingShape, Sending
<1>2. RecvDistinct' /\ RecvListApart' /\ RecvSendApart'
  BY DEF AtMostOnce, RecvDistinct, RecvListApart, RecvSendApart, Sending
<1>3. ListDistinct' /\ SendDistinct' /\ ListSendApart'
  BY DEF AtMostOnce, ListDistinct, SendDistinct, ListSendApart, Sending
<1>4. WaitingNotGone'
  BY <1>1 DEF AtMostOnce, WaitingNotGone
<1>5. Generations'
  BY <1>1 DEF Generations
<1>6. QED
  BY <1>2, <1>3, <1>4, <1>5 DEF AtMostOnce

\* A step of a send thread that takes nothing from the list only removes entries.
LEMMA SendOnlyRemoves ==
  ASSUME AtMostOnce, Generations,
         \A s \in SendThr : Sending(s)' => Sending(s) /\ smsg'[s] = smsg[s],
         UNCHANGED <<rpc, rmsg, radarList, link_dict, epoch, delivered, lost>>
  PROVE  AtMostOnce' /\ Generations'
<1>1. Waiting' \subseteq Waiting
  BY WaitingCases, WaitingCasesPrime DEF WaitingShape, Admitted, EntryOf
<1>2. SendDistinct' /\ RecvSendApart' /\ ListSendApart'
  BY DEF AtMostOnce, SendDistinct, RecvSendApart, ListSendApart, Admitted, EntryOf
<1>3. RecvDistinct' /\ ListDistinct' /\ RecvListApart'
  BY DEF AtMostOnce, RecvDistinct, ListDistinct, RecvListApart, Admitted, EntryOf
<1>4. WaitingNotGone'
  BY <1>1 DEF AtMostOnce, WaitingNotGone
<1>5. Generations'
  BY <1>1 DEF Generations
<1>6. QED
  BY <1>2, <1>3, <1>4, <1>5 DEF AtMostOnce

\* The entry a receive thread lets in is new: its URL was not in the dictionary.
LEMMA AdmissionFresh ==
  ASSUME TypeOK, TypeOK', AtMostOnce, Generations, NEW t \in RecvThr, LinkDict(t)
  PROVE  AtMostOnce' /\ Generations'
<1>1. CASE rmsg[t].url \in link_dict
  BY <1>1, RecvOnlyRemoves DEF LinkDict, Continue, Admitted, EntryOf, TypeOK
<1>2. CASE rmsg[t].url \notin link_dict
  <2> DEFINE x == [url |-> rmsg[t].url, ep |-> epoch]
  <2>1. /\ Admitted(t)' /\ EntryOf(t)' = x
        /\ \A r \in RecvThr \ {t} : EntryOf(r)' = EntryOf(r) /\ (Admitted(r)' <=> Admitted(r))
        /\ UNCHANGED <<radarList, smsg, delivered, lost>>
        /\ \A s \in SendThr : Sending(s)' <=> Sending(s)
    BY <1>2 DEF LinkDict, Admitted, EntryOf, TypeOK, Sending
  <2>2. ~Admitted(t)
    BY DEF LinkDict, Admitted
  <2>3. x \notin Waiting /\ x \notin delivered /\ x \notin lost
    BY <1>2 DEF Generations
  <2>4. \A y : y \in Waiting' <=> y \in Waiting \/ y = x
    BY <2>1, <2>2, WaitingCases, WaitingCasesPrime DEF WaitingShape
  <2> HIDE DEF x
  <2>5. RecvDistinct'
    BY <2>1, <2>3, WaitingCases DEF WaitingShape, AtMostOnce, RecvDistinct
  <2>6. RecvListApart'
    BY <2>1, <2>3, WaitingCases DEF WaitingShape, AtMostOnce, RecvListApart
  <2>7. RecvSendApart'
    <3>1. ASSUME NEW r \in RecvThr, NEW s \in SendThr, Admitted(r)', Sending(s)'
          PROVE  EntryOf(r)' # smsg'[s]
      <4>1. smsg[s] \in Waiting /\ smsg'[s] = smsg[s] /\ Sending(s)
        BY <2>1, <3>1, WaitingCases DEF WaitingShape
      <4>2. CASE r = t
        BY <2>1, <2>3, <4>1, <4>2
      <4>3. CASE r # t
        BY <2>1, <3>1, <4>1, <4>3 DEF AtMostOnce, RecvSendApart
      <4>4. QED BY <4>2, <4>3
    <3>2. QED BY <3>1 DEF RecvSendApart
  <2>8. ListDistinct' /\ SendDistinct' /\ ListSendApart'
    BY <2>1 DEF AtMostOnce, ListDistinct, SendDistinct, ListSendApart
  <2>9. WaitingNotGone'
    BY <2>1, <2>3, <2>4 DEF AtMostOnce, WaitingNotGone
  <2>10. Generations'
    <3>1. \/ link_dict' = link_dict \cup {rmsg[t].url} /\ epoch' = epoch
          \/ link_dict' = {} /\ epoch' = epoch + 1
      BY <1>2 DEF LinkDict
    <3>2. Waiting \cup delivered \cup lost \subseteq Entry
      BY WaitingTyped DEF TypeOK
    <3>3. x.ep = epoch /\ x.url = rmsg[t].url
      BY DEF x
    <3>4. ASSUME NEW y \in Waiting' \cup delivered' \cup lost'
          PROVE  y.ep <= epoch' /\ (y.ep = epoch' => y.url \in link_dict')
      <4>1. y = x \/ (y \in Entry /\ y.ep <= epoch /\ (y.ep = epoch => y.url \in link_dict))
        BY <2>1, <2>4, <3>2, <3>4 DEF Generations
      <4>2. epoch \in Nat /\ (y = x \/ y.ep \in Nat)
        BY <4>1 DEF TypeOK, Entry
      <4>3. QED
        BY <3>1, <3>3, <4>1, <4>2
    <3>5. QED BY <3>4 DEF Generations
  <2>11. QED
    BY <2>5, <2>6, <2>7, <2>8, <2>9, <2>10 DEF AtMostOnce
<1>3. QED BY <1>1, <1>2

\* radar_list_add moves an entry from a receive thread's buffer to the list.
LEMMA AddMoves ==
  ASSUME TypeOK, TypeOK', AtMostOnce, Generations, NEW t \in RecvThr, ListAdd(t)
  PROVE  AtMostOnce' /\ Generations' /\ Waiting' = Waiting
<1> DEFINE x == EntryOf(t)
<1>1. /\ Admitted(t) /\ ~Admitted(t)'
      /\ \A r \in RecvThr \ {t} : EntryOf(r)' = EntryOf(r) /\ (Admitted(r)' <=> Admitted(r))
      /\ UNCHANGED <<smsg, delivered, lost, epoch, link_dict>>
      /\ \A s \in SendThr : Sending(s)' <=> Sending(s)
  BY DEF ListAdd, Continue, Admitted, EntryOf, TypeOK, Sending
<1>2. /\ DOMAIN radarList = 1 .. Len(radarList) /\ Len(radarList) \in Nat
      /\ DOMAIN radarList' = 1 .. (Len(radarList) + 1)
      /\ \A i \in DOMAIN radarList : radarList'[i] = radarList[i]
      /\ radarList'[Len(radarList) + 1] = x
  BY DEF ListAdd, TypeOK, EntryOf, Entry
<1> HIDE DEF x
<1>3. x = EntryOf(t)
  BY DEF x
<1>4. \A i \in DOMAIN radarList' :
        \/ i \in DOMAIN radarList /\ radarList'[i] = radarList[i]
        \/ i = Len(radarList) + 1 /\ radarList'[i] = x
  BY <1>2
<1>5. \A y : y \in Waiting' <=> y \in Waiting
  BY <1>1, <1>2, <1>3, <1>4, WaitingCases, WaitingCasesPrime DEF WaitingShape
<1>6. RecvDistinct' /\ SendDistinct' /\ RecvSendApart'
  BY <1>1 DEF AtMostOnce, RecvDistinct, SendDistinct, RecvSendApart
<1>7. ListDistinct'
  BY <1>1, <1>2, <1>3, <1>4 DEF AtMostOnce, ListDistinct, RecvListApart
<1>8. RecvListApart'
  BY <1>1, <1>3, <1>4 DEF AtMostOnce, RecvListApart, RecvDistinct
<1>9. ListSendApart'
  BY <1>1, <1>3, <1>4 DEF AtMostOnce, ListSendApart, RecvSendApart
<1>10. WaitingNotGone' /\ Generations'
  BY <1>1, <1>5 DEF AtMostOnce, WaitingNotGone, Generations
<1>11. QED
  BY <1>5, <1>6, <1>7, <1>8, <1>9, <1>10 DEF AtMostOnce

\* radar_list_get moves the head of the list to a send thread's buffer.
LEMMA GetMoves ==
  ASSUME TypeOK, TypeOK', AtMostOnce, Generations, NEW s \in SendThr, ListGet(s)
  PROVE  AtMostOnce' /\ Generations' /\ Waiting' = Waiting
<1>1. /\ ~Sending(s) /\ Sending(s)'
      /\ \A r \in SendThr \ {s} : smsg'[r] = smsg[r] /\ (Sending(r)' <=> Sending(r))
      /\ smsg'[s] = radarList[1]
      /\ \A t \in RecvThr : EntryOf(t)' = EntryOf(t) /\ (Admitted(t)' <=> Admitted(t))
      /\ UNCHANGED <<delivered, lost, epoch, link_dict>>
  BY DEF ListGet, Admitted, EntryOf, TypeOK, Sending
<1>2. /\ DOMAIN radarList = 1 .. Len(radarList) /\ Len(radarList) \in Nat \ {0}
      /\ DOMAIN radarList' = 1 .. (Len(radarList) - 1)
      /\ \A i \in DOMAIN radarList' : radarList'[i] = radarList[i + 1]
  BY HeadTailProperties DEF ListGet, TypeOK
<1>3. /\ 1 \in DOMAIN radarList
      /\ \A i \in DOMAIN radarList' :
           /\ i + 1 \in DOMAIN radarList /\ i + 1 # 1
           /\ radarList'[i] = radarList[i + 1]
      /\ \A i \in DOMAIN radarList \ {1} : i - 1 \in DOMAIN radarList' /\ (i - 1) + 1 = i
      /\ \A i, j \in DOMAIN radarList' : i # j => i + 1 # j + 1
  BY <1>2
<1>4. \A y : y \in Waiting' <=> y \in Waiting
  <2>1. ASSUME NEW y \in Waiting' PROVE y \in Waiting
    BY <2>1, <1>1, <1>3, WaitingCases, WaitingCasesPrime DEF WaitingShape
  <2>2. ASSUME NEW y \in Waiting PROVE y \in Waiting'
    <3>1. CASE \E i \in DOMAIN radarList : y = radarList[i]
      <4>1. PICK i \in DOMAIN radarList : y = radarList[i]
        BY <3>1
      <4>2. CASE i = 1
        BY <1>1, <4>1, <4>2, WaitingCasesPrime DEF WaitingShape
      <4>3. CASE i # 1
        <5>1. i - 1 \in DOMAIN radarList' /\ y = radarList'[i - 1]
          BY <1>3, <4>1, <4>3
        <5>2. QED BY <5>1, WaitingCasesPrime DEF WaitingShape
      <4>4. QED BY <4>2, <4>3
    <3>2. CASE ~\E i \in DOMAIN radarList : y = radarList[i]
      BY <2>2, <3>2, <1>1, WaitingCases, WaitingCasesPrime DEF WaitingShape
    <3>3. QED BY <3>1, <3>2
  <2>3. QED BY <2>1, <2>2
<1>5. RecvDistinct'
  BY <1>1 DEF AtMostOnce, RecvDistinct
<1>6. ListDistinct'
  BY <1>3 DEF AtMostOnce, ListDistinct
<1>7. RecvListApart'
  BY <1>1, <1>3 DEF AtMostOnce, RecvListApart
<1>8. SendDistinct'
  BY <1>1, <1>3 DEF AtMostOnce, SendDistinct, ListSendApart
<1>9. RecvSendApart'
  BY <1>1, <1>3 DEF AtMostOnce, RecvSendApart, RecvListApart
<1>10. ListSendApart'
  BY <1>1, <1>3 DEF AtMostOnce, ListSendApart, ListDistinct
<1>11. WaitingNotGone' /\ Generations'
  BY <1>1, <1>4 DEF AtMostOnce, WaitingNotGone, Generations
<1>12. QED
  BY <1>4, <1>5, <1>6, <1>7, <1>8, <1>9, <1>10, <1>11 DEF AtMostOnce

\* A send, successful or not, takes its entry out of Waiting for good.
LEMMA SendRemoves ==
  ASSUME TypeOK, AtMostOnce, Generations, NEW s \in SendThr, RadarSend(s) \/ RadarSendFail(s)
  PROVE  AtMostOnce' /\ Generations' /\ smsg[s] \in Waiting /\ Waiting' = Waiting \ {smsg[s]}
<1> DEFINE x == smsg[s]
<1>1. /\ Sending(s) /\ ~Sending(s)'
      /\ \A r \in SendThr \ {s} : smsg'[r] = smsg[r] /\ (Sending(r)' <=> Sending(r))
      /\ \A t \in RecvThr : EntryOf(t)' = EntryOf(t) /\ (Admitted(t)' <=> Admitted(t))
      /\ UNCHANGED <<radarList, epoch, link_dict>>
      /\ delivered' \cup lost' = (delivered \cup lost) \cup {x}
  BY DEF RadarSend, RadarSendFail, Free, Admitted, EntryOf, TypeOK, Sending
<1>2. x \in Waiting
  BY <1>1, WaitingCases DEF WaitingShape
<1> HIDE DEF x
<1>3. x = smsg[s]
  BY DEF x
<1>4. x \notin Waiting'
  <2>1. \A t \in RecvThr : Admitted(t)' => x # EntryOf(t)'
    BY <1>1, <1>3 DEF AtMostOnce, RecvSendApart
  <2>2. \A i \in DOMAIN radarList' : x # radarList'[i]
    BY <1>1, <1>3 DEF AtMostOnce, ListSendApart
  <2>3. \A r \in SendThr : Sending(r)' => x # smsg'[r]
    BY <1>1, <1>3 DEF AtMostOnce, SendDistinct
  <2>4. QED BY <2>1, <2>2, <2>3, WaitingCasesPrime DEF WaitingShape
<1>5. \A y : y \in Waiting' <=> y \in Waiting /\ y # x
  BY <1>1, <1>3, <1>4, WaitingCases, WaitingCasesPrime DEF WaitingShape
<1>6. RecvDistinct' /\ ListDistinct' /\ RecvListApart'
  BY <1>1 DEF AtMostOnce, RecvDistinct, ListDistinct, RecvListApart
<1>7. SendDistinct' /\ RecvSendApart' /\ ListSendApart'
  BY <1>1 DEF AtMostOnce, SendDistinct, RecvSendApart, ListSendApart
<1>8. WaitingNotGone'
  BY <1>1, <1>5 DEF AtMostOnce, WaitingNotGone
<1>9. Generations'
  BY <1>1, <1>2, <1>5 DEF Generations
<1>10. QED
  BY <1>2, <1>3, <1>5, <1>6, <1>7, <1>8, <1>9 DEF AtMostOnce

LEMMA CrashClears ==
  ASSUME TypeOK, Generations, Crash
  PROVE  AtMostOnce' /\ Generations' /\ Waiting' = {}
<1>1. /\ \A t \in RecvThr : ~Admitted(t)'
      /\ DOMAIN radarList' = {}
      /\ \A s \in SendThr : ~Sending(s)'
  BY DEF Crash, Admitted, Sending
<1>2. Waiting' = {}
  BY <1>1, WaitingCasesPrime DEF WaitingShape
<1>3. AtMostOnce'
  BY <1>1, <1>2 DEF AtMostOnce, RecvDistinct, ListDistinct, SendDistinct, RecvListApart,
                    RecvSendApart, ListSendApart, WaitingNotGone
<1>4. Waiting \cup delivered \cup lost \subseteq Entry
  BY WaitingTyped DEF TypeOK
<1>5. delivered' \cup lost' \subseteq Waiting \cup delivered \cup lost /\ epoch' = epoch + 1
  BY DEF Crash
<1>6. ASSUME NEW x \in Waiting' \cup delivered' \cup lost'
      PROVE  x.ep < epoch'
  <2>1. x \in Entry /\ x.ep <= epoch
    BY <1>2, <1>4, <1>5, <1>6 DEF Generations
  <2>2. x.ep \in Nat /\ epoch \in Nat
    BY <2>1 DEF Entry, TypeOK
  <2>3. QED BY <1>5, <2>1, <2>2
<1>7. \A x \in Waiting' \cup delivered' \cup lost' : x.ep \in Nat
  BY <1>2, <1>4, <1>5 DEF Entry
<1>8. epoch' \in Nat
  BY <1>5 DEF TypeOK
<1>9. Generations'
  BY <1>6, <1>7, <1>8 DEF Generations
<1>10. QED BY <1>2, <1>3, <1>9

\* The step of the inductive invariant, for every action.
LEMMA OnceStep ==
  ASSUME TypeOK, TypeOK', AtMostOnce, Generations, [Next]_vars
  PROVE  AtMostOnce' /\ Generations'
<1>1. ASSUME NEW t \in RecvThr,
             AcceptRecv(t) \/ RecvFail(t) \/ RadarRecv(t) \/ StorePage(t) \/ CheckRoom(t)
               \/ SearchBdb(t)
      PROVE  AtMostOnce' /\ Generations'
  <2>1. \A r \in RecvThr : Admitted(r)' => Admitted(r) /\ EntryOf(r)' = EntryOf(r)
    BY <1>1 DEF AcceptRecv, RecvFail, RadarRecv, StorePage, CheckRoom, SearchBdb, Continue,
                Admitted, EntryOf, TypeOK
  <2>2. UNCHANGED <<radarList, link_dict, spc, smsg, epoch, delivered, lost>>
    BY <1>1 DEF AcceptRecv, RecvFail, RadarRecv, StorePage, CheckRoom, SearchBdb
  <2>3. QED BY <2>1, <2>2, RecvOnlyRemoves
<1>2. ASSUME NEW s \in SendThr, AcceptSend(s) \/ StoreSent(s) PROVE AtMostOnce' /\ Generations'
  BY <1>2, SendOnlyRemoves DEF AcceptSend, StoreSent, Free, Sending, TypeOK
<1>3. CASE UNCHANGED vars
  BY <1>3, RecvOnlyRemoves DEF vars, Admitted, EntryOf
<1>4. QED
  BY <1>1, <1>2, <1>3, AdmissionFresh, AddMoves, GetMoves, SendRemoves, CrashClears
     DEF Next, RecvStep, SendStep

\* The inductive invariant holds in every reachable state.
THEOREM InductiveOnce == Spec => [](TypeOK /\ AtMostOnce /\ Generations)
<1>1. Init => AtMostOnce /\ Generations
  <2> SUFFICES ASSUME Init PROVE AtMostOnce /\ Generations
    OBVIOUS
  <2>1. /\ \A t \in RecvThr : ~Admitted(t)
        /\ DOMAIN radarList = {} /\ delivered = {} /\ lost = {}
        /\ \A s \in SendThr : ~Sending(s)
    BY DEF Init, Admitted, Sending
  <2>2. Waiting = {}
    BY <2>1, WaitingCases DEF WaitingShape
  <2>3. QED
    BY <2>1, <2>2 DEF AtMostOnce, RecvDistinct, ListDistinct, SendDistinct, RecvListApart,
                      RecvSendApart, ListSendApart, WaitingNotGone, Generations
<1>2. TypeOK /\ TypeOK' /\ AtMostOnce /\ Generations /\ [Next]_vars => AtMostOnce' /\ Generations'
  BY OnceStep
<1>3. QED
  BY <1>1, <1>2, TypeCorrect, PTL DEF Spec

\* No admission of a URL is ever in two places, nor again in one after it was sent or lost.
THEOREM AdmittedOnce == Spec => []AtMostOnce
  BY InductiveOnce, PTL

----------------------------------------------------------------------------
\* What the dictionary refuses is accounted for.

\* transformer_storage never removes a record.
LEMMA StorageKeeps ==
  ASSUME TypeOK, NEW u \in URL, NEW rec \in {"listed", "crawled"}, transformer_storage(u, rec)
  PROVE  bdb'[u] # "none" /\ \A v \in URL : Stored(v) => Stored(v)'
  BY DEF transformer_storage, Stored, TypeOK

LEMMA AccountedStep ==
  ASSUME TypeOK, TypeOK', AtMostOnce, Generations, Accounted, [Next]_vars
  PROVE  Accounted'
<1> USE DEF Latest
<1>1. ASSUME NEW t \in RecvThr,
             AcceptRecv(t) \/ RecvFail(t) \/ RadarRecv(t) \/ StorePage(t) \/ CheckRoom(t)
      PROVE  Accounted'
  <2>1. /\ \A r \in RecvThr : (Admitted(r)' <=> Admitted(r)) /\ (Admitted(r) => EntryOf(r)' = EntryOf(r))
        /\ UNCHANGED <<radarList, link_dict, spc, smsg, epoch, lost>>
    BY <1>1 DEF AcceptRecv, RecvFail, RadarRecv, StorePage, CheckRoom, Continue,
                Admitted, EntryOf, TypeOK
  <2>2. \A y \in Waiting : y \in Waiting'
    BY <2>1, WaitingCases, WaitingCasesPrime DEF WaitingShape, Sending
  <2>3. \A u \in URL : Stored(u) => Stored(u)'
    BY <1>1, StorageKeeps DEF AcceptRecv, RecvFail, RadarRecv, StorePage, CheckRoom, Stored, TypeOK
  <2>4. QED
    BY <2>1, <2>2, <2>3 DEF Accounted, BeingStored, TypeOK
<1>2. ASSUME NEW t \in RecvThr, LinkDict(t) PROVE Accounted'
  <2>1. CASE rmsg[t].url \in link_dict
    <3>1. /\ \A r \in RecvThr : (Admitted(r)' <=> Admitted(r)) /\ (Admitted(r) => EntryOf(r)' = EntryOf(r))
          /\ UNCHANGED <<radarList, link_dict, spc, smsg, epoch, lost, bdb>>
      BY <1>2, <2>1 DEF LinkDict, Continue, Admitted, EntryOf, TypeOK
    <3>2. \A y \in Waiting : y \in Waiting'
      BY <3>1, WaitingCases, WaitingCasesPrime DEF WaitingShape, Sending
    <3>3. QED
      BY <3>1, <3>2 DEF Accounted, BeingStored, Stored
  <2>2. CASE rmsg[t].url \notin link_dict /\ Cardinality(link_dict) < DictCap
    <3>1. /\ \A r \in RecvThr : Admitted(r) => Admitted(r)' /\ EntryOf(r)' = EntryOf(r)
          /\ Admitted(t)' /\ EntryOf(t)' = [url |-> rmsg[t].url, ep |-> epoch]
          /\ link_dict' = link_dict \cup {rmsg[t].url}
          /\ UNCHANGED <<radarList, spc, smsg, epoch, lost, bdb>>
      <4>1. /\ rpc[t] = "dict" /\ rpc' = [rpc EXCEPT ![t] = "search"]
            /\ rmsg' = [rmsg EXCEPT ![t].ep = epoch]
            /\ link_dict' = link_dict \cup {rmsg[t].url}
            /\ UNCHANGED <<radarList, spc, smsg, epoch, lost, bdb>>
        BY <1>2, <2>2 DEF LinkDict
      <4>2. EntryOf(t)' = [url |-> rmsg[t].url, ep |-> epoch]
        BY <4>1 DEF EntryOf, TypeOK
      <4>3. Admitted(t)' /\ ~Admitted(t)
        BY <4>1 DEF Admitted, TypeOK
      <4>4. ASSUME NEW r \in RecvThr, Admitted(r) PROVE Admitted(r)' /\ EntryOf(r)' = EntryOf(r)
        BY <4>1, <4>3, <4>4 DEF Admitted, EntryOf, TypeOK
      <4>5. QED BY <4>1, <4>2, <4>3, <4>4
    <3>2. \A y \in Waiting : y \in Waiting'
      BY <3>1, WaitingCases, WaitingCasesPrime DEF WaitingShape, Sending
    <3>3. [url |-> rmsg[t].url, ep |-> epoch] \in Waiting'
      BY <3>1, WaitingCasesPrime DEF WaitingShape
    <3>4. QED
      BY <3>1, <3>2, <3>3 DEF Accounted, BeingStored, Stored
  <2>3. CASE rmsg[t].url \notin link_dict /\ ~(Cardinality(link_dict) < DictCap)
    BY <1>2, <2>3 DEF LinkDict, Accounted
  <2>4. QED BY <2>1, <2>2, <2>3
<1>3. ASSUME NEW t \in RecvThr, SearchBdb(t) PROVE Accounted'
  <2>1. UNCHANGED <<radarList, link_dict, spc, smsg, epoch, lost, bdb>>
    BY <1>3 DEF SearchBdb
  <2>2. CASE neo_bdb_search(rmsg[t].url)
    <3>1. \A r \in RecvThr \ {t} : Admitted(r) => Admitted(r)' /\ EntryOf(r)' = EntryOf(r)
      BY <1>3, <2>2 DEF SearchBdb, Continue, Admitted, EntryOf, TypeOK
    <3>2. \A y \in Waiting : y \in Waiting' \/ y = EntryOf(t)
      BY <2>1, <3>1, WaitingCases, WaitingCasesPrime DEF WaitingShape, Sending
    <3>3. Stored(rmsg[t].url)
      BY <2>2 DEF neo_bdb_search, Stored
    <3>4. \A u \in link_dict : Latest(u) = EntryOf(t) => Stored(u)
      BY <3>3 DEF EntryOf
    <3>5. QED
      BY <2>1, <3>2, <3>4 DEF Accounted, BeingStored, Stored
  <2>3. CASE ~neo_bdb_search(rmsg[t].url)
    <3>1. \A r \in RecvThr : Admitted(r) => Admitted(r)' /\ EntryOf(r)' = EntryOf(r)
      BY <1>3, <2>3 DEF SearchBdb, Admitted, EntryOf, TypeOK
    <3>2. \A y \in Waiting : y \in Waiting'
      BY <2>1, <3>1, WaitingCases, WaitingCasesPrime DEF WaitingShape, Sending
    <3>3. QED
      BY <2>1, <3>2 DEF Accounted, BeingStored, Stored
  <2>4. QED BY <2>2, <2>3
<1>4. ASSUME NEW t \in RecvThr, ListAdd(t) PROVE Accounted'
  BY <1>4, AddMoves DEF ListAdd, Accounted, BeingStored, Stored
<1>5. ASSUME NEW s \in SendThr, AcceptSend(s) PROVE Accounted'
  <2>1. /\ UNCHANGED <<rpc, rmsg, radarList, link_dict, smsg, epoch, lost, bdb>>
        /\ \A r \in SendThr : (Sending(r)' <=> Sending(r)) /\ (spc[r] = "store" => spc'[r] = "store")
    BY <1>5 DEF AcceptSend, Sending, TypeOK
  <2>2. \A y \in Waiting : y \in Waiting'
    BY <2>1, WaitingCases, WaitingCasesPrime DEF WaitingShape, Admitted, EntryOf
  <2>3. QED
    BY <2>1, <2>2 DEF Accounted, BeingStored, Stored
<1>6. ASSUME NEW s \in SendThr, ListGet(s) PROVE Accounted'
  <2>1. \A r \in SendThr : spc[r] = "store" => spc'[r] = "store" /\ smsg'[r] = smsg[r]
    BY <1>6 DEF ListGet, TypeOK
  <2>2. UNCHANGED <<link_dict, epoch, lost, bdb>> /\ Waiting' = Waiting
    BY <1>6, GetMoves DEF ListGet
  <2>3. QED
    BY <2>1, <2>2 DEF Accounted, BeingStored, Stored
<1>7. ASSUME NEW s \in SendThr, RadarSend(s) PROVE Accounted'
  <2>1. /\ \A r \in SendThr : spc[r] = "store" => spc'[r] = "store" /\ smsg'[r] = smsg[r]
        /\ spc'[s] = "store" /\ smsg'[s] = smsg[s]
        /\ UNCHANGED <<link_dict, epoch, lost, bdb>>
    BY <1>7 DEF RadarSend, TypeOK
  <2>2. Waiting' = Waiting \ {smsg[s]}
    BY <1>7, SendRemoves
  <2>3. \A e : e \in Waiting \/ BeingStored(e) => e \in Waiting' \/ BeingStored(e)'
    BY <2>1, <2>2 DEF BeingStored
  <2>4. QED
    BY <2>1, <2>3 DEF Accounted, Stored
<1>8. ASSUME NEW s \in SendThr, RadarSendFail(s) PROVE Accounted'
  <2>1. /\ \A r \in SendThr : spc[r] = "store" => spc'[r] = "store" /\ smsg'[r] = smsg[r]
        /\ lost' = lost \cup {smsg[s]}
        /\ UNCHANGED <<link_dict, epoch, bdb>>
    BY <1>8 DEF RadarSendFail, Free, TypeOK
  <2>2. Waiting' = Waiting \ {smsg[s]}
    BY <1>8, SendRemoves
  <2>3. \A e : BeingStored(e) => BeingStored(e)'
    BY <2>1 DEF BeingStored
  <2>4. QED
    BY <2>1, <2>2, <2>3 DEF Accounted, Stored
<1>9. ASSUME NEW s \in SendThr, StoreSent(s) PROVE Accounted'
  <2>1. /\ UNCHANGED <<rpc, rmsg, radarList, link_dict, epoch, lost>>
        /\ \A r \in SendThr \ {s} : spc'[r] = spc[r] /\ smsg'[r] = smsg[r]
        /\ spc[s] = "store" /\ spc'[s] = "get"
    BY <1>9 DEF StoreSent, Free, TypeOK
  <2>2. \A y \in Waiting : y \in Waiting'
    BY <2>1, WaitingCases, WaitingCasesPrime DEF WaitingShape, Admitted, EntryOf, Sending
  <2>3. smsg[s].url \in URL
    BY DEF TypeOK, Entry
  <2>4. bdb'[smsg[s].url] # "none" /\ \A v \in URL : Stored(v) => Stored(v)'
    <3>1. transformer_storage(smsg[s].url, "listed")
      BY <1>9 DEF StoreSent
    <3>2. QED BY <2>3, <3>1, StorageKeeps
  <2>5. ASSUME NEW u \in link_dict, BeingStored(Latest(u))
        PROVE  BeingStored(Latest(u))' \/ Stored(u)'
    <3>1. PICK r \in SendThr : spc[r] = "store" /\ smsg[r] = Latest(u)
      BY <2>5 DEF BeingStored
    <3>2. CASE r = s
      <4>1. smsg[s].url = u
        BY <3>1, <3>2
      <4>2. QED BY <2>4, <4>1 DEF Stored
    <3>3. CASE r # s
      BY <2>1, <3>1, <3>3 DEF BeingStored
    <3>4. QED BY <3>2, <3>3
  <2>6. QED
    BY <2>1, <2>2, <2>4, <2>5 DEF Accounted, TypeOK
<1>10. CASE Crash
  BY <1>10 DEF Crash, Accounted
<1>11. CASE UNCHANGED vars
  <2>1. \A y \in Waiting : y \in Waiting'
    BY <1>11, WaitingCases, WaitingCasesPrime DEF WaitingShape, Admitted, EntryOf, Sending, vars
  <2>2. QED
    BY <1>11, <2>1 DEF vars, Accounted, BeingStored, Stored
<1>12. QED
  BY <1>1, <1>2, <1>3, <1>4, <1>5, <1>6, <1>7, <1>8, <1>9, <1>10, <1>11
     DEF Next, RecvStep, SendStep

\* A URL the dictionary refuses is waiting, being stored, stored, or lost to a failed send.
THEOREM NothingVanishes == Spec => []Accounted
<1>1. Init => Accounted
  BY DEF Init, Accounted
<1>2. /\ TypeOK /\ AtMostOnce /\ Generations /\ TypeOK'
      /\ Accounted /\ [Next]_vars
      => Accounted'
  BY AccountedStep
<1>3. QED
  BY <1>1, <1>2, TypeCorrect, InductiveOnce, PTL DEF Spec

----------------------------------------------------------------------------
\* Once a URL has a record and no copy on its way, only a crash brings it back.

LEMMA SettledKept ==
  ASSUME TypeOK, TypeOK', [Next]_vars, crashes' = crashes, NEW u \in URL, Settled(u)
  PROVE  Settled(u)' /\ (bdb[u] = "crawled" => bdb'[u] = "crawled")
<1>1. ASSUME NEW t \in RecvThr,
             AcceptRecv(t) \/ RecvFail(t) \/ RadarRecv(t) \/ CheckRoom(t) \/ LinkDict(t)
               \/ SearchBdb(t)
      PROVE  Settled(u)' /\ bdb' = bdb
  <2>1. UNCHANGED <<radarList, spc, smsg, bdb>>
    BY <1>1 DEF AcceptRecv, RecvFail, RadarRecv, CheckRoom, LinkDict, SearchBdb
  <2>2. ASSUME NEW r \in RecvThr, rpc'[r] = "add" PROVE rmsg'[r].url # u
    <3>1. \/ rpc[r] = "add" /\ rmsg'[r] = rmsg[r]
          \/ r = t /\ ~neo_bdb_search(rmsg[t].url) /\ rmsg'[t] = rmsg[t]
      BY <1>1, <2>2 DEF AcceptRecv, RecvFail, RadarRecv, CheckRoom, LinkDict, SearchBdb, Continue,
                        TypeOK
    <3>2. QED
      BY <3>1 DEF Settled, Stored, neo_bdb_search
  <2>3. QED
    BY <2>1, <2>2 DEF Settled, Stored
<1>2. ASSUME NEW t \in RecvThr, StorePage(t)
      PROVE  Settled(u)' /\ (bdb[u] = "crawled" => bdb'[u] = "crawled")
  <2>1. \/ bdb' = bdb
        \/ bdb' = [bdb EXCEPT ![rmsg[t].url] = "crawled"]
    BY <1>2 DEF StorePage, transformer_storage
  <2>2. Stored(u)' /\ (bdb[u] = "crawled" => bdb'[u] = "crawled")
    BY <2>1 DEF Settled, Stored, TypeOK
  <2>3. UNCHANGED <<radarList, spc, smsg>>
    BY <1>2 DEF StorePage
  <2>4. \A r \in RecvThr : rpc'[r] = "add" => rpc[r] = "add" /\ rmsg'[r] = rmsg[r]
    BY <1>2 DEF StorePage, Continue, TypeOK
  <2>5. QED
    BY <2>2, <2>3, <2>4 DEF Settled
<1>3. ASSUME NEW t \in RecvThr, ListAdd(t) PROVE Settled(u)' /\ bdb' = bdb
  <2>1. UNCHANGED <<spc, smsg, bdb>>
    BY <1>3 DEF ListAdd
  <2>2. \A r \in RecvThr : rpc'[r] = "add" => rpc[r] = "add" /\ rmsg'[r] = rmsg[r]
    BY <1>3 DEF ListAdd, Continue, TypeOK
  <2>3. ASSUME NEW i \in DOMAIN radarList' PROVE radarList'[i].url # u
    <3>1. EntryOf(t) \in Entry /\ EntryOf(t).url # u
      BY <1>3 DEF ListAdd, Settled, EntryOf, Entry, TypeOK
    <3>2. radarList'[i] = EntryOf(t) \/ (i \in DOMAIN radarList /\ radarList'[i] = radarList[i])
      BY <1>3, <2>3, <3>1, AppendProperties DEF ListAdd, TypeOK
    <3>3. QED
      BY <3>1, <3>2 DEF Settled
  <2>4. QED
    BY <2>1, <2>2, <2>3 DEF Settled, Stored
<1>4. ASSUME NEW s \in SendThr, AcceptSend(s) \/ RadarSend(s) \/ RadarSendFail(s)
      PROVE  Settled(u)' /\ bdb' = bdb
  BY <1>4 DEF AcceptSend, RadarSend, RadarSendFail, Free, Settled, Stored, TypeOK
<1>5. ASSUME NEW s \in SendThr, ListGet(s) PROVE Settled(u)' /\ bdb' = bdb
  <2>1. UNCHANGED <<rpc, rmsg, bdb>>
    BY <1>5 DEF ListGet
  <2>2. /\ 1 \in DOMAIN radarList /\ Head(radarList) = radarList[1]
        /\ \A i \in DOMAIN radarList' : i + 1 \in DOMAIN radarList /\ radarList'[i] = radarList[i + 1]
    BY <1>5, HeadTailProperties DEF ListGet, TypeOK
  <2>3. \A i \in DOMAIN radarList' : radarList'[i].url # u
    BY <2>2 DEF Settled
  <2>4. \A r \in SendThr : spc'[r] \in {"send", "store"} => smsg'[r].url # u
    BY <1>5, <2>2 DEF ListGet, Settled, TypeOK
  <2>5. QED
    BY <2>1, <2>3, <2>4 DEF Settled, Stored
<1>6. ASSUME NEW s \in SendThr, StoreSent(s) PROVE Settled(u)' /\ bdb'[u] = bdb[u]
  <2>1. smsg[s].url # u /\ bdb' = [bdb EXCEPT ![smsg[s].url] = "listed"]
    BY <1>6 DEF StoreSent, transformer_storage, Settled
  <2>2. bdb'[u] = bdb[u]
    BY <2>1 DEF TypeOK
  <2>3. QED
    BY <1>6, <2>2 DEF StoreSent, Free, Settled, Stored, TypeOK
<1>7. ASSUME Crash PROVE FALSE
  BY <1>7 DEF Crash, TypeOK
<1>8. CASE UNCHANGED vars
  BY <1>8 DEF vars, Settled, Stored
<1>9. QED
  BY <1>1, <1>2, <1>3, <1>4, <1>5, <1>6, <1>7, <1>8 DEF Next, RecvStep, SendStep

\* While the process lives, a settled URL is not queued again nor its record put back.
THEOREM SettledForLife == Spec => SettledStays
<1>1. TypeOK /\ TypeOK' /\ [Next]_vars => [SettledStep]_vars
  BY SettledKept DEF SettledStep
<1>2. QED
  BY <1>1, TypeCorrect, PTL DEF Spec, SettledStays

----------------------------------------------------------------------------
\* neoradar implements the ledger of admissions.

\* Waiting is unchanged when every buffer that counts and the list are.
LEMMA WaitingSame ==
  ASSUME \A t \in RecvThr : (Admitted(t)' <=> Admitted(t)) /\ (Admitted(t) => EntryOf(t)' = EntryOf(t)),
         \A s \in SendThr : (Sending(s)' <=> Sending(s)) /\ (Sending(s) => smsg'[s] = smsg[s]),
         radarList' = radarList
  PROVE  Waiting' = Waiting
<1>1. \A y : y \in Waiting' <=> y \in Waiting
  BY WaitingCases, WaitingCasesPrime DEF WaitingShape
<1>2. QED BY <1>1

LEMMA LedgerStep ==
  ASSUME TypeOK, TypeOK', AtMostOnce, Generations, [Next]_vars
  PROVE  Ledger!Next \/ UNCHANGED Ledger!vars
<1> USE DEF Ledger!vars, Ledger!Next
<1>1. ASSUME NEW t \in RecvThr,
             AcceptRecv(t) \/ RecvFail(t) \/ RadarRecv(t) \/ StorePage(t) \/ CheckRoom(t)
      PROVE  UNCHANGED <<epoch, link_dict, Waiting, delivered>>
  <2>1. UNCHANGED <<epoch, link_dict, radarList, spc, smsg, delivered>>
    BY <1>1 DEF AcceptRecv, RecvFail, RadarRecv, StorePage, CheckRoom
  <2>2. \A r \in RecvThr : (Admitted(r)' <=> Admitted(r)) /\ (Admitted(r) => EntryOf(r)' = EntryOf(r))
    BY <1>1 DEF AcceptRecv, RecvFail, RadarRecv, StorePage, CheckRoom, Continue,
                Admitted, EntryOf, TypeOK
  <2>3. QED BY <2>1, <2>2, WaitingSame DEF Sending
<1>2. ASSUME NEW t \in RecvThr, LinkDict(t)
      PROVE  UNCHANGED <<epoch, link_dict, Waiting, delivered>> \/ Ledger!Admit(rmsg[t].url)
  <2>1. UNCHANGED <<radarList, spc, smsg, delivered>>
    BY <1>2 DEF LinkDict
  <2>2. CASE rmsg[t].url \in link_dict
    <3>1. \A r \in RecvThr : (Admitted(r)' <=> Admitted(r)) /\ (Admitted(r) => EntryOf(r)' = EntryOf(r))
      BY <1>2, <2>2 DEF LinkDict, Continue, Admitted, EntryOf, TypeOK
    <3>2. UNCHANGED <<epoch, link_dict>>
      BY <1>2, <2>2 DEF LinkDict
    <3>3. QED BY <2>1, <3>1, <3>2, WaitingSame DEF Sending
  <2>3. CASE rmsg[t].url \notin link_dict
    <3>1. /\ rpc[t] = "dict" /\ rpc' = [rpc EXCEPT ![t] = "search"]
          /\ rmsg' = [rmsg EXCEPT ![t].ep = epoch]
      BY <1>2, <2>3 DEF LinkDict
    <3>2. Admitted(t)' /\ ~Admitted(t) /\ EntryOf(t)' = [url |-> rmsg[t].url, ep |-> epoch]
      BY <3>1 DEF Admitted, EntryOf, TypeOK
    <3>3. \A r \in RecvThr \ {t} : EntryOf(r)' = EntryOf(r) /\ (Admitted(r)' <=> Admitted(r))
      BY <3>1 DEF Admitted, EntryOf, TypeOK
    <3>4. \A y : y \in Waiting' <=> y \in Waiting \/ y = [url |-> rmsg[t].url, ep |-> epoch]
      BY <2>1, <3>2, <3>3, WaitingCases, WaitingCasesPrime DEF WaitingShape, Sending
    <3>5. Waiting' = Waiting \cup {[url |-> rmsg[t].url, ep |-> epoch]}
      BY <3>4
    <3>6. QED
      BY <1>2, <2>1, <2>3, <3>5 DEF LinkDict, Ledger!Admit, Ledger!Admission
  <2>4. QED BY <2>2, <2>3
<1>3. ASSUME NEW t \in RecvThr, SearchBdb(t)
      PROVE  \/ UNCHANGED <<epoch, link_dict, Waiting, delivered>>
             \/ EntryOf(t) \in Waiting /\ Ledger!Forget(EntryOf(t))
  <2>1. UNCHANGED <<epoch, link_dict, radarList, spc, smsg, delivered>>
    BY <1>3 DEF SearchBdb
  <2>2. CASE neo_bdb_search(rmsg[t].url)
    <3> DEFINE x == EntryOf(t)
    <3>1. /\ Admitted(t) /\ ~Admitted(t)'
          /\ \A r \in RecvThr \ {t} : EntryOf(r)' = EntryOf(r) /\ (Admitted(r)' <=> Admitted(r))
      BY <1>3, <2>2 DEF SearchBdb, Continue, Admitted, EntryOf, TypeOK
    <3>2. x \in Waiting
      BY <3>1, WaitingCases DEF WaitingShape
    <3> HIDE DEF x
    <3>3. x = EntryOf(t)
      BY DEF x
    <3>4. x \notin Waiting'
      BY <2>1, <3>1, <3>3, WaitingCasesPrime
         DEF WaitingShape, AtMostOnce, RecvDistinct, RecvListApart, RecvSendApart, Sending
    <3>5. \A y : y \in Waiting' <=> y \in Waiting /\ y # x
      BY <2>1, <3>1, <3>3, <3>4, WaitingCases, WaitingCasesPrime DEF WaitingShape, Sending
    <3>6. Waiting' = Waiting \ {x}
      BY <3>5
    <3>7. QED
      BY <2>1, <3>2, <3>3, <3>6 DEF Ledger!Forget
  <2>3. CASE ~neo_bdb_search(rmsg[t].url)
    <3>1. \A r \in RecvThr : (Admitted(r)' <=> Admitted(r)) /\ (Admitted(r) => EntryOf(r)' = EntryOf(r))
      BY <1>3, <2>3 DEF SearchBdb, Admitted, EntryOf, TypeOK
    <3>2. QED BY <2>1, <3>1, WaitingSame DEF Sending
  <2>4. QED BY <2>2, <2>3
<1>4. ASSUME NEW t \in RecvThr, ListAdd(t)
      PROVE  UNCHANGED <<epoch, link_dict, Waiting, delivered>>
  BY <1>4, AddMoves DEF ListAdd
<1>5. ASSUME NEW s \in SendThr, AcceptSend(s) \/ StoreSent(s)
      PROVE  UNCHANGED <<epoch, link_dict, Waiting, delivered>>
  <2>1. UNCHANGED <<rpc, rmsg, epoch, link_dict, radarList, delivered>>
    BY <1>5 DEF AcceptSend, StoreSent
  <2>2. \A r \in SendThr : (Sending(r)' <=> Sending(r)) /\ (Sending(r) => smsg'[r] = smsg[r])
    BY <1>5 DEF AcceptSend, StoreSent, Free, Sending, TypeOK
  <2>3. QED BY <2>1, <2>2, WaitingSame DEF Admitted, EntryOf
<1>6. ASSUME NEW s \in SendThr, ListGet(s)
      PROVE  UNCHANGED <<epoch, link_dict, Waiting, delivered>>
  BY <1>6, GetMoves DEF ListGet
<1>7. ASSUME NEW s \in SendThr, RadarSend(s)
      PROVE  smsg[s] \in Waiting /\ Ledger!Deliver(smsg[s])
  BY <1>7, SendRemoves DEF RadarSend, Ledger!Deliver
<1>8. ASSUME NEW s \in SendThr, RadarSendFail(s)
      PROVE  smsg[s] \in Waiting /\ Ledger!Forget(smsg[s])
  BY <1>8, SendRemoves DEF RadarSendFail, Ledger!Forget
<1>9. CASE Crash
  BY <1>9, CrashClears DEF Crash, Ledger!Restart
<1>10. CASE UNCHANGED vars
  BY <1>10, WaitingSame DEF vars, Admitted, Sending, EntryOf
<1>11. \A t \in RecvThr : rmsg[t].url \in URL
  BY DEF TypeOK
<1>12. QED
  BY <1>1, <1>2, <1>3, <1>4, <1>5, <1>6, <1>7, <1>8, <1>9, <1>10, <1>11
     DEF Next, RecvStep, SendStep

\* Every behaviour of the radar, its threads and its crashes included, is one of the ledger.
THEOREM ImplementsLedger == Spec => LedgerSpec
<1>1. Init => Ledger!Init
  <2> SUFFICES ASSUME Init PROVE Ledger!Init
    OBVIOUS
  <2>1. Waiting = {}
    BY WaitingCases DEF Init, WaitingShape, Admitted, Sending
  <2>2. QED
    BY <2>1 DEF Init, Ledger!Init
<1>2. TypeOK /\ TypeOK' /\ AtMostOnce /\ Generations /\ [Next]_vars
        => [Ledger!Next]_(Ledger!vars)
  BY LedgerStep
<1>3. QED
  BY <1>1, <1>2, TypeCorrect, InductiveOnce, PTL DEF Spec, LedgerSpec, Ledger!Spec
=============================================================================
