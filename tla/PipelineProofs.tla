--------------------------- MODULE PipelineProofs ---------------------------
(***************************************************************************)
(* Proofs about the way of a page through neofetch and neoproduce: for any *)
(* number of threads, pages, lengths, losses and deaths.                   *)
(***************************************************************************)
EXTENDS Pipeline, TLAPS

\* A thread that has a record to work on has one.
HasNode ==
  /\ \A f \in FetchThr : fpc[f] = "send" => fnode[f] \in Node
  /\ \A p \in ProduceThr : ppc[p] = "send" => pnode[p] \in Node

Typed == TypeOK /\ HasNode

LEMMA FetchedTyped ==
  ASSUME NEW n \in Node, NEW ret \in PageLen \cup {0}
  PROVE  Fetched(n, ret) \in Node
<1>1. ret \in Nat
  BY PipelineAssumption
<1>2. QED
  BY <1>1 DEF Fetched, Node

\* What is cut fits, and is not cut again.
LEMMA CutFits ==
  ASSUME NEW len \in Nat
  PROVE  CutLen(len) \in Nat /\ CutLen(len) < MAX_HTML_LEN /\ CutLen(CutLen(len)) = CutLen(len)
BY PipelineAssumption DEF CutLen

LEMMA CappedTyped ==
  ASSUME NEW n \in Node
  PROVE  Capped(n) \in ShortNode /\ Capped(n).htmlLen = CutLen(n.htmlLen)
<1>1. n.htmlLen \in Nat
  BY DEF Node
<1>2. CutLen(n.htmlLen) \in Nat /\ CutLen(n.htmlLen) < MAX_HTML_LEN
  BY <1>1, CutFits
<1>3. Capped(n) \in Node /\ Capped(n).htmlLen = CutLen(n.htmlLen)
  BY <1>2 DEF Capped, Node
<1>4. QED
  BY <1>2, <1>3 DEF ShortNode

\* The length of a page that was worked on is a number, though not always one that fits.
LEMMA EditedNat ==
  ASSUME NEW n \in Node, NEW len \in Edited(n)
  PROVE  len \in Nat
<1>1. n.htmlLen \in Nat
  BY DEF Node
<1>2. Room(n.htmlLen) \in Nat
  BY <1>1, PipelineAssumption DEF Room
<1>3. \A l \in Completed(n.htmlLen) : l \in Nat
  <2> SUFFICES ASSUME NEW log \in LogLen PROVE n.htmlLen + Min({log, Room(n.htmlLen)}) \in Nat
    BY <1>1 DEF Completed
  <2>1. log \in Nat
    BY PipelineAssumption
  <2>2. Min({log, Room(n.htmlLen)}) \in {log, Room(n.htmlLen)}
    <3>1. \E x \in {log, Room(n.htmlLen)} : \A y \in {log, Room(n.htmlLen)} : x <= y
      BY <1>2, <2>1
    <3>2. QED
      BY <3>1 DEF Min
  <2>3. QED
    BY <1>1, <1>2, <2>1, <2>2
<1>4. \A l \in Completed(n.htmlLen) : \A k \in 0 .. (l - Slack) : k \in Nat
  BY <1>3, PipelineAssumption
<1>5. QED
  BY <1>1, <1>3, <1>4 DEF Edited

\* A blank record, and one as it is cached, are records.
LEMMA DispatchTyped ==
  ASSUME Typed, NEW u \in URL, NEW cached \in BOOLEAN, Dispatch(u, cached)
  PROVE  [no |-> dispatched + 1, url |-> u, stat |-> "UPDATE", cached |-> cached,
          type |-> IF cached THEN urlType[u] ELSE "NORMAL",
          htmlLen |-> IF cached THEN htmlLen[u] ELSE 0] \in Node
<1>1. dispatched + 1 \in 1 .. MaxDispatch
  BY PipelineAssumption DEF Typed, TypeOK, Dispatch
<1>2. (IF cached THEN urlType[u] ELSE "NORMAL") \in UrlType
  BY DEF Typed, TypeOK, UrlType
<1>3. (IF cached THEN htmlLen[u] ELSE 0) \in Nat
  BY DEF Typed, TypeOK
<1>4. QED
  BY <1>1, <1>2, <1>3 DEF Node

\* The record after the page was processed.
LEMMA WorkTyped ==
  ASSUME NEW n \in Node, NEW index \in BOOLEAN, NEW len \in Edited(n)
  PROVE  /\ [n EXCEPT !.type = Classified(n, index), !.htmlLen = len] \in Node
         /\ len \in Nat
<1>1. len \in Nat
  BY EditedNat
<1>2. Classified(n, index) \in UrlType
  <2>1. n.type \in UrlType
    BY DEF Node
  <2>2. Classified(n, index) \in {"INDEX", "NORMAL", n.type}
    BY DEF Classified
  <2>3. QED
    BY <2>1, <2>2 DEF UrlType
<1>3. QED
  BY <1>1, <1>2 DEF Node

\* Every reachable state has the types of its variables, and a thread that has a record to
\* work on has one.
LEMMA TypedHolds == Spec => []Typed
<1> USE PipelineAssumption
<1>1. Init => Typed
  <2> SUFFICES ASSUME Init PROVE Typed
    OBVIOUS
  <2>1. urlType \in [URL -> UrlType] /\ htmlLen \in [URL -> Nat]
    BY DEF Init, UrlType
  <2>2. saved \in [URL -> SUBSET Nat]
    BY DEF Init
  <2>3. HasNode /\ \A p \in ProduceThr : ppc[p] # "work"
    BY DEF Init, HasNode
  <2>4. fnode \in [FetchThr -> Node \cup {NoNode}] /\ pnode \in [ProduceThr -> Node \cup {NoNode}]
    BY DEF Init
  <2>5. QED
    BY <2>1, <2>2, <2>3, <2>4 DEF Init, Typed, TypeOK
<1>2. Typed /\ [Next]_vars => Typed'
  <2> SUFFICES ASSUME Typed, [Next]_vars PROVE Typed'
    OBVIOUS
  <2>0. TypeOK /\ HasNode /\ ShortNode \subseteq Node
    BY DEF Typed, ShortNode
  <2>1. ASSUME NEW u \in URL, NEW cached \in BOOLEAN, Dispatch(u, cached) PROVE Typed'
    <3>1. fetchq' \subseteq Node
      BY <2>0, <2>1, DispatchTyped DEF Dispatch, TypeOK
    <3>2. dispatched' \in 0 .. MaxDispatch
      BY <2>0, <2>1 DEF Dispatch, TypeOK
    <3>3. QED
      BY <2>0, <2>1, <3>1, <3>2 DEF Dispatch, Typed, TypeOK, HasNode
  <2>2. ASSUME NEW n \in resultq, Answer(n) PROVE Typed'
    <3>1. n \in Node /\ n.htmlLen \in Nat
      BY <2>0 DEF TypeOK, Node
    <3>2. n.no \in 1 .. MaxDispatch /\ n.type \in UrlType /\ n.url \in URL
      BY <3>1 DEF Node
    <3>3. htmlLen' \in [URL -> Nat] /\ urlType' \in [URL -> UrlType]
      BY <2>0, <2>2, <3>1, <3>2 DEF Answer, TypeOK
    <3>4. QED
      BY <2>0, <2>2, <3>2, <3>3 DEF Answer, Typed, TypeOK, HasNode
  <2>3. ASSUME NEW f \in FetchThr, FetchPage(f) PROVE Typed'
    <3>1. PICK n \in fetchq, ret \in PageLen \cup {0} :
            fetchq' = fetchq \ {n} /\ fnode' = [fnode EXCEPT ![f] = Fetched(n, ret)]
      BY <2>3 DEF FetchPage
    <3>2. Fetched(n, ret) \in Node
      BY <2>0, FetchedTyped DEF TypeOK
    <3>3. fnode' \in [FetchThr -> Node \cup {NoNode}] /\ fpc' \in [FetchThr -> {"recv", "send"}]
      BY <2>0, <2>3, <3>1, <3>2 DEF FetchPage, TypeOK
    <3>4. \A g \in FetchThr : fpc'[g] = "send" => fnode'[g] \in Node
      BY <2>0, <2>3, <3>1, <3>2 DEF FetchPage, TypeOK, HasNode
    <3>5. QED
      BY <2>0, <2>3, <3>1, <3>3, <3>4 DEF FetchPage, Typed, TypeOK, HasNode
  <2>4. ASSUME NEW f \in FetchThr, FetchSend(f) PROVE Typed'
    <3>1. fnode[f] \in Node /\ Capped(fnode[f]) \in ShortNode
      BY <2>0, <2>4, CappedTyped DEF FetchSend, HasNode
    <3>2. fnode' \in [FetchThr -> Node \cup {NoNode}] /\ fpc' \in [FetchThr -> {"recv", "send"}]
      BY <2>0, <2>4 DEF FetchSend, TypeOK
    <3>3. \A g \in FetchThr : fpc'[g] = "send" => fnode'[g] \in Node
      BY <2>0, <2>4 DEF FetchSend, TypeOK, HasNode
    <3>4. QED
      BY <2>0, <2>4, <3>1, <3>2, <3>3 DEF FetchSend, Typed, TypeOK, HasNode
  <2>5. ASSUME NEW p \in ProduceThr, ProduceRecv(p) PROVE Typed'
    <3>1. PICK n \in pageq : /\ pageq' = pageq \ {n}
                             /\ pnode' = [pnode EXCEPT ![p] = n]
                             /\ ppc' = [ppc EXCEPT ![p] = FirstStep(n)]
      BY <2>5 DEF ProduceRecv
    <3>2. n \in ShortNode /\ n \in Node
      BY <2>0 DEF TypeOK
    <3>3. FirstStep(n) \in {"send", "work"}
      BY DEF FirstStep
    <3>4. /\ pnode' \in [ProduceThr -> Node \cup {NoNode}]
          /\ ppc' \in [ProduceThr -> {"recv", "work", "send", "link_search"}]
      BY <2>0, <3>1, <3>2, <3>3 DEF TypeOK
    <3>5. \A q \in ProduceThr :
            /\ ppc'[q] = "send" => pnode'[q] \in Node
            /\ ppc'[q] = "work" => pnode'[q] \in ShortNode
      BY <2>0, <3>1, <3>2, <3>3 DEF TypeOK, HasNode
    <3>6. QED
      BY <2>0, <2>5, <3>1, <3>4, <3>5 DEF ProduceRecv, Typed, TypeOK, HasNode
  <2>6. ASSUME NEW p \in ProduceThr, Work(p) PROVE Typed'
    <3> DEFINE n == pnode[p]
    <3>1. PICK found \in BOOLEAN, index \in BOOLEAN, len \in Edited(n) :
            /\ pnode' = [pnode EXCEPT ![p].type = Classified(n, index), ![p].htmlLen = len]
            /\ links' = [links EXCEPT ![p] = found]
            /\ saved' = IF Saves(n) THEN [saved EXCEPT ![n.url] = @ \cup {len}] ELSE saved
      BY <2>6 DEF Work
    <3>2. n \in Node
      BY <2>0, <2>6 DEF Work, TypeOK
    <3>3. /\ [n EXCEPT !.type = Classified(n, index), !.htmlLen = len] \in Node
          /\ len \in Nat
      BY <3>2, WorkTyped
    <3>4. pnode' = [pnode EXCEPT ![p] = [n EXCEPT !.type = Classified(n, index), !.htmlLen = len]]
      BY <3>1, <2>0 DEF TypeOK
    <3>5. n.url \in URL
      BY <3>2 DEF Node
    <3>6. saved' \in [URL -> SUBSET Nat]
      BY <2>0, <3>1, <3>3, <3>5 DEF TypeOK
    <3>7. /\ pnode' \in [ProduceThr -> Node \cup {NoNode}]
          /\ links' \in [ProduceThr -> BOOLEAN]
          /\ ppc' \in [ProduceThr -> {"recv", "work", "send", "link_search"}]
      <4> HIDE DEF n
      <4>1. pnode' \in [ProduceThr -> Node \cup {NoNode}]
        BY <2>0, <3>3, <3>4 DEF TypeOK
      <4>2. links' \in [ProduceThr -> BOOLEAN]
        BY <2>0, <3>1 DEF TypeOK
      <4>3. QED
        BY <2>0, <2>6, <4>1, <4>2 DEF Work, TypeOK
    <3>8. \A q \in ProduceThr :
            /\ ppc'[q] = "send" => pnode'[q] \in Node
            /\ ppc'[q] = "work" => pnode'[q] \in ShortNode
      BY <2>0, <2>6, <3>3, <3>4 DEF Work, TypeOK, HasNode
    <3>9. QED
      BY <2>0, <2>6, <3>6, <3>7, <3>8 DEF Work, Typed, TypeOK, HasNode
  <2>7. ASSUME NEW p \in ProduceThr, ProduceSend(p) PROVE Typed'
    <3>1. pnode[p] \in Node
      BY <2>0, <2>7 DEF ProduceSend, HasNode
    <3>2. [pnode[p] EXCEPT !.stat = "UPDATE"] \in Node
      BY <3>1 DEF Node
    <3>3. /\ pnode' \in [ProduceThr -> Node \cup {NoNode}]
          /\ links' \in [ProduceThr -> BOOLEAN]
          /\ ppc' \in [ProduceThr -> {"recv", "work", "send", "link_search"}]
      BY <2>0, <2>7 DEF ProduceSend, TypeOK
    <3>4. \A q \in ProduceThr :
            /\ ppc'[q] = "send" => pnode'[q] \in Node
            /\ ppc'[q] = "work" => pnode'[q] \in ShortNode
      BY <2>0, <2>7 DEF ProduceSend, TypeOK, HasNode
    <3>5. QED
      BY <2>0, <2>7, <3>2, <3>3, <3>4 DEF ProduceSend, Typed, TypeOK, HasNode
  <2>8. ASSUME ProduceEnds, deaths' \in 0 .. MaxDeath PROVE Typed'
    <3>1. InProduce \subseteq 1 .. MaxDispatch
      BY <2>0 DEF InProduce, HasNode, TypeOK, Node
    <3>2. QED
      BY <2>0, <2>8, <3>1 DEF ProduceEnds, Typed, TypeOK, HasNode
  <2>9. ASSUME NEW p \in ProduceThr, LinkSearch(p) \/ SaveFails(p) PROVE Typed'
    BY <2>0, <2>8, <2>9 DEF LinkSearch, SaveFails, TypeOK
  <2>10. CASE ProduceDeath
    <3>1. deaths' \in 0 .. MaxDeath
      BY <2>0, <2>10 DEF ProduceDeath, TypeOK
    <3>2. QED
      BY <2>8, <2>10, <3>1 DEF ProduceDeath
  <2>11. CASE FetchDeath
    <3>1. InFetch \subseteq 1 .. MaxDispatch
      BY <2>0 DEF InFetch, HasNode, Node
    <3>2. deaths' \in 0 .. MaxDeath
      BY <2>0, <2>11 DEF FetchDeath, TypeOK
    <3>3. QED
      BY <2>0, <2>11, <3>1, <3>2 DEF FetchDeath, Typed, TypeOK, HasNode
  <2>12. ASSUME NEW n \in fetchq \cup pageq \cup resultq, Lose(n) PROVE Typed'
    <3>1. n.no \in 1 .. MaxDispatch
      BY <2>0 DEF TypeOK, Node
    <3>2. deaths' \in 0 .. MaxDeath
      BY <2>0, <2>12 DEF Lose, TypeOK
    <3>3. QED
      BY <2>0, <2>12, <3>1, <3>2 DEF Lose, Typed, TypeOK, HasNode
  <2>13. CASE UNCHANGED vars
    BY <2>0, <2>13 DEF vars, Typed, TypeOK, HasNode
  <2>14. QED
    BY <2>1, <2>2, <2>3, <2>4, <2>5, <2>6, <2>7, <2>9, <2>10, <2>11, <2>12, <2>13
       DEF Next, TakeAnswer, FetchStep, ProduceStep
<1>3. QED
  BY <1>1, <1>2, PTL DEF Spec

\* Every reachable state of the pipeline is well typed, and every page fits the buffer it
\* is received in and worked on with, whatever its length was at its site and in the center's
\* record, and whatever neoproduce makes of it afterwards.
THEOREM PagesFit == Spec => []TypeOK
<1>1. Typed => TypeOK
  BY DEF Typed
<1>2. QED
  BY <1>1, TypedHolds, PTL


-----------------------------------------------------------------------------
\* Whose record says that a page is not saved, and that never changes.
ManualType(n) == (n.type = "MANUAL") <=> (urlType[n.url] = "MANUAL")
Kept(u) == domainType = "ZONGHE" \/ urlType[u] # "MANUAL"

\* A record knows whether its page is kept: it was cached, or is blank and never MANUAL.
TypeKnown(n) == IF n.cached THEN ManualType(n) ELSE urlType[n.url] # "MANUAL" /\ n.type # "MANUAL"

\* The lengths a page was saved with, and those that remain of them where they are cut.
CutOf(lens) == {CutLen(len) : len \in lens}

\* The length in a record is one the page was saved with or what was cut of one, when it is
\* kept, or nothing.
SavedLength(n) == Kept(n.url) => n.htmlLen = 0 \/ n.htmlLen \in saved[n.url] \cup CutOf(saved[n.url])
SavedUnchanged(n) == n.stat = "UNCHANGE" => SavedLength(n) /\ n.htmlLen # 0

\* What is true of a record on its way to a fetcher, in its hands, on its way to or in those
\* of a producer, and of an answer.
ToFetch(n) == TypeKnown(n) /\ SavedLength(n) /\ n.stat = "UPDATE"
ToProduce(n) == TypeKnown(n) /\ SavedUnchanged(n)
ToCenter(n) == TypeKnown(n) /\ SavedLength(n)
InProducer(p) ==
  /\ ppc[p] = "work" => TypeKnown(pnode[p]) /\ pnode[p].stat = "UPDATE"
  /\ ppc[p] = "send" => /\ ToProduce(pnode[p]) /\ SavedLength(pnode[p])
                        /\ pnode[p].stat = "UNCHANGE" => pnode[p].htmlLen < MAX_HTML_LEN
LengthKnown(u) ==
  Kept(u) => htmlLen[u] = 0 \/ htmlLen[u] \in saved[u] \cup CutOf(saved[u])

\* The lengths the center knows, and so those of the records it sends, those the answers
\* bring back to it, and those of the pages found unchanged in between.
Believed ==
  /\ \A u \in URL : LengthKnown(u)
  /\ \A n \in fetchq : ToFetch(n)
  /\ \A f \in FetchThr : fpc[f] = "send" => ToProduce(fnode[f])
  /\ \A n \in pageq : ToProduce(n)
  /\ \A p \in ProduceThr : InProducer(p)
  /\ \A n \in resultq : ToCenter(n)

\* What a record says of its page, and whether that is saved, survives a step after which no
\* page is MANUAL that was not, and the pages saved are still saved.
LEMMA BeliefStays ==
  ASSUME NEW n \in Node, domainType' = domainType, n.url \in URL,
         \A u \in URL : (urlType'[u] = "MANUAL") <=> (urlType[u] = "MANUAL"),
         \A u \in URL : saved[u] \subseteq saved'[u]
  PROVE  /\ TypeKnown(n) => TypeKnown(n)'
         /\ SavedLength(n) => SavedLength(n)'
         /\ SavedUnchanged(n) => SavedUnchanged(n)'
<1>1. Kept(n.url)' <=> Kept(n.url)
  BY DEF Kept
<1>2. ManualType(n)' <=> ManualType(n)
  BY DEF ManualType
<1>3. SavedLength(n) => SavedLength(n)'
  <2>1. CutOf(saved[n.url]) \subseteq CutOf(saved'[n.url])
    BY DEF CutOf
  <2>2. QED
    BY <1>1, <2>1 DEF SavedLength
<1>4. TypeKnown(n) => TypeKnown(n)'
  BY <1>2 DEF TypeKnown
<1>5. QED
  BY <1>3, <1>4 DEF SavedUnchanged


\* A step keeps all of it when that is true of what is new.
LEMMA BelievedStays ==
  ASSUME Typed, Believed, domainType' = domainType,
         \A u \in URL : (urlType'[u] = "MANUAL") <=> (urlType[u] = "MANUAL"),
         \A u \in URL : saved[u] \subseteq saved'[u],
         \A u \in URL : htmlLen'[u] = htmlLen[u] \/ LengthKnown(u)',
         \A n \in fetchq' : n \in fetchq \/ ToFetch(n)',
         \A f \in FetchThr : fpc'[f] = "send" =>
           (fpc[f] = "send" /\ fnode'[f] = fnode[f]) \/ ToProduce(fnode[f])',
         \A n \in pageq' : n \in pageq \/ ToProduce(n)',
         \A p \in ProduceThr : (ppc'[p] = ppc[p] /\ pnode'[p] = pnode[p]) \/ InProducer(p)',
         \A n \in resultq' : n \in resultq \/ ToCenter(n)'
  PROVE  Believed'
<1>1. \A n \in Node : n.url \in URL
  BY DEF Node
<1>2. \A n \in Node : /\ TypeKnown(n) => TypeKnown(n)'
                      /\ SavedLength(n) => SavedLength(n)'
                      /\ SavedUnchanged(n) => SavedUnchanged(n)'
  BY <1>1, BeliefStays
<1>3. ShortNode \subseteq Node /\ TypeOK /\ HasNode
  BY DEF ShortNode, Typed
<1>4. \A u \in URL : LengthKnown(u)'
  <2> SUFFICES ASSUME NEW u \in URL, htmlLen'[u] = htmlLen[u] PROVE LengthKnown(u)'
    OBVIOUS
  <2>1. LengthKnown(u) /\ (Kept(u)' <=> Kept(u))
    BY DEF Believed, Kept
  <2>2. CutOf(saved[u]) \subseteq CutOf(saved'[u])
    BY DEF CutOf
  <2>3. QED
    BY <2>1, <2>2 DEF LengthKnown
<1>5. \A n \in fetchq' : ToFetch(n)'
  <2>1. \A n \in Node : ToFetch(n) => ToFetch(n)'
    BY <1>2 DEF ToFetch
  <2>2. fetchq \subseteq Node
    BY <1>3 DEF TypeOK
  <2>3. QED
    BY <2>1, <2>2 DEF Believed
<1>6. \A n \in pageq' : ToProduce(n)'
  <2>1. \A n \in Node : ToProduce(n) => ToProduce(n)'
    BY <1>2 DEF ToProduce
  <2>2. pageq \subseteq Node
    BY <1>3 DEF TypeOK
  <2>3. QED
    BY <2>1, <2>2 DEF Believed
<1>7. \A n \in resultq' : ToCenter(n)'
  <2>1. \A n \in Node : ToCenter(n) => ToCenter(n)'
    BY <1>2 DEF ToCenter
  <2>2. resultq \subseteq Node
    BY <1>3 DEF TypeOK
  <2>3. QED
    BY <2>1, <2>2 DEF Believed
<1>8. ASSUME NEW f \in FetchThr, fpc'[f] = "send" PROVE ToProduce(fnode[f])'
  <2>1. CASE ToProduce(fnode[f])'
    BY <2>1
  <2>2. CASE fpc[f] = "send" /\ fnode'[f] = fnode[f]
    <3>1. fnode[f] \in Node /\ ToProduce(fnode[f])
      BY <1>3, <2>2 DEF HasNode, Believed
    <3>2. TypeKnown(fnode[f])' /\ SavedUnchanged(fnode[f])'
      BY <1>2, <2>2, <3>1 DEF ToProduce, TypeKnown, ManualType, SavedUnchanged,
                              SavedLength, Kept
    <3>3. QED
      BY <2>2, <3>1, <3>2 DEF ToProduce
  <2>3. QED
    BY <1>8, <2>1, <2>2
<1>9. ASSUME NEW p \in ProduceThr PROVE InProducer(p)'
  <2>1. CASE InProducer(p)'
    BY <2>1
  <2>2. CASE ppc'[p] = ppc[p] /\ pnode'[p] = pnode[p]
    <3>1. InProducer(p)
      BY DEF Believed
    <3>2. CASE ppc[p] \in {"work", "send"}
      <4>1. pnode[p] \in Node
        BY <1>3, <3>2 DEF HasNode, TypeOK
      <4>2. /\ TypeKnown(pnode[p]) => TypeKnown(pnode[p])'
            /\ SavedLength(pnode[p]) => SavedLength(pnode[p])'
            /\ SavedUnchanged(pnode[p]) => SavedUnchanged(pnode[p])'
        BY <1>2, <2>2, <4>1 DEF TypeKnown, ManualType, SavedUnchanged, SavedLength, Kept
      <4>3. QED
        BY <2>2, <3>1, <4>2 DEF InProducer, ToProduce
    <3>3. CASE ppc[p] \notin {"work", "send"}
      BY <2>2, <3>3 DEF InProducer
    <3>4. QED
      BY <3>2, <3>3
  <2>3. QED
    BY <2>1, <2>2
<1>10. QED
  BY <1>4, <1>5, <1>6, <1>7, <1>8, <1>9 DEF Believed


\* The center sends a length it knows, or none.
LEMMA DispatchBelieved ==
  ASSUME Typed, Believed, NEW u \in URL, NEW cached \in BOOLEAN, Dispatch(u, cached)
  PROVE  Believed'
<1>1. PICK n : /\ n = [no |-> dispatched + 1, url |-> u, stat |-> "UPDATE", cached |-> cached,
                       type |-> IF cached THEN urlType[u] ELSE "NORMAL",
                       htmlLen |-> IF cached THEN htmlLen[u] ELSE 0]
               /\ fetchq' = fetchq \cup {n}
  BY DEF Dispatch
<1>2. n.url = u /\ n.stat = "UPDATE" /\ n.cached = cached
      /\ (cached => n.type = urlType[u] /\ n.htmlLen = htmlLen[u])
      /\ (~cached => n.type = "NORMAL" /\ n.htmlLen = 0)
  BY <1>1
<1>3. TypeKnown(n)
  BY <1>2 DEF TypeKnown, ManualType, Dispatch
<1>4. SavedLength(n)
  BY <1>2 DEF SavedLength, Believed, LengthKnown
<1>5. ToFetch(n)'
  BY <1>2, <1>3, <1>4 DEF Dispatch, ToFetch, TypeKnown, ManualType, SavedLength, Kept
<1>6. QED
  BY <1>1, <1>5, BelievedStays DEF Dispatch

\* The answer gives the center a length that was saved, and a type as MANUAL as before.
LEMMA AnswerBelieved ==
  ASSUME Typed, Believed, NEW n \in resultq, Answer(n)
  PROVE  Believed'
<1>1. n \in Node /\ n.url \in URL /\ n.cached \in BOOLEAN /\ ToCenter(n)
  BY DEF Typed, TypeOK, ShortNode, Node, Believed
<1>2. CASE n.cached
  <2>1. urlType' = [urlType EXCEPT ![n.url] = n.type] /\ htmlLen' = [htmlLen EXCEPT ![n.url] = n.htmlLen]
    BY <1>2 DEF Answer
  <2>2. \A u \in URL : (urlType'[u] = "MANUAL") <=> (urlType[u] = "MANUAL")
    BY <1>1, <1>2, <2>1 DEF Typed, TypeOK, ToCenter, TypeKnown, ManualType
  <2>3. \A u \in URL : htmlLen'[u] = htmlLen[u] \/ LengthKnown(u)'
    <3> SUFFICES ASSUME NEW u \in URL, u = n.url PROVE LengthKnown(u)'
      BY <2>1 DEF Typed, TypeOK
    <3>1. htmlLen'[u] = n.htmlLen /\ saved' = saved /\ (Kept(u)' <=> Kept(u))
      BY <2>1, <2>2 DEF Typed, TypeOK, Answer, Kept
    <3>2. QED
      BY <1>1, <3>1 DEF ToCenter, SavedLength, LengthKnown
  <2>4. QED
    BY <2>2, <2>3, BelievedStays DEF Answer
<1>3. CASE ~n.cached
  BY <1>3, BelievedStays DEF Answer
<1>4. QED
  BY <1>2, <1>3

\* A page is found unchanged when its length is the one in the record, which is then one
\* it was saved with, or what was cut of it.
LEMMA FetchBelieved ==
  ASSUME Typed, Believed, NEW f \in FetchThr, FetchPage(f)
  PROVE  Believed'
<1>1. PICK n \in fetchq, ret \in PageLen \cup {0} :
        fetchq' = fetchq \ {n} /\ fnode' = [fnode EXCEPT ![f] = Fetched(n, ret)]
  BY DEF FetchPage
<1> DEFINE new == Fetched(n, ret)
<1>2. n \in Node /\ ToFetch(n)
  BY DEF Typed, TypeOK, Believed
<1>3. new.url = n.url /\ new.type = n.type /\ new.cached = n.cached
  BY <1>2 DEF Fetched, Node
<1>4. new.stat = "UNCHANGE" => new.htmlLen = n.htmlLen /\ n.htmlLen # 0
  <2>1. n.stat = "UPDATE"
    BY <1>2 DEF ToFetch
  <2>2. ret \in Nat
    BY PipelineAssumption
  <2>3. QED
    BY <1>2, <2>1, <2>2 DEF Fetched, Node
<1>5. ToProduce(new)
  <2> HIDE DEF new
  <2>1. TypeKnown(new)
    BY <1>2, <1>3 DEF ToFetch, TypeKnown, ManualType
  <2>2. SavedUnchanged(new)
    BY <1>2, <1>3, <1>4 DEF ToFetch, SavedUnchanged, SavedLength
  <2>3. QED
    BY <2>1, <2>2 DEF ToProduce
<1>6. fnode'[f] = new /\ \A g \in FetchThr : g # f => fnode'[g] = fnode[g] /\ fpc'[g] = fpc[g]
  BY <1>1 DEF FetchPage, Typed, TypeOK
<1>7. ToProduce(fnode[f])'
  <2> HIDE DEF new
  <2>1. QED
    BY <1>5, <1>6 DEF FetchPage, ToProduce, TypeKnown, ManualType, SavedUnchanged, SavedLength, Kept
<1>8. QED
  BY <1>1, <1>6, <1>7, BelievedStays DEF FetchPage

\* What is cut of a length that is known is one, too.
LEMMA FetchSendBelieved ==
  ASSUME Typed, Believed, NEW f \in FetchThr, FetchSend(f)
  PROVE  Believed'
<1>1. PICK n : n = fnode[f]
  OBVIOUS
<1>2. PICK new : new = Capped(n) /\ pageq' = pageq \cup {new}
  BY <1>1 DEF FetchSend
<1>3. n \in Node /\ ToProduce(n) /\ n.url \in URL /\ n.htmlLen \in Nat
  BY <1>1 DEF FetchSend, Typed, HasNode, Believed, Node
<1>4. new.url = n.url /\ new.type = n.type /\ new.cached = n.cached /\ new.stat = n.stat
      /\ new.htmlLen = CutLen(n.htmlLen)
  BY <1>2, <1>3 DEF Capped, Node
<1>5. TypeKnown(new)
  BY <1>3, <1>4 DEF ToProduce, TypeKnown, ManualType
<1>6. SavedUnchanged(new)
  <2> SUFFICES ASSUME new.stat = "UNCHANGE" PROVE SavedLength(new) /\ new.htmlLen # 0
    BY DEF SavedUnchanged
  <2>1. SavedLength(n) /\ n.htmlLen # 0
    BY <1>3, <1>4 DEF ToProduce, SavedUnchanged
  <2>2. new.htmlLen # 0
    BY <1>3, <1>4, <2>1, PipelineAssumption DEF CutLen
  <2>3. Kept(n.url) => new.htmlLen \in CutOf(saved[n.url])
    <3>1. saved[n.url] \subseteq Nat
      BY <1>3 DEF Typed, TypeOK
    <3>2. \A len \in saved[n.url] : CutLen(CutLen(len)) = CutLen(len)
      BY <3>1, CutFits
    <3>3. QED
      BY <1>4, <2>1, <3>2 DEF SavedLength, CutOf
  <2>4. QED
    BY <1>4, <2>2, <2>3 DEF SavedLength
<1>7. ToProduce(new)'
  BY <1>5, <1>6 DEF FetchSend, ToProduce, TypeKnown, ManualType, SavedUnchanged, SavedLength, Kept
<1>8. \A g \in FetchThr : fpc'[g] = "send" => fpc[g] = "send" /\ fnode'[g] = fnode[g]
  BY DEF FetchSend, Typed, TypeOK
<1>9. QED
  BY <1>2, <1>7, <1>8, BelievedStays DEF FetchSend

\* An unchanged page, or one that failed, is answered as it came; another is worked on.
LEMMA RecvBelieved ==
  ASSUME Typed, Believed, NEW p \in ProduceThr, ProduceRecv(p)
  PROVE  Believed'
<1>1. PICK n \in pageq : /\ pageq' = pageq \ {n}
                         /\ pnode' = [pnode EXCEPT ![p] = n]
                         /\ ppc' = [ppc EXCEPT ![p] = FirstStep(n)]
  BY DEF ProduceRecv
<1>2. n \in Node /\ n.htmlLen \in Nat /\ n.htmlLen < MAX_HTML_LEN /\ ToProduce(n)
  BY DEF Typed, TypeOK, Believed, ShortNode, Node
<1>3. FirstStep(n) = "send" => SavedLength(n)
  <2>1. n.htmlLen <= 0 => n.htmlLen = 0
    BY <1>2
  <2>2. QED
    BY <1>2, <2>1 DEF FirstStep, ToProduce, SavedUnchanged, SavedLength
<1>4. FirstStep(n) = "work" => n.stat = "UPDATE"
  BY <1>2 DEF FirstStep, Node
<1>5. /\ pnode'[p] = n /\ ppc'[p] = FirstStep(n)
      /\ \A q \in ProduceThr : q # p => pnode'[q] = pnode[q] /\ ppc'[q] = ppc[q]
  BY <1>1 DEF Typed, TypeOK
<1>6. InProducer(p)'
  BY <1>2, <1>3, <1>4, <1>5 DEF ProduceRecv, InProducer, ToProduce, TypeKnown, ManualType,
                                SavedUnchanged, SavedLength, Kept
<1>7. QED
  BY <1>1, <1>5, <1>6, BelievedStays DEF ProduceRecv

\* A page that is worked on is saved with the length its record gets, if it is kept.
LEMMA WorkBelieved ==
  ASSUME Typed, Believed, NEW p \in ProduceThr, Work(p)
  PROVE  Believed'
<1>1. PICK n : n = pnode[p]
  OBVIOUS
<1>2. PICK index \in BOOLEAN, len \in Edited(n) :
        /\ pnode' = [pnode EXCEPT ![p].type = Classified(n, index), ![p].htmlLen = len]
        /\ saved' = IF Saves(n) THEN [saved EXCEPT ![n.url] = @ \cup {len}] ELSE saved
  BY <1>1 DEF Work
<1>3. n \in Node /\ TypeKnown(n) /\ n.stat = "UPDATE"
  BY <1>1 DEF Work, Typed, TypeOK, Believed, InProducer, ShortNode
<1>4. n.url \in URL
  BY <1>3 DEF Node
<1>5. PICK new : /\ new = [n EXCEPT !.type = Classified(n, index), !.htmlLen = len]
                 /\ pnode'[p] = new
                 /\ \A q \in ProduceThr : q # p => pnode'[q] = pnode[q]
  <2>1. [pnode EXCEPT ![p].type = Classified(n, index), ![p].htmlLen = len]
          = [pnode EXCEPT ![p] = [n EXCEPT !.type = Classified(n, index), !.htmlLen = len]]
    BY <1>1 DEF Typed, TypeOK
  <2>2. QED
    BY <1>2, <2>1 DEF Typed, TypeOK
<1>6. new.url = n.url /\ new.cached = n.cached /\ new.stat = n.stat
      /\ new.type = Classified(n, index) /\ new.htmlLen = len
  BY <1>3, <1>5 DEF Node
<1>7. (new.type = "MANUAL") <=> (n.type = "MANUAL")
  BY <1>6 DEF Classified
<1>8. Kept(n.url) => Saves(n)
  BY <1>3 DEF Kept, Saves, TypeKnown, ManualType
<1>9. \A u \in URL : saved[u] \subseteq saved'[u]
  BY <1>2, <1>4 DEF Typed, TypeOK
<1>10. Kept(n.url) => len \in saved'[n.url]
  BY <1>2, <1>4, <1>8 DEF Typed, TypeOK
<1>11. InProducer(p)'
  <2>1. TypeKnown(new)'
    BY <1>3, <1>6, <1>7 DEF Work, TypeKnown, ManualType
  <2>2. SavedLength(new)'
    BY <1>6, <1>10 DEF Work, SavedLength, Kept
  <2>3. new.stat # "UNCHANGE"
    BY <1>3, <1>6
  <2>4. ppc'[p] = "send"
    BY DEF Work, Typed, TypeOK
  <2>5. QED
    BY <1>5, <2>1, <2>2, <2>3, <2>4 DEF InProducer, ToProduce, TypeKnown, ManualType, SavedUnchanged,
                                        SavedLength, Kept
<1>12. \A q \in ProduceThr : q # p => ppc'[q] = ppc[q]
  BY DEF Work, Typed, TypeOK
<1>13. QED
  BY <1>5, <1>9, <1>11, <1>12, BelievedStays DEF Work

\* The answer is the record that was in hand.
LEMMA SendBelieved ==
  ASSUME Typed, Believed, NEW p \in ProduceThr, ProduceSend(p)
  PROVE  Believed'
<1>1. PICK n : n = pnode[p]
  OBVIOUS
<1>2. PICK new : new = [n EXCEPT !.stat = "UPDATE"] /\ resultq' = resultq \cup {new}
  BY <1>1 DEF ProduceSend
<1>3. n \in Node /\ ToProduce(n) /\ SavedLength(n)
  BY <1>1 DEF ProduceSend, Typed, HasNode, Believed, InProducer
<1>4. new.url = n.url /\ new.type = n.type /\ new.cached = n.cached /\ new.htmlLen = n.htmlLen
  BY <1>2, <1>3 DEF Node
<1>5. ToCenter(new)'
  BY <1>3, <1>4 DEF ProduceSend, ToCenter, ToProduce, TypeKnown, ManualType, SavedLength, Kept
<1>6. /\ ppc'[p] \in {"recv", "link_search"}
      /\ \A q \in ProduceThr : q # p => pnode'[q] = pnode[q] /\ ppc'[q] = ppc[q]
  BY DEF ProduceSend, Typed, TypeOK
<1>7. InProducer(p)'
  BY <1>6 DEF InProducer
<1>8. QED
  BY <1>2, <1>5, <1>6, <1>7, BelievedStays DEF ProduceSend

\* Neither losses nor deaths add anything.
LEMMA FaultBelieved ==
  ASSUME Typed, Believed,
         ProduceEnds \/ FetchDeath \/ \E n \in fetchq \cup pageq \cup resultq : Lose(n)
  PROVE  Believed'
<1>1. CASE ProduceEnds
  <2>1. \A p \in ProduceThr : InProducer(p)'
    BY <1>1 DEF ProduceEnds, InProducer
  <2>2. QED
    BY <1>1, <2>1, BelievedStays DEF ProduceEnds
<1>2. CASE FetchDeath
  BY <1>2, BelievedStays DEF FetchDeath
<1>3. ASSUME NEW n \in fetchq \cup pageq \cup resultq, Lose(n) PROVE Believed'
  BY <1>3, BelievedStays DEF Lose
<1>4. QED
  BY <1>1, <1>2, <1>3

\* A page that is taken for unchanged has been saved before with that length, or with one
\* that is cut to it, for any threads, losses, deaths, order of answers and whatever
\* neoproduce made of the pages before it saved them.
THEOREM SkippedSaved == Spec => []SkippedWasSaved
<1>1. Init => Believed
  BY DEF Init, Believed, LengthKnown, InProducer
<1>2. Typed /\ Believed /\ [Next]_vars => Believed'
  <2> SUFFICES ASSUME Typed, Believed, [Next]_vars PROVE Believed'
    OBVIOUS
  <2>1. CASE UNCHANGED vars
    BY <2>1, BelievedStays DEF vars
  <2>2. QED
    BY <2>1, DispatchBelieved, AnswerBelieved, FetchBelieved, FetchSendBelieved, RecvBelieved,
       WorkBelieved, SendBelieved, FaultBelieved
       DEF Next, TakeAnswer, FetchStep, ProduceStep, LinkSearch, SaveFails, ProduceDeath
<1>3. Typed /\ Believed => SkippedWasSaved
  <2> SUFFICES ASSUME Typed, Believed, NEW p \in ProduceThr, ppc[p] = "send",
                      pnode[p].stat = "UNCHANGE", Saves(pnode[p])
               PROVE  pnode[p].htmlLen \in {CutLen(len) : len \in saved[pnode[p].url]}
    BY DEF SkippedWasSaved
  <2>1. TypeKnown(pnode[p]) /\ SavedUnchanged(pnode[p]) /\ pnode[p].htmlLen < MAX_HTML_LEN
    BY DEF Believed, InProducer, ToProduce
  <2>2. Kept(pnode[p].url)
    BY <2>1 DEF Kept, Saves, TypeKnown, ManualType
  <2>3. pnode[p].htmlLen \in saved[pnode[p].url] \cup CutOf(saved[pnode[p].url])
    BY <2>1, <2>2 DEF SavedUnchanged, SavedLength
  <2>4. CutLen(pnode[p].htmlLen) = pnode[p].htmlLen
    BY <2>1 DEF CutLen
  <2>5. QED
    BY <2>3, <2>4 DEF CutOf
<1>4. QED
  BY <1>1, <1>2, <1>3, TypedHolds, PTL DEF Spec

=============================================================================
