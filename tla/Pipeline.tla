------------------------------ MODULE Pipeline ------------------------------
(***************************************************************************)
(* From the dispatch of a page to its answer: neofetch downloads it,       *)
(* neoproduce saves it, looks for links and answers the center, which      *)
(* keeps the length of the page in its record; a page that comes with the  *)
(* length its record has is taken for unchanged and not processed again.   *)
(*                                                                         *)
(* The threads of both programs take one record at a time from the links   *)
(* between the processes (HtcpLink.tla), which may lose it.                *)
(*                                                                         *)
(* A length is cut to the buffer on its way to neoproduce, and may be      *)
(* changed there: a page that is completed can come out longer than the    *)
(* buffer, as the room that is left is computed without a sign.            *)
(***************************************************************************)
EXTENDS Integers, FiniteSetsExt

CONSTANTS
  URL,
  PageLen,      \* the lengths a page may have
  MAX_HTML_LEN, \* size of the buffers of neoproduce
  Slack,        \* what is left free of a buffer that is added to, and the length of "gridview": 8
  LogLen,       \* the lengths of what is added to a page: a log of wget
  UINT,         \* unsigned numbers wrap at 2^32, here less
  Compressible, \* a shorter page fits its buffer when it is compressed, a longer one may not
  FetchThr, ProduceThr,
  DomainTypes,  \* the modes of neoproduce to look at
  MaxDispatch,  \* bound: pages dispatched
  MaxDeath      \* bound: deaths that are not the program's own doing

ASSUME PipelineAssumption ==
  /\ PageLen \subseteq Nat \ {0}
  /\ MAX_HTML_LEN \in Nat /\ MAX_HTML_LEN > 1
  /\ Slack \in Nat /\ LogLen \subseteq Nat /\ UINT \in Nat \ {0} /\ Compressible \in Nat
  /\ DomainTypes \subseteq {"ZONGHE", "BBS", "NEWS"}
  /\ MaxDispatch \in Nat /\ MaxDeath \in Nat

NULL == "NULL"

VARIABLES
  domainType,
  htmlLen, urlType, \* the center's record of a URL, in part
  fetchq, pageq, resultq, \* records on the three links
  fpc, fnode,   \* fetch thread |-> "recv" or "send"; its record
  ppc, pnode,   \* produce thread |-> where it is; its record
  links,        \* produce thread |-> its page has a link that is looked up
  link_dict,
  saved,        \* URL |-> lengths it has been saved with
  dispatched, deaths, \* bound counters
  answered, lost \* ghosts: numbers of dispatches that came back, and that did not

vars == <<domainType, htmlLen, urlType, fetchq, pageq, resultq, fpc, fnode, ppc, pnode, links, link_dict,
          saved, dispatched, deaths, answered, lost>>

UrlType == {"NORMAL", "INDEX", "MANUAL"}

\* The part of URLNODE_T that matters here; no numbers the dispatch, and cached is whether
\* updateTime is set, without which the center does not take the answer.
Node == [no : 1 .. MaxDispatch, url : URL, type : UrlType,
         htmlLen : Nat, stat : {"UPDATE", "UNCHANGE"}, cached : BOOLEAN]

\* What a buffer is said to hold while its content does not matter.
NoNode == [no |-> 0]

Init ==
  /\ domainType \in DomainTypes
  /\ htmlLen = [u \in URL |-> 0]
  /\ urlType \in [URL -> {"MANUAL", "NORMAL"}]
  /\ fetchq = {} /\ pageq = {} /\ resultq = {}
  /\ fpc = [f \in FetchThr |-> "recv"] /\ fnode = [f \in FetchThr |-> NoNode]
  /\ ppc = [p \in ProduceThr |-> "recv"] /\ pnode = [p \in ProduceThr |-> NoNode]
  /\ links = [p \in ProduceThr |-> FALSE]
  /\ link_dict = NULL
  /\ saved = [u \in URL |-> {}]
  /\ dispatched = 0 /\ deaths = 0 /\ answered = {} /\ lost = {}

-----------------------------------------------------------------------------
(* The center's end.                                                        *)

\* select_update_thr sends the record as it is cached; fetch_url_thr sends a blank one.
Dispatch(u, cached) ==
  /\ dispatched < MaxDispatch
  /\ cached \/ urlType[u] # "MANUAL"
  /\ dispatched' = dispatched + 1
  /\ fetchq' = fetchq \cup
       {[no |-> dispatched + 1, url |-> u, stat |-> "UPDATE", cached |-> cached,
         type |-> IF cached THEN urlType[u] ELSE "NORMAL", htmlLen |-> IF cached THEN htmlLen[u] ELSE 0]}
  /\ UNCHANGED <<domainType, htmlLen, urlType, pageq, resultq, fpc, fnode, ppc, pnode, links, link_dict,
                 saved, deaths, answered, lost>>

\* cache_work_thr: the record of the answer replaces the cached one.
Answer(n) ==
  /\ n \in resultq
  /\ resultq' = resultq \ {n}
  /\ htmlLen' = IF n.cached THEN [htmlLen EXCEPT ![n.url] = n.htmlLen] ELSE htmlLen
  /\ urlType' = IF n.cached THEN [urlType EXCEPT ![n.url] = n.type] ELSE urlType
  /\ answered' = answered \cup {n.no}
  /\ UNCHANGED <<domainType, fetchq, pageq, fpc, fnode, ppc, pnode, links, link_dict, saved, dispatched,
                 deaths, lost>>

-----------------------------------------------------------------------------
(* neofetch: http_get.                                                      *)

\* Slip: the new length is stored before it is compared with the old one.
Fetched_StoreFirst(n, ret) ==
  IF ret <= 0 THEN [n EXCEPT !.htmlLen = 0] ELSE [n EXCEPT !.stat = "UNCHANGE", !.htmlLen = ret]

\* The record after http_fetch returned ret.
Fetched(n, ret) ==
  IF ret <= 0 THEN [n EXCEPT !.htmlLen = 0]
  ELSE IF n.htmlLen = ret THEN [n EXCEPT !.stat = "UNCHANGE"]
  ELSE [n EXCEPT !.htmlLen = ret]

FetchPage(f) ==
  /\ fpc[f] = "recv"
  /\ \E n \in fetchq, ret \in PageLen \cup {0} :
       /\ fetchq' = fetchq \ {n}
       /\ fnode' = [fnode EXCEPT ![f] = Fetched(n, ret)]
  /\ fpc' = [fpc EXCEPT ![f] = "send"]
  /\ UNCHANGED <<domainType, htmlLen, urlType, pageq, resultq, ppc, pnode, links, link_dict, saved,
                 dispatched, deaths, answered, lost>>

\* Slip: only the HTML is cut.
Capped_Not(n) == n

\* node_send: a page that is too long is cut, and its record with it.
CutLen(len) == IF len < MAX_HTML_LEN THEN len ELSE MAX_HTML_LEN - 1
Capped(n) == [n EXCEPT !.htmlLen = CutLen(n.htmlLen)]

FetchSend(f) ==
  /\ fpc[f] = "send"
  /\ pageq' = pageq \cup {Capped(fnode[f])}
  /\ fpc' = [fpc EXCEPT ![f] = "recv"]
  /\ fnode' = [fnode EXCEPT ![f] = NoNode]
  /\ UNCHANGED <<domainType, htmlLen, urlType, fetchq, resultq, ppc, pnode, links, link_dict, saved,
                 dispatched, deaths, answered, lost>>

-----------------------------------------------------------------------------
(* neoproduce: html_produce.                                                *)

\* Slip: there is nothing to do for a page that has not changed.
FirstStep_Skip(n) == IF n.stat = "UNCHANGE" THEN "recv" ELSE IF n.htmlLen <= 0 THEN "send" ELSE "work"

\* A page that failed or has not changed is answered at once.
FirstStep(n) == IF n.htmlLen <= 0 \/ n.stat = "UNCHANGE" THEN "send" ELSE "work"

ProduceRecv(p) ==
  /\ ppc[p] = "recv"
  /\ \E n \in pageq :
       /\ pageq' = pageq \ {n}
       /\ pnode' = [pnode EXCEPT ![p] = n]
       /\ ppc' = [ppc EXCEPT ![p] = FirstStep(n)]
  /\ UNCHANGED <<domainType, htmlLen, urlType, fetchq, resultq, fpc, fnode, links, link_dict, saved,
                 dispatched, deaths, answered, lost>>

\* The links of the page are looked for, under html_mutex.
Extracts(n) == domainType = "ZONGHE" \/ n.type = "MANUAL"

\* The page is saved, under file_mutex.
Saves(n) == domainType = "ZONGHE" \/ n.type # "MANUAL"

\* The type of a page that looks like an index page or does not, in the ZONGHE mode.
Classified(n, index) ==
  CASE domainType = "ZONGHE" /\ n.type = "NORMAL" /\ index -> "INDEX"
    [] domainType = "ZONGHE" /\ n.type = "INDEX" /\ ~index -> "NORMAL"
    [] OTHER -> n.type

\* get_ganji_phone: the room for a log behind a page.  It is computed without a sign, so that
\* there is no end of it behind a page that leaves less than Slack.
Room(len) == (MAX_HTML_LEN - len - Slack) % UINT
Completed(len) == {len} \cup {len + Min({log, Room(len)}) : log \in LogLen}

\* The lengths a page may be saved with: in the NEWS mode the pages of one site are completed,
\* perhaps past the end of their buffer, and those of another are cut before "gridview".
Edited(n) ==
  IF domainType = "NEWS" /\ n.type # "MANUAL"
    THEN Completed(n.htmlLen) \cup UNION {0 .. (len - Slack) : len \in Completed(n.htmlLen)}
    ELSE {n.htmlLen}

Work(p) ==
  /\ ppc[p] = "work"
  /\ \E found, index \in BOOLEAN, len \in Edited(pnode[p]) :
       /\ index => found
       /\ found => Extracts(pnode[p])
       /\ pnode' = [pnode EXCEPT ![p].type = Classified(pnode[p], index), ![p].htmlLen = len]
       /\ links' = [links EXCEPT ![p] = found]
       /\ saved' = IF Saves(pnode[p]) THEN [saved EXCEPT ![pnode[p].url] = @ \cup {len}] ELSE saved
  /\ ppc' = [ppc EXCEPT ![p] = "send"]
  /\ UNCHANGED <<domainType, htmlLen, urlType, fetchq, pageq, resultq, fpc, fnode, link_dict, dispatched,
                 deaths, answered, lost>>

\* The page is answered, whatever happened as an UPDATE; then its links are looked up.
ProduceSend(p) ==
  /\ ppc[p] = "send"
  /\ resultq' = resultq \cup {[pnode[p] EXCEPT !.stat = "UPDATE"]}
  /\ ppc' = [ppc EXCEPT ![p] = IF links[p] THEN "link_search" ELSE "recv"]
  /\ pnode' = [pnode EXCEPT ![p] = NoNode]
  /\ links' = [links EXCEPT ![p] = FALSE]
  /\ UNCHANGED <<domainType, htmlLen, urlType, fetchq, pageq, fpc, fnode, link_dict, saved, dispatched,
                 deaths, answered, lost>>

\* The numbers of the dispatches the threads of neofetch or neoproduce work on.
InFetch == {fnode[f].no : f \in {g \in FetchThr : fpc[g] = "send"}}
InProduce == {pnode[p].no : p \in {q \in ProduceThr : ppc[q] \in {"work", "send"}}}

\* neoproduce ends with all its threads, and is started again.
ProduceEnds ==
  /\ ppc' = [p \in ProduceThr |-> "recv"] /\ pnode' = [p \in ProduceThr |-> NoNode]
  /\ links' = [p \in ProduceThr |-> FALSE]
  /\ link_dict' = NULL
  /\ lost' = lost \cup InProduce
  /\ UNCHANGED <<domainType, htmlLen, urlType, fetchq, pageq, resultq, fpc, fnode, saved, dispatched,
                 answered>>

\* link_search: assert(dict && keyStr).  Nothing gives link_dict a table.
LinkSearch(p) ==
  /\ ppc[p] = "link_search"
  /\ link_dict = NULL
  /\ ProduceEnds
  /\ UNCHANGED deaths

\* save_html: assert(compress(...) == Z_OK), for a page that does not fit when it is compressed.
\* What writing past the end of the buffer does is not defined: it ends the process here, too,
\* or nothing is seen of it.
SaveFails(p) ==
  /\ ppc[p] = "work" /\ Saves(pnode[p])
  /\ \E len \in Edited(pnode[p]) : len >= Compressible
  /\ ProduceEnds
  /\ UNCHANGED deaths

-----------------------------------------------------------------------------
(* Faults.                                                                  *)

FetchDeath ==
  /\ deaths < MaxDeath
  /\ deaths' = deaths + 1
  /\ fpc' = [f \in FetchThr |-> "recv"] /\ fnode' = [f \in FetchThr |-> NoNode]
  /\ lost' = lost \cup InFetch
  /\ UNCHANGED <<domainType, htmlLen, urlType, fetchq, pageq, resultq, ppc, pnode, links, link_dict, saved,
                 dispatched, answered>>

ProduceDeath ==
  /\ deaths < MaxDeath
  /\ deaths' = deaths + 1
  /\ ProduceEnds

\* A link loses a record.
Lose(n) ==
  /\ deaths < MaxDeath
  /\ deaths' = deaths + 1
  /\ n \in fetchq \cup pageq \cup resultq
  /\ fetchq' = fetchq \ {n} /\ pageq' = pageq \ {n} /\ resultq' = resultq \ {n}
  /\ lost' = lost \cup {n.no}
  /\ UNCHANGED <<domainType, htmlLen, urlType, fpc, fnode, ppc, pnode, links, link_dict, saved, dispatched,
                 answered>>

-----------------------------------------------------------------------------
FetchStep(f) == FetchPage(f) \/ FetchSend(f)
ProduceStep(p) == ProduceRecv(p) \/ Work(p) \/ SaveFails(p) \/ ProduceSend(p) \/ LinkSearch(p)
TakeAnswer == \E n \in resultq : Answer(n)

Next ==
  \/ \E u \in URL, cached \in BOOLEAN : Dispatch(u, cached)
  \/ TakeAnswer
  \/ \E f \in FetchThr : FetchStep(f)
  \/ \E p \in ProduceThr : ProduceStep(p)
  \/ FetchDeath \/ ProduceDeath
  \/ \E n \in fetchq \cup pageq \cup resultq : Lose(n)

Spec == Init /\ [][Next]_vars

\* All threads run; the center need not dispatch anything.
FairSpec ==
  /\ Spec
  /\ WF_vars(TakeAnswer)
  /\ \A f \in FetchThr : WF_vars(FetchStep(f))
  /\ \A p \in ProduceThr : WF_vars(ProduceStep(p))

-----------------------------------------------------------------------------
ShortNode == {n \in Node : n.htmlLen < MAX_HTML_LEN}

\* Types, and the assertion of html_produce: a page it received fits its buffer, whatever its
\* length was at the site and in the center's record.  Past that the lengths are only numbers.
TypeOK ==
  /\ domainType \in DomainTypes
  /\ htmlLen \in [URL -> Nat] /\ urlType \in [URL -> UrlType]
  /\ fetchq \subseteq Node /\ pageq \subseteq ShortNode /\ resultq \subseteq Node
  /\ fpc \in [FetchThr -> {"recv", "send"}] /\ fnode \in [FetchThr -> Node \cup {NoNode}]
  /\ ppc \in [ProduceThr -> {"recv", "work", "send", "link_search"}]
  /\ pnode \in [ProduceThr -> Node \cup {NoNode}] /\ links \in [ProduceThr -> BOOLEAN]
  /\ \A p \in ProduceThr : ppc[p] = "work" => pnode[p] \in ShortNode
  /\ link_dict = NULL
  /\ saved \in [URL -> SUBSET Nat]
  /\ dispatched \in 0 .. MaxDispatch /\ deaths \in 0 .. MaxDeath
  /\ answered \subseteq 1 .. MaxDispatch /\ lost \subseteq 1 .. MaxDispatch

\* A page that is taken for unchanged has been saved before with that length, whatever was
\* lost, died or overtook it since: neoproduce saves before it answers, and the center
\* knows only lengths of answers.  The length it was saved with is cut as any length that
\* is sent to neoproduce is: a page saved longer than the buffer is found unchanged with that
\* length, and passed on with one less than the buffer.
SkippedWasSaved ==
  \A p \in ProduceThr :
    ppc[p] = "send" /\ pnode[p].stat = "UNCHANGE" /\ Saves(pnode[p])
      => pnode[p].htmlLen \in {CutLen(len) : len \in saved[pnode[p].url]}

\* Every page that is dispatched is answered in the end, failed and unchanged ones too,
\* unless a link loses it or the process that has it dies.
Answered == \A no \in 1 .. MaxDispatch : (dispatched >= no) ~> (no \in answered \cup lost)

\* The assertion of link_search: it is called with a table.
DictGiven == \A p \in ProduceThr : ppc[p] = "link_search" => link_dict # NULL
=============================================================================
