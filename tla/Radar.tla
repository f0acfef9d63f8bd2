------------------------------- MODULE Radar -------------------------------
(***************************************************************************)
(* neoradar: the process that remembers every URL the crawler has met.     *)
(* The center and the seeder push URL records into it (port base+47, one   *)
(* work_recv_thr per connection); the URLs it has not met before wait in a *)
(* list and are pushed back to the center (port base+46, one work_send_thr *)
(* per connection).  "Met before" is answered by two filters, a volatile   *)
(* hash set (link_dict) and a Berkeley DB keyed by the URL's MD5.          *)
(*                                                                         *)
(* Each region under list_mutex is one action; what the code does outside  *)
(* the mutex (the test of listNum, the bdb calls, the socket calls) is an  *)
(* action of its own, so every interleaving of the threads is explored.    *)
(***************************************************************************)
EXTENDS Integers, Sequences, FiniteSets

CONSTANTS
  URL,          \* the URLs peers may send
  LongURL,      \* those with urlLen >= MAX_URL_LEN - 1
  RecvThr,      \* slots for work_recv_thr threads, one per connection
  SendThr,      \* slots for work_send_thr threads, one per connection
  MaxListNum,   \* MAX_LIST_NUM
  DictCap,      \* 5 * NODE_NUM_PER_BLK - 1024
  MaxInput,     \* bound: records received over a behaviour
  MaxCrash      \* bound: process deaths over a behaviour

ASSUME RadarAssumption ==
  /\ URL # {}
  /\ LongURL \subseteq URL
  /\ IsFiniteSet(RecvThr)
  /\ MaxListNum \in Nat /\ DictCap \in Nat
  /\ MaxInput \in Nat /\ MaxCrash \in Nat

VARIABLES
  rpc,          \* where each receive thread is
  rmsg,         \* the record in its buffer, and its admission number
  radarList,    \* the queue; its length is listNum
  link_dict,    \* the URLs in the hash set; its size is nodeNum
  spc,          \* where each send thread is
  smsg,         \* the entry in its buffer
  bdb,          \* the record stored under each URL
  disk,         \* what a crash cannot take back: the state at the last sync
  epoch,        \* ghost: generations of link_dict, over restarts too
  delivered,    \* ghost: entries htcp_send accepted
  lost,         \* ghost: entries dropped by a failed send or a crash
  inputs,       \* bound counter
  crashes       \* bound counter

vars == <<rpc, rmsg, radarList, link_dict, spc, smsg, bdb, disk,
          epoch, delivered, lost, inputs, crashes>>

\* updateTime = 0; updateTime > 0; updateTime > 0 and urlStat = UNCHANGE
Kind == {"link", "page", "unchanged"}

\* bdb records: absent; written with updateTime = 0; with updateTime > 0
Rec == {"none", "listed", "crawled"}

\* An entry of the queue: the URL and the generation of link_dict that let it in.
Entry == [url : URL, ep : Nat]

\* What a buffer is said to hold while its content does not matter.
NoEntry == [url |-> CHOOSE u \in URL : TRUE, ep |-> 0]
NoMsg == [url |-> NoEntry.url, kind |-> "link", ep |-> 0]

----------------------------------------------------------------------------
\* transformer_storage: overwrite the URL's record; every 128th insert, and cmd_thr
\* every half hour, syncs the file.
transformer_storage(u, rec) ==
  /\ bdb' = [bdb EXCEPT ![u] = rec]
  /\ disk' \in {disk, bdb'}

\* Slip: only what has been synced is found.  (An operator named <op>_<slip> is not part
\* of the model: it is <op> with one plausible mistake, and shows what a property catches.)
neo_bdb_search_OnDisk(u) == disk[u] # "none"

\* neo_bdb_search found a record.
neo_bdb_search(u) == bdb[u] # "none"

----------------------------------------------------------------------------
Init ==
  /\ rpc = [t \in RecvThr |-> "none"]
  /\ rmsg = [t \in RecvThr |-> NoMsg]
  /\ radarList = <<>>
  /\ link_dict = {}
  /\ spc = [s \in SendThr |-> "none"]
  /\ smsg = [s \in SendThr |-> NoEntry]
  /\ bdb = [u \in URL |-> "none"]
  /\ disk = bdb
  /\ epoch = 1
  /\ delivered = {}
  /\ lost = {}
  /\ inputs = 0
  /\ crashes = 0

\* accept_recv_thr: a peer connected, a work_recv_thr serves it.
AcceptRecv(t) ==
  /\ rpc[t] = "none"
  /\ rpc' = [rpc EXCEPT ![t] = "recv"]
  /\ UNCHANGED <<rmsg, radarList, link_dict, spc, smsg, bdb, disk,
                 epoch, delivered, lost, inputs, crashes>>

\* radar_recv failed: the socket is closed and the thread returns.
RecvFail(t) ==
  /\ rpc[t] = "recv"
  /\ rpc' = [rpc EXCEPT ![t] = "none"]
  /\ UNCHANGED <<rmsg, radarList, link_dict, spc, smsg, bdb, disk,
                 epoch, delivered, lost, inputs, crashes>>

\* radar_recv returned a record; one with an over-long URL is skipped.
RadarRecv(t) ==
  \E u \in URL, k \in Kind :
    /\ rpc[t] = "recv"
    /\ inputs < MaxInput
    /\ inputs' = inputs + 1
    /\ IF u \in LongURL
         THEN UNCHANGED <<rpc, rmsg>>
         ELSE /\ rpc' = [rpc EXCEPT ![t] = "got"]
              /\ rmsg' = [rmsg EXCEPT ![t] = [url |-> u, kind |-> k, ep |-> 0]]
    /\ UNCHANGED <<radarList, link_dict, spc, smsg, bdb, disk,
                   epoch, delivered, lost, crashes>>

\* The thread is done with the record and goes back to radar_recv.
Continue(t) ==
  /\ rpc' = [rpc EXCEPT ![t] = "recv"]
  /\ rmsg' = [rmsg EXCEPT ![t] = NoMsg]

\* A fetched page (updateTime > 0) is stored, unless it had not changed.
StorePage(t) ==
  /\ rpc[t] = "got"
  /\ rmsg[t].kind # "link"
  /\ IF rmsg[t].kind = "unchanged"
       THEN UNCHANGED <<bdb, disk>>
       ELSE transformer_storage(rmsg[t].url, "crawled")
  /\ Continue(t)
  /\ UNCHANGED <<radarList, link_dict, spc, smsg,
                 epoch, delivered, lost, inputs, crashes>>

\* Slip: the bound is one too high.
HasRoom_OffByOne == Len(radarList) <= MaxListNum + 1

\* The test of listNum, made before list_mutex is taken.
HasRoom == Len(radarList) <= MaxListNum

CheckRoom(t) ==
  /\ rpc[t] = "got"
  /\ rmsg[t].kind = "link"
  /\ IF HasRoom
       THEN rpc' = [rpc EXCEPT ![t] = "dict"] /\ UNCHANGED rmsg
       ELSE Continue(t)
  /\ UNCHANGED <<radarList, link_dict, spc, smsg, bdb, disk,
                 epoch, delivered, lost, inputs, crashes>>

\* Slip: a full dictionary is kept and the URL let in unrecorded.
LinkDict_KeepFull(t) ==
  /\ rpc[t] = "dict"
  /\ LET u == rmsg[t].url IN
       IF u \in link_dict
         THEN Continue(t) /\ UNCHANGED link_dict
         ELSE /\ rpc' = [rpc EXCEPT ![t] = "search"]
              /\ rmsg' = [rmsg EXCEPT ![t].ep = epoch]
              /\ link_dict' = IF Cardinality(link_dict) < DictCap
                               THEN link_dict \cup {u} ELSE link_dict
  /\ UNCHANGED <<radarList, spc, smsg, bdb, disk, epoch, delivered, lost, inputs, crashes>>

\* Under list_mutex: a URL in link_dict is dropped; another is let in and recorded,
\* except that when the dictionary is full it is replaced by an empty one, in which
\* the URL is not recorded.
LinkDict(t) ==
  /\ rpc[t] = "dict"
  /\ LET u == rmsg[t].url IN
       IF u \in link_dict
         THEN /\ Continue(t)
              /\ UNCHANGED <<link_dict, epoch>>
         ELSE /\ rpc' = [rpc EXCEPT ![t] = "search"]
              /\ rmsg' = [rmsg EXCEPT ![t].ep = epoch]
              /\ IF Cardinality(link_dict) < DictCap
                   THEN /\ link_dict' = link_dict \cup {u}
                        /\ UNCHANGED epoch
                   ELSE /\ link_dict' = {}
                        /\ epoch' = epoch + 1
  /\ UNCHANGED <<radarList, spc, smsg, bdb, disk, delivered, lost, inputs, crashes>>

\* neo_bdb_search: a URL with a record is dropped.
SearchBdb(t) ==
  /\ rpc[t] = "search"
  /\ IF neo_bdb_search(rmsg[t].url)
       THEN Continue(t)
       ELSE rpc' = [rpc EXCEPT ![t] = "add"] /\ UNCHANGED rmsg
  /\ UNCHANGED <<radarList, link_dict, spc, smsg, bdb, disk,
                 epoch, delivered, lost, inputs, crashes>>

\* Slip: the whole message goes into the list.
EntryOf_Raw(t) == rmsg[t]

\* What radar_list_add copies.
EntryOf(t) == [url |-> rmsg[t].url, ep |-> rmsg[t].ep]

\* Slip: the length is tested again and a URL that does not fit is forgotten.
ListAdd_Recheck(t) ==
  /\ rpc[t] = "add"
  /\ radarList' = IF HasRoom THEN Append(radarList, EntryOf(t)) ELSE radarList
  /\ Continue(t)
  /\ UNCHANGED <<link_dict, spc, smsg, bdb, disk,
                 epoch, delivered, lost, inputs, crashes>>

\* radar_list_add, under list_mutex; the length is not tested again.
ListAdd(t) ==
  /\ rpc[t] = "add"
  /\ radarList' = Append(radarList, EntryOf(t))
  /\ Continue(t)
  /\ UNCHANGED <<link_dict, spc, smsg, bdb, disk,
                 epoch, delivered, lost, inputs, crashes>>

----------------------------------------------------------------------------
\* The send thread's next place, its buffer no longer of interest.
Free(s, place) ==
  /\ spc' = [spc EXCEPT ![s] = place]
  /\ smsg' = [smsg EXCEPT ![s] = NoEntry]

\* accept_send_thr: a center connected, a work_send_thr feeds it.
AcceptSend(s) ==
  /\ spc[s] = "none"
  /\ spc' = [spc EXCEPT ![s] = "get"]
  /\ UNCHANGED <<rpc, rmsg, radarList, link_dict, smsg, bdb, disk,
                 epoch, delivered, lost, inputs, crashes>>

\* Slip: the entry is left in the list.
ListGet_Peek(s) ==
  /\ spc[s] = "get"
  /\ radarList # <<>>
  /\ smsg' = [smsg EXCEPT ![s] = Head(radarList)]
  /\ spc' = [spc EXCEPT ![s] = "send"]
  /\ UNCHANGED <<rpc, rmsg, radarList, link_dict, bdb, disk,
                 epoch, delivered, lost, inputs, crashes>>

\* radar_list_get, under list_mutex; on an empty list the thread sleeps and retries.
ListGet(s) ==
  /\ spc[s] = "get"
  /\ radarList # <<>>
  /\ smsg' = [smsg EXCEPT ![s] = Head(radarList)]
  /\ radarList' = Tail(radarList)
  /\ spc' = [spc EXCEPT ![s] = "send"]
  /\ UNCHANGED <<rpc, rmsg, link_dict, bdb, disk,
                 epoch, delivered, lost, inputs, crashes>>

\* radar_send: htcp_send accepted the record.
RadarSend(s) ==
  /\ spc[s] = "send"
  /\ delivered' = delivered \cup {smsg[s]}
  /\ spc' = [spc EXCEPT ![s] = "store"]
  /\ UNCHANGED <<rpc, rmsg, radarList, link_dict, smsg, bdb, disk,
                 epoch, lost, inputs, crashes>>

\* Slip: the entry is put back at the end of the list.
RadarSendFail_Requeue(s) ==
  /\ spc[s] = "send"
  /\ radarList' = Append(radarList, smsg[s])
  /\ Free(s, "none")
  /\ UNCHANGED <<rpc, rmsg, link_dict, bdb, disk, epoch, delivered, lost, inputs, crashes>>

\* radar_send failed: the socket is closed and the thread returns with the entry,
\* which is neither back in the list nor stored.
RadarSendFail(s) ==
  /\ spc[s] = "send"
  /\ lost' = lost \cup {smsg[s]}
  /\ Free(s, "none")
  /\ UNCHANGED <<rpc, rmsg, radarList, link_dict, bdb, disk,
                 epoch, delivered, inputs, crashes>>

\* transformer_storage after the send, with the record's updateTime still 0.
StoreSent(s) ==
  /\ spc[s] = "store"
  /\ transformer_storage(smsg[s].url, "listed")
  /\ Free(s, "get")
  /\ UNCHANGED <<rpc, rmsg, radarList, link_dict,
                 epoch, delivered, lost, inputs, crashes>>

----------------------------------------------------------------------------
\* Entries let in and not yet accepted by htcp_send.
Admitted(t) == rpc[t] \in {"search", "add"}
Sending(s) == spc[s] = "send"
Waiting ==
  {EntryOf(t) : t \in {r \in RecvThr : Admitted(r)}}
    \cup {radarList[i] : i \in DOMAIN radarList}
    \cup {smsg[s] : s \in {r \in SendThr : Sending(r)}}

\* The process dies and main() starts it again: the list, the dictionary and the
\* threads are gone, and each bdb record is its present or its last synced one.
Crash ==
  /\ crashes < MaxCrash
  /\ crashes' = crashes + 1
  /\ rpc' = [t \in RecvThr |-> "none"]
  /\ spc' = [s \in SendThr |-> "none"]
  /\ radarList' = <<>>
  /\ link_dict' = {}
  /\ epoch' = epoch + 1
  /\ lost' = lost \cup Waiting
  /\ bdb' \in [URL -> Rec]
  /\ \A u \in URL : bdb'[u] \in {bdb[u], disk[u]}
  /\ disk' = bdb'
  /\ rmsg' = [t \in RecvThr |-> NoMsg]
  /\ smsg' = [s \in SendThr |-> NoEntry]
  /\ UNCHANGED <<delivered, inputs>>

RecvStep(t) == StorePage(t) \/ CheckRoom(t) \/ LinkDict(t) \/ SearchBdb(t) \/ ListAdd(t)
SendStep(s) == ListGet(s) \/ RadarSend(s) \/ RadarSendFail(s) \/ StoreSent(s)

Next ==
  \/ \E t \in RecvThr : AcceptRecv(t) \/ RecvFail(t) \/ RadarRecv(t) \/ RecvStep(t)
  \/ \E s \in SendThr : AcceptSend(s) \/ SendStep(s)
  \/ Crash

Spec == Init /\ [][Next]_vars

\* The scheduler runs every thread, and the center reconnects whenever it has no
\* connection (guide_work_thr's outer loop); peers need not send and sends may fail.
Fairness ==
  /\ \A t \in RecvThr : WF_vars(RecvStep(t))
  /\ \A s \in SendThr : WF_vars(SendStep(s)) /\ WF_vars(AcceptSend(s))

FairSpec == Spec /\ Fairness

----------------------------------------------------------------------------
TypeOK ==
  /\ rpc \in [RecvThr -> {"none", "recv", "got", "dict", "search", "add"}]
  /\ rmsg \in [RecvThr -> [url : URL, kind : Kind, ep : Nat]]
  /\ radarList \in Seq(Entry)
  /\ link_dict \in SUBSET URL
  /\ spc \in [SendThr -> {"none", "get", "send", "store"}]
  /\ smsg \in [SendThr -> Entry]
  /\ bdb \in [URL -> Rec]
  /\ disk \in [URL -> Rec]
  /\ epoch \in Nat
  /\ delivered \in SUBSET Entry
  /\ lost \in SUBSET Entry
  /\ inputs \in Nat
  /\ crashes \in Nat

\* The receive threads that have passed the test of listNum and may still append.
Committed == {t \in RecvThr : rpc[t] \in {"dict", "search", "add"}}

\* listNum is tested before the mutex is taken, so MAX_LIST_NUM is overshot; but never by
\* more than the number of receive threads, whatever their interleaving.
ListBounded == Len(radarList) + Cardinality(Committed) <= MaxListNum + Cardinality(RecvThr)

\* No two places of the radar (a receive thread's buffer, the list, a send thread's
\* buffer) hold the same admission of a URL, and none holds one already sent or lost:
\* threads that race on the same URL never both let it in under one dictionary.
RecvDistinct ==
  \A t1, t2 \in RecvThr :
    Admitted(t1) /\ Admitted(t2) /\ t1 # t2 => EntryOf(t1) # EntryOf(t2)
ListDistinct == \A i, j \in DOMAIN radarList : i # j => radarList[i] # radarList[j]
SendDistinct ==
  \A s1, s2 \in SendThr : Sending(s1) /\ Sending(s2) /\ s1 # s2 => smsg[s1] # smsg[s2]
RecvListApart ==
  \A t \in RecvThr, i \in DOMAIN radarList : Admitted(t) => EntryOf(t) # radarList[i]
RecvSendApart ==
  \A t \in RecvThr, s \in SendThr : Admitted(t) /\ Sending(s) => EntryOf(t) # smsg[s]
ListSendApart ==
  \A i \in DOMAIN radarList, s \in SendThr : Sending(s) => radarList[i] # smsg[s]
WaitingNotGone == Waiting \cap (delivered \cup lost) = {}

AtMostOnce ==
  /\ RecvDistinct /\ ListDistinct /\ SendDistinct
  /\ RecvListApart /\ RecvSendApart /\ ListSendApart
  /\ WaitingNotGone

\* What makes it inductive: an entry let in by the present dictionary is in it, and none
\* is from a later one.
Generations ==
  \A x \in Waiting \cup delivered \cup lost :
    x.ep <= epoch /\ (x.ep = epoch => x.url \in link_dict)

\* A URL in the dictionary is refused from then on, so it must not vanish: it is waiting,
\* or sent and being stored, or in bdb, or it was lost to a failed send.
Stored(u) == bdb[u] # "none"
BeingStored(e) == \E s \in SendThr : spc[s] = "store" /\ smsg[s] = e
Latest(u) == [url |-> u, ep |-> epoch]
Accounted ==
  \A u \in link_dict :
    \/ Latest(u) \in Waiting
    \/ BeingStored(Latest(u))
    \/ Stored(u)
    \/ Latest(u) \in lost

\* A URL that has a record and no copy past the bdb test is settled: while the process
\* lives it is not queued again, even after the dictionary is emptied, and a crawled
\* record is not put back to a listed one.
Settled(u) ==
  /\ Stored(u)
  /\ \A t \in RecvThr : rpc[t] = "add" => rmsg[t].url # u
  /\ \A i \in DOMAIN radarList : radarList[i].url # u
  /\ \A s \in SendThr : spc[s] \in {"send", "store"} => smsg[s].url # u

SettledStep ==
  crashes' = crashes =>
    \A u \in URL : Settled(u) =>
      /\ Settled(u)'
      /\ bdb[u] = "crawled" => bdb'[u] = "crawled"

SettledStays == [][SettledStep]_vars

\* The ledger's pending admissions are the entries waiting anywhere in the radar.
Ledger == INSTANCE UrlLedger WITH known <- link_dict, pending <- Waiting

\* neoradar implements the ledger: at most one delivery of a URL per dictionary, whatever
\* the threads, the failing sends and the crashes do.
LedgerSpec == Ledger!Spec

\* Every admission leaves the radar: it is sent, lost with its connection, or dropped
\* because bdb knows the URL.  Nothing stays in the list for ever.
AllLeave == \A u \in URL, e \in 1 .. (1 + MaxInput + MaxCrash) :
  LET x == [url |-> u, ep |-> e] IN
    x \in Waiting ~> (x \in delivered \cup lost \/ (x \notin Waiting /\ Stored(u)))
=============================================================================
