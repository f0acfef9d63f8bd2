------------------------------- MODULE Center -------------------------------
(***************************************************************************)
(* neocenter: the cache of URL records, one ordered dictionary per domain, *)
(* from which URLs are dispatched to the fetchers and to which the fetch   *)
(* results and the radar's new URLs come back; the dump file from which a  *)
(* restarted center rebuilds it.                                           *)
(*                                                                         *)
(* Threads: select_update_thr (VisitDomain, SendPicked), cache_work_thr    *)
(* (Reply, CacheReply), guide_work_thr (GuideRecv, RadarBack),             *)
(* fetch_url_thr (SpoolTake), dump_thr (the Dump actions).  What one of    *)
(* them does under cache_mutex is one action, but dump_thr's walk, which a *)
(* crash can cut: it is a step per record, and nothing else takes the mutex*)
(* meanwhile.                                                              *)
(*                                                                         *)
(* A string stands for its MD5 too, so the key of a record, of a dictionary*)
(* entry and of bdb is the string.                                         *)
(***************************************************************************)
EXTENDS CenterRank, Sequences, FiniteSets

CONSTANTS
  Str,          \* URL strings, positive integers in the order of their MD5
  Dom,          \* string |-> domain, a positive integer; 0 where get_domain fails
  Trim,         \* string |-> what url_trim makes of it
  LinkType,     \* string |-> the types it may come with: as a link NORMAL or INDEX, as
                \* neoproduce classifies it; as a seed MANUAL or NORMAL (neoseed)
  Blocks,       \* string |-> what fetch_url_thr may read where the string is in its file, which
                \* has no line ends: with a slash behind it, or, of greatest length, as it is
  Long,         \* whether a page may come out longer than load_file takes: a set of Booleans
  ManualFile,   \* the strings of the manual file the center is started with
  MaxPerDomain, \* cache_work_thr ignores results of a domain with more: 100000
  TimeStep,     \* granularity of the clock
  MaxTime,      \* bound: the clock
  MaxWire,      \* bound: dispatched records on the way; node_send blocks above it
  MaxInput,     \* bound: records received, from the radar and from the fetchers
  MaxDump,      \* bound: dumps begun
  MaxCrash      \* bound: process deaths

Domain == {Dom[s] : s \in Str} \ {0}

ASSUME CenterAssumption ==
  /\ Str \subseteq Nat \ {0}
  /\ Dom \in [Str -> Nat] /\ Trim \in [Str -> Str] /\ LinkType \in [Str -> SUBSET UrlType]
  /\ Blocks \in [Str -> SUBSET Str] /\ Long \subseteq BOOLEAN
  /\ \A s \in Str : Dom[Trim[s]] = Dom[s] /\ Trim[Trim[s]] = Trim[s]
  /\ ManualFile \subseteq Str
  /\ MaxPerDomain \in Nat /\ TimeStep \in Nat \ {0}

\* The part of URLNODE_T that the center acts on; long is whether htmlLen is more than
\* load_file takes.  None stands for no record.
Node == [type : UrlType, rank : Byte, other : Byte, upd : Nat, long : BOOLEAN]
None == [type |-> "none"]

VARIABLES
  up,           \* "up", "down", or "refused" by load_file's size check
  cache,        \* string |-> its record in its domain's dictionary, or None
  domains,      \* the domains in g_domainRBdict
  itor,         \* domain |-> the string its updateItor is at, 0 at the end
  walk,         \* the domain select_update_thr's walk last visited, 0 before the first
  raced,        \* a domain was added under that walk, which takes no mutex
  picked,       \* the record copied out and not yet sent: {} or one [str, node]
  wire,         \* dispatched records whose result has not come back
  checked,      \* the result past NEO_cache_check and not yet cached: {} or one [str, node, html]
  radar,        \* answers without a time, which the radar may pass on: [str, node, html]
  spool,        \* strings appended to xx_no_fetch_url
  bdb,          \* the strings bdb has
  unsynced,     \* those a crash can take back
  dump,         \* dumpfile.000, a sequence of [str, node]; the empty one: no file
  oldSize,      \* size of dumpfile.111 in records, -1: no file
  todump,       \* the strings dump_thr has still to write, and cache_mutex is its meanwhile
  now, inputs, dumps, crashes, \* bound counters; now is also the clock
  lastSel,      \* ghost: when each string was last dispatched in this life, 0: never
  fails,        \* ghost: failed results cached for the page that url_trim's string names
  overtaken,    \* ghost: since then a result older than lastSel was cached
  dropped,      \* ghost: load_file skipped a record
  blanked,      \* ghost: the strings whose record an answer from the radar has ever overwritten
  reset         \* ghost: those of them that have not been dispatched since

cacheVars == <<cache, domains, bdb, unsynced, dump, spool>>
selectVars == <<itor, walk, picked>>
dumpVars == <<oldSize, todump, dumps>>
ghosts == <<lastSel, fails, overtaken, dropped, blanked, reset>>
vars == <<up, cacheVars, selectVars, raced, wire, checked, radar, dumpVars, now, inputs, crashes, ghosts>>

Cached == {s \in Str : cache[s] # None}
InDomain(d) == {s \in Cached : Dom[s] = d}
NewNode(type) == [type |-> type, rank |-> 0, other |-> 0, upd |-> 0, long |-> FALSE]
Size(file) == IF file = <<>> THEN -1 ELSE Len(file)
Manual == {Trim[m] : m \in {s \in ManualFile : Dom[s] # 0}}

\* cache_mutex can be taken.
Free == up = "up" /\ todump = {}

-----------------------------------------------------------------------------
(* What NEO_cache_url does to cache, domains, bdb and the files.            *)

\* NEO_cache_url: the record with its new counter and rank.
Ranked(n, stat, html) ==
  LET other == NextOther(stat, html, n.other)
  IN  [n EXCEPT !.other = other, !.rank = NextRank(n.type, stat, html, n.rank, other)]

PutBdb(s) ==
  /\ bdb' = bdb \cup {s}
  /\ unsynced' = IF s \in bdb THEN unsynced ELSE unsynced \cup {s}

Append1(s, n) == dump' = Append(dump, [str |-> s, node |-> n])

\* Slip: the cached record is overwritten whatever the status.
OverwriteBy_Any(stat) == TRUE

\* __cache_url, found.
OverwriteBy(stat) == stat = "UPDATE"

\* Slip: the record of a new domain's first URL is not saved to the dump file.
SaveFirst_Not(s, n) == UNCHANGED dump

\* NEO_cache_url, new domain: its record is saved under the MD5 of the string as it came.
SaveFirst(s, n) == Append1(s, n)

\* NEO_cache_url: n is the record after Ranked.
CacheUrl(s, n, stat) ==
  /\ spool' = IF n.type = "NORMAL" THEN spool \cup {s} ELSE spool
  /\ \/ /\ Dom[s] = 0 \/ (Dom[s] \in domains /\ s \in Cached /\ ~OverwriteBy(stat))
        /\ UNCHANGED <<cache, domains, bdb, unsynced, dump, raced>>
     \/ /\ Dom[s] \in domains /\ s \in Cached /\ OverwriteBy(stat)
        /\ cache' = [cache EXCEPT ![s] = n]
        /\ UNCHANGED <<domains, bdb, unsynced, dump, raced>>
     \/ /\ Dom[s] \in domains /\ s \notin Cached
        /\ cache' = [cache EXCEPT ![s] = n]
        /\ PutBdb(s) /\ Append1(s, n)
        /\ UNCHANGED <<domains, raced>>
     \/ /\ Dom[s] \notin domains \cup {0}
        /\ cache' = [cache EXCEPT ![Trim[s]] = n]
        /\ domains' = domains \cup {Dom[s]}
        /\ raced' = (walk # 0)
        /\ PutBdb(Trim[s]) /\ SaveFirst(s, n)

-----------------------------------------------------------------------------
(* load_file: what it builds from the manual file, the dump file and bdb.   *)

ManualDomain == {Dom[m] : m \in Manual}

First(I) == CHOOSE i \in I : \A j \in I : i <= j
Last(I) == CHOOSE i \in I : \A j \in I : j <= i

\* Slip: a record of a domain not yet known is always skipped.
CanOpen_Not(s) == FALSE

\* NEO_cache_load, unknown domain: bdb has to name it.
CanOpen(s) == s \in bdb

\* The records that load_file does not take for an error.
Readable == {i \in DOMAIN dump : ~dump[i].node.long}

\* The records that could make domain d known; the first of them does, unless the manual
\* file did.
Openers(d) == {i \in Readable : Dom[dump[i].str] = d /\ CanOpen(dump[i].str)}
IsOpen(d) == d \in ManualDomain \/ Openers(d) # {}
OpenedAt(d) == IF d \in ManualDomain THEN 0 ELSE First(Openers(d))

\* The records that NEO_cache_load writes to the entry of s, the first perhaps through
\* NEO_cache_domain, which trims its string.
Writes(s) ==
  {i \in Readable :
     /\ IsOpen(Dom[s]) /\ i >= OpenedAt(Dom[s])
     /\ dump[i].str = s \/ (i = OpenedAt(Dom[s]) /\ Trim[dump[i].str] = s)}

\* The last record wins, but the type stays MANUAL.
LoadedNode(s) ==
  LET manual == s \in Manual \/ \E i \in Writes(s) : dump[i].node.type = "MANUAL"
  IN  IF Writes(s) # {}
      THEN [dump[Last(Writes(s))].node EXCEPT !.type = IF manual THEN "MANUAL" ELSE @]
      ELSE IF manual THEN NewNode("MANUAL") ELSE None

LoadedDomains == {d \in Domain : IsOpen(d)}
LoadedBdb == bdb \cup Manual \cup {Trim[dump[OpenedAt(d)].str] : d \in LoadedDomains \ ManualDomain}
Skips ==
  \E i \in DOMAIN dump :
    i \notin Readable \/ LET d == Dom[dump[i].str] IN ~(IsOpen(d) /\ i >= OpenedAt(d))

-----------------------------------------------------------------------------
Init ==
  /\ up = "up"
  /\ cache = [s \in Str |-> IF s \in Manual THEN NewNode("MANUAL") ELSE None]
  /\ domains = ManualDomain /\ bdb = Manual /\ unsynced = Manual
  /\ itor = [d \in Domain |-> 0] /\ walk = 0 /\ raced = FALSE /\ picked = {}
  /\ wire = {} /\ checked = {} /\ radar = {} /\ spool = {}
  /\ dump = <<>> /\ oldSize = -1 /\ todump = {}
  /\ now = 1 /\ inputs = 0 /\ dumps = 0 /\ crashes = 0
  /\ lastSel = [s \in Str |-> 0] /\ fails = [s \in Str |-> 0]
  /\ overtaken = [s \in Str |-> FALSE] /\ dropped = FALSE /\ blanked = {} /\ reset = {}

\* guide_work_thr: a link or a seed the radar has passed on.
GuideRecv(s, type) ==
  /\ Free /\ inputs < MaxInput
  /\ inputs' = inputs + 1
  /\ CacheUrl(s, Ranked(NewNode(type), "INSERT", FALSE), "INSERT")
  /\ UNCHANGED <<up, selectVars, wire, checked, radar, dumpVars, now, crashes, ghosts>>

\* What becomes of the type: neoproduce finds that a page is an index page, or none (its
\* ZONGHE mode), and a rank of 0 asks for the first rank of the new type.
Typed(n, html) ==
  {n} \cup {[n EXCEPT !.type = type, !.rank = 0] :
             type \in {t \in {"NORMAL", "INDEX"} : html /\ n.type \in {"NORMAL", "INDEX"} \ {t}}}

\* The records neoproduce may return; a page that could not be fetched has length 0.
Returned(n, html) ==
  UNION {{[m EXCEPT !.long = long] : m \in Typed(n, html)} : long \in IF html THEN Long ELSE {FALSE}}

\* cache_work_thr: the result of a fetch comes in.  neoproduce answers UPDATE whatever
\* happened.  NEO_cache_check counts the domain before the mutex is taken; then the result
\* goes to the radar as well (Radar.tla), which stores it, and takes its time.  The radar
\* takes an answer that has no updateTime for a new URL.
Reply(w, n, html) ==
  LET full == \/ Dom[w.str] = 0
              \/ Dom[w.str] \in domains /\ Cardinality(InDomain(Dom[w.str])) > MaxPerDomain
  IN
  /\ up = "up" /\ checked = {} /\ w \in wire /\ inputs < MaxInput
  /\ wire' = wire \ {w} /\ inputs' = inputs + 1
  /\ LET answer == {[str |-> w.str, node |-> n, html |-> html]}
     IN  /\ checked' = IF full \/ n.upd <= 0 THEN {} ELSE answer
         /\ radar' = IF ~full /\ n.upd <= 0 THEN radar \cup answer ELSE radar
  /\ UNCHANGED <<up, cacheVars, selectVars, raced, dumpVars, now, crashes, ghosts>>

\* cache_work_thr, the mutex taken.
CacheReply ==
  /\ Free
  /\ \E r \in checked :
       /\ CacheUrl(r.str, Ranked(r.node, "UPDATE", r.html), "UPDATE")
       /\ overtaken' = [overtaken EXCEPT ![r.str] = @ \/ r.node.upd < lastSel[r.str]]
       /\ fails' = [fails EXCEPT ![Trim[r.str]] = IF r.html THEN @ ELSE @ + 1]
  /\ checked' = {}
  /\ UNCHANGED <<up, selectVars, wire, radar, dumpVars, now, inputs, crashes, lastSel, dropped, blanked,
                 reset>>

\* guide_work_thr: an answer to a record of fetch_url_thr, passed on by the radar as a new URL,
\* as it need not be.  Its status is what neoproduce gave it: it overwrites a cached record, its
\* type and its time.
RadarBack(r) ==
  /\ Free /\ r \in radar
  /\ radar' = radar \ {r}
  /\ CacheUrl(r.str, Ranked(r.node, "UPDATE", r.html), "UPDATE")
  /\ blanked' = blanked \cup {r.str} /\ reset' = reset \cup {r.str}
  /\ UNCHANGED <<up, selectVars, wire, checked, dumpVars, now, inputs, crashes, lastSel, fails, overtaken,
                 dropped>>

\* A fetcher drops a URL, or the socket takes it down with it.
LoseWire(w) ==
  /\ w \in wire
  /\ wire' = wire \ {w}
  /\ UNCHANGED <<up, cacheVars, selectVars, raced, checked, radar, dumpVars, now, inputs, crashes, ghosts>>

-----------------------------------------------------------------------------
(* select_update_thr.                                                       *)

\* The walk of the domain tree goes up the keys; a rotation under it can send it anywhere.
NextInWalk(d) ==
  \/ walk < d /\ \A e \in domains : e <= walk \/ d <= e
  \/ raced

\* Slip: a page fetched before keeps its updateTime when it is dispatched again.
Dispatched_KeepTime(n) == IF n.upd = 0 THEN [n EXCEPT !.upd = now] ELSE n

\* The record as it is dispatched: the time is set before anything is sent.
Dispatched(n) == [n EXCEPT !.upd = now]

Clamped(n) == [n EXCEPT !.rank = Clamp(n.type, n.rank)]

IsDue(s) == LET n == Clamped(cache[s]) IN Due(n.type, n.rank, n.upd, now)

\* Slip: the iterator is left on the last URL when it reaches the end.
ItorAt_Stay(d, stop) == IF stop = {} THEN itor[d] ELSE CHOOSE s \in stop : TRUE

\* Where updateItor is after a visit that stopped at stop, {} at the end.
ItorAt(d, stop) == IF stop = {} THEN 0 ELSE CHOOSE s \in stop : TRUE

\* visit(UPDATE) of one domain: on from updateItor to the first URL that is due.
VisitDomain(d) ==
  LET ahead == {s \in InDomain(d) : s > itor[d]}
      due == {s \in ahead : IsDue(s)}
      stop == {s \in due : \A t \in due : s <= t}
      passed == {s \in ahead : \A t \in stop : s <= t}
  IN
  /\ Free /\ picked = {} /\ d \in domains /\ NextInWalk(d)
  /\ walk' = d /\ raced' = FALSE
  /\ itor' = [itor EXCEPT ![d] = ItorAt(d, stop)]
  /\ cache' = [s \in Str |-> IF s \in stop THEN Dispatched(Clamped(cache[s]))
                             ELSE IF s \in passed THEN Clamped(cache[s]) ELSE cache[s]]
  /\ picked' = {[str |-> s, node |-> cache'[s]] : s \in stop}
  /\ lastSel' = [s \in Str |-> IF s \in stop THEN now ELSE lastSel[s]]
  /\ overtaken' = [s \in Str |-> s \notin stop /\ overtaken[s]]
  /\ reset' = reset \ stop
  /\ UNCHANGED <<up, domains, bdb, unsynced, dump, spool, wire, checked, radar, dumpVars, now, inputs, crashes,
                 fails, dropped, blanked>>

\* The walk is over; the thread sleeps and starts it again.
EndPass ==
  /\ up = "up" /\ picked = {} /\ walk # 0
  /\ raced \/ \A d \in domains : d <= walk
  /\ walk' = 0 /\ raced' = FALSE
  /\ UNCHANGED <<up, cacheVars, itor, picked, wire, checked, radar, dumpVars, now, inputs, crashes, ghosts>>

\* The record copied out is sent, if bdb has its string: cache_mutex is not held.
SendPicked ==
  /\ up = "up" /\ picked # {} /\ Cardinality(wire) < MaxWire
  /\ picked' = {}
  /\ wire' = wire \cup {p \in picked : p.str \in bdb}
  /\ UNCHANGED <<up, cacheVars, itor, walk, raced, checked, radar, dumpVars, now, inputs, crashes, ghosts>>

\* fetch_url_thr takes the file of NORMAL URLs, sends blank records of what it reads in it, and
\* removes it.  Nothing else touches the file once it is renamed, so that this is one action,
\* of which the bytes that stand together decide what is read, and whether at all.  A center
\* that dies before the file is removed will read it again.
SpoolTake ==
  /\ up = "up" /\ spool # {}
  /\ \E read \in SUBSET UNION {Blocks[s] : s \in spool} :
       wire' = wire \cup {[str |-> s, node |-> NewNode("NORMAL")] : s \in read}
  /\ Cardinality(wire') <= MaxWire
  /\ spool' = {} \/ (spool' = spool /\ crashes < MaxCrash)
  /\ UNCHANGED <<up, cache, domains, bdb, unsynced, dump, selectVars, raced, checked, radar, dumpVars, now,
                 inputs, crashes, ghosts>>

-----------------------------------------------------------------------------
(* dump_thr, and the restart of the center.                                 *)

\* The order of the walk: by domain, then by string.
Before(s, t) == Dom[s] < Dom[t] \/ (Dom[s] = Dom[t] /\ s < t)

\* Slip: the old dump is replaced even where there is no dump file to replace it.
RenamedSize_Always == Len(dump)

\* rename(dumpfile, "dumpfile.111"), which fails when there is no dump file.
RenamedSize == IF dump = <<>> THEN oldSize ELSE Len(dump)

DumpStart ==
  /\ Free /\ dumps < MaxDump
  /\ dumps' = dumps + 1
  /\ oldSize' = RenamedSize
  /\ dump' = <<>>
  /\ todump' = Cached
  /\ UNCHANGED <<up, cache, domains, bdb, unsynced, spool, selectVars, raced, wire, checked, radar, now, inputs,
                 crashes, ghosts>>

\* Slip: the last record is left in the buffer of a file that is never closed.
Saved_LeakLast(s) == IF todump = {s} THEN <<>> ELSE <<[str |-> s, node |-> cache[s]]>>

\* What visit(SAVE) writes for one URL.
Saved(s) == <<[str |-> s, node |-> cache[s]]>>

DumpRecord ==
  /\ up = "up"
  /\ \E s \in todump :
       /\ \A t \in todump : t = s \/ Before(s, t)
       /\ dump' = dump \o Saved(s)
       /\ todump' = todump \ {s}
  /\ UNCHANGED <<up, cache, domains, bdb, unsynced, spool, selectVars, raced, wire, checked, radar, oldSize, dumps,
                 now, inputs, crashes, ghosts>>

\* bdb's own thread, or one of its inserts, syncs, which only a crash can tell.
BdbSync ==
  /\ up = "up" /\ unsynced # {} /\ crashes < MaxCrash
  /\ unsynced' = {}
  /\ UNCHANGED <<up, cache, domains, bdb, dump, spool, selectVars, raced, wire, checked, radar, dumpVars, now,
                 inputs, crashes, ghosts>>

Crash ==
  /\ up = "up" /\ crashes < MaxCrash
  /\ crashes' = crashes + 1
  /\ up' = "down"
  /\ \E lost \in SUBSET unsynced : bdb' = bdb \ lost
  /\ unsynced' = {}
  /\ cache' = [s \in Str |-> None] /\ domains' = {}
  /\ itor' = [d \in Domain |-> 0] /\ walk' = 0 /\ raced' = FALSE /\ picked' = {}
  /\ checked' = {} /\ todump' = {}
  /\ lastSel' = [s \in Str |-> 0] /\ overtaken' = [s \in Str |-> FALSE] /\ reset' = {}
  /\ UNCHANGED <<wire, radar, spool, dump, oldSize, dumps, now, inputs, fails, dropped, blanked>>

\* main: load_file gives up when the last dump is smaller than the one before.
Start ==
  /\ up = "down"
  /\ \/ /\ Size(dump) < oldSize
        /\ up' = "refused"
        /\ UNCHANGED <<cache, domains, bdb, unsynced, dropped>>
     \/ /\ Size(dump) >= oldSize
        /\ up' = "up"
        /\ cache' = [s \in Str |-> LoadedNode(s)]
        /\ domains' = LoadedDomains
        /\ bdb' = LoadedBdb /\ unsynced' = LoadedBdb \ bdb
        /\ dropped' = (dropped \/ Skips)
  /\ UNCHANGED <<dump, spool, selectVars, raced, wire, checked, radar, dumpVars, now, inputs, crashes, lastSel,
                 fails, overtaken, blanked, reset>>

Tick ==
  /\ now + TimeStep <= MaxTime
  /\ now' = now + TimeStep
  /\ UNCHANGED <<up, cacheVars, selectVars, raced, wire, checked, radar, dumpVars, inputs, crashes, ghosts>>

Select == (\E d \in Domain : VisitDomain(d)) \/ EndPass \/ SendPicked

Fetch ==
  \E w \in wire :
    LoseWire(w) \/ \E html \in BOOLEAN : \E n \in Returned(w.node, html) : Reply(w, n, html)

Next ==
  \/ \E s \in Str : \E type \in LinkType[s] : GuideRecv(s, type)
  \/ Fetch \/ CacheReply
  \/ \E r \in radar : RadarBack(r)
  \/ Select
  \/ SpoolTake
  \/ DumpStart \/ DumpRecord
  \/ BdbSync \/ Crash \/ Start
  \/ Tick

Spec == Init /\ [][Next]_vars

\* The select thread and the dump thread run, and the fetchers take what they are sent,
\* whether or not they answer; nothing else is promised.
FairSpec == Spec /\ WF_vars(Select) /\ WF_vars(DumpRecord) /\ WF_vars(Fetch)

-----------------------------------------------------------------------------
Answer == [str : Str, node : Node, html : BOOLEAN]

\* Types.
TypeOK ==
  /\ up \in {"up", "down", "refused"}
  /\ cache \in [Str -> Node \cup {None}]
  /\ domains \subseteq Domain
  /\ itor \in [Domain -> Str \cup {0}]
  /\ walk \in Domain \cup {0} /\ raced \in BOOLEAN
  /\ picked \subseteq [str : Str, node : Node]
  /\ wire \subseteq [str : Str, node : Node]
  /\ checked \subseteq Answer /\ radar \subseteq Answer
  /\ spool \subseteq Str /\ bdb \subseteq Str /\ unsynced \subseteq bdb
  /\ dump \in Seq([str : Str, node : Node])
  /\ oldSize \in Nat \cup {-1} /\ oldSize # 0
  /\ todump \subseteq Str
  /\ now \in Nat /\ inputs \in Nat /\ dumps \in Nat /\ crashes \in Nat
  /\ lastSel \in [Str -> Nat] /\ fails \in [Str -> Nat]
  /\ overtaken \in [Str -> BOOLEAN] /\ dropped \in BOOLEAN
  /\ blanked \subseteq Str /\ reset \subseteq Str

\* A URL is dispatched by a step.
Selects(s) == picked = {} /\ \E p \in picked' : p.str = s

\* A NORMAL page is dispatched from the cache once in the life of a center, however
\* often the radar names it and whatever becomes of its fetches, unless an answer without a
\* time came back from the radar since and took the time of its record away.
OnceStep ==
  \A s \in Cached : cache[s].type = "NORMAL" /\ Selects(s) => lastSel[s] = 0 \/ s \in reset
NormalOnce == [][OnceStep]_vars

\* "10 mins - 30 mins" (visit): a MANUAL page is not dispatched again within 10 units.
ManualPacing ==
  [][\A s \in Cached :
       cache[s].type = "MANUAL" /\ Selects(s) /\ lastSel[s] # 0
         => now - lastSel[s] > 10 * ManualUnit]_vars

\* The same, unless a result older than the last dispatch was cached since: it brings the
\* time of its own dispatch with it.
PacedStep ==
  \A s \in Cached :
    cache[s].type = "MANUAL" /\ Selects(s) /\ lastSel[s] # 0 /\ ~overtaken[s]
      => now - lastSel[s] > 10 * ManualUnit
ManualPacingInOrder == [][PacedStep]_vars

\* The first rank of an INDEX page, halved n times.
Halved[n \in Nat] == IF n = 0 THEN FirstRank("INDEX") ELSE Halved[n - 1] \div 2

\* An INDEX page is given up (rank below MIN_RANK: never due again) only after as many
\* failed fetches as it takes to halve its first rank that far, in whatever order results
\* come back and whichever of them the restarts forget.  The failures under a string and
\* under its trimmed form count together: where either is the first URL of its domain, its
\* record becomes that of the trimmed one.
GivenUpOnlyAfterFailures ==
  \A s \in Cached :
    cache[s].type = "INDEX" /\ cache[s].rank < MIN_RANK => Halved[fails[Trim[s]]] < MIN_RANK

\* Whatever is cached can be found again after a crash, while no dump is being written: it
\* is in the manual file, or the dump file has a record under its string or, for the first
\* URL of a domain, under the string before it was trimmed.
DumpCovers ==
  Free => \A s \in Cached : s \in Manual \/ \E i \in DOMAIN dump : s \in {dump[i].str, Trim[dump[i].str]}

\* load_file never refuses a dump that was finished, unless records were skipped before:
\* what has been appended since a dump and the next dump agree in number.
FinishedDumpAccepted == Free /\ ~dropped => Size(dump) >= oldSize

\* A restart caches again every string the dump file and bdb both have, but where the page
\* is longer than load_file takes.
LoadStep ==
  up = "down" /\ up' = "up" =>
    \A i \in Readable : dump[i].str \in bdb => cache'[dump[i].str] # None
RestartLoads == [][LoadStep]_vars

\* The pages of the manual file stay cached, and MANUAL, against the radar that names them, the
\* dump file and the results that overwrite their record: only an answer that came back from
\* the radar, to a blank record of the same string, can make another page of one.
ManualStays ==
  up = "up" => \A s \in Manual : s \in Cached /\ (cache[s].type = "MANUAL" \/ s \in blanked)

\* A new URL is dispatched sooner or later: the walk visits every domain again and again,
\* and the iterator of a domain comes round to what was inserted behind it.
NewIsSelected ==
  \A s \in Str : (s \in Cached /\ cache[s].upd = 0) ~> (s \in Cached /\ cache[s].upd # 0)
=============================================================================
