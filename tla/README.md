# xiaomifeng in TLA+

xiaomifeng ("neocrawler") is a web crawler written in C: several processes, joined by
framed TCP connections, that select URLs, fetch their pages, take the links out of them
and remember which URLs have been met.  This directory holds TLA+ models of its core, the
TLC configurations that check them on small instances, and theorems checked by TLAPS.

Paths below are relative to `src/`.  Where a number stands after a file, it is a line.

## 1. The system

```
            base+46: new URLs                        base: URLs to fetch
  neoradar ------------------> neocenter ------------------------------> neofetch
     ^                             ^                                        |
     | base+47: results and seeds  | base+1: results, links                 | base+2: pages
     +----------- neocenter <------+------------- neoproduce <--------------+
     +----------- neoseed
```

* **neocenter** (`neocrawler/center/centerMain.c`, `centerCache.c`, `centerSelector.c`)
  keeps a record (`URLNODE_T`: type, rank, success counter, last update) of every page it
  looks after, in one red-black dictionary per domain.  `select_update_thr` walks the domains,
  takes from each the next page that is due and sends it to the fetchers.  `cache_work_thr`
  gets the results: it checks the domain's size without a lock, sends the result on to the radar and
  overwrites the record.  `guide_work_thr` gets new URLs from the radar and caches them.
  `fetch_url_thr` sends blank records of what it reads in the file to which `NEO_cache_url` appends NORMAL URLs.  `dump_thr` renames the dump file and writes a
  new one; between dumps each new record is appended.  `load_file` rebuilds the cache from the
  manual file and the dump file at start.  All but the dictionaries' count and the sockets is
  under one `cache_mutex`.
* **neoradar** (`neocrawler/center/neoradar.c`) is the gate for new URLs: a hash set of URL
  signatures in memory, emptied when it is full; a record store on disk; and a list of the URLs let in.
  A receive thread serves each connection that brings records, a send thread each center.
* **centerbdb** (`neocrawler/center/centerbdb.c`) is the record store of both: records spread over
  Berkeley DB files by key, a mutex and an insert counter per file, a thread that
  syncs periodically and closes everything when a stop file appears.  Two compilations: the
  center keeps the first record of a key, the radar (`-DRADAR`) the last.
* **hashtable** (`neocrawler/clib/hashtable.c`) is the hash set: chains and a free list threaded through
  nodes that are allocated in blocks.
* **neofetch, neoproduce** (`neocrawler/httpget`) have eight threads each: the
  first fetches what it is sent and passes the page on, the second saves the page, answers
  the center and is to send the links it found.  `http_fetcher.c` is the HTTP client, `ip_cache.c` a cache of resolved hosts.
* **Hootcp** (`neocrawler/clib/Hootcp.c`): a message is a key, a length and a body on a stream.
  `node_send` and `node_recv` of each program use it under a mutex, over one socket that they close and replace,
  by `accept` or `connect`, whenever a call fails.
* **rbdict, list.h, link regexes, libdict, libhtml**: the libraries below these.
* **neoseed, neodistribute, neomysql, the debug tool**: senders and printers at the edge.

### Components, their state, and what makes them correct

| component | state | operations | what must hold | where |
|---|---|---|---|---|
| neoradar | list, hash set, store, thread buffers | receive, test room, dictionary, search, append; take, send, store; crash | the list is bounded; one URL leaves once per generation of the set; none vanishes unaccounted; every admission leaves | `Radar`, `UrlLedger` |
| centerbdb | files, counters, mutexes, buffers of the handles | insert (2 critical sections), search (1, and a copy), sync, stop, crash | unsynced records bounded; stop loses nothing and completes; synced records survive | `BdbStore` |
| neocenter | domain dictionaries, iterators, record on the way, spool, dump files | select, send, result, new URL, spool, dump, restart, crash | pacing; a NORMAL page once; a new page gets its turn; dump and restart keep what was cached | `CenterRank`, `Center` |
| hashtable | chains, free list, blocks | insert, update, delete, seek | no node in two lists; a fresh node is unused; the table is a map | `HashTable`, `DictMap` |
| Hootcp, node_send, node_recv | connections, sockets, mutexes, pieces sent and received | send, receive, close, accept, connect; broken connections, deaths | whole messages, in order, at most once; a record keeps its HTML; `node_send` returns | `LossyChannel`, `HtcpLink` |
| neofetch, neoproduce | thread buffers, link set, saved pages | fetch, pass on, save, answer, look up links; deaths | what is skipped was saved; every dispatch is answered | `Pipeline` |
| ip_cache | host dictionary, turn and time of each node | look up, ask the name server, replace | an answer is of the host asked for, and at most a day old | `IpCache` |
| http_fetcher | per call: descriptor, buffers, redirects followed; the descriptors of the process | request, connect, header, redirect, body, page | what is opened or allocated is given back once; reads have room; fetches end | `HttpFetch` |
| rbdict, libdict | nodes, links, balances, an iterator | insert, probe, search, remove, walk, iterate, resize | an ordered map; other keys and the iterator survive a change; balance | `Dict`, `Dicts` and the trees |
| libhtml, web_parser | block heaps, parse tree, results | parse, visit, clean; for page after page | nothing of a page lost, moved or left over | `HtmlTree`, `HtmlParser` |

### Behaviours that are hard

Tests made before a lock is taken and used after it (list length in the radar, domain count in the
center, memory lent by a DB handle, a search result in `ip_cache`); a walk of a tree without the
lock that guards it; results that arrive after the page was dispatched again; failed sends that
drop what had been taken from a list; dictionaries thrown away when full; records that are saved under one key and
cached under another; crashes between the two files of a dump, or before a sync; free lists reused in
long sequences of calls; trees whose repair only some sequences of calls reach; a function with many ways out that holds a descriptor and
buffers; a parser that reads ahead and is used again for the next page.  `PROJECT.json` lists each at its line under "hazards", with the
properties that would catch it, or the reason why there is none yet.

## 2. The modules

One action models what the code does under one mutex, or one call outside any; the
comment above an operator names the function.  An operator named `<op>_<slip>` is *not* part of the
model: it is `<op>` with one plausible mistake, and no specification uses it.  It documents
what a property protects against: with `<op>` replaced by it, the property fails.

### Radar.tla, UrlLedger.tla

`rpc`/`rmsg` are the program counter and buffer of each `work_recv_thr`, `spc`/`smsg` those of each
`work_send_thr`; `radarList`, `link_dict` and `bdb` are the variables of the same name (the store with
`disk`, what a crash cannot take back).  A record that is received goes through `CheckRoom` (length,
no lock), `LinkDict` (under `list_mutex`), `SearchBdb` (store), `ListAdd` (under `list_mutex`); one taken
from the list through `ListGet`, `RadarSend` or `RadarSendFail`, `StoreSent`.  `Crash` is the death and restart of the process.
`epoch` counts the generations of the dictionary, a ghost: a URL may be let in once in each.

`UrlLedger` is what a caller of the radar may rely on: `Admit`, `Deliver`, `Forget`,
`Restart`, over the set of admissions.  `Radar` implements it under `known <- link_dict, pending <- Waiting`,
where `Waiting` gathers the entries of all buffers and the list.

### BdbStore.tla

`Put` and `Count` are the two critical sections of `neo_bdb_insert`; `SearchGet` and `SearchCopy` the
locked call and the unlocked copy of `neo_bdb_search`; `CmdWake`, `CmdSync`, `CmdLock`, `CmdClose` are
`cmd_thr`.  `radar` selects the compilation, and `Searches` says who looks at the copy:
in the center a single thread, which is why its unlocked copy is safe (`SearchOwn`; the radar's threads use
the return code alone).  Berkeley DB is external: a function from keys to records of which a crash keeps the
present or the last synced value.

### CenterRank.tla, Center.tla

`CenterRank` is the arithmetic of the record: `NextOther`, `NextRank` (the head of `NEO_cache_url`, bytes
that wrap), `Clamp` and `Due` (the UPDATE visitor).  `Center` has the threads.  `VisitDomain` is one visit of the walk under the mutex: the
iterator goes on from where it stood to the first page due, whose time is set before it is sent.
`SendPicked` sends it, without the mutex, if the store has its string.  `Reply` and `CacheReply` are the two halves of
`cache_work_thr`: `NEO_cache_check` without the mutex, then the write.  `GuideRecv` and `RadarBack` are `guide_work_thr`: a new URL, of a link's type (NORMAL, INDEX) or a seed's (MANUAL, NORMAL); and an answer
that `Reply` sent to the radar and that has no time, which the radar may take for a new URL.  `SpoolTake` is `fetch_url_thr`, whose blank records get such answers.  The writer of its file ends a URL with `/n`, two
characters, so that the reader gets pieces of one line: `Blocks` says which strings it may read for one that was appended, with a slash behind it or, where it has the greatest length, as it is.  `CacheUrl` has the four ways through `NEO_cache_url`
and `__cache_url`.  `DumpStart`, `DumpRecord` are `dump_thr`; it holds the mutex throughout, but a crash can cut it.  `Start` is `load_file`, stated
declaratively: which records open a domain (`Openers`), which records write to an entry (`Writes`), what results (`LoadedNode`).

The walk of the domain tree takes no mutex.  `raced` says that a domain was inserted under it;
the tree may then be rotated at the walk's node, and the next visit may be of any domain, or the walk may end.

A result comes back as `Returned` says: `html_produce` turns a NORMAL page that looks like an index page into an INDEX page
with rank 0, and an INDEX page that does not into a NORMAL one (`Typed`); and it may come out longer than `load_file` takes (`long`), when its record is not loaded again (`Readable`).

### LossyChannel.tla, HtcpLink.tla

`HtcpLink` is one of the three links between center, neofetch and neoproduce (`link` says which: how many htcp messages make one,
and which end listens).  A message travels as pieces, a head (key and length) and a body for each htcp message.
`conns` are the connections with what is on its way in each, in the order they were made, `sock` the one each end
uses.  `SendBegin` takes `send_mutex`; `SendPiece`, `SendError`, `SendReopen` are the loop of `node_send`; `RecvBegin`, `RecvPiece`,
`RecvError`, `RecvReopen` that of `node_recv`.  `Break` ends a connection and cuts what it carried anywhere, in the middle of a piece, too; the sender may go on writing
into a dead connection for a while.  `SenderDeath` and `ReceiverDeath` end a process, which starts again without sockets.  The links to and from
the radar are not covered: the radar has a thread per connection.

`LossyChannel` is what the ends may rely on: a queue of messages that may lose some.  `HtcpLink` implements it
under `queue <- Queue` (messages of which the last piece is on its way, those of an attempt under way first), `sent <- Sent`, `got <- Received`,
where a message with parts of two others would count as none.

### Pipeline.tla

A page from its dispatch to its answer.  The links are sets of records here, which may lose one and let any overtake another: more than
`LossyChannel` allows, as there are several threads on each side.  `FetchPage` and `FetchSend` are `http_get`; `ProduceRecv` (with the early exits,
`FirstStep`), `Work` (link extraction, `Classified`, `Edited`, `save_html`), `SaveFails`, `ProduceSend` and `LinkSearch` are `html_produce`; `Dispatch` and `Answer` are what the center does with
the length and type in a record.  `answered` and `lost` are ghosts.  `Edited` are the lengths a NEWS page may get: `get_ganji_phone` appends a file, as much of it as there is `Room`, a difference without a sign that
wraps for a page that was cut to its buffer (`CutLen`); and another site's pages end at a word.  Writing past the buffer is undefined: the process ends (`SaveFails`, `ProduceDeath`), or nothing is seen of it but the length.

### HashTable.tla, DictMap.tla

`HashTable` is `clib/hashtable.c` with its pointers: `slot` heads, `next` links, the free list, and
the place (block, index) that a fresh node takes from `nodeNum`.  `DictMap` is a map with its five calls and their answers; `HashTable` implements it.

### Dict.tla, Dicts.tla, TreeLinks.tla and one module per dictionary

`TreeLinks` is a binary tree in memory: nodes named by their keys, `left`, `right`, `parent`, an extra
field `aux` (balance, colour, weight), the count and one iterator; and what the trees' files have in common (descents, rotations, neighbours, steps of an
iterator).  A result carries the tree after the call, the return code and the data handed out; a pointer followed to where there is nothing is `Crashed`.
`HbTree` (height balanced), `RbTree`, `WbTree` (weight balanced), `PrTree` (internal path reduction), `SpTree` (splay), `HtTable` (chains that transpose) and
`RbDict` (`clib/rbdict.c`, the tree of the center and of the address cache) have one operator per function of their file.  `Dict` is `dict.c`: calls
through the table of functions each kind fills in.  `Dicts` chooses a kind and takes any sequence of calls.  Here a state is a whole
dictionary and a step a whole call: these libraries have no locks of their own, and their users call them under a mutex (or not at all; for the walk without it see `Center`).

Because a call changes a dictionary by itself, `KeepsPromise` is an invariant: in *every* reachable state *every* call does what its caller is promised, which
`Kept` states call by call over what a caller can see (`See`: map, order, iterator), in one way for all kinds.  Where a kind does not keep it, `Instead` says which call of which kind, and what it does in place of
that; `MayCrash` lists the calls that follow a pointer to nowhere.  Three of these contradict what the repository says: see section 3.

### IpCache.tla, HttpFetch.tla

`IpCache` is `ip_cache.c`: `GetIp` asks without the mutex if there is a dictionary, `SearchIp` is `ip_search`, `Insert` and `Resolve` the two
halves of `ip_insert` around the name server, `Read` the read of the node after the mutex was given back, which finds `Freed` when
another thread has replaced it.  `HttpFetch` composes it with `http_fetch` and its caller: one action for each stretch between calls that may fail or wait (request,
connect, write, header, redirect or body, rounds of the body, page), with a way out wherever the code has a `return`.  `mem` counts how often each buffer of a call is allocated, `open` the process's
descriptors, of which a new one gets the least number, as the kernel gives it: a second `close` would hit another thread's.  A header is what the code reads out of it
(`Header`); since `_http_read_header` does not notice the end of the connection, what an older header left on the stack may complete it (`HeaderRead`).

### HtmlTree.tla, HtmlParser.tla

`HtmlTree` has the data: the heaps of `block_manager.cpp`, nodes named by their `tag_code`, the table of which tag may be
below which, the visit of the tree, `process_head_info`.  A visit keeps the calls of `html_node_visit` that are open (`calls`) and which visitor the innermost calls next;
`html_tree_visit` is a recursive function with one step for each call of a visitor, of which there are two a node at the most.  `HtmlParser` has the steps: `html_tree_parse_sub_tree` is recursive, so `open` is the stack of its calls and `AtEndOfPage`, `EndTag`,
`StartTag` are a round of its loop; `Parse` begins a page, `Extract` runs the three visitors, `Produce` is the caller in `web_parse.cpp` that copies the results and resets the parser.
The page is chosen token by token as the scanner asks for it, and every token may find no memory.
`page.read` is a history variable: what the tokens so far say of nodes and elements, read without the parser's calls, for `Nesting` to compare the tree with.  `InPageOrder` says of the
links between nodes what `Met` being 0, 1, 2 ... (a conjunct of `OwnResults`) says of the visit.

## 3. What is checked

| run | instance | shows |
|---|---|---|
| `radar` | 2 receive and 2 send threads, 3 URLs (one over-long), `MAX_LIST_NUM` 0, dictionary of 1, 3 records, 1 crash | `ListBounded`, `AtMostOnce`, `Accounted`, `SettledStays`; `Radar` implements `UrlLedger`; `AllLeave`: every admission is delivered, lost with its connection, or dropped because stored |
| `bdb` | 2 files, 2 writers, 2 readers, sync at every second insert, a stop, a crash, both compilations | `UnsyncedBounded`, `StopKeepsAll`, `SearchOwn`, `SyncedForever`, `StopCompletes` |
| `center_select` | a MANUAL page, one that comes as NORMAL link or MANUAL seed, a NORMAL page, in two domains, two rounds of the clock, one record on the way, three received, answers to the spool's records back through the radar | `NormalOnce`, `ManualPacingInOrder`, `ManualStays`; `NewIsSelected`: a new URL is dispatched in the end |
| `center_restart` | two domains, one with a MANUAL page and one with an untrimmed first URL, fetched pages too long to load, two rounds of the clock, three records received, two dumps, a crash anywhere | `DumpCovers`, `FinishedDumpAccepted`, `RestartLoads`, `GivenUpOnlyAfterFailures` |
| `center_pacing` | as `center_select` without seeds, two records on the way | **violated**: see findings |
| `htcp` | each of the three links, 2 sender and 2 receiver threads, 3 messages, 2 faults | `WholeInOrder`: what is received are whole messages, in the order of the sends; `SendReturns`; `HtcpLink` implements `LossyChannel` |
| `pipeline` | one page of any type, NEWS and ZONGHE mode, 3 dispatches, a short and an over-long page, completion within and past the buffer, 1 loss or death | `SkippedWasSaved`, `Answered` |
| `pipeline_dict` | one dispatch in each mode | **violated** (`DictGiven`): see findings |
| `hashtable` | four signatures in two slots, blocks of two, three nodes, symmetry of the signatures of a slot and of the data | `ListsSound`, `FreshIsUnused`; `HashTable` implements `DictMap` |
| `dicts` | seven dictionaries, 3 to 6 keys each, one iterator, all calls | `KeepsPromise`, `LinksSound`, `Balanced` |
| `http` | 2 threads, a host with two addresses or none and one with one, 12 kinds of header, 1 redirect followed, a clock that makes addresses expire | `AddressFresh`, `NothingLeaks`, `BodyFits`, `FetchEnds` |
| `html` | pages of up to 5 tokens (behind a head with a charset, or from the start), 17 kinds of token, depth 3, blocks of 2 nodes, 2 links | `Nesting`, `OwnResults` |

### Bounds, and why they are enough

* **Radar.** With `MaxListNum = 0` one entry fills the list, so both threads can pass the test on it; with
  `DictCap = 1` the second URL throws the dictionary away, and the first can come again; two threads per side are enough
  for every race of two, and the properties compare two places at a time.  `MaxInput = 3` lets a URL come
  twice with another in between.  The theorems of section 4 need none of these bounds.
* **BdbStore.** Both keys are in the last file, so that one file is contended and the other only
  locked and synced; three inserts pass a sync and start the next window.
* **Center.** `MAX_RANK = 32`, `MIN_RANK = 4` replace 256 and 6; the clamps (10 and 30 below the maximum) stay as in the code,
  so that `TimeStep = 31` exceeds every MANUAL interval.  A crash is bounded to one and dumps to two: `load_file` compares two dumps, and a crash
  in the second of them is the interesting one.  `MaxInput` bounds results and URLs together.
  In `center_select` the spool yields the manual page for a NORMAL one of its domain, and the NORMAL page of the other domain itself, so that an answer without a time meets a record of either type: without the
  exceptions in `ManualStays` and `NormalOnce` both are violated there.  In `center_restart` `MIN_RANK = 8` makes the first rank, 16, pass it with the second failure, so that a link and
  two failed fetches, one in each round of the clock, take a page there, with dumps and the crash between or after them: states with a rank below `MIN_RANK` occur in it before and after the restart.  Its one link is 3, which is cached as 2, what it
  trims to, when it opens the domain, and as 3 when it comes again; a page that is fetched is too long to load and one that failed is not; `ManualUnit = 4` gives the MANUAL page a single turn, as its pacing is `center_select`'s question.
* **HtcpLink.** Three messages of two parts exceed a connection's three pieces, so that senders block; two faults break a connection and the one that replaces it, or
  kill one end and then the other.  Two threads per side are enough to have one take over a socket another closed.
* **Pipeline.** Two dispatches overtake each other and the third is compared with what they left; they differ in nothing but their order, so that one thread
  per program is enough (records overtake each other in the links, and the threads share nothing but the saved pages).  Lengths 1 and 5 against a buffer of 4: one fits, one is cut
  to 3; a log of 2 behind a page, with 2 to be left free (8 in the code), leaves the first with 2 and makes the second 5, longer than the buffer and the very length the site has: the page is then found unchanged and
  cut again.  Numbers without a sign wrap at 16, which is room for the whole log behind the cut page; a page of 4 or more may not compress.  BBS does a part of what NEWS may do.
* **Dicts.** Six keys for the height balanced tree and `rbdict` reach every rotation, single and double, on insertion and on
  removal, and every case of `delete_fixup` on both sides; `rb_tree.c` repairs a tree as `rbdict.c` does and has four, the others have no deeper cases than five keys reach.
  One key has two data, to tell an insertion that overwrites from one that keeps.  `MaxDrift = 0` stops insertions once a count is
  above the number of keys (in hb an overwriting insertion, in ht emptying, makes it so), else they would go on for ever.
* **HttpFetch.** Two threads of one fetch each meet in the address cache and in the descriptors; `Day = 0` and `MaxTime = 1` make an address expire between two calls.  One
  redirect followed and one refused is every case of the limit.  Bodies of up to two bytes against lengths of 0, 1 and the default 2 (none given) take up to two rounds.
* **HtmlParser.** Five tokens behind a head nest three deep, one deeper than `MAX_HTML_STACK_DEPTH` allows, and have an end tag left for one above; three links exceed `max_links_num`; blocks of two nodes
  run out at every other token.  The parser goes on with a next page from every state a page can leave it in.
* **HashTable.** Three nodes with blocks of two open a second block and reuse free nodes; four signatures in two slots make chains
  of two and three.

### Fairness

* `Radar`: a started thread is scheduled (`WF` of its steps), and the center reconnects whenever it has no
  connection, which is `guide_work_thr`'s outer loop (`WF` of `AcceptSend`).  Nothing is assumed of peers that send
  records, and sends may fail for ever.
* `BdbStore`: `cmd_thr` is scheduled and gets a mutex that is free.  No writer need ever go on.
* `Center`: `select_update_thr` and `dump_thr` run, and the fetchers take what they are sent, with an answer or
  without.  No answer, no new URL and no tick of the clock is assumed.

* `HtcpLink`: the threads run, and the receivers come back for more (`RecvBegin`): both programs are loops around `node_recv`.  A broken connection is noticed when it is used or by keepalive, which every socket
  has on.  A process that died is started again.  Nobody need send.
* `HttpFetch`: the threads run; the name server answers, a connection that is asked for is made or refused, and a server sends a bounded page or falls silent, which `select` notices.
  (`connect` and `write` have no timeout of their own in the code; that the kernel's ends them is assumed.)
* `Pipeline`: the threads run; `http_fetch` returns, as `FetchEnds` says.  Nothing need be dispatched.

### Findings

`link_search` asserts that it is given a table (`httpget/neoproduce.c` 183).  `html_produce` gives it `link_dict`, which is NULL from its definition (51) on: the `hashtable_init` calls of the
repository for a `link_dict` are in `neodistribute.c` and `neoradar.c`, each for a variable of its own.  The first link that passes the filters ends the process (`DictGiven` is violated), with the page answered, no
link sent, and the records the other seven threads hold lost.  `Center` and `Radar` keep the links that would come, from `neoseed` or a repaired neoproduce.

`visit` in `centerSelector.c` says of a MANUAL page "10 mins - 30 mins" (79).  `__cache_url` overwrites the whole
record, update time included, with the one the result brings (`centerCache.c` 139), which is from the time of *its*
dispatch.  When a result comes back after the page was dispatched again, the page is due at once: `ManualPacing` is
violated.  `ManualPacingInOrder` states what remains true: the interval holds unless such a result was cached since.

Of the dictionaries, what the repository says otherwise is not stated as a property but excepted by name in `KeepsPromise` and left out of `Balanced`:

* `rbdict.h` promises a positive value for an insertion that overwrites (28-31); `rb_dict_insert` returns 0 (`rbdict.c` 135), as for a new key (`Instead`).
* `rbdict.h` promises -1 for a removal of what is not there (58-59); `rb_dict_remove` tests for `node == NULL` (`rbdict.c` 260), but its search ends at the nil node, whose right child, NULL, is then followed (`MayCrash`).
* `wb_tree.c` says "every node in the tree has a balance p(n) such that alpha <= p(n) <= 1 - alpha" (22).  Insertion tests the balance of the node where the child's is meant (259), so that its double rotation to the left never happens,
  and the keys 1, 3, 2 leave a root with nothing on its right; a removal changes weights and rotates nothing on its way back.  What holds of this tree is that each node knows the weight of its subtrees (`Balanced`).

### Behaviour the models describe and no property condemns

* `cache_work_thr` sends an answer to the radar before it tests for a time (`centerMain.c` 177, 179).  The answer to a blank record of `fetch_url_thr` has none, so that the radar takes it for a new link and may
  hand it back; its status is UPDATE, and `__cache_url` overwrites a record with it that is cached meanwhile.  A MANUAL page becomes a NORMAL one by it, and the time of a NORMAL page goes, which is then
  dispatched once more.  `ManualStays` and `NormalOnce` except the strings this happened to (`blanked`, `reset`), and no others.
* `get_ganji_phone` computes the room behind a page without a sign (`neoproduce.c` 374), and reads its log past the end of a buffer that is full.  When the process survives this, the length in the record is at or above `MAX_HTML_LEN`,
  the center keeps it, and a page that has it at the site is skipped as unchanged, cut; it was saved, with the length before the cut (`SkippedWasSaved`).
* A NORMAL page whose dispatch is lost is never dispatched again in that life of the center
  (`NormalOnce` is an upper bound; the time is set before the send).
* The record of the first URL of a new domain is saved under the MD5 of the untrimmed string and cached under that
  of the trimmed one.  If the two differ, `NEO_cache_load` does not find it in the store, and after a restart the
  records of that domain before the next known one are skipped; the next dump is then smaller than the last,
  and a later start refuses it.  `FinishedDumpAccepted` therefore excludes
  histories in which records were skipped (`dropped`), and `DumpCovers` accepts either string.
* Records of MANUAL pages loaded from the manual file are not appended to the dump file, but written by a dump.  A dump cut
  short after them can be as long as the previous one plus its appendages, and pass the size check.
* `save_html` writes to a stdio buffer before the page is answered.  When the process ends without closing the file, the page is gone, but the center has its length, and it is
  skipped as unchanged as long as it stays that long.  `SkippedWasSaved` is about what `save_html` was given, not about the disk.
* A record whose page was longer than 512 KB is skipped by `load_file`, and the page forgotten (`RestartLoads` is about `Readable` records).
* Removing a key that is not in an `rbdict` or `rb_tree`, stepping with `nextn`/`prevn` past its end, and every use of it after `empty` (which leaves the root NULL where a new tree has the nil node)
  follow a NULL pointer.  `dict_itor_set_data` and `dict_itor_remove` pass the wrong pointer; `max` of hb, wb and pr goes wrong where
  the last step is to be found; `sp_itor_remove` at the last key crashes.  `MayCrash` lists these calls, and `KeepsPromise` says that no other crashes.  The crawler itself calls none of them in these states: libdict is used by its
  own `test.c` alone, and the center never removes from its trees.
* Removal in trees that move the successor's contents loses an iterator on the successor (`AfterRemove`).  Of the calls that do not do what all others do (`Instead`): an overwriting insertion into ht frees the old data and stores nothing;
  `probe` of wb, pr and ht stores the address of the caller's variable; removing an absent key returns 0 in wb and pr, and -1 in the rest of libdict; the count of hb is too high after an overwriting insertion, that of
  ht after `empty`; `min` of the red-black trees and `max` of all but sp may find another node, or none.
* `ip_insert` may read freed memory (`Freed`); that a host has no address is cached for a day, like an address.
* A header cut short by the end of the connection is completed by what an earlier one left in the buffer; a page whose decoding fails is handed out encoded.
* `html_parser::parse` refuses a page that is too long before it clears the results of the last one, and its callers do not look: they get no links, but the title and content of the page before.
* The text that becomes a link's anchor text is the last one before the next link while any anchor is open, not what is below its own tag as the comment in `tree_visitor_for_link.cpp` (114) has it; when the links are full
  the visit ends, so the last link gets no text.  An end tag of a node that was too deep may close an open node of the same name above.
* `neoproduce` turns every status into UPDATE, so the center's DELETE and UNCHANGE branches never run; `Reply` has UPDATE only.

## 4. What is proved

Every theorem holds for all values of the constants that satisfy the named assumption of the
module: any number of threads, URLs, files, domains, and none of the bounds of section 3.

`RadarProofs.tla`, from `RadarAssumption` (URLs exist, the set of receive threads is finite, limits are
naturals):

| theorem | states |
|---|---|
| `TypeCorrect` | `Spec => []TypeOK` |
| `ListOvershoot` | `Spec => []ListBounded`: the list exceeds `MAX_LIST_NUM` by at most the number of receive threads |
| `InductiveOnce` | the inductive invariant `TypeOK /\ AtMostOnce /\ Generations` |
| `AdmittedOnce` | `Spec => []AtMostOnce` |
| `NothingVanishes` | `Spec => []Accounted` |
| `SettledForLife` | `Spec => SettledStays` |
| `ImplementsLedger` | `Spec => LedgerSpec` |

*Why the strengthening.*  `AtMostOnce` (no two places hold the same admission, and none holds one that has left) is
not inductive: when a thread lets a URL in, it has to know that no place holds the admission (URL, present generation)
already.  `Generations` supplies it: an entry is never from a later generation than the present one, and one from the present one has its URL in
the dictionary.  So a URL that the dictionary does not have is in no place with the present generation; and when the dictionary is full and
replaced by an empty one, the URL enters as of the old generation, which keeps the invariant.
`ListBounded` counts the threads that have passed the test with the list (`Committed`), and is inductive with the types;
`Accounted` and `SettledStays` use the same case split, one step per action.  `ImplementsLedger` maps each action to the ledger's step or a stutter; that `Deliver` takes
exactly one entry out of `Waiting` is `AtMostOnce`.

`BdbProofs.tla`, from `BdbAssumption` (finitely many writers, at least one file, every key in one of them, a
positive sync interval; keys, records and readers without limit):

| theorem | states | with |
|---|---|---|
| `TypeCorrect` | `Spec => []TypeOK` | |
| `StopIsClean` | `Spec => []StopKeepsAll` | `Taken`: `cmd_thr` has every mutex below its index, and all of them once it closed the files |
| `SyncedSurvives` | `Spec => SyncedForever` | `DiskInDb`: what is on disk is in the open file, in the center unchanged |
| `CopyIsOwn` | `Spec => []SearchOwn` | `OneSearcher`: one thread of the center searches, and its record is on file |
| `LossBounded` | `Spec => []UnsyncedBounded` | `FileBounded`, and `NextResidue`: the count modulo the interval goes up by one between syncs |

`CenterProofs.tla`, from `RankAssumption` and `CenterAssumption` (strings are positive numbers, trimming is idempotent and
keeps the domain, `MAX_RANK` is in 32..256):

| theorem | states | with |
|---|---|---|
| `TypeCorrect` | `Spec => []TypeOK` | `DumpsCached`: while a dump is written nothing enters or leaves the cache |
| `NormalSelectedOnce` | `Spec => NormalOnce` | `History`: a page that was dispatched, and not reset by an answer from the radar, is cached with a time, its own dispatch's or a later one unless it was overtaken |
| `ManualPaced` | `Spec => ManualPacingInOrder` | `History`, and the clamp: a MANUAL rank is at most `MAX_RANK - 10` when it is tested |
| `ManualForever` | `Spec => []ManualStays` | `ManualEverywhere`: the records that are picked, on the way to the fetchers and back are MANUAL too, unless an answer from the radar has overwritten one of their string; those without a time come back by the radar only |
| `DumpIsEnough` | `Spec => []DumpCovers` | `Coverage`: while a dump is written, a record is in the file or still to come |
| `LoadIsComplete` | `Spec => RestartLoads` | that a not empty set of positions has a first one (`FirstIsLeast`), from the library's well-foundedness of `<` |
| `GivenUpJustly` | `Spec => []GivenUpOnlyAfterFailures` | `RanksKept`: the rank of *every* INDEX record, in the cache, on a link or in the dump file, is at least the first one halved once for each failure of its page; a blank record's is 0, and comes back as a first rank |
| `FinishedDumps` | `Spec => []FinishedDumpAccepted` | `RecordsCached`, `InSomeDomain`, `Enough` |

*Why `History`.*  That a page is due says something of the time in its record only.  `History` ties the record to the last
dispatch: the visit sets both, `cache_work_thr` overwrites a record only with a result of the same page, whose time is positive
(it ignores others), and sets `overtaken` if it is older; an answer that comes back from the radar overwrites it with a record without a time, and puts the page into `reset` until its next dispatch; a new domain's first URL cannot hit
such a page, because its domain is known.  That nothing with a time goes by the radar, and nothing without one by `checked`, is part of `History`.

*Why `RanksKept` counts by page.*  A record that comes in under `s` can end up under `Trim[s]`: as the first URL of a new domain, and when `load_file` opens a domain
with it.  With failures counted per string the property is false (TLC finds it with three strings, a dump and a crash: the page with the slash
is given up for the failures of the one without).  So `fails` counts for the page that `Trim[s]` names.  `Halved` is a recursive function; that it has the values its definition says is shown with a table of its
first eight, as a rank is a byte.

*Why `FinishedDumps` needs three parts.*  The sizes of two files are compared, and they agree because both count the cached strings.  `RecordsCached` says so of the file that is appended
to: there is a one-to-one map from its records to cached strings (the record's own, or the trimmed one if it opened its domain).  When the next dump begins, this file becomes the old
one, and `Enough` keeps the map: into what the new file has and `dump_thr` has still to write.  When nothing is left to write, one file is at least as long as the other (`NotMoreThan`, the pigeonhole).
A restart that skips no record caches the string of each (`LoadPlaces`), so the map survives it.

`HttpProofs.tla`, from `IpCacheAssumption`, `NoNode`, `HttpFetchAssumption` and `HttpResponses` (any numbers of threads, hosts and addresses; headers
of any lengths; the value for "nothing" is neither a node nor a dictionary):

| theorem | states | with |
|---|---|---|
| `AddressesFresh` | `Spec => []AddressFresh` | `CacheOK`: a node has as many addresses as its host may have and a turn within them, and was asked for no later than now; `CallOK`: a thread about to read its node reads that in the dictionary, until it is replaced |
| `NoLeak` | `Spec => []NothingLeaks` | `FetchInv`: at each place of `http_fetch` a call holds exactly the buffers its next way out frees; `SocksOK`: the open descriptors are the threads' own, one each |
| `RoomForBody` | `Spec => []BodyFits` | the same; a body's buffer is the page read so far and one more read |

*Why the strengthening.*  `NothingLeaks` says of the end that nothing is left; that this is so needs to be known at every place before, buffer by buffer.  That `Connect`'s descriptor is new
is the pigeonhole: of one number more than are open, one is free (`LeastFree`), and the least exists because `<` is well founded.

`PipelineProofs.tla`, from `Pipeline`'s assumption (any number of threads, dispatches, lengths and losses):

| theorem | states | with |
|---|---|---|
| `PagesFit` | `Spec => []TypeOK` | a record that goes to the page link has a length that fits, whatever length its fetch or the center's record gave it |
| `SkippedSaved` | `Spec => []SkippedWasSaved` | `Believed`: *every* length that the center, a record on a link or a thread has of a kept page is one it was saved with, or the cut of one on its way to neoproduce; `TypeKnown`: whether a page is MANUAL never changes |

*Why `Believed`.*  A page is skipped because of a length in a record, which the center had from an answer, which came from a thread that had saved: the property of the one comparison needs the whole circle.

`HtcpProofs.tla`, from `HtcpAssumption` (any number of threads, parts, messages, pieces on the way and faults):

| theorem | states | with |
|---|---|---|
| `LinkTyped` | `Spec => []TypeOK` (proved instead of run) | `Ends`: the socket an end uses is an open end of one of the connections |
| `MessagesWhole` | `Spec => []WholeInOrder` | `Alone`, `Ends`, `Streams`, `Order` |
| `LinkIsChannel` | `Spec => ChannelSpec` | the same; under `queue <- Queue`, the messages whose last piece is on its way, in order |

*Why the strengthening.*  `WholeInOrder` says what arrived; why it is whole lies in what is still on its way.  `Alone`: at each end one thread is at work, the one with the
mutex.  `Ends`: which ends are open, and that the listener accepts connections in the order they were made.  `Streams`: the pieces in a connection follow one another, the first is what
the receiver waits for, the last where the sender stands, and only the last piece of a broken one is cut.  `Order`: what follows the end of a message, in its connection or one made later,
is of later messages, and all that is on its way is later than what was returned.  So a receiver that loses its connection throws its parts away (`KeptAfterError`) before it reads from
another, and never meets the rest of an earlier message.

*The refinement.*  A send that returns well puts its message at the end of the queue, a receive that returns takes the first; a connection that breaks, an end that closes, a
receiver that dies lose some of the messages, which ones is an increasing function from what is left to what was there (`LossyChannel`'s `Lose`).  `Sorted` gives the messages their places by how many of
them are not later (`Rank`), so the steps are facts about ranks in a finite set: adding a greatest message, removing the least, removing some.

`HashProofs.tla`, from `HashTable`'s assumptions (any signatures, slots, block size and number of nodes):

| theorem | states | with |
|---|---|---|
| `ListsStaySound` | `Spec => []ListsSound` | `HInv` |
| `FreshStaysUnused` | `Spec => []FreshIsUnused` | `HInv` |
| `TableIsMap` | `Spec => MapSpec` | `HInv`; the map's contents are what a search of the chains finds |

*Why `HInv`.*  `ListsSound` speaks of the nodes that a walk from a head reaches, a recursive function.  `HInv` says the same without recursion: there are an assignment of each node to a chain, the
free list or the unused places, and a numbering of each list from its end, so that `next` goes down by one and the head has the highest number.  A call that links, unlinks or moves a node changes both at one node or shifts the
numbers above it; that the walk of such a list reaches exactly its nodes, and a search finds the one with the signature, is proved once, by the least number for which it fails.

`HtmlProofs.tla`, from `HtmlTreeAssumption` and `HtmlParserAssumption` (pages of any tags and texts, any length, depth and blocks; a text has the tag
"text"):

| theorem | states | with |
|---|---|---|
| `TreeIsPage` | `Spec => []Nesting` | `NestingInv`: between two tokens all that was scanned is placed but the token read ahead (`Held`) |
| `ResultsAreOwn` | `Spec => []OwnResults` | `OwnInv`: `NestingInv`, and every node may be below its parent (`TreeFits`); while a page is parsed the base is the page's URL, when it is parsed it is `BaseOf`; between two pages no link is left |

*Why `NestingInv`.*  `Nesting` speaks of the tree at the end.  On the way the open calls are a path from the root, and every node that follows a node of the path is below it: so a new last child keeps
the order of the page, whichever call appends it.  That a page whose tags are closed inside out is nested as it says needs more: its calls are those of the elements open before the token
read ahead (`OnStack`), and perhaps one of a last node that can have no child, which the next token ends: a start tag or text because it is no child of it, an end tag because it is that of the node
above.  For the latter `Ancestors`, a recursive function, must be what it says; in a tree in order it has a closed form (`AncestorsAre`).  Memory that runs out leaves the token without a node and not in the page.

*Why `OwnInv`.*  `OwnResults` is about what visitors leave after a visit of the whole tree, so what is needed is an invariant of the visit, not of the parser.  A visit is a walk of the page's order: a spot is a node
and the last node passed, and both the next child and the way out of a call lead to the spot behind it (a tree in order has no other).  What a visitor keeps at each spot (`StartKeeps`, `FinishKeeps`) therefore holds at the end
(`VisitKeeps`); a visitor that never skips has passed all nodes by then (`SweepKeeps`).  Each visitor has its lemma from these: `MetAll`, `SearchFinds` (the first head), `TitleIs`, `ContentIs`, `LinksAre`; `HeadIs` is for the base.
`TreeFits` is needed where visitors count on the nesting: a title has no title below it, an anchor no anchor, or the first end would clear the flag of the outer one.  That the heaps start anew
with each page is what keeps nodes, base and links of the page before out.  The visit is a recursive function, whose existence is proved from that of its first `k` steps.

*Only model-checked:* `AllLeave`, `StopCompletes`, `NewIsSelected`, `SendReturns`, `Answered`, `FetchEnds` (liveness under fairness, out of the prover's reach);
`KeepsPromise`, `LinksSound`, `Balanced`: the dictionaries, whose trees and walks are recursive operators.

## 5. What is not modelled

In modelled parts: the half-written last record of a dump file, `log_thr`, the memory limit of
`guide_work_thr`, `filter.domain`, the records `load_file` skips when it is compiled with `BBS`, failing `malloc` except in `http_fetch` and libhtml's heaps, the hash functions themselves, the bytes of the file of NORMAL URLs (its reader never
finds the line ends its writer means; which strings come out of it is the constant `Blocks`).  In libhtml: how characters become tokens, entities, URL resolution, charset conversion, font sizes and the filter by them, cutting of long texts.

Whole parts: text rules of neoproduce (link patterns, dates, domains), link regexes and IP ranges, URL merging: functions from strings to strings without state.
`neomysql`, `Hoofs.c`: texts for, and calls of, client libraries.  `neoseed` is one more sender for the radar, the debug tool prints a file, `neodistribute` is built by no makefile, `list.h` is the kernel's.

## 6. Order of the work, and what is left

1. `Radar`, `UrlLedger`, `RadarProofs` -- the gate; the most concurrent part.
2. `BdbStore`, `BdbProofs` -- what survives a crash.
3. `CenterRank`, `Center`, `CenterProofs`.
4. `HashTable`, `DictMap`, `HashProofs`.
5. `HtcpLink`, `LossyChannel`, `HtcpProofs`, `Pipeline`, `PipelineProofs`.
6. `TreeLinks`, the seven dictionaries, `Dicts` -- checked.
7. `IpCache`, `HttpFetch`, `HttpProofs`.
8. `HtmlTree`, `HtmlParser`, `HtmlProofs`.  Left to model: URL resolution, and the filter of content by font.
