------------------------------ MODULE HttpFetch ------------------------------
(***************************************************************************)
(* httpget/http_fetcher.c: http_fetch, as the fetcher's threads call it.   *)
(* A URL is the host in it, a response what http_fetch reads in its        *)
(* header.  Threads share the descriptors of the process and the addresses *)
(* of IpCache; every buffer a call allocates is counted, so that one that  *)
(* is lost or freed twice is seen.                                         *)
(***************************************************************************)
EXTENDS IpCache, FiniteSetsExt

CONSTANTS
  Responses,        \* the headers servers send
  followRedirects,
  DefaultLen,       \* DEFAULT_PAGE_BUF_SIZE
  MaxBody,          \* bound: bytes a server sends
  MaxFetch          \* bound: fetches of a thread

ASSUME HttpFetchAssumption ==
  followRedirects \in Nat /\ DefaultLen \in Nat \ {0} /\ MaxBody \in Nat /\ MaxFetch \in Nat

\* Content-Length when there is none, as contentLength starts, and when it is no number.
Absent == -1
Unreadable == -2

\* What of a header decides: the class of its status ("none": no HTTP/, "nocode": no number
\* behind it, "error": below 200 or above 307), where Location points, Content-Length,
\* whether Content-Type is right and whether there is a Content-Encoding.
Header == [status : {"none", "nocode", "error", "redirect", "page"}, location : Host \cup {NULL},
           length : Int, html : BOOLEAN, encoded : BOOLEAN]

ASSUME HttpResponses == Responses \subseteq Header

\* The header buffer before anything was read into it.
Nothing == [status |-> "none", location |-> NULL, length |-> Absent, html |-> TRUE,
            encoded |-> FALSE]

VARIABLES
  open,             \* descriptors that are open
  fetch,            \* thread |-> its call of http_fetch
  fetched           \* thread |-> how many fetches it began

vars == <<ipVars, open, fetch, fetched>>

Idle == [pc |-> "idle"]
Buffers == {"url", "request", "page"}

Init ==
  /\ InitIp
  /\ open = {}
  /\ fetch = [t \in Thread |-> Idle]
  /\ fetched = [t \in Thread |-> 0]

At(t, pc) == fetch[t].pc = pc
Become(t, f) == fetch' = [fetch EXCEPT ![t] = f]

\* The call f with a buffer allocated, with some freed, and further on.
Allocs(f, b) == [f EXCEPT !.mem[b] = @ + 1]
Frees(f, bufs) == [f EXCEPT !.mem = [b \in Buffers |-> @[b] - IF b \in bufs THEN 1 ELSE 0]]
Goes(f, pc) == [f EXCEPT !.pc = pc]

\* return(-1), or with a page: the call is over but for what its caller does.
Leaves(f, statusCode) == [pc |-> "back", mem |-> f.mem, ok |-> FALSE, statusCode |-> statusCode]
Returns(f) == [Leaves(f, 200) EXCEPT !.ok = TRUE]
Closes(f) == open' = open \ {f.sock}

-----------------------------------------------------------------------------
\* The URL is copied, unless there is no memory for it.
Begin(t) ==
  /\ At(t, "idle") /\ fetched[t] < MaxFetch
  /\ fetched' = [fetched EXCEPT ![t] = @ + 1]
  /\ \E h \in Host, memory \in BOOLEAN :
       LET f == [pc |-> "request", host |-> h, redirectsFollowed |-> 0, statusCode |-> 0,
                 mem |-> [b \in Buffers |-> 0]]
       IN  Become(t, IF memory THEN Allocs(f, "url") ELSE Leaves(f, 0))
  /\ UNCHANGED <<ipVars, open>>

\* The request is put together in a buffer that grows; when there is no memory, for it or
\* for more of it, the call ends.  Then makeSocket looks for the address.
BuildRequest(t) ==
  LET f == fetch[t]
      full == Allocs(f, "request")
  IN  /\ At(t, "request")
      /\ \/ Become(t, Leaves(Frees(f, {"url"}), f.statusCode)) /\ UNCHANGED ipVars
         \/ Become(t, Leaves(Frees(full, {"url", "request"}), f.statusCode)) /\ UNCHANGED ipVars
         \/ Become(t, Goes(full, "connect")) /\ GetIp(t, f.host)
      /\ UNCHANGED <<open, fetched>>

\* makeSocket: no address, no socket or no connection, and http_fetch gives up with 30.
\* A new descriptor is the least that is not open.
ConnectFails(t) ==
  /\ At(t, "connect") /\ call[t].pc = "done"
  /\ Become(t, Leaves(Frees(fetch[t], {"url", "request"}), 30))
  /\ Return(t)
  /\ UNCHANGED <<open, fetched>>
Connect(t) ==
  LET sock == Min({s \in 1 .. (Cardinality(open) + 1) : s \notin open})
      f == Frees(fetch[t], {"url"})
  IN  /\ At(t, "connect") /\ call[t].pc = "done"
      /\ call[t].ip \in Address => call[t].ip.found
      /\ Become(t, [pc |-> "write", mem |-> f.mem, sock |-> sock,
                    redirectsFollowed |-> f.redirectsFollowed])
      /\ open' = open \cup {sock}
      /\ Return(t)
      /\ UNCHANGED fetched

WriteFails(t) ==
  /\ At(t, "write")
  /\ Closes(fetch[t])
  /\ Become(t, Leaves(Frees(fetch[t], {"request"}), 31))
  /\ UNCHANGED <<ipVars, fetched>>
Write(t) ==
  /\ At(t, "write")
  /\ Become(t, Goes(Frees(fetch[t], {"request"}), "header"))
  /\ UNCHANGED <<ipVars, open, fetched>>

\* _http_read_header: byte by byte up to the empty line, with a timeout on each.  The end of
\* the connection is not noticed: headerBuf is on the stack, and what an earlier response
\* left there goes for what did not come, all of it or what is behind the status.
HeaderRead ==
  LET late == Responses \cup {Nothing}
  IN  late \cup {[old EXCEPT !.status = new.status] : old \in late, new \in Responses}

\* What follows is decided by the header alone, up to the first read of the body.
Heads(statuses) == {head \in HeaderRead : head.html /\ head.status \in statuses}

\* select or read failed or timed out, the type is wrong, no status, or a bad one.
Refusal == [none |-> 33, nocode |-> 34, error |-> 404]
Refuse(t) ==
  /\ At(t, "header")
  /\ \/ Become(t, Leaves(fetch[t], 32))
     \/ \E head \in Heads(DOMAIN Refusal) : Become(t, Leaves(fetch[t], Refusal[head.status]))
  /\ Closes(fetch[t])
  /\ UNCHANGED <<ipVars, fetched>>

\* Slip: a redirect within the limit leaves the socket as it is.
Redirected_Open(f) == open' = open

\* A redirect within the limit closes the socket for the next round.
Redirected(f) == Closes(f)

\* Slip: the redirects are not counted.
Counted_Not(f) == f
Counted(f) == [f EXCEPT !.redirectsFollowed = @ + 1]

\* A redirect goes on with its Location, which is freed again when that is one too many.
Redirect(t) ==
  LET f == Counted(fetch[t])
      more == Allocs(f, "url")
  IN  /\ At(t, "header")
      /\ \E location \in {head.location : head \in Heads({"redirect"})} :
           \/ location = NULL /\ Become(t, Leaves(f, 302)) /\ Closes(f)
           \/ /\ location # NULL /\ f.redirectsFollowed > followRedirects
              /\ Become(t, Leaves(Frees(more, {"url"}), 302)) /\ Closes(f)
           \/ /\ location # NULL /\ f.redirectsFollowed <= followRedirects
              /\ Become(t, [pc |-> "request", host |-> location, mem |-> more.mem,
                            redirectsFollowed |-> f.redirectsFollowed, statusCode |-> 302])
              /\ Redirected(f)
      /\ UNCHANGED <<ipVars, fetched>>

\* The page's buffer: as long as the header says, which must be a number malloc accepts.
StartBody(t) ==
  /\ At(t, "header")
  /\ \E head \in Heads({"page"}) :
       LET f == fetch[t]
           contentLength == IF head.length = Absent THEN DefaultLen ELSE head.length
       IN  \/ Become(t, Leaves(f, 200)) /\ Closes(f)
           \/ /\ contentLength >= 0
              /\ Become(t, [pc |-> "body", sock |-> f.sock, mem |-> Allocs(f, "page").mem,
                            contentLength |-> contentLength, size |-> contentLength,
                            bytesRead |-> 0, encoded |-> head.encoded])
              /\ UNCHANGED open
  /\ UNCHANGED <<ipVars, fetched>>

\* Slip: the buffer grows to what has been read.
Grown_Exactly(f, ret) == f.bytesRead + ret
\* What the buffer is grown to after ret more bytes.
Grown(f, ret) == f.bytesRead + ret + f.contentLength

\* Slip: the page stays allocated when the server stops answering.
BodyFailed_Kept(f) == f
BodyFailed(f) == Frees(f, {"page"})

\* One round of the loop: some bytes, no more than the length the header gave.
ReadBody(t) ==
  LET f == fetch[t]
  IN  /\ At(t, "body")
      /\ \E ret \in 1 .. f.contentLength :
           /\ f.bytesRead + ret <= MaxBody
           /\ Become(t, [f EXCEPT !.bytesRead = @ + ret, !.size = Grown(f, ret)])
      /\ UNCHANGED <<ipVars, open, fetched>>
\* select timed out, read failed, or there was no memory for the next round.
BodyFails(t) ==
  /\ At(t, "body")
  /\ Closes(fetch[t])
  /\ Become(t, Leaves(BodyFailed(fetch[t]), 200))
  /\ UNCHANGED <<ipVars, fetched>>

\* A read of no bytes: the buffer is cut to the page.  An encoded page is replaced by what
\* it decodes to, if it does.
Finish(t) ==
  LET f == fetch[t]
  IN  /\ At(t, "body")
      /\ Closes(f)
      /\ \/ Become(t, Returns(f))
         \/ f.encoded /\ Become(t, Returns(Frees(Allocs(f, "page"), {"page"})))
      /\ UNCHANGED <<ipVars, fetched>>

\* http_get frees the page, if it was given one, and waits for the next URL.
Report(t) ==
  LET f == fetch[t]
      left == IF f.ok THEN Frees(f, {"page"}) ELSE f
  IN  /\ At(t, "back")
      /\ Become(t, IF \A b \in Buffers : left.mem[b] = 0 THEN Idle ELSE Goes(left, "leaked"))
      /\ UNCHANGED <<ipVars, open, fetched>>

-----------------------------------------------------------------------------
FetchStep(t) ==
  \/ Begin(t) \/ BuildRequest(t) \/ ConnectFails(t) \/ Connect(t) \/ WriteFails(t) \/ Write(t)
  \/ Refuse(t) \/ Redirect(t) \/ StartBody(t)
  \/ ReadBody(t) \/ BodyFails(t) \/ Finish(t) \/ Report(t)

ThreadStep(t) == FetchStep(t) \/ (IpStep(t) /\ UNCHANGED <<open, fetch, fetched>>)
Clock == Tick /\ UNCHANGED <<open, fetch, fetched>>

Next == Clock \/ \E t \in Thread : ThreadStep(t)
Spec == Init /\ [][Next]_vars

-----------------------------------------------------------------------------
\* The descriptors that are open are those of the calls between connect and their return,
\* one each, and every buffer is freed once: on none of the many ways out of http_fetch, and
\* on no round of a redirect, is one kept, or given back twice, for another thread to get.
Holds(t) == fetch[t].pc \in {"write", "header", "body"}
NothingLeaks ==
  /\ open = {fetch[t].sock : t \in {u \in Thread : Holds(u)}}
  /\ \A t, u \in Thread : Holds(t) /\ Holds(u) /\ t # u => fetch[t].sock # fetch[u].sock
  /\ \A t \in Thread :
       ~At(t, "leaked") /\ (~At(t, "idle") => \A b \in Buffers : fetch[t].mem[b] \in {0, 1})

\* Every read of the body has room for as many bytes as it may read, however many came
\* before and whatever length the header gave.
BodyFits ==
  \A t \in Thread : At(t, "body") => fetch[t].size >= fetch[t].bytesRead + fetch[t].contentLength

\* The name server answers, every wait for a server has a timeout and its page an end.
FairSpec == Spec /\ \A t \in Thread : WF_vars(ThreadStep(t))

\* Every fetch ends, with a page or without, wherever the servers redirect it to.
FetchEnds == \A t \in Thread : ~At(t, "idle") ~> At(t, "idle")
=============================================================================
