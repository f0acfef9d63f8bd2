----------------------------- MODULE HttpProofs -----------------------------
(***************************************************************************)
(* Proofs about the fetcher's http_fetch and its address cache: for any    *)
(* number of threads, hosts, addresses and redirects, and any headers.     *)
(***************************************************************************)
EXTENDS HttpFetch, TLAPS, FiniteSetTheorems, WellFoundedInduction

Cached == g_ipRBdict \in [Host -> {NULL} \cup Node]

\* What the dictionary has was asked for before it was answered, and both is past.
CacheOK ==
  /\ g_ipRBdict = NULL \/ Cached
  /\ Cached => \A h \in Host : g_ipRBdict[h] \in Node =>
       g_ipRBdict[h].refreshTime <= g_ipRBdict[h].at /\ g_ipRBdict[h].at <= now

\* The steps of get_ip and what the thread has in hand at each.
Calls ==
  [pc : {"idle"}]
  \cup [pc : {"insert", "search"}, host : Host, asked : Nat]
  \cup [pc : {"resolve"}, host : Host, asked : Nat, refreshTime : 0 .. MaxTime]
  \cup [pc : {"read"}, host : Host, asked : Nat, mine : BOOLEAN]
  \cup [pc : {"done"}, host : Host, asked : Nat, ip : Address \cup {Freed}]

\* A call finds the dictionary from its search on, and a node that is its own is one that
\* was resolved after it was asked for.
CallOK(c) ==
  /\ c.pc \in {"insert", "search", "resolve"} => c.asked <= now
  /\ c.pc \in {"search", "resolve", "read"} => Cached
  /\ c.pc = "resolve" => c.refreshTime <= now
  /\ c.pc = "read" /\ c.mine =>
       g_ipRBdict[c.host] \in Node /\ c.asked <= g_ipRBdict[c.host].at
  /\ c.pc = "done" /\ c.ip # Freed =>
       c.ip \in Address /\ c.ip.host = c.host /\ c.asked - c.ip.at <= Day

IpInv ==
  /\ now \in 0 .. MaxTime
  /\ CacheOK
  /\ call \in [Thread -> Calls]
  /\ \A t \in Thread : CallOK(call[t])

\* An address of a node, or that there is none, is of the host and of the node's time.
LEMMA AddrOfNode ==
  ASSUME NEW h \in Host, NEW i \in Nat, g_ipRBdict[h] \in Node, i < MAX_IP_NUM,
         i < g_ipRBdict[h].n \/ g_ipRBdict[h].n = 0
  PROVE  /\ Addr(h, i) \in Address
         /\ Addr(h, i).host = h /\ Addr(h, i).at = g_ipRBdict[h].at
<1>1. Addr(h, i) = [host |-> h, found |-> g_ipRBdict[h].n # 0, at |-> g_ipRBdict[h].at]
  BY IpCacheAssumption DEF Addr, Node
<1>2. (g_ipRBdict[h].n # 0) \in BOOLEAN
  OBVIOUS
<1>3. g_ipRBdict[h].at \in 0 .. MaxTime
  BY DEF Node
<1>4. QED
  BY <1>1, <1>2, <1>3 DEF Address

\* A call that a step leaves alone stays right while the clock and the nodes only go on.
LEMMA CallStays ==
  ASSUME IpInv, NEW t \in Thread, call'[t] = call[t], now' \in Nat, now <= now',
         Cached => Cached',
         Cached => \A h \in Host : g_ipRBdict[h] \in Node =>
                     g_ipRBdict'[h] \in Node /\ g_ipRBdict[h].at <= g_ipRBdict'[h].at
  PROVE  CallOK(call[t])'
<1> DEFINE c == call[t]
<1>1. c \in Calls /\ CallOK(c) /\ now \in Nat
  BY IpCacheAssumption DEF IpInv
<1>2. c.pc \in {"insert", "search", "resolve"} => c.asked <= now'
  BY <1>1 DEF Calls, CallOK
<1>3. c.pc = "resolve" => c.refreshTime <= now'
  BY <1>1, IpCacheAssumption DEF Calls, CallOK
<1>4. ASSUME c.pc = "read", c.mine
      PROVE  g_ipRBdict'[c.host] \in Node /\ c.asked <= g_ipRBdict'[c.host].at
  <2>1. Cached /\ c.host \in Host /\ c.asked \in Nat
    BY <1>1, <1>4 DEF Calls, CallOK
  <2>2. g_ipRBdict[c.host] \in Node /\ c.asked <= g_ipRBdict[c.host].at
    BY <1>1, <1>4 DEF CallOK
  <2>3. g_ipRBdict'[c.host] \in Node /\ g_ipRBdict[c.host].at <= g_ipRBdict'[c.host].at
    BY <2>1, <2>2
  <2>4. g_ipRBdict[c.host].at \in Nat /\ g_ipRBdict'[c.host].at \in Nat
    BY <2>2, <2>3, IpCacheAssumption DEF Node
  <2>5. QED
    BY <2>1, <2>2, <2>3, <2>4
<1>5. c.pc = "done" /\ c.ip # Freed =>
        c.ip \in Address /\ c.ip.host = c.host /\ c.asked - c.ip.at <= Day
  BY <1>1 DEF CallOK
<1>6. c.pc \in {"search", "resolve", "read"} => Cached'
  BY <1>1 DEF CallOK
<1>7. QED
  BY <1>2, <1>3, <1>4, <1>5, <1>6 DEF CallOK

\* get_ip begins: it is asked now, and searches a dictionary there is.
LEMMA GetIpKeeps ==
  ASSUME IpInv, NEW t \in Thread, NEW h \in Host, GetIp(t, h)
  PROVE  IpInv'
<1> USE IpCacheAssumption
<1> DEFINE c == [pc |-> IF g_ipRBdict = NULL THEN "insert" ELSE "search", host |-> h, asked |-> now]
<1>1. now' = now /\ g_ipRBdict' = g_ipRBdict /\ (Cached <=> Cached') /\ CacheOK'
  BY DEF GetIp, IpInv, CacheOK, Cached
<1>2. c \in Calls
  BY DEF IpInv, Calls
<1>3. call' = [call EXCEPT ![t] = c]
  BY DEF GetIp
<1>4. call' \in [Thread -> Calls]
  BY <1>2, <1>3 DEF IpInv
<1>5. ASSUME NEW u \in Thread PROVE CallOK(call[u])'
  <2>1. CASE u = t
    <3>1. call'[u] = c
      BY <2>1, <1>3 DEF IpInv
    <3>2. g_ipRBdict # NULL => Cached'
      BY <1>1 DEF IpInv, CacheOK
    <3>3. c.pc \in {"insert", "search"} /\ c.asked = now /\ (c.pc = "search" => g_ipRBdict # NULL)
      OBVIOUS
    <3>4. c.asked <= now'
      BY <1>1 DEF IpInv
    <3>5. QED
      BY <3>1, <3>2, <3>3, <3>4 DEF CallOK
  <2>2. CASE u # t
    <3>1. call'[u] = call[u]
      BY <2>2, <1>3 DEF IpInv
    <3>2. \A g \in Host : g_ipRBdict[g] \in Node => g_ipRBdict[g].at <= g_ipRBdict'[g].at
      BY <1>1 DEF Node
    <3>3. QED
      BY <1>1, <3>1, <3>2, CallStays DEF IpInv
  <2>3. QED
    BY <2>1, <2>2
<1>6. QED
  BY <1>1, <1>4, <1>5 DEF IpInv


\* ip_search: an address that is not older than a day, of whichever turn, or a new search.
LEMMA SearchKeeps ==
  ASSUME IpInv, NEW t \in Thread, SearchIp(t)
  PROVE  IpInv'
<1> USE IpCacheAssumption
<1> DEFINE c == call[t]
           h == c.host
           i == Turn(g_ipRBdict[h])
<1>1. c \in Calls /\ CallOK(c) /\ c.pc = "search"
  BY DEF IpInv, SearchIp
<1>2. h \in Host /\ c.asked \in Nat /\ c.asked <= now /\ Cached /\ now \in Nat /\ now' = now
  BY <1>1 DEF Calls, CallOK, SearchIp, IpInv
<1>3. g_ipRBdict[h] \in Node \cup {NULL}
  BY <1>2 DEF Cached
<1>4. CASE g_ipRBdict[h] = NULL \/ Expired(g_ipRBdict[h])
  <2>1. call' = [call EXCEPT ![t].pc = "insert"] /\ g_ipRBdict' = g_ipRBdict
    BY <1>4 DEF SearchIp
  <2>2. call'[t] = [c EXCEPT !.pc = "insert"] /\ \A u \in Thread : u # t => call'[u] = call[u]
    BY <2>1 DEF IpInv
  <2>3. c = [pc |-> "search", host |-> h, asked |-> c.asked]
    BY <1>1 DEF Calls
  <2>4. call'[t] = [pc |-> "insert", host |-> h, asked |-> c.asked]
    BY <2>2, <2>3
  <2>5. call' \in [Thread -> Calls]
    <3>1. call'[t] \in Calls
      BY <2>4, <1>2 DEF Calls
    <3>2. QED
      BY <3>1, <2>1 DEF IpInv
  <2>6. CacheOK'
    BY <2>1, <1>2 DEF IpInv, CacheOK, Cached
  <2>7. CallOK(call[t])'
    BY <2>4, <1>2 DEF CallOK
  <2>8. ASSUME NEW u \in Thread, u # t PROVE CallOK(call[u])'
    <3>1. Cached => Cached'
      BY <2>1 DEF Cached
    <3>2. \A g \in Host : g_ipRBdict[g] \in Node => g_ipRBdict[g].at <= g_ipRBdict'[g].at
      BY <2>1 DEF Node
    <3>3. QED
      BY <2>1, <2>2, <2>8, <1>2, <3>1, <3>2, CallStays
  <2>9. QED
    BY <2>5, <2>6, <2>7, <2>8, <1>2 DEF IpInv
<1>5. CASE g_ipRBdict[h] # NULL /\ ~Expired(g_ipRBdict[h])
  <2> DEFINE next == Addr(h, i)
             ip == IF next = NULL THEN Addr(h, 0) ELSE next
             pos == IF next = NULL THEN 0 ELSE i + 1
  <2>1. /\ call' = [call EXCEPT ![t] = [pc |-> "done", host |-> h, asked |-> c.asked, ip |-> ip]]
        /\ g_ipRBdict' = [g_ipRBdict EXCEPT ![h].pos = pos]
    BY <1>5 DEF SearchIp, Answer
  <2>2. g_ipRBdict[h] \in Node
    BY <1>3, <1>5
  <2>3. i \in 0 .. MAX_IP_NUM /\ i < MAX_IP_NUM
    BY <2>2 DEF Turn, Node
  <2>4. ip \in Address /\ ip.host = h /\ ip.at = g_ipRBdict[h].at
    <3>1. CASE i < g_ipRBdict[h].n \/ g_ipRBdict[h].n = 0
      <4>1. next \in Address /\ next.host = h /\ next.at = g_ipRBdict[h].at
        BY <1>2, <2>2, <2>3, <3>1, AddrOfNode
      <4>2. Addr(h, 0) \in Address /\ Addr(h, 0).host = h /\ Addr(h, 0).at = g_ipRBdict[h].at
        <5>1. 0 < g_ipRBdict[h].n \/ g_ipRBdict[h].n = 0
          BY <2>2 DEF Node
        <5>2. QED
          BY <5>1, <1>2, <2>2, AddrOfNode
      <4>3. QED
        BY <4>1, <4>2
    <3>2. CASE ~(i < g_ipRBdict[h].n \/ g_ipRBdict[h].n = 0)
      <4>1. next = NULL
        BY <2>3, <3>2 DEF Addr
      <4>2. 0 < g_ipRBdict[h].n
        BY <2>2, <3>2 DEF Node
      <4>3. Addr(h, 0) \in Address /\ Addr(h, 0).host = h /\ Addr(h, 0).at = g_ipRBdict[h].at
        BY <4>2, <1>2, <2>2, AddrOfNode
      <4>4. QED
        BY <4>1, <4>3
    <3>3. QED
      BY <3>1, <3>2
  <2>5. c.asked - ip.at <= Day
    <3>1. now - g_ipRBdict[h].refreshTime <= Day
      BY <1>2, <1>5, <2>2 DEF Expired, Node
    <3>2. g_ipRBdict[h].refreshTime <= g_ipRBdict[h].at
      BY <1>2, <2>2 DEF IpInv, CacheOK
    <3>3. g_ipRBdict[h].at \in Nat /\ g_ipRBdict[h].refreshTime \in Nat
      BY <2>2 DEF Node
    <3>4. QED
      BY <3>1, <3>2, <3>3, <2>4, <1>2
  <2>6. call'[t] = [pc |-> "done", host |-> h, asked |-> c.asked, ip |-> ip]
    BY <2>1 DEF IpInv
  <2>7. call' \in [Thread -> Calls]
    <3>1. [pc |-> "done", host |-> h, asked |-> c.asked, ip |-> ip] \in Calls
      BY <1>2, <2>4 DEF Calls
    <3>2. QED
      BY <2>1, <3>1 DEF IpInv
  <2>8. CallOK(call[t])'
    BY <2>4, <2>5, <2>6 DEF CallOK
  <2>9. pos \in 0 .. MAX_IP_NUM
    BY <2>3
  <2>10. [g_ipRBdict[h] EXCEPT !.pos = pos] \in Node
    BY <2>2, <2>9 DEF Node
  <2>11. /\ g_ipRBdict' = [g_ipRBdict EXCEPT ![h] = [g_ipRBdict[h] EXCEPT !.pos = pos]]
         /\ g_ipRBdict'[h] = [g_ipRBdict[h] EXCEPT !.pos = pos]
         /\ \A g \in Host : g # h => g_ipRBdict'[g] = g_ipRBdict[g]
    BY <2>1, <1>2 DEF Cached
  <2>12. Cached'
    BY <2>10, <2>11, <1>2 DEF Cached
  <2>13. \A g \in Host : g_ipRBdict[g] \in Node =>
           g_ipRBdict'[g] \in Node /\ g_ipRBdict'[g].at = g_ipRBdict[g].at
           /\ g_ipRBdict'[g].refreshTime = g_ipRBdict[g].refreshTime
    BY <2>2, <2>10, <2>11 DEF Node
  <2>14. CacheOK'
    <3>1. \A g \in Host : g_ipRBdict'[g] \in Node => g_ipRBdict[g] \in Node
      BY <2>2, <2>11
    <3>2. QED
      BY <2>12, <2>13, <3>1, <1>2 DEF IpInv, CacheOK
  <2>15. ASSUME NEW u \in Thread, u # t PROVE CallOK(call[u])'
    <3>1. call'[u] = call[u]
      BY <2>1, <2>15 DEF IpInv
    <3>2. \A g \in Host : g_ipRBdict[g] \in Node =>
            g_ipRBdict'[g] \in Node /\ g_ipRBdict[g].at <= g_ipRBdict'[g].at
      BY <2>13 DEF Node
    <3>3. QED
      BY <3>1, <3>2, <2>12, <1>2, CallStays
  <2>16. QED
    BY <2>7, <2>8, <2>14, <2>15, <1>2 DEF IpInv
<1>6. QED
  BY <1>4, <1>5


\* ip_insert: an empty dictionary, if there is none, and the time of the request.
LEMMA InsertKeeps ==
  ASSUME IpInv, NEW t \in Thread, Insert(t)
  PROVE  IpInv'
<1> USE IpCacheAssumption
<1> DEFINE c == call[t]
<1>1. c \in Calls /\ CallOK(c) /\ c.pc = "insert"
  BY DEF IpInv, Insert
<1>2. c.host \in Host /\ c.asked \in Nat /\ c.asked <= now /\ now \in 0 .. MaxTime /\ now' = now
  BY <1>1 DEF Calls, CallOK, Insert, IpInv
<1>3. /\ call' = [call EXCEPT ![t] = [pc |-> "resolve", host |-> c.host, asked |-> c.asked,
                                      refreshTime |-> now]]
      /\ g_ipRBdict' = IF g_ipRBdict = NULL THEN [h \in Host |-> NULL] ELSE g_ipRBdict
  BY DEF Insert
<1>4. Cached' /\ (Cached => Cached')
  BY <1>3 DEF IpInv, CacheOK, Cached
<1>5. CASE g_ipRBdict # NULL
  <2>1. g_ipRBdict' = g_ipRBdict
    BY <1>3, <1>5
  <2>2. CacheOK'
    BY <2>1, <1>2, <1>4 DEF IpInv, CacheOK, Cached
  <2>3. \A g \in Host : g_ipRBdict[g] \in Node =>
          g_ipRBdict'[g] \in Node /\ g_ipRBdict[g].at <= g_ipRBdict'[g].at
    BY <2>1 DEF Node
  <2>4. \A u \in Thread : u # t => call'[u] = call[u]
    BY <1>3 DEF IpInv
  <2>5. \A u \in Thread : u # t => CallOK(call[u])'
    BY <1>2, <1>4, <2>3, <2>4, CallStays
  <2>6. call'[t] = [pc |-> "resolve", host |-> c.host, asked |-> c.asked, refreshTime |-> now]
    BY <1>3 DEF IpInv
  <2>7. CallOK(call[t])' /\ call'[t] \in Calls
    BY <1>2, <1>4, <2>6 DEF CallOK, Calls
  <2>8. call' \in [Thread -> Calls]
    BY <1>3, <2>6, <2>7 DEF IpInv
  <2>9. QED
    BY <2>2, <2>5, <2>7, <2>8, <1>2 DEF IpInv
<1>6. CASE g_ipRBdict = NULL
  <2>1. g_ipRBdict' = [h \in Host |-> NULL]
    BY <1>3, <1>6
  <2>2. \A h \in Host : g_ipRBdict'[h] \notin Node
    BY <2>1, NoNode
  <2>3. CacheOK'
    BY <2>2, <1>4 DEF CacheOK
  <2>4. call'[t] = [pc |-> "resolve", host |-> c.host, asked |-> c.asked, refreshTime |-> now]
    BY <1>3 DEF IpInv
  <2>5. CallOK(call[t])' /\ call'[t] \in Calls
    BY <1>2, <1>4, <2>4 DEF CallOK, Calls
  <2>6. call' \in [Thread -> Calls]
    BY <1>3, <2>4, <2>5 DEF IpInv
  <2>7. ASSUME NEW u \in Thread, u # t PROVE CallOK(call[u])'
    <3>1. call'[u] = call[u] /\ call[u] \in Calls /\ CallOK(call[u])
      BY <1>3, <2>7 DEF IpInv
    <3>2. ASSUME call[u].pc = "read", call[u].mine PROVE FALSE
      BY <3>1, <3>2, <1>6, NoNode DEF CallOK, Cached
    <3>3. QED
      BY <3>1, <3>2, <1>2, <1>4 DEF CallOK
  <2>8. QED
    BY <2>3, <2>5, <2>6, <2>7, <1>2 DEF IpInv
<1>7. QED
  BY <1>5, <1>6


\* update_ip: the new node is younger than all before it, and whoever was about to read the
\* old one of the host has lost it.
LEMMA ResolveKeeps ==
  ASSUME IpInv, NEW t \in Thread, Resolve(t)
  PROVE  IpInv'
<1> USE IpCacheAssumption
<1> DEFINE c == call[t]
           h == c.host
           stale(u) == u # t /\ call[u].pc = "read" /\ call[u].host = h
<1>1. c \in Calls /\ CallOK(c) /\ c.pc = "resolve"
  BY DEF IpInv, Resolve
<1>2. /\ h \in Host /\ c.asked \in Nat /\ c.asked <= now /\ now \in 0 .. MaxTime /\ now' = now
      /\ c.refreshTime \in 0 .. MaxTime /\ c.refreshTime <= now /\ Cached
  BY <1>1 DEF Calls, CallOK, Resolve, IpInv
<1>3. PICK n \in Known[h] :
        g_ipRBdict' = [g_ipRBdict EXCEPT ![h] =
                         [pos |-> 0, n |-> n, at |-> now, refreshTime |-> c.refreshTime]]
  BY DEF Resolve
<1> DEFINE node == [pos |-> 0, n |-> n, at |-> now, refreshTime |-> c.refreshTime]
<1>4. node \in Node /\ node.at = now /\ node.refreshTime = c.refreshTime
  <2>1. n \in 0 .. MAX_IP_NUM
    BY <1>2
  <2>2. QED
    BY <1>2, <2>1 DEF Node
<1>5. g_ipRBdict'[h] = node /\ \A g \in Host : g # h => g_ipRBdict'[g] = g_ipRBdict[g]
  BY <1>2, <1>3 DEF Cached
<1>6. Cached'
  BY <1>2, <1>3, <1>4 DEF Cached
<1>7. CacheOK'
  BY <1>2, <1>4, <1>5, <1>6 DEF IpInv, CacheOK
<1>8. \A g \in Host : g_ipRBdict[g] \in Node =>
        g_ipRBdict'[g] \in Node /\ g_ipRBdict[g].at <= g_ipRBdict'[g].at
  BY <1>2, <1>4, <1>5 DEF IpInv, CacheOK, Node
<1>9. call' = [u \in Thread |->
                 CASE u = t -> [pc |-> "read", host |-> h, asked |-> c.asked, mine |-> TRUE]
                   [] stale(u) -> [call[u] EXCEPT !.mine = FALSE]
                   [] OTHER -> call[u]]
  BY DEF Resolve
<1>10. call'[t] = [pc |-> "read", host |-> h, asked |-> c.asked, mine |-> TRUE]
  BY <1>9
<1>11. call'[t] \in Calls /\ CallOK(call[t])'
  BY <1>2, <1>4, <1>5, <1>6, <1>10 DEF Calls, CallOK
<1>12. ASSUME NEW u \in Thread, u # t PROVE call'[u] \in Calls /\ CallOK(call[u])'
  <2>1. call[u] \in Calls /\ CallOK(call[u])
    BY DEF IpInv
  <2>2. CASE stale(u)
    <3>1. call'[u] = [call[u] EXCEPT !.mine = FALSE]
      BY <1>9, <1>12, <2>2
    <3>2. call[u] = [pc |-> "read", host |-> call[u].host, asked |-> call[u].asked,
                     mine |-> call[u].mine]
          /\ call[u].host \in Host /\ call[u].asked \in Nat
      BY <2>1, <2>2 DEF Calls
    <3>3. call'[u] = [pc |-> "read", host |-> call[u].host, asked |-> call[u].asked,
                      mine |-> FALSE]
      <4>1. call[u] \in [pc : {"read"}, host : Host, asked : Nat, mine : BOOLEAN]
        BY <2>1, <2>2 DEF Calls
      <4>2. QED
        BY <3>1, <4>1
    <3>4. QED
      BY <3>2, <3>3, <1>6 DEF Calls, CallOK
  <2>3. CASE ~stale(u)
    <3>1. call'[u] = call[u]
      BY <1>9, <1>12, <2>3
    <3>2. CallOK(call[u])'
      BY <3>1, <1>2, <1>6, <1>8, CallStays
    <3>3. QED
      BY <3>1, <3>2, <2>1
  <2>4. QED
    BY <2>2, <2>3
<1>13. call' \in [Thread -> Calls]
  BY <1>9, <1>11, <1>12
<1>14. QED
  BY <1>2, <1>7, <1>11, <1>12, <1>13 DEF IpInv

\* What is read of a node that is still the thread's own, or of freed memory.
LEMMA ReadKeeps ==
  ASSUME IpInv, NEW t \in Thread, Read(t)
  PROVE  IpInv'
<1> USE IpCacheAssumption
<1> DEFINE c == call[t]
           ip == IF c.mine THEN Addr(c.host, 0) ELSE Freed
<1>1. c \in Calls /\ CallOK(c) /\ c.pc = "read"
  BY DEF IpInv, Read
<1>2. /\ c.host \in Host /\ c.asked \in Nat /\ Cached /\ c.mine \in BOOLEAN
      /\ now \in 0 .. MaxTime /\ now' = now /\ g_ipRBdict' = g_ipRBdict
  BY <1>1 DEF Calls, CallOK, Read, IpInv
<1>3. call' = [call EXCEPT ![t] = [pc |-> "done", host |-> c.host, asked |-> c.asked, ip |-> ip]]
  BY DEF Read, Answer
<1>4. call'[t] = [pc |-> "done", host |-> c.host, asked |-> c.asked, ip |-> ip]
  BY <1>3 DEF IpInv
<1>5. ASSUME c.mine
      PROVE  ip \in Address /\ ip.host = c.host /\ c.asked - ip.at <= Day
  <2>1. g_ipRBdict[c.host] \in Node /\ c.asked <= g_ipRBdict[c.host].at
    BY <1>1, <1>5 DEF CallOK
  <2>2. 0 < g_ipRBdict[c.host].n \/ g_ipRBdict[c.host].n = 0
    BY <2>1 DEF Node
  <2>3. ip \in Address /\ ip.host = c.host /\ ip.at = g_ipRBdict[c.host].at
    BY <1>2, <1>5, <2>1, <2>2, AddrOfNode
  <2>4. g_ipRBdict[c.host].at \in Nat
    BY <2>1 DEF Node
  <2>5. QED
    BY <1>2, <2>1, <2>3, <2>4
<1>6. call'[t] \in Calls /\ CallOK(call[t])'
  <2>1. ip \in Address \cup {Freed}
    BY <1>5
  <2>2. call'[t] \in Calls
    BY <1>2, <1>4, <2>1 DEF Calls
  <2>3. ~c.mine => ip = Freed
    OBVIOUS
  <2>4. QED
    BY <1>4, <1>5, <2>2, <2>3 DEF CallOK
<1>7. ASSUME NEW u \in Thread, u # t PROVE CallOK(call[u])'
  <2>1. call'[u] = call[u]
    BY <1>3, <1>7 DEF IpInv
  <2>2. \A g \in Host : g_ipRBdict[g] \in Node => g_ipRBdict[g].at <= g_ipRBdict'[g].at
    BY <1>2 DEF Node
  <2>3. QED
    BY <2>1, <2>2, <1>2, CallStays DEF Cached
<1>8. CacheOK'
  BY <1>2 DEF IpInv, CacheOK, Cached
<1>9. call' \in [Thread -> Calls]
  BY <1>3, <1>4, <1>6 DEF IpInv
<1>10. QED
  BY <1>2, <1>6, <1>7, <1>8, <1>9 DEF IpInv

\* What does not touch the dictionary, and leaves each call or ends it.
LEMMA RestKeeps ==
  ASSUME IpInv, now' \in now .. MaxTime, g_ipRBdict' = g_ipRBdict, call' \in [Thread -> Calls],
         \A t \in Thread : call'[t] = call[t] \/ call'[t] = [pc |-> "idle"]
  PROVE  IpInv'
<1> USE IpCacheAssumption
<1>1. now \in Nat /\ now' \in Nat /\ now <= now' /\ now' \in 0 .. MaxTime
  BY DEF IpInv
<1>2. \A g \in Host : g_ipRBdict[g] \in Node => g_ipRBdict[g].at <= g_ipRBdict'[g].at
  BY DEF Node
<1>3. Cached <=> Cached'
  BY DEF Cached
<1>4. ASSUME NEW t \in Thread PROVE CallOK(call[t])'
  <2>1. CASE call'[t] = call[t]
    BY <2>1, <1>1, <1>2, <1>3, CallStays
  <2>2. CASE call'[t] = [pc |-> "idle"]
    BY <2>2 DEF CallOK
  <2>3. QED
    BY <2>1, <2>2
<1>5. CacheOK'
  <2>1. \A g \in Host : g_ipRBdict[g] \in Node => g_ipRBdict[g].at \in Nat
    BY DEF Node
  <2>2. QED
    BY <2>1, <1>1, <1>3 DEF IpInv, CacheOK
<1>6. QED
  BY <1>1, <1>4, <1>5 DEF IpInv


\* Which buffers a call holds.
Only(bufs) == [b \in Buffers |-> IF b \in bufs THEN 1 ELSE 0]

\* The steps of http_fetch, each with the buffers it holds, and a socket or none.
Fetches ==
  [pc : {"idle"}]
  \cup [pc : {"request"}, host : Host, redirectsFollowed : Nat, statusCode : Nat,
        mem : {Only({"url"})}]
  \cup [pc : {"connect"}, host : Host, redirectsFollowed : Nat, statusCode : Nat,
        mem : {Only({"url", "request"})}]
  \cup [pc : {"write"}, mem : {Only({"request"})}, sock : Nat, redirectsFollowed : Nat]
  \cup [pc : {"header"}, mem : {Only({})}, sock : Nat, redirectsFollowed : Nat]
  \cup [pc : {"body"}, sock : Nat, mem : {Only({"page"})}, contentLength : Nat, size : Nat,
        bytesRead : Nat, encoded : BOOLEAN]
  \cup [pc : {"back"}, mem : {Only({})}, ok : {FALSE}, statusCode : Nat]
  \cup [pc : {"back"}, mem : {Only({"page"})}, ok : {TRUE}, statusCode : Nat]

\* The descriptors are those of the calls that hold one, each of one call.
SocksOK ==
  /\ IsFiniteSet(open)
  /\ open = {fetch[t].sock : t \in {u \in Thread : Holds(u)}}
  /\ \A t, u \in Thread : Holds(t) /\ Holds(u) /\ t # u => fetch[t].sock # fetch[u].sock

FetchInv ==
  /\ fetch \in [Thread -> Fetches]
  /\ SocksOK
  /\ BodyFits

\* A finite set of numbers leaves one free among as many and one more, and there is a least.
LEMMA LeastFree ==
  ASSUME IsFiniteSet(open),
         NEW sock, sock = Min({s \in 1 .. (Cardinality(open) + 1) : s \notin open})
  PROVE  sock \in Nat /\ sock \notin open
<1> DEFINE n == Cardinality(open) + 1
           S == {s \in 1 .. n : s \notin open}
<1>1. Cardinality(open) \in Nat
  BY FS_CardinalityType
<1>2. S # {}
  <2> SUFFICES ASSUME S = {} PROVE FALSE
    OBVIOUS
  <2>1. 1 .. n \in SUBSET open
    OBVIOUS
  <2>2. Cardinality(1 .. n) <= Cardinality(open)
    BY <2>1, FS_Subset
  <2>3. Cardinality(1 .. n) = n
    BY <1>1, FS_Interval
  <2>4. QED
    BY <1>1, <2>2, <2>3
<1>3. \E x \in S : \A y \in S : x =< y
  <2>1. IsWellFoundedOn(OpToRel(<, Nat), Nat)
    BY NatLessThanWellFounded
  <2>2. S \subseteq Nat
    BY <1>1
  <2>3. PICK x \in S : \A y \in S : ~ (<<y, x>> \in OpToRel(<, Nat))
    BY <1>2, <2>1, <2>2, WFMin
  <2>4. \A y \in S : ~ (y < x)
    BY <2>2, <2>3 DEF OpToRel
  <2>5. QED
    BY <2>2, <2>4
<1>4. Min(S) \in S
  BY <1>3 DEF Min
<1>5. QED
  BY <1>1, <1>4

\* A call that does not hold a socket before or after, or keeps it, leaves them as they are.
LEMMA SocksStay ==
  ASSUME FetchInv, NEW t \in Thread, NEW f, fetch' = [fetch EXCEPT ![t] = f], open' = open,
         Holds(t) <=> f.pc \in {"write", "header", "body"},
         Holds(t) => f.sock = fetch[t].sock
  PROVE  SocksOK'
<1>1. fetch'[t] = f /\ \A u \in Thread : u # t => fetch'[u] = fetch[u]
  BY DEF FetchInv
<1>2. \A u \in Thread : (Holds(u)' <=> Holds(u)) /\ (Holds(u) => fetch'[u].sock = fetch[u].sock)
  BY <1>1 DEF Holds
<1>3. QED
  BY <1>2 DEF FetchInv, SocksOK

\* A call that gives its socket back takes nobody else's.
LEMMA SocksClose ==
  ASSUME FetchInv, NEW t \in Thread, NEW f, fetch' = [fetch EXCEPT ![t] = f],
         open' = open \ {fetch[t].sock}, Holds(t), f.pc \notin {"write", "header", "body"}
  PROVE  SocksOK'
<1>1. fetch'[t] = f /\ \A u \in Thread : u # t => fetch'[u] = fetch[u]
  BY DEF FetchInv
<1>2. ~Holds(t)' /\ \A u \in Thread : u # t => (Holds(u)' <=> Holds(u))
  BY <1>1 DEF Holds
<1>3. IsFiniteSet(open')
  BY FS_RemoveElement DEF FetchInv, SocksOK
<1>4. QED
  BY <1>1, <1>2, <1>3 DEF FetchInv, SocksOK

\* A new socket is nobody else's.
LEMMA SocksOpen ==
  ASSUME FetchInv, NEW t \in Thread, NEW f, fetch' = [fetch EXCEPT ![t] = f],
         open' = open \cup {f.sock}, f.sock \notin open, ~Holds(t), f.pc = "write"
  PROVE  SocksOK'
<1>1. fetch'[t] = f /\ \A u \in Thread : u # t => fetch'[u] = fetch[u]
  BY DEF FetchInv
<1>2. Holds(t)' /\ \A u \in Thread : u # t => (Holds(u)' <=> Holds(u))
  BY <1>1 DEF Holds
<1>3. IsFiniteSet(open')
  BY FS_AddElement DEF FetchInv, SocksOK
<1>4. QED
  BY <1>1, <1>2, <1>3 DEF FetchInv, SocksOK


\* What is held after an allocation and after buffers are freed.
LEMMA MemAlloc ==
  ASSUME NEW A, NEW b \in Buffers, b \notin A
  PROVE  [Only(A) EXCEPT ![b] = @ + 1] = Only(A \cup {b})
<1> DEFINE new == [Only(A) EXCEPT ![b] = @ + 1]
<1>1. DOMAIN new = Buffers /\ new = [c \in Buffers |-> new[c]]
  BY DEF Only
<1>2. \A c \in Buffers : new[c] = IF c \in A \cup {b} THEN 1 ELSE 0
  BY DEF Only
<1>3. QED
  BY <1>1, <1>2 DEF Only

LEMMA MemFree ==
  ASSUME NEW f, "mem" \in DOMAIN f, NEW A, NEW B \in SUBSET A, f.mem = Only(A)
  PROVE  Frees(f, B) = [f EXCEPT !.mem = Only(A \ B)]
<1>1. \A b \in Buffers : Only(A)[b] - (IF b \in B THEN 1 ELSE 0) = IF b \in A \ B THEN 1 ELSE 0
  BY DEF Only
<1>2. [b \in Buffers |-> Only(A)[b] - IF b \in B THEN 1 ELSE 0] = Only(A \ B)
  BY <1>1 DEF Only
<1>3. QED
  BY <1>2 DEF Frees

\* Whatever a call holds when it is freed of it all, nothing is left.
LEMMA MemFreeAll ==
  ASSUME NEW f, "mem" \in DOMAIN f, NEW A, f.mem = Only(A)
  PROVE  Frees(f, A) = [f EXCEPT !.mem = Only({})] /\ Frees(f, A).mem = Only({})
<1>1. A \in SUBSET A /\ A \ A = {}
  OBVIOUS
<1>2. Frees(f, A) = [f EXCEPT !.mem = Only({})]
  BY <1>1, MemFree
<1>3. QED
  BY <1>2

\* One call goes on to a step it may be in, with the sockets right and room for the body.
LEMMA FetchGoesOn ==
  ASSUME FetchInv, NEW t \in Thread, NEW f \in Fetches, fetch' = [fetch EXCEPT ![t] = f], SocksOK',
         f.pc = "body" => f.size >= f.bytesRead + f.contentLength
  PROVE  FetchInv'
<1>1. fetch'[t] = f /\ \A u \in Thread : u # t => fetch'[u] = fetch[u]
  BY DEF FetchInv
<1>2. BodyFits'
  BY <1>1 DEF FetchInv, BodyFits, At
<1>3. fetch' \in [Thread -> Fetches]
  BY DEF FetchInv
<1>4. QED
  BY <1>2, <1>3 DEF FetchInv

\* A call that ends without a page holds nothing.
LEMMA LeavesEmpty ==
  ASSUME NEW f, f.mem = Only({}), NEW n \in Nat
  PROVE  Leaves(f, n) \in Fetches /\ Leaves(f, n).pc = "back"
BY DEF Leaves, Fetches

LEMMA BeginKeeps ==
  ASSUME FetchInv, NEW t \in Thread, Begin(t)
  PROVE  FetchInv'
<1>1. PICK h \in Host, memory \in BOOLEAN :
        LET f == [pc |-> "request", host |-> h, redirectsFollowed |-> 0, statusCode |-> 0,
                  mem |-> [b \in Buffers |-> 0]]
        IN  Become(t, IF memory THEN Allocs(f, "url") ELSE Leaves(f, 0))
  BY DEF Begin
<1> DEFINE f == [pc |-> "request", host |-> h, redirectsFollowed |-> 0, statusCode |-> 0,
                 mem |-> [b \in Buffers |-> 0]]
           g == IF memory THEN Allocs(f, "url") ELSE Leaves(f, 0)
<1>2. f.mem = Only({})
  BY DEF Only
<1>3. Allocs(f, "url") = [pc |-> "request", host |-> h, redirectsFollowed |-> 0, statusCode |-> 0,
                          mem |-> Only({"url"})]
  <2>1. [Only({}) EXCEPT !["url"] = @ + 1] = Only({"url"})
    <3>1. {} \cup {"url"} = {"url"}
      OBVIOUS
    <3>2. QED
      BY <3>1, MemAlloc DEF Buffers
  <2>2. QED
    BY <1>2, <2>1 DEF Allocs
<1>4. g \in Fetches /\ g.pc \notin {"write", "header", "body"}
  <2>1. CASE memory
    <3>1. [pc |-> "request", host |-> h, redirectsFollowed |-> 0, statusCode |-> 0,
           mem |-> Only({"url"})] \in Fetches
      BY DEF Fetches
    <3>2. g = Allocs(f, "url")
      BY <2>1
    <3>3. g.pc = "request"
      BY <1>3, <3>2
    <3>4. QED
      BY <1>3, <3>1, <3>2, <3>3
  <2>2. CASE ~memory
    BY <1>2, <2>2, LeavesEmpty
  <2>3. QED
    BY <2>1, <2>2
<1>5. fetch' = [fetch EXCEPT ![t] = g] /\ open' = open /\ ~Holds(t)
  BY <1>1 DEF Begin, Become, At, Holds
<1>6. SocksOK'
  BY <1>4, <1>5, SocksStay
<1>7. QED
  BY <1>4, <1>5, <1>6, FetchGoesOn

LEMMA BuildRequestKeeps ==
  ASSUME FetchInv, NEW t \in Thread, BuildRequest(t)
  PROVE  FetchInv'
<1> DEFINE f == fetch[t]
           full == Allocs(f, "request")
           g == fetch'[t]
<1>1. f \in [pc : {"request"}, host : Host, redirectsFollowed : Nat, statusCode : Nat,
             mem : {Only({"url"})}]
  BY DEF FetchInv, Fetches, BuildRequest, At
<1>2. full = [f EXCEPT !.mem = Only({"url", "request"})]
  <2>1. [Only({"url"}) EXCEPT !["request"] = @ + 1] = Only({"url", "request"})
    <3>1. {"url"} \cup {"request"} = {"url", "request"}
      OBVIOUS
    <3>2. QED
      BY <3>1, MemAlloc DEF Buffers
  <2>2. QED
    BY <1>1, <2>1 DEF Allocs
<1>3. Frees(f, {"url"}).mem = Only({})
  BY <1>1, MemFreeAll
<1>4. Frees(full, {"url", "request"}).mem = Only({})
  <2>1. full.mem = Only({"url", "request"}) /\ "mem" \in DOMAIN full
    BY <1>1, <1>2
  <2>2. QED
    BY <2>1, MemFreeAll
<1>5. Goes(full, "connect") \in Fetches /\ Goes(full, "connect").pc = "connect"
  BY <1>1, <1>2 DEF Goes, Fetches
<1>6. PICK new \in Fetches : Become(t, new) /\ new.pc \notin {"write", "header", "body"}
  <2>1. f.statusCode \in Nat /\ Frees(f, {"url"}).statusCode = f.statusCode
    BY <1>1 DEF Frees
  <2>2. QED
    BY <1>3, <1>4, <1>5, <2>1, LeavesEmpty DEF BuildRequest
<1>7. fetch' = [fetch EXCEPT ![t] = new] /\ open' = open /\ ~Holds(t)
  BY <1>6 DEF BuildRequest, Become, At, Holds
<1>8. SocksOK'
  BY <1>6, <1>7, SocksStay
<1>9. QED
  BY <1>6, <1>7, <1>8, FetchGoesOn


LEMMA ConnectFailsKeeps ==
  ASSUME FetchInv, NEW t \in Thread, ConnectFails(t)
  PROVE  FetchInv'
<1> DEFINE new == Leaves(Frees(fetch[t], {"url", "request"}), 30)
<1>1. fetch[t] \in [pc : {"connect"}, host : Host, redirectsFollowed : Nat, statusCode : Nat,
                    mem : {Only({"url", "request"})}]
  BY DEF FetchInv, Fetches, ConnectFails, At
<1>2. Frees(fetch[t], {"url", "request"}).mem = Only({})
  BY <1>1, MemFreeAll
<1>3. new \in Fetches /\ new.pc = "back"
  BY <1>2, LeavesEmpty
<1>4. fetch' = [fetch EXCEPT ![t] = new] /\ open' = open /\ ~Holds(t)
  BY DEF ConnectFails, Become, At, Holds
<1>5. SocksOK'
  BY <1>3, <1>4, SocksStay
<1>6. QED
  BY <1>3, <1>4, <1>5, FetchGoesOn

LEMMA ConnectKeeps ==
  ASSUME FetchInv, NEW t \in Thread, Connect(t)
  PROVE  FetchInv'
<1> DEFINE sock == Min({s \in 1 .. (Cardinality(open) + 1) : s \notin open})
           f == Frees(fetch[t], {"url"})
           new == [pc |-> "write", mem |-> f.mem, sock |-> sock,
                   redirectsFollowed |-> f.redirectsFollowed]
<1>1. fetch[t] \in [pc : {"connect"}, host : Host, redirectsFollowed : Nat, statusCode : Nat,
                    mem : {Only({"url", "request"})}]
  BY DEF FetchInv, Fetches, Connect, At
<1>2. f.mem = Only({"request"}) /\ f.redirectsFollowed \in Nat
  <2>1. {"url", "request"} \ {"url"} = {"request"} /\ {"url"} \in SUBSET {"url", "request"}
    OBVIOUS
  <2>2. f = [fetch[t] EXCEPT !.mem = Only({"request"})]
    BY <1>1, <2>1, MemFree
  <2>3. QED
    BY <1>1, <2>2
<1>3. sock \in Nat /\ sock \notin open
  BY LeastFree DEF FetchInv, SocksOK
<1>4. new \in Fetches /\ new.pc = "write" /\ new.sock = sock
  <2> HIDE DEF sock, f
  <2>1. QED
    BY <1>2, <1>3 DEF Fetches
<1>5. fetch' = [fetch EXCEPT ![t] = new] /\ open' = open \cup {new.sock} /\ ~Holds(t)
  BY <1>4 DEF Connect, Become, At, Holds
<1>6. SocksOK'
  <2> HIDE DEF new
  <2>1. QED
    BY <1>3, <1>4, <1>5, SocksOpen
<1>7. QED
  BY <1>4, <1>5, <1>6, FetchGoesOn

LEMMA WriteKeeps ==
  ASSUME FetchInv, NEW t \in Thread, Write(t) \/ WriteFails(t)
  PROVE  FetchInv'
<1> DEFINE f == Frees(fetch[t], {"request"})
<1>1. fetch[t] \in [pc : {"write"}, mem : {Only({"request"})}, sock : Nat, redirectsFollowed : Nat]
  BY DEF FetchInv, Fetches, Write, WriteFails, At
<1>2. f = [fetch[t] EXCEPT !.mem = Only({})] /\ f.mem = Only({})
  BY <1>1, MemFreeAll
<1>3. CASE Write(t)
  <2>1. Goes(f, "header") \in Fetches /\ Goes(f, "header").pc = "header"
        /\ Goes(f, "header").sock = fetch[t].sock
    BY <1>1, <1>2 DEF Goes, Fetches
  <2>2. fetch' = [fetch EXCEPT ![t] = Goes(f, "header")] /\ open' = open /\ Holds(t)
    BY <1>3 DEF Write, Become, At, Holds
  <2>3. SocksOK'
    BY <2>1, <2>2, SocksStay
  <2>4. QED
    BY <2>1, <2>2, <2>3, FetchGoesOn
<1>4. CASE WriteFails(t)
  <2>1. Leaves(f, 31) \in Fetches /\ Leaves(f, 31).pc = "back"
    BY <1>2, LeavesEmpty
  <2>2. /\ fetch' = [fetch EXCEPT ![t] = Leaves(f, 31)] /\ Holds(t)
        /\ open' = open \ {fetch[t].sock}
    BY <1>4 DEF WriteFails, Become, At, Holds, Closes
  <2>3. SocksOK'
    BY <2>1, <2>2, SocksClose
  <2>4. QED
    BY <2>1, <2>2, <2>3, FetchGoesOn
<1>5. QED
  BY <1>3, <1>4

\* The headers are those of the servers but for what an earlier one left of them.
LEMMA HeadersAreHeaders == HeaderRead \subseteq Header
<1>1. Nothing \in Header
  BY DEF Nothing, Header, Absent
<1>2. \A old \in Header, new \in Header : [old EXCEPT !.status = new.status] \in Header
  BY DEF Header
<1>3. QED
  BY <1>1, <1>2, HttpResponses DEF HeaderRead


LEMMA RefuseKeeps ==
  ASSUME FetchInv, NEW t \in Thread, Refuse(t)
  PROVE  FetchInv'
<1>1. fetch[t] \in [pc : {"header"}, mem : {Only({})}, sock : Nat, redirectsFollowed : Nat]
  BY DEF FetchInv, Fetches, Refuse, At
<1>2. PICK n \in Nat : Become(t, Leaves(fetch[t], n))
  <2>1. \A s \in DOMAIN Refusal : Refusal[s] \in Nat
    BY DEF Refusal
  <2>2. QED
    BY <2>1 DEF Refuse, Heads
<1>3. Leaves(fetch[t], n) \in Fetches /\ Leaves(fetch[t], n).pc = "back"
  BY <1>1, LeavesEmpty
<1>4. /\ fetch' = [fetch EXCEPT ![t] = Leaves(fetch[t], n)] /\ Holds(t)
      /\ open' = open \ {fetch[t].sock}
  BY <1>2 DEF Refuse, Become, At, Holds, Closes
<1>5. SocksOK'
  BY <1>3, <1>4, SocksClose
<1>6. QED
  BY <1>3, <1>4, <1>5, FetchGoesOn

LEMMA RedirectKeeps ==
  ASSUME FetchInv, NEW t \in Thread, Redirect(t)
  PROVE  FetchInv'
<1> DEFINE f == Counted(fetch[t])
           more == Allocs(f, "url")
<1>1. fetch[t] \in [pc : {"header"}, mem : {Only({})}, sock : Nat, redirectsFollowed : Nat]
  BY DEF FetchInv, Fetches, Redirect, At
<1>2. f = [pc |-> "header", mem |-> Only({}), sock |-> fetch[t].sock,
           redirectsFollowed |-> fetch[t].redirectsFollowed + 1]
  BY <1>1 DEF Counted
<1>3. more = [f EXCEPT !.mem = Only({"url"})]
  <2>1. {} \cup {"url"} = {"url"}
    OBVIOUS
  <2>2. [Only({}) EXCEPT !["url"] = @ + 1] = Only({"url"})
    BY <2>1, MemAlloc DEF Buffers
  <2>3. QED
    BY <1>2, <2>2 DEF Allocs
<1>4. more.mem = Only({"url"}) /\ "mem" \in DOMAIN more
  BY <1>2, <1>3
<1>5. PICK location \in Host \cup {NULL} :
        \/ Become(t, Leaves(f, 302)) /\ Closes(f)
        \/ Become(t, Leaves(Frees(more, {"url"}), 302)) /\ Closes(f)
        \/ /\ location # NULL
           /\ Become(t, [pc |-> "request", host |-> location, mem |-> more.mem,
                         redirectsFollowed |-> f.redirectsFollowed, statusCode |-> 302])
           /\ Redirected(f)
  <2>1. \A head \in Header : head.location \in Host \cup {NULL}
    BY DEF Header
  <2>2. {head.location : head \in Heads({"redirect"})} \subseteq Host \cup {NULL}
    BY <2>1, HeadersAreHeaders DEF Heads
  <2>3. QED
    BY <2>2 DEF Redirect
<1>6. PICK new \in Fetches : Become(t, new) /\ new.pc \in {"back", "request"}
  <2>1. Leaves(f, 302) \in Fetches /\ Leaves(f, 302).pc = "back"
    BY <1>2, LeavesEmpty
  <2>2. Leaves(Frees(more, {"url"}), 302) \in Fetches
        /\ Leaves(Frees(more, {"url"}), 302).pc = "back"
    BY <1>4, MemFreeAll, LeavesEmpty
  <2>3. ASSUME location # NULL
        PROVE  [pc |-> "request", host |-> location, mem |-> more.mem,
                redirectsFollowed |-> f.redirectsFollowed, statusCode |-> 302] \in Fetches
    <3>1. f.redirectsFollowed \in Nat
      BY <1>1, <1>2
    <3>2. location \in Host
      BY <2>3
    <3>3. [pc |-> "request", host |-> location, mem |-> more.mem,
           redirectsFollowed |-> f.redirectsFollowed, statusCode |-> 302]
            \in [pc : {"request"}, host : Host, redirectsFollowed : Nat, statusCode : Nat,
                 mem : {Only({"url"})}]
      <4> HIDE DEF more, f
      <4>1. QED
        BY <3>1, <3>2, <1>4
    <3>4. QED
      BY <3>3 DEF Fetches
  <2>4. QED
    BY <1>5, <2>1, <2>2, <2>3
<1>7. /\ fetch' = [fetch EXCEPT ![t] = new] /\ Holds(t)
      /\ open' = open \ {fetch[t].sock}
  BY <1>2, <1>5, <1>6 DEF Redirect, Redirected, Become, At, Holds, Closes
<1>8. SocksOK'
  BY <1>6, <1>7, SocksClose
<1>9. QED
  BY <1>6, <1>7, <1>8, FetchGoesOn

LEMMA StartBodyKeeps ==
  ASSUME FetchInv, NEW t \in Thread, StartBody(t)
  PROVE  FetchInv'
<1> DEFINE f == fetch[t]
<1>1. f \in [pc : {"header"}, mem : {Only({})}, sock : Nat, redirectsFollowed : Nat]
  BY DEF FetchInv, Fetches, StartBody, At
<1>2. PICK head \in Header, contentLength \in Int :
        \/ Become(t, Leaves(f, 200)) /\ Closes(f)
        \/ /\ contentLength >= 0
           /\ Become(t, [pc |-> "body", sock |-> f.sock, mem |-> Allocs(f, "page").mem,
                         contentLength |-> contentLength, size |-> contentLength,
                         bytesRead |-> 0, encoded |-> head.encoded])
           /\ UNCHANGED open
  <2>1. PICK head \in Heads({"page"}) :
          LET contentLength == IF head.length = Absent THEN DefaultLen ELSE head.length
          IN  \/ Become(t, Leaves(f, 200)) /\ Closes(f)
              \/ /\ contentLength >= 0
                 /\ Become(t, [pc |-> "body", sock |-> f.sock, mem |-> Allocs(f, "page").mem,
                               contentLength |-> contentLength, size |-> contentLength,
                               bytesRead |-> 0, encoded |-> head.encoded])
                 /\ UNCHANGED open
    BY DEF StartBody
  <2>2. head \in Header
    BY HeadersAreHeaders DEF Heads
  <2>3. (IF head.length = Absent THEN DefaultLen ELSE head.length) \in Int
    BY <2>2, HttpFetchAssumption DEF Header
  <2>4. QED
    BY <2>1, <2>2, <2>3
<1>3. CASE Become(t, Leaves(f, 200)) /\ Closes(f)
  <2>1. Leaves(f, 200) \in Fetches /\ Leaves(f, 200).pc = "back"
    BY <1>1, LeavesEmpty
  <2>2. fetch' = [fetch EXCEPT ![t] = Leaves(f, 200)] /\ Holds(t) /\ open' = open \ {fetch[t].sock}
    BY <1>1, <1>3 DEF Become, Holds, Closes
  <2>3. SocksOK'
    BY <2>1, <2>2, SocksClose
  <2>4. QED
    BY <2>1, <2>2, <2>3, FetchGoesOn
<1>4. CASE /\ contentLength >= 0
           /\ Become(t, [pc |-> "body", sock |-> f.sock, mem |-> Allocs(f, "page").mem,
                         contentLength |-> contentLength, size |-> contentLength,
                         bytesRead |-> 0, encoded |-> head.encoded])
           /\ UNCHANGED open
  <2> DEFINE new == [pc |-> "body", sock |-> f.sock, mem |-> Allocs(f, "page").mem,
                     contentLength |-> contentLength, size |-> contentLength,
                     bytesRead |-> 0, encoded |-> head.encoded]
  <2>1. Allocs(f, "page").mem = Only({"page"})
    <3>1. {} \cup {"page"} = {"page"}
      OBVIOUS
    <3>2. [Only({}) EXCEPT !["page"] = @ + 1] = Only({"page"})
      BY <3>1, MemAlloc DEF Buffers
    <3>3. QED
      BY <1>1, <3>2 DEF Allocs
  <2>2. head.encoded \in BOOLEAN /\ contentLength \in Nat /\ f.sock \in Nat
    BY <1>1, <1>4 DEF Header
  <2>3. new \in Fetches
    BY <2>1, <2>2 DEF Fetches
  <2>4. fetch' = [fetch EXCEPT ![t] = new] /\ open' = open /\ Holds(t)
    BY <1>1, <1>4 DEF Become, Holds
  <2>5. SocksOK'
    BY <2>4, SocksStay
  <2>6. new.size >= new.bytesRead + new.contentLength
    BY <2>2
  <2>7. QED
    <3> HIDE DEF new
    <3>1. QED
      BY <2>3, <2>4, <2>5, <2>6, FetchGoesOn
<1>5. QED
  BY <1>2, <1>3, <1>4


\* The loop that reads the body: it has room for what it may read next.
LEMMA ReadBodyKeeps ==
  ASSUME FetchInv, NEW t \in Thread, ReadBody(t)
  PROVE  FetchInv'
<1> DEFINE f == fetch[t]
<1>1. f \in [pc : {"body"}, sock : Nat, mem : {Only({"page"})}, contentLength : Nat, size : Nat,
             bytesRead : Nat, encoded : BOOLEAN]
  BY DEF FetchInv, Fetches, ReadBody, At
<1>2. PICK ret \in 1 .. f.contentLength :
        Become(t, [f EXCEPT !.bytesRead = @ + ret, !.size = Grown(f, ret)])
  BY DEF ReadBody
<1> DEFINE new == [f EXCEPT !.bytesRead = @ + ret, !.size = Grown(f, ret)]
<1>3. new.bytesRead = f.bytesRead + ret /\ new.size = new.bytesRead + f.contentLength
      /\ new.contentLength = f.contentLength /\ new.sock = f.sock /\ new.pc = "body"
  BY <1>1 DEF Grown
<1>4. new.bytesRead \in Nat /\ new.size \in Nat
  BY <1>1, <1>3
<1>5. new \in Fetches
  BY <1>1, <1>4 DEF Fetches
<1>6. fetch' = [fetch EXCEPT ![t] = new] /\ open' = open /\ Holds(t)
  BY <1>1, <1>2 DEF ReadBody, Become, Holds
<1>7. SocksOK'
  <2> HIDE DEF new
  <2>1. QED
    BY <1>3, <1>6, SocksStay
<1>8. new.size >= new.bytesRead + new.contentLength
  BY <1>1, <1>3, <1>4
<1>9. QED
  <2> HIDE DEF new
  <2>1. QED
    BY <1>5, <1>6, <1>7, <1>8, FetchGoesOn

LEMMA BodyEndsKeeps ==
  ASSUME FetchInv, NEW t \in Thread, BodyFails(t) \/ Finish(t)
  PROVE  FetchInv'
<1> DEFINE f == fetch[t]
           decoded == Frees(Allocs(f, "page"), {"page"})
<1>1. f \in [pc : {"body"}, sock : Nat, mem : {Only({"page"})}, contentLength : Nat, size : Nat,
             bytesRead : Nat, encoded : BOOLEAN]
  BY DEF FetchInv, Fetches, BodyFails, Finish, At
<1>2. BodyFailed(f).mem = Only({})
  BY <1>1, MemFreeAll DEF BodyFailed
<1>3. decoded.mem = Only({"page"})
  <2>1. \A b \in Buffers : decoded.mem[b] = f.mem[b]
    BY <1>1 DEF Frees, Allocs, Only, Buffers
  <2>2. DOMAIN decoded.mem = Buffers /\ decoded.mem = [b \in Buffers |-> decoded.mem[b]]
    BY <1>1 DEF Frees, Allocs
  <2>3. QED
    BY <1>1, <2>1, <2>2 DEF Only
<1>4. \A g : g.mem = Only({"page"}) => Returns(g) \in Fetches /\ Returns(g).pc = "back"
  BY DEF Returns, Leaves, Fetches
<1>5. PICK new \in Fetches : Become(t, new) /\ new.pc = "back"
  BY <1>1, <1>2, <1>3, <1>4, LeavesEmpty DEF BodyFails, Finish
<1>6. /\ fetch' = [fetch EXCEPT ![t] = new] /\ Holds(t)
      /\ open' = open \ {fetch[t].sock}
  BY <1>1, <1>5 DEF BodyFails, Finish, Become, Holds, Closes
<1>7. SocksOK'
  BY <1>5, <1>6, SocksClose
<1>8. QED
  BY <1>5, <1>6, <1>7, FetchGoesOn

\* http_get frees the page, and nothing else is left.
LEMMA ReportKeeps ==
  ASSUME FetchInv, NEW t \in Thread, Report(t)
  PROVE  FetchInv'
<1> DEFINE f == fetch[t]
           left == IF f.ok THEN Frees(f, {"page"}) ELSE f
<1>1. f \in [pc : {"back"}, mem : {Only({})}, ok : {FALSE}, statusCode : Nat]
            \cup [pc : {"back"}, mem : {Only({"page"})}, ok : {TRUE}, statusCode : Nat]
  BY DEF FetchInv, Fetches, Report, At
<1>2. left.mem = Only({})
  BY <1>1, MemFreeAll
<1>3. \A b \in Buffers : left.mem[b] = 0
  BY <1>2 DEF Only
<1>4. fetch' = [fetch EXCEPT ![t] = Idle] /\ open' = open /\ ~Holds(t)
  BY <1>1, <1>3 DEF Report, Become, Holds
<1>5. Idle \in Fetches /\ Idle.pc = "idle"
  BY DEF Idle, Fetches
<1>6. SocksOK'
  BY <1>4, <1>5, SocksStay
<1>7. QED
  BY <1>4, <1>5, <1>6, FetchGoesOn


\* Both invariants hold in every reachable state.
Inv == IpInv /\ FetchInv

LEMMA InvHolds == Spec => []Inv
<1>1. Init => Inv
  <2> SUFFICES ASSUME Init PROVE Inv
    OBVIOUS
  <2> USE DEF Init, InitIp
  <2>1. \A t \in Thread : call[t].pc = "idle" /\ fetch[t] = Idle /\ fetch[t].pc = "idle"
    BY DEF Idle
  <2>2. CacheOK /\ now \in 0 .. MaxTime
    BY NoNode, IpCacheAssumption DEF CacheOK, Cached
  <2>3. call \in [Thread -> Calls] /\ \A t \in Thread : CallOK(call[t])
    BY <2>1 DEF Calls, CallOK
  <2>4. fetch \in [Thread -> Fetches]
    BY DEF Idle, Fetches
  <2>5. SocksOK /\ BodyFits
    BY <2>1, FS_EmptySet DEF SocksOK, BodyFits, Holds, At
  <2>6. QED
    BY <2>2, <2>3, <2>4, <2>5 DEF Inv, IpInv, FetchInv
<1>2. Inv /\ [Next]_vars => Inv'
  <2> SUFFICES ASSUME Inv, [Next]_vars PROVE Inv'
    OBVIOUS
  <2>1. IpInv /\ FetchInv
    BY DEF Inv
  <2>2. ASSUME UNCHANGED ipVars PROVE IpInv'
    <3>1. now \in Nat /\ now' = now /\ g_ipRBdict' = g_ipRBdict /\ call' = call
      BY <2>1, <2>2 DEF IpInv, ipVars
    <3>2. now' \in now .. MaxTime /\ call' \in [Thread -> Calls]
      BY <2>1, <3>1 DEF IpInv
    <3>3. QED
      BY <2>1, <3>1, <3>2, RestKeeps
  <2>3. ASSUME UNCHANGED <<open, fetch>> PROVE FetchInv'
    BY <2>1, <2>3 DEF FetchInv, SocksOK, BodyFits, Holds, At
  <2>4. ASSUME NEW t \in Thread, Return(t) PROVE IpInv'
    <3>1. call' = [call EXCEPT ![t] = [pc |-> "idle"]] /\ now' = now /\ g_ipRBdict' = g_ipRBdict
      BY <2>4 DEF Return
    <3>2. [pc |-> "idle"] \in Calls
      BY DEF Calls
    <3>3. /\ now' \in now .. MaxTime /\ call' \in [Thread -> Calls]
          /\ \A u \in Thread : call'[u] = call[u] \/ call'[u] = [pc |-> "idle"]
      BY <2>1, <3>1, <3>2, IpCacheAssumption DEF IpInv
    <3>4. QED
      BY <2>1, <3>1, <3>3, RestKeeps
  <2>5. CASE Clock
    <3>1. now < MaxTime /\ now' = now + 1 /\ g_ipRBdict' = g_ipRBdict /\ call' = call
      BY <2>5 DEF Clock, Tick
    <3>2. now' \in now .. MaxTime /\ call' \in [Thread -> Calls]
      BY <2>1, <3>1, IpCacheAssumption DEF IpInv
    <3>3. IpInv'
      BY <2>1, <3>1, <3>2, RestKeeps
    <3>4. FetchInv'
      BY <2>3, <2>5 DEF Clock
    <3>5. QED
      BY <3>3, <3>4 DEF Inv
  <2>6. ASSUME NEW t \in Thread, IpStep(t), UNCHANGED <<open, fetch, fetched>> PROVE Inv'
    BY <2>1, <2>3, <2>6, SearchKeeps, InsertKeeps, ResolveKeeps, ReadKeeps DEF IpStep, Inv
  <2>7. ASSUME NEW t \in Thread, FetchStep(t) PROVE Inv'
    <3>1. CASE Begin(t)
      BY <2>1, <2>2, <3>1, BeginKeeps DEF Begin, Inv
    <3>2. CASE BuildRequest(t)
      <4>1. IpInv'
        <5>1. UNCHANGED ipVars \/ GetIp(t, fetch[t].host)
          BY <3>2 DEF BuildRequest
        <5>2. fetch[t].host \in Host
          BY <2>1, <3>2 DEF BuildRequest, FetchInv, Fetches, At
        <5>3. QED
          BY <2>1, <2>2, <5>1, <5>2, GetIpKeeps
      <4>2. QED
        BY <2>1, <3>2, <4>1, BuildRequestKeeps DEF Inv
    <3>3. CASE ConnectFails(t)
      BY <2>1, <2>4, <3>3, ConnectFailsKeeps DEF ConnectFails, Inv
    <3>4. CASE Connect(t)
      BY <2>1, <2>4, <3>4, ConnectKeeps DEF Connect, Inv
    <3>5. CASE WriteFails(t) \/ Write(t)
      BY <2>1, <2>2, <3>5, WriteKeeps DEF WriteFails, Write, Inv
    <3>6. CASE Refuse(t)
      BY <2>1, <2>2, <3>6, RefuseKeeps DEF Refuse, Inv
    <3>7. CASE Redirect(t)
      BY <2>1, <2>2, <3>7, RedirectKeeps DEF Redirect, Inv
    <3>8. CASE StartBody(t)
      BY <2>1, <2>2, <3>8, StartBodyKeeps DEF StartBody, Inv
    <3>9. CASE ReadBody(t)
      BY <2>1, <2>2, <3>9, ReadBodyKeeps DEF ReadBody, Inv
    <3>10. CASE BodyFails(t) \/ Finish(t)
      BY <2>1, <2>2, <3>10, BodyEndsKeeps DEF BodyFails, Finish, Inv
    <3>11. CASE Report(t)
      BY <2>1, <2>2, <3>11, ReportKeeps DEF Report, Inv
    <3>12. QED
      BY <2>7, <3>1, <3>2, <3>3, <3>4, <3>5, <3>6, <3>7, <3>8, <3>9, <3>10, <3>11 DEF FetchStep
  <2>8. CASE UNCHANGED vars
    BY <2>2, <2>3, <2>8 DEF vars, Inv
  <2>9. QED
    BY <2>5, <2>6, <2>7, <2>8 DEF Next, ThreadStep
<1>3. QED
  BY <1>1, <1>2, PTL DEF Spec

\* What get_ip returns is an address that host had, or lacked, at most a day before the
\* call; only a thread whose node was replaced under it gets what freed memory holds.
THEOREM AddressesFresh == Spec => []AddressFresh
<1>1. Inv => AddressFresh
  BY DEF Inv, IpInv, CallOK, AddressFresh
<1>2. QED
  BY <1>1, InvHolds, PTL

\* No way out of http_fetch, and no redirect, keeps a descriptor or a buffer or frees one
\* twice, for any number of threads and any headers.
THEOREM NoLeak == Spec => []NothingLeaks
<1>1. Inv => NothingLeaks
  <2> SUFFICES ASSUME Inv PROVE NothingLeaks
    OBVIOUS
  <2>1. ASSUME NEW t \in Thread
        PROVE  ~At(t, "leaked") /\ (~At(t, "idle") => \A b \in Buffers : fetch[t].mem[b] \in {0, 1})
    <3>1. fetch[t] \in Fetches
      BY DEF Inv, FetchInv
    <3>2. fetch[t].pc # "leaked"
      BY <3>1 DEF Fetches
    <3>3. fetch[t].pc # "idle" => \E A \in SUBSET Buffers : fetch[t].mem = Only(A)
      BY <3>1 DEF Fetches, Buffers
    <3>4. QED
      BY <3>2, <3>3 DEF At, Only
  <2>2. QED
    BY <2>1 DEF Inv, FetchInv, SocksOK, NothingLeaks
<1>2. QED
  BY <1>1, InvHolds, PTL

\* Every read of the body has room for what it may read, whatever length the header gave.
THEOREM RoomForBody == Spec => []BodyFits
<1>1. Inv => BodyFits
  BY DEF Inv, FetchInv
<1>2. QED
  BY <1>1, InvHolds, PTL

=============================================================================
