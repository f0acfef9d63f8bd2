------------------------------- MODULE IpCache -------------------------------
(***************************************************************************)
(* httpget/ip_cache.c: the addresses of hosts, which the fetcher's threads *)
(* share.  An address is what a name server said of a host at some time;   *)
(* that there is none is cached like an address (INADDR_NONE).             *)
(***************************************************************************)
EXTENDS Integers

CONSTANTS
  Thread,       \* the threads of the fetcher
  Host,         \* names
  MAX_IP_NUM,   \* addresses kept of a host
  Known,        \* host |-> how many addresses a name server may give for it; 0: none
  Day,          \* for how long they are used
  MaxTime,      \* bound on the clock
  NULL,         \* no dictionary, no node; a search's 0
  Freed,        \* what is read from memory that was freed
  Wild          \* what is read behind the array

ASSUME IpCacheAssumption ==
  /\ MAX_IP_NUM \in Nat \ {0} /\ Day \in Nat /\ MaxTime \in Nat
  /\ Known \in [Host -> SUBSET (0 .. MAX_IP_NUM)]

VARIABLES
  now,          \* time(NULL)
  g_ipRBdict,   \* host |-> its node, once there is a dictionary
  call          \* thread |-> its call of get_ip

ipVars == <<now, g_ipRBdict, call>>

\* A node: the place whose turn it is, how many addresses the name server gave, when it
\* gave them, and when it was asked.
Node == [pos : 0 .. MAX_IP_NUM, n : 0 .. MAX_IP_NUM, at : 0 .. MaxTime, refreshTime : 0 .. MaxTime]
Address == [host : Host, found : BOOLEAN, at : 0 .. MaxTime]

ASSUME NoNode == NULL \notin Node \cup [Host -> {NULL} \cup Node]

\* addr[i]: an address, or 0 behind the last; every place says so when there is none.
\* Behind the array is refreshTime.
Addr(host, i) ==
  LET node == g_ipRBdict[host]
  IN  CASE i >= MAX_IP_NUM -> Wild
        [] i < MAX_IP_NUM /\ (i < node.n \/ node.n = 0) ->
             [host |-> host, found |-> node.n # 0, at |-> node.at]
        [] OTHER -> NULL

InitIp ==
  /\ now = 0
  /\ g_ipRBdict = NULL
  /\ call = [t \in Thread |-> [pc |-> "idle"]]

-----------------------------------------------------------------------------
\* get_ip(host): a search when there is a dictionary, which is asked without the mutex.
GetIp(t, host) ==
  /\ call' = [call EXCEPT ![t] = [pc |-> IF g_ipRBdict = NULL THEN "insert" ELSE "search",
                                  host |-> host, asked |-> now]]
  /\ UNCHANGED <<now, g_ipRBdict>>

\* What get_ip returned: an address, or 0 for a host that has none.
Answer(t, ip) == call' = [call EXCEPT ![t] = [pc |-> "done", host |-> @.host, asked |-> @.asked,
                                              ip |-> ip]]

\* Slip: the place after the last is not wrapped.
Turn_Unwrapped(node) == node.pos

\* The place whose turn it is.
Turn(node) == IF node.pos >= MAX_IP_NUM THEN 0 ELSE node.pos

\* Slip: what was cached is used for ever.
Expired_Never(node) == FALSE
Expired(node) == now - node.refreshTime > Day

\* ip_search: the addresses take turns; at the end of them it starts again.
SearchIp(t) ==
  LET host == call[t].host
      node == g_ipRBdict[host]
      i == Turn(node)
      next == Addr(host, i)
  IN  /\ call[t].pc = "search"
      /\ IF node = NULL \/ Expired(node)
         THEN call' = [call EXCEPT ![t].pc = "insert"] /\ UNCHANGED g_ipRBdict
         ELSE /\ Answer(t, IF next = NULL THEN Addr(host, 0) ELSE next)
              /\ g_ipRBdict' = [g_ipRBdict EXCEPT ![host].pos = IF next = NULL THEN 0 ELSE i + 1]
      /\ UNCHANGED now

\* ip_insert: the dictionary is made by the first, and the node's time is taken before the
\* name server is asked.
Insert(t) ==
  /\ call[t].pc = "insert"
  /\ g_ipRBdict' = IF g_ipRBdict = NULL THEN [h \in Host |-> NULL] ELSE g_ipRBdict
  /\ call' = [call EXCEPT ![t] = [pc |-> "resolve", host |-> @.host, asked |-> @.asked,
                                  refreshTime |-> now]]
  /\ UNCHANGED now

\* update_ip: the name server answers, and the node is put into the dictionary, which frees
\* the host's old one: a thread that is about to read that will read freed memory.
Resolve(t) ==
  LET host == call[t].host
      stale(u) == u # t /\ call[u].pc = "read" /\ call[u].host = host
  IN  /\ call[t].pc = "resolve"
      /\ \E n \in Known[host] :
           g_ipRBdict' = [g_ipRBdict EXCEPT ![host] =
                            [pos |-> 0, n |-> n, at |-> now, refreshTime |-> call[t].refreshTime]]
      /\ call' = [u \in Thread |->
                    CASE u = t -> [pc |-> "read", host |-> host, asked |-> call[t].asked, mine |-> TRUE]
                      [] stale(u) -> [call[u] EXCEPT !.mine = FALSE]
                      [] OTHER -> call[u]]
      /\ UNCHANGED now

\* return node->addr[0], after the mutex was given back: the node in the dictionary, while
\* that is the one this thread put there.
Read(t) ==
  /\ call[t].pc = "read"
  /\ Answer(t, IF call[t].mine THEN Addr(call[t].host, 0) ELSE Freed)
  /\ UNCHANGED <<now, g_ipRBdict>>

\* The caller has the address.
Return(t) == call' = [call EXCEPT ![t] = [pc |-> "idle"]] /\ UNCHANGED <<now, g_ipRBdict>>

Tick == now < MaxTime /\ now' = now + 1 /\ UNCHANGED <<g_ipRBdict, call>>

\* What get_ip returns is an address that host itself had, or lacked, at most a day before
\* the call, whoever resolved it, however often it was replaced and whichever turn it is.
\* Only a thread whose node was replaced before it read it gets what freed memory holds.
AddressFresh ==
  \A t \in Thread :
    LET c == call[t]
    IN  c.pc = "done" /\ c.ip # Freed =>
          c.ip \in Address /\ c.ip.host = c.host /\ c.asked - c.ip.at <= Day

IpStep(t) == SearchIp(t) \/ Insert(t) \/ Resolve(t) \/ Read(t)
=============================================================================
