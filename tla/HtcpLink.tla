------------------------------ MODULE HtcpLink ------------------------------
(***************************************************************************)
(* One of the crawler's links: threads that node_send messages to threads  *)
(* of another process that node_recv them, over one TCP connection at a    *)
(* time (Hootcp.c), which both ends replace when a call on it fails.       *)
(*                                                                         *)
(*   link     sender             receiver           parts   who listens    *)
(*   fetch    center             neofetch           1       sender         *)
(*   page     neofetch           neoproduce         2       sender         *)
(*   result   neoproduce         center             1       receiver       *)
(*                                                                         *)
(* The page link sends a record and its HTML as two htcp messages.  An     *)
(* htcp message is a head (key and length) and a body: the pieces that     *)
(* travel.  A piece arrives whole or, where a connection ends, cut.        *)
(***************************************************************************)
EXTENDS Integers, Sequences, FiniteSets

CONSTANTS
  Links,        \* the links: records [parts, senderListens]
  SThread, RThread, \* threads at the two ends
  BufLen,       \* pieces a connection holds before send blocks
  MaxMsg,       \* bound: messages
  MaxFault      \* bound: broken connections and process deaths

ASSUME HtcpAssumption ==
  /\ Links \subseteq [parts : Nat \ {0}, senderListens : BOOLEAN]
  /\ BufLen \in Nat \ {0} /\ MaxMsg \in Nat /\ MaxFault \in Nat

VARIABLES
  link,         \* which of them this is
  conns,        \* the connections, in the order they were made
  sock,         \* end |-> the connection its socket is, 0: none
  listening,    \* the listening end has its listening socket
  spc, smsg, spos, \* sender thread |-> "idle", "send" or "reopen"; its message; pieces sent
  rpc, rbuf,    \* receiver thread |-> the same with "recv"; the pieces of this attempt
  begun,        \* messages given to node_send: they are numbered in the order of send_mutex
  got,          \* what node_recv returned: for each message the messages its parts are of
  faults

vars == <<link, conns, sock, listening, spc, smsg, spos, rpc, rbuf, begun, got, faults>>

Msg == 1 .. MaxMsg
End == {"snd", "rcv"}
Listener == IF link.senderListens THEN "snd" ELSE "rcv"
Pieces == 2 * link.parts

\* Piece i of message m: heads have odd numbers.
Piece(m, i) == [msg |-> m, i |-> i, cut |-> FALSE]
Cut(piece) == [piece EXCEPT !.cut = TRUE]
IsHead(piece) == piece.i % 2 = 1

\* snd, rcv: the ends that are open; ok: the network between them; accepted: the listener
\* has taken it from its backlog.
NewConn == [data |-> <<>>, snd |-> TRUE, rcv |-> TRUE, ok |-> TRUE, accepted |-> FALSE]

Init ==
  /\ link \in Links
  /\ conns = <<>> /\ sock = [e \in End |-> 0] /\ listening = FALSE
  /\ spc = [t \in SThread |-> "idle"] /\ smsg = [t \in SThread |-> 0] /\ spos = [t \in SThread |-> 0]
  /\ rpc = [r \in RThread |-> "idle"] /\ rbuf = [r \in RThread |-> <<>>]
  /\ begun = 0 /\ got = <<>> /\ faults = 0

-----------------------------------------------------------------------------
(* Sockets.                                                                 *)

\* The connection accept returns next, if there is one.
Backlog == LET waiting == {c \in DOMAIN conns : ~conns[c].accepted}
           IN  {c \in waiting : \A b \in waiting : c <= b}

\* close() of the socket of end e: what the other end sent and it did not read is gone.
Closed(e) ==
  [c \in DOMAIN conns |->
     IF c # sock[e] THEN conns[c]
     ELSE IF e = "snd" THEN [conns[c] EXCEPT !.snd = FALSE]
     ELSE [conns[c] EXCEPT !.rcv = FALSE, !.data = <<>>]]

\* The end e gives up its socket: the listener opens its listening socket if it has none.
Close(e) ==
  /\ conns' = Closed(e)
  /\ sock' = [sock EXCEPT ![e] = 0]
  /\ listening' = (listening \/ e = Listener)

\* htcp_accept at the listener, htcp_connect at the other end.
Reopen(e) ==
  \/ /\ e = Listener
     /\ \E c \in Backlog :
          /\ conns' = [conns EXCEPT ![c].accepted = TRUE]
          /\ sock' = [sock EXCEPT ![e] = c]
     /\ UNCHANGED listening
  \/ /\ e # Listener /\ listening
     /\ conns' = Append(conns, NewConn)
     /\ sock' = [sock EXCEPT ![e] = Len(conns) + 1]
     /\ UNCHANGED listening

-----------------------------------------------------------------------------
(* node_send.                                                               *)

\* send_mutex can be taken.
SendFree == \A t \in SThread : spc[t] = "idle"

SendBegin(t) ==
  /\ spc[t] = "idle" /\ SendFree /\ begun < MaxMsg
  /\ begun' = begun + 1
  /\ spc' = [spc EXCEPT ![t] = "send"]
  /\ smsg' = [smsg EXCEPT ![t] = begun + 1]
  /\ UNCHANGED <<link, conns, sock, listening, spos, rpc, rbuf, got, faults>>

Reachable(c) == conns[c].rcv /\ conns[c].ok

NextPiece(t) == Piece(smsg[t], spos[t] + 1)

PosAfter(t, last) == IF last THEN 0 ELSE spos[t] + 1

\* send() took the piece.  A connection that is already dead may take it, too; it goes
\* nowhere.
SendPiece(t) ==
  LET c == sock["snd"]
      last == spos[t] + 1 = Pieces
  IN
  /\ spc[t] = "send" /\ c # 0
  /\ \/ /\ Reachable(c) /\ Len(conns[c].data) < BufLen
        /\ conns' = [conns EXCEPT ![c].data = Append(@, NextPiece(t))]
     \/ /\ ~Reachable(c)
        /\ UNCHANGED conns
  /\ spos' = [spos EXCEPT ![t] = PosAfter(t, last)]
  /\ spc' = [spc EXCEPT ![t] = IF last THEN "idle" ELSE "send"]
  /\ smsg' = [smsg EXCEPT ![t] = IF last THEN 0 ELSE @]
  /\ UNCHANGED <<link, sock, listening, rpc, rbuf, begun, got, faults>>

\* Slip: the thread tries its luck with the old socket.
AfterError_Retry == "send"

AfterError == "reopen"

\* send() failed, or there was no socket: close it.  The loop starts again with the first part.
SendError(t) ==
  /\ spc[t] = "send"
  /\ sock["snd"] # 0 => ~Reachable(sock["snd"])
  /\ Close("snd")
  /\ spc' = [spc EXCEPT ![t] = AfterError]
  /\ spos' = [spos EXCEPT ![t] = 0]
  /\ UNCHANGED <<link, smsg, rpc, rbuf, begun, got, faults>>

SendReopen(t) ==
  /\ spc[t] = "reopen"
  /\ Reopen("snd")
  /\ spc' = [spc EXCEPT ![t] = "send"]
  /\ UNCHANGED <<link, smsg, spos, rpc, rbuf, begun, got, faults>>

-----------------------------------------------------------------------------
(* node_recv.                                                               *)

\* recv_mutex can be taken.
RecvFree == \A r \in RThread : rpc[r] = "idle"

RecvBegin(r) ==
  /\ rpc[r] = "idle" /\ RecvFree
  /\ rpc' = [rpc EXCEPT ![r] = "recv"]
  /\ UNCHANGED <<link, conns, sock, listening, spc, smsg, spos, rbuf, begun, got, faults>>

\* htcp_recv takes what has its full length, and as a head only what has the key.
Fits(r, piece) == ~piece.cut /\ (IsHead(Piece(0, Len(rbuf[r]) + 1)) => IsHead(piece))

\* The messages the parts in a buffer are of.
PartsOf(buf) == [p \in 1 .. link.parts |-> buf[2 * p].msg]

RecvPiece(r) ==
  LET c == sock["rcv"]
      buf == Append(rbuf[r], Head(conns[c].data))
      last == Len(buf) = Pieces
  IN
  /\ rpc[r] = "recv" /\ c # 0
  /\ conns[c].data # <<>> /\ Fits(r, Head(conns[c].data))
  /\ conns' = [conns EXCEPT ![c].data = Tail(@)]
  /\ rbuf' = [rbuf EXCEPT ![r] = IF last THEN <<>> ELSE buf]
  /\ rpc' = [rpc EXCEPT ![r] = IF last THEN "idle" ELSE "recv"]
  /\ got' = IF last THEN Append(got, PartsOf(buf)) ELSE got
  /\ UNCHANGED <<link, sock, listening, spc, smsg, spos, begun, faults>>

\* Slip: the record that came before the failure is kept, and only the HTML is read anew.
KeptAfterError_Parts(r) == SubSeq(rbuf[r], 1, 2 * (Len(rbuf[r]) \div 2))

\* The attempt is over: the loop starts again with the first part.
KeptAfterError(r) == <<>>

\* recv() failed, found the end or something that does not fit, or there was no socket.
RecvError(r) ==
  LET c == sock["rcv"] IN
  /\ rpc[r] = "recv"
  /\ \/ c = 0
     \/ c # 0 /\ conns[c].data = <<>> /\ ~(conns[c].snd /\ conns[c].ok)
     \/ c # 0 /\ conns[c].data # <<>> /\ ~Fits(r, Head(conns[c].data))
  /\ Close("rcv")
  /\ rpc' = [rpc EXCEPT ![r] = "reopen"]
  /\ rbuf' = [rbuf EXCEPT ![r] = KeptAfterError(r)]
  /\ UNCHANGED <<link, spc, smsg, spos, begun, got, faults>>

RecvReopen(r) ==
  /\ rpc[r] = "reopen"
  /\ Reopen("rcv")
  /\ rpc' = [rpc EXCEPT ![r] = "recv"]
  /\ UNCHANGED <<link, spc, smsg, spos, rbuf, begun, got, faults>>

-----------------------------------------------------------------------------
(* Faults.                                                                  *)

\* What the sender is just writing to connection c.
Writing(c) == {NextPiece(t) : t \in {s \in SThread : spc[s] = "send" /\ sock["snd"] = c}}

\* What can be left of the data of c: pieces in front, and perhaps a part of the next.
Truncated(c) ==
  LET data == conns[c].data
      next(k) == IF k < Len(data) THEN {data[k + 1]} ELSE Writing(c)
  IN  UNION {{SubSeq(data, 1, k)} \cup {Append(SubSeq(data, 1, k), Cut(p)) : p \in next(k)} :
             k \in 0 .. Len(data)}

\* A connection breaks; its ends notice when they use it, or by keepalive.
Break(c) ==
  /\ faults < MaxFault /\ conns[c].snd /\ Reachable(c)
  /\ faults' = faults + 1
  /\ \E data \in Truncated(c) : conns' = [conns EXCEPT ![c].ok = FALSE, ![c].data = data]
  /\ UNCHANGED <<link, sock, listening, spc, smsg, spos, rpc, rbuf, begun, got>>

\* A process dies: its end of every connection is closed, and its listening socket, and it
\* starts again.  What it had sent can still be read.
Death(e) ==
  /\ faults < MaxFault
  /\ faults' = faults + 1
  /\ conns' = [c \in DOMAIN conns |->
                 LET conn == [conns[c] EXCEPT !.accepted = @ \/ e = Listener]
                 IN  IF e = "snd" THEN [conn EXCEPT !.snd = FALSE]
                     ELSE [conn EXCEPT !.rcv = FALSE, !.data = <<>>]]
  /\ sock' = [sock EXCEPT ![e] = 0]
  /\ listening' = (listening /\ e # Listener)

SenderDeath ==
  /\ Death("snd")
  /\ spc' = [t \in SThread |-> "idle"] /\ smsg' = [t \in SThread |-> 0] /\ spos' = [t \in SThread |-> 0]
  /\ UNCHANGED <<link, rpc, rbuf, begun, got>>

ReceiverDeath ==
  /\ Death("rcv")
  /\ rpc' = [r \in RThread |-> "idle"] /\ rbuf' = [r \in RThread |-> <<>>]
  /\ UNCHANGED <<link, spc, smsg, spos, begun, got>>

-----------------------------------------------------------------------------
SendStep(t) == SendPiece(t) \/ SendError(t) \/ SendReopen(t)
RecvStep(r) == RecvPiece(r) \/ RecvError(r) \/ RecvReopen(r)

Next ==
  \/ \E t \in SThread : SendBegin(t) \/ SendStep(t)
  \/ \E r \in RThread : RecvBegin(r) \/ RecvStep(r)
  \/ \E c \in DOMAIN conns : Break(c)
  \/ SenderDeath \/ ReceiverDeath

Spec == Init /\ [][Next]_vars

\* Threads run, and the receivers come back for more; nobody has to send.
FairSpec ==
  /\ Spec
  /\ \A t \in SThread : WF_vars(SendStep(t))
  /\ \A r \in RThread : WF_vars(RecvStep(r))
  /\ WF_vars(\E r \in RThread : RecvBegin(r))

-----------------------------------------------------------------------------
\* Types.
ConnType == [data : Seq([msg : Msg, i : 1 .. Pieces, cut : BOOLEAN]),
             snd : BOOLEAN, rcv : BOOLEAN, ok : BOOLEAN, accepted : BOOLEAN]
TypeOK ==
  /\ link \in Links
  /\ conns \in Seq(ConnType)
  /\ sock \in [End -> 0 .. Len(conns)]
  /\ listening \in BOOLEAN
  /\ spc \in [SThread -> {"idle", "send", "reopen"}]
  /\ smsg \in [SThread -> Msg \cup {0}] /\ spos \in [SThread -> 0 .. (Pieces - 1)]
  /\ rpc \in [RThread -> {"idle", "recv", "reopen"}]
  /\ rbuf \in [RThread -> Seq([msg : Msg, i : 1 .. Pieces, cut : BOOLEAN])]
  /\ begun \in 0 .. MaxMsg /\ got \in Seq([1 .. link.parts -> Msg])
  /\ faults \in 0 .. MaxFault

\* The messages of which the last piece is on its way: they can be received, unless it gets lost.
OnTheWay ==
  {m \in Msg : \E c \in DOMAIN conns : \E j \in DOMAIN conns[c].data :
     LET piece == conns[c].data[j] IN piece.msg = m /\ piece.i = Pieces /\ ~piece.cut}

\* A set of numbers in order.
Rank(S, m) == Cardinality({k \in S : k <= m})
Sorted(S) == [i \in 1 .. Cardinality(S) |-> CHOOSE m \in S : Rank(S, m) = i]

Queue == Sorted(OnTheWay)

\* The messages node_send has returned from, or that died with their sender.
Sent == {m \in 1 .. begun : \A t \in SThread : smsg[t] # m}

\* What the receivers got, as messages; 0 for one whose parts are of different messages.
Received ==
  [k \in DOMAIN got |-> IF \A p \in 1 .. link.parts : got[k][p] = got[k][1] THEN got[k][1] ELSE 0]

\* Every message node_recv returns has all its parts from one message, and messages come in
\* the order they were given to node_send, each at most once: no record with the HTML of
\* another, whichever end fails or dies in between.
WholeInOrder ==
  /\ \A g \in DOMAIN got : \A p \in 1 .. link.parts : got[g][p] = got[g][1]
  /\ \A g, h \in DOMAIN got : g < h => got[g][1] < got[h][1]

Channel == INSTANCE LossyChannel WITH queue <- Queue, sent <- Sent, got <- Received

\* The link is a channel of whole messages: a record arrives with its own HTML, at most
\* once, and in the order of the sends, across failures, reconnections and deaths.
ChannelSpec == Channel!Spec

\* node_send returns: whoever fails first, both ends find back to one connection.
SendReturns == \A t \in SThread : (spc[t] # "idle") ~> (spc[t] = "idle")
=============================================================================
