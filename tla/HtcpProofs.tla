----------------------------- MODULE HtcpProofs -----------------------------
(***************************************************************************)
(* Proofs about a link of the crawler: for any number of threads, parts,   *)
(* messages, pieces on the way, broken connections and deaths, what        *)
(* node_recv returns are whole messages, in the order they were sent, and  *)
(* the link is a channel that may lose messages.                           *)
(***************************************************************************)
EXTENDS HtcpLink, TLAPS, SequenceTheorems, FiniteSetTheorems, FunctionTheorems

PieceType == [msg : Msg, i : 1 .. Pieces, cut : BOOLEAN]

-----------------------------------------------------------------------------
\* A thread that has no mutex has no message and no pieces; one that reopens has no socket.
Alone ==
  /\ \A t, u \in SThread : spc[t] # "idle" /\ spc[u] # "idle" => t = u
  /\ \A t \in SThread : spc[t] = "idle" => smsg[t] = 0
  /\ \A t \in SThread : spc[t] # "idle" => smsg[t] = begun /\ begun # 0
  /\ \A t \in SThread : spc[t] # "send" => spos[t] = 0
  /\ \A t \in SThread : spc[t] = "reopen" => sock["snd"] = 0
  /\ \A r, q \in RThread : rpc[r] # "idle" /\ rpc[q] # "idle" => r = q
  /\ \A r \in RThread : rpc[r] # "recv" => rbuf[r] = <<>>
  /\ \A r \in RThread : rpc[r] = "reopen" => sock["rcv"] = 0
  /\ sock["rcv"] = 0 => \A r \in RThread : rbuf[r] = <<>>

\* The ends of a connection that are open: an end's socket, and at the listener those that
\* were not accepted.  The listener accepts in order, the other end uses what it made last.
IsOpen(cs, c, e) == IF e = "snd" THEN cs[c].snd ELSE cs[c].rcv
Other == IF Listener = "snd" THEN "rcv" ELSE "snd"
Ends ==
  /\ \A e \in End : sock[e] # 0 => IsOpen(conns, sock[e], e)
  /\ \A c \in DOMAIN conns, e \in End :
       IsOpen(conns, c, e) => c = sock[e] \/ (e = Listener /\ ~conns[c].accepted)
  /\ \A c \in DOMAIN conns : ~conns[c].accepted => IsOpen(conns, c, Listener)
  /\ \A b, c \in DOMAIN conns : b < c /\ conns[c].accepted => conns[b].accepted
  /\ sock[Listener] # 0 => conns[sock[Listener]].accepted
  /\ \A c \in DOMAIN conns : sock[Listener] # 0 /\ c > sock[Listener] => ~conns[c].accepted
  /\ sock[Other] # 0 => sock[Other] = Len(conns)

-----------------------------------------------------------------------------
\* Piece q comes right after piece p.
Follows(p, q) ==
  IF p.i = Pieces THEN q.i = 1 /\ q.msg > p.msg ELSE q.i = p.i + 1 /\ q.msg = p.msg

\* A receiver has the first pieces of one message.
Attempts ==
  \A r \in RThread :
    /\ Len(rbuf[r]) < Pieces
    /\ \A j \in 1 .. Len(rbuf[r]) :
         rbuf[r][j].i = j /\ rbuf[r][j].msg = rbuf[r][1].msg

\* What is on its way in a connection: nothing when it is closed or not accepted by its
\* sender; pieces that follow one another, the first what the receiver waits for, only the
\* last cut, when the connection is broken.
Flows(c) ==
  LET data == conns[c].data
  IN  /\ ~conns[c].rcv => data = <<>>
      /\ Listener = "snd" /\ ~conns[c].accepted =>
           data = <<>> /\ (c = sock["rcv"] => \A r \in RThread : rbuf[r] = <<>>)
      /\ \A j \in 1 .. Len(data) : data[j].cut => j = Len(data) /\ ~conns[c].ok
      /\ \A j \in 1 .. (Len(data) - 1) : Follows(data[j], data[j + 1])
      /\ data # <<>> =>
           /\ c # sock["rcv"] \/ (\A r \in RThread : rbuf[r] = <<>>) => data[1].i = 1
           /\ \A r \in RThread : c = sock["rcv"] /\ rbuf[r] # <<>> =>
                Follows(rbuf[r][Len(rbuf[r])], data[1])

\* The sender is where the stream ends: behind piece spos of its message or, when no thread
\* is in the middle of one, behind a whole message.
InStep ==
  LET c == sock["snd"]
      data == conns[c].data
  IN  c # 0 /\ Reachable(c) =>
        /\ \A t \in SThread : spos[t] > 0 =>
             IF data # <<>>
             THEN data[Len(data)].msg = smsg[t] /\ data[Len(data)].i = spos[t]
             ELSE /\ c = sock["rcv"]
                  /\ \E r \in RThread : /\ rbuf[r] # <<>> /\ Len(rbuf[r]) = spos[t]
                                        /\ rbuf[r][Len(rbuf[r])].msg = smsg[t]
        /\ (\A t \in SThread : spos[t] = 0) =>
             IF data # <<>> THEN data[Len(data)].i = Pieces
             ELSE c = sock["rcv"] => \A r \in RThread : rbuf[r] = <<>>

Streams == Attempts /\ (\A c \in DOMAIN conns : Flows(c)) /\ InStep

-----------------------------------------------------------------------------
\* The last piece of a message that can be received.
Completes(p) == ~p.cut /\ p.i = Pieces

\* What follows the end of a message, in its connection or a later one, is of later
\* messages; what is on its way, or held, is of later messages than what was returned; and
\* a message that is being sent has not been.
Order ==
  /\ \A c \in DOMAIN conns : \A j, k \in 1 .. Len(conns[c].data) :
       j < k /\ Completes(conns[c].data[j]) => conns[c].data[j].msg < conns[c].data[k].msg
  /\ \A b, c \in DOMAIN conns : b < c =>
       \A j \in 1 .. Len(conns[b].data), k \in 1 .. Len(conns[c].data) :
         Completes(conns[b].data[j]) => conns[b].data[j].msg < conns[c].data[k].msg
  /\ \A g \in DOMAIN got, c \in DOMAIN conns : \A j \in 1 .. Len(conns[c].data) :
       got[g][1] < conns[c].data[j].msg
  /\ \A g \in DOMAIN got, r \in RThread : \A j \in 1 .. Len(rbuf[r]) : got[g][1] < rbuf[r][j].msg
  /\ \A c \in DOMAIN conns : \A j \in 1 .. Len(conns[c].data) : conns[c].data[j].msg <= begun
  /\ \A g \in DOMAIN got : got[g][1] <= begun
  /\ \A t \in SThread : spc[t] # "idle" =>
       /\ \A g \in DOMAIN got : got[g][1] < begun
       /\ \A c \in DOMAIN conns : \A j \in 1 .. Len(conns[c].data) :
            Completes(conns[c].data[j]) => conns[c].data[j].msg < begun

IInv == TypeOK /\ Alone /\ Ends /\ Streams /\ Order /\ WholeInOrder

-----------------------------------------------------------------------------
(* Types.                                                                   *)

LEMMA FunIsSeq ==
  ASSUME NEW S, NEW n \in Nat, NEW f \in [1 .. n -> S]
  PROVE  f \in Seq(S) /\ Len(f) = n /\ DOMAIN f = 1 .. n
OBVIOUS

LEMMA AppendFacts ==
  ASSUME NEW S, NEW s \in Seq(S), NEW x \in S
  PROVE  /\ Append(s, x) \in Seq(S) /\ Len(Append(s, x)) = Len(s) + 1 /\ Append(s, x) # <<>>
         /\ Append(s, x)[Len(s) + 1] = x /\ \A j \in 1 .. Len(s) : Append(s, x)[j] = s[j]
BY AppendProperties

LEMMA EmptyIsNone ==
  ASSUME NEW S, NEW s \in Seq(S)
  PROVE  Len(s) \in Nat /\ (s = <<>> <=> Len(s) = 0)
OBVIOUS

\* The numbers of pieces and parts, and the ends.
LEMMA Basics ==
  ASSUME TypeOK
  PROVE  /\ link.parts \in Nat \ {0} /\ Pieces = 2 * link.parts
         /\ Pieces \in Nat /\ Pieces >= 2
         /\ Listener \in End /\ Other \in End /\ Listener # Other
         /\ (Listener = "snd" => Other = "rcv") /\ (Listener = "rcv" => Other = "snd")
         /\ Msg \subseteq Nat \ {0} /\ begun \in Nat
         /\ \A e \in End : sock[e] \in Nat /\ sock[e] <= Len(conns)
<1>1. link.parts \in Nat \ {0}
  BY HtcpAssumption DEF TypeOK
<1>2. /\ Msg \subseteq Nat \ {0} /\ begun \in Nat
      /\ \A e \in End : sock[e] \in Nat /\ sock[e] <= Len(conns)
  BY HtcpAssumption DEF TypeOK, Msg
<1>3. QED
  BY <1>1, <1>2 DEF Pieces, Listener, Other, End

\* A connection and what is on its way in it.
LEMMA ConnTyped ==
  ASSUME TypeOK
  PROVE  /\ Len(conns) \in Nat /\ DOMAIN conns = 1 .. Len(conns)
         /\ \A c \in DOMAIN conns :
              /\ conns[c] \in ConnType
              /\ conns[c].data \in Seq(PieceType)
              /\ Len(conns[c].data) \in Nat
              /\ DOMAIN conns[c].data = 1 .. Len(conns[c].data)
              /\ (conns[c].data = <<>> <=> Len(conns[c].data) = 0)
              /\ \A j \in 1 .. Len(conns[c].data) : conns[c].data[j] \in PieceType
         /\ \A r \in RThread :
              /\ rbuf[r] \in Seq(PieceType)
              /\ Len(rbuf[r]) \in Nat
              /\ (rbuf[r] = <<>> <=> Len(rbuf[r]) = 0)
              /\ \A j \in 1 .. Len(rbuf[r]) : rbuf[r][j] \in PieceType
<1>1. Len(conns) \in Nat /\ DOMAIN conns = 1 .. Len(conns) /\ \A c \in DOMAIN conns : conns[c] \in ConnType
  BY DEF TypeOK
<1>2. \A c \in DOMAIN conns : conns[c].data \in Seq(PieceType)
  BY <1>1 DEF ConnType, PieceType
<1>3. \A r \in RThread : rbuf[r] \in Seq(PieceType)
  BY DEF TypeOK, PieceType
<1>4. \A s \in Seq(PieceType) :
        /\ Len(s) \in Nat /\ DOMAIN s = 1 .. Len(s)
        /\ (s = <<>> <=> Len(s) = 0)
        /\ \A j \in 1 .. Len(s) : s[j] \in PieceType
  OBVIOUS
<1>5. QED
  BY <1>1, <1>2, <1>3, <1>4

\* A connection with an end closed.
LEMMA EndClosed ==
  ASSUME NEW conn \in ConnType
  PROVE  /\ [conn EXCEPT !.snd = FALSE] \in ConnType
         /\ [conn EXCEPT !.rcv = FALSE, !.data = <<>>] \in ConnType
<1>1. <<>> \in Seq([msg : Msg, i : 1 .. Pieces, cut : BOOLEAN])
  OBVIOUS
<1>2. QED
  BY <1>1 DEF ConnType

\* Closing the socket of an end, pointwise.
LEMMA ClosedFacts ==
  ASSUME TypeOK, NEW e \in End
  PROVE  /\ Closed(e) \in Seq(ConnType) /\ DOMAIN Closed(e) = DOMAIN conns
         /\ Len(Closed(e)) = Len(conns)
         /\ \A c \in DOMAIN conns :
              /\ Closed(e)[c].ok <=> conns[c].ok
              /\ Closed(e)[c].accepted <=> conns[c].accepted
              /\ Closed(e)[c].snd <=> (conns[c].snd /\ ~(e = "snd" /\ c = sock[e]))
              /\ Closed(e)[c].rcv <=> (conns[c].rcv /\ ~(e = "rcv" /\ c = sock[e]))
              /\ Closed(e)[c].data = IF e = "rcv" /\ c = sock[e] THEN <<>> ELSE conns[c].data
<1>1. \A c \in DOMAIN conns : conns[c] \in ConnType /\ Closed(e)[c] \in ConnType
  BY ConnTyped, EndClosed DEF Closed
<1>2. Closed(e) \in [1 .. Len(conns) -> ConnType]
  BY <1>1, ConnTyped DEF Closed
<1>3. \A c \in DOMAIN conns :
        /\ Closed(e)[c].ok <=> conns[c].ok
        /\ Closed(e)[c].accepted <=> conns[c].accepted
        /\ Closed(e)[c].snd <=> (conns[c].snd /\ ~(e = "snd" /\ c = sock[e]))
        /\ Closed(e)[c].rcv <=> (conns[c].rcv /\ ~(e = "rcv" /\ c = sock[e]))
        /\ Closed(e)[c].data = IF e = "rcv" /\ c = sock[e] THEN <<>> ELSE conns[c].data
  BY <1>1 DEF Closed, ConnType, End
<1>4. QED
  BY <1>2, <1>3, FunIsSeq, ConnTyped

\* The death of an end, pointwise.
LEMMA DeathFacts ==
  ASSUME TypeOK, NEW e \in End, Death(e)
  PROVE  /\ conns' \in Seq(ConnType) /\ DOMAIN conns' = DOMAIN conns
         /\ Len(conns') = Len(conns)
         /\ \A c \in DOMAIN conns :
              /\ conns'[c].ok <=> conns[c].ok
              /\ conns'[c].accepted <=> (conns[c].accepted \/ e = Listener)
              /\ conns'[c].snd <=> (conns[c].snd /\ e # "snd")
              /\ conns'[c].rcv <=> (conns[c].rcv /\ e # "rcv")
              /\ conns'[c].data = IF e = "rcv" THEN <<>> ELSE conns[c].data
         /\ sock' = [sock EXCEPT ![e] = 0]
         /\ sock' \in [End -> 0 .. Len(conns)] /\ listening' \in BOOLEAN /\ faults' \in 0 .. MaxFault
<1>1. ASSUME NEW c \in DOMAIN conns
      PROVE  conns[c] \in ConnType /\ conns'[c] \in ConnType
  <2>1. conns[c] \in ConnType
    BY ConnTyped
  <2>2. [conns[c] EXCEPT !.accepted = @ \/ e = Listener] \in ConnType
    BY <2>1 DEF ConnType
  <2>3. QED
    BY <2>1, <2>2, EndClosed DEF Death
<1>2. conns' \in [1 .. Len(conns) -> ConnType]
  BY <1>1, ConnTyped DEF Death
<1>3. \A c \in DOMAIN conns :
        /\ conns'[c].ok <=> conns[c].ok
        /\ conns'[c].accepted <=> (conns[c].accepted \/ e = Listener)
        /\ conns'[c].snd <=> (conns[c].snd /\ e # "snd")
        /\ conns'[c].rcv <=> (conns[c].rcv /\ e # "rcv")
        /\ conns'[c].data = IF e = "rcv" THEN <<>> ELSE conns[c].data
  <2> SUFFICES ASSUME NEW c \in DOMAIN conns
               PROVE  /\ conns'[c].ok <=> conns[c].ok
                      /\ conns'[c].accepted <=> (conns[c].accepted \/ e = Listener)
                      /\ conns'[c].snd <=> (conns[c].snd /\ e # "snd")
                      /\ conns'[c].rcv <=> (conns[c].rcv /\ e # "rcv")
                      /\ conns'[c].data = IF e = "rcv" THEN <<>> ELSE conns[c].data
    OBVIOUS
  <2>1. conns[c] \in ConnType
    BY <1>1
  <2>2. PICK conn : /\ conn = [conns[c] EXCEPT !.accepted = @ \/ e = Listener]
                    /\ conns'[c] = IF e = "snd" THEN [conn EXCEPT !.snd = FALSE]
                                  ELSE [conn EXCEPT !.rcv = FALSE, !.data = <<>>]
    BY Zenon DEF Death
  <2>3. /\ conn \in ConnType /\ conn.ok = conns[c].ok /\ conn.snd = conns[c].snd
        /\ conn.rcv = conns[c].rcv /\ conn.data = conns[c].data
        /\ conn.accepted <=> (conns[c].accepted \/ e = Listener)
    BY <2>1, <2>2 DEF ConnType
  <2>4. CASE e = "snd"
    <3>1. conns'[c] = [conn EXCEPT !.snd = FALSE]
      BY <2>2, <2>4
    <3>2. QED
      BY <2>3, <2>4, <3>1 DEF ConnType
  <2>5. CASE e = "rcv"
    <3>1. conns'[c] = [conn EXCEPT !.rcv = FALSE, !.data = <<>>]
      BY <2>2, <2>5
    <3>2. QED
      BY <2>3, <2>5, <3>1 DEF ConnType
  <2>6. QED
    BY <2>4, <2>5 DEF End
<1>4. /\ sock' = [sock EXCEPT ![e] = 0]
      /\ sock' \in [End -> 0 .. Len(conns)] /\ listening' \in BOOLEAN /\ faults' \in 0 .. MaxFault
  <2>1. /\ sock' = [sock EXCEPT ![e] = 0] /\ listening' = (listening /\ e # Listener)
        /\ faults < MaxFault /\ faults' = faults + 1
    BY Zenon DEF Death
  <2>2. sock \in [End -> 0 .. Len(conns)] /\ Len(conns) \in Nat /\ faults \in 0 .. MaxFault
    BY ConnTyped DEF TypeOK
  <2>3. sock' \in [End -> 0 .. Len(conns)]
    BY <2>1, <2>2
  <2>4. listening' \in BOOLEAN
    BY <2>1
  <2>5. faults' \in 0 .. MaxFault
    BY <2>1, <2>2, HtcpAssumption
  <2>6. QED
    BY <2>1, <2>3, <2>4, <2>5
<1>5. QED
  BY <1>2, <1>3, <1>4, FunIsSeq, ConnTyped

\* Reopening, pointwise: the listener takes the first connection that waits, the other end
\* makes a new one.
LEMMA ReopenFacts ==
  ASSUME TypeOK, NEW e \in End, Reopen(e)
  PROVE  /\ conns' \in Seq(ConnType) /\ Len(conns') \in Nat
         /\ DOMAIN conns' = 1 .. Len(conns') /\ Len(conns) <= Len(conns')
         /\ \A c \in DOMAIN conns :
              /\ conns'[c].ok <=> conns[c].ok
              /\ conns'[c].snd <=> conns[c].snd
              /\ conns'[c].rcv <=> conns[c].rcv
              /\ conns'[c].data = conns[c].data
         /\ \A c \in DOMAIN conns' \ DOMAIN conns : conns'[c] = NewConn
         /\ \/ /\ e = Listener /\ Len(conns') = Len(conns)
               /\ sock'[e] \in DOMAIN conns /\ ~conns[sock'[e]].accepted
               /\ \A c \in DOMAIN conns : ~conns[c].accepted => sock'[e] <= c
               /\ \A c \in DOMAIN conns : conns'[c].accepted <=> (conns[c].accepted \/ c = sock'[e])
            \/ /\ e # Listener /\ Len(conns') = Len(conns) + 1 /\ sock'[e] = Len(conns')
               /\ \A c \in DOMAIN conns : conns'[c].accepted <=> conns[c].accepted
         /\ sock' = [sock EXCEPT ![e] = sock'[e]] /\ sock' \in [End -> 0 .. Len(conns')]
         /\ listening' = listening
<1>1. CASE e = Listener
  <2>1. PICK c \in Backlog : /\ conns' = [conns EXCEPT ![c].accepted = TRUE]
                             /\ sock' = [sock EXCEPT ![e] = c]
    BY <1>1 DEF Reopen
  <2>2. c \in DOMAIN conns /\ ~conns[c].accepted /\ \A b \in DOMAIN conns : ~conns[b].accepted => c <= b
    BY <2>1 DEF Backlog
  <2>3. conns'[c] = [conns[c] EXCEPT !.accepted = TRUE] /\ \A b \in DOMAIN conns : b # c => conns'[b] = conns[b]
    BY <2>1, <2>2, ConnTyped
  <2>4. /\ conns'[c] \in ConnType
        /\ conns'[c].ok <=> conns[c].ok
        /\ conns'[c].snd <=> conns[c].snd
        /\ conns'[c].rcv <=> conns[c].rcv
        /\ conns'[c].data = conns[c].data
        /\ conns'[c].accepted = TRUE
    <3>1. conns[c] \in ConnType
      BY <2>2, ConnTyped
    <3>2. QED
      BY <2>3, <3>1 DEF ConnType
  <2>5. conns' \in [1 .. Len(conns) -> ConnType]
    BY <2>1, <2>3, <2>4, ConnTyped
  <2>6. conns' \in Seq(ConnType) /\ Len(conns') = Len(conns) /\ DOMAIN conns' = DOMAIN conns
    BY <2>5, FunIsSeq, ConnTyped
  <2>7. sock'[e] = c /\ sock' = [sock EXCEPT ![e] = sock'[e]] /\ sock' \in [End -> 0 .. Len(conns')]
    BY <2>1, <2>2, <2>6, ConnTyped DEF TypeOK
  <2>8. listening' = listening
    BY <1>1 DEF Reopen
  <2>9. \A b \in DOMAIN conns :
          /\ conns'[b].ok <=> conns[b].ok
          /\ conns'[b].snd <=> conns[b].snd
          /\ conns'[b].rcv <=> conns[b].rcv
          /\ conns'[b].data = conns[b].data
          /\ conns'[b].accepted <=> (conns[b].accepted \/ b = sock'[e])
    BY <2>2, <2>3, <2>4, <2>7
  <2>10. Len(conns') \in Nat /\ DOMAIN conns' = 1 .. Len(conns') /\ Len(conns) <= Len(conns')
    BY <2>6, ConnTyped
  <2>11. /\ sock'[e] \in DOMAIN conns /\ ~conns[sock'[e]].accepted
         /\ \A b \in DOMAIN conns : ~conns[b].accepted => sock'[e] <= b
    BY <2>2, <2>7
  <2>12. QED
    BY <1>1, <2>6, <2>7, <2>8, <2>9, <2>10, <2>11
<1>2. CASE e # Listener
  <2>1. conns' = Append(conns, NewConn) /\ sock' = [sock EXCEPT ![e] = Len(conns) + 1] /\ listening' = listening
    BY <1>2 DEF Reopen
  <2>2. NewConn \in ConnType
    BY DEF NewConn, ConnType
  <2>3. /\ conns' \in Seq(ConnType) /\ Len(conns') = Len(conns) + 1
        /\ \A c \in 1 .. Len(conns) : conns'[c] = conns[c]
        /\ conns'[Len(conns) + 1] = NewConn
    BY <2>1, <2>2, AppendProperties DEF TypeOK
  <2>4. DOMAIN conns' = 1 .. Len(conns')
    BY <2>3
  <2>5. sock'[e] = Len(conns') /\ sock' = [sock EXCEPT ![e] = sock'[e]] /\ sock' \in [End -> 0 .. Len(conns')]
    BY <2>1, <2>3, ConnTyped DEF TypeOK
  <2>6. \A c \in DOMAIN conns : conns'[c] = conns[c]
    BY <2>3, ConnTyped
  <2>7. \A c \in DOMAIN conns' \ DOMAIN conns : conns'[c] = NewConn
    BY <2>3, <2>4, ConnTyped
  <2>8. Len(conns') \in Nat /\ Len(conns) <= Len(conns')
    BY <2>3, ConnTyped
  <2>9. QED
    BY <1>2, <2>1, <2>3, <2>4, <2>5, <2>6, <2>7, <2>8
<1>3. QED
  BY <1>1, <1>2

\* New data in a connection, pointwise.
Puts(c, d) == conns' = [conns EXCEPT ![c].data = d]

LEMMA DataFacts ==
  ASSUME TypeOK, NEW c \in DOMAIN conns, NEW d \in Seq(PieceType), Puts(c, d)
  PROVE  /\ conns' \in Seq(ConnType) /\ DOMAIN conns' = DOMAIN conns /\ Len(conns') = Len(conns)
         /\ \A b \in DOMAIN conns :
              /\ conns'[b].ok <=> conns[b].ok
              /\ conns'[b].accepted <=> conns[b].accepted
              /\ conns'[b].snd <=> conns[b].snd
              /\ conns'[b].rcv <=> conns[b].rcv
              /\ conns'[b].data = IF b = c THEN d ELSE conns[b].data
<1>1. conns[c] \in ConnType /\ d \in Seq([msg : Msg, i : 1 .. Pieces, cut : BOOLEAN])
  BY ConnTyped DEF PieceType
<1>2. conns'[c] = [conns[c] EXCEPT !.data = d] /\ \A b \in DOMAIN conns : b # c => conns'[b] = conns[b]
  BY ConnTyped DEF Puts
<1>3. /\ conns'[c] \in ConnType
      /\ conns'[c].ok <=> conns[c].ok
      /\ conns'[c].accepted <=> conns[c].accepted
      /\ conns'[c].snd <=> conns[c].snd
      /\ conns'[c].rcv <=> conns[c].rcv
      /\ conns'[c].data = d
  BY <1>1, <1>2 DEF ConnType
<1>4. conns' \in [1 .. Len(conns) -> ConnType]
  BY <1>2, <1>3, ConnTyped DEF Puts
<1>5. conns' \in Seq(ConnType) /\ DOMAIN conns' = DOMAIN conns /\ Len(conns') = Len(conns)
  BY <1>4, FunIsSeq, ConnTyped
<1>6. QED
  BY <1>2, <1>3, <1>5

\* A broken connection, pointwise.
Breaks(c, d) == conns' = [conns EXCEPT ![c].ok = FALSE, ![c].data = d]

LEMMA BreakFacts ==
  ASSUME TypeOK, NEW c \in DOMAIN conns, NEW d \in Seq(PieceType), Breaks(c, d)
  PROVE  /\ conns' \in Seq(ConnType) /\ DOMAIN conns' = DOMAIN conns /\ Len(conns') = Len(conns)
         /\ \A b \in DOMAIN conns :
              /\ conns'[b].ok <=> (conns[b].ok /\ b # c)
              /\ conns'[b].accepted <=> conns[b].accepted
              /\ conns'[b].snd <=> conns[b].snd
              /\ conns'[b].rcv <=> conns[b].rcv
              /\ conns'[b].data = IF b = c THEN d ELSE conns[b].data
<1>1. conns[c] \in ConnType /\ d \in Seq([msg : Msg, i : 1 .. Pieces, cut : BOOLEAN])
  BY ConnTyped DEF PieceType
<1>2. /\ conns'[c] = [conns[c] EXCEPT !.ok = FALSE, !.data = d]
      /\ \A b \in DOMAIN conns : b # c => conns'[b] = conns[b]
  BY ConnTyped DEF Breaks
<1>3. /\ conns'[c] \in ConnType
      /\ ~conns'[c].ok
      /\ conns'[c].accepted <=> conns[c].accepted
      /\ conns'[c].snd <=> conns[c].snd
      /\ conns'[c].rcv <=> conns[c].rcv
      /\ conns'[c].data = d
  BY <1>1, <1>2 DEF ConnType
<1>4. conns' \in [1 .. Len(conns) -> ConnType] /\ Len(conns) \in Nat
  <2>1. DOMAIN conns' = 1 .. Len(conns) /\ \A b \in 1 .. Len(conns) : conns'[b] \in ConnType
    BY <1>2, <1>3, ConnTyped DEF Breaks
  <2>2. conns' = [b \in DOMAIN conns' |-> conns'[b]]
    BY DEF Breaks
  <2>3. QED
    BY <2>1, <2>2, ConnTyped
<1>5. conns' \in Seq(ConnType) /\ DOMAIN conns' = DOMAIN conns /\ Len(conns') = Len(conns)
  BY ONLY <1>4, FunIsSeq, ConnTyped, TypeOK
<1>6. QED
  BY <1>2, <1>3, <1>5

\* The sizes of a link do not change.
LEMMA SameLink ==
  ASSUME link' = link
  PROVE  Pieces' = Pieces /\ Listener' = Listener /\ Other' = Other
BY DEF Pieces, Listener, Other

\* A piece that is cut.
LEMMA CutFacts ==
  ASSUME NEW p \in PieceType
  PROVE  Cut(p) \in PieceType /\ Cut(p).msg = p.msg /\ Cut(p).i = p.i /\ Cut(p).cut
BY DEF Cut, PieceType

\* The piece a sender writes next.
LEMMA NextTyped ==
  ASSUME TypeOK, Alone, NEW t \in SThread, spc[t] = "send"
  PROVE  /\ NextPiece(t) \in PieceType
         /\ NextPiece(t).msg = begun /\ NextPiece(t).i = spos[t] + 1 /\ ~NextPiece(t).cut
         /\ spos[t] \in Nat /\ spos[t] < Pieces
<1>1. smsg[t] = begun /\ begun \in Msg
  BY HtcpAssumption DEF Alone, TypeOK, Msg
<1>2. spos[t] \in Nat /\ spos[t] < Pieces /\ spos[t] + 1 \in 1 .. Pieces
  <2>1. spos[t] \in 0 .. (Pieces - 1)
    BY DEF TypeOK
  <2>2. Pieces \in Nat
    BY Basics
  <2>3. QED
    BY <2>1, <2>2
<1>3. NextPiece(t) = [msg |-> begun, i |-> spos[t] + 1, cut |-> FALSE]
  BY <1>1 DEF NextPiece, Piece
<1>4. ASSUME NEW m \in Msg, NEW x \in 1 .. Pieces
      PROVE  [msg |-> m, i |-> x, cut |-> FALSE] \in PieceType
  BY DEF PieceType
<1>5. NextPiece(t) \in PieceType
  BY <1>1, <1>2, <1>3, <1>4
<1>6. QED
  BY <1>2, <1>3, <1>5

\* What Break leaves in a connection: the pieces in front, and perhaps one that is cut.
LEMMA TruncatedFacts ==
  ASSUME TypeOK, Alone, NEW c \in DOMAIN conns, NEW d \in Truncated(c)
  PROVE  /\ d \in Seq(PieceType)
         /\ \/ Len(d) <= Len(conns[c].data) /\ \A j \in 1 .. Len(d) : d[j] = conns[c].data[j]
            \/ /\ Len(d) \in 1 .. Len(conns[c].data)
               /\ \A j \in 1 .. Len(d) : j # Len(d) => d[j] = conns[c].data[j]
               /\ d[Len(d)] = Cut(conns[c].data[Len(d)])
            \/ /\ Len(d) = Len(conns[c].data) + 1
               /\ \A j \in 1 .. Len(conns[c].data) : d[j] = conns[c].data[j]
               /\ \E t \in SThread : spc[t] = "send" /\ sock["snd"] = c /\ d[Len(d)] = Cut(NextPiece(t))
<1> DEFINE data == conns[c].data
           next(k) == IF k < Len(data) THEN {data[k + 1]} ELSE Writing(c)
<1>1. data \in Seq(PieceType) /\ Len(data) \in Nat
  BY ConnTyped
<1>2. PICK k \in 0 .. Len(data) :
        d = SubSeq(data, 1, k) \/ \E p \in next(k) : d = Append(SubSeq(data, 1, k), Cut(p))
  BY DEF Truncated
<1>3. /\ SubSeq(data, 1, k) \in Seq(PieceType) /\ Len(SubSeq(data, 1, k)) = k
      /\ \A j \in 1 .. k : SubSeq(data, 1, k)[j] = data[j]
  <2>1. \A j \in 1 .. k : data[j] \in PieceType
    BY <1>1
  <2>2. QED
    BY <1>1, <2>1, SubSeqProperties
<1>4. CASE d = SubSeq(data, 1, k)
  BY <1>1, <1>3, <1>4
<1>5. ASSUME NEW p \in next(k), d = Append(SubSeq(data, 1, k), Cut(p))
      PROVE  /\ d \in Seq(PieceType)
             /\ \/ /\ Len(d) \in 1 .. Len(data)
                   /\ \A j \in 1 .. Len(d) : j # Len(d) => d[j] = data[j]
                   /\ d[Len(d)] = Cut(data[Len(d)])
                \/ /\ Len(d) = Len(data) + 1
                   /\ \A j \in 1 .. Len(data) : d[j] = data[j]
                   /\ \E t \in SThread : spc[t] = "send" /\ sock["snd"] = c /\ d[Len(d)] = Cut(NextPiece(t))
  <2>1. \/ k < Len(data) /\ p = data[k + 1]
        \/ k = Len(data) /\ \E t \in SThread : spc[t] = "send" /\ sock["snd"] = c /\ p = NextPiece(t)
    BY <1>1 DEF Writing
  <2>2. Cut(p) \in PieceType
    <3>1. CASE k < Len(data) /\ p = data[k + 1]
      BY <1>1, <3>1, CutFacts
    <3>2. QED
      BY <2>1, <3>1, NextTyped, CutFacts
  <2>3. /\ d \in Seq(PieceType) /\ Len(d) = k + 1 /\ d[k + 1] = Cut(p)
        /\ \A j \in 1 .. k : d[j] = data[j]
    BY <1>3, <1>5, <2>2, AppendProperties
  <2>4. QED
    BY <1>1, <2>1, <2>3
<1>6. QED
  BY <1>2, <1>4, <1>5

\* What a receiver gets with the last piece.
LEMMA PartsTyped ==
  ASSUME TypeOK, NEW buf \in Seq(PieceType), Len(buf) = Pieces
  PROVE  /\ PartsOf(buf) \in [1 .. link.parts -> Msg]
         /\ \A p \in 1 .. link.parts : PartsOf(buf)[p] = buf[2 * p].msg /\ 2 * p \in 1 .. Len(buf)
<1>1. \A p \in 1 .. link.parts : 2 * p \in 1 .. Len(buf)
  BY Basics
<1>2. \A p \in 1 .. link.parts : buf[2 * p] \in PieceType
  BY <1>1
<1>3. \A p \in 1 .. link.parts : buf[2 * p].msg \in Msg
  BY <1>2 DEF PieceType
<1>4. QED
  BY <1>1, <1>3 DEF PartsOf

-----------------------------------------------------------------------------
(* Who has a mutex.                                                         *)

\* A thread past "idle" is the only one of its end.
LEMMA AloneKeeps ==
  ASSUME TypeOK, Alone, Next
  PROVE  Alone'
<1>1. ASSUME NEW t \in SThread, SendBegin(t)
      PROVE  Alone'
  BY <1>1, HtcpAssumption DEF SendBegin, SendFree, Alone, TypeOK
<1>2. ASSUME NEW t \in SThread, SendPiece(t)
      PROVE  Alone'
  <2>1. rpc' = rpc /\ rbuf' = rbuf /\ sock' = sock /\ begun' = begun /\ spc[t] = "send"
    BY <1>2 DEF SendPiece
  <2>2. \A u \in SThread : u # t => spc'[u] = spc[u] /\ smsg'[u] = smsg[u] /\ spos'[u] = spos[u]
    BY <1>2 DEF SendPiece, TypeOK
  <2>3. \/ spc'[t] = "idle" /\ smsg'[t] = 0 /\ spos'[t] = 0
        \/ spc'[t] = "send" /\ smsg'[t] = smsg[t]
    BY <1>2 DEF SendPiece, TypeOK, PosAfter
  <2>4. QED
    BY <2>1, <2>2, <2>3 DEF Alone
<1>3. ASSUME NEW t \in SThread, SendError(t)
      PROVE  Alone'
  <2>1. rpc' = rpc /\ rbuf' = rbuf /\ begun' = begun /\ smsg' = smsg /\ spc[t] = "send"
    BY <1>3 DEF SendError
  <2>2. sock'["rcv"] = sock["rcv"] /\ sock'["snd"] = 0
    BY <1>3 DEF SendError, Close, TypeOK, End
  <2>3. \A u \in SThread : u # t => spc'[u] = spc[u] /\ spos'[u] = spos[u]
    BY <1>3 DEF SendError, TypeOK
  <2>4. spc'[t] = "reopen" /\ spos'[t] = 0
    BY <1>3 DEF SendError, TypeOK, AfterError
  <2>5. QED
    BY <2>1, <2>2, <2>3, <2>4 DEF Alone
<1>4. ASSUME NEW t \in SThread, SendReopen(t)
      PROVE  Alone'
  <2>1. rpc' = rpc /\ rbuf' = rbuf /\ begun' = begun /\ smsg' = smsg /\ spos' = spos /\ spc[t] = "reopen"
    BY <1>4 DEF SendReopen
  <2>2. sock'["rcv"] = sock["rcv"]
    BY <1>4, ReopenFacts DEF SendReopen, TypeOK, End
  <2>3. \A u \in SThread : u # t => spc'[u] = spc[u]
    BY <1>4 DEF SendReopen, TypeOK
  <2>4. spc'[t] = "send"
    BY <1>4 DEF SendReopen, TypeOK
  <2>5. QED
    BY <2>1, <2>2, <2>3, <2>4 DEF Alone
<1>5. ASSUME NEW r \in RThread, RecvBegin(r)
      PROVE  Alone'
  BY <1>5 DEF RecvBegin, RecvFree, Alone, TypeOK
<1>6. ASSUME NEW r \in RThread, RecvPiece(r)
      PROVE  Alone'
  <2>1. /\ spc' = spc /\ smsg' = smsg /\ spos' = spos /\ sock' = sock /\ begun' = begun
        /\ rpc[r] = "recv" /\ sock["rcv"] # 0
    BY <1>6 DEF RecvPiece
  <2>2. \A q \in RThread : q # r => rpc'[q] = rpc[q] /\ rbuf'[q] = rbuf[q]
    BY <1>6 DEF RecvPiece, TypeOK
  <2>3. rpc'[r] = "recv" \/ (rpc'[r] = "idle" /\ rbuf'[r] = <<>>)
    BY <1>6 DEF RecvPiece, TypeOK
  <2>4. QED
    BY <2>1, <2>2, <2>3 DEF Alone
<1>7. ASSUME NEW r \in RThread, RecvError(r)
      PROVE  Alone'
  <2>1. spc' = spc /\ smsg' = smsg /\ spos' = spos /\ begun' = begun /\ rpc[r] = "recv"
    BY <1>7 DEF RecvError
  <2>2. sock'["snd"] = sock["snd"] /\ sock'["rcv"] = 0
    BY <1>7 DEF RecvError, Close, TypeOK, End
  <2>3. \A q \in RThread : q # r => rpc'[q] = rpc[q] /\ rbuf'[q] = rbuf[q]
    BY <1>7 DEF RecvError, TypeOK
  <2>4. rpc'[r] = "reopen" /\ rbuf'[r] = <<>>
    BY <1>7 DEF RecvError, TypeOK, KeptAfterError
  <2>5. QED
    BY <2>1, <2>2, <2>3, <2>4 DEF Alone
<1>8. ASSUME NEW r \in RThread, RecvReopen(r)
      PROVE  Alone'
  <2>1. spc' = spc /\ smsg' = smsg /\ spos' = spos /\ begun' = begun /\ rbuf' = rbuf /\ rpc[r] = "reopen"
    BY <1>8 DEF RecvReopen
  <2>2. sock'["snd"] = sock["snd"]
    BY <1>8, ReopenFacts DEF RecvReopen, TypeOK, End
  <2>3. \A q \in RThread : q # r => rpc'[q] = rpc[q]
    BY <1>8 DEF RecvReopen, TypeOK
  <2>4. rpc'[r] = "recv"
    BY <1>8 DEF RecvReopen, TypeOK
  <2>5. QED
    BY <2>1, <2>2, <2>3, <2>4 DEF Alone
<1>9. ASSUME NEW c \in DOMAIN conns, Break(c)
      PROVE  Alone'
  BY <1>9 DEF Break, Alone
<1>10. CASE SenderDeath
  <2>1. rpc' = rpc /\ rbuf' = rbuf
    BY <1>10 DEF SenderDeath
  <2>2. \A t \in SThread : spc'[t] = "idle" /\ smsg'[t] = 0 /\ spos'[t] = 0
    BY <1>10 DEF SenderDeath
  <2>3. sock'["rcv"] = sock["rcv"]
    BY <1>10 DEF SenderDeath, Death, TypeOK, End
  <2>4. QED
    BY <2>1, <2>2, <2>3 DEF Alone
<1>11. CASE ReceiverDeath
  <2>1. spc' = spc /\ smsg' = smsg /\ spos' = spos /\ begun' = begun
    BY <1>11 DEF ReceiverDeath
  <2>2. \A r \in RThread : rpc'[r] = "idle" /\ rbuf'[r] = <<>>
    BY <1>11 DEF ReceiverDeath
  <2>3. sock'["snd"] = sock["snd"]
    BY <1>11 DEF ReceiverDeath, Death, TypeOK, End
  <2>4. QED
    BY <2>1, <2>2, <2>3 DEF Alone
<1>12. QED
  BY <1>1, <1>2, <1>3, <1>4, <1>5, <1>6, <1>7, <1>8, <1>9, <1>10, <1>11 DEF Next, SendStep, RecvStep

\* A piece sent: what the connection has then, if it goes anywhere.
LEMMA SendPieceFacts ==
  ASSUME TypeOK, Alone, NEW t \in SThread, SendPiece(t),
         NEW c, c = sock["snd"]
  PROVE  /\ c \in DOMAIN conns /\ spc[t] = "send"
         /\ sock' = sock /\ rbuf' = rbuf /\ rpc' = rpc /\ got' = got /\ begun' = begun /\ link' = link
         /\ \A u \in SThread : u # t => spc'[u] = spc[u] /\ smsg'[u] = smsg[u] /\ spos'[u] = spos[u]
         /\ \/ spos[t] + 1 = Pieces /\ spc'[t] = "idle" /\ spos'[t] = 0
            \/ /\ spos[t] + 1 # Pieces /\ spc'[t] = "send" /\ spos'[t] = spos[t] + 1
               /\ smsg'[t] = smsg[t]
         /\ \/ ~Reachable(c) /\ conns' = conns
            \/ /\ Reachable(c)
               /\ conns' \in Seq(ConnType) /\ DOMAIN conns' = DOMAIN conns /\ Len(conns') = Len(conns)
               /\ \A b \in DOMAIN conns :
                    /\ conns'[b].ok <=> conns[b].ok
                    /\ conns'[b].accepted <=> conns[b].accepted
                    /\ conns'[b].snd <=> conns[b].snd
                    /\ conns'[b].rcv <=> conns[b].rcv
                    /\ b # c => conns'[b].data = conns[b].data
               /\ conns'[c].data \in Seq(PieceType)
               /\ Len(conns'[c].data) = Len(conns[c].data) + 1
               /\ \A j \in 1 .. Len(conns[c].data) : conns'[c].data[j] = conns[c].data[j]
               /\ conns'[c].data[Len(conns[c].data) + 1] = NextPiece(t)
<1>1. c \in DOMAIN conns /\ spc[t] = "send"
  BY Basics, ConnTyped DEF SendPiece, End
<1>2. /\ sock' = sock /\ rbuf' = rbuf /\ rpc' = rpc /\ got' = got /\ begun' = begun /\ link' = link
      /\ \A u \in SThread : u # t => spc'[u] = spc[u] /\ smsg'[u] = smsg[u] /\ spos'[u] = spos[u]
  BY DEF SendPiece, TypeOK
<1>3. \/ spos[t] + 1 = Pieces /\ spc'[t] = "idle" /\ spos'[t] = 0
      \/ spos[t] + 1 # Pieces /\ spc'[t] = "send" /\ spos'[t] = spos[t] + 1 /\ smsg'[t] = smsg[t]
  BY DEF SendPiece, TypeOK, PosAfter
<1>4. \/ Reachable(c) /\ conns' = [conns EXCEPT ![c].data = Append(@, NextPiece(t))]
      \/ ~Reachable(c) /\ conns' = conns
  BY Zenon DEF SendPiece
<1>5. CASE Reachable(c) /\ conns' = [conns EXCEPT ![c].data = Append(@, NextPiece(t))]
  <2> DEFINE data == conns[c].data
             d == Append(data, NextPiece(t))
  <2>1. data \in Seq(PieceType) /\ NextPiece(t) \in PieceType
    BY <1>1, ConnTyped, NextTyped
  <2>2. /\ d \in Seq(PieceType) /\ Len(d) = Len(data) + 1
        /\ \A j \in 1 .. Len(data) : d[j] = data[j]
        /\ d[Len(data) + 1] = NextPiece(t)
    BY <2>1, AppendProperties
  <2>3. Puts(c, d)
    BY <1>5 DEF Puts
  <2> HIDE DEF d
  <2>4. /\ conns' \in Seq(ConnType) /\ DOMAIN conns' = DOMAIN conns /\ Len(conns') = Len(conns)
        /\ \A b \in DOMAIN conns :
              /\ conns'[b].ok <=> conns[b].ok
              /\ conns'[b].accepted <=> conns[b].accepted
              /\ conns'[b].snd <=> conns[b].snd
              /\ conns'[b].rcv <=> conns[b].rcv
              /\ conns'[b].data = IF b = c THEN d ELSE conns[b].data
    BY <1>1, <2>2, <2>3, DataFacts
  <2>5. QED
    <3>1. conns'[c].data = d /\ \A b \in DOMAIN conns : b # c => conns'[b].data = conns[b].data
      BY <1>1, <2>4
    <3>2. QED
      BY <1>1, <1>2, <1>3, <1>5, <2>2, <2>4, <3>1
<1>6. QED
  BY <1>1, <1>2, <1>3, <1>4, <1>5

\* A piece received: the connection has the rest, the thread one more, or a message.
LEMMA RecvPieceFacts ==
  ASSUME TypeOK, NEW r \in RThread, RecvPiece(r),
         NEW c, c = sock["rcv"], NEW p, p = conns[c].data[1]
  PROVE  /\ c \in DOMAIN conns /\ rpc[r] = "recv"
         /\ Len(conns[c].data) > 0 /\ p \in PieceType /\ ~p.cut
         /\ sock' = sock /\ begun' = begun /\ link' = link
         /\ spc' = spc /\ smsg' = smsg /\ spos' = spos
         /\ \A q \in RThread : q # r => rpc'[q] = rpc[q] /\ rbuf'[q] = rbuf[q]
         /\ conns' \in Seq(ConnType) /\ DOMAIN conns' = DOMAIN conns /\ Len(conns') = Len(conns)
         /\ \A b \in DOMAIN conns :
              /\ conns'[b].ok <=> conns[b].ok
              /\ conns'[b].accepted <=> conns[b].accepted
              /\ conns'[b].snd <=> conns[b].snd
              /\ conns'[b].rcv <=> conns[b].rcv
              /\ b # c => conns'[b].data = conns[b].data
         /\ conns'[c].data \in Seq(PieceType)
         /\ Len(conns'[c].data) = Len(conns[c].data) - 1
         /\ \A j \in 1 .. Len(conns'[c].data) : conns'[c].data[j] = conns[c].data[j + 1]
         /\ Append(rbuf[r], p) \in Seq(PieceType)
         /\ \/ /\ Len(rbuf[r]) + 1 = Pieces /\ rpc'[r] = "idle" /\ rbuf'[r] = <<>>
               /\ got' = Append(got, PartsOf(Append(rbuf[r], p)))
            \/ /\ Len(rbuf[r]) + 1 # Pieces /\ rpc'[r] = "recv"
               /\ rbuf'[r] = Append(rbuf[r], p) /\ got' = got
<1> DEFINE data == conns[c].data
<1>1. c \in DOMAIN conns /\ rpc[r] = "recv" /\ data # <<>>
  BY Basics, ConnTyped DEF RecvPiece, End
<1>2. data \in Seq(PieceType) /\ Len(data) > 0 /\ p \in PieceType /\ Head(data) = p
  BY <1>1, ConnTyped
<1>3. /\ sock' = sock /\ begun' = begun /\ link' = link
      /\ spc' = spc /\ smsg' = smsg /\ spos' = spos
      /\ \A q \in RThread : q # r => rpc'[q] = rpc[q] /\ rbuf'[q] = rbuf[q]
  BY DEF RecvPiece, TypeOK
<1>4. ~p.cut
  BY <1>2 DEF RecvPiece, Fits
<1>5. rbuf[r] \in Seq(PieceType)
  BY ConnTyped
<1>6. Append(rbuf[r], p) \in Seq(PieceType) /\ Len(Append(rbuf[r], p)) = Len(rbuf[r]) + 1
  BY <1>2, <1>5, AppendProperties
<1>7. \/ /\ Len(rbuf[r]) + 1 = Pieces /\ rpc'[r] = "idle" /\ rbuf'[r] = <<>>
         /\ got' = Append(got, PartsOf(Append(rbuf[r], p)))
      \/ /\ Len(rbuf[r]) + 1 # Pieces /\ rpc'[r] = "recv"
         /\ rbuf'[r] = Append(rbuf[r], p) /\ got' = got
  BY <1>2, <1>6 DEF RecvPiece, TypeOK
<1>8. Puts(c, Tail(data))
  BY DEF RecvPiece, Puts
<1>9. /\ Tail(data) \in Seq(PieceType) /\ Len(Tail(data)) = Len(data) - 1
      /\ \A j \in 1 .. Len(Tail(data)) : Tail(data)[j] = data[j + 1]
  BY <1>2
<1>10. /\ conns' \in Seq(ConnType) /\ DOMAIN conns' = DOMAIN conns /\ Len(conns') = Len(conns)
       /\ \A b \in DOMAIN conns :
              /\ conns'[b].ok <=> conns[b].ok
              /\ conns'[b].accepted <=> conns[b].accepted
              /\ conns'[b].snd <=> conns[b].snd
              /\ conns'[b].rcv <=> conns[b].rcv
              /\ conns'[b].data = IF b = c THEN Tail(data) ELSE conns[b].data
  BY <1>1, <1>8, <1>9, DataFacts
<1>11. QED
  BY <1>1, <1>2, <1>3, <1>4, <1>6, <1>7, <1>9, <1>10

\* A connection that breaks.
LEMMA BreakStep ==
  ASSUME TypeOK, Alone, NEW c \in DOMAIN conns, Break(c)
  PROVE  /\ Reachable(c)
         /\ sock' = sock /\ rbuf' = rbuf /\ rpc' = rpc /\ got' = got /\ begun' = begun /\ link' = link
         /\ spc' = spc /\ smsg' = smsg /\ spos' = spos
         /\ conns' \in Seq(ConnType) /\ DOMAIN conns' = DOMAIN conns /\ Len(conns') = Len(conns)
         /\ \A b \in DOMAIN conns :
              /\ conns'[b].ok <=> (conns[b].ok /\ b # c)
              /\ conns'[b].accepted <=> conns[b].accepted
              /\ conns'[b].snd <=> conns[b].snd
              /\ conns'[b].rcv <=> conns[b].rcv
              /\ b # c => conns'[b].data = conns[b].data
         /\ conns'[c].data \in Truncated(c)
<1>1. PICK d \in Truncated(c) : Breaks(c, d)
  BY DEF Break, Breaks
<1>2. d \in Seq(PieceType)
  BY TruncatedFacts
<1>3. /\ Reachable(c)
      /\ sock' = sock /\ rbuf' = rbuf /\ rpc' = rpc /\ got' = got /\ begun' = begun /\ link' = link
      /\ spc' = spc /\ smsg' = smsg /\ spos' = spos
  BY DEF Break
<1>4. /\ conns' \in Seq(ConnType) /\ DOMAIN conns' = DOMAIN conns /\ Len(conns') = Len(conns)
      /\ \A b \in DOMAIN conns :
              /\ conns'[b].ok <=> (conns[b].ok /\ b # c)
              /\ conns'[b].accepted <=> conns[b].accepted
              /\ conns'[b].snd <=> conns[b].snd
              /\ conns'[b].rcv <=> conns[b].rcv
              /\ conns'[b].data = IF b = c THEN d ELSE conns[b].data
  BY <1>1, <1>2, BreakFacts
<1>5. QED
  BY <1>1, <1>3, <1>4

-----------------------------------------------------------------------------
(* The ends of the connections.                                             *)

\* A step that leaves the sockets alone.
LEMMA EndsSame ==
  ASSUME TypeOK, Ends, link' = link, sock' = sock,
         DOMAIN conns' = DOMAIN conns, Len(conns') = Len(conns),
         \A b \in DOMAIN conns : /\ conns'[b].accepted <=> conns[b].accepted
                                 /\ conns'[b].snd <=> conns[b].snd
                                 /\ conns'[b].rcv <=> conns[b].rcv
  PROVE  Ends'
<1>1. Listener' = Listener /\ Other' = Other
  BY SameLink
<1>2. \A b \in DOMAIN conns, e \in End : IsOpen(conns', b, e) <=> IsOpen(conns, b, e)
  BY DEF IsOpen
<1>3. \A e \in End : sock[e] # 0 => sock[e] \in DOMAIN conns
  BY Basics, ConnTyped
<1>4. Listener \in End /\ Other \in End
  BY Basics
<1>5. /\ \A e \in End : sock'[e] # 0 => IsOpen(conns', sock[e], e)
      /\ \A c \in DOMAIN conns', e \in End :
           IsOpen(conns', c, e) => c = sock'[e] \/ (e = Listener' /\ ~conns'[c].accepted)
      /\ \A c \in DOMAIN conns' : ~conns'[c].accepted => IsOpen(conns', c, Listener')
  BY <1>1, <1>2, <1>3, <1>4 DEF Ends
<1>6. QED
  BY <1>1, <1>3, <1>4, <1>5 DEF Ends

\* An end gives up its socket.
LEMMA EndsClose ==
  ASSUME TypeOK, Ends, link' = link, NEW e \in End, Close(e)
  PROVE  Ends'
<1>1. Listener' = Listener /\ Other' = Other
  BY SameLink
<1>2. /\ Listener \in End /\ Other \in End /\ Listener # Other
      /\ \A f \in End : sock[f] # 0 => sock[f] \in DOMAIN conns
      /\ End = {"snd", "rcv"}
  BY Basics, ConnTyped DEF End
<1>3. sock'[e] = 0 /\ \A f \in End : f # e => sock'[f] = sock[f]
  BY DEF Close, TypeOK
<1>4. /\ DOMAIN conns' = DOMAIN conns /\ Len(conns') = Len(conns)
      /\ \A c \in DOMAIN conns :
           /\ conns'[c].accepted <=> conns[c].accepted
           /\ conns'[c].snd <=> (conns[c].snd /\ ~(e = "snd" /\ c = sock[e]))
           /\ conns'[c].rcv <=> (conns[c].rcv /\ ~(e = "rcv" /\ c = sock[e]))
  BY ClosedFacts DEF Close
<1>5. \A c \in DOMAIN conns, f \in End :
        IsOpen(conns', c, f) <=> IsOpen(conns, c, f) /\ ~(f = e /\ c = sock[e])
  BY <1>2, <1>4 DEF IsOpen
<1>6. \A f \in End : sock'[f] # 0 => IsOpen(conns', sock'[f], f)
  BY <1>2, <1>3, <1>5 DEF Ends
<1>7. \A c \in DOMAIN conns, f \in End :
        IsOpen(conns', c, f) => c = sock'[f] \/ (f = Listener /\ ~conns'[c].accepted)
  BY <1>2, <1>3, <1>4, <1>5 DEF Ends
<1>8. \A c \in DOMAIN conns : ~conns'[c].accepted => IsOpen(conns', c, Listener)
  BY <1>2, <1>4, <1>5 DEF Ends
<1>9. /\ \A b, c \in DOMAIN conns : b < c /\ conns'[c].accepted => conns'[b].accepted
      /\ sock'[Listener] # 0 => conns'[sock'[Listener]].accepted
      /\ \A c \in DOMAIN conns : sock'[Listener] # 0 /\ c > sock'[Listener] => ~conns'[c].accepted
      /\ sock'[Other] # 0 => sock'[Other] = Len(conns')
  BY <1>2, <1>3, <1>4 DEF Ends
<1>10. QED
  BY <1>1, <1>4, <1>6, <1>7, <1>8, <1>9 DEF Ends

\* An end that has no socket gets one.
LEMMA EndsReopen ==
  ASSUME TypeOK, Ends, link' = link, NEW e \in End, sock[e] = 0, Reopen(e)
  PROVE  Ends'
<1>1. Listener' = Listener /\ Other' = Other
  BY SameLink
<1>2. /\ Listener \in End /\ Other \in End /\ Listener # Other
      /\ \A f \in End : sock[f] # 0 => sock[f] \in DOMAIN conns
      /\ End = {"snd", "rcv"} /\ Len(conns) \in Nat /\ DOMAIN conns = 1 .. Len(conns)
      /\ \A f \in End : f = Listener \/ f = Other
  BY Basics, ConnTyped DEF End
<1>3. \A f \in End : f # e => sock'[f] = sock[f]
  BY ReopenFacts DEF TypeOK
<1>4. CASE e = Listener
  <2>1. /\ DOMAIN conns' = DOMAIN conns /\ Len(conns') = Len(conns)
        /\ sock'[e] \in DOMAIN conns /\ ~conns[sock'[e]].accepted
        /\ \A c \in DOMAIN conns : ~conns[c].accepted => sock'[e] <= c
        /\ \A c \in DOMAIN conns :
             /\ conns'[c].snd <=> conns[c].snd
             /\ conns'[c].rcv <=> conns[c].rcv
             /\ conns'[c].accepted <=> (conns[c].accepted \/ c = sock'[e])
    BY <1>2, <1>4, ReopenFacts
  <2>2. \A c \in DOMAIN conns, f \in End : IsOpen(conns', c, f) <=> IsOpen(conns, c, f)
    BY <2>1 DEF IsOpen
  <2>3. \A f \in End : sock'[f] # 0 => IsOpen(conns', sock'[f], f)
    <3>1. \A f \in End : f # e => (sock'[f] # 0 => IsOpen(conns, sock[f], f) /\ sock[f] \in DOMAIN conns)
      BY <1>2, <1>3 DEF Ends
    <3>2. IsOpen(conns, sock'[e], e)
      BY <1>4, <2>1 DEF Ends
    <3>3. \A f \in End : sock'[f] # 0 => sock'[f] \in DOMAIN conns /\ IsOpen(conns, sock'[f], f)
      BY <1>3, <2>1, <3>1, <3>2 DEF IsOpen
    <3>4. QED
      BY <2>1, <3>3 DEF IsOpen
  <2>4. \A c \in DOMAIN conns, f \in End :
          IsOpen(conns', c, f) => c = sock'[f] \/ (f = Listener /\ ~conns'[c].accepted)
    BY <1>2, <1>3, <1>4, <2>1, <2>2 DEF Ends
  <2>5. \A c \in DOMAIN conns : ~conns'[c].accepted => IsOpen(conns', c, Listener)
    BY <1>2, <2>1, <2>2 DEF Ends
  <2>6. \A b, c \in DOMAIN conns : b < c /\ conns'[c].accepted => conns'[b].accepted
    BY <1>2, <2>1 DEF Ends
  <2>7. sock'[Listener] # 0 => conns'[sock'[Listener]].accepted
    BY <1>4, <2>1
  <2>8. \A c \in DOMAIN conns : c > sock'[Listener] => ~conns'[c].accepted
    BY <1>2, <1>4, <2>1 DEF Ends
  <2>9. sock'[Other] # 0 => sock'[Other] = Len(conns')
    BY <1>2, <1>3, <1>4, <2>1 DEF Ends
  <2>10. QED
    BY <1>1, <2>1, <2>3, <2>4, <2>5, <2>6, <2>7, <2>8, <2>9 DEF Ends
<1>5. CASE e # Listener
  <2>1. /\ e = Other /\ Len(conns') = Len(conns) + 1 /\ DOMAIN conns' = 1 .. (Len(conns) + 1)
        /\ sock'[e] = Len(conns) + 1
        /\ \A c \in DOMAIN conns :
             /\ conns'[c].snd <=> conns[c].snd
             /\ conns'[c].rcv <=> conns[c].rcv
             /\ conns'[c].accepted <=> conns[c].accepted
        /\ conns'[Len(conns) + 1] = NewConn
    BY <1>2, <1>5, ReopenFacts
  <2>2. \A c \in DOMAIN conns, f \in End : IsOpen(conns', c, f) <=> IsOpen(conns, c, f)
    BY <2>1 DEF IsOpen
  <2>3. /\ conns'[Len(conns) + 1].snd /\ conns'[Len(conns) + 1].rcv /\ ~conns'[Len(conns) + 1].accepted
        /\ \A f \in End : IsOpen(conns', Len(conns) + 1, f)
    BY <2>1 DEF NewConn, IsOpen
  <2>4. \A c \in DOMAIN conns' : c \in DOMAIN conns \/ c = Len(conns) + 1
    BY <1>2, <2>1
  <2>5. \A f \in End : sock'[f] # 0 => IsOpen(conns', sock'[f], f)
    <3>1. IsOpen(conns', sock'[e], e)
      BY <2>1, <2>3 DEF IsOpen
    <3>2. \A f \in End : f # e => (sock'[f] # 0 => sock[f] \in DOMAIN conns /\ IsOpen(conns', sock[f], f))
      BY <1>2, <1>3, <2>2 DEF Ends
    <3>3. QED
      BY <1>3, <3>1, <3>2 DEF IsOpen
  <2>6. \A c \in DOMAIN conns, f \in End :
          IsOpen(conns', c, f) => c = sock'[f] \/ (f = Listener /\ ~conns'[c].accepted)
    BY <1>2, <1>3, <1>5, <2>1, <2>2 DEF Ends
  <2>7. \A c \in DOMAIN conns', f \in End :
          IsOpen(conns', c, f) => c = sock'[f] \/ (f = Listener /\ ~conns'[c].accepted)
    BY <1>2, <2>1, <2>3, <2>4, <2>6
  <2>8. \A c \in DOMAIN conns' : ~conns'[c].accepted => IsOpen(conns', c, Listener)
    BY <1>2, <2>1, <2>2, <2>3, <2>4 DEF Ends
  <2>9. \A b, c \in DOMAIN conns' : b < c /\ conns'[c].accepted => conns'[b].accepted
    BY <1>2, <2>1, <2>3, <2>4 DEF Ends
  <2>10. sock'[Listener] # 0 => conns'[sock'[Listener]].accepted
    BY <1>2, <1>3, <1>5, <2>1 DEF Ends
  <2>11. \A c \in DOMAIN conns' : sock'[Listener] # 0 /\ c > sock'[Listener] => ~conns'[c].accepted
    BY <1>2, <1>3, <1>5, <2>1, <2>3, <2>4 DEF Ends
  <2>12. QED
    BY <1>1, <2>1, <2>5, <2>7, <2>8, <2>9, <2>10, <2>11 DEF Ends
<1>6. QED
  BY <1>4, <1>5

\* A process dies.
LEMMA EndsDeath ==
  ASSUME TypeOK, Ends, link' = link, NEW e \in End, Death(e)
  PROVE  Ends'
<1>1. Listener' = Listener /\ Other' = Other
  BY SameLink
<1>2. /\ Listener \in End /\ Other \in End /\ Listener # Other
      /\ \A f \in End : sock[f] # 0 => sock[f] \in DOMAIN conns
      /\ End = {"snd", "rcv"}
      /\ \A f \in End : f = Listener \/ f = Other
  BY Basics, ConnTyped DEF End
<1>3. sock'[e] = 0 /\ \A f \in End : f # e => sock'[f] = sock[f]
  <2>1. sock' = [sock EXCEPT ![e] = 0]
    BY Zenon DEF Death
  <2>2. QED
    BY <2>1 DEF TypeOK
<1>4. /\ DOMAIN conns' = DOMAIN conns /\ Len(conns') = Len(conns)
      /\ \A c \in DOMAIN conns :
           /\ conns'[c].accepted <=> (conns[c].accepted \/ e = Listener)
           /\ conns'[c].snd <=> (conns[c].snd /\ e # "snd")
           /\ conns'[c].rcv <=> (conns[c].rcv /\ e # "rcv")
  BY DeathFacts
<1>5. \A c \in DOMAIN conns, f \in End : IsOpen(conns', c, f) <=> IsOpen(conns, c, f) /\ f # e
  BY <1>2, <1>4 DEF IsOpen
<1>6. \A f \in End : sock'[f] # 0 => IsOpen(conns', sock'[f], f)
  <2>1. \A f \in End : sock'[f] # 0 => sock'[f] = sock[f] /\ IsOpen(conns', sock[f], f)
    BY <1>2, <1>3, <1>5 DEF Ends
  <2>2. QED
    BY <2>1 DEF IsOpen
<1>7. \A c \in DOMAIN conns, f \in End :
        IsOpen(conns', c, f) => c = sock'[f] \/ (f = Listener /\ ~conns'[c].accepted)
  BY <1>2, <1>3, <1>4, <1>5 DEF Ends
<1>8. \A c \in DOMAIN conns : ~conns'[c].accepted => IsOpen(conns', c, Listener)
  BY <1>2, <1>4, <1>5 DEF Ends
<1>9. /\ \A b, c \in DOMAIN conns : b < c /\ conns'[c].accepted => conns'[b].accepted
      /\ sock'[Listener] # 0 => conns'[sock'[Listener]].accepted
      /\ \A c \in DOMAIN conns : sock'[Listener] # 0 /\ c > sock'[Listener] => ~conns'[c].accepted
      /\ sock'[Other] # 0 => sock'[Other] = Len(conns')
  BY <1>2, <1>3, <1>4 DEF Ends
<1>10. QED
  BY <1>1, <1>4, <1>6, <1>7, <1>8, <1>9 DEF Ends

\* Connections are accepted in the order they were made, and their ends used in that order.
LEMMA EndsKeeps ==
  ASSUME TypeOK, Alone, Ends, Next
  PROVE  Ends'
<1>1. ASSUME NEW t \in SThread, SendBegin(t)
      PROVE  Ends'
  BY <1>1, EndsSame DEF SendBegin
<1>2. ASSUME NEW t \in SThread, SendPiece(t)
      PROVE  Ends'
  BY <1>2, SendPieceFacts, EndsSame
<1>3. ASSUME NEW t \in SThread, SendError(t)
      PROVE  Ends'
  BY <1>3, EndsClose DEF SendError, End
<1>4. ASSUME NEW t \in SThread, SendReopen(t)
      PROVE  Ends'
  BY <1>4, EndsReopen DEF SendReopen, Alone, End
<1>5. ASSUME NEW r \in RThread, RecvBegin(r)
      PROVE  Ends'
  BY <1>5, EndsSame DEF RecvBegin
<1>6. ASSUME NEW r \in RThread, RecvPiece(r)
      PROVE  Ends'
  BY <1>6, RecvPieceFacts, EndsSame
<1>7. ASSUME NEW r \in RThread, RecvError(r)
      PROVE  Ends'
  BY <1>7, EndsClose DEF RecvError, End
<1>8. ASSUME NEW r \in RThread, RecvReopen(r)
      PROVE  Ends'
  BY <1>8, EndsReopen DEF RecvReopen, Alone, End
<1>9. ASSUME NEW c \in DOMAIN conns, Break(c)
      PROVE  Ends'
  BY <1>9, BreakStep, EndsSame
<1>10. CASE SenderDeath
  BY <1>10, EndsDeath DEF SenderDeath, End
<1>11. CASE ReceiverDeath
  BY <1>11, EndsDeath DEF ReceiverDeath, End
<1>12. QED
  BY <1>1, <1>2, <1>3, <1>4, <1>5, <1>6, <1>7, <1>8, <1>9, <1>10, <1>11 DEF Next, SendStep, RecvStep

-----------------------------------------------------------------------------
(* What is on its way.                                                      *)

\* Only the thread that sends has a position, only the one that receives has pieces.
LEMMA OnlyOne ==
  ASSUME Alone
  PROVE  /\ \A t, u \in SThread : spc[t] # "idle" /\ u # t => spos[u] = 0 /\ spc[u] = "idle"
         /\ \A r, q \in RThread : rpc[r] # "idle" /\ q # r => rbuf[q] = <<>>
BY DEF Alone

\* A connection of which the step changes nothing that matters.
LEMMA FlowsSame ==
  ASSUME TypeOK, link' = link, NEW c \in DOMAIN conns, Flows(c),
         rbuf' = rbuf, sock'["rcv"] = sock["rcv"],
         conns'[c].data = conns[c].data, conns'[c].ok <=> conns[c].ok,
         conns'[c].rcv <=> conns[c].rcv, conns[c].accepted => conns'[c].accepted
  PROVE  Flows(c)'
<1>1. Listener' = Listener /\ Pieces' = Pieces
  BY SameLink
<1>2. QED
  BY <1>1 DEF Flows, Follows

\* A connection with nothing on its way.
LEMMA FlowsEmpty ==
  ASSUME TypeOK, link' = link, NEW c \in DOMAIN conns', conns'[c].data = <<>>,
         Listener = "snd" /\ ~conns'[c].accepted /\ c = sock'["rcv"] => \A r \in RThread : rbuf'[r] = <<>>
  PROVE  Flows(c)'
<1>1. Listener' = Listener
  BY SameLink
<1>2. Len(conns'[c].data) = 0
  OBVIOUS
<1>3. QED
  BY <1>1, <1>2 DEF Flows

\* A connection that was not the receiver's, when the receiver has no pieces.
LEMMA FlowsQuiet ==
  ASSUME TypeOK, link' = link, NEW c \in DOMAIN conns, Flows(c),
         c # sock["rcv"], \A r \in RThread : rbuf'[r] = <<>>,
         conns'[c].data = conns[c].data, conns'[c].ok <=> conns[c].ok,
         conns'[c].rcv <=> conns[c].rcv, conns[c].accepted => conns'[c].accepted
  PROVE  Flows(c)'
<1>1. Listener' = Listener /\ Pieces' = Pieces
  BY SameLink
<1>2. QED
  BY <1>1 DEF Flows, Follows

\* What a sender writes next fits to the end of the stream.
LEMMA NextFits ==
  ASSUME TypeOK, Alone, Streams, Order, NEW t \in SThread, spc[t] = "send",
         NEW c \in DOMAIN conns, c = sock["snd"], Reachable(c),
         NEW n, n = Len(conns[c].data)
  PROVE  /\ \A j \in 1 .. n : ~conns[c].data[j].cut
         /\ n > 0 => Follows(conns[c].data[n], NextPiece(t))
         /\ n = 0 => /\ c # sock["rcv"] \/ (\A r \in RThread : rbuf[r] = <<>>) => NextPiece(t).i = 1
                     /\ \A r \in RThread : c = sock["rcv"] /\ rbuf[r] # <<>> =>
                          Follows(rbuf[r][Len(rbuf[r])], NextPiece(t))
<1> DEFINE data == conns[c].data
           p == NextPiece(t)
<1>1. /\ p.msg = begun /\ p.i = spos[t] + 1 /\ spos[t] \in Nat /\ spos[t] < Pieces
      /\ begun \in Nat /\ Pieces \in Nat
      /\ c \in Nat \ {0}
      /\ smsg[t] = begun
  BY NextTyped, Basics, ConnTyped DEF Alone
<1>2. n \in Nat /\ (data = <<>> <=> n = 0) /\ \A j \in 1 .. n : data[j] \in PieceType
  BY ConnTyped
<1>3. \A j \in 1 .. n : ~data[j].cut
  BY DEF Streams, Flows, Reachable
<1>4. \A u \in SThread : u # t => spos[u] = 0
  BY OnlyOne
<1>5. CASE spos[t] > 0
  <2>1. IF data # <<>> THEN data[n].msg = begun /\ data[n].i = spos[t]
        ELSE /\ c = sock["rcv"]
             /\ \E r \in RThread : /\ rbuf[r] # <<>> /\ Len(rbuf[r]) = spos[t]
                                   /\ rbuf[r][Len(rbuf[r])].msg = begun
    BY <1>1, <1>5 DEF Streams, InStep
  <2>2. n > 0 => Follows(data[n], p)
    BY <1>1, <1>2, <2>1 DEF Follows
  <2>3. ASSUME n = 0
        PROVE  /\ c = sock["rcv"] /\ ~(\A r \in RThread : rbuf[r] = <<>>)
               /\ \A r \in RThread : rbuf[r] # <<>> => Follows(rbuf[r][Len(rbuf[r])], p)
    <3>1. PICK r \in RThread : /\ rbuf[r] # <<>> /\ Len(rbuf[r]) = spos[t]
                               /\ rbuf[r][Len(rbuf[r])].msg = begun
      BY <1>2, <2>1, <2>3
    <3>2. \A q \in RThread : rbuf[q] # <<>> => q = r
      BY <3>1 DEF Alone
    <3>3. rbuf[r][Len(rbuf[r])].i = spos[t]
      BY <1>1, <1>5, <3>1 DEF Streams, Attempts
    <3>4. Follows(rbuf[r][Len(rbuf[r])], p)
      BY <1>1, <3>1, <3>3 DEF Follows
    <3>5. QED
      BY <1>2, <2>1, <2>3, <3>1, <3>2, <3>4
  <2>4. QED
    BY <1>3, <2>2, <2>3
<1>6. CASE spos[t] = 0
  <2>1. IF data # <<>> THEN data[n].i = Pieces ELSE c = sock["rcv"] => \A r \in RThread : rbuf[r] = <<>>
    BY <1>1, <1>4, <1>6 DEF Streams, InStep
  <2>2. ASSUME n > 0
        PROVE  Follows(data[n], p)
    <3>1. data[n].i = Pieces /\ ~data[n].cut
      BY <1>2, <1>3, <2>1, <2>2
    <3>2. data[n].msg < begun
      BY <1>2, <2>2, <3>1 DEF Order, Completes
    <3>3. data[n].msg \in Nat
      BY <1>2, <2>2, Basics DEF PieceType
    <3>4. QED
      BY <1>1, <1>6, <3>1, <3>2, <3>3 DEF Follows
  <2>3. QED
    BY <1>1, <1>2, <1>3, <1>6, <2>1, <2>2
<1>7. QED
  BY <1>1, <1>5, <1>6

\* Streams when a sender writes.
LEMMA StreamsSendPiece ==
  ASSUME TypeOK, Alone, Ends, Streams, Order, NEW t \in SThread, SendPiece(t),
         NEW c, c = sock["snd"]
  PROVE  Streams'
<1> DEFINE data == conns[c].data
           p == NextPiece(t)
           n == Len(data)
<1>1. /\ c \in DOMAIN conns /\ spc[t] = "send"
      /\ sock' = sock /\ rbuf' = rbuf /\ rpc' = rpc /\ link' = link
      /\ \A u \in SThread : u # t => spos'[u] = spos[u] /\ smsg'[u] = smsg[u]
      /\ \/ spos[t] + 1 = Pieces /\ spos'[t] = 0
         \/ spos[t] + 1 # Pieces /\ spos'[t] = spos[t] + 1 /\ smsg'[t] = smsg[t]
  BY SendPieceFacts
<1>2. Listener' = Listener /\ Pieces' = Pieces
  BY <1>1, SameLink
<1>3. \A u \in SThread : u # t => spos[u] = 0
  BY <1>1, OnlyOne
<1>4. Attempts'
  BY <1>1, <1>2 DEF Streams, Attempts
<1>5. CASE ~Reachable(c) /\ conns' = conns
  <2>1. \A b \in DOMAIN conns : Flows(b)'
    BY <1>1, <1>5, FlowsSame DEF Streams
  <2>2. InStep'
    BY <1>1, <1>5 DEF InStep, Reachable
  <2>3. QED
    BY <1>4, <1>5, <2>1, <2>2 DEF Streams
<1>6. CASE Reachable(c) /\ conns' # conns
  <2>1. /\ DOMAIN conns' = DOMAIN conns
        /\ \A b \in DOMAIN conns :
             /\ conns'[b].ok <=> conns[b].ok
             /\ conns'[b].accepted <=> conns[b].accepted
             /\ conns'[b].rcv <=> conns[b].rcv
             /\ b # c => conns'[b].data = conns[b].data
        /\ conns'[c].data \in Seq(PieceType)
        /\ Len(conns'[c].data) = n + 1
        /\ \A j \in 1 .. n : conns'[c].data[j] = data[j]
        /\ conns'[c].data[n + 1] = p
    BY <1>6, SendPieceFacts
  <2> DEFINE d == conns'[c].data
  <2>2. n \in Nat /\ (data = <<>> <=> n = 0) /\ d # <<>> /\ data \in Seq(PieceType)
    BY <1>1, <2>1, ConnTyped
  <2>3. /\ \A j \in 1 .. n : ~data[j].cut
        /\ n > 0 => Follows(data[n], p)
        /\ n = 0 => /\ c # sock["rcv"] \/ (\A r \in RThread : rbuf[r] = <<>>) => p.i = 1
                    /\ \A r \in RThread : c = sock["rcv"] /\ rbuf[r] # <<>> =>
                         Follows(rbuf[r][Len(rbuf[r])], p)
    BY <1>1, <1>6, NextFits
  <2>4. p.i = spos[t] + 1 /\ ~p.cut /\ p.msg = smsg[t] /\ smsg[t] = begun /\ spos[t] \in Nat /\ Pieces \in Nat
    BY <1>1, NextTyped, Basics DEF Alone
  <2>5. \A b \in DOMAIN conns : b # c => Flows(b)'
    BY <1>1, <2>1, FlowsSame DEF Streams
  <2>6. Flows(c)'
    <3>1. conns'[c].rcv
      BY <1>1, <1>6, <2>1 DEF Reachable
    <3>2. ASSUME Listener = "snd"
          PROVE  conns'[c].accepted
      BY <1>1, <2>1, <3>2, Basics, ConnTyped DEF Ends
    <3>3. \A j \in 1 .. (n + 1) : ~d[j].cut
      <4>1. \A j \in 1 .. n : ~d[j].cut
        BY <2>1, <2>3
      <4>2. ~d[n + 1].cut
        BY <2>1, <2>4
      <4>3. \A j \in 1 .. (n + 1) : j \in 1 .. n \/ j = n + 1
        BY <2>2
      <4>4. QED
        BY <4>1, <4>2, <4>3
    <3>4. \A j \in 1 .. n : Follows(d[j], d[j + 1])
      <4>1. \A j \in 1 .. (n - 1) : Follows(data[j], data[j + 1])
        BY <1>1 DEF Streams, Flows
      <4>2. \A j \in 1 .. n : j + 1 \in 1 .. n \/ j = n
        BY <2>2
      <4>3. \A j \in 1 .. n : j = n => Follows(d[j], d[j + 1])
        <5>1. n > 0 => d[n] = data[n] /\ d[n + 1] = p
          BY <2>1, <2>2, SMTT(30)
        <5>2. n > 0 => Follows(d[n], d[n + 1])
          BY <2>3, <5>1
        <5>3. QED
          BY <2>2, <5>2
      <4>4. \A j \in 1 .. n : j + 1 \in 1 .. n => Follows(d[j], d[j + 1])
        BY <2>1, <2>2, <4>1
      <4>5. QED
        BY <4>2, <4>3, <4>4
    <3>5. /\ c # sock["rcv"] \/ (\A r \in RThread : rbuf[r] = <<>>) => d[1].i = 1
          /\ \A r \in RThread : c = sock["rcv"] /\ rbuf[r] # <<>> =>
               Follows(rbuf[r][Len(rbuf[r])], d[1])
      <4>1. CASE n = 0
        BY <2>1, <2>3, <4>1
      <4>2. CASE n > 0
        <5>1. d[1] = data[1] /\ data # <<>>
          BY <2>1, <2>2, <4>2
        <5>2. QED
          BY <1>1, <5>1 DEF Streams, Flows
      <4>3. QED
        BY <2>2, <4>1, <4>2
    <3>6. Len(d) = n + 1 /\ Len(d) - 1 = n
      BY <2>1, <2>2
    <3>7. \A x, y : Follows(x, y)' <=> Follows(x, y)
      BY <1>2 DEF Follows
    <3>8. \A j \in 1 .. n : IF d[j].i = Pieces THEN d[j + 1].i = 1 /\ d[j + 1].msg > d[j].msg
                            ELSE d[j + 1].i = d[j].i + 1 /\ d[j + 1].msg = d[j].msg
      BY <3>4 DEF Follows
    <3>9. \A r \in RThread : c = sock["rcv"] /\ rbuf[r] # <<>> =>
            LET q == rbuf[r][Len(rbuf[r])]
            IN  IF q.i = Pieces THEN d[1].i = 1 /\ d[1].msg > q.msg
                ELSE d[1].i = q.i + 1 /\ d[1].msg = q.msg
      BY <3>5 DEF Follows
    <3>10. QED
      BY <1>1, <1>2, <3>1, <3>2, <3>3, <3>5, <3>6, <3>8, <3>9 DEF Flows, Follows
  <2>7. InStep'
    <3>1. d[Len(d)] = p
      BY <2>1
    <3>2. \A u \in SThread : spos'[u] > 0 => p.msg = smsg'[u] /\ p.i = spos'[u]
      BY <1>1, <1>3, <2>4
    <3>3. (\A u \in SThread : spos'[u] = 0) => p.i = Pieces
      BY <1>1, <2>4
    <3>4. QED
      BY <1>1, <1>2, <2>2, <3>1, <3>2, <3>3 DEF InStep
  <2>8. \A b \in DOMAIN conns : Flows(b)'
    BY <2>5, <2>6
  <2>9. QED
    BY <1>4, <2>1, <2>7, <2>8 DEF Streams
<1>7. QED
  BY <1>5, <1>6, SendPieceFacts

\* What the receiver that reads next to it sees.
LEMMA HeadFits ==
  ASSUME TypeOK, Alone, Streams, NEW r \in RThread, rpc[r] # "idle",
         NEW c \in DOMAIN conns, c = sock["rcv"], Len(conns[c].data) > 0,
         NEW p, p = conns[c].data[1]
  PROVE  /\ p.i = Len(rbuf[r]) + 1
         /\ \A j \in 1 .. Len(rbuf[r]) : rbuf[r][j].i = j /\ rbuf[r][j].msg = p.msg
         /\ \A q \in RThread : q # r => rbuf[q] = <<>>
<1>1. \A q \in RThread : q # r => rbuf[q] = <<>>
  BY OnlyOne
<1>2. Len(rbuf[r]) \in Nat /\ (rbuf[r] = <<>> <=> Len(rbuf[r]) = 0) /\ Len(rbuf[r]) < Pieces /\ Pieces \in Nat
  BY ConnTyped, Basics DEF Streams, Attempts
<1>3. conns[c].data # <<>>
  BY ConnTyped
<1>4. \A j \in 1 .. Len(rbuf[r]) : rbuf[r][j].i = j /\ rbuf[r][j].msg = rbuf[r][1].msg
  BY DEF Streams, Attempts
<1>5. CASE rbuf[r] = <<>>
  <2>1. p.i = 1
    BY <1>1, <1>3, <1>5 DEF Streams, Flows
  <2>2. QED
    BY <1>1, <1>2, <1>5, <2>1
<1>6. CASE rbuf[r] # <<>>
  <2>1. Follows(rbuf[r][Len(rbuf[r])], p)
    BY <1>3, <1>6 DEF Streams, Flows
  <2>2. rbuf[r][Len(rbuf[r])].i = Len(rbuf[r]) /\ rbuf[r][Len(rbuf[r])].msg = rbuf[r][1].msg
    BY <1>2, <1>4, <1>6
  <2>3. p.i = Len(rbuf[r]) + 1 /\ p.msg = rbuf[r][1].msg
    BY <1>2, <2>1, <2>2 DEF Follows
  <2>4. QED
    BY <1>1, <1>4, <2>3
<1>7. QED
  BY <1>5, <1>6

\* Streams when a receiver reads.
LEMMA StreamsRecvPiece ==
  ASSUME TypeOK, Alone, Ends, Streams, NEW r \in RThread, RecvPiece(r),
         NEW c, c = sock["rcv"], NEW p, p = conns[c].data[1]
  PROVE  Streams'
<1> DEFINE data == conns[c].data
           n == Len(data)
           d == conns'[c].data
           m == Len(rbuf[r])
<1>1. /\ c \in DOMAIN conns /\ rpc[r] = "recv" /\ n > 0 /\ ~p.cut /\ p \in PieceType
      /\ sock' = sock /\ link' = link /\ smsg' = smsg /\ spos' = spos
      /\ \A q \in RThread : q # r => rbuf'[q] = rbuf[q]
      /\ DOMAIN conns' = DOMAIN conns
      /\ \A b \in DOMAIN conns :
           /\ conns'[b].ok <=> conns[b].ok
           /\ conns'[b].accepted <=> conns[b].accepted
           /\ conns'[b].rcv <=> conns[b].rcv
           /\ b # c => conns'[b].data = conns[b].data
      /\ d \in Seq(PieceType) /\ Len(d) = n - 1
      /\ \A j \in 1 .. Len(d) : d[j] = data[j + 1]
      /\ \/ m + 1 = Pieces /\ rbuf'[r] = <<>>
         \/ m + 1 # Pieces /\ rbuf'[r] = Append(rbuf[r], p)
  <2>1. /\ c \in DOMAIN conns /\ rpc[r] = "recv" /\ n > 0 /\ ~p.cut /\ p \in PieceType
        /\ sock' = sock /\ link' = link /\ smsg' = smsg /\ spos' = spos
        /\ \A q \in RThread : q # r => rbuf'[q] = rbuf[q]
        /\ DOMAIN conns' = DOMAIN conns
    BY RecvPieceFacts
  <2>2. \A b \in DOMAIN conns :
           /\ conns'[b].ok <=> conns[b].ok
           /\ conns'[b].accepted <=> conns[b].accepted
           /\ conns'[b].rcv <=> conns[b].rcv
           /\ b # c => conns'[b].data = conns[b].data
    BY RecvPieceFacts
  <2>3. /\ d \in Seq(PieceType) /\ Len(d) = n - 1
        /\ \A j \in 1 .. Len(d) : d[j] = data[j + 1]
    BY RecvPieceFacts, SMTT(30)
  <2>4. \/ m + 1 = Pieces /\ rbuf'[r] = <<>>
        \/ m + 1 # Pieces /\ rbuf'[r] = Append(rbuf[r], p)
    BY RecvPieceFacts
  <2>5. QED
    BY <2>1, <2>2, <2>3, <2>4
<1>2. Listener' = Listener /\ Pieces' = Pieces
  BY <1>1, SameLink
<1>3. /\ p.i = m + 1
      /\ \A j \in 1 .. m : rbuf[r][j].i = j /\ rbuf[r][j].msg = p.msg
      /\ \A q \in RThread : q # r => rbuf[q] = <<>>
  BY <1>1, HeadFits
<1>4. /\ n \in Nat /\ m \in Nat /\ m < Pieces /\ Pieces \in Nat /\ rbuf[r] \in Seq(PieceType)
      /\ data # <<>> /\ (d = <<>> <=> n = 1)
  <2>1. n \in Nat /\ m \in Nat /\ Pieces \in Nat /\ rbuf[r] \in Seq(PieceType) /\ data # <<>>
    BY <1>1, ConnTyped, Basics
  <2>2. m < Pieces
    BY DEF Streams, Attempts
  <2>3. d = <<>> <=> Len(d) = 0
    BY <1>1, EmptyIsNone
  <2>4. QED
    BY <1>1, <2>1, <2>2, <2>3
<1>5. /\ \A q \in RThread : q # r => rbuf'[q] = <<>>
      /\ \/ m + 1 = Pieces /\ rbuf'[r] = <<>>
         \/ /\ m + 1 < Pieces /\ rbuf'[r] # <<>> /\ Len(rbuf'[r]) = m + 1
            /\ rbuf'[r][m + 1] = p /\ \A j \in 1 .. m : rbuf'[r][j] = rbuf[r][j]
  <2>1. /\ Append(rbuf[r], p) # <<>> /\ Len(Append(rbuf[r], p)) = m + 1
        /\ Append(rbuf[r], p)[m + 1] = p /\ \A j \in 1 .. m : Append(rbuf[r], p)[j] = rbuf[r][j]
    <3>1. p \in PieceType /\ rbuf[r] \in Seq(PieceType)
      BY <1>1, <1>4
    <3>2. QED
      BY <3>1, AppendFacts
  <2>2. m + 1 < Pieces \/ m + 1 = Pieces
    BY <1>4
  <2>3. \A q \in RThread : q # r => rbuf'[q] = <<>>
    BY <1>1, <1>3
  <2>4. QED
    BY <1>1, <2>1, <2>2, <2>3
<1>6. Attempts'
  <2>1. CASE rbuf'[r] = <<>>
    BY <1>2, <1>4, <1>5, <2>1 DEF Attempts
  <2>2. CASE rbuf'[r] # <<>>
    <3>1. \A j \in 1 .. (m + 1) : rbuf'[r][j].i = j /\ rbuf'[r][j].msg = p.msg
      <4>1. \A j \in 1 .. m : rbuf'[r][j].i = j /\ rbuf'[r][j].msg = p.msg
        BY <1>3, <1>5, <2>2
      <4>2. rbuf'[r][m + 1].i = m + 1 /\ rbuf'[r][m + 1].msg = p.msg
        BY <1>3, <1>5, <2>2
      <4>3. \A j \in 1 .. (m + 1) : j \in 1 .. m \/ j = m + 1
        BY <1>4
      <4>4. QED
        BY <4>1, <4>2, <4>3
    <3>2. Len(rbuf'[r]) = m + 1 /\ m + 1 < Pieces /\ 1 \in 1 .. (m + 1)
      BY <1>4, <1>5, <2>2
    <3>3. \A q \in RThread : q # r => Len(rbuf'[q]) = 0
      BY <1>5
    <3>4. QED
      BY <1>2, <1>4, <3>1, <3>2, <3>3 DEF Attempts
  <2>3. QED
    BY <2>1, <2>2
<1>7. ASSUME NEW b \in DOMAIN conns, b # c
      PROVE  Flows(b)'
  <2>1. Flows(b) /\ b # sock["rcv"] /\ b # sock'["rcv"]
    BY <1>1, <1>7 DEF Streams
  <2>2. conns'[b].data = conns[b].data
    BY <1>1, <1>7
  <2>3. QED
    BY <1>1, <1>2, <1>7, <2>1, <2>2 DEF Flows, Follows
<1>8. Flows(c)'
  <2>1. Flows(c)
    BY <1>1 DEF Streams
  <2>2. conns'[c].rcv /\ (Listener = "snd" => conns'[c].accepted)
    BY <1>1, <1>4, <2>1 DEF Flows
  <2>3. \A j \in 1 .. Len(d) : d[j].cut => j = Len(d) /\ ~conns'[c].ok
    <3>1. \A j \in 1 .. n : data[j].cut => j = n /\ ~conns[c].ok
      BY <2>1 DEF Flows
    <3>2. \A j \in 1 .. Len(d) : j + 1 \in 1 .. n /\ d[j] = data[j + 1] /\ (j + 1 = n => j = Len(d))
      <4>1. Len(d) = n - 1 /\ n \in Nat
        BY <1>1, <1>4
      <4>2. \A j \in 1 .. (n - 1) : j + 1 \in 1 .. n /\ (j + 1 = n => j = n - 1)
        BY <4>1
      <4>3. \A j \in 1 .. Len(d) : d[j] = data[j + 1]
        BY <1>1
      <4>4. QED
        BY <4>1, <4>2, <4>3
    <3>3. conns'[c].ok <=> conns[c].ok
      BY <1>1
    <3>4. QED
      BY <3>1, <3>2, <3>3
  <2>4. \A j \in 1 .. (Len(d) - 1) : Follows(d[j], d[j + 1])
    <3>1. \A j \in 1 .. (Len(d) - 1) : j + 1 \in 1 .. (n - 1) /\ d[j] = data[j + 1] /\ d[j + 1] = data[j + 2]
      <4>1. Len(d) = n - 1 /\ n \in Nat
        BY <1>1, <1>4
      <4>2. \A j \in 1 .. (Len(d) - 1) : /\ j \in 1 .. Len(d) /\ j + 1 \in 1 .. Len(d)
                                         /\ j + 1 \in 1 .. (n - 1) /\ (j + 1) + 1 = j + 2
        BY <4>1
      <4>3. \A j \in 1 .. Len(d) : d[j] = data[j + 1]
        BY <1>1
      <4>4. QED
        BY <4>2, <4>3
    <3>2. \A j \in 1 .. (n - 1) : Follows(data[j], data[j + 1])
      BY <2>1 DEF Flows
    <3>3. \A j \in 1 .. (Len(d) - 1) : Follows(data[j + 1], data[(j + 1) + 1]) /\ (j + 1) + 1 = j + 2
      BY <1>1, <1>4, <3>1, <3>2
    <3>4. QED
      BY <3>1, <3>3
  <2>5. ASSUME d # <<>>
        PROVE  /\ (\A q \in RThread : rbuf'[q] = <<>>) => d[1].i = 1
               /\ \A q \in RThread : rbuf'[q] # <<>> => Follows(rbuf'[q][Len(rbuf'[q])], d[1])
    <3>1. n - 1 \in Nat /\ n - 1 >= 1 /\ 1 \in 1 .. (n - 1) /\ 1 \in 1 .. Len(d)
      BY <1>1, <1>4, <2>5
    <3>2. d[1] = data[2] /\ Follows(p, data[2])
      BY <1>1, <2>1, <3>1 DEF Flows
    <3>3. CASE m + 1 = Pieces
      BY <1>3, <1>4, <1>5, <3>2, <3>3 DEF Follows
    <3>4. CASE m + 1 # Pieces
      BY <1>5, <3>2, <3>4
    <3>5. QED
      BY <3>3, <3>4
  <2>6. \A j \in 1 .. (Len(d) - 1) : IF d[j].i = Pieces THEN d[j + 1].i = 1 /\ d[j + 1].msg > d[j].msg
                                     ELSE d[j + 1].i = d[j].i + 1 /\ d[j + 1].msg = d[j].msg
    BY <2>4 DEF Follows
  <2>7. d # <<>> => \A q \in RThread : rbuf'[q] # <<>> =>
            LET x == rbuf'[q][Len(rbuf'[q])]
            IN  IF x.i = Pieces THEN d[1].i = 1 /\ d[1].msg > x.msg
                ELSE d[1].i = x.i + 1 /\ d[1].msg = x.msg
    BY <2>5 DEF Follows
  <2>8. QED
    BY <1>1, <1>2, <2>2, <2>3, <2>5, <2>6, <2>7 DEF Flows, Follows
<1>9. InStep'
  <2> DEFINE e == sock["snd"]
  <2>1. SUFFICES ASSUME e # 0, Reachable(e)'
                 PROVE  /\ \A t \in SThread : spos[t] > 0 =>
                             IF conns'[e].data # <<>>
                             THEN /\ conns'[e].data[Len(conns'[e].data)].msg = smsg[t]
                                  /\ conns'[e].data[Len(conns'[e].data)].i = spos[t]
                             ELSE /\ e = c
                                  /\ \E q \in RThread : /\ rbuf'[q] # <<>> /\ Len(rbuf'[q]) = spos[t]
                                                        /\ rbuf'[q][Len(rbuf'[q])].msg = smsg[t]
                        /\ (\A t \in SThread : spos[t] = 0) =>
                             IF conns'[e].data # <<>> THEN conns'[e].data[Len(conns'[e].data)].i = Pieces
                             ELSE e = c => \A q \in RThread : rbuf'[q] = <<>>
    BY <1>1, <1>2 DEF InStep, Reachable
  <2>2. e \in DOMAIN conns /\ Reachable(e)
    BY <1>1, <2>1, Basics, ConnTyped DEF Reachable, End
  <2>3. CASE e # c
    <3>1. conns'[e].data = conns[e].data
      BY <1>1, <2>2, <2>3
    <3>2. /\ \A t \in SThread : spos[t] > 0 =>
               /\ conns[e].data # <<>>
               /\ conns[e].data[Len(conns[e].data)].msg = smsg[t]
               /\ conns[e].data[Len(conns[e].data)].i = spos[t]
          /\ (\A t \in SThread : spos[t] = 0) /\ conns[e].data # <<>> =>
               conns[e].data[Len(conns[e].data)].i = Pieces
      BY <2>1, <2>2, <2>3 DEF Streams, InStep
    <3>3. QED
      BY <2>3, <3>1, <3>2
  <2>4. CASE e = c
    <3>1. /\ \A t \in SThread : spos[t] > 0 => data[n].msg = smsg[t] /\ data[n].i = spos[t]
          /\ (\A t \in SThread : spos[t] = 0) => data[n].i = Pieces
      BY <1>4, <2>1, <2>2, <2>4 DEF Streams, InStep
    <3>2. CASE d # <<>>
      <4>1. d[Len(d)] = data[n]
        <5>1. Len(d) = n - 1 /\ n \in Nat /\ n # 1 /\ n > 0
          BY <1>1, <1>4, <3>2
        <5>2. Len(d) \in 1 .. Len(d) /\ Len(d) + 1 = n
          <6>1. \A x \in Nat : x # 1 /\ x > 0 => x - 1 \in 1 .. (x - 1) /\ (x - 1) + 1 = x
            OBVIOUS
          <6>2. QED
            BY <5>1, <6>1
        <5>3. QED
          BY <1>1, <5>2
      <4>2. QED
        BY <2>4, <3>1, <3>2, <4>1
    <3>3. CASE d = <<>>
      <4>1. n = 1 /\ data[n] = p
        BY <1>4, <3>3
      <4>2. ASSUME NEW t \in SThread, spos[t] > 0
            PROVE  \E q \in RThread : /\ rbuf'[q] # <<>> /\ Len(rbuf'[q]) = spos[t]
                                      /\ rbuf'[q][Len(rbuf'[q])].msg = smsg[t]
        <5>1. spos[t] = m + 1 /\ p.msg = smsg[t]
          BY <1>3, <3>1, <4>1, <4>2
        <5>2. spos[t] \in 0 .. (Pieces - 1)
          BY DEF TypeOK
        <5>3. m + 1 # Pieces
          BY <1>4, <5>1, <5>2
        <5>4. QED
          BY <1>5, <5>1, <5>3
      <4>3. ASSUME \A t \in SThread : spos[t] = 0
            PROVE  \A q \in RThread : rbuf'[q] = <<>>
        BY <1>3, <1>4, <1>5, <3>1, <4>1, <4>3
      <4>4. QED
        BY <2>4, <3>3, <4>2, <4>3
    <3>4. QED
      BY <3>2, <3>3
  <2>5. QED
    BY <2>3, <2>4
<1>10. \A b \in DOMAIN conns : Flows(b)'
  BY <1>7, <1>8
<1>11. QED
  BY <1>1, <1>6, <1>9, <1>10 DEF Streams

\* The pieces that are left when a connection breaks: which they are, but for being cut.
LEMMA BreakLeaves ==
  ASSUME TypeOK, Alone, Streams, NEW c \in DOMAIN conns, Break(c), NEW d, d = conns'[c].data
  PROVE  /\ d \in Seq(PieceType) /\ Len(d) \in Nat /\ (d = <<>> <=> Len(d) = 0)
         /\ Len(conns[c].data) \in Nat
         /\ \A j \in 1 .. Len(d) : j # Len(d) => j \in 1 .. Len(conns[c].data) /\ d[j] = conns[c].data[j]
         /\ Len(d) > 0 =>
              \/ /\ Len(d) \in 1 .. Len(conns[c].data)
                 /\ d[Len(d)].msg = conns[c].data[Len(d)].msg /\ d[Len(d)].i = conns[c].data[Len(d)].i
                 /\ d[Len(d)].cut \/ d[Len(d)] = conns[c].data[Len(d)]
              \/ /\ Len(d) = Len(conns[c].data) + 1
                 /\ \E t \in SThread : /\ spc[t] = "send" /\ sock["snd"] = c
                                       /\ d[Len(d)].msg = NextPiece(t).msg /\ d[Len(d)].i = NextPiece(t).i
                                       /\ d[Len(d)].cut
<1> DEFINE data == conns[c].data
<1>1. d \in Truncated(c)
  BY BreakStep
<1>2. /\ d \in Seq(PieceType)
      /\ \/ Len(d) <= Len(data) /\ \A j \in 1 .. Len(d) : d[j] = data[j]
         \/ /\ Len(d) \in 1 .. Len(data)
            /\ \A j \in 1 .. Len(d) : j # Len(d) => d[j] = data[j]
            /\ d[Len(d)] = Cut(data[Len(d)])
         \/ /\ Len(d) = Len(data) + 1
            /\ \A j \in 1 .. Len(data) : d[j] = data[j]
            /\ \E t \in SThread : spc[t] = "send" /\ sock["snd"] = c /\ d[Len(d)] = Cut(NextPiece(t))
  BY <1>1, TruncatedFacts
<1>3. Len(d) \in Nat /\ (d = <<>> <=> Len(d) = 0) /\ Len(data) \in Nat
  BY <1>2, EmptyIsNone, ConnTyped
<1>4. \A j \in 1 .. Len(data) : data[j] \in PieceType
  BY ConnTyped
<1>5. CASE Len(d) <= Len(data) /\ \A j \in 1 .. Len(d) : d[j] = data[j]
  <2>1. \A j \in 1 .. Len(d) : j \in 1 .. Len(data)
    BY <1>3, <1>5
  <2>2. Len(d) > 0 => Len(d) \in 1 .. Len(d)
    BY <1>3
  <2>3. QED
    BY <1>2, <1>3, <1>5, <2>1, <2>2
<1>6. CASE /\ Len(d) \in 1 .. Len(data)
           /\ \A j \in 1 .. Len(d) : j # Len(d) => d[j] = data[j]
           /\ d[Len(d)] = Cut(data[Len(d)])
  <2>1. \A j \in 1 .. Len(d) : j \in 1 .. Len(data)
    BY <1>3, <1>6
  <2>2. d[Len(d)].msg = data[Len(d)].msg /\ d[Len(d)].i = data[Len(d)].i /\ d[Len(d)].cut
    BY <1>4, <1>6, CutFacts
  <2>3. QED
    BY <1>2, <1>3, <1>6, <2>1, <2>2
<1>7. CASE /\ Len(d) = Len(data) + 1
           /\ \A j \in 1 .. Len(data) : d[j] = data[j]
           /\ \E t \in SThread : spc[t] = "send" /\ sock["snd"] = c /\ d[Len(d)] = Cut(NextPiece(t))
  <2>1. \A j \in 1 .. Len(d) : j # Len(d) => j \in 1 .. Len(data)
    BY <1>3, <1>7
  <2>2. PICK t \in SThread : spc[t] = "send" /\ sock["snd"] = c /\ d[Len(d)] = Cut(NextPiece(t))
    BY <1>7
  <2>3. d[Len(d)].msg = NextPiece(t).msg /\ d[Len(d)].i = NextPiece(t).i /\ d[Len(d)].cut
    BY <2>2, NextTyped, CutFacts
  <2>4. QED
    BY <1>2, <1>3, <1>7, <2>1, <2>2, <2>3
<1>8. QED
  BY <1>2, <1>5, <1>6, <1>7

\* Streams when a connection breaks.
LEMMA StreamsBreak ==
  ASSUME TypeOK, Alone, Ends, Streams, Order, NEW c \in DOMAIN conns, Break(c)
  PROVE  Streams'
<1> DEFINE data == conns[c].data
           n == Len(data)
<1> SUFFICES ASSUME NEW d, d = conns'[c].data
             PROVE  Streams'
  OBVIOUS
<1>1. /\ Reachable(c)
      /\ sock' = sock /\ rbuf' = rbuf /\ link' = link /\ smsg' = smsg /\ spos' = spos
      /\ DOMAIN conns' = DOMAIN conns
      /\ \A b \in DOMAIN conns :
           /\ conns'[b].ok <=> (conns[b].ok /\ b # c)
           /\ conns'[b].accepted <=> conns[b].accepted
           /\ conns'[b].rcv <=> conns[b].rcv
           /\ b # c => conns'[b].data = conns[b].data
  BY BreakStep
<1>2. Listener' = Listener /\ Pieces' = Pieces
  BY <1>1, SameLink
<1>3. Attempts'
  BY <1>1, <1>2 DEF Streams, Attempts
<1>4. \A b \in DOMAIN conns : b # c => Flows(b)'
  BY <1>1, FlowsSame DEF Streams
<1>5. /\ Len(d) \in Nat /\ n \in Nat /\ (d = <<>> <=> Len(d) = 0) /\ (data = <<>> <=> n = 0)
      /\ \A j \in 1 .. Len(d) : j # Len(d) => j \in 1 .. n /\ d[j] = data[j]
      /\ Len(d) > 0 =>
           \/ /\ Len(d) \in 1 .. n
              /\ d[Len(d)].msg = data[Len(d)].msg /\ d[Len(d)].i = data[Len(d)].i
              /\ d[Len(d)].cut \/ d[Len(d)] = data[Len(d)]
           \/ /\ Len(d) = n + 1
              /\ \E t \in SThread : /\ spc[t] = "send" /\ sock["snd"] = c
                                    /\ d[Len(d)].msg = NextPiece(t).msg /\ d[Len(d)].i = NextPiece(t).i
                                    /\ d[Len(d)].cut
  <2>1. data = <<>> <=> n = 0
    BY ConnTyped
  <2>2. QED
    BY <2>1, BreakLeaves
<1>6. Flows(c)
  BY DEF Streams
<1>7. Len(d) > 0 =>
        \/ /\ Len(d) \in 1 .. n
           /\ d[Len(d)].msg = data[Len(d)].msg /\ d[Len(d)].i = data[Len(d)].i
        \/ /\ Len(d) = n + 1 /\ (Listener = "snd" => conns[c].accepted)
           /\ n > 0 => Follows(data[n], d[Len(d)])
           /\ n = 0 => /\ c # sock["rcv"] \/ (\A r \in RThread : rbuf[r] = <<>>) => d[Len(d)].i = 1
                       /\ \A r \in RThread : c = sock["rcv"] /\ rbuf[r] # <<>> =>
                            Follows(rbuf[r][Len(rbuf[r])], d[Len(d)])
  <2>1. ASSUME NEW t \in SThread, spc[t] = "send", sock["snd"] = c
        PROVE  /\ n > 0 => Follows(data[n], NextPiece(t))
               /\ n = 0 => /\ c # sock["rcv"] \/ (\A r \in RThread : rbuf[r] = <<>>) => NextPiece(t).i = 1
                           /\ \A r \in RThread : c = sock["rcv"] /\ rbuf[r] # <<>> =>
                                Follows(rbuf[r][Len(rbuf[r])], NextPiece(t))
    BY <1>1, <2>1, NextFits
  <2>2. (\E t \in SThread : sock["snd"] = c) /\ Listener = "snd" => conns[c].accepted
    BY ConnTyped DEF Ends
  <2>3. CASE Len(d) \in 1 .. n
    BY <1>5, <2>3
  <2>4. CASE Len(d) > n
    <3>1. PICK t \in SThread : /\ spc[t] = "send" /\ sock["snd"] = c
                               /\ d[Len(d)].msg = NextPiece(t).msg /\ d[Len(d)].i = NextPiece(t).i
      BY <1>5, <2>4
    <3>2. \A x : Follows(x, NextPiece(t)) => Follows(x, d[Len(d)])
      BY <3>1 DEF Follows
    <3>3. Len(d) = n + 1
      BY <1>5, <2>4
    <3>4. QED
      BY <2>1, <2>2, <3>1, <3>2, <3>3
  <2>5. QED
    BY <1>5, <2>3, <2>4
<1>8. Flows(c)'
  <2>1. conns'[c].rcv /\ ~conns'[c].ok /\ (conns'[c].accepted <=> conns[c].accepted)
    BY <1>1 DEF Reachable
  <2>2. Listener = "snd" /\ ~conns[c].accepted =>
          d = <<>> /\ (c = sock["rcv"] => \A r \in RThread : rbuf[r] = <<>>)
    <3>1. Listener = "snd" /\ ~conns[c].accepted =>
            n = 0 /\ (c = sock["rcv"] => \A r \in RThread : rbuf[r] = <<>>)
      BY <1>5, <1>6 DEF Flows
    <3>2. QED
      BY <1>5, <1>7, <3>1
  <2>3. \A j \in 1 .. Len(d) : d[j].cut => j = Len(d)
    <3>1. \A j \in 1 .. n : ~data[j].cut
      BY <1>1, <1>6 DEF Flows, Reachable
    <3>2. QED
      BY <1>5, <3>1
  <2>4. \A j \in 1 .. (n - 1) : Follows(data[j], data[j + 1])
    BY <1>6 DEF Flows
  <2>5. ASSUME NEW j \in 1 .. (Len(d) - 1)
        PROVE  Follows(d[j], d[j + 1])
    <3>1. j \in 1 .. n /\ d[j] = data[j] /\ j + 1 \in 1 .. Len(d) /\ j \in Nat /\ Len(d) > 0
      BY <1>5
    <3>2. CASE j + 1 # Len(d)
      BY <1>5, <2>4, <3>1, <3>2
    <3>3. CASE j + 1 = Len(d) /\ Len(d) \in 1 .. n
      <4>1. Follows(data[j], data[j + 1])
        BY <1>5, <2>4, <3>1, <3>3
      <4>2. d[j + 1].msg = data[j + 1].msg /\ d[j + 1].i = data[j + 1].i
        BY <1>5, <1>7, <3>1, <3>3
      <4>3. QED
        BY <3>1, <4>1, <4>2 DEF Follows
    <3>4. CASE j + 1 = Len(d) /\ Len(d) = n + 1
      <4>1. j = n /\ n > 0
        BY <1>5, <3>1, <3>4
      <4>2. ~(Len(d) \in 1 .. n)
        BY <1>5, <3>4
      <4>3. Follows(data[n], d[Len(d)])
        BY <1>7, <3>1, <4>1, <4>2
      <4>4. QED
        BY <3>1, <3>4, <4>1, <4>3
    <3>5. QED
      BY <1>7, <3>1, <3>2, <3>3, <3>4
  <2>6. ASSUME d # <<>>
        PROVE  /\ c # sock["rcv"] \/ (\A r \in RThread : rbuf[r] = <<>>) => d[1].i = 1
               /\ \A r \in RThread : c = sock["rcv"] /\ rbuf[r] # <<>> =>
                    Follows(rbuf[r][Len(rbuf[r])], d[1])
    <3>1. Len(d) > 0 /\ 1 \in 1 .. Len(d)
      BY <1>5, <2>6
    <3>2. CASE n > 0
      <4>1. d[1].msg = data[1].msg /\ d[1].i = data[1].i
        <5>1. CASE Len(d) = 1
          BY <1>5, <1>7, <3>1, <3>2, <5>1
        <5>2. CASE Len(d) # 1
          BY <1>5, <3>1, <5>2
        <5>3. QED
          BY <5>1, <5>2
      <4>2. /\ c # sock["rcv"] \/ (\A r \in RThread : rbuf[r] = <<>>) => data[1].i = 1
            /\ \A r \in RThread : c = sock["rcv"] /\ rbuf[r] # <<>> =>
                 Follows(rbuf[r][Len(rbuf[r])], data[1])
        BY <1>5, <1>6, <3>2 DEF Flows
      <4>3. QED
        BY <4>1, <4>2 DEF Follows
    <3>3. CASE n = 0
      <4>1. Len(d) = 1 /\ ~(Len(d) \in 1 .. n)
        BY <1>5, <1>7, <3>1, <3>3
      <4>2. QED
        BY <1>7, <3>1, <3>3, <4>1
    <3>4. QED
      BY <1>5, <3>2, <3>3
  <2>7. \A j \in 1 .. (Len(d) - 1) : IF d[j].i = Pieces THEN d[j + 1].i = 1 /\ d[j + 1].msg > d[j].msg
                                     ELSE d[j + 1].i = d[j].i + 1 /\ d[j + 1].msg = d[j].msg
    BY <2>5 DEF Follows
  <2>8. d # <<>> => \A r \in RThread : c = sock["rcv"] /\ rbuf[r] # <<>> =>
            LET x == rbuf[r][Len(rbuf[r])]
            IN  IF x.i = Pieces THEN d[1].i = 1 /\ d[1].msg > x.msg
                ELSE d[1].i = x.i + 1 /\ d[1].msg = x.msg
    BY <2>6 DEF Follows
  <2>9. QED
    BY <1>1, <1>2, <2>1, <2>2, <2>3, <2>6, <2>7, <2>8 DEF Flows, Follows
<1>9. InStep'
  <2>1. sock["snd"] # 0 => sock["snd"] \in DOMAIN conns
    BY Basics, ConnTyped DEF End
  <2>2. sock["snd"] # 0 /\ conns'[sock["snd"]].rcv /\ conns'[sock["snd"]].ok =>
          /\ conns[sock["snd"]].rcv /\ conns[sock["snd"]].ok
          /\ conns'[sock["snd"]].data = conns[sock["snd"]].data
    BY <1>1, <2>1
  <2>3. InStep
    BY DEF Streams
  <2>4. QED
    BY <1>1, <1>2, <2>2, <2>3 DEF InStep, Reachable
<1>10. \A b \in DOMAIN conns : Flows(b)'
  BY <1>4, <1>8
<1>11. QED
  BY <1>1, <1>3, <1>9, <1>10 DEF Streams

\* Streams when a sender closes, or dies: what it sent can still be read.
LEMMA StreamsSenderCloses ==
  ASSUME TypeOK, Streams, link' = link, rbuf' = rbuf,
         sock'["snd"] = 0, sock'["rcv"] = sock["rcv"], DOMAIN conns' = DOMAIN conns,
         \A c \in DOMAIN conns : /\ conns'[c].data = conns[c].data
                                 /\ conns'[c].ok <=> conns[c].ok
                                 /\ conns'[c].rcv <=> conns[c].rcv
                                 /\ conns[c].accepted => conns'[c].accepted
  PROVE  Streams'
<1>1. \A c \in DOMAIN conns : Flows(c)'
  BY FlowsSame DEF Streams
<1>2. Attempts'
  BY SameLink DEF Streams, Attempts
<1>3. InStep'
  BY DEF InStep
<1>4. QED
  BY <1>1, <1>2, <1>3 DEF Streams

\* Streams when a sender has a new socket: nothing has been sent with it.
LEMMA StreamsSendReopen ==
  ASSUME TypeOK, Alone, Ends, Streams, NEW t \in SThread, SendReopen(t)
  PROVE  Streams'
<1>1. /\ link' = link /\ rbuf' = rbuf /\ spos' = spos /\ spc[t] = "reopen" /\ Reopen("snd")
      /\ "snd" \in End
  BY DEF SendReopen, End
<1>2. Listener' = Listener /\ Pieces' = Pieces
  BY <1>1, SameLink
<1>3. /\ DOMAIN conns = 1 .. Len(conns) /\ Len(conns) \in Nat /\ DOMAIN conns' = 1 .. Len(conns')
      /\ Len(conns') \in Nat /\ Len(conns) <= Len(conns')
      /\ \A c \in DOMAIN conns :
           /\ conns'[c].ok <=> conns[c].ok
           /\ conns'[c].rcv <=> conns[c].rcv
           /\ conns'[c].data = conns[c].data
           /\ conns[c].accepted => conns'[c].accepted
      /\ \A c \in DOMAIN conns' \ DOMAIN conns : conns'[c] = NewConn
      /\ sock'["rcv"] = sock["rcv"]
      /\ sock["rcv"] \in Nat /\ sock["rcv"] <= Len(conns)
  <2>1. /\ DOMAIN conns = 1 .. Len(conns) /\ Len(conns) \in Nat
        /\ sock["rcv"] \in Nat /\ sock["rcv"] <= Len(conns)
    BY ConnTyped, Basics DEF End
  <2>2. /\ DOMAIN conns' = 1 .. Len(conns') /\ Len(conns') \in Nat /\ Len(conns) <= Len(conns')
        /\ \A c \in DOMAIN conns :
           /\ conns'[c].ok <=> conns[c].ok
           /\ conns'[c].rcv <=> conns[c].rcv
           /\ conns'[c].data = conns[c].data
           /\ conns[c].accepted => conns'[c].accepted
        /\ \A c \in DOMAIN conns' \ DOMAIN conns : conns'[c] = NewConn
    BY <1>1, ReopenFacts
  <2>3. sock'["rcv"] = sock["rcv"]
    BY <1>1, ReopenFacts DEF TypeOK, End
  <2>4. QED
    BY <2>1, <2>2, <2>3
<1>4. \A c \in DOMAIN conns : Flows(c)'
  BY <1>1, <1>3, FlowsSame DEF Streams
<1>5. \/ /\ Listener = "snd" /\ Len(conns') = Len(conns)
         /\ sock'["snd"] \in DOMAIN conns /\ ~conns[sock'["snd"]].accepted
      \/ Listener # "snd" /\ sock'["snd"] = Len(conns) + 1 /\ Len(conns') = Len(conns) + 1
  BY <1>1, ReopenFacts
<1>6. ASSUME NEW c \in DOMAIN conns' \ DOMAIN conns
      PROVE  Flows(c)'
  <2>1. conns'[c].data = <<>>
    BY <1>3, <1>6 DEF NewConn
  <2>2. Listener # "snd"
    BY <1>3, <1>5, <1>6
  <2>3. QED
    BY <1>1, <1>6, <2>1, <2>2, FlowsEmpty
<1>7. Attempts'
  BY <1>1, <1>2 DEF Streams, Attempts
<1>8. InStep'
  <2>1. \A u \in SThread : spos[u] = 0
    BY <1>1 DEF Alone
  <2>2. CASE Listener = "snd"
    <3>1. /\ sock'["snd"] \in DOMAIN conns
          /\ conns[sock'["snd"]].data = <<>>
          /\ sock'["snd"] = sock["rcv"] => \A r \in RThread : rbuf[r] = <<>>
      BY <1>5, <2>2 DEF Streams, Flows
    <3>2. QED
      BY <1>1, <1>3, <2>1, <3>1 DEF InStep
  <2>3. CASE Listener # "snd"
    <3>1. sock'["snd"] \in DOMAIN conns' \ DOMAIN conns /\ sock'["snd"] # sock["rcv"]
      <4>1. sock'["snd"] = Len(conns) + 1 /\ Len(conns') = Len(conns) + 1
        BY <1>5, <2>3
      <4>2. Len(conns) + 1 \in 1 .. Len(conns') /\ ~(Len(conns) + 1 \in 1 .. Len(conns))
        BY <1>3, <4>1
      <4>3. Len(conns) + 1 # sock["rcv"]
        BY <1>3
      <4>4. QED
        BY <1>3, <4>1, <4>2, <4>3
    <3>2. conns'[sock'["snd"]].data = <<>>
      BY <1>3, <3>1 DEF NewConn
    <3>3. QED
      BY <1>1, <1>3, <2>1, <3>1, <3>2 DEF InStep
  <2>4. QED
    BY <2>2, <2>3
<1>9. \A c \in DOMAIN conns' : Flows(c)'
  BY <1>4, <1>6
<1>10. QED
  BY <1>7, <1>8, <1>9 DEF Streams

\* Streams when a receiver closes: what it did not read is gone.
LEMMA StreamsRecvError ==
  ASSUME TypeOK, Alone, Ends, Streams, NEW r \in RThread, RecvError(r)
  PROVE  Streams'
<1>1. /\ link' = link /\ spos' = spos /\ smsg' = smsg /\ Close("rcv") /\ rpc[r] = "recv"
      /\ "rcv" \in End
  BY DEF RecvError, End
<1>2. Listener' = Listener /\ Pieces' = Pieces
  BY <1>1, SameLink
<1>3. \A q \in RThread : rbuf'[q] = <<>>
  <2>1. rbuf'[r] = <<>> /\ \A q \in RThread : q # r => rbuf'[q] = rbuf[q]
    BY DEF RecvError, TypeOK, KeptAfterError
  <2>2. QED
    BY <1>1, <2>1, OnlyOne
<1>4. sock'["rcv"] = 0 /\ sock'["snd"] = sock["snd"]
  BY <1>1 DEF Close, TypeOK, End
<1>5. /\ DOMAIN conns' = DOMAIN conns
      /\ \A c \in DOMAIN conns :
           /\ conns'[c].ok <=> conns[c].ok
           /\ conns'[c].accepted <=> conns[c].accepted
           /\ conns'[c].rcv <=> (conns[c].rcv /\ c # sock["rcv"])
           /\ conns'[c].data = IF c = sock["rcv"] THEN <<>> ELSE conns[c].data
  BY <1>1, ClosedFacts DEF Close
<1>6. ASSUME NEW c \in DOMAIN conns
      PROVE  Flows(c)'
  <2>1. CASE c = sock["rcv"]
    BY <1>1, <1>3, <1>5, <1>6, <2>1, FlowsEmpty
  <2>2. CASE c # sock["rcv"]
    BY <1>1, <1>3, <1>5, <1>6, <2>2, FlowsQuiet DEF Streams
  <2>3. QED
    BY <2>1, <2>2
<1>7. Attempts'
  <2>1. \A q \in RThread : Len(rbuf'[q]) = 0
    BY <1>3
  <2>2. QED
    BY <1>2, <2>1, Basics DEF Attempts
<1>8. InStep'
  <2> SUFFICES ASSUME sock["snd"] # 0, Reachable(sock["snd"])'
               PROVE  LET data == conns'[sock["snd"]].data
                      IN  /\ \A t \in SThread : spos[t] > 0 =>
                               /\ data # <<>>
                               /\ data[Len(data)].msg = smsg[t] /\ data[Len(data)].i = spos[t]
                          /\ (\A t \in SThread : spos[t] = 0) /\ data # <<>> => data[Len(data)].i = Pieces
    BY <1>1, <1>2, <1>3, <1>4 DEF InStep, Reachable
  <2>1. sock["snd"] \in DOMAIN conns
    BY Basics, ConnTyped DEF End
  <2>2. sock["snd"] # sock["rcv"] /\ Reachable(sock["snd"])
    BY <1>4, <1>5, <2>1 DEF Reachable
  <2>3. conns'[sock["snd"]].data = conns[sock["snd"]].data
    BY <1>5, <2>1, <2>2
  <2>4. QED
    BY <2>2, <2>3 DEF Streams, InStep
<1>9. QED
  BY <1>5, <1>6, <1>7, <1>8 DEF Streams

\* Streams when a receiver has a new socket: it has read nothing from it.
LEMMA StreamsRecvReopen ==
  ASSUME TypeOK, Alone, Ends, Streams, NEW r \in RThread, RecvReopen(r)
  PROVE  Streams'
<1>1. /\ link' = link /\ rbuf' = rbuf /\ spos' = spos /\ smsg' = smsg /\ rpc[r] = "reopen" /\ Reopen("rcv")
      /\ "rcv" \in End /\ sock["rcv"] = 0 /\ \A q \in RThread : rbuf[q] = <<>>
  BY DEF RecvReopen, End, Alone
<1>2. Listener' = Listener /\ Pieces' = Pieces
  BY <1>1, SameLink
<1>3. /\ DOMAIN conns = 1 .. Len(conns) /\ Len(conns) \in Nat /\ DOMAIN conns' = 1 .. Len(conns')
      /\ \A c \in DOMAIN conns :
           /\ c # 0
           /\ conns'[c].ok <=> conns[c].ok
           /\ conns'[c].rcv <=> conns[c].rcv
           /\ conns'[c].data = conns[c].data
           /\ conns[c].accepted => conns'[c].accepted
      /\ \A c \in DOMAIN conns' \ DOMAIN conns : conns'[c] = NewConn
  BY <1>1, ReopenFacts, ConnTyped
<1>4. sock'["snd"] = sock["snd"]
  BY <1>1, ReopenFacts DEF TypeOK, End
<1>5. \A c \in DOMAIN conns : Flows(c)'
  BY <1>1, <1>3, FlowsQuiet DEF Streams
<1>6. ASSUME NEW c \in DOMAIN conns' \ DOMAIN conns
      PROVE  Flows(c)'
  <2>1. conns'[c].data = <<>>
    BY <1>3, <1>6 DEF NewConn
  <2>2. QED
    BY <1>1, <1>6, <2>1, FlowsEmpty
<1>7. Attempts'
  BY <1>1, <1>2 DEF Streams, Attempts
<1>8. InStep'
  <2>1. sock["snd"] # 0 => sock["snd"] \in DOMAIN conns
    BY Basics, ConnTyped DEF End
  <2>2. InStep
    BY DEF Streams
  <2>3. sock["snd"] # 0 => /\ conns'[sock["snd"]].data = conns[sock["snd"]].data
                           /\ Reachable(sock["snd"])' => Reachable(sock["snd"])
    BY <1>3, <1>4, <2>1 DEF Reachable
  <2>4. QED
    BY <1>1, <1>2, <1>4, <2>2, <2>3 DEF InStep, Reachable
<1>9. \A c \in DOMAIN conns' : Flows(c)'
  BY <1>5, <1>6
<1>10. QED
  BY <1>7, <1>8, <1>9 DEF Streams

\* Streams when the receivers die.
LEMMA StreamsReceiverDeath ==
  ASSUME TypeOK, Alone, Ends, Streams, ReceiverDeath
  PROVE  Streams'
<1>1. /\ link' = link /\ Death("rcv") /\ "rcv" \in End
      /\ \A q \in RThread : rbuf'[q] = <<>>
  BY DEF ReceiverDeath, End
<1>2. Listener' = Listener /\ Pieces' = Pieces
  BY <1>1, SameLink
<1>3. /\ DOMAIN conns' = DOMAIN conns
      /\ \A c \in DOMAIN conns : ~conns'[c].rcv /\ conns'[c].data = <<>>
  BY <1>1, DeathFacts
<1>4. \A c \in DOMAIN conns' : Flows(c)'
  BY <1>1, <1>3, FlowsEmpty
<1>5. Attempts'
  <2>1. \A q \in RThread : Len(rbuf'[q]) = 0
    BY <1>1
  <2>2. QED
    BY <1>2, <2>1, Basics DEF Attempts
<1>6. sock'["snd"] = sock["snd"] /\ (sock["snd"] # 0 => sock["snd"] \in DOMAIN conns)
  <2>1. sock' = [sock EXCEPT !["rcv"] = 0]
    BY <1>1, Zenon DEF Death
  <2>2. QED
    BY <2>1, Basics, ConnTyped DEF TypeOK, End
<1>7. InStep'
  BY <1>3, <1>6 DEF InStep, Reachable
<1>8. QED
  BY <1>4, <1>5, <1>7 DEF Streams

\* Streams in every step.
LEMMA StreamsKeeps ==
  ASSUME TypeOK, Alone, Ends, Streams, Order, Next
  PROVE  Streams'
<1>1. ASSUME NEW t \in SThread, SendBegin(t)
      PROVE  Streams'
  <2>1. /\ link' = link /\ conns' = conns /\ sock' = sock /\ rbuf' = rbuf /\ spos' = spos
        /\ \A u \in SThread : u # t => smsg'[u] = smsg[u]
        /\ spos[t] = 0
    BY <1>1 DEF SendBegin, TypeOK, Alone
  <2>2. \A c \in DOMAIN conns : Flows(c)'
    BY <2>1, FlowsSame DEF Streams
  <2>3. Attempts'
    BY <2>1, SameLink DEF Streams, Attempts
  <2>4. InStep'
    <3>1. InStep /\ Pieces' = Pieces /\ \A u \in SThread : spos[u] > 0 => u # t
      BY <2>1, SameLink DEF Streams
    <3>2. QED
      BY <2>1, <3>1 DEF InStep, Reachable
  <2>5. QED
    BY <2>1, <2>2, <2>3, <2>4 DEF Streams
<1>2. ASSUME NEW t \in SThread, SendPiece(t)
      PROVE  Streams'
  BY <1>2, StreamsSendPiece
<1>3. ASSUME NEW t \in SThread, SendError(t)
      PROVE  Streams'
  <2>1. link' = link /\ rbuf' = rbuf /\ Close("snd") /\ "snd" \in End
    BY <1>3 DEF SendError, End
  <2>2. /\ DOMAIN conns' = DOMAIN conns
        /\ \A c \in DOMAIN conns : /\ conns'[c].data = conns[c].data
                                   /\ conns'[c].ok <=> conns[c].ok
                                   /\ conns'[c].rcv <=> conns[c].rcv
                                   /\ conns[c].accepted => conns'[c].accepted
    BY <2>1, ClosedFacts DEF Close
  <2>3. sock'["snd"] = 0 /\ sock'["rcv"] = sock["rcv"]
    BY <2>1 DEF Close, TypeOK, End
  <2>4. QED
    BY <2>1, <2>2, <2>3, StreamsSenderCloses
<1>4. ASSUME NEW t \in SThread, SendReopen(t)
      PROVE  Streams'
  BY <1>4, StreamsSendReopen
<1>5. ASSUME NEW r \in RThread, RecvBegin(r)
      PROVE  Streams'
  <2>1. /\ link' = link /\ conns' = conns /\ sock' = sock /\ rbuf' = rbuf /\ spos' = spos
        /\ smsg' = smsg
    BY <1>5 DEF RecvBegin
  <2>2. QED
    BY <2>1 DEF Streams, Attempts, Flows, InStep, Reachable, Follows, Pieces, Listener
<1>6. ASSUME NEW r \in RThread, RecvPiece(r)
      PROVE  Streams'
  BY <1>6, StreamsRecvPiece
<1>7. ASSUME NEW r \in RThread, RecvError(r)
      PROVE  Streams'
  BY <1>7, StreamsRecvError
<1>8. ASSUME NEW r \in RThread, RecvReopen(r)
      PROVE  Streams'
  BY <1>8, StreamsRecvReopen
<1>9. ASSUME NEW c \in DOMAIN conns, Break(c)
      PROVE  Streams'
  BY <1>9, StreamsBreak
<1>10. CASE SenderDeath
  <2>1. link' = link /\ rbuf' = rbuf /\ Death("snd") /\ "snd" \in End
    BY <1>10 DEF SenderDeath, End
  <2>2. /\ DOMAIN conns' = DOMAIN conns
        /\ \A c \in DOMAIN conns : /\ conns'[c].data = conns[c].data
                                   /\ conns'[c].ok <=> conns[c].ok
                                   /\ conns'[c].rcv <=> conns[c].rcv
                                   /\ conns[c].accepted => conns'[c].accepted
    BY <2>1, DeathFacts
  <2>3. sock' = [sock EXCEPT !["snd"] = 0]
    BY <2>1, Zenon DEF Death
  <2>4. sock'["snd"] = 0 /\ sock'["rcv"] = sock["rcv"]
    BY <2>3 DEF TypeOK, End
  <2>5. QED
    BY <2>1, <2>2, <2>4, StreamsSenderCloses
<1>11. CASE ReceiverDeath
  BY <1>11, StreamsReceiverDeath
<1>12. QED
  BY <1>1, <1>2, <1>3, <1>4, <1>5, <1>6, <1>7, <1>8, <1>9, <1>10, <1>11 DEF Next, SendStep, RecvStep

-----------------------------------------------------------------------------
(* The order of messages.                                                   *)

\* A step that sends nothing and delivers nothing, whatever it drops.
LEMMA OrderFewer ==
  ASSUME TypeOK, Order, begun' = begun, got' = got,
         \A c \in DOMAIN conns' :
           conns'[c].data = <<>> \/ (c \in DOMAIN conns /\ conns'[c].data = conns[c].data),
         \A r \in RThread : rbuf'[r] = rbuf[r] \/ rbuf'[r] = <<>>,
         \A t \in SThread : spc'[t] # "idle" => spc[t] # "idle",
         Pieces' = Pieces
  PROVE  Order'
<1>1. ASSUME NEW c \in DOMAIN conns', NEW j \in 1 .. Len(conns'[c].data)
      PROVE  c \in DOMAIN conns /\ conns'[c].data = conns[c].data
  <2>1. Len(<<>>) = 0
    OBVIOUS
  <2>2. QED
    BY <1>1, <2>1
<1>2. ASSUME NEW r \in RThread, NEW j \in 1 .. Len(rbuf'[r])
      PROVE  rbuf'[r] = rbuf[r]
  <2>1. Len(<<>>) = 0
    OBVIOUS
  <2>2. QED
    BY <1>2, <2>1
<1>3. \A p : Completes(p)' <=> Completes(p)
  BY DEF Completes
<1>4. \A c \in DOMAIN conns' : \A j, k \in 1 .. Len(conns'[c].data) :
        j < k /\ Completes(conns'[c].data[j]) => conns'[c].data[j].msg < conns'[c].data[k].msg
  BY <1>1 DEF Order
<1>5. \A b, c \in DOMAIN conns' : b < c =>
       \A j \in 1 .. Len(conns'[b].data), k \in 1 .. Len(conns'[c].data) :
         Completes(conns'[b].data[j]) => conns'[b].data[j].msg < conns'[c].data[k].msg
  BY <1>1 DEF Order
<1>6. /\ \A g \in DOMAIN got', c \in DOMAIN conns' : \A j \in 1 .. Len(conns'[c].data) :
           got'[g][1] < conns'[c].data[j].msg
      /\ \A g \in DOMAIN got', r \in RThread : \A j \in 1 .. Len(rbuf'[r]) : got'[g][1] < rbuf'[r][j].msg
      /\ \A c \in DOMAIN conns' : \A j \in 1 .. Len(conns'[c].data) : conns'[c].data[j].msg <= begun'
      /\ \A g \in DOMAIN got' : got'[g][1] <= begun'
  BY <1>1, <1>2 DEF Order
<1>7. \A t \in SThread : spc'[t] # "idle" =>
       /\ \A g \in DOMAIN got' : got'[g][1] < begun'
       /\ \A c \in DOMAIN conns' : \A j \in 1 .. Len(conns'[c].data) :
            Completes(conns'[c].data[j]) => conns'[c].data[j].msg < begun'
  BY <1>1 DEF Order
<1>8. QED
  BY <1>4, <1>5, <1>6, <1>7 DEF Order, Completes

\* Messages are numbers.
LEMMA MsgTyped ==
  ASSUME TypeOK
  PROVE  /\ \A c \in DOMAIN conns : \A j \in 1 .. Len(conns[c].data) : conns[c].data[j].msg \in Nat
         /\ \A r \in RThread : \A j \in 1 .. Len(rbuf[r]) : rbuf[r][j].msg \in Nat
         /\ \A g \in DOMAIN got : got[g][1] \in Nat
         /\ begun \in Nat
<1>1. Msg \subseteq Nat /\ begun \in Nat /\ link.parts \in Nat \ {0}
  BY Basics
<1>2. \A p \in PieceType : p.msg \in Nat
  BY <1>1 DEF PieceType
<1>3. \A g \in DOMAIN got : got[g] \in [1 .. link.parts -> Msg]
  BY DEF TypeOK
<1>4. 1 \in 1 .. link.parts
  BY <1>1
<1>5. QED
  BY <1>1, <1>2, <1>3, <1>4, ConnTyped

\* Nothing is on its way in what was made after the sender's connection.
LEMMA LaterEmpty ==
  ASSUME TypeOK, Ends, Streams, NEW c \in DOMAIN conns, c = sock["snd"],
         NEW b \in DOMAIN conns, b > c
  PROVE  conns[b].data = <<>>
<1>1. c \in Nat \ {0} /\ b \in Nat /\ b <= Len(conns)
  BY ConnTyped
<1>2. Listener = "snd" \/ Other = "snd"
  BY Basics DEF End
<1>3. CASE Listener = "snd"
  <2>1. ~conns[b].accepted
    BY <1>1, <1>3 DEF Ends
  <2>2. QED
    BY <1>3, <2>1 DEF Streams, Flows
<1>4. CASE Other = "snd"
  BY <1>1, <1>4 DEF Ends
<1>5. QED
  BY <1>2, <1>3, <1>4

\* Nor in what was made before the receiver's.
LEMMA EarlierEmpty ==
  ASSUME TypeOK, Ends, Streams, NEW c \in DOMAIN conns, c = sock["rcv"],
         NEW b \in DOMAIN conns, b < c
  PROVE  conns[b].data = <<>>
<1>1. c # 0 /\ b # c
  BY ConnTyped
<1>2. ~conns[b].rcv
  <2>1. Listener = "rcv" => conns[b].accepted
    BY <1>1 DEF Ends
  <2>2. ~IsOpen(conns, b, "rcv")
    BY <1>1, <2>1 DEF Ends, End
  <2>3. QED
    BY <2>2 DEF IsOpen
<1>3. QED
  BY <1>2 DEF Streams, Flows

\* The next message is later than all others.
LEMMA OrderSendBegin ==
  ASSUME TypeOK, Alone, Order, NEW t \in SThread, SendBegin(t)
  PROVE  Order'
<1>1. begun' = begun + 1 /\ conns' = conns /\ got' = got /\ rbuf' = rbuf /\ link' = link
  BY DEF SendBegin
<1>2. /\ begun \in Nat
      /\ \A c \in DOMAIN conns : \A j \in 1 .. Len(conns[c].data) :
           conns[c].data[j].msg \in Nat /\ conns[c].data[j].msg <= begun
      /\ \A g \in DOMAIN got : got[g][1] \in Nat /\ got[g][1] <= begun
  BY MsgTyped DEF Order
<1>3. /\ \A c \in DOMAIN conns : \A j \in 1 .. Len(conns[c].data) :
           conns[c].data[j].msg <= begun + 1 /\ conns[c].data[j].msg < begun + 1
      /\ \A g \in DOMAIN got : got[g][1] <= begun + 1 /\ got[g][1] < begun + 1
  <2>1. \A x \in Nat : x <= begun => x <= begun + 1 /\ x < begun + 1
    BY <1>2
  <2>2. QED
    BY <1>2, <2>1
<1>4. Pieces' = Pieces
  BY <1>1, SameLink
<1>5. QED
  BY <1>1, <1>3, <1>4 DEF Order, Completes

\* A piece is of the latest message, and after everything else.
LEMMA OrderSendPiece ==
  ASSUME TypeOK, Alone, Ends, Streams, Order, NEW t \in SThread, SendPiece(t),
         NEW c, c = sock["snd"]
  PROVE  Order'
<1> DEFINE n == Len(conns[c].data)
           p == NextPiece(t)
<1>1. /\ c \in DOMAIN conns /\ spc[t] = "send"
      /\ sock' = sock /\ rbuf' = rbuf /\ got' = got /\ begun' = begun /\ link' = link
      /\ \A u \in SThread : u # t => spc'[u] = spc[u]
      /\ \/ spos[t] + 1 = Pieces /\ spc'[t] = "idle"
         \/ spos[t] + 1 # Pieces /\ spc'[t] = "send"
  BY SendPieceFacts
<1>2. Pieces' = Pieces
  BY <1>1, SameLink
<1>3. \A u \in SThread : u # t => spc[u] = "idle"
  BY <1>1, OnlyOne
<1>4. CASE conns' = conns
  BY <1>1, <1>2, <1>3, <1>4, OrderFewer
<1>5. CASE conns' # conns
  <2>1. /\ DOMAIN conns' = DOMAIN conns
        /\ \A b \in DOMAIN conns : b # c => conns'[b].data = conns[b].data
        /\ Len(conns'[c].data) = n + 1
        /\ \A j \in 1 .. n : conns'[c].data[j] = conns[c].data[j]
        /\ conns'[c].data[n + 1] = p
    BY <1>5, SendPieceFacts
  <2>2. p.msg = begun /\ ~p.cut /\ p.i = spos[t] + 1
    BY <1>1, NextTyped
  <2>3. n \in Nat /\ begun \in Nat /\ \A j \in 1 .. (n + 1) : j \in 1 .. n \/ j = n + 1
    <3>1. n \in Nat /\ begun \in Nat
      BY <1>1, ConnTyped, Basics
    <3>2. \A x \in Nat : \A j \in 1 .. (x + 1) : j \in 1 .. x \/ j = x + 1
      OBVIOUS
    <3>3. QED
      BY <3>1, <3>2
  <2>4. \A b \in DOMAIN conns : \A j \in 1 .. Len(conns'[b].data) :
          \/ j \in 1 .. Len(conns[b].data) /\ conns'[b].data[j] = conns[b].data[j]
          \/ b = c /\ j = n + 1 /\ conns'[b].data[j] = p
    BY <2>1, <2>3
  <2>5. \A b \in DOMAIN conns : b > c => Len(conns'[b].data) = 0
    <3>1. \A b \in DOMAIN conns : b > c => b # c
      BY ConnTyped, <1>1
    <3>2. QED
      BY <1>1, <2>1, <3>1, LaterEmpty
  <2>6. \A b \in DOMAIN conns : \A j \in 1 .. Len(conns[b].data) :
          Completes(conns[b].data[j]) => conns[b].data[j].msg < begun
    BY <1>1 DEF Order
  <2>7. \A b \in DOMAIN conns : \A j, k \in 1 .. Len(conns'[b].data) :
        j < k /\ Completes(conns'[b].data[j]) => conns'[b].data[j].msg < conns'[b].data[k].msg
    <3>1. SUFFICES ASSUME NEW b \in DOMAIN conns,
                          NEW j \in 1 .. Len(conns'[b].data), NEW k \in 1 .. Len(conns'[b].data),
                          j < k, Completes(conns'[b].data[j])
                   PROVE  conns'[b].data[j].msg < conns'[b].data[k].msg
      OBVIOUS
    <3>2. j \in 1 .. Len(conns[b].data) /\ conns'[b].data[j] = conns[b].data[j]
      <4>1. CASE b = c
        BY <2>1, <2>3, <3>1, <4>1
      <4>2. CASE b # c
        BY <2>1, <4>2
      <4>3. QED
        BY <4>1, <4>2
    <3>3. CASE k \in 1 .. Len(conns[b].data) /\ conns'[b].data[k] = conns[b].data[k]
      BY <3>1, <3>2, <3>3 DEF Order
    <3>4. CASE b = c /\ k = n + 1 /\ conns'[b].data[k] = p
      BY <2>2, <2>6, <3>1, <3>2, <3>4
    <3>5. QED
      BY <2>4, <3>3, <3>4
  <2>8. \A a, b \in DOMAIN conns : a < b =>
         \A j \in 1 .. Len(conns'[a].data), k \in 1 .. Len(conns'[b].data) :
           Completes(conns'[a].data[j]) => conns'[a].data[j].msg < conns'[b].data[k].msg
    <3>1. SUFFICES ASSUME NEW a \in DOMAIN conns, NEW b \in DOMAIN conns, a < b,
                          NEW j \in 1 .. Len(conns'[a].data), NEW k \in 1 .. Len(conns'[b].data),
                          Completes(conns'[a].data[j])
                   PROVE  conns'[a].data[j].msg < conns'[b].data[k].msg
      OBVIOUS
    <3>2. a # c
      BY <2>5, <3>1
    <3>3. j \in 1 .. Len(conns[a].data) /\ conns'[a].data[j] = conns[a].data[j]
      BY <2>4, <3>2
    <3>4. CASE k \in 1 .. Len(conns[b].data) /\ conns'[b].data[k] = conns[b].data[k]
      BY <3>1, <3>3, <3>4 DEF Order
    <3>5. CASE b = c /\ k = n + 1 /\ conns'[b].data[k] = p
      BY <2>2, <2>6, <3>1, <3>3, <3>5
    <3>6. QED
      BY <2>4, <3>4, <3>5
  <2>9. \A g \in DOMAIN got, b \in DOMAIN conns : \A j \in 1 .. Len(conns'[b].data) :
          got[g][1] < conns'[b].data[j].msg
    <3>1. \A g \in DOMAIN got : got[g][1] < p.msg
      BY <1>1, <2>2 DEF Order
    <3>2. QED
      BY <2>4, <3>1 DEF Order
  <2>10. \A b \in DOMAIN conns : \A j \in 1 .. Len(conns'[b].data) : conns'[b].data[j].msg <= begun
    <3>1. p.msg <= begun
      BY <2>2, <2>3
    <3>2. QED
      BY <2>4, <3>1 DEF Order
  <2>11. \A u \in SThread : spc'[u] # "idle" =>
       /\ \A g \in DOMAIN got : got[g][1] < begun
       /\ \A b \in DOMAIN conns : \A j \in 1 .. Len(conns'[b].data) :
            Completes(conns'[b].data[j]) => conns'[b].data[j].msg < begun
    <3>1. SUFFICES ASSUME NEW u \in SThread, spc'[u] # "idle"
                   PROVE  /\ \A g \in DOMAIN got : got[g][1] < begun
                          /\ \A b \in DOMAIN conns : \A j \in 1 .. Len(conns'[b].data) :
                               Completes(conns'[b].data[j]) => conns'[b].data[j].msg < begun
      OBVIOUS
    <3>2. ~Completes(p)
      BY <1>1, <1>3, <2>2, <3>1 DEF Completes
    <3>3. QED
      BY <1>1, <2>4, <2>6, <3>2 DEF Order
  <2>12. QED
    BY <1>1, <1>2, <2>1, <2>7, <2>8, <2>9, <2>10, <2>11 DEF Order, Completes
<1>6. QED
  BY <1>4, <1>5

\* What is left when a connection breaks keeps its order; a piece half written is not whole.
LEMMA OrderBreak ==
  ASSUME TypeOK, Alone, Ends, Streams, Order, NEW c \in DOMAIN conns, Break(c)
  PROVE  Order'
<1> DEFINE n == Len(conns[c].data)
<1> SUFFICES ASSUME NEW d, d = conns'[c].data
             PROVE  Order'
  OBVIOUS
<1>1. /\ sock' = sock /\ rbuf' = rbuf /\ got' = got /\ begun' = begun /\ link' = link /\ spc' = spc
      /\ DOMAIN conns' = DOMAIN conns
      /\ \A b \in DOMAIN conns : b # c => conns'[b].data = conns[b].data
  BY BreakStep
<1>2. Pieces' = Pieces
  BY <1>1, SameLink
<1>3. /\ Len(d) \in Nat /\ n \in Nat
      /\ \A j \in 1 .. Len(d) : j # Len(d) => j \in 1 .. n /\ d[j] = conns[c].data[j]
      /\ Len(d) > 0 =>
           \/ /\ Len(d) \in 1 .. n
              /\ d[Len(d)].msg = conns[c].data[Len(d)].msg /\ d[Len(d)].i = conns[c].data[Len(d)].i
              /\ d[Len(d)].cut \/ d[Len(d)] = conns[c].data[Len(d)]
           \/ /\ Len(d) = n + 1
              /\ \E t \in SThread : /\ spc[t] = "send" /\ sock["snd"] = c
                                    /\ d[Len(d)].msg = NextPiece(t).msg /\ d[Len(d)].i = NextPiece(t).i
                                    /\ d[Len(d)].cut
  BY BreakLeaves
\* Every piece is an old one in its old place, perhaps cut now, or one of the message that
\* is being sent, at the end.
<1>4. \A b \in DOMAIN conns : \A j \in 1 .. Len(conns'[b].data) :
        \/ /\ j \in 1 .. Len(conns[b].data) /\ conns'[b].data[j].msg = conns[b].data[j].msg
           /\ Completes(conns'[b].data[j]) => Completes(conns[b].data[j])
        \/ /\ b = c /\ j = Len(d) /\ j = n + 1
           /\ conns'[b].data[j].msg = begun /\ ~Completes(conns'[b].data[j])
           /\ \E t \in SThread : spc[t] # "idle" /\ sock["snd"] = c
  <2>1. SUFFICES ASSUME NEW j \in 1 .. Len(d)
                 PROVE  \/ /\ j \in 1 .. n /\ d[j].msg = conns[c].data[j].msg
                           /\ Completes(d[j]) => Completes(conns[c].data[j])
                        \/ /\ j = Len(d) /\ j = n + 1
                           /\ d[j].msg = begun /\ ~Completes(d[j])
                           /\ \E t \in SThread : spc[t] # "idle" /\ sock["snd"] = c
    BY <1>1
  <2>2. CASE j # Len(d)
    BY <1>3, <2>2
  <2>3. CASE j = Len(d) /\ Len(d) \in 1 .. n
    BY <1>3, <2>3 DEF Completes
  <2>4. CASE j = Len(d) /\ ~(Len(d) \in 1 .. n)
    <3>1. Len(d) > 0
      BY <1>3, <2>1, <2>4
    <3>2. Len(d) = n + 1
      BY <1>3, <2>4, <3>1
    <3>3. PICK t \in SThread : /\ spc[t] = "send" /\ sock["snd"] = c
                               /\ d[Len(d)].msg = NextPiece(t).msg /\ d[Len(d)].cut
      BY <1>3, <2>4, <3>1
    <3>4. NextPiece(t).msg = begun
      BY <3>3, NextTyped
    <3>5. ~Completes(d[j])
      BY <2>4, <3>3 DEF Completes
    <3>6. QED
      BY <2>4, <3>2, <3>3, <3>4, <3>5
  <2>5. QED
    BY <2>2, <2>3, <2>4
<1>5. \A b \in DOMAIN conns : \A j \in 1 .. Len(conns[b].data) :
        (\E t \in SThread : spc[t] # "idle") /\ Completes(conns[b].data[j]) => conns[b].data[j].msg < begun
  BY DEF Order
<1>6. \A b \in DOMAIN conns : \A j, k \in 1 .. Len(conns'[b].data) :
        j < k /\ Completes(conns'[b].data[j]) => conns'[b].data[j].msg < conns'[b].data[k].msg
  <2>1. SUFFICES ASSUME NEW b \in DOMAIN conns,
                        NEW j \in 1 .. Len(conns'[b].data), NEW k \in 1 .. Len(conns'[b].data),
                        j < k, Completes(conns'[b].data[j])
                 PROVE  conns'[b].data[j].msg < conns'[b].data[k].msg
    OBVIOUS
  <2>2. /\ j \in 1 .. Len(conns[b].data) /\ conns'[b].data[j].msg = conns[b].data[j].msg
        /\ Completes(conns[b].data[j])
    BY <1>4, <2>1
  <2>3. CASE k \in 1 .. Len(conns[b].data) /\ conns'[b].data[k].msg = conns[b].data[k].msg
    BY <2>1, <2>2, <2>3 DEF Order
  <2>4. CASE conns'[b].data[k].msg = begun /\ \E t \in SThread : spc[t] # "idle"
    BY <1>5, <2>2, <2>4
  <2>5. QED
    BY <1>4, <2>3, <2>4
<1>7. \A a, b \in DOMAIN conns : a < b =>
       \A j \in 1 .. Len(conns'[a].data), k \in 1 .. Len(conns'[b].data) :
         Completes(conns'[a].data[j]) => conns'[a].data[j].msg < conns'[b].data[k].msg
  <2>1. SUFFICES ASSUME NEW a \in DOMAIN conns, NEW b \in DOMAIN conns, a < b,
                        NEW j \in 1 .. Len(conns'[a].data), NEW k \in 1 .. Len(conns'[b].data),
                        Completes(conns'[a].data[j])
                 PROVE  conns'[a].data[j].msg < conns'[b].data[k].msg
    OBVIOUS
  <2>2. /\ j \in 1 .. Len(conns[a].data) /\ conns'[a].data[j].msg = conns[a].data[j].msg
        /\ Completes(conns[a].data[j])
    BY <1>4, <2>1
  <2>3. CASE k \in 1 .. Len(conns[b].data) /\ conns'[b].data[k].msg = conns[b].data[k].msg
    BY <2>1, <2>2, <2>3 DEF Order
  <2>4. CASE conns'[b].data[k].msg = begun /\ \E t \in SThread : spc[t] # "idle"
    BY <1>5, <2>2, <2>4
  <2>5. QED
    BY <1>4, <2>3, <2>4
<1>8. /\ \A g \in DOMAIN got, b \in DOMAIN conns : \A j \in 1 .. Len(conns'[b].data) :
           got[g][1] < conns'[b].data[j].msg
      /\ \A b \in DOMAIN conns : \A j \in 1 .. Len(conns'[b].data) : conns'[b].data[j].msg <= begun
  <2>1. SUFFICES ASSUME NEW b \in DOMAIN conns, NEW j \in 1 .. Len(conns'[b].data)
                 PROVE  /\ \A g \in DOMAIN got : got[g][1] < conns'[b].data[j].msg
                        /\ conns'[b].data[j].msg <= begun
    OBVIOUS
  <2>2. CASE j \in 1 .. Len(conns[b].data) /\ conns'[b].data[j].msg = conns[b].data[j].msg
    BY <2>2 DEF Order
  <2>3. CASE conns'[b].data[j].msg = begun /\ \E t \in SThread : spc[t] # "idle"
    BY <2>3, Basics DEF Order
  <2>4. QED
    BY <1>4, <2>2, <2>3
<1>9. \A u \in SThread : spc[u] # "idle" =>
       /\ \A g \in DOMAIN got : got[g][1] < begun
       /\ \A b \in DOMAIN conns : \A j \in 1 .. Len(conns'[b].data) :
            Completes(conns'[b].data[j]) => conns'[b].data[j].msg < begun
  <2>1. SUFFICES ASSUME NEW u \in SThread, spc[u] # "idle"
                 PROVE  \A b \in DOMAIN conns : \A j \in 1 .. Len(conns'[b].data) :
                          Completes(conns'[b].data[j]) => conns'[b].data[j].msg < begun
    BY DEF Order
  <2>2. QED
    BY <1>4, <1>5, <2>1
<1>10. /\ \A g \in DOMAIN got, r \in RThread : \A j \in 1 .. Len(rbuf[r]) : got[g][1] < rbuf[r][j].msg
       /\ \A g \in DOMAIN got : got[g][1] <= begun
  BY DEF Order
<1>11. QED
  BY <1>1, <1>2, <1>6, <1>7, <1>8, <1>9, <1>10 DEF Order, Completes

\* A message that is returned comes before all that is still on its way.
LEMMA OrderRecvPiece ==
  ASSUME TypeOK, Alone, Ends, Streams, Order, WholeInOrder, NEW r \in RThread, RecvPiece(r),
         NEW c, c = sock["rcv"], NEW p, p = conns[c].data[1]
  PROVE  Order' /\ WholeInOrder'
<1> DEFINE n == Len(conns[c].data)
           m == Len(rbuf[r])
           buf == Append(rbuf[r], p)
<1>1. /\ c \in DOMAIN conns /\ rpc[r] = "recv" /\ n > 0 /\ ~p.cut /\ p \in PieceType
      /\ begun' = begun /\ link' = link /\ spc' = spc
      /\ \A q \in RThread : q # r => rbuf'[q] = rbuf[q]
      /\ DOMAIN conns' = DOMAIN conns
  BY RecvPieceFacts
<1>2. \A b \in DOMAIN conns : b # c => conns'[b].data = conns[b].data
  BY RecvPieceFacts
<1>3. /\ Len(conns'[c].data) = n - 1
      /\ \A j \in 1 .. Len(conns'[c].data) : conns'[c].data[j] = conns[c].data[j + 1]
  BY RecvPieceFacts, SMTT(30)
<1>4. \/ m + 1 = Pieces /\ rbuf'[r] = <<>> /\ got' = Append(got, PartsOf(buf))
      \/ m + 1 # Pieces /\ rbuf'[r] = buf /\ got' = got
  BY RecvPieceFacts
<1>5. buf \in Seq(PieceType)
  BY RecvPieceFacts
<1>6. Pieces' = Pieces
  BY <1>1, SameLink
<1>7. /\ p.i = m + 1
      /\ \A j \in 1 .. m : rbuf[r][j].i = j /\ rbuf[r][j].msg = p.msg
      /\ \A q \in RThread : q # r => rbuf[q] = <<>>
  BY <1>1, HeadFits
<1>8. n \in Nat /\ m \in Nat /\ rbuf[r] \in Seq(PieceType)
  BY <1>1, ConnTyped
<1>9. Len(buf) = m + 1 /\ \A j \in 1 .. (m + 1) : buf[j].msg = p.msg
  <2>1. Len(buf) = m + 1 /\ buf[m + 1] = p /\ \A j \in 1 .. m : buf[j] = rbuf[r][j]
    BY <1>1, <1>8, AppendProperties
  <2>2. \A x \in Nat : \A j \in 1 .. (x + 1) : j \in 1 .. x \/ j = x + 1
    OBVIOUS
  <2>3. QED
    BY <1>7, <1>8, <2>1, <2>2
\* Every piece is an old one, and in its connection one place further on.
<1>10. \A b \in DOMAIN conns : \A j \in 1 .. Len(conns'[b].data) :
         \/ /\ b # c /\ j \in 1 .. Len(conns[b].data) /\ conns'[b].data[j] = conns[b].data[j]
         \/ /\ b = c /\ j + 1 \in 1 .. n /\ j + 1 > 1 /\ conns'[b].data[j] = conns[c].data[j + 1]
  <2>1. \A j \in 1 .. (n - 1) : j + 1 \in 1 .. n /\ j + 1 > 1
    BY <1>8
  <2>2. QED
    BY <1>2, <1>3, <2>1
<1>11. \A b \in DOMAIN conns : \A j, k \in 1 .. Len(conns'[b].data) :
         j < k /\ Completes(conns'[b].data[j]) => conns'[b].data[j].msg < conns'[b].data[k].msg
  <2>1. SUFFICES ASSUME NEW b \in DOMAIN conns,
                        NEW j \in 1 .. Len(conns'[b].data), NEW k \in 1 .. Len(conns'[b].data),
                        j < k, Completes(conns'[b].data[j])
                 PROVE  conns'[b].data[j].msg < conns'[b].data[k].msg
    OBVIOUS
  <2>2. CASE b # c
    <3>1. /\ j \in 1 .. Len(conns[b].data) /\ conns'[b].data[j] = conns[b].data[j]
          /\ k \in 1 .. Len(conns[b].data) /\ conns'[b].data[k] = conns[b].data[k]
      BY <1>10, <2>2
    <3>2. QED
      BY <2>1, <3>1 DEF Order
  <2>3. CASE b = c
    <3>1. /\ j + 1 \in 1 .. n /\ conns'[b].data[j] = conns[c].data[j + 1]
          /\ k + 1 \in 1 .. n /\ conns'[b].data[k] = conns[c].data[k + 1]
      BY <1>10, <2>3
    <3>2. j + 1 < k + 1
      BY <2>1
    <3>3. QED
      BY <1>1, <2>1, <3>1, <3>2 DEF Order
  <2>4. QED
    BY <2>2, <2>3
<1>12. \A b \in DOMAIN conns : \A j \in 1 .. Len(conns'[b].data) :
         \E k \in 1 .. Len(conns[b].data) : conns'[b].data[j] = conns[b].data[k]
  BY <1>10
<1>13. \A a, b \in DOMAIN conns : a < b =>
        \A j \in 1 .. Len(conns'[a].data), k \in 1 .. Len(conns'[b].data) :
          Completes(conns'[a].data[j]) => conns'[a].data[j].msg < conns'[b].data[k].msg
  <2>1. SUFFICES ASSUME NEW a \in DOMAIN conns, NEW b \in DOMAIN conns, a < b,
                        NEW j \in 1 .. Len(conns'[a].data), NEW k \in 1 .. Len(conns'[b].data),
                        Completes(conns'[a].data[j])
                 PROVE  conns'[a].data[j].msg < conns'[b].data[k].msg
    OBVIOUS
  <2>2. PICK x \in 1 .. Len(conns[a].data) : conns'[a].data[j] = conns[a].data[x]
    BY <1>12
  <2>3. PICK y \in 1 .. Len(conns[b].data) : conns'[b].data[k] = conns[b].data[y]
    BY <1>12
  <2>4. QED
    BY <2>1, <2>2, <2>3 DEF Order
<1>14. /\ \A g \in DOMAIN got, b \in DOMAIN conns : \A j \in 1 .. Len(conns'[b].data) :
            got[g][1] < conns'[b].data[j].msg
       /\ \A b \in DOMAIN conns : \A j \in 1 .. Len(conns'[b].data) : conns'[b].data[j].msg <= begun
  <2>1. SUFFICES ASSUME NEW b \in DOMAIN conns, NEW j \in 1 .. Len(conns'[b].data)
                 PROVE  /\ \A g \in DOMAIN got : got[g][1] < conns'[b].data[j].msg
                        /\ conns'[b].data[j].msg <= begun
    OBVIOUS
  <2>2. PICK k \in 1 .. Len(conns[b].data) : conns'[b].data[j] = conns[b].data[k]
    BY <1>12
  <2>3. QED
    BY <2>2 DEF Order
<1>15. \A u \in SThread : spc[u] # "idle" =>
        /\ \A g \in DOMAIN got : got[g][1] < begun
        /\ \A b \in DOMAIN conns : \A j \in 1 .. Len(conns'[b].data) :
             Completes(conns'[b].data[j]) => conns'[b].data[j].msg < begun
  BY <1>12 DEF Order
<1>16. 1 \in 1 .. n /\ \A g \in DOMAIN got : got[g][1] < p.msg
  <2>1. 1 \in 1 .. n
    BY <1>1, <1>8
  <2>2. QED
    BY <1>1, <2>1 DEF Order
<1>17. CASE m + 1 # Pieces
  <2>1. rbuf'[r] = buf /\ got' = got
    BY <1>4, <1>17
  <2>2. \A g \in DOMAIN got, q \in RThread : \A j \in 1 .. Len(rbuf'[q]) : got[g][1] < rbuf'[q][j].msg
    <3>1. \A g \in DOMAIN got : \A j \in 1 .. Len(rbuf'[r]) : got[g][1] < rbuf'[r][j].msg
      <4>1. Len(rbuf'[r]) = m + 1 /\ \A j \in 1 .. (m + 1) : rbuf'[r][j].msg = p.msg
        BY <1>9, <2>1
      <4>2. QED
        BY <1>16, <4>1
    <3>2. \A g \in DOMAIN got, q \in RThread : q # r =>
            \A j \in 1 .. Len(rbuf'[q]) : got[g][1] < rbuf'[q][j].msg
      BY <1>1 DEF Order
    <3>3. QED
      BY <3>1, <3>2
  <2>3. Order'
    BY <1>1, <1>6, <1>11, <1>13, <1>14, <1>15, <2>1, <2>2 DEF Order, Completes
  <2>4. WholeInOrder'
    BY <1>1, <2>1 DEF WholeInOrder
  <2>5. QED
    BY <2>3, <2>4
<1>18. CASE m + 1 = Pieces
  <2>1. rbuf'[r] = <<>> /\ got' = Append(got, PartsOf(buf))
    BY <1>4, <1>18
  <2>2. /\ \A x \in 1 .. link.parts : PartsOf(buf)[x] = p.msg
        /\ PartsOf(buf) \in [1 .. link.parts -> Msg] /\ 1 \in 1 .. link.parts
    <3>1. /\ PartsOf(buf) \in [1 .. link.parts -> Msg]
          /\ \A x \in 1 .. link.parts : PartsOf(buf)[x] = buf[2 * x].msg /\ 2 * x \in 1 .. Len(buf)
      BY <1>5, <1>9, <1>18, PartsTyped
    <3>2. 1 \in 1 .. link.parts
      BY Basics
    <3>3. QED
      BY <1>9, <3>1, <3>2
  <2>3. /\ Len(got') = Len(got) + 1 /\ Len(got) \in Nat /\ DOMAIN got = 1 .. Len(got)
        /\ DOMAIN got' = 1 .. (Len(got) + 1)
        /\ \A g \in DOMAIN got : got'[g] = got[g]
        /\ got'[Len(got) + 1] = PartsOf(buf)
    <3>1. got \in Seq([1 .. link.parts -> Msg])
      BY DEF TypeOK
    <3>2. QED
      BY <2>1, <2>2, <3>1, AppendProperties
  <2>4. \A g \in DOMAIN got' : g \in DOMAIN got \/ g = Len(got) + 1
    BY <2>3
  <2>5. \A b \in DOMAIN conns : \A j \in 1 .. Len(conns'[b].data) : p.msg < conns'[b].data[j].msg
    <3>1. Completes(p)
      BY <1>1, <1>7, <1>18 DEF Completes
    <3>2. SUFFICES ASSUME NEW b \in DOMAIN conns, NEW j \in 1 .. Len(conns'[b].data)
                   PROVE  p.msg < conns'[b].data[j].msg
      OBVIOUS
    <3>3. CASE b = c
      <4>1. j + 1 \in 1 .. n /\ j + 1 > 1 /\ conns'[b].data[j] = conns[c].data[j + 1]
        BY <1>10, <3>2, <3>3
      <4>2. \A k \in 1 .. n : k > 1 => p.msg < conns[c].data[k].msg
        BY <1>1, <1>16, <3>1 DEF Order
      <4>3. QED
        BY <4>1, <4>2
    <3>4. CASE b # c
      <4>1. j \in 1 .. Len(conns[b].data) /\ conns'[b].data[j] = conns[b].data[j]
        BY <1>10, <3>4
      <4>2. Len(<<>>) = 0 /\ conns[b].data # <<>>
        BY <4>1
      <4>3. ~(b < c)
        BY <1>1, <4>2, EarlierEmpty
      <4>4. c < b
        BY <1>1, <3>4, <4>3, ConnTyped
      <4>5. QED
        BY <1>1, <1>16, <3>1, <4>1, <4>4 DEF Order
    <3>5. QED
      BY <3>3, <3>4
  <2>6. \A q \in RThread : Len(rbuf'[q]) = 0
    BY <1>1, <1>7, <2>1
  <2>7. p.msg <= begun /\ \A u \in SThread : spc[u] # "idle" => p.msg < begun
    <3>1. Completes(p)
      BY <1>1, <1>7, <1>18 DEF Completes
    <3>2. QED
      BY <1>1, <1>16, <3>1 DEF Order
  <2>8. \A g \in DOMAIN got' : got'[g][1] = p.msg \/ (g \in DOMAIN got /\ got'[g][1] = got[g][1])
    BY <2>2, <2>3, <2>4
  <2>9. /\ \A g \in DOMAIN got', b \in DOMAIN conns : \A j \in 1 .. Len(conns'[b].data) :
             got'[g][1] < conns'[b].data[j].msg
        /\ \A g \in DOMAIN got', q \in RThread : \A j \in 1 .. Len(rbuf'[q]) : got'[g][1] < rbuf'[q][j].msg
        /\ \A g \in DOMAIN got' : got'[g][1] <= begun
        /\ \A u \in SThread : spc[u] # "idle" => \A g \in DOMAIN got' : got'[g][1] < begun
    <3>1. /\ \A g \in DOMAIN got : got[g][1] <= begun
          /\ \A u \in SThread : spc[u] # "idle" => \A g \in DOMAIN got : got[g][1] < begun
      BY DEF Order
    <3>2. QED
      BY <1>14, <2>5, <2>6, <2>7, <2>8, <3>1
  <2>10. Order'
    BY <1>1, <1>6, <1>11, <1>13, <1>14, <1>15, <2>9 DEF Order, Completes
  <2>11. \A g \in DOMAIN got' : \A x \in 1 .. link.parts : got'[g][x] = got'[g][1]
    BY <2>2, <2>3, <2>4 DEF WholeInOrder
  <2>12. \A g, h \in DOMAIN got' : g < h => got'[g][1] < got'[h][1]
    <3>1. SUFFICES ASSUME NEW g \in DOMAIN got', NEW h \in DOMAIN got', g < h
                   PROVE  got'[g][1] < got'[h][1]
      OBVIOUS
    <3>2. g \in DOMAIN got /\ got'[g] = got[g]
      BY <2>3, <3>1
    <3>3. CASE h \in DOMAIN got
      BY <2>3, <3>1, <3>2, <3>3 DEF WholeInOrder
    <3>4. CASE h = Len(got) + 1
      BY <1>16, <2>2, <2>3, <3>2, <3>4
    <3>5. QED
      BY <2>4, <3>3, <3>4
  <2>13. WholeInOrder'
    BY <1>1, <2>11, <2>12 DEF WholeInOrder
  <2>14. QED
    BY <2>10, <2>13
<1>19. QED
  BY <1>17, <1>18

\* What was returned stays as it is.
LEMMA WholeStays ==
  ASSUME WholeInOrder, got' = got, link' = link
  PROVE  WholeInOrder'
BY DEF WholeInOrder

\* Order in every step.
LEMMA OrderKeeps ==
  ASSUME TypeOK, Alone, Ends, Streams, Order, WholeInOrder, Next
  PROVE  Order' /\ WholeInOrder'
<1>1. ASSUME NEW t \in SThread, SendBegin(t)
      PROVE  Order' /\ WholeInOrder'
  BY <1>1, OrderSendBegin, WholeStays DEF SendBegin
<1>2. ASSUME NEW t \in SThread, SendPiece(t)
      PROVE  Order' /\ WholeInOrder'
  BY <1>2, OrderSendPiece, WholeStays DEF SendPiece
<1>3. ASSUME NEW t \in SThread, SendError(t)
      PROVE  Order' /\ WholeInOrder'
  <2>1. /\ link' = link /\ rbuf' = rbuf /\ begun' = begun /\ got' = got /\ Close("snd") /\ "snd" \in End
        /\ spc[t] # "idle" /\ \A u \in SThread : u # t => spc'[u] = spc[u]
    BY <1>3 DEF SendError, End, TypeOK
  <2>2. DOMAIN conns' = DOMAIN conns /\ \A c \in DOMAIN conns : conns'[c].data = conns[c].data
    BY <2>1, ClosedFacts DEF Close
  <2>3. QED
    BY <2>1, <2>2, OrderFewer, SameLink, WholeStays
<1>4. ASSUME NEW t \in SThread, SendReopen(t)
      PROVE  Order' /\ WholeInOrder'
  <2>1. /\ link' = link /\ rbuf' = rbuf /\ begun' = begun /\ got' = got /\ Reopen("snd") /\ "snd" \in End
        /\ spc[t] # "idle" /\ \A u \in SThread : u # t => spc'[u] = spc[u]
    BY <1>4 DEF SendReopen, End, TypeOK
  <2>2. /\ \A c \in DOMAIN conns : conns'[c].data = conns[c].data
        /\ \A c \in DOMAIN conns' \ DOMAIN conns : conns'[c].data = <<>>
    BY <2>1, ReopenFacts DEF NewConn
  <2>3. QED
    BY <2>1, <2>2, OrderFewer, SameLink, WholeStays
<1>5. ASSUME NEW r \in RThread, RecvBegin(r)
      PROVE  Order' /\ WholeInOrder'
  BY <1>5, OrderFewer, SameLink, WholeStays DEF RecvBegin
<1>6. ASSUME NEW r \in RThread, RecvPiece(r)
      PROVE  Order' /\ WholeInOrder'
  BY <1>6, OrderRecvPiece
<1>7. ASSUME NEW r \in RThread, RecvError(r)
      PROVE  Order' /\ WholeInOrder'
  <2>1. /\ link' = link /\ begun' = begun /\ got' = got /\ spc' = spc /\ Close("rcv") /\ "rcv" \in End
        /\ \A q \in RThread : rbuf'[q] = rbuf[q] \/ rbuf'[q] = <<>>
    BY <1>7 DEF RecvError, End, TypeOK, KeptAfterError
  <2>2. /\ DOMAIN conns' = DOMAIN conns
        /\ \A c \in DOMAIN conns : conns'[c].data = conns[c].data \/ conns'[c].data = <<>>
    BY <2>1, ClosedFacts DEF Close
  <2>3. QED
    BY <2>1, <2>2, OrderFewer, SameLink, WholeStays
<1>8. ASSUME NEW r \in RThread, RecvReopen(r)
      PROVE  Order' /\ WholeInOrder'
  <2>1. /\ link' = link /\ rbuf' = rbuf /\ begun' = begun /\ got' = got /\ spc' = spc
        /\ Reopen("rcv") /\ "rcv" \in End
    BY <1>8 DEF RecvReopen, End
  <2>2. /\ \A c \in DOMAIN conns : conns'[c].data = conns[c].data
        /\ \A c \in DOMAIN conns' \ DOMAIN conns : conns'[c].data = <<>>
    BY <2>1, ReopenFacts DEF NewConn
  <2>3. QED
    BY <2>1, <2>2, OrderFewer, SameLink, WholeStays
<1>9. ASSUME NEW c \in DOMAIN conns, Break(c)
      PROVE  Order' /\ WholeInOrder'
  BY <1>9, OrderBreak, WholeStays DEF Break
<1>10. CASE SenderDeath
  <2>1. /\ link' = link /\ rbuf' = rbuf /\ begun' = begun /\ got' = got /\ Death("snd") /\ "snd" \in End
        /\ \A t \in SThread : spc'[t] = "idle"
    BY <1>10 DEF SenderDeath, End
  <2>2. DOMAIN conns' = DOMAIN conns /\ \A c \in DOMAIN conns : conns'[c].data = conns[c].data
    BY <2>1, DeathFacts
  <2>3. QED
    BY <2>1, <2>2, OrderFewer, SameLink, WholeStays
<1>11. CASE ReceiverDeath
  <2>1. /\ link' = link /\ begun' = begun /\ got' = got /\ spc' = spc /\ Death("rcv") /\ "rcv" \in End
        /\ \A q \in RThread : rbuf'[q] = <<>>
    BY <1>11 DEF ReceiverDeath, End
  <2>2. DOMAIN conns' = DOMAIN conns /\ \A c \in DOMAIN conns : conns'[c].data = <<>>
    BY <2>1, DeathFacts
  <2>3. QED
    BY <2>1, <2>2, OrderFewer, SameLink, WholeStays
<1>12. QED
  BY <1>1, <1>2, <1>3, <1>4, <1>5, <1>6, <1>7, <1>8, <1>9, <1>10, <1>11 DEF Next, SendStep, RecvStep

-----------------------------------------------------------------------------
\* Types in every step.
LEMMA TypesKeep ==
  ASSUME TypeOK, Alone, Ends, Streams, Next
  PROVE  TypeOK'
<1>1. /\ link' = link /\ Pieces' = Pieces /\ ConnType' = ConnType
      /\ ConnType = [data : Seq(PieceType), snd : BOOLEAN, rcv : BOOLEAN, ok : BOOLEAN, accepted : BOOLEAN]
  <2>1. link' = link
    BY DEF Next, SendStep, RecvStep, SendBegin, SendPiece, SendError, SendReopen, RecvBegin, RecvPiece,
           RecvError, RecvReopen, Break, SenderDeath, ReceiverDeath
  <2>2. QED
    BY <2>1, SameLink DEF ConnType, PieceType
\* The parts of the state, one by one.
<1> DEFINE Conns == conns' \in Seq(ConnType) /\ sock' \in [End -> 0 .. Len(conns')] /\ listening' \in BOOLEAN
           Sending == /\ spc' \in [SThread -> {"idle", "send", "reopen"}]
                      /\ smsg' \in [SThread -> Msg \cup {0}] /\ spos' \in [SThread -> 0 .. (Pieces - 1)]
           Receiving == /\ rpc' \in [RThread -> {"idle", "recv", "reopen"}]
                        /\ rbuf' \in [RThread -> Seq(PieceType)]
           Rest == begun' \in 0 .. MaxMsg /\ got' \in Seq([1 .. link.parts -> Msg]) /\ faults' \in 0 .. MaxFault
<1>2. Conns /\ Sending /\ Receiving /\ Rest => TypeOK'
  BY <1>1 DEF TypeOK, PieceType
<1>3. /\ conns' = conns /\ sock' = sock /\ listening' = listening => Conns
      /\ spc' = spc /\ smsg' = smsg /\ spos' = spos => Sending
      /\ rpc' = rpc /\ rbuf' = rbuf => Receiving
      /\ begun' = begun /\ got' = got /\ faults' = faults => Rest
  BY DEF TypeOK, PieceType
<1>4. ASSUME NEW e \in End, Close(e)
      PROVE  Conns
  <2>1. /\ conns' = Closed(e) /\ sock' = [sock EXCEPT ![e] = 0]
        /\ listening' = (listening \/ e = Listener)
    BY <1>4, Zenon DEF Close
  <2>2. conns' \in Seq(ConnType) /\ Len(conns') = Len(conns)
    BY <2>1, ClosedFacts
  <2>3. sock' \in [End -> 0 .. Len(conns)]
    BY <2>1, ConnTyped DEF TypeOK
  <2>4. listening' \in BOOLEAN
    BY <2>1
  <2>5. QED
    BY <2>2, <2>3, <2>4
<1>5. ASSUME NEW e \in End, Reopen(e)
      PROVE  Conns
  BY <1>5, ReopenFacts DEF TypeOK
<1>6. ASSUME NEW e \in End, Death(e)
      PROVE  Conns /\ faults' \in 0 .. MaxFault
  BY <1>6, DeathFacts
<1>7. "snd" \in End /\ "rcv" \in End /\ 0 \in 0 .. (Pieces - 1) /\ <<>> \in Seq(PieceType)
  BY Basics DEF End
<1>8. ASSUME NEW t \in SThread, SendBegin(t)
      PROVE  TypeOK'
  <2>1. Conns /\ Receiving
    BY <1>3, <1>8 DEF SendBegin
  <2>2. begun + 1 \in Msg /\ begun + 1 \in 0 .. MaxMsg
    BY <1>8, HtcpAssumption DEF SendBegin, TypeOK, Msg
  <2>3. Sending /\ Rest
    BY <1>8, <2>2 DEF SendBegin, TypeOK
  <2>4. QED
    BY <1>2, <2>1, <2>3
<1>9. ASSUME NEW t \in SThread, SendPiece(t)
      PROVE  TypeOK'
  <2>1. Receiving /\ Rest
    BY <1>3, <1>9 DEF SendPiece
  <2>2. Conns
    <3>1. \/ conns' = conns
          \/ conns' \in Seq(ConnType) /\ Len(conns') = Len(conns)
      BY <1>9, SendPieceFacts
    <3>2. sock' = sock /\ listening' = listening
      BY <1>9 DEF SendPiece
    <3>3. QED
      BY <3>1, <3>2 DEF TypeOK
  <2>3. spos[t] + 1 # Pieces => spos[t] + 1 \in 0 .. (Pieces - 1)
    <3>1. spos[t] \in 0 .. (Pieces - 1) /\ Pieces \in Nat
      BY Basics DEF TypeOK
    <3>2. QED
      BY <3>1
  <2>4. Sending
    BY <1>7, <1>9, <2>3 DEF SendPiece, TypeOK, PosAfter
  <2>5. QED
    BY <1>2, <2>1, <2>2, <2>4
<1>10. ASSUME NEW t \in SThread, SendError(t)
       PROVE  TypeOK'
  <2>1. Conns /\ Receiving /\ Rest
    BY <1>3, <1>4, <1>7, <1>10 DEF SendError
  <2>2. Sending
    BY <1>7, <1>10 DEF SendError, TypeOK, AfterError
  <2>3. QED
    BY <1>2, <2>1, <2>2
<1>11. ASSUME NEW t \in SThread, SendReopen(t)
       PROVE  TypeOK'
  <2>1. Conns /\ Receiving /\ Rest
    BY <1>3, <1>5, <1>7, <1>11 DEF SendReopen
  <2>2. Sending
    BY <1>11 DEF SendReopen, TypeOK
  <2>3. QED
    BY <1>2, <2>1, <2>2
<1>12. ASSUME NEW r \in RThread, RecvBegin(r)
       PROVE  TypeOK'
  <2>1. Conns /\ Sending /\ Rest
    BY <1>3, <1>12 DEF RecvBegin
  <2>2. Receiving
    BY <1>12 DEF RecvBegin, TypeOK, PieceType
  <2>3. QED
    BY <1>2, <2>1, <2>2
<1>13. ASSUME NEW r \in RThread, RecvPiece(r)
       PROVE  TypeOK'
  <2> DEFINE p == conns[sock["rcv"]].data[1]
  <2>1. conns' \in Seq(ConnType) /\ Len(conns') = Len(conns)
    BY <1>13, RecvPieceFacts
  <2>2. sock' = sock /\ listening' = listening
    BY <1>13 DEF RecvPiece
  <2>3. Conns
    BY <2>1, <2>2 DEF TypeOK
  <2>4. Sending
    BY <1>3, <1>13 DEF RecvPiece
  <2>5. /\ Append(rbuf[r], p) \in Seq(PieceType)
        /\ \/ /\ Len(rbuf[r]) + 1 = Pieces /\ rbuf'[r] = <<>>
              /\ got' = Append(got, PartsOf(Append(rbuf[r], p)))
           \/ /\ rbuf'[r] = Append(rbuf[r], p) /\ got' = got
    BY <1>13, RecvPieceFacts
  <2>6. Receiving
    <3>1. rbuf'[r] \in Seq(PieceType)
      BY <1>7, <2>5
    <3>2. rbuf' = [rbuf EXCEPT ![r] = rbuf'[r]] /\ rpc' = [rpc EXCEPT ![r] = rpc'[r]]
          /\ rpc'[r] \in {"idle", "recv"}
      BY <1>13 DEF RecvPiece, TypeOK
    <3>3. rbuf \in [RThread -> Seq(PieceType)] /\ rpc \in [RThread -> {"idle", "recv", "reopen"}]
      BY DEF TypeOK, PieceType
    <3>4. QED
      BY <3>1, <3>2, <3>3
  <2>7. Rest
    <3>1. begun' = begun /\ faults' = faults
      BY <1>13 DEF RecvPiece
    <3>2. CASE got' = got
      BY <1>3, <3>1, <3>2
    <3>3. CASE Len(rbuf[r]) + 1 = Pieces /\ got' = Append(got, PartsOf(Append(rbuf[r], p)))
      <4>1. Len(Append(rbuf[r], p)) = Pieces
        BY <2>5, <3>3, ConnTyped
      <4>2. PartsOf(Append(rbuf[r], p)) \in [1 .. link.parts -> Msg]
        BY <2>5, <4>1, PartsTyped
      <4>3. got \in Seq([1 .. link.parts -> Msg]) /\ begun \in 0 .. MaxMsg /\ faults \in 0 .. MaxFault
        BY DEF TypeOK
      <4>4. got' \in Seq([1 .. link.parts -> Msg])
        BY <3>3, <4>2, <4>3, AppendProperties
      <4>5. QED
        BY <3>1, <4>3, <4>4
    <3>4. QED
      BY <2>5, <3>2, <3>3
  <2>8. QED
    BY <1>2, <2>3, <2>4, <2>6, <2>7
<1>14. ASSUME NEW r \in RThread, RecvError(r)
       PROVE  TypeOK'
  <2>1. Conns /\ Sending /\ Rest
    BY <1>3, <1>4, <1>7, <1>14 DEF RecvError
  <2>2. Receiving
    BY <1>7, <1>14 DEF RecvError, TypeOK, KeptAfterError, PieceType
  <2>3. QED
    BY <1>2, <2>1, <2>2
<1>15. ASSUME NEW r \in RThread, RecvReopen(r)
       PROVE  TypeOK'
  <2>1. Conns /\ Sending /\ Rest
    BY <1>3, <1>5, <1>7, <1>15 DEF RecvReopen
  <2>2. Receiving
    BY <1>15 DEF RecvReopen, TypeOK, PieceType
  <2>3. QED
    BY <1>2, <2>1, <2>2
<1>16. ASSUME NEW c \in DOMAIN conns, Break(c)
       PROVE  TypeOK'
  <2>1. Sending /\ Receiving
    BY <1>3, <1>16 DEF Break
  <2>2. conns' \in Seq(ConnType) /\ Len(conns') = Len(conns)
    BY <1>16, BreakStep
  <2>3. sock' = sock /\ listening' = listening
    BY <1>16 DEF Break
  <2>4. Conns
    BY <2>2, <2>3 DEF TypeOK
  <2>5. Rest
    BY <1>16, HtcpAssumption DEF Break, TypeOK
  <2>6. QED
    BY <1>2, <2>1, <2>4, <2>5
<1>17. CASE SenderDeath
  <2>1. Conns /\ faults' \in 0 .. MaxFault
    BY <1>6, <1>7, <1>17 DEF SenderDeath
  <2>2. Receiving /\ Rest
    BY <1>3, <1>17, <2>1 DEF SenderDeath, TypeOK
  <2>3. Sending
    BY <1>7, <1>17 DEF SenderDeath
  <2>4. QED
    BY <1>2, <2>1, <2>2, <2>3
<1>18. CASE ReceiverDeath
  <2>1. Conns /\ faults' \in 0 .. MaxFault
    BY <1>6, <1>7, <1>18 DEF ReceiverDeath
  <2>2. Sending /\ Rest
    BY <1>3, <1>18, <2>1 DEF ReceiverDeath, TypeOK
  <2>3. Receiving
    BY <1>7, <1>18 DEF ReceiverDeath
  <2>4. QED
    BY <1>2, <2>1, <2>2, <2>3
<1>19. QED
  BY <1>8, <1>9, <1>10, <1>11, <1>12, <1>13, <1>14, <1>15, <1>16, <1>17, <1>18
  DEF Next, SendStep, RecvStep

-----------------------------------------------------------------------------
\* The invariant holds at the start: there are no connections.
LEMMA InvInit ==
  ASSUME Init
  PROVE  IInv
<1>1. link \in Links /\ link.parts \in Nat \ {0} /\ Pieces \in Nat /\ Pieces >= 2
  <2>1. link \in Links /\ link.parts \in Nat \ {0}
    BY HtcpAssumption DEF Init
  <2>2. QED
    BY <2>1 DEF Pieces
<1>2. /\ conns = <<>> /\ DOMAIN conns = {} /\ Len(conns) = 0
      /\ got = <<>> /\ DOMAIN got = {} /\ begun = 0 /\ faults = 0
      /\ \A r \in RThread : rbuf[r] = <<>> /\ Len(rbuf[r]) = 0 /\ rpc[r] = "idle"
      /\ \A t \in SThread : spc[t] = "idle" /\ smsg[t] = 0 /\ spos[t] = 0
      /\ \A e \in End : sock[e] = 0
      /\ sock["snd"] = 0 /\ sock["rcv"] = 0
  BY DEF Init, End
<1>3. TypeOK
  <2>1. 0 \in 0 .. (Pieces - 1) /\ 0 \in 0 .. MaxMsg /\ 0 \in 0 .. MaxFault /\ 0 \in 0 .. Len(conns)
    BY <1>1, <1>2, HtcpAssumption
  <2>2. <<>> \in Seq(ConnType) /\ <<>> \in Seq([1 .. link.parts -> Msg]) /\ <<>> \in Seq(PieceType)
    OBVIOUS
  <2>3. /\ sock \in [End -> 0 .. Len(conns)] /\ listening \in BOOLEAN
        /\ spc \in [SThread -> {"idle", "send", "reopen"}]
        /\ smsg \in [SThread -> Msg \cup {0}] /\ spos \in [SThread -> 0 .. (Pieces - 1)]
        /\ rpc \in [RThread -> {"idle", "recv", "reopen"}]
        /\ rbuf \in [RThread -> Seq(PieceType)]
    BY <2>1, <2>2 DEF Init
  <2>4. QED
    BY <1>1, <1>2, <2>1, <2>2, <2>3 DEF TypeOK, PieceType
<1>4. Alone
  BY <1>2 DEF Alone
<1>5. Ends
  <2>1. Listener \in End /\ Other \in End
    BY DEF Listener, Other, End
  <2>2. QED
    BY <1>2, <2>1 DEF Ends
<1>6. Streams
  BY <1>1, <1>2 DEF Streams, Attempts, InStep
<1>7. Order /\ WholeInOrder
  BY <1>2 DEF Order, WholeInOrder
<1>8. QED
  BY <1>3, <1>4, <1>5, <1>6, <1>7 DEF IInv

\* Every step keeps it.
LEMMA InvNext == IInv /\ [Next]_vars => IInv'
<1>1. SUFFICES ASSUME IInv, [Next]_vars
               PROVE  IInv'
  OBVIOUS
<1>2. CASE Next
  BY <1>1, <1>2, TypesKeep, AloneKeeps, EndsKeeps, StreamsKeeps, OrderKeeps DEF IInv
<1>3. CASE UNCHANGED vars
  <2>1. /\ link' = link /\ conns' = conns /\ sock' = sock /\ listening' = listening
        /\ spc' = spc /\ smsg' = smsg /\ spos' = spos /\ rpc' = rpc /\ rbuf' = rbuf
        /\ begun' = begun /\ got' = got /\ faults' = faults
    BY <1>3 DEF vars
  <2>2. Pieces' = Pieces /\ Listener' = Listener /\ Other' = Other
    BY <2>1, SameLink
  <2>3. TypeOK'
    BY <1>1, <2>1, <2>2 DEF IInv, TypeOK, ConnType
  <2>4. Alone'
    BY <1>1, <2>1 DEF IInv, Alone
  <2>5. Ends'
    BY <1>1, <2>1, EndsSame DEF IInv
  <2>6. Streams'
    <3>1. \A c \in DOMAIN conns : Flows(c)'
      BY <1>1, <2>1, FlowsSame DEF IInv, Streams
    <3>2. Attempts' /\ InStep'
      BY <1>1, <2>1, <2>2 DEF IInv, Streams, Attempts, InStep, Reachable
    <3>3. QED
      BY <2>1, <3>1, <3>2 DEF Streams
  <2>7. Order' /\ WholeInOrder'
    BY <1>1, <2>1, <2>2, OrderFewer, WholeStays DEF IInv
  <2>8. QED
    BY <2>3, <2>4, <2>5, <2>6, <2>7 DEF IInv
<1>4. QED
  BY <1>1, <1>2, <1>3

\* The variables of HtcpLink keep their types: no thread goes past the last piece, no end
\* has a socket that was not made, and no part is missing in what node_recv returns.
THEOREM LinkTyped == Spec => []TypeOK
<1>1. Spec => []IInv
  BY InvInit, InvNext, PTL DEF Spec
<1>2. IInv => TypeOK
  BY DEF IInv
<1>3. QED
  BY <1>1, <1>2, PTL

\* Across failures, reconnections and deaths of either process, node_recv returns whole
\* messages, in the order of the sends, none twice: a page comes with its own record.
THEOREM MessagesWhole == Spec => []WholeInOrder
<1>1. Spec => []IInv
  BY InvInit, InvNext, PTL DEF Spec
<1>2. IInv => WholeInOrder
  BY DEF IInv
<1>3. QED
  BY <1>1, <1>2, PTL

-----------------------------------------------------------------------------
(* Sets of numbers in order.                                               *)

\* The ranks of the members of a set of numbers are the first numbers, each once.
LEMMA RankFacts ==
  ASSUME NEW S \in SUBSET Nat, IsFiniteSet(S)
  PROVE  /\ Cardinality(S) \in Nat
         /\ \A m \in S : Rank(S, m) \in 1 .. Cardinality(S)
         /\ \A m, n \in S : m < n => Rank(S, m) < Rank(S, n)
         /\ \A m, n \in S : Rank(S, m) = Rank(S, n) => m = n
         /\ \A i \in 1 .. Cardinality(S) : \E m \in S : Rank(S, m) = i
<1> DEFINE Upto(m) == {k \in S : k <= m}
<1>1. Cardinality(S) \in Nat
  BY FS_CardinalityType
<1>2. ASSUME NEW m \in S
      PROVE  /\ IsFiniteSet(Upto(m)) /\ Cardinality(Upto(m)) \in Nat
             /\ Cardinality(Upto(m)) <= Cardinality(S) /\ Cardinality(Upto(m)) # 0
  <2>1. Upto(m) \in SUBSET S
    OBVIOUS
  <2>2. IsFiniteSet(Upto(m)) /\ Cardinality(Upto(m)) <= Cardinality(S)
    BY <2>1, FS_Subset
  <2>3. m \in Upto(m)
    OBVIOUS
  <2>4. Cardinality(Upto(m)) \in Nat /\ Cardinality(Upto(m)) # 0
    BY <2>2, <2>3, FS_CardinalityType, FS_EmptySet
  <2>5. QED
    BY <2>2, <2>4
<1>3. \A m \in S : Rank(S, m) \in 1 .. Cardinality(S)
  BY <1>1, <1>2 DEF Rank
<1>4. ASSUME NEW m \in S, NEW n \in S, m < n
      PROVE  Rank(S, m) < Rank(S, n)
  <2>1. Upto(m) \in SUBSET Upto(n) /\ n \in Upto(n) /\ n \notin Upto(m)
    <3>1. m \in Nat /\ n \in Nat /\ \A k \in S : k \in Nat
      OBVIOUS
    <3>2. \A k \in S : k <= m => k <= n
      <4>1. \A k \in Nat : k <= m => k <= n
        BY <1>4, <3>1
      <4>2. QED
        BY <3>1, <4>1
    <3>3. n <= n /\ ~(n <= m)
      BY <1>4, <3>1
    <3>4. QED
      BY <3>2, <3>3
  <2>2. Cardinality(Upto(m)) <= Cardinality(Upto(n))
    BY <1>2, <2>1, FS_Subset
  <2>3. Cardinality(Upto(m)) # Cardinality(Upto(n))
    BY <1>2, <2>1, FS_Subset
  <2>4. QED
    BY <1>2, <2>2, <2>3 DEF Rank
<1>5. \A m, n \in S : Rank(S, m) = Rank(S, n) => m = n
  <2>1. ASSUME NEW m \in S, NEW n \in S, m # n PROVE Rank(S, m) # Rank(S, n)
    <3>1. m < n \/ n < m
      BY <2>1
    <3>2. Rank(S, m) \in Nat /\ Rank(S, n) \in Nat
      BY <1>1, <1>3
    <3>3. QED
      BY <1>4, <3>1, <3>2
  <2>2. QED
    BY <2>1
<1>6. ASSUME NEW i \in 1 .. Cardinality(S)
      PROVE  \E m \in S : Rank(S, m) = i
  <2> DEFINE f == [m \in S |-> Rank(S, m)]
  <2>1. f \in Injection(S, 1 .. Cardinality(S))
    BY <1>3, <1>5 DEF Injection, IsInjective
  <2>2. /\ IsFiniteSet(1 .. Cardinality(S))
        /\ Cardinality(1 .. Cardinality(S)) = Cardinality(S)
    BY <1>1, FS_Interval
  <2>3. f \in Surjection(S, 1 .. Cardinality(S))
    BY <2>1, <2>2, FS_Injection
  <2>4. QED
    BY <2>3 DEF Surjection
<1>7. QED
  BY <1>1, <1>3, <1>4, <1>5, <1>6

LEMMA SortedFacts ==
  ASSUME NEW S \in SUBSET Nat, IsFiniteSet(S)
  PROVE  /\ Sorted(S) \in Seq(S) /\ Len(Sorted(S)) = Cardinality(S) /\ Cardinality(S) \in Nat
         /\ \A i \in 1 .. Cardinality(S) : Sorted(S)[i] \in S /\ Rank(S, Sorted(S)[i]) = i
         /\ \A m \in S : Rank(S, m) \in 1 .. Cardinality(S) /\ Sorted(S)[Rank(S, m)] = m
<1>1. \A i \in 1 .. Cardinality(S) : Sorted(S)[i] \in S /\ Rank(S, Sorted(S)[i]) = i
  BY RankFacts DEF Sorted
<1>2. Cardinality(S) \in Nat
  BY RankFacts
<1>3. Sorted(S) \in [1 .. Cardinality(S) -> S]
  BY <1>1 DEF Sorted
<1>4. ASSUME NEW m \in S
      PROVE  Rank(S, m) \in 1 .. Cardinality(S) /\ Sorted(S)[Rank(S, m)] = m
  <2>1. PICK i \in 1 .. Cardinality(S) : i = Rank(S, m)
    BY RankFacts
  <2>2. Sorted(S)[i] \in S /\ Rank(S, Sorted(S)[i]) = Rank(S, m)
    BY <1>1, <2>1
  <2>3. Sorted(S)[i] = m
    <3>1. PICK x \in S : x = Sorted(S)[i]
      BY <2>2
    <3>2. Rank(S, x) = Rank(S, m)
      BY <2>2, <3>1
    <3>3. x = m
      BY <3>2, RankFacts
    <3>4. QED
      BY <3>1, <3>3
  <2>4. QED
    BY <2>1, <2>3
<1>5. QED
  BY <1>1, <1>2, <1>3, <1>4

LEMMA SeqIsFun ==
  ASSUME NEW T, NEW a \in Seq(T), NEW n \in Nat, Len(a) = n
  PROVE  a \in [1 .. n -> T]
OBVIOUS

\* The members of a set in the order of their ranks are the sorted set.
LEMMA SortedUnique ==
  ASSUME NEW S \in SUBSET Nat, IsFiniteSet(S),
         NEW q \in [1 .. Cardinality(S) -> S], \A i \in 1 .. Cardinality(S) : Rank(S, q[i]) = i
  PROVE  q = Sorted(S)
<1>1. Sorted(S) \in [1 .. Cardinality(S) -> S]
  BY SortedFacts DEF Sorted
<1>2. ASSUME NEW i \in 1 .. Cardinality(S)
      PROVE  q[i] = Sorted(S)[i]
  <2>1. q[i] \in S /\ Rank(S, q[i]) = i
    OBVIOUS
  <2>2. QED
    BY <2>1, SortedFacts
<1>3. PICK f \in [1 .. Cardinality(S) -> S] : f = Sorted(S)
  BY <1>1
<1>4. \A i \in 1 .. Cardinality(S) : q[i] = f[i]
  BY <1>2, <1>3
<1>5. PICK D : D = 1 .. Cardinality(S)
  OBVIOUS
<1>6. q \in [D -> S] /\ f \in [D -> S] /\ \A i \in D : q[i] = f[i]
  BY <1>4, <1>5
<1>7. q = [i \in D |-> q[i]] /\ f = [i \in D |-> f[i]]
  BY <1>6
<1>8. [i \in D |-> q[i]] = [i \in D |-> f[i]]
  BY <1>6
<1>9. QED
  BY <1>3, <1>7, <1>8

\* A number behind all others.
LEMMA SortedAppend ==
  ASSUME NEW S \in SUBSET Nat, IsFiniteSet(S), NEW m \in Nat, \A n \in S : n < m
  PROVE  Sorted(S \cup {m}) = Append(Sorted(S), m)
<1> DEFINE T == S \cup {m}
           q == Append(Sorted(S), m)
<1>1. m \notin S
  OBVIOUS
<1>2. /\ T \in SUBSET Nat /\ IsFiniteSet(T) /\ Cardinality(T) = Cardinality(S) + 1
      /\ Cardinality(S) \in Nat
  BY <1>1, FS_AddElement, FS_CardinalityType
<1>3. q \in [1 .. Cardinality(T) -> T] /\ q[Cardinality(T)] = m
      /\ \A i \in 1 .. Cardinality(S) : q[i] = Sorted(S)[i]
  <2>1. Sorted(S) \in Seq(T) /\ Len(Sorted(S)) = Cardinality(S) /\ m \in T
    BY SortedFacts
  <2> HIDE DEF T
  <2>2. PICK w \in Seq(T) : w = Sorted(S) /\ Len(w) = Cardinality(S)
    BY <2>1
  <2>3. /\ Append(w, m) \in Seq(T) /\ Len(Append(w, m)) = Len(w) + 1
        /\ Append(w, m)[Len(w) + 1] = m /\ \A i \in 1 .. Len(w) : Append(w, m)[i] = w[i]
    BY <2>1, <2>2
  <2>4. PICK n \in Nat : n = Cardinality(S) /\ Len(w) = n
    BY <1>2, <2>2
  <2>5. /\ Append(w, m) \in [1 .. (n + 1) -> T] /\ Append(w, m)[n + 1] = m
        /\ \A i \in 1 .. n : Append(w, m)[i] = w[i]
    <3>1. n + 1 \in Nat /\ Append(w, m) \in Seq(T) /\ Len(Append(w, m)) = n + 1
      BY <2>3, <2>4
    <3>2. Append(w, m) \in [1 .. (n + 1) -> T]
      BY <3>1, SeqIsFun
    <3>3. QED
      BY <2>3, <2>4, <3>2
  <2>6. Cardinality(T) = n + 1
    BY <1>2, <2>4
  <2>7. QED
    BY <2>2, <2>4, <2>5, <2>6
<1>4. Rank(T, m) = Cardinality(T)
  <2>1. \A k \in T : k <= m
    <3>1. m <= m
      OBVIOUS
    <3>2. \A k \in S : k <= m
      <4>1. \A k \in S : k \in Nat
        OBVIOUS
      <4>2. QED
        BY <4>1
    <3>3. QED
      BY <3>1, <3>2
  <2>2. QED
    BY <2>1 DEF Rank
<1>5. \A n \in S : Rank(T, n) = Rank(S, n)
  <2>1. \A n \in S : {k \in T : k <= n} = {k \in S : k <= n}
    OBVIOUS
  <2>2. QED
    BY <2>1 DEF Rank
<1>6. \A i \in 1 .. Cardinality(T) : Rank(T, q[i]) = i
  <2>1. ASSUME NEW i \in 1 .. Cardinality(T) PROVE Rank(T, q[i]) = i
    <3>1. i = Cardinality(T) \/ i \in 1 .. Cardinality(S)
      BY <1>2
    <3> HIDE DEF q, T
    <3>2. QED
      BY <1>3, <1>4, <1>5, <3>1, SortedFacts
  <2>2. QED
    BY <2>1
<1> HIDE DEF q, T
<1>7. q = Sorted(T)
  BY <1>2, <1>3, <1>6, SortedUnique
<1>8. QED
  BY <1>7 DEF q, T

\* The least number is the first.
LEMMA SortedTail ==
  ASSUME NEW S \in SUBSET Nat, IsFiniteSet(S), NEW m \in S, \A n \in S : m <= n
  PROVE  Sorted(S) # <<>> /\ Head(Sorted(S)) = m /\ Sorted(S \ {m}) = Tail(Sorted(S))
<1> DEFINE T == S \ {m}
           q == Tail(Sorted(S))
<1>1. /\ T \in SUBSET Nat /\ IsFiniteSet(T) /\ Cardinality(T) = Cardinality(S) - 1
      /\ Cardinality(S) \in Nat /\ Cardinality(T) \in Nat
  BY FS_RemoveElement, FS_CardinalityType
<1>2. Rank(S, m) = 1
  <2>1. {k \in S : k <= m} = {m}
    <3>1. m \in Nat /\ \A k \in S : k \in Nat
      OBVIOUS
    <3>2. \A k \in S : k <= m <=> k = m
      BY <3>1
    <3>3. QED
      BY <3>2
  <2>2. QED
    BY <2>1, FS_Singleton DEF Rank
<1>3. /\ Sorted(S) \in Seq(S) /\ Len(Sorted(S)) = Cardinality(S) /\ Cardinality(S) >= 1
      /\ Sorted(S)[1] = m
  BY <1>1, <1>2, SortedFacts
<1>4. \A n \in T : Rank(T, n) = Rank(S, n) - 1
  <2>1. ASSUME NEW n \in T PROVE Rank(T, n) = Rank(S, n) - 1
    <3>1. {k \in T : k <= n} = {k \in S : k <= n} \ {m} /\ m \in {k \in S : k <= n}
      OBVIOUS
    <3>2. IsFiniteSet({k \in S : k <= n})
      <4>1. {k \in S : k <= n} \in SUBSET S
        OBVIOUS
      <4>2. QED
        BY <4>1, FS_Subset
    <3>3. PICK U : U = {k \in S : k <= n}
      OBVIOUS
    <3>4. Cardinality(U \ {m}) = Cardinality(U) - 1
      BY <3>1, <3>2, <3>3, FS_RemoveElement
    <3>5. QED
      BY <3>1, <3>3, <3>4 DEF Rank
  <2>2. QED
    BY <2>1
<1>5. q \in Seq(S) /\ Len(q) = Cardinality(T) /\ \A i \in 1 .. Cardinality(T) : q[i] = Sorted(S)[i + 1]
  <2>1. PICK w \in Seq(S) : w = Sorted(S)
    BY <1>3
  <2>2. Len(w) = Cardinality(S) /\ Len(w) >= 1
    BY <1>3, <2>1
  <2>3. Tail(w) \in Seq(S) /\ Len(Tail(w)) = Len(w) - 1 /\ \A i \in 1 .. (Len(w) - 1) : Tail(w)[i] = w[i + 1]
    BY <2>2
  <2>4. QED
    BY <1>1, <2>1, <2>2, <2>3
<1>6. \A i \in 1 .. Cardinality(T) : q[i] \in T /\ Rank(T, q[i]) = i
  <2>1. ASSUME NEW i \in 1 .. Cardinality(T) PROVE q[i] \in T /\ Rank(T, q[i]) = i
    <3>1. i + 1 \in 1 .. Cardinality(S) /\ i + 1 # 1
      BY <1>1
    <3>2. q[i] \in S /\ Rank(S, q[i]) = i + 1
      BY <1>5, <3>1, SortedFacts
    <3> HIDE DEF q
    <3>3. q[i] \in T
      BY <1>2, <3>1, <3>2
    <3>4. Rank(T, q[i]) = (i + 1) - 1
      BY <1>4, <3>2, <3>3
    <3>5. QED
      BY <3>3, <3>4
  <2>2. QED
    BY <2>1
<1> HIDE DEF q, T
<1>7. q \in [1 .. Cardinality(T) -> T]
  BY <1>1, <1>5, <1>6
<1>8. q = Sorted(T)
  BY <1>1, <1>6, <1>7, SortedUnique
<1>9. Sorted(S) # <<>> /\ Head(Sorted(S)) = m
  BY <1>3
<1>10. QED
  BY <1>8, <1>9 DEF q, T

\* A subset, sorted, is a subsequence.
LEMMA SortedSubset ==
  ASSUME NEW S \in SUBSET Nat, IsFiniteSet(S), NEW T \in SUBSET S
  PROVE  \E n \in 0 .. Len(Sorted(S)) : \E f \in [1 .. n -> 1 .. Len(Sorted(S))] :
           /\ \A i, j \in 1 .. n : i < j => f[i] < f[j]
           /\ Sorted(T) = [i \in 1 .. n |-> Sorted(S)[f[i]]]
<1> DEFINE n == Cardinality(T)
           f == [i \in 1 .. n |-> Rank(S, Sorted(T)[i])]
<1>1. T \in SUBSET Nat /\ IsFiniteSet(T) /\ Cardinality(T) <= Cardinality(S)
  BY FS_Subset
<1>2. n \in Nat /\ n \in 0 .. Len(Sorted(S)) /\ Len(Sorted(S)) = Cardinality(S)
  BY <1>1, SortedFacts
<1>3. ASSUME NEW i \in 1 .. n
      PROVE  /\ Sorted(T)[i] \in T /\ Sorted(T)[i] \in S /\ Rank(T, Sorted(T)[i]) = i
             /\ f[i] \in 1 .. Len(Sorted(S)) /\ Sorted(S)[f[i]] = Sorted(T)[i]
  <2>1. Sorted(T)[i] \in T /\ Rank(T, Sorted(T)[i]) = i
    BY <1>1, SortedFacts
  <2>2. PICK x \in S : x = Sorted(T)[i]
    BY <2>1
  <2>3. Rank(S, x) \in 1 .. Cardinality(S) /\ Sorted(S)[Rank(S, x)] = x
    BY SortedFacts
  <2>4. QED
    BY <1>2, <2>1, <2>2, <2>3
<1>4. f \in [1 .. n -> 1 .. Len(Sorted(S))]
  BY <1>3
<1>5. ASSUME NEW i \in 1 .. n, NEW j \in 1 .. n, i < j
      PROVE  f[i] < f[j]
  <2>1. PICK x \in T, y \in T : /\ x = Sorted(T)[i] /\ Rank(T, x) = i
                                /\ y = Sorted(T)[j] /\ Rank(T, y) = j
    BY <1>3
  <2>2. ~(y < x) /\ x # y
    <3>1. y < x => j < i
      BY <1>1, <2>1, RankFacts
    <3>2. QED
      BY <1>2, <1>5, <2>1, <3>1
  <2>3. x < y /\ x \in S /\ y \in S
    BY <1>1, <2>2
  <2>4. Rank(S, x) < Rank(S, y)
    BY <2>3, RankFacts
  <2>5. QED
    BY <2>1, <2>4
<1>6. Sorted(T) = [i \in 1 .. n |-> Sorted(S)[f[i]]]
  <2>1. Sorted(T) = [i \in 1 .. n |-> Sorted(T)[i]]
    BY DEF Sorted
  <2>2. QED
    BY <1>3, <2>1
<1> HIDE DEF n, f
<1>7. QED
  BY <1>2, <1>4, <1>5, <1>6

-----------------------------------------------------------------------------
(* The channel.                                                             *)

\* The last piece of message m is on its way.
Ending(m) ==
  \E c \in DOMAIN conns : \E j \in 1 .. Len(conns[c].data) :
    conns[c].data[j].msg = m /\ Completes(conns[c].data[j])
Ended == {m \in Msg : Ending(m)}

WayIsEnded == OnTheWay = Ended

LEMMA WayEnded == TypeOK => WayIsEnded
<1> SUFFICES ASSUME TypeOK PROVE OnTheWay = Ended
  BY DEF WayIsEnded
<1>1. \A c \in DOMAIN conns : DOMAIN conns[c].data = 1 .. Len(conns[c].data)
  BY ConnTyped
<1>2. \A m \in Msg : m \in OnTheWay <=> m \in Ended
  BY <1>1 DEF OnTheWay, Ended, Ending, Completes
<1>3. QED
  BY <1>2 DEF OnTheWay, Ended

LEMMA WayFinite == OnTheWay \in SUBSET Msg /\ OnTheWay \in SUBSET Nat /\ IsFiniteSet(OnTheWay)
<1>1. OnTheWay \in SUBSET Msg
  BY DEF OnTheWay
<1>2. IsFiniteSet(Msg) /\ Msg \in SUBSET Nat
  BY HtcpAssumption, FS_Interval DEF Msg
<1>3. QED
  BY <1>1, <1>2, FS_Subset

\* When no new piece is on its way, messages are lost at most.
LEMMA WayShrinks ==
  ASSUME TypeOK, TypeOK', link' = link,
         \A c \in DOMAIN conns' : \A j \in 1 .. Len(conns'[c].data) :
           conns'[c].data[j].cut
           \/ (c \in DOMAIN conns /\ \E i \in 1 .. Len(conns[c].data) : conns'[c].data[j] = conns[c].data[i])
  PROVE  OnTheWay' \in SUBSET OnTheWay
<1>1. OnTheWay = Ended /\ OnTheWay' = Ended'
  <2>1. WayIsEnded /\ WayIsEnded'
    BY WayEnded, PTL
  <2>2. QED
    BY <2>1 DEF WayIsEnded
<1>2. Pieces' = Pieces
  BY SameLink
<1>3. ASSUME NEW m \in Ended'
      PROVE  m \in Ended
  <2>1. m \in Msg /\ Ending(m)'
    BY <1>3 DEF Ended
  <2>2. PICK c \in DOMAIN conns' : \E j \in 1 .. Len(conns'[c].data) :
          conns'[c].data[j].msg = m /\ ~conns'[c].data[j].cut /\ conns'[c].data[j].i = Pieces
    BY <1>2, <2>1 DEF Ending, Completes
  <2>3. PICK j \in 1 .. Len(conns'[c].data) :
          conns'[c].data[j].msg = m /\ ~conns'[c].data[j].cut /\ conns'[c].data[j].i = Pieces
    BY <2>2
  <2>4. c \in DOMAIN conns /\ \E i \in 1 .. Len(conns[c].data) : conns'[c].data[j] = conns[c].data[i]
    BY <2>3
  <2>5. Ending(m)
    BY <2>3, <2>4 DEF Ending, Completes
  <2>6. QED
    BY <2>1, <2>5 DEF Ended
<1>4. QED
  BY <1>1, <1>3

\* When every piece stays, all messages stay.
LEMMA WayStays ==
  ASSUME TypeOK, TypeOK', link' = link, DOMAIN conns \subseteq DOMAIN conns',
         \A c \in DOMAIN conns : conns'[c].data = conns[c].data
  PROVE  OnTheWay \in SUBSET OnTheWay'
<1>1. OnTheWay = Ended /\ OnTheWay' = Ended'
  <2>1. WayIsEnded /\ WayIsEnded'
    BY WayEnded, PTL
  <2>2. QED
    BY <2>1 DEF WayIsEnded
<1>2. Pieces' = Pieces
  BY SameLink
<1>3. ASSUME NEW m \in Ended
      PROVE  m \in Ended'
  <2>1. PICK c \in DOMAIN conns : \E j \in 1 .. Len(conns[c].data) :
          conns[c].data[j].msg = m /\ Completes(conns[c].data[j])
    BY <1>3 DEF Ended, Ending
  <2>2. Ending(m)'
    BY <1>2, <2>1 DEF Ending, Completes
  <2>3. QED
    BY <1>3, <2>2 DEF Ended
<1>4. QED
  BY <1>1, <1>3

\* The connections as they are, and perhaps new ones.
LEMMA WaySame ==
  ASSUME TypeOK, TypeOK', link' = link, DOMAIN conns \subseteq DOMAIN conns',
         \A c \in DOMAIN conns : conns'[c].data = conns[c].data,
         \A c \in DOMAIN conns' \ DOMAIN conns : conns'[c].data = <<>>
  PROVE  OnTheWay' = OnTheWay
<1>1. \A c \in DOMAIN conns' : \A j \in 1 .. Len(conns'[c].data) :
        conns'[c].data[j].cut
        \/ (c \in DOMAIN conns /\ \E i \in 1 .. Len(conns[c].data) : conns'[c].data[j] = conns[c].data[i])
  <2>1. Len(<<>>) = 0
    OBVIOUS
  <2>2. QED
    BY <2>1
<1>2. QED
  BY <1>1, WayShrinks, WayStays

\* What the abstract channel does.
LEMMA Loses ==
  ASSUME OnTheWay' \in SUBSET OnTheWay, Sent' = Sent, Received' = Received
  PROVE  Channel!Next
<1>1. \E n \in 0 .. Len(Sorted(OnTheWay)) : \E f \in [1 .. n -> 1 .. Len(Sorted(OnTheWay))] :
        /\ \A i, j \in 1 .. n : i < j => f[i] < f[j]
        /\ Sorted(OnTheWay') = [i \in 1 .. n |-> Sorted(OnTheWay)[f[i]]]
  BY WayFinite, SortedSubset
<1>2. Queue' = Sorted(OnTheWay')
  BY DEF Queue, Sorted, Rank
<1>3. Channel!Lose
  BY <1>1, <1>2 DEF Channel!Lose, Queue
<1>4. QED
  BY <1>3 DEF Channel!Next

LEMMA Stutters ==
  ASSUME OnTheWay' = OnTheWay, Sent' = Sent, Received' = Received
  PROVE  UNCHANGED Channel!vars
  BY DEF Channel!vars, Queue, Sorted, Rank

LEMMA Sends ==
  ASSUME NEW m \in Msg, m \notin Sent, Sent' = Sent \cup {m}, Received' = Received,
         OnTheWay' = OnTheWay \/ (OnTheWay' = OnTheWay \cup {m} /\ \A n \in OnTheWay : n < m)
  PROVE  Channel!Next
<1>1. Queue' = Queue \/ Queue' = Append(Queue, m)
  <2>1. CASE OnTheWay' = OnTheWay
    BY <2>1 DEF Queue, Sorted, Rank
  <2>2. CASE OnTheWay' = OnTheWay \cup {m} /\ \A n \in OnTheWay : n < m
    <3>1. m \in Nat
      BY HtcpAssumption DEF Msg
    <3>2. Sorted(OnTheWay \cup {m}) = Append(Sorted(OnTheWay), m)
      BY <2>2, <3>1, WayFinite, SortedAppend
    <3>3. QED
      BY <2>2, <3>2 DEF Queue, Sorted, Rank
  <2>3. QED
    BY <2>1, <2>2
<1>2. Channel!Send(m)
  BY <1>1 DEF Channel!Send
<1>3. QED
  BY <1>2 DEF Channel!Next

LEMMA Receives ==
  ASSUME NEW m \in OnTheWay, \A n \in OnTheWay : m <= n, OnTheWay' = OnTheWay \ {m},
         Sent' = Sent, Received' = Append(Received, m)
  PROVE  Channel!Next
<1>1. /\ Sorted(OnTheWay) # <<>> /\ Head(Sorted(OnTheWay)) = m
      /\ Sorted(OnTheWay \ {m}) = Tail(Sorted(OnTheWay))
  BY WayFinite, SortedTail
<1>2. Queue # <<>> /\ Head(Queue) = m /\ Queue' = Tail(Queue)
  BY <1>1 DEF Queue, Sorted, Rank
<1>3. Channel!Receive
  BY <1>2 DEF Channel!Receive
<1>4. QED
  BY <1>3 DEF Channel!Next

\* What was sent, and what was received.
LEMMA SentSame ==
  ASSUME begun' = begun, \A t \in SThread : smsg'[t] = smsg[t]
  PROVE  Sent' = Sent
  BY DEF Sent

LEMMA ReceivedSame ==
  ASSUME got' = got, link' = link
  PROVE  Received' = Received
  BY DEF Received

\* Of the steps that send.
LEMMA MapsSendBegin ==
  ASSUME IInv, IInv', NEW t \in SThread, SendBegin(t)
  PROVE  UNCHANGED Channel!vars
<1>1. /\ TypeOK /\ TypeOK' /\ Alone /\ begun \in Nat
  BY MsgTyped DEF IInv
<1>2. /\ link' = link /\ conns' = conns /\ got' = got /\ begun' = begun + 1
      /\ smsg' = [smsg EXCEPT ![t] = begun + 1] /\ \A u \in SThread : spc[u] = "idle"
  BY DEF SendBegin, SendFree
<1>3. \A u \in SThread : smsg[u] = 0 /\ smsg'[u] = IF u = t THEN begun + 1 ELSE 0
  BY <1>1, <1>2 DEF Alone, TypeOK
<1>4. Sent' = Sent
  <2>1. Sent' = {m \in 1 .. (begun + 1) : \A u \in SThread : smsg'[u] # m}
    BY <1>2 DEF Sent
  <2>2. \A m : m \in {k \in 1 .. (begun + 1) : \A u \in SThread : smsg'[u] # k} <=> m \in 1 .. begun
    <3>1. \A m \in 1 .. begun : m \in 1 .. (begun + 1) /\ m # begun + 1 /\ m # 0
      BY <1>1
    <3>2. \A m \in 1 .. (begun + 1) : m # begun + 1 => m \in 1 .. begun
      BY <1>1
    <3>3. QED
      BY <1>3, <3>1, <3>2
  <2>3. \A m : m \in Sent <=> m \in 1 .. begun
    <3>1. \A m \in 1 .. begun : m # 0
      BY <1>1
    <3>2. QED
      BY <1>3, <3>1 DEF Sent
  <2>4. QED
    BY <2>1, <2>2, <2>3
<1>5. OnTheWay' = OnTheWay
  BY <1>1, <1>2, WaySame
<1>6. QED
  BY <1>2, <1>4, <1>5, ReceivedSame, Stutters

\* The message of a thread is sent when it has it no more.
LEMMA SentGrows ==
  ASSUME TypeOK, Alone, NEW t \in SThread, spc[t] # "idle", begun' = begun,
         \A u \in SThread : u # t => smsg'[u] = smsg[u] \/ smsg'[u] = 0, smsg'[t] = 0
  PROVE  begun \in Msg /\ begun \notin Sent /\ Sent' = Sent \cup {begun}
<1>1. smsg[t] = begun /\ begun \in Nat /\ begun # 0 /\ begun \in Msg
  BY HtcpAssumption DEF Alone, TypeOK, Msg
<1>2. \A u \in SThread : u # t => smsg[u] = 0 /\ smsg'[u] = 0
  BY DEF Alone
<1>3. begun \notin Sent
  BY <1>1 DEF Sent
<1>4. \A m : m \in Sent' <=> m \in 1 .. begun
  <2>1. \A m \in 1 .. begun : m # 0
    BY <1>1
  <2>2. QED
    BY <1>2, <2>1 DEF Sent
<1>5. \A m : m \in Sent <=> m \in 1 .. begun /\ m # begun
  <2>1. \A m \in 1 .. begun : m # 0
    BY <1>1
  <2>2. QED
    BY <1>1, <1>2, <2>1 DEF Sent
<1>6. begun \in 1 .. begun
  BY <1>1
<1>7. QED
  BY <1>1, <1>3, <1>4, <1>5, <1>6

LEMMA MapsSendPiece ==
  ASSUME IInv, IInv', NEW t \in SThread, SendPiece(t)
  PROVE  Channel!Next \/ UNCHANGED Channel!vars
<1> DEFINE p == NextPiece(t)
<1>1. PICK c : c = sock["snd"]
  OBVIOUS
<1>2. TypeOK /\ TypeOK' /\ Alone /\ Order
  BY DEF IInv
<1>3. /\ c \in DOMAIN conns /\ spc[t] = "send"
      /\ got' = got /\ begun' = begun /\ link' = link
  BY <1>1, <1>2, SendPieceFacts
<1>4. /\ p \in PieceType /\ p.msg = begun /\ p.i = spos[t] + 1 /\ ~p.cut
  BY <1>2, <1>3, NextTyped
<1>5. \/ ~Reachable(c) /\ conns' = conns
      \/ /\ DOMAIN conns' = DOMAIN conns
         /\ \A b \in DOMAIN conns : b # c => conns'[b].data = conns[b].data
         /\ Len(conns'[c].data) = Len(conns[c].data) + 1
         /\ \A j \in 1 .. Len(conns[c].data) : conns'[c].data[j] = conns[c].data[j]
         /\ conns'[c].data[Len(conns[c].data) + 1] = p
  BY <1>1, <1>2, SendPieceFacts
<1>6. Pieces' = Pieces /\ Len(conns[c].data) \in Nat
  BY <1>2, <1>3, SameLink, ConnTyped
\* The pieces on the way are the old ones and, perhaps, this one.
<1>7. \A m \in Msg : Ending(m)' <=> Ending(m) \/ (Ending(m)' /\ m = begun /\ spos[t] + 1 = Pieces)
  <2> SUFFICES ASSUME NEW m \in Msg
               PROVE  /\ Ending(m)' /\ ~(m = begun /\ spos[t] + 1 = Pieces) => Ending(m)
                      /\ Ending(m) => Ending(m)'
    OBVIOUS
  <2>1. CASE conns' = conns
    BY <1>6, <2>1 DEF Ending, Completes
  <2>2. CASE /\ DOMAIN conns' = DOMAIN conns
             /\ \A b \in DOMAIN conns : b # c => conns'[b].data = conns[b].data
             /\ Len(conns'[c].data) = Len(conns[c].data) + 1
             /\ \A j \in 1 .. Len(conns[c].data) : conns'[c].data[j] = conns[c].data[j]
             /\ conns'[c].data[Len(conns[c].data) + 1] = p
    <3>1. ASSUME Ending(m) PROVE Ending(m)'
      <4>1. PICK b \in DOMAIN conns : \E j \in 1 .. Len(conns[b].data) :
              conns[b].data[j].msg = m /\ Completes(conns[b].data[j])
        BY <3>1 DEF Ending
      <4>2. PICK j \in 1 .. Len(conns[b].data) :
              conns[b].data[j].msg = m /\ Completes(conns[b].data[j])
        BY <4>1
      <4>3. j \in 1 .. Len(conns'[b].data) /\ conns'[b].data[j] = conns[b].data[j]
        BY <1>6, <2>2
      <4>4. QED
        BY <1>6, <2>2, <4>2, <4>3 DEF Ending, Completes
    <3>2. ASSUME Ending(m)', ~(m = begun /\ spos[t] + 1 = Pieces) PROVE Ending(m)
      <4>1. PICK b \in DOMAIN conns : \E j \in 1 .. Len(conns'[b].data) :
              conns'[b].data[j].msg = m /\ Completes(conns'[b].data[j])
        BY <1>6, <2>2, <3>2 DEF Ending, Completes
      <4>2. PICK j \in 1 .. Len(conns'[b].data) :
              conns'[b].data[j].msg = m /\ Completes(conns'[b].data[j])
        BY <4>1
      <4>3. ~(b = c /\ j = Len(conns[c].data) + 1)
        BY <1>4, <2>2, <3>2, <4>2 DEF Completes
      <4>4. j \in 1 .. Len(conns[b].data) /\ conns'[b].data[j] = conns[b].data[j]
        <5>1. \A n \in Nat : \A k \in 1 .. (n + 1) : k \in 1 .. n \/ k = n + 1
          OBVIOUS
        <5>2. QED
          BY <1>6, <2>2, <4>3, <5>1
      <4>5. QED
        BY <4>2, <4>4 DEF Ending
    <3>3. QED
      BY <3>1, <3>2
  <2>3. QED
    BY <1>5, <2>1, <2>2
<1>8. OnTheWay = Ended /\ OnTheWay' = Ended'
  <2>1. WayIsEnded /\ WayIsEnded'
    BY <1>2, WayEnded, PTL
  <2>2. QED
    BY <2>1 DEF WayIsEnded
<1>9. CASE spos[t] + 1 # Pieces
  <2>1. Ended' = Ended
    BY <1>7, <1>9 DEF Ended
  <2>2. \A u \in SThread : smsg'[u] = smsg[u]
    BY <1>1, <1>2, <1>9, SendPieceFacts
  <2>3. QED
    BY <1>3, <1>8, <2>1, <2>2, SentSame, ReceivedSame, Stutters
<1>10. CASE spos[t] + 1 = Pieces
  <2>1. smsg'[t] = 0 /\ \A u \in SThread : u # t => smsg'[u] = smsg[u]
    BY <1>2, <1>10 DEF SendPiece, TypeOK
  <2>2. begun \in Msg /\ begun \notin Sent /\ Sent' = Sent \cup {begun}
    BY <1>2, <1>3, <2>1, SentGrows
  <2>3. \A n \in OnTheWay : n < begun
    <3>1. \A n \in Ended : n < begun
      BY <1>2, <1>3 DEF Order, Ended, Ending
    <3>2. QED
      BY <1>8, <3>1
  <2>4. OnTheWay' = OnTheWay \/ OnTheWay' = OnTheWay \cup {begun}
    <3>1. \A m \in Msg : m # begun => (m \in Ended' <=> m \in Ended)
      BY <1>7 DEF Ended
    <3>2. \A m : m \in Ended \/ m \in Ended' => m \in Msg
      BY DEF Ended
    <3>3. begun \notin Ended
      BY <1>8, <2>2, <2>3 DEF Msg
    <3>4. QED
      BY <1>8, <2>2, <3>1, <3>2, <3>3
  <2>5. QED
    BY <1>3, <2>2, <2>3, <2>4, ReceivedSame, Sends
<1>11. QED
  BY <1>9, <1>10

LEMMA MapsSendError ==
  ASSUME IInv, IInv', NEW t \in SThread, SendError(t)
  PROVE  UNCHANGED Channel!vars
<1>1. TypeOK /\ TypeOK'
  BY DEF IInv
<1>2. /\ link' = link /\ begun' = begun /\ got' = got /\ smsg' = smsg /\ Close("snd") /\ "snd" \in End
  BY DEF SendError, End
<1>3. DOMAIN conns' = DOMAIN conns /\ \A c \in DOMAIN conns : conns'[c].data = conns[c].data
  BY <1>1, <1>2, ClosedFacts DEF Close
<1>4. OnTheWay' = OnTheWay
  BY <1>1, <1>2, <1>3, WaySame
<1>5. QED
  BY <1>2, <1>4, SentSame, ReceivedSame, Stutters

\* Of reopening, at either end.
LEMMA MapsReopen ==
  ASSUME IInv, IInv', NEW e \in End, Reopen(e),
         link' = link, begun' = begun, got' = got, smsg' = smsg
  PROVE  UNCHANGED Channel!vars
<1>1. TypeOK /\ TypeOK'
  BY DEF IInv
<1>2. /\ DOMAIN conns \subseteq DOMAIN conns'
      /\ \A c \in DOMAIN conns : conns'[c].data = conns[c].data
      /\ \A c \in DOMAIN conns' \ DOMAIN conns : conns'[c].data = <<>>
  <2>1. DOMAIN conns = 1 .. Len(conns) /\ Len(conns) \in Nat
    BY <1>1, ConnTyped
  <2>2. QED
    BY <1>1, <2>1, ReopenFacts DEF NewConn
<1>3. OnTheWay' = OnTheWay
  BY <1>1, <1>2, WaySame
<1>4. QED
  BY <1>3, SentSame, ReceivedSame, Stutters

\* Of the steps that receive.
LEMMA MapsRecvPiece ==
  ASSUME IInv, IInv', NEW r \in RThread, RecvPiece(r)
  PROVE  Channel!Next \/ UNCHANGED Channel!vars
<1>1. PICK c : c = sock["rcv"]
  OBVIOUS
<1>2. PICK p : p = conns[c].data[1]
  OBVIOUS
<1> DEFINE n == Len(conns[c].data)
           m == Len(rbuf[r])
           buf == Append(rbuf[r], p)
<1>3. TypeOK /\ TypeOK' /\ Alone /\ Streams
  BY DEF IInv
<1>4. /\ c \in DOMAIN conns /\ rpc[r] = "recv" /\ n > 0 /\ ~p.cut /\ p \in PieceType
      /\ begun' = begun /\ link' = link /\ smsg' = smsg
      /\ DOMAIN conns' = DOMAIN conns
  BY <1>1, <1>2, <1>3, RecvPieceFacts
<1>5. /\ \A b \in DOMAIN conns : b # c => conns'[b].data = conns[b].data
      /\ Len(conns'[c].data) = n - 1
      /\ \A j \in 1 .. Len(conns'[c].data) : conns'[c].data[j] = conns[c].data[j + 1]
  BY <1>1, <1>2, <1>3, RecvPieceFacts, SMTT(30)
<1>6. \/ m + 1 = Pieces /\ got' = Append(got, PartsOf(buf))
      \/ m + 1 # Pieces /\ got' = got
  BY <1>1, <1>2, <1>3, RecvPieceFacts
<1>7. buf \in Seq(PieceType)
  BY <1>1, <1>2, <1>3, RecvPieceFacts
<1>8. p.i = m + 1 /\ \A j \in 1 .. m : rbuf[r][j].msg = p.msg
  BY <1>1, <1>2, <1>3, <1>4, HeadFits
<1>9. n \in Nat /\ m \in Nat /\ rbuf[r] \in Seq(PieceType) /\ Pieces' = Pieces
  BY <1>3, <1>4, ConnTyped, SameLink
<1>10. Sent' = Sent
  BY <1>4, SentSame
\* The pieces are the old ones but one.
<1>11. \A x \in Msg : /\ Ending(x)' => Ending(x)
                      /\ Ending(x) => Ending(x)' \/ (x = p.msg /\ Completes(p))
  <2> SUFFICES ASSUME NEW x \in Msg
               PROVE  /\ Ending(x)' => Ending(x)
                      /\ Ending(x) => Ending(x)' \/ (x = p.msg /\ Completes(p))
    OBVIOUS
  <2>1. ASSUME Ending(x)' PROVE Ending(x)
    <3>1. PICK b \in DOMAIN conns : \E j \in 1 .. Len(conns'[b].data) :
            conns'[b].data[j].msg = x /\ Completes(conns'[b].data[j])
      BY <1>4, <1>9, <2>1 DEF Ending, Completes
    <3>2. PICK j \in 1 .. Len(conns'[b].data) :
            conns'[b].data[j].msg = x /\ Completes(conns'[b].data[j])
      BY <3>1
    <3>3. \E i \in 1 .. Len(conns[b].data) : conns'[b].data[j] = conns[b].data[i]
      <4>1. CASE b # c
        BY <1>5, <4>1
      <4>2. CASE b = c
        <5>1. j + 1 \in 1 .. n
          BY <1>5, <1>9, <4>2
        <5>2. QED
          BY <1>5, <4>2, <5>1
      <4>3. QED
        BY <4>1, <4>2
    <3>4. QED
      BY <3>2, <3>3 DEF Ending
  <2>2. ASSUME Ending(x), ~(x = p.msg /\ Completes(p)) PROVE Ending(x)'
    <3>1. PICK b \in DOMAIN conns : \E j \in 1 .. Len(conns[b].data) :
            conns[b].data[j].msg = x /\ Completes(conns[b].data[j])
      BY <2>2 DEF Ending
    <3>2. PICK j \in 1 .. Len(conns[b].data) :
            conns[b].data[j].msg = x /\ Completes(conns[b].data[j])
      BY <3>1
    <3>3. ~(b = c /\ j = 1)
      BY <1>2, <2>2, <3>2
    <3>4. \E i \in 1 .. Len(conns'[b].data) : conns'[b].data[i] = conns[b].data[j]
      <4>1. CASE b # c
        BY <1>5, <4>1
      <4>2. CASE b = c
        <5>1. j - 1 \in 1 .. (n - 1) /\ (j - 1) + 1 = j
          BY <1>9, <3>3, <4>2
        <5>2. QED
          BY <1>5, <4>2, <5>1
      <4>3. QED
        BY <4>1, <4>2
    <3>5. QED
      BY <1>4, <1>9, <3>2, <3>4 DEF Ending, Completes
  <2>3. QED
    BY <2>1, <2>2
<1>12. OnTheWay = Ended /\ OnTheWay' = Ended'
  <2>1. WayIsEnded /\ WayIsEnded'
    BY <1>3, WayEnded, PTL
  <2>2. QED
    BY <2>1 DEF WayIsEnded
<1>13. CASE m + 1 # Pieces
  <2>1. ~Completes(p)
    BY <1>8, <1>13 DEF Completes
  <2>2. Ended' = Ended
    BY <1>11, <2>1 DEF Ended
  <2>3. QED
    BY <1>4, <1>6, <1>10, <1>12, <1>13, <2>2, ReceivedSame, Stutters
<1>14. CASE m + 1 = Pieces
  <2>1. Completes(p) /\ p.msg \in Msg
    BY <1>4, <1>8, <1>14 DEF Completes, PieceType
  <2>2. p.msg \in Ended
    <3>1. 1 \in 1 .. n
      BY <1>4, <1>9
    <3>2. Ending(p.msg)
      BY <1>2, <1>4, <2>1, <3>1 DEF Ending
    <3>3. QED
      BY <2>1, <3>2 DEF Ended
  <2>3. /\ \A x \in 1 .. link.parts : PartsOf(buf)[x] = p.msg
        /\ PartsOf(buf) \in [1 .. link.parts -> Msg] /\ 1 \in 1 .. link.parts
    <3>1. Len(buf) = m + 1 /\ \A j \in 1 .. (m + 1) : buf[j].msg = p.msg
      <4>1. Len(buf) = m + 1 /\ buf[m + 1] = p /\ \A j \in 1 .. m : buf[j] = rbuf[r][j]
        BY <1>4, <1>9, AppendProperties
      <4>2. \A x \in Nat : \A j \in 1 .. (x + 1) : j \in 1 .. x \/ j = x + 1
        OBVIOUS
      <4>3. QED
        BY <1>8, <1>9, <4>1, <4>2
    <3>2. /\ PartsOf(buf) \in [1 .. link.parts -> Msg]
          /\ \A x \in 1 .. link.parts : PartsOf(buf)[x] = buf[2 * x].msg /\ 2 * x \in 1 .. Len(buf)
      BY <1>3, <1>7, <1>14, <3>1, PartsTyped
    <3>3. 1 \in 1 .. link.parts
      BY <1>3, Basics
    <3>4. QED
      BY <3>1, <3>2, <3>3
  <2>4. /\ got \in Seq([1 .. link.parts -> Msg]) /\ Len(got) \in Nat /\ DOMAIN got = 1 .. Len(got)
        /\ DOMAIN got' = 1 .. (Len(got) + 1)
        /\ \A g \in 1 .. Len(got) : got'[g] = got[g]
        /\ got'[Len(got) + 1] = PartsOf(buf)
    <3>1. got \in Seq([1 .. link.parts -> Msg])
      BY <1>3 DEF TypeOK
    <3>2. got' = Append(got, PartsOf(buf))
      BY <1>6, <1>14
    <3>3. QED
      BY <2>3, <3>1, <3>2, AppendProperties
  \* What is still on the way is later than this message.
  <2>5. \A x \in Ended' : p.msg < x
    <3>1. got'[Len(got) + 1][1] = p.msg /\ Len(got) + 1 \in DOMAIN got'
      BY <2>3, <2>4
    <3>2. ASSUME NEW x \in Ended'
          PROVE  p.msg < x
      <4>1. PICK b \in DOMAIN conns' : \E j \in 1 .. Len(conns'[b].data) : conns'[b].data[j].msg = x
        BY <3>2 DEF Ended, Ending
      <4>2. QED
        BY <3>1, <4>1 DEF IInv, Order
    <3>3. QED
      BY <3>2
  <2>6. \A x \in Ended : p.msg <= x
    <3>1. \A x \in Ended : x \in Ended' \/ x = p.msg
      BY <1>11 DEF Ended
    <3>2. p.msg \in Nat /\ \A x \in Ended : x \in Nat
      BY <2>1 DEF Ended, Msg
    <3>3. QED
      BY <2>5, <3>1, <3>2
  <2>7. Ended' = Ended \ {p.msg}
    <3>1. \A x : x \in Ended' => x \in Ended
      BY <1>11 DEF Ended
    <3>2. \A x : x \in Ended /\ x # p.msg => x \in Ended'
      BY <1>11 DEF Ended
    <3>3. p.msg \notin Ended'
      BY <2>1, <2>5 DEF Msg
    <3>4. QED
      BY <3>1, <3>2, <3>3
  <2>8. Received' = Append(Received, p.msg)
    <3> DEFINE Of(g) == IF \A x \in 1 .. link.parts : g[x] = g[1] THEN g[1] ELSE 0
    <3>1. Received = [k \in 1 .. Len(got) |-> Of(got[k])]
      BY <2>4 DEF Received
    <3>2. Received' = [k \in 1 .. (Len(got) + 1) |-> Of(got'[k])]
      BY <1>4, <2>4 DEF Received
    <3>3. Of(PartsOf(buf)) = p.msg
      BY <2>3
    <3> HIDE DEF Of
    <3>4. Received' = [k \in 1 .. (Len(got) + 1) |-> IF k = Len(got) + 1 THEN p.msg ELSE Of(got[k])]
      <4>1. \A k \in 1 .. (Len(got) + 1) : k \in 1 .. Len(got) \/ k = Len(got) + 1
        BY <2>4
      <4>2. QED
        BY <2>4, <3>2, <3>3, <4>1
    <3>5. Len(Received) = Len(got)
      BY <2>4, <3>1
    <3>6. Append(Received, p.msg) =
            [k \in 1 .. (Len(got) + 1) |-> IF k = Len(got) + 1 THEN p.msg ELSE Received[k]]
      BY <2>4, <3>1, <3>5
    <3>7. QED
      BY <2>4, <3>1, <3>4, <3>6
  <2>9. QED
    BY <1>10, <1>12, <2>2, <2>6, <2>7, <2>8, Receives
<1>15. QED
  BY <1>13, <1>14

LEMMA MapsRecvError ==
  ASSUME IInv, IInv', NEW r \in RThread, RecvError(r)
  PROVE  Channel!Next
<1>1. TypeOK /\ TypeOK'
  BY DEF IInv
<1>2. /\ link' = link /\ begun' = begun /\ got' = got /\ smsg' = smsg /\ Close("rcv") /\ "rcv" \in End
  BY DEF RecvError, End
<1>3. /\ DOMAIN conns' = DOMAIN conns
      /\ \A c \in DOMAIN conns : conns'[c].data = conns[c].data \/ conns'[c].data = <<>>
  BY <1>1, <1>2, ClosedFacts DEF Close
<1>4. \A c \in DOMAIN conns' : \A j \in 1 .. Len(conns'[c].data) :
        conns'[c].data[j].cut
        \/ (c \in DOMAIN conns /\ \E i \in 1 .. Len(conns[c].data) : conns'[c].data[j] = conns[c].data[i])
  <2>1. Len(<<>>) = 0
    OBVIOUS
  <2>2. QED
    BY <1>3, <2>1
<1>5. OnTheWay' \in SUBSET OnTheWay
  BY <1>1, <1>2, <1>4, WayShrinks
<1>6. QED
  BY <1>2, <1>5, SentSame, ReceivedSame, Loses

LEMMA MapsBreak ==
  ASSUME IInv, IInv', NEW c \in DOMAIN conns, Break(c)
  PROVE  Channel!Next
<1>1. TypeOK /\ TypeOK' /\ Alone /\ Streams
  BY DEF IInv
<1>2. PICK d : d = conns'[c].data
  OBVIOUS
<1>3. /\ Len(d) \in Nat
      /\ \A j \in 1 .. Len(d) : j # Len(d) => j \in 1 .. Len(conns[c].data) /\ d[j] = conns[c].data[j]
      /\ Len(d) > 0 => d[Len(d)].cut
           \/ (Len(d) \in 1 .. Len(conns[c].data) /\ d[Len(d)] = conns[c].data[Len(d)])
  BY <1>1, <1>2, BreakLeaves
<1>4. /\ link' = link /\ begun' = begun /\ got' = got /\ smsg' = smsg
      /\ DOMAIN conns' = DOMAIN conns /\ \A b \in DOMAIN conns : b # c => conns'[b].data = conns[b].data
  BY <1>1, BreakStep
<1>5. \A b \in DOMAIN conns' : \A j \in 1 .. Len(conns'[b].data) :
        conns'[b].data[j].cut
        \/ (b \in DOMAIN conns /\ \E i \in 1 .. Len(conns[b].data) : conns'[b].data[j] = conns[b].data[i])
  <2>1. \A j \in 1 .. Len(d) : d[j].cut \/ \E i \in 1 .. Len(conns[c].data) : d[j] = conns[c].data[i]
    <3>1. ASSUME NEW j \in 1 .. Len(d)
          PROVE  d[j].cut \/ \E i \in 1 .. Len(conns[c].data) : d[j] = conns[c].data[i]
      <4>1. CASE j # Len(d)
        BY <1>3, <4>1
      <4>2. CASE j = Len(d)
        BY <1>3, <4>2
      <4>3. QED
        BY <4>1, <4>2
    <3>2. QED
      BY <3>1
  <2>2. \A j \in 1 .. Len(conns'[c].data) :
          conns'[c].data[j].cut \/ \E i \in 1 .. Len(conns[c].data) : conns'[c].data[j] = conns[c].data[i]
    BY <1>2, <2>1
  <2>3. \A b \in DOMAIN conns : b # c =>
          \A j \in 1 .. Len(conns'[b].data) : conns'[b].data[j] = conns[b].data[j] /\ j \in 1 .. Len(conns[b].data)
    BY <1>4
  <2>4. ASSUME NEW b \in DOMAIN conns', NEW j \in 1 .. Len(conns'[b].data)
        PROVE  conns'[b].data[j].cut
               \/ (b \in DOMAIN conns /\ \E i \in 1 .. Len(conns[b].data) : conns'[b].data[j] = conns[b].data[i])
    <3>1. b \in DOMAIN conns
      BY <1>4
    <3>2. CASE b = c
      BY <2>2, <3>1, <3>2
    <3>3. CASE b # c
      BY <2>3, <3>1, <3>3
    <3>4. QED
      BY <3>2, <3>3
  <2>5. QED
    BY <2>4, Zenon
<1>6. OnTheWay' \in SUBSET OnTheWay
  BY <1>1, <1>4, <1>5, WayShrinks
<1>7. QED
  BY <1>4, <1>6, SentSame, ReceivedSame, Loses

\* Of the deaths.
LEMMA MapsSenderDeath ==
  ASSUME IInv, IInv', SenderDeath
  PROVE  Channel!Next \/ UNCHANGED Channel!vars
<1>1. TypeOK /\ TypeOK' /\ Alone
  BY DEF IInv
<1>2. /\ link' = link /\ begun' = begun /\ got' = got /\ Death("snd") /\ "snd" \in End
      /\ \A t \in SThread : smsg'[t] = 0
  BY DEF SenderDeath, End
<1>3. DOMAIN conns' = DOMAIN conns /\ \A c \in DOMAIN conns : conns'[c].data = conns[c].data
  BY <1>1, <1>2, DeathFacts
<1>4. OnTheWay' = OnTheWay
  BY <1>1, <1>2, <1>3, WaySame
<1>5. CASE \A t \in SThread : spc[t] = "idle"
  <2>1. \A t \in SThread : smsg'[t] = smsg[t]
    BY <1>1, <1>2, <1>5 DEF Alone
  <2>2. QED
    BY <1>2, <1>4, <2>1, SentSame, ReceivedSame, Stutters
<1>6. CASE \E t \in SThread : spc[t] # "idle"
  <2>1. PICK t \in SThread : spc[t] # "idle"
    BY <1>6
  <2>2. begun \in Msg /\ begun \notin Sent /\ Sent' = Sent \cup {begun}
    BY <1>1, <1>2, <2>1, SentGrows
  <2>3. QED
    BY <1>2, <1>4, <2>2, ReceivedSame, Sends
<1>7. QED
  BY <1>5, <1>6

LEMMA MapsReceiverDeath ==
  ASSUME IInv, IInv', ReceiverDeath
  PROVE  Channel!Next
<1>1. TypeOK /\ TypeOK'
  BY DEF IInv
<1>2. /\ link' = link /\ begun' = begun /\ got' = got /\ smsg' = smsg /\ Death("rcv") /\ "rcv" \in End
  BY DEF ReceiverDeath, End
<1>3. DOMAIN conns' = DOMAIN conns /\ \A c \in DOMAIN conns : conns'[c].data = <<>>
  BY <1>1, <1>2, DeathFacts
<1>4. OnTheWay' \in SUBSET OnTheWay
  <2>1. Len(<<>>) = 0
    OBVIOUS
  <2>2. \A c \in DOMAIN conns' : 1 .. Len(conns'[c].data) = {}
    BY <1>3, <2>1
  <2>3. QED
    BY <1>1, <1>2, <2>2, WayShrinks
<1>5. QED
  BY <1>2, <1>4, SentSame, ReceivedSame, Loses

LEMMA MapsInit == Init => Channel!Init
<1> SUFFICES ASSUME Init PROVE Channel!Init
  OBVIOUS
<1>1. conns = <<>> /\ got = <<>> /\ begun = 0
  BY DEF Init
<1>2. OnTheWay = {}
  BY <1>1 DEF OnTheWay
<1>3. Cardinality({}) = 0
  BY FS_EmptySet
<1>4. Queue = <<>>
  <2>1. Queue = [i \in 1 .. 0 |-> CHOOSE m \in {} : Rank({}, m) = i]
    BY <1>2, <1>3 DEF Queue, Sorted
  <2>2. QED
    BY <2>1
<1>5. Sent = {}
  BY <1>1 DEF Sent
<1>6. Received = <<>>
  BY <1>1 DEF Received
<1>7. QED
  BY <1>4, <1>5, <1>6 DEF Channel!Init

LEMMA MapsStep == IInv /\ IInv' /\ [Next]_vars => [Channel!Next]_(Channel!vars)
<1> SUFFICES ASSUME IInv, IInv', [Next]_vars
             PROVE  Channel!Next \/ UNCHANGED Channel!vars
  OBVIOUS
<1>1. ASSUME NEW t \in SThread, SendBegin(t) \/ SendStep(t)
      PROVE  Channel!Next \/ UNCHANGED Channel!vars
  <2>1. CASE SendBegin(t)
    BY <2>1, MapsSendBegin
  <2>2. CASE SendPiece(t)
    BY <2>2, MapsSendPiece
  <2>3. CASE SendError(t)
    BY <2>3, MapsSendError
  <2>4. CASE SendReopen(t)
    <3>1. /\ link' = link /\ begun' = begun /\ got' = got /\ smsg' = smsg
          /\ Reopen("snd") /\ "snd" \in End
      BY <2>4 DEF SendReopen, End
    <3>2. QED
      BY <3>1, MapsReopen
  <2>5. QED
    BY <1>1, <2>1, <2>2, <2>3, <2>4 DEF SendStep
<1>2. ASSUME NEW r \in RThread, RecvBegin(r) \/ RecvStep(r)
      PROVE  Channel!Next \/ UNCHANGED Channel!vars
  <2>1. CASE RecvBegin(r)
    <3>1. TypeOK /\ TypeOK' /\ link' = link /\ conns' = conns
      BY <2>1 DEF RecvBegin, IInv
    <3>2. OnTheWay' = OnTheWay
      BY <3>1, WaySame
    <3>3. QED
      BY <2>1, <3>2, SentSame, ReceivedSame, Stutters DEF RecvBegin
  <2>2. CASE RecvPiece(r)
    BY <2>2, MapsRecvPiece
  <2>3. CASE RecvError(r)
    BY <2>3, MapsRecvError
  <2>4. CASE RecvReopen(r)
    <3>1. /\ link' = link /\ begun' = begun /\ got' = got /\ smsg' = smsg
          /\ Reopen("rcv") /\ "rcv" \in End
      BY <2>4 DEF RecvReopen, End
    <3>2. QED
      BY <3>1, MapsReopen
  <2>5. QED
    BY <1>2, <2>1, <2>2, <2>3, <2>4 DEF RecvStep
<1>3. ASSUME NEW c \in DOMAIN conns, Break(c) PROVE Channel!Next
  BY <1>3, MapsBreak
<1>4. CASE SenderDeath
  BY <1>4, MapsSenderDeath
<1>5. CASE ReceiverDeath
  BY <1>5, MapsReceiverDeath
<1>6. CASE UNCHANGED vars
  <2>1. TypeOK /\ TypeOK' /\ link' = link /\ conns' = conns /\ begun' = begun /\ smsg' = smsg /\ got' = got
    BY <1>6 DEF vars, IInv
  <2>2. OnTheWay' = OnTheWay
    BY <2>1, WaySame
  <2>3. QED
    BY <2>1, <2>2, SentSame, ReceivedSame, Stutters
<1>7. QED
  BY <1>1, <1>2, <1>3, <1>4, <1>5, <1>6 DEF Next

\* A link with all its sockets, connections and failures is a channel of whole messages:
\* what node_recv returns was given to node_send, once at most and in that order, and
\* what is lost is lost whole.
THEOREM LinkIsChannel == Spec => ChannelSpec
<1>1. Init => Channel!Init
  BY MapsInit
<1>2. IInv /\ [Next]_vars => [Channel!Next]_(Channel!vars)
  BY InvNext, MapsStep
<1>3. Spec => []IInv
  BY InvInit, InvNext, PTL DEF Spec
<1>4. QED
  BY <1>1, <1>2, <1>3, PTL DEF Spec, ChannelSpec, Channel!Spec
=============================================================================
