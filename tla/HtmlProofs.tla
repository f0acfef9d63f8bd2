----------------------------- MODULE HtmlProofs -----------------------------
(***************************************************************************)
(* Proofs about HtmlParser: for pages of any length and nesting, any depth *)
(* and any blocks, the tree html_tree_parse leaves is the page, and what   *)
(* parse hands out of it is the page's own.                                *)
(***************************************************************************)
EXTENDS HtmlParser, FiniteSetTheorems, SequenceTheorems, NaturalsInduction, WellFoundedInduction, TLAPS

-----------------------------------------------------------------------------
(* A tree while html_tree_parse_sub_tree builds it: nd maps its nodes to     *)
(* what they hold, n is the last of them, p begins with their tokens.        *)
NodeType == [token : PageToken \cup {Root}, parent : Nat \cup {NULL}, child : Seq(Nat)]

IsMap(nd, n) == nd \in [0 .. n -> NodeType]

HasTokens(nd, n, p) ==
  /\ IsMap(nd, n)
  /\ nd[0].token = Root /\ nd[0].parent = NULL
  /\ \A m \in 1 .. n : nd[m].token = p[m]

InOrder(nd, n) ==
  /\ \A m \in 1 .. n : /\ nd[m].parent \in 0 .. m - 1
                       /\ \A k \in nd[m].parent + 1 .. m - 1 : nd[k].parent >= nd[m].parent
                       /\ \E i \in DOMAIN nd[nd[m].parent].child : nd[nd[m].parent].child[i] = m
  /\ \A m \in 0 .. n : \A i \in DOMAIN nd[m].child :
       /\ nd[m].child[i] \in 1 .. n /\ nd[nd[m].child[i]].parent = m
       /\ \A j \in 1 .. i - 1 : nd[m].child[j] < nd[m].child[i]

\* The calls: a node each, the root first, each the parent of the next; what follows a node
\* that is open is below it.
IsOpen(nd, n, op) ==
  /\ op \in Seq(0 .. n) /\ op # << >> /\ op[1] = 0
  /\ \A i \in 1 .. Len(op) - 1 : nd[op[i + 1]].parent = op[i]
  /\ \A i \in DOMAIN op : \A j \in 1 .. i - 1 : op[j] < op[i]
  /\ \A i \in DOMAIN op : \A m \in op[i] + 1 .. n : nd[m].parent >= op[i]

\* The tree with a node more, below e.
Grown(nd, n, e, token) ==
  [m \in 0 .. n + 1 |-> IF m = n + 1 THEN NewNode(token, e)
                        ELSE [nd EXCEPT ![e].child = Append(@, n + 1)][m]]

\* What is read of a page: an element that is open may have children, a node has a parent.
IsNode(t) == t.kind \in {"start", "text"}
NodeToken == {t \in PageToken : IsNode(t)}
Readings ==
  {r \in [ok : BOOLEAN, open : Seq(Nat), parent : Seq(Nat), placed : Seq(NodeToken)] :
     /\ Len(r.parent) = Len(r.placed)
     /\ \A i \in DOMAIN r.open : /\ r.open[i] \in 1 .. Len(r.placed)
                                 /\ r.placed[r.open[i]].tag \notin Childless}

\* The calls are those of the elements open, and perhaps of a last node without children.
OnStack(c, op) ==
  /\ op[1] = 0
  /\ \A i \in DOMAIN c.open : op[i + 1] = c.open[i]
  /\ \/ Len(op) = Len(c.open) + 1
     \/ /\ Len(op) = Len(c.open) + 2
        /\ Len(c.placed) > 0
        /\ op[Len(op)] = Len(c.placed)
        /\ c.placed[Len(c.placed)].tag \in Childless

Agrees(nd, n, r) == r.ok => \A m \in 1 .. n : nd[m].parent = r.parent[m]

\* All tokens read are placed.
Over(nd, r) ==
  /\ HasTokens(nd, Len(r.placed), r.placed)
  /\ InOrder(nd, Len(r.placed))
  /\ Agrees(nd, Len(r.placed), r)
Ready(nd, op, r) ==
  /\ Over(nd, r)
  /\ IsOpen(nd, Len(r.placed), op)
  /\ r.ok => OnStack(r, op)

\* How many of them are nodes when nx is read ahead; and all read before nx is placed, with
\* the calls at the elements that were open before it.
Count(nx, r) == IF IsNode(nx) THEN Len(r.placed) - 1 ELSE Len(r.placed)
Held(nd, nx, op, r) ==
  /\ IsNode(nx) => Len(r.placed) > 0 /\ r.placed[Len(r.placed)] = nx
  /\ HasTokens(nd, Count(nx, r), r.placed)
  /\ InOrder(nd, Count(nx, r))
  /\ IsOpen(nd, Count(nx, r), op)
  /\ Agrees(nd, Count(nx, r), r)
  /\ r.ok /\ nx # EndOfPage => \E c \in Readings : c.ok /\ r = Read(c, nx) /\ OnStack(c, op)

-----------------------------------------------------------------------------
(* Facts about sequences, readings and trees.                                *)
LEMMA FrontFacts ==
  ASSUME NEW S, NEW s \in Seq(S), s # << >>
  PROVE  /\ Front(s) \in Seq(S) /\ Len(Front(s)) = Len(s) - 1
         /\ \A i \in 1 .. Len(s) - 1 : Front(s)[i] = s[i]
<1>1. Len(s) \in Nat /\ Len(s) > 0
  OBVIOUS
<1>2. /\ SubSeq(s, 1, Len(s) - 1) \in Seq(S)
      /\ Len(SubSeq(s, 1, Len(s) - 1)) = Len(s) - 1
      /\ \A i \in 1 .. Len(s) - 1 : SubSeq(s, 1, Len(s) - 1)[i] = s[i]
  <2>. DEFINE m == Len(s) - 1
  <2>1. m \in 1 - 1 .. Len(s)
    BY <1>1
  <2>2. /\ SubSeq(s, 1, m) \in Seq(S)
        /\ Len(SubSeq(s, 1, m)) = IF 1 <= m THEN m - 1 + 1 ELSE 0
        /\ \A i \in 1 .. m - 1 + 1 : SubSeq(s, 1, m)[i] = s[1 + i - 1]
    BY <1>1, SubSeqProperties
  <2>3. PICK q : q = SubSeq(s, 1, m)
    OBVIOUS
  <2>4. m \in Nat /\ m - 1 + 1 = m /\ \A i \in Nat : 1 + i - 1 = i
    BY <1>1
  <2>5. q \in Seq(S) /\ Len(q) = m /\ \A i \in 1 .. m : q[i] = s[i]
    BY <2>2, <2>3, <2>4
  <2>6. QED
    BY <2>3, <2>5
<1>3. QED
  BY <1>2 DEF Front

\* When a call returns, the others stand as they did.
LEMMA CutOpen ==
  ASSUME NEW nd, NEW n \in Nat, NEW op, IsOpen(nd, n, op), Len(op) > 1,
         NEW f \in Seq(0 .. n), Len(f) = Len(op) - 1, \A i \in 1 .. Len(op) - 1 : f[i] = op[i]
  PROVE  IsOpen(nd, n, f)
<1>1. op \in Seq(0 .. n) /\ op # << >> /\ op[1] = 0 /\ Len(op) \in Nat
  BY DEF IsOpen
<1>2. DOMAIN op = 1 .. Len(op) /\ DOMAIN f = 1 .. Len(op) - 1
  BY <1>1
<1>3. f # << >> /\ f[1] = 0
  BY <1>1, <1>2
<1>4. \A i \in 1 .. Len(f) - 1 : nd[f[i + 1]].parent = f[i]
  <2>1. \A i \in 1 .. Len(op) - 1 : nd[op[i + 1]].parent = op[i]
    BY DEF IsOpen
  <2>2. \A i \in 1 .. Len(f) - 1 : i \in 1 .. Len(op) - 1 /\ i + 1 \in 1 .. Len(op) - 1
    BY <1>1
  <2>3. QED
    BY <2>1, <2>2
<1>5. \A i \in DOMAIN f : f[i] = op[i] /\ i \in DOMAIN op
  BY <1>1, <1>2
<1>6. \A i \in DOMAIN f : \A j \in 1 .. i - 1 : f[j] < f[i]
  <2>1. \A i \in DOMAIN f : \A j \in 1 .. i - 1 : j \in DOMAIN f
    BY <1>1, <1>2
  <2>2. QED
    BY <1>5, <2>1 DEF IsOpen
<1>7. \A i \in DOMAIN f : \A m \in f[i] + 1 .. n : nd[m].parent >= f[i]
  BY <1>5 DEF IsOpen
<1>8. QED
  BY <1>3, <1>4, <1>6, <1>7 DEF IsOpen

LEMMA FrontOpen ==
  ASSUME NEW nd, NEW n \in Nat, NEW op, IsOpen(nd, n, op), Len(op) > 1
  PROVE  /\ IsOpen(nd, n, Front(op))
         /\ Len(Front(op)) = Len(op) - 1
         /\ \A i \in 1 .. Len(op) - 1 : Front(op)[i] = op[i]
<1>1. op \in Seq(0 .. n) /\ op # << >>
  BY DEF IsOpen
<1>2. /\ Front(op) \in Seq(0 .. n) /\ Len(Front(op)) = Len(op) - 1
      /\ \A i \in 1 .. Len(op) - 1 : Front(op)[i] = op[i]
  BY <1>1, FrontFacts
<1>3. QED
  BY <1>2, CutOpen

\* A token read is one more node, or none; a page that is not nested well stays so.
LEMMA ReadTyped ==
  ASSUME NEW r \in Readings, NEW t \in PageToken
  PROVE  /\ Read(r, t) \in Readings
         /\ Read(r, t).ok => r.ok
         /\ t.kind = "end" => Read(r, t).placed = r.placed /\ Read(r, t).parent = r.parent
         /\ IsNode(t) => /\ Read(r, t).placed = Append(r.placed, t)
                         /\ Read(r, t).parent = Append(r.parent, Element(r))
<1>1. /\ r \in [ok : BOOLEAN, open : Seq(Nat), parent : Seq(Nat), placed : Seq(NodeToken)]
      /\ Len(r.parent) = Len(r.placed)
      /\ \A i \in DOMAIN r.open : /\ r.open[i] \in 1 .. Len(r.placed)
                                  /\ r.placed[r.open[i]].tag \notin Childless
  BY DEF Readings
<1>2. Element(r) \in Nat
  BY <1>1 DEF Element, Last
<1>3. CASE t.kind = "end"
  <2>1. Read(r, t) = ReadEnd(r, t)
    BY <1>3 DEF Read
  <2>2. /\ ReadEnd(r, t).placed = r.placed /\ ReadEnd(r, t).parent = r.parent
        /\ ReadEnd(r, t).ok \in BOOLEAN
        /\ ReadEnd(r, t).ok => r.ok
        /\ ReadEnd(r, t).open = IF r.open = << >> THEN r.open ELSE Front(r.open)
        /\ ReadEnd(r, t) = [ok |-> ReadEnd(r, t).ok, open |-> ReadEnd(r, t).open,
                            parent |-> r.parent, placed |-> r.placed]
    BY <1>1 DEF ReadEnd
  <2>3. /\ ReadEnd(r, t).open \in Seq(Nat)
        /\ \A i \in DOMAIN ReadEnd(r, t).open : i \in DOMAIN r.open /\ ReadEnd(r, t).open[i] = r.open[i]
    <3>1. CASE r.open = << >>
      BY <1>1, <2>2, <3>1
    <3>2. CASE r.open # << >>
      <4>1. /\ Front(r.open) \in Seq(Nat) /\ Len(Front(r.open)) = Len(r.open) - 1
            /\ \A i \in 1 .. Len(r.open) - 1 : Front(r.open)[i] = r.open[i]
        BY <1>1, <3>2, FrontFacts
      <4>2. QED
        <5>1. /\ ReadEnd(r, t).open = Front(r.open) /\ Len(r.open) \in Nat
              /\ DOMAIN Front(r.open) = 1 .. Len(r.open) - 1 /\ DOMAIN r.open = 1 .. Len(r.open)
          BY <1>1, <2>2, <3>2, <4>1
        <5>2. PICK f : f = Front(r.open)
          OBVIOUS
        <5>3. PICK k \in Nat : k = Len(r.open)
          BY <5>1
        <5>4. \A i \in 1 .. k - 1 : i \in 1 .. k
          OBVIOUS
        <5>5. /\ f \in Seq(Nat) /\ DOMAIN f = 1 .. k - 1 /\ DOMAIN r.open = 1 .. k
              /\ \A i \in 1 .. k - 1 : f[i] = r.open[i]
          BY <4>1, <5>1, <5>2, <5>3
        <5>6. QED
          BY <5>1, <5>2, <5>4, <5>5
    <3>3. QED
      BY <3>1, <3>2
  <2>4. ReadEnd(r, t) \in Readings
    BY <1>1, <2>2, <2>3 DEF Readings
  <2>5. QED
    BY <1>3, <2>1, <2>2, <2>4 DEF IsNode
<1>4. CASE IsNode(t)
  <2>1. Read(r, t) = ReadStart(r, t)
    BY <1>4 DEF Read, IsNode
  <2>2. /\ ReadStart(r, t).placed = Append(r.placed, t)
        /\ ReadStart(r, t).parent = Append(r.parent, Element(r))
        /\ ReadStart(r, t).ok \in BOOLEAN
        /\ ReadStart(r, t).ok => r.ok
        /\ ReadStart(r, t).open = IF t.tag \in Childless THEN r.open
                                  ELSE Append(r.open, Len(r.placed) + 1)
        /\ ReadStart(r, t) = [ok |-> ReadStart(r, t).ok, open |-> ReadStart(r, t).open,
                              parent |-> Append(r.parent, Element(r)),
                              placed |-> Append(r.placed, t)]
    BY <1>1 DEF ReadStart
  <2>3. /\ Append(r.placed, t) \in Seq(NodeToken) /\ Len(Append(r.placed, t)) = Len(r.placed) + 1
        /\ Append(r.parent, Element(r)) \in Seq(Nat)
        /\ Len(Append(r.parent, Element(r))) = Len(r.parent) + 1
        /\ \A i \in 1 .. Len(r.placed) : Append(r.placed, t)[i] = r.placed[i]
        /\ Append(r.placed, t)[Len(r.placed) + 1] = t
    <3>1. t \in NodeToken
      BY <1>4 DEF NodeToken
    <3>2. QED
      BY <1>1, <1>2, <3>1
  <2>4. /\ ReadStart(r, t).open \in Seq(Nat)
        /\ \A i \in DOMAIN ReadStart(r, t).open :
              /\ ReadStart(r, t).open[i] \in 1 .. Len(r.placed) + 1
              /\ Append(r.placed, t)[ReadStart(r, t).open[i]].tag \notin Childless
    <3>1. CASE t.tag \in Childless
      BY <1>1, <2>2, <2>3, <3>1
    <3>2. CASE t.tag \notin Childless
      <4>1. ReadStart(r, t).open = Append(r.open, Len(r.placed) + 1)
        BY <2>2, <3>2
      <4>2. /\ Append(r.open, Len(r.placed) + 1) \in Seq(Nat)
            /\ Len(Append(r.open, Len(r.placed) + 1)) = Len(r.open) + 1
            /\ \A i \in 1 .. Len(r.open) : Append(r.open, Len(r.placed) + 1)[i] = r.open[i]
            /\ Append(r.open, Len(r.placed) + 1)[Len(r.open) + 1] = Len(r.placed) + 1
        BY <1>1
      <4>3. QED
        BY <1>1, <2>3, <3>2, <4>1, <4>2
    <3>3. QED
      BY <3>1, <3>2
  <2>5. ReadStart(r, t) \in Readings
    BY <1>1, <1>2, <2>2, <2>3, <2>4 DEF Readings
  <2>6. QED
    BY <1>4, <2>1, <2>2, <2>5 DEF IsNode
<1>5. QED
  BY <1>3, <1>4 DEF PageToken, IsNode

LEMMA AppendFacts ==
  ASSUME NEW S, NEW s \in Seq(S), NEW x \in S, NEW t, t = Append(s, x)
  PROVE  /\ t \in Seq(S) /\ Len(t) = Len(s) + 1
         /\ \A i \in DOMAIN s : t[i] = s[i] /\ i \in DOMAIN t
         /\ Len(s) + 1 \in DOMAIN t /\ t[Len(s) + 1] = x
         /\ \A i \in DOMAIN t : i \in DOMAIN s \/ i = Len(s) + 1
         /\ \A i \in 1 .. Len(s) : i \in DOMAIN s
         /\ Len(s) \in Nat /\ DOMAIN s = 1 .. Len(s) /\ DOMAIN t = 1 .. Len(s) + 1
OBVIOUS

LEMMA ChildAppended ==
  ASSUME NEW x \in NodeType, NEW k \in Nat, NEW y, y = [x EXCEPT !.child = Append(@, k)]
  PROVE  /\ y.token = x.token /\ y.parent = x.parent /\ y.child = Append(x.child, k)
         /\ y \in NodeType
<1>1. /\ x.child \in Seq(Nat) /\ x.token \in PageToken \cup {Root} /\ x.parent \in Nat \cup {NULL}
      /\ x = [token |-> x.token, parent |-> x.parent, child |-> x.child]
  BY DEF NodeType
<1>2. PICK c : c = Append(x.child, k)
  OBVIOUS
<1>3. c \in Seq(Nat)
  BY <1>1, <1>2
<1>4. y = [token |-> x.token, parent |-> x.parent, child |-> c]
  BY <1>1, <1>2
<1>5. QED
  BY <1>1, <1>2, <1>3, <1>4 DEF NodeType

\* A tree that has grown, field by field.
IsGrown(g, nd, n, e, token) ==
  /\ IsMap(g, n + 1)
  /\ g[n + 1].token = token /\ g[n + 1].parent = e /\ g[n + 1].child = << >>
  /\ \A m \in 0 .. n : /\ g[m].token = nd[m].token /\ g[m].parent = nd[m].parent
                       /\ m # e => g[m].child = nd[m].child
  /\ g[e].child = Append(nd[e].child, n + 1)

LEMMA GrownFields ==
  ASSUME NEW n \in Nat, NEW nd, IsMap(nd, n), NEW e \in 0 .. n, NEW token \in PageToken,
         NEW g, g = Grown(nd, n, e, token)
  PROVE  IsGrown(g, nd, n, e, token)
<1>1. /\ nd[e] \in NodeType /\ nd[e].child \in Seq(Nat)
      /\ NodeType = [token : PageToken \cup {Root}, parent : Nat \cup {NULL}, child : Seq(Nat)]
  BY DEF NodeType, IsMap
<1>2. \A m \in 0 .. n : m # n + 1 /\ m \in 0 .. n + 1
  OBVIOUS
<1>3. n + 1 \in 0 .. n + 1 /\ \A m \in 0 .. n + 1 : m = n + 1 \/ m \in 0 .. n
  OBVIOUS
<1>4. g[n + 1] = NewNode(token, e)
  BY <1>3 DEF Grown
<1>5. \A m \in 0 .. n : m # e => g[m] = nd[m]
  BY <1>2 DEF Grown, IsMap
<1>6. g[e] = [nd[e] EXCEPT !.child = Append(@, n + 1)]
  BY <1>2 DEF Grown, IsMap
<1>7. /\ g[e].token = nd[e].token /\ g[e].parent = nd[e].parent
      /\ g[e].child = Append(nd[e].child, n + 1) /\ g[e] \in NodeType
  BY <1>1, <1>6, n + 1 \in Nat, ChildAppended
<1>8. /\ g[n + 1].token = token /\ g[n + 1].parent = e /\ g[n + 1].child = << >>
      /\ g[n + 1] \in NodeType
  BY <1>4 DEF NewNode, NodeType
<1>9. \A m \in 0 .. n + 1 : g[m] \in NodeType
  BY <1>3, <1>5, <1>7, <1>8 DEF IsMap
<1>10. IsMap(g, n + 1)
  BY <1>9 DEF Grown, IsMap
<1>11. QED
  BY <1>5, <1>7, <1>8, <1>10 DEF IsGrown

\* A node below e keeps the order when all that follows e is below e.
LEMMA Grows ==
  ASSUME NEW n \in Nat, NEW p \in Seq(PageToken), n + 1 <= Len(p), NEW nd,
         HasTokens(nd, n, p), InOrder(nd, n), NEW e \in 0 .. n,
         \A m \in e + 1 .. n : nd[m].parent >= e,
         NEW g, g = Grown(nd, n, e, p[n + 1])
  PROVE  /\ HasTokens(g, n + 1, p) /\ InOrder(g, n + 1)
         /\ \A m \in 1 .. n : g[m].parent = nd[m].parent
         /\ g[n + 1].parent = e
<1>1. /\ IsMap(nd, n) /\ nd[0].token = Root /\ nd[0].parent = NULL
      /\ \A m \in 1 .. n : nd[m].token = p[m]
  BY DEF HasTokens
<1>2. PICK token \in PageToken : token = p[n + 1]
  OBVIOUS
<1>3. /\ IsMap(g, n + 1)
      /\ g[n + 1].token = p[n + 1] /\ g[n + 1].parent = e /\ g[n + 1].child = << >>
      /\ \A m \in 0 .. n : /\ g[m].token = nd[m].token /\ g[m].parent = nd[m].parent
                           /\ m # e => g[m].child = nd[m].child
      /\ g[e].child = Append(nd[e].child, n + 1)
  <2>1. g = Grown(nd, n, e, token)
    BY <1>2
  <2>2. IsGrown(g, nd, n, e, token)
    BY <1>1, <2>1, GrownFields
  <2>3. QED
    BY <1>2, <2>2 DEF IsGrown
<1>4. \A m \in 0 .. n : nd[m].child \in Seq(Nat)
  BY <1>1 DEF NodeType, IsMap
<1>5. HasTokens(g, n + 1, p)
  <2>1. \A m \in 1 .. n + 1 : m = n + 1 \/ (m \in 1 .. n /\ m \in 0 .. n)
    OBVIOUS
  <2>2. 0 \in 0 .. n
    OBVIOUS
  <2>3. QED
    BY <1>1, <1>3, <2>1, <2>2 DEF HasTokens
<1>6. /\ Len(g[e].child) = Len(nd[e].child) + 1
      /\ \A i \in DOMAIN nd[e].child : g[e].child[i] = nd[e].child[i] /\ i \in DOMAIN g[e].child
      /\ Len(nd[e].child) + 1 \in DOMAIN g[e].child
      /\ g[e].child[Len(nd[e].child) + 1] = n + 1
      /\ \A i \in DOMAIN g[e].child : i \in DOMAIN nd[e].child \/ i = Len(nd[e].child) + 1
      /\ \A i \in 1 .. Len(nd[e].child) : i \in DOMAIN nd[e].child
  <2>1. PICK c \in Seq(Nat) : c = nd[e].child
    BY <1>4
  <2>2. PICK d : d = g[e].child
    OBVIOUS
  <2>3. d = Append(c, n + 1) /\ n + 1 \in Nat
    BY <1>3, <2>1, <2>2
  <2>4. /\ Len(d) = Len(c) + 1
        /\ \A i \in DOMAIN c : d[i] = c[i] /\ i \in DOMAIN d
        /\ Len(c) + 1 \in DOMAIN d /\ d[Len(c) + 1] = n + 1
        /\ \A i \in DOMAIN d : i \in DOMAIN c \/ i = Len(c) + 1
        /\ \A i \in 1 .. Len(c) : i \in DOMAIN c
    BY <2>3, AppendFacts
  <2>5. QED
    BY <2>1, <2>2, <2>4
<1>7. /\ \A m \in 1 .. n : /\ nd[m].parent \in 0 .. m - 1
                           /\ \A k \in nd[m].parent + 1 .. m - 1 : nd[k].parent >= nd[m].parent
                           /\ \E i \in DOMAIN nd[nd[m].parent].child : nd[nd[m].parent].child[i] = m
      /\ \A m \in 0 .. n : \A i \in DOMAIN nd[m].child :
           /\ nd[m].child[i] \in 1 .. n /\ nd[nd[m].child[i]].parent = m
           /\ \A j \in 1 .. i - 1 : nd[m].child[j] < nd[m].child[i]
  BY DEF InOrder
<1>8. ASSUME NEW m \in 1 .. n + 1
      PROVE  /\ g[m].parent \in 0 .. m - 1
             /\ \A k \in g[m].parent + 1 .. m - 1 : g[k].parent >= g[m].parent
             /\ \E i \in DOMAIN g[g[m].parent].child : g[g[m].parent].child[i] = m
  <2>1. CASE m = n + 1
    <3>1. \A k \in e + 1 .. n : k \in 0 .. n
      OBVIOUS
    <3>2. g[m].parent = e /\ e \in 0 .. m - 1 /\ m - 1 = n
      BY <1>3, <2>1
    <3>3. \A k \in e + 1 .. n : g[k].parent >= e
      BY <1>3, <3>1
    <3>4. \E i \in DOMAIN g[e].child : g[e].child[i] = m
      BY <1>6, <2>1
    <3>5. QED
      BY <3>2, <3>3, <3>4
  <2>2. CASE m \in 1 .. n
    <3>1. g[m].parent = nd[m].parent /\ nd[m].parent \in 0 .. m - 1 /\ nd[m].parent \in 0 .. n
      BY <1>3, <1>7, <2>2
    <3>2. \A k \in nd[m].parent + 1 .. m - 1 : g[k].parent = nd[k].parent
      BY <1>3, <2>2, <3>1
    <3>3. PICK i \in DOMAIN nd[nd[m].parent].child : nd[nd[m].parent].child[i] = m
      BY <1>7, <2>2
    <3>4. i \in DOMAIN g[nd[m].parent].child /\ g[nd[m].parent].child[i] = m
      BY <1>3, <1>6, <3>1, <3>3
    <3>5. QED
      BY <1>7, <2>2, <3>1, <3>2, <3>4
  <2>3. QED
    BY <2>1, <2>2
<1>9. ASSUME NEW m \in 0 .. n + 1, NEW i \in DOMAIN g[m].child
      PROVE  /\ g[m].child[i] \in 1 .. n + 1 /\ g[g[m].child[i]].parent = m
             /\ \A j \in 1 .. i - 1 : g[m].child[j] < g[m].child[i]
  <2>1. m \in 0 .. n
    <3>1. m # n + 1
      BY <1>3
    <3>2. QED
      BY <3>1
  <2>2. CASE m # e
    <3>1. g[m].child = nd[m].child /\ i \in DOMAIN nd[m].child
      BY <1>3, <2>1, <2>2
    <3>2. nd[m].child[i] \in 1 .. n
      BY <1>7, <2>1, <3>1
    <3>3. g[nd[m].child[i]].parent = nd[nd[m].child[i]].parent
      BY <1>3, <3>2
    <3>4. QED
      BY <1>7, <2>1, <3>1, <3>2, <3>3
  <2>3. CASE m = e /\ i \in DOMAIN nd[e].child
    <3>1. g[e].child[i] = nd[e].child[i] /\ nd[e].child[i] \in 1 .. n
      BY <1>6, <1>7, <2>3
    <3>2. g[nd[e].child[i]].parent = nd[nd[e].child[i]].parent
      <4>1. PICK k \in 1 .. n : k = nd[e].child[i]
        BY <3>1
      <4>2. QED
        BY <1>3, <4>1
    <3>3. \A j \in 1 .. i - 1 : g[e].child[j] = nd[e].child[j]
      <4>1. i \in 1 .. Len(nd[e].child)
        BY <1>4, <2>3
      <4>2. \A j \in 1 .. i - 1 : j \in 1 .. Len(nd[e].child)
        BY <1>4, <4>1
      <4>3. QED
        BY <1>6, <4>2
    <3>4. QED
      BY <1>7, <2>3, <3>1, <3>2, <3>3
  <2>4. CASE m = e /\ i = Len(nd[e].child) + 1
    <3>1. \A j \in 1 .. i - 1 : j \in DOMAIN nd[e].child
      BY <1>4, <2>4
    <3>2. \A j \in 1 .. i - 1 : g[e].child[j] = nd[e].child[j] /\ nd[e].child[j] \in 1 .. n
      BY <1>6, <1>7, <3>1
    <3>3. g[e].child[i] = n + 1
      BY <1>6, <2>4
    <3>4. \A j \in 1 .. i - 1 : g[e].child[j] < g[e].child[i]
      BY <3>2, <3>3
    <3>5. g[n + 1].parent = e /\ n + 1 \in 1 .. n + 1
      BY <1>3
    <3>6. QED
      BY <2>4, <3>3, <3>4, <3>5
  <2>5. QED
    BY <1>6, <2>2, <2>3, <2>4
<1>10. InOrder(g, n + 1)
  BY <1>8, <1>9 DEF InOrder
<1>11. QED
  BY <1>3, <1>5, <1>10

\* ... which is so for every call, also after it.
LEMMA GrowsOpen ==
  ASSUME NEW n \in Nat, NEW nd, NEW op, IsOpen(nd, n, op), op[Len(op)] \in 0 .. n,
         NEW g, \A m \in 1 .. n : g[m].parent = nd[m].parent, g[n + 1].parent = op[Len(op)]
  PROVE  IsOpen(g, n + 1, op) /\ IsOpen(g, n + 1, Append(op, n + 1))
<1>1. /\ op \in Seq(0 .. n) /\ op # << >> /\ op[1] = 0
      /\ \A i \in 1 .. Len(op) - 1 : nd[op[i + 1]].parent = op[i]
      /\ \A i \in DOMAIN op : \A j \in 1 .. i - 1 : op[j] < op[i]
      /\ \A i \in DOMAIN op : \A m \in op[i] + 1 .. n : nd[m].parent >= op[i]
  BY DEF IsOpen
<1>2. /\ Len(op) \in Nat \ {0} /\ DOMAIN op = 1 .. Len(op)
      /\ \A i \in DOMAIN op : op[i] \in 0 .. n /\ op[i] \in 0 .. n + 1
  BY <1>1
<1>3. op \in Seq(0 .. n + 1)
  BY <1>1, <1>2
<1>4. \A i \in 1 .. Len(op) - 1 : g[op[i + 1]].parent = op[i]
  <2>1. ASSUME NEW i \in 1 .. Len(op) - 1
        PROVE  op[i + 1] \in 1 .. n
    <3>1. i + 1 \in DOMAIN op /\ 1 \in 1 .. (i + 1) - 1
      BY <1>2
    <3>2. op[1] < op[i + 1]
      BY <1>1, <3>1
    <3>3. QED
      BY <1>1, <1>2, <3>1, <3>2
  <2>2. QED
    BY <1>1, <2>1
<1>5. \A i \in DOMAIN op : op[i] <= op[Len(op)]
  <2>1. \A i \in DOMAIN op : i = Len(op) \/ i \in 1 .. Len(op) - 1
    BY <1>2
  <2>2. Len(op) \in DOMAIN op
    BY <1>2
  <2>3. \A j \in 1 .. Len(op) - 1 : op[j] < op[Len(op)]
    BY <1>1, <2>2
  <2>4. QED
    BY <1>2, <2>1, <2>2, <2>3
<1>6. \A i \in DOMAIN op : \A m \in op[i] + 1 .. n + 1 : g[m].parent >= op[i]
  <2>1. ASSUME NEW i \in DOMAIN op, NEW m \in op[i] + 1 .. n + 1
        PROVE  g[m].parent >= op[i]
    <3>1. CASE m = n + 1
      BY <1>2, <1>5, <3>1
    <3>2. CASE m # n + 1
      <4>1. m \in op[i] + 1 .. n /\ m \in 1 .. n
        BY <1>2, <3>2
      <4>2. QED
        BY <1>1, <4>1
    <3>3. QED
      BY <3>1, <3>2
  <2>2. QED
    BY <2>1
<1>7. IsOpen(g, n + 1, op)
  BY <1>1, <1>3, <1>4, <1>6 DEF IsOpen
<1>8. PICK q : q = Append(op, n + 1)
  OBVIOUS
<1>9. /\ q \in Seq(0 .. n + 1) /\ Len(q) = Len(op) + 1
      /\ \A i \in DOMAIN op : q[i] = op[i] /\ i \in DOMAIN q
      /\ q[Len(op) + 1] = n + 1
      /\ \A i \in DOMAIN q : i \in DOMAIN op \/ i = Len(op) + 1
  BY <1>3, <1>8, n + 1 \in 0 .. n + 1, AppendFacts
<1>10. q # << >> /\ q[1] = 0
  <2>1. 1 \in DOMAIN op
    BY <1>2
  <2>2. Len(q) > 0
    BY <1>2, <1>9
  <2>3. QED
    BY <1>1, <1>9, <2>1, <2>2
<1>11. \A i \in 1 .. Len(q) - 1 : g[q[i + 1]].parent = q[i]
  <2>1. ASSUME NEW i \in 1 .. Len(op)
        PROVE  g[q[i + 1]].parent = q[i]
    <3>1. CASE i = Len(op)
      <4>1. q[i + 1] = n + 1 /\ q[i] = op[Len(op)]
        BY <1>2, <1>9, <3>1
      <4>2. QED
        BY <4>1
    <3>2. CASE i # Len(op)
      <4>1. i \in 1 .. Len(op) - 1 /\ i \in DOMAIN op /\ i + 1 \in DOMAIN op
        <5>1. i \in 1 .. Len(op) - 1 /\ i + 1 \in 1 .. Len(op)
          <6>1. PICK k \in Nat : k = Len(op)
            BY <1>2
          <6>2. i \in 1 .. k /\ i # k
            BY <3>2, <6>1
          <6>3. i \in 1 .. k - 1 /\ i + 1 \in 1 .. k
            BY <6>2
          <6>4. QED
            BY <6>1, <6>3
        <5>2. QED
          BY <1>2, <5>1
      <4>2. q[i + 1] = op[i + 1] /\ q[i] = op[i]
        BY <1>9, <4>1
      <4>3. QED
        BY <1>4, <4>1, <4>2
    <3>3. QED
      BY <3>1, <3>2
  <2>2. Len(q) - 1 = Len(op)
    BY <1>2, <1>9
  <2>3. QED
    BY <2>1, <2>2
<1>12. \A i \in DOMAIN q : \A j \in 1 .. i - 1 : q[j] < q[i]
  <2>1. ASSUME NEW i \in DOMAIN q, NEW j \in 1 .. i - 1
        PROVE  q[j] < q[i]
    <3>1. j \in DOMAIN op /\ q[j] = op[j]
      BY <1>2, <1>9
    <3>2. CASE i \in DOMAIN op
      BY <1>1, <1>9, <3>1, <3>2
    <3>3. CASE i = Len(op) + 1
      BY <1>2, <1>9, <3>1, <3>3
    <3>4. QED
      BY <1>9, <3>2, <3>3
  <2>2. QED
    BY <2>1
<1>13. \A i \in DOMAIN q : \A m \in q[i] + 1 .. n + 1 : g[m].parent >= q[i]
  <2>1. ASSUME NEW i \in DOMAIN q, NEW m \in q[i] + 1 .. n + 1
        PROVE  g[m].parent >= q[i]
    <3>1. CASE i \in DOMAIN op
      BY <1>6, <1>9, <3>1
    <3>2. CASE i = Len(op) + 1
      BY <1>9, <3>2
    <3>3. QED
      BY <1>9, <3>1, <3>2
  <2>2. QED
    BY <2>1
<1>14. IsOpen(g, n + 1, q)
  BY <1>9, <1>10, <1>11, <1>12, <1>13 DEF IsOpen
<1>15. QED
  BY <1>7, <1>8, <1>14

-----------------------------------------------------------------------------
(* The calls and the elements that are open.                                 *)
LEMMA ElementFacts ==
  ASSUME NEW c \in Readings
  PROVE  /\ Element(c) \in 0 .. Len(c.placed)
         /\ Element(c) = 0 => c.open = << >> /\ ElementToken(c) = Root
         /\ Element(c) # 0 => /\ c.open # << >> /\ Element(c) = c.open[Len(c.open)]
                              /\ ElementToken(c) = c.placed[Element(c)]
                              /\ ElementToken(c).kind = "start"
                              /\ ElementToken(c).tag \notin Childless
<1>1. /\ c.open \in Seq(Nat) /\ c.placed \in Seq(NodeToken)
      /\ \A i \in DOMAIN c.open : /\ c.open[i] \in 1 .. Len(c.placed)
                                  /\ c.placed[c.open[i]].tag \notin Childless
  BY DEF Readings
<1>2. CASE c.open = << >>
  BY <1>1, <1>2 DEF Element, ElementToken
<1>3. CASE c.open # << >>
  <2>1. Len(c.open) \in DOMAIN c.open
    BY <1>1, <1>3
  <2>2. Element(c) = c.open[Len(c.open)]
    BY <1>3 DEF Element, Last
  <2>3. PICK e \in 1 .. Len(c.placed) : e = Element(c) /\ c.placed[e].tag \notin Childless
    BY <1>1, <2>1, <2>2
  <2>4. c.placed[e] \in NodeToken
    BY <1>1, <2>3
  <2>5. c.placed[e].kind = "start"
    BY <2>3, <2>4 DEF NodeToken, IsNode, PageToken, Childless
  <2>6. e # 0 /\ e \in 0 .. Len(c.placed)
    BY <2>3
  <2>7. ElementToken(c) = c.placed[e]
    BY <2>3, <2>6 DEF ElementToken
  <2>8. QED
    BY <1>3, <2>2, <2>3, <2>5, <2>6, <2>7
<1>4. QED
  BY <1>2, <1>3

\* The innermost call is that of the innermost element open, or of a node below it.
AtElement(c, nd, op) ==
  /\ Len(op) = Len(c.open) + 1
  /\ op[Len(op)] = Element(c)
  /\ nd[op[Len(op)]].token = ElementToken(c)
AtLeaf(c, nd, op) ==
  /\ Len(op) = Len(c.open) + 2 /\ Len(op) > 1
  /\ op[Len(op)] # 0
  /\ nd[op[Len(op)]].token \in NodeToken
  /\ nd[op[Len(op)]].token.tag \in Childless
  /\ nd[op[Len(op)]].parent = Element(c)
  /\ Element(c) # 0 => nd[Element(c)].token = ElementToken(c)
  /\ OnStack(c, Front(op))

LEMMA Top ==
  ASSUME NEW nd, NEW n \in Nat, NEW p, HasTokens(nd, n, p), NEW op, IsOpen(nd, n, op),
         NEW c \in Readings, Len(c.placed) = n, \A m \in 1 .. n : c.placed[m] = p[m],
         OnStack(c, op)
  PROVE  AtElement(c, nd, op) \/ AtLeaf(c, nd, op)
<1>1. /\ c.open \in Seq(Nat) /\ c.placed \in Seq(NodeToken) /\ Len(c.open) \in Nat
  BY DEF Readings
<1>2. /\ op \in Seq(0 .. n) /\ Len(op) \in Nat \ {0} /\ DOMAIN op = 1 .. Len(op)
      /\ op[1] = 0
      /\ \A i \in 1 .. Len(op) - 1 : nd[op[i + 1]].parent = op[i]
  BY DEF IsOpen
<1>3. \A i \in DOMAIN c.open : op[i + 1] = c.open[i]
  BY DEF OnStack
<1>4. op[Len(c.open) + 1] = Element(c)
  <2>1. CASE Element(c) = 0
    <3>1. Len(c.open) = 0
      BY <2>1, ElementFacts
    <3>2. QED
      BY <1>2, <2>1, <3>1
  <2>2. CASE Element(c) # 0
    <3>1. Element(c) = c.open[Len(c.open)] /\ c.open # << >>
      BY <2>2, ElementFacts
    <3>2. Len(c.open) \in DOMAIN c.open
      BY <1>1, <3>1
    <3>3. QED
      BY <1>3, <3>1, <3>2
  <2>3. QED
    BY <2>1, <2>2
<1>5. \A m \in 1 .. n : nd[m].token = c.placed[m]
  BY DEF HasTokens
<1>6. nd[Element(c)].token = ElementToken(c)
  <2>1. CASE Element(c) = 0
    BY <2>1, ElementFacts DEF HasTokens
  <2>2. CASE Element(c) # 0
    <3>1. Element(c) \in 1 .. n /\ ElementToken(c) = c.placed[Element(c)]
      <4>1. Element(c) \in 0 .. Len(c.placed) /\ ElementToken(c) = c.placed[Element(c)]
        BY <2>2, ElementFacts
      <4>2. QED
        BY <2>2, <4>1
    <3>2. QED
      BY <1>5, <3>1
  <2>3. QED
    BY <2>1, <2>2
<1>7. CASE Len(op) = Len(c.open) + 1
  BY <1>4, <1>6, <1>7 DEF AtElement
<1>8. CASE /\ Len(op) = Len(c.open) + 2
           /\ Len(c.placed) > 0
           /\ op[Len(op)] = Len(c.placed)
           /\ c.placed[Len(c.placed)].tag \in Childless
  <2>1. op[Len(op)] = n /\ n \in 1 .. n /\ n # 0
    BY <1>8
  <2>2. nd[n].token = c.placed[n] /\ c.placed[n] \in NodeToken /\ c.placed[n].tag \in Childless
    BY <1>1, <1>5, <1>8, <2>1
  <2>3. Len(op) > 1 /\ Len(c.open) + 1 \in 1 .. Len(op) - 1 /\ (Len(c.open) + 1) + 1 = Len(op)
    BY <1>1, <1>2, <1>8
  <2>4. nd[op[Len(op)]].parent = Element(c)
    BY <1>2, <1>4, <2>3
  <2>5. PICK f : f = Front(op)
    OBVIOUS
  <2>6. /\ Len(f) = Len(op) - 1
        /\ \A i \in 1 .. Len(op) - 1 : f[i] = op[i]
    BY <2>3, <2>5, FrontOpen
  <2>7. \A i \in DOMAIN c.open : i + 1 \in 1 .. Len(op) - 1
    BY <1>1, <1>8
  <2>8. f[1] = 0 /\ Len(f) = Len(c.open) + 1
    BY <1>1, <1>2, <1>8, <2>3, <2>6
  <2>9. OnStack(c, f)
    BY <1>3, <2>6, <2>7, <2>8 DEF OnStack
  <2>10. QED
    BY <1>6, <1>8, <2>1, <2>2, <2>3, <2>4, <2>5, <2>9 DEF AtLeaf
<1>9. QED
  BY <1>7, <1>8 DEF OnStack

LEMMA NotEndOfPage ==
  ASSUME NEW t \in PageToken
  PROVE  t # EndOfPage /\ t.kind \in {"start", "end", "text"}
<1>1. t.kind \in {"start", "end", "text"}
  BY DEF PageToken
<1>2. EndOfPage.kind = "end of page"
  BY DEF EndOfPage, Token
<1>3. QED
  BY <1>1, <1>2

\* The same for what was read before the token read ahead.
LEMMA HeldReading ==
  ASSUME NEW nd, NEW nx \in PageToken, NEW op, NEW r \in Readings, Held(nd, nx, op, r), r.ok
  PROVE  \E c \in Readings : /\ c.ok /\ r = Read(c, nx) /\ OnStack(c, op)
                             /\ Len(c.placed) = Count(nx, r)
                             /\ \A m \in 1 .. Len(c.placed) : c.placed[m] = r.placed[m]
                             /\ AtElement(c, nd, op) \/ AtLeaf(c, nd, op)
<1>1. nx # EndOfPage
  BY NotEndOfPage
<1>2. PICK c \in Readings : c.ok /\ r = Read(c, nx) /\ OnStack(c, op)
  BY <1>1 DEF Held
<1>3. c.placed \in Seq(NodeToken)
  BY DEF Readings
<1>4. Len(c.placed) = Count(nx, r) /\ \A m \in 1 .. Len(c.placed) : c.placed[m] = r.placed[m]
  <2>1. CASE nx.kind = "end"
    <3>1. r.placed = c.placed
      BY <1>2, <2>1, ReadTyped
    <3>2. QED
      BY <2>1, <3>1 DEF Count, IsNode
  <2>2. CASE IsNode(nx)
    <3>1. r.placed = Append(c.placed, nx)
      BY <1>2, <2>2, ReadTyped
    <3>2. nx \in NodeToken
      BY <2>2 DEF NodeToken
    <3>3. QED
      BY <1>3, <2>2, <3>1, <3>2 DEF Count
  <2>3. QED
    BY <2>1, <2>2 DEF PageToken, IsNode
<1>5. AtElement(c, nd, op) \/ AtLeaf(c, nd, op)
  <2>1. PICK n \in Nat : n = Count(nx, r)
    BY <1>3, <1>4
  <2>2. HasTokens(nd, n, r.placed) /\ IsOpen(nd, n, op)
    BY <2>1 DEF Held
  <2>3. Len(c.placed) = n /\ \A m \in 1 .. n : c.placed[m] = r.placed[m]
    BY <1>4, <2>1
  <2>4. QED
    BY <1>2, <2>2, <2>3, Top
<1>6. QED
  BY <1>2, <1>4, <1>5

\* The token read ahead is scanned: a token follows what was placed, or the page ends.
LEMMA ScanHolds ==
  ASSUME NEW nd, NEW op, NEW r \in Readings, Ready(nd, op, r)
  PROVE  /\ Held(nd, EndOfPage, op, r)
         /\ \A t \in PageToken : Held(nd, t, op, Read(r, t))
<1>1. /\ HasTokens(nd, Len(r.placed), r.placed) /\ InOrder(nd, Len(r.placed))
      /\ Agrees(nd, Len(r.placed), r) /\ IsOpen(nd, Len(r.placed), op)
      /\ r.ok => OnStack(r, op)
  BY DEF Ready, Over
<1>2. r.placed \in Seq(NodeToken) /\ r.parent \in Seq(Nat) /\ Len(r.parent) = Len(r.placed)
  BY DEF Readings
<1>3. Held(nd, EndOfPage, op, r)
  <2>1. ~ IsNode(EndOfPage)
    BY DEF IsNode, EndOfPage, Token
  <2>2. QED
    BY <1>1, <2>1 DEF Held, Count
<1>4. ASSUME NEW t \in PageToken
      PROVE  Held(nd, t, op, Read(r, t))
  <2>1. PICK s \in Readings : s = Read(r, t)
    BY ReadTyped
  <2>2. s.ok => r.ok
    BY <2>1, ReadTyped
  <2>3. s.ok => \E c \in Readings : c.ok /\ s = Read(c, t) /\ OnStack(c, op)
    BY <1>1, <2>1, <2>2
  <2>4. CASE t.kind = "end"
    <3>1. s.placed = r.placed /\ s.parent = r.parent /\ ~ IsNode(t)
      BY <2>1, <2>4, ReadTyped DEF IsNode
    <3>2. Agrees(nd, Len(r.placed), s)
      BY <1>1, <2>2, <3>1 DEF Agrees
    <3>3. Held(nd, t, op, s)
      BY <1>1, <2>3, <3>1, <3>2 DEF Held, Count
    <3>4. QED
      BY <2>1, <3>3
  <2>5. CASE IsNode(t)
    <3>1. s.placed = Append(r.placed, t) /\ s.parent = Append(r.parent, Element(r))
      BY <2>1, <2>5, ReadTyped
    <3>2. Element(r) \in Nat /\ t \in NodeToken
      <4>1. Element(r) \in 0 .. Len(r.placed)
        BY ElementFacts
      <4>2. QED
        BY <1>2, <2>5, <4>1 DEF NodeToken
    <3>3. /\ Len(s.placed) = Len(r.placed) + 1 /\ s.placed[Len(s.placed)] = t
          /\ \A m \in 1 .. Len(r.placed) : s.placed[m] = r.placed[m] /\ s.parent[m] = r.parent[m]
      BY <1>2, <3>1, <3>2
    <3>4. Count(t, s) = Len(r.placed) /\ Len(s.placed) > 0
      BY <1>2, <2>5, <3>3 DEF Count
    <3>5. HasTokens(nd, Len(r.placed), s.placed)
      BY <1>1, <3>3 DEF HasTokens
    <3>6. Agrees(nd, Len(r.placed), s)
      BY <1>1, <2>2, <3>3 DEF Agrees
    <3>7. Held(nd, t, op, s)
      BY <1>1, <2>3, <3>3, <3>4, <3>5, <3>6 DEF Held
    <3>8. QED
      BY <2>1, <3>7
  <2>6. QED
    BY <2>4, <2>5, NotEndOfPage DEF IsNode
<1>5. QED
  BY <1>3, <1>4

\* A call that returns leaves the token read ahead to the one below, when that is what the
\* page says: it does not stand at the element the token closes or is put into.
LEMMA Leaves ==
  ASSUME NEW nd, NEW nx \in PageToken \cup {EndOfPage}, NEW op, NEW r \in Readings,
         Held(nd, nx, op, r), Len(op) > 1,
         \A c \in Readings : ~ (/\ r.ok /\ nx \in PageToken /\ c.ok /\ r = Read(c, nx)
                                /\ AtElement(c, nd, op))
  PROVE  Held(nd, nx, Front(op), r)
<1>1. PICK n \in Nat : n = Count(nx, r)
  <2>1. Len(r.placed) \in Nat
    BY DEF Readings
  <2>2. QED
    BY <2>1 DEF Held, Count
<1>2. IsOpen(nd, n, Front(op))
  BY <1>1, FrontOpen DEF Held
<1>3. ASSUME r.ok, nx # EndOfPage
      PROVE  \E c \in Readings : c.ok /\ r = Read(c, nx) /\ OnStack(c, Front(op))
  <2>1. nx \in PageToken
    BY <1>3
  <2>2. PICK c \in Readings : c.ok /\ r = Read(c, nx) /\ (AtElement(c, nd, op) \/ AtLeaf(c, nd, op))
    BY <1>3, <2>1, HeldReading
  <2>3. AtLeaf(c, nd, op)
    BY <1>3, <2>1, <2>2
  <2>4. QED
    BY <2>2, <2>3 DEF AtLeaf
<1>4. QED
  BY <1>1, <1>2, <1>3 DEF Held

\* A call at a node that is not the root is inside another.
LEMMA InnerCall ==
  ASSUME NEW nd, NEW n \in Nat, NEW p, HasTokens(nd, n, p), NEW op, IsOpen(nd, n, op),
         op[Len(op)] # 0 \/ nd[op[Len(op)]].token.kind # "root"
  PROVE  Len(op) > 1
<1>1. op \in Seq(0 .. n) /\ op # << >> /\ op[1] = 0 /\ nd[0].token = Root /\ Root.kind = "root"
  BY DEF IsOpen, HasTokens, Root, Token
<1>2. Len(op) = 1 => op[Len(op)] = 0
  BY <1>1
<1>3. Len(op) \in Nat /\ Len(op) # 0
  BY <1>1
<1>4. QED
  BY <1>1, <1>2, <1>3

LEMMA CountIs ==
  ASSUME NEW nd, NEW nx, NEW op, NEW r \in Readings, Held(nd, nx, op, r)
  PROVE  Count(nx, r) \in Nat
<1>1. Len(r.placed) \in Nat
  BY DEF Readings
<1>2. QED
  BY <1>1 DEF Held, Count

\* The end tag of the innermost node closes the innermost element, when the page is nested.
LEMMA EndCloses ==
  ASSUME NEW nd, NEW nx \in PageToken, NEW op, NEW r \in Readings, Held(nd, nx, op, r),
         nx.kind = "end", nd[op[Len(op)]].token.kind = "start",
         nd[op[Len(op)]].token.tag = nx.tag
  PROVE  Len(op) > 1 /\ Ready(nd, Front(op), r)
<1>1. Count(nx, r) = Len(r.placed) /\ Count(nx, r) \in Nat
  BY CountIs DEF Count, IsNode
<1>2. /\ HasTokens(nd, Len(r.placed), r.placed) /\ InOrder(nd, Len(r.placed))
      /\ Agrees(nd, Len(r.placed), r) /\ IsOpen(nd, Len(r.placed), op)
  BY <1>1 DEF Held
<1>3. Len(op) > 1
  BY <1>1, <1>2, InnerCall
<1>4. PICK f : f = Front(op)
  OBVIOUS
<1>5. IsOpen(nd, Len(r.placed), f) /\ Len(f) = Len(op) - 1 /\ \A i \in 1 .. Len(op) - 1 : f[i] = op[i]
  <2>1. PICK n \in Nat : n = Len(r.placed)
    BY <1>1
  <2>2. IsOpen(nd, n, op)
    BY <1>2, <2>1
  <2>3. /\ IsOpen(nd, n, Front(op)) /\ Len(Front(op)) = Len(op) - 1
        /\ \A i \in 1 .. Len(op) - 1 : Front(op)[i] = op[i]
    BY <1>3, <2>2, FrontOpen
  <2>4. QED
    BY <1>4, <2>1, <2>3
<1>6. ASSUME r.ok PROVE OnStack(r, f)
  <2>1. PICK c \in Readings : /\ c.ok /\ r = Read(c, nx) /\ OnStack(c, op)
                              /\ AtElement(c, nd, op) \/ AtLeaf(c, nd, op)
    BY <1>6, HeldReading
  <2>2. r = ReadEnd(c, nx)
    BY <2>1 DEF Read
  <2>3. Element(c) # 0 /\ ElementToken(c).tag = nx.tag /\ r.open = Front(c.open) /\ c.open # << >>
    <3>1. Element(c) # 0 /\ ElementToken(c).tag = nx.tag
      BY <1>6, <2>2 DEF ReadEnd
    <3>2. c.open # << >>
      BY <3>1, ElementFacts
    <3>3. QED
      BY <2>2, <3>1, <3>2 DEF ReadEnd
  <2>4. AtElement(c, nd, op)
    BY <2>1, <2>3, ElementFacts DEF AtLeaf
  <2>5. c.open \in Seq(Nat)
    BY DEF Readings
  <2>6. /\ Len(r.open) = Len(c.open) - 1 /\ Len(c.open) \in Nat
        /\ \A i \in 1 .. Len(c.open) - 1 : r.open[i] = c.open[i]
        /\ DOMAIN r.open = 1 .. Len(c.open) - 1
    BY <2>3, <2>5, FrontFacts
  <2>7. \A i \in 1 .. Len(c.open) - 1 : i \in DOMAIN c.open /\ i + 1 \in 1 .. Len(op) - 1
    BY <2>4, <2>5, <2>6 DEF AtElement
  <2>8. \A i \in DOMAIN r.open : f[i + 1] = r.open[i]
    BY <1>5, <2>1, <2>6, <2>7 DEF OnStack
  <2>9. f[1] = 0
    BY <1>5 DEF IsOpen
  <2>10. Len(f) = Len(r.open) + 1
    BY <1>5, <2>4, <2>6 DEF AtElement
  <2>11. QED
    BY <2>8, <2>9, <2>10 DEF OnStack
<1>7. QED
  BY <1>2, <1>3, <1>4, <1>5, <1>6 DEF Ready, Over

\* An end tag that is not the innermost node's.
LEMMA EndLeaves ==
  ASSUME NEW nd, NEW nx \in PageToken, NEW op, NEW r \in Readings, Held(nd, nx, op, r),
         nx.kind = "end",
         ~ (nd[op[Len(op)]].token.kind = "start" /\ nd[op[Len(op)]].token.tag = nx.tag)
  PROVE  /\ op[Len(op)] # 0 => Len(op) > 1 /\ Held(nd, nx, Front(op), r)
         /\ (op[Len(op)] # 0 /\ nd[op[Len(op)]].parent # 0
             => nd[nd[op[Len(op)]].parent].token.tag # nx.tag)
            => Ready(nd, op, r)
<1>1. Count(nx, r) = Len(r.placed) /\ Count(nx, r) \in Nat
  BY CountIs DEF Count, IsNode
<1>2. /\ HasTokens(nd, Len(r.placed), r.placed) /\ InOrder(nd, Len(r.placed))
      /\ Agrees(nd, Len(r.placed), r) /\ IsOpen(nd, Len(r.placed), op)
  BY <1>1 DEF Held
<1>3. ASSUME NEW c \in Readings, c.ok, r.ok, r = Read(c, nx)
      PROVE  Element(c) # 0 /\ ElementToken(c).tag = nx.tag /\ ~ AtElement(c, nd, op)
  <2>1. r = ReadEnd(c, nx)
    BY <1>3 DEF Read
  <2>2. ReadEnd(c, nx).ok
    BY <1>3, <2>1
  <2>3. Element(c) # 0 /\ ElementToken(c).tag = nx.tag
    BY <2>2 DEF ReadEnd
  <2>4. QED
    BY <2>3, ElementFacts DEF AtElement
<1>4. ASSUME op[Len(op)] # 0
      PROVE  Len(op) > 1 /\ Held(nd, nx, Front(op), r)
  <2>1. Len(op) > 1
    BY <1>1, <1>2, <1>4, InnerCall
  <2>2. QED
    BY <1>3, <2>1, Leaves
<1>5. ASSUME op[Len(op)] # 0 /\ nd[op[Len(op)]].parent # 0
             => nd[nd[op[Len(op)]].parent].token.tag # nx.tag
      PROVE  ~ r.ok
  <2>1. SUFFICES ASSUME r.ok PROVE FALSE
    OBVIOUS
  <2>2. PICK c \in Readings : /\ c.ok /\ r = Read(c, nx)
                              /\ AtElement(c, nd, op) \/ AtLeaf(c, nd, op)
    BY <2>1, HeldReading
  <2>3. Element(c) # 0 /\ ElementToken(c).tag = nx.tag /\ AtLeaf(c, nd, op)
    BY <1>3, <2>1, <2>2
  <2>4. QED
    BY <1>5, <2>3 DEF AtLeaf
<1>6. QED
  BY <1>2, <1>4, <1>5 DEF Ready, Over

\* A tag that is no child of the innermost node ends it.
LEMMA StartLeaves ==
  ASSUME NEW nd, NEW nx \in PageToken, NEW op, NEW r \in Readings, Held(nd, nx, op, r),
         IsNode(nx), ~ is_child_tag(nd[op[Len(op)]].token, nx)
  PROVE  Len(op) > 1 /\ Held(nd, nx, Front(op), r)
<1>1. Count(nx, r) \in Nat
  BY CountIs
<1>2. HasTokens(nd, Count(nx, r), r.placed) /\ IsOpen(nd, Count(nx, r), op)
  BY DEF Held
<1>3. nd[op[Len(op)]].token.kind # "root"
  BY DEF is_child_tag
<1>4. Len(op) > 1
  BY <1>1, <1>2, <1>3, InnerCall
<1>5. ASSUME NEW c \in Readings, r.ok, r = Read(c, nx), AtElement(c, nd, op)
      PROVE  FALSE
  <2>1. r = ReadStart(c, nx)
    BY <1>5 DEF Read, IsNode
  <2>2. is_child_tag(ElementToken(c), nx)
    BY <1>5, <2>1 DEF ReadStart
  <2>3. QED
    BY <1>5, <2>2 DEF AtElement
<1>6. QED
  BY <1>4, <1>5, Leaves

\* A text or start tag that is a child of the innermost node becomes its last child.
LEMMA StartGrows ==
  ASSUME NEW nd, NEW nx \in PageToken, NEW op, NEW r \in Readings, Held(nd, nx, op, r),
         IsNode(nx), is_child_tag(nd[op[Len(op)]].token, nx),
         NEW g, g = Grown(nd, Count(nx, r), op[Len(op)], nx)
  PROVE  /\ Over(g, r)
         /\ Len(op) + 1 > MAX_HTML_STACK_DEPTH => Ready(g, op, r)
         /\ Len(op) + 1 <= MAX_HTML_STACK_DEPTH => Ready(g, Append(op, Len(r.placed)), r)
<1>1. PICK n \in Nat : n = Count(nx, r)
  BY CountIs
<1>2. /\ r.placed \in Seq(NodeToken) /\ r.parent \in Seq(Nat) /\ Len(r.parent) = Len(r.placed)
      /\ Len(r.placed) = n + 1 /\ r.placed[n + 1] = nx
  <2>1. r.placed \in Seq(NodeToken) /\ r.parent \in Seq(Nat) /\ Len(r.parent) = Len(r.placed)
    BY DEF Readings
  <2>2. Len(r.placed) > 0 /\ r.placed[Len(r.placed)] = nx /\ n = Len(r.placed) - 1
    BY <1>1 DEF Held, Count
  <2>3. Len(r.placed) = n + 1
    BY <1>1, <2>1, <2>2
  <2>4. QED
    BY <2>1, <2>2, <2>3
<1>3. /\ HasTokens(nd, n, r.placed) /\ InOrder(nd, n) /\ IsOpen(nd, n, op)
      /\ Agrees(nd, n, r)
  BY <1>1 DEF Held
<1>4. /\ op \in Seq(0 .. n) /\ Len(op) \in Nat \ {0} /\ Len(op) \in DOMAIN op
      /\ DOMAIN op = 1 .. Len(op)
      /\ \A i \in DOMAIN op : \A m \in op[i] + 1 .. n : nd[m].parent >= op[i]
  BY <1>3 DEF IsOpen
<1>5. PICK e \in 0 .. n : e = op[Len(op)]
  BY <1>4
<1>6. /\ HasTokens(g, n + 1, r.placed) /\ InOrder(g, n + 1)
      /\ \A m \in 1 .. n : g[m].parent = nd[m].parent
      /\ g[n + 1].parent = e
  <2>1. \A m \in e + 1 .. n : nd[m].parent >= e
    BY <1>4, <1>5
  <2>2. g = Grown(nd, n, e, r.placed[n + 1])
    BY <1>1, <1>2, <1>5
  <2>3. r.placed \in Seq(PageToken)
    BY <1>2 DEF NodeToken
  <2>4. n + 1 <= Len(r.placed)
    BY <1>2
  <2>5. QED
    BY <1>3, <2>1, <2>2, <2>3, <2>4, Grows
<1>7. IsOpen(g, n + 1, op) /\ IsOpen(g, n + 1, Append(op, n + 1))
  <2>1. op[Len(op)] \in 0 .. n /\ g[n + 1].parent = op[Len(op)]
    BY <1>5, <1>6
  <2>2. QED
    BY <1>3, <1>6, <2>1, GrowsOpen
<1>8. ASSUME r.ok
      PROVE  \E c \in Readings : /\ c.ok /\ r = ReadStart(c, nx) /\ OnStack(c, op)
                                 /\ Len(c.placed) = n /\ AtElement(c, nd, op)
  <2>1. PICK c \in Readings : /\ c.ok /\ r = Read(c, nx) /\ OnStack(c, op)
                              /\ Len(c.placed) = n
                              /\ AtElement(c, nd, op) \/ AtLeaf(c, nd, op)
    BY <1>1, <1>8, HeldReading
  <2>2. ~ AtLeaf(c, nd, op)
    BY DEF AtLeaf, is_child_tag, NodeToken, IsNode
  <2>3. r = ReadStart(c, nx)
    BY <2>1 DEF Read, IsNode
  <2>4. QED
    BY <2>1, <2>2, <2>3
<1>9. Agrees(g, n + 1, r)
  <2>1. SUFFICES ASSUME r.ok PROVE \A m \in 1 .. n + 1 : g[m].parent = r.parent[m]
    BY DEF Agrees
  <2>2. PICK c \in Readings : r = ReadStart(c, nx) /\ Len(c.placed) = n /\ AtElement(c, nd, op)
    BY <1>8, <2>1
  <2>3. c.parent \in Seq(Nat) /\ Len(c.parent) = n /\ Element(c) = e
    BY <1>5, <2>2 DEF Readings, AtElement
  <2>4. r.parent = Append(c.parent, e)
    BY <2>2, <2>3 DEF ReadStart
  <2>5. r.parent[n + 1] = e
    BY <2>3, <2>4
  <2>6. \A m \in 1 .. n : g[m].parent = r.parent[m]
    BY <1>3, <1>6, <2>1 DEF Agrees
  <2>7. \A m \in 1 .. n + 1 : m = n + 1 \/ m \in 1 .. n
    OBVIOUS
  <2>8. QED
    BY <1>6, <2>5, <2>6, <2>7
<1>10. Over(g, r)
  BY <1>2, <1>6, <1>9 DEF Over
<1>11. PICK q : q = Append(op, n + 1)
  OBVIOUS
<1>12. /\ Len(q) = Len(op) + 1 /\ q[Len(op) + 1] = n + 1
       /\ \A i \in 1 .. Len(op) : q[i] = op[i]
  BY <1>4, <1>11
<1>13. ASSUME r.ok
       PROVE  /\ Len(op) + 1 > MAX_HTML_STACK_DEPTH => OnStack(r, op)
              /\ Len(op) + 1 <= MAX_HTML_STACK_DEPTH => OnStack(r, q)
  <2>1. PICK c \in Readings : /\ c.ok /\ r = ReadStart(c, nx) /\ OnStack(c, op)
                              /\ Len(c.placed) = n /\ AtElement(c, nd, op)
    BY <1>8, <1>13
  <2>2. c.open \in Seq(Nat) /\ Len(c.open) \in Nat /\ DOMAIN c.open = 1 .. Len(c.open)
    BY DEF Readings
  <2>3. Len(op) = Len(c.open) + 1 /\ op[1] = 0 /\ \A i \in DOMAIN c.open : op[i + 1] = c.open[i]
    BY <2>1 DEF AtElement, OnStack
  <2>4. ReadStart(c, nx).ok
    BY <1>13, <2>1
  <2>5. nx.tag \in Childless \/ Len(c.open) + 2 <= MAX_HTML_STACK_DEPTH
    BY <2>4 DEF ReadStart
  <2>6. r.open = IF nx.tag \in Childless THEN c.open ELSE Append(c.open, n + 1)
    BY <2>1 DEF ReadStart
  <2>7. /\ q[1] = 0 /\ \A i \in DOMAIN c.open : q[i + 1] = c.open[i]
        /\ Len(q) = Len(c.open) + 2 /\ q[Len(q)] = n + 1 /\ q[Len(c.open) + 2] = n + 1
    <3>1. 1 \in 1 .. Len(op) /\ \A i \in DOMAIN c.open : i + 1 \in 1 .. Len(op)
      BY <2>2, <2>3
    <3>2. Len(op) + 1 = Len(c.open) + 2
      BY <2>2, <2>3
    <3>3. q[1] = op[1] /\ \A i \in DOMAIN c.open : q[i + 1] = op[i + 1]
      BY <1>12, <3>1
    <3>4. Len(q) = Len(c.open) + 2 /\ q[Len(c.open) + 2] = n + 1
      BY <1>12, <3>2
    <3>5. q[Len(q)] = n + 1
      BY <3>4
    <3>6. QED
      BY <2>3, <3>3, <3>4, <3>5
  <2>8. CASE nx.tag \in Childless
    <3>1. r.open = c.open
      BY <2>6, <2>8
    <3>2. OnStack(r, op)
      BY <2>3, <3>1 DEF OnStack
    <3>3. OnStack(r, q)
      BY <1>2, <2>7, <2>8, <3>1 DEF OnStack
    <3>4. QED
      BY <3>2, <3>3
  <2>9. CASE nx.tag \notin Childless
    <3>1. ~ (Len(op) + 1 > MAX_HTML_STACK_DEPTH)
      BY <2>2, <2>3, <2>5, <2>9, HtmlTreeAssumption
    <3>2. r.open = Append(c.open, n + 1)
      BY <2>6, <2>9
    <3>3. /\ Len(r.open) = Len(c.open) + 1
          /\ \A i \in DOMAIN r.open : i \in DOMAIN c.open \/ i = Len(c.open) + 1
          /\ \A i \in DOMAIN c.open : r.open[i] = c.open[i]
          /\ r.open[Len(c.open) + 1] = n + 1
      BY <2>2, <3>2
    <3>4. q[(Len(c.open) + 1) + 1] = n + 1
      BY <2>2, <2>7
    <3>5. \A i \in DOMAIN r.open : q[i + 1] = r.open[i]
      BY <2>7, <3>3, <3>4
    <3>6. Len(q) = Len(r.open) + 1
      BY <2>2, <2>7, <3>3
    <3>7. OnStack(r, q)
      BY <2>7, <3>5, <3>6 DEF OnStack
    <3>8. QED
      BY <3>1, <3>7
  <2>10. QED
    BY <2>8, <2>9
<1>14. QED
  BY <1>2, <1>7, <1>10, <1>11, <1>13 DEF Ready

\* At the end of the page all is placed, and the calls return.
LEMMA EndOfPageOver ==
  ASSUME NEW nd, NEW op, NEW r \in Readings, Held(nd, EndOfPage, op, r)
  PROVE  Over(nd, r) /\ (Len(op) > 1 => Held(nd, EndOfPage, Front(op), r))
<1>1. Count(EndOfPage, r) = Len(r.placed)
  BY DEF Count, IsNode, EndOfPage, Token
<1>2. Over(nd, r)
  BY <1>1 DEF Held, Over
<1>3. \A t \in PageToken : t # EndOfPage
  BY NotEndOfPage
<1>4. ASSUME Len(op) > 1 PROVE Held(nd, EndOfPage, Front(op), r)
  BY <1>3, <1>4, Leaves
<1>5. QED
  BY <1>2, <1>4

-----------------------------------------------------------------------------
(* Ancestors is a recursive function: that there is one is shown by what it  *)
(* comes to in a tree in order, the nodes all that follows is below.         *)
IsAbove(t, above) ==
  above = [m \in DOMAIN t.node |->
             LET p == t.node[m].parent IN IF p \in {NULL, 0} THEN {} ELSE {p} \cup above[p]]

LEMMA AncestorsChosen ==
  ASSUME NEW t, NEW n
  PROVE  Ancestors(t, n) = (CHOOSE above : IsAbove(t, above))[n]
BY DEF Ancestors, IsAbove

LessThan == {p \in Nat \X Nat : p[1] < p[2]}

\* A set of numbers has a least one.
LEMMA LeastExists ==
  ASSUME NEW I \in SUBSET Nat, I # {}
  PROVE  \E i \in I : \A j \in I : i <= j
<1>1. IsWellFoundedOn(LessThan, Nat)
  BY NatLessThanWellFounded DEF OpToRel, LessThan
<1>2. PICK i \in I : \A j \in I : ~ (<<j, i>> \in LessThan)
  BY <1>1, WFMin
<1>3. ASSUME NEW j \in I PROVE i <= j
  <2>1. <<j, i>> \in Nat \X Nat /\ <<j, i>>[1] = j /\ <<j, i>>[2] = i
    OBVIOUS
  <2>2. ~ (j < i)
    BY <1>2, <2>1 DEF LessThan
  <2>3. QED
    BY <2>2
<1>4. QED
  BY <1>3

\* The nodes above k but for the root: all behind them, up to k, is below them.
Up(nd, k) == {x \in 1 .. k - 1 : \A j \in x + 1 .. k : nd[j].parent >= x}

LEMMA UpParent ==
  ASSUME NEW nd, NEW n \in Nat, InOrder(nd, n), NEW k \in 1 .. n
  PROVE  /\ nd[k].parent = 0 => Up(nd, k) = {}
         /\ nd[k].parent # 0 => Up(nd, k) = {nd[k].parent} \cup Up(nd, nd[k].parent)
<1>0. \A m \in 1 .. n : /\ nd[m].parent \in 0 .. m - 1
                        /\ \A j \in nd[m].parent + 1 .. m - 1 : nd[j].parent >= nd[m].parent
  BY DEF InOrder
<1>1. ASSUME nd[k].parent = 0
      PROVE  Up(nd, k) = {}
  BY <1>1 DEF Up
<1>2. ASSUME nd[k].parent # 0
      PROVE  Up(nd, k) = {nd[k].parent} \cup Up(nd, nd[k].parent)
  <2>1. PICK q \in 1 .. k - 1 : q = nd[k].parent
    BY <1>0, <1>2
  <2>2. \A j \in q + 1 .. k : nd[j].parent >= q
    <3>1. \A j \in q + 1 .. k - 1 : nd[j].parent >= q
      BY <1>0, <2>1
    <3>2. \A j \in q + 1 .. k : j = k \/ j \in q + 1 .. k - 1
      BY <2>1
    <3>3. QED
      BY <2>1, <3>1, <3>2
  <2>3. ASSUME NEW x \in Up(nd, k) PROVE x = q \/ x \in Up(nd, q)
    <3>1. x \in 1 .. k - 1 /\ \A j \in x + 1 .. k : nd[j].parent >= x
      BY DEF Up
    <3>2. q >= x
      BY <2>1, <3>1
    <3>3. \A j \in x + 1 .. q : j \in x + 1 .. k
      BY <2>1
    <3>4. QED
      BY <2>1, <3>1, <3>2, <3>3 DEF Up
  <2>4. q \in Up(nd, k)
    BY <2>1, <2>2 DEF Up
  <2>5. ASSUME NEW x \in Up(nd, q) PROVE x \in Up(nd, k)
    <3>1. x \in 1 .. q - 1 /\ \A j \in x + 1 .. q : nd[j].parent >= x
      BY DEF Up
    <3>2. \A j \in x + 1 .. k : j \in x + 1 .. q \/ j \in q + 1 .. k
      BY <2>1, <3>1
    <3>3. \A j \in q + 1 .. k : nd[j].parent >= x
      <4>1. \A j \in q + 1 .. k : nd[j].parent \in Nat
        BY <1>0, <2>1
      <4>2. QED
        BY <2>1, <2>2, <3>1, <4>1
    <3>4. QED
      BY <2>1, <3>1, <3>2, <3>3 DEF Up
  <2>6. QED
    BY <2>1, <2>3, <2>4, <2>5
<1>3. QED
  BY <1>1, <1>2

LEMMA AncestorsAre ==
  ASSUME NEW t, NEW n \in Nat, NEW p, HasTokens(t.node, n, p), InOrder(t.node, n)
  PROVE  \A m \in 0 .. n : Ancestors(t, m) = Up(t.node, m)
<1>. DEFINE nd == t.node
<1>. DEFINE witness == [k \in 0 .. n |-> Up(nd, k)]
<1>1. DOMAIN nd = 0 .. n /\ nd[0].parent = NULL
  BY DEF HasTokens, IsMap
<1>2. \A k \in 1 .. n : nd[k].parent \in 0 .. k - 1 /\ nd[k].parent \in 0 .. n /\ nd[k].parent # NULL
  BY DEF InOrder, NULL
<1>3. Up(nd, 0) = {}
  BY DEF Up
<1>4. \A k \in 0 .. n : Up(nd, k) = LET q == nd[k].parent
                                    IN  IF q \in {NULL, 0} THEN {} ELSE {q} \cup witness[q]
  <2>1. ASSUME NEW k \in 1 .. n
        PROVE  Up(nd, k) = LET q == nd[k].parent
                           IN  IF q \in {NULL, 0} THEN {} ELSE {q} \cup witness[q]
    BY <1>2, UpParent
  <2>2. \A k \in 0 .. n : k = 0 \/ k \in 1 .. n
    OBVIOUS
  <2>3. QED
    BY <1>1, <1>3, <2>1, <2>2
<1>5. witness = [k \in DOMAIN nd |-> LET q == nd[k].parent
                                    IN  IF q \in {NULL, 0} THEN {} ELSE {q} \cup witness[q]]
  BY <1>1, <1>4
<1>6. IsAbove(t, witness)
  BY <1>5 DEF IsAbove
<1>7. PICK above : above = CHOOSE a : IsAbove(t, a)
  OBVIOUS
<1>8. IsAbove(t, above)
  BY <1>6, <1>7
<1>9. /\ above[0] = {}
      /\ \A k \in 1 .. n : above[k] = IF nd[k].parent = 0 THEN {}
                                      ELSE {nd[k].parent} \cup above[nd[k].parent]
  <2>1. \A k \in 0 .. n : above[k] = LET q == nd[k].parent
                                     IN  IF q \in {NULL, 0} THEN {} ELSE {q} \cup above[q]
    BY <1>1, <1>8 DEF IsAbove
  <2>2. above[0] = {}
    BY <1>1, <2>1, 0 \in 0 .. n
  <2>3. ASSUME NEW k \in 1 .. n
        PROVE  above[k] = IF nd[k].parent = 0 THEN {} ELSE {nd[k].parent} \cup above[nd[k].parent]
    <3>1. PICK q : q = nd[k].parent
      OBVIOUS
    <3>2. q # NULL /\ k \in 0 .. n
      BY <1>2, <3>1
    <3>3. above[k] = IF q \in {NULL, 0} THEN {} ELSE {q} \cup above[q]
      BY <2>1, <3>1, <3>2
    <3>4. QED
      BY <3>1, <3>2, <3>3
  <2>4. QED
    BY <2>2, <2>3
<1>. DEFINE Bad == {k \in 0 .. n : above[k] # Up(nd, k)}
<1>10. Bad = {}
  <2>1. SUFFICES ASSUME Bad # {} PROVE FALSE
    OBVIOUS
  <2>2. PICK b \in Bad : \A j \in Bad : b <= j
    <3>1. Bad \in SUBSET Nat
      OBVIOUS
    <3>2. QED
      BY <2>1, <3>1, LeastExists
  <2>3. b \in 1 .. n /\ above[b] # Up(nd, b)
    BY <1>3, <1>9, <2>2
  <2>4. nd[b].parent # 0 => above[nd[b].parent] = Up(nd, nd[b].parent)
    <3>1. nd[b].parent \in 0 .. n /\ ~ (b <= nd[b].parent)
      BY <1>2, <2>3
    <3>2. nd[b].parent \notin Bad
      <4>. HIDE DEF Bad
      <4>1. QED
        BY <2>2, <3>1
    <3>3. QED
      BY <3>1, <3>2
  <2>5. QED
    BY <1>9, <2>3, <2>4, UpParent
<1>11. QED
  BY <1>7, <1>10, AncestorsChosen

\* is_ancestor_end_tag finds the parent.
LEMMA ParentIsAncestor ==
  ASSUME NEW t, NEW n \in Nat, NEW p, HasTokens(t.node, n, p), InOrder(t.node, n),
         NEW m \in 1 .. n, t.node[m].parent # 0
  PROVE  t.node[m].parent \in Ancestors(t, m)
<1>1. m \in 0 .. n
  OBVIOUS
<1>2. Ancestors(t, m) = Up(t.node, m)
  BY <1>1, AncestorsAre
<1>3. QED
  BY <1>2, UpParent

-----------------------------------------------------------------------------
(* The steps of the parser.                                                  *)
IsTree(t) ==
  /\ t = [node |-> t.node, next_input_char |-> t.next_input_char,
          next_input_node |-> t.next_input_node, stack_depth |-> t.stack_depth,
          nodes_heap |-> t.nodes_heap, attributes_heap |-> t.attributes_heap,
          string_heap |-> t.string_heap]
  /\ t.next_input_node \in PageToken \cup {EndOfPage}

PageType == [tokens : Seq(PageToken), kind : [begin : Seq(PageToken), more : SUBSET PageToken],
             refused : BOOLEAN, read : Readings]

\* The inductive invariant: between two tokens all is placed but the one read ahead.
NestingInv ==
  /\ IsTree(tree) /\ page \in PageType
  /\ pc \in {"idle", "parsing", "parsed", "done"}
  /\ pc = "idle" => tree.node = RootNode /\ tree.stack_depth = 0
  /\ pc = "parsing" => /\ tree.stack_depth = Len(open)
                       /\ Held(tree.node, tree.next_input_node, open, page.read)
  /\ pc \in {"parsed", "done"} => Over(tree.node, page.read)

\* What a token scanned leaves for the calls op.
Scans(t, op, s, pg) ==
  /\ IsTree(s) /\ s.node = t.node /\ s.stack_depth = t.stack_depth /\ pg \in PageType
  /\ Held(s.node, s.next_input_node, op, pg.read)
Failed(t, f) == IsTree(f) /\ f.node = t.node
WithToken(pg, token) == [pg EXCEPT !.tokens = Append(@, token), !.read = Read(@, token)]

LEMMA ScannedTree ==
  ASSUME NEW t, IsTree(t), NEW token \in PageToken \cup {EndOfPage}
  PROVE  /\ IsTree(Scanned(t, token))
         /\ Scanned(t, token).node = t.node
         /\ Scanned(t, token).stack_depth = t.stack_depth
         /\ Scanned(t, token).next_input_node = token
BY DEF IsTree, Scanned

LEMMA FailedTree ==
  ASSUME NEW t, IsTree(t), NEW token \in PageToken \cup {EndOfPage},
         NEW f \in ScanFails(t, token)
  PROVE  Failed(t, f)
BY DEF IsTree, ScanFails, Failed

LEMMA TokensTyped ==
  ASSUME NEW pg \in PageType
  PROVE  Tokens(pg) \subseteq PageToken
BY DEF PageType, Tokens

LEMMA WithTokenTyped ==
  ASSUME NEW pg \in PageType, NEW token \in PageToken
  PROVE  WithToken(pg, token) \in PageType /\ WithToken(pg, token).read = Read(pg.read, token)
<1>1. pg.read \in Readings /\ pg.tokens \in Seq(PageToken)
  BY DEF PageType
<1>2. PICK r \in Readings : r = Read(pg.read, token)
  BY <1>1, ReadTyped
<1>3. PICK s : s = Append(pg.tokens, token)
  OBVIOUS
<1>4. WithToken(pg, token) = [pg EXCEPT !.tokens = s, !.read = r]
  BY <1>2, <1>3 DEF WithToken
<1>5. s \in Seq(PageToken)
  BY <1>1, <1>3
<1>6. QED
  BY <1>2, <1>4, <1>5 DEF PageType

LEMMA ScanCases ==
  ASSUME NEW t, IsTree(t), NEW pg \in PageType, NEW op, Ready(t.node, op, pg.read)
  PROVE  /\ Scans(t, op, Scanned(t, EndOfPage), pg)
         /\ \A token \in Tokens(pg) :
              /\ Scans(t, op, Scanned(t, token), WithToken(pg, token))
              /\ \A f \in ScanFails(t, token) : Failed(t, f)
<1>1. pg.read \in Readings
  BY DEF PageType
<1>2. Scans(t, op, Scanned(t, EndOfPage), pg)
  <2>1. Held(t.node, EndOfPage, op, pg.read)
    BY <1>1, ScanHolds
  <2>2. QED
    BY <2>1, ScannedTree DEF Scans
<1>3. ASSUME NEW token \in Tokens(pg)
      PROVE  /\ Scans(t, op, Scanned(t, token), WithToken(pg, token))
             /\ \A f \in ScanFails(t, token) : Failed(t, f)
  <2>1. token \in PageToken
    BY TokensTyped
  <2>2. Held(t.node, token, op, Read(pg.read, token))
    BY <1>1, <2>1, ScanHolds
  <2>3. Scans(t, op, Scanned(t, token), WithToken(pg, token))
    BY <2>1, <2>2, ScannedTree, WithTokenTyped DEF Scans
  <2>4. QED
    BY <2>1, <2>3, FailedTree
<1>4. QED
  BY <1>2, <1>3

\* How a step ends, whatever it scanned.
LEMMA ReturnKeeps ==
  ASSUME NestingInv, pc = "parsing", NEW t, NEW pg, Len(open) > 1,
         Scans(tree, Front(open), t, pg), Return(t, pg)
  PROVE  NestingInv'
<1>1. Len(open) # 1 /\ Len(Front(open)) = Len(open) - 1
  <2>1. page.read \in Readings
    BY DEF NestingInv, PageType
  <2>2. PICK n \in Nat : n = Count(tree.next_input_node, page.read)
    BY <2>1, CountIs DEF NestingInv
  <2>3. IsOpen(tree.node, n, open)
    BY <2>2 DEF NestingInv, Held
  <2>4. PICK k \in Nat : k = Len(open)
    BY <2>3 DEF IsOpen
  <2>5. k > 1 => k # 1
    OBVIOUS
  <2>6. Len(Front(open)) = Len(open) - 1
    BY <2>3, FrontOpen
  <2>7. QED
    BY <2>4, <2>5, <2>6
<1>2. /\ open' = Front(open) /\ tree' = [t EXCEPT !.stack_depth = @ - 1] /\ pc' = "parsing"
      /\ page' = pg
  BY <1>1 DEF Return
<1>3. /\ IsTree(t) /\ t.stack_depth = Len(open) /\ pg \in PageType
      /\ Held(t.node, t.next_input_node, Front(open), pg.read)
  BY DEF NestingInv, Scans
<1>4. /\ IsTree(tree') /\ tree'.node = t.node /\ tree'.next_input_node = t.next_input_node
      /\ tree'.stack_depth = Len(open) - 1
  BY <1>2, <1>3 DEF IsTree
<1>5. QED
  BY <1>1, <1>2, <1>3, <1>4 DEF NestingInv

LEMMA GoOnKeeps ==
  ASSUME NestingInv, pc = "parsing", NEW t, NEW pg, Scans(tree, open, t, pg), GoOn(t, pg)
  PROVE  NestingInv'
BY DEF NestingInv, Scans, GoOn

LEMMA FailsKeeps ==
  ASSUME NestingInv, NEW t, IsTree(t), Over(t.node, page.read), Fails(t)
  PROVE  NestingInv'
BY DEF NestingInv, Fails

\* The call of the new node returns at once when it is too deep.
LEMMA CallKeeps ==
  ASSUME NestingInv, pc = "parsing", NEW t, NEW s, NEW pg, NEW child,
         t.stack_depth = Len(open),
         Scans(t, IF Len(open) + 1 > MAX_HTML_STACK_DEPTH THEN open ELSE Append(open, child), s, pg),
         Call(s, child, pg)
  PROVE  NestingInv'
<1>1. /\ IsTree(s) /\ s.stack_depth = Len(open) /\ pg \in PageType /\ page' = pg /\ pc' = "parsing"
  BY DEF Scans, Call
<1>2. CASE Len(open) + 1 > MAX_HTML_STACK_DEPTH
  <2>1. tree' = s /\ open' = open
    BY <1>1, <1>2 DEF Call
  <2>2. Held(s.node, s.next_input_node, open, pg.read)
    BY <1>2 DEF Scans
  <2>3. QED
    BY <1>1, <2>1, <2>2 DEF NestingInv
<1>3. CASE ~ (Len(open) + 1 > MAX_HTML_STACK_DEPTH)
  <2>1. tree' = [s EXCEPT !.stack_depth = @ + 1] /\ open' = Append(open, child)
    BY <1>1, <1>3 DEF Call
  <2>2. Held(s.node, s.next_input_node, Append(open, child), pg.read)
    BY <1>3 DEF Scans
  <2>3. /\ IsTree(tree') /\ tree'.node = s.node /\ tree'.next_input_node = s.next_input_node
        /\ tree'.stack_depth = Len(open) + 1
    BY <1>1, <2>1 DEF IsTree
  <2>4. Len(Append(open, child)) = Len(open) + 1
    <3>1. \E S : open \in Seq(S)
      BY DEF NestingInv, Held, IsOpen
    <3>2. QED
      BY <3>1
  <2>5. QED
    BY <1>1, <2>1, <2>2, <2>3, <2>4 DEF NestingInv
<1>4. QED
  BY <1>2, <1>3

-----------------------------------------------------------------------------
(* The invariant holds at first, and every step keeps it.                    *)
LEMMA InitNesting == Init => NestingInv
<1>1. SUFFICES ASSUME Init PROVE NestingInv
  OBVIOUS
<1>2. /\ IsTree(tree) /\ tree.node = RootNode /\ tree.stack_depth = 0
  BY <1>1 DEF Init, html_tree_create, IsTree
<1>3. NothingRead \in Readings
  BY DEF NothingRead, Readings
<1>4. NoPage \in PageType
  BY <1>3 DEF NoPage, PageType
<1>5. QED
  BY <1>1, <1>2, <1>4 DEF Init, NestingInv

LEMMA BeginReady ==
  Ready(RootNode, << 0 >>, NothingRead)
<1>1. /\ NothingRead.placed = << >> /\ NothingRead.open = << >> /\ Len(NothingRead.placed) = 0
  BY DEF NothingRead
<1>2. RootNode \in [0 .. 0 -> NodeType] /\ RootNode[0] = NewNode(Root, NULL)
  <2>1. NewNode(Root, NULL) \in NodeType
    BY DEF NewNode, NodeType
  <2>2. 0 .. 0 = {0}
    OBVIOUS
  <2>3. QED
    BY <2>1, <2>2 DEF RootNode
<1>3. HasTokens(RootNode, 0, NothingRead.placed)
  BY <1>2 DEF HasTokens, IsMap, NewNode
<1>4. InOrder(RootNode, 0)
  <2>1. \A m \in 0 .. 0 : DOMAIN RootNode[m].child = {}
    BY <1>2 DEF NewNode
  <2>2. QED
    BY <2>1 DEF InOrder
<1>5. IsOpen(RootNode, 0, << 0 >>)
  BY DEF IsOpen
<1>6. OnStack(NothingRead, << 0 >>)
  BY <1>1 DEF OnStack
<1>7. QED
  BY <1>1, <1>3, <1>4, <1>5, <1>6 DEF Ready, Over, Agrees

LEMMA ParseNesting ==
  ASSUME NestingInv, NEW kind \in Pages, Parse(kind)
  PROVE  NestingInv'
<1>1. IsTree(tree) /\ tree.node = RootNode /\ tree.stack_depth = 0
  BY DEF NestingInv, Parse
<1>2. PICK t : t = [tree EXCEPT !.next_input_char = 0]
  OBVIOUS
<1>3. IsTree(t) /\ t.node = RootNode /\ t.stack_depth = 0
  BY <1>1, <1>2 DEF IsTree
<1>4. PICK pg : pg = [NoPage EXCEPT !.kind = kind]
  OBVIOUS
<1>5. pg \in PageType /\ pg.read = NothingRead
  <2>1. NothingRead \in Readings
    BY DEF NothingRead, Readings
  <2>2. kind \in [begin : Seq(PageToken), more : SUBSET PageToken]
    BY HtmlParserAssumption
  <2>3. pg = [tokens |-> << >>, kind |-> kind, refused |-> FALSE, read |-> NothingRead]
    BY <1>4 DEF NoPage
  <2>4. QED
    BY <2>1, <2>2, <2>3 DEF PageType
<1>6. Ready(t.node, << 0 >>, pg.read) /\ Over(RootNode, pg.read)
  BY <1>3, <1>5, BeginReady DEF Ready
<1>7. ASSUME NEW s, IsTree(s), s.node = RootNode, tree' = s, pc' = "parsed", page' = pg
      PROVE  NestingInv'
  BY <1>5, <1>6, <1>7 DEF NestingInv
<1>8. ASSUME NEW s, NEW p, Scans(t, << 0 >>, s, p), tree' = [s EXCEPT !.stack_depth = @ + 1],
             pc' = "parsing", open' = << 0 >>, page' = p
      PROVE  NestingInv'
  <2>1. /\ IsTree(s) /\ s.stack_depth = 0 /\ p \in PageType
        /\ Held(s.node, s.next_input_node, << 0 >>, p.read)
    BY <1>3, <1>8 DEF Scans
  <2>2. /\ IsTree(tree') /\ tree'.node = s.node /\ tree'.next_input_node = s.next_input_node
        /\ tree'.stack_depth = 1
    BY <1>8, <2>1 DEF IsTree
  <2>3. Len(<< 0 >>) = 1
    OBVIOUS
  <2>4. QED
    BY <1>8, <2>1, <2>2, <2>3 DEF NestingInv
<1>9. CASE ~ is_clean_tree(tree)
  <2>1. tree' = tree /\ pc' = "parsed" /\ page' = pg
    BY <1>4, <1>9 DEF Parse
  <2>2. QED
    BY <1>1, <1>7, <2>1
<1>10. CASE is_clean_tree(tree)
  <2>1. \/ \E s, p : Scans(t, << 0 >>, s, p) /\ tree' = [s EXCEPT !.stack_depth = @ + 1]
                     /\ pc' = "parsing" /\ open' = << 0 >> /\ page' = p
        \/ \E s : Failed(t, s) /\ tree' = s /\ pc' = "parsed" /\ page' = pg
    <3>1. /\ Scans(t, << 0 >>, Scanned(t, EndOfPage), pg)
          /\ \A token \in Tokens(pg) :
               /\ Scans(t, << 0 >>, Scanned(t, token), WithToken(pg, token))
               /\ \A f \in ScanFails(t, token) : Failed(t, f)
      BY <1>3, <1>5, <1>6, ScanCases
    <3>2. QED
      BY <1>2, <1>4, <1>10, <3>1 DEF Parse, Scan, WithToken
  <2>2. QED
    BY <1>3, <1>7, <1>8, <2>1 DEF Failed
<1>11. QED
  BY <1>9, <1>10

\* What a step of html_tree_parse_sub_tree begins with.
LEMMA ParsingFacts ==
  ASSUME NestingInv, pc = "parsing"
  PROVE  /\ IsTree(tree) /\ page \in PageType /\ page.read \in Readings
         /\ tree.stack_depth = Len(open)
         /\ Held(tree.node, next, open, page.read)
         /\ next \in PageToken \cup {EndOfPage}
         /\ node = open[Len(open)]
         /\ HasTokens(tree.node, Count(next, page.read), page.read.placed)
         /\ InOrder(tree.node, Count(next, page.read))
         /\ IsOpen(tree.node, Count(next, page.read), open)
         /\ Count(next, page.read) \in Nat /\ Len(open) \in Nat \ {0}
         /\ node \in 0 .. Count(next, page.read)
<1>1. /\ IsTree(tree) /\ page \in PageType /\ page.read \in Readings
      /\ tree.stack_depth = Len(open)
      /\ Held(tree.node, next, open, page.read)
      /\ next \in PageToken \cup {EndOfPage}
      /\ node = open[Len(open)]
  BY DEF NestingInv, PageType, IsTree, next, node, Last
<1>2. PICK n \in Nat : n = Count(next, page.read)
  BY <1>1, CountIs
<1>3. HasTokens(tree.node, n, page.read.placed) /\ InOrder(tree.node, n) /\ IsOpen(tree.node, n, open)
  BY <1>1, <1>2 DEF Held
<1>4. open \in Seq(0 .. n) /\ open # << >>
  BY <1>3 DEF IsOpen
<1>5. Len(open) \in Nat \ {0} /\ open[Len(open)] \in 0 .. n
  BY <1>4
<1>6. QED
  BY <1>1, <1>2, <1>3, <1>5

LEMMA AtEndOfPageNesting ==
  ASSUME NestingInv, AtEndOfPage
  PROVE  NestingInv'
<1>1. pc = "parsing" /\ next = EndOfPage /\ Return(tree, page)
  BY DEF AtEndOfPage
<1>2. /\ IsTree(tree) /\ page \in PageType /\ page.read \in Readings
      /\ tree.stack_depth = Len(open) /\ Len(open) \in Nat \ {0}
      /\ Held(tree.node, EndOfPage, open, page.read)
  BY <1>1, ParsingFacts
<1>3. /\ Over(tree.node, page.read)
      /\ Len(open) > 1 => Held(tree.node, EndOfPage, Front(open), page.read)
  BY <1>2, EndOfPageOver
<1>4. CASE Len(open) = 1
  <2>1. tree' = tree /\ pc' = "parsed" /\ page' = page
    BY <1>1, <1>4 DEF Return
  <2>2. QED
    BY <1>2, <1>3, <2>1 DEF NestingInv
<1>5. CASE Len(open) # 1
  <2>1. Len(open) > 1
    <3>1. PICK k \in Nat \ {0} : k = Len(open)
      BY <1>2
    <3>2. k # 1 => k > 1
      OBVIOUS
    <3>3. QED
      BY <1>5, <3>1, <3>2
  <2>2. Scans(tree, Front(open), tree, page)
    BY <1>1, <1>2, <1>3, <2>1 DEF Scans, next
  <2>3. QED
    BY <1>1, <2>1, <2>2, ReturnKeeps
<1>6. QED
  BY <1>4, <1>5

LEMMA EndTagNesting ==
  ASSUME NestingInv, EndTag
  PROVE  NestingInv'
<1>1. pc = "parsing" /\ next.kind = "end"
  BY DEF EndTag
<1>2. /\ IsTree(tree) /\ page \in PageType /\ page.read \in Readings
      /\ Held(tree.node, next, open, page.read)
      /\ node = open[Len(open)]
      /\ HasTokens(tree.node, Count(next, page.read), page.read.placed)
      /\ InOrder(tree.node, Count(next, page.read))
      /\ Count(next, page.read) \in Nat /\ node \in 0 .. Count(next, page.read)
  BY <1>1, ParsingFacts
<1>3. next \in PageToken /\ ~ IsNode(next) /\ Count(next, page.read) = Len(page.read.placed)
  <2>1. next \in PageToken \cup {EndOfPage}
    BY <1>1, ParsingFacts
  <2>2. EndOfPage.kind # "end"
    BY DEF EndOfPage, Token
  <2>3. QED
    BY <1>1, <2>1, <2>2 DEF IsNode, Count
<1>4. Over(tree.node, page.read)
  BY <1>2, <1>3 DEF Held, Over
<1>5. CASE is_this_end_tag(tree, node, next)
  <2>1. Len(open) > 1 /\ Ready(tree.node, Front(open), page.read)
    BY <1>1, <1>2, <1>3, <1>5, EndCloses DEF is_this_end_tag
  <2>2. /\ Scans(tree, Front(open), Scanned(tree, EndOfPage), page)
        /\ \A token \in Tokens(page) :
             /\ Scans(tree, Front(open), Scanned(tree, token), WithToken(page, token))
             /\ \A f \in ScanFails(tree, token) : Failed(tree, f)
    BY <1>2, <2>1, ScanCases
  <2>3. \/ \E t, pg : Scans(tree, Front(open), t, pg) /\ Return(t, pg)
        \/ \E f : Failed(tree, f) /\ Fails(f)
    BY <1>5, <2>2 DEF EndTag, Scan, WithToken
  <2>4. QED
    BY <1>1, <1>4, <2>1, <2>3, ReturnKeeps, FailsKeeps DEF Failed
<1>6. CASE ~ is_this_end_tag(tree, node, next) /\ is_ancestor_end_tag(tree, node, next)
  <2>1. node # 0 /\ Return(tree, page)
    BY <1>6 DEF EndTag, is_ancestor_end_tag
  <2>2. Len(open) > 1 /\ Held(tree.node, next, Front(open), page.read)
    BY <1>1, <1>2, <1>3, <1>6, <2>1, EndLeaves DEF is_this_end_tag
  <2>3. Scans(tree, Front(open), tree, page)
    BY <1>2, <2>2 DEF Scans, next
  <2>4. QED
    BY <1>1, <2>1, <2>2, <2>3, ReturnKeeps
<1>7. CASE ~ is_this_end_tag(tree, node, next) /\ ~ is_ancestor_end_tag(tree, node, next)
  <2>1. ASSUME node # 0, tree.node[node].parent # 0
        PROVE  tree.node[tree.node[node].parent].token.tag # next.tag
    <3>1. PICK n \in Nat : n = Count(next, page.read)
      BY <1>2
    <3>2. node \in 1 .. n
      BY <1>2, <2>1, <3>1
    <3>3. tree.node[node].parent \in Ancestors(tree, node)
      BY <1>2, <2>1, <3>1, <3>2, ParentIsAncestor
    <3>4. QED
      BY <1>7, <2>1, <3>3 DEF is_ancestor_end_tag
  <2>2. Ready(tree.node, open, page.read)
    BY <1>1, <1>2, <1>3, <1>7, <2>1, EndLeaves DEF is_this_end_tag
  <2>3. /\ Scans(tree, open, Scanned(tree, EndOfPage), page)
        /\ \A token \in Tokens(page) :
             /\ Scans(tree, open, Scanned(tree, token), WithToken(page, token))
             /\ \A f \in ScanFails(tree, token) : Failed(tree, f)
    BY <1>2, <2>2, ScanCases
  <2>4. \/ \E t, pg : Scans(tree, open, t, pg) /\ GoOn(t, pg)
        \/ \E f : Failed(tree, f) /\ Fails(f)
    BY <1>7, <2>3 DEF EndTag, Scan, WithToken
  <2>5. QED
    BY <1>1, <1>4, <2>4, GoOnKeeps, FailsKeeps DEF Failed
<1>8. QED
  BY <1>5, <1>6, <1>7

LEMMA AppendedIsGrown ==
  ASSUME NEW t, IsTree(t), NEW n \in Nat, NEW p, HasTokens(t.node, n, p), NEW e \in 0 .. n,
         NEW token
  PROVE  /\ next_tag_code(t) = n + 1
         /\ IsTree(append_child(t, e, token))
         /\ append_child(t, e, token).stack_depth = t.stack_depth
         /\ append_child(t, e, token).node = Grown(t.node, n, e, token)
<1>1. DOMAIN t.node = 0 .. n
  BY DEF HasTokens, IsMap
<1>2. next_tag_code(t) = n + 1
  <2>1. Cardinality(0 .. n) = n + 1
    BY FS_Interval
  <2>2. QED
    BY <1>1, <2>1 DEF next_tag_code
<1>3. (0 .. n) \cup {n + 1} = 0 .. n + 1
  OBVIOUS
<1>4. append_child(t, e, token) = [t EXCEPT !.node = Grown(t.node, n, e, token)]
  BY <1>1, <1>2, <1>3 DEF append_child, Grown
<1>5. QED
  BY <1>2, <1>4 DEF IsTree

LEMMA StartTagNesting ==
  ASSUME NestingInv, StartTag
  PROVE  NestingInv'
<1>1. pc = "parsing" /\ IsNode(next)
  BY DEF StartTag, IsNode
<1>2. /\ IsTree(tree) /\ page \in PageType /\ page.read \in Readings
      /\ tree.stack_depth = Len(open)
      /\ Held(tree.node, next, open, page.read)
      /\ node = open[Len(open)]
      /\ HasTokens(tree.node, Count(next, page.read), page.read.placed)
      /\ Count(next, page.read) \in Nat /\ node \in 0 .. Count(next, page.read)
  BY <1>1, ParsingFacts
<1>3. next \in PageToken
  <2>1. next \in PageToken \cup {EndOfPage}
    BY <1>1, ParsingFacts
  <2>2. EndOfPage.kind \notin {"start", "text"}
    BY DEF EndOfPage, Token
  <2>3. QED
    BY <1>1, <2>1, <2>2 DEF IsNode
<1>4. CASE ~ is_child_tag(tree.node[node].token, next)
  <2>1. Len(open) > 1 /\ Held(tree.node, next, Front(open), page.read)
    BY <1>1, <1>2, <1>3, <1>4, StartLeaves
  <2>2. Scans(tree, Front(open), tree, page)
    BY <1>2, <2>1 DEF Scans, next
  <2>3. Return(tree, page)
    BY <1>4 DEF StartTag
  <2>4. QED
    BY <1>1, <2>1, <2>2, <2>3, ReturnKeeps
<1>5. CASE is_child_tag(tree.node[node].token, next)
  <2>1. PICK n \in Nat : n = Count(next, page.read)
    BY <1>2
  <2>2. PICK t : t = append_child(tree, node, next)
    OBVIOUS
  <2>3. /\ next_tag_code(tree) = n + 1 /\ IsTree(t) /\ t.stack_depth = Len(open)
        /\ t.node = Grown(tree.node, n, node, next)
    <3>1. IsTree(tree) /\ HasTokens(tree.node, n, page.read.placed) /\ node \in 0 .. n
      BY <1>2, <2>1
    <3>2. /\ next_tag_code(tree) = n + 1
          /\ IsTree(append_child(tree, node, next))
          /\ append_child(tree, node, next).stack_depth = tree.stack_depth
          /\ append_child(tree, node, next).node = Grown(tree.node, n, node, next)
      BY <3>1, AppendedIsGrown
    <3>3. QED
      BY <1>2, <2>2, <3>2
  <2>4. Len(page.read.placed) = n + 1
    <3>1. Len(page.read.placed) \in Nat
      BY <1>2 DEF Readings
    <3>2. n = Len(page.read.placed) - 1
      BY <1>1, <2>1 DEF Count
    <3>3. QED
      BY <3>1, <3>2
  <2>5. PICK op : op = IF Len(open) + 1 > MAX_HTML_STACK_DEPTH THEN open ELSE Append(open, n + 1)
    OBVIOUS
  <2>6. Over(t.node, page.read) /\ Ready(t.node, op, page.read)
    <3>1. /\ Over(t.node, page.read)
          /\ Len(open) + 1 > MAX_HTML_STACK_DEPTH => Ready(t.node, open, page.read)
          /\ Len(open) + 1 <= MAX_HTML_STACK_DEPTH
               => Ready(t.node, Append(open, Len(page.read.placed)), page.read)
      BY <1>1, <1>2, <1>3, <1>5, <2>1, <2>3, StartGrows
    <3>2. Len(open) + 1 > MAX_HTML_STACK_DEPTH \/ Len(open) + 1 <= MAX_HTML_STACK_DEPTH
      <4>1. PICK k \in Nat : k = Len(open)
        BY <1>1, ParsingFacts
      <4>2. k + 1 > MAX_HTML_STACK_DEPTH \/ k + 1 <= MAX_HTML_STACK_DEPTH
        BY HtmlTreeAssumption
      <4>3. QED
        BY <4>1, <4>2
    <3>3. QED
      BY <2>4, <2>5, <3>1, <3>2
  <2>7. /\ Scans(t, op, Scanned(t, EndOfPage), page)
        /\ \A token \in Tokens(page) :
             /\ Scans(t, op, Scanned(t, token), WithToken(page, token))
             /\ \A f \in ScanFails(t, token) : Failed(t, f)
    BY <1>2, <2>3, <2>6, ScanCases
  <2>8. \/ \E s, pg : Scans(t, op, s, pg) /\ Call(s, n + 1, pg)
        \/ \E f : Failed(t, f) /\ Fails(f)
    BY <1>5, <2>2, <2>3, <2>7 DEF StartTag, Scan, WithToken
  <2>9. ASSUME NEW s, NEW pg, Scans(t, op, s, pg), Call(s, n + 1, pg)
        PROVE  NestingInv'
    BY <1>1, <2>3, <2>5, <2>9, CallKeeps
  <2>10. ASSUME NEW f, Failed(t, f), Fails(f)
         PROVE  NestingInv'
    BY <2>6, <2>10, FailsKeeps DEF Failed
  <2>11. QED
    BY <2>8, <2>9, <2>10
<1>6. QED
  BY <1>4, <1>5

LEMMA NextNesting == NestingInv /\ [Next]_vars => NestingInv'
<1>1. SUFFICES ASSUME NestingInv, [Next]_vars PROVE NestingInv'
  OBVIOUS
<1>2. CASE UNCHANGED vars
  BY <1>1, <1>2 DEF vars, NestingInv
<1>3. CASE \E kind \in Pages : Parse(kind)
  BY <1>1, <1>3, ParseNesting
<1>4. CASE ParseTooLong
  <2>1. /\ IsTree(tree) /\ tree.node = RootNode /\ tree' = tree /\ pc' = "done"
        /\ page' = [NoPage EXCEPT !.refused = TRUE]
    BY <1>1, <1>4 DEF ParseTooLong, NestingInv
  <2>2. NothingRead \in Readings
    BY DEF NothingRead, Readings
  <2>3. page' = [tokens |-> << >>, kind |-> [begin |-> << >>, more |-> {}], refused |-> TRUE,
                 read |-> NothingRead]
    BY <2>1 DEF NoPage
  <2>4. page' \in PageType /\ page'.read = NothingRead
    BY <2>2, <2>3 DEF PageType
  <2>5. Over(RootNode, NothingRead)
    BY BeginReady DEF Ready
  <2>6. QED
    BY <2>1, <2>4, <2>5 DEF NestingInv
<1>5. CASE AtEndOfPage
  BY <1>1, <1>5, AtEndOfPageNesting
<1>6. CASE EndTag
  BY <1>1, <1>6, EndTagNesting
<1>7. CASE StartTag
  BY <1>1, <1>7, StartTagNesting
<1>8. CASE Extract
  BY <1>1, <1>8 DEF Extract, NestingInv
<1>9. CASE Produce
  <2>1. IsTree(tree) /\ tree' = html_tree_clean(tree) /\ pc' = "idle" /\ page' = NoPage
    BY <1>1, <1>9 DEF Produce, NestingInv
  <2>2. IsTree(tree') /\ tree'.node = RootNode /\ tree'.stack_depth = 0
    BY <2>1 DEF IsTree, html_tree_clean
  <2>3. NothingRead \in Readings
    BY DEF NothingRead, Readings
  <2>4. NoPage \in PageType
    BY <2>3 DEF NoPage, PageType
  <2>5. QED
    BY <2>1, <2>2, <2>4 DEF NestingInv
<1>10. QED
  BY <1>1, <1>2, <1>3, <1>4, <1>5, <1>6, <1>7, <1>8, <1>9 DEF Next

LEMMA NestingFollows == NestingInv => Nesting
<1>1. SUFFICES ASSUME NestingInv, pc \in {"parsed", "done"}
               PROVE  /\ DOMAIN tree.node = Nodes \cup {0}
                      /\ \A n \in Nodes : tree.node[n].token = Placed[n]
                      /\ InPageOrder
                      /\ page.read.ok => \A n \in Nodes : ParentOf(n) = page.read.parent[n]
  BY DEF Nesting
<1>2. Over(tree.node, page.read)
  BY <1>1 DEF NestingInv
<1>3. PICK n \in Nat : n = Len(page.read.placed)
  BY <1>1 DEF NestingInv, PageType, Readings
<1>4. HasTokens(tree.node, n, Placed) /\ InOrder(tree.node, n) /\ Agrees(tree.node, n, page.read)
  BY <1>2, <1>3 DEF Over, Placed
<1>5. Nodes = 1 .. n /\ Nodes \cup {0} = 0 .. n
  BY <1>3 DEF Nodes, Placed
<1>6. InPageOrder
  BY <1>4, <1>5 DEF InOrder, InPageOrder, ParentOf, ChildrenOf
<1>7. QED
  BY <1>4, <1>5, <1>6 DEF HasTokens, IsMap, Agrees, ParentOf

\* The tree of a page has its texts and start tags in the order of the page, and nests as it
\* does when its tags are closed inside out (html_tree_parse_sub_tree).
THEOREM TreeIsPage == Spec => []Nesting
<1>1. Init => NestingInv
  BY InitNesting
<1>2. NestingInv /\ [Next]_vars => NestingInv'
  BY NextNesting
<1>3. NestingInv => Nesting
  BY NestingFollows
<1>4. QED
  BY <1>1, <1>2, <1>3, PTL DEF Spec

-----------------------------------------------------------------------------
(* A visit of a tree in order.                                               *)
\* All below node e is passed, m is the last of it.
Passed(nd, n, e, m) ==
  /\ m \in e .. n
  /\ \A k \in e + 1 .. m : nd[k].parent >= e
  /\ m < n => nd[m + 1].parent < e

\* The node behind e in the order of the page is its first child, when it is below e at all.
LEMMA FirstChild ==
  ASSUME NEW t, NEW n \in Nat, NEW p, HasTokens(t.node, n, p), InOrder(t.node, n),
         NEW e \in 0 .. n
  PROVE  \/ /\ first_child(t, e) = e + 1 /\ e < n /\ t.node[e + 1].parent = e
         \/ /\ first_child(t, e) = NULL /\ Passed(t.node, n, e, e)
            /\ e < n => t.node[e + 1].parent # e
<1>. DEFINE nd == t.node
<1>. DEFINE c == nd[e].child
<1>1. c \in Seq(Nat) /\ DOMAIN c = 1 .. Len(c) /\ Len(c) \in Nat
  BY DEF HasTokens, IsMap, NodeType
<1>2. /\ \A i \in DOMAIN c : c[i] \in 1 .. n /\ nd[c[i]].parent = e
      /\ \A i \in DOMAIN c : \A j \in 1 .. i - 1 : c[j] < c[i]
  BY DEF InOrder
<1>3. \A m \in 1 .. n : /\ nd[m].parent \in 0 .. m - 1
                        /\ \A k \in nd[m].parent + 1 .. m - 1 : nd[k].parent >= nd[m].parent
                        /\ \E i \in DOMAIN nd[nd[m].parent].child : nd[nd[m].parent].child[i] = m
  BY DEF InOrder
<1>4. CASE c = << >>
  <2>1. ASSUME e < n PROVE nd[e + 1].parent < e
    <3>1. e + 1 \in 1 .. n /\ nd[e + 1].parent \in 0 .. e
      BY <1>3, <2>1
    <3>2. nd[e + 1].parent # e
      BY <1>3, <1>4, <3>1
    <3>3. QED
      BY <3>1, <3>2
  <2>2. first_child(t, e) = NULL
    BY <1>4 DEF first_child
  <2>3. QED
    BY <2>1, <2>2 DEF Passed
<1>5. CASE c # << >>
  <2>1. 1 \in DOMAIN c
    BY <1>1, <1>5
  <2>2. PICK x \in 1 .. n : x = c[1] /\ nd[x].parent = e
    BY <1>2, <2>1
  <2>3. e + 1 <= x /\ e + 1 \in 1 .. n
    BY <1>3, <2>2
  <2>4. nd[e + 1].parent = e
    <3>1. CASE x = e + 1
      BY <2>2, <3>1
    <3>2. CASE x # e + 1
      <4>1. e + 1 \in nd[x].parent + 1 .. x - 1
        BY <2>2, <2>3, <3>2
      <4>2. nd[e + 1].parent >= e /\ nd[e + 1].parent \in 0 .. e
        BY <1>3, <2>2, <2>3, <4>1
      <4>3. QED
        BY <4>2
    <3>3. QED
      BY <3>1, <3>2
  <2>5. PICK i \in DOMAIN c : c[i] = e + 1
    BY <1>3, <2>3, <2>4
  <2>6. i = 1
    <3>1. i # 1 => 1 \in 1 .. i - 1
      BY <1>1
    <3>2. i # 1 => c[1] < c[i]
      BY <1>2, <3>1
    <3>3. QED
      BY <2>2, <2>3, <2>5, <3>2
  <2>7. first_child(t, e) = e + 1
    BY <1>5, <2>5, <2>6 DEF first_child
  <2>8. QED
    BY <2>3, <2>4, <2>7
<1>6. QED
  BY <1>4, <1>5

\* The node behind all that is below e is the next child of its parent, when it is one at all.
IsNext(t, n, e, m, x) ==
  /\ e = 0 => m = n /\ x = NULL
  /\ e # 0 =>
       \/ x = m + 1 /\ m < n /\ t.node[m + 1].parent = t.node[e].parent
       \/ /\ x = NULL /\ Passed(t.node, n, t.node[e].parent, m)
          /\ m < n => t.node[m + 1].parent # t.node[e].parent

LEMMA NextChild ==
  ASSUME NEW t, NEW n \in Nat, NEW p, HasTokens(t.node, n, p), InOrder(t.node, n),
         NEW e \in 0 .. n, NEW m, Passed(t.node, n, e, m)
  PROVE  IsNext(t, n, e, m, next_child(t, e))
<1>. DEFINE nd == t.node
<1>1. \A k \in 1 .. n : /\ nd[k].parent \in 0 .. k - 1
                        /\ \A j \in nd[k].parent + 1 .. k - 1 : nd[j].parent >= nd[k].parent
                        /\ \E i \in DOMAIN nd[nd[k].parent].child : nd[nd[k].parent].child[i] = k
  BY DEF InOrder
<1>2. /\ m \in e .. n
      /\ \A k \in e + 1 .. m : nd[k].parent >= e
      /\ m < n => nd[m + 1].parent < e
  BY DEF Passed
<1>3. m < n => m + 1 \in 1 .. n
  BY <1>2
<1>4. ASSUME e = 0 PROVE m = n /\ next_child(t, e) = NULL
  <2>1. ~ (m < n)
    BY <1>1, <1>2, <1>3, <1>4
  <2>2. QED
    BY <1>2, <1>4, <2>1 DEF next_child
<1>5. CASE e # 0
  <2>1. PICK q \in 0 .. e - 1 : q = nd[e].parent
    BY <1>1, <1>5
  <2>2. PICK c : c = nd[q].child
    OBVIOUS
  <2>3. /\ c \in Seq(Nat) /\ DOMAIN c = 1 .. Len(c) /\ Len(c) \in Nat
        /\ \A i \in DOMAIN c : c[i] \in 1 .. n /\ nd[c[i]].parent = q
        /\ \A i \in DOMAIN c : \A j \in 1 .. i - 1 : c[j] < c[i]
    <3>1. q \in 0 .. n
      BY <2>1
    <3>2. nd[q] \in NodeType
      BY <3>1 DEF HasTokens, IsMap
    <3>3. c \in Seq(Nat)
      BY <2>2, <3>2 DEF NodeType
    <3>4. /\ \A i \in DOMAIN c : c[i] \in 1 .. n /\ nd[c[i]].parent = q
          /\ \A i \in DOMAIN c : \A j \in 1 .. i - 1 : c[j] < c[i]
      BY <2>2, <3>1 DEF InOrder
    <3>5. QED
      BY <3>3, <3>4
  <2>4. PICK i \in DOMAIN c : c[i] = e
    BY <1>1, <1>5, <2>1, <2>2
  <2>5. \A j \in DOMAIN c : c[j] = e => j = i
    <3>1. ASSUME NEW j \in DOMAIN c, c[j] = e PROVE j = i
      <4>1. j < i => j \in 1 .. i - 1
        BY <2>3
      <4>2. i < j => i \in 1 .. j - 1
        BY <2>3
      <4>3. QED
        BY <2>3, <2>4, <3>1, <4>1, <4>2
    <3>2. QED
      BY <3>1
  <2>6. next_child(t, e) = IF i = Len(c) THEN NULL ELSE c[i + 1]
    <3>. DEFINE siblings == t.node[t.node[e].parent].child
    <3>. DEFINE which == CHOOSE j \in DOMAIN siblings : siblings[j] = e
    <3>1. siblings = c
      BY <2>1, <2>2
    <3>2. which = i
      BY <2>4, <2>5, <3>1
    <3>3. next_child(t, e) = IF which = Len(siblings) THEN NULL ELSE siblings[which + 1]
      BY <1>5 DEF next_child
    <3>. HIDE DEF siblings, which
    <3>4. QED
      BY <3>1, <3>2, <3>3
  \* A child of q behind e stands behind m.
  <2>7. \A j \in DOMAIN c : j > i => c[j] > m
    <3>1. ASSUME NEW j \in DOMAIN c, j > i PROVE c[j] > m
      <4>1. i \in 1 .. j - 1
        BY <2>3, <3>1
      <4>2. c[j] > e /\ c[j] \in 1 .. n /\ nd[c[j]].parent = q
        BY <2>3, <2>4, <4>1
      <4>3. ~ (c[j] \in e + 1 .. m)
        BY <1>2, <2>1, <4>2
      <4>4. QED
        BY <1>2, <4>2, <4>3
    <3>2. QED
      BY <3>1
  \* What stands behind m is below q only as its child.
  <2>8. ASSUME m < n, nd[m + 1].parent >= q PROVE nd[m + 1].parent = q
    <3>1. PICK x : x = nd[m + 1].parent
      OBVIOUS
    <3>2. x \in Nat /\ x < e /\ \A k \in x + 1 .. m : nd[k].parent >= x
      BY <1>1, <1>2, <1>3, <2>8, <3>1
    <3>3. e \in x + 1 .. m
      BY <1>2, <3>2
    <3>4. QED
      BY <2>1, <2>8, <3>1, <3>2, <3>3
  <2>9. CASE m < n /\ nd[m + 1].parent = q
    <3>1. PICK j \in DOMAIN c : c[j] = m + 1
      BY <1>1, <1>3, <2>1, <2>2, <2>9
    <3>2. j > i
      <4>1. j < i => j \in 1 .. i - 1
        BY <2>3
      <4>2. ~ (j < i) /\ j # i
        BY <1>2, <2>3, <2>4, <3>1, <4>1
      <4>3. QED
        BY <2>3, <4>2
    <3>3. i + 1 \in DOMAIN c /\ i # Len(c) /\ c[i + 1] > m
      <4>1. i + 1 \in DOMAIN c /\ i # Len(c) /\ i + 1 > i
        BY <2>3, <3>2
      <4>2. QED
        BY <2>7, <4>1
    <3>4. i + 1 = j
      <4>1. i + 1 < j => i + 1 \in 1 .. j - 1
        BY <2>3
      <4>2. i + 1 < j => c[i + 1] < m + 1 /\ c[i + 1] \in Nat
        BY <2>3, <3>1, <3>3, <4>1
      <4>3. ~ (i + 1 < j)
        BY <1>2, <3>3, <4>2
      <4>4. QED
        BY <2>3, <3>2, <4>3
    <3>5. next_child(t, e) = m + 1
      BY <2>6, <3>1, <3>3, <3>4
    <3>6. QED
      BY <1>5, <2>1, <2>9, <3>5 DEF IsNext
  <2>10. CASE ~ (m < n /\ nd[m + 1].parent = q)
    <3>1. i = Len(c)
      <4>1. SUFFICES ASSUME i # Len(c) PROVE FALSE
        OBVIOUS
      <4>2. i + 1 \in DOMAIN c /\ i + 1 > i
        BY <2>3, <4>1
      <4>3. PICK x \in 1 .. n : x = c[i + 1] /\ x > m /\ nd[x].parent = q
        BY <2>3, <2>7, <4>2
      <4>4. m < n /\ m + 1 <= x
        BY <1>2, <4>3
      <4>5. nd[m + 1].parent >= q
        <5>1. CASE x = m + 1
          BY <2>1, <4>3, <5>1
        <5>2. CASE x # m + 1
          <6>1. m + 1 \in nd[x].parent + 1 .. x - 1
            BY <1>2, <2>1, <4>3, <4>4, <5>2
          <6>2. QED
            BY <1>1, <4>3, <6>1
        <5>3. QED
          BY <5>1, <5>2
      <4>6. QED
        BY <2>8, <2>10, <4>4, <4>5
    <3>2. next_child(t, e) = NULL
      BY <2>6, <3>1
    <3>3. \A k \in q + 1 .. m : nd[k].parent >= q
      <4>1. ASSUME NEW k \in q + 1 .. m PROVE nd[k].parent >= q
        <5>1. CASE k \in q + 1 .. e - 1
          BY <1>1, <1>5, <2>1, <5>1
        <5>2. CASE k = e
          BY <2>1, <5>2
        <5>3. CASE k \in e + 1 .. m
          <6>1. k \in 1 .. n /\ nd[k].parent \in Nat /\ nd[k].parent >= e
            BY <1>1, <1>2, <5>3
          <6>2. QED
            BY <2>1, <6>1
        <5>4. QED
          BY <1>2, <2>1, <5>1, <5>2, <5>3
      <4>2. QED
        BY <4>1
    <3>4. m < n => nd[m + 1].parent < q
      <4>1. m < n => nd[m + 1].parent \in Nat
        BY <1>1, <1>3
      <4>2. QED
        BY <2>1, <2>8, <2>10, <4>1
    <3>5. m \in q .. n
      BY <1>2, <2>1
    <3>6. QED
      BY <1>5, <2>1, <2>10, <3>2, <3>3, <3>4, <3>5 DEF Passed, IsNext
  <2>11. QED
    BY <1>5, <2>9, <2>10 DEF IsNext
<1>6. QED
  BY <1>4, <1>5 DEF IsNext

\* All that is below a node ends somewhere.
LEMMA PassedExists ==
  ASSUME NEW nd, NEW n \in Nat, NEW e \in 0 .. n, \A k \in 1 .. n : nd[k].parent \in Nat
  PROVE  \E m : Passed(nd, n, e, m)
<1>. DEFINE Outside == {k \in e + 1 .. n : nd[k].parent < e}
<1>1. CASE Outside = {}
  <2>1. Passed(nd, n, e, n)
    <3>1. ASSUME NEW k \in e + 1 .. n PROVE nd[k].parent >= e
      <4>1. nd[k].parent \in Nat /\ ~ (nd[k].parent < e)
        BY <1>1
      <4>2. QED
        BY <4>1
    <3>2. QED
      BY <3>1 DEF Passed
  <2>2. QED
    BY <2>1
<1>2. CASE Outside # {}
  <2>1. PICK g \in Outside : \A k \in Outside : g <= k
    <3>1. Outside \in SUBSET Nat
      OBVIOUS
    <3>2. QED
      BY <1>2, <3>1, LeastExists
  <2>2. g \in e + 1 .. n /\ nd[g].parent < e
    BY <2>1
  <2>3. ASSUME NEW k \in e + 1 .. g - 1 PROVE nd[k].parent >= e
    <3>1. k \in e + 1 .. n /\ ~ (g <= k) /\ nd[k].parent \in Nat
      BY <2>2
    <3>2. k \notin Outside
      BY <2>1, <3>1
    <3>3. QED
      BY <3>1, <3>2
  <2>4. PICK m \in e .. n : m = g - 1
    BY <2>2
  <2>5. Passed(nd, n, e, m)
    BY <2>2, <2>3, <2>4 DEF Passed
  <2>6. QED
    BY <2>5
<1>3. QED
  BY <1>1, <1>2

\* What the visitors return, and the states of a visit with the data D.
Results(D) == [ret : {"VISIT_NORMAL", "VISIT_SKIP_CHILD", "VISIT_FINISH"}, data : D]
Visits(n, D) == [calls : Seq(0 .. n), at : {"start", "finish"}, data : D]

\* Two visitors as a function.
Visitors(n, D) == [{"start", "finish"} \X (0 .. n) \X D -> Results(D)]
By(V, v) == V[<<v.at, Last(v.calls), v.data>>]

LEMMA VisitorTyped ==
  ASSUME NEW n \in Nat, NEW D, NEW V \in Visitors(n, D), NEW v \in Visits(n, D), v.calls # << >>
  PROVE  /\ Last(v.calls) \in 0 .. n /\ Last(v.calls) = v.calls[Len(v.calls)]
         /\ By(V, v) \in Results(D)
<1>1. v.calls \in Seq(0 .. n) /\ v.at \in {"start", "finish"} /\ v.data \in D
  BY DEF Visits
<1>2. Last(v.calls) \in 0 .. n /\ Last(v.calls) = v.calls[Len(v.calls)]
  BY <1>1 DEF Last
<1>3. QED
  BY <1>1, <1>2 DEF Visitors, By

\* A step of html_node_visit by V, and the steps of a visit.
StepBy(t, V, v) == IF v.calls = << >> THEN v ELSE html_node_visit(t, v, By(V, v))
Follows(f, t, n, D, d, V) ==
  /\ f[0] = Visit(<< 0 >>, "start", d)
  /\ \A k \in 1 .. MostVisits(t) : f[k - 1] \in Visits(n, D) => f[k] = StepBy(t, V, f[k - 1])

LEMMA ChildTyped ==
  ASSUME NEW n \in Nat, NEW D, NEW calls \in Seq(0 .. n), NEW child \in 0 .. n \cup {NULL},
         NEW d \in D
  PROVE  VisitChild(calls, child, d) \in Visits(n, D)
<1>1. CASE child = NULL
  BY <1>1 DEF VisitChild, Visit, Visits
<1>2. CASE child # NULL
  <2>1. PICK c : c = Append(calls, child)
    OBVIOUS
  <2>2. c \in Seq(0 .. n)
    BY <1>2, <2>1
  <2>3. QED
    BY <1>2, <2>1, <2>2 DEF VisitChild, Visit, Visits
<1>3. QED
  BY <1>1, <1>2

LEMMA StepTyped ==
  ASSUME NEW t, NEW n \in Nat, NEW p, HasTokens(t.node, n, p), InOrder(t.node, n),
         NEW D, NEW V \in Visitors(n, D), NEW v \in Visits(n, D)
  PROVE  StepBy(t, V, v) \in Visits(n, D)
<1>1. CASE v.calls = << >>
  BY <1>1 DEF StepBy
<1>2. CASE v.calls # << >>
  <2>1. PICK r \in Results(D) : r = By(V, v)
    BY <1>2, VisitorTyped
  <2>2. PICK e \in 0 .. n : e = Last(v.calls)
    BY <1>2, VisitorTyped
  <2>3. first_child(t, e) \in 0 .. n \cup {NULL}
    <3>1. e < n => e + 1 \in 0 .. n
      OBVIOUS
    <3>2. QED
      BY <3>1, FirstChild
  <2>4. next_child(t, e) \in 0 .. n \cup {NULL}
    <3>1. \A k \in 1 .. n : t.node[k].parent \in Nat
      BY DEF InOrder
    <3>2. PICK m : Passed(t.node, n, e, m)
      BY <3>1, PassedExists
    <3>3. m < n => m + 1 \in 0 .. n
      BY <3>2 DEF Passed
    <3>4. IsNext(t, n, e, m, next_child(t, e))
      BY <3>2, NextChild
    <3>5. QED
      BY <3>3, <3>4 DEF IsNext
  <2>5. v.calls \in Seq(0 .. n) /\ v.at \in {"start", "finish"} /\ r.data \in D
    BY DEF Visits, Results
  <2>6. Front(v.calls) \in Seq(0 .. n)
    BY <1>2, <2>5, FrontFacts
  <2>7. << >> \in Seq(0 .. n)
    OBVIOUS
  <2>8. Visit(<< >>, v.at, r.data) \in Visits(n, D)
    BY <2>5, <2>7 DEF Visit, Visits
  <2>9. VisitChild(v.calls, first_child(t, e), r.data) \in Visits(n, D)
    BY <2>3, <2>5, ChildTyped
  <2>10. VisitChild(Front(v.calls), next_child(t, e), r.data) \in Visits(n, D)
    BY <2>4, <2>5, <2>6, ChildTyped
  <2>11. html_node_visit(t, v, r) \in Visits(n, D)
    BY <2>2, <2>8, <2>9, <2>10 DEF html_node_visit
  <2>12. QED
    BY <1>2, <2>1, <2>11 DEF StepBy
<1>3. QED
  BY <1>1, <1>2

\* A function is iterated as often as one likes.
Iterates(f, S, a, g, K) == f \in [0 .. K -> S] /\ f[0] = a /\ \A k \in 1 .. K : f[k] = g[f[k - 1]]

LEMMA Iterated ==
  ASSUME NEW S, NEW a \in S, NEW g \in [S -> S], NEW K \in Nat
  PROVE  \E f : Iterates(f, S, a, g, K)
<1>. DEFINE Is(f, j) == f[0] = a /\ \A k \in 1 .. j : f[k] = g[f[k - 1]]
<1>. DEFINE Bad == {j \in Nat : ~ \E f \in [0 .. j -> S] : Is(f, j)}
<1>1. SUFFICES ASSUME Bad # {} PROVE FALSE
  BY DEF Iterates
<1>2. PICK b \in Bad : \A j \in Bad : b <= j
  <2>1. Bad \in SUBSET Nat
    OBVIOUS
  <2>2. QED
    BY <1>1, <2>1, LeastExists
<1>3. b # 0
  <2>1. [k \in 0 .. 0 |-> a] \in [0 .. 0 -> S] /\ Is([k \in 0 .. 0 |-> a], 0)
    OBVIOUS
  <2>2. 0 \notin Bad
    BY <2>1
  <2>3. QED
    BY <2>2
<1>4. PICK c \in Nat : b = c + 1
  <2>1. b - 1 \in Nat /\ b = (b - 1) + 1
    BY <1>3
  <2>2. QED
    BY <2>1
<1>5. PICK f \in [0 .. c -> S] : Is(f, c)
  <2>1. c \notin Bad
    <3>. HIDE DEF Bad
    <3>1. ~ (b <= c)
      BY <1>4
    <3>2. QED
      BY <1>2, <3>1
  <2>2. QED
    BY <2>1
<1>6. PICK h : h = [k \in 0 .. c + 1 |-> IF k = c + 1 THEN g[f[c]] ELSE f[k]]
  OBVIOUS
<1>7. /\ c + 1 \in 0 .. c + 1 /\ c \in 0 .. c
      /\ \A k \in 0 .. c : k \in 0 .. c + 1 /\ k # c + 1
      /\ \A k \in 0 .. c + 1 : k = c + 1 \/ k \in 0 .. c
      /\ \A k \in 1 .. c + 1 : k = c + 1 \/ k \in 1 .. c
      /\ \A k \in 1 .. c : k \in 0 .. c /\ k - 1 \in 0 .. c
  OBVIOUS
<1>8. h[c + 1] = g[f[c]] /\ \A k \in 0 .. c : h[k] = f[k]
  BY <1>6, <1>7
<1>9. h \in [0 .. c + 1 -> S]
  <2>1. \A k \in 0 .. c + 1 : h[k] \in S
    BY <1>7, <1>8
  <2>2. QED
    BY <1>6, <2>1
<1>10. Is(h, c + 1)
  <2>1. h[0] = a
    BY <1>5, <1>8, 0 \in 0 .. c
  <2>2. ASSUME NEW k \in 1 .. c PROVE h[k] = g[h[k - 1]]
    BY <1>5, <1>7, <1>8
  <2>3. h[c + 1] = g[h[(c + 1) - 1]]
    <3>1. (c + 1) - 1 = c
      OBVIOUS
    <3>2. QED
      BY <1>7, <1>8, <3>1
  <2>4. QED
    BY <1>7, <2>1, <2>2, <2>3
<1>11. QED
  BY <1>2, <1>4, <1>9, <1>10

LEMMA MostVisitsIs ==
  ASSUME NEW t, NEW n \in Nat, NEW p, HasTokens(t.node, n, p)
  PROVE  MostVisits(t) = 2 * n + 2 /\ MostVisits(t) \in Nat
<1>1. DOMAIN t.node = 0 .. n
  BY DEF HasTokens, IsMap
<1>2. Cardinality(0 .. n) = n + 1
  BY FS_Interval
<1>3. QED
  BY <1>1, <1>2 DEF MostVisits, next_tag_code

\* There is a visit.
LEMMA VisitExists ==
  ASSUME NEW t, NEW n \in Nat, NEW p, HasTokens(t.node, n, p), InOrder(t.node, n),
         NEW D, NEW d \in D, NEW V \in Visitors(n, D)
  PROVE  \E f \in [0 .. MostVisits(t) -> Visits(n, D)] : Follows(f, t, n, D, d, V)
<1>1. PICK K \in Nat : K = MostVisits(t)
  BY MostVisitsIs
<1>2. PICK a \in Visits(n, D) : a = Visit(<< 0 >>, "start", d)
  <2>1. << 0 >> \in Seq(0 .. n)
    OBVIOUS
  <2>2. QED
    BY <2>1 DEF Visit, Visits
<1>3. PICK g : g = [v \in Visits(n, D) |-> StepBy(t, V, v)]
  OBVIOUS
<1>4. g \in [Visits(n, D) -> Visits(n, D)] /\ \A v \in Visits(n, D) : g[v] = StepBy(t, V, v)
  BY <1>3, StepTyped
<1>5. PICK f \in [0 .. K -> Visits(n, D)] : f[0] = a /\ \A k \in 1 .. K : f[k] = g[f[k - 1]]
  <2>1. PICK S : S = Visits(n, D)
    OBVIOUS
  <2>2. a \in S /\ g \in [S -> S]
    BY <1>4, <2>1
  <2>3. PICK f : Iterates(f, S, a, g, K)
    BY <2>2, Iterated
  <2>4. QED
    BY <2>1, <2>3 DEF Iterates
<1>6. \A k \in 1 .. K : f[k] = StepBy(t, V, f[k - 1])
  <2>1. \A k \in 1 .. K : k - 1 \in 0 .. K
    OBVIOUS
  <2>2. QED
    BY <1>4, <1>5, <2>1
<1>7. QED
  BY <1>1, <1>2, <1>5, <1>6 DEF Follows

-----------------------------------------------------------------------------
(* What visitors keep from spot to spot holds when the visit is over.       *)
\* A spot of a visit: a visitor is called for a node when all up to the node last is met or
\* left out.  It is the same for all calls that stand there.
Spot(at, e, m, d) == [at |-> at, node |-> e, last |-> m, data |-> d]

\* J holds at the spots that follow when the call of e returns; or the visit is over with F.
Leaving(nd, n, e, m, d, J, F) ==
  /\ e = 0 => d \in F
  /\ e # 0 /\ Passed(nd, n, nd[e].parent, m) => Spot("finish", nd[e].parent, m, d) \in J
  /\ e # 0 /\ m < n /\ nd[m + 1].parent = nd[e].parent => Spot("start", m + 1, m + 1, d) \in J

StartKeeps(nd, n, D, V, J, F) ==
  \A e \in 0 .. n, d \in D : Spot("start", e, e, d) \in J =>
    LET r == V[<<"start", e, d>>]
    IN  /\ r.ret = "VISIT_FINISH" => r.data \in F
        /\ r.ret = "VISIT_NORMAL" =>
             /\ Passed(nd, n, e, e) => Spot("finish", e, e, r.data) \in J
             /\ e < n /\ nd[e + 1].parent = e => Spot("start", e + 1, e + 1, r.data) \in J
        /\ r.ret = "VISIT_SKIP_CHILD" =>
             \A m \in e .. n : Passed(nd, n, e, m) => Leaving(nd, n, e, m, r.data, J, F)

FinishKeeps(nd, n, D, V, J, F) ==
  \A e \in 0 .. n, d \in D : \A m \in e .. n :
    Spot("finish", e, m, d) \in J /\ Passed(nd, n, e, m) =>
      LET r == V[<<"finish", e, d>>]
      IN  /\ r.ret = "VISIT_FINISH" => r.data \in F
          /\ r.ret # "VISIT_FINISH" => Leaving(nd, n, e, m, r.data, J, F)

\* After k visits; of each node that is met and not open there have been at most two.
IsWalk(nd, n, k, v, m) ==
  /\ m \in 0 .. n /\ IsOpen(nd, m, v.calls)
  /\ v.at = "start" => m = v.calls[Len(v.calls)] /\ k + Len(v.calls) <= 2 * m + 1
  /\ v.at = "finish" => Passed(nd, n, v.calls[Len(v.calls)], m) /\ k + Len(v.calls) <= 2 * m + 2

IsVisit(nd, n, D, J, F, k, v) ==
  /\ v \in Visits(n, D)
  /\ v.calls = << >> => v.data \in F
  /\ v.calls # << >> =>
       \E m : IsWalk(nd, n, k, v, m) /\ Spot(v.at, v.calls[Len(v.calls)], m, v.data) \in J

LEMMA OpenFacts ==
  ASSUME NEW nd, NEW m \in Nat, NEW op, IsOpen(nd, m, op)
  PROVE  /\ op \in Seq(0 .. m) /\ Len(op) \in Nat \ {0} /\ DOMAIN op = 1 .. Len(op)
         /\ op[Len(op)] \in 0 .. m
         /\ Len(op) = 1 => op[Len(op)] = 0
         /\ Len(op) > 1 => op[Len(op)] # 0 /\ nd[op[Len(op)]].parent = op[Len(op) - 1]
<1>1. /\ op \in Seq(0 .. m) /\ op # << >> /\ op[1] = 0
      /\ \A i \in 1 .. Len(op) - 1 : nd[op[i + 1]].parent = op[i]
      /\ \A i \in DOMAIN op : \A j \in 1 .. i - 1 : op[j] < op[i]
  BY DEF IsOpen
<1>2. Len(op) \in Nat \ {0} /\ DOMAIN op = 1 .. Len(op)
  BY <1>1
<1>3. Len(op) \in DOMAIN op
  BY <1>2
<1>4. op[Len(op)] \in 0 .. m
  BY <1>1, <1>3
<1>5. ASSUME Len(op) > 1 PROVE op[Len(op)] # 0 /\ nd[op[Len(op)]].parent = op[Len(op) - 1]
  <2>1. 1 \in 1 .. Len(op) - 1 /\ Len(op) - 1 \in 1 .. Len(op) - 1 /\ (Len(op) - 1) + 1 = Len(op)
    BY <1>2, <1>5
  <2>2. op[1] < op[Len(op)]
    BY <1>1, <1>3, <2>1
  <2>3. nd[op[(Len(op) - 1) + 1]].parent = op[Len(op) - 1]
    BY <1>1, <2>1
  <2>4. QED
    BY <1>1, <1>4, <2>1, <2>2, <2>3
<1>6. QED
  BY <1>1, <1>2, <1>4, <1>5

IsCut(nd, m, op, f) ==
  IsOpen(nd, m, f) /\ Len(f) = Len(op) - 1 /\ \A i \in 1 .. Len(op) - 1 : f[i] = op[i]
LEMMA CutAt ==
  ASSUME NEW nd, NEW m \in Nat, NEW op, IsOpen(nd, m, op), Len(op) > 1
  PROVE  IsCut(nd, m, op, Front(op))
BY FrontOpen DEF IsCut

\* A node below the innermost node is visited: the one behind all that is met.
LEMMA Visited1 ==
  ASSUME NEW nd, NEW n \in Nat, \A k \in 1 .. n : nd[k].parent \in Nat, NEW m \in 0 .. n, m < n,
         NEW op, IsOpen(nd, m, op),
         nd[m + 1].parent = op[Len(op)], NEW D, NEW d \in D, NEW J, NEW F, NEW k \in Nat,
         k + Len(op) <= 2 * m + 1, Spot("start", m + 1, m + 1, d) \in J
  PROVE  IsVisit(nd, n, D, J, F, k + 1, VisitChild(op, m + 1, d))
<1>1. /\ op \in Seq(0 .. m) /\ Len(op) \in Nat \ {0} /\ op[Len(op)] \in 0 .. m
  BY OpenFacts
<1>2. PICK q : q = Append(op, m + 1)
  OBVIOUS
<1>3. q \in Seq(0 .. n) /\ Len(q) = Len(op) + 1 /\ q[Len(q)] = m + 1 /\ q # << >>
  <2>1. op \in Seq(0 .. n) /\ m + 1 \in 0 .. n
    BY <1>1
  <2>2. q \in Seq(0 .. n) /\ Len(q) = Len(op) + 1 /\ q[Len(op) + 1] = m + 1
    BY <1>2, <2>1, AppendFacts
  <2>3. QED
    BY <1>1, <2>2
<1>4. IsOpen(nd, m + 1, q)
  <2>1. \A j \in 1 .. m : nd[j].parent = nd[j].parent
    OBVIOUS
  <2>2. QED
    BY <1>1, <1>2, <2>1, GrowsOpen
<1>5. PICK v : v = VisitChild(op, m + 1, d)
  OBVIOUS
<1>6. v = [calls |-> q, at |-> "start", data |-> d]
  BY <1>2, <1>5 DEF VisitChild, Visit, NULL
<1>7. m + 1 \in 0 .. n /\ (k + 1) + Len(q) <= 2 * (m + 1) + 1
  <2>1. PICK l \in Nat : l = Len(op)
    BY <1>1
  <2>2. k + l <= 2 * m + 1 /\ Len(q) = l + 1
    BY <1>3, <2>1
  <2>3. (k + 1) + (l + 1) <= 2 * (m + 1) + 1
    <3>1. m \in Nat
      OBVIOUS
    <3>2. QED
      BY <2>2, <3>1
  <2>4. QED
    BY <2>2, <2>3
<1>8. IsWalk(nd, n, k + 1, v, m + 1)
  BY <1>3, <1>4, <1>6, <1>7 DEF IsWalk
<1>9. v \in Visits(n, D)
  BY <1>3, <1>6 DEF Visits
<1>10. QED
  BY <1>3, <1>5, <1>6, <1>8, <1>9 DEF IsVisit

\* The innermost node comes to its finish visit.
LEMMA Finished ==
  ASSUME NEW nd, NEW n \in Nat, NEW m \in 0 .. n, NEW op, IsOpen(nd, m, op),
         Passed(nd, n, op[Len(op)], m), NEW D, NEW d \in D, NEW J, NEW F, NEW k \in Nat,
         k + Len(op) <= 2 * m + 2, Spot("finish", op[Len(op)], m, d) \in J
  PROVE  IsVisit(nd, n, D, J, F, k, VisitChild(op, NULL, d))
<1>1. op \in Seq(0 .. m) /\ Len(op) \in Nat \ {0} /\ op # << >>
  BY OpenFacts DEF IsOpen
<1>2. op \in Seq(0 .. n)
  BY <1>1
<1>3. PICK v : v = VisitChild(op, NULL, d)
  OBVIOUS
<1>4. v = [calls |-> op, at |-> "finish", data |-> d]
  BY <1>3 DEF VisitChild, Visit
<1>5. IsWalk(nd, n, k, v, m)
  BY <1>4 DEF IsWalk
<1>6. v \in Visits(n, D)
  BY <1>2, <1>4 DEF Visits
<1>7. QED
  BY <1>1, <1>3, <1>4, <1>5, <1>6 DEF IsVisit

\* The innermost call returns, and its caller goes on.
LEMMA Returned ==
  ASSUME NEW t, NEW n \in Nat, NEW p, HasTokens(t.node, n, p), InOrder(t.node, n),
         NEW m \in 0 .. n, NEW op, IsOpen(t.node, m, op), NEW e \in 0 .. n, e = op[Len(op)],
         Passed(t.node, n, e, m), NEW D, NEW d \in D, NEW J, NEW F, NEW k \in Nat,
         k + Len(op) <= 2 * m + 2, Leaving(t.node, n, e, m, d, J, F)
  PROVE  IsVisit(t.node, n, D, J, F, k + 1, VisitChild(Front(op), next_child(t, e), d))
<1>. DEFINE nd == t.node
<1>0. m \in Nat
  OBVIOUS
<1>1. /\ op \in Seq(0 .. m) /\ Len(op) \in Nat \ {0}
      /\ Len(op) = 1 => e = 0
      /\ Len(op) > 1 => e # 0 /\ nd[e].parent = op[Len(op) - 1]
  <2>1. /\ op \in Seq(0 .. m) /\ Len(op) \in Nat \ {0}
        /\ Len(op) = 1 => op[Len(op)] = 0
        /\ Len(op) > 1 => op[Len(op)] # 0 /\ nd[op[Len(op)]].parent = op[Len(op) - 1]
    BY <1>0, OpenFacts
  <2>2. QED
    BY <2>1
<1>2. PICK x : x = next_child(t, e) /\ IsNext(t, n, e, m, x)
  BY NextChild
<1>3. PICK f : f = Front(op)
  OBVIOUS
<1>4. CASE Len(op) = 1
  <2>1. e = 0 /\ x = NULL /\ d \in F
    BY <1>1, <1>2, <1>4 DEF IsNext, Leaving
  <2>2. f = << >>
    <3>1. op # << >>
      BY DEF IsOpen
    <3>2. f \in Seq(0 .. m) /\ Len(f) = 0
      BY <1>1, <1>3, <1>4, <3>1, FrontFacts
    <3>3. QED
      BY <3>2
  <2>3. PICK v : v = VisitChild(f, x, d)
    OBVIOUS
  <2>4. v = [calls |-> << >>, at |-> "finish", data |-> d]
    BY <2>1, <2>2, <2>3 DEF VisitChild, Visit
  <2>5. v \in Visits(n, D)
    <3>1. << >> \in Seq(0 .. n)
      OBVIOUS
    <3>2. QED
      BY <2>4, <3>1 DEF Visits
  <2>6. QED
    BY <1>2, <1>3, <2>1, <2>3, <2>4, <2>5 DEF IsVisit
<1>5. CASE Len(op) > 1
  <2>1. IsOpen(nd, m, f) /\ Len(f) = Len(op) - 1 /\ \A i \in 1 .. Len(op) - 1 : f[i] = op[i]
    <3>1. IsCut(nd, m, op, f)
      BY <1>0, <1>3, <1>5, CutAt
    <3>2. QED
      BY <3>1 DEF IsCut
  <2>2. Len(op) - 1 \in 1 .. Len(op) - 1
    BY <1>1, <1>5
  <2>3. f[Len(f)] = nd[e].parent /\ e # 0
    BY <1>1, <1>5, <2>1, <2>2
  <2>4. \A j \in 1 .. n : nd[j].parent \in Nat
    BY DEF InOrder
  <2>5. CASE x = m + 1 /\ m < n /\ nd[m + 1].parent = nd[e].parent
    <3>1. Spot("start", m + 1, m + 1, d) \in J
      BY <2>3, <2>5 DEF Leaving
    <3>2. k + Len(f) <= 2 * m + 1
      BY <1>1, <2>1
    <3>3. IsVisit(nd, n, D, J, F, k + 1, VisitChild(f, m + 1, d))
      BY <2>1, <2>3, <2>4, <2>5, <3>1, <3>2, Visited1
    <3>4. QED
      BY <1>2, <1>3, <2>5, <3>3
  <2>6. CASE x = NULL /\ Passed(nd, n, nd[e].parent, m)
    <3>1. Spot("finish", nd[e].parent, m, d) \in J
      BY <2>3, <2>6 DEF Leaving
    <3>2. (k + 1) + Len(f) <= 2 * m + 2 /\ k + 1 \in Nat
      BY <1>1, <2>1
    <3>3. IsVisit(nd, n, D, J, F, k + 1, VisitChild(f, NULL, d))
      BY <2>1, <2>3, <2>6, <3>1, <3>2, Finished
    <3>4. QED
      BY <1>2, <1>3, <2>6, <3>3
  <2>7. QED
    BY <1>2, <2>3, <2>5, <2>6 DEF IsNext
<1>6. Len(op) = 1 \/ Len(op) > 1
  <2>1. PICK l \in Nat \ {0} : l = Len(op)
    BY <1>1
  <2>2. l = 1 \/ l > 1
    OBVIOUS
  <2>3. QED
    BY <2>1, <2>2
<1>7. QED
  BY <1>4, <1>5, <1>6

\* What is below the innermost node is left out.
LEMMA SkippedOpen ==
  ASSUME NEW nd, NEW n \in Nat, NEW e \in 0 .. n, NEW op, IsOpen(nd, e, op), e = op[Len(op)],
         NEW m, Passed(nd, n, e, m), \A k \in 1 .. n : nd[k].parent \in Nat
  PROVE  m \in e .. n /\ IsOpen(nd, m, op)
<1>0. e \in Nat /\ m \in e .. n /\ \A k \in e + 1 .. m : nd[k].parent >= e
  BY DEF Passed
<1>1. /\ op \in Seq(0 .. e) /\ op # << >> /\ op[1] = 0
      /\ \A i \in 1 .. Len(op) - 1 : nd[op[i + 1]].parent = op[i]
      /\ \A i \in DOMAIN op : \A j \in 1 .. i - 1 : op[j] < op[i]
      /\ \A i \in DOMAIN op : \A k \in op[i] + 1 .. e : nd[k].parent >= op[i]
  BY DEF IsOpen
<1>2. op \in Seq(0 .. m)
  BY <1>0, <1>1
<1>3. ASSUME NEW i \in DOMAIN op, NEW k \in op[i] + 1 .. m
      PROVE  nd[k].parent >= op[i]
  <2>1. op[i] \in 0 .. e
    BY <1>1
  <2>2. CASE k \in op[i] + 1 .. e
    BY <1>1, <2>2
  <2>3. CASE k \in e + 1 .. m
    <3>1. nd[k].parent \in Nat /\ nd[k].parent >= e
      BY <1>0, <2>3
    <3>2. QED
      BY <1>0, <2>1, <3>1
  <2>4. QED
    BY <1>0, <2>1, <2>2, <2>3
<1>4. QED
  BY <1>0, <1>1, <1>2, <1>3 DEF IsOpen

LEMMA StepKeeps ==
  ASSUME NEW t, NEW n \in Nat, NEW p, HasTokens(t.node, n, p), InOrder(t.node, n),
         NEW D, NEW V \in Visitors(n, D), NEW J, NEW F,
         StartKeeps(t.node, n, D, V, J, F), FinishKeeps(t.node, n, D, V, J, F),
         NEW k \in Nat, NEW v, IsVisit(t.node, n, D, J, F, k, v)
  PROVE  IsVisit(t.node, n, D, J, F, k + 1, StepBy(t, V, v))
<1>. DEFINE nd == t.node
<1>1. v \in Visits(n, D)
  BY DEF IsVisit
<1>2. CASE v.calls = << >>
  BY <1>2 DEF IsVisit, StepBy
<1>3. CASE v.calls # << >>
  <2>1. PICK m : IsWalk(nd, n, k, v, m) /\ Spot(v.at, v.calls[Len(v.calls)], m, v.data) \in J
    BY <1>3 DEF IsVisit
  <2>2. PICK op : op = v.calls
    OBVIOUS
  <2>3. PICK e \in 0 .. n : e = Last(op) /\ e = op[Len(op)]
    BY <1>1, <1>3, <2>2, VisitorTyped
  <2>4. PICK d \in D : d = v.data
    BY <1>1 DEF Visits
  <2>5. PICK r \in Results(D) : r = V[<<v.at, e, d>>] /\ r = By(V, v)
    BY <1>1, <1>3, <2>2, <2>3, <2>4, VisitorTyped DEF By
  <2>6. v.at \in {"start", "finish"} /\ r.data \in D
        /\ r.ret \in {"VISIT_NORMAL", "VISIT_SKIP_CHILD", "VISIT_FINISH"}
    BY <1>1 DEF Visits, Results
  <2>7. m \in 0 .. n /\ IsOpen(nd, m, op) /\ m \in Nat
    BY <2>1, <2>2 DEF IsWalk
  <2>8. Spot(v.at, e, m, d) \in J
    BY <2>1, <2>2, <2>3, <2>4
  <2>9. \A j \in 1 .. n : nd[j].parent \in Nat
    BY DEF InOrder
  <2>10. StepBy(t, V, v) = html_node_visit(t, v, r)
    BY <1>3, <2>5 DEF StepBy
  <2>11. PICK l \in Nat : l = Len(op)
    BY <2>7, OpenFacts
  <2>12. CASE r.ret = "VISIT_FINISH"
    <3>1. r.data \in F
      <4>1. CASE v.at = "start"
        <5>1. m = e
          BY <2>1, <2>2, <2>3, <4>1 DEF IsWalk
        <5>2. QED
          BY <2>5, <2>8, <2>12, <4>1, <5>1 DEF StartKeeps
      <4>2. CASE v.at = "finish"
        <5>1. Passed(nd, n, e, m) /\ m \in e .. n
          BY <2>1, <2>2, <2>3, <4>2 DEF IsWalk, Passed
        <5>2. QED
          BY <2>5, <2>8, <2>12, <4>2, <5>1 DEF FinishKeeps
      <4>3. QED
        BY <2>6, <4>1, <4>2
    <3>2. PICK w : w = Visit(<< >>, v.at, r.data)
      OBVIOUS
    <3>3. << >> \in Seq(0 .. n)
      OBVIOUS
    <3>4. w \in Visits(n, D) /\ w.calls = << >> /\ w.data \in F
      BY <2>6, <3>1, <3>2, <3>3 DEF Visit, Visits
    <3>5. IsVisit(nd, n, D, J, F, k + 1, w)
      BY <3>4 DEF IsVisit
    <3>6. StepBy(t, V, v) = w
      BY <2>10, <2>12, <3>2 DEF html_node_visit
    <3>7. QED
      BY <3>5, <3>6
  <2>13. CASE v.at = "start" /\ r.ret = "VISIT_NORMAL"
    <3>1. m = e /\ k + l <= 2 * m + 1
      BY <2>1, <2>2, <2>3, <2>11, <2>13 DEF IsWalk
    <3>2. StepBy(t, V, v) = VisitChild(op, first_child(t, e), r.data)
      BY <2>2, <2>3, <2>10, <2>13 DEF html_node_visit
    <3>3. /\ Passed(nd, n, e, e) => Spot("finish", e, e, r.data) \in J
          /\ e < n /\ nd[e + 1].parent = e => Spot("start", e + 1, e + 1, r.data) \in J
      BY <2>5, <2>8, <2>13, <3>1 DEF StartKeeps
    <3>4. CASE first_child(t, e) = e + 1 /\ e < n /\ t.node[e + 1].parent = e
      <4>1. IsVisit(nd, n, D, J, F, k + 1, VisitChild(op, m + 1, r.data))
        BY <2>3, <2>6, <2>7, <2>9, <2>11, <3>1, <3>3, <3>4, Visited1
      <4>2. QED
        BY <3>1, <3>2, <3>4, <4>1
    <3>5. CASE first_child(t, e) = NULL /\ Passed(t.node, n, e, e)
      <4>1. (k + 1) + Len(op) <= 2 * m + 2 /\ k + 1 \in Nat
        BY <2>7, <2>11, <3>1
      <4>2. IsVisit(nd, n, D, J, F, k + 1, VisitChild(op, NULL, r.data))
        BY <2>3, <2>6, <2>7, <3>1, <3>3, <3>5, <4>1, Finished
      <4>3. QED
        BY <3>2, <3>5, <4>2
    <3>6. QED
      BY <3>4, <3>5, FirstChild
  <2>14. CASE v.at = "start" /\ r.ret = "VISIT_SKIP_CHILD"
    <3>1. m = e /\ k + l <= 2 * m + 1
      BY <2>1, <2>2, <2>3, <2>11, <2>14 DEF IsWalk
    <3>2. PICK x : Passed(nd, n, e, x)
      BY <2>9, PassedExists
    <3>3. x \in e .. n /\ IsOpen(nd, x, op)
      <4>1. IsOpen(nd, e, op)
        BY <2>7, <3>1
      <4>2. QED
        BY <2>3, <2>9, <3>2, <4>1, SkippedOpen
    <3>4. Leaving(nd, n, e, x, r.data, J, F)
      BY <2>5, <2>8, <2>14, <3>1, <3>2, <3>3 DEF StartKeeps
    <3>5. k + Len(op) <= 2 * x + 2 /\ x \in 0 .. n
      BY <2>7, <2>11, <3>1, <3>3
    <3>6. IsVisit(nd, n, D, J, F, k + 1, VisitChild(Front(op), next_child(t, e), r.data))
      BY <2>3, <2>6, <3>2, <3>3, <3>4, <3>5, Returned
    <3>7. QED
      BY <2>2, <2>3, <2>10, <2>14, <3>6 DEF html_node_visit
  <2>15. CASE v.at = "finish" /\ r.ret # "VISIT_FINISH"
    <3>1. Passed(nd, n, e, m) /\ k + Len(op) <= 2 * m + 2 /\ m \in e .. n
      BY <2>1, <2>2, <2>3, <2>15 DEF IsWalk, Passed
    <3>2. Leaving(nd, n, e, m, r.data, J, F)
      BY <2>5, <2>8, <2>15, <3>1 DEF FinishKeeps
    <3>3. IsVisit(nd, n, D, J, F, k + 1, VisitChild(Front(op), next_child(t, e), r.data))
      BY <2>3, <2>6, <2>7, <3>1, <3>2, Returned
    <3>4. QED
      BY <2>2, <2>3, <2>10, <2>15, <3>3 DEF html_node_visit
  <2>16. QED
    BY <2>6, <2>12, <2>13, <2>14, <2>15
<1>4. QED
  BY <1>2, <1>3

LEMMA TwoVisits ==
  ASSUME NEW n \in Nat, NEW m \in Nat, m <= n, NEW K \in Nat, K = 2 * n + 2, NEW l \in Nat \ {0}
  PROVE  ~ (K + l <= 2 * m + 1 \/ K + l <= 2 * m + 2)
OBVIOUS

\* What the visitors keep holds at the end of a visit, and the visit has come to its end.
LEMMA VisitKeeps ==
  ASSUME NEW t, NEW n \in Nat, NEW p, HasTokens(t.node, n, p), InOrder(t.node, n),
         NEW D, NEW d \in D, NEW V \in Visitors(n, D), NEW J, NEW F,
         StartKeeps(t.node, n, D, V, J, F), FinishKeeps(t.node, n, D, V, J, F),
         Spot("start", 0, 0, d) \in J, NEW f, Follows(f, t, n, D, d, V)
  PROVE  f[MostVisits(t)].data \in F
<1>. DEFINE nd == t.node
<1>1. PICK K \in Nat : K = MostVisits(t) /\ K = 2 * n + 2
  BY MostVisitsIs
<1>2. IsVisit(nd, n, D, J, F, 0, f[0])
  <2>1. f[0] = [calls |-> << 0 >>, at |-> "start", data |-> d]
    BY DEF Follows, Visit
  <2>2. << 0 >> \in Seq(0 .. n) /\ << 0 >> # << >> /\ Len(<< 0 >>) = 1 /\ << 0 >>[1] = 0
    OBVIOUS
  <2>3. IsOpen(nd, 0, << 0 >>)
    BY DEF IsOpen
  <2>4. IsWalk(nd, n, 0, f[0], 0)
    BY <2>1, <2>2, <2>3 DEF IsWalk
  <2>5. f[0] \in Visits(n, D)
    BY <2>1, <2>2 DEF Visits
  <2>6. QED
    BY <2>1, <2>2, <2>4, <2>5 DEF IsVisit
<1>. DEFINE Bad == {k \in 0 .. K : ~ IsVisit(nd, n, D, J, F, k, f[k])}
<1>3. Bad = {}
  <2>1. SUFFICES ASSUME Bad # {} PROVE FALSE
    OBVIOUS
  <2>2. PICK b \in Bad : \A j \in Bad : b <= j
    <3>1. Bad \in SUBSET Nat
      OBVIOUS
    <3>2. QED
      BY <2>1, <3>1, LeastExists
  <2>3. b \in 0 .. K /\ b # 0 /\ ~ IsVisit(nd, n, D, J, F, b, f[b])
    BY <1>2, <2>2
  <2>4. PICK c \in Nat : b = c + 1 /\ c \in 0 .. K
    <3>1. b - 1 \in Nat /\ b = (b - 1) + 1 /\ b - 1 \in 0 .. K
      BY <2>3
    <3>2. QED
      BY <3>1
  <2>5. IsVisit(nd, n, D, J, F, c, f[c])
    <3>1. ~ (b <= c)
      BY <2>4
    <3>2. c \notin Bad
      <4>. HIDE DEF Bad
      <4>1. QED
        BY <2>2, <3>1
    <3>3. QED
      BY <2>4, <3>2
  <2>6. IsVisit(nd, n, D, J, F, c + 1, StepBy(t, V, f[c]))
    BY <2>5, StepKeeps
  <2>7. f[b] = StepBy(t, V, f[c])
    <3>1. b \in 1 .. K /\ b - 1 = c
      BY <2>3, <2>4
    <3>2. f[c] \in Visits(n, D)
      BY <2>5 DEF IsVisit
    <3>3. QED
      BY <1>1, <3>1, <3>2 DEF Follows
  <2>8. QED
    BY <2>3, <2>4, <2>6, <2>7
<1>4. PICK v : v = f[K] /\ IsVisit(nd, n, D, J, F, K, v)
  <2>1. K \in 0 .. K
    OBVIOUS
  <2>2. K \notin Bad
    BY <1>3
  <2>3. QED
    BY <2>1, <2>2
<1>5. v.calls = << >>
  <2>1. SUFFICES ASSUME v.calls # << >> PROVE FALSE
    OBVIOUS
  <2>2. PICK m : IsWalk(nd, n, K, v, m)
    BY <1>4, <2>1 DEF IsVisit
  <2>3. m \in 0 .. n /\ m \in Nat /\ IsOpen(nd, m, v.calls) /\ v.at \in {"start", "finish"}
    BY <1>4, <2>2 DEF IsWalk, IsVisit, Visits
  <2>4. PICK l \in Nat \ {0} : l = Len(v.calls)
    BY <2>3, OpenFacts
  <2>5. K + l <= 2 * m + 1 \/ K + l <= 2 * m + 2
    BY <2>2, <2>3, <2>4 DEF IsWalk
  <2>6. m <= n /\ K \in Nat /\ n \in Nat
    BY <2>3
  <2>7. QED
    BY <1>1, <2>3, <2>4, <2>5, <2>6, TwoVisits
<1>6. QED
  BY <1>1, <1>4, <1>5 DEF IsVisit

\* At the finish visit of the root all nodes are met.
LEMMA RootPassed ==
  ASSUME NEW nd, NEW n \in Nat, InOrder(nd, n), NEW m, Passed(nd, n, 0, m)
  PROVE  m = n
<1>1. m \in 0 .. n /\ m \in Nat
  BY DEF Passed
<1>2. m < n => m + 1 \in 1 .. n /\ nd[m + 1].parent < 0
  BY <1>1 DEF Passed
<1>3. \A k \in 1 .. n : nd[k].parent \in Nat
  BY DEF InOrder
<1>4. ~ (m < n)
  BY <1>2, <1>3
<1>5. QED
  BY <1>1, <1>4

\* Visitors that leave nothing out: Q has the data that may be there when k nodes are met.
Spots(n, D, Q) ==
  {s \in [at : {"start", "finish"}, node : 0 .. n, last : 0 .. n, data : D] :
     <<s.data, IF s.at = "start" THEN s.last ELSE s.last + 1>> \in Q}

LEMMA InSpots ==
  ASSUME NEW n \in Nat, NEW D, NEW Q, NEW at \in {"start", "finish"}, NEW e \in 0 .. n,
         NEW m \in 0 .. n, NEW d \in D
  PROVE  Spot(at, e, m, d) \in Spots(n, D, Q)
           <=> <<d, IF at = "start" THEN m ELSE m + 1>> \in Q
BY DEF Spot, Spots

Sweeps(n, D, V, Q, F) ==
  /\ \A e \in 0 .. n, d \in D : <<d, e>> \in Q =>
       LET r == V[<<"start", e, d>>]
       IN  /\ r.ret = "VISIT_FINISH" => r.data \in F
           /\ r.ret # "VISIT_SKIP_CHILD"
           /\ r.ret = "VISIT_NORMAL" => <<r.data, e + 1>> \in Q
  /\ \A e \in 0 .. n, d \in D : \A m \in e .. n : <<d, m + 1>> \in Q =>
       LET r == V[<<"finish", e, d>>]
       IN  r.ret = "VISIT_NORMAL" /\ <<r.data, m + 1>> \in Q
  /\ \A d \in D : <<d, n + 1>> \in Q => d \in F

LEMMA SweepKeeps ==
  ASSUME NEW nd, NEW n \in Nat, InOrder(nd, n), NEW D, NEW V \in Visitors(n, D), NEW Q, NEW F,
         Sweeps(n, D, V, Q, F)
  PROVE  /\ StartKeeps(nd, n, D, V, Spots(n, D, Q), F)
         /\ FinishKeeps(nd, n, D, V, Spots(n, D, Q), F)
<1>1. \A k \in 1 .. n : nd[k].parent \in 0 .. k - 1
  BY DEF InOrder
<1>2. ASSUME NEW e \in 0 .. n, NEW d \in D, Spot("start", e, e, d) \in Spots(n, D, Q),
             NEW r, r = V[<<"start", e, d>>]
      PROVE  /\ r.ret = "VISIT_FINISH" => r.data \in F
             /\ r.ret # "VISIT_SKIP_CHILD"
             /\ r.ret = "VISIT_NORMAL" =>
                  /\ Passed(nd, n, e, e) => Spot("finish", e, e, r.data) \in Spots(n, D, Q)
                  /\ e < n => Spot("start", e + 1, e + 1, r.data) \in Spots(n, D, Q)
  <2>1. <<d, e>> \in Q
    BY <1>2, InSpots
  <2>2. r \in Results(D)
    BY <1>2 DEF Visitors
  <2>3. r.data \in D
    BY <2>2 DEF Results
  <2>4. /\ r.ret = "VISIT_FINISH" => r.data \in F
        /\ r.ret # "VISIT_SKIP_CHILD"
        /\ r.ret = "VISIT_NORMAL" => <<r.data, e + 1>> \in Q
    BY <1>2, <2>1 DEF Sweeps
  <2>5. r.ret = "VISIT_NORMAL" => Spot("finish", e, e, r.data) \in Spots(n, D, Q)
    BY <2>3, <2>4, InSpots
  <2>6. ASSUME r.ret = "VISIT_NORMAL", e < n
        PROVE  Spot("start", e + 1, e + 1, r.data) \in Spots(n, D, Q)
    <3>1. e + 1 \in 0 .. n
      BY <2>6
    <3>2. QED
      BY <2>3, <2>4, <2>6, <3>1, InSpots
  <2>7. QED
    BY <2>4, <2>5, <2>6
<1>3. ASSUME NEW e \in 0 .. n, NEW d \in D, NEW m \in e .. n, Passed(nd, n, e, m),
             Spot("finish", e, m, d) \in Spots(n, D, Q),
             NEW r, r = V[<<"finish", e, d>>]
      PROVE  r.ret = "VISIT_NORMAL" /\ Leaving(nd, n, e, m, r.data, Spots(n, D, Q), F)
  <2>0. m \in 0 .. n
    OBVIOUS
  <2>1. <<d, m + 1>> \in Q
    BY <1>3, <2>0, InSpots
  <2>2. r.data \in D
    BY <1>3 DEF Visitors, Results
  <2>3. r.ret = "VISIT_NORMAL" /\ <<r.data, m + 1>> \in Q
    BY <1>3, <2>1 DEF Sweeps
  <2>4. ASSUME e = 0 PROVE r.data \in F
    BY <1>3, <2>2, <2>3, <2>4, RootPassed DEF Sweeps
  <2>5. ASSUME e # 0 PROVE Spot("finish", nd[e].parent, m, r.data) \in Spots(n, D, Q)
    <3>1. nd[e].parent \in 0 .. n
      BY <1>1, <2>5
    <3>2. QED
      BY <2>0, <2>2, <2>3, <3>1, InSpots
  <2>6. ASSUME m < n PROVE Spot("start", m + 1, m + 1, r.data) \in Spots(n, D, Q)
    <3>1. m + 1 \in 0 .. n
      BY <2>0, <2>6
    <3>2. QED
      BY <2>2, <2>3, <3>1, InSpots
  <2>7. QED
    BY <2>3, <2>4, <2>5, <2>6 DEF Leaving
<1>4. StartKeeps(nd, n, D, V, Spots(n, D, Q), F)
  BY <1>2 DEF StartKeeps
<1>5. FinishKeeps(nd, n, D, V, Spots(n, D, Q), F)
  BY <1>3 DEF FinishKeeps
<1>6. QED
  BY <1>4, <1>5

\* Two visitors as one function.
IsTable(V, n, D, S, G) ==
  /\ V \in Visitors(n, D)
  /\ \A e \in 0 .. n, d \in D : /\ V[<<"start", e, d>>] = S[<<e, d>>]
                                /\ V[<<"finish", e, d>>] = G[<<e, d>>]
LEMMA Tabulated ==
  ASSUME NEW n \in Nat, NEW D, NEW S \in [(0 .. n) \X D -> Results(D)],
         NEW G \in [(0 .. n) \X D -> Results(D)]
  PROVE  \E V : IsTable(V, n, D, S, G)
<1>. DEFINE X == {"start", "finish"} \X (0 .. n) \X D
<1>. DEFINE V == [x \in X |-> IF x[1] = "start" THEN S[<<x[2], x[3]>>] ELSE G[<<x[2], x[3]>>]]
<1>1. ASSUME NEW x \in X
      PROVE  (IF x[1] = "start" THEN S[<<x[2], x[3]>>] ELSE G[<<x[2], x[3]>>]) \in Results(D)
  <2>1. x[2] \in 0 .. n /\ x[3] \in D
    OBVIOUS
  <2>2. <<x[2], x[3]>> \in (0 .. n) \X D
    BY <2>1
  <2>3. QED
    BY <2>2
<1>2. V \in [X -> Results(D)]
  BY <1>1
<1>3. ASSUME NEW e \in 0 .. n, NEW d \in D
      PROVE  V[<<"start", e, d>>] = S[<<e, d>>] /\ V[<<"finish", e, d>>] = G[<<e, d>>]
  <2>1. <<"start", e, d>> \in X /\ <<"finish", e, d>> \in X
    OBVIOUS
  <2>2. QED
    BY <2>1
<1>4. IsTable(V, n, D, S, G)
  <2>. HIDE DEF V
  <2>1. QED
    BY <1>2, <1>3 DEF Visitors, IsTable
<1>5. QED
  BY <1>4

-----------------------------------------------------------------------------
(* A visit meets all nodes in their order.                                   *)
MetStart(t, e, d) == Visited("VISIT_NORMAL", Append(d, e))
MetFinish(t, e, d) == Visited("VISIT_NORMAL", d)

MetBy(V, t, n, D) ==
  \A e \in 0 .. n, d \in D : /\ V[<<"start", e, d>>] = MetStart(t, e, d)
                             /\ V[<<"finish", e, d>>] = MetFinish(t, e, d)
IsMetVisit(t, f) ==
  f = [k \in 0 .. MostVisits(t) |->
        IF k = 0 THEN Visit(<< 0 >>, "start", << >>)
        ELSE LET v == f[k - 1]
             IN  IF v.calls = << >> THEN v
                 ELSE html_node_visit(t, v, IF v.at = "start" THEN MetStart(t, Last(v.calls), v.data)
                                            ELSE MetFinish(t, Last(v.calls), v.data))]
MetVisit(t) == CHOOSE f : IsMetVisit(t, f)

LEMMA MetFollows ==
  ASSUME NEW t, NEW n \in Nat, NEW p, HasTokens(t.node, n, p), InOrder(t.node, n),
         NEW D, << >> \in D,
         \A e \in 0 .. n, d \in D :
           /\ MetStart(t, e, d) \in Results(D)
           /\ MetFinish(t, e, d) \in Results(D)
  PROVE  \E V \in Visitors(n, D) :
           /\ MetBy(V, t, n, D)
           /\ Follows(MetVisit(t), t, n, D, << >>, V)
<1>1. PICK V \in Visitors(n, D) : MetBy(V, t, n, D)
  <2>1. PICK S : S = [x \in (0 .. n) \X D |-> MetStart(t, x[1], x[2])]
    OBVIOUS
  <2>2. PICK G : G = [x \in (0 .. n) \X D |-> MetFinish(t, x[1], x[2])]
    OBVIOUS
  <2>3. S \in [(0 .. n) \X D -> Results(D)] /\ G \in [(0 .. n) \X D -> Results(D)]
    BY <2>1, <2>2
  <2>4. PICK V : IsTable(V, n, D, S, G)
    BY <2>3, Tabulated
  <2>5. \A e \in 0 .. n, d \in D : S[<<e, d>>] = MetStart(t, e, d) /\ G[<<e, d>>] = MetFinish(t, e, d)
    BY <2>1, <2>2
  <2>6. V \in Visitors(n, D) /\ MetBy(V, t, n, D)
    BY <2>4, <2>5 DEF IsTable, MetBy
  <2>7. QED
    BY <2>6
<1>2. PICK K \in Nat : K = MostVisits(t)
  BY MostVisitsIs
<1>3. ASSUME NEW v \in Visits(n, D), v.calls # << >>
      PROVE  By(V, v) = IF v.at = "start" THEN MetStart(t, Last(v.calls), v.data)
                        ELSE MetFinish(t, Last(v.calls), v.data)
  <2>1. v.at \in {"start", "finish"} /\ Last(v.calls) \in 0 .. n /\ v.data \in D
    BY <1>3, VisitorTyped DEF Visits
  <2>2. QED
    BY <1>1, <2>1 DEF By, MetBy
<1>4. \E f : IsMetVisit(t, f)
  <2>1. PICK f \in [0 .. K -> Visits(n, D)] :
          Follows(f, t, n, D, << >>, V)
    BY <1>2, VisitExists
  <2>2. \A k \in 0 .. K : k # 0 => f[k - 1] \in Visits(n, D) /\ f[k] = StepBy(t, V, f[k - 1])
    <3>1. \A k \in 0 .. K : k # 0 => k \in 1 .. K /\ k - 1 \in 0 .. K
      OBVIOUS
    <3>2. QED
      BY <1>2, <2>1, <3>1 DEF Follows
  <2>3. IsMetVisit(t, f)
    BY <1>2, <1>3, <2>1, <2>2 DEF IsMetVisit, Follows, StepBy
  <2>4. QED
    BY <2>3
<1>5. PICK f : f = MetVisit(t)
  OBVIOUS
<1>6. IsMetVisit(t, f)
  BY <1>4, <1>5 DEF MetVisit
<1>7. Follows(f, t, n, D, << >>, V)
  <2>1. f[0] = Visit(<< 0 >>, "start", << >>)
    BY <1>2, <1>6 DEF IsMetVisit
  <2>2. ASSUME NEW k \in 1 .. K, f[k - 1] \in Visits(n, D) PROVE f[k] = StepBy(t, V, f[k - 1])
    <3>1. k \in 0 .. K /\ k # 0
      OBVIOUS
    <3>2. PICK v \in Visits(n, D) : v = f[k - 1]
      BY <2>2
    <3>3. f[k] = IF v.calls = << >> THEN v
                 ELSE html_node_visit(t, v, IF v.at = "start" THEN MetStart(t, Last(v.calls), v.data)
                                            ELSE MetFinish(t, Last(v.calls), v.data))
      BY <1>2, <1>6, <3>1, <3>2 DEF IsMetVisit
    <3>4. QED
      BY <1>3, <3>2, <3>3 DEF StepBy
  <2>3. QED
    BY <1>2, <2>1, <2>2 DEF Follows
<1>8. QED
  BY <1>1, <1>5, <1>7

MetOf(t) == MetVisit(t)[MostVisits(t)].data
UpTo(k) == [i \in 1 .. k |-> i - 1]
MetSoFar(n) == {q \in Seq(0 .. n) \X Nat : q[1] = UpTo(q[2])}

LEMMA UpToGrows ==
  ASSUME NEW k \in Nat
  PROVE  UpTo(k) \in Seq(0 .. k) /\ Append(UpTo(k), k) = UpTo(k + 1)
<1>1. UpTo(k) \in Seq(0 .. k) /\ Len(UpTo(k)) = k
  BY DEF UpTo
<1>2. PICK a : a = Append(UpTo(k), k)
  OBVIOUS
<1>3. a \in Seq(0 .. k) /\ Len(a) = k + 1 /\ a[k + 1] = k /\ \A i \in 1 .. k : a[i] = UpTo(k)[i]
  BY <1>1, <1>2, AppendFacts
<1>4. \A i \in 1 .. k + 1 : a[i] = i - 1
  <2>1. \A i \in 1 .. k + 1 : i = k + 1 \/ i \in 1 .. k
    OBVIOUS
  <2>2. (k + 1) - 1 = k
    OBVIOUS
  <2>3. QED
    BY <1>3, <2>1, <2>2 DEF UpTo
<1>5. a = UpTo(k + 1)
  BY <1>3, <1>4 DEF UpTo
<1>6. QED
  BY <1>1, <1>2, <1>5

LEMMA MetSweeps ==
  ASSUME NEW t, NEW n \in Nat, NEW D, D = Seq(0 .. n), NEW V, MetBy(V, t, n, D)
  PROVE  Sweeps(n, D, V, MetSoFar(n), {UpTo(n + 1)})
<1>1. ASSUME NEW e \in 0 .. n, NEW d \in D, <<d, e>> \in MetSoFar(n)
      PROVE  <<Append(d, e), e + 1>> \in MetSoFar(n)
  <2>1. d = UpTo(e) /\ e \in Nat
    BY <1>1 DEF MetSoFar
  <2>2. Append(d, e) = UpTo(e + 1)
    BY <2>1, UpToGrows
  <2>3. Append(d, e) \in Seq(0 .. n) /\ e + 1 \in Nat
    OBVIOUS
  <2>4. QED
    BY <2>2, <2>3 DEF MetSoFar
<1>2. \A d \in D : <<d, n + 1>> \in MetSoFar(n) => d \in {UpTo(n + 1)}
  BY DEF MetSoFar
<1>3. ASSUME NEW e \in 0 .. n, NEW d \in D, <<d, e>> \in MetSoFar(n), NEW r, r = V[<<"start", e, d>>]
      PROVE  r.ret = "VISIT_NORMAL" /\ <<r.data, e + 1>> \in MetSoFar(n)
  <2>1. r = [ret |-> "VISIT_NORMAL", data |-> Append(d, e)]
    BY <1>3 DEF MetBy, MetStart, Visited
  <2>2. QED
    BY <1>1, <1>3, <2>1
<1>4. ASSUME NEW e \in 0 .. n, NEW d \in D, NEW m, <<d, m + 1>> \in MetSoFar(n),
             NEW r, r = V[<<"finish", e, d>>]
      PROVE  r.ret = "VISIT_NORMAL" /\ <<r.data, m + 1>> \in MetSoFar(n)
  <2>1. r = [ret |-> "VISIT_NORMAL", data |-> d]
    BY <1>4 DEF MetBy, MetFinish, Visited
  <2>2. QED
    BY <1>4, <2>1
<1>5. QED
  BY <1>2, <1>3, <1>4 DEF Sweeps

LEMMA MetAll ==
  ASSUME NEW t, NEW n \in Nat, NEW p, HasTokens(t.node, n, p), InOrder(t.node, n)
  PROVE  MetOf(t) = UpTo(n + 1)
<1>1. PICK D : D = Seq(0 .. n)
  OBVIOUS
<1>2. << >> \in D
  BY <1>1
<1>3. PICK V \in Visitors(n, D) : MetBy(V, t, n, D) /\ Follows(MetVisit(t), t, n, D, << >>, V)
  <2>1. \A e \in 0 .. n, d \in D : Append(d, e) \in D
    BY <1>1
  <2>2. \A e \in 0 .. n, d \in D : MetStart(t, e, d) \in Results(D) /\ MetFinish(t, e, d) \in Results(D)
    BY <2>1 DEF MetStart, MetFinish, Visited, Results
  <2>3. QED
    BY <1>2, <2>2, MetFollows
<1>4. /\ StartKeeps(t.node, n, D, V, Spots(n, D, MetSoFar(n)), {UpTo(n + 1)})
      /\ FinishKeeps(t.node, n, D, V, Spots(n, D, MetSoFar(n)), {UpTo(n + 1)})
  BY <1>1, <1>3, MetSweeps, SweepKeeps
<1>5. Spot("start", 0, 0, << >>) \in Spots(n, D, MetSoFar(n))
  <2>1. << >> = UpTo(0)
    BY DEF UpTo
  <2>2. << << >>, 0 >> \in MetSoFar(n)
    BY <1>1, <1>2, <2>1 DEF MetSoFar
  <2>3. QED
    BY <1>2, <2>2, InSpots
<1>6. PICK f : f = MetVisit(t)
  OBVIOUS
<1>7. f[MostVisits(t)].data \in {UpTo(n + 1)}
  BY <1>2, <1>3, <1>4, <1>5, <1>6, VisitKeeps
<1>8. QED
  BY <1>6, <1>7 DEF MetOf

-----------------------------------------------------------------------------
(* search_tag_node finds the first node with the tag.                        *)
SearchStart(t, tag, e, d) == IF t.node[e].token.tag = tag THEN Visited("VISIT_FINISH", e)
                             ELSE Visited("VISIT_NORMAL", d)
SearchFinish(t, tag, e, d) == Visited("VISIT_NORMAL", d)

SearchBy(V, t, tag, n, D) ==
  \A e \in 0 .. n, d \in D : /\ V[<<"start", e, d>>] = SearchStart(t, tag, e, d)
                             /\ V[<<"finish", e, d>>] = SearchFinish(t, tag, e, d)
IsSearchVisit(t, tag, f) ==
  f = [k \in 0 .. MostVisits(t) |->
        IF k = 0 THEN Visit(<< 0 >>, "start", NULL)
        ELSE LET v == f[k - 1]
             IN  IF v.calls = << >> THEN v
                 ELSE html_node_visit(t, v, IF v.at = "start" THEN SearchStart(t, tag, Last(v.calls), v.data)
                                            ELSE SearchFinish(t, tag, Last(v.calls), v.data))]
SearchVisit(t, tag) == CHOOSE f : IsSearchVisit(t, tag, f)

LEMMA SearchFollows ==
  ASSUME NEW t, NEW tag, NEW n \in Nat, NEW p, HasTokens(t.node, n, p), InOrder(t.node, n),
         NEW D, NULL \in D,
         \A e \in 0 .. n, d \in D :
           /\ SearchStart(t, tag, e, d) \in Results(D)
           /\ SearchFinish(t, tag, e, d) \in Results(D)
  PROVE  \E V \in Visitors(n, D) :
           /\ SearchBy(V, t, tag, n, D)
           /\ Follows(SearchVisit(t, tag), t, n, D, NULL, V)
<1>1. PICK V \in Visitors(n, D) : SearchBy(V, t, tag, n, D)
  <2>1. PICK S : S = [x \in (0 .. n) \X D |-> SearchStart(t, tag, x[1], x[2])]
    OBVIOUS
  <2>2. PICK G : G = [x \in (0 .. n) \X D |-> SearchFinish(t, tag, x[1], x[2])]
    OBVIOUS
  <2>3. S \in [(0 .. n) \X D -> Results(D)] /\ G \in [(0 .. n) \X D -> Results(D)]
    BY <2>1, <2>2
  <2>4. PICK V : IsTable(V, n, D, S, G)
    BY <2>3, Tabulated
  <2>5. \A e \in 0 .. n, d \in D :
          /\ S[<<e, d>>] = SearchStart(t, tag, e, d)
          /\ G[<<e, d>>] = SearchFinish(t, tag, e, d)
    BY <2>1, <2>2
  <2>6. V \in Visitors(n, D) /\ SearchBy(V, t, tag, n, D)
    BY <2>4, <2>5 DEF IsTable, SearchBy
  <2>7. QED
    BY <2>6
<1>2. PICK K \in Nat : K = MostVisits(t)
  BY MostVisitsIs
<1>3. ASSUME NEW v \in Visits(n, D), v.calls # << >>
      PROVE  By(V, v) = IF v.at = "start" THEN SearchStart(t, tag, Last(v.calls), v.data)
                        ELSE SearchFinish(t, tag, Last(v.calls), v.data)
  <2>1. v.at \in {"start", "finish"} /\ Last(v.calls) \in 0 .. n /\ v.data \in D
    BY <1>3, VisitorTyped DEF Visits
  <2>2. QED
    BY <1>1, <2>1 DEF By, SearchBy
<1>4. \E f : IsSearchVisit(t, tag, f)
  <2>1. PICK f \in [0 .. K -> Visits(n, D)] :
          Follows(f, t, n, D, NULL, V)
    BY <1>2, VisitExists
  <2>2. \A k \in 0 .. K : k # 0 => f[k - 1] \in Visits(n, D) /\ f[k] = StepBy(t, V, f[k - 1])
    <3>1. \A k \in 0 .. K : k # 0 => k \in 1 .. K /\ k - 1 \in 0 .. K
      OBVIOUS
    <3>2. QED
      BY <1>2, <2>1, <3>1 DEF Follows
  <2>3. IsSearchVisit(t, tag, f)
    BY <1>2, <1>3, <2>1, <2>2 DEF IsSearchVisit, Follows, StepBy
  <2>4. QED
    BY <2>3
<1>5. PICK f : f = SearchVisit(t, tag)
  OBVIOUS
<1>6. IsSearchVisit(t, tag, f)
  BY <1>4, <1>5 DEF SearchVisit
<1>7. Follows(f, t, n, D, NULL, V)
  <2>1. f[0] = Visit(<< 0 >>, "start", NULL)
    BY <1>2, <1>6 DEF IsSearchVisit
  <2>2. ASSUME NEW k \in 1 .. K, f[k - 1] \in Visits(n, D) PROVE f[k] = StepBy(t, V, f[k - 1])
    <3>1. k \in 0 .. K /\ k # 0
      OBVIOUS
    <3>2. PICK v \in Visits(n, D) : v = f[k - 1]
      BY <2>2
    <3>3. f[k] = IF v.calls = << >> THEN v
                 ELSE html_node_visit(t, v, IF v.at = "start" THEN SearchStart(t, tag, Last(v.calls), v.data)
                                            ELSE SearchFinish(t, tag, Last(v.calls), v.data))
      BY <1>2, <1>6, <3>1, <3>2 DEF IsSearchVisit
    <3>4. QED
      BY <1>3, <3>2, <3>3 DEF StepBy
  <2>3. QED
    BY <1>2, <2>1, <2>2 DEF Follows
<1>8. QED
  BY <1>1, <1>5, <1>7

LEMMA SearchChosen ==
  ASSUME NEW t, NEW tag
  PROVE  search_tag_node(t, tag) = SearchVisit(t, tag)[MostVisits(t)].data
BY DEF search_tag_node, html_tree_visit, SearchVisit, IsSearchVisit, SearchStart, SearchFinish

Lacks(nd, k, tag) == \A j \in 0 .. k - 1 : nd[j].token.tag # tag
IsFirst(nd, n, tag, x) ==
  \/ x \in 0 .. n /\ nd[x].token.tag = tag /\ Lacks(nd, x, tag)
  \/ x = NULL /\ Lacks(nd, n + 1, tag)

LEMMA SearchFinds ==
  ASSUME NEW t, NEW tag, NEW n \in Nat, NEW p, HasTokens(t.node, n, p), InOrder(t.node, n)
  PROVE  IsFirst(t.node, n, tag, search_tag_node(t, tag))
<1>. DEFINE nd == t.node
<1>1. PICK D : D = 0 .. n \cup {NULL}
  OBVIOUS
<1>2. PICK Q : Q = {q \in D \X Nat : q[1] = NULL /\ Lacks(nd, q[2], tag)}
  OBVIOUS
<1>3. PICK F : F = {x \in D : IsFirst(nd, n, tag, x)}
  OBVIOUS
<1>4. PICK V \in Visitors(n, D) : SearchBy(V, t, tag, n, D)
        /\ Follows(SearchVisit(t, tag), t, n, D, NULL, V)
  <2>1. NULL \in D /\ \A e \in 0 .. n : e \in D
    BY <1>1
  <2>2. \A e \in 0 .. n, d \in D :
          /\ SearchStart(t, tag, e, d) \in Results(D)
          /\ SearchFinish(t, tag, e, d) \in Results(D)
    BY <2>1 DEF SearchStart, SearchFinish, Visited, Results
  <2>3. QED
    BY <2>1, <2>2, SearchFollows
<1>5. ASSUME NEW e \in 0 .. n, NEW d \in D, <<d, e>> \in Q, NEW r, r = V[<<"start", e, d>>]
      PROVE  /\ r.ret = "VISIT_FINISH" => r.data \in F
             /\ r.ret # "VISIT_SKIP_CHILD"
             /\ r.ret = "VISIT_NORMAL" => <<r.data, e + 1>> \in Q
  <2>1. d = NULL /\ Lacks(nd, e, tag)
    BY <1>2, <1>5
  <2>2. r = SearchStart(t, tag, e, d)
    BY <1>4, <1>5 DEF SearchBy
  <2>3. CASE nd[e].token.tag = tag
    <3>1. r = [ret |-> "VISIT_FINISH", data |-> e]
      BY <2>2, <2>3 DEF SearchStart, Visited
    <3>2. IsFirst(nd, n, tag, e) /\ e \in D
      BY <1>1, <2>1, <2>3 DEF IsFirst
    <3>3. QED
      BY <1>3, <3>1, <3>2
  <2>4. CASE nd[e].token.tag # tag
    <3>1. r = [ret |-> "VISIT_NORMAL", data |-> d]
      BY <2>2, <2>4 DEF SearchStart, Visited
    <3>2. Lacks(nd, e + 1, tag) /\ e + 1 \in Nat
      <4>1. \A j \in 0 .. (e + 1) - 1 : j = e \/ j \in 0 .. e - 1
        OBVIOUS
      <4>2. QED
        BY <2>1, <2>4, <4>1 DEF Lacks
    <3>3. <<d, e + 1>> \in Q
      BY <1>2, <2>1, <3>2
    <3>4. QED
      BY <3>1, <3>3
  <2>5. QED
    BY <2>3, <2>4
<1>6. ASSUME NEW e \in 0 .. n, NEW d \in D, NEW m, <<d, m + 1>> \in Q, NEW r, r = V[<<"finish", e, d>>]
      PROVE  r.ret = "VISIT_NORMAL" /\ <<r.data, m + 1>> \in Q
  <2>1. r = [ret |-> "VISIT_NORMAL", data |-> d]
    BY <1>4, <1>6 DEF SearchBy, SearchFinish, Visited
  <2>2. QED
    BY <1>6, <2>1
<1>7. \A d \in D : <<d, n + 1>> \in Q => d \in F
  BY <1>2, <1>3 DEF IsFirst
<1>8. Sweeps(n, D, V, Q, F)
  BY <1>5, <1>6, <1>7 DEF Sweeps
<1>9. Spot("start", 0, 0, NULL) \in Spots(n, D, Q)
  <2>1. NULL \in D /\ Lacks(nd, 0, tag)
    BY <1>1 DEF Lacks
  <2>2. <<NULL, 0>> \in Q
    BY <1>2, <2>1
  <2>3. QED
    BY <2>1, <2>2, InSpots
<1>10. SearchVisit(t, tag)[MostVisits(t)].data \in F
  <2>1. /\ StartKeeps(nd, n, D, V, Spots(n, D, Q), F)
        /\ FinishKeeps(nd, n, D, V, Spots(n, D, Q), F)
    BY <1>8, SweepKeeps
  <2>2. PICK f : f = SearchVisit(t, tag)
    OBVIOUS
  <2>3. NULL \in D
    BY <1>1
  <2>4. QED
    BY <1>4, <1>9, <2>1, <2>2, <2>3, VisitKeeps
<1>11. QED
  BY <1>3, <1>10, SearchChosen

-----------------------------------------------------------------------------
(* The tree of a page: all that the visitors of html_parser.cpp rely on.     *)
\* Each node is below one it may be below.
Fits(nd, n) == \A m \in 1 .. n : is_child_tag(nd[nd[m].parent].token, nd[m].token)

IsPage(t, n, p) ==
  /\ HasTokens(t.node, n, p) /\ InOrder(t.node, n) /\ Fits(t.node, n)
  /\ \A m \in 1 .. n : t.node[m].token \in NodeToken

TagOf(nd, m) == nd[m].token.tag
IsText(nd, m) == TagOf(nd, m) = "text"

LEMMA PageParents ==
  ASSUME NEW t, NEW n \in Nat, NEW p, IsPage(t, n, p)
  PROVE  /\ n \in 0 .. n /\ TagOf(t.node, 0) = ""
         /\ \A m \in 1 .. n : t.node[m].parent \in 0 .. m - 1 /\ t.node[m].parent \in 0 .. n
<1>1. t.node[0].token = Root /\ InOrder(t.node, n)
  BY DEF IsPage, HasTokens
<1>2. TagOf(t.node, 0) = ""
  <2>1. Root.tag = ""
    BY DEF Root, Token
  <2>2. QED
    BY <1>1, <2>1 DEF TagOf
<1>3. ASSUME NEW m \in 1 .. n
      PROVE  t.node[m].parent \in 0 .. m - 1 /\ t.node[m].parent \in 0 .. n
  <2>1. t.node[m].parent \in 0 .. m - 1
    BY <1>1 DEF InOrder
  <2>2. QED
    BY <2>1
<1>4. n \in 0 .. n
  OBVIOUS
<1>5. \A m \in 1 .. n : t.node[m].parent \in 0 .. m - 1 /\ t.node[m].parent \in 0 .. n
  BY <1>3
<1>6. QED
  BY <1>2, <1>4, <1>5

\* What is below a title is no title.
LEMMA NoTitleInside ==
  ASSUME NEW t, NEW n \in Nat, NEW p, IsPage(t, n, p), NEW T \in 1 .. n, TagOf(t.node, T) = "title",
         NEW e \in T + 1 .. n, \A j \in T + 1 .. e : t.node[j].parent >= T
  PROVE  TagOf(t.node, e) # "title"
<1>. DEFINE nd == t.node
<1>1. \A m \in 1 .. n : nd[m].token \in NodeToken /\ nd[m].token.kind # "root"
  BY DEF IsPage, NodeToken, IsNode
<1>2. SUFFICES ASSUME TagOf(nd, e) = "title" PROVE FALSE
  OBVIOUS
<1>3. PICK q \in T .. e - 1 : q = nd[e].parent
  <2>1. e \in 1 .. n /\ nd[e].parent >= T
    OBVIOUS
  <2>2. nd[e].parent \in 0 .. e - 1
    BY <2>1, PageParents
  <2>3. QED
    BY <2>1, <2>2
<1>4. TagOf(nd, q) = "head"
  <2>1. is_child_tag(nd[q].token, nd[e].token) /\ nd[q].token.kind # "root"
    BY <1>1, <1>3 DEF IsPage, Fits
  <2>2. nd[q].token.tag \in Parents["title"]
    BY <1>2, <2>1 DEF is_child_tag, ChildOfAll, TagOf
  <2>3. QED
    BY <2>2 DEF Parents, TagOf
<1>5. q \in T + 1 .. e - 1
  BY <1>3, <1>4
<1>6. PICK x \in T .. q - 1 : x = nd[q].parent
  <2>1. nd[q].parent >= T /\ q \in 1 .. n
    BY <1>5
  <2>2. nd[q].parent \in 0 .. q - 1
    BY <2>1, PageParents
  <2>3. QED
    BY <1>5, <2>1, <2>2
<1>7. is_child_tag(nd[x].token, nd[q].token) /\ nd[x].token.kind # "root"
  BY <1>1, <1>5, <1>6 DEF IsPage, Fits
<1>8. nd[x].token.tag \in Parents["head"]
  BY <1>4, <1>7 DEF is_child_tag, ChildOfAll, TagOf
<1>9. QED
  BY <1>8 DEF Parents

\* T is the first node with the tag, or 0.
FirstIn(nd, n, tag, T) ==
  /\ T \in 0 .. n
  /\ T = 0 => \A j \in 1 .. n : TagOf(nd, j) # tag
  /\ T # 0 => TagOf(nd, T) = tag /\ \A j \in 1 .. T - 1 : TagOf(nd, j) # tag

-----------------------------------------------------------------------------
(* extract_title has the texts of the first title.                          *)
\* The texts of T that are handled when all up to k are; and what is there then, when the
\* visit stands at e and has come to m.
TextsOf(nd, T, k) == {x \in T + 1 .. k : IsText(nd, x)}
TitleAt(nd, T, e, m, k, d) ==
  /\ T = 0 \/ k < T => ~ d.begin /\ d.title = << >>
  /\ T # 0 /\ T <= k => /\ d.begin /\ T <= e
                        /\ \A j \in T + 1 .. m : nd[j].parent >= T
                        /\ ToSet(d.title) = TextsOf(nd, T, k)
TitleSpots(nd, n, D, T) ==
  {s \in [at : {"start", "finish"}, node : 0 .. n, last : 0 .. n, data : D] :
     TitleAt(nd, T, s.node, s.last, IF s.at = "start" THEN s.last - 1 ELSE s.last, s.data)}
IsTitle(nd, n, T, d) ==
  ToSet(d.title) = {x \in 1 .. n : IsText(nd, x) /\ T # 0 /\ T \in Up(nd, x)}

LEMMA InTitleSpots ==
  ASSUME NEW nd, NEW n \in Nat, NEW D, NEW T, NEW e \in 0 .. n, NEW m \in 0 .. n, NEW d \in D
  PROVE  /\ Spot("start", e, m, d) \in TitleSpots(nd, n, D, T) <=> TitleAt(nd, T, e, m, m - 1, d)
         /\ Spot("finish", e, m, d) \in TitleSpots(nd, n, D, T) <=> TitleAt(nd, T, e, m, m, d)
BY DEF Spot, TitleSpots

TitleStart(t, e, d) ==
  Visited("VISIT_NORMAL",
          IF t.node[e].token.tag = "title" THEN [d EXCEPT !.begin = TRUE]
          ELSE IF d.begin /\ t.node[e].token.tag = "text" THEN [d EXCEPT !.title = Append(@, e)] ELSE d)
TitleFinish(t, e, d) ==
  Visited(IF t.node[e].token.tag = "title" THEN "VISIT_FINISH" ELSE "VISIT_NORMAL", d)
TitleData(n) == [begin : BOOLEAN, title : Seq(0 .. n)]

LEMMA AppendedSet ==
  ASSUME NEW S, NEW s \in Seq(S), NEW x \in S
  PROVE  Append(s, x) \in Seq(S) /\ ToSet(Append(s, x)) = ToSet(s) \cup {x}
<1>1. PICK a : a = Append(s, x)
  OBVIOUS
<1>2. /\ a \in Seq(S) /\ Len(a) = Len(s) + 1 /\ a[Len(s) + 1] = x /\ Len(s) \in Nat
      /\ \A i \in 1 .. Len(s) : a[i] = s[i]
  BY <1>1, AppendFacts
<1>3. DOMAIN s = 1 .. Len(s) /\ DOMAIN a = 1 .. Len(s) + 1
  BY <1>2
<1>4. \A i \in 1 .. Len(s) + 1 : i = Len(s) + 1 \/ i \in 1 .. Len(s)
  BY <1>2
<1>5. \A i \in 1 .. Len(s) : i \in 1 .. Len(s) + 1
  BY <1>2
<1>6. Len(s) + 1 \in 1 .. Len(s) + 1
  BY <1>2
<1>7. {a[i] : i \in 1 .. Len(s) + 1} = {s[i] : i \in 1 .. Len(s)} \cup {x}
  BY <1>2, <1>4, <1>5, <1>6
<1>8. QED
  BY <1>1, <1>2, <1>3, <1>7 DEF ToSet

\* A title is handled, or a text in it, or what is neither.
LEMMA TitleStarts ==
  ASSUME NEW t, NEW n \in Nat, NEW p, IsPage(t, n, p), NEW T, FirstIn(t.node, n, "title", T),
         NEW e \in 0 .. n, NEW d \in TitleData(n), TitleAt(t.node, T, e, e, e - 1, d),
         NEW r, r = TitleStart(t, e, d)
  PROVE  /\ r.ret = "VISIT_NORMAL" /\ r.data \in TitleData(n)
         /\ TitleAt(t.node, T, e, e, e, r.data)
         /\ e < n /\ t.node[e + 1].parent = e => TitleAt(t.node, T, e + 1, e + 1, e, r.data)
<1>. DEFINE nd == t.node
<1>0. T \in Nat /\ T \in 0 .. n /\ e \in Nat
  BY DEF FirstIn
<1>1. r.ret = "VISIT_NORMAL"
  BY DEF TitleStart, Visited
<1>2. CASE T = 0 \/ e < T
  <2>1. ~ d.begin /\ d.title = << >>
    <3>1. T = 0 \/ e - 1 < T
      BY <1>0, <1>2
    <3>2. QED
      BY <3>1 DEF TitleAt
  <2>2. TagOf(nd, e) # "title"
    <3>1. e = 0 \/ (e \in 1 .. n /\ (T = 0 \/ e \in 1 .. T - 1))
      BY <1>0, <1>2
    <3>2. QED
      BY <3>1, PageParents DEF FirstIn
  <2>3. r.data = d
    BY <2>1, <2>2 DEF TitleStart, Visited, TagOf
  <2>4. ~ (T # 0 /\ T <= e)
    BY <1>0, <1>2
  <2>5. QED
    BY <1>1, <2>1, <2>3, <2>4 DEF TitleAt
<1>3. CASE T # 0 /\ e = T
  <2>1. ~ d.begin /\ d.title = << >>
    <3>1. e - 1 < T
      BY <1>0, <1>3
    <3>2. QED
      BY <3>1 DEF TitleAt
  <2>2. TagOf(nd, e) = "title"
    BY <1>3 DEF FirstIn
  <2>3. r.data = [begin |-> TRUE, title |-> << >>]
    BY <2>1, <2>2 DEF TitleStart, Visited, TagOf, TitleData
  <2>4. ToSet(<< >>) = TextsOf(nd, T, e)
    <3>1. T + 1 .. e = {}
      BY <1>0, <1>3
    <3>2. QED
      BY <3>1 DEF ToSet, TextsOf
  <2>5. TitleAt(nd, T, e, e, e, r.data)
    <3>1. ~ (T = 0 \/ e < T) /\ T <= e
      BY <1>0, <1>3
    <3>2. \A j \in T + 1 .. e : FALSE
      BY <1>0, <1>3
    <3>3. QED
      BY <2>3, <2>4, <3>1, <3>2 DEF TitleAt
  <2>6. ASSUME e < n, nd[e + 1].parent = e PROVE TitleAt(nd, T, e + 1, e + 1, e, r.data)
    <3>1. ~ (T = 0 \/ e < T) /\ T <= e + 1
      BY <1>0, <1>3
    <3>2. \A j \in T + 1 .. e + 1 : j = e + 1
      BY <1>0, <1>3
    <3>3. \A j \in T + 1 .. e + 1 : nd[j].parent >= T
      BY <1>0, <1>3, <2>6, <3>2
    <3>4. QED
      BY <2>3, <2>4, <3>1, <3>3 DEF TitleAt
  <2>7. QED
    BY <1>1, <2>3, <2>5, <2>6 DEF TitleData
<1>4. CASE T # 0 /\ T < e
  <2>1. d.begin /\ (\A j \in T + 1 .. e : nd[j].parent >= T) /\ ToSet(d.title) = TextsOf(nd, T, e - 1)
    <3>1. T # 0 /\ T <= e - 1
      BY <1>0, <1>4
    <3>2. QED
      BY <3>1 DEF TitleAt
  <2>2. TagOf(nd, e) # "title"
    <3>1. T \in 1 .. n /\ e \in T + 1 .. n
      BY <1>0, <1>4
    <3>2. TagOf(nd, T) = "title"
      BY <1>4 DEF FirstIn
    <3>3. QED
      BY <2>1, <3>1, <3>2, NoTitleInside
  <2>3. r.data \in TitleData(n) /\ r.data.begin /\ ToSet(r.data.title) = TextsOf(nd, T, e)
    <3>1. \A x \in T + 1 .. e : x = e \/ x \in T + 1 .. e - 1
      BY <1>0
    <3>2. e \in T + 1 .. e /\ \A x \in T + 1 .. e - 1 : x \in T + 1 .. e
      BY <1>0, <1>4
    <3>3. CASE IsText(nd, e)
      <4>1. d.title \in Seq(0 .. n)
        BY DEF TitleData
      <4>2. PICK a : a = Append(d.title, e) /\ a \in Seq(0 .. n) /\ ToSet(a) = ToSet(d.title) \cup {e}
        <5>1. PICK S : S = 0 .. n
          OBVIOUS
        <5>2. d.title \in Seq(S) /\ e \in S
          BY <4>1, <5>1
        <5>3. Append(d.title, e) \in Seq(S) /\ ToSet(Append(d.title, e)) = ToSet(d.title) \cup {e}
          BY <5>2, AppendedSet
        <5>4. QED
          BY <5>1, <5>3
      <4>3. r.data = [begin |-> TRUE, title |-> a]
        BY <2>1, <2>2, <3>3, <4>2 DEF TitleStart, Visited, TagOf, IsText, TitleData
      <4>4. TextsOf(nd, T, e) = TextsOf(nd, T, e - 1) \cup {e}
        BY <3>1, <3>2, <3>3 DEF TextsOf
      <4>5. QED
        BY <2>1, <4>2, <4>3, <4>4 DEF TitleData
    <3>4. CASE ~ IsText(nd, e)
      <4>1. r.data = d
        BY <2>2, <3>4 DEF TitleStart, Visited, TagOf, IsText
      <4>2. TextsOf(nd, T, e) = TextsOf(nd, T, e - 1)
        BY <3>1, <3>2, <3>4 DEF TextsOf
      <4>3. QED
        BY <2>1, <4>1, <4>2
    <3>5. QED
      BY <3>3, <3>4
  <2>4. ~ (T = 0 \/ e < T) /\ T <= e /\ T <= e + 1
    BY <1>0, <1>4
  <2>5. TitleAt(nd, T, e, e, e, r.data)
    BY <2>1, <2>3, <2>4 DEF TitleAt
  <2>6. ASSUME e < n, nd[e + 1].parent = e PROVE TitleAt(nd, T, e + 1, e + 1, e, r.data)
    <3>1. \A j \in T + 1 .. e + 1 : j = e + 1 \/ j \in T + 1 .. e
      BY <1>0
    <3>2. \A j \in T + 1 .. e + 1 : nd[j].parent >= T
      BY <1>0, <2>1, <2>4, <2>6, <3>1
    <3>3. QED
      BY <2>3, <2>4, <3>2 DEF TitleAt
  <2>7. QED
    BY <1>1, <2>3, <2>5, <2>6
<1>5. QED
  BY <1>0, <1>2, <1>3, <1>4

\* The visit leaves a node that is no title, or ends with the title.
LEMMA TitleEnds ==
  ASSUME NEW t, NEW n \in Nat, NEW p, IsPage(t, n, p), NEW T, FirstIn(t.node, n, "title", T),
         NEW e \in 0 .. n, NEW m, Passed(t.node, n, e, m),
         NEW d \in TitleData(n), TitleAt(t.node, T, e, m, m, d)
  PROVE  /\ TagOf(t.node, e) = "title" \/ e = 0 => IsTitle(t.node, n, T, d)
         /\ TagOf(t.node, e) # "title" /\ e # 0 =>
              /\ TitleAt(t.node, T, t.node[e].parent, m, m, d)
              /\ t.node[m + 1].parent = t.node[e].parent => TitleAt(t.node, T, m + 1, m + 1, m, d)
<1>. DEFINE nd == t.node
<1>0. T \in Nat /\ T \in 0 .. n /\ e \in Nat /\ m \in e .. n /\ m \in Nat
  BY DEF FirstIn, Passed
<1>1. ASSUME TagOf(nd, e) = "title" PROVE IsTitle(nd, n, T, d)
  <2>1. e \in 1 .. n
    <3>1. e # 0
      BY <1>1, PageParents
    <3>2. QED
      BY <3>1
  <2>2. T # 0 /\ T <= e
    <3>1. T = 0 => FALSE
      BY <1>1, <2>1 DEF FirstIn
    <3>2. T > e => e \in 1 .. T - 1
      BY <1>0, <2>1
    <3>3. ~ (T > e)
      BY <1>1, <3>1, <3>2 DEF FirstIn
    <3>4. QED
      BY <1>0, <3>1, <3>3
  <2>3. (\A j \in T + 1 .. m : nd[j].parent >= T) /\ ToSet(d.title) = TextsOf(nd, T, m)
    <3>1. T <= m
      BY <1>0, <2>2
    <3>2. QED
      BY <2>2, <3>1 DEF TitleAt
  <2>4. e = T
    <3>1. SUFFICES ASSUME e # T PROVE FALSE
      OBVIOUS
    <3>2. T \in 1 .. n /\ e \in T + 1 .. n /\ \A j \in T + 1 .. e : nd[j].parent >= T
      BY <1>0, <2>2, <2>3, <3>1
    <3>3. TagOf(nd, T) = "title"
      BY <2>2 DEF FirstIn
    <3>4. QED
      BY <1>1, <3>2, <3>3, NoTitleInside
  <2>5. ASSUME NEW x \in T + 1 .. m PROVE x \in 1 .. n /\ T \in Up(nd, x)
    <3>1. x \in 1 .. n /\ T \in 1 .. x - 1 /\ \A j \in T + 1 .. x : j \in T + 1 .. m
      BY <1>0, <2>2
    <3>2. QED
      BY <2>3, <3>1 DEF Up
  <2>6. ASSUME NEW x \in 1 .. n, T \in Up(nd, x) PROVE x \in T + 1 .. m
    <3>1. T \in 1 .. x - 1 /\ \A j \in T + 1 .. x : nd[j].parent >= T
      BY <2>6 DEF Up
    <3>2. CASE x > m
      <4>1. m < n /\ m + 1 \in T + 1 .. x /\ m + 1 \in 1 .. n
        BY <1>0, <2>2, <3>2
      <4>2. nd[m + 1].parent >= T /\ nd[m + 1].parent < T
        BY <2>4, <3>1, <4>1 DEF Passed
      <4>3. nd[m + 1].parent \in Nat
        <5>1. nd[m + 1].parent \in 0 .. n
          BY <4>1, PageParents
        <5>2. QED
          BY <5>1
      <4>4. QED
        BY <1>0, <4>2, <4>3
    <3>3. QED
      BY <1>0, <3>1, <3>2
  <2>7. QED
    BY <2>2, <2>3, <2>5, <2>6 DEF IsTitle, TextsOf
<1>2. ASSUME e = 0 PROVE IsTitle(nd, n, T, d)
  <2>1. m = n
    BY <1>2, RootPassed DEF IsPage
  <2>2. T = 0
    <3>1. T # 0 => T <= m
      BY <1>0, <2>1
    <3>2. T # 0 => T <= e
      BY <3>1 DEF TitleAt
    <3>3. QED
      BY <1>0, <1>2, <3>2
  <2>3. d.title = << >>
    BY <2>2 DEF TitleAt
  <2>4. ToSet(<< >>) = {}
    BY DEF ToSet
  <2>5. QED
    BY <2>2, <2>3, <2>4 DEF IsTitle
<1>3. ASSUME TagOf(nd, e) # "title", e # 0
      PROVE  /\ TitleAt(nd, T, nd[e].parent, m, m, d)
             /\ nd[m + 1].parent = nd[e].parent => TitleAt(nd, T, m + 1, m + 1, m, d)
  <2>1. PICK q \in 0 .. e - 1 : q = nd[e].parent
    <3>1. e \in 1 .. n
      BY <1>3
    <3>2. nd[e].parent \in 0 .. e - 1
      BY <3>1, PageParents
    <3>3. QED
      BY <3>2
  <2>2. ASSUME T # 0, T <= m PROVE T <= q
    <3>1. T <= e /\ \A j \in T + 1 .. m : nd[j].parent >= T
      BY <2>2 DEF TitleAt
    <3>2. e # T
      BY <1>3, <2>2 DEF FirstIn
    <3>3. e \in T + 1 .. m
      BY <1>0, <3>1, <3>2
    <3>4. QED
      BY <2>1, <3>1, <3>3
  <2>3. TitleAt(nd, T, q, m, m, d)
    BY <2>2 DEF TitleAt
  <2>4. ASSUME nd[m + 1].parent = q PROVE TitleAt(nd, T, m + 1, m + 1, m, d)
    <3>1. ASSUME T # 0, T <= m
          PROVE  T <= m + 1 /\ \A j \in T + 1 .. m + 1 : nd[j].parent >= T
      <4>1. \A j \in T + 1 .. m : nd[j].parent >= T
        BY <3>1 DEF TitleAt
      <4>2. \A j \in T + 1 .. m + 1 : j = m + 1 \/ j \in T + 1 .. m
        BY <1>0
      <4>3. nd[m + 1].parent >= T
        BY <2>2, <2>4, <3>1
      <4>4. QED
        BY <1>0, <3>1, <4>1, <4>2, <4>3
    <3>2. QED
      BY <3>1 DEF TitleAt
  <2>5. QED
    BY <2>1, <2>3, <2>4
<1>4. QED
  BY <1>1, <1>2, <1>3

TitleBy(V, t, n, D) ==
  \A e \in 0 .. n, d \in D : /\ V[<<"start", e, d>>] = TitleStart(t, e, d)
                             /\ V[<<"finish", e, d>>] = TitleFinish(t, e, d)
IsTitleVisit(t, f) ==
  f = [k \in 0 .. MostVisits(t) |->
        IF k = 0 THEN Visit(<< 0 >>, "start", [begin |-> FALSE, title |-> << >>])
        ELSE LET v == f[k - 1]
             IN  IF v.calls = << >> THEN v
                 ELSE html_node_visit(t, v, IF v.at = "start" THEN TitleStart(t, Last(v.calls), v.data)
                                            ELSE TitleFinish(t, Last(v.calls), v.data))]
TitleVisit(t) == CHOOSE f : IsTitleVisit(t, f)

LEMMA TitleFollows ==
  ASSUME NEW t, NEW n \in Nat, NEW p, HasTokens(t.node, n, p), InOrder(t.node, n),
         NEW D, [begin |-> FALSE, title |-> << >>] \in D,
         \A e \in 0 .. n, d \in D :
           /\ TitleStart(t, e, d) \in Results(D)
           /\ TitleFinish(t, e, d) \in Results(D)
  PROVE  \E V \in Visitors(n, D) :
           /\ TitleBy(V, t, n, D)
           /\ Follows(TitleVisit(t), t, n, D, [begin |-> FALSE, title |-> << >>], V)
<1>1. PICK V \in Visitors(n, D) : TitleBy(V, t, n, D)
  <2>1. PICK S : S = [x \in (0 .. n) \X D |-> TitleStart(t, x[1], x[2])]
    OBVIOUS
  <2>2. PICK G : G = [x \in (0 .. n) \X D |-> TitleFinish(t, x[1], x[2])]
    OBVIOUS
  <2>3. S \in [(0 .. n) \X D -> Results(D)] /\ G \in [(0 .. n) \X D -> Results(D)]
    BY <2>1, <2>2
  <2>4. PICK V : IsTable(V, n, D, S, G)
    BY <2>3, Tabulated
  <2>5. \A e \in 0 .. n, d \in D :
          /\ S[<<e, d>>] = TitleStart(t, e, d)
          /\ G[<<e, d>>] = TitleFinish(t, e, d)
    BY <2>1, <2>2
  <2>6. V \in Visitors(n, D) /\ TitleBy(V, t, n, D)
    BY <2>4, <2>5 DEF IsTable, TitleBy
  <2>7. QED
    BY <2>6
<1>2. PICK K \in Nat : K = MostVisits(t)
  BY MostVisitsIs
<1>3. ASSUME NEW v \in Visits(n, D), v.calls # << >>
      PROVE  By(V, v) = IF v.at = "start" THEN TitleStart(t, Last(v.calls), v.data)
                        ELSE TitleFinish(t, Last(v.calls), v.data)
  <2>1. v.at \in {"start", "finish"} /\ Last(v.calls) \in 0 .. n /\ v.data \in D
    BY <1>3, VisitorTyped DEF Visits
  <2>2. QED
    BY <1>1, <2>1 DEF By, TitleBy
<1>4. \E f : IsTitleVisit(t, f)
  <2>1. PICK f \in [0 .. K -> Visits(n, D)] :
          Follows(f, t, n, D, [begin |-> FALSE, title |-> << >>], V)
    BY <1>2, VisitExists
  <2>2. \A k \in 0 .. K : k # 0 => f[k - 1] \in Visits(n, D) /\ f[k] = StepBy(t, V, f[k - 1])
    <3>1. \A k \in 0 .. K : k # 0 => k \in 1 .. K /\ k - 1 \in 0 .. K
      OBVIOUS
    <3>2. QED
      BY <1>2, <2>1, <3>1 DEF Follows
  <2>3. IsTitleVisit(t, f)
    BY <1>2, <1>3, <2>1, <2>2 DEF IsTitleVisit, Follows, StepBy
  <2>4. QED
    BY <2>3
<1>5. PICK f : f = TitleVisit(t)
  OBVIOUS
<1>6. IsTitleVisit(t, f)
  BY <1>4, <1>5 DEF TitleVisit
<1>7. Follows(f, t, n, D, [begin |-> FALSE, title |-> << >>], V)
  <2>1. f[0] = Visit(<< 0 >>, "start", [begin |-> FALSE, title |-> << >>])
    BY <1>2, <1>6 DEF IsTitleVisit
  <2>2. ASSUME NEW k \in 1 .. K, f[k - 1] \in Visits(n, D) PROVE f[k] = StepBy(t, V, f[k - 1])
    <3>1. k \in 0 .. K /\ k # 0
      OBVIOUS
    <3>2. PICK v \in Visits(n, D) : v = f[k - 1]
      BY <2>2
    <3>3. f[k] = IF v.calls = << >> THEN v
                 ELSE html_node_visit(t, v, IF v.at = "start" THEN TitleStart(t, Last(v.calls), v.data)
                                            ELSE TitleFinish(t, Last(v.calls), v.data))
      BY <1>2, <1>6, <3>1, <3>2 DEF IsTitleVisit
    <3>4. QED
      BY <1>3, <3>2, <3>3 DEF StepBy
  <2>3. QED
    BY <1>2, <2>1, <2>2 DEF Follows
<1>8. QED
  BY <1>1, <1>5, <1>7

LEMMA TitleKeeps ==
  ASSUME NEW t, NEW n \in Nat, NEW p, IsPage(t, n, p), NEW T, FirstIn(t.node, n, "title", T),
         NEW D, D = TitleData(n), NEW V, TitleBy(V, t, n, D),
         NEW F, F = {d \in D : IsTitle(t.node, n, T, d)}
  PROVE  /\ StartKeeps(t.node, n, D, V, TitleSpots(t.node, n, D, T), F)
         /\ FinishKeeps(t.node, n, D, V, TitleSpots(t.node, n, D, T), F)
<1>. DEFINE nd == t.node
<1>. DEFINE J == TitleSpots(nd, n, D, T)
<1>1. ASSUME NEW e \in 0 .. n, NEW d \in D, Spot("start", e, e, d) \in J,
             NEW r, r = V[<<"start", e, d>>]
      PROVE  /\ r.ret = "VISIT_NORMAL"
             /\ Spot("finish", e, e, r.data) \in J
             /\ e < n /\ nd[e + 1].parent = e => Spot("start", e + 1, e + 1, r.data) \in J
  <2>1. TitleAt(nd, T, e, e, e - 1, d)
    BY <1>1, InTitleSpots
  <2>2. r = TitleStart(t, e, d) /\ d \in TitleData(n)
    BY <1>1 DEF TitleBy
  <2>3. /\ r.ret = "VISIT_NORMAL" /\ r.data \in D
        /\ TitleAt(nd, T, e, e, e, r.data)
        /\ e < n /\ nd[e + 1].parent = e => TitleAt(nd, T, e + 1, e + 1, e, r.data)
    BY <2>1, <2>2, TitleStarts
  <2>4. Spot("finish", e, e, r.data) \in J
    BY <2>3, InTitleSpots
  <2>5. ASSUME e < n, nd[e + 1].parent = e PROVE Spot("start", e + 1, e + 1, r.data) \in J
    <3>1. e + 1 \in 0 .. n /\ (e + 1) - 1 = e
      BY <2>5
    <3>2. QED
      BY <2>3, <2>5, <3>1, InTitleSpots
  <2>6. QED
    BY <2>3, <2>4, <2>5
<1>2. ASSUME NEW e \in 0 .. n, NEW d \in D, NEW m \in e .. n, Passed(nd, n, e, m),
             Spot("finish", e, m, d) \in J, NEW r, r = V[<<"finish", e, d>>]
      PROVE  /\ r.ret = "VISIT_FINISH" => r.data \in F
             /\ r.ret # "VISIT_FINISH" => Leaving(nd, n, e, m, r.data, J, F)
  <2>0. m \in 0 .. n
    OBVIOUS
  <2>1. TitleAt(nd, T, e, m, m, d)
    BY <1>2, <2>0, InTitleSpots
  <2>2. r = TitleFinish(t, e, d)
    BY <1>2 DEF TitleBy
  <2>3. /\ r.data = d
        /\ r.ret = IF TagOf(nd, e) = "title" THEN "VISIT_FINISH" ELSE "VISIT_NORMAL"
    BY <2>2 DEF TitleFinish, Visited, TagOf
  <2>4. /\ TagOf(nd, e) = "title" \/ e = 0 => IsTitle(nd, n, T, d)
        /\ TagOf(nd, e) # "title" /\ e # 0 =>
              /\ TitleAt(nd, T, nd[e].parent, m, m, d)
              /\ nd[m + 1].parent = nd[e].parent => TitleAt(nd, T, m + 1, m + 1, m, d)
    BY <1>2, <2>1, TitleEnds
  <2>5. CASE TagOf(nd, e) = "title"
    BY <2>3, <2>4, <2>5
  <2>6. CASE TagOf(nd, e) # "title"
    <3>1. ASSUME e = 0 PROVE d \in F
      BY <2>4, <3>1
    <3>2. ASSUME e # 0 PROVE Spot("finish", nd[e].parent, m, d) \in J
      <4>1. nd[e].parent \in 0 .. n
        <5>1. e \in 1 .. n
          BY <3>2
        <5>2. QED
          BY <5>1, PageParents
      <4>2. QED
        BY <2>0, <2>4, <2>6, <3>2, <4>1, InTitleSpots
    <3>3. ASSUME e # 0, m < n, nd[m + 1].parent = nd[e].parent
          PROVE  Spot("start", m + 1, m + 1, d) \in J
      <4>1. m + 1 \in 0 .. n /\ (m + 1) - 1 = m
        BY <2>0, <3>3
      <4>2. QED
        BY <2>4, <2>6, <3>3, <4>1, InTitleSpots
    <3>4. QED
      BY <2>3, <2>6, <3>1, <3>2, <3>3 DEF Leaving
  <2>7. QED
    BY <2>5, <2>6
<1>3. StartKeeps(nd, n, D, V, J, F)
  <2>. HIDE DEF J
  <2>1. QED
    BY <1>1 DEF StartKeeps
<1>4. FinishKeeps(nd, n, D, V, J, F)
  <2>. HIDE DEF J
  <2>1. QED
    BY <1>2 DEF FinishKeeps
<1>5. QED
  BY <1>3, <1>4

LEMMA TitleIs ==
  ASSUME NEW t, NEW n \in Nat, NEW p, IsPage(t, n, p), NEW T, FirstIn(t.node, n, "title", T)
  PROVE  IsTitle(t.node, n, T, TitleVisit(t)[MostVisits(t)].data)
<1>1. PICK D : D = TitleData(n)
  OBVIOUS
<1>2. PICK d0 : d0 = [begin |-> FALSE, title |-> << >>] /\ d0 \in D
  <2>1. << >> \in Seq(0 .. n)
    OBVIOUS
  <2>2. [begin |-> FALSE, title |-> << >>] \in D
    BY <1>1, <2>1 DEF TitleData
  <2>3. QED
    BY <2>2
<1>3. HasTokens(t.node, n, p) /\ InOrder(t.node, n)
  BY DEF IsPage
<1>4. ASSUME NEW e \in 0 .. n, NEW d \in D
      PROVE  TitleStart(t, e, d) \in Results(D) /\ TitleFinish(t, e, d) \in Results(D)
  <2>1. d.begin \in BOOLEAN /\ d.title \in Seq(0 .. n) /\ d = [begin |-> d.begin, title |-> d.title]
    BY <1>1 DEF TitleData
  <2>2. PICK a : a = Append(d.title, e) /\ a \in Seq(0 .. n)
    <3>1. PICK S : S = 0 .. n
      OBVIOUS
    <3>2. Append(d.title, e) \in Seq(S)
      BY <2>1, <3>1
    <3>3. QED
      BY <3>1, <3>2
  <2>3. [d EXCEPT !.begin = TRUE] \in D /\ [d EXCEPT !.title = a] \in D
    BY <1>1, <2>1, <2>2 DEF TitleData
  <2>4. TitleStart(t, e, d) \in Results(D)
    BY <2>2, <2>3 DEF TitleStart, Visited, Results
  <2>5. TitleFinish(t, e, d) \in Results(D)
    BY DEF TitleFinish, Visited, Results
  <2>6. QED
    BY <2>4, <2>5
<1>5. PICK V \in Visitors(n, D) : TitleBy(V, t, n, D) /\ Follows(TitleVisit(t), t, n, D, d0, V)
  BY <1>2, <1>3, <1>4, TitleFollows
<1>6. PICK F : F = {d \in D : IsTitle(t.node, n, T, d)}
  OBVIOUS
<1>7. /\ StartKeeps(t.node, n, D, V, TitleSpots(t.node, n, D, T), F)
      /\ FinishKeeps(t.node, n, D, V, TitleSpots(t.node, n, D, T), F)
  BY <1>1, <1>5, <1>6, TitleKeeps
<1>8. Spot("start", 0, 0, d0) \in TitleSpots(t.node, n, D, T)
  <2>1. T \in Nat /\ (T = 0 \/ ~ (T <= 0 - 1)) /\ (T = 0 \/ 0 - 1 < T)
    BY DEF FirstIn
  <2>2. TitleAt(t.node, T, 0, 0, 0 - 1, d0)
    BY <1>2, <2>1 DEF TitleAt
  <2>3. QED
    BY <1>2, <2>2, InTitleSpots
<1>9. PICK f : f = TitleVisit(t)
  OBVIOUS
<1>10. f[MostVisits(t)].data \in F
  BY <1>2, <1>3, <1>5, <1>7, <1>8, <1>9, VisitKeeps
<1>11. QED
  BY <1>6, <1>9, <1>10

-----------------------------------------------------------------------------
(* extract_content holds texts in their order.                               *)
ContentStart(t, e, d) ==
  LET tag == t.node[e].token.tag
      add(what) == [d EXCEPT !.content = Append(@, what)]
  IN  CASE tag \in {"title", "option"} -> Visited("VISIT_SKIP_CHILD", d)
        [] tag = "text" -> Visited("VISIT_NORMAL", IF d.in_anchor /\ t.node[e].token.value = "short"
                                                   THEN d ELSE add(e))
        [] tag \in {"td", "br", "p"} -> Visited("VISIT_NORMAL", add(0))
        [] tag = "a" -> Visited("VISIT_NORMAL", [d EXCEPT !.in_anchor = TRUE])
        [] OTHER -> Visited("VISIT_NORMAL", d)
ContentFinish(t, e, d) ==
  Visited("VISIT_NORMAL", IF t.node[e].token.tag = "a" THEN [d EXCEPT !.in_anchor = FALSE] ELSE d)
ContentData(n) == [in_anchor : BOOLEAN, content : Seq(0 .. n)]

ContentBy(V, t, n, D) ==
  \A e \in 0 .. n, d \in D : /\ V[<<"start", e, d>>] = ContentStart(t, e, d)
                             /\ V[<<"finish", e, d>>] = ContentFinish(t, e, d)
IsContentVisit(t, f) ==
  f = [k \in 0 .. MostVisits(t) |->
        IF k = 0 THEN Visit(<< 0 >>, "start", [in_anchor |-> FALSE, content |-> << >>])
        ELSE LET v == f[k - 1]
             IN  IF v.calls = << >> THEN v
                 ELSE html_node_visit(t, v, IF v.at = "start" THEN ContentStart(t, Last(v.calls), v.data)
                                            ELSE ContentFinish(t, Last(v.calls), v.data))]
ContentVisit(t) == CHOOSE f : IsContentVisit(t, f)

LEMMA ContentFollows ==
  ASSUME NEW t, NEW n \in Nat, NEW p, HasTokens(t.node, n, p), InOrder(t.node, n),
         NEW D, [in_anchor |-> FALSE, content |-> << >>] \in D,
         \A e \in 0 .. n, d \in D :
           /\ ContentStart(t, e, d) \in Results(D)
           /\ ContentFinish(t, e, d) \in Results(D)
  PROVE  \E V \in Visitors(n, D) :
           /\ ContentBy(V, t, n, D)
           /\ Follows(ContentVisit(t), t, n, D, [in_anchor |-> FALSE, content |-> << >>], V)
<1>1. PICK V \in Visitors(n, D) : ContentBy(V, t, n, D)
  <2>1. PICK S : S = [x \in (0 .. n) \X D |-> ContentStart(t, x[1], x[2])]
    OBVIOUS
  <2>2. PICK G : G = [x \in (0 .. n) \X D |-> ContentFinish(t, x[1], x[2])]
    OBVIOUS
  <2>3. S \in [(0 .. n) \X D -> Results(D)] /\ G \in [(0 .. n) \X D -> Results(D)]
    BY <2>1, <2>2
  <2>4. PICK V : IsTable(V, n, D, S, G)
    BY <2>3, Tabulated
  <2>5. \A e \in 0 .. n, d \in D :
          /\ S[<<e, d>>] = ContentStart(t, e, d)
          /\ G[<<e, d>>] = ContentFinish(t, e, d)
    BY <2>1, <2>2
  <2>6. V \in Visitors(n, D) /\ ContentBy(V, t, n, D)
    BY <2>4, <2>5 DEF IsTable, ContentBy
  <2>7. QED
    BY <2>6
<1>2. PICK K \in Nat : K = MostVisits(t)
  BY MostVisitsIs
<1>3. ASSUME NEW v \in Visits(n, D), v.calls # << >>
      PROVE  By(V, v) = IF v.at = "start" THEN ContentStart(t, Last(v.calls), v.data)
                        ELSE ContentFinish(t, Last(v.calls), v.data)
  <2>1. v.at \in {"start", "finish"} /\ Last(v.calls) \in 0 .. n /\ v.data \in D
    BY <1>3, VisitorTyped DEF Visits
  <2>2. QED
    BY <1>1, <2>1 DEF By, ContentBy
<1>4. \E f : IsContentVisit(t, f)
  <2>1. PICK f \in [0 .. K -> Visits(n, D)] :
          Follows(f, t, n, D, [in_anchor |-> FALSE, content |-> << >>], V)
    BY <1>2, VisitExists
  <2>2. \A k \in 0 .. K : k # 0 => f[k - 1] \in Visits(n, D) /\ f[k] = StepBy(t, V, f[k - 1])
    <3>1. \A k \in 0 .. K : k # 0 => k \in 1 .. K /\ k - 1 \in 0 .. K
      OBVIOUS
    <3>2. QED
      BY <1>2, <2>1, <3>1 DEF Follows
  <2>3. IsContentVisit(t, f)
    BY <1>2, <1>3, <2>1, <2>2 DEF IsContentVisit, Follows, StepBy
  <2>4. QED
    BY <2>3
<1>5. PICK f : f = ContentVisit(t)
  OBVIOUS
<1>6. IsContentVisit(t, f)
  BY <1>4, <1>5 DEF ContentVisit
<1>7. Follows(f, t, n, D, [in_anchor |-> FALSE, content |-> << >>], V)
  <2>1. f[0] = Visit(<< 0 >>, "start", [in_anchor |-> FALSE, content |-> << >>])
    BY <1>2, <1>6 DEF IsContentVisit
  <2>2. ASSUME NEW k \in 1 .. K, f[k - 1] \in Visits(n, D) PROVE f[k] = StepBy(t, V, f[k - 1])
    <3>1. k \in 0 .. K /\ k # 0
      OBVIOUS
    <3>2. PICK v \in Visits(n, D) : v = f[k - 1]
      BY <2>2
    <3>3. f[k] = IF v.calls = << >> THEN v
                 ELSE html_node_visit(t, v, IF v.at = "start" THEN ContentStart(t, Last(v.calls), v.data)
                                            ELSE ContentFinish(t, Last(v.calls), v.data))
      BY <1>2, <1>6, <3>1, <3>2 DEF IsContentVisit
    <3>4. QED
      BY <1>3, <3>2, <3>3 DEF StepBy
  <2>3. QED
    BY <1>2, <2>1, <2>2 DEF Follows
<1>8. QED
  BY <1>1, <1>5, <1>7

LEMMA ContentChosen ==
  extract_content = ContentVisit(tree)[MostVisits(tree)].data.content
BY DEF extract_content, html_tree_visit, ContentVisit, IsContentVisit, ContentStart, ContentFinish, Tag, Value

LEMMA TitleChosen ==
  extract_title = TitleVisit(tree)[MostVisits(tree)].data.title
BY DEF extract_title, html_tree_visit, TitleVisit, IsTitleVisit, TitleStart, TitleFinish, Tag

LEMMA MetChosen == Met = MetOf(tree) /\ Met' = MetOf(tree')
BY DEF Met, html_tree_visit, MetOf, MetVisit, IsMetVisit, MetStart, MetFinish

\* The texts with none of the tags above them; the content that is there when all nodes up
\* to k are handled.
ClearTexts(nd, n, tags) ==
  {x \in 1 .. n : IsText(nd, x) /\ \A a \in Up(nd, x) : TagOf(nd, a) \notin tags}
IsContent(nd, n, k, c) ==
  /\ \A i \in DOMAIN c : c[i] <= k
  /\ \A i \in DOMAIN c : \A j \in 1 .. i - 1 : c[i] # 0 => c[j] < c[i]
  /\ ToSet(c) \ {0} \subseteq ClearTexts(nd, n, {"title", "option"})
  /\ \A x \in 1 .. k : x \in ClearTexts(nd, n, {"title", "option", "a"}) => x \in ToSet(c)

LEMMA ContentAppended ==
  ASSUME NEW nd, NEW n \in Nat, NEW e \in 0 .. n, NEW c \in Seq(0 .. n), IsContent(nd, n, e - 1, c),
         NEW x \in {0, e}, x # 0 => x \in ClearTexts(nd, n, {"title", "option"}),
         x = 0 => e # 0 /\ ~ IsText(nd, e)
  PROVE  Append(c, x) \in Seq(0 .. n) /\ IsContent(nd, n, e, Append(c, x))
<1>1. PICK S : S = 0 .. n
  OBVIOUS
<1>2. c \in Seq(S) /\ x \in S
  BY <1>1
<1>3. PICK a : a = Append(c, x)
  OBVIOUS
<1>4. a \in Seq(S) /\ ToSet(a) = ToSet(c) \cup {x}
  BY <1>2, <1>3, AppendedSet
<1>5. /\ Len(a) = Len(c) + 1 /\ a[Len(c) + 1] = x /\ Len(c) \in Nat
      /\ \A i \in 1 .. Len(c) : a[i] = c[i]
  BY <1>2, <1>3, AppendFacts
<1>6. DOMAIN c = 1 .. Len(c) /\ DOMAIN a = 1 .. Len(c) + 1 /\ \A i \in DOMAIN c : c[i] \in 0 .. n
  BY <1>2, <1>4, <1>5
<1>7. /\ \A i \in DOMAIN c : c[i] <= e - 1
      /\ \A i \in DOMAIN c : \A j \in 1 .. i - 1 : c[i] # 0 => c[j] < c[i]
      /\ ToSet(c) \ {0} \subseteq ClearTexts(nd, n, {"title", "option"})
      /\ \A y \in 1 .. e - 1 : y \in ClearTexts(nd, n, {"title", "option", "a"}) => y \in ToSet(c)
  BY DEF IsContent
<1>8. ASSUME NEW i \in DOMAIN a PROVE a[i] <= e
  <2>1. i = Len(c) + 1 \/ i \in 1 .. Len(c)
    BY <1>5, <1>6
  <2>2. CASE i = Len(c) + 1
    BY <1>5, <2>2
  <2>3. CASE i \in 1 .. Len(c)
    <3>1. a[i] = c[i] /\ c[i] \in 0 .. n /\ c[i] <= e - 1
      BY <1>5, <1>6, <1>7, <2>3
    <3>2. QED
      BY <3>1
  <2>4. QED
    BY <2>1, <2>2, <2>3
<1>9. ASSUME NEW i \in DOMAIN a, NEW j \in 1 .. i - 1, a[i] # 0 PROVE a[j] < a[i]
  <2>1. j \in 1 .. Len(c) /\ (i = Len(c) + 1 \/ i \in 1 .. Len(c))
    BY <1>5, <1>6
  <2>2. a[j] = c[j] /\ c[j] \in 0 .. n /\ c[j] <= e - 1
    BY <1>5, <1>6, <1>7, <2>1
  <2>3. CASE i = Len(c) + 1
    <3>1. a[i] = e
      BY <1>5, <1>9, <2>3
    <3>2. QED
      BY <2>2, <3>1
  <2>4. CASE i \in 1 .. Len(c)
    <3>1. a[i] = c[i] /\ c[i] # 0
      BY <1>5, <1>9, <2>4
    <3>2. QED
      BY <1>6, <1>7, <2>2, <2>4, <3>1
  <2>5. QED
    BY <2>1, <2>3, <2>4
<1>10. ASSUME NEW y \in 1 .. e, y \in ClearTexts(nd, n, {"title", "option", "a"}) PROVE y \in ToSet(a)
  <2>1. y = e \/ y \in 1 .. e - 1
    OBVIOUS
  <2>2. IsText(nd, y)
    BY <1>10 DEF ClearTexts
  <2>3. QED
    BY <1>4, <1>7, <1>10, <2>1, <2>2
<1>11. ToSet(a) \ {0} \subseteq ClearTexts(nd, n, {"title", "option"})
  BY <1>4, <1>7
<1>12. QED
  BY <1>1, <1>3, <1>4, <1>8, <1>9, <1>10, <1>11 DEF IsContent

\* Nothing new when the nodes behind k are no texts, or below one of the tags.
LEMMA ContentStays ==
  ASSUME NEW nd, NEW n \in Nat, NEW k \in 0 .. n, NEW l \in k .. n, NEW c \in Seq(0 .. n),
         IsContent(nd, n, k - 1, c),
         \A x \in k .. l : x \notin ClearTexts(nd, n, {"title", "option", "a"})
  PROVE  IsContent(nd, n, l, c)
<1>1. PICK S : S = 0 .. n
  OBVIOUS
<1>2. \A i \in DOMAIN c : c[i] \in S
  BY <1>1
<1>3. ASSUME NEW i \in DOMAIN c PROVE c[i] <= l
  <2>1. c[i] \in 0 .. n /\ c[i] <= k - 1
    BY <1>1, <1>2 DEF IsContent
  <2>2. QED
    BY <2>1
<1>4. ASSUME NEW x \in 1 .. l, x \in ClearTexts(nd, n, {"title", "option", "a"}) PROVE x \in ToSet(c)
  <2>1. x \in 1 .. k - 1
    BY <1>4
  <2>2. QED
    BY <1>4, <2>1 DEF IsContent
<1>5. QED
  BY <1>3, <1>4 DEF IsContent

\* An anchor is open at e, when the visit has come to m; no title or option is above e.
AnchorOpen(nd, e, m) == \E A \in 1 .. e : TagOf(nd, A) = "a" /\ \A j \in A + 1 .. m : nd[j].parent >= A
Clear(nd, e) == \A a \in Up(nd, e) : TagOf(nd, a) \notin {"title", "option"}
ContentAt(nd, n, at, e, m, d) ==
  /\ IsContent(nd, n, IF at = "start" THEN m - 1 ELSE m, d.content)
  /\ d.in_anchor => AnchorOpen(nd, e, m)
  /\ Clear(nd, e)
  /\ at = "finish" => TagOf(nd, e) \notin {"title", "option"}
ContentSpots(nd, n, D) ==
  {s \in [at : {"start", "finish"}, node : 0 .. n, last : 0 .. n, data : D] :
     ContentAt(nd, n, s.at, s.node, s.last, s.data)}

LEMMA InContentSpots ==
  ASSUME NEW nd, NEW n \in Nat, NEW D, NEW at \in {"start", "finish"}, NEW e \in 0 .. n,
         NEW m \in 0 .. n, NEW d \in D
  PROVE  Spot(at, e, m, d) \in ContentSpots(nd, n, D) <=> ContentAt(nd, n, at, e, m, d)
BY DEF Spot, ContentSpots

\* To its first child ...
LEMMA ContentBelow ==
  ASSUME NEW t, NEW n \in Nat, NEW p, IsPage(t, n, p), NEW e \in 0 .. n, Clear(t.node, e),
         TagOf(t.node, e) \notin {"title", "option"}, e < n, t.node[e + 1].parent = e
  PROVE  /\ Clear(t.node, e + 1)
         /\ AnchorOpen(t.node, e, e) => AnchorOpen(t.node, e + 1, e + 1)
<1>. DEFINE nd == t.node
<1>1. InOrder(nd, n) /\ e + 1 \in 1 .. n
  BY DEF IsPage
<1>2. Clear(nd, e + 1)
  <2>1. /\ e = 0 => Up(nd, e + 1) = {}
        /\ e # 0 => Up(nd, e + 1) = {e} \cup Up(nd, e)
    BY <1>1, UpParent
  <2>2. QED
    BY <2>1 DEF Clear
<1>3. ASSUME AnchorOpen(nd, e, e) PROVE AnchorOpen(nd, e + 1, e + 1)
  <2>1. PICK A \in 1 .. e : TagOf(nd, A) = "a" /\ \A j \in A + 1 .. e : nd[j].parent >= A
    BY <1>3 DEF AnchorOpen
  <2>2. A \in 1 .. e + 1 /\ \A j \in A + 1 .. e + 1 : j = e + 1 \/ j \in A + 1 .. e
    OBVIOUS
  <2>3. \A j \in A + 1 .. e + 1 : nd[j].parent >= A
    BY <2>1, <2>2
  <2>4. QED
    BY <2>1, <2>2, <2>3 DEF AnchorOpen
<1>4. QED
  BY <1>2, <1>3

\* ... and from a node to its parent, or to its parent's next child.
LEMMA ContentLeaves ==
  ASSUME NEW t, NEW n \in Nat, NEW p, IsPage(t, n, p), NEW e \in 1 .. n, NEW m \in e .. n,
         Clear(t.node, e), NEW in_anchor \in BOOLEAN,
         in_anchor => AnchorOpen(t.node, e, m) /\ TagOf(t.node, e) # "a"
  PROVE  /\ in_anchor => AnchorOpen(t.node, t.node[e].parent, m)
         /\ Clear(t.node, t.node[e].parent)
         /\ TagOf(t.node, t.node[e].parent) \notin {"title", "option"}
         /\ m < n /\ t.node[m + 1].parent = t.node[e].parent =>
              Clear(t.node, m + 1) /\ (in_anchor => AnchorOpen(t.node, m + 1, m + 1))
<1>. DEFINE nd == t.node
<1>1. InOrder(nd, n)
  BY DEF IsPage
<1>2. PICK q \in 0 .. e - 1 : q = nd[e].parent
  BY PageParents
<1>3. /\ q = 0 => Up(nd, e) = {}
      /\ q # 0 => Up(nd, e) = {q} \cup Up(nd, q)
  BY <1>1, <1>2, UpParent
<1>4. Clear(nd, q) /\ TagOf(nd, q) \notin {"title", "option"}
  <2>1. CASE q = 0
    <3>1. Up(nd, 0) = {}
      BY DEF Up
    <3>2. TagOf(nd, 0) = ""
      BY PageParents
    <3>3. QED
      BY <2>1, <3>1, <3>2 DEF Clear
  <2>2. CASE q # 0
    BY <1>3, <2>2 DEF Clear
  <2>3. QED
    BY <2>1, <2>2
<1>5. ASSUME in_anchor
      PROVE  \E A \in 1 .. q : TagOf(nd, A) = "a" /\ \A j \in A + 1 .. m : nd[j].parent >= A
  <2>1. PICK A \in 1 .. e : TagOf(nd, A) = "a" /\ \A j \in A + 1 .. m : nd[j].parent >= A
    BY <1>5 DEF AnchorOpen
  <2>2. A # e /\ e \in A + 1 .. m
    BY <1>5, <2>1
  <2>3. A \in 1 .. q
    BY <1>2, <2>1, <2>2
  <2>4. QED
    BY <2>1, <2>3
<1>6. ASSUME m < n, nd[m + 1].parent = q PROVE Clear(nd, m + 1)
  <2>1. m + 1 \in 1 .. n
    BY <1>6
  <2>2. /\ q = 0 => Up(nd, m + 1) = {}
        /\ q # 0 => Up(nd, m + 1) = {q} \cup Up(nd, q)
    BY <1>1, <1>6, <2>1, UpParent
  <2>3. Up(nd, m + 1) = Up(nd, e)
    BY <1>3, <2>2
  <2>4. QED
    BY <2>3 DEF Clear
<1>7. ASSUME m < n, nd[m + 1].parent = q, in_anchor PROVE AnchorOpen(nd, m + 1, m + 1)
  <2>1. PICK A \in 1 .. q : TagOf(nd, A) = "a" /\ \A j \in A + 1 .. m : nd[j].parent >= A
    BY <1>5, <1>7
  <2>2. A \in 1 .. m + 1 /\ \A j \in A + 1 .. m + 1 : j = m + 1 \/ j \in A + 1 .. m
    OBVIOUS
  <2>3. \A j \in A + 1 .. m + 1 : nd[j].parent >= A
    BY <1>7, <2>1, <2>2
  <2>4. QED
    BY <2>1, <2>2, <2>3 DEF AnchorOpen
<1>8. QED
  BY <1>2, <1>4, <1>5, <1>6, <1>7 DEF AnchorOpen

\* What is below a title or option is left out.
LEMMA ContentSkips ==
  ASSUME NEW t, NEW n \in Nat, NEW p, IsPage(t, n, p), NEW e \in 0 .. n,
         TagOf(t.node, e) \in {"title", "option"}, NEW m, Passed(t.node, n, e, m),
         NEW c \in Seq(0 .. n), IsContent(t.node, n, e - 1, c)
  PROVE  /\ IsContent(t.node, n, m, c)
         /\ AnchorOpen(t.node, e, e) => AnchorOpen(t.node, e, m)
<1>. DEFINE nd == t.node
<1>1. m \in e .. n /\ \A k \in e + 1 .. m : nd[k].parent >= e
  BY DEF Passed
<1>2. e # 0
  BY PageParents
<1>3. ASSUME NEW x \in e .. m PROVE x \notin ClearTexts(nd, n, {"title", "option", "a"})
  <2>1. CASE x = e
    BY <2>1 DEF ClearTexts, IsText
  <2>2. CASE x \in e + 1 .. m
    <3>1. e \in 1 .. x - 1 /\ \A j \in e + 1 .. x : j \in e + 1 .. m
      BY <1>1, <1>2, <2>2
    <3>2. e \in Up(nd, x)
      BY <1>1, <3>1 DEF Up
    <3>3. QED
      BY <3>2 DEF ClearTexts
  <2>3. QED
    BY <1>1, <2>1, <2>2
<1>4. IsContent(nd, n, m, c)
  BY <1>1, <1>3, ContentStays
<1>5. ASSUME AnchorOpen(nd, e, e) PROVE AnchorOpen(nd, e, m)
  <2>1. PICK A \in 1 .. e : TagOf(nd, A) = "a" /\ \A j \in A + 1 .. e : nd[j].parent >= A
    BY <1>5 DEF AnchorOpen
  <2>2. ASSUME NEW j \in A + 1 .. m PROVE nd[j].parent >= A
    <3>1. CASE j \in A + 1 .. e
      BY <2>1, <3>1
    <3>2. CASE j \in e + 1 .. m
      <4>1. nd[j].parent >= e /\ j \in 1 .. n
        BY <1>1, <3>2
      <4>2. nd[j].parent \in 0 .. n
        BY <4>1, PageParents
      <4>3. QED
        BY <4>1, <4>2
    <3>3. QED
      BY <1>1, <3>1, <3>2
  <2>3. QED
    BY <2>1, <2>2 DEF AnchorOpen
<1>6. QED
  BY <1>4, <1>5

\* The visit of a node that is no title or option.
LEMMA ContentStarts ==
  ASSUME NEW t, NEW n \in Nat, NEW p, IsPage(t, n, p), NEW e \in 0 .. n, NEW d \in ContentData(n),
         ContentAt(t.node, n, "start", e, e, d), TagOf(t.node, e) \notin {"title", "option"},
         NEW r, r = ContentStart(t, e, d)
  PROVE  /\ r.ret = "VISIT_NORMAL" /\ r.data \in ContentData(n)
         /\ IsContent(t.node, n, e, r.data.content)
         /\ r.data.in_anchor => AnchorOpen(t.node, e, e)
<1>. DEFINE nd == t.node
<1>. DEFINE tag == TagOf(nd, e)
<1>1. /\ d.in_anchor \in BOOLEAN /\ d.content \in Seq(0 .. n)
      /\ d = [in_anchor |-> d.in_anchor, content |-> d.content]
  BY DEF ContentData
<1>2. PICK c : c = d.content /\ c \in Seq(0 .. n) /\ IsContent(nd, n, e - 1, c)
  BY <1>1 DEF ContentAt
<1>3. (d.in_anchor => AnchorOpen(nd, e, e)) /\ Clear(nd, e)
  BY DEF ContentAt
<1>4. ASSUME e \notin ClearTexts(nd, n, {"title", "option", "a"}) PROVE IsContent(nd, n, e, c)
  <2>1. e \in e .. n /\ \A x \in e .. e : x = e
    OBVIOUS
  <2>2. QED
    BY <1>2, <1>4, <2>1, ContentStays
<1>5. CASE tag = "text" /\ d.in_anchor /\ nd[e].token.value = "short"
  <2>1. r = [ret |-> "VISIT_NORMAL", data |-> d]
    BY <1>5 DEF ContentStart, Visited, TagOf
  <2>2. PICK A \in 1 .. e : TagOf(nd, A) = "a" /\ \A j \in A + 1 .. e : nd[j].parent >= A
    BY <1>3, <1>5 DEF AnchorOpen
  <2>3. A # e /\ A \in 1 .. e - 1
    BY <1>5, <2>2
  <2>4. A \in Up(nd, e)
    BY <2>2, <2>3 DEF Up
  <2>5. e \notin ClearTexts(nd, n, {"title", "option", "a"})
    BY <2>2, <2>4 DEF ClearTexts
  <2>6. QED
    BY <1>2, <1>3, <1>4, <2>1, <2>5
<1>6. CASE tag = "text" /\ ~ (d.in_anchor /\ nd[e].token.value = "short")
  <2>1. e # 0
    BY <1>6, PageParents
  <2>2. e \in ClearTexts(nd, n, {"title", "option"})
    BY <1>3, <1>6, <2>1 DEF ClearTexts, IsText, Clear
  <2>3. PICK a : a = Append(c, e) /\ a \in Seq(0 .. n) /\ IsContent(nd, n, e, a)
    BY <1>2, <2>1, <2>2, ContentAppended
  <2>4. r = [ret |-> "VISIT_NORMAL", data |-> [in_anchor |-> d.in_anchor, content |-> a]]
    BY <1>1, <1>2, <1>6, <2>3 DEF ContentStart, Visited, TagOf
  <2>5. r.data \in ContentData(n) /\ r.data.content = a /\ r.data.in_anchor = d.in_anchor
    BY <1>1, <2>3, <2>4 DEF ContentData
  <2>6. r.data.in_anchor => AnchorOpen(nd, e, e)
    BY <1>3, <2>5, Zenon
  <2>7. r.ret = "VISIT_NORMAL" /\ IsContent(nd, n, e, r.data.content)
    <3>1. r.data.content = a /\ IsContent(nd, n, e, a) /\ r.ret = "VISIT_NORMAL"
      BY <2>3, <2>4
    <3>2. QED
      BY <3>1
  <2>8. QED
    BY <2>5, <2>6, <2>7, Zenon
<1>7. CASE tag \in {"td", "br", "p"}
  <2>1. e # 0 /\ ~ IsText(nd, e)
    BY <1>7, PageParents DEF IsText
  <2>2. PICK a : a = Append(c, 0) /\ a \in Seq(0 .. n) /\ IsContent(nd, n, e, a)
    BY <1>2, <2>1, ContentAppended
  <2>3. r = [ret |-> "VISIT_NORMAL", data |-> [in_anchor |-> d.in_anchor, content |-> a]]
    BY <1>1, <1>2, <1>7, <2>2 DEF ContentStart, Visited, TagOf
  <2>4. r.data \in ContentData(n) /\ r.data.content = a /\ r.data.in_anchor = d.in_anchor
    BY <1>1, <2>2, <2>3 DEF ContentData
  <2>5. r.data.in_anchor => AnchorOpen(nd, e, e)
    BY <1>3, <2>4, Zenon
  <2>6. r.ret = "VISIT_NORMAL" /\ IsContent(nd, n, e, r.data.content)
    <3>1. r.data.content = a /\ IsContent(nd, n, e, a) /\ r.ret = "VISIT_NORMAL"
      BY <2>2, <2>3
    <3>2. QED
      BY <3>1
  <2>7. QED
    BY <2>4, <2>5, <2>6, Zenon
<1>8. CASE tag = "a"
  <2>1. e # 0
    BY <1>8, PageParents
  <2>2. r = [ret |-> "VISIT_NORMAL", data |-> [in_anchor |-> TRUE, content |-> c]]
    BY <1>1, <1>2, <1>8 DEF ContentStart, Visited, TagOf
  <2>3. e \notin ClearTexts(nd, n, {"title", "option", "a"})
    BY <1>8 DEF ClearTexts, IsText
  <2>4. AnchorOpen(nd, e, e)
    <3>1. e \in 1 .. e /\ \A j \in e + 1 .. e : FALSE
      BY <2>1
    <3>2. QED
      BY <1>8, <3>1 DEF AnchorOpen
  <2>5. QED
    BY <1>2, <1>4, <2>2, <2>3, <2>4 DEF ContentData
<1>9. CASE tag \notin {"text", "td", "br", "p", "a"}
  <2>1. r = [ret |-> "VISIT_NORMAL", data |-> d]
    BY <1>9 DEF ContentStart, Visited, TagOf
  <2>2. e \notin ClearTexts(nd, n, {"title", "option", "a"})
    BY <1>9 DEF ClearTexts, IsText
  <2>3. QED
    BY <1>2, <1>3, <1>4, <2>1, <2>2
<1>10. QED
  BY <1>5, <1>6, <1>7, <1>8, <1>9

\* The visit goes on from e, with all up to m handled.
LEMMA ContentGoesOn ==
  ASSUME NEW t, NEW n \in Nat, NEW p, IsPage(t, n, p), NEW e \in 0 .. n, NEW m, Passed(t.node, n, e, m),
         Clear(t.node, e), NEW D, D = ContentData(n), NEW d \in D, IsContent(t.node, n, m, d.content),
         d.in_anchor => AnchorOpen(t.node, e, m) /\ TagOf(t.node, e) # "a",
         NEW F, F = {x \in D : IsContent(t.node, n, n, x.content)}
  PROVE  Leaving(t.node, n, e, m, d, ContentSpots(t.node, n, D), F)
<1>. DEFINE nd == t.node
<1>. DEFINE J == ContentSpots(nd, n, D)
<1>1. m \in e .. n /\ m \in 0 .. n
  BY DEF Passed
<1>2. ASSUME e = 0 PROVE d \in F
  <2>1. m = n
    BY <1>2, RootPassed DEF IsPage
  <2>2. QED
    BY <2>1
<1>3. ASSUME e # 0
      PROVE  /\ d.in_anchor => AnchorOpen(nd, nd[e].parent, m)
             /\ Clear(nd, nd[e].parent)
             /\ TagOf(nd, nd[e].parent) \notin {"title", "option"}
             /\ m < n /\ nd[m + 1].parent = nd[e].parent =>
                  Clear(nd, m + 1) /\ (d.in_anchor => AnchorOpen(nd, m + 1, m + 1))
             /\ nd[e].parent \in 0 .. n
  <2>1. e \in 1 .. n /\ d.in_anchor \in BOOLEAN
    BY <1>3 DEF ContentData
  <2>2. nd[e].parent \in 0 .. n
    BY <2>1, PageParents
  <2>3. PICK b \in BOOLEAN : b = d.in_anchor
    BY <2>1
  <2>4. b => AnchorOpen(nd, e, m) /\ TagOf(nd, e) # "a"
    BY <2>3
  <2>5. /\ b => AnchorOpen(nd, nd[e].parent, m)
        /\ Clear(nd, nd[e].parent)
        /\ TagOf(nd, nd[e].parent) \notin {"title", "option"}
        /\ m < n /\ nd[m + 1].parent = nd[e].parent =>
             Clear(nd, m + 1) /\ (b => AnchorOpen(nd, m + 1, m + 1))
    BY <1>1, <2>1, <2>4, ContentLeaves
  <2>6. QED
    BY <2>2, <2>3, <2>5, Zenon
<1>4. ASSUME e # 0 PROVE Spot("finish", nd[e].parent, m, d) \in J
  <2>1. ContentAt(nd, n, "finish", nd[e].parent, m, d)
    BY <1>3, <1>4 DEF ContentAt
  <2>2. nd[e].parent \in 0 .. n
    BY <1>3, <1>4
  <2>3. QED
    BY <1>1, <2>1, <2>2, InContentSpots
<1>5. ASSUME e # 0, m < n, nd[m + 1].parent = nd[e].parent PROVE Spot("start", m + 1, m + 1, d) \in J
  <2>1. m + 1 \in 0 .. n /\ (m + 1) - 1 = m
    BY <1>1, <1>5
  <2>2. ContentAt(nd, n, "start", m + 1, m + 1, d)
    BY <1>3, <1>5, <2>1 DEF ContentAt
  <2>3. QED
    BY <2>1, <2>2, InContentSpots
<1>6. Leaving(nd, n, e, m, d, J, F)
  <2>. HIDE DEF J, nd
  <2>1. QED
    BY <1>2, <1>4, <1>5 DEF Leaving
<1>7. QED
  BY <1>6

LEMMA ContentKeeps ==
  ASSUME NEW t, NEW n \in Nat, NEW p, IsPage(t, n, p),
         NEW D, D = ContentData(n), NEW V, ContentBy(V, t, n, D),
         NEW F, F = {x \in D : IsContent(t.node, n, n, x.content)}
  PROVE  /\ StartKeeps(t.node, n, D, V, ContentSpots(t.node, n, D), F)
         /\ FinishKeeps(t.node, n, D, V, ContentSpots(t.node, n, D), F)
<1>. DEFINE nd == t.node
<1>. DEFINE J == ContentSpots(nd, n, D)
<1>1. ASSUME NEW e \in 0 .. n, NEW d \in D, Spot("start", e, e, d) \in J,
             NEW r, r = V[<<"start", e, d>>]
      PROVE  /\ r.ret # "VISIT_FINISH"
             /\ r.ret = "VISIT_NORMAL" =>
                  /\ Passed(nd, n, e, e) => Spot("finish", e, e, r.data) \in J
                  /\ e < n /\ nd[e + 1].parent = e => Spot("start", e + 1, e + 1, r.data) \in J
             /\ r.ret = "VISIT_SKIP_CHILD" =>
                  \A m \in e .. n : Passed(nd, n, e, m) => Leaving(nd, n, e, m, r.data, J, F)
  <2>1. ContentAt(nd, n, "start", e, e, d)
    BY <1>1, InContentSpots
  <2>2. IsContent(nd, n, e - 1, d.content) /\ (d.in_anchor => AnchorOpen(nd, e, e)) /\ Clear(nd, e)
    BY <2>1 DEF ContentAt
  <2>3. r = ContentStart(t, e, d) /\ d \in ContentData(n)
    BY <1>1 DEF ContentBy
  <2>4. CASE TagOf(nd, e) \in {"title", "option"}
    <3>1. r = [ret |-> "VISIT_SKIP_CHILD", data |-> d]
      BY <2>3, <2>4 DEF ContentStart, Visited, TagOf
    <3>2. ASSUME NEW m \in e .. n, Passed(nd, n, e, m) PROVE Leaving(nd, n, e, m, d, J, F)
      <4>1. d.content \in Seq(0 .. n)
        BY <2>3 DEF ContentData
      <4>2. IsContent(nd, n, m, d.content) /\ (AnchorOpen(nd, e, e) => AnchorOpen(nd, e, m))
        BY <2>2, <2>4, <3>2, <4>1, ContentSkips
      <4>3. d.in_anchor => AnchorOpen(nd, e, m) /\ TagOf(nd, e) # "a"
        BY <2>2, <2>4, <4>2
      <4>4. QED
        BY <2>2, <3>2, <4>2, <4>3, ContentGoesOn
    <3>3. QED
      BY <3>1, <3>2
  <2>5. CASE TagOf(nd, e) \notin {"title", "option"}
    <3>1. /\ r.ret = "VISIT_NORMAL" /\ r.data \in D
          /\ IsContent(nd, n, e, r.data.content)
          /\ r.data.in_anchor => AnchorOpen(nd, e, e)
      BY <2>1, <2>3, <2>5, ContentStarts
    <3>2. Spot("finish", e, e, r.data) \in J
      <4>1. ContentAt(nd, n, "finish", e, e, r.data)
        BY <2>2, <2>5, <3>1 DEF ContentAt
      <4>2. QED
        BY <3>1, <4>1, InContentSpots
    <3>3. ASSUME e < n, nd[e + 1].parent = e PROVE Spot("start", e + 1, e + 1, r.data) \in J
      <4>1. e + 1 \in 0 .. n /\ (e + 1) - 1 = e
        BY <3>3
      <4>2. Clear(nd, e + 1) /\ (AnchorOpen(nd, e, e) => AnchorOpen(nd, e + 1, e + 1))
        BY <2>2, <2>5, <3>3, ContentBelow
      <4>3. ContentAt(nd, n, "start", e + 1, e + 1, r.data)
        BY <3>1, <4>1, <4>2 DEF ContentAt
      <4>4. QED
        BY <3>1, <4>1, <4>3, InContentSpots
    <3>4. QED
      BY <3>1, <3>2, <3>3
  <2>6. QED
    BY <2>4, <2>5
<1>2. ASSUME NEW e \in 0 .. n, NEW d \in D, NEW m \in e .. n, Passed(nd, n, e, m),
             Spot("finish", e, m, d) \in J, NEW r, r = V[<<"finish", e, d>>]
      PROVE  r.ret = "VISIT_NORMAL" /\ Leaving(nd, n, e, m, r.data, J, F)
  <2>1. m \in 0 .. n
    OBVIOUS
  <2>2. ContentAt(nd, n, "finish", e, m, d)
    BY <1>2, <2>1, InContentSpots
  <2>3. IsContent(nd, n, m, d.content) /\ (d.in_anchor => AnchorOpen(nd, e, m)) /\ Clear(nd, e)
    BY <2>2 DEF ContentAt
  <2>4. r = ContentFinish(t, e, d) /\ d \in ContentData(n)
    BY <1>2 DEF ContentBy
  <2>5. d.in_anchor \in BOOLEAN /\ d.content \in Seq(0 .. n)
          /\ d = [in_anchor |-> d.in_anchor, content |-> d.content]
    BY <2>4 DEF ContentData
  <2>6. CASE TagOf(nd, e) = "a"
    <3>1. PICK x : x = [in_anchor |-> FALSE, content |-> d.content]
      OBVIOUS
    <3>2. r = [ret |-> "VISIT_NORMAL", data |-> x]
      BY <2>4, <2>5, <2>6, <3>1 DEF ContentFinish, Visited, TagOf
    <3>3. x \in D /\ IsContent(nd, n, m, x.content) /\ ~ x.in_anchor
      BY <2>3, <2>5, <3>1 DEF ContentData
    <3>4. Leaving(nd, n, e, m, x, J, F)
      BY <1>2, <2>3, <3>3, ContentGoesOn
    <3>5. QED
      BY <3>2, <3>4
  <2>7. CASE TagOf(nd, e) # "a"
    <3>1. r = [ret |-> "VISIT_NORMAL", data |-> d]
      BY <2>4, <2>7 DEF ContentFinish, Visited, TagOf
    <3>2. d.in_anchor => AnchorOpen(nd, e, m) /\ TagOf(nd, e) # "a"
      BY <2>3, <2>7
    <3>3. Leaving(nd, n, e, m, d, J, F)
      BY <1>2, <2>3, <3>2, ContentGoesOn
    <3>4. QED
      BY <3>1, <3>3
  <2>8. QED
    BY <2>6, <2>7
<1>3. StartKeeps(nd, n, D, V, J, F)
  <2>. HIDE DEF J
  <2>1. QED
    BY <1>1 DEF StartKeeps
<1>4. FinishKeeps(nd, n, D, V, J, F)
  <2>. HIDE DEF J
  <2>1. QED
    BY <1>2 DEF FinishKeeps
<1>5. QED
  BY <1>3, <1>4

LEMMA ContentIs ==
  ASSUME NEW t, NEW n \in Nat, NEW p, IsPage(t, n, p)
  PROVE  LET c == ContentVisit(t)[MostVisits(t)].data.content
         IN  c \in Seq(0 .. n) /\ IsContent(t.node, n, n, c)
<1>1. PICK D : D = ContentData(n)
  OBVIOUS
<1>2. PICK d0 : d0 = [in_anchor |-> FALSE, content |-> << >>] /\ d0 \in D
  <2>1. << >> \in Seq(0 .. n)
    OBVIOUS
  <2>2. [in_anchor |-> FALSE, content |-> << >>] \in D
    BY <1>1, <2>1 DEF ContentData
  <2>3. QED
    BY <2>2
<1>3. HasTokens(t.node, n, p) /\ InOrder(t.node, n)
  BY DEF IsPage
<1>4. ASSUME NEW e \in 0 .. n, NEW d \in D
      PROVE  ContentStart(t, e, d) \in Results(D) /\ ContentFinish(t, e, d) \in Results(D)
  <2>1. d.in_anchor \in BOOLEAN /\ d.content \in Seq(0 .. n)
          /\ d = [in_anchor |-> d.in_anchor, content |-> d.content]
    BY <1>1 DEF ContentData
  <2>2. PICK a, z : /\ a = Append(d.content, e) /\ a \in Seq(0 .. n)
                    /\ z = Append(d.content, 0) /\ z \in Seq(0 .. n)
    <3>1. PICK S : S = 0 .. n
      OBVIOUS
    <3>2. Append(d.content, e) \in Seq(S) /\ Append(d.content, 0) \in Seq(S)
      BY <2>1, <3>1
    <3>3. QED
      BY <3>1, <3>2
  <2>3. /\ [d EXCEPT !.content = a] \in D /\ [d EXCEPT !.content = z] \in D
        /\ [d EXCEPT !.in_anchor = TRUE] \in D /\ [d EXCEPT !.in_anchor = FALSE] \in D
    BY <1>1, <2>1, <2>2 DEF ContentData
  <2>4. ContentStart(t, e, d) \in Results(D)
    BY <2>2, <2>3 DEF ContentStart, Visited, Results
  <2>5. ContentFinish(t, e, d) \in Results(D)
    BY <2>3 DEF ContentFinish, Visited, Results
  <2>6. QED
    BY <2>4, <2>5
<1>5. PICK V \in Visitors(n, D) : ContentBy(V, t, n, D) /\ Follows(ContentVisit(t), t, n, D, d0, V)
  BY <1>2, <1>3, <1>4, ContentFollows
<1>6. PICK F : F = {x \in D : IsContent(t.node, n, n, x.content)}
  OBVIOUS
<1>7. /\ StartKeeps(t.node, n, D, V, ContentSpots(t.node, n, D), F)
      /\ FinishKeeps(t.node, n, D, V, ContentSpots(t.node, n, D), F)
  BY <1>1, <1>5, <1>6, ContentKeeps
<1>8. Spot("start", 0, 0, d0) \in ContentSpots(t.node, n, D)
  <2>1. Clear(t.node, 0)
    BY DEF Clear, Up
  <2>2. IsContent(t.node, n, 0 - 1, << >>)
    BY DEF IsContent, ToSet
  <2>3. ContentAt(t.node, n, "start", 0, 0, d0)
    BY <1>2, <2>1, <2>2 DEF ContentAt
  <2>4. 0 \in 0 .. n /\ "start" \in {"start", "finish"}
    OBVIOUS
  <2>5. QED
    BY <1>2, <2>3, <2>4, InContentSpots
<1>9. PICK f : f = ContentVisit(t)
  OBVIOUS
<1>10. f[MostVisits(t)].data \in F
  BY <1>2, <1>3, <1>5, <1>7, <1>8, <1>9, VisitKeeps
<1>11. QED
  BY <1>1, <1>6, <1>9, <1>10 DEF ContentData

-----------------------------------------------------------------------------
(* extract_link lists the first links, each with a text behind it.           *)
IsLinkAt(nd, m) == nd[m].token.value \in {"absolute", "relative"}
BaseAt(nd, base, m) == IF nd[m].token.value = "relative" THEN base ELSE NULL
LinkStart(t, base, e, d) ==
  IF Len(d.link) = max_links_num THEN Visited("VISIT_FINISH", d)
  ELSE IF t.node[e].token.tag = "text" /\ (d.in_anchor \/ d.in_option)
  THEN Visited("VISIT_NORMAL", [d EXCEPT !.link[Len(d.link)].text = e])
  ELSE IF t.node[e].token.value \notin {"absolute", "relative"} THEN Visited("VISIT_NORMAL", d)
  ELSE Visited("VISIT_NORMAL",
               [link |-> Append(d.link, [node |-> e,
                                         base |-> IF t.node[e].token.value = "relative" THEN base ELSE NULL,
                                         text |-> NULL]),
                in_anchor |-> d.in_anchor \/ t.node[e].token.tag = "a",
                in_option |-> d.in_option \/ t.node[e].token.tag = "option"])
LinkFinish(t, base, e, d) ==
  Visited("VISIT_NORMAL", [d EXCEPT !.in_anchor = @ /\ t.node[e].token.tag # "a",
                                    !.in_option = @ /\ t.node[e].token.tag # "option"])
LinkType(n, base) == [node : 0 .. n, base : {base, NULL}, text : 0 .. n \cup {NULL}]
LinkData(n, base) == [link : Seq(LinkType(n, base)), in_anchor : BOOLEAN, in_option : BOOLEAN]

LinkBy(V, t, base, n, D) ==
  \A e \in 0 .. n, d \in D : /\ V[<<"start", e, d>>] = LinkStart(t, base, e, d)
                             /\ V[<<"finish", e, d>>] = LinkFinish(t, base, e, d)
IsLinkVisit(t, base, f) ==
  f = [k \in 0 .. MostVisits(t) |->
        IF k = 0 THEN Visit(<< 0 >>, "start", [link |-> << >>, in_anchor |-> FALSE, in_option |-> FALSE])
        ELSE LET v == f[k - 1]
             IN  IF v.calls = << >> THEN v
                 ELSE html_node_visit(t, v, IF v.at = "start" THEN LinkStart(t, base, Last(v.calls), v.data)
                                            ELSE LinkFinish(t, base, Last(v.calls), v.data))]
LinkVisit(t, base) == CHOOSE f : IsLinkVisit(t, base, f)

LEMMA LinkFollows ==
  ASSUME NEW t, NEW base, NEW n \in Nat, NEW p, HasTokens(t.node, n, p), InOrder(t.node, n),
         NEW D, [link |-> << >>, in_anchor |-> FALSE, in_option |-> FALSE] \in D,
         \A e \in 0 .. n, d \in D :
           /\ LinkStart(t, base, e, d) \in Results(D)
           /\ LinkFinish(t, base, e, d) \in Results(D)
  PROVE  \E V \in Visitors(n, D) :
           /\ LinkBy(V, t, base, n, D)
           /\ Follows(LinkVisit(t, base), t, n, D, [link |-> << >>, in_anchor |-> FALSE, in_option |-> FALSE], V)
<1>1. PICK V \in Visitors(n, D) : LinkBy(V, t, base, n, D)
  <2>1. PICK S : S = [x \in (0 .. n) \X D |-> LinkStart(t, base, x[1], x[2])]
    OBVIOUS
  <2>2. PICK G : G = [x \in (0 .. n) \X D |-> LinkFinish(t, base, x[1], x[2])]
    OBVIOUS
  <2>3. S \in [(0 .. n) \X D -> Results(D)] /\ G \in [(0 .. n) \X D -> Results(D)]
    BY <2>1, <2>2
  <2>4. PICK V : IsTable(V, n, D, S, G)
    BY <2>3, Tabulated
  <2>5. \A e \in 0 .. n, d \in D :
          /\ S[<<e, d>>] = LinkStart(t, base, e, d)
          /\ G[<<e, d>>] = LinkFinish(t, base, e, d)
    BY <2>1, <2>2
  <2>6. V \in Visitors(n, D) /\ LinkBy(V, t, base, n, D)
    BY <2>4, <2>5 DEF IsTable, LinkBy
  <2>7. QED
    BY <2>6
<1>2. PICK K \in Nat : K = MostVisits(t)
  BY MostVisitsIs
<1>3. ASSUME NEW v \in Visits(n, D), v.calls # << >>
      PROVE  By(V, v) = IF v.at = "start" THEN LinkStart(t, base, Last(v.calls), v.data)
                        ELSE LinkFinish(t, base, Last(v.calls), v.data)
  <2>1. v.at \in {"start", "finish"} /\ Last(v.calls) \in 0 .. n /\ v.data \in D
    BY <1>3, VisitorTyped DEF Visits
  <2>2. QED
    BY <1>1, <2>1 DEF By, LinkBy
<1>4. \E f : IsLinkVisit(t, base, f)
  <2>1. PICK f \in [0 .. K -> Visits(n, D)] :
          Follows(f, t, n, D, [link |-> << >>, in_anchor |-> FALSE, in_option |-> FALSE], V)
    BY <1>2, VisitExists
  <2>2. \A k \in 0 .. K : k # 0 => f[k - 1] \in Visits(n, D) /\ f[k] = StepBy(t, V, f[k - 1])
    <3>1. \A k \in 0 .. K : k # 0 => k \in 1 .. K /\ k - 1 \in 0 .. K
      OBVIOUS
    <3>2. QED
      BY <1>2, <2>1, <3>1 DEF Follows
  <2>3. IsLinkVisit(t, base, f)
    BY <1>2, <1>3, <2>1, <2>2 DEF IsLinkVisit, Follows, StepBy
  <2>4. QED
    BY <2>3
<1>5. PICK f : f = LinkVisit(t, base)
  OBVIOUS
<1>6. IsLinkVisit(t, base, f)
  BY <1>4, <1>5 DEF LinkVisit
<1>7. Follows(f, t, n, D, [link |-> << >>, in_anchor |-> FALSE, in_option |-> FALSE], V)
  <2>1. f[0] = Visit(<< 0 >>, "start", [link |-> << >>, in_anchor |-> FALSE, in_option |-> FALSE])
    BY <1>2, <1>6 DEF IsLinkVisit
  <2>2. ASSUME NEW k \in 1 .. K, f[k - 1] \in Visits(n, D) PROVE f[k] = StepBy(t, V, f[k - 1])
    <3>1. k \in 0 .. K /\ k # 0
      OBVIOUS
    <3>2. PICK v \in Visits(n, D) : v = f[k - 1]
      BY <2>2
    <3>3. f[k] = IF v.calls = << >> THEN v
                 ELSE html_node_visit(t, v, IF v.at = "start" THEN LinkStart(t, base, Last(v.calls), v.data)
                                            ELSE LinkFinish(t, base, Last(v.calls), v.data))
      BY <1>2, <1>6, <3>1, <3>2 DEF IsLinkVisit
    <3>4. QED
      BY <1>3, <3>2, <3>3 DEF StepBy
  <2>3. QED
    BY <1>2, <2>1, <2>2 DEF Follows
<1>8. QED
  BY <1>1, <1>5, <1>7

LEMMA LinkChosen ==
  extract_link = LinkVisit(tree, base_url_)[MostVisits(tree)].data.link
BY DEF extract_link, html_tree_visit, LinkVisit, IsLinkVisit, LinkStart, LinkFinish, Tag, Value, IsLink

\* Link i of the list; the list when k nodes are met, and at the end.
LinkHolds(nd, n, base, s, i) ==
  /\ s[i].node \in 1 .. n /\ IsLinkAt(nd, s[i].node)
  /\ \A j \in 1 .. i - 1 : s[j].node < s[i].node
  /\ s[i].base = BaseAt(nd, base, s[i].node)
  /\ s[i].text # NULL => /\ s[i].text \in 1 .. n /\ IsText(nd, s[i].text) /\ s[i].text > s[i].node
                         /\ \A x \in 1 .. n : IsLinkAt(nd, x) /\ x > s[i].node => x > s[i].text
AreLinks(nd, n, base, k, s) ==
  /\ Len(s) <= max_links_num
  /\ \A i \in DOMAIN s : LinkHolds(nd, n, base, s, i) /\ s[i].node < k
  /\ \A x \in 1 .. k - 1 : IsLinkAt(nd, x) => \E i \in DOMAIN s : s[i].node = x
AllLinks(nd, n, base, s) ==
  /\ Len(s) <= max_links_num
  /\ \A i \in DOMAIN s : LinkHolds(nd, n, base, s, i)
  /\ \A x \in 1 .. n : IsLinkAt(nd, x) =>
       \/ \E i \in DOMAIN s : s[i].node = x
       \/ Len(s) = max_links_num /\ \A i \in DOMAIN s : s[i].node < x

LEMMA TextNoLink ==
  ASSUME NEW t, NEW n \in Nat, NEW p, IsPage(t, n, p), NEW e \in 0 .. n
  PROVE  /\ IsText(t.node, e) => ~ IsLinkAt(t.node, e) /\ e # 0
         /\ IsLinkAt(t.node, e) => e # 0
<1>1. ASSUME e # 0, IsText(t.node, e) PROVE ~ IsLinkAt(t.node, e)
  <2>1. t.node[e].token \in NodeToken /\ t.node[e].token.tag = "text"
    BY <1>1 DEF IsPage, IsText, TagOf
  <2>2. t.node[e].token.value \in {"short", "long"}
    BY <2>1 DEF NodeToken, PageToken
  <2>3. QED
    BY <2>2 DEF IsLinkAt
<1>2. t.node[0].token = Root /\ Root.value = "" /\ Root.tag = ""
  BY DEF IsPage, HasTokens, Root, Token
<1>3. ~ IsLinkAt(t.node, 0) /\ ~ IsText(t.node, 0)
  BY <1>2 DEF IsLinkAt, IsText, TagOf
<1>4. QED
  BY <1>1, <1>3

\* The node is no link: it may be the text of the last one.
LEMMA LinksStay ==
  ASSUME NEW nd, NEW n \in Nat, NEW base, NEW e \in 0 .. n, NEW s, AreLinks(nd, n, base, e, s),
         ~ IsLinkAt(nd, e)
  PROVE  AreLinks(nd, n, base, e + 1, s)
<1>1. ASSUME NEW i \in DOMAIN s PROVE LinkHolds(nd, n, base, s, i) /\ s[i].node < e + 1
  <2>1. LinkHolds(nd, n, base, s, i) /\ s[i].node < e
    BY DEF AreLinks
  <2>2. s[i].node \in Nat
    BY <2>1 DEF LinkHolds
  <2>3. QED
    BY <2>1, <2>2
<1>2. \A x \in 1 .. (e + 1) - 1 : x = e \/ x \in 1 .. e - 1
  OBVIOUS
<1>3. QED
  BY <1>1, <1>2 DEF AreLinks

TextSet(r, s, e) ==
  /\ Len(r) = Len(s) /\ DOMAIN r = DOMAIN s
  /\ \A i \in DOMAIN s : /\ r[i].node = s[i].node /\ r[i].base = s[i].base
                         /\ r[i].text = IF i = Len(s) THEN e ELSE s[i].text
LEMMA SetText ==
  ASSUME NEW n \in Nat, NEW base, NEW L, L = LinkType(n, base), NEW s \in Seq(L), NEW e \in 0 .. n
  PROVE  [s EXCEPT ![Len(s)].text = e] \in Seq(L) /\ TextSet([s EXCEPT ![Len(s)].text = e], s, e)
<1>1. PICK l \in Nat : l = Len(s) /\ DOMAIN s = 1 .. l
  OBVIOUS
<1>2. PICK r : r = [s EXCEPT ![Len(s)].text = e]
  OBVIOUS
<1>3. ASSUME NEW i \in DOMAIN s
      PROVE  /\ r[i] \in L
             /\ r[i].node = s[i].node /\ r[i].base = s[i].base
             /\ r[i].text = IF i = Len(s) THEN e ELSE s[i].text
  <2>1. s[i] \in L
    OBVIOUS
  <2>2. r[i] = IF i = Len(s) THEN [s[i] EXCEPT !.text = e] ELSE s[i]
    BY <1>2
  <2>3. QED
    BY <2>1, <2>2 DEF LinkType
<1>4. r = [i \in 1 .. l |-> r[i]]
  BY <1>1, <1>2
<1>5. \A i \in 1 .. l : r[i] \in L
  BY <1>1, <1>3
<1>6. r \in Seq(L) /\ Len(r) = l /\ DOMAIN r = 1 .. l
  <2>1. PICK q : q = [i \in 1 .. l |-> r[i]]
    OBVIOUS
  <2>2. q \in [1 .. l -> L]
    BY <1>5, <2>1
  <2>3. q \in Seq(L) /\ Len(q) = l
    BY <2>2
  <2>4. QED
    BY <1>4, <2>1, <2>3
<1>7. QED
  BY <1>1, <1>2, <1>3, <1>6 DEF TextSet

LEMMA LinksTexted ==
  ASSUME NEW nd, NEW n \in Nat, NEW base, NEW e \in 1 .. n, NEW s, AreLinks(nd, n, base, e, s),
         IsText(nd, e), ~ IsLinkAt(nd, e), NEW l \in Nat \ {0}, l = Len(s), DOMAIN s = 1 .. l,
         NEW r, TextSet(r, s, e)
  PROVE  AreLinks(nd, n, base, e + 1, r)
<1>1. AreLinks(nd, n, base, e + 1, s)
  BY LinksStay
<1>2. /\ Len(r) = l /\ DOMAIN r = 1 .. l
      /\ \A i \in 1 .. l : /\ r[i].node = s[i].node /\ r[i].base = s[i].base
                           /\ r[i].text = IF i = l THEN e ELSE s[i].text
  BY DEF TextSet
<1>3. \A i \in 1 .. l : LinkHolds(nd, n, base, s, i) /\ s[i].node < e + 1 /\ s[i].node < e
  BY <1>1 DEF AreLinks
<1>4. ASSUME NEW i \in 1 .. l PROVE LinkHolds(nd, n, base, r, i)
  <2>1. /\ s[i].node \in 1 .. n /\ IsLinkAt(nd, s[i].node)
        /\ \A j \in 1 .. i - 1 : s[j].node < s[i].node
        /\ s[i].base = BaseAt(nd, base, s[i].node)
        /\ s[i].text # NULL => /\ s[i].text \in 1 .. n /\ IsText(nd, s[i].text) /\ s[i].text > s[i].node
                               /\ \A x \in 1 .. n : IsLinkAt(nd, x) /\ x > s[i].node => x > s[i].text
    BY <1>3 DEF LinkHolds
  <2>2. \A j \in 1 .. i - 1 : j \in 1 .. l
    OBVIOUS
  <2>3. \A j \in 1 .. i - 1 : r[j].node < r[i].node
    BY <1>2, <2>1, <2>2
  <2>4. CASE i = l
    <3>1. r[i].text = e /\ r[i].node = s[i].node
      BY <1>2, <2>4
    <3>2. ASSUME NEW x \in 1 .. n, IsLinkAt(nd, x), x > s[i].node PROVE x > e
      <4>1. SUFFICES ASSUME x < e PROVE FALSE
        BY <3>2
      <4>2. PICK k \in 1 .. l : s[k].node = x
        <5>1. x \in 1 .. e - 1
          BY <4>1
        <5>2. QED
          BY <3>2, <5>1 DEF AreLinks
      <4>3. k # l => k \in 1 .. l - 1
        OBVIOUS
      <4>4. k # l => s[k].node < s[l].node
        BY <2>1, <2>4, <4>3
      <4>5. QED
        BY <2>1, <2>4, <3>2, <4>2, <4>4
    <3>3. e > s[i].node
      BY <1>3, <2>1
    <3>4. QED
      BY <1>2, <2>1, <2>3, <3>1, <3>2, <3>3 DEF LinkHolds
  <2>5. CASE i # l
    <3>1. r[i].text = s[i].text /\ r[i].node = s[i].node
      BY <1>2, <2>5
    <3>2. QED
      BY <1>2, <2>1, <2>3, <3>1 DEF LinkHolds
  <2>6. QED
    BY <2>4, <2>5
<1>5. \A i \in 1 .. l : r[i].node < e + 1
  BY <1>2, <1>3
<1>6. QED
  BY <1>1, <1>2, <1>4, <1>5 DEF AreLinks

\* A new link.
LEMMA LinksGrow ==
  ASSUME NEW nd, NEW n \in Nat, NEW base, NEW e \in 1 .. n, NEW L, L = LinkType(n, base),
         NEW s \in Seq(L), AreLinks(nd, n, base, e, s), IsLinkAt(nd, e),
         Len(s) # max_links_num, NEW x, x = [node |-> e, base |-> BaseAt(nd, base, e), text |-> NULL]
  PROVE  /\ Append(s, x) \in Seq(L) /\ Append(s, x) # << >>
         /\ AreLinks(nd, n, base, e + 1, Append(s, x))
<1>1. x \in L
  BY DEF LinkType, BaseAt
<1>2. PICK r : r = Append(s, x)
  OBVIOUS
<1>3. PICK l \in Nat : l = Len(s) /\ DOMAIN s = 1 .. l
  OBVIOUS
<1>4. /\ r \in Seq(L) /\ Len(r) = l + 1 /\ r[l + 1] = x
      /\ \A i \in 1 .. l : r[i] = s[i]
  BY <1>1, <1>2, <1>3, AppendFacts
<1>5. DOMAIN r = 1 .. l + 1 /\ r # << >>
  BY <1>4
<1>6. \A i \in 1 .. l : LinkHolds(nd, n, base, s, i) /\ s[i].node < e
  BY <1>3 DEF AreLinks
<1>7. ASSUME NEW i \in 1 .. l + 1 PROVE LinkHolds(nd, n, base, r, i) /\ r[i].node < e + 1
  <2>1. \A j \in 1 .. i - 1 : j \in 1 .. l
    OBVIOUS
  <2>2. CASE i \in 1 .. l
    <3>1. \A j \in 1 .. i - 1 : r[j] = s[j]
      BY <1>4, <2>1
    <3>2. r[i] = s[i] /\ s[i].node \in Nat /\ s[i].node < e
      BY <1>4, <1>6, <2>2 DEF LinkHolds
    <3>3. LinkHolds(nd, n, base, s, i)
      BY <1>6, <2>2
    <3>4. LinkHolds(nd, n, base, r, i)
      BY <3>1, <3>2, <3>3 DEF LinkHolds
    <3>5. QED
      BY <3>2, <3>4
  <2>3. CASE i = l + 1
    <3>1. r[i].node = e /\ r[i].base = BaseAt(nd, base, e) /\ r[i].text = NULL
      BY <1>4, <2>3
    <3>2. \A j \in 1 .. i - 1 : r[j].node < e
      BY <1>4, <1>6, <2>1
    <3>3. LinkHolds(nd, n, base, r, i)
      BY <3>1, <3>2 DEF LinkHolds
    <3>4. QED
      BY <3>1, <3>3
  <2>4. QED
    BY <2>2, <2>3
<1>8. ASSUME NEW y \in 1 .. (e + 1) - 1, IsLinkAt(nd, y) PROVE \E i \in DOMAIN r : r[i].node = y
  <2>1. CASE y = e
    <3>1. l + 1 \in DOMAIN r /\ r[l + 1].node = e
      BY <1>4, <1>5
    <3>2. QED
      BY <2>1, <3>1
  <2>2. CASE y \in 1 .. e - 1
    <3>1. PICK i \in 1 .. l : s[i].node = y
      BY <1>3, <1>8, <2>2 DEF AreLinks
    <3>2. i \in DOMAIN r /\ r[i].node = y
      BY <1>4, <1>5, <3>1
    <3>3. QED
      BY <3>2
  <2>3. QED
    BY <2>1, <2>2
<1>9. Len(r) <= max_links_num
  BY <1>3, <1>4, HtmlParserAssumption DEF AreLinks
<1>10. QED
  BY <1>2, <1>4, <1>5, <1>7, <1>8, <1>9 DEF AreLinks

LinksAt(nd, n, base, k, d) ==
  AreLinks(nd, n, base, k, d.link) /\ (d.in_anchor \/ d.in_option => d.link # << >>)
LinksSoFar(nd, n, base, D) == {q \in D \X Nat : LinksAt(nd, n, base, q[2], q[1])}

LEMMA InLinksSoFar ==
  ASSUME NEW nd, NEW n, NEW base, NEW D, NEW d \in D, NEW k \in Nat
  PROVE  <<d, k>> \in LinksSoFar(nd, n, base, D) <=> LinksAt(nd, n, base, k, d)
BY DEF LinksSoFar

LEMMA FlagsSet ==
  ASSUME NEW S, NEW d \in [link : S, in_anchor : BOOLEAN, in_option : BOOLEAN],
         NEW o \in BOOLEAN, NEW v \in BOOLEAN, NEW f, f = [d EXCEPT !.in_anchor = o, !.in_option = v]
  PROVE  /\ f \in [link : S, in_anchor : BOOLEAN, in_option : BOOLEAN] /\ f.link = d.link
         /\ f.in_anchor = o /\ f.in_option = v
OBVIOUS

\* What the start visit does: its text, no link, a new link or the end of the list.
LEMMA LinkCases ==
  ASSUME NEW t, NEW n \in Nat, NEW base, NEW e \in 0 .. n, NEW D, D = LinkData(n, base), NEW d \in D
  PROVE  /\ d.link \in Seq(LinkType(n, base))
         /\ d.in_anchor \in BOOLEAN /\ d.in_option \in BOOLEAN
         /\ LinkStart(t, base, e, d) \in Results(D)
         /\ LinkFinish(t, base, e, d) \in Results(D)
         /\ LinkFinish(t, base, e, d).ret = "VISIT_NORMAL"
         /\ LinkFinish(t, base, e, d).data.link = d.link
         /\ LinkFinish(t, base, e, d).data.in_anchor => d.in_anchor
         /\ LinkFinish(t, base, e, d).data.in_option => d.in_option
<1>1. PICK L : L = LinkType(n, base)
  OBVIOUS
<1>2. PICK s, a, b : /\ s = d.link /\ a = d.in_anchor /\ b = d.in_option
                     /\ d = [link |-> s, in_anchor |-> a, in_option |-> b]
                     /\ s \in Seq(L) /\ a \in BOOLEAN /\ b \in BOOLEAN
  BY <1>1 DEF LinkData
<1>3. \A u \in Seq(L) : \A x, y \in BOOLEAN : [link |-> u, in_anchor |-> x, in_option |-> y] \in D
  BY <1>1 DEF LinkData
<1>4. PICK x : x = [node |-> e, text |-> NULL,
                    base |-> IF t.node[e].token.value = "relative" THEN base ELSE NULL]
  OBVIOUS
<1>5. x \in L
  BY <1>1, <1>4 DEF LinkType
<1>6. PICK u : u = Append(s, x) /\ u \in Seq(L)
  <2>1. Append(s, x) \in Seq(L)
    BY <1>2, <1>5
  <2>2. QED
    BY <2>1
<1>7. PICK w : w = [s EXCEPT ![Len(s)].text = e] /\ w \in Seq(L)
  BY <1>1, <1>2, SetText
<1>8. [d EXCEPT !.link[Len(d.link)].text = e] = [link |-> w, in_anchor |-> a, in_option |-> b]
  BY <1>2, <1>7
<1>9. PICK y, z : /\ y = (a \/ t.node[e].token.tag = "a") /\ z = (b \/ t.node[e].token.tag = "option")
                  /\ y \in BOOLEAN /\ z \in BOOLEAN
  OBVIOUS
<1>10. LinkStart(t, base, e, d) \in Results(D)
  <2>1. PICK g : g = [link |-> u, in_anchor |-> y, in_option |-> z] /\ g \in D
    BY <1>3, <1>6, <1>9
  <2>2. PICK h : h = [link |-> w, in_anchor |-> a, in_option |-> b] /\ h \in D
    BY <1>2, <1>3, <1>7
  <2>3. \A c \in D : Visited("VISIT_NORMAL", c) \in Results(D)
          /\ Visited("VISIT_FINISH", c) \in Results(D)
    BY DEF Visited, Results
  <2>4. LinkStart(t, base, e, d) \in {Visited("VISIT_FINISH", d), Visited("VISIT_NORMAL", h),
                                      Visited("VISIT_NORMAL", d), Visited("VISIT_NORMAL", g)}
    BY <1>2, <1>4, <1>6, <1>8, <1>9, <2>1, <2>2 DEF LinkStart
  <2>5. QED
    BY <2>1, <2>2, <2>3, <2>4
<1>11. PICK y1, z1 : /\ y1 = (a /\ t.node[e].token.tag # "a")
                     /\ z1 = (b /\ t.node[e].token.tag # "option")
                     /\ y1 \in BOOLEAN /\ z1 \in BOOLEAN
  OBVIOUS
<1>12. PICK f : f = [d EXCEPT !.in_anchor = y1, !.in_option = z1]
  OBVIOUS
<1>13. f \in D /\ f.link = s /\ f.in_anchor = y1 /\ f.in_option = z1
  <2>1. D = [link : Seq(L), in_anchor : BOOLEAN, in_option : BOOLEAN]
    BY <1>1 DEF LinkData
  <2>2. s = d.link
    BY <1>2, Zenon
  <2>3. QED
    BY <1>11, <1>12, <2>1, <2>2, FlagsSet
<1>14. LinkFinish(t, base, e, d) = [ret |-> "VISIT_NORMAL", data |-> f]
  <2>1. /\ y1 = (d.in_anchor /\ t.node[e].token.tag # "a")
        /\ z1 = (d.in_option /\ t.node[e].token.tag # "option")
    BY <1>2, <1>11, Zenon
  <2>2. LinkFinish(t, base, e, d) = Visited("VISIT_NORMAL", f)
    BY <1>12, <2>1, Zenon DEF LinkFinish
  <2>3. QED
    BY <2>2 DEF Visited
<1>15. [ret |-> "VISIT_NORMAL", data |-> f] \in Results(D)
  BY <1>13 DEF Results
<1>17. (y1 => a) /\ (z1 => b)
  BY <1>11
<1>18. PICK r : r = LinkFinish(t, base, e, d)
  OBVIOUS
<1>19. r.ret = "VISIT_NORMAL" /\ r.data = f
  BY <1>14, <1>18
<1>20. (r.data.in_anchor => d.in_anchor) /\ (r.data.in_option => d.in_option)
  BY <1>2, <1>13, <1>17, <1>19, Zenon
<1>21. QED
  BY <1>1, <1>2, <1>10, <1>14, <1>13, <1>15, <1>18, <1>19, <1>20

LEMMA LinkStarts ==
  ASSUME NEW t, NEW n \in Nat, NEW p, IsPage(t, n, p), NEW base, NEW e \in 0 .. n,
         NEW D, D = LinkData(n, base), NEW d \in D, LinksAt(t.node, n, base, e, d),
         NEW r, r = LinkStart(t, base, e, d)
  PROVE  /\ r.ret = "VISIT_FINISH" => AllLinks(t.node, n, base, r.data.link)
         /\ r.ret # "VISIT_SKIP_CHILD"
         /\ r.ret = "VISIT_NORMAL" => LinksAt(t.node, n, base, e + 1, r.data)
<1>. DEFINE nd == t.node
<1>1. PICK L : L = LinkType(n, base)
  OBVIOUS
<1>2. PICK s, a, b : /\ s = d.link /\ a = d.in_anchor /\ b = d.in_option
                     /\ d = [link |-> s, in_anchor |-> a, in_option |-> b]
                     /\ s \in Seq(L) /\ a \in BOOLEAN /\ b \in BOOLEAN
  BY <1>1 DEF LinkData
<1>3. AreLinks(nd, n, base, e, s) /\ (a \/ b => s # << >>)
  <2>1. AreLinks(nd, n, base, e, s)
    BY <1>2 DEF LinksAt
  <2>2. a \/ b => s # << >>
    BY <1>2, Zenon DEF LinksAt
  <2>3. QED
    BY <2>1, <2>2
<1>4. PICK l \in Nat : l = Len(s) /\ DOMAIN s = 1 .. l
  BY <1>2
<1>5. CASE l = max_links_num
  <2>1. r = [ret |-> "VISIT_FINISH", data |-> d]
    BY <1>2, <1>4, <1>5 DEF LinkStart, Visited
  <2>2. \A i \in DOMAIN s : LinkHolds(nd, n, base, s, i) /\ s[i].node < e /\ s[i].node \in 1 .. n
    BY <1>3 DEF AreLinks, LinkHolds
  <2>3. ASSUME NEW x \in 1 .. n, IsLinkAt(nd, x)
        PROVE  \/ \E i \in DOMAIN s : s[i].node = x
               \/ \A i \in DOMAIN s : s[i].node < x
    <3>1. CASE x < e
      <4>1. x \in 1 .. e - 1
        BY <3>1
      <4>2. QED
        BY <1>3, <2>3, <4>1 DEF AreLinks
    <3>2. CASE ~ (x < e)
      BY <2>2, <3>2
    <3>3. QED
      BY <3>1, <3>2
  <2>4. AllLinks(nd, n, base, s)
    BY <1>3, <1>4, <1>5, <2>2, <2>3 DEF AllLinks, AreLinks
  <2>5. r.data.link = s /\ r.ret = "VISIT_FINISH"
    BY <1>2, <2>1
  <2>6. QED
    BY <2>4, <2>5
<1>6. CASE l # max_links_num /\ t.node[e].token.tag = "text" /\ (a \/ b)
  <2>1. PICK w : w = [s EXCEPT ![Len(s)].text = e]
    OBVIOUS
  <2>2. w \in Seq(L) /\ TextSet(w, s, e)
    BY <1>1, <1>2, <2>1, SetText
  <2>3. l \in Nat \ {0}
    BY <1>3, <1>4, <1>6, <1>2
  <2>4. IsText(nd, e)
    BY <1>6 DEF IsText, TagOf
  <2>5. ~ IsLinkAt(nd, e) /\ e # 0
    BY <2>4, TextNoLink
  <2>6. e \in 1 .. n
    BY <2>5
  <2>7. AreLinks(nd, n, base, e + 1, w)
    BY <1>3, <1>4, <2>2, <2>3, <2>4, <2>5, <2>6, LinksTexted
  <2>8. w # << >>
    BY <1>4, <2>2, <2>3 DEF TextSet
  <2>9. PICK h : h = [link |-> w, in_anchor |-> a, in_option |-> b]
    OBVIOUS
  <2>10. [d EXCEPT !.link[Len(d.link)].text = e] = h
    BY <1>2, <2>1, <2>9
  <2>11. r = [ret |-> "VISIT_NORMAL", data |-> h]
    BY <1>2, <1>4, <1>6, <2>10 DEF LinkStart, Visited
  <2>12. h.link = w
    BY <2>9
  <2>13. LinksAt(nd, n, base, e + 1, h)
    BY <2>7, <2>8, <2>12 DEF LinksAt
  <2>14. QED
    BY <2>11, <2>13
<1>7. CASE /\ l # max_links_num /\ ~ (t.node[e].token.tag = "text" /\ (a \/ b))
           /\ ~ IsLinkAt(nd, e)
  <2>1. r = [ret |-> "VISIT_NORMAL", data |-> d]
    BY <1>2, <1>4, <1>7 DEF LinkStart, Visited, IsLinkAt
  <2>2. AreLinks(nd, n, base, e + 1, s)
    BY <1>3, <1>7, LinksStay
  <2>3. LinksAt(nd, n, base, e + 1, d)
    BY <1>2, <2>2, Zenon DEF LinksAt
  <2>4. QED
    BY <2>1, <2>3
<1>8. CASE /\ l # max_links_num /\ ~ (t.node[e].token.tag = "text" /\ (a \/ b))
           /\ IsLinkAt(nd, e)
  <2>1. PICK x : x = [node |-> e, base |-> BaseAt(nd, base, e), text |-> NULL]
    OBVIOUS
  <2>2. e \in 1 .. n
    BY <1>8, TextNoLink
  <2>3. /\ Append(s, x) \in Seq(L) /\ Append(s, x) # << >>
        /\ AreLinks(nd, n, base, e + 1, Append(s, x))
    BY <1>1, <1>2, <1>3, <1>4, <1>8, <2>1, <2>2, LinksGrow
  <2>4. PICK y, z : /\ y = (a \/ t.node[e].token.tag = "a") /\ z = (b \/ t.node[e].token.tag = "option")
    OBVIOUS
  <2>5. PICK g : g = [link |-> Append(s, x), in_anchor |-> y, in_option |-> z]
    OBVIOUS
  <2>6. r = [ret |-> "VISIT_NORMAL", data |-> g]
    BY <1>2, <1>4, <1>8, <2>1, <2>4, <2>5 DEF LinkStart, Visited, IsLinkAt, BaseAt
  <2>7. g.link = Append(s, x)
    BY <2>5
  <2>8. LinksAt(nd, n, base, e + 1, g)
    BY <2>3, <2>7 DEF LinksAt
  <2>9. QED
    BY <2>6, <2>8
<1>9. QED
  BY <1>5, <1>6, <1>7, <1>8

LEMMA LinkSweeps ==
  ASSUME NEW t, NEW n \in Nat, NEW p, IsPage(t, n, p), NEW base, NEW D, D = LinkData(n, base),
         NEW V, LinkBy(V, t, base, n, D), NEW F, F = {d \in D : AllLinks(t.node, n, base, d.link)}
  PROVE  Sweeps(n, D, V, LinksSoFar(t.node, n, base, D), F)
<1>. DEFINE nd == t.node
<1>. DEFINE Q == LinksSoFar(nd, n, base, D)
<1>1. ASSUME NEW e \in 0 .. n, NEW d \in D, <<d, e>> \in Q, NEW r, r = V[<<"start", e, d>>]
      PROVE  /\ r.ret = "VISIT_FINISH" => r.data \in F
             /\ r.ret # "VISIT_SKIP_CHILD"
             /\ r.ret = "VISIT_NORMAL" => <<r.data, e + 1>> \in Q
  <2>1. r = LinkStart(t, base, e, d)
    BY <1>1 DEF LinkBy
  <2>2. r.data \in D
    BY <2>1, LinkCases DEF Results
  <2>3. e \in Nat /\ e + 1 \in Nat
    OBVIOUS
  <2>4. LinksAt(nd, n, base, e, d)
    BY <1>1, <2>3, InLinksSoFar
  <2>5. /\ r.ret = "VISIT_FINISH" => AllLinks(nd, n, base, r.data.link)
        /\ r.ret # "VISIT_SKIP_CHILD"
        /\ r.ret = "VISIT_NORMAL" => LinksAt(nd, n, base, e + 1, r.data)
    BY <2>1, <2>4, LinkStarts
  <2>6. QED
    BY <2>2, <2>3, <2>5, InLinksSoFar
<1>2. ASSUME NEW e \in 0 .. n, NEW d \in D, NEW m \in e .. n, <<d, m + 1>> \in Q,
             NEW r, r = V[<<"finish", e, d>>]
      PROVE  r.ret = "VISIT_NORMAL" /\ <<r.data, m + 1>> \in Q
  <2>1. r = LinkFinish(t, base, e, d)
    BY <1>2 DEF LinkBy
  <2>2. r.data \in D /\ r.ret = "VISIT_NORMAL" /\ r.data.link = d.link
    BY <2>1, LinkCases DEF Results
  <2>3. (r.data.in_anchor => d.in_anchor) /\ (r.data.in_option => d.in_option)
    BY <2>1, LinkCases
  <2>4. m + 1 \in Nat
    OBVIOUS
  <2>5. LinksAt(nd, n, base, m + 1, d)
    BY <1>2, <2>4, InLinksSoFar
  <2>6. LinksAt(nd, n, base, m + 1, r.data)
    BY <2>2, <2>3, <2>5, Zenon DEF LinksAt
  <2>7. QED
    BY <2>2, <2>4, <2>6, InLinksSoFar
<1>3. ASSUME NEW d \in D, <<d, n + 1>> \in Q PROVE d \in F
  <2>1. LinksAt(nd, n, base, n + 1, d)
    BY <1>3, InLinksSoFar
  <2>2. AreLinks(nd, n, base, n + 1, d.link)
    BY <2>1 DEF LinksAt
  <2>3. (n + 1) - 1 = n
    OBVIOUS
  <2>4. AllLinks(nd, n, base, d.link)
    BY <2>2, <2>3 DEF AreLinks, AllLinks
  <2>5. QED
    BY <2>4
<1>4. Sweeps(n, D, V, Q, F)
  <2>. HIDE DEF Q
  <2>1. QED
    BY <1>1, <1>2, <1>3 DEF Sweeps
<1>5. QED
  BY <1>4

LEMMA LinksAre ==
  ASSUME NEW t, NEW n \in Nat, NEW p, IsPage(t, n, p), NEW base
  PROVE  AllLinks(t.node, n, base, LinkVisit(t, base)[MostVisits(t)].data.link)
<1>1. PICK D : D = LinkData(n, base)
  OBVIOUS
<1>2. PICK d0 : d0 = [link |-> << >>, in_anchor |-> FALSE, in_option |-> FALSE] /\ d0 \in D
  <2>1. << >> \in Seq(LinkType(n, base))
    OBVIOUS
  <2>2. [link |-> << >>, in_anchor |-> FALSE, in_option |-> FALSE] \in D
    BY <1>1, <2>1 DEF LinkData
  <2>3. QED
    BY <2>2
<1>3. HasTokens(t.node, n, p) /\ InOrder(t.node, n)
  BY DEF IsPage
<1>4. \A e \in 0 .. n, d \in D :
        /\ LinkStart(t, base, e, d) \in Results(D)
        /\ LinkFinish(t, base, e, d) \in Results(D)
  BY <1>1, LinkCases
<1>5. PICK V \in Visitors(n, D) : LinkBy(V, t, base, n, D)
        /\ Follows(LinkVisit(t, base), t, n, D, d0, V)
  BY <1>2, <1>3, <1>4, LinkFollows
<1>6. PICK F : F = {d \in D : AllLinks(t.node, n, base, d.link)}
  OBVIOUS
<1>7. PICK Q : Q = LinksSoFar(t.node, n, base, D)
  OBVIOUS
<1>8. Sweeps(n, D, V, Q, F)
  BY <1>1, <1>5, <1>6, <1>7, LinkSweeps
<1>9. /\ StartKeeps(t.node, n, D, V, Spots(n, D, Q), F)
      /\ FinishKeeps(t.node, n, D, V, Spots(n, D, Q), F)
  BY <1>3, <1>5, <1>8, SweepKeeps
<1>10. Spot("start", 0, 0, d0) \in Spots(n, D, Q)
  <2>1. AreLinks(t.node, n, base, 0, << >>)
    BY HtmlParserAssumption DEF AreLinks
  <2>2. ~ d0.in_anchor /\ ~ d0.in_option /\ d0.link = << >>
    BY <1>2
  <2>3. LinksAt(t.node, n, base, 0, d0)
    BY <2>1, <2>2 DEF LinksAt
  <2>4. <<d0, 0>> \in Q
    BY <1>2, <1>7, <2>3, InLinksSoFar
  <2>5. 0 \in 0 .. n /\ "start" \in {"start", "finish"}
    OBVIOUS
  <2>6. QED
    BY <1>2, <2>4, <2>5, InSpots
<1>11. PICK f : f = LinkVisit(t, base)
  OBVIOUS
<1>12. f[MostVisits(t)].data \in F
  BY <1>2, <1>3, <1>5, <1>9, <1>10, <1>11, VisitKeeps
<1>13. QED
  BY <1>6, <1>11, <1>12

-----------------------------------------------------------------------------
(* What process_head_info finds.                                             *)
LEMMA LeastIs ==
  ASSUME NEW I \in SUBSET Nat, I # {}
  PROVE  Min(I) \in I /\ \A j \in I : Min(I) <= j
<1>1. \E i \in I : \A j \in I : i =< j
  BY LeastExists
<1>2. QED
  BY <1>1 DEF Min

LEMMA GreatestIs ==
  ASSUME NEW b \in Nat, NEW I \in SUBSET (1 .. b), I # {}
  PROVE  Max(I) \in I /\ \A j \in I : Max(I) >= j
<1>1. PICK R \in SUBSET Nat : R = {b - i : i \in I} /\ R # {}
  <2>1. PICK R : R = {b - i : i \in I}
    OBVIOUS
  <2>2. PICK i \in I : TRUE
    OBVIOUS
  <2>3. b - i \in R
    BY <2>1
  <2>4. \A j \in I : b - j \in Nat
    OBVIOUS
  <2>5. R \in SUBSET Nat
    BY <2>1, <2>4
  <2>6. QED
    BY <2>1, <2>3, <2>5
<1>2. PICK r \in R : \A x \in R : r <= x
  BY <1>1, LeastExists
<1>3. PICK i \in I : r = b - i
  BY <1>1, <1>2
<1>4. ASSUME NEW j \in I PROVE i >= j
  <2>1. b - j \in R /\ i \in Nat /\ j \in Nat
    BY <1>1
  <2>2. b - i <= b - j
    BY <1>2, <1>3, <2>1
  <2>3. QED
    BY <2>1, <2>2
<1>5. \E k \in I : \A j \in I : k >= j
  BY <1>4
<1>6. QED
  BY <1>5 DEF Max

\* FirstOf and BaseOf of any tree and any tokens.
FirstAt(p, tag) == LET some == {m \in 1 .. Len(p) : p[m].tag = tag}
                   IN  IF some = {} THEN 0 ELSE Min(some)
BasesAt(nd, p) == {m \in 1 .. Len(p) : /\ p[m].tag = "base" /\ p[m].value # ""
                                       /\ FirstAt(p, "head") # 0 /\ nd[m].parent = FirstAt(p, "head")}
BaseIn(nd, p) == IF BasesAt(nd, p) = {} THEN 0 ELSE Max(BasesAt(nd, p))

LEMMA BaseChosen ==
  /\ BaseOf = BaseIn(tree.node, page.read.placed)
  /\ BaseOf' = BaseIn(tree'.node, page'.read.placed)
BY DEF BaseOf, BaseIn, Bases, BasesAt, FirstOf, FirstAt, ParentOf, Nodes, Placed

LEMMA FirstIs ==
  ASSUME NEW t, NEW n \in Nat, NEW p, HasTokens(t.node, n, p), Len(p) = n, NEW tag
  PROVE  FirstIn(t.node, n, tag, FirstAt(p, tag))
<1>1. PICK I : I = {m \in 1 .. n : p[m].tag = tag}
  OBVIOUS
<1>2. FirstAt(p, tag) = IF I = {} THEN 0 ELSE Min(I)
  BY <1>1 DEF FirstAt
<1>3. \A m \in 1 .. n : TagOf(t.node, m) = p[m].tag
  BY DEF HasTokens, TagOf
<1>4. CASE I = {}
  <2>1. \A m \in 1 .. n : TagOf(t.node, m) # tag
    BY <1>1, <1>3, <1>4
  <2>2. FirstAt(p, tag) = 0 /\ 0 \in 0 .. n
    BY <1>2, <1>4
  <2>3. QED
    BY <2>1, <2>2 DEF FirstIn
<1>5. CASE I # {}
  <2>1. PICK x : x = Min(I) /\ x \in I /\ \A j \in I : x <= j
    <3>1. I \in SUBSET Nat
      BY <1>1
    <3>2. QED
      BY <1>5, <3>1, LeastIs
  <2>2. x \in 1 .. n /\ TagOf(t.node, x) = tag
    BY <1>1, <1>3, <2>1
  <2>3. ASSUME NEW j \in 1 .. x - 1 PROVE TagOf(t.node, j) # tag
    <3>1. j \in 1 .. n /\ ~ (x <= j)
      BY <2>2
    <3>2. QED
      BY <1>1, <1>3, <2>1, <3>1
  <2>4. FirstAt(p, tag) = x /\ x \in 0 .. n /\ x # 0
    BY <1>2, <1>5, <2>1, <2>2
  <2>5. QED
    BY <2>2, <2>3, <2>4 DEF FirstIn
<1>6. QED
  BY <1>4, <1>5

LEMMA HeadFound ==
  ASSUME NEW t, NEW n \in Nat, NEW p, HasTokens(t.node, n, p), InOrder(t.node, n), Len(p) = n
  PROVE  \/ search_tag_node(t, "head") = NULL /\ FirstAt(p, "head") = 0
         \/ search_tag_node(t, "head") = FirstAt(p, "head") /\ FirstAt(p, "head") \in 1 .. n
<1>. DEFINE nd == t.node
<1>1. PICK h : h = search_tag_node(t, "head") /\ IsFirst(nd, n, "head", h)
  BY SearchFinds
<1>2. PICK F : F = FirstAt(p, "head") /\ FirstIn(nd, n, "head", F)
  BY FirstIs
<1>3. nd[0].token.tag # "head"
  <2>1. nd[0].token = Root /\ Root.tag = ""
    BY DEF HasTokens, Root, Token
  <2>2. QED
    BY <2>1
<1>4. /\ F \in 0 .. n
      /\ F # 0 => nd[F].token.tag = "head" /\ \A j \in 1 .. F - 1 : nd[j].token.tag # "head"
  BY <1>2 DEF FirstIn, TagOf
<1>5. F = 0 => \A j \in 1 .. n : nd[j].token.tag # "head"
  BY <1>2 DEF FirstIn, TagOf
<1>6. CASE h = NULL
  <2>1. Lacks(nd, n + 1, "head")
    BY <1>1, <1>6 DEF IsFirst, NULL
  <2>2. \A j \in 0 .. n : nd[j].token.tag # "head"
    BY <2>1 DEF Lacks
  <2>3. F = 0
    BY <1>4, <2>2
  <2>4. QED
    BY <1>1, <1>2, <1>6, <2>3
<1>7. CASE h # NULL
  <2>1. h \in 0 .. n /\ nd[h].token.tag = "head" /\ \A j \in 0 .. h - 1 : nd[j].token.tag # "head"
    BY <1>1, <1>7 DEF IsFirst, Lacks
  <2>2. h \in 1 .. n
    BY <1>3, <2>1
  <2>3. F # 0
    BY <1>5, <2>1, <2>2
  <2>4. ~ (h < F)
    <3>1. h < F => h \in 1 .. F - 1
      BY <1>4, <2>2
    <3>2. QED
      BY <1>4, <2>1, <2>3, <3>1
  <2>5. ~ (F < h)
    <3>1. F < h => F \in 0 .. h - 1
      BY <1>4, <2>2
    <3>2. QED
      BY <1>4, <2>1, <2>3, <3>1
  <2>6. h = F
    BY <1>4, <2>2, <2>4, <2>5
  <2>7. QED
    BY <1>1, <1>2, <2>2, <2>6
<1>8. QED
  BY <1>6, <1>7

Telling(nd, c) == {i \in DOMAIN c : nd[c[i]].token.tag = "base" /\ nd[c[i]].token.value # ""}

LEMMA HeadIs ==
  ASSUME NEW t, NEW n \in Nat, NEW p, HasTokens(t.node, n, p), InOrder(t.node, n), Len(p) = n,
         NEW charset
  PROVE  process_head_info(t, 0, charset).base = BaseIn(t.node, p)
<1>. DEFINE nd == t.node
<1>1. PICK h, c : h = search_tag_node(t, "head") /\ c = nd[h].child
  OBVIOUS
<1>2. process_head_info(t, 0, charset).base =
        IF h = NULL THEN 0 ELSE IF Telling(nd, c) = {} THEN 0 ELSE c[Max(Telling(nd, c))]
  BY <1>1 DEF process_head_info, Telling
<1>3. PICK F : F = FirstAt(p, "head")
  OBVIOUS
<1>4. (h = NULL /\ F = 0) \/ (h = F /\ F \in 1 .. n)
  BY <1>1, <1>3, HeadFound
<1>5. PICK B : B = BasesAt(nd, p)
  OBVIOUS
<1>6. B = {m \in 1 .. n : p[m].tag = "base" /\ p[m].value # "" /\ F # 0 /\ nd[m].parent = F}
  BY <1>3, <1>5 DEF BasesAt
<1>7. \A m \in 1 .. n : nd[m].token = p[m]
  BY DEF HasTokens
<1>8. CASE h = NULL
  <2>1. F = 0
    BY <1>4, <1>8 DEF NULL
  <2>2. B = {}
    BY <1>6, <2>1
  <2>3. QED
    BY <1>2, <1>5, <1>8, <2>2 DEF BaseIn
<1>9. CASE h # NULL
  <2>1. h = F /\ F \in 1 .. n /\ F \in 0 .. n
    BY <1>4, <1>9
  <2>2. c \in Seq(Nat)
    BY <1>1, <2>1 DEF HasTokens, IsMap, NodeType
  <2>3. PICK l \in Nat : l = Len(c) /\ DOMAIN c = 1 .. l
    BY <2>2
  <2>4. /\ \A i \in 1 .. l : c[i] \in 1 .. n /\ nd[c[i]].parent = F
        /\ \A i \in 1 .. l : \A j \in 1 .. i - 1 : c[j] < c[i]
        /\ \A m \in 1 .. n : nd[m].parent = F => \E i \in 1 .. l : c[i] = m
    <3>1. c = nd[F].child /\ DOMAIN nd[F].child = 1 .. l
      BY <1>1, <2>1, <2>3
    <3>2. /\ \A i \in DOMAIN nd[F].child :
               /\ nd[F].child[i] \in 1 .. n /\ nd[nd[F].child[i]].parent = F
               /\ \A j \in 1 .. i - 1 : nd[F].child[j] < nd[F].child[i]
          /\ \A m \in 1 .. n : nd[m].parent = F => \E i \in DOMAIN nd[F].child : nd[F].child[i] = m
      BY <2>1 DEF InOrder
    <3>. HIDE DEF nd
    <3>3. QED
      BY <3>1, <3>2
  <2>5. PICK I : I = Telling(nd, c)
    OBVIOUS
  <2>6. I = {i \in 1 .. l : p[c[i]].tag = "base" /\ p[c[i]].value # ""}
    BY <1>7, <2>3, <2>4, <2>5 DEF Telling
  <2>7. \A i \in I : c[i] \in B
    <3>. HIDE DEF nd
    <3>1. F # 0
      BY <2>1
    <3>2. ASSUME NEW i \in I PROVE c[i] \in B
      <4>1. i \in 1 .. l /\ p[c[i]].tag = "base" /\ p[c[i]].value # ""
        BY <2>6
      <4>2. c[i] \in 1 .. n /\ nd[c[i]].parent = F
        BY <2>4, <4>1
      <4>3. QED
        BY <1>6, <3>1, <4>1, <4>2
    <3>3. QED
      BY <3>2
  <2>8. \A m \in B : \E i \in I : c[i] = m
    BY <1>6, <2>4, <2>6
  <2>9. CASE I = {}
    <3>1. B = {}
      BY <2>8, <2>9
    <3>2. QED
      BY <1>2, <1>5, <1>9, <2>5, <2>9, <3>1 DEF BaseIn
  <2>10. CASE I # {}
    <3>1. PICK x : x = Max(I) /\ x \in I /\ \A j \in I : x >= j
      BY <2>6, <2>10, GreatestIs
    <3>2. B # {} /\ B \in SUBSET (1 .. n)
      BY <1>6, <2>7, <2>10
    <3>3. PICK m : m = Max(B) /\ m \in B /\ \A j \in B : m >= j
      BY <3>2, GreatestIs
    <3>4. PICK i \in I : c[i] = m
      BY <2>8, <3>3
    <3>5. x \in 1 .. l /\ i \in 1 .. l /\ x >= i
      BY <2>6, <3>1
    <3>6. c[x] \in B /\ m >= c[x]
      BY <2>7, <3>1, <3>3
    <3>7. ~ (i < x)
      <4>1. ASSUME i < x PROVE FALSE
        <5>1. i \in 1 .. x - 1
          BY <3>5, <4>1
        <5>2. c[i] < c[x] /\ c[x] \in 1 .. n /\ c[i] \in 1 .. n
          BY <2>4, <3>5, <5>1
        <5>3. QED
          BY <3>4, <3>6, <5>2
      <4>2. QED
        BY <4>1
    <3>8. c[x] = m
      BY <3>4, <3>5, <3>7
    <3>9. QED
      BY <1>2, <1>5, <1>9, <2>5, <2>10, <3>1, <3>2, <3>3, <3>8 DEF BaseIn
  <2>11. QED
    BY <2>9, <2>10
<1>10. QED
  BY <1>8, <1>9

-----------------------------------------------------------------------------
(* The results of the parser are of its page.                                *)
TreeFits(nd) == \A m \in DOMAIN nd \ {0} : is_child_tag(nd[nd[m].parent].token, nd[m].token)

\* The inductive invariant: from the end of a page to its results the base is that of its
\* head, and what was handed out of a page before is gone.
OwnInv ==
  /\ NestingInv
  /\ TreeFits(tree.node)
  /\ pc = "idle" => links_ = << >>
  /\ pc = "parsing" => base_url_ = 0 /\ ~ page.refused
  /\ pc = "parsed" => base_url_ = BaseOf /\ ~ page.refused
  /\ OwnResults

\* How a step of html_tree_parse ends: it goes on, or process_head_info sees its tree.
Proceeds ==
  /\ ~ page'.refused
  /\ \/ pc' = "parsing" /\ base_url_' = 0
     \/ pc' = "parsed" /\ base_url_' = process_head_info(tree', 0, charset_).base
     \/ pc' = "parsed" /\ base_url_' = 0 /\ page'.read.placed = << >>

LEMMA ProceedsKeeps ==
  ASSUME NestingInv', TreeFits(tree'.node), Proceeds
  PROVE  OwnInv'
<1>1. pc' \in {"parsing", "parsed"}
  BY DEF Proceeds
<1>2. OwnResults'
  BY <1>1 DEF OwnResults
<1>3. ASSUME pc' = "parsed" PROVE base_url_' = BaseOf'
  <2>1. BaseOf' = BaseIn(tree'.node, page'.read.placed)
    BY BaseChosen
  <2>2. CASE base_url_' = 0 /\ page'.read.placed = << >>
    <3>1. BasesAt(tree'.node, << >>) = {}
      BY DEF BasesAt
    <3>2. QED
      BY <2>1, <2>2, <3>1 DEF BaseIn
  <2>3. CASE base_url_' = process_head_info(tree', 0, charset_).base
    <3>1. Over(tree'.node, page'.read) /\ page'.read \in Readings
      BY <1>3 DEF NestingInv, PageType
    <3>2. PICK n \in Nat : n = Len(page'.read.placed)
      BY <3>1 DEF Readings
    <3>3. HasTokens(tree'.node, n, page'.read.placed) /\ InOrder(tree'.node, n)
      BY <3>1, <3>2 DEF Over
    <3>4. QED
      BY <2>1, <2>3, <3>2, <3>3, HeadIs
  <2>4. QED
    BY <1>1, <1>3, <2>2, <2>3 DEF Proceeds
<1>4. TreeFits(tree.node)'
  OBVIOUS
<1>5. ~ page'.refused
  BY DEF Proceeds
<1>6. pc' = "parsing" => base_url_' = 0
  BY DEF Proceeds
<1>7. QED
  BY <1>1, <1>2, <1>3, <1>4, <1>5, <1>6 DEF OwnInv

LEMMA Outcome ==
  ASSUME pc = "parsing", base_url_ = 0, NEW t, IsTree(t),
         \/ Fails(t) /\ ~ page.refused
         \/ \E pg : /\ ~ pg.refused
                    /\ Return(t, pg) \/ GoOn(t, pg) \/ \E child : Call(t, child, pg)
  PROVE  Proceeds /\ tree'.node = t.node
<1>1. CASE Fails(t) /\ ~ page.refused
  BY <1>1 DEF Fails, ProcessHead, Proceeds
<1>2. ASSUME NEW pg, ~ pg.refused, Return(t, pg) PROVE Proceeds /\ tree'.node = t.node
  <2>1. CASE Len(open) = 1
    BY <1>2, <2>1 DEF Return, ProcessHead, Proceeds
  <2>2. CASE Len(open) # 1
    BY <1>2, <2>2 DEF Return, Proceeds, head, IsTree
  <2>3. QED
    BY <2>1, <2>2
<1>3. ASSUME NEW pg, ~ pg.refused, GoOn(t, pg) PROVE Proceeds /\ tree'.node = t.node
  BY <1>3 DEF GoOn, Proceeds, head
<1>4. ASSUME NEW pg, NEW child, ~ pg.refused, Call(t, child, pg) PROVE Proceeds /\ tree'.node = t.node
  BY <1>4 DEF Call, Proceeds, head, IsTree
<1>5. QED
  BY <1>1, <1>2, <1>3, <1>4

\* A scan leaves the nodes alone.
LEMMA ScanLeaves ==
  ASSUME NEW t, IsTree(t), NEW pg \in PageType, ~ pg.refused
  PROVE  /\ IsTree(Scanned(t, EndOfPage)) /\ Scanned(t, EndOfPage).node = t.node
         /\ \A token \in Tokens(pg) :
              /\ IsTree(Scanned(t, token)) /\ Scanned(t, token).node = t.node
              /\ ~ WithToken(pg, token).refused
              /\ WithToken(pg, token).read = Read(pg.read, token)
              /\ \A f \in ScanFails(t, token) : IsTree(f) /\ f.node = t.node
<1>1. IsTree(Scanned(t, EndOfPage)) /\ Scanned(t, EndOfPage).node = t.node
  BY ScannedTree
<1>2. ASSUME NEW token \in Tokens(pg)
      PROVE  /\ IsTree(Scanned(t, token)) /\ Scanned(t, token).node = t.node
             /\ ~ WithToken(pg, token).refused
             /\ WithToken(pg, token).read = Read(pg.read, token)
             /\ \A f \in ScanFails(t, token) : IsTree(f) /\ f.node = t.node
  <2>1. token \in PageToken
    BY TokensTyped
  <2>2. WithToken(pg, token).refused = pg.refused
    BY DEF WithToken, PageType
  <2>3. QED
    BY <2>1, <2>2, ScannedTree, FailedTree, WithTokenTyped DEF Failed
<1>3. QED
  BY <1>1, <1>2

LEMMA ParseOwn ==
  ASSUME OwnInv, NEW kind \in Pages, Parse(kind)
  PROVE  OwnInv'
<1>1. NestingInv /\ NestingInv'
  BY ParseNesting DEF OwnInv
<1>2. IsTree(tree) /\ tree.node = RootNode
  BY <1>1 DEF NestingInv, Parse
<1>3. PICK t : t = [tree EXCEPT !.next_input_char = 0]
  OBVIOUS
<1>4. IsTree(t) /\ t.node = RootNode
  BY <1>2, <1>3 DEF IsTree
<1>5. PICK pg : pg = [NoPage EXCEPT !.kind = kind]
  OBVIOUS
<1>6. pg \in PageType /\ pg.read = NothingRead /\ ~ pg.refused
  <2>1. NothingRead \in Readings
    BY DEF NothingRead, Readings
  <2>2. kind \in [begin : Seq(PageToken), more : SUBSET PageToken]
    BY HtmlParserAssumption
  <2>3. pg = [tokens |-> << >>, kind |-> kind, refused |-> FALSE, read |-> NothingRead]
    BY <1>5 DEF NoPage
  <2>4. QED
    BY <2>1, <2>2, <2>3 DEF PageType
<1>7. base_url_' = 0
  BY DEF Parse
<1>8. \/ \E s, p : /\ IsTree(s) /\ s.node = RootNode /\ ~ p.refused
                   /\ tree' = [s EXCEPT !.stack_depth = @ + 1] /\ pc' = "parsing" /\ page' = p
      \/ \E s : s.node = RootNode /\ tree' = s /\ pc' = "parsed" /\ page' = pg
  <2>1. CASE ~ is_clean_tree(tree)
    BY <1>2, <1>5, <2>1 DEF Parse
  <2>2. CASE is_clean_tree(tree)
    <3>1. /\ IsTree(Scanned(t, EndOfPage)) /\ Scanned(t, EndOfPage).node = t.node
          /\ \A token \in Tokens(pg) :
               /\ IsTree(Scanned(t, token)) /\ Scanned(t, token).node = t.node
               /\ ~ WithToken(pg, token).refused
               /\ \A f \in ScanFails(t, token) : IsTree(f) /\ f.node = t.node
      BY <1>4, <1>6, ScanLeaves
    <3>2. QED
      BY <1>3, <1>4, <1>5, <1>6, <2>2, <3>1 DEF Parse, Scan, WithToken
  <2>3. QED
    BY <2>1, <2>2
<1>9. tree'.node = RootNode /\ Proceeds
  <2>1. ASSUME NEW s, NEW p, IsTree(s), s.node = RootNode, ~ p.refused,
               tree' = [s EXCEPT !.stack_depth = @ + 1], pc' = "parsing", page' = p
        PROVE  tree'.node = RootNode /\ Proceeds
    BY <1>7, <2>1 DEF Proceeds, IsTree
  <2>2. ASSUME NEW s, s.node = RootNode, tree' = s, pc' = "parsed", page' = pg
        PROVE  tree'.node = RootNode /\ Proceeds
    BY <1>6, <1>7, <2>2 DEF Proceeds, NothingRead
  <2>3. QED
    BY <1>8, <2>1, <2>2
<1>10. TreeFits(RootNode)
  BY DEF TreeFits, RootNode
<1>11. QED
  BY <1>1, <1>9, <1>10, ProceedsKeeps

LEMMA AtEndOfPageOwn ==
  ASSUME OwnInv, AtEndOfPage
  PROVE  OwnInv'
<1>1. NestingInv /\ NestingInv'
  BY AtEndOfPageNesting DEF OwnInv
<1>2. /\ pc = "parsing" /\ Return(tree, page) /\ base_url_ = 0 /\ ~ page.refused
      /\ TreeFits(tree.node)
  BY DEF AtEndOfPage, OwnInv
<1>3. IsTree(tree)
  BY <1>1 DEF NestingInv
<1>4. Proceeds /\ tree'.node = tree.node
  BY <1>2, <1>3, Outcome
<1>5. QED
  BY <1>1, <1>2, <1>4, ProceedsKeeps

LEMMA EndTagOwn ==
  ASSUME OwnInv, EndTag
  PROVE  OwnInv'
<1>1. NestingInv /\ NestingInv'
  BY EndTagNesting DEF OwnInv
<1>2. pc = "parsing" /\ base_url_ = 0 /\ ~ page.refused /\ TreeFits(tree.node)
  BY DEF EndTag, OwnInv
<1>3. IsTree(tree) /\ page \in PageType
  BY <1>1 DEF NestingInv
<1>4. /\ IsTree(Scanned(tree, EndOfPage)) /\ Scanned(tree, EndOfPage).node = tree.node
      /\ \A token \in Tokens(page) :
           /\ IsTree(Scanned(tree, token)) /\ Scanned(tree, token).node = tree.node
           /\ ~ WithToken(page, token).refused
           /\ \A f \in ScanFails(tree, token) : IsTree(f) /\ f.node = tree.node
  BY <1>2, <1>3, ScanLeaves
<1>5. \/ \E t, pg : /\ IsTree(t) /\ t.node = tree.node /\ ~ pg.refused
                    /\ Return(t, pg) \/ GoOn(t, pg)
      \/ \E f : IsTree(f) /\ f.node = tree.node /\ Fails(f)
  <2>1. CASE is_this_end_tag(tree, node, next)
    BY <1>2, <1>4, <2>1 DEF EndTag, Scan, WithToken
  <2>2. CASE ~ is_this_end_tag(tree, node, next) /\ is_ancestor_end_tag(tree, node, next)
    <3>1. Return(tree, page)
      BY <2>2 DEF EndTag
    <3>2. QED
      BY <1>2, <1>3, <3>1
  <2>3. CASE ~ is_this_end_tag(tree, node, next) /\ ~ is_ancestor_end_tag(tree, node, next)
    BY <1>2, <1>4, <2>3 DEF EndTag, Scan, WithToken
  <2>4. QED
    BY <2>1, <2>2, <2>3
<1>6. Proceeds /\ tree'.node = tree.node
  <2>1. ASSUME NEW t, NEW pg, IsTree(t), t.node = tree.node, ~ pg.refused, Return(t, pg) \/ GoOn(t, pg)
        PROVE  Proceeds /\ tree'.node = tree.node
    BY <1>2, <2>1, Outcome
  <2>2. ASSUME NEW f, IsTree(f), f.node = tree.node, Fails(f)
        PROVE  Proceeds /\ tree'.node = tree.node
    BY <1>2, <2>2, Outcome
  <2>3. QED
    BY <1>5, <2>1, <2>2
<1>7. QED
  BY <1>1, <1>2, <1>6, ProceedsKeeps

\* The new node is below one it may be below.
LEMMA GrownFits ==
  ASSUME NEW n \in Nat, NEW nd, NEW p, HasTokens(nd, n, p), InOrder(nd, n), TreeFits(nd),
         NEW e \in 0 .. n, NEW token \in PageToken, is_child_tag(nd[e].token, token),
         NEW g, g = Grown(nd, n, e, token)
  PROVE  TreeFits(g)
<1>1. IsGrown(g, nd, n, e, token)
  BY GrownFields DEF HasTokens
<1>2. /\ DOMAIN nd = 0 .. n /\ DOMAIN g = 0 .. n + 1
      /\ g[n + 1].token = token /\ g[n + 1].parent = e
      /\ \A m \in 0 .. n : g[m].token = nd[m].token /\ g[m].parent = nd[m].parent
  BY <1>1 DEF IsGrown, HasTokens, IsMap
<1>3. ASSUME NEW m \in (0 .. n + 1) \ {0} PROVE is_child_tag(g[g[m].parent].token, g[m].token)
  <2>1. CASE m = n + 1
    BY <1>2, <2>1
  <2>2. CASE m # n + 1
    <3>1. m \in 1 .. n /\ m \in 0 .. n
      BY <2>2
    <3>2. nd[m].parent \in 0 .. n
      <4>1. nd[m].parent \in 0 .. m - 1
        BY <3>1 DEF InOrder
      <4>2. QED
        BY <3>1, <4>1
    <3>3. is_child_tag(nd[nd[m].parent].token, nd[m].token)
      BY <1>2, <3>1 DEF TreeFits
    <3>4. QED
      BY <1>2, <3>1, <3>2, <3>3
  <2>3. QED
    BY <2>1, <2>2
<1>4. QED
  BY <1>2, <1>3 DEF TreeFits

LEMMA StartTagOwn ==
  ASSUME OwnInv, StartTag
  PROVE  OwnInv'
<1>1. NestingInv /\ NestingInv'
  BY StartTagNesting DEF OwnInv
<1>2. /\ pc = "parsing" /\ base_url_ = 0 /\ ~ page.refused /\ TreeFits(tree.node)
      /\ next.kind \in {"start", "text"}
  BY DEF StartTag, OwnInv
<1>3. IsTree(tree) /\ page \in PageType
  BY <1>1 DEF NestingInv
<1>4. CASE ~ is_child_tag(tree.node[node].token, next)
  <2>1. Return(tree, page)
    BY <1>4 DEF StartTag
  <2>2. Proceeds /\ tree'.node = tree.node
    BY <1>2, <1>3, <2>1, Outcome
  <2>3. QED
    BY <1>1, <1>2, <2>2, ProceedsKeeps
<1>5. CASE is_child_tag(tree.node[node].token, next)
  <2>1. PICK t : t = append_child(tree, node, next)
    OBVIOUS
  <2>2. next \in PageToken
    <3>1. next \in PageToken \cup {EndOfPage}
      BY <1>1, <1>2, ParsingFacts
    <3>2. EndOfPage.kind \notin {"start", "text"}
      BY DEF EndOfPage, Token
    <3>3. QED
      BY <1>2, <3>1, <3>2
  <2>3. IsTree(t) /\ TreeFits(t.node)
    <3>1. PICK n \in Nat : n = Count(next, page.read)
      BY <1>1, <1>2, ParsingFacts
    <3>2. /\ HasTokens(tree.node, n, page.read.placed) /\ InOrder(tree.node, n)
          /\ node \in 0 .. n
      BY <1>1, <1>2, <3>1, ParsingFacts
    <3>3. /\ IsTree(append_child(tree, node, next))
          /\ append_child(tree, node, next).node = Grown(tree.node, n, node, next)
      BY <1>3, <3>2, AppendedIsGrown
    <3>4. QED
      BY <1>2, <1>5, <2>1, <2>2, <3>2, <3>3, GrownFits
  <2>4. /\ IsTree(Scanned(t, EndOfPage)) /\ Scanned(t, EndOfPage).node = t.node
        /\ \A token \in Tokens(page) :
             /\ IsTree(Scanned(t, token)) /\ Scanned(t, token).node = t.node
             /\ ~ WithToken(page, token).refused
             /\ \A f \in ScanFails(t, token) : IsTree(f) /\ f.node = t.node
    BY <1>2, <1>3, <2>3, ScanLeaves
  <2>5. \/ \E s, pg : /\ IsTree(s) /\ s.node = t.node /\ ~ pg.refused
                      /\ \E child : Call(s, child, pg)
        \/ \E f : IsTree(f) /\ f.node = t.node /\ Fails(f)
    BY <1>2, <1>5, <2>1, <2>4 DEF StartTag, Scan, WithToken
  <2>6. Proceeds /\ tree'.node = t.node
    <3>1. ASSUME NEW s, NEW pg, IsTree(s), s.node = t.node, ~ pg.refused, \E child : Call(s, child, pg)
          PROVE  Proceeds /\ tree'.node = t.node
      BY <1>2, <3>1, Outcome
    <3>2. ASSUME NEW f, IsTree(f), f.node = t.node, Fails(f)
          PROVE  Proceeds /\ tree'.node = t.node
      BY <1>2, <3>2, Outcome
    <3>3. QED
      BY <2>5, <3>1, <3>2
  <2>7. QED
    BY <1>1, <2>3, <2>6, ProceedsKeeps
<1>6. QED
  BY <1>4, <1>5

\* OwnLinks, OwnTitle and OwnContent of any tree, tokens and results.
TextsAt(p) == {m \in 1 .. Len(p) : p[m].tag = "text"}
OwnedLinks(nd, p, base, s) ==
  /\ Len(s) <= max_links_num
  /\ \A i \in DOMAIN s :
       LET l == s[i]
       IN  /\ l.node \in 1 .. Len(p) /\ IsLinkAt(nd, l.node)
           /\ \A j \in 1 .. i - 1 : s[j].node < l.node
           /\ l.base = BaseAt(nd, base, l.node)
           /\ l.text # NULL => /\ l.text \in TextsAt(p) /\ l.text > l.node
                               /\ \A m \in 1 .. Len(p) : IsLinkAt(nd, m) /\ m > l.node => m > l.text
  /\ \A m \in 1 .. Len(p) : IsLinkAt(nd, m) =>
       \/ \E i \in DOMAIN s : s[i].node = m
       \/ Len(s) = max_links_num /\ \A i \in DOMAIN s : s[i].node < m
OwnedTitle(t, p, charset, s) ==
  ToSet(s) = {m \in TextsAt(p) : /\ charset # NULL
                                 /\ FirstAt(p, "title") # 0 /\ FirstAt(p, "title") \in Ancestors(t, m)}
TextsOutside(t, p, tags) == {m \in TextsAt(p) : ~ \E a \in Ancestors(t, m) : p[a].tag \in tags}
OwnedContent(t, p, charset, c) ==
  /\ \A i \in DOMAIN c : \A j \in 1 .. i - 1 : c[i] # 0 => c[j] < c[i]
  /\ ToSet(c) \ {0} \subseteq TextsOutside(t, p, {"title", "option"})
  /\ charset # NULL => TextsOutside(t, p, {"title", "option", "a"}) \subseteq ToSet(c)

LEMMA LinksChosen ==
  /\ OwnLinks = OwnedLinks(tree.node, page.read.placed, BaseOf, links_)
  /\ OwnLinks' = OwnedLinks(tree'.node, page'.read.placed, BaseOf', links_')
BY DEF OwnLinks, OwnedLinks, TextsAt, IsLinkAt, BaseAt, IsLink, Value, Texts, Nodes, Placed

LEMMA TextsChosen ==
  /\ OwnTitle = OwnedTitle(tree, page.read.placed, charset_, title_)
  /\ OwnTitle' = OwnedTitle(tree', page'.read.placed, charset_', title_')
  /\ OwnContent = OwnedContent(tree, page.read.placed, charset_, content_)
  /\ OwnContent' = OwnedContent(tree', page'.read.placed, charset_', content_')
BY DEF OwnTitle, OwnedTitle, OwnContent, OwnedContent, TextsAt, TextsOutside, FirstOf, FirstAt, Below,
  Texts, Nodes, Placed

LEMMA TextsAre ==
  ASSUME NEW t, NEW n \in Nat, NEW p, HasTokens(t.node, n, p), InOrder(t.node, n), Len(p) = n
  PROVE  /\ TextsAt(p) = {m \in 1 .. n : IsText(t.node, m)}
         /\ \A m \in 1 .. n : Ancestors(t, m) = Up(t.node, m)
         /\ \A tags : TextsOutside(t, p, tags) = ClearTexts(t.node, n, tags)
<1>1. TextsAt(p) = {m \in 1 .. n : IsText(t.node, m)}
  BY DEF TextsAt, IsText, TagOf, HasTokens
<1>2. ASSUME NEW m \in 1 .. n PROVE Ancestors(t, m) = Up(t.node, m)
  <2>1. m \in 0 .. n
    OBVIOUS
  <2>2. QED
    BY <2>1, AncestorsAre
<1>3. ASSUME NEW tags PROVE TextsOutside(t, p, tags) = ClearTexts(t.node, n, tags)
  <2>1. ASSUME NEW m \in 1 .. n
        PROVE  (\E a \in Ancestors(t, m) : p[a].tag \in tags)
                 <=> \E a \in Up(t.node, m) : TagOf(t.node, a) \in tags
    <3>1. \A a \in Up(t.node, m) : a \in 1 .. n
      BY DEF Up
    <3>2. \A a \in Up(t.node, m) : p[a].tag = TagOf(t.node, a)
      BY <3>1 DEF HasTokens, TagOf
    <3>3. QED
      BY <1>2, <3>2
  <2>2. QED
    BY <1>1, <2>1 DEF TextsOutside, ClearTexts
<1>4. QED
  BY <1>1, <1>2, <1>3

LEMMA LinksOwned ==
  ASSUME NEW nd, NEW n \in Nat, NEW p, HasTokens(nd, n, p), Len(p) = n,
         NEW base, NEW s, AllLinks(nd, n, base, s)
  PROVE  OwnedLinks(nd, p, base, s)
<1>1. \A m \in 1 .. n : m \in TextsAt(p) <=> IsText(nd, m)
  BY DEF TextsAt, IsText, TagOf, HasTokens
<1>2. \A i \in DOMAIN s : LinkHolds(nd, n, base, s, i)
  BY DEF AllLinks
<1>3. QED
  BY <1>1, <1>2 DEF AllLinks, LinkHolds, OwnedLinks

LEMMA ExtractOwn ==
  ASSUME OwnInv, Extract
  PROVE  OwnInv'
<1>1. NestingInv /\ NestingInv'
  <2>1. NestingInv /\ Next
    BY DEF OwnInv, Next
  <2>2. QED
    BY <2>1, NextNesting
<1>2. /\ pc = "parsed" /\ pc' = "done" /\ tree' = tree /\ page' = page
      /\ base_url_ = BaseOf /\ ~ page.refused /\ TreeFits(tree.node)
  BY DEF Extract, OwnInv
<1>3. PICK t, nd, p : t = tree /\ nd = tree.node /\ p = page.read.placed
  OBVIOUS
<1>4. Over(nd, page.read) /\ page.read \in Readings
  BY <1>1, <1>2, <1>3 DEF NestingInv, PageType
<1>5. PICK n \in Nat : n = Len(p) /\ p \in Seq(NodeToken)
  BY <1>3, <1>4 DEF Readings
<1>6. HasTokens(nd, n, p) /\ InOrder(nd, n)
  BY <1>3, <1>4, <1>5 DEF Over
<1>7. IsPage(t, n, p)
  <2>1. \A m \in 1 .. n : nd[m].token \in NodeToken
    BY <1>5, <1>6 DEF HasTokens
  <2>2. DOMAIN nd = 0 .. n
    BY <1>6 DEF HasTokens, IsMap
  <2>3. Fits(nd, n)
    BY <1>2, <1>3, <2>2 DEF TreeFits, Fits
  <2>4. QED
    BY <1>3, <1>6, <2>1, <2>3 DEF IsPage
<1>8. /\ Len(page'.read.placed) = n /\ tree'.node = nd /\ page'.read.placed = p
      /\ HasTokens(tree'.node, n, page'.read.placed) /\ InOrder(tree'.node, n)
  BY <1>2, <1>3, <1>5, <1>6
<1>9. Met' = [i \in 1 .. Len(Placed) + 1 |-> i - 1]'
  <2>1. Met' = MetOf(tree')
    BY MetChosen
  <2>2. MetOf(t) = UpTo(n + 1)
    BY <1>3, <1>6, MetAll
  <2>3. Len(Placed)' = n
    BY <1>8 DEF Placed
  <2>4. QED
    BY <1>2, <1>3, <2>1, <2>2, <2>3 DEF UpTo
<1>10. OwnLinks'
  <2>1. AllLinks(nd, n, base_url_, LinkVisit(t, base_url_)[MostVisits(t)].data.link)
    BY <1>3, <1>7, LinksAre
  <2>2. links_' = LinkVisit(t, base_url_)[MostVisits(t)].data.link
    BY <1>3, LinkChosen DEF Extract
  <2>3. BaseOf' = base_url_
    BY <1>2, BaseChosen
  <2>4. AllLinks(tree'.node, n, BaseOf', links_')
    BY <1>8, <2>1, <2>2, <2>3
  <2>5. OwnedLinks(tree'.node, page'.read.placed, BaseOf', links_')
    BY <1>8, <2>4, LinksOwned
  <2>6. QED
    BY <2>5, LinksChosen
<1>11. PICK T : T = FirstAt(p, "title") /\ FirstIn(nd, n, "title", T)
  BY <1>3, <1>5, <1>6, FirstIs
<1>13. /\ TextsAt(p) = {m \in 1 .. n : IsText(nd, m)}
       /\ \A m \in 1 .. n : Ancestors(t, m) = Up(nd, m)
       /\ \A tags : TextsOutside(t, p, tags) = ClearTexts(nd, n, tags)
  BY <1>3, <1>5, <1>6, TextsAre
<1>14. charset_' = charset_
  BY DEF Extract, head
<1>15. OwnTitle'
  <2>1. CASE charset_ = NULL
    <3>1. title_' = << >>
      BY <2>1 DEF Extract
    <3>2. OwnedTitle(t, p, charset_', title_')
      BY <1>14, <2>1, <3>1 DEF OwnedTitle, ToSet
    <3>3. QED
      BY <1>2, <1>3, <3>2, TextsChosen
  <2>2. CASE charset_ # NULL
    <3>1. title_' = TitleVisit(t)[MostVisits(t)].data.title
      BY <1>3, <2>2, TitleChosen DEF Extract
    <3>2. IsTitle(nd, n, T, TitleVisit(t)[MostVisits(t)].data)
      BY <1>3, <1>7, <1>11, TitleIs
    <3>3. ToSet(title_') = {x \in 1 .. n : IsText(nd, x) /\ T # 0 /\ T \in Up(nd, x)}
      BY <3>1, <3>2 DEF IsTitle
    <3>4. OwnedTitle(t, p, charset_', title_')
      BY <1>11, <1>13, <1>14, <2>2, <3>3 DEF OwnedTitle
    <3>5. QED
      BY <1>2, <1>3, <3>4, TextsChosen
  <2>3. QED
    BY <2>1, <2>2
<1>16. OwnContent'
  <2>1. CASE charset_ = NULL
    <3>1. content_' = << >>
      BY <2>1 DEF Extract
    <3>2. OwnedContent(t, p, charset_', content_')
      BY <1>14, <2>1, <3>1 DEF OwnedContent, ToSet
    <3>3. QED
      BY <1>2, <1>3, <3>2, TextsChosen
  <2>2. CASE charset_ # NULL
    <3>1. content_' = ContentVisit(t)[MostVisits(t)].data.content
      BY <1>3, <2>2, ContentChosen DEF Extract
    <3>2. content_' \in Seq(0 .. n) /\ IsContent(nd, n, n, content_')
      BY <1>3, <1>7, <3>1, ContentIs
    <3>3. ClearTexts(nd, n, {"title", "option", "a"}) \subseteq ToSet(content_')
      <4>1. \A x \in 1 .. n : x \in ClearTexts(nd, n, {"title", "option", "a"}) => x \in ToSet(content_')
        BY <3>2 DEF IsContent
      <4>2. ClearTexts(nd, n, {"title", "option", "a"}) \subseteq 1 .. n
        BY DEF ClearTexts
      <4>3. QED
        BY <4>1, <4>2
    <3>4. OwnedContent(t, p, charset_', content_')
      BY <1>13, <3>2, <3>3 DEF OwnedContent, IsContent
    <3>5. QED
      BY <1>2, <1>3, <3>4, TextsChosen
  <2>3. QED
    BY <2>1, <2>2
<1>17. OwnResults'
  BY <1>2, <1>9, <1>10, <1>15, <1>16 DEF OwnResults
<1>18. QED
  BY <1>1, <1>2, <1>17 DEF OwnInv

LEMMA ProduceOwn ==
  ASSUME OwnInv, Produce
  PROVE  OwnInv'
<1>1. NestingInv'
  <2>1. NestingInv /\ Next
    BY DEF OwnInv, Next
  <2>2. QED
    BY <2>1, NextNesting
<1>2. pc' = "idle" /\ links_' = << >> /\ tree' = html_tree_clean(tree)
  BY DEF Produce
<1>3. tree'.node = RootNode
  BY <1>1, <1>2 DEF NestingInv
<1>4. TreeFits(RootNode)
  BY DEF TreeFits, RootNode
<1>5. QED
  BY <1>1, <1>2, <1>3, <1>4 DEF OwnInv, OwnResults

LEMMA TooLongOwn ==
  ASSUME OwnInv, ParseTooLong
  PROVE  OwnInv'
<1>1. NestingInv'
  <2>1. NestingInv /\ Next
    BY DEF OwnInv, Next
  <2>2. QED
    BY <2>1, NextNesting
<1>2. pc' = "done" /\ links_' = << >> /\ tree' = tree /\ page' = [NoPage EXCEPT !.refused = TRUE]
  BY DEF OwnInv, ParseTooLong, parsed
<1>3. page'.refused
  BY <1>2 DEF NoPage
<1>4. OwnResults'
  BY <1>2, <1>3 DEF OwnResults
<1>5. TreeFits(tree.node)'
  BY <1>2 DEF OwnInv
<1>6. QED
  BY <1>1, <1>2, <1>4, <1>5 DEF OwnInv

LEMMA InitOwn == Init => OwnInv
<1>1. SUFFICES ASSUME Init PROVE OwnInv
  OBVIOUS
<1>2. NestingInv
  BY <1>1, InitNesting
<1>3. pc = "idle" /\ links_ = << >> /\ tree.node = RootNode
  BY <1>1 DEF Init, html_tree_create
<1>4. TreeFits(RootNode)
  BY DEF TreeFits, RootNode
<1>5. QED
  BY <1>2, <1>3, <1>4 DEF OwnInv, OwnResults

LEMMA NextOwn == OwnInv /\ [Next]_vars => OwnInv'
<1>1. SUFFICES ASSUME OwnInv, [Next]_vars PROVE OwnInv'
  OBVIOUS
<1>2. CASE UNCHANGED vars
  <2>1. NestingInv'
    BY <1>1, NextNesting DEF OwnInv
  <2>2. /\ tree' = tree /\ base_url_' = base_url_ /\ charset_' = charset_ /\ title_' = title_
        /\ content_' = content_ /\ links_' = links_ /\ pc' = pc /\ open' = open /\ page' = page
    BY <1>2 DEF vars
  <2>3. BaseOf' = BaseOf
    BY <2>2, BaseChosen
  <2>4. OwnResults'
    <3>1. Met' = Met /\ Len(Placed)' = Len(Placed)
      BY <2>2, MetChosen DEF Placed
    <3>2. OwnLinks' = OwnLinks /\ OwnTitle' = OwnTitle /\ OwnContent' = OwnContent
      BY <2>2, <2>3, LinksChosen, TextsChosen
    <3>3. QED
      BY <1>1, <2>2, <3>1, <3>2 DEF OwnInv, OwnResults
  <2>5. QED
    BY <1>1, <2>1, <2>2, <2>3, <2>4 DEF OwnInv
<1>3. CASE \E kind \in Pages : Parse(kind)
  BY <1>1, <1>3, ParseOwn
<1>4. CASE ParseTooLong
  BY <1>1, <1>4, TooLongOwn
<1>5. CASE AtEndOfPage
  BY <1>1, <1>5, AtEndOfPageOwn
<1>6. CASE EndTag
  BY <1>1, <1>6, EndTagOwn
<1>7. CASE StartTag
  BY <1>1, <1>7, StartTagOwn
<1>8. CASE Extract
  BY <1>1, <1>8, ExtractOwn
<1>9. CASE Produce
  BY <1>1, <1>9, ProduceOwn
<1>10. QED
  BY <1>1, <1>2, <1>3, <1>4, <1>5, <1>6, <1>7, <1>8, <1>9 DEF Next

\* Links, title and content that parse hands out are those of the page just parsed, in its
\* order, whatever the same parser parsed before and whatever memory ran out
\* (html_tree_visit and the visitors of html_parser.cpp, html_tree_clean).
THEOREM ResultsAreOwn == Spec => []OwnResults
<1>1. Init => OwnInv
  BY InitOwn
<1>2. OwnInv /\ [Next]_vars => OwnInv'
  BY NextOwn
<1>3. OwnInv => OwnResults
  BY DEF OwnInv
<1>4. QED
  BY <1>1, <1>2, <1>3, PTL DEF Spec
=============================================================================
