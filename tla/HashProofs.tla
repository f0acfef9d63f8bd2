----------------------------- MODULE HashProofs -----------------------------
(***************************************************************************)
(* Proofs about the hash table of the crawler: for any number of           *)
(* signatures, slots, nodes and blocks its chains and its free list stay   *)
(* sound, the place of a fresh node is free, and the table is a map.       *)
(***************************************************************************)
EXTENDS HashTable, TLAPS, FiniteSetTheorems, NaturalsInduction, WellFoundedInduction

LessThan == {p \in Nat \X Nat : p[1] < p[2]}

\* A set of numbers has a least one.
LEMMA LeastExists ==
  ASSUME NEW I \in SUBSET Nat, I # {}
  PROVE  \E i \in I : \A j \in I : i <= j
<1>1. IsWellFoundedOn(LessThan, Nat)
  BY NatLessThanWellFounded DEF OpToRel, LessThan
<1>2. PICK i \in I : \A j \in I : ~(<<j, i>> \in LessThan)
  BY <1>1, WFMin
<1>3. ASSUME NEW j \in I
      PROVE  i <= j
  <2>1. <<j, i>> \in Nat \X Nat /\ <<j, i>>[1] = j /\ <<j, i>>[2] = i
    OBVIOUS
  <2>2. ~(j < i)
    BY <1>2, <2>1 DEF LessThan
  <2>3. QED
    BY <2>2
<1>4. QED
  BY <1>3

-----------------------------------------------------------------------------
(* Lists.                                                                    *)

\* How many nodes there can be.
Nodes == Cardinality(Node)

LEMMA NodesFinite == /\ IsFiniteSet(Node) /\ Nodes \in Nat /\ NULL \notin Node
                     /\ Node \subseteq Nat /\ Nodes = MaxNode
<1>1. MaxNode - 1 \in Int /\ MaxNode \in Nat
  BY HashTableAssumption
<1>2. IsFiniteSet(Node) /\ Cardinality(Node) = MaxNode
  BY <1>1, FS_Interval, HashTableAssumption DEF Node
<1>3. QED
  BY <1>1, <1>2 DEF Node, Nodes, NULL

\* The nodes S are a list from p along the links nx: pos counts the nodes behind a node.
Position == [Node -> Nat]
Listed(p, S, pos, nx) ==
  /\ S \subseteq Node
  /\ p = NULL => S = {}
  /\ p # NULL => p \in S /\ \A n \in S : pos[n] <= pos[p]
  /\ Cardinality(S) = IF p = NULL THEN 0 ELSE pos[p] + 1
  /\ \A n \in S : IF pos[n] = 0 THEN nx[n] = NULL ELSE nx[n] \in S /\ pos[nx[n]] = pos[n] - 1
  /\ \A m, n \in S : pos[m] = pos[n] => m = n

LEMMA ListFinite ==
  ASSUME NEW S \in SUBSET Node
  PROVE  IsFiniteSet(S) /\ Cardinality(S) \in Nat /\ Cardinality(S) <= Nodes
  BY NodesFinite, FS_Subset, FS_CardinalityType DEF Nodes

LEMMA CardinalityGrows ==
  ASSUME NEW S, IsFiniteSet(S), NEW x, x \notin S
  PROVE  Cardinality(S \cup {x}) = Cardinality(S) + 1 /\ IsFiniteSet(S \cup {x})
  BY FS_AddElement

LEMMA CardinalityShrinks ==
  ASSUME NEW S, IsFiniteSet(S), NEW x \in S
  PROVE  Cardinality(S \ {x}) = Cardinality(S) - 1 /\ IsFiniteSet(S \ {x})
  BY FS_RemoveElement

\* Every position of a list is taken.
LEMMA Filled ==
  ASSUME NEW p, NEW S, NEW pos \in Position, NEW nx, Listed(p, S, pos, nx),
         NEW i \in 0 .. (Cardinality(S) - 1)
  PROVE  \E n \in S : pos[n] = i
<1> DEFINE top == Cardinality(S) - 1
           Gap == {d \in 0 .. top : \A n \in S : pos[n] # top - d}
<1>1. S \in SUBSET Node /\ Cardinality(S) \in Nat /\ top \in Nat
  BY ListFinite DEF Listed
<1>2. p \in S /\ pos[p] = top /\ pos \in [Node -> Nat]
  BY <1>1 DEF Listed, Position
<1>3. CASE Gap = {}
  <2>1. top - i \in 0 .. top /\ top - (top - i) = i
    BY <1>1
  <2>2. QED
    BY <1>3, <2>1
<1>4. CASE Gap # {}
  <2>1. PICK d \in Gap : \A e \in Gap : d <= e
    <3>1. Gap \in SUBSET Nat
      BY <1>1
    <3>2. QED
      BY <3>1, <1>4, LeastExists
  <2>2. d \in Nat /\ d <= top /\ \A n \in S : pos[n] # top - d
    BY <1>1
  <2>3. d # 0
    BY <1>1, <1>2, <2>2
  <2>4. d - 1 \in 0 .. top /\ d - 1 \notin Gap
    BY <1>1, <2>1, <2>2, <2>3
  <2>5. PICK n \in S : pos[n] = top - (d - 1)
    BY <2>4
  <2>6. pos[n] # 0 /\ pos[n] - 1 = top - d
    BY <1>1, <2>2, <2>5
  <2>7. nx[n] \in S /\ pos[nx[n]] = top - d
    BY <2>6 DEF Listed
  <2>8. QED
    BY <2>2, <2>7
<1>5. QED
  BY <1>3, <1>4

\* The pointers of the list that starts at p, with the links nx.
Walk(nx, p) ==
  LET at[i \in 0 .. Cardinality(Node)] ==
        IF i = 0 THEN p ELSE LET q == at[i - 1] IN IF q = NULL THEN NULL ELSE nx[q]
  IN  at

IsWalk(f, nx, p) ==
  f = [i \in 0 .. Nodes |->
         IF i = 0 THEN p ELSE IF f[i - 1] = NULL THEN NULL ELSE nx[f[i - 1]]]

LEMMA WalkChosen ==
  ASSUME NEW nx, NEW p
  PROVE  Walk(nx, p) = CHOOSE f : IsWalk(f, nx, p)
BY DEF Walk, IsWalk, Nodes

\* There is one walk at most.
LEMMA WalkUnique ==
  ASSUME NEW f, NEW g, NEW nx, NEW p, IsWalk(f, nx, p), IsWalk(g, nx, p)
  PROVE  f = g
<1> DEFINE Differ == {i \in 0 .. Nodes : f[i] # g[i]}
<1>1. /\ \A i \in 0 .. Nodes :
           f[i] = IF i = 0 THEN p ELSE IF f[i - 1] = NULL THEN NULL ELSE nx[f[i - 1]]
      /\ \A i \in 0 .. Nodes :
           g[i] = IF i = 0 THEN p ELSE IF g[i - 1] = NULL THEN NULL ELSE nx[g[i - 1]]
  BY DEF IsWalk
<1>2. CASE Differ = {}
  <2>1. \A i \in 0 .. Nodes : f[i] = g[i]
    BY <1>2
  <2>2. f = [i \in 0 .. Nodes |-> f[i]] /\ g = [i \in 0 .. Nodes |-> g[i]]
    BY Zenon DEF IsWalk
  <2>3. QED
    BY <2>1, <2>2
<1>3. CASE Differ # {}
  <2>1. PICK i \in Differ : \A j \in Differ : i <= j
    <3>1. Differ \in SUBSET Nat
      BY NodesFinite
    <3>2. QED
      BY <3>1, <1>3, LeastExists
  <2>2. i \in 0 .. Nodes /\ f[i] # g[i] /\ i \in Nat
    BY NodesFinite
  <2>3. i # 0
    BY <1>1, <2>2
  <2>4. i - 1 \in 0 .. Nodes /\ i - 1 \notin Differ
    BY <2>1, <2>2, <2>3, NodesFinite
  <2>5. f[i - 1] = g[i - 1]
    BY <2>4
  <2>6. QED
    BY <1>1, <2>2, <2>3, <2>5
<1>4. QED
  BY <1>2, <1>3

\* A walk along a list meets its nodes from the first to the last, and then ends.
LEMMA WalkMeets ==
  ASSUME NEW p, NEW S, NEW pos \in Position, NEW nx, Listed(p, S, pos, nx)
  PROVE  /\ DOMAIN Walk(nx, p) = 0 .. Nodes
         /\ \A i \in 0 .. Nodes :
              IF i < Cardinality(S)
              THEN Walk(nx, p)[i] \in S /\ pos[Walk(nx, p)[i]] = Cardinality(S) - 1 - i
              ELSE Walk(nx, p)[i] = NULL
<1> DEFINE len == Cardinality(S)
           NodeAt(j) == CHOOSE n \in S : pos[n] = j
           g == [i \in 0 .. Nodes |-> IF i < len THEN NodeAt(len - 1 - i) ELSE NULL]
<1>1. S \in SUBSET Node /\ len \in Nat /\ Nodes \in Nat /\ pos \in [Node -> Nat] /\ NULL \notin S
  BY ListFinite, NodesFinite DEF Listed, Position
<1>2. \A j \in 0 .. (len - 1) : NodeAt(j) \in S /\ pos[NodeAt(j)] = j
  BY Filled
<1>3. \A i \in 0 .. Nodes : i < len => g[i] \in S /\ pos[g[i]] = len - 1 - i
  <2> SUFFICES ASSUME NEW i \in 0 .. Nodes, i < len
               PROVE  g[i] \in S /\ pos[g[i]] = len - 1 - i
    OBVIOUS
  <2>1. len - 1 - i \in 0 .. (len - 1) /\ g[i] = NodeAt(len - 1 - i)
    BY <1>1
  <2> HIDE DEF NodeAt, g
  <2>2. QED
    BY <1>2, <2>1
<1>4. \A i \in 0 .. Nodes : ~(i < len) => g[i] = NULL
  OBVIOUS
<1>5. IsWalk(g, nx, p)
  <2> HIDE DEF NodeAt
  <2>0. g = [i \in 0 .. Nodes |-> g[i]]
    BY Zenon
  <2> HIDE DEF g
  <2> SUFFICES ASSUME NEW i \in 0 .. Nodes
               PROVE  g[i] = IF i = 0 THEN p ELSE IF g[i - 1] = NULL THEN NULL ELSE nx[g[i - 1]]
    BY <2>0 DEF IsWalk
  <2> HIDE DEF len
  <2>1. CASE i = 0
    <3>1. CASE len = 0
      BY <1>1, <1>4, <2>1, <3>1 DEF Listed, len
    <3>2. CASE len # 0
      <4>1. g[i] \in S /\ pos[g[i]] = len - 1
        BY <1>1, <1>3, <2>1, <3>2
      <4>2. p \in S /\ pos[p] = len - 1
        BY <1>1, <3>2 DEF Listed, len
      <4>3. QED
        BY <2>1, <4>1, <4>2 DEF Listed
    <3>3. QED
      BY <3>1, <3>2
  <2>2. CASE i # 0 /\ i - 1 < len
    <3>1. i - 1 \in 0 .. Nodes
      BY <1>1, <2>2
    <3>2. g[i - 1] \in S /\ pos[g[i - 1]] = len - i
      BY <1>1, <1>3, <2>2, <3>1
    <3>3. CASE i < len
      <4>1. pos[g[i - 1]] # 0 /\ g[i] \in S /\ pos[g[i]] = len - 1 - i
        BY <1>1, <1>3, <3>2, <3>3
      <4>2. nx[g[i - 1]] \in S /\ pos[nx[g[i - 1]]] = len - i - 1
        BY <3>2, <4>1 DEF Listed
      <4>3. nx[g[i - 1]] = g[i]
        BY <1>1, <4>1, <4>2 DEF Listed
      <4>4. QED
        BY <1>1, <2>2, <3>2, <4>3
    <3>4. CASE ~(i < len)
      <4>1. pos[g[i - 1]] = 0 /\ g[i] = NULL
        BY <1>1, <1>4, <2>2, <3>2, <3>4
      <4>2. nx[g[i - 1]] = NULL
        BY <3>2, <4>1 DEF Listed
      <4>3. QED
        BY <1>1, <2>2, <3>2, <4>1, <4>2
    <3>5. QED
      BY <3>3, <3>4
  <2>3. CASE i # 0 /\ ~(i - 1 < len)
    <3>1. i - 1 \in 0 .. Nodes /\ ~(i < len)
      BY <1>1, <2>3
    <3>2. QED
      BY <1>4, <2>3, <3>1
  <2>4. QED
    BY <2>1, <2>2, <2>3
<1>6. Walk(nx, p) = g
  <2> HIDE DEF g
  <2>1. IsWalk(Walk(nx, p), nx, p)
    BY <1>5, WalkChosen
  <2>2. QED
    BY <1>5, <2>1, WalkUnique
<1>7. DOMAIN g = 0 .. Nodes
  OBVIOUS
<1>8. QED
  <2> HIDE DEF g
  <2>1. QED
    BY <1>3, <1>4, <1>6, <1>7

\* The nodes a walk meets.
NodesOf(f) == {f[i] : i \in DOMAIN f} \ {NULL}

LEMMA WalkNodes ==
  ASSUME NEW p, NEW S, NEW pos \in Position, NEW nx, Listed(p, S, pos, nx)
  PROVE  NodesOf(Walk(nx, p)) = S /\ Walk(nx, p)[Nodes] = NULL
<1> DEFINE f == Walk(nx, p)
           len == Cardinality(S)
<1>1. S \in SUBSET Node /\ len \in Nat /\ Nodes \in Nat /\ len <= Nodes /\ NULL \notin S
      /\ pos \in [Node -> Nat]
  BY ListFinite, NodesFinite DEF Listed, Position
<1>2. /\ DOMAIN f = 0 .. Nodes
      /\ \A i \in 0 .. Nodes :
           IF i < len THEN f[i] \in S /\ pos[f[i]] = len - 1 - i ELSE f[i] = NULL
  BY WalkMeets
<1> HIDE DEF f
<1>3. f[Nodes] = NULL
  BY <1>1, <1>2
<1>4. NodesOf(f) \subseteq S
  BY <1>2 DEF NodesOf
<1>5. ASSUME NEW n \in S
      PROVE  n \in NodesOf(f)
  <2>1. pos[n] \in Nat /\ pos[n] <= len - 1 /\ n # NULL
    BY <1>1 DEF Listed
  <2>2. len - 1 - pos[n] \in 0 .. Nodes /\ len - 1 - pos[n] < len
    BY <1>1, <2>1
  <2>3. f[len - 1 - pos[n]] \in S /\ pos[f[len - 1 - pos[n]]] = pos[n]
    BY <1>1, <1>2, <2>1, <2>2
  <2>4. f[len - 1 - pos[n]] = n
    BY <2>3 DEF Listed
  <2>5. QED
    BY <1>2, <2>1, <2>2, <2>4 DEF NodesOf
<1>6. QED
  BY <1>3, <1>4, <1>5 DEF f

\* What a search for k along the walk f finds, when ky are the keys.
Hits(f, ky, k) == {i \in DOMAIN f : f[i] # NULL /\ ky[f[i]] = k}
FoundIn(f, ky, k) ==
  {[prev |-> IF i = 0 THEN NULL ELSE f[i - 1], node |-> f[i]] :
     i \in {i \in Hits(f, ky, k) : \A j \in Hits(f, ky, k) : i <= j}}

\* A search in a list without the key finds nothing.
LEMMA FoundNone ==
  ASSUME NEW p, NEW S, NEW pos \in Position, NEW nx, Listed(p, S, pos, nx),
         NEW ky, NEW k, \A n \in S : ky[n] # k
  PROVE  FoundIn(Walk(nx, p), ky, k) = {}
<1>1. Hits(Walk(nx, p), ky, k) = {}
  BY WalkNodes DEF Hits, NodesOf
<1>2. QED
  BY <1>1 DEF FoundIn

\* In a list with one such node it finds that and the node before it.
LEMMA FoundOne ==
  ASSUME NEW p, NEW S, NEW pos \in Position, NEW nx, Listed(p, S, pos, nx),
         NEW ky, NEW k, NEW n \in S, ky[n] = k, \A m \in S : ky[m] = k => m = n
  PROVE  \E prev :
           /\ FoundIn(Walk(nx, p), ky, k) = {[prev |-> prev, node |-> n]}
           /\ IF n = p THEN prev = NULL ELSE prev \in S /\ nx[prev] = n /\ pos[prev] = pos[n] + 1
<1> DEFINE f == Walk(nx, p)
           len == Cardinality(S)
           at == len - 1 - pos[n]
           prev == IF at = 0 THEN NULL ELSE f[at - 1]
<1>1. /\ S \in SUBSET Node /\ len \in Nat /\ Nodes \in Nat /\ len <= Nodes /\ NULL \notin S
      /\ pos \in [Node -> Nat] /\ n # NULL
  BY ListFinite, NodesFinite DEF Listed, Position
<1>2. /\ DOMAIN f = 0 .. Nodes
      /\ \A i \in 0 .. Nodes :
           IF i < len THEN f[i] \in S /\ pos[f[i]] = len - 1 - i ELSE f[i] = NULL
  BY WalkMeets
<1>3. p \in S /\ pos[n] \in Nat /\ pos[n] <= len - 1 /\ pos[p] = len - 1
  BY <1>1 DEF Listed
<1> HIDE DEF f, len
<1>4. at \in 0 .. Nodes /\ at < len /\ f[at] = n
  <2>1. at \in 0 .. Nodes /\ at < len
    BY <1>1, <1>3
  <2>2. f[at] \in S /\ pos[f[at]] = pos[n]
    BY <1>1, <1>2, <1>3, <2>1
  <2>3. QED
    BY <2>1, <2>2 DEF Listed
<1>5. Hits(f, ky, k) = {at}
  <2>1. at \in Hits(f, ky, k)
    BY <1>1, <1>2, <1>4 DEF Hits
  <2>2. ASSUME NEW i \in Hits(f, ky, k)
        PROVE  i = at
    <3>1. i \in 0 .. Nodes /\ f[i] # NULL /\ ky[f[i]] = k
      BY <1>2 DEF Hits
    <3>2. i < len /\ f[i] \in S /\ pos[f[i]] = len - 1 - i
      BY <1>2, <3>1
    <3>3. f[i] = n
      BY <3>1, <3>2
    <3>4. QED
      BY <1>1, <1>3, <3>1, <3>2, <3>3
  <2>3. QED
    BY <2>1, <2>2
<1>6. FoundIn(f, ky, k) = {[prev |-> prev, node |-> n]}
  <2> HIDE DEF at
  <2>1. {i \in Hits(f, ky, k) : \A j \in Hits(f, ky, k) : i <= j} = {at}
    BY <1>4, <1>5
  <2>2. QED
    BY <1>4, <2>1 DEF FoundIn
<1>7. CASE n = p
  <2>1. at = 0
    BY <1>1, <1>3, <1>7
  <2>2. QED
    BY <1>6, <1>7, <2>1 DEF f
<1>8. CASE n # p
  <2>1. at # 0
    BY <1>1, <1>3, <1>8 DEF Listed
  <2>2. at - 1 \in 0 .. Nodes /\ at - 1 < len /\ len - 1 - (at - 1) = pos[n] + 1
    BY <1>1, <1>3, <1>4, <2>1
  <2>3. f[at - 1] \in S /\ pos[f[at - 1]] = pos[n] + 1
    BY <1>2, <2>2
  <2>4. nx[f[at - 1]] \in S /\ pos[nx[f[at - 1]]] = pos[n]
    BY <1>3, <2>3 DEF Listed
  <2>5. nx[f[at - 1]] = n
    BY <2>4 DEF Listed
  <2>6. QED
    BY <1>6, <1>8, <2>1, <2>3, <2>5 DEF f
<1>9. QED
  BY <1>7, <1>8

\* A list does not change when nodes outside of it do.
LEMMA ListSame ==
  ASSUME NEW p, NEW S, NEW pos, NEW nx, Listed(p, S, pos, nx),
         NEW pos2, NEW nx2, \A n \in S : pos2[n] = pos[n] /\ nx2[n] = nx[n]
  PROVE  Listed(p, S, pos2, nx2)
  BY DEF Listed

\* Node t goes to the head of a list.
LEMMA ListPush ==
  ASSUME NEW p, NEW S, NEW pos \in Position, NEW nx, Listed(p, S, pos, nx),
         NEW pos2 \in Position, NEW nx2, \A n \in S : pos2[n] = pos[n] /\ nx2[n] = nx[n],
         NEW t \in Node \ S, nx2[t] = p, pos2[t] = IF p = NULL THEN 0 ELSE pos[p] + 1
  PROVE  Listed(t, S \cup {t}, pos2, nx2)
<1>1. S \in SUBSET Node /\ IsFiniteSet(S) /\ pos \in [Node -> Nat] /\ t # NULL /\ Cardinality(S) \in Nat
  BY ListFinite, NodesFinite DEF Listed, Position
<1>2. Cardinality(S \cup {t}) = pos2[t] + 1
  <2>1. Cardinality(S \cup {t}) = Cardinality(S) + 1
    BY <1>1, CardinalityGrows
  <2>2. QED
    BY <2>1 DEF Listed
<1>3. \A n \in S : pos2[n] < pos2[t]
  BY <1>1 DEF Listed
<1>4. \A n \in S : pos2[n] <= pos2[t]
  BY <1>1, <1>3 DEF Position
<1>5. pos2[t] <= pos2[t]
  BY DEF Position
<1>6. \A m, n \in S \cup {t} : pos2[m] = pos2[n] => m = n
  BY <1>1, <1>3 DEF Listed, Position
<1>7. ASSUME NEW n \in S \cup {t}
      PROVE  IF pos2[n] = 0 THEN nx2[n] = NULL
             ELSE nx2[n] \in S \cup {t} /\ pos2[nx2[n]] = pos2[n] - 1
  <2>1. CASE n \in S
    BY <2>1 DEF Listed
  <2>2. CASE n = t /\ p = NULL
    BY <2>2
  <2>3. CASE n = t /\ p # NULL
    <3>1. p \in S /\ pos[p] \in Nat /\ pos2[t] = pos[p] + 1 /\ pos2[p] = pos[p]
      BY <1>1, <2>3 DEF Listed
    <3>2. QED
      BY <2>3, <3>1
  <2>4. QED
    BY <2>1, <2>2, <2>3
<1>8. QED
  BY <1>1, <1>2, <1>4, <1>5, <1>6, <1>7 DEF Listed

\* The head of a list is taken.
LEMMA ListPop ==
  ASSUME NEW p, NEW S, NEW pos \in Position, NEW nx, Listed(p, S, pos, nx), p # NULL,
         NEW pos2, NEW nx2, \A n \in S \ {p} : pos2[n] = pos[n] /\ nx2[n] = nx[n]
  PROVE  Listed(nx[p], S \ {p}, pos2, nx2)
<1>1. S \in SUBSET Node /\ IsFiniteSet(S) /\ pos \in [Node -> Nat] /\ p \in S /\ NULL \notin S
      /\ Cardinality(S) = pos[p] + 1 /\ pos[p] \in Nat
  BY ListFinite, NodesFinite DEF Listed, Position
<1>2. Cardinality(S \ {p}) = pos[p] /\ IsFiniteSet(S \ {p})
  <2>1. Cardinality(S \ {p}) = Cardinality(S) - 1 /\ IsFiniteSet(S \ {p})
    BY <1>1, CardinalityShrinks
  <2>2. QED
    BY <1>1, <2>1
<1>3. \A n \in S \ {p} : pos[n] <= pos[p] - 1
  BY <1>1 DEF Listed
<1>4. \A n \in S \ {p} : nx[n] # p
  BY <1>1, <1>3 DEF Listed
<1>5. \A n \in S \ {p} : IF pos2[n] = 0 THEN nx2[n] = NULL
                         ELSE nx2[n] \in S \ {p} /\ pos2[nx2[n]] = pos2[n] - 1
  BY <1>1, <1>4 DEF Listed
<1>6. CASE pos[p] = 0
  <2>1. nx[p] = NULL /\ S \ {p} = {}
    BY <1>1, <1>2, <1>6, FS_EmptySet DEF Listed
  <2>2. QED
    BY <1>2, <1>6, <2>1 DEF Listed
<1>7. CASE pos[p] # 0
  <2>1. nx[p] \in S \ {p} /\ pos[nx[p]] = pos[p] - 1
    BY <1>1, <1>7 DEF Listed
  <2>2. nx[p] # NULL /\ Cardinality(S \ {p}) = pos2[nx[p]] + 1
    BY <1>1, <1>2, <2>1
  <2>3. \A n \in S \ {p} : pos2[n] <= pos2[nx[p]]
    BY <1>3, <2>1
  <2>4. \A m, n \in S \ {p} : pos2[m] = pos2[n] => m = n
    BY DEF Listed
  <2>5. QED
    BY <1>1, <1>5, <2>1, <2>2, <2>3, <2>4 DEF Listed
<1>8. QED
  BY <1>6, <1>7

\* A node further on is cut out of a list.
LEMMA ListCut ==
  ASSUME NEW p, NEW S, NEW pos \in Position, NEW nx, Listed(p, S, pos, nx),
         NEW t \in S, t # p, NEW m \in S, nx[m] = t, pos[m] = pos[t] + 1,
         NEW pos2, NEW nx2, nx2[m] = nx[t], \A n \in S \ {t, m} : nx2[n] = nx[n],
         \A n \in S \ {t} : pos2[n] = IF pos[n] > pos[t] THEN pos[n] - 1 ELSE pos[n]
  PROVE  Listed(p, S \ {t}, pos2, nx2)
<1>1. /\ S \in SUBSET Node /\ IsFiniteSet(S) /\ pos \in [Node -> Nat] /\ p \in S /\ NULL \notin S
      /\ Cardinality(S) = pos[p] + 1 /\ \A n \in S : pos[n] \in Nat
  BY ListFinite, NodesFinite DEF Listed, Position
<1>2. Cardinality(S \ {t}) = pos[p]
  <2>1. Cardinality(S \ {t}) = Cardinality(S) - 1
    BY <1>1, CardinalityShrinks
  <2>2. QED
    BY <1>1, <2>1
<1>3. pos[p] > pos[t]
  BY <1>1 DEF Listed
<1>4. p # NULL /\ p \in S \ {t} /\ pos2[p] = pos[p] - 1 /\ Cardinality(S \ {t}) = pos2[p] + 1
  BY <1>1, <1>2, <1>3
<1>5. ASSUME NEW n \in S \ {t}
      PROVE  pos2[n] <= pos2[p]
  <2>1. pos[n] <= pos[p] /\ pos[n] \in Nat /\ pos[p] \in Nat /\ pos[t] \in Nat
    BY <1>1 DEF Listed
  <2>2. QED
    BY <1>3, <1>4, <2>1
<1>6. \A x, n \in S \ {t} : pos2[x] = pos2[n] => x = n
  <2> SUFFICES ASSUME NEW x \in S \ {t}, NEW n \in S \ {t}, pos2[x] = pos2[n]
               PROVE  x = n
    OBVIOUS
  <2>1. pos[x] \in Nat /\ pos[n] \in Nat /\ pos[t] \in Nat /\ pos[x] # pos[t] /\ pos[n] # pos[t]
    BY <1>1 DEF Listed
  <2>2. pos[x] = pos[n]
    BY <2>1
  <2>3. QED
    BY <2>2 DEF Listed
<1>7. ASSUME NEW n \in S \ {t}
      PROVE  IF pos2[n] = 0 THEN nx2[n] = NULL
             ELSE nx2[n] \in S \ {t} /\ pos2[nx2[n]] = pos2[n] - 1
  <2>0. pos[n] \in Nat /\ pos[t] \in Nat /\ pos[n] # pos[t] /\ pos[m] = pos[t] + 1 /\ m # t
    BY <1>1 DEF Listed
  <2>1. CASE n = m
    <3>1. pos2[n] = pos[t] /\ nx2[n] = nx[t]
      BY <2>0, <2>1
    <3>2. CASE pos[t] = 0
      BY <3>1, <3>2 DEF Listed
    <3>3. CASE pos[t] # 0
      <4>1. nx[t] \in S /\ pos[nx[t]] = pos[t] - 1
        BY <3>3 DEF Listed
      <4>2. nx[t] # t /\ pos2[nx[t]] = pos[t] - 1
        BY <2>0, <4>1
      <4>3. QED
        BY <3>1, <3>3, <4>1, <4>2
    <3>4. QED
      BY <3>2, <3>3
  <2>2. CASE n # m /\ pos[n] > pos[t]
    <3>1. pos[n] # pos[m] /\ pos[n] > pos[t] + 1
      BY <2>0, <2>2 DEF Listed
    <3>2. pos2[n] = pos[n] - 1 /\ pos2[n] # 0 /\ nx2[n] = nx[n]
      BY <2>0, <2>2, <3>1
    <3>3. nx[n] \in S /\ pos[nx[n]] = pos[n] - 1
      BY <2>0, <3>1 DEF Listed
    <3>4. nx[n] # t /\ pos2[nx[n]] = pos[n] - 2
      BY <2>0, <3>1, <3>3
    <3>5. QED
      BY <2>0, <3>2, <3>3, <3>4
  <2>3. CASE n # m /\ ~(pos[n] > pos[t])
    <3>1. pos2[n] = pos[n] /\ nx2[n] = nx[n] /\ pos[n] < pos[t]
      BY <2>0, <2>3
    <3>2. CASE pos[n] = 0
      BY <3>1, <3>2 DEF Listed
    <3>3. CASE pos[n] # 0
      <4>1. nx[n] \in S /\ pos[nx[n]] = pos[n] - 1
        BY <3>3 DEF Listed
      <4>2. nx[n] # t /\ pos2[nx[n]] = pos[n] - 1
        BY <2>0, <3>1, <4>1
      <4>3. QED
        BY <3>1, <3>3, <4>1, <4>2
    <3>4. QED
      BY <3>2, <3>3
  <2>4. QED
    BY <2>1, <2>2, <2>3
<1>8. QED
  BY <1>1, <1>4, <1>5, <1>6, <1>7 DEF Listed

-----------------------------------------------------------------------------
(* Places in the blocks.                                                     *)

LEMMA Multiples ==
  ASSUME NEW a \in Int, NEW b \in Int, NEW c \in Nat, a <= b
  PROVE  a * c <= b * c
  OBVIOUS

LEMMA NextBlock ==
  ASSUME NEW b \in Int
  PROVE  (b - 1) * BlkSize = b * BlkSize - BlkSize /\ (b + 1) * BlkSize = b * BlkSize + BlkSize
         /\ b * BlkSize \in Int /\ BlkSize \in Nat /\ BlkSize > 0
  BY HashTableAssumption

\* A number of nodes that ends in the midst of block b says the place in it.
LEMMA PlaceInBlock ==
  ASSUME NEW n \in Nat, NEW b \in Nat, (b - 1) * BlkSize < n, n < b * BlkSize
  PROVE  (b - 1) * BlkSize + (n % BlkSize) = n
<1> DEFINE q == n \div BlkSize
           r == n % BlkSize
<1>1. BlkSize \in Nat /\ BlkSize > 0
  BY HashTableAssumption
<1>2. q \in Int /\ r \in Int /\ 0 <= r /\ r < BlkSize
  BY <1>1
<1>3. r = n - q * BlkSize
  BY <1>1
<1> HIDE DEF q, r
<1>4. ~(q >= b)
  <2> SUFFICES ASSUME q >= b PROVE FALSE
    OBVIOUS
  <2>1. b * BlkSize <= q * BlkSize /\ q * BlkSize \in Int /\ b * BlkSize \in Int
    BY <1>1, <1>2, Multiples
  <2>2. QED
    BY <1>1, <1>2, <1>3, <2>1
<1>5. ~(q <= b - 2)
  <2> SUFFICES ASSUME q <= b - 2 PROVE FALSE
    OBVIOUS
  <2>1. q + 1 \in Int /\ b - 1 \in Int /\ q + 1 <= b - 1
    BY <1>2
  <2>2. (q + 1) * BlkSize <= (b - 1) * BlkSize
    BY <1>1, <2>1, Multiples
  <2>3. (q + 1) * BlkSize = q * BlkSize + BlkSize
    BY <1>2, NextBlock
  <2>4. q * BlkSize \in Int /\ (b - 1) * BlkSize \in Int
    BY <1>1, <1>2
  <2>5. QED
    BY <1>1, <1>2, <1>3, <2>2, <2>3, <2>4
<1>6. q = b - 1
  BY <1>2, <1>4, <1>5
<1>7. QED
  BY <1>1, <1>2, <1>3, <1>6 DEF r

-----------------------------------------------------------------------------
(* The invariant.                                                            *)

Typed ==
  /\ slots \in [Slot -> Node \cup {NULL}]
  /\ next \in [Node -> Node \cup {NULL}]
  /\ key \in [Node -> Sig \cup {None}] /\ info \in [Node -> Info \cup {None}]
  /\ wasteNodeStart \in Node \cup {NULL}
  /\ nodeNum \in Nat /\ blkNum \in Nat

\* Where a node is.
Place == {"chain", "waste", "unused"}
Placed(in, place) == {n \in Node : in[n] = place}
InSlot(in, ky, s) == {n \in Node : in[n] = "chain" /\ SlotOf[ky[n]] = s}

\* The chain of a slot has the nodes with signatures of that slot, each signature once.
Chains(in, pos) ==
  /\ \A s \in Slot : Listed(slots[s], InSlot(in, key, s), pos, next)
  /\ \A n \in Node : in[n] = "chain" => key[n] \in Sig /\ info[n] \in Info
  /\ \A m, n \in Node : in[m] = "chain" /\ in[n] = "chain" /\ key[m] = key[n] => m = n

\* The nodes that were ever used are the first ones; blkNum is their number of blocks.
Blocks(in, used) ==
  /\ \A n \in Node : in[n] = "unused" <=> n >= used
  /\ IF used = 0 THEN blkNum = 0
     ELSE blkNum >= 1 /\ (blkNum - 1) * BlkSize < used /\ used <= blkNum * BlkSize

Sound(in, pos, used) ==
  /\ Chains(in, pos)
  /\ Listed(wasteNodeStart, Placed(in, "waste"), pos, next)
  /\ nodeNum = Cardinality(Placed(in, "chain"))
  /\ Blocks(in, used)

HInv ==
  /\ Typed
  /\ \E in \in [Node -> Place], pos \in Position, used \in 0 .. MaxNode : Sound(in, pos, used)

LEMMA InitSound == Init => HInv
<1> SUFFICES ASSUME Init PROVE HInv
  OBVIOUS
<1> DEFINE in == [n \in Node |-> "unused"]
           pos == [n \in Node |-> 0]
<1>1. Typed
  BY DEF Init, Typed
<1>2. in \in [Node -> Place] /\ pos \in Position /\ 0 \in 0 .. MaxNode
  BY HashTableAssumption DEF Place, Position
<1>3. Placed(in, "waste") = {} /\ Placed(in, "chain") = {} /\ \A s \in Slot : InSlot(in, key, s) = {}
  BY DEF Placed, InSlot
<1>4. Cardinality({}) = 0
  BY FS_EmptySet
<1>5. Listed(NULL, {}, pos, next)
  BY <1>4 DEF Listed
<1>6. Blocks(in, 0)
  BY DEF Blocks, Init, Node
<1>7. Chains(in, pos)
  <2>1. \A s \in Slot : slots[s] = NULL
    BY DEF Init
  <2>2. \A n \in Node : in[n] # "chain"
    OBVIOUS
  <2> HIDE DEF in, pos
  <2>3. QED
    BY <1>3, <1>5, <2>1, <2>2 DEF Chains
<1>8. Sound(in, pos, 0)
  BY <1>3, <1>4, <1>5, <1>6, <1>7, Zenon DEF Sound, Init
<1>9. QED
  BY <1>1, <1>2, <1>8, Zenon DEF HInv

-----------------------------------------------------------------------------
(* Searches.                                                                 *)

LEMMA FoundIsFoundIn == \A k : Found(k) = FoundIn(Walk(next, slots[SlotOf[k]]), key, k)
  BY Zenon DEF Found, FoundIn, Hits, At, Walk

\* A search finds a signature if and only if a node in the chains has it.
LEMMA Search ==
  ASSUME NEW k \in Sig, NEW in, NEW pos \in Position, Chains(in, pos)
  PROVE  \/ /\ Found(k) = {}
            /\ \A n \in Node : in[n] = "chain" => key[n] # k
         \/ \E n \in Node : \E prev :
              /\ Found(k) = {[prev |-> prev, node |-> n]}
              /\ in[n] = "chain" /\ key[n] = k
              /\ IF n = slots[SlotOf[k]] THEN prev = NULL
                 ELSE /\ prev \in InSlot(in, key, SlotOf[k])
                      /\ next[prev] = n /\ pos[prev] = pos[n] + 1
<1> DEFINE s == SlotOf[k]
           S == InSlot(in, key, s)
<1>1. s \in Slot
  BY DEF Slot
<1>2. Listed(slots[s], S, pos, next)
  BY <1>1 DEF Chains
<1>3. CASE \A n \in S : key[n] # k
  <2>1. Found(k) = {}
    BY <1>2, <1>3, FoundNone, FoundIsFoundIn
  <2>2. \A n \in Node : in[n] = "chain" => key[n] # k
    BY <1>3 DEF InSlot
  <2>3. QED
    BY <2>1, <2>2
<1>4. CASE \E n \in S : key[n] = k
  <2>1. PICK n \in S : key[n] = k
    BY <1>4
  <2>2. n \in Node /\ in[n] = "chain"
    BY DEF InSlot
  <2>3. \A m \in S : key[m] = k => m = n
    BY <2>1, <2>2 DEF InSlot, Chains
  <2> HIDE DEF S
  <2>4. PICK prev :
          /\ FoundIn(Walk(next, slots[s]), key, k) = {[prev |-> prev, node |-> n]}
          /\ IF n = slots[s] THEN prev = NULL
             ELSE prev \in S /\ next[prev] = n /\ pos[prev] = pos[n] + 1
    BY <1>2, <2>1, <2>3, FoundOne
  <2>5. QED
    BY <2>1, <2>2, <2>4, FoundIsFoundIn, Zenon DEF S
<1>5. QED
  BY <1>3, <1>4

-----------------------------------------------------------------------------
(* Insertion.                                                                *)

LEMMA PlacedFinite ==
  ASSUME NEW in, NEW place
  PROVE  IsFiniteSet(Placed(in, place)) /\ Placed(in, place) \in SUBSET Node
  BY NodesFinite, FS_Subset DEF Placed

\* Where the head of a list that is pushed gets to.
Above(p, pos) == IF p = NULL THEN 0 ELSE pos[p] + 1

\* An insertion that finds room.
Adds(k, v, t) ==
  /\ key' = [key EXCEPT ![t] = k] /\ info' = [info EXCEPT ![t] = v]
  /\ next' = [next EXCEPT ![t] = slots[SlotOf[k]]]
  /\ slots' = [slots EXCEPT ![SlotOf[k]] = t]
  /\ nodeNum' = nodeNum + 1

\* ... and what it changes, node by node.
AddsAt(k, v, t, in, in2, pos, pos2) ==
  /\ \A n \in Node : n # t => /\ in2[n] = in[n] /\ pos2[n] = pos[n] /\ next'[n] = next[n]
                              /\ key'[n] = key[n] /\ info'[n] = info[n]
  /\ in2[t] = "chain" /\ pos2[t] = Above(slots[SlotOf[k]], pos)
  /\ next'[t] = slots[SlotOf[k]] /\ key'[t] = k /\ info'[t] = v
  /\ slots'[SlotOf[k]] = t /\ \A u \in Slot : u # SlotOf[k] => slots'[u] = slots[u]

LEMMA AddsFacts ==
  ASSUME Typed, NEW in \in [Node -> Place], NEW pos \in Position,
         NEW k \in Sig, NEW v \in Info, NEW t \in Node, Adds(k, v, t)
  PROVE  \E in2 \in [Node -> Place], pos2 \in Position : AddsAt(k, v, t, in, in2, pos, pos2)
<1> DEFINE s == SlotOf[k]
<1>0. PICK in2, pos2 : /\ in2 = [in EXCEPT ![t] = "chain"]
                       /\ pos2 = [pos EXCEPT ![t] = Above(slots[s], pos)]
  OBVIOUS
<1>1. s \in Slot
  BY DEF Slot
<1>2. in2 \in [Node -> Place]
  BY <1>0 DEF Place
<1>3. slots[s] = NULL \/ slots[s] \in Node
  BY <1>1 DEF Typed
<1>4. Above(slots[s], pos) \in Nat
  BY <1>3 DEF Position, Above
<1>5. pos2 \in Position
  <2> HIDE DEF s
  <2>1. QED
    BY <1>0, <1>4 DEF Position, s
<1>6. \A n \in Node : n # t => /\ in2[n] = in[n] /\ pos2[n] = pos[n] /\ next'[n] = next[n]
                               /\ key'[n] = key[n] /\ info'[n] = info[n]
  BY <1>0 DEF Typed, Position, Adds
<1>7. in2[t] = "chain" /\ pos2[t] = Above(slots[s], pos) /\ next'[t] = slots[s]
      /\ key'[t] = k /\ info'[t] = v
  BY <1>0 DEF Typed, Position, Adds
<1>8. slots'[s] = t /\ \A u \in Slot : u # s => slots'[u] = slots[u]
  BY <1>1 DEF Typed, Adds
<1>9. QED
  BY <1>2, <1>5, <1>6, <1>7, <1>8 DEF AddsAt

\* A node that was in no chain becomes the head of the chain of its new signature.
LEMMA ChainGrows ==
  ASSUME Typed, NEW in \in [Node -> Place], NEW pos \in Position, Chains(in, pos),
         NEW k \in Sig, NEW v \in Info, NEW t \in Node, in[t] # "chain",
         \A n \in Node : in[n] = "chain" => key[n] # k,
         NEW in2 \in [Node -> Place], NEW pos2 \in Position, AddsAt(k, v, t, in, in2, pos, pos2)
  PROVE  Chains(in2, pos2)'
<1> DEFINE s == SlotOf[k]
<1>1. s \in Slot
  BY DEF Slot
<1>2. \A u \in Slot : Listed(slots[u], InSlot(in, key, u), pos, next)
  BY DEF Chains
<1>6. \A n \in Node : n # t => /\ in2[n] = in[n] /\ pos2[n] = pos[n] /\ next'[n] = next[n]
                               /\ key'[n] = key[n] /\ info'[n] = info[n]
  BY DEF AddsAt
<1>7. in2[t] = "chain" /\ pos2[t] = Above(slots[s], pos) /\ next'[t] = slots[s]
      /\ key'[t] = k /\ info'[t] = v
  BY DEF AddsAt
<1>8. ASSUME NEW u \in Slot
      PROVE  Listed(slots'[u], InSlot(in2, key', u), pos2, next')
  <2>0. PICK S, p : S = InSlot(in, key, u) /\ p = slots[u]
    OBVIOUS
  <2>1. Listed(p, S, pos, next) /\ t \in Node \ S
    BY <1>2, <2>0 DEF InSlot
  <2>2. \A n \in S : pos2[n] = pos[n] /\ next'[n] = next[n]
    BY <1>6, <2>0, <2>1 DEF InSlot
  <2>3. CASE u = s
    <3>1. InSlot(in2, key', u) = S \cup {t}
      BY <1>6, <1>7, <2>0, <2>3 DEF InSlot
    <3>2. slots'[u] = t
      BY <1>1, <2>3 DEF AddsAt
    <3>3. next'[t] = p /\ pos2[t] = IF p = NULL THEN 0 ELSE pos[p] + 1
      BY <1>7, <2>0, <2>3 DEF Above
    <3>4. Listed(t, S \cup {t}, pos2, next')
      BY <2>1, <2>2, <3>3, ListPush
    <3>5. QED
      BY <3>1, <3>2, <3>4
  <2>4. CASE u # s
    <3>1. InSlot(in2, key', u) = S
      BY <1>6, <1>7, <2>0, <2>4 DEF InSlot
    <3>2. slots'[u] = p
      BY <2>0, <2>4 DEF AddsAt
    <3>3. Listed(p, S, pos2, next')
      BY <2>1, <2>2, ListSame
    <3>4. QED
      BY <3>1, <3>2, <3>3
  <2>5. QED
    BY <2>3, <2>4
<1>9. \A n \in Node : in2[n] = "chain" => key'[n] \in Sig /\ info'[n] \in Info
  BY <1>6, <1>7 DEF Chains
<1>10. \A m, n \in Node : in2[m] = "chain" /\ in2[n] = "chain" /\ key'[m] = key'[n] => m = n
  BY <1>6, <1>7 DEF Chains
<1>11. QED
  BY <1>8, <1>9, <1>10 DEF Chains

LEMMA ChainCount ==
  ASSUME NEW in \in [Node -> Place], NEW t \in Node, in[t] # "chain",
         nodeNum = Cardinality(Placed(in, "chain")), nodeNum' = nodeNum + 1,
         NEW in2, in2[t] = "chain", \A n \in Node : n # t => in2[n] = in[n]
  PROVE  nodeNum' = Cardinality(Placed(in2, "chain"))
<1>1. Placed(in2, "chain") = Placed(in, "chain") \cup {t} /\ t \notin Placed(in, "chain")
  BY DEF Placed
<1>2. QED
  BY <1>1, PlacedFinite, CardinalityGrows

\* The nodes in the chains are one more, or one less.
Gains(in, in2, t) == \A n \in Node : in2[n] = "chain" <=> in[n] = "chain" \/ n = t
Loses(in, in2, t) == \A n \in Node : in2[n] = "chain" <=> in[n] = "chain" /\ n # t

\* ... in the free list: its head is taken.
LEMMA ReuseSound ==
  ASSUME Typed, NEW in \in [Node -> Place], NEW pos \in Position, NEW used \in 0 .. MaxNode,
         Sound(in, pos, used), NEW k \in Sig, NEW v \in Info,
         \A n \in Node : in[n] = "chain" => key[n] # k,
         wasteNodeStart # NULL, wasteNodeStart' = next[wasteNodeStart], blkNum' = blkNum,
         Adds(k, v, wasteNodeStart)
  PROVE  \E in2 \in [Node -> Place], pos2 \in Position :
           Sound(in2, pos2, used)' /\ Gains(in, in2, wasteNodeStart)
<1> DEFINE t == wasteNodeStart
           W == Placed(in, "waste")
<1>1. Listed(t, W, pos, next) /\ t \in W
  BY DEF Sound, Listed
<1>2. t \in Node /\ in[t] = "waste" /\ in[t] # "chain" /\ in[t] # "unused"
  BY <1>1 DEF Placed
<1>a. PICK in2 \in [Node -> Place], pos2 \in Position : AddsAt(k, v, t, in, in2, pos, pos2)
  BY <1>2, AddsFacts
<1>3. Chains(in2, pos2)'
  BY <1>2, <1>a, ChainGrows DEF Sound
<1>4. \A n \in Node : n # t => in2[n] = in[n] /\ pos2[n] = pos[n] /\ next'[n] = next[n]
  BY <1>a DEF AddsAt
<1>5. in2[t] = "chain"
  BY <1>a DEF AddsAt
<1>6. Listed(wasteNodeStart, Placed(in2, "waste"), pos2, next)'
  <2>1. Placed(in2, "waste") = W \ {t}
    BY <1>4, <1>5 DEF Placed
  <2>2. \A n \in W \ {t} : pos2[n] = pos[n] /\ next'[n] = next[n]
    BY <1>4 DEF Placed
  <2>3. Listed(next[t], W \ {t}, pos2, next')
    BY <1>1, <2>2, ListPop
  <2>4. QED
    BY <2>1, <2>3
<1>7. nodeNum' = Cardinality(Placed(in2, "chain"))
  BY <1>2, <1>4, <1>5, ChainCount DEF Sound, Adds
<1>8. Blocks(in2, used)'
  <2>1. \A n \in Node : in2[n] = "unused" <=> in[n] = "unused"
    BY <1>2, <1>4, <1>5
  <2>2. QED
    BY <2>1 DEF Blocks, Sound
<1>9. Sound(in2, pos2, used)'
  BY <1>3, <1>6, <1>7, <1>8 DEF Sound
<1>10. Gains(in, in2, t)
  BY <1>4, <1>5 DEF Gains
<1>11. QED
  BY <1>a, <1>9, <1>10

\* With an empty free list the chains have just the nodes that were ever used.
LEMMA AllInChains ==
  ASSUME NEW in \in [Node -> Place], NEW pos \in Position, NEW used \in 0 .. MaxNode,
         Sound(in, pos, used), wasteNodeStart = NULL
  PROVE  Placed(in, "chain") = 0 .. (used - 1) /\ nodeNum = used
<1>1. MaxNode \in Nat /\ used \in Nat /\ used <= MaxNode
  BY HashTableAssumption
<1>2. Placed(in, "waste") = {}
  BY DEF Sound, Listed
<1>3. \A n \in Node : in[n] = "chain" <=> n < used
  BY <1>1, <1>2 DEF Placed, Place, Sound, Blocks, Node
<1>4. Placed(in, "chain") = 0 .. (used - 1)
  BY <1>1, <1>3 DEF Placed, Node
<1>5. Cardinality(0 .. (used - 1)) = used
  BY <1>1, FS_Interval
<1>6. QED
  BY <1>4, <1>5 DEF Sound

\* The place of a fresh node is the first that was never used.
LEMMA FreshIsNext ==
  ASSUME Typed, NEW in \in [Node -> Place], NEW pos \in Position, NEW used \in 0 .. MaxNode,
         Sound(in, pos, used), wasteNodeStart = NULL
  PROVE  /\ FreshNode = used
         /\ nodeNum >= blkNum * BlkSize <=> used = blkNum * BlkSize
         /\ used = 0 => blkNum = 0
         /\ used # 0 => blkNum >= 1 /\ nodeNum > (blkNum - 1) * BlkSize
<1>1. nodeNum = used /\ used \in Nat /\ blkNum \in Nat
  BY AllInChains, HashTableAssumption DEF Typed
<1>2. blkNum * BlkSize \in Int /\ (blkNum - 1) * BlkSize \in Int /\ BlkSize \in Nat
      /\ 0 * BlkSize = 0
  BY <1>1, HashTableAssumption
<1>3. CASE used = 0
  <2>1. blkNum = 0
    BY <1>3 DEF Sound, Blocks
  <2>2. QED
    BY <1>1, <1>2, <1>3, <2>1 DEF FreshNode
<1>4. CASE used # 0
  <2>1. blkNum >= 1 /\ (blkNum - 1) * BlkSize < used /\ used <= blkNum * BlkSize
    BY <1>4 DEF Sound, Blocks
  <2>2. CASE used = blkNum * BlkSize
    BY <1>1, <1>2, <1>4, <2>1, <2>2 DEF FreshNode
  <2>3. CASE used < blkNum * BlkSize
    <3>1. (blkNum - 1) * BlkSize + (used % BlkSize) = used
      BY <1>1, <2>1, <2>3, PlaceInBlock
    <3>2. ~(nodeNum >= blkNum * BlkSize)
      BY <1>1, <1>2, <2>3
    <3>3. FreshNode = used
      BY <1>1, <3>1, <3>2 DEF FreshNode
    <3>4. QED
      BY <1>1, <1>2, <1>4, <2>1, <2>3, <3>2, <3>3
  <2>4. QED
    BY <1>1, <1>2, <2>1, <2>2, <2>3
<1>5. QED
  BY <1>3, <1>4

\* ... where no node was before.
LEMMA FreshSound ==
  ASSUME Typed, NEW in \in [Node -> Place], NEW pos \in Position, NEW used \in 0 .. MaxNode,
         Sound(in, pos, used), NEW k \in Sig, NEW v \in Info,
         \A n \in Node : in[n] = "chain" => key[n] # k,
         wasteNodeStart = NULL, wasteNodeStart' = NULL, FreshNode \in Node,
         blkNum' = IF nodeNum >= blkNum * BlkSize THEN blkNum + 1 ELSE blkNum,
         Adds(k, v, FreshNode)
  PROVE  \E in2 \in [Node -> Place], pos2 \in Position, more \in 0 .. MaxNode :
           Sound(in2, pos2, more)' /\ Gains(in, in2, FreshNode)
<1>1. /\ FreshNode = used /\ (nodeNum >= blkNum * BlkSize <=> used = blkNum * BlkSize)
      /\ used = 0 => blkNum = 0
      /\ used # 0 => blkNum >= 1 /\ nodeNum > (blkNum - 1) * BlkSize
  BY FreshIsNext
<1>2. used \in Node /\ used \in Nat /\ used + 1 \in 0 .. MaxNode /\ blkNum \in Nat
  BY <1>1, HashTableAssumption DEF Node, Typed
<1>3. in[used] = "unused" /\ in[used] # "chain" /\ in[used] # "waste"
  BY <1>2 DEF Sound, Blocks
<1>a. PICK in2 \in [Node -> Place], pos2 \in Position : AddsAt(k, v, used, in, in2, pos, pos2)
  BY <1>1, <1>2, AddsFacts
<1>4. Chains(in2, pos2)'
  BY <1>2, <1>3, <1>a, ChainGrows DEF Sound
<1>5. \A n \in Node : n # used => in2[n] = in[n]
  BY <1>a DEF AddsAt
<1>6. in2[used] = "chain"
  BY <1>a DEF AddsAt
<1>7. Listed(wasteNodeStart, Placed(in2, "waste"), pos2, next)'
  <2>1. Placed(in, "waste") = {}
    BY DEF Sound, Listed
  <2>2. Placed(in2, "waste") = {}
    BY <1>5, <1>6, <2>1 DEF Placed
  <2>3. Cardinality({}) = 0
    BY FS_EmptySet
  <2>4. QED
    BY <2>2, <2>3 DEF Listed
<1>8. nodeNum' = Cardinality(Placed(in2, "chain"))
  BY <1>2, <1>3, <1>5, <1>6, ChainCount DEF Sound, Adds
<1>9. Blocks(in2, used + 1)'
  <2>1. \A n \in Node : in2[n] = "unused" <=> n >= used + 1
    <3>1. \A n \in Node : n # used => (n >= used <=> n >= used + 1)
      BY <1>2 DEF Node
    <3>2. ~(used >= used + 1)
      BY <1>2
    <3>3. QED
      BY <1>5, <1>6, <3>1, <3>2 DEF Sound, Blocks
  <2>2. blkNum' >= 1 /\ (blkNum' - 1) * BlkSize < used + 1 /\ used + 1 <= blkNum' * BlkSize
    <3>1. /\ blkNum * BlkSize \in Int /\ (blkNum + 1) * BlkSize = blkNum * BlkSize + BlkSize
          /\ (blkNum - 1) * BlkSize \in Int /\ BlkSize \in Nat /\ BlkSize > 0
      <4>1. blkNum \in Int /\ blkNum - 1 \in Int
        BY <1>2
      <4>2. (blkNum - 1) * BlkSize \in Int
        BY <4>1, HashTableAssumption
      <4>3. QED
        BY <4>1, <4>2, NextBlock
    <3>2. CASE used = blkNum * BlkSize
      <4>1. blkNum' = blkNum + 1 /\ blkNum' - 1 = blkNum
        BY <1>1, <1>2, <3>2
      <4>2. QED
        BY <1>2, <3>1, <3>2, <4>1
    <3>3. CASE used # blkNum * BlkSize
      <4>1. blkNum' = blkNum
        BY <1>1, <3>3
      <4>2. nodeNum = used
        BY AllInChains
      <4>3. used # 0
        BY <1>1, <3>1, <3>3, NextBlock
      <4>4. used <= blkNum * BlkSize
        BY <4>3 DEF Sound, Blocks
      <4>5. QED
        BY <1>1, <1>2, <3>1, <3>3, <4>1, <4>2, <4>3, <4>4
    <3>4. QED
      BY <3>2, <3>3
  <2>3. used + 1 # 0
    BY <1>2
  <2>4. QED
    BY <2>1, <2>2, <2>3 DEF Blocks
<1>10. Sound(in2, pos2, used + 1)'
  BY <1>4, <1>7, <1>8, <1>9 DEF Sound
<1>11. Gains(in, in2, FreshNode)
  BY <1>1, <1>5, <1>6 DEF Gains
<1>12. QED
  BY <1>2, <1>a, <1>10, <1>11

-----------------------------------------------------------------------------
(* Deletion.                                                                 *)

\* Node t, behind prev in its chain, goes to the head of the free list.
Unlinks(k, prev, t) ==
  /\ slots' = [slots EXCEPT ![SlotOf[k]] = IF prev = NULL THEN next[t] ELSE @]
  /\ next' = NextAfterDelete([prev |-> prev, node |-> t])
  /\ wasteNodeStart' = t
  /\ nodeNum' = nodeNum - 1
  /\ key' = key /\ info' = info /\ blkNum' = blkNum

\* ... and what that changes, node by node.
UnlinksAt(k, prev, t, in, in2, pos, pos2) ==
  /\ \A n \in Node : n # t => in2[n] = in[n]
  /\ in2[t] = "waste"
  /\ \A n \in Node : n # t /\ n # prev => next'[n] = next[n]
  /\ prev # NULL /\ prev # t => next'[prev] = next[t]
  /\ next'[t] = wasteNodeStart
  /\ pos2[t] = Above(wasteNodeStart, pos)
  /\ \A n \in InSlot(in, key, SlotOf[k]) \ {t} :
       pos2[n] = IF pos[n] > pos[t] THEN pos[n] - 1 ELSE pos[n]
  /\ \A n \in Node \ {t} : n \notin InSlot(in, key, SlotOf[k]) => pos2[n] = pos[n]
  /\ slots'[SlotOf[k]] = IF prev = NULL THEN next[t] ELSE slots[SlotOf[k]]
  /\ \A u \in Slot : u # SlotOf[k] => slots'[u] = slots[u]

LEMMA UnlinksFacts ==
  ASSUME Typed, NEW in \in [Node -> Place], NEW pos \in Position,
         NEW k \in Sig, NEW t \in Node, NEW prev \in Node \cup {NULL}, Unlinks(k, prev, t)
  PROVE  \E in2 \in [Node -> Place], pos2 \in Position :
           UnlinksAt(k, prev, t, in, in2, pos, pos2)
<1> DEFINE s == SlotOf[k]
<1>0. PICK in2, pos2 :
        /\ in2 = [in EXCEPT ![t] = "waste"]
        /\ pos2 = [n \in Node |->
                     IF n = t THEN Above(wasteNodeStart, pos)
                     ELSE IF n \in InSlot(in, key, s) /\ pos[n] > pos[t] THEN pos[n] - 1
                     ELSE pos[n]]
  OBVIOUS
<1>1. s \in Slot /\ NULL \notin Node /\ pos \in [Node -> Nat]
  BY NodesFinite DEF Slot, Position
<1>2. in2 \in [Node -> Place]
  BY <1>0 DEF Place
<1>3. Above(wasteNodeStart, pos) \in Nat
  BY <1>1 DEF Typed, Above
<1> HIDE DEF s
<1>4. pos2 \in Position
  <2>1. \A n \in Node : pos[n] > pos[t] => pos[n] - 1 \in Nat
    BY <1>1
  <2>2. QED
    BY <1>0, <1>1, <1>3, <2>1 DEF Position
<1>5. /\ \A n \in Node : n # t => in2[n] = in[n]
      /\ in2[t] = "waste"
  BY <1>0
<1>6. pos2[t] = Above(wasteNodeStart, pos)
  BY <1>0
<1>7. \A n \in InSlot(in, key, s) \ {t} :
        pos2[n] = IF pos[n] > pos[t] THEN pos[n] - 1 ELSE pos[n]
  BY <1>0 DEF InSlot
<1>8. \A n \in Node \ {t} : n \notin InSlot(in, key, s) => pos2[n] = pos[n]
  BY <1>0
<1>9. /\ \A n \in Node : n # t /\ n # prev => next'[n] = next[n]
      /\ prev # NULL /\ prev # t => next'[prev] = next[t]
      /\ next'[t] = wasteNodeStart
  BY DEF Unlinks, NextAfterDelete
<1>10. slots'[s] = (IF prev = NULL THEN next[t] ELSE slots[s])
       /\ \A u \in Slot : u # s => slots'[u] = slots[u]
  BY <1>1 DEF Unlinks, Typed, s
<1>11. UnlinksAt(k, prev, t, in, in2, pos, pos2)
  BY <1>5, <1>6, <1>7, <1>8, <1>9, <1>10 DEF UnlinksAt, s
<1>12. QED
  BY <1>2, <1>4, <1>11

LEMMA UnlinkSound ==
  ASSUME Typed, NEW in \in [Node -> Place], NEW pos \in Position, NEW used \in 0 .. MaxNode,
         Sound(in, pos, used), NEW k \in Sig, NEW t \in Node, NEW prev,
         in[t] = "chain", key[t] = k,
         IF t = slots[SlotOf[k]] THEN prev = NULL
         ELSE prev \in InSlot(in, key, SlotOf[k]) /\ next[prev] = t /\ pos[prev] = pos[t] + 1,
         Unlinks(k, prev, t)
  PROVE  \E in2 \in [Node -> Place], pos2 \in Position :
           Sound(in2, pos2, used)' /\ Loses(in, in2, t)
<1> DEFINE s == SlotOf[k]
<1>0. prev \in Node \cup {NULL} /\ s \in Slot /\ NULL \notin Node
  BY NodesFinite DEF InSlot, Slot
<1>1. PICK in2 \in [Node -> Place], pos2 \in Position : UnlinksAt(k, prev, t, in, in2, pos, pos2)
  BY <1>0, UnlinksFacts
<1>2. key' = key /\ info' = info /\ wasteNodeStart' = t /\ blkNum' = blkNum
      /\ nodeNum' = nodeNum - 1
  BY DEF Unlinks
<1>3. PICK S : S = InSlot(in, key, s)
  OBVIOUS
<1>4. t \in S /\ Listed(slots[s], S, pos, next) /\ slots[s] # NULL
  <2>1. t \in S
    BY <1>3 DEF InSlot
  <2>2. Listed(slots[s], S, pos, next)
    BY <1>0, <1>3 DEF Sound, Chains
  <2>3. QED
    BY <2>1, <2>2 DEF Listed
<1>5. Listed(slots'[s], S \ {t}, pos2, next')
  <2>1. PICK p : p = slots[s]
    OBVIOUS
  <2>2. /\ \A n \in S \ {t} : pos2[n] = IF pos[n] > pos[t] THEN pos[n] - 1 ELSE pos[n]
        /\ \A n \in S \ {t, prev} : next'[n] = next[n]
    BY <1>1, <1>3 DEF UnlinksAt, InSlot
  <2>3. CASE t = p
    <3>1. prev = NULL /\ slots'[s] = next[t]
      BY <1>1, <2>1, <2>3 DEF UnlinksAt
    <3>2. \A n \in S \ {t} : pos2[n] = pos[n] /\ next'[n] = next[n]
      <4>1. ASSUME NEW n \in S \ {t} PROVE pos[n] <= pos[t] /\ pos[n] \in Nat /\ pos[t] \in Nat /\ n # NULL
        BY <1>0, <1>3, <1>4, <2>1, <2>3 DEF Listed, InSlot, Position
      <4>2. QED
        BY <2>2, <3>1, <4>1
    <3>3. Listed(t, S, pos, next) /\ t # NULL
      BY <1>4, <2>1, <2>3
    <3>4. Listed(next[t], S \ {t}, pos2, next')
      BY <3>2, <3>3, ListPop
    <3>5. QED
      BY <3>1, <3>4
  <2>4. CASE t # p
    <3>1. prev \in S /\ next[prev] = t /\ pos[prev] = pos[t] + 1
      BY <1>3, <2>1, <2>4
    <3>2. prev # t /\ prev # NULL
      BY <1>0, <1>3, <3>1 DEF InSlot, Position
    <3>3. next'[prev] = next[t] /\ slots'[s] = p
      BY <1>1, <2>1, <3>2 DEF UnlinksAt
    <3>4. Listed(p, S, pos, next)
      BY <1>4, <2>1
    <3>5. Listed(p, S \ {t}, pos2, next')
      <4>1. PICK nx2 : nx2 = next'
        OBVIOUS
      <4>2. nx2[prev] = next[t] /\ \A n \in S \ {t, prev} : nx2[n] = next[n]
        BY <2>2, <3>3, <4>1
      <4>3. t \in S /\ t # p /\ prev \in S /\ next[prev] = t /\ pos[prev] = pos[t] + 1
        BY <1>4, <2>4, <3>1
      <4>4. \A n \in S \ {t} : pos2[n] = IF pos[n] > pos[t] THEN pos[n] - 1 ELSE pos[n]
        BY <2>2
      <4>5. Listed(p, S \ {t}, pos2, nx2)
        BY <3>4, <4>2, <4>3, <4>4, ListCut
      <4>6. QED
        BY <4>1, <4>5
    <3>6. QED
      BY <3>3, <3>5
  <2>5. QED
    BY <2>3, <2>4
<1>6. ASSUME NEW u \in Slot
      PROVE  Listed(slots'[u], InSlot(in2, key', u), pos2, next')
  <2>1. CASE u = s
    <3>1. InSlot(in2, key', u) = S \ {t}
      BY <1>1, <1>2, <1>3, <2>1 DEF UnlinksAt, InSlot
    <3>2. QED
      BY <1>5, <2>1, <3>1
  <2>2. CASE u # s
    <3>0. PICK U, p : U = InSlot(in, key, u) /\ p = slots[u]
      OBVIOUS
    <3>1. InSlot(in2, key', u) = U
      BY <1>1, <1>2, <2>2, <3>0 DEF UnlinksAt, InSlot
    <3>2. \A n \in U : n # t /\ n # prev /\ n \in Node /\ n \notin S
      <4>1. prev = NULL \/ prev \in InSlot(in, key, s)
        OBVIOUS
      <4>2. QED
        BY <1>0, <1>3, <2>2, <3>0, <4>1 DEF InSlot
    <3>3. \A n \in U : pos2[n] = pos[n] /\ next'[n] = next[n]
      BY <1>1, <1>3, <3>2 DEF UnlinksAt
    <3>4. Listed(p, U, pos, next)
      BY <3>0 DEF Sound, Chains
    <3>5. Listed(p, U, pos2, next')
      BY <3>3, <3>4, ListSame
    <3>6. slots'[u] = p
      BY <1>1, <2>2, <3>0 DEF UnlinksAt
    <3>7. QED
      BY <3>1, <3>5, <3>6
  <2>3. QED
    BY <2>1, <2>2
<1>7. Chains(in2, pos2)'
  <2>1. \A n \in Node : in2[n] = "chain" => in[n] = "chain"
    BY <1>1 DEF UnlinksAt
  <2>2. \A n \in Node : in2[n] = "chain" => key'[n] \in Sig /\ info'[n] \in Info
    BY <1>2, <2>1 DEF Sound, Chains
  <2>3. \A m, n \in Node : in2[m] = "chain" /\ in2[n] = "chain" /\ key'[m] = key'[n] => m = n
    BY <1>2, <2>1 DEF Sound, Chains
  <2>4. QED
    BY <1>6, <2>2, <2>3 DEF Chains
<1>8. Listed(wasteNodeStart, Placed(in2, "waste"), pos2, next)'
  <2>1. PICK W, p : W = Placed(in, "waste") /\ p = wasteNodeStart
    OBVIOUS
  <2>2. Placed(in2, "waste") = W \cup {t} /\ t \in Node \ W
    BY <1>1, <2>1 DEF UnlinksAt, Placed
  <2>3. \A n \in W : n \in Node /\ n # t /\ n # prev /\ n \notin S
    <3>1. prev = NULL \/ prev \in InSlot(in, key, s)
      OBVIOUS
    <3>2. QED
      BY <1>0, <1>3, <2>1, <3>1 DEF InSlot, Placed
  <2>4. \A n \in W : pos2[n] = pos[n] /\ next'[n] = next[n]
    BY <1>1, <1>3, <2>3 DEF UnlinksAt
  <2>5. Listed(p, W, pos, next)
    BY <2>1 DEF Sound
  <2>6. next'[t] = p /\ pos2[t] = IF p = NULL THEN 0 ELSE pos[p] + 1
    BY <1>1, <2>1 DEF UnlinksAt, Above
  <2>7. Listed(t, W \cup {t}, pos2, next')
    BY <2>2, <2>4, <2>5, <2>6, ListPush
  <2>8. QED
    BY <1>2, <2>2, <2>7
<1>9. nodeNum' = Cardinality(Placed(in2, "chain"))
  <2>1. Placed(in2, "chain") = Placed(in, "chain") \ {t} /\ t \in Placed(in, "chain")
    BY <1>1 DEF UnlinksAt, Placed
  <2>2. Cardinality(Placed(in2, "chain")) = Cardinality(Placed(in, "chain")) - 1
    BY <2>1, PlacedFinite, CardinalityShrinks
  <2>3. QED
    BY <1>2, <2>2 DEF Sound
<1>10. Blocks(in2, used)'
  <2>1. \A n \in Node : in2[n] = "unused" <=> in[n] = "unused"
    BY <1>1 DEF UnlinksAt
  <2>2. QED
    BY <1>2, <2>1 DEF Blocks, Sound
<1>11. Sound(in2, pos2, used)'
  BY <1>7, <1>8, <1>9, <1>10 DEF Sound
<1>12. Loses(in, in2, t)
  BY <1>1 DEF UnlinksAt, Loses
<1>13. QED
  BY <1>11, <1>12

-----------------------------------------------------------------------------
(* The table as a map.                                                       *)

\* The contents are the data of the nodes in the chains.
ContentsOf(in) ==
  \A k \in Sig :
    /\ \A n \in Node : in[n] = "chain" /\ key[n] = k => Contents[k] = info[n]
    /\ (\A n \in Node : in[n] = "chain" => key[n] # k) => Contents[k] = None

ContentsOfChains ==
  \A in \in [Node -> Place], pos \in Position : Chains(in, pos) => ContentsOf(in)

LEMMA ContentsFacts == ContentsOfChains
<1> SUFFICES ASSUME NEW in \in [Node -> Place], NEW pos \in Position, Chains(in, pos), NEW k \in Sig
             PROVE  /\ \A n \in Node : in[n] = "chain" /\ key[n] = k => Contents[k] = info[n]
                    /\ (\A n \in Node : in[n] = "chain" => key[n] # k) => Contents[k] = None
  BY DEF ContentsOf, ContentsOfChains
<1>1. Contents[k] = IF Found(k) = {} THEN None ELSE info[(CHOOSE f \in Found(k) : TRUE).node]
  BY Zenon DEF Contents
<1>2. CASE /\ Found(k) = {}
           /\ \A n \in Node : in[n] = "chain" => key[n] # k
  BY <1>1, <1>2
<1>3. CASE \E n \in Node : \E prev :
              /\ Found(k) = {[prev |-> prev, node |-> n]}
              /\ in[n] = "chain" /\ key[n] = k
  <2>0. PICK n \in Node : \E prev : /\ Found(k) = {[prev |-> prev, node |-> n]}
                                     /\ in[n] = "chain" /\ key[n] = k
    BY <1>3
  <2>1. PICK prev : /\ Found(k) = {[prev |-> prev, node |-> n]}
                    /\ in[n] = "chain" /\ key[n] = k
    BY <2>0
  <2>2. PICK found : found = [prev |-> prev, node |-> n]
    OBVIOUS
  <2>3. Found(k) = {found}
    BY <2>1, <2>2
  <2>4. (CHOOSE f \in Found(k) : TRUE) = found
    BY <2>3
  <2>5. Contents[k] = info[n]
    BY <1>1, <2>2, <2>3, <2>4
  <2>6. \A m \in Node : in[m] = "chain" /\ key[m] = k => m = n
    BY <2>1 DEF Chains
  <2>7. QED
    BY <2>1, <2>5, <2>6
<1>4. \/ /\ Found(k) = {}
         /\ \A n \in Node : in[n] = "chain" => key[n] # k
      \/ \E n \in Node : \E prev :
           /\ Found(k) = {[prev |-> prev, node |-> n]}
           /\ in[n] = "chain" /\ key[n] = k
  <2>1. PICK slot : slot = slots[SlotOf[k]]
    OBVIOUS
  <2>2. \/ /\ Found(k) = {}
           /\ \A n \in Node : in[n] = "chain" => key[n] # k
        \/ \E n \in Node : \E prev :
              /\ Found(k) = {[prev |-> prev, node |-> n]}
              /\ in[n] = "chain" /\ key[n] = k
              /\ IF n = slots[SlotOf[k]] THEN prev = NULL
                 ELSE /\ prev \in InSlot(in, key, SlotOf[k])
                      /\ next[prev] = n /\ pos[prev] = pos[n] + 1
    BY Search
  <2>3. QED
    BY <2>2, Zenon
<1>5. QED
  BY <1>2, <1>3, <1>4

\* The same of the state after a step.
LEMMA ContentsFacts2 ==
  ASSUME NEW in \in [Node -> Place], NEW pos \in Position, Chains(in, pos)'
  PROVE  ContentsOf(in)'
<1>1. ContentsOfChains'
  BY ContentsFacts, PTL
<1>2. QED
  BY <1>1 DEF ContentsOfChains

\* The contents are a function on the signatures.
ContentsAFunction == Contents = [k \in Sig |-> Contents[k]]

LEMMA ContentsFunction == ContentsAFunction
<1> DEFINE Datum(k) == LET found == Found(k)
                       IN  IF found = {} THEN None ELSE info[(CHOOSE f \in found : TRUE).node]
<1>1. Contents = [k \in Sig |-> Datum(k)]
  BY Zenon DEF Contents
<1> HIDE DEF Datum
<1>2. QED
  BY <1>1 DEF ContentsAFunction

LEMMA ContentsFunctions ==
  Contents = [k \in Sig |-> Contents[k]] /\ Contents' = [k \in Sig |-> Contents'[k]]
<1>1. ContentsAFunction'
  BY ContentsFunction, PTL
<1>2. QED
  BY <1>1, ContentsFunction DEF ContentsAFunction

\* A new node changes the map at its signature only.
LEMMA MapGains ==
  ASSUME Typed, NEW in, NEW in2, ContentsOf(in), ContentsOf(in2)', NEW t \in Node,
         NEW k \in Sig, NEW v \in Info, Gains(in, in2, t), Adds(k, v, t), in[t] # "chain"
  PROVE  Contents' = [Contents EXCEPT ![k] = v]
<1>1. Contents = [j \in Sig |-> Contents[j]] /\ Contents' = [j \in Sig |-> Contents'[j]]
  BY ContentsFunctions
<1>2. \A n \in Node : n # t => key'[n] = key[n] /\ info'[n] = info[n]
  BY DEF Typed, Adds
<1>3. key'[t] = k /\ info'[t] = v
  BY DEF Typed, Adds
<1>4. Contents'[k] = v
  BY <1>3 DEF ContentsOf, Gains
<1>5. ASSUME NEW j \in Sig, j # k
      PROVE  Contents'[j] = Contents[j]
  <2>1. CASE \E n \in Node : in[n] = "chain" /\ key[n] = j
    <3>1. PICK n \in Node : in[n] = "chain" /\ key[n] = j
      BY <2>1
    <3>2. in2[n] = "chain" /\ key'[n] = j /\ info'[n] = info[n]
      BY <1>2, <3>1 DEF Gains
    <3>3. QED
      BY <3>1, <3>2 DEF ContentsOf
  <2>2. CASE \A n \in Node : in[n] = "chain" => key[n] # j
    <3>1. \A n \in Node : in2[n] = "chain" => key'[n] # j
      BY <1>2, <1>3, <1>5, <2>2 DEF Gains
    <3>2. QED
      BY <2>2, <3>1 DEF ContentsOf
  <2>3. QED
    BY <2>1, <2>2
<1>6. QED
  BY <1>1, <1>4, <1>5

LEMMA MapLoses ==
  ASSUME Typed, NEW in, NEW in2, ContentsOf(in), ContentsOf(in2)', NEW t \in Node,
         NEW k \in Sig, Loses(in, in2, t), key[t] = k, in[t] = "chain",
         \A n \in Node : in[n] = "chain" /\ key[n] = k => n = t,
         key' = key, info' = info
  PROVE  Contents' = [Contents EXCEPT ![k] = None]
<1>1. Contents = [j \in Sig |-> Contents[j]] /\ Contents' = [j \in Sig |-> Contents'[j]]
  BY ContentsFunctions
<1>2. \A n \in Node : in2[n] = "chain" => key'[n] # k
  BY DEF Loses
<1>3. Contents'[k] = None
  BY <1>2 DEF ContentsOf
<1>4. ASSUME NEW j \in Sig, j # k
      PROVE  Contents'[j] = Contents[j]
  <2>1. CASE \E n \in Node : in[n] = "chain" /\ key[n] = j
    <3>1. PICK n \in Node : in[n] = "chain" /\ key[n] = j
      BY <2>1
    <3>2. in2[n] = "chain" /\ key'[n] = j /\ info'[n] = info[n]
      BY <1>4, <3>1 DEF Loses
    <3>3. QED
      BY <3>1, <3>2 DEF ContentsOf
  <2>2. CASE \A n \in Node : in[n] = "chain" => key[n] # j
    <3>1. \A n \in Node : in2[n] = "chain" => key'[n] # j
      BY <2>2 DEF Loses
    <3>2. QED
      BY <2>2, <3>1 DEF ContentsOf
  <2>3. QED
    BY <2>1, <2>2
<1>5. QED
  BY <1>1, <1>3, <1>4

LEMMA MapUpdates ==
  ASSUME Typed, NEW in, ContentsOf(in), ContentsOf(in)', NEW t \in Node,
         NEW k \in Sig, NEW v \in Info, key[t] = k, in[t] = "chain",
         \A n \in Node : in[n] = "chain" /\ key[n] = k => n = t,
         key' = key, info'[t] = v, \A n \in Node : n # t => info'[n] = info[n]
  PROVE  Contents' = [Contents EXCEPT ![k] = v]
<1>1. Contents = [j \in Sig |-> Contents[j]] /\ Contents' = [j \in Sig |-> Contents'[j]]
  BY ContentsFunctions
<1>2. info'[t] = v /\ \A n \in Node : n # t => info'[n] = info[n]
  OBVIOUS
<1>3. Contents'[k] = v
  BY <1>2 DEF ContentsOf
<1>4. ASSUME NEW j \in Sig, j # k
      PROVE  Contents'[j] = Contents[j]
  <2>1. CASE \E n \in Node : in[n] = "chain" /\ key[n] = j
    <3>1. PICK n \in Node : in[n] = "chain" /\ key[n] = j
      BY <2>1
    <3>2. key'[n] = j /\ info'[n] = info[n]
      BY <1>2, <1>4, <3>1
    <3>3. QED
      BY <3>1, <3>2 DEF ContentsOf
  <2>2. CASE \A n \in Node : in[n] = "chain" => key[n] # j
    BY <2>2 DEF ContentsOf
  <2>3. QED
    BY <2>1, <2>2
<1>5. QED
  BY <1>1, <1>3, <1>4

LEMMA MapSame ==
  ASSUME NEW in, ContentsOf(in), ContentsOf(in)', key' = key, info' = info
  PROVE  Contents' = Contents
<1>1. ASSUME NEW j \in Sig
      PROVE  Contents'[j] = Contents[j]
  <2>1. CASE \E n \in Node : in[n] = "chain" /\ key[n] = j
    <3>1. PICK n \in Node : in[n] = "chain" /\ key[n] = j
      BY <2>1
    <3>2. QED
      BY <3>1 DEF ContentsOf
  <2>2. CASE \A n \in Node : in[n] = "chain" => key[n] # j
    BY <2>2 DEF ContentsOf
  <2>3. QED
    BY <2>1, <2>2
<1>2. QED
  BY <1>1, ContentsFunctions

\* A signature is in the map when a node in the chains has it.
LEMMA MapHas ==
  ASSUME NEW in \in [Node -> Place], NEW pos \in Position, Chains(in, pos), ContentsOf(in),
         NEW k \in Sig
  PROVE  /\ (\A n \in Node : in[n] = "chain" => key[n] # k) => Contents[k] = None
         /\ \A n \in Node : in[n] = "chain" /\ key[n] = k => Contents[k] = info[n] /\ Contents[k] # None
  BY HashTableAssumption DEF ContentsOf, Chains

-----------------------------------------------------------------------------
(* The steps.                                                                *)

\* What a step does to the nodes keeps the invariant.
LEMMA SoundSame ==
  ASSUME NEW in, NEW pos, NEW used, Sound(in, pos, used),
         slots' = slots, next' = next, key' = key, info' = info,
         wasteNodeStart' = wasteNodeStart, nodeNum' = nodeNum, blkNum' = blkNum
  PROVE  Sound(in, pos, used)'
  BY DEF Sound, Chains, Blocks

\* No call, and a call that changes no node.
LEMMA SameStep ==
  ASSUME HInv, slots' = slots, next' = next, key' = key, info' = info,
         wasteNodeStart' = wasteNodeStart, nodeNum' = nodeNum, blkNum' = blkNum
  PROVE  HInv' /\ Contents' = Contents
<1>1. PICK in \in [Node -> Place], pos \in Position, used \in 0 .. MaxNode : Sound(in, pos, used)
  BY DEF HInv
<1>2. Sound(in, pos, used)'
  BY <1>1, SoundSame
<1>3. Typed'
  BY DEF HInv, Typed
<1>4. HInv'
  BY <1>2, <1>3 DEF HInv
<1>5. ContentsOf(in) /\ ContentsOf(in)'
  BY <1>1, <1>2, ContentsFacts, ContentsFacts2 DEF Sound, ContentsOfChains
<1>6. QED
  BY <1>4, <1>5, MapSame

LEMMA SeekStep ==
  ASSUME HInv, NEW k \in Sig, hashtable_seek(k)
  PROVE  HInv' /\ Map!Seek(k)
<1>1. PICK in \in [Node -> Place], pos \in Position, used \in 0 .. MaxNode : Sound(in, pos, used)
  BY DEF HInv
<1>2. Chains(in, pos) /\ ContentsOf(in)
  BY <1>1, ContentsFacts DEF Sound, ContentsOfChains
<1>3. HInv' /\ Contents' = Contents
  BY SameStep DEF hashtable_seek
<1>4. ret' = <<IF Contents[k] = None THEN 0 ELSE 1, Contents[k]>>
  <2>1. CASE Found(k) = {} /\ \A n \in Node : in[n] = "chain" => key[n] # k
    <3>1. Contents[k] = None
      BY <1>2, <2>1, MapHas
    <3>2. ret' = <<0, None>>
      BY <2>1 DEF hashtable_seek, Return
    <3>3. QED
      BY <3>1, <3>2
  <2>2. ASSUME NEW n \in Node, NEW prev, Found(k) = {[prev |-> prev, node |-> n]},
               in[n] = "chain", key[n] = k
        PROVE  ret' = <<IF Contents[k] = None THEN 0 ELSE 1, Contents[k]>>
    <3>1. Contents[k] = info[n] /\ Contents[k] # None
      BY <1>2, <2>2, MapHas
    <3>2. ret' = <<1, info[n]>>
      <4>1. PICK f \in Found(k) : ret' = <<1, info[f.node]>>
        BY <2>2 DEF hashtable_seek, Return
      <4>2. f.node = n
        BY <2>2
      <4>3. QED
        BY <4>1, <4>2
    <3>3. QED
      BY <3>1, <3>2
  <2>3. QED
    BY <1>2, <2>1, <2>2, Search
<1>5. QED
  BY <1>3, <1>4 DEF Map!Seek, Map!Return

LEMMA UpdateStep ==
  ASSUME HInv, NEW k \in Sig, NEW v \in Info, hashtable_update(k, v)
  PROVE  HInv' /\ Map!Update(k, v)
<1>1. PICK in \in [Node -> Place], pos \in Position, used \in 0 .. MaxNode : Sound(in, pos, used)
  BY DEF HInv
<1>2. Chains(in, pos) /\ ContentsOf(in) /\ Typed
  BY <1>1, ContentsFacts DEF Sound, ContentsOfChains, HInv
<1>3. CASE Found(k) = {} /\ \A n \in Node : in[n] = "chain" => key[n] # k
  <2>1. Contents[k] = None
    BY <1>2, <1>3, MapHas
  <2>2. /\ ret' = <<0, None>> /\ slots' = slots /\ next' = next /\ key' = key /\ info' = info
        /\ wasteNodeStart' = wasteNodeStart /\ nodeNum' = nodeNum /\ blkNum' = blkNum
    BY <1>3 DEF hashtable_update, Return
  <2>3. HInv' /\ Contents' = Contents
    BY <2>2, SameStep
  <2>4. QED
    BY <2>1, <2>2, <2>3 DEF Map!Update, Map!Return
<1>4. ASSUME NEW n \in Node, NEW prev, Found(k) = {[prev |-> prev, node |-> n]},
             in[n] = "chain", key[n] = k
      PROVE  HInv' /\ Map!Update(k, v)
  <2>1. Contents[k] # None
    BY <1>2, <1>4, MapHas
  <2>2. /\ ret' = <<1, None>> /\ slots' = slots /\ next' = next /\ key' = key
        /\ info' = [info EXCEPT ![n] = v]
        /\ wasteNodeStart' = wasteNodeStart /\ nodeNum' = nodeNum /\ blkNum' = blkNum
    <3>1. PICK f \in Found(k) : info' = [info EXCEPT ![f.node] = v] /\ ret' = <<1, None>>
      BY <1>4 DEF hashtable_update, Return
    <3>2. f.node = n
      BY <1>4
    <3>3. QED
      BY <3>1, <3>2 DEF hashtable_update
  <2>3. Typed'
    BY <1>2, <2>2 DEF Typed
  <2>4. \A m \in Node : in[m] = "chain" => info'[m] \in Info
    BY <1>2, <2>2 DEF Typed, Chains
  <2>5. Chains(in, pos)'
    BY <1>2, <2>2, <2>4 DEF Chains
  <2>6. Sound(in, pos, used)'
    BY <1>1, <2>2, <2>5 DEF Sound, Blocks
  <2>7. HInv'
    BY <2>3, <2>6 DEF HInv
  <2>8. ContentsOf(in)'
    BY <2>5, ContentsFacts2
  <2>9. \A m \in Node : in[m] = "chain" /\ key[m] = k => m = n
    BY <1>2, <1>4 DEF Chains
  <2>10. Contents' = [Contents EXCEPT ![k] = v]
    <3>1. info'[n] = v /\ \A m \in Node : m # n => info'[m] = info[m]
      BY <1>2, <2>2 DEF Typed
    <3>2. key' = key
      BY <2>2
    <3>3. QED
      BY <1>2, <1>4, <2>8, <2>9, <3>1, <3>2, MapUpdates
  <2>11. QED
    BY <2>1, <2>2, <2>7, <2>10 DEF Map!Update, Map!Return, Map!Becomes
<1>5. QED
  BY <1>2, <1>3, <1>4, Search

LEMMA DeleteStep ==
  ASSUME HInv, NEW k \in Sig, hashtable_delete(k)
  PROVE  HInv' /\ Map!Delete(k)
<1>1. PICK in \in [Node -> Place], pos \in Position, used \in 0 .. MaxNode : Sound(in, pos, used)
  BY DEF HInv
<1>2. Chains(in, pos) /\ ContentsOf(in) /\ Typed
  BY <1>1, ContentsFacts DEF Sound, ContentsOfChains, HInv
<1>3. CASE Found(k) = {} /\ \A n \in Node : in[n] = "chain" => key[n] # k
  <2>1. Contents[k] = None
    BY <1>2, <1>3, MapHas
  <2>2. /\ ret' = <<0, None>> /\ slots' = slots /\ next' = next /\ key' = key /\ info' = info
        /\ wasteNodeStart' = wasteNodeStart /\ nodeNum' = nodeNum /\ blkNum' = blkNum
    BY <1>3 DEF hashtable_delete, Return
  <2>3. HInv' /\ Contents' = Contents
    BY <2>2, SameStep
  <2>4. QED
    BY <2>1, <2>2, <2>3 DEF Map!Delete, Map!Return
<1>4. ASSUME NEW n \in Node, NEW prev, Found(k) = {[prev |-> prev, node |-> n]},
             in[n] = "chain", key[n] = k,
             IF n = slots[SlotOf[k]] THEN prev = NULL
             ELSE /\ prev \in InSlot(in, key, SlotOf[k])
                  /\ next[prev] = n /\ pos[prev] = pos[n] + 1
      PROVE  HInv' /\ Map!Delete(k)
  <2>1. Contents[k] # None
    BY <1>2, <1>4, MapHas
  <2>2. PICK f : f \in Found(k) /\ f = [prev |-> prev, node |-> n]
    BY <1>4
  <2>3. /\ ret' = <<1, None>> /\ key' = key /\ info' = info
        /\ Unlinks(k, prev, n)
    <3>1. /\ slots' = [slots EXCEPT ![SlotOf[k]] = IF f.prev = NULL THEN next[f.node] ELSE @]
          /\ next' = NextAfterDelete(f)
          /\ wasteNodeStart' = f.node
          /\ nodeNum' = nodeNum - 1 /\ ret' = <<1, None>>
          /\ key' = key /\ info' = info /\ blkNum' = blkNum
      BY <1>4, <2>2 DEF hashtable_delete, Return
    <3>2. QED
      BY <2>2, <3>1 DEF Unlinks
  <2>4. PICK in2 \in [Node -> Place], pos2 \in Position :
          Sound(in2, pos2, used)' /\ Loses(in, in2, n)
    BY <1>1, <1>2, <1>4, <2>3, UnlinkSound
  <2>5. Typed'
    <3>1. nodeNum' \in Nat
      <4>1. nodeNum' = Cardinality(Placed(in2, "chain"))
        BY <2>4 DEF Sound
      <4>2. QED
        BY <4>1, PlacedFinite, FS_CardinalityType
    <3>2. /\ slots' = [slots EXCEPT ![SlotOf[k]] = IF prev = NULL THEN next[n] ELSE @]
          /\ wasteNodeStart' = n /\ blkNum' = blkNum
      BY <2>3 DEF Unlinks
    <3>3. next' \in [Node -> Node \cup {NULL}]
      BY <1>2, <2>3 DEF Unlinks, NextAfterDelete, Typed
    <3>4. QED
      BY <1>2, <2>3, <3>1, <3>2, <3>3 DEF Typed
  <2>6. HInv'
    BY <2>4, <2>5 DEF HInv
  <2>7. ContentsOf(in2)'
    BY <2>4, ContentsFacts2 DEF Sound
  <2>8. \A m \in Node : in[m] = "chain" /\ key[m] = k => m = n
    BY <1>2, <1>4 DEF Chains
  <2>9. Contents' = [Contents EXCEPT ![k] = None]
    BY <1>2, <1>4, <2>3, <2>4, <2>7, <2>8, MapLoses
  <2>10. QED
    BY <2>1, <2>3, <2>6, <2>9 DEF Map!Delete, Map!Return, Map!Becomes
<1>5. QED
  BY <1>2, <1>3, <1>4, Search

LEMMA InsertStep ==
  ASSUME HInv, NEW k \in Sig, NEW v \in Info, hashtable_insert(k, v)
  PROVE  HInv' /\ Map!Insert(k, v)
<1>1. PICK in \in [Node -> Place], pos \in Position, used \in 0 .. MaxNode : Sound(in, pos, used)
  BY DEF HInv
<1>2. Chains(in, pos) /\ ContentsOf(in) /\ Typed
  BY <1>1, ContentsFacts DEF Sound, ContentsOfChains, HInv
<1>3. ASSUME NEW n \in Node, NEW prev, Found(k) = {[prev |-> prev, node |-> n]},
             in[n] = "chain", key[n] = k
      PROVE  HInv' /\ Map!Insert(k, v)
  <2>1. Contents[k] # None
    BY <1>2, <1>3, MapHas
  <2>2. /\ ret' = <<0, None>> /\ slots' = slots /\ next' = next /\ key' = key /\ info' = info
        /\ wasteNodeStart' = wasteNodeStart /\ nodeNum' = nodeNum /\ blkNum' = blkNum
    BY <1>3 DEF hashtable_insert, Return
  <2>3. HInv' /\ Contents' = Contents
    BY <2>2, SameStep
  <2>4. QED
    BY <2>1, <2>2, <2>3 DEF Map!Insert, Map!Return
<1>4. CASE Found(k) = {} /\ \A n \in Node : in[n] = "chain" => key[n] # k
  <2>1. Contents[k] = None
    BY <1>2, <1>4, MapHas
  <2>2. PICK t \in Node :
          /\ t = IF wasteNodeStart # NULL THEN wasteNodeStart ELSE FreshNode
          /\ wasteNodeStart' = IF wasteNodeStart # NULL THEN next[t] ELSE NULL
          /\ blkNum' = IF wasteNodeStart = NULL /\ nodeNum >= blkNum * BlkSize
                       THEN blkNum + 1 ELSE blkNum
          /\ key' = [key EXCEPT ![t] = k] /\ info' = [info EXCEPT ![t] = v]
          /\ next' = [next EXCEPT ![t] = slots[SlotOf[k]]]
          /\ slots' = [slots EXCEPT ![SlotOf[k]] = t]
          /\ nodeNum' = nodeNum + 1 /\ ret' = <<1, None>>
    BY <1>4, Zenon DEF hashtable_insert, TakeWaste, Return
  <2>3. Adds(k, v, t)
    BY <2>2 DEF Adds
  <2>4. Typed'
    <3>1. SlotOf[k] \in Slot
      BY DEF Slot
    <3>2. blkNum' \in Nat
      BY <1>2, <2>2 DEF Typed
    <3>3. QED
      BY <1>2, <2>2, <3>1, <3>2 DEF Typed
  <2>5. in[t] # "chain" /\
        \E in2 \in [Node -> Place], pos2 \in Position, more \in 0 .. MaxNode :
          Sound(in2, pos2, more)' /\ Gains(in, in2, t)
    <3>1. CASE wasteNodeStart # NULL
      <4>1. t = wasteNodeStart /\ wasteNodeStart' = next[wasteNodeStart] /\ blkNum' = blkNum
        BY <2>2, <3>1
      <4>2. in[t] = "waste"
        BY <1>1, <3>1, <4>1 DEF Sound, Listed, Placed
      <4>3. \E in2 \in [Node -> Place], pos2 \in Position :
              Sound(in2, pos2, used)' /\ Gains(in, in2, t)
        BY <1>1, <1>2, <1>4, <2>3, <3>1, <4>1, ReuseSound
      <4>4. QED
        BY <4>2, <4>3
    <3>2. CASE wasteNodeStart = NULL
      <4>1. /\ t = FreshNode /\ wasteNodeStart' = NULL
            /\ blkNum' = IF nodeNum >= blkNum * BlkSize THEN blkNum + 1 ELSE blkNum
        BY <2>2, <3>2
      <4>2. in[t] # "chain"
        <5>1. t = used
          BY <1>1, <1>2, <3>2, <4>1, FreshIsNext
        <5>2. QED
          BY <1>1, <5>1 DEF Sound, Blocks, Node
      <4>3. \E in2 \in [Node -> Place], pos2 \in Position, more \in 0 .. MaxNode :
              Sound(in2, pos2, more)' /\ Gains(in, in2, t)
        BY <1>1, <1>2, <1>4, <2>3, <3>2, <4>1, FreshSound
      <4>4. QED
        BY <4>2, <4>3
    <3>3. QED
      BY <3>1, <3>2
  <2>6. PICK in2 \in [Node -> Place], pos2 \in Position, more \in 0 .. MaxNode :
          Sound(in2, pos2, more)' /\ Gains(in, in2, t)
    BY <2>5
  <2>7. HInv'
    BY <2>4, <2>6 DEF HInv
  <2>8. ContentsOf(in2)'
    BY <2>6, ContentsFacts2 DEF Sound
  <2>9. Contents' = [Contents EXCEPT ![k] = v]
    BY <1>2, <2>3, <2>5, <2>6, <2>8, MapGains
  <2>10. QED
    BY <2>1, <2>2, <2>7, <2>9 DEF Map!Insert, Map!Return, Map!Becomes
<1>5. \/ Found(k) = {} /\ \A n \in Node : in[n] = "chain" => key[n] # k
      \/ \E n \in Node : \E prev : /\ Found(k) = {[prev |-> prev, node |-> n]}
                                   /\ in[n] = "chain" /\ key[n] = k
  <2>1. \/ /\ Found(k) = {}
           /\ \A n \in Node : in[n] = "chain" => key[n] # k
        \/ \E n \in Node : \E prev :
              /\ Found(k) = {[prev |-> prev, node |-> n]}
              /\ in[n] = "chain" /\ key[n] = k
              /\ IF n = slots[SlotOf[k]] THEN prev = NULL
                 ELSE /\ prev \in InSlot(in, key, SlotOf[k])
                      /\ next[prev] = n /\ pos[prev] = pos[n] + 1
    BY <1>2, Search
  <2>2. QED
    BY <2>1, Zenon
<1>6. QED
  BY <1>3, <1>4, <1>5

-----------------------------------------------------------------------------
(* The theorems.                                                             *)

\* Every call, and no call, keeps the invariant.
LEMMA StepSound == HInv /\ [Next]_vars => HInv'
<1> SUFFICES ASSUME HInv, [Next]_vars PROVE HInv'
  OBVIOUS
<1>1. CASE UNCHANGED vars
  BY <1>1, SameStep DEF vars
<1>2. ASSUME NEW k \in Sig, hashtable_delete(k) PROVE HInv'
  BY <1>2, DeleteStep
<1>3. ASSUME NEW k \in Sig, hashtable_seek(k) PROVE HInv'
  BY <1>3, SeekStep
<1>4. ASSUME NEW k \in Sig, NEW v \in Info, hashtable_insert(k, v) PROVE HInv'
  BY <1>4, InsertStep
<1>5. ASSUME NEW k \in Sig, NEW v \in Info, hashtable_update(k, v) PROVE HInv'
  BY <1>5, UpdateStep
<1>6. QED
  BY <1>1, <1>2, <1>3, <1>4, <1>5 DEF Next

LEMMA AlwaysHInv == Spec => []HInv
<1>1. Init => HInv
  BY InitSound
<1>2. HInv /\ [Next]_vars => HInv'
  BY StepSound
<1>3. QED
  BY <1>1, <1>2, PTL DEF Spec

\* The nodes of a list, and that it ends.
LEMMA ListWalk ==
  ASSUME NEW p, NEW S, NEW pos \in Position, Listed(p, S, pos, next)
  PROVE  Chain(p) = S /\ At(p)[Cardinality(Node)] = NULL
<1>1. At(p) = Walk(next, p)
  BY Zenon DEF At, Walk
<1>2. Chain(p) = NodesOf(At(p))
  BY Zenon DEF Chain, NodesOf
<1>3. NodesOf(Walk(next, p)) = S /\ Walk(next, p)[Nodes] = NULL
  BY WalkNodes
<1>4. QED
  BY <1>1, <1>2, <1>3 DEF Nodes

\* The nodes in the chains are those the invariant says.
LEMMA ChainsWalk ==
  ASSUME NEW in, NEW pos \in Position, Chains(in, pos)
  PROVE  /\ \A s \in Slot : Chain(slots[s]) = InSlot(in, key, s) /\ At(slots[s])[Cardinality(Node)] = NULL
         /\ InChains = Placed(in, "chain")
<1>1. ASSUME NEW s \in Slot
      PROVE  Chain(slots[s]) = InSlot(in, key, s) /\ At(slots[s])[Cardinality(Node)] = NULL
  <2>1. Listed(slots[s], InSlot(in, key, s), pos, next)
    BY DEF Chains
  <2>2. QED
    BY <2>1, ListWalk
<1>2. InChains = UNION {InSlot(in, key, s) : s \in Slot}
  BY <1>1 DEF InChains
<1>3. \A n \in Node : in[n] = "chain" => SlotOf[key[n]] \in Slot
  BY DEF Chains, Slot
<1>4. \A n : n \in UNION {InSlot(in, key, s) : s \in Slot} <=> n \in Placed(in, "chain")
  <2>1. ASSUME NEW n, n \in UNION {InSlot(in, key, s) : s \in Slot}
        PROVE  n \in Placed(in, "chain")
    BY <2>1 DEF InSlot, Placed
  <2>2. ASSUME NEW n, n \in Placed(in, "chain")
        PROVE  n \in UNION {InSlot(in, key, s) : s \in Slot}
    <3>1. n \in InSlot(in, key, SlotOf[key[n]]) /\ SlotOf[key[n]] \in Slot
      BY <1>3, <2>2 DEF InSlot, Placed
    <3>2. QED
      BY <3>1
  <2>3. QED
    BY <2>1, <2>2
<1>5. QED
  BY <1>1, <1>2, <1>4

LEMMA HInvListsSound == HInv => ListsSound
<1> SUFFICES ASSUME HInv PROVE ListsSound
  OBVIOUS
<1>1. PICK in \in [Node -> Place], pos \in Position, used \in 0 .. MaxNode : Sound(in, pos, used)
  BY DEF HInv
<1>2. Chains(in, pos)
  BY <1>1 DEF Sound
<1>3. /\ \A s \in Slot : Chain(slots[s]) = InSlot(in, key, s) /\ At(slots[s])[Cardinality(Node)] = NULL
      /\ InChains = Placed(in, "chain")
  BY <1>2, ChainsWalk
<1>4. Chain(wasteNodeStart) = Placed(in, "waste") /\ At(wasteNodeStart)[Cardinality(Node)] = NULL
  BY <1>1, ListWalk DEF Sound
<1>5. \A p \in Lists : At(p)[Cardinality(Node)] = NULL
  BY <1>3, <1>4 DEF Lists
<1>6. \A s, t \in Slot : s # t => Chain(slots[s]) \cap Chain(slots[t]) = {}
  BY <1>3 DEF InSlot
<1>7. InChains \cap Chain(wasteNodeStart) = {}
  BY <1>3, <1>4 DEF Placed
<1>8. nodeNum = Cardinality(InChains)
  BY <1>1, <1>3 DEF Sound
<1>9. QED
  BY <1>5, <1>6, <1>7, <1>8 DEF ListsSound

\* Every chain and the free list of the table end, no node is in two of them, and
\* node_num counts the nodes in the chains, whatever is inserted, deleted and reused.
THEOREM ListsStaySound == Spec => []ListsSound
  BY AlwaysHInv, HInvListsSound, PTL

LEMMA HInvFreshIsUnused == HInv => FreshIsUnused
<1> SUFFICES ASSUME HInv, wasteNodeStart = NULL
             PROVE  /\ nodeNum >= blkNum * BlkSize \/ (blkNum >= 1 /\ nodeNum > (blkNum - 1) * BlkSize)
                    /\ FreshNode \notin InChains
  BY DEF FreshIsUnused
<1>1. PICK in \in [Node -> Place], pos \in Position, used \in 0 .. MaxNode : Sound(in, pos, used)
  BY DEF HInv
<1>2. Typed /\ Chains(in, pos)
  BY <1>1 DEF Sound, HInv
<1>3. /\ FreshNode = used
      /\ nodeNum >= blkNum * BlkSize <=> used = blkNum * BlkSize
      /\ used = 0 => blkNum = 0
      /\ used # 0 => blkNum >= 1 /\ nodeNum > (blkNum - 1) * BlkSize
  BY <1>1, <1>2, FreshIsNext
<1>4. InChains = 0 .. (used - 1)
  BY <1>1, <1>2, ChainsWalk, AllInChains
<1>5. used \notin 0 .. (used - 1)
  OBVIOUS
<1>6. CASE used = 0
  <2>1. 0 * BlkSize = 0
    BY HashTableAssumption
  <2>2. QED
    BY <1>3, <1>4, <1>5, <1>6, <2>1
<1>7. CASE used # 0
  BY <1>3, <1>4, <1>5, <1>7
<1>8. QED
  BY <1>6, <1>7

\* When no deleted node is left, the place node_num gives in the last block is one that
\* was never used, whatever was deleted and inserted before: hashtable_insert never takes
\* a node that is in a chain.
THEOREM FreshStaysUnused == Spec => []FreshIsUnused
  BY AlwaysHInv, HInvFreshIsUnused, PTL

LEMMA MapInit == Init => Map!Init
<1> SUFFICES ASSUME Init PROVE Map!Init
  OBVIOUS
<1>1. HInv
  BY InitSound
<1>2. PICK in \in [Node -> Place], pos \in Position, used \in 0 .. MaxNode : Sound(in, pos, used)
  BY <1>1 DEF HInv
<1>3. Chains(in, pos) /\ ContentsOf(in)
  BY <1>2, ContentsFacts DEF Sound, ContentsOfChains
<1>4. \A n \in Node : in[n] # "chain"
  <2>1. Placed(in, "chain") = {}
    <3>1. Cardinality(Placed(in, "chain")) = 0
      BY <1>2 DEF Sound, Init
    <3>2. QED
      BY <3>1, PlacedFinite, FS_EmptySet
  <2>2. QED
    BY <2>1 DEF Placed
<1>5. \A k \in Sig : Contents[k] = None
  BY <1>3, <1>4 DEF ContentsOf
<1>6. Contents = [k \in Sig |-> None]
  BY <1>5, ContentsFunctions
<1>7. QED
  BY <1>6 DEF Map!Init, Init

LEMMA MapStep == HInv /\ [Next]_vars => [Map!Next]_(Map!vars)
<1> SUFFICES ASSUME HInv, [Next]_vars PROVE [Map!Next]_(Map!vars)
  OBVIOUS
<1>1. CASE UNCHANGED vars
  <2>1. /\ slots' = slots /\ next' = next /\ key' = key /\ info' = info
        /\ wasteNodeStart' = wasteNodeStart /\ nodeNum' = nodeNum /\ blkNum' = blkNum
        /\ ret' = ret
    BY <1>1 DEF vars
  <2>2. Contents' = Contents
    BY <2>1, SameStep
  <2>3. QED
    BY <2>1, <2>2 DEF Map!vars
<1>2. ASSUME NEW k \in Sig, hashtable_delete(k) PROVE Map!Next
  BY <1>2, DeleteStep DEF Map!Next
<1>3. ASSUME NEW k \in Sig, hashtable_seek(k) PROVE Map!Next
  BY <1>3, SeekStep DEF Map!Next
<1>4. ASSUME NEW k \in Sig, NEW v \in Info, hashtable_insert(k, v) PROVE Map!Next
  BY <1>4, InsertStep DEF Map!Next
<1>5. ASSUME NEW k \in Sig, NEW v \in Info, hashtable_update(k, v) PROVE Map!Next
  BY <1>5, UpdateStep DEF Map!Next
<1>6. QED
  BY <1>1, <1>2, <1>3, <1>4, <1>5 DEF Next

\* The table is a map: each call changes what hashtable_seek finds as the operation on a
\* map does, and returns what the map's operation returns.
THEOREM TableIsMap == Spec => MapSpec
<1>1. Init => Map!Init
  BY MapInit
<1>2. HInv /\ [Next]_vars => [Map!Next]_(Map!vars)
  BY MapStep
<1>3. QED
  BY <1>1, <1>2, AlwaysHInv, PTL DEF Spec, MapSpec, Map!Spec
=============================================================================
