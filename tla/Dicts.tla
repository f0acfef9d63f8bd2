------------------------------- MODULE Dicts --------------------------------
(***************************************************************************)
(* Any one of the ordered dictionaries of the code, or the table of        *)
(* libdict, with an iterator on it, under any sequence of calls; and what  *)
(* a caller is promised of every call.                                     *)
(***************************************************************************)
EXTENDS Dict

CONSTANTS
  Kinds,        \* the dictionaries to try
  KeysOf,       \* bound: kind |-> the keys it is used with
  Probed,       \* bound: the keys that are probed for
  DataOf,       \* key |-> the data stored under it
  Sizes,        \* sizes the table of chains is given; it starts with the largest
  MaxDrift,     \* bound: how far a count may be above the number of keys
  Steps         \* arguments of nextn and prevn

ASSUME DictsAssumption ==
  /\ Kinds \subseteq {"hb", "rb", "wb", "pr", "sp", "ht", "rbdict"}
  /\ \A kind \in Kinds : KeysOf[kind] \subseteq Key

VARIABLES
  kind,         \* which dictionary it is
  t,            \* the dictionary and its iterator
  up            \* FALSE once a call has followed a pointer that leads nowhere

vars == <<kind, t, up>>

\* The keys that there is data for.
Allocated(s) == {k \in Key : s.dat[k] # None}

RedBlack == {"rb", "rbdict"}
End == IF kind \in RedBlack THEN NIL ELSE NULL

New(which) ==
  CASE which = "hb" -> hb_tree_new
    [] which = "rb" -> rb_tree_new
    [] which = "wb" -> wb_tree_new
    [] which = "pr" -> pr_tree_new
    [] which = "sp" -> sp_tree_new
    [] which = "ht" -> ht_new(Max(Sizes))
    [] which = "rbdict" -> rb_dict_new

Init == kind \in Kinds /\ t = New(kind) /\ up = TRUE

-----------------------------------------------------------------------------
\* A call: an operation, a key, size or number of steps, and data.
Call(ops, ks, ds) == {<<op, k, d>> : op \in ops, k \in ks, d \in ds}
Moves == {"next", "prev", "itor"}
Resets == {"first", "last", "invalidate", "itor_new"}
Whole == {"empty", "destroy", "count", "valid"}
NewItorData == IF t.itor \in Key THEN DataOf[t.itor] ELSE {1}
Calls ==
  Call({"search", "remove"}, KeysOf[kind], {None})
  \cup (IF kind = "rbdict" THEN {} ELSE Call({"csearch"}, Probed, {None}))
  \cup UNION {Call({"insert", "overwrite"}, {k}, DataOf[k]) : k \in KeysOf[kind]}
  \cup UNION {Call({"probe"}, {k}, DataOf[k]) : k \in Probed}
  \cup Call({"nextn", "prevn"}, Steps, {None})
  \cup Call(Moves \cup Resets \cup Whole, {0}, {None})
  \cup (IF kind = "ht" THEN Call({"resize"}, Sizes, {None}) \cup Call({"slots_used"}, {0}, {None})
        ELSE Call({"min", "max", "height", "mheight"}, {0}, {None}))
  \cup (IF kind = "rbdict" THEN {} ELSE Call({"itor_set_data", "itor_remove"}, {0}, {None}))
  \cup (IF kind = "sp" THEN Call({"sp_itor_remove"}, {0}, {None})
                            \cup Call({"sp_itor_set_data"}, {0}, NewItorData)
        ELSE {})

Truth(b) == IF b THEN 1 ELSE 0
Read(n) == IF n = WILD THEN Crashed(t) ELSE R(t, n, None)
\* After a dictionary was destroyed its owner makes a new one.
Anew(r) == IF r.ret[1] = Crash THEN r ELSE [r EXCEPT !.heap = New(kind)]

ViaDict(op, k, d) ==
  CASE op \in {"insert", "overwrite"} -> dict_insert(kind, t, k, d, op = "overwrite")
    [] op = "probe" -> dict_probe(kind, t, k, d)
    [] op = "search" -> dict_search(kind, t, k)
    [] op = "csearch" -> dict_csearch(kind, t, k)
    [] op = "remove" -> dict_remove(kind, t, k)
    [] op = "empty" -> dict_empty(kind, t)
    [] op = "destroy" -> Anew(dict_destroy(kind, t))
    [] op = "count" -> R(t, dict_count(kind, t), None)
    [] op = "itor_new" -> R(dict_itor_new(kind, t), 0, None)
    [] op = "valid" -> R(t, Truth(dict_itor_valid(kind, t)), None)
    [] op = "first" -> dict_itor_first(kind, t)
    [] op = "last" -> dict_itor_last(kind, t)
    [] op = "next" -> dict_itor_next(kind, t)
    [] op = "prev" -> dict_itor_prev(kind, t)
    [] op = "nextn" -> dict_itor_nextn(kind, t, k)
    [] op = "prevn" -> dict_itor_prevn(kind, t, k)
    [] op = "invalidate" -> R(dict_itor_invalidate(kind, t), 0, None)
    [] op = "itor" -> R(t, dict_itor_key(kind, t), dict_itor_data(kind, t))
    [] op = "itor_set_data" -> dict_itor_set_data(kind, t, d)
    [] op = "itor_remove" -> dict_itor_remove(kind, t)

tree_min ==
  CASE kind = "hb" -> hb_tree_min(t)
    [] kind = "rb" -> rb_tree_min(t)
    [] kind = "wb" -> wb_tree_min(t)
    [] kind = "pr" -> pr_tree_min(t)
    [] kind = "sp" -> sp_tree_min(t)
tree_max ==
  CASE kind = "hb" -> hb_tree_max(t)
    [] kind = "rb" -> rb_tree_max(t)
    [] kind = "wb" -> wb_tree_max(t)
    [] kind = "pr" -> pr_tree_max(t)
    [] kind = "sp" -> sp_tree_max(t)
tree_height ==
  CASE kind = "hb" -> hb_tree_height(t)
    [] kind = "rb" -> rb_tree_height(t)
    [] kind = "wb" -> wb_tree_height(t)
    [] kind = "pr" -> pr_tree_height(t)
    [] kind = "sp" -> sp_tree_height(t)
tree_mheight ==
  CASE kind = "hb" -> hb_tree_mheight(t)
    [] kind = "rb" -> rb_tree_mheight(t)
    [] kind = "wb" -> wb_tree_mheight(t)
    [] kind = "pr" -> pr_tree_mheight(t)
    [] kind = "sp" -> sp_tree_mheight(t)

\* What there is beside the calls of dict.c.
Direct(op, k, d) ==
  CASE op = "resize" -> R(ht_resize(t, k), 0, None)
    [] op = "sp_itor_set_data" -> sp_itor_set_data(t, d)
    [] op = "sp_itor_remove" -> sp_itor_remove(t)
    [] op = "slots_used" -> R(t, ht_slots_used(t), None)
    [] op = "height" -> Read(tree_height)
    [] op = "mheight" -> Read(tree_mheight)
    [] op = "min" -> Read(tree_min)
    [] op = "max" -> Read(tree_max)

ViaRbdict(op, k, d) ==
  CASE op \in {"insert", "overwrite"} -> rb_dict_insert(t, k, d, op = "overwrite")
    [] op = "probe" -> rb_dict_probe(t, k, d)
    [] op = "search" -> rb_dict_search(t, k)
    [] op = "remove" -> rb_dict_remove(t, k)
    [] op = "empty" -> rb_dict_empty(t)
    [] op = "destroy" -> Anew(rb_dict_destroy(t))
    [] op = "count" -> R(t, rb_dict_count(t), None)
    [] op = "itor_new" -> R(rb_itor_new(t), 0, None)
    [] op = "valid" -> R(t, Truth(rb_itor_valid(t)), None)
    [] op = "height" -> Read(rb_dict_height(t))
    [] op = "mheight" -> Read(rb_dict_mheight(t))
    [] op = "first" -> rb_itor_first(t)
    [] op = "last" -> rb_itor_last(t)
    [] op = "next" -> rb_itor_next(t)
    [] op = "prev" -> rb_itor_prev(t)
    [] op = "nextn" -> rb_itor_nextn(t, k)
    [] op = "prevn" -> rb_itor_prevn(t, k)
    [] op = "invalidate" -> R(rb_itor_invalidate(t), 0, None)
    [] op = "itor" -> R(t, rb_itor_key(t), rb_itor_data(t))
    [] op = "min" -> Read(rb_dict_min(t))
    [] op = "max" -> Read(rb_dict_max(t))

NotInDict == {"resize", "slots_used", "min", "max", "height", "mheight", "sp_itor_set_data",
              "sp_itor_remove"}
Do(c) ==
  CASE kind = "rbdict" -> ViaRbdict(c[1], c[2], c[3])
    [] kind # "rbdict" /\ c[1] \in NotInDict -> Direct(c[1], c[2], c[3])
    [] OTHER -> IF Given(kind, c[1]) THEN ViaDict(c[1], c[2], c[3]) ELSE Crashed(t)

UsesIterator == Moves \cup {"nextn", "prevn", "sp_itor_set_data", "sp_itor_remove"}

\* A caller may not use an iterator whose node was freed, only set it anew; and it stops
\* inserting when the count is too far from the number of keys (bound).
Legal(c) ==
  /\ t.itor = WILD => c[1] \notin UsesIterator
  /\ c[1] \in {"insert", "overwrite", "probe"} => t.count <= Cardinality(Allocated(t)) + MaxDrift

Step(c) ==
  /\ up /\ Legal(c)
  /\ LET r == Do(c) IN t' = r.heap /\ up' = (r.ret[1] # Crash)
  /\ UNCHANGED kind

Next == \E c \in Calls : Step(c)
Spec == Init /\ [][Next]_vars

-----------------------------------------------------------------------------
\* What a caller sees: a map, the order a walk visits it in, and where the iterator is.
Past == 0               \* the iterator is on no node
Lost == WILD            \* it is on a node that was freed, or has lost its chain
KeysIn(m) == {k \in Key : m[k] # None}
Stored(s, k) ==
  IF kind = "ht" THEN IF Has(s, k) THEN s.dat[k] ELSE None
  ELSE IF Find(s, k) = k THEN s.dat[k] ELSE None
See(s) ==
  [map |-> [k \in Key |-> Stored(s, k)],
   order |-> CASE kind = "ht" -> ht_walk(s) [] kind = "rbdict" -> rb_dict_walk(s)
               [] OTHER -> dict_walk(kind, s),
   at |-> CASE s.itor = End -> Past
            [] kind = "ht" /\ s.itor \in Key /\ s.slot # SlotIn(s, s.itor) -> Lost
            [] OTHER -> s.itor]

\* The key i places after k in the order, and Past when there is none.
After(order, k, i) ==
  LET j == IF k = Past THEN i ELSE i + CHOOSE x \in DOMAIN order : order[x] = k
  IN  IF j \in DOMAIN order THEN order[j] ELSE Past
AfterSteps(order, k, i) == IF i = 0 THEN k ELSE After(order, k, i)

\* An emptied red-black tree has the root NULL, for which no function looks.
Broken(s) == kind \in RedBlack /\ s.root = NULL

\* The calls that crash: a removal of a key that is not in a red-black tree ("it will return
\* -1", rbdict.h:59), steps past the end of one, and what dict.c passes on wrongly.
MayCrash(b, op, k) ==
  \/ kind \in RedBlack /\ op = "remove" /\ b.map[k] = None
  \/ kind \in RedBlack /\ op = "nextn" /\ k > 0 /\ After(b.order, b.at, k - 1) = Past
  \/ kind \in RedBlack /\ op = "prevn" /\ k > 0 /\ After(Reverse(b.order), b.at, k - 1) = Past
  \/ op \in {"itor_set_data", "itor_remove"}
  \/ op = "sp_itor_remove" /\ b.at # Past /\ After(b.order, b.at, 1) = Past
  \/ op = "max" /\ kind \in {"hb", "wb", "pr"}
  \/ op = "prev" /\ b.at = Lost

\* The iterator after k was removed.  Trees that remove the successor's node in place of
\* k's move its contents: an iterator on k is then on the successor, one on that is lost.
AfterRemove(b, k) ==
  LET swaps == kind \in {"hb", "rb", "rbdict", "sp"}
      next == After(b.order, k, 1)
  IN  CASE b.at = k -> IF swaps THEN {Lost, next} \ {Past} ELSE {Lost}
        [] swaps /\ b.at # k /\ b.at # Past /\ b.at = next -> {Lost, b.at}
        [] OTHER -> {b.at}

Changed(b, a, k, d) == a.map = [b.map EXCEPT ![k] = d]
Unmoved(b, a) == a.order = b.order /\ a.at = b.at
Without(order, k) == SelectSeq(order, LAMBDA x : x # k)

\* What a call promises, whichever dictionary it is made on.  rbdict.h says it for rbdict; the
\* headers of libdict say nothing, and what is promised of its dictionaries is what all of them
\* but the ones in Instead do.
Kept(b, op, k, d, a, code, dat) ==
  LET old == b.map[k]
      same == a.map = b.map /\ a.order = b.order
      stays == same /\ a.at = b.at
      asked == a.map = b.map /\ (kind # "ht" => Unmoved(b, a))
      added == Without(a.order, k) = b.order /\ a.at = b.at
      to(i, order) ==
        /\ same
        /\ b.at = Lost \/ a.at = AfterSteps(order, b.at, i)
        /\ code = IF a.at = Past THEN 0 ELSE 1
  IN
  CASE op \in {"insert", "overwrite"} /\ old = None -> Changed(b, a, k, d) /\ added /\ code = 0
    [] op = "insert" /\ old # None -> stays /\ code = 1
    [] op = "overwrite" /\ old # None ->
         Changed(b, a, k, d) /\ Unmoved(b, a) /\ (IF kind = "rbdict" THEN code > 0 ELSE code = 0)
    [] op = "probe" /\ old = None ->
         Changed(b, a, k, d) /\ added /\ code = 1 /\ dat = d
    [] op = "probe" /\ old # None -> asked /\ code = 0 /\ dat = old
    [] op \in {"search", "csearch"} -> asked /\ dat = old
    [] op = "remove" /\ old # None ->
         /\ Changed(b, a, k, None) /\ a.order = Without(b.order, k) /\ a.at \in AfterRemove(b, k)
         /\ code = 0
    [] op = "remove" /\ old = None -> stays /\ code = -1
    [] op = "empty" -> KeysIn(a.map) = {} /\ a.at \in {Past, Lost}
    [] op = "destroy" -> KeysIn(a.map) = {} /\ a.at = Past
    [] op = "height" -> stays /\ code <= Len(b.order) /\ Len(b.order) < 2^(code + 1)
    [] op = "mheight" -> stays /\ (b.order # << >> => Len(b.order) >= 2^(code + 1) - 1)
    [] op = "slots_used" -> stays /\ code = Cardinality({SlotIn(t, x) : x \in KeysIn(b.map)})
    [] op = "valid" -> stays /\ (b.at # Lost => code = Truth(b.at # Past))
    [] op = "count" -> stays /\ code = Len(b.order)
    [] op \in {"first", "itor_new"} -> same /\ a.at = After(b.order, Past, 1)
    [] op = "last" -> same /\ a.at = After(Reverse(b.order), Past, 1)
    [] op = "next" -> to(1, b.order)
    [] op = "prev" -> to(1, Reverse(b.order))
    [] op = "nextn" -> to(k, b.order)
    [] op = "prevn" -> to(k, Reverse(b.order))
    [] op = "invalidate" -> same /\ a.at = Past
    [] op = "itor" ->
         stays /\ (b.at # Lost => /\ code = b.at
                                  /\ dat = IF b.at = Past THEN None ELSE b.map[b.at])
    [] op = "min" -> stays /\ code = After(b.order, Past, 1)
    [] op = "max" -> stays /\ code = After(Reverse(b.order), Past, 1)
    [] op = "resize" -> a.map = b.map
    [] op = "sp_itor_set_data" ->
         IF b.at = Past THEN stays ELSE Changed(b, a, b.at, d) /\ Unmoved(b, a)
    [] op = "sp_itor_remove" ->
         IF b.at = Past THEN stays
         ELSE /\ Changed(b, a, b.at, None) /\ a.order = Without(b.order, b.at)
              /\ a.at = After(b.order, b.at, 1)

\* The calls that do something else, and what they do instead:
\*   an insert that overwrites returns 0 in rbdict, where rbdict.h:30 promises "a positive
\*   value", and frees the old data of a table without storing the new;
\*   a probe of wb, pr and ht stores where the caller keeps the data, not the data;
\*   a removal of what is not there returns 0 in wb and pr, and -1 in the others;
\*   hb counts a key again that an insert overwrites, and ht goes on counting what it was
\*   emptied of;
\*   min of the red-black trees and max of all but sp may find another node, or none.
Instead(b, op, k, d, a, code, dat) ==
  LET old == b.map[k]
      stays == a.map = b.map /\ Unmoved(b, a)
  IN
  \/ /\ op = "overwrite" /\ old # None /\ code = 0 /\ Unmoved(b, a)
     /\ \/ kind = "rbdict" /\ Changed(b, a, k, d)
        \/ kind = "ht" /\ Changed(b, a, k, WILD)
  \/ /\ op = "probe" /\ old = None /\ kind \in {"wb", "pr", "ht"} /\ code = 1 /\ dat = d
     /\ Changed(b, a, k, Addr) /\ Without(a.order, k) = b.order /\ a.at = b.at
  \/ op = "remove" /\ old = None /\ kind \in {"wb", "pr"} /\ code = 0 /\ stays
  \/ op = "count" /\ kind \in {"hb", "ht"} /\ stays
  \/ op = "min" /\ kind \in RedBlack /\ stays
  \/ op = "max" /\ kind # "sp" /\ stays

\* What a call does: what it promises, or what Instead says of it.
Does(b, op, k, d, a, code, dat) ==
  Kept(b, op, k, d, a, code, dat) \/ Instead(b, op, k, d, a, code, dat)

\* Every call does to the map, the order and the iterator what its caller is promised: an
\* insertion or a removal keeps all other keys and the iterator on its key, however many
\* nodes it moves; a step goes to the next key of the order.  Only the calls of Instead do
\* something else, and that in the way it says, and only those of MayCrash follow a pointer
\* that leads nowhere.
KeepsPromise ==
  up /\ ~Broken(t) =>
    LET b == See(t)
    IN  \A c \in Calls :
          Legal(c) => LET r == Do(c)
                      IN  IF r.ret[1] = Crash THEN MayCrash(b, c[1], c[2])
                          ELSE \/ c[1] = "empty" /\ Broken(r.heap)
                               \/ Does(b, c[1], c[2], c[3], See(r.heap), r.ret[1], r.ret[2])

-----------------------------------------------------------------------------
\* The links of a tree agree with each other: a node is where a descent for its key ends,
\* its children call it their parent, and a walk along the links visits the nodes in order.
Ascending(order) == \A i \in 1 .. (Len(order) - 1) : order[i] < order[i + 1]
TreeLinked(s) ==
  /\ s.root = End \/ (s.root \in Key /\ s.parent[s.root] = End)
  /\ \A k \in Allocated(s) :
       /\ Find(s, k) = k
       /\ \A c \in {s.left[k], s.right[k]} \ {End} : c \in Key /\ s.parent[c] = k
  /\ Ascending(See(s).order) /\ Range(See(s).order) = Allocated(s)
ChainsLinked(s) ==
  /\ \A k \in Allocated(s) : Has(s, k)
  /\ \A x \in DOMAIN s.chain : \A i \in DOMAIN s.chain[x] :
       LET k == s.chain[x][i] IN k \in Allocated(s) /\ SlotIn(s, k) = x /\ PlaceIn(s, k) = i
LinksSound == up /\ ~Broken(t) => IF kind = "ht" THEN ChainsLinked(t) ELSE TreeLinked(t)

\* The height of a subtree.
Tall(n) == IF n = End THEN 0 ELSE Height(t, n, End) + 1
RECURSIVE BlackHeights(_)
BlackHeights(n) ==
  IF n = NIL THEN {0}
  ELSE {h + t.aux[n] : h \in BlackHeights(t.left[n]) \cup BlackHeights(t.right[n])}
RbBalanced ==
  /\ t.aux[t.root] = RB_BLACK /\ t.aux[NIL] = RB_BLACK
  /\ Cardinality(BlackHeights(t.root)) = 1
  /\ \A k \in Allocated(t) :
       t.aux[k] = RB_RED => \A c \in {t.left[k], t.right[k]} : t.aux[c] = RB_BLACK
HbBalanced ==
  \A k \in Allocated(t) : t.aux[k] = Tall(t.right[k]) - Tall(t.left[k]) /\ t.aux[k] \in -1 .. 1
WeightsExact == \A k \in Allocated(t) : t.aux[k] = WEIGHT(t, t.left[k]) + WEIGHT(t, t.right[k])

\* Each tree keeps what its rotations go by: a red-black tree has no two red nodes in a row
\* and as many black ones on every branch; hb has heights of siblings that differ by one at
\* most, as its balances say; wb knows the weights of its subtrees.  That these balance, "every
\* node in the tree has a balance p(n) such that alpha <= p(n) <= 1 - alpha" (wb_tree.c:22), is
\* false after the keys 1, 3 and 2 are inserted: wb_tree.c:259 tests the balance of the node
\* again and not that of its child, so that the double rotation to the left never happens; and
\* a removal rotates nothing on its way back.
Balanced ==
  up /\ ~Broken(t) =>
    CASE kind \in RedBlack -> RbBalanced
      [] kind = "hb" -> HbBalanced
      [] kind = "wb" -> WeightsExact
      [] OTHER -> TRUE
=============================================================================
