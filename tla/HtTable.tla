------------------------------ MODULE HtTable -------------------------------
(***************************************************************************)
(* libdict-1.0/hashtable.c: a table of chains that moves what is asked for *)
(* one place to the front.  A table and its iterator are one record        *)
(*                                                                         *)
(*   [size, chain, dat, count, itor, slot]                                 *)
(*                                                                         *)
(* A node is named by the key in it, as in TreeLinks; a key hashes to      *)
(* itself.  slot is the iterator's: the chain its node was in when it came *)
(* there.                                                                  *)
(***************************************************************************)
EXTENDS TreeLinks, SequencesExt

ht_new(size) ==
  [size |-> size, chain |-> [s \in 0 .. (size - 1) |-> << >>], dat |-> [k \in Key |-> None],
   count |-> 0, itor |-> NULL, slot |-> 0]
ht_dict_new == {"inew", "destroy", "insert", "probe", "search", "csearch", "remove",
                "empty", "walk", "count"}
ht_dict_itor_new == {"destroy", "valid", "invalid", "next", "prev", "nextn", "prevn",
                     "first", "last", "key", "data", "cdata"}

SlotIn(t, k) == k % t.size
ChainOf(t, k) == t.chain[SlotIn(t, k)]
Has(t, k) == Contains(ChainOf(t, k), k)
PlaceIn(t, k) == CHOOSE i \in DOMAIN ChainOf(t, k) : ChainOf(t, k)[i] = k

Prepend(t, k, d) ==
  [t EXCEPT !.chain[SlotIn(t, k)] = <<k>> \o @, !.dat[k] = d, !.count = @ + 1]

\* An overwriting insertion gives the old key and data to the del functions, stores nothing
\* in their place and forgets the new node.
ht_insert(t, k, d, overwrite) ==
  IF ~Has(t, k) THEN R(Prepend(t, k, d), 0, None)
  ELSE IF overwrite THEN R([t EXCEPT !.dat[k] = WILD], 0, None)
  ELSE R(t, 1, None)

\* SWAP with the node before it in the chain: an iterator stays on its node, which holds
\* the other key now.
Transpose(t, k) ==
  LET i == PlaceIn(t, k)
      before == ChainOf(t, k)[i - 1]
  IN  IF i = 1 THEN t
      ELSE [t EXCEPT !.chain[SlotIn(t, k)] = [@ EXCEPT ![i - 1] = k, ![i] = before],
                     !.itor = CASE @ = k -> before [] @ = before -> k [] OTHER -> @]

\* The new node gets the pointer to the caller's variable.
ht_probe(t, k, d) ==
  IF Has(t, k) THEN R(Transpose(t, k), 0, t.dat[k]) ELSE R(Prepend(t, k, Addr), 1, d)

ht_search(t, k) == IF Has(t, k) THEN R(Transpose(t, k), 0, t.dat[k]) ELSE R(t, 0, None)
ht_csearch(t, k) == ht_search(t, k)

ht_remove(t, k) ==
  IF ~Has(t, k) THEN R(t, -1, None)
  ELSE R([t EXCEPT !.chain[SlotIn(t, k)] = RemoveAt(@, PlaceIn(t, k)), !.dat[k] = None,
                   !.count = @ - 1, !.itor = IF @ = k THEN WILD ELSE @], 0, None)

\* Frees every node; the count stays.
ht_empty(t) ==
  [ht_new(t.size) EXCEPT !.count = t.count, !.slot = t.slot,
                         !.itor = IF t.itor \in Key THEN WILD ELSE t.itor]
ht_destroy(t) == R(ht_empty(t), 0, None)

Slots(t) == [i \in 1 .. t.size |-> t.chain[i - 1]]
ht_walk(t) == FlattenSeq(Slots(t))
ht_count(t) == t.count
ht_size(t) == t.size
ht_slots_used(t) == Cardinality({s \in DOMAIN t.chain : t.chain[s] # << >>})

\* Every node goes to the head of its new chain, in the order of a walk.
ht_resize(t, size) ==
  LET moved(s) == Reverse(SelectSeq(ht_walk(t), LAMBDA k : k % size = s))
  IN  IF size = t.size THEN t
      ELSE [t EXCEPT !.size = size, !.chain = [s \in 0 .. (size - 1) |-> moved(s)]]

-----------------------------------------------------------------------------
\* The first chain from slot s on that is not empty, or the last one up to s.
Filled(t, range) == {s \in range : s \in DOMAIN t.chain /\ t.chain[s] # << >>}

ht_itor_first(t) ==
  LET filled == Filled(t, 0 .. (t.size - 1))
      s == Min(filled)
  IN  IF filled = {} THEN [t EXCEPT !.itor = NULL]
      ELSE [t EXCEPT !.itor = Head(t.chain[s]), !.slot = s]

ht_itor_last(t) ==
  LET filled == Filled(t, 0 .. (t.size - 1))
      s == Max(filled)
  IN  IF filled = {} THEN [t EXCEPT !.itor = NULL]
      ELSE [t EXCEPT !.itor = Last(t.chain[s]), !.slot = s]

\* Past the end of its chain the iterator goes by its slot, which is that of the chain
\* unless the table was resized.
ht_itor_next(t) ==
  LET chain == ChainOf(t, t.itor)
      i == PlaceIn(t, t.itor)
      filled == Filled(t, (t.slot + 1) .. (t.size - 1))
      s == Min(filled)
  IN  CASE t.itor = NULL -> ht_itor_first(t)
        [] t.itor # NULL /\ i < Len(chain) -> [t EXCEPT !.itor = chain[i + 1]]
        [] t.itor # NULL /\ i = Len(chain) /\ filled = {} ->
             [t EXCEPT !.itor = NULL, !.slot = 0]
        [] OTHER -> [t EXCEPT !.itor = Head(t.chain[s]), !.slot = s]

\* The slots above the size, to which a stale slot may point, are read out of the table.
ht_itor_prev(t) ==
  LET chain == ChainOf(t, t.itor)
      i == PlaceIn(t, t.itor)
      filled == Filled(t, 0 .. (t.slot - 1))
      s == Max(filled)
  IN  CASE t.itor = NULL -> ht_itor_last(t)
        [] t.itor # NULL /\ i > 1 -> [t EXCEPT !.itor = chain[i - 1]]
        [] t.itor # NULL /\ i = 1 /\ t.slot > t.size -> [t EXCEPT !.itor = WILD]
        [] t.itor # NULL /\ i = 1 /\ t.slot <= t.size /\ filled = {} ->
             [t EXCEPT !.itor = NULL, !.slot = -1]
        [] OTHER -> [t EXCEPT !.itor = Last(t.chain[s]), !.slot = s]

\* while (count) { if (!ht_itor_next(itor)) break; count--; }
RECURSIVE ht_itor_nextn(_, _)
ht_itor_nextn(t, c) ==
  LET s == ht_itor_next(t)
  IN  IF c = 0 THEN t ELSE IF s.itor = NULL THEN s ELSE ht_itor_nextn(s, c - 1)

RECURSIVE ht_itor_prevn(_, _)
ht_itor_prevn(t, c) ==
  LET s == ht_itor_prev(t)
  IN  IF c = 0 THEN t ELSE IF s.itor \in {NULL, WILD} THEN s ELSE ht_itor_prevn(s, c - 1)

ht_itor_new(t) == ht_itor_first([t EXCEPT !.itor = NULL, !.slot = 0])
ht_itor_valid(t) == t.itor # NULL
ht_itor_invalidate(t) == [t EXCEPT !.itor = NULL, !.slot = 0]
ht_itor_key(t) == ItorKey(t, NULL)
ht_itor_data(t) == ItorData(t, NULL)
=============================================================================
