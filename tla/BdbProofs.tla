----------------------------- MODULE BdbProofs -----------------------------
(***************************************************************************)
(* Proofs about centerbdb: for any number of files, keys, writers and      *)
(* readers, any interval between syncs, and both compilations.             *)
(***************************************************************************)
EXTENDS BdbStore, TLAPS, FiniteSetTheorems

\* A sync of one file writes records where records were.
LEMMA FlushTyped ==
  ASSUME TypeOK, NEW m \in Db, Flush(m)
  PROVE  disk' \in [Key -> Rec \cup {None}] /\ dirty' \in [Db -> SUBSET Key]
<1>1. disk' \in [Key -> Rec \cup {None}]
  <2>1. \A k \in Key : (IF ModOf[k] = m THEN db[k] ELSE disk[k]) \in Rec \cup {None}
    BY DEF TypeOK
  <2>2. QED
    BY <2>1 DEF Flush
<1>2. dirty' \in [Db -> SUBSET Key]
  BY DEF TypeOK, Flush
<1>3. QED
  BY <1>1, <1>2

\* Every reachable state of the store has the types of its variables.
THEOREM TypeCorrect == Spec => []TypeOK
<1>1. Init => TypeOK
  <2> SUFFICES ASSUME Init PROVE TypeOK
    OBVIOUS
  <2>1. cmod \in 0 .. MaxBdbNum
    BY BdbAssumption DEF Init
  <2>2. disk \in [Key -> Rec \cup {None}]
    BY DEF Init
  <2>3. QED
    BY <2>1, <2>2 DEF Init, TypeOK
<1>2. TypeOK /\ [Next]_vars => TypeOK'
  <2> SUFFICES ASSUME TypeOK, [Next]_vars PROVE TypeOK'
    OBVIOUS
  <2> USE BdbAssumption DEF TypeOK, Db
  <2>1. ASSUME NEW w \in Writer, NEW k \in Key, NEW rec \in Rec, Put(w, k, rec) PROVE TypeOK'
    BY <2>1 DEF Put
  <2>2. ASSUME NEW w \in Writer, Count(w) PROVE TypeOK'
    <3>1. cacheNum' \in [Db -> Nat]
      BY <2>2 DEF Count
    <3>2. disk' \in [Key -> Rec \cup {None}] /\ dirty' \in [Db -> SUBSET Key]
      BY <2>2, FlushTyped DEF Count
    <3>3. QED
      BY <2>2, <3>1, <3>2 DEF Count
  <2>3. ASSUME NEW r \in Reader, NEW k \in Key, SearchGet(r, k) PROVE TypeOK'
    BY <2>3 DEF SearchGet
  <2>4. ASSUME NEW r \in Reader, SearchCopy(r) PROVE TypeOK'
    BY <2>4 DEF SearchCopy
  <2>5. CASE RequestStop
    BY <2>5 DEF RequestStop
  <2>6. CASE CmdWake
    BY <2>6 DEF CmdWake
  <2>7. CASE CmdSync
    <3>1. CASE cmod < MaxBdbNum
      BY <2>7, <3>1, FlushTyped DEF CmdSync
    <3>2. CASE ~(cmod < MaxBdbNum)
      BY <2>7, <3>2 DEF CmdSync
    <3>3. QED
      BY <3>1, <3>2
  <2>8. CASE CmdLock
    BY <2>8 DEF CmdLock, ToLock
  <2>9. CASE CmdClose
    BY <2>9 DEF CmdClose
  <2>10. CASE Restart
    <3>1. cmod' \in 0 .. MaxBdbNum
      BY <2>10 DEF Restart
    <3>2. disk' \in [Key -> Rec \cup {None}]
      BY <2>10 DEF Restart
    <3>3. /\ cacheNum' \in [Db -> Nat] /\ dirty' \in [Db -> SUBSET Key]
          /\ lock' \in [Db -> Writer \cup {"cmd", None}] /\ lent' \in [Db -> Rec \cup {None}]
      BY <2>10 DEF Restart
    <3>4. wkey' \in [Writer -> Key \cup {None}] /\ rkey' \in [Reader -> Key \cup {None}]
      BY <2>10 DEF Restart
    <3>5. crashes' \in Nat
      BY <2>10 DEF Restart
    <3>6. radar' \in BOOLEAN /\ stop' \in BOOLEAN
      BY <2>10, Zenon DEF Restart
    <3>7. db' \in [Key -> Rec \cup {None}] /\ cpc' = "sleep"
      BY <2>10 DEF Restart
    <3>8. QED
      BY <3>1, <3>2, <3>3, <3>4, <3>5, <3>6, <3>7
  <2>11. CASE UNCHANGED vars
    BY <2>11 DEF vars
  <2>12. QED
    BY <2>1, <2>2, <2>3, <2>4, <2>5, <2>6, <2>7, <2>8, <2>9, <2>10, <2>11 DEF Next
<1>3. QED
  BY <1>1, <1>2, PTL DEF Spec

----------------------------------------------------------------------------
\* The mutexes cmd_thr has taken when it is about to close the files, and has kept since.
Taken ==
  /\ cpc = "locking" => \A m \in Db : m < cmod => lock[m] = "cmd"
  /\ cpc = "closed" => \A m \in Db : lock[m] = "cmd"

\* cmd_thr holds every mutex when it closes the files and ends the process, so what is on
\* disk then is all that was ever put: no writer can come in between the close and the exit.
THEOREM StopIsClean == Spec => []StopKeepsAll
<1> DEFINE IInv == Taken /\ StopKeepsAll
<1>1. Init => IInv
  BY DEF Init, Taken, StopKeepsAll
<1>2. TypeOK /\ IInv /\ [Next]_vars => IInv'
  <2> SUFFICES ASSUME TypeOK, IInv, [Next]_vars PROVE IInv'
    OBVIOUS
  <2> USE BdbAssumption DEF TypeOK, Db, Taken, StopKeepsAll
  <2>1. ASSUME NEW w \in Writer, NEW k \in Key, NEW rec \in Rec, Put(w, k, rec) PROVE IInv'
    <3>1. lock[ModOf[k]] = None /\ None # "cmd" /\ ModOf[k] \in Db
      BY <2>1 DEF Put
    <3>2. cpc # "closed"
      BY <3>1
    <3>3. QED
      BY <2>1, <3>2 DEF Put
  <2>2. ASSUME NEW w \in Writer, Count(w) PROVE IInv'
    <3>1. wkey[w] \in Key
      BY <2>2 DEF Count
    <3>2. lock[ModOf[wkey[w]]] = None /\ None # "cmd" /\ ModOf[wkey[w]] \in Db
      BY <2>2, <3>1 DEF Count
    <3>3. cpc # "closed"
      BY <3>2
    <3>4. QED
      BY <2>2, <3>3 DEF Count
  <2>3. ASSUME NEW r \in Reader, NEW k \in Key, SearchGet(r, k) PROVE IInv'
    BY <2>3 DEF SearchGet
  <2>4. ASSUME NEW r \in Reader, SearchCopy(r) PROVE IInv'
    BY <2>4 DEF SearchCopy
  <2>5. CASE RequestStop
    BY <2>5 DEF RequestStop
  <2>6. CASE CmdWake
    BY <2>6 DEF CmdWake
  <2>7. CASE CmdSync
    BY <2>7 DEF CmdSync
  <2>8. CASE CmdLock
    BY <2>8 DEF CmdLock, ToLock
  <2>9. CASE CmdClose
    BY <2>9 DEF CmdClose, ToLock
  <2>10. CASE Restart
    BY <2>10 DEF Restart
  <2>11. CASE UNCHANGED vars
    BY <2>11 DEF vars
  <2>12. QED
    BY <2>1, <2>2, <2>3, <2>4, <2>5, <2>6, <2>7, <2>8, <2>9, <2>10, <2>11 DEF Next
<1>3. IInv => StopKeepsAll
  OBVIOUS
<1>4. QED
  BY <1>1, <1>2, <1>3, TypeCorrect, PTL DEF Spec

----------------------------------------------------------------------------
\* A key that is on disk is in the open file; in the center with the same record.
DiskInDb == \A k \in Key : disk[k] # None => db[k] # None /\ (~radar => db[k] = disk[k])

LEMMA DiskInDbInvariant == Spec => []DiskInDb
<1>1. Init => DiskInDb
  BY DEF Init, DiskInDb
<1>2. TypeOK /\ DiskInDb /\ [Next]_vars => DiskInDb'
  <2> SUFFICES ASSUME TypeOK, DiskInDb, [Next]_vars PROVE DiskInDb'
    OBVIOUS
  <2> USE BdbAssumption DEF TypeOK, DiskInDb
  <2>1. ASSUME NEW w \in Writer, NEW k \in Key, NEW rec \in Rec, Put(w, k, rec) PROVE DiskInDb'
    BY <2>1 DEF Put
  <2>2. ASSUME NEW w \in Writer, Count(w) PROVE DiskInDb'
    BY <2>2 DEF Count, Flush
  <2>3. ASSUME NEW r \in Reader, NEW k \in Key, SearchGet(r, k) PROVE DiskInDb'
    BY <2>3 DEF SearchGet
  <2>4. ASSUME NEW r \in Reader, SearchCopy(r) PROVE DiskInDb'
    BY <2>4 DEF SearchCopy
  <2>5. CASE RequestStop \/ CmdWake \/ CmdLock
    BY <2>5 DEF RequestStop, CmdWake, CmdLock
  <2>6. CASE CmdSync
    BY <2>6 DEF CmdSync, Flush
  <2>7. CASE CmdClose
    BY <2>7 DEF CmdClose
  <2>8. CASE Restart
    BY <2>8 DEF Restart
  <2>9. CASE UNCHANGED vars
    BY <2>9 DEF vars
  <2>10. QED
    BY <2>1, <2>2, <2>3, <2>4, <2>5, <2>6, <2>7, <2>8, <2>9 DEF Next
<1>3. QED
  BY <1>1, <1>2, TypeCorrect, PTL DEF Spec

\* What a sync has written survives every later crash, and in the center, which inserts
\* with DB_NOOVERWRITE, it stays the first record of its URL.
THEOREM SyncedSurvives == Spec => SyncedForever
<1>1. TypeOK /\ DiskInDb /\ [Next]_vars => [SyncedStep]_vars
  <2> SUFFICES ASSUME TypeOK, DiskInDb, Next PROVE SyncedStep
    BY DEF SyncedStep
  <2> USE BdbAssumption DEF TypeOK, DiskInDb, SyncedStep
  <2>1. ASSUME NEW w \in Writer, NEW k \in Key, NEW rec \in Rec, Put(w, k, rec) PROVE SyncedStep
    BY <2>1 DEF Put
  <2>2. ASSUME NEW w \in Writer, Count(w) PROVE SyncedStep
    BY <2>2 DEF Count, Flush
  <2>3. ASSUME NEW r \in Reader, NEW k \in Key, SearchGet(r, k) PROVE SyncedStep
    BY <2>3 DEF SearchGet
  <2>4. ASSUME NEW r \in Reader, SearchCopy(r) PROVE SyncedStep
    BY <2>4 DEF SearchCopy
  <2>5. CASE RequestStop \/ CmdWake \/ CmdLock
    BY <2>5 DEF RequestStop, CmdWake, CmdLock
  <2>6. CASE CmdSync
    BY <2>6 DEF CmdSync, Flush
  <2>7. CASE CmdClose
    BY <2>7 DEF CmdClose
  <2>8. CASE Restart
    BY <2>8 DEF Restart
  <2>9. QED
    BY <2>1, <2>2, <2>3, <2>4, <2>5, <2>6, <2>7, <2>8 DEF Next
<1>2. [][SyncedStep]_vars => SyncedForever
  BY PTL DEF SyncedForever
<1>3. QED
  BY <1>1, <1>2, TypeCorrect, DiskInDbInvariant, PTL DEF Spec

----------------------------------------------------------------------------
\* In the center one thread searches, and the record it has got stays as it is until it is
\* copied: it is on file, and the center replaces no record.
OneSearcher ==
  ~radar => \A r \in Reader : rkey[r] # None =>
    /\ r = CenterReader
    /\ db[rkey[r]] # None
    /\ lent[ModOf[rkey[r]]] = db[rkey[r]]

\* The copy that neo_bdb_search makes without the mutex is of the record it searched for,
\* for as long as only one thread of the center uses what it returns.
THEOREM CopyIsOwn == Spec => []SearchOwn
<1>1. Init => OneSearcher
  BY DEF Init, OneSearcher
<1>2. TypeOK /\ OneSearcher /\ [Next]_vars => OneSearcher'
  <2> SUFFICES ASSUME TypeOK, OneSearcher, [Next]_vars PROVE OneSearcher'
    OBVIOUS
  <2> USE BdbAssumption DEF TypeOK, OneSearcher
  <2>1. ASSUME NEW w \in Writer, NEW k \in Key, NEW rec \in Rec, Put(w, k, rec)
        PROVE  OneSearcher'
    <3>1. ~radar => db[k] = None
      BY <2>1 DEF Put
    <3>2. QED
      BY <2>1, <3>1 DEF Put
  <2>2. ASSUME NEW w \in Writer, Count(w) PROVE OneSearcher'
    BY <2>2 DEF Count
  <2>3. ASSUME NEW r \in Reader, NEW k \in Key, SearchGet(r, k) PROVE OneSearcher'
    <3>1. ~radar => r = CenterReader /\ \A q \in Reader : rkey[q] = None
      BY <2>3 DEF SearchGet, Searches
    <3>2. rkey' = [rkey EXCEPT ![r] = k] /\ db' = db /\ radar' = radar /\ db[k] # None
      BY <2>3 DEF SearchGet
    <3>3. lent'[ModOf[k]] = db[k]
      BY <2>3 DEF SearchGet
    <3>4. QED
      BY <3>1, <3>2, <3>3
  <2>4. ASSUME NEW r \in Reader, SearchCopy(r) PROVE OneSearcher'
    <3>1. radar' = radar /\ rkey' = [rkey EXCEPT ![r] = None] /\ rkey[r] # None
      BY <2>4 DEF SearchCopy
    <3>2. ~radar => \A q \in Reader : rkey'[q] = None
      BY <3>1
    <3>3. QED
      BY <3>1, <3>2
  <2>5. CASE RequestStop \/ CmdWake \/ CmdLock
    BY <2>5 DEF RequestStop, CmdWake, CmdLock
  <2>6. CASE CmdSync \/ CmdClose
    BY <2>6 DEF CmdSync, CmdClose
  <2>7. CASE Restart
    BY <2>7 DEF Restart
  <2>8. CASE UNCHANGED vars
    BY <2>8 DEF vars
  <2>9. QED
    BY <2>1, <2>2, <2>3, <2>4, <2>5, <2>6, <2>7, <2>8 DEF Next
<1>3. OneSearcher => SearchOwn
  BY DEF OneSearcher, SearchOwn
<1>4. QED
  BY <1>1, <1>2, <1>3, TypeCorrect, PTL DEF Spec

----------------------------------------------------------------------------
\* The count of a file's inserts modulo the interval goes up by one until a sync is due.
LEMMA NextResidue ==
  ASSUME NEW n \in Nat
  PROVE  /\ n % SyncEvery \in Nat
         /\ ~SyncDue(n + 1) => (n + 1) % SyncEvery = (n % SyncEvery) + 1
<1> DEFINE S == SyncEvery
<1>0. S \in Nat \ {0}
  BY BdbAssumption
<1> HIDE DEF S
<1>1. n % S \in 0 .. (S - 1) /\ n \div S \in Int /\ n = S * (n \div S) + (n % S)
  BY <1>0
<1>2. (n + 1) % S \in 0 .. (S - 1) /\ (n + 1) \div S \in Int
      /\ n + 1 = S * ((n + 1) \div S) + ((n + 1) % S)
  BY <1>0
<1>3. ASSUME NEW q \in Int, NEW p \in Int, NEW a \in 0 .. S, NEW b \in 0 .. (S - 1),
             S * q + a = S * p + b, b # 0
      PROVE  a = b
  <2>1. S * (q - p) = b - a
    BY <1>0, <1>3
  <2>2. CASE q - p >= 1
    BY <1>0, <1>3, <2>1, <2>2
  <2>3. CASE q - p <= -1
    BY <1>0, <1>3, <2>1, <2>3
  <2>4. CASE q = p
    BY <1>0, <1>3, <2>4
  <2>5. QED
    BY <2>2, <2>3, <2>4
<1>4. (n + 1) % S # 0 => (n + 1) % S = (n % S) + 1
  <2>1. n \div S \in Int /\ (n + 1) \div S \in Int
    BY <1>1, <1>2
  <2>2. (n % S) + 1 \in 0 .. S /\ (n + 1) % S \in 0 .. (S - 1)
    BY <1>0, <1>1, <1>2
  <2>3. S * (n \div S) + ((n % S) + 1) = S * ((n + 1) \div S) + ((n + 1) % S)
    <3>1. S * (n \div S) \in Int /\ n % S \in Int
      BY <1>0, <1>1
    <3>2. QED
      BY <1>1, <1>2, <3>1
  <2>4. QED
    BY <1>3, <2>1, <2>2, <2>3
<1>5. QED
  BY <1>1, <1>4 DEF S, SyncDue

\* The bound of one file, with what makes it inductive: its dirty set is finite.
FileBounded(m) ==
  /\ IsFiniteSet(dirty[m])
  /\ \A k \in Key : ModOf[k] = m /\ db[k] # disk[k] => k \in dirty[m]
  /\ Cardinality(dirty[m]) <= (cacheNum[m] % SyncEvery) + Cardinality(Uncounted(m))

LEMMA UncountedFinite ==
  ASSUME NEW m \in Db
  PROVE  /\ IsFiniteSet(Uncounted(m)) /\ Cardinality(Uncounted(m)) \in Nat
         /\ IsFiniteSet(Uncounted(m)') /\ Cardinality(Uncounted(m)') \in Nat
<1>1. Uncounted(m) \subseteq Writer /\ Uncounted(m)' \subseteq Writer
  BY DEF Uncounted
<1>2. IsFiniteSet(Uncounted(m)) /\ IsFiniteSet(Uncounted(m)')
  BY <1>1, FS_Subset, BdbAssumption
<1>3. QED
  BY <1>2, FS_CardinalityType

\* A file that has just been synced is within the bound.
LEMMA CleanBounded ==
  ASSUME NEW m \in Db, TypeOK', dirty'[m] = {}, \A k \in Key : ModOf[k] = m => db'[k] = disk'[k]
  PROVE  FileBounded(m)'
<1>1. cacheNum'[m] % SyncEvery \in Nat
  <2>1. cacheNum'[m] \in Nat
    BY DEF TypeOK
  <2>2. QED
    BY <2>1, NextResidue
<1>2. IsFiniteSet(dirty'[m]) /\ Cardinality(dirty'[m]) = 0
  BY FS_EmptySet
<1>3. QED
  BY <1>1, <1>2, UncountedFinite DEF FileBounded

\* A file that a step does not touch stays within the bound.
LEMMA UntouchedBounded ==
  ASSUME NEW m \in Db, FileBounded(m),
         dirty'[m] = dirty[m], cacheNum'[m] = cacheNum[m], Uncounted(m)' = Uncounted(m),
         \A k \in Key : ModOf[k] = m => db'[k] = db[k] /\ disk'[k] = disk[k]
  PROVE  FileBounded(m)'
  BY DEF FileBounded

\* What a crash can take from a file is bounded by the inserts since the last multiple of
\* the sync interval and the writers between their two critical sections, although the
\* put and its count are not atomic.
THEOREM LossBounded == Spec => []UnsyncedBounded
<1> DEFINE IInv == \A m \in Db : FileBounded(m)
<1>1. Init => IInv
  <2> SUFFICES ASSUME Init, NEW m \in Db PROVE FileBounded(m)
    OBVIOUS
  <2>1. dirty[m] = {} /\ cacheNum[m] = 0 /\ db = disk
    BY DEF Init
  <2>2. cacheNum[m] % SyncEvery \in Nat
    BY <2>1, NextResidue
  <2>3. IsFiniteSet(dirty[m]) /\ Cardinality(dirty[m]) = 0
    BY <2>1, FS_EmptySet
  <2>4. QED
    BY <2>1, <2>2, <2>3, UncountedFinite DEF FileBounded
<1>2. TypeOK /\ TypeOK' /\ IInv /\ [Next]_vars => IInv'
  <2> SUFFICES ASSUME TypeOK, TypeOK', IInv, [Next]_vars, NEW m \in Db PROVE FileBounded(m)'
    BY DEF Db
  <2>0. FileBounded(m) /\ IsFiniteSet(dirty[m]) /\ Cardinality(dirty[m]) \in Nat
    BY FS_CardinalityType DEF FileBounded
  <2>1. ASSUME NEW w \in Writer, NEW k \in Key, NEW rec \in Rec, Put(w, k, rec)
        PROVE  FileBounded(m)'
    <3>0. /\ db' = [db EXCEPT ![k] = rec] /\ wkey' = [wkey EXCEPT ![w] = k] /\ wkey[w] = None
          /\ dirty' = [dirty EXCEPT ![ModOf[k]] = @ \cup {k}]
          /\ UNCHANGED <<disk, cacheNum>> /\ k # None
      BY <2>1, BdbAssumption DEF Put
    <3>1. CASE ModOf[k] # m
      <4>1. Uncounted(m)' = Uncounted(m)
        BY <3>0, <3>1, BdbAssumption DEF Uncounted, TypeOK
      <4>2. QED
        BY <2>0, <3>0, <3>1, <4>1, UntouchedBounded DEF TypeOK
    <3>2. CASE ModOf[k] = m
      <4>1. Uncounted(m)' = Uncounted(m) \cup {w} /\ w \notin Uncounted(m)
        BY <3>0, <3>2, BdbAssumption DEF Uncounted, TypeOK
      <4>2. Cardinality(Uncounted(m)') = Cardinality(Uncounted(m)) + 1
        BY <4>1, UncountedFinite, FS_AddElement
      <4>3. dirty'[m] = dirty[m] \cup {k}
        BY <3>0, <3>2 DEF TypeOK
      <4>4. /\ IsFiniteSet(dirty'[m])
            /\ Cardinality(dirty'[m]) <= Cardinality(dirty[m]) + 1
        <5>1. CASE k \in dirty[m]
          <6>1. dirty'[m] = dirty[m]
            BY <4>3, <5>1
          <6>2. QED
            BY <2>0, <6>1
        <5>2. CASE k \notin dirty[m]
          <6>1. Cardinality(dirty'[m]) = Cardinality(dirty[m]) + 1 /\ IsFiniteSet(dirty'[m])
            BY <2>0, <4>3, <5>2, FS_AddElement
          <6>2. QED
            BY <2>0, <6>1
        <5>3. QED
          BY <5>1, <5>2
      <4>5. Cardinality(dirty'[m]) \in Nat
        BY <4>4, FS_CardinalityType
      <4>6. cacheNum'[m] = cacheNum[m] /\ cacheNum[m] % SyncEvery \in Nat
        BY <3>0, NextResidue DEF TypeOK
      <4>7. \A j \in Key : ModOf[j] = m /\ db'[j] # disk'[j] => j \in dirty'[m]
        BY <2>0, <3>0, <4>3 DEF FileBounded, TypeOK
      <4>8. Cardinality(dirty'[m]) <= (cacheNum'[m] % SyncEvery) + Cardinality(Uncounted(m)')
        BY <2>0, <4>2, <4>4, <4>5, <4>6, UncountedFinite DEF FileBounded
      <4>9. QED
        BY <4>4, <4>7, <4>8 DEF FileBounded
    <3>3. QED
      BY <3>1, <3>2
  <2>2. ASSUME NEW w \in Writer, Count(w) PROVE FileBounded(m)'
    <3>0. /\ wkey[w] \in Key /\ wkey[w] # None /\ ModOf[wkey[w]] \in Db
          /\ wkey' = [wkey EXCEPT ![w] = None] /\ db' = db
          /\ cacheNum' = [cacheNum EXCEPT ![ModOf[wkey[w]]] = @ + 1]
          /\ IF SyncDue(cacheNum[ModOf[wkey[w]]] + 1)
               THEN Flush(ModOf[wkey[w]]) ELSE UNCHANGED <<disk, dirty>>
      BY <2>2, BdbAssumption DEF Count, TypeOK
    <3>1. CASE ModOf[wkey[w]] # m
      <4>1. Uncounted(m)' = Uncounted(m)
        BY <3>0, <3>1, BdbAssumption DEF Uncounted, TypeOK
      <4>2. dirty'[m] = dirty[m] /\ \A k \in Key : ModOf[k] = m => disk'[k] = disk[k]
        BY <3>0, <3>1 DEF Flush, TypeOK
      <4>3. cacheNum'[m] = cacheNum[m]
        BY <3>0, <3>1 DEF TypeOK
      <4>4. QED
        BY <2>0, <3>0, <4>1, <4>2, <4>3, UntouchedBounded
    <3>2. CASE ModOf[wkey[w]] = m /\ SyncDue(cacheNum[m] + 1)
      <4>1. dirty'[m] = {} /\ \A k \in Key : ModOf[k] = m => db'[k] = disk'[k]
        BY <3>0, <3>2 DEF Flush, TypeOK
      <4>2. QED
        BY <4>1, CleanBounded
    <3>3. CASE ModOf[wkey[w]] = m /\ ~SyncDue(cacheNum[m] + 1)
      <4>1. Uncounted(m)' = Uncounted(m) \ {w} /\ w \in Uncounted(m)
        BY <3>0, <3>3, BdbAssumption DEF Uncounted, TypeOK
      <4>2. Cardinality(Uncounted(m)') = Cardinality(Uncounted(m)) - 1
        BY <4>1, UncountedFinite, FS_RemoveElement
      <4>3. cacheNum'[m] = cacheNum[m] + 1 /\ cacheNum[m] \in Nat
        BY <3>0, <3>3 DEF TypeOK
      <4>4. /\ cacheNum'[m] % SyncEvery = (cacheNum[m] % SyncEvery) + 1
            /\ cacheNum[m] % SyncEvery \in Nat
        BY <3>3, <4>3, NextResidue
      <4>5. dirty' = dirty /\ disk' = disk
        BY <3>0, <3>3
      <4>6. Cardinality(dirty'[m]) <= (cacheNum'[m] % SyncEvery) + Cardinality(Uncounted(m)')
        BY <2>0, <4>2, <4>4, <4>5, UncountedFinite DEF FileBounded
      <4>7. QED
        BY <2>0, <3>0, <4>5, <4>6 DEF FileBounded
    <3>4. QED
      BY <3>1, <3>2, <3>3
  <2>3. ASSUME UNCHANGED <<db, disk, dirty, cacheNum, wkey>> PROVE FileBounded(m)'
    BY <2>0, <2>3, UntouchedBounded DEF Uncounted
  <2>4. ASSUME NEW r \in Reader, NEW k \in Key, SearchGet(r, k) PROVE FileBounded(m)'
    BY <2>3, <2>4 DEF SearchGet
  <2>5. ASSUME NEW r \in Reader, SearchCopy(r) PROVE FileBounded(m)'
    BY <2>3, <2>5 DEF SearchCopy
  <2>6. CASE RequestStop \/ CmdWake \/ CmdLock
    BY <2>3, <2>6 DEF RequestStop, CmdWake, CmdLock
  <2>7. CASE CmdSync
    <3>1. db' = db /\ cacheNum' = cacheNum /\ wkey' = wkey
      BY <2>7 DEF CmdSync
    <3>2. CASE cmod < MaxBdbNum /\ cmod = m
      <4>1. dirty'[m] = {} /\ \A k \in Key : ModOf[k] = m => db'[k] = disk'[k]
        BY <2>7, <3>1, <3>2 DEF CmdSync, Flush, TypeOK
      <4>2. QED
        BY <4>1, CleanBounded
    <3>3. CASE cmod < MaxBdbNum /\ cmod # m
      <4>1. dirty'[m] = dirty[m] /\ \A k \in Key : ModOf[k] = m => disk'[k] = disk[k]
        BY <2>7, <3>3 DEF CmdSync, Flush, TypeOK
      <4>2. Uncounted(m)' = Uncounted(m)
        BY <3>1 DEF Uncounted
      <4>3. QED
        BY <2>0, <3>1, <4>1, <4>2, UntouchedBounded
    <3>4. CASE ~(cmod < MaxBdbNum)
      BY <2>3, <2>7, <3>4 DEF CmdSync
    <3>5. QED
      BY <3>2, <3>3, <3>4
  <2>8. CASE CmdClose
    BY <2>8, CleanBounded DEF CmdClose
  <2>9. CASE Restart
    BY <2>9, CleanBounded DEF Restart
  <2>10. CASE UNCHANGED vars
    BY <2>3, <2>10 DEF vars
  <2>11. QED
    BY <2>1, <2>2, <2>4, <2>5, <2>6, <2>7, <2>8, <2>9, <2>10 DEF Next
<1>3. IInv => UnsyncedBounded
  BY DEF FileBounded, UnsyncedBounded
<1>4. QED
  BY <1>1, <1>2, <1>3, TypeCorrect, PTL DEF Spec
=============================================================================
