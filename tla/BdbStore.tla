------------------------------ MODULE BdbStore ------------------------------
(***************************************************************************)
(* centerbdb.c: the record store of the center and of neoradar.  Records   *)
(* are spread over MAX_BDB_NUM Berkeley DB files by their key; each file   *)
(* has a mutex and a count of its inserts, and is synced at every          *)
(* SyncEvery-th.  cmd_thr syncs every file now and then and, when the stop *)
(* file appears, takes all the mutexes, closes the files and ends the      *)
(* process.  There are two compilations: the center keeps the first record *)
(* of a key, neoradar (-DRADAR) the last.                                  *)
(*                                                                         *)
(* Berkeley DB itself is external: an open file is a function from keys to *)
(* records, and a crash keeps, for each key, what the file holds or what   *)
(* it held when last synced.                                               *)
(***************************************************************************)
EXTENDS Integers, FiniteSets

CONSTANTS
  Key,          \* record keys: the first 8 bytes of an MD5
  Rec,          \* record contents
  None,         \* no record, no key, no thread
  Writer,       \* threads that insert
  Reader,       \* threads that search
  CenterReader, \* select_update_thr, the one that searches in the center
  MaxBdbNum,    \* MAX_BDB_NUM
  ModOf,        \* key |-> index of its file
  SyncEvery,    \* 64 in the center, 128 in neoradar
  MaxInsert,    \* bound: inserts counted for a file
  MaxCrash      \* bound: process deaths and restarts

Db == 0 .. (MaxBdbNum - 1)

ASSUME BdbAssumption ==
  /\ None \notin Rec \cup Key \cup Writer \cup {"cmd"}
  /\ IsFiniteSet(Writer)
  /\ CenterReader \in Reader
  /\ MaxBdbNum \in Nat \ {0}
  /\ ModOf \in [Key -> Db]
  /\ SyncEvery \in Nat \ {0}
  /\ MaxInsert \in Nat /\ MaxCrash \in Nat

VARIABLES
  radar,        \* was the code compiled with -DRADAR
  db,           \* what the open files hold
  disk,         \* what a crash cannot take back
  dirty,        \* ghost: for each file, the keys put since its last sync
  cacheNum,     \* for each file, the inserts counted
  lock,         \* bdb_mutex: its owner, when it is kept beyond one action
  wkey,         \* the key a writer has put and not yet counted
  rkey,         \* the key whose record a reader has got and not yet copied
  lent,         \* the buffer in which a DB handle lends the record it got
  stop,         \* the stop file exists
  cpc, cmod,    \* where cmd_thr is, and its loop index
  crashes       \* bound counter

vars == <<radar, db, disk, dirty, cacheNum, lock, wkey, rkey, lent, stop, cpc, cmod, crashes>>

Init ==
  /\ radar \in BOOLEAN
  /\ db = [k \in Key |-> None]
  /\ disk = db
  /\ dirty = [m \in Db |-> {}]
  /\ cacheNum = [m \in Db |-> 0]
  /\ lock = [m \in Db |-> None]
  /\ wkey = [w \in Writer |-> None]
  /\ rkey = [r \in Reader |-> None]
  /\ lent = [m \in Db |-> None]
  /\ stop = FALSE
  /\ cpc = "sleep"
  /\ cmod = 0
  /\ crashes = 0

\* DB->sync, or DB->close: the file's records reach the disk.
Flush(m) ==
  /\ disk' = [k \in Key |-> IF ModOf[k] = m THEN db[k] ELSE disk[k]]
  /\ dirty' = [dirty EXCEPT ![m] = {}]

----------------------------------------------------------------------------
\* (An operator named <op>_<slip> is not part of the model: it is <op> with one plausible
\* mistake, and shows what a property catches.)  Slip: the mutex is kept on DB_KEYEXIST.
Put_Leak(w, k, rec) ==
  LET m == ModOf[k] IN
    /\ wkey[w] = None
    /\ lock[m] = None
    /\ cacheNum[m] < MaxInsert
    /\ IF radar \/ db[k] = None
         THEN /\ db' = [db EXCEPT ![k] = rec]
              /\ dirty' = [dirty EXCEPT ![m] = @ \cup {k}]
              /\ wkey' = [wkey EXCEPT ![w] = k]
              /\ UNCHANGED lock
         ELSE /\ lock' = [lock EXCEPT ![m] = w]
              /\ UNCHANGED <<db, dirty, wkey>>
    /\ UNCHANGED <<radar, disk, cacheNum, rkey, lent, stop, cpc, cmod, crashes>>

\* Slip: the center overwrites too.
Put_Overwrite(w, k, rec) ==
  LET m == ModOf[k] IN
    /\ wkey[w] = None
    /\ lock[m] = None
    /\ cacheNum[m] < MaxInsert
    /\ db' = [db EXCEPT ![k] = rec]
    /\ dirty' = [dirty EXCEPT ![m] = @ \cup {k}]
    /\ wkey' = [wkey EXCEPT ![w] = k]
    /\ UNCHANGED <<radar, disk, cacheNum, lock, rkey, lent, stop, cpc, cmod, crashes>>

\* neo_bdb_insert, first critical section.  DB->put with DB_NOOVERWRITE refuses a key
\* that is there (DB_KEYEXIST), and any put may fail: the call then returns at once, and
\* nothing has changed.
Put(w, k, rec) ==
  LET m == ModOf[k] IN
    /\ wkey[w] = None
    /\ lock[m] = None
    /\ cacheNum[m] < MaxInsert
    /\ radar \/ db[k] = None
    /\ db' = [db EXCEPT ![k] = rec]
    /\ dirty' = [dirty EXCEPT ![m] = @ \cup {k}]
    /\ wkey' = [wkey EXCEPT ![w] = k]
    /\ UNCHANGED <<radar, disk, cacheNum, lock, rkey, lent, stop, cpc, cmod, crashes>>

\* Slip: one insert later.
SyncDue_Off(n) == n % (SyncEvery + 1) = 0

\* The sync test of the second critical section.
SyncDue(n) == n % SyncEvery = 0

\* neo_bdb_insert, second critical section: the insert is counted, and some sync.
Count(w) ==
  /\ wkey[w] # None
  /\ LET m == ModOf[wkey[w]] IN
       /\ lock[m] = None
       /\ cacheNum' = [cacheNum EXCEPT ![m] = @ + 1]
       /\ IF SyncDue(cacheNum[m] + 1)
            THEN Flush(m)
            ELSE UNCHANGED <<disk, dirty>>
  /\ wkey' = [wkey EXCEPT ![w] = None]
  /\ UNCHANGED <<radar, db, lock, rkey, lent, stop, cpc, cmod, crashes>>

----------------------------------------------------------------------------
\* Slip: several threads of the center search.
Searches_Any(r) == r \in Reader

\* In the center only select_update_thr looks at what neo_bdb_search returns; neoradar's
\* receive threads all search, and use the return code alone.
Searches(r) == radar \/ r = CenterReader

\* neo_bdb_search: DB->get under the mutex, into memory that belongs to the DB handle.
SearchGet(r, k) ==
  LET m == ModOf[k] IN
    /\ Searches(r)
    /\ rkey[r] = None
    /\ lock[m] = None
    /\ db[k] # None
    /\ lent' = [lent EXCEPT ![m] = db[k]]
    /\ rkey' = [rkey EXCEPT ![r] = k]
    /\ UNCHANGED <<radar, db, disk, dirty, cacheNum, lock, wkey, stop, cpc, cmod, crashes>>

\* neo_bdb_search: the lent record is copied, after the mutex was given back.  (A buffer
\* nobody is going to copy is said to hold None.)
SearchCopy(r) ==
  /\ rkey[r] # None
  /\ rkey' = [rkey EXCEPT ![r] = None]
  /\ lent' = [m \in Db |-> IF \E q \in Reader : rkey'[q] # None /\ ModOf[rkey'[q]] = m
                            THEN lent[m] ELSE None]
  /\ UNCHANGED <<radar, db, disk, dirty, cacheNum, lock, wkey, stop, cpc, cmod, crashes>>

----------------------------------------------------------------------------
\* An operator creates the stop file.
RequestStop ==
  /\ cpc # "closed"
  /\ ~stop
  /\ stop' = TRUE
  /\ UNCHANGED <<radar, db, disk, dirty, cacheNum, lock, wkey, rkey, lent, cpc, cmod, crashes>>

\* cmd_thr wakes: to stop if the file is there, else to sync every file.
CmdWake ==
  /\ cpc = "sleep"
  /\ cpc' = IF stop THEN "locking" ELSE "syncing"
  /\ cmod' = 0
  /\ UNCHANGED <<radar, db, disk, dirty, cacheNum, lock, wkey, rkey, lent, stop, crashes>>

\* Slip: the index is advanced once more when the loop ends.
CmdSync_Overrun ==
  /\ cpc = "syncing"
  /\ IF cmod < MaxBdbNum
       THEN lock[cmod] = None /\ Flush(cmod) /\ UNCHANGED cpc
       ELSE cpc' = "sleep" /\ UNCHANGED <<disk, dirty>>
  /\ cmod' = cmod + 1
  /\ UNCHANGED <<radar, db, cacheNum, lock, wkey, rkey, lent, stop, crashes>>

\* One file of the periodic sync, under its mutex.
CmdSync ==
  /\ cpc = "syncing"
  /\ IF cmod < MaxBdbNum
       THEN lock[cmod] = None /\ Flush(cmod) /\ cmod' = cmod + 1 /\ UNCHANGED cpc
       ELSE cpc' = "sleep" /\ cmod' = 0 /\ UNCHANGED <<disk, dirty>>
  /\ UNCHANGED <<radar, db, cacheNum, lock, wkey, rkey, lent, stop, crashes>>

\* Slip: the last mutex is not taken.
ToLock_AllButLast == MaxBdbNum - 1

\* The mutexes cmd_thr takes before it closes the files.
ToLock == MaxBdbNum

CmdLock ==
  /\ cpc = "locking"
  /\ cmod < ToLock
  /\ lock[cmod] = None
  /\ lock' = [lock EXCEPT ![cmod] = "cmd"]
  /\ cmod' = cmod + 1
  /\ UNCHANGED <<radar, db, disk, dirty, cacheNum, wkey, rkey, lent, stop, cpc, crashes>>

\* neo_bdb_close and exit.  The files are closed one by one, and until exit the other
\* threads run on, as far as the mutexes let them.
CmdClose ==
  /\ cpc = "locking"
  /\ cmod >= ToLock
  /\ disk' = db
  /\ dirty' = [m \in Db |-> {}]
  /\ cpc' = "closed"
  /\ UNCHANGED <<radar, db, cacheNum, lock, wkey, rkey, lent, stop, cmod, crashes>>

\* The process dies, or has exited, and is started again: neo_bdb_init opens the files,
\* and cmd_thr removes a stop file left from before.
Restart ==
  /\ crashes < MaxCrash
  /\ crashes' = crashes + 1
  /\ db' \in [Key -> Rec \cup {None}]
  /\ \A k \in Key : db'[k] \in {db[k], disk[k]}
  /\ disk' = db'
  /\ dirty' = [m \in Db |-> {}]
  /\ cacheNum' = [m \in Db |-> 0]
  /\ lock' = [m \in Db |-> None]
  /\ wkey' = [w \in Writer |-> None]
  /\ rkey' = [r \in Reader |-> None]
  /\ lent' = [m \in Db |-> None]
  /\ stop' = FALSE
  /\ cpc' = "sleep"
  /\ cmod' = 0
  /\ UNCHANGED radar

Next ==
  \/ \E w \in Writer : Count(w) \/ \E k \in Key, rec \in Rec : Put(w, k, rec)
  \/ \E r \in Reader : SearchCopy(r) \/ \E k \in Key : SearchGet(r, k)
  \/ RequestStop \/ CmdWake \/ CmdSync \/ CmdLock \/ CmdClose
  \/ Restart

\* cmd_thr is scheduled, and a free mutex is granted to a thread that keeps asking.
Spec == Init /\ [][Next]_vars /\ WF_vars(CmdWake \/ CmdSync \/ CmdLock \/ CmdClose)

----------------------------------------------------------------------------
TypeOK ==
  /\ radar \in BOOLEAN
  /\ db \in [Key -> Rec \cup {None}] /\ disk \in [Key -> Rec \cup {None}]
  /\ dirty \in [Db -> SUBSET Key]
  /\ cacheNum \in [Db -> Nat]
  /\ lock \in [Db -> Writer \cup {"cmd", None}]
  /\ wkey \in [Writer -> Key \cup {None}]
  /\ rkey \in [Reader -> Key \cup {None}]
  /\ lent \in [Db -> Rec \cup {None}]
  /\ stop \in BOOLEAN
  /\ cpc \in {"sleep", "syncing", "locking", "closed"}
  /\ cmod \in 0 .. MaxBdbNum
  /\ crashes \in Nat

\* Puts and counts are separate critical sections, yet the records a crash can take from a
\* file never exceed the inserts counted since a multiple of SyncEvery, plus one for each
\* writer between the two sections.
Uncounted(m) == {w \in Writer : wkey[w] # None /\ ModOf[wkey[w]] = m}
UnsyncedBounded ==
  \A m \in Db :
    /\ \A k \in Key : ModOf[k] = m /\ db[k] # disk[k] => k \in dirty[m]
    /\ Cardinality(dirty[m]) <= (cacheNum[m] % SyncEvery) + Cardinality(Uncounted(m))

\* A stop loses nothing: once the files are closed no thread can change what they held.
StopKeepsAll == cpc = "closed" => disk = db

\* A record on disk stays there through crashes, and in the center it stays the same: the
\* first record of a URL is never replaced.
SyncedStep ==
  \A k \in Key : disk[k] # None => /\ disk'[k] # None
                                   /\ ~radar => disk'[k] = disk[k]
SyncedForever == [][SyncedStep]_vars

\* What the center reads out of a DB handle after the mutex was given back is still the
\* record it searched for.
SearchOwn ==
  ~radar => \A r \in Reader : rkey[r] # None => lent[ModOf[rkey[r]]] = db[rkey[r]]

\* A stop request is honoured, whatever the writers do; a restart forgets it.
StopCompletes == stop ~> (cpc = "closed" \/ ~stop)
=============================================================================
