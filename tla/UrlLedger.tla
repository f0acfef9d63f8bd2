----------------------------- MODULE UrlLedger -----------------------------
(***************************************************************************)
(* What neoradar promises, without threads, mutexes or a database: a       *)
(* ledger of admissions.  A URL is admitted at most once per generation of *)
(* the dictionary, an admission is delivered at most once, and one that is *)
(* forgotten is never delivered.                                           *)
(***************************************************************************)
EXTENDS Integers

CONSTANT URL

VARIABLES epoch, known, pending, delivered

vars == <<epoch, known, pending, delivered>>

Admission(u) == [url |-> u, ep |-> epoch]

Init ==
  /\ epoch = 1
  /\ known = {}
  /\ pending = {}
  /\ delivered = {}

Admit(u) ==
  /\ u \notin known
  /\ pending' = pending \cup {Admission(u)}
  /\ \/ /\ known' = known \cup {u}
        /\ UNCHANGED epoch
     \/ /\ known' = {}
        /\ epoch' = epoch + 1
  /\ UNCHANGED delivered

Deliver(x) ==
  /\ x \in pending
  /\ pending' = pending \ {x}
  /\ delivered' = delivered \cup {x}
  /\ UNCHANGED <<epoch, known>>

Forget(x) ==
  /\ x \in pending
  /\ pending' = pending \ {x}
  /\ UNCHANGED <<epoch, known, delivered>>

Restart ==
  /\ pending' = {}
  /\ known' = {}
  /\ epoch' = epoch + 1
  /\ UNCHANGED delivered

Next ==
  \/ \E u \in URL : Admit(u)
  \/ \E x \in pending : Deliver(x) \/ Forget(x)
  \/ Restart

Spec == Init /\ [][Next]_vars
=============================================================================
