----------------------------- MODULE CenterRank -----------------------------
(***************************************************************************)
(* The arithmetic of the center: how a URL's rank follows the outcomes of  *)
(* its fetches, and when a URL is due.  The rank and the counter of        *)
(* successes are bytes of the URL's record (URLNODE_T).                    *)
(***************************************************************************)
EXTENDS Integers

CONSTANTS
  MAX_RANK,     \* 256
  MIN_RANK,     \* 6
  ManualUnit,   \* a MANUAL page is due after (MAX_RANK - rank) * ManualUnit: a minute
  IndexUnit     \* an INDEX page after (MAX_RANK - rank) * IndexUnit: 2000 minutes

ASSUME RankAssumption ==
  /\ MAX_RANK \in 32 .. 256 /\ MIN_RANK \in 1 .. 8
  /\ ManualUnit \in Nat \ {0} /\ IndexUnit \in Nat \ {0}

UrlType == {"NORMAL", "INDEX", "MANUAL"}
UrlStat == {"INSERT", "UPDATE", "DELETE", "UNCHANGE"}

Byte == 0 .. 255
U8(n) == n % 256

\* urlOther: successful updates in a row.
NextOther(stat, html, other) == IF stat = "UPDATE" /\ html THEN U8(other + 1) ELSE 0

\* The rank a URL starts with.
FirstRank(type) == IF type \in {"MANUAL", "INDEX"} THEN MAX_RANK - 16 ELSE MIN_RANK * 4

\* Slip: a failed fetch quarters the rank.
NextRank_Quarter(type, stat, html, rank, other) ==
  IF rank = 0 THEN FirstRank(type)
  ELSE IF ~html THEN rank \div 4 ELSE rank

\* The head of NEO_cache_url; other is urlOther after NextOther, html whether the fetch
\* returned anything (htmlLen > 0).
NextRank(type, stat, html, rank, other) ==
  CASE rank = 0                                              -> FirstRank(type)
    [] rank # 0 /\ other >= 3 /\ rank < MAX_RANK - 1         -> U8(rank + 1)
    [] rank # 0 /\ ~(other >= 3 /\ rank < MAX_RANK - 1) /\ stat = "UNCHANGE" -> U8(rank - 1)
    [] rank # 0 /\ ~(other >= 3 /\ rank < MAX_RANK - 1) /\ stat # "UNCHANGE" ->
         IF html THEN rank ELSE rank \div 2

\* visit(UPDATE): a MANUAL page's rank is kept where the interval is 10 to 30 minutes.
Clamp(type, rank) ==
  CASE type = "MANUAL" /\ rank > MAX_RANK - 10 -> MAX_RANK - 10
    [] type = "MANUAL" /\ rank < MAX_RANK - 30 -> MAX_RANK - 30
    [] OTHER -> rank

\* visit(UPDATE): never fetched, or fetched long enough ago; an INDEX page whose rank has
\* sunk below MIN_RANK and a NORMAL page are not fetched again.
Due(type, rank, updateTime, now) ==
  \/ updateTime <= 0
  \/ type = "MANUAL" /\ now - updateTime > (MAX_RANK - rank) * ManualUnit
  \/ type = "INDEX" /\ now - updateTime > (MAX_RANK - rank) * IndexUnit /\ rank >= MIN_RANK
=============================================================================
