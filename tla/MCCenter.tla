------------------------------ MODULE MCCenter ------------------------------
(* Domain 1 has the strings 1, 2 and 3, domain 2 has 4.  Of a NORMAL page   *)
(* the file of fetch_url_thr yields another string (1: the manual page) or, *)
(* where it is of greatest length, the same (4).                            *)
EXTENDS Center

MCDom == [s \in Str |-> IF s = 4 THEN 2 ELSE 1]
\* 3 is 2 without its trailing slash.
MCTrim == [s \in Str |-> IF s = 3 THEN 2 ELSE s]
MCBlocks == [s \in Str |-> CASE s = 1 -> {2} [] s = 4 -> {4} [] OTHER -> {}]
NoBlocks == [s \in Str |-> {}]

PacingLinks == [s \in Str |-> IF s = 4 THEN {"NORMAL"} ELSE {"INDEX"}]
\* Page 1 may be a link, or come as a seed, which is MANUAL here.
SelectLinks == [s \in Str |-> CASE s = 1 -> {"NORMAL", "MANUAL"} [] s = 4 -> {"NORMAL"} [] OTHER -> {"INDEX"}]

\* Restart instance: domain 1 holds the manual page; of domain 2 a URL comes as 3, which is
\* cached as 2 when it is the domain's first.
RDom == [s \in Str |-> IF s = 1 THEN 1 ELSE 2]
RLinks == [s \in Str |-> IF s = 3 THEN {"INDEX"} ELSE {}]
=============================================================================
