----------------------------- MODULE MCHttpFetch -----------------------------
(* Two threads; a host with two addresses, or none, and one with one; and   *)
(* the kinds of header that http_fetch tells apart.                         *)
EXTENDS HttpFetch, TLC

CONSTANTS h1, h2
MCKnown == h1 :> {0, 2} @@ h2 :> {1}

MCAnswer(status) == [Nothing EXCEPT !.status = status]
MCResponses ==
  {MCAnswer("none"), MCAnswer("nocode"), MCAnswer("error"), [MCAnswer("page") EXCEPT !.html = FALSE],
   [MCAnswer("page") EXCEPT !.encoded = TRUE], MCAnswer("redirect")}
  \cup {[MCAnswer("page") EXCEPT !.length = n] : n \in {Unreadable, -5, 0, 1}}
  \cup {[MCAnswer("redirect") EXCEPT !.location = h] : h \in Host}
=============================================================================
