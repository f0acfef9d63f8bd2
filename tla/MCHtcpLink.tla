----------------------------- MODULE MCHtcpLink -----------------------------
EXTENDS HtcpLink

\* The fetch link, the page link and the result link.
MCLinks == {[parts |-> 1, senderListens |-> TRUE],
            [parts |-> 2, senderListens |-> TRUE],
            [parts |-> 1, senderListens |-> FALSE]}
=============================================================================
