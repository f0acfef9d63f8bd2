----------------------------- MODULE MCPipeline -----------------------------
(* One page, of any type and in any mode, that is dispatched three times:   *)
(* two dispatches can overtake each other, and a third is compared with     *)
(* what they left.  BBS is left out: it does a part of what NEWS may do.    *)
EXTENDS Pipeline
=============================================================================
