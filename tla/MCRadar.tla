------------------------------ MODULE MCRadar ------------------------------
(* A small radar for TLC.  Its threads are alike, but the run checks liveness *)
(* and therefore declares no symmetry.                                        *)
EXTENDS Radar
=============================================================================
