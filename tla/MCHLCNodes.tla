----------------------------- MODULE MCHLCNodes -----------------------------
(* Instances of HLCNodes for TLC. *)
EXTENDS HLCNodes

MCNode == 1 .. 2
==============================================================================
