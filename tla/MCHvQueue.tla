----------------------------- MODULE MCHvQueue -----------------------------
(***************************************************************************)
(* HvQueue for TLC: an array of 2 that grows to 4 and 8.                   *)
(***************************************************************************)
EXTENDS HvQueue
=============================================================================
