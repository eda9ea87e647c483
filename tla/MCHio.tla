------------------------------- MODULE MCHio -------------------------------
(***************************************************************************)
(* Hio for TLC: connections one after the other on one descriptor, frames  *)
(* written by two threads.                                                 *)
(***************************************************************************)
EXTENDS Hio
=============================================================================
