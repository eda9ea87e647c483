---------------------------- MODULE MCExecRemote ----------------------------
(***************************************************************************)
(* ExecRemote for TLC: the commands of one operator and what two clients   *)
(* answer, in time or not.                                                 *)
(***************************************************************************)
EXTENDS ExecRemote
=============================================================================
