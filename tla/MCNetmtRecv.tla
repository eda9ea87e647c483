---------------------------- MODULE MCNetmtRecv ----------------------------
(***************************************************************************)
(* NetmtRecv for TLC: connections are model values, frames a few bytes long.*)
(***************************************************************************)
EXTENDS NetmtRecv
=============================================================================
