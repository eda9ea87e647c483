-------------------------- MODULE MCServerClients --------------------------
(***************************************************************************)
(* ServerClients for TLC, whose configurations take model values for the   *)
(* addresses of the io_t blocks.                                           *)
(***************************************************************************)
EXTENDS ServerClients
=============================================================================
