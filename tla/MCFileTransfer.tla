--------------------------- MODULE MCFileTransfer ---------------------------
(***************************************************************************)
(* FileTransfer for TLC: clients are model values, files up to two blocks. *)
(***************************************************************************)
EXTENDS FileTransfer
=============================================================================
