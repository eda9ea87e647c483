----------------------------- MODULE MCControl -----------------------------
(***************************************************************************)
(* Control for TLC: two clients, one of them with a clock that is ahead of *)
(* the server's by as much as these widths take for a small age.           *)
(***************************************************************************)
EXTENDS Control

\* What a client process opens before: stdin, stdout, stderr, its loop's epoll.
SameNumbers == <<6, 5>>
OneAhead == [c \in Clients |-> IF c = "c1" THEN 30 ELSE 0]
TwoClients == {"c1", "c2"}
=============================================================================
