---------------------------- MODULE NetmtStream ----------------------------
(***************************************************************************)
(* What the receive path of netmt promises, with nothing of how tcp_recv   *)
(* does it.  A peer sends a stream of commands (netmt_command_t) over each *)
(* TCP connection; the handler of the connection executes them one by one, *)
(* in the order they were sent, each exactly once.                         *)
(***************************************************************************)
EXTENDS Naturals, Sequences

CONSTANTS
    Conns,      \* the TCP connections
    MaxFrames   \* how many commands each peer sends

VARIABLE
    log         \* log[c]: the commands of connection c executed so far

Init == log = [c \in Conns |-> <<>>]

\* The commands of a connection are numbered 0, 1, 2, ... as they are sent:
\* the next one to execute is the one whose number is how many were executed.
Deliver(c) ==
    /\ Len(log[c]) < MaxFrames
    /\ log' = [log EXCEPT ![c] = Append(@, Len(@))]

Next == \E c \in Conns : Deliver(c)

\* Nothing is executed out of order, twice, or that was not sent ...
Safety == Init /\ [][Next]_log

\* ... and all that was sent is executed in the end.
Spec == Safety /\ \A c \in Conns : WF_log(Deliver(c))
=============================================================================
