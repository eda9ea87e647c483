----------------------------- MODULE ExecRemote -----------------------------
(***************************************************************************)
(* "exec shell remote": the vty thread sends a command, sleeps a second    *)
(* and prints what the clients have answered; the loop thread stores every *)
(* answer in the client's io_t.  They share flag and buffer of the io_t    *)
(* and lock two different mutexes, so any of their stores may meet.        *)
(*                                                                         *)
(* A result is up to Lines lines, each with the '\r' the client puts       *)
(* behind it; a buffer is as many cells, of one line each.  The clients    *)
(* stay connected (ServerClients has the list as they come and go).        *)
(***************************************************************************)
EXTENDS Integers, Sequences, SequencesExt

CONSTANTS
    NumClients, \* clients in t_server.clients, in its order
    Lines,      \* bound: lines of a result
    MaxCmds     \* bound: commands

ASSUME ExecAssumption == NumClients \in Nat /\ Lines \in Nat /\ MaxCmds \in Nat

Clients == 1 .. NumClients
Cmds == 1 .. MaxCmds

VARIABLES
    pending,    \* the commands each client has not run yet
    results,    \* the results on their way to the server: [cmd, lines]
    buffer,     \* conn->buffer
    flag,       \* conn->flag
    loop,       \* the loop thread: where it is, for which client, next cell
    vty,        \* the vty thread: where it is
    cmd,        \* number of the command it is in
    conn,       \* the client its walk is at
    ptr,        \* tmp, current and last of print_info_using_vty_format
    printed,    \* history: the lines printed for each client
    received,   \* history: the lines of the results stored for each client
    late        \* history: clients one of whose results was stored after the
                \* second its command waited

clientSide == <<pending, results>>
loopSide == <<loop, received, late>>
vtySide == <<vty, cmd, conn, ptr, printed>>
vars == <<clientSide, buffer, flag, loopSide, vtySide>>

Nothing == 0
\* A cell that begins with '\0', and line i of the result of command k.
Blank == [cmd |-> Nothing, line |-> 0, end |-> "nul"]
Line(k, i) == [cmd |-> k, line |-> i, end |-> "cr"]
Cleared == [i \in 1 .. Lines |-> Blank]

Init ==
    /\ pending = [c \in Clients |-> <<>>] /\ results = [c \in Clients |-> <<>>]
    /\ buffer = [c \in Clients |-> Cleared] /\ flag = [c \in Clients |-> 0]
    /\ loop = [at |-> "poll", c |-> 1, cmd |-> Nothing, lines |-> 0, cell |-> 1]
    /\ received = [c \in Clients |-> <<>>] /\ late = {}
    /\ vty = "idle" /\ cmd = 0 /\ conn = 1
    /\ ptr = [tmp |-> 1, current |-> Nothing, last |-> Nothing]
    /\ printed = [c \in Clients |-> <<>>]
-----------------------------------------------------------------------------
\* send_total_string, or send_single_fd, and the begin of sleep(1).
Exec(targets) ==
    /\ vty = "idle" /\ cmd < MaxCmds
    /\ cmd' = cmd + 1
    /\ pending' = [c \in Clients |->
                      IF c \in targets THEN Append(pending[c], cmd + 1) ELSE pending[c]]
    /\ vty' = "sleep"
    /\ UNCHANGED <<results, buffer, flag, loopSide, conn, ptr, printed>>

\* exec_command_with_return; when popen fails, and for "ifconfig cmd", the
\* server gets no result.
Answer(c, n) ==
    /\ pending[c] # <<>>
    /\ pending' = [pending EXCEPT ![c] = Tail(@)]
    /\ results' = [results EXCEPT ![c] = Append(@, [cmd |-> pending[c][1], lines |-> n])]
    /\ UNCHANGED <<buffer, flag, loopSide, vtySide>>

NoAnswer(c) ==
    /\ pending[c] # <<>>
    /\ pending' = [pending EXCEPT ![c] = Tail(@)]
    /\ UNCHANGED <<results, buffer, flag, loopSide, vtySide>>
-----------------------------------------------------------------------------
\* tcp_recv with a result of client c.
IsLate(k) == vty # "sleep" \/ k # cmd

BeginStore(c) ==
    /\ loop.at = "poll" /\ results[c] # <<>>
    /\ LET r == results[c][1] IN
       loop' = [at |-> "store", c |-> c, cmd |-> r.cmd, lines |-> r.lines, cell |-> 1]
    /\ results' = [results EXCEPT ![c] = Tail(@)]
    /\ UNCHANGED <<pending, buffer, flag, received, late, vtySide>>

\* save_result_info_to_buffer: strcpy, line by line, then its '\0'.
Store ==
    /\ loop.at = "store"
    /\ LET i == loop.cell
           ended == i > loop.lines IN
       /\ buffer' = IF i > Lines THEN buffer
                    ELSE [buffer EXCEPT ![loop.c][i] = IF ended THEN Blank ELSE Line(loop.cmd, i)]
       /\ loop' = IF ended THEN [loop EXCEPT !.at = "flag"] ELSE [loop EXCEPT !.cell = i + 1]
    /\ late' = IF IsLate(loop.cmd) THEN late \cup {loop.c} ELSE late
    /\ UNCHANGED <<clientSide, flag, received, vtySide>>

\* A mutant: the flag counts results.
SetFlagCounts ==
    /\ loop.at = "flag"
    /\ flag' = [flag EXCEPT ![loop.c] = @ + 1]
    /\ loop' = [loop EXCEPT !.at = "poll"]
    /\ received' = [received EXCEPT ![loop.c] =
                       @ \o [i \in 1 .. loop.lines |-> <<loop.cmd, i>>]]
    /\ late' = IF IsLate(loop.cmd) THEN late \cup {loop.c} ELSE late
    /\ UNCHANGED <<clientSide, buffer, vtySide>>

\* handle_endflag
SetFlag ==
    /\ loop.at = "flag"
    /\ flag' = [flag EXCEPT ![loop.c] = 1]
    /\ loop' = [loop EXCEPT !.at = "poll"]
    /\ received' = [received EXCEPT ![loop.c] =
                       @ \o [i \in 1 .. loop.lines |-> <<loop.cmd, i>>]]
    /\ late' = IF IsLate(loop.cmd) THEN late \cup {loop.c} ELSE late
    /\ UNCHANGED <<clientSide, buffer, vtySide>>
-----------------------------------------------------------------------------
\* print_all_client_return_info
Awake ==
    /\ vty = "sleep"
    /\ vty' = "walk" /\ conn' = 1
    /\ UNCHANGED <<clientSide, buffer, flag, loopSide, cmd, ptr, printed>>

WalkSkips ==
    /\ vty = "walk" /\ conn \in Clients /\ flag[conn] # 1
    /\ conn' = conn + 1
    /\ UNCHANGED <<clientSide, buffer, flag, loopSide, vty, cmd, ptr, printed>>

WalkEnds ==
    /\ vty = "walk" /\ conn > NumClients
    /\ vty' = "idle"
    /\ UNCHANGED <<clientSide, buffer, flag, loopSide, cmd, conn, ptr, printed>>

\* strchr(tmp, '\r'): a cell holds one line, so the first cell decides.
Strchr(tmp) ==
    IF tmp <= Lines /\ buffer[conn][tmp].end = "cr" THEN tmp ELSE Nothing

\* A mutant: the end of the buffer instead of the last '\r'.
StrrchrAtEnd == Lines

\* strrchr(string, '\r')
Strrchr == Max({j \in 0 .. Lines : \A x \in 1 .. j : buffer[conn][x].end = "cr"})

\* The end of the string that begins at cell i: its '\0' is in cell j, or j + 1
\* begins with it.
StringEnd(i) ==
    Max({j \in i - 1 .. Lines : \A x \in i .. j :
            buffer[conn][x] # Blank /\ (x < j => buffer[conn][x].end = "cr")})

Shown(i, j) == [x \in 1 .. (j + 1 - i) |->
    [cmd |-> buffer[conn][i + x - 1].cmd, line |-> buffer[conn][i + x - 1].line, under |-> cmd]]

PrintBegins ==
    /\ vty = "walk" /\ conn \in Clients /\ flag[conn] = 1
    /\ ptr' = [tmp |-> 1, current |-> Strchr(1), last |-> Nothing]
    /\ vty' = "strrchr"
    /\ UNCHANGED <<clientSide, buffer, flag, loopSide, cmd, conn, printed>>

PrintLast ==
    /\ vty = "strrchr"
    /\ ptr' = [ptr EXCEPT !.last = Strrchr]
    /\ vty' = "print"
    /\ UNCHANGED <<clientSide, buffer, flag, loopSide, cmd, conn, printed>>

\* The body of the while: the '\r' becomes '\0', the line goes out.
PrintLine ==
    /\ vty = "print" /\ ptr.current # ptr.last /\ ptr.current # Nothing
    /\ buffer' = [buffer EXCEPT ![conn][ptr.current].end = "nul"]
    /\ printed' = [printed EXCEPT ![conn] = @ \o Shown(ptr.tmp, ptr.current)]
    /\ vty' = "strchr"
    /\ UNCHANGED <<clientSide, flag, loopSide, cmd, conn, ptr>>

PrintNext ==
    /\ vty = "strchr"
    /\ ptr' = [ptr EXCEPT !.tmp = ptr.current + 1, !.current = Strchr(ptr.current + 1)]
    /\ vty' = "print"
    /\ UNCHANGED <<clientSide, buffer, flag, loopSide, cmd, conn, printed>>

\* *current = '\0' with current NULL.
PrintCrashes ==
    /\ vty = "print" /\ ptr.current # ptr.last /\ ptr.current = Nothing
    /\ vty' = "crashed"
    /\ UNCHANGED <<clientSide, buffer, flag, loopSide, cmd, conn, ptr, printed>>

\* Two mutants: the last line is left out, or the string printed from its start.
PrintRestSkipped ==
    /\ vty = "print" /\ ptr.current = ptr.last
    /\ vty' = "memset"
    /\ UNCHANGED <<clientSide, buffer, flag, loopSide, cmd, conn, ptr, printed>>

PrintRestFromStart ==
    /\ vty = "print" /\ ptr.current = ptr.last
    /\ printed' = [printed EXCEPT ![conn] = @ \o Shown(1, StringEnd(1))]
    /\ vty' = "memset"
    /\ UNCHANGED <<clientSide, buffer, flag, loopSide, cmd, conn, ptr>>

\* After the while: all that is left of the string.
PrintRest ==
    /\ vty = "print" /\ ptr.current = ptr.last
    /\ printed' = [printed EXCEPT ![conn] = @ \o Shown(ptr.tmp, StringEnd(ptr.tmp))]
    /\ vty' = "memset"
    /\ UNCHANGED <<clientSide, buffer, flag, loopSide, cmd, conn, ptr>>

Memset ==
    /\ vty = "memset"
    /\ buffer' = [buffer EXCEPT ![conn] = Cleared]
    /\ vty' = "unflag"
    /\ UNCHANGED <<clientSide, flag, loopSide, cmd, conn, ptr, printed>>

ClearFlag ==
    /\ vty = "unflag"
    /\ flag' = [flag EXCEPT ![conn] = 0]
    /\ conn' = conn + 1
    /\ vty' = "walk"
    /\ UNCHANGED <<clientSide, buffer, loopSide, cmd, ptr, printed>>
-----------------------------------------------------------------------------
\* A process that has crashed takes its other thread with it.
Loop == vty # "crashed" /\ (Store \/ SetFlag \/ \E c \in Clients : BeginStore(c))

Vty ==
    \/ Awake \/ WalkSkips \/ WalkEnds \/ PrintBegins \/ PrintLast \/ PrintLine
    \/ PrintNext \/ PrintCrashes \/ PrintRest \/ Memset \/ ClearFlag

Next ==
    \/ \E targets \in {Clients} \cup {{c} : c \in Clients} : Exec(targets)
    \/ \E c \in Clients : NoAnswer(c) \/ \E n \in 0 .. Lines : Answer(c, n)
    \/ Loop \/ Vty

Spec == Init /\ [][Next]_vars
-----------------------------------------------------------------------------
TypeOK ==
    /\ buffer \in [Clients -> [1 .. Lines -> [cmd : {Nothing} \cup Cmds, line : 0 .. Lines,
                                              end : {"nul", "cr"}]]]
    /\ flag \in [Clients -> {0, 1}] /\ late \subseteq Clients
    /\ cmd \in 0 .. MaxCmds /\ conn \in 1 .. NumClients + 1
    /\ ptr \in [tmp : 1 .. Lines + 1, current : 0 .. Lines, last : 0 .. Lines]
    /\ loop \in [at : {"poll", "store", "flag"}, c : Clients \cup {1}, cmd : 0 .. MaxCmds,
                 lines : 0 .. Lines, cell : 1 .. Lines + 1]

\* A client whose results came within the second has had each printed, whole,
\* under its own command, when the prompt is back, whatever the others do late.
PromptResultsPrinted ==
    \A c \in Clients \ late :
        /\ \A i \in 1 .. Len(printed[c]) : printed[c][i].under = printed[c][i].cmd
        /\ vty = "idle" =>
               /\ [i \in 1 .. Len(printed[c]) |-> <<printed[c][i].cmd, printed[c][i].line>>]
                    = received[c]
               /\ flag[c] = 0
               /\ loop.at = "poll" => buffer[c] = Cleared

\* strcpy and the printing may mix the lines of two results, but whatever they
\* do to each other and to the flag, no line of a result is printed under two
\* commands, or twice under one.  A '\0' stored under the printing makes it print
\* an empty line, which is no line of a result.
NoLineTwice ==
    \A c \in Clients : \A i, j \in 1 .. Len(printed[c]) :
        i # j /\ printed[c][i].cmd # Nothing =>
                 \/ printed[c][i].cmd # printed[c][j].cmd
                 \/ printed[c][i].line # printed[c][j].line

\* print_info_using_vty_format runs through NULL only in the buffer of a client
\* with a late result: strings change under it in no other way.
OnlyLateResultsCrash == vty = "crashed" => conn \in late
=============================================================================
