-------------------------- MODULE ExecRemoteProofs --------------------------
(***************************************************************************)
(* For every number of clients, lines and commands: what "exec shell       *)
(* remote" prints of the clients that answer in time is all they answered, *)
(* no line is printed twice, and only a late answer makes it crash.        *)
(***************************************************************************)
EXTENDS ExecRemote, SequenceTheorems, WellFoundedInduction, TLAPS

\* What cell i of a buffer may hold: a line i, or the begin of nothing.
Cell(i) == {Blank} \cup [cmd : Cmds, line : {i}, end : {"nul", "cr"}]
Result == [cmd : Cmds, lines : 0 .. Lines]
LineOf == Cmds \X (1 .. Lines)
Shows == [cmd : {Nothing} \cup Cmds, line : 0 .. Lines, under : Cmds]

\* The vty thread is not in the printing of a client.
AtHome == {"idle", "sleep", "walk"}

ClientTypes ==
    /\ pending \in [Clients -> Seq(Cmds)] /\ results \in [Clients -> Seq(Result)]

LoopTypes ==
    /\ loop \in [at : {"poll", "store", "flag"}, c : Clients \cup {1}, cmd : 0 .. MaxCmds,
                 lines : 0 .. Lines, cell : 1 .. Lines + 1]
    /\ loop.at # "poll" => loop.c \in Clients /\ loop.cmd \in Cmds /\ loop.cell <= loop.lines + 1
    /\ received \in [Clients -> Seq(LineOf)] /\ late \subseteq Clients

SharedTypes ==
    /\ buffer = [c \in Clients |-> [i \in 1 .. Lines |-> buffer[c][i]]]
    /\ \A c \in Clients, i \in 1 .. Lines : buffer[c][i] \in Cell(i)
    /\ flag \in [Clients -> {0, 1}]

VtyTypes ==
    /\ vty \in AtHome \cup {"strrchr", "print", "strchr", "memset", "unflag", "crashed"}
    /\ cmd \in 0 .. MaxCmds /\ (vty # "idle" => cmd \in Cmds)
    /\ conn \in 1 .. NumClients + 1 /\ (vty \notin AtHome => conn \in Clients)
    /\ ptr \in [tmp : 1 .. Lines + 1, current : 0 .. Lines, last : 0 .. Lines]
    /\ vty \notin AtHome => ptr.current \in {Nothing, ptr.tmp}
    /\ vty = "strchr" => ptr.current = ptr.tmp
    /\ printed \in [Clients -> Seq(Shows)]

Types == ClientTypes /\ LoopTypes /\ SharedTypes /\ VtyTypes

\* Client c has answered command k, or will never: no result of it will come.
Past(c, k) ==
    /\ k <= cmd
    /\ \A i \in 1 .. Len(results[c]) : results[c][i].cmd # k
    /\ \A i \in 1 .. Len(pending[c]) : pending[c][i] # k

\* Each command comes to a client once, and each result from it once: p are the
\* commands it has to run, r the results on their way, n the last command.
Queues(p, r, n) ==
    /\ \A i \in 1 .. Len(p) : p[i] <= n
    /\ \A i \in 1 .. Len(r) : r[i].cmd <= n
    /\ \A i, j \in 1 .. Len(p) : i # j => p[i] # p[j]
    /\ \A i, j \in 1 .. Len(r) : i # j => r[i].cmd # r[j].cmd
    /\ \A i \in 1 .. Len(r), j \in 1 .. Len(p) : r[i].cmd # p[j]

Fresh(c) ==
    /\ Queues(pending[c], results[c], cmd)
    /\ loop.at # "poll" /\ loop.c = c => Past(c, loop.cmd)

\* Line i of command k will not be stored any more.
Stored(c, k, i) ==
    /\ Past(c, k)
    /\ loop.at = "store" /\ loop.c = c /\ loop.cmd = k => i < loop.cell

Printed(c, k, i) ==
    \E x \in 1 .. Len(printed[c]) : printed[c][x].cmd = k /\ printed[c][x].line = i

\* The cells of client c whose lines this printing has printed.
Up(c) ==
    IF c # conn THEN 0
    ELSE IF vty \in {"strrchr", "print"} THEN ptr.tmp - 1
    ELSE IF vty = "strchr" THEN ptr.tmp
    ELSE IF vty \in {"memset", "crashed"} THEN Lines
    ELSE 0

\* Behind Up the buffer holds lines that were never printed.
Once(c) ==
    /\ \A i \in 1 .. Lines : buffer[c][i] # Blank =>
           /\ Stored(c, buffer[c][i].cmd, i)
           /\ i > Up(c) => ~ Printed(c, buffer[c][i].cmd, i)
    /\ \A x \in 1 .. Len(printed[c]) : printed[c][x].cmd # Nothing =>
           Stored(c, printed[c][x].cmd, printed[c][x].line)
    /\ \A x, y \in 1 .. Len(printed[c]) : x # y /\ printed[c][x].cmd # Nothing =>
           printed[c][x].cmd # printed[c][y].cmd \/ printed[c][x].line # printed[c][y].line
-----------------------------------------------------------------------------
\* The buffer of c holds the m lines of command k; those behind the first j have
\* their '\r' yet.
Held(c, k, j, m) ==
    /\ \A i \in 1 .. Lines : i > m => buffer[c][i] = Blank
    /\ \A i \in 1 .. Lines : i <= m => buffer[c][i].cmd = k
    /\ \A i \in 1 .. Lines : i > j /\ i <= m => buffer[c][i].end = "cr"

\* All that was stored for c has been printed but lines j + 1 .. m of command k.
Owed(c, k, j, m) ==
    LET n == Len(printed[c]) IN
    /\ Len(received[c]) = n + (m - j)
    /\ \A i \in 1 .. n : received[c][i] = <<printed[c][i].cmd, printed[c][i].line>>
    /\ \A i \in 1 .. m - j : received[c][n + i] = <<k, j + i>>

\* The loop thread is amid a result of c; lines it has stored of it.
Busy(c) == loop.c = c /\ (loop.at = "flag" \/ (loop.at = "store" /\ loop.cell > 1))
InBuffer(c) == IF ~ Busy(c) THEN 0 ELSE IF loop.at = "flag" THEN loop.lines ELSE loop.cell - 1

\* With flag 1 the m lines of this command wait in the buffer, or are being printed.
InHand(c, m) ==
    \/ /\ conn # c \/ vty \in AtHome
       /\ Held(c, cmd, 0, m) /\ Owed(c, cmd, 0, m)
    \/ /\ conn = c /\ vty = "strrchr"
       /\ ptr.tmp = 1 /\ ptr.current = (IF m = 0 THEN Nothing ELSE 1)
       /\ Held(c, cmd, 0, m) /\ Owed(c, cmd, 0, m)
    \/ /\ conn = c /\ vty = "print"
       /\ ptr.last = m /\ ptr.tmp = (IF m = 0 THEN 1 ELSE ptr.current) /\ ptr.current <= m
       /\ m > 0 => ptr.current > 0
       /\ Held(c, cmd, ptr.tmp - 1, m) /\ Owed(c, cmd, ptr.tmp - 1, m)
    \/ /\ conn = c /\ vty = "strchr"
       /\ ptr.last = m /\ ptr.tmp < m
       /\ Held(c, cmd, ptr.tmp, m) /\ Owed(c, cmd, ptr.tmp, m)
    \/ /\ conn = c /\ vty = "memset" /\ Owed(c, cmd, 0, 0)
    \/ /\ conn = c /\ vty = "unflag" /\ Held(c, cmd, 0, 0) /\ Owed(c, cmd, 0, 0)

\* A client without a late result.
Prompt(c) ==
    /\ \A x \in 1 .. Len(printed[c]) : printed[c][x].under = printed[c][x].cmd
    /\ flag[c] = 0 =>
           /\ conn # c \/ vty \in AtHome
           /\ Held(c, loop.cmd, 0, InBuffer(c)) /\ Owed(c, Nothing, 0, 0)
    /\ flag[c] = 1 =>
           /\ ~ Busy(c) /\ vty # "idle" /\ (vty # "sleep" => conn <= c)
           /\ Past(c, cmd) /\ ~ (loop.at = "store" /\ loop.c = c /\ loop.cmd = cmd)
           /\ \E m \in 0 .. Lines : InHand(c, m)

\* The inductive invariant.
Inv ==
    /\ Types
    /\ \A c \in Clients : Fresh(c)
    /\ \A c \in Clients : Once(c)
    /\ \A c \in Clients \ late : Prompt(c)
-----------------------------------------------------------------------------
\* A bounded set of numbers has a maximum: the greatest is the one whose distance
\* to the bound is least.
LEMMA MaxBounded ==
  ASSUME NEW n \in Nat, NEW S \in SUBSET (0 .. n), S # {}
  PROVE  Max(S) \in S /\ \A y \in S : Max(S) >= y
<1> DEFINE T == {n - x : x \in S}
           R == OpToRel(<, Nat)
<1>1. T \subseteq Nat /\ T # {}
  <2>1. \A x \in S : n - x \in Nat
    OBVIOUS
  <2> QED
    BY <2>1, Zenon
<1>2. PICK t \in T : \A y \in T : ~ (<<y, t>> \in R)
  <2> HIDE DEF T
  <2> QED
    BY <1>1, NatLessThanWellFounded, WFMin, Zenon
<1>3. PICK x \in S : t = n - x
  OBVIOUS
<1>4. \A y \in S : x >= y
  <2>1. ASSUME NEW y \in S PROVE ~ (n - y < n - x)
    <3>1. n - y \in T /\ n - y \in Nat /\ n - x \in Nat
      OBVIOUS
    <3> QED
      BY <3>1, <1>2, <1>3 DEF OpToRel
  <2> QED
    BY <2>1
<1> QED
  BY <1>4 DEF Max

\* strrchr finds a place of the buffer, or nothing.
LEMMA StrrchrBound ==
  ASSUME Types
  PROVE  /\ Strrchr \in 0 .. Lines
         /\ \A x \in 1 .. Strrchr : buffer[conn][x].end = "cr"
         /\ \A j \in 0 .. Lines :
                (\A x \in 1 .. j : buffer[conn][x].end = "cr") => j <= Strrchr
<1> DEFINE S == {j \in 0 .. Lines : \A x \in 1 .. j : buffer[conn][x].end = "cr"}
<1>1. Lines \in Nat /\ 0 \in S /\ S \in SUBSET (0 .. Lines)
  BY ExecAssumption
<1>2. Max(S) \in S /\ \A y \in S : Max(S) >= y
  <2> HIDE DEF S
  <2> QED
    BY <1>1, MaxBounded
<1> QED
  BY <1>1, <1>2 DEF Strrchr

\* A string ends inside its buffer, before a '\0'.
LEMMA StringEndBound ==
  ASSUME Types, NEW i \in 1 .. Lines + 1
  PROVE  /\ StringEnd(i) \in i - 1 .. Lines
         /\ \A x \in i .. StringEnd(i) :
                buffer[conn][x] # Blank /\ (x < StringEnd(i) => buffer[conn][x].end = "cr")
         /\ \A j \in i - 1 .. Lines :
                (\A x \in i .. j : buffer[conn][x] # Blank /\ (x < j => buffer[conn][x].end = "cr"))
                => j <= StringEnd(i)
<1> DEFINE S == {j \in i - 1 .. Lines : \A x \in i .. j :
                    buffer[conn][x] # Blank /\ (x < j => buffer[conn][x].end = "cr")}
<1>1. Lines \in Nat /\ i - 1 \in S /\ S \in SUBSET (0 .. Lines)
  BY ExecAssumption
<1>2. Max(S) \in S /\ \A y \in S : Max(S) >= y
  <2> HIDE DEF S
  <2> QED
    BY <1>1, MaxBounded
<1> QED
  BY <1>1, <1>2 DEF StringEnd

\* Before the first command.
LEMMA InitTypes == Init => Types
  BY ExecAssumption
     DEF Init, Types, ClientTypes, LoopTypes, SharedTypes, VtyTypes, Clients, Cleared, Cell,
         Blank, Nothing, AtHome

\* A type invariant of each part is kept by the actions that change the part.
LEMMA ClientTypesStep == ASSUME Types, Next PROVE ClientTypes'
<1>1. ASSUME NEW targets, Exec(targets) PROVE ClientTypes'
  <2>1. cmd + 1 \in Cmds
    BY <1>1, ExecAssumption DEF Exec, Types, VtyTypes, Cmds
  <2>2. \A c \in Clients : Append(pending[c], cmd + 1) \in Seq(Cmds)
    BY <2>1 DEF Types, ClientTypes
  <2> QED
    BY <1>1, <2>2 DEF Exec, Types, ClientTypes
<1>2. ASSUME NEW c \in Clients, NoAnswer(c) PROVE ClientTypes'
  BY <1>2 DEF NoAnswer, Types, ClientTypes
<1>3. ASSUME NEW c \in Clients, NEW n \in 0 .. Lines, Answer(c, n) PROVE ClientTypes'
  <2>1. pending[c] \in Seq(Cmds) /\ pending[c][1] \in Cmds /\ Tail(pending[c]) \in Seq(Cmds)
    BY <1>3 DEF Answer, Types, ClientTypes
  <2>2. Append(results[c], [cmd |-> pending[c][1], lines |-> n]) \in Seq(Result)
    <3>1. results[c] \in Seq(Result) /\ [cmd |-> pending[c][1], lines |-> n] \in Result
      BY <2>1 DEF Types, ClientTypes, Result
    <3> QED
      BY <3>1
  <2> QED
    BY <1>3, <2>1, <2>2 DEF Answer, Types, ClientTypes
<1>4. ASSUME Loop PROVE ClientTypes'
  <2>1. ASSUME NEW c \in Clients, BeginStore(c) PROVE ClientTypes'
    BY <2>1 DEF BeginStore, Types, ClientTypes
  <2> QED
    BY <1>4, <2>1 DEF Loop, Store, SetFlag, Types, ClientTypes, clientSide
<1>5. ASSUME Vty PROVE ClientTypes'
  BY <1>5 DEF Vty, Awake, WalkSkips, WalkEnds, PrintBegins, PrintLast, PrintLine, PrintNext,
              PrintCrashes, PrintRest, Memset, ClearFlag, clientSide, Types, ClientTypes
<1> QED
  BY <1>1, <1>2, <1>3, <1>4, <1>5 DEF Next

\* The lines a client's popen gives for one command.
LEMMA LinesOf ==
  ASSUME NEW n \in 0 .. Lines, NEW k \in Cmds
  PROVE  LET s == [i \in 1 .. n |-> <<k, i>>] IN
         s \in Seq(LineOf) /\ Len(s) = n /\ \A i \in 1 .. n : s[i] = <<k, i>>
  BY ExecAssumption DEF LineOf

\* tcp_recv keeps its place, and what it has still to store, in range.
LEMMA LoopTypesStep == ASSUME Types, Next PROVE LoopTypes'
<1>1. ASSUME NEW c \in Clients, BeginStore(c) PROVE LoopTypes'
  <2>1. results[c] \in Seq(Result) /\ results[c][1] \in Result
    BY <1>1 DEF BeginStore, Types, ClientTypes
  <2>2. results[c][1].cmd \in Cmds /\ results[c][1].lines \in 0 .. Lines
    BY <2>1 DEF Result
  <2> QED
    <3>1. loop' = [at |-> "store", c |-> c, cmd |-> results[c][1].cmd,
                   lines |-> results[c][1].lines, cell |-> 1]
          /\ received' = received /\ late' = late
      BY <1>1 DEF BeginStore
    <3>2. 1 \in 1 .. Lines + 1 /\ results[c][1].cmd \in 0 .. MaxCmds /\ 1 <= results[c][1].lines + 1
      BY <2>2, ExecAssumption DEF Cmds
    <3> QED
      BY <2>2, <3>1, <3>2 DEF Types, LoopTypes
<1>2. CASE Store
  <2>1. loop.cell \in 1 .. Lines + 1 /\ loop.lines \in 0 .. Lines /\ loop.cell <= loop.lines + 1
    BY <1>2 DEF Store, Types, LoopTypes
  <2>2. CASE loop.cell > loop.lines
    BY <1>2, <2>1, <2>2 DEF Store, Types, LoopTypes
  <2>3. CASE loop.cell <= loop.lines
    <3>1. loop.cell + 1 \in 1 .. Lines + 1 /\ loop.cell + 1 <= loop.lines + 1
      BY <2>1, <2>3, ExecAssumption
    <3> QED
      BY <1>2, <2>1, <2>3, <3>1 DEF Store, Types, LoopTypes
  <2> QED
    BY <2>1, <2>2, <2>3
<1>3. CASE SetFlag
  <2>1. loop.c \in Clients /\ loop.cmd \in Cmds /\ loop.lines \in 0 .. Lines
    BY <1>3 DEF SetFlag, Types, LoopTypes
  <2>2. [i \in 1 .. loop.lines |-> <<loop.cmd, i>>] \in Seq(LineOf)
    BY <2>1, LinesOf
  <2>3. received[loop.c] \o [i \in 1 .. loop.lines |-> <<loop.cmd, i>>]
          \in Seq(LineOf)
    BY <2>1, <2>2 DEF Types, LoopTypes
  <2> QED
    BY <1>3, <2>1, <2>3 DEF SetFlag, Types, LoopTypes
<1>4. CASE UNCHANGED loopSide
  BY <1>4 DEF loopSide, Types, LoopTypes
<1> QED
  BY <1>1, <1>2, <1>3, <1>4
     DEF Next, Exec, Answer, NoAnswer, Loop, Vty, Awake, WalkSkips, WalkEnds, PrintBegins,
         PrintLast, PrintLine, PrintNext, PrintCrashes, PrintRest, Memset, ClearFlag

\* flag and buffer, which both threads write, keep their types.
LEMMA SharedTypesStep == ASSUME Types, Next PROVE SharedTypes'
<1>1. CASE Store
  <2>1. /\ loop.c \in Clients /\ loop.cmd \in Cmds
        /\ loop.cell \in 1 .. Lines + 1 /\ loop.lines \in 0 .. Lines
    BY <1>1 DEF Store, Types, LoopTypes
  <2>2. Blank \in Cell(loop.cell) /\ Line(loop.cmd, loop.cell) \in Cell(loop.cell)
    BY <2>1 DEF Cell, Line
  <2> QED
    BY <1>1, <2>1, <2>2 DEF Store, Types, SharedTypes
<1>2. CASE SetFlag
  BY <1>2 DEF SetFlag, Types, SharedTypes
<1>3. CASE PrintLine
  <2>1. /\ conn \in Clients /\ ptr.current \in 1 .. Lines
        /\ buffer[conn][ptr.current] \in Cell(ptr.current)
    BY <1>3 DEF PrintLine, Types, VtyTypes, SharedTypes, Nothing, AtHome
  <2>2. [buffer[conn][ptr.current] EXCEPT !.end = "nul"] \in Cell(ptr.current)
    BY <2>1 DEF Cell, Blank
  <2> QED
    BY <1>3, <2>1, <2>2 DEF PrintLine, Types, SharedTypes
<1>4. CASE Memset
  BY <1>4 DEF Memset, Types, SharedTypes, Cleared, Cell
<1>5. CASE ClearFlag
  BY <1>5 DEF ClearFlag, Types, SharedTypes
<1>6. CASE UNCHANGED <<buffer, flag>>
  BY <1>6 DEF Types, SharedTypes
<1> QED
  BY <1>1, <1>2, <1>3, <1>4, <1>5, <1>6
     DEF Next, Exec, Answer, NoAnswer, Loop, BeginStore, Vty, Awake, WalkSkips, WalkEnds,
         PrintBegins, PrintLast, PrintNext, PrintCrashes, PrintRest

\* What is printed of the cells from i to j.
LEMMA ShownType ==
  ASSUME Types, vty \notin AtHome, NEW i \in 1 .. Lines + 1, NEW j \in i - 1 .. Lines
  PROVE  /\ Shown(i, j) \in Seq(Shows) /\ Len(Shown(i, j)) = j + 1 - i
         /\ \A x \in 1 .. j + 1 - i :
                /\ i + x - 1 \in i .. j
                /\ Shown(i, j)[x] = [cmd |-> buffer[conn][i + x - 1].cmd,
                                     line |-> buffer[conn][i + x - 1].line, under |-> cmd]
<1>1. /\ i \in Nat /\ j \in Nat /\ j + 1 - i \in Nat /\ Lines \in Nat
      /\ conn \in Clients /\ cmd \in Cmds
  BY ExecAssumption DEF Types, VtyTypes, AtHome
<1>2. ASSUME NEW x \in 1 .. j + 1 - i
      PROVE  /\ i + x - 1 \in i .. j /\ i + x - 1 \in 1 .. Lines
             /\ buffer[conn][i + x - 1].cmd \in {Nothing} \cup Cmds
             /\ buffer[conn][i + x - 1].line \in 0 .. Lines
  <2>1. i + x - 1 \in i .. j /\ i + x - 1 \in 1 .. Lines
    BY <1>1
  <2>2. buffer[conn][i + x - 1] \in Cell(i + x - 1)
    BY <1>1, <2>1 DEF Types, SharedTypes
  <2> QED
    BY <1>1, <2>1, <2>2 DEF Cell, Blank
<1>3. Shown(i, j) \in [1 .. j + 1 - i -> Shows]
  BY <1>1, <1>2 DEF Shown, Shows
<1> QED
  BY <1>1, <1>2, <1>3 DEF Shown

\* strchr finds the end of the line at the cursor, or nothing.
LEMMA StrchrBound ==
  ASSUME NEW i \in 1 .. Lines + 1
  PROVE  Strchr(i) \in {Nothing, i} /\ Strchr(i) \in 0 .. Lines
  BY ExecAssumption DEF Strchr, Nothing

\* print_all_client_return_info keeps its place and cursors in range.
LEMMA VtyTypesStep == ASSUME Types, Next PROVE VtyTypes'
<1>0. Lines \in Nat /\ NumClients \in Nat /\ MaxCmds \in Nat
  BY ExecAssumption
<1>1. ASSUME NEW targets, Exec(targets) PROVE VtyTypes'
  <2>1. cmd + 1 \in Cmds /\ cmd + 1 \in 0 .. MaxCmds
    BY <1>1, <1>0 DEF Exec, Types, VtyTypes, Cmds
  <2> QED
    BY <1>1, <2>1 DEF Exec, Types, VtyTypes, AtHome
<1>2. CASE Awake
  BY <1>0, <1>2 DEF Awake, Types, VtyTypes, AtHome
<1>3. CASE WalkSkips
  BY <1>0, <1>3 DEF WalkSkips, Types, VtyTypes, AtHome, Clients
<1>4. CASE WalkEnds
  BY <1>4 DEF WalkEnds, Types, VtyTypes, AtHome
<1>5. CASE PrintBegins
  <2>1. 1 \in 1 .. Lines + 1 /\ Strchr(1) \in {Nothing, 1} /\ Strchr(1) \in 0 .. Lines
    BY <1>0, StrchrBound
  <2> QED
    BY <1>0, <1>5, <2>1 DEF PrintBegins, Types, VtyTypes, AtHome, Nothing
<1>6. CASE PrintLast
  <2>1. Strrchr \in 0 .. Lines
    BY StrrchrBound
  <2> QED
    BY <1>6, <2>1 DEF PrintLast, Types, VtyTypes, AtHome
<1>7. CASE PrintLine
  <2>1. /\ conn \in Clients /\ ptr.current = ptr.tmp
        /\ ptr.tmp \in 1 .. Lines + 1 /\ ptr.current \in ptr.tmp - 1 .. Lines
    BY <1>0, <1>7 DEF PrintLine, Types, VtyTypes, AtHome, Nothing
  <2>2. Shown(ptr.tmp, ptr.current) \in Seq(Shows)
    BY <1>7, <2>1, ShownType DEF PrintLine, AtHome
  <2>3. printed[conn] \o Shown(ptr.tmp, ptr.current) \in Seq(Shows)
    BY <2>1, <2>2 DEF Types, VtyTypes
  <2> QED
    BY <1>7, <2>1, <2>3 DEF PrintLine, Types, VtyTypes, AtHome
<1>8. CASE PrintNext
  <2>1. ptr.current = ptr.tmp /\ ptr.current + 1 \in 1 .. Lines + 1
    BY <1>0, <1>8 DEF PrintNext, Types, VtyTypes
  <2>2. Strchr(ptr.current + 1) \in {Nothing, ptr.current + 1} /\ Strchr(ptr.current + 1) \in 0 .. Lines
    BY <2>1, StrchrBound
  <2>3. ptr' = [tmp |-> ptr.current + 1, current |-> Strchr(ptr.current + 1), last |-> ptr.last]
    BY <1>8 DEF PrintNext, Types, VtyTypes
  <2> QED
    BY <1>8, <2>1, <2>2, <2>3 DEF PrintNext, Types, VtyTypes, AtHome
<1>9. CASE PrintCrashes
  BY <1>9 DEF PrintCrashes, Types, VtyTypes, AtHome
<1>10. CASE PrintRest
  <2>1. conn \in Clients /\ ptr.tmp \in 1 .. Lines + 1
    BY <1>10 DEF PrintRest, Types, VtyTypes, AtHome
  <2>2. StringEnd(ptr.tmp) \in ptr.tmp - 1 .. Lines
    BY <2>1, StringEndBound
  <2>3. Shown(ptr.tmp, StringEnd(ptr.tmp)) \in Seq(Shows)
    BY <1>10, <2>1, <2>2, ShownType DEF PrintRest, AtHome
  <2>4. printed[conn] \o Shown(ptr.tmp, StringEnd(ptr.tmp)) \in Seq(Shows)
    BY <2>1, <2>3 DEF Types, VtyTypes
  <2> QED
    BY <1>10, <2>1, <2>4 DEF PrintRest, Types, VtyTypes, AtHome
<1>11. CASE Memset
  BY <1>11 DEF Memset, Types, VtyTypes, AtHome
<1>12. CASE ClearFlag
  <2>1. conn \in Clients
    BY <1>12 DEF ClearFlag, Types, VtyTypes, AtHome
  <2> QED
    BY <1>0, <1>12, <2>1 DEF ClearFlag, Types, VtyTypes, AtHome, Clients
<1>13. CASE UNCHANGED vtySide
  BY <1>13 DEF vtySide, Types, VtyTypes
<1> QED
  BY <1>1, <1>2, <1>3, <1>4, <1>5, <1>6, <1>7, <1>8, <1>9, <1>10, <1>11, <1>12, <1>13
     DEF Next, Answer, NoAnswer, Loop, BeginStore, Store, SetFlag, Vty

\* All of it, and steps that change nothing.
LEMMA TypesStep == ASSUME Types, [Next]_vars PROVE Types'
<1>1. CASE UNCHANGED vars
  BY <1>1 DEF vars, clientSide, loopSide, vtySide, Types, ClientTypes, LoopTypes, SharedTypes,
              VtyTypes
<1>2. CASE Next
  BY <1>2, ClientTypesStep, LoopTypesStep, SharedTypesStep, VtyTypesStep DEF Types
<1> QED
  BY <1>1, <1>2

-----------------------------------------------------------------------------
\* The steps of the vty thread but Exec.
LEMMA VtyFrame ==
  ASSUME Vty
  PROVE  UNCHANGED <<clientSide, loopSide, cmd>>
  BY DEF Vty, Awake, WalkSkips, WalkEnds, PrintBegins, PrintLast, PrintLine, PrintNext,
         PrintCrashes, PrintRest, Memset, ClearFlag

\* What Tail leaves, element by element.
LEMMA TailAt ==
  ASSUME NEW T, NEW s \in Seq(T), s # <<>>
  PROVE  /\ Tail(s) \in Seq(T) /\ Len(Tail(s)) = Len(s) - 1
         /\ \A i \in 1 .. Len(Tail(s)) : Tail(s)[i] = s[i + 1] /\ i + 1 \in 1 .. Len(s) /\ i + 1 # 1
  OBVIOUS

\* What Append adds, element by element.
LEMMA AppendAt ==
  ASSUME NEW T, NEW s \in Seq(T), NEW e \in T
  PROVE  /\ Append(s, e) \in Seq(T) /\ Len(Append(s, e)) = Len(s) + 1
         /\ \A i \in 1 .. Len(s) + 1 :
                /\ Append(s, e)[i] = IF i = Len(s) + 1 THEN e ELSE s[i]
                /\ i # Len(s) + 1 => i \in 1 .. Len(s)
  OBVIOUS

\* What the commands and the results of client c become in a step.
LEMMA ClientStep ==
  ASSUME Types, Next, NEW c \in Clients
  PROVE  \/ /\ cmd' = cmd + 1 /\ cmd' \in Cmds /\ results'[c] = results[c] /\ loop' = loop
            /\ pending'[c] \in {pending[c], Append(pending[c], cmd + 1)}
         \/ /\ cmd' = cmd /\ loop' = loop
            /\ pending[c] # <<>> /\ pending'[c] = Tail(pending[c])
            /\ \/ results'[c] = results[c]
               \/ \E n \in 0 .. Lines :
                      results'[c] = Append(results[c], [cmd |-> pending[c][1], lines |-> n])
         \/ /\ cmd' = cmd /\ pending'[c] = pending[c]
            /\ loop.at = "poll" /\ results[c] # <<>> /\ results'[c] = Tail(results[c])
            /\ loop'.at = "store" /\ loop'.c = c /\ loop'.cmd = results[c][1].cmd
            /\ loop'.cell = 1 /\ loop'.lines = results[c][1].lines
         \/ /\ cmd' = cmd /\ pending'[c] = pending[c] /\ results'[c] = results[c]
            /\ \/ loop' = loop
               \/ loop'.at = "poll"
               \/ loop'.at # "poll" /\ loop'.c # c
               \/ /\ loop.at = "store" /\ loop'.c = loop.c /\ loop'.cmd = loop.cmd
                  /\ \/ loop'.at = "store" /\ loop'.cell = loop.cell + 1
                     \/ loop'.at = "flag"
<1>1. ASSUME NEW targets, Exec(targets)
      PROVE  /\ cmd' = cmd + 1 /\ cmd' \in Cmds /\ results'[c] = results[c] /\ loop' = loop
             /\ pending'[c] \in {pending[c], Append(pending[c], cmd + 1)}
  BY <1>1, ExecAssumption DEF Exec, Types, VtyTypes, ClientTypes, Cmds, loopSide
<1>2. ASSUME NEW d \in Clients, NoAnswer(d)
      PROVE  /\ cmd' = cmd /\ loop' = loop /\ results'[c] = results[c]
             /\ IF d = c THEN pending[c] # <<>> /\ pending'[c] = Tail(pending[c])
                         ELSE pending'[c] = pending[c]
  BY <1>2 DEF NoAnswer, Types, ClientTypes, loopSide, vtySide
<1>3. ASSUME NEW d \in Clients, NEW n \in 0 .. Lines, Answer(d, n)
      PROVE  /\ cmd' = cmd /\ loop' = loop
             /\ IF d = c
                THEN /\ pending[c] # <<>> /\ pending'[c] = Tail(pending[c])
                     /\ results'[c] = Append(results[c], [cmd |-> pending[c][1], lines |-> n])
                ELSE pending'[c] = pending[c] /\ results'[c] = results[c]
  BY <1>3 DEF Answer, Types, ClientTypes, loopSide, vtySide
<1>4. ASSUME NEW d \in Clients, BeginStore(d)
      PROVE  /\ cmd' = cmd /\ pending' = pending /\ loop.at = "poll" /\ loop'.at = "store"
             /\ loop'.c = d /\ loop'.cell = 1
             /\ IF d = c
                THEN /\ results[c] # <<>> /\ results'[c] = Tail(results[c])
                     /\ loop'.cmd = results[c][1].cmd /\ loop'.lines = results[c][1].lines
                ELSE results'[c] = results[c]
  BY <1>4 DEF BeginStore, Types, ClientTypes, vtySide
<1>5. ASSUME Store
      PROVE  /\ cmd' = cmd /\ pending' = pending /\ results' = results
             /\ loop.at = "store" /\ loop'.c = loop.c /\ loop'.cmd = loop.cmd
             /\ \/ loop'.at = "store" /\ loop'.cell = loop.cell + 1
                \/ loop'.at = "flag"
  BY <1>5 DEF Store, Types, LoopTypes, vtySide, clientSide
<1>6. ASSUME SetFlag
      PROVE  cmd' = cmd /\ pending' = pending /\ results' = results /\ loop'.at = "poll"
  BY <1>6 DEF SetFlag, Types, LoopTypes, vtySide, clientSide
<1>7. ASSUME Vty
      PROVE  cmd' = cmd /\ pending' = pending /\ results' = results /\ loop' = loop
  BY <1>7, VtyFrame DEF clientSide, loopSide
<1> QED
  BY <1>1, <1>2, <1>3, <1>4, <1>5, <1>6, <1>7 DEF Next, Loop

\* Once a command of c is past, it stays so.
LEMMA PastStep ==
  ASSUME Types, Next, NEW c \in Clients, Fresh(c), NEW k \in Int, Past(c, k)
  PROVE  Past(c, k)'
<1>1. pending[c] \in Seq(Cmds) /\ results[c] \in Seq(Result) /\ cmd \in Int
  BY DEF Types, ClientTypes, VtyTypes
<1>2. ASSUME cmd' = cmd + 1, cmd' \in Cmds, results'[c] = results[c],
             pending'[c] \in {pending[c], Append(pending[c], cmd + 1)}
      PROVE  Past(c, k)'
  <2>1. k <= cmd' /\ k # cmd + 1
    BY <1>1, <1>2 DEF Past
  <2>2. \A i \in 1 .. Len(pending'[c]) : pending'[c][i] # k
    <3>1. CASE pending'[c] = pending[c]
      BY <3>1 DEF Past
    <3>2. CASE pending'[c] = Append(pending[c], cmd + 1)
      <4>1. cmd + 1 \in Cmds
        BY <1>2
      <4>2. \A i \in 1 .. Len(pending[c]) + 1 :
                /\ Append(pending[c], cmd + 1)[i] = IF i = Len(pending[c]) + 1 THEN cmd + 1
                                                   ELSE pending[c][i]
                /\ i # Len(pending[c]) + 1 => i \in 1 .. Len(pending[c])
        BY <1>1, <4>1, AppendAt
      <4>3. Len(pending'[c]) = Len(pending[c]) + 1
        BY <1>1, <3>2
      <4> QED
        BY <2>1, <3>2, <4>2, <4>3 DEF Past
    <3> QED
      BY <1>2, <3>1, <3>2
  <2> QED
    BY <1>2, <2>1, <2>2 DEF Past
<1>3. ASSUME cmd' = cmd, pending[c] # <<>>, pending'[c] = Tail(pending[c]),
             \/ results'[c] = results[c]
             \/ \E n \in 0 .. Lines :
                    results'[c] = Append(results[c], [cmd |-> pending[c][1], lines |-> n])
      PROVE  Past(c, k)'
  <2>1. pending[c][1] \in Cmds /\ pending[c][1] # k
    BY <1>1, <1>3 DEF Past
  <2>2. \A i \in 1 .. Len(pending'[c]) : pending'[c][i] # k
    BY <1>1, <1>3, TailAt DEF Past
  <2>3. \A i \in 1 .. Len(results'[c]) : results'[c][i].cmd # k
    <3>1. ASSUME NEW n \in 0 .. Lines,
                 results'[c] = Append(results[c], [cmd |-> pending[c][1], lines |-> n])
          PROVE  \A i \in 1 .. Len(results'[c]) : results'[c][i].cmd # k
      <4>1. [cmd |-> pending[c][1], lines |-> n] \in Result
        BY <2>1 DEF Result
      <4> DEFINE r == [cmd |-> pending[c][1], lines |-> n]
      <4>2. /\ Len(Append(results[c], r)) = Len(results[c]) + 1
            /\ \A i \in 1 .. Len(results[c]) + 1 :
                   /\ Append(results[c], r)[i] = IF i = Len(results[c]) + 1 THEN r ELSE results[c][i]
                   /\ i # Len(results[c]) + 1 => i \in 1 .. Len(results[c])
        <5> HIDE DEF r
        <5> QED
          BY <1>1, <4>1, AppendAt
      <4>3. r.cmd # k
        BY <2>1
      <4> QED
        BY <3>1, <4>2, <4>3 DEF Past
    <3> QED
      BY <1>3, <3>1 DEF Past
  <2> QED
    BY <1>3, <2>2, <2>3 DEF Past
<1>4. ASSUME cmd' = cmd, pending'[c] = pending[c],
             results'[c] = results[c] \/ (results[c] # <<>> /\ results'[c] = Tail(results[c]))
      PROVE  Past(c, k)'
  <2>1. \A i \in 1 .. Len(results'[c]) : results'[c][i].cmd # k
    <3>1. CASE results[c] # <<>> /\ results'[c] = Tail(results[c])
      <4>1. \A i \in 1 .. Len(Tail(results[c])) :
                Tail(results[c])[i] = results[c][i + 1] /\ i + 1 \in 1 .. Len(results[c])
        BY <1>1, <3>1, TailAt
      <4> QED
        BY <3>1, <4>1 DEF Past
    <3> QED
      BY <1>4, <3>1 DEF Past
  <2> QED
    BY <1>4, <2>1 DEF Past
<1> QED
  BY <1>2, <1>3, <1>4, ClientStep

\* What the operations do to the queues of a client.
LEMMA CommandQueued ==
  ASSUME NEW p \in Seq(Cmds), NEW r \in Seq(Result), NEW n \in Int, n + 1 \in Cmds, Queues(p, r, n)
  PROVE  Queues(p, r, n + 1) /\ Queues(Append(p, n + 1), r, n + 1)
<1>1. /\ \A i \in 1 .. Len(p) : p[i] \in Int /\ p[i] <= n
      /\ \A i \in 1 .. Len(r) : r[i].cmd \in Int /\ r[i].cmd <= n
  <2>1. /\ \A i \in 1 .. Len(p) : p[i] \in Cmds
        /\ \A i \in 1 .. Len(r) : r[i] \in Result
    OBVIOUS
  <2> QED
    BY <2>1 DEF Queues, Cmds, Result
<1>2. Len(Append(p, n + 1)) = Len(p) + 1
  BY AppendAt
<1>3. \A i \in 1 .. Len(p) + 1 :
          /\ Append(p, n + 1)[i] = IF i = Len(p) + 1 THEN n + 1 ELSE p[i]
          /\ i # Len(p) + 1 => i \in 1 .. Len(p)
  BY AppendAt
<1> DEFINE q == Append(p, n + 1)
<1>4. \A i \in 1 .. Len(q) : q[i] <= n + 1
  BY <1>1, <1>2, <1>3
<1>5. \A i, j \in 1 .. Len(q) : i # j => q[i] # q[j]
  <2> SUFFICES ASSUME NEW i \in 1 .. Len(q), NEW j \in 1 .. Len(q), i # j PROVE q[i] # q[j]
    OBVIOUS
  <2> QED
    BY <1>1, <1>2, <1>3 DEF Queues
<1>6. \A i \in 1 .. Len(r), j \in 1 .. Len(q) : r[i].cmd # q[j]
  BY <1>1, <1>2, <1>3 DEF Queues
<1>7. \A i \in 1 .. Len(r) : r[i].cmd <= n + 1
  BY <1>1
<1>8. \A i \in 1 .. Len(p) : p[i] <= n + 1
  BY <1>1
<1> HIDE DEF q
<1> QED
  BY <1>4, <1>5, <1>6, <1>7, <1>8 DEF Queues, q

\* A client runs the oldest command it has: its result is the newest.
LEMMA CommandRun ==
  ASSUME NEW p \in Seq(Cmds), NEW r \in Seq(Result), NEW n \in Int, Queues(p, r, n), p # <<>>
  PROVE  /\ Queues(Tail(p), r, n)
         /\ \A x \in 0 .. Lines : Queues(Tail(p), Append(r, [cmd |-> p[1], lines |-> x]), n)
<1>1. /\ 1 \in 1 .. Len(p) /\ p[1] \in Cmds
      /\ \A i \in 1 .. Len(Tail(p)) :
             Tail(p)[i] = p[i + 1] /\ i + 1 \in 1 .. Len(p) /\ i + 1 # 1
  BY TailAt
<1>2. Queues(Tail(p), r, n)
  <2>1. \A i, j \in 1 .. Len(Tail(p)) : i # j => i + 1 # j + 1
    OBVIOUS
  <2> QED
    BY <1>1, <2>1 DEF Queues
<1>3. ASSUME NEW x \in 0 .. Lines
      PROVE  Queues(Tail(p), Append(r, [cmd |-> p[1], lines |-> x]), n)
  <2> DEFINE e == [cmd |-> p[1], lines |-> x]
  <2>1. e \in Result /\ e.cmd = p[1]
    BY <1>1 DEF Result
  <2> HIDE DEF e
  <2>2. /\ Len(Append(r, e)) = Len(r) + 1
        /\ \A i \in 1 .. Len(r) + 1 :
               /\ Append(r, e)[i] = IF i = Len(r) + 1 THEN e ELSE r[i]
               /\ i # Len(r) + 1 => i \in 1 .. Len(r)
    BY <2>1, AppendAt
  <2> DEFINE q == Append(r, e)
  <2> HIDE DEF q
  <2>3. \A i \in 1 .. Len(q) : 
          \/ q[i].cmd = p[1] /\ i = Len(r) + 1
          \/ q[i] = r[i] /\ i \in 1 .. Len(r)
    BY <2>1, <2>2 DEF q
  <2>4. ASSUME NEW i \in 1 .. Len(q), NEW j \in 1 .. Len(q), i # j PROVE q[i].cmd # q[j].cmd
    <3>1. CASE i = Len(r) + 1
      BY <1>1, <2>3, <2>4, <3>1 DEF Queues
    <3>2. CASE j = Len(r) + 1
      BY <1>1, <2>3, <2>4, <3>2 DEF Queues
    <3>3. CASE i # Len(r) + 1 /\ j # Len(r) + 1
      BY <2>3, <2>4, <3>3 DEF Queues
    <3> QED
      BY <3>1, <3>2, <3>3
  <2>5. \A i \in 1 .. Len(q), j \in 1 .. Len(Tail(p)) : q[i].cmd # Tail(p)[j]
    BY <1>1, <2>3 DEF Queues
  <2>6. \A i \in 1 .. Len(q) : q[i].cmd <= n
    BY <1>1, <2>3 DEF Queues
  <2>7. Queues(Tail(p), q, n)
    BY <1>2, <2>4, <2>5, <2>6 DEF Queues
  <2> QED
    BY <2>7 DEF q, e
<1> QED
  BY <1>2, <1>3

\* The loop thread takes the oldest result.
LEMMA ResultTaken ==
  ASSUME NEW p \in Seq(Cmds), NEW r \in Seq(Result), NEW n \in Int, Queues(p, r, n), r # <<>>
  PROVE  Queues(p, Tail(r), n)
<1>1. /\ \A i \in 1 .. Len(Tail(r)) : Tail(r)[i] = r[i + 1] /\ i + 1 \in 1 .. Len(r)
      /\ \A i, j \in 1 .. Len(Tail(r)) : i # j => i + 1 # j + 1
  BY TailAt
<1> QED
  BY <1>1 DEF Queues

\* No handler changes the order of commands, results and stored lines.
LEMMA FreshStep ==
  ASSUME Types, Next, NEW c \in Clients, Fresh(c)
  PROVE  Fresh(c)'
<1>2. Queues(pending'[c], results'[c], cmd')
  <2>1. pending[c] \in Seq(Cmds) /\ results[c] \in Seq(Result) /\ cmd \in Int
    BY DEF Types, ClientTypes, VtyTypes
  <2>2. Queues(pending[c], results[c], cmd)
    BY DEF Fresh
  <2>3. ASSUME cmd' = cmd + 1, cmd' \in Cmds, results'[c] = results[c],
               pending'[c] \in {pending[c], Append(pending[c], cmd + 1)}
        PROVE  Queues(pending'[c], results'[c], cmd')
    BY <2>1, <2>2, <2>3, CommandQueued
  <2>4. ASSUME cmd' = cmd, pending[c] # <<>>, pending'[c] = Tail(pending[c]),
               \/ results'[c] = results[c]
               \/ \E n \in 0 .. Lines :
                      results'[c] = Append(results[c], [cmd |-> pending[c][1], lines |-> n])
        PROVE  Queues(pending'[c], results'[c], cmd')
    BY <2>1, <2>2, <2>4, CommandRun
  <2>5. ASSUME cmd' = cmd, pending'[c] = pending[c],
               results'[c] = results[c] \/ (results[c] # <<>> /\ results'[c] = Tail(results[c]))
        PROVE  Queues(pending'[c], results'[c], cmd')
    BY <2>1, <2>2, <2>5, ResultTaken
  <2> QED
    BY <2>3, <2>4, <2>5, ClientStep
<1>1. ASSUME loop'.at # "poll", loop'.c = c PROVE Past(c, loop.cmd)'
  <2>1. CASE loop.at # "poll" /\ loop.c = c /\ loop'.cmd = loop.cmd
    <3>1. PICK k \in Int : k = loop.cmd
      BY DEF Types, LoopTypes
    <3>2. Past(c, k)'
      BY <2>1, <3>1, PastStep DEF Fresh
    <3> QED
      BY <2>1, <3>1, <3>2 DEF Past
  <2>2. CASE /\ results[c] # <<>> /\ results'[c] = Tail(results[c]) /\ pending'[c] = pending[c]
             /\ loop'.cmd = results[c][1].cmd /\ cmd' = cmd
    <3>1. /\ results[c] \in Seq(Result) /\ 1 \in 1 .. Len(results[c])
          /\ \A i \in 1 .. Len(results'[c]) :
                 results'[c][i] = results[c][i + 1] /\ i + 1 \in 1 .. Len(results[c]) /\ i + 1 # 1
      BY <2>2, TailAt DEF Types, ClientTypes
    <3>2. loop'.cmd <= cmd' /\ \A i \in 1 .. Len(pending'[c]) : pending'[c][i] # loop'.cmd
      BY <2>2, <3>1 DEF Fresh, Queues
    <3>3. \A i \in 1 .. Len(results'[c]) : results'[c][i].cmd # loop'.cmd
      BY <2>2, <3>1 DEF Fresh, Queues
    <3> QED
      BY <3>2, <3>3 DEF Past
  <2> QED
    BY <1>1, <2>1, <2>2, ClientStep
<1> QED
  BY <1>1, <1>2 DEF Fresh

\* Once a line of c is stored or past, it stays so.
LEMMA StoredStep ==
  ASSUME Types, Next, NEW c \in Clients, Fresh(c), NEW k \in Int, NEW i \in Int, Stored(c, k, i)
  PROVE  Stored(c, k, i)'
<1>1. Past(c, k)'
  BY PastStep DEF Stored
<1>2. ASSUME loop'.at = "store", loop'.c = c, loop'.cmd = k PROVE i < loop'.cell
  <2>1. CASE loop' = loop
    BY <1>2, <2>1 DEF Stored
  <2>2. CASE results[c] # <<>> /\ loop'.cmd = results[c][1].cmd
    <3>1. results[c] \in Seq(Result) /\ 1 \in 1 .. Len(results[c])
      BY <2>2 DEF Types, ClientTypes
    <3> QED
      BY <1>2, <2>2, <3>1 DEF Stored, Past
  <2>3. CASE loop.at = "store" /\ loop'.c = loop.c /\ loop'.cmd = loop.cmd /\ loop'.cell = loop.cell + 1
    BY <1>2, <2>3 DEF Stored, Types, LoopTypes
  <2> QED
    BY <1>2, <2>1, <2>2, <2>3, ClientStep
<1> QED
  BY <1>1, <1>2 DEF Stored

-----------------------------------------------------------------------------
\* Only Memset takes Up back.
LEMMA UpStep ==
  ASSUME Types, Next, NEW c \in Clients, vty # "memset"
  PROVE  /\ Up(c) \in Int /\ Up(c)' \in Int /\ Up(c) <= Up(c)'
<1>0. /\ Lines \in Nat /\ ptr.tmp \in 1 .. Lines + 1
      /\ vty \notin AtHome => conn \in Clients
      /\ vty = "strchr" => ptr.current = ptr.tmp
  BY ExecAssumption DEF Types, VtyTypes
<1>1. Up(c) \in Int
  BY <1>0 DEF Up
<1>2. CASE UNCHANGED <<vty, conn, ptr>>
  BY <1>1, <1>2 DEF Up
<1>3. CASE \/ Awake \/ WalkSkips \/ WalkEnds \/ ClearFlag \/ \E targets : Exec(targets)
  BY <1>0, <1>3 DEF Exec, Awake, WalkSkips, WalkEnds, ClearFlag, Up
<1>4. CASE PrintBegins
  BY <1>0, <1>4 DEF PrintBegins, Up
<1>8. CASE PrintCrashes \/ PrintRest
  <2>1. vty = "print" /\ vty' \in {"memset", "crashed"} /\ conn' = conn
    BY <1>8, Zenon DEF PrintCrashes, PrintRest
  <2> QED
    BY <1>0, <2>1 DEF Up
<1>5. CASE PrintLast
  <2>1. ptr'.tmp = ptr.tmp
    BY <1>5 DEF PrintLast, Types, VtyTypes
  <2> QED
    BY <1>0, <1>5, <2>1 DEF PrintLast, Up
<1>6. CASE PrintLine
  BY <1>0, <1>6 DEF PrintLine, Up
<1>7. CASE PrintNext
  <2>1. ptr'.tmp = ptr.current + 1
    BY <1>7 DEF PrintNext, Types, VtyTypes
  <2> QED
    BY <1>0, <1>7, <2>1 DEF PrintNext, Up
<1> QED
  BY <1>2, <1>3, <1>4, <1>5, <1>6, <1>7, <1>8
     DEF Next, Answer, NoAnswer, Loop, BeginStore, Store, SetFlag, Vty, Memset, vtySide

\* A step that prints nothing for c and stores nothing new in its buffer.
LEMMA OnceFrame ==
  ASSUME Types, Next, NEW c \in Clients, Fresh(c), Once(c), printed'[c] = printed[c],
         \A i \in 1 .. Lines : buffer'[c][i] # Blank =>
             /\ buffer[c][i] # Blank /\ buffer'[c][i].cmd = buffer[c][i].cmd
             /\ i > Up(c)' => i > Up(c)
  PROVE  Once(c)'
<1>1. ASSUME NEW i \in 1 .. Lines, buffer'[c][i] # Blank
      PROVE  /\ Stored(c, buffer[c][i].cmd, i)'
             /\ i > Up(c)' => ~ Printed(c, buffer[c][i].cmd, i)'
  <2>1. PICK k \in Int : k = buffer[c][i].cmd
    BY <1>1 DEF Types, SharedTypes, Cell, Cmds, Blank
  <2>2. Stored(c, k, i)'
    BY <1>1, <2>1, StoredStep DEF Once
  <2>3. i > Up(c)' => ~ Printed(c, k, i)'
    BY <1>1, <2>1 DEF Once, Printed
  <2>4. buffer'[c][i].cmd = k
    BY <1>1, <2>1
  <2> QED
    BY <2>2, <2>3, <2>4 DEF Stored, Past, Printed
<1>2. ASSUME NEW x \in 1 .. Len(printed[c]), printed[c][x].cmd # Nothing
      PROVE  Stored(c, printed[c][x].cmd, printed[c][x].line)'
  <2>0. printed[c][x] \in Shows
    BY DEF Types, VtyTypes
  <2>1. PICK k \in Int, i \in Int : k = printed[c][x].cmd /\ i = printed[c][x].line
    BY <2>0 DEF Shows, Cmds, Nothing
  <2>2. Stored(c, k, i)'
    BY <1>2, <2>1, StoredStep DEF Once
  <2> QED
    BY <2>1, <2>2 DEF Stored, Past
<1> QED
  BY <1>1, <1>2 DEF Once

\* Two sequences behind each other, and where the second begins.
LEMMA ConcatAt ==
  ASSUME NEW T, NEW s \in Seq(T), NEW t \in Seq(T)
  PROVE  /\ s \o t \in Seq(T) /\ Len(s \o t) = Len(s) + Len(t)
         /\ \A x \in 1 .. Len(s) : (s \o t)[x] = s[x]
         /\ \A x \in Len(s) + 1 .. Len(s) + Len(t) : (s \o t)[x] = t[x - Len(s)]
  OBVIOUS

\* The second part of a concatenation, by its own index.
LEMMA ConcatFrom ==
  ASSUME NEW T, NEW s \in Seq(T), NEW t \in Seq(T)
  PROVE  \A i \in 1 .. Len(t) : (s \o t)[Len(s) + i] = t[i]
  OBVIOUS

\* The cell that the x-th element printed comes from.
LEMMA CellOf ==
  ASSUME NEW n \in Nat, NEW i \in Int, NEW j \in Int, NEW x \in n + 1 .. n + (j + 1 - i)
  PROVE  x - n \in 1 .. j + 1 - i /\ i + (x - n) - 1 \in i .. j
  OBVIOUS

\* The lines printed for conn when the cells from i to j have gone out: x is one of
\* them and z its cell.
LEMMA PrintedAt ==
  ASSUME Types, vty \notin AtHome, NEW i \in 1 .. Lines + 1, NEW j \in i - 1 .. Lines
  PROVE  LET p == printed[conn]
             q == p \o Shown(i, j)
         IN
         /\ q \in Seq(Shows) /\ Len(q) = Len(p) + (j + 1 - i) /\ Len(p) \in Nat
         /\ \A x \in 1 .. Len(p) : q[x] = p[x]
         /\ \A x \in Len(p) + 1 .. Len(p) + (j + 1 - i) :
                LET z == i + (x - Len(p)) - 1 IN
                /\ z \in i .. j /\ z \in 1 .. Lines
                /\ q[x] = [cmd |-> buffer[conn][z].cmd, line |-> buffer[conn][z].line, under |-> cmd]
<1> DEFINE p == printed[conn]
           s == Shown(i, j)
<1>1. p \in Seq(Shows) /\ Len(p) \in Nat
  BY DEF Types, VtyTypes
<1>2. /\ i \in Int /\ j \in Int /\ Lines \in Nat /\ i >= 1 /\ j <= Lines
  BY ExecAssumption
<1>3. s \in Seq(Shows) /\ Len(s) = j + 1 - i
  BY ShownType
<1>4. \A x \in 1 .. j + 1 - i :
          s[x] = [cmd |-> buffer[conn][i + x - 1].cmd, line |-> buffer[conn][i + x - 1].line,
                  under |-> cmd]
  BY ShownType
<1> HIDE DEF s, p
<1>5. /\ p \o s \in Seq(Shows) /\ Len(p \o s) = Len(p) + (j + 1 - i)
      /\ \A x \in 1 .. Len(p) : (p \o s)[x] = p[x]
      /\ \A x \in Len(p) + 1 .. Len(p) + (j + 1 - i) : (p \o s)[x] = s[x - Len(p)]
  BY <1>1, <1>3, ConcatAt
<1>6. ASSUME NEW x \in Len(p) + 1 .. Len(p) + (j + 1 - i)
      PROVE  LET z == i + (x - Len(p)) - 1 IN
             /\ z \in i .. j /\ z \in 1 .. Lines
             /\ (p \o s)[x] = [cmd |-> buffer[conn][z].cmd, line |-> buffer[conn][z].line,
                               under |-> cmd]
  <2>1. x - Len(p) \in 1 .. j + 1 - i /\ i + (x - Len(p)) - 1 \in i .. j
    BY <1>1, <1>2, CellOf
  <2>2. i + (x - Len(p)) - 1 \in 1 .. Lines
    BY <1>2, <2>1
  <2> QED
    BY <1>4, <1>5, <2>1, <2>2
<1> QED
  BY <1>1, <1>5, <1>6 DEF p, s

\* Printing cells i to j of the buffer, which were not printed before.
LEMMA OncePrints ==
  ASSUME Types, Next, vty \notin AtHome, Fresh(conn), Once(conn),
         NEW i \in 1 .. Lines + 1, NEW j \in i - 1 .. Lines, Up(conn) < i, j <= Up(conn)',
         printed'[conn] = printed[conn] \o Shown(i, j), conn' = conn,
         \A x \in 1 .. Lines : buffer'[conn][x] # Blank =>
             buffer[conn][x] # Blank /\ buffer'[conn][x].cmd = buffer[conn][x].cmd,
         Up(conn) \in Int, Up(conn)' \in Int, Up(conn) <= Up(conn)'
  PROVE  Once(conn)'
<1>0. PICK c \in Clients : c = conn
  BY DEF Types, VtyTypes
<1> DEFINE n == Len(printed[c])
<1>2. /\ n \in Nat /\ printed'[c] \in Seq(Shows) /\ Len(printed'[c]) = n + (j + 1 - i)
      /\ \A x \in 1 .. n : printed'[c][x] = printed[c][x]
      /\ \A x \in n + 1 .. n + (j + 1 - i) :
             LET z == i + (x - n) - 1 IN
             /\ z \in i .. j /\ z \in 1 .. Lines
             /\ printed'[c][x] = [cmd |-> buffer[c][z].cmd, line |-> buffer[c][z].line,
                                  under |-> cmd]
  <2>1. LET p == printed[conn]
            q == p \o Shown(i, j)
        IN
        /\ q \in Seq(Shows) /\ Len(q) = Len(p) + (j + 1 - i) /\ Len(p) \in Nat
        /\ \A x \in 1 .. Len(p) : q[x] = p[x]
        /\ \A x \in Len(p) + 1 .. Len(p) + (j + 1 - i) :
               LET z == i + (x - Len(p)) - 1 IN
               /\ z \in i .. j /\ z \in 1 .. Lines
               /\ q[x] = [cmd |-> buffer[conn][z].cmd, line |-> buffer[conn][z].line, under |-> cmd]
    BY PrintedAt
  <2>2. printed'[c] = printed[c] \o Shown(i, j)
    BY <1>0
  <2> QED
    BY <1>0, <2>1, <2>2
<1>9. Once(c)
  BY <1>0
<1>10. \A x \in 1 .. n : printed'[c][x] = printed[c][x]
  BY <1>2
<1>1. n = Len(printed[c])
  OBVIOUS
<1> HIDE DEF n
<1>11. \A x, y \in 1 .. n : x # y /\ printed'[c][x].cmd # Nothing =>
          printed'[c][x].cmd # printed'[c][y].cmd \/ printed'[c][x].line # printed'[c][y].line
  <2>1. \A x, y \in 1 .. n : x # y /\ printed[c][x].cmd # Nothing =>
            printed[c][x].cmd # printed[c][y].cmd \/ printed[c][x].line # printed[c][y].line
    BY <1>1, <1>9 DEF Once
  <2> QED
    BY <1>10, <2>1
<1>12. \A k, l : ~ Printed(c, k, l) =>
           \A y \in 1 .. n : printed'[c][y].cmd # k \/ printed'[c][y].line # l
  BY <1>1, <1>10 DEF Printed
<1>3. /\ i \in Int /\ j \in Int /\ j + 1 - i \in Nat /\ Lines \in Nat
  BY ExecAssumption
<1>4. \A z \in 1 .. Lines : IF buffer[c][z] = Blank THEN buffer[c][z].cmd = Nothing
                            ELSE /\ buffer[c][z].cmd \in Cmds /\ buffer[c][z].cmd # Nothing
                                 /\ buffer[c][z].line = z
  BY <1>0 DEF Types, SharedTypes, Cell, Cmds, Blank, Nothing
\* What is printed now: line z of a command, not printed before, or an empty line.
<1>5. ASSUME NEW x \in n + 1 .. n + (j + 1 - i), printed'[c][x].cmd # Nothing
      PROVE  /\ printed'[c][x].line = i + (x - n) - 1
             /\ Stored(c, printed'[c][x].cmd, printed'[c][x].line)
             /\ ~ Printed(c, printed'[c][x].cmd, printed'[c][x].line)
             /\ printed'[c][x].cmd \in Int /\ printed'[c][x].line \in i .. j
  <2>1. PICK z \in 1 .. Lines : z = i + (x - n) - 1
    BY <1>2
  <2>2. /\ z \in i .. j /\ printed'[c][x].cmd = buffer[c][z].cmd
        /\ printed'[c][x].line = buffer[c][z].line
    <3>1. /\ i + (x - n) - 1 \in i .. j
          /\ printed'[c][x] = [cmd |-> buffer[c][i + (x - n) - 1].cmd,
                               line |-> buffer[c][i + (x - n) - 1].line, under |-> cmd]
      BY <1>2
    <3> QED
      BY <2>1, <3>1
  <2>3. buffer[c][z] # Blank /\ buffer[c][z].line = z /\ buffer[c][z].cmd \in Int
    BY <1>4, <1>5, <2>2 DEF Cmds
  <2>4. z > Up(c)
    BY <1>0, <1>3, <2>2
  <2> QED
    BY <1>0, <2>1, <2>2, <2>3, <2>4 DEF Once
<1>6. ASSUME NEW x \in 1 .. Len(printed'[c]), printed'[c][x].cmd # Nothing
      PROVE  Stored(c, printed[c][x].cmd, printed[c][x].line)'
  <2>1. PICK k \in Int, l \in Int : k = printed'[c][x].cmd /\ l = printed'[c][x].line
    <3>1. printed'[c][x] \in Shows
      BY <1>2
    <3> QED
      BY <3>1, ExecAssumption DEF Shows, Cmds, Nothing
  <2>2. Stored(c, k, l)
    <3>1. CASE x \in 1 .. n
      BY <1>1, <1>2, <1>6, <1>9, <2>1, <3>1 DEF Once
    <3>2. CASE x \in n + 1 .. n + (j + 1 - i)
      BY <1>5, <1>6, <2>1, <3>2
    <3> QED
      BY <1>2, <1>3, <3>1, <3>2
  <2>3. Stored(c, k, l)'
    BY <1>0, <2>2, StoredStep
  <2> QED
    BY <2>1, <2>3 DEF Stored, Past
<1>7. ASSUME NEW x \in 1 .. Lines, buffer'[c][x] # Blank
      PROVE  Stored(c, buffer[c][x].cmd, x)' /\ (x > Up(c)' => ~ Printed(c, buffer[c][x].cmd, x)')
  <2>1. PICK k \in Int : k = buffer[c][x].cmd /\ k # Nothing /\ buffer'[c][x].cmd = k
    BY <1>0, <1>4, <1>7 DEF Cmds
  <2>2. Stored(c, k, x)'
    BY <1>0, <1>7, <2>1, StoredStep DEF Once
  <2>3. ASSUME x > Up(c)', NEW y \in 1 .. Len(printed'[c]),
               printed'[c][y].cmd = k, printed'[c][y].line = x
        PROVE  FALSE
    <3>1. x > Up(c) /\ x > j
      BY <1>0, <1>3, <2>3
    <3>2. CASE y \in 1 .. n
      BY <1>9, <1>7, <1>0, <1>12, <2>1, <2>3, <3>1, <3>2 DEF Once
    <3>3. CASE y \in n + 1 .. n + (j + 1 - i)
      BY <1>3, <1>5, <2>1, <2>3, <3>1, <3>3
    <3> QED
      BY <1>2, <1>3, <3>2, <3>3
  <2> QED
    BY <2>1, <2>2, <2>3 DEF Stored, Past, Printed
<1>8. ASSUME NEW x \in 1 .. Len(printed'[c]), NEW y \in 1 .. Len(printed'[c]), x # y,
             printed'[c][x].cmd # Nothing, printed'[c][x].cmd = printed'[c][y].cmd,
             printed'[c][x].line = printed'[c][y].line
      PROVE  FALSE
  <2>1. CASE x \in 1 .. n /\ y \in 1 .. n
    BY <1>8, <1>11, <2>1
  <2>2. CASE x \in 1 .. n /\ y \in n + 1 .. n + (j + 1 - i)
    BY <1>5, <1>8, <1>12, <2>2
  <2>3. CASE x \in n + 1 .. n + (j + 1 - i) /\ y \in 1 .. n
    BY <1>5, <1>8, <1>12, <2>3
  <2>4. CASE x \in n + 1 .. n + (j + 1 - i) /\ y \in n + 1 .. n + (j + 1 - i)
    <3>1. i + (x - n) - 1 # i + (y - n) - 1
      BY <1>2, <1>3, <1>8
    <3> QED
      BY <1>5, <1>8, <2>4, <3>1
  <2> QED
    BY <1>2, <1>3, <2>1, <2>2, <2>3, <2>4
<1> QED
  BY <1>0, <1>6, <1>7, <1>8 DEF Once

\* A line stored is one that was not stored before.
LEMMA OnceStores ==
  ASSUME Types, Store, NEW c \in Clients, Fresh(c), Once(c), Next
  PROVE  Once(c)'
<1>1. /\ printed' = printed /\ vty' = vty /\ conn' = conn /\ ptr' = ptr /\ cmd' = cmd
      /\ results' = results /\ pending' = pending
      /\ loop.at = "store" /\ loop.cell \in 1 .. Lines + 1 /\ loop.cmd \in Cmds /\ loop.c \in Clients
  BY DEF Store, vtySide, clientSide, Types, LoopTypes
<1>2. Up(c)' = Up(c)
  BY <1>1 DEF Up
<1>3. CASE loop.c # c \/ loop.cell > loop.lines \/ loop.cell > Lines
  <2>1. \A i \in 1 .. Lines : buffer'[c][i] # Blank =>
             /\ buffer[c][i] # Blank /\ buffer'[c][i].cmd = buffer[c][i].cmd
    BY <1>1, <1>3 DEF Store, Types, SharedTypes
  <2> QED
    BY <1>1, <1>2, <2>1, OnceFrame
<1>4. CASE loop.c = c /\ loop.cell <= loop.lines /\ loop.cell <= Lines
  <2> DEFINE n == loop.cell
  <2>1. n \in 1 .. Lines /\ n \in Int /\ loop.lines \in Int
    BY <1>1, <1>4, ExecAssumption DEF Types, LoopTypes
  <2>2. /\ loop' = [loop EXCEPT !.cell = n + 1]
        /\ buffer' = [buffer EXCEPT ![c][n] = Line(loop.cmd, n)]
    <3>1. ~ (loop.cell > loop.lines) /\ ~ (loop.cell > Lines) /\ loop.c = c
      BY <1>4, <2>1, ExecAssumption
    <3> QED
      BY <1>1, <3>1, Zenon DEF Store
  <2>3. /\ loop'.at = "store" /\ loop'.c = c /\ loop'.cmd = loop.cmd /\ loop'.cell = n + 1
    BY <1>1, <1>4, <2>2 DEF Types, LoopTypes
  <2>4. \A i \in 1 .. Lines : buffer'[c][i] = IF i = n THEN Line(loop.cmd, n) ELSE buffer[c][i]
    BY <2>1, <2>2 DEF Types, SharedTypes
  <2>5. Past(c, loop.cmd) /\ Past(c, loop.cmd)'
    BY <1>1, <1>4, <2>3 DEF Fresh, Past
  <2>6. ~ Printed(c, loop.cmd, n)
    BY <1>1, <1>4 DEF Once, Printed, Stored, Nothing, Cmds
  <2>7. ASSUME NEW i \in 1 .. Lines, buffer'[c][i] # Blank
        PROVE  /\ Stored(c, buffer[c][i].cmd, i)'
               /\ i > Up(c)' => ~ Printed(c, buffer[c][i].cmd, i)'
    <3>1. CASE i = n
      <4>1. buffer'[c][i].cmd = loop.cmd
        BY <2>4, <3>1 DEF Line
      <4> QED
        BY <1>1, <2>1, <2>3, <2>5, <2>6, <3>1, <4>1 DEF Stored, Past, Printed
    <3>2. CASE i # n
      <4>1. PICK k \in Int : k = buffer[c][i].cmd
        BY <2>4, <2>7, <3>2 DEF Types, SharedTypes, Cell, Cmds, Blank
      <4>2. Stored(c, k, i)'
        BY <2>4, <2>7, <3>2, <4>1, StoredStep DEF Once
      <4>3. i > Up(c) => ~ Printed(c, k, i)
        BY <2>4, <2>7, <3>2, <4>1 DEF Once
      <4>4. buffer'[c][i].cmd = k
        BY <2>4, <3>2, <4>1
      <4> QED
        BY <1>1, <1>2, <4>2, <4>3, <4>4 DEF Stored, Past, Printed
    <3> QED
      BY <3>1, <3>2
  <2>8. ASSUME NEW x \in 1 .. Len(printed[c]), printed[c][x].cmd # Nothing
        PROVE  Stored(c, printed[c][x].cmd, printed[c][x].line)'
    <3>0. printed[c][x] \in Shows
      BY DEF Types, VtyTypes
    <3>1. PICK k \in Int, i \in Int : k = printed[c][x].cmd /\ i = printed[c][x].line
      BY <3>0 DEF Shows, Cmds, Nothing
    <3>2. Stored(c, k, i)'
      BY <2>8, <3>1, StoredStep DEF Once
    <3> QED
      BY <1>1, <3>1, <3>2 DEF Stored, Past
  <2> QED
    BY <1>1, <2>7, <2>8 DEF Once
<1> QED
  <2>1. loop.c \in Int /\ loop.cell \in Int /\ loop.lines \in Int /\ Lines \in Int
    BY <1>1, ExecAssumption DEF Types, LoopTypes, Clients
  <2> QED
    BY <1>3, <1>4, <2>1

\* No step prints a line again, one case for each that prints or stores.
LEMMA OnceStep ==
  ASSUME Types, Next, NEW c \in Clients, Fresh(c), Once(c)
  PROVE  Once(c)'
<1>0. Lines \in Nat
  BY ExecAssumption
<1>1. CASE Store
  BY <1>1, OnceStores
<1>2. CASE PrintLine
  <2>1. /\ vty = "print" /\ vty' = "strchr" /\ conn' = conn /\ ptr' = ptr /\ ptr.current = ptr.tmp
        /\ conn \in Clients /\ ptr.tmp \in 1 .. Lines
        /\ buffer' = [buffer EXCEPT ![conn][ptr.tmp].end = "nul"]
        /\ printed' = [printed EXCEPT ![conn] = @ \o Shown(ptr.tmp, ptr.tmp)]
    <3>1. /\ vty = "print" /\ vty' = "strchr" /\ conn' = conn /\ ptr' = ptr
          /\ ptr.current # Nothing
          /\ buffer' = [buffer EXCEPT ![conn][ptr.current].end = "nul"]
          /\ printed' = [printed EXCEPT ![conn] = @ \o Shown(ptr.tmp, ptr.current)]
      BY <1>2, Zenon DEF PrintLine
    <3>2. ptr.current = ptr.tmp /\ conn \in Clients /\ ptr.tmp \in 1 .. Lines + 1
          /\ ptr.current \in 0 .. Lines
      BY <3>1 DEF Types, VtyTypes, AtHome
    <3>3. ptr.tmp \in 1 .. Lines
      BY <1>0, <3>2
    <3> QED
      BY <3>1, <3>2, <3>3, Zenon
  <2>2. \A d \in Clients, x \in 1 .. Lines : buffer'[d][x] # Blank =>
            buffer[d][x] # Blank /\ buffer'[d][x].cmd = buffer[d][x].cmd
    <3> SUFFICES ASSUME NEW d \in Clients, NEW x \in 1 .. Lines, buffer'[d][x] # Blank
                 PROVE  buffer[d][x] # Blank /\ buffer'[d][x].cmd = buffer[d][x].cmd
      OBVIOUS
    <3>1. buffer[d][x] \in Cell(x)
      BY DEF Types, SharedTypes
    <3>2. buffer'[d][x] = IF d = conn /\ x = ptr.tmp THEN [buffer[d][x] EXCEPT !.end = "nul"]
                          ELSE buffer[d][x]
      BY <2>1 DEF Types, SharedTypes
    <3> QED
      BY <3>1, <3>2 DEF Cell, Blank
  <2>3. /\ Up(c) \in Int /\ Up(c)' \in Int /\ Up(c) <= Up(c)'
    BY <2>1, UpStep
  <2>4. CASE c = conn
    <3>1. Up(c) = ptr.tmp - 1 /\ Up(c)' = ptr.tmp
      BY <2>1, <2>4 DEF Up
    <3>2. printed'[conn] = printed[conn] \o Shown(ptr.tmp, ptr.tmp)
      BY <2>1 DEF Types, VtyTypes
    <3>3. PICK i \in 1 .. Lines + 1 : i = ptr.tmp /\ i \in i - 1 .. Lines
      BY <1>0, <2>1
    <3>4. Up(conn) < i /\ i <= Up(conn)' /\ Up(conn) \in Int /\ Up(conn)' \in Int /\ Up(conn) <= Up(conn)'
      BY <1>0, <2>1, <2>3, <2>4, <3>1, <3>3
    <3>5. Once(conn)'
      BY <2>1, <2>2, <2>4, <3>2, <3>3, <3>4, OncePrints DEF AtHome
    <3> QED
      BY <2>1, <2>4, <3>5
  <2>5. CASE c # conn
    <3>1. printed'[c] = printed[c]
      BY <2>1, <2>5 DEF Types, VtyTypes
    <3> QED
      BY <2>2, <2>3, <3>1, OnceFrame
  <2> QED
    BY <2>4, <2>5

<1>3. CASE PrintRest
  <2>1. /\ vty = "print" /\ vty' = "memset" /\ conn' = conn /\ buffer' = buffer
        /\ conn \in Clients /\ ptr.tmp \in 1 .. Lines + 1
        /\ printed' = [printed EXCEPT ![conn] = @ \o Shown(ptr.tmp, StringEnd(ptr.tmp))]
    BY <1>3 DEF PrintRest, Types, VtyTypes, AtHome
  <2>2. StringEnd(ptr.tmp) \in ptr.tmp - 1 .. Lines
    BY <2>1, StringEndBound
  <2>3. /\ Up(c) \in Int /\ Up(c)' \in Int /\ Up(c) <= Up(c)'
    BY <2>1, UpStep
  <2>4. CASE c = conn
    <3>1. Up(c) = ptr.tmp - 1 /\ Up(c)' = Lines
      BY <2>1, <2>4 DEF Up
    <3>2. printed'[conn] = printed[conn] \o Shown(ptr.tmp, StringEnd(ptr.tmp))
      BY <2>1 DEF Types, VtyTypes
    <3>3. PICK i \in 1 .. Lines + 1 : i = ptr.tmp
      BY <2>1
    <3>4. PICK j \in i - 1 .. Lines : j = StringEnd(ptr.tmp)
      BY <2>2, <3>3
    <3>5. Up(conn) < i /\ j <= Up(conn)' /\ Up(conn) \in Int /\ Up(conn)' \in Int /\ Up(conn) <= Up(conn)'
      BY <1>0, <2>1, <2>3, <2>4, <3>1, <3>3, <3>4
    <3>6. Once(conn)'
      BY <2>1, <2>4, <3>2, <3>3, <3>4, <3>5, OncePrints DEF AtHome
    <3> QED
      BY <2>1, <2>4, <3>6
  <2>5. CASE c # conn
    <3>1. printed'[c] = printed[c]
      BY <2>1, <2>5 DEF Types, VtyTypes
    <3> QED
      BY <2>1, <2>3, <3>1, OnceFrame
  <2> QED
    BY <2>4, <2>5
<1>4. CASE Memset
  <2>1. conn' = conn /\ vty = "memset" /\ printed' = printed /\ conn \in Clients
        /\ buffer' = [buffer EXCEPT ![conn] = Cleared]
    BY <1>4 DEF Memset, Types, VtyTypes, AtHome
  <2>2. \A i \in 1 .. Lines : buffer'[c][i] # Blank =>
             /\ c # conn /\ buffer[c][i] # Blank /\ buffer'[c][i].cmd = buffer[c][i].cmd
    BY <2>1 DEF Types, SharedTypes, Cleared
  <2>3. c # conn => Up(c)' = Up(c)
    BY <2>1 DEF Up
  <2> QED
    BY <2>1, <2>2, <2>3, OnceFrame
<1>5. CASE vty # "memset" /\ UNCHANGED <<buffer, printed>>
  BY <1>0, <1>5, UpStep, OnceFrame
<1>6. CASE vty = "memset" /\ UNCHANGED <<buffer, printed, vty, conn>>
  <2>1. Up(c)' = Up(c)
    BY <1>6 DEF Up
  <2> QED
    BY <1>6, <2>1, OnceFrame
<1>7. CASE UNCHANGED <<buffer, printed, vtySide>>
  BY <1>5, <1>6, <1>7 DEF vtySide
<1> QED
  BY <1>1, <1>2, <1>3, <1>4, <1>5, <1>7
     DEF Next, Exec, Answer, NoAnswer, Loop, BeginStore, SetFlag, Vty, Awake, WalkSkips, WalkEnds,
         PrintBegins, PrintLast, PrintNext, PrintCrashes, ClearFlag, vtySide

-----------------------------------------------------------------------------
\* While the vty thread is at another client, or goes from one to the next.
LEMMA PromptElsewhere ==
  ASSUME Types, Next, NEW c \in Clients, Fresh(c), Prompt(c), Vty,
         conn # c \/ vty \in AtHome, conn' # c \/ vty' \in AtHome,
         printed'[c] = printed[c], buffer'[c] = buffer[c], flag'[c] = flag[c],
         flag[c] = 1 => vty' # "idle" /\ (vty' # "sleep" => conn' <= c)
  PROVE  Prompt(c)'
<1>1. UNCHANGED <<results, pending, loop, received, late, cmd>>
  BY VtyFrame DEF clientSide, loopSide
<1>2. \A k, j, m : /\ Held(c, k, j, m) => Held(c, k, j, m)'
                   /\ Owed(c, k, j, m) => Owed(c, k, j, m)'
  BY <1>1 DEF Held, Owed
<1>3. Busy(c)' = Busy(c) /\ InBuffer(c)' = InBuffer(c) /\ (Past(c, cmd) => Past(c, cmd)')
  BY <1>1 DEF Busy, InBuffer, Past
<1>4. ASSUME flag[c] = 1 PROVE \E m \in 0 .. Lines : InHand(c, m)'
  <2>1. PICK m \in 0 .. Lines : InHand(c, m)
    BY <1>4 DEF Prompt
  <2>2. Held(c, cmd, 0, m) /\ Owed(c, cmd, 0, m)
    BY <2>1 DEF InHand, AtHome
  <2>3. PICK k \in Int : k = cmd
    BY DEF Types, VtyTypes
  <2>4. Held(c, k, 0, m)' /\ Owed(c, k, 0, m)' /\ cmd' = k
    BY <1>1, <1>2, <2>2, <2>3
  <2>5. Held(c, cmd, 0, m)' /\ Owed(c, cmd, 0, m)'
    BY <2>4 DEF Held, Owed
  <2> QED
    BY <2>5 DEF InHand
<1>5. ASSUME flag[c] = 0
      PROVE  Held(c, loop.cmd, 0, InBuffer(c))' /\ Owed(c, Nothing, 0, 0)'
  BY <1>1, <1>3, <1>5 DEF Prompt, Held, Owed
<1>6. \A x \in 1 .. Len(printed'[c]) : printed'[c][x].under = printed'[c][x].cmd
  BY DEF Prompt
<1>7. flag[c] = 1 => (~ Busy(c))' /\ Past(c, cmd)' /\ ~ (loop.at = "store" /\ loop.c = c /\ loop.cmd = cmd)'
  BY <1>1, <1>3 DEF Prompt
<1> QED
  BY <1>4, <1>5, <1>6, <1>7 DEF Prompt

\* While the loop thread and the client are at work and the vty thread is not.
LEMMA PromptKept ==
  ASSUME Types, Next, NEW c \in Clients, Fresh(c), Prompt(c), UNCHANGED vtySide,
         received'[c] = received[c], buffer'[c] = buffer[c], flag'[c] = flag[c],
         loop' = loop \/ (~ Busy(c) /\ ~ Busy(c)'),
         flag[c] = 1 => ~ (loop'.at = "store" /\ loop'.c = c /\ loop'.cmd = cmd)
  PROVE  Prompt(c)'
<1>1. cmd' = cmd /\ vty' = vty /\ conn' = conn /\ ptr' = ptr /\ printed' = printed
  BY DEF vtySide
<1>2. flag[c] = 1 => Past(c, cmd)'
  <2>1. PICK k \in Int : k = cmd
    BY DEF Types, VtyTypes
  <2>2. flag[c] = 1 => Past(c, k)'
    BY <2>1, PastStep DEF Prompt
  <2> QED
    BY <1>1, <2>1, <2>2 DEF Past
<1>3. ASSUME flag[c] = 1 PROVE \E m \in 0 .. Lines : InHand(c, m)'
  <2>1. PICK m \in 0 .. Lines : InHand(c, m)
    BY <1>3 DEF Prompt
  <2>2. PICK k, t : k = cmd /\ t = ptr.tmp
    OBVIOUS
  <2>3. /\ Held(c, k, 0, m) => Held(c, cmd, 0, m)'
        /\ Owed(c, k, 0, m) => Owed(c, cmd, 0, m)'
        /\ Held(c, k, 0, 0) => Held(c, cmd, 0, 0)'
        /\ Owed(c, k, 0, 0) => Owed(c, cmd, 0, 0)'
    BY <1>1, <2>2 DEF Held, Owed
  <2>4. /\ Held(c, k, t - 1, m) => Held(c, cmd, ptr.tmp - 1, m)'
        /\ Held(c, k, t, m) => Held(c, cmd, ptr.tmp, m)'
    BY <1>1, <2>2 DEF Held
  <2>5. /\ Owed(c, k, t - 1, m) => Owed(c, cmd, ptr.tmp - 1, m)'
        /\ Owed(c, k, t, m) => Owed(c, cmd, ptr.tmp, m)'
    BY <1>1, <2>2 DEF Owed
  <2> QED
    BY <1>1, <2>1, <2>2, <2>3, <2>4, <2>5 DEF InHand
<1>4. ASSUME flag[c] = 0
      PROVE  Held(c, loop.cmd, 0, InBuffer(c))' /\ Owed(c, Nothing, 0, 0)'
  <2>1. Held(c, loop.cmd, 0, InBuffer(c)) /\ Owed(c, Nothing, 0, 0)
    BY <1>4 DEF Prompt
  <2>2. CASE loop' = loop
    BY <1>1, <2>1, <2>2 DEF Held, Owed, InBuffer, Busy
  <2>3. CASE ~ Busy(c) /\ ~ Busy(c)'
    <3>1. InBuffer(c) = 0 /\ InBuffer(c)' = 0
      BY <2>3 DEF InBuffer
    <3>2. \A i \in 1 .. Lines : buffer[c][i] = Blank
      <4>1. Held(c, loop.cmd, 0, 0)
        BY <2>1, <3>1
      <4>2. \A i \in 1 .. Lines : i > 0
        BY ExecAssumption
      <4> QED
        BY <4>1, <4>2, Zenon DEF Held
    <3> QED
      BY <1>1, <2>1, <3>1, <3>2 DEF Held, Owed
  <2> QED
    BY <2>2, <2>3
<1>5. flag[c] = 1 => ~ Busy(c)'
  BY DEF Prompt, Busy
<1>6. /\ flag[c] = 0 => conn' # c \/ vty' \in AtHome
      /\ flag[c] = 1 => vty' # "idle" /\ (vty' # "sleep" => conn' <= c)
      /\ \A x \in 1 .. Len(printed'[c]) : printed'[c][x].under = printed'[c][x].cmd
  BY <1>1 DEF Prompt
<1> QED
  BY <1>1, <1>2, <1>3, <1>4, <1>5, <1>6 DEF Prompt

\* exec shell: a command goes out while nothing is owed for the last.
LEMMA PromptExec ==
  ASSUME Types, NEW c \in Clients, Prompt(c), NEW targets, Exec(targets)
  PROVE  Prompt(c)'
<1>1. flag[c] = 0 /\ flag' = flag /\ vty' = "sleep"
  BY DEF Exec, Prompt, Types, SharedTypes
<1>2. UNCHANGED <<loop, buffer, printed, received>>
  BY DEF Exec, loopSide
<1> QED
  BY <1>1, <1>2 DEF Prompt, AtHome, Held, Owed, InBuffer, Busy

\* A line stored in time.
LEMMA PromptStore ==
  ASSUME Types, Next, NEW c \in Clients, Fresh(c), Prompt(c), Store, c \notin late'
  PROVE  Prompt(c)'
<1>0. /\ Lines \in Nat /\ loop.at = "store" /\ loop.cell \in 1 .. Lines + 1
      /\ loop.lines \in 0 .. Lines /\ loop.cell <= loop.lines + 1
      /\ loop' = [loop EXCEPT !.at = loop'.at, !.cell = loop'.cell]
      /\ UNCHANGED <<clientSide, flag, received, vtySide>>
  BY ExecAssumption DEF Store, Types, LoopTypes
<1>1. CASE loop.c # c
  <2>1. buffer'[c] = buffer[c] /\ loop'.c = loop.c
    BY <1>0, <1>1 DEF Store, Types, SharedTypes, LoopTypes
  <2>2. ~ Busy(c) /\ ~ Busy(c)'
    BY <1>1, <2>1 DEF Busy
  <2> QED
    BY <1>0, <1>1, <2>1, <2>2, PromptKept
<1>2. CASE loop.c = c
  <2>1. vty = "sleep" /\ loop.cmd = cmd
    BY <1>2 DEF Store, IsLate
  <2>2. flag[c] = 0
    BY <1>0, <1>2, <2>1 DEF Prompt, Types, SharedTypes
  <2>3. InBuffer(c) = loop.cell - 1
    BY <1>0, <1>2 DEF InBuffer, Busy
  <2>4. Held(c, loop.cmd, 0, loop.cell - 1) /\ Owed(c, Nothing, 0, 0)
    BY <2>2, <2>3 DEF Prompt
  <2>5. Held(c, loop.cmd, 0, InBuffer(c))'
    <3>1. CASE loop.cell > loop.lines
      <4>1. loop' = [loop EXCEPT !.at = "flag"] /\ loop.cell - 1 = loop.lines
        BY <1>0, <3>1 DEF Store
      <4>2. loop'.cmd = loop.cmd /\ InBuffer(c)' = loop.lines
        BY <1>2, <4>1 DEF InBuffer, Busy, Types, LoopTypes
      <4>3. \A i \in 1 .. Lines : buffer'[c][i] = IF i = loop.cell THEN Blank ELSE buffer[c][i]
        BY <1>0, <1>2, <3>1 DEF Store, Types, SharedTypes
      <4> QED
        BY <1>0, <2>4, <4>1, <4>2, <4>3 DEF Held
    <3>2. CASE loop.cell <= loop.lines
      <4>0. ~ (loop.cell > loop.lines) /\ ~ (loop.cell > Lines) /\ loop.cell \in 1 .. Lines
        BY <1>0, <3>2
      <4>1. loop' = [loop EXCEPT !.cell = loop.cell + 1]
            /\ buffer' = [buffer EXCEPT ![loop.c][loop.cell] = Line(loop.cmd, loop.cell)]
        BY <1>0, <4>0, Zenon DEF Store
      <4>2. loop'.cmd = loop.cmd /\ InBuffer(c)' = loop.cell
        BY <1>0, <1>2, <4>1 DEF InBuffer, Busy, Types, LoopTypes
      <4>3. \A i \in 1 .. Lines : buffer'[c][i] = IF i = loop.cell THEN Line(loop.cmd, loop.cell)
                                                  ELSE buffer[c][i]
        BY <1>2, <4>0, <4>1 DEF Types, SharedTypes
      <4>4. ASSUME NEW i \in 1 .. Lines
            PROVE  /\ i > loop.cell => buffer'[c][i] = Blank
                   /\ i <= loop.cell => buffer'[c][i].cmd = loop.cmd /\ buffer'[c][i].end = "cr"
        <5>1. CASE i = loop.cell
          BY <4>0, <4>3, <5>1 DEF Line
        <5>2. CASE i # loop.cell
          BY <1>0, <2>4, <4>0, <4>3, <5>2 DEF Held
        <5> QED
          BY <5>1, <5>2
      <4> QED
        BY <4>2, <4>4 DEF Held
    <3> QED
      BY <1>0, <3>1, <3>2
  <2>6. Owed(c, Nothing, 0, 0)'
    BY <1>0, <2>4 DEF Owed, vtySide
  <2> QED
    BY <1>0, <2>1, <2>2, <2>5, <2>6 DEF Prompt, vtySide, AtHome
<1> QED
  BY <1>1, <1>2

\* A result complete in time.
LEMMA PromptSetFlag ==
  ASSUME Types, Next, NEW c \in Clients, Fresh(c), Prompt(c), SetFlag, c \notin late'
  PROVE  Prompt(c)'
<1>0. /\ loop.at = "flag" /\ loop'.at = "poll" /\ loop.lines \in 0 .. Lines
      /\ UNCHANGED <<clientSide, buffer, vtySide>> /\ ~ Busy(c)' /\ Lines \in Nat
      /\ loop'.lines = loop.lines /\ loop.cmd \in Cmds
  BY ExecAssumption DEF SetFlag, Types, LoopTypes, Busy
<1>1. CASE loop.c # c
  <2>1. flag'[c] = flag[c] /\ received'[c] = received[c]
    BY <1>1 DEF SetFlag, Types, SharedTypes, LoopTypes
  <2>2. ~ Busy(c)
    BY <1>1 DEF Busy
  <2> QED
    BY <1>0, <2>1, <2>2, PromptKept
<1>2. CASE loop.c = c
  <2>1. vty = "sleep" /\ loop.cmd = cmd
    BY <1>2 DEF SetFlag, IsLate
  <2>2. flag[c] = 0 /\ flag'[c] = 1
    BY <1>0, <1>2 DEF SetFlag, Prompt, Busy, Types, SharedTypes
  <2>3. Held(c, cmd, 0, loop.lines) /\ Owed(c, Nothing, 0, 0)
    BY <1>0, <1>2, <2>1, <2>2 DEF Prompt, InBuffer, Busy
  <2>4. Past(c, cmd)'
    BY <1>0, <1>2, <2>1 DEF Fresh, Past, clientSide, vtySide
  <2>5. Held(c, cmd, 0, loop.lines)'
    BY <1>0, <2>3 DEF Held, vtySide
  <2> DEFINE s == [i \in 1 .. loop.lines |-> <<loop.cmd, i>>]
  <2>6. received'[c] = received[c] \o s
    BY <1>2 DEF SetFlag, Types, LoopTypes
  <2>7. s \in Seq(LineOf) /\ Len(s) = loop.lines
        /\ \A i \in 1 .. loop.lines : s[i] = <<loop.cmd, i>>
    BY <1>0, LinesOf
  <2>8. received[c] \in Seq(LineOf) /\ Len(received[c]) = Len(printed[c])
        /\ \A i \in 1 .. Len(printed[c]) :
               received[c][i] = <<printed[c][i].cmd, printed[c][i].line>>
    BY <2>3 DEF Types, LoopTypes, Owed
  <2> HIDE DEF s
  <2>9. /\ Len(received'[c]) = Len(printed[c]) + loop.lines
        /\ \A i \in 1 .. Len(printed[c]) : received'[c][i] = received[c][i]
        /\ \A i \in 1 .. loop.lines : received'[c][Len(printed[c]) + i] = s[i]
    <3>0. s \in Seq(LineOf) /\ received[c] \in Seq(LineOf)
      BY <2>7, <2>8
    <3>1. /\ Len(received[c] \o s) = Len(received[c]) + Len(s)
          /\ \A i \in 1 .. Len(received[c]) : (received[c] \o s)[i] = received[c][i]
      BY <3>0, ConcatAt
    <3>2. \A i \in 1 .. Len(s) : (received[c] \o s)[Len(received[c]) + i] = s[i]
      BY <3>0, ConcatFrom
    <3> QED
      BY <2>6, <2>7, <2>8, <3>1, <3>2
  <2>10. Owed(c, cmd, 0, loop.lines)'
    <3>1. printed' = printed /\ cmd' = cmd
      BY <1>0 DEF vtySide
    <3>2. loop'.lines = loop.lines
      BY DEF SetFlag, Types, LoopTypes
    <3>3. /\ Len(received'[c]) = Len(printed[c]) + (loop.lines - 0)
          /\ \A i \in 1 .. loop.lines - 0 : received'[c][Len(printed[c]) + i] = <<cmd, 0 + i>>
      <4>1. \A i \in 1 .. loop.lines - 0 : i \in 1 .. loop.lines /\ 0 + i = i
        BY <1>0
      <4>2. loop.lines - 0 = loop.lines
        BY <1>0
      <4> QED
        BY <2>1, <2>7, <2>9, <4>1, <4>2
    <3> QED
      BY <2>8, <2>9, <3>1, <3>2, <3>3 DEF Owed
  <2>11. InHand(c, loop.lines)'
    <3>1. vty' \in AtHome /\ loop'.lines = loop.lines
      BY <1>0, <2>1 DEF vtySide, AtHome, SetFlag, Types, LoopTypes
    <3>2. Held(c, cmd, 0, loop.lines)' /\ Owed(c, cmd, 0, loop.lines)'
      BY <2>5, <2>10
    <3> QED
      BY <3>1, <3>2 DEF InHand
  <2>12. loop'.lines \in 0 .. Lines
    BY <1>0 DEF SetFlag, Types, LoopTypes
  <2> QED
    BY <1>0, <2>1, <2>2, <2>4, <2>11, <2>12 DEF Prompt, vtySide
<1> QED
  BY <1>1, <1>2

\* tcp_recv takes the result of some client.
LEMMA PromptBeginStore ==
  ASSUME Types, Next, NEW c \in Clients, Fresh(c), Prompt(c), NEW d \in Clients, BeginStore(d)
  PROVE  Prompt(c)'
<1>1. /\ ~ Busy(c) /\ ~ Busy(c)' /\ loop'.at = "store" /\ loop'.c = d
      /\ loop'.cmd = results[d][1].cmd /\ results[d] # <<>>
      /\ UNCHANGED <<buffer, flag, received, vtySide>>
  BY DEF BeginStore, Busy
<1>2. flag[c] = 1 /\ d = c => results[c][1].cmd # cmd
  <2>1. results[c] \in Seq(Result)
    BY DEF Types, ClientTypes
  <2> QED
    BY <1>1, <2>1 DEF Prompt, Past
<1> QED
  BY <1>1, <1>2, PromptKept

\* A client takes a command or sends its result.
LEMMA PromptClient ==
  ASSUME Types, Next, NEW c \in Clients, Fresh(c), Prompt(c),
         UNCHANGED <<buffer, flag, loopSide, vtySide>>
  PROVE  Prompt(c)'
<1>1. UNCHANGED <<buffer, flag, loop, received, vtySide>>
  BY DEF loopSide
<1>2. flag[c] = 1 => ~ (loop'.at = "store" /\ loop'.c = c /\ loop'.cmd = cmd)
  BY <1>1 DEF Prompt
<1> QED
  BY <1>1, <1>2, PromptKept

\* The printing of a client that has no late result: what it knows where it is.
LEMMA InPrinting ==
  ASSUME Types, Prompt(conn), vty \notin AtHome
  PROVE  flag[conn] = 1 /\ \E m \in 0 .. Lines : InHand(conn, m)
  BY DEF Types, SharedTypes, VtyTypes, Prompt

\* The walk from client to client.
LEMMA PromptWalk ==
  ASSUME Types, Next, NEW c \in Clients, Fresh(c), Prompt(c),
         Awake \/ WalkSkips \/ WalkEnds
  PROVE  Prompt(c)'
<1>0. conn \in Int /\ c \in Int /\ 1 <= c /\ c <= NumClients /\ NumClients \in Int
  BY ExecAssumption DEF Types, VtyTypes, Clients
<1>1. /\ vty \in AtHome /\ vty' \in AtHome /\ UNCHANGED <<printed, buffer, flag>>
  BY DEF Awake, WalkSkips, WalkEnds, AtHome
<1>2. flag[c] = 1 => vty' # "idle" /\ (vty' # "sleep" => conn' <= c)
  <2>1. CASE Awake
    BY <1>0, <2>1 DEF Awake
  <2>2. CASE WalkSkips
    BY <1>0, <2>2 DEF WalkSkips, Prompt
  <2>3. CASE WalkEnds
    BY <1>0, <2>3 DEF WalkEnds, Prompt
  <2> QED
    BY <2>1, <2>2, <2>3
<1> QED
  BY <1>1, <1>2, PromptElsewhere DEF Vty

\* The printing of another client.
LEMMA PromptOther ==
  ASSUME Types, Next, NEW c \in Clients, Fresh(c), Prompt(c), c # conn,
         \/ PrintBegins \/ PrintLast \/ PrintLine \/ PrintNext \/ PrintCrashes \/ PrintRest
         \/ Memset \/ ClearFlag
  PROVE  Prompt(c)'
<1>0. conn \in Clients /\ conn \in Int /\ c \in Int
  BY DEF Types, VtyTypes, AtHome, Clients, PrintBegins, PrintLast, PrintLine, PrintNext,
         PrintCrashes, PrintRest, Memset, ClearFlag
<1>1. printed'[c] = printed[c] /\ flag'[c] = flag[c]
  BY <1>0 DEF Types, VtyTypes, SharedTypes, PrintBegins, PrintLast, PrintLine, PrintNext,
              PrintCrashes, PrintRest, Memset, ClearFlag
<1>2. buffer'[c] = buffer[c]
  BY <1>0 DEF Types, SharedTypes, PrintBegins, PrintLast, PrintLine, PrintNext,
              PrintCrashes, PrintRest, Memset, ClearFlag
<1>3. /\ vty \notin {"idle", "sleep"} /\ vty' \notin {"idle", "sleep"}
      /\ \/ conn' = conn
         \/ conn' = conn + 1 /\ vty' = "walk"
  BY DEF PrintBegins, PrintLast, PrintLine, PrintNext, PrintCrashes, PrintRest, Memset, ClearFlag
<1>4. flag[c] = 1 => conn <= c
  BY <1>3 DEF Prompt
<1>5. flag[c] = 1 => conn' <= c
  BY <1>0, <1>3, <1>4
<1>6. conn' # c \/ vty' \in AtHome
  BY <1>3 DEF AtHome
<1> QED
  BY <1>1, <1>2, <1>3, <1>5, <1>6, PromptElsewhere DEF Vty

\* One that has just begun or ended: the client itself, with what is in hand next.
LEMMA PromptAt ==
  ASSUME Types, Next, NEW c \in Clients, c = conn, Prompt(c), Vty, vty' \notin AtHome,
         flag[c] = 1, flag' = flag, conn' = conn, vty # "idle",
         \A x \in 1 .. Len(printed'[c]) : printed'[c][x].under = printed'[c][x].cmd,
         NEW m \in 0 .. Lines, InHand(c, m)'
  PROVE  Prompt(c)'
<1>1. UNCHANGED <<results, pending, loop, received, cmd>>
  BY VtyFrame DEF clientSide, loopSide
<1>2. /\ ~ Busy(c)' /\ Past(c, cmd)'
      /\ ~ (loop.at = "store" /\ loop.c = c /\ loop.cmd = cmd)'
  BY <1>1 DEF Prompt, Busy, Past
<1>3. conn' <= c /\ flag'[c] = 1 /\ vty' # "idle"
  BY DEF AtHome, Clients
<1> QED
  BY <1>2, <1>3 DEF Prompt

\* print_info_using_vty_format finds the first line of a buffer in time.
LEMMA PromptPrintBegins ==
  ASSUME Types, Next, NEW c \in Clients, c = conn, Prompt(c), PrintBegins
  PROVE  Prompt(c)'
<1>0. /\ flag[c] = 1 /\ vty = "walk" /\ Lines \in Nat
      /\ ptr' = [tmp |-> 1, current |-> Strchr(1), last |-> Nothing] /\ vty' = "strrchr"
      /\ UNCHANGED <<buffer, flag, loopSide, cmd, conn, printed>>
  BY ExecAssumption DEF PrintBegins
<1>1. PICK m \in 0 .. Lines : InHand(c, m)
  BY <1>0 DEF Prompt
<1>2. Held(c, cmd, 0, m) /\ Owed(c, cmd, 0, m)
  BY <1>0, <1>1 DEF InHand
<1>3. Strchr(1) = IF m = 0 THEN Nothing ELSE 1
  <2>1. CASE m = 0
    <3>1. 1 <= Lines => buffer[c][1] = Blank
      BY <1>0, <1>2, <2>1 DEF Held
    <3> QED
      BY <2>1, <3>1 DEF Strchr, Blank
  <2>2. CASE m # 0
    <3>1. 1 <= Lines /\ buffer[c][1].end = "cr"
      BY <1>0, <1>2, <2>2 DEF Held
    <3> QED
      BY <2>2, <3>1 DEF Strchr
  <2> QED
    BY <2>1, <2>2
<1>4. Held(c, cmd, 0, m)' /\ Owed(c, cmd, 0, m)'
  BY <1>0, <1>2 DEF Held, Owed, loopSide
<1>5. InHand(c, m)'
  <2>1. ptr'.tmp = 1 /\ ptr'.current = IF m = 0 THEN Nothing ELSE 1
    BY <1>0, <1>3
  <2> QED
    BY <1>0, <1>4, <2>1 DEF InHand
<1> QED
  BY <1>0, <1>5, PromptAt DEF Vty, AtHome, Prompt

\* It prints a result of one line.
LEMMA PromptPrintLast ==
  ASSUME Types, Next, NEW c \in Clients, c = conn, Prompt(c), PrintLast
  PROVE  Prompt(c)'
<1>0. /\ vty = "strrchr" /\ Lines \in Nat
      /\ ptr' = [ptr EXCEPT !.last = Strrchr] /\ vty' = "print"
      /\ UNCHANGED <<buffer, flag, loopSide, cmd, conn, printed>>
  BY ExecAssumption DEF PrintLast
<1>1. flag[c] = 1 /\ \E m \in 0 .. Lines : InHand(c, m)
  BY <1>0, InPrinting DEF AtHome
<1>2. PICK m \in 0 .. Lines : InHand(c, m)
  BY <1>1
<1>3. /\ ptr.tmp = 1 /\ ptr.current = IF m = 0 THEN Nothing ELSE 1
      /\ Held(c, cmd, 0, m) /\ Owed(c, cmd, 0, m)
  BY <1>0, <1>2 DEF InHand, AtHome
<1>4. Strrchr = m
  <2>1. /\ Strrchr \in 0 .. Lines
        /\ \A x \in 1 .. Strrchr : buffer[c][x].end = "cr"
        /\ \A j \in 0 .. Lines : (\A x \in 1 .. j : buffer[c][x].end = "cr") => j <= Strrchr
    BY StrrchrBound
  <2>2. \A x \in 1 .. m : buffer[c][x].end = "cr"
    <3>1. \A x \in 1 .. m : x \in 1 .. Lines /\ x > 0 /\ x <= m
      BY <1>0
    <3> QED
      BY <1>3, <3>1 DEF Held
  <2>3. m < Lines => buffer[c][m + 1].end # "cr"
    <3>1. m < Lines => m + 1 \in 1 .. Lines /\ m + 1 > m
      BY <1>0
    <3> QED
      BY <1>3, <3>1 DEF Held, Blank
  <2>4. m <= Strrchr
    BY <2>1, <2>2
  <2>5. ~ (m < Strrchr)
    <3>1. m < Strrchr => m < Lines /\ m + 1 \in 1 .. Strrchr
      BY <1>0, <2>1
    <3> QED
      BY <2>1, <2>3, <3>1
  <2> QED
    BY <1>0, <2>1, <2>4, <2>5
<1>5. Held(c, cmd, 0, m)' /\ Owed(c, cmd, 0, m)'
  BY <1>0, <1>3 DEF Held, Owed, loopSide
<1>6. ptr'.tmp = 1 /\ ptr'.current = ptr.current /\ ptr'.last = m /\ ptr'.tmp - 1 = 0
  BY <1>0, <1>3, <1>4 DEF Types, VtyTypes
<1>7. InHand(c, m)'
  <2>1. ptr'.tmp = (IF m = 0 THEN 1 ELSE ptr'.current) /\ ptr'.current <= m /\ (m > 0 => ptr'.current > 0)
    BY <1>0, <1>3, <1>6 DEF Nothing
  <2> QED
    BY <1>0, <1>5, <1>6, <2>1 DEF InHand
<1> QED
  BY <1>0, <1>1, <1>7, PromptAt DEF Vty, AtHome, Prompt

\* Lines i .. j of the command go out, of those that were owed.
LEMMA OwedPrints ==
  ASSUME Types, vty \notin AtHome, NEW m \in 0 .. Lines, NEW i \in 1 .. Lines + 1,
         NEW j \in i - 1 .. Lines, j <= m, Owed(conn, cmd, i - 1, m),
         \A z \in i .. j : buffer[conn][z].cmd = cmd /\ buffer[conn][z].line = z,
         \A x \in 1 .. Len(printed[conn]) : printed[conn][x].under = printed[conn][x].cmd
  PROVE  LET p == printed[conn] \o Shown(i, j) IN
         /\ Len(received[conn]) = Len(p) + (m - j)
         /\ \A x \in 1 .. Len(p) : received[conn][x] = <<p[x].cmd, p[x].line>> /\ p[x].under = p[x].cmd
         /\ \A x \in 1 .. m - j : received[conn][Len(p) + x] = <<cmd, j + x>>
<1> DEFINE n == Len(printed[conn])
           q == printed[conn] \o Shown(i, j)
<1>1. /\ Len(q) = n + (j + 1 - i) /\ n \in Nat
      /\ \A x \in 1 .. n : q[x] = printed[conn][x]
      /\ \A x \in n + 1 .. n + (j + 1 - i) :
             LET z == i + (x - n) - 1 IN
             /\ z \in i .. j /\ z \in 1 .. Lines
             /\ q[x] = [cmd |-> buffer[conn][z].cmd, line |-> buffer[conn][z].line, under |-> cmd]
  BY PrintedAt
<1>2. /\ i \in Int /\ j \in Int /\ m \in Int /\ j + 1 - i \in Nat /\ m - j \in Nat
      /\ m - (i - 1) = (j + 1 - i) + (m - j)
  BY ExecAssumption
<1>3. /\ Len(received[conn]) = n + (m - (i - 1))
      /\ \A x \in 1 .. n : received[conn][x] = <<printed[conn][x].cmd, printed[conn][x].line>>
      /\ \A x \in 1 .. m - (i - 1) : received[conn][n + x] = <<cmd, (i - 1) + x>>
  BY DEF Owed
<1> HIDE DEF n, q
<1>4. Len(received[conn]) = Len(q) + (m - j)
  BY <1>1, <1>2, <1>3
<1>5. ASSUME NEW x \in n + 1 .. n + (j + 1 - i)
      PROVE  received[conn][x] = <<q[x].cmd, q[x].line>> /\ q[x].under = q[x].cmd
  <2>1. PICK z \in i .. j : z = i + (x - n) - 1 /\ z = (i - 1) + (x - n)
    BY <1>1, <1>2, <1>5
  <2>2. q[x].cmd = cmd /\ q[x].line = z /\ q[x].under = cmd
    <3>1. q[x] = [cmd |-> buffer[conn][z].cmd, line |-> buffer[conn][z].line, under |-> cmd]
      BY <1>1, <2>1
    <3>2. buffer[conn][z].cmd = cmd /\ buffer[conn][z].line = z
      OBVIOUS
    <3> QED
      BY <3>1, <3>2
  <2>3. x - n \in 1 .. m - (i - 1) /\ n + (x - n) = x
    <3>1. n \in Nat
      BY <1>1
    <3>2. x \in Int /\ n + 1 <= x /\ x <= n + (j + 1 - i)
      BY <1>2, <3>1
    <3> QED
      BY <1>2, <3>1, <3>2
  <2> QED
    BY <1>3, <2>1, <2>2, <2>3
<1>6. ASSUME NEW x \in 1 .. n
      PROVE  received[conn][x] = <<q[x].cmd, q[x].line>> /\ q[x].under = q[x].cmd
  BY <1>1, <1>3, <1>6 DEF n
<1>7. ASSUME NEW x \in 1 .. m - j PROVE received[conn][Len(q) + x] = <<cmd, j + x>>
  <2>1. PICK y \in 1 .. m - (i - 1) : y = (j + 1 - i) + x /\ n + y = Len(q) + x /\ (i - 1) + y = j + x
    BY <1>1, <1>2, <1>7
  <2>2. received[conn][n + y] = <<cmd, (i - 1) + y>>
    BY <1>3
  <2> QED
    BY <2>1, <2>2
<1>8. \A x \in 1 .. Len(q) : x \in 1 .. n \/ x \in n + 1 .. n + (j + 1 - i)
  BY <1>1, <1>2
<1> QED
  BY <1>4, <1>5, <1>6, <1>7, <1>8 DEF q

\* It prints a line that another one follows.
LEMMA PromptPrintLine ==
  ASSUME Types, Next, NEW c \in Clients, c = conn, Prompt(c), PrintLine
  PROVE  Prompt(c)'
<1>0. /\ vty = "print" /\ ptr.current # ptr.last /\ ptr.current # Nothing
      /\ buffer' = [buffer EXCEPT ![c][ptr.current].end = "nul"]
      /\ printed' = [printed EXCEPT ![c] = @ \o Shown(ptr.tmp, ptr.current)]
      /\ vty' = "strchr" /\ UNCHANGED <<flag, loopSide, cmd, conn, ptr>>
  BY Zenon DEF PrintLine
<1>1. flag[c] = 1 /\ \E m \in 0 .. Lines : InHand(c, m)
  BY <1>0, InPrinting DEF AtHome
<1>2. PICK m \in 0 .. Lines : InHand(c, m)
  BY <1>1
<1>3. /\ ptr.last = m /\ ptr.tmp = (IF m = 0 THEN 1 ELSE ptr.current) /\ ptr.current <= m
      /\ Held(c, cmd, ptr.tmp - 1, m) /\ Owed(c, cmd, ptr.tmp - 1, m)
  BY <1>0, <1>2 DEF InHand, AtHome
<1>4. PICK i \in 1 .. Lines : i = ptr.tmp /\ i = ptr.current /\ i < m
  <2>1. ptr.current \in 0 .. Lines /\ Lines \in Nat
    BY ExecAssumption DEF Types, VtyTypes
  <2> QED
    BY <1>0, <1>3, <2>1 DEF Nothing
<1>5. /\ i \in 1 .. Lines + 1 /\ i \in i - 1 .. Lines /\ i <= m /\ m \in Nat /\ Lines \in Nat
      /\ \A z \in i .. i : z = i
  BY <1>4, ExecAssumption
<1>6. cmd # Nothing /\ \A z \in 1 .. Lines : buffer[c][z] \in Cell(z)
  BY <1>0 DEF Types, VtyTypes, SharedTypes, Cmds, Nothing
<1>7. buffer[c][i].cmd = cmd /\ buffer[c][i].line = i
  <2>1. buffer[c][i].cmd = cmd
    BY <1>3, <1>5 DEF Held
  <2> QED
    BY <1>6, <2>1 DEF Cell, Blank
<1>8. \A z \in 1 .. Lines : buffer'[c][z] = IF z = i THEN [buffer[c][z] EXCEPT !.end = "nul"]
                                             ELSE buffer[c][z]
  BY <1>0, <1>4 DEF Types, SharedTypes
<1>9. Held(c, cmd, i, m)'
  <2>1. ASSUME NEW z \in 1 .. Lines
        PROVE  /\ buffer'[c][z].cmd = buffer[c][z].cmd
               /\ z # i => buffer'[c][z] = buffer[c][z]
    <3>1. buffer[c][z] \in Cell(z)
      BY <1>6
    <3>2. [buffer[c][z] EXCEPT !.end = "nul"].cmd = buffer[c][z].cmd
      BY <3>1 DEF Cell, Blank
    <3> QED
      BY <1>8, <3>2
  <2>2. cmd' = cmd /\ i \in Int /\ i - 1 < i /\ i < m
    BY <1>0, <1>4
  <2>3. \A z \in 1 .. Lines : (z > m => z # i) /\ (z > i => z # i /\ z > i - 1)
    BY <1>4, <1>5
  <2>4. Held(c, cmd, i - 1, m)
    BY <1>3, <1>4
  <2> QED
    BY <2>1, <2>2, <2>3, <2>4 DEF Held
<1>10. /\ Owed(c, cmd, i, m)'
       /\ \A x \in 1 .. Len(printed'[c]) : printed'[c][x].under = printed'[c][x].cmd
  <2>1. printed'[conn] = printed[conn] \o Shown(i, i) /\ received' = received /\ cmd' = cmd
    BY <1>0, <1>4 DEF Types, VtyTypes, loopSide
  <2>2. Owed(conn, cmd, i - 1, m) /\ vty \notin AtHome
    BY <1>0, <1>3, <1>4 DEF AtHome
  <2>3. \A z \in i .. i : buffer[conn][z].cmd = cmd /\ buffer[conn][z].line = z
    BY <1>5, <1>7
  <2>4. \A x \in 1 .. Len(printed[conn]) : printed[conn][x].under = printed[conn][x].cmd
    BY DEF Prompt
  <2>5. LET p == printed[conn] \o Shown(i, i) IN
         /\ Len(received[conn]) = Len(p) + (m - i)
         /\ \A x \in 1 .. Len(p) : received[conn][x] = <<p[x].cmd, p[x].line>> /\ p[x].under = p[x].cmd
         /\ \A x \in 1 .. m - i : received[conn][Len(p) + x] = <<cmd, i + x>>
    BY <1>5, <2>2, <2>3, <2>4, OwedPrints
  <2> QED
    BY <2>1, <2>5 DEF Owed
<1>11. InHand(c, m)'
  <2>1. ptr' = ptr /\ conn' = conn
    BY <1>0
  <2>2. Held(c, cmd, ptr.tmp, m)' /\ Owed(c, cmd, ptr.tmp, m)'
    BY <1>4, <1>9, <1>10, <2>1 DEF Held, Owed
  <2> QED
    BY <1>0, <1>3, <1>4, <2>1, <2>2 DEF InHand
<1> QED
  BY <1>0, <1>1, <1>10, <1>11, PromptAt DEF Vty, AtHome

\* It goes on to the line behind.
LEMMA PromptPrintNext ==
  ASSUME Types, Next, NEW c \in Clients, c = conn, Prompt(c), PrintNext
  PROVE  Prompt(c)'
<1>0. /\ vty = "strchr" /\ vty' = "print" /\ UNCHANGED <<buffer, flag, loopSide, cmd, conn, printed>>
      /\ ptr' = [ptr EXCEPT !.tmp = ptr.current + 1, !.current = Strchr(ptr.current + 1)]
  BY DEF PrintNext
<1>1. flag[c] = 1 /\ \E m \in 0 .. Lines : InHand(c, m)
  BY <1>0, InPrinting DEF AtHome
<1>2. PICK m \in 0 .. Lines : InHand(c, m)
  BY <1>1
<1>3. ptr.last = m /\ ptr.tmp < m /\ Held(c, cmd, ptr.tmp, m) /\ Owed(c, cmd, ptr.tmp, m)
  BY <1>0, <1>2 DEF InHand, AtHome
<1>4. PICK i \in 1 .. Lines : i = ptr.tmp + 1 /\ i <= m /\ i = ptr.current + 1 /\ i - 1 = ptr.tmp
  <2>1. ptr.tmp \in 1 .. Lines + 1 /\ ptr.current = ptr.tmp /\ Lines \in Nat /\ m \in 0 .. Lines
    BY <1>0, ExecAssumption DEF Types, VtyTypes
  <2> QED
    BY <1>3, <2>1
<1>5. buffer[c][i].end = "cr"
  BY <1>3, <1>4 DEF Held
<1>6. Strchr(i) = i
  BY <1>4, <1>5 DEF Strchr
<1>7. ptr'.tmp = i /\ ptr'.current = i /\ ptr'.last = m
  BY <1>0, <1>3, <1>4, <1>6 DEF Types, VtyTypes
<1>8. Held(c, cmd, i - 1, m) /\ Owed(c, cmd, i - 1, m)
  BY <1>3, <1>4
<1>9. Held(c, cmd, ptr.tmp - 1, m)' /\ Owed(c, cmd, ptr.tmp - 1, m)'
  BY <1>0, <1>7, <1>8 DEF Held, Owed, loopSide
<1>10. InHand(c, m)'
  <2>1. i > 0 /\ m # 0
    BY <1>4
  <2> QED
    BY <1>0, <1>4, <1>7, <1>9, <2>1 DEF InHand
<1> QED
  BY <1>0, <1>1, <1>10, PromptAt DEF Vty, AtHome, Prompt

\* Its printing meets no NULL.
LEMMA PromptPrintCrashes ==
  ASSUME Types, Prompt(conn), PrintCrashes
  PROVE  FALSE
<1>1. vty = "print" /\ ptr.current # ptr.last /\ ptr.current = Nothing
  BY DEF PrintCrashes
<1>2. PICK m \in 0 .. Lines : InHand(conn, m)
  BY <1>1, InPrinting DEF AtHome
<1>3. ptr.last = m /\ (m > 0 => ptr.current > 0)
  BY <1>1, <1>2 DEF InHand, AtHome
<1> QED
  BY <1>1, <1>3, ExecAssumption DEF Nothing

\* It prints what is behind the last line end.
LEMMA PromptPrintRest ==
  ASSUME Types, Next, NEW c \in Clients, c = conn, Prompt(c), PrintRest
  PROVE  Prompt(c)'
<1>0. /\ vty = "print" /\ ptr.current = ptr.last /\ vty' = "memset"
      /\ printed' = [printed EXCEPT ![c] = @ \o Shown(ptr.tmp, StringEnd(ptr.tmp))]
      /\ UNCHANGED <<buffer, flag, loopSide, cmd, conn, ptr>>
  BY DEF PrintRest
<1>1. flag[c] = 1 /\ \E m \in 0 .. Lines : InHand(c, m)
  BY <1>0, InPrinting DEF AtHome
<1>2. PICK m \in 0 .. Lines : InHand(c, m)
  BY <1>1
<1>3. /\ ptr.last = m /\ ptr.tmp = (IF m = 0 THEN 1 ELSE ptr.current) /\ ptr.current <= m
      /\ Held(c, cmd, ptr.tmp - 1, m) /\ Owed(c, cmd, ptr.tmp - 1, m)
  BY <1>0, <1>2 DEF InHand, AtHome
<1>4. PICK i \in 1 .. Lines + 1 : i = ptr.tmp /\ i = (IF m = 0 THEN 1 ELSE m)
  <2>1. ptr.tmp \in 1 .. Lines + 1
    BY DEF Types, VtyTypes
  <2> QED
    BY <1>0, <1>3, <2>1
<1>5. /\ m \in Nat /\ Lines \in Nat /\ m <= Lines /\ m \in i - 1 .. Lines /\ i - 1 <= m
      /\ \A z \in i .. m : z = m /\ z \in 1 .. Lines
  BY <1>4, ExecAssumption
<1>6. /\ cmd # Nothing /\ \A z \in 1 .. Lines : buffer[c][z] \in Cell(z)
  BY <1>0 DEF Types, VtyTypes, SharedTypes, Cmds, Nothing, AtHome
<1>7. Held(c, cmd, i - 1, m) /\ Owed(c, cmd, i - 1, m)
  BY <1>3, <1>4
<1>8. ASSUME NEW z \in i .. m
      PROVE  buffer[c][z].cmd = cmd /\ buffer[c][z].line = z /\ buffer[c][z] # Blank
  <2>1. z \in 1 .. Lines /\ z <= m
    BY <1>5
  <2>2. buffer[c][z].cmd = cmd
    BY <1>7, <2>1 DEF Held
  <2>3. buffer[c][z] \in Cell(z)
    BY <1>6, <2>1
  <2> QED
    BY <1>6, <2>2, <2>3 DEF Cell, Blank
<1>9. StringEnd(i) = m
  <2>1. /\ StringEnd(i) \in i - 1 .. Lines
        /\ \A x \in i .. StringEnd(i) : buffer[c][x] # Blank
        /\ \A j \in i - 1 .. Lines :
               (\A x \in i .. j : buffer[c][x] # Blank /\ (x < j => buffer[c][x].end = "cr"))
               => j <= StringEnd(i)
    BY StringEndBound
  <2>2. m <= StringEnd(i)
    <3>1. \A x \in i .. m : buffer[c][x] # Blank /\ ~ (x < m)
      BY <1>5, <1>8
    <3> QED
      BY <1>5, <2>1, <3>1
  <2>3. ~ (m < StringEnd(i))
    <3>1. m < StringEnd(i) => m + 1 \in i .. StringEnd(i) /\ m + 1 \in 1 .. Lines /\ m + 1 > m
      BY <1>4, <1>5, <2>1
    <3>2. m + 1 \in 1 .. Lines /\ m + 1 > m => buffer[c][m + 1] = Blank
      BY <1>7 DEF Held
    <3> QED
      BY <2>1, <3>1, <3>2
  <2> QED
    BY <1>5, <2>1, <2>2, <2>3
<1>10. /\ Owed(c, cmd, 0, 0)'
       /\ \A x \in 1 .. Len(printed'[c]) : printed'[c][x].under = printed'[c][x].cmd
  <2>1. printed'[conn] = printed[conn] \o Shown(i, m) /\ received' = received /\ cmd' = cmd
    BY <1>0, <1>4, <1>9 DEF Types, VtyTypes, loopSide
  <2>2. Owed(conn, cmd, i - 1, m) /\ vty \notin AtHome /\ m <= m
    BY <1>0, <1>5, <1>7 DEF AtHome
  <2>3. \A z \in i .. m : buffer[conn][z].cmd = cmd /\ buffer[conn][z].line = z
    BY <1>8
  <2>4. \A x \in 1 .. Len(printed[conn]) : printed[conn][x].under = printed[conn][x].cmd
    BY DEF Prompt
  <2>5. LET p == printed[conn] \o Shown(i, m) IN
         /\ Len(received[conn]) = Len(p) + (m - m)
         /\ \A x \in 1 .. Len(p) : received[conn][x] = <<p[x].cmd, p[x].line>> /\ p[x].under = p[x].cmd
    BY <1>5, <2>2, <2>3, <2>4, OwedPrints
  <2>6. m - m = 0 /\ 0 - 0 = 0 /\ \A x \in 1 .. 0 : FALSE
    BY <1>5
  <2> QED
    BY <2>1, <2>5, <2>6 DEF Owed
<1>11. InHand(c, m)'
  BY <1>0, <1>10 DEF InHand
<1> QED
  BY <1>0, <1>1, <1>10, <1>11, PromptAt DEF Vty, AtHome

\* memset of the buffer, when all of it is printed.
LEMMA PromptMemset ==
  ASSUME Types, Next, NEW c \in Clients, c = conn, Prompt(c), Memset
  PROVE  Prompt(c)'
<1>0. /\ vty = "memset" /\ vty' = "unflag" /\ buffer' = [buffer EXCEPT ![c] = Cleared]
      /\ UNCHANGED <<flag, loopSide, cmd, conn, ptr, printed>>
  BY DEF Memset
<1>1. flag[c] = 1 /\ \E m \in 0 .. Lines : InHand(c, m)
  BY <1>0, InPrinting DEF AtHome
<1>2. PICK m \in 0 .. Lines : InHand(c, m)
  BY <1>1
<1>3. Owed(c, cmd, 0, 0)'
  BY <1>0, <1>2 DEF InHand, AtHome, Owed, loopSide
<1>4. Held(c, cmd, 0, 0)'
  <2>1. \A z \in 1 .. Lines : buffer'[c][z] = Blank /\ z > 0 /\ ~ (z <= 0)
    BY <1>0, ExecAssumption DEF Types, SharedTypes, Cleared
  <2> QED
    BY <2>1 DEF Held
<1>5. InHand(c, m)'
  BY <1>0, <1>3, <1>4 DEF InHand
<1> QED
  BY <1>0, <1>1, <1>5, PromptAt DEF Vty, AtHome, Prompt

\* All of it printed, nothing left of it.
LEMMA PromptClearFlag ==
  ASSUME Types, Next, NEW c \in Clients, c = conn, Prompt(c), ClearFlag
  PROVE  Prompt(c)'
<1>0. /\ vty = "unflag" /\ vty' = "walk" /\ flag' = [flag EXCEPT ![c] = 0]
      /\ UNCHANGED <<buffer, loop, received, cmd, ptr, printed>>
  BY DEF ClearFlag, loopSide
<1>1. flag[c] = 1 /\ \E m \in 0 .. Lines : InHand(c, m)
  BY <1>0, InPrinting DEF AtHome
<1>2. Held(c, cmd, 0, 0) /\ Owed(c, cmd, 0, 0)
  BY <1>0, <1>1 DEF InHand, AtHome
<1>3. InBuffer(c)' = 0
  BY <1>0, <1>1 DEF Prompt, Busy, InBuffer
<1>4. \A z \in 1 .. Lines : z > 0 /\ ~ (z <= 0)
  BY ExecAssumption
<1>5. Held(c, loop.cmd, 0, InBuffer(c))'
  <2>1. \A z \in 1 .. Lines : buffer'[c][z] = Blank
    BY <1>0, <1>2, <1>4 DEF Held
  <2> QED
    BY <1>3, <1>4, <2>1 DEF Held
<1>6. Owed(c, Nothing, 0, 0)'
  <2>1. \A z \in 1 .. 0 - 0 : FALSE
    OBVIOUS
  <2> QED
    BY <1>0, <1>2, <2>1 DEF Owed
<1>7. flag'[c] = 0
  BY <1>0 DEF Types, SharedTypes
<1>8. \A x \in 1 .. Len(printed'[c]) : printed'[c][x].under = printed'[c][x].cmd
  BY <1>0 DEF Prompt
<1> QED
  BY <1>0, <1>5, <1>6, <1>7, <1>8 DEF Prompt, AtHome

\* No step leaves a line of a prompt client's result unprinted.
LEMMA PromptStep ==
  ASSUME Types, Next, NEW c \in Clients, Fresh(c), c \notin late => Prompt(c), c \notin late'
  PROVE  Prompt(c)'
<1>0. late \subseteq late'
  BY DEF Next, Exec, Answer, NoAnswer, Loop, Store, SetFlag, BeginStore, Vty, Awake, WalkSkips,
         WalkEnds, PrintBegins, PrintLast, PrintLine, PrintNext, PrintCrashes, PrintRest, Memset,
         ClearFlag, loopSide
<1>1. Prompt(c)
  BY <1>0
<1>2. ASSUME NEW targets, Exec(targets) PROVE Prompt(c)'
  BY <1>1, <1>2, PromptExec
<1>3. ASSUME NEW d \in Clients, NoAnswer(d) \/ \E n \in 0 .. Lines : Answer(d, n) PROVE Prompt(c)'
  <2>1. UNCHANGED <<buffer, flag, loopSide, vtySide>>
    BY <1>3 DEF NoAnswer, Answer
  <2> QED
    BY <1>1, <2>1, PromptClient
<1>4. CASE Loop
  <2>1. CASE Store
    BY <1>1, <2>1, PromptStore
  <2>2. CASE SetFlag
    BY <1>1, <2>2, PromptSetFlag
  <2>3. ASSUME NEW d \in Clients, BeginStore(d) PROVE Prompt(c)'
    BY <1>1, <2>3, PromptBeginStore
  <2> QED
    BY <1>4, <2>1, <2>2, <2>3 DEF Loop
<1>5. CASE Awake \/ WalkSkips \/ WalkEnds
  BY <1>1, <1>5, PromptWalk
<1>6. CASE /\ c # conn
           /\ \/ PrintBegins \/ PrintLast \/ PrintLine \/ PrintNext \/ PrintCrashes \/ PrintRest
              \/ Memset \/ ClearFlag
  BY <1>1, <1>6, PromptOther
<1>7. CASE c = conn /\ PrintBegins
  BY <1>1, <1>7, PromptPrintBegins
<1>8. CASE c = conn /\ PrintLast
  BY <1>1, <1>8, PromptPrintLast
<1>9. CASE c = conn /\ PrintLine
  BY <1>1, <1>9, PromptPrintLine
<1>10. CASE c = conn /\ PrintNext
  BY <1>1, <1>10, PromptPrintNext
<1>11. CASE c = conn /\ PrintCrashes
  BY <1>1, <1>11, PromptPrintCrashes
<1>12. CASE c = conn /\ PrintRest
  BY <1>1, <1>12, PromptPrintRest
<1>13. CASE c = conn /\ Memset
  BY <1>1, <1>13, PromptMemset
<1>14. CASE c = conn /\ ClearFlag
  BY <1>1, <1>14, PromptClearFlag
<1> QED
  BY <1>2, <1>3, <1>4, <1>5, <1>6, <1>7, <1>8, <1>9, <1>10, <1>11, <1>12, <1>13, <1>14
     DEF Next, Vty

\* The invariant holds before the first command.
LEMMA InitInv == Init => Inv
<1> SUFFICES ASSUME Init PROVE Inv
  OBVIOUS
<1>1. Types
  BY InitTypes
<1>2. /\ Lines \in Nat /\ (\A z \in 1 .. 0 : FALSE) /\ (\A z \in 1 .. 0 - 0 : FALSE)
      /\ \A z \in 1 .. Lines : z > 0 /\ ~ (z <= 0)
  BY ExecAssumption
<1>3. ASSUME NEW c \in Clients
      PROVE  /\ pending[c] = <<>> /\ results[c] = <<>> /\ printed[c] = <<>> /\ received[c] = <<>>
             /\ flag[c] = 0 /\ \A i \in 1 .. Lines : buffer[c][i] = Blank
  BY DEF Init, Cleared
<1>4. loop.at = "poll" /\ vty = "idle"
  BY DEF Init
<1>5. ASSUME NEW c \in Clients PROVE Fresh(c) /\ Once(c)
  BY <1>2, <1>3, <1>4 DEF Fresh, Queues, Once
<1>6. ASSUME NEW c \in Clients PROVE Prompt(c)
  <2>1. InBuffer(c) = 0
    BY <1>4 DEF InBuffer, Busy
  <2>2. Held(c, loop.cmd, 0, 0) /\ Owed(c, Nothing, 0, 0)
    BY <1>2, <1>3 DEF Held, Owed
  <2> QED
    BY <1>2, <1>3, <1>4, <2>1, <2>2 DEF Prompt, AtHome
<1> QED
  BY <1>1, <1>5, <1>6 DEF Inv

\* Every step of both threads and of the clients keeps the invariant.
LEMMA StepInv == Inv /\ [Next]_vars => Inv'
<1> SUFFICES ASSUME Inv, [Next]_vars PROVE Inv'
  OBVIOUS
<1>1. Types'
  BY TypesStep DEF Inv
<1>2. CASE Next
  <2>1. ASSUME NEW c \in Clients PROVE Fresh(c)' /\ Once(c)'
    BY <1>2, FreshStep, OnceStep DEF Inv
  <2>2. ASSUME NEW c \in Clients, c \notin late' PROVE Prompt(c)'
    <3>1. Types /\ Fresh(c) /\ (c \notin late => Prompt(c))
      BY DEF Inv
    <3> QED
      BY <1>2, <2>2, <3>1, PromptStep
  <2> QED
    BY <1>1, <2>1, <2>2 DEF Inv
<1>3. CASE UNCHANGED vars
  <2>1. /\ UNCHANGED <<pending, results, buffer, flag, loop, vty, cmd, conn, ptr>>
        /\ UNCHANGED <<printed, received, late>>
    BY <1>3 DEF vars, clientSide, loopSide, vtySide
  <2>2. ASSUME NEW c \in Clients PROVE Fresh(c)'
    BY <2>1 DEF Inv, Fresh, Past
  <2>3. ASSUME NEW c \in Clients PROVE Once(c)'
    <3>1. Up(c)' = Up(c)
      BY <2>1 DEF Up
    <3> QED
      BY <2>1, <3>1 DEF Inv, Once, Stored, Past, Printed
  <2>4. ASSUME NEW c \in Clients, c \notin late' PROVE Prompt(c)'
    <3>1. Prompt(c)
      BY <2>1, <2>4 DEF Inv
    <3>2. InBuffer(c)' = InBuffer(c) /\ Busy(c)' = Busy(c)
      BY <2>1 DEF InBuffer, Busy
    <3> QED
      BY <2>1, <3>1, <3>2 DEF Prompt, Past, InHand, Held, Owed
  <2> QED
    BY <1>1, <2>2, <2>3, <2>4 DEF Inv
<1> QED
  BY <1>2, <1>3

\* The inductive invariant: what stores of the loop thread and the printing of the vty
\* thread (print_info_using_vty_format) leave in flag and buffer at each of its places.
THEOREM SpecInv == Spec => []Inv
  BY InitInv, StepInv, PTL DEF Spec
-----------------------------------------------------------------------------
\* The places, pointers and cells of print_info_using_vty_format and tcp_recv stay
\* in their range, whatever the two threads do to each other's flag and buffer.
THEOREM ExecTypes == Spec => []TypeOK
<1>1. Inv => TypeOK
  <2> SUFFICES ASSUME Types PROVE TypeOK
    BY DEF Inv
  <2>1. ASSUME NEW c \in Clients, NEW i \in 1 .. Lines
        PROVE  buffer[c][i] \in [cmd : {Nothing} \cup Cmds, line : 0 .. Lines, end : {"nul", "cr"}]
    <3>1. buffer[c][i] \in Cell(i)
      BY DEF Types, SharedTypes
    <3> QED
      BY <3>1, ExecAssumption DEF Cell, Blank
  <2>2. buffer \in [Clients -> [1 .. Lines -> [cmd : {Nothing} \cup Cmds, line : 0 .. Lines,
                                               end : {"nul", "cr"}]]]
    BY <2>1 DEF Types, SharedTypes
  <2> QED
    BY <2>2 DEF Types, LoopTypes, SharedTypes, VtyTypes, TypeOK
<1> QED
  BY <1>1, SpecInv, PTL

\* print_all_client_return_info and save_result_info_to_buffer may meet in the
\* middle of a buffer: still no line of a result goes to the vty twice.
THEOREM LinesPrintedOnce == Spec => []NoLineTwice
<1>1. Inv => NoLineTwice
  BY DEF Inv, Once, NoLineTwice
<1> QED
  BY <1>1, SpecInv, PTL

\* When current is NULL under *current = '\0', the buffer is that of a client one
\* of whose results was stored after the second.
THEOREM CrashesAreLate == Spec => []OnlyLateResultsCrash
<1>1. Inv => OnlyLateResultsCrash
  <2> SUFFICES ASSUME Inv, vty = "crashed", conn \notin late PROVE FALSE
    BY DEF OnlyLateResultsCrash
  <2>1. Types /\ conn \in Clients
    BY DEF Inv, Types, VtyTypes, AtHome
  <2>2. Prompt(conn)
    BY <2>1 DEF Inv
  <2>3. \E m \in 0 .. Lines : InHand(conn, m)
    BY <2>1, <2>2, InPrinting DEF AtHome
  <2> QED
    BY <2>3 DEF InHand, AtHome
<1> QED
  BY <1>1, SpecInv, PTL

\* A client that answers within the second of sleep(1), whatever the others do, has
\* all of its results printed when the prompt is back, each under its command.
THEOREM PromptAnswersPrinted == Spec => []PromptResultsPrinted
<1>1. Inv => PromptResultsPrinted
  <2> SUFFICES ASSUME Inv, NEW c \in Clients, c \notin late
               PROVE  /\ \A i \in 1 .. Len(printed[c]) : printed[c][i].under = printed[c][i].cmd
                      /\ vty = "idle" =>
                             /\ [i \in 1 .. Len(printed[c]) |-> <<printed[c][i].cmd, printed[c][i].line>>]
                                  = received[c]
                             /\ flag[c] = 0
                             /\ loop.at = "poll" => buffer[c] = Cleared
    BY DEF PromptResultsPrinted
  <2>1. Types /\ Prompt(c)
    BY DEF Inv
  <2>2. ASSUME vty = "idle" PROVE flag[c] = 0
    BY <2>1, <2>2 DEF Prompt, Types, SharedTypes
  <2>3. ASSUME vty = "idle"
        PROVE  [i \in 1 .. Len(printed[c]) |-> <<printed[c][i].cmd, printed[c][i].line>>] = received[c]
    <3>1. Owed(c, Nothing, 0, 0)
      BY <2>1, <2>2, <2>3 DEF Prompt
    <3>2. received[c] \in Seq(LineOf) /\ printed[c] \in Seq(Shows)
      BY <2>1 DEF Types, LoopTypes, VtyTypes
    <3>3. Len(received[c]) = Len(printed[c])
      BY <3>1, <3>2 DEF Owed
    <3>4. received[c] = [i \in 1 .. Len(received[c]) |-> received[c][i]]
      BY <3>2
    <3> QED
      BY <3>1, <3>3, <3>4 DEF Owed
  <2>4. ASSUME vty = "idle", loop.at = "poll" PROVE buffer[c] = Cleared
    <3>1. Held(c, loop.cmd, 0, 0)
      BY <2>1, <2>2, <2>4 DEF Prompt, InBuffer, Busy
    <3>2. \A i \in 1 .. Lines : i > 0
      OBVIOUS
    <3>3. \A i \in 1 .. Lines : buffer[c][i] = Blank
      BY <3>1, <3>2, Zenon DEF Held
    <3>4. buffer[c] = [i \in 1 .. Lines |-> buffer[c][i]]
      BY <2>1 DEF Types, SharedTypes
    <3> QED
      BY <3>3, <3>4 DEF Cleared
  <2> QED
    BY <2>1, <2>2, <2>3, <2>4 DEF Prompt
<1> QED
  BY <1>1, SpecInv, PTL
=============================================================================
