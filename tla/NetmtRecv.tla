----------------------------- MODULE NetmtRecv -----------------------------
(***************************************************************************)
(* tcp_recv of the server and of the client: the reassembly of the byte    *)
(* stream into netmt_command_t frames.  Both programs keep ONE static      *)
(* buffer, databuf, and one count of the bytes in it, bytelen, whatever    *)
(* the connection a read event belongs to.                                 *)
(*                                                                         *)
(* A byte is the pair of a connection and of its place in that             *)
(* connection's stream.  Of the contents of a byte only the two low-order  *)
(* bytes of the int `len' at offset 0 of a frame are kept, as digits in    *)
(* base Base: they are what the code frames the stream with.  The program  *)
(* has Base = 256 and sizeof(netmt_command_t) = 5168 = 48 + 256 * 20, so   *)
(* LenLo = 48 and LenHi = 20; ReadSize is 8192 and DataBuf 20480.          *)
(***************************************************************************)
EXTENDS Integers, Sequences

CONSTANTS
    Conns,       \* connections whose reads one loop thread gives to tcp_recv
    Base,        \* the number of values of a byte
    LenLo,       \* the byte at offset 0 of every frame
    LenHi,       \* the byte at offset 1 of every frame
    ReadSize,    \* the most bytes one read event delivers (RECV_BUFSIZE)
    DataBuf,     \* sizeof(databuf)
    MaxFrames,   \* bound: the frames each peer sends
    FailFrames   \* the frames whose handler returns early (fopen failed)

FrameLen == LenLo + Base * LenHi

ASSUME LenAssumption ==
    /\ Base \in Nat /\ LenLo \in Nat /\ LenHi \in Nat
    /\ LenLo >= 2 /\ LenHi >= 1 /\ Base >= 2

ASSUME ConnAssumption == "none" \notin Conns

ASSUME BufAssumption ==
    /\ MaxFrames \in Nat /\ ReadSize \in Nat \ {0} /\ DataBuf \in Nat
    /\ FrameLen + ReadSize < DataBuf

VARIABLES
    rcvd,       \* rcvd[c]: how many bytes of c were handed to tcp_recv
    databuf,    \* the contents of the static buffer
    bytelen,    \* the static count of bytes in it
    tem,        \* tembuf - databuf while a handler runs, 0 otherwise
    pc,         \* "idle", or "loop" at the head of the loop over the frames
    io,         \* the connection of the read event being handled
    delivered   \* history: delivered[c], what the switch saw on behalf of c

vars == <<rcvd, databuf, bytelen, tem, pc, io, delivered>>

Places == 0 .. DataBuf - 1
StreamLen == MaxFrames * FrameLen
Byte(c, i) == [conn |-> c, pos |-> i]
Bytes == [conn : Conns, pos : Nat]
Zero == [conn |-> "none", pos |-> 0]      \* memory no byte was written to
Cells == Bytes \cup {Zero}

FrameStarts == {m * FrameLen : m \in 0 .. MaxFrames}

\* The value of a byte, when it is read as a part of `len'.
Digit(b) ==
    IF b = Zero THEN 0
    ELSE IF b.pos \in FrameStarts THEN LenLo
    ELSE IF b.pos - 1 \in FrameStarts THEN LenHi
    ELSE 0

\* Memory behind databuf holds other objects, none of them a frame.
Cell(buf, p) == IF p \in Places THEN buf[p] ELSE Zero

\* comm->len for comm == databuf + p.
LenAt(buf, p) == Digit(Cell(buf, p)) + Base * Digit(Cell(buf, p + 1))

\* Mutants of Incomplete: the length check left out, and off by one.
IncompleteNever(buf, p, n) == FALSE
IncompleteOffByOne(buf, p, n) == LenAt(buf, p) >= n

\* comm->len > bytelen: the frame at comm is not complete.
Incomplete(buf, p, n) == LenAt(buf, p) > n

\* The bytes a handler sees in the frame at databuf + p.
FrameAt(p) == [j \in 0 .. FrameLen - 1 |-> Cell(databuf, p + j)]

\* The handler of the frame at databuf + p meets a file it cannot open.
FailsAt(p) ==
    \E c \in Conns, m \in FailFrames : Cell(databuf, p) = Byte(c, m * FrameLen)

\* The m-th frame that the peer of c sends.
Frame(c, m) == [j \in 0 .. FrameLen - 1 |-> Byte(c, m * FrameLen + j)]

\* Mutant of Appended: the bytes go to the start of the buffer.
AppendedAtStart(c, k) ==
    [p \in Places |-> IF p < k THEN Byte(c, rcvd[c] + p) ELSE databuf[p]]

\* memcpy(databuf + bytelen, buf, k): the next k bytes of connection c.
Appended(c, k) ==
    [p \in Places |-> IF bytelen <= p /\ p < bytelen + k
                      THEN Byte(c, rcvd[c] + (p - bytelen))
                      ELSE databuf[p]]

\* Mutant of Moved: the memmove left out.
NotMoved(from, n) == databuf

\* memmove(databuf, databuf + from, n)
Moved(from, n) ==
    [p \in Places |-> IF p < n THEN Cell(databuf, from + p) ELSE databuf[p]]
-----------------------------------------------------------------------------
Init ==
    /\ rcvd = [c \in Conns |-> 0]
    /\ databuf = [p \in Places |-> Zero]
    /\ bytelen = 0
    /\ tem = 0
    /\ pc = "idle"
    /\ io \in Conns
    /\ delivered = [c \in Conns |-> <<>>]

\* A read event of c: tcp_recv appends the bytes and returns at once when the
\* first frame is not complete.  TCP may cut the stream anywhere.  A
\* connection that is closed is one that has no further read events:
\* netmt_close leaves databuf and bytelen as they are.
Read(c, k) ==
    /\ pc = "idle"
    /\ rcvd[c] + k <= StreamLen
    /\ databuf' = Appended(c, k)
    /\ bytelen' = bytelen + k
    /\ rcvd' = [rcvd EXCEPT ![c] = @ + k]
    /\ pc' = IF Incomplete(databuf', 0, bytelen') THEN "idle" ELSE "loop"
    /\ io' = c
    /\ UNCHANGED <<tem, delivered>>

\* Execute the frame at tembuf: the switch of tcp_recv.
Execute ==
    /\ pc = "loop"
    /\ ~ FailsAt(tem)
    /\ delivered' = [delivered EXCEPT ![io] = Append(@, FrameAt(tem))]
    /\ bytelen' = bytelen - LenAt(databuf, tem)

\* The rest is not a whole frame: it moves to the front and the loop breaks.
HandleLast ==
    /\ Execute
    /\ LET from == tem + LenAt(databuf, tem)
       IN  /\ Incomplete(databuf, from, bytelen')
           /\ databuf' = Moved(from, bytelen')
    /\ pc' = "idle"
    /\ tem' = 0
    /\ UNCHANGED <<rcvd, io>>

\* tembuf is past the last byte, in memory where no frame ever was, and the
\* loop ends on its own condition.
HandleDrained ==
    /\ Execute
    /\ ~ Incomplete(databuf, tem + LenAt(databuf, tem), bytelen')
    /\ bytelen' = 0
    /\ pc' = "idle"
    /\ tem' = 0
    /\ UNCHANGED <<rcvd, databuf, io>>

\* Another whole frame follows.
HandleMore ==
    /\ Execute
    /\ ~ Incomplete(databuf, tem + LenAt(databuf, tem), bytelen')
    /\ bytelen' # 0
    /\ tem' = tem + LenAt(databuf, tem)
    /\ UNCHANGED <<rcvd, databuf, pc, io>>

\* The handler cannot open its file and returns out of tcp_recv, with the
\* frame and all that follows it where they are.
HandleFails ==
    /\ pc = "loop"
    /\ FailsAt(tem)
    /\ pc' = "idle"
    /\ tem' = 0
    /\ UNCHANGED <<rcvd, databuf, bytelen, io, delivered>>

ReadFrom(c) == \E k \in 1 .. ReadSize : Read(c, k)

\* Mutant of Handle: a handler that returns without consuming its frame.
HandleReturns ==
    /\ pc = "loop"
    /\ delivered' = [delivered EXCEPT ![io] = Append(@, FrameAt(tem))]
    /\ pc' = "idle"
    /\ tem' = 0
    /\ UNCHANGED <<rcvd, databuf, bytelen, io>>

Handle == HandleLast \/ HandleDrained \/ HandleMore

Next == (\E c \in Conns : ReadFrom(c)) \/ Handle

\* The loop thread polls its sockets for ever, TCP delivers what was sent, and
\* a handler that has begun runs on.  Every file operation succeeds.
Spec ==
    /\ Init
    /\ [][Next]_vars
    /\ WF_vars(Handle)
    /\ \A c \in Conns : WF_vars(ReadFrom(c))

\* The same program where the handlers of the commands FailFrames fail.
FailingSpec == Init /\ [][Next \/ HandleFails]_vars
-----------------------------------------------------------------------------
TypeOK ==
    /\ rcvd \in [Conns -> 0 .. StreamLen]
    /\ databuf \in [Places -> Cells]
    /\ bytelen \in Nat
    /\ tem \in Places
    /\ pc \in {"idle", "loop"}
    /\ io \in Conns
    /\ delivered \in [Conns -> Seq([0 .. FrameLen - 1 -> Cells])]

\* memcpy never writes behind the end of databuf.
BufferFits == bytelen <= DataBuf

\* When tcp_recv has returned, no whole frame is left in the buffer: a command
\* that has arrived is executed, it does not wait for the next one.
NoFrameLeftBehind == pc = "idle" => bytelen < FrameLen

\* What the switch executes on behalf of a connection are the commands its peer
\* sent, whole, in the order they were sent, none of them twice.
FramesIntact ==
    \A c \in Conns : \A i \in DOMAIN delivered[c] :
        delivered[c][i] = Frame(c, i - 1)

\* Why they hold when Conns has one element.  Received and not yet delivered
\* are the bytes at tembuf: bytelen of them, those that follow the stream's
\* last delivered frame ...
Pending ==
    \A c \in Conns : LET start == Len(delivered[c]) * FrameLen IN
        /\ rcvd[c] = start + bytelen
        /\ \A j \in 0 .. bytelen - 1 : databuf[tem + j] = Byte(c, start + j)

\* ... and the loop is inside its body only with a whole frame at hand.
Control ==
    /\ pc = "idle" => tem = 0 /\ bytelen < FrameLen
    /\ pc = "loop" => bytelen >= FrameLen
    /\ tem + bytelen < FrameLen + ReadSize

\* The inductive invariant of NetmtRecvProofs.
Inv == TypeOK /\ Control /\ Pending /\ FramesIntact

\* The number of the command a delivered frame is, -1 when it is none.
NumberOf(c, f) ==
    IF \E m \in 0 .. MaxFrames - 1 : f = Frame(c, m)
    THEN CHOOSE m \in 0 .. MaxFrames - 1 : f = Frame(c, m)
    ELSE -1

Log == [c \in Conns |->
           [i \in 1 .. Len(delivered[c]) |-> NumberOf(c, delivered[c][i])]]

Stream == INSTANCE NetmtStream WITH log <- Log

\* tcp_recv implements the stream of commands: also, every command that was
\* sent is executed in the end.
ImplementsStream == Stream!Spec

\* The part of it that says what is never done.
ImplementsStreamSafety == Stream!Safety
=============================================================================
