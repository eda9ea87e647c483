---------------------------- MODULE FileTransfer ----------------------------
(***************************************************************************)
(* The `send' and `get' commands: a file goes as a FILE_OPEN frame, DATA   *)
(* frames with a block each and an END frame with the number of bytes; the *)
(* receiver counts what it writes and answers SUCCESS when the numbers are *)
(* equal.  On the server the vty thread sends (netmt_servercommand.c) and  *)
(* the loop thread receives (netmtserver.c); `FILE *fp' of both files is   *)
(* one variable, since each only declares it.                              *)
(*                                                                         *)
(* Abstractions: a channel delivers whole frames in order (NetmtRecv shows *)
(* when that is so); files are sequences of blocks, sizes count blocks;    *)
(* every command writes a file of its own; one list_for_each over the      *)
(* clients, with the fread or fclose before it, is one step (ServerClients *)
(* has the steps of the walk).                                             *)
(***************************************************************************)
EXTENDS Naturals, Sequences

CONSTANTS
    Clients,        \* client processes; each connects at most once
    MaxCommands,    \* bound: commands given at the vty
    MaxBlocks,      \* bound: the size of a file in blocks
    Patient         \* the operator waits for a get to end before a command

ASSUME TransferAssumption ==
    MaxCommands \in Nat /\ MaxBlocks \in Nat /\ Patient \in BOOLEAN

VARIABLES
    waiting,        \* the clients that have not connected yet
    listed,         \* t_server.clients
    down, up,       \* down[c], up[c]: frames sent to and by client c, unread
    size,           \* size[k]: blocks of the file of the k-th command
    vty,            \* the running send, or Prompt
    fp,             \* the server's fp
    filebytes,      \* the server's filebytes: counts what `send' has read
    fsize,          \* the server's fsize: counts what GET DATA has written
    cfp, cbytes,    \* fp and filebytes of every client
    disk, sdisk,    \* disk[c][k], sdisk[k]: the copy of command k's file
    failed,         \* clients whose fopen failed or whose fwrite was short
    crashed,        \* clients that wrote to a file they had not opened
    late,           \* history: clients that connected while a send ran
    wedged,         \* the loop thread returned with its mutex locked
    undefined,      \* the server used a FILE that is closed or was never open
    acked           \* history: which SUCCESS frames were sent

operator == <<size, vty, filebytes>>
server == <<fp, fsize, sdisk, wedged, undefined>>
client == <<cfp, cbytes, disk, failed, crashed>>
conns == <<waiting, listed, late>>
vars == <<operator, server, client, conns, down, up, acked>>

Prompt == [k |-> 0, match |-> {}]
Block(k, i) == <<k, i>>
File(k) == [i \in 1 .. size[k] |-> Block(k, i)]

\* A stream: the command whose file it is open on, how, and the read offset.
Stream(k, mode) == [k |-> k, mode |-> mode, pos |-> 0]
NoStream == Stream(0, "null")
Closed(stream) == [stream EXCEPT !.mode = "closed"]

Frame(comm, sub, k, n) == [comm |-> comm, sub |-> sub, k |-> k, n |-> n]
IsNext(channel, comm, sub) ==
    channel # <<>> /\ Head(channel).comm = comm /\ Head(channel).sub = sub

Init ==
    /\ waiting = Clients /\ listed = {} /\ late = {}
    /\ down = [c \in Clients |-> <<>>] /\ up = [c \in Clients |-> <<>>]
    /\ size = <<>> /\ vty = Prompt
    /\ fp = NoStream /\ filebytes = 0 /\ fsize = 0
    /\ cfp = [c \in Clients |-> NoStream] /\ cbytes = [c \in Clients |-> 0]
    /\ disk = [c \in Clients |-> [k \in 1 .. MaxCommands |-> <<>>]]
    /\ sdisk = [k \in 1 .. MaxCommands |-> <<>>]
    /\ failed = {} /\ crashed = {} /\ wedged = FALSE /\ undefined = FALSE
    /\ acked = {}

\* hio_write of one frame to every client the walk selects.
Broadcast(to, frame) ==
    down' = [c \in Clients |-> IF c \in to THEN Append(down[c], frame) ELSE down[c]]
-----------------------------------------------------------------------------
(* Connections *)

\* netmt_accept.  The loop thread can no longer take its mutex once wedged.
Join(c) ==
    /\ ~ undefined /\ ~ wedged /\ c \in waiting
    /\ waiting' = waiting \ {c}
    /\ listed' = listed \cup {c}
    /\ late' = IF vty = Prompt THEN late ELSE late \cup {c}
    /\ UNCHANGED <<operator, server, client, down, up, acked>>

\* The connection is lost with what is in it: netmt_close.
Leave(c) ==
    /\ ~ undefined /\ ~ wedged /\ c \in listed
    /\ listed' = listed \ {c}
    /\ down' = [down EXCEPT ![c] = <<>>]
    /\ up' = [up EXCEPT ![c] = <<>>]
    /\ UNCHANGED <<operator, server, client, waiting, late, acked>>
-----------------------------------------------------------------------------
(* The vty thread: send_netmt and get_netmt *)

\* No frame of a get is on its way.
Quiet == \A c \in Clients :
    /\ \A i \in DOMAIN down[c] : down[c][i].comm # "GET" \/ down[c][i].sub # "CLIENT"
    /\ \A i \in DOMAIN up[c] : up[c][i].comm # "GET"

\* A command is given for a file of n blocks.
NewCommand(n) ==
    /\ ~ undefined /\ vty = Prompt /\ Len(size) < MaxCommands
    /\ Patient => Quiet
    /\ size' = Append(size, n)

\* send all (group, type, single): fopen, and FILE_OPEN to the clients that match.
SendOpen(match, n) ==
    /\ NewCommand(n)
    /\ LET k == Len(size) + 1 IN
        /\ fp' = Stream(k, "r")
        /\ vty' = [k |-> k, match |-> match]
        /\ Broadcast(match \cap listed, Frame("SEND", "OPEN", k, 0))
    /\ UNCHANGED <<filebytes, fsize, sdisk, wedged, undefined, client, conns, up, acked>>

\* Whether fread has a block: it has none of a stream that is open for writing.
Readable == fp.mode = "r" /\ fp.pos < size[fp.k]

\* Mutant of SendBlock: the clients are not filtered.
SendBlockToAll ==
    /\ ~ undefined /\ vty # Prompt /\ Readable
    /\ fp' = [fp EXCEPT !.pos = @ + 1]
    /\ filebytes' = filebytes + 1
    /\ Broadcast(listed, Frame("SEND", "DATA", vty.k, fp.pos + 1))
    /\ UNCHANGED <<size, vty, fsize, sdisk, wedged, undefined, client, conns, up, acked>>

\* Mutant of SendBlock: a block is lost between fread and hio_write.
SendBlockSkips ==
    /\ ~ undefined /\ vty # Prompt /\ Readable
    /\ fp' = [fp EXCEPT !.pos = @ + 1]
    /\ filebytes' = filebytes + 1
    /\ Broadcast(IF fp.pos = 0 THEN {} ELSE vty.match \cap listed,
                 Frame("SEND", "DATA", vty.k, fp.pos + 1))
    /\ UNCHANGED <<size, vty, fsize, sdisk, wedged, undefined, client, conns, up, acked>>

\* fread gives a block, which goes to every client that matches.
SendBlock ==
    /\ ~ undefined /\ vty # Prompt /\ Readable
    /\ fp' = [fp EXCEPT !.pos = @ + 1]
    /\ filebytes' = filebytes + 1
    /\ Broadcast(vty.match \cap listed, Frame("SEND", "DATA", vty.k, fp.pos + 1))
    /\ UNCHANGED <<size, vty, fsize, sdisk, wedged, undefined, client, conns, up, acked>>

\* fread gives 0: fclose, SEND_END with byte_size = filebytes, which counts on
\* from the sends before.
SendEnd ==
    /\ ~ undefined /\ vty # Prompt /\ ~ Readable
    /\ undefined' = (fp.mode = "closed")
    /\ fp' = Closed(fp)
    /\ vty' = Prompt
    /\ Broadcast(vty.match \cap listed, Frame("SEND", "END", vty.k, filebytes))
    /\ UNCHANGED <<size, filebytes, fsize, sdisk, wedged, client, conns, up, acked>>

\* get: NETMT_CLIENT to the client; the file there has n blocks.
Get(c, n) ==
    /\ NewCommand(n) /\ c \in listed
    /\ Broadcast({c}, Frame("GET", "CLIENT", Len(size) + 1, 0))
    /\ UNCHANGED <<vty, filebytes, server, client, conns, up, acked>>
-----------------------------------------------------------------------------
(* The client: tcp_recv of netmtclient.c, one action per frame *)

\* The next frame of client c is of this kind, and handled to its end.
Takes(c, comm, sub) ==
    /\ ~ undefined /\ c \in listed \ failed
    /\ IsNext(down[c], comm, sub)
    /\ down' = [down EXCEPT ![c] = Tail(@)]

\* Mutant of ClientOpen: filebytes = 0 is left out.
ClientOpenKeepsBytes(c) ==
    /\ Takes(c, "SEND", "OPEN")
    /\ LET k == Head(down[c]).k IN
        /\ cfp' = [cfp EXCEPT ![c] = Stream(k, "w")]
        /\ disk' = [disk EXCEPT ![c][k] = <<>>]
    /\ UNCHANGED <<cbytes, operator, server, failed, crashed, conns, up, acked>>

\* FILE_OPEN: fopen "wb".
ClientOpen(c) ==
    /\ Takes(c, "SEND", "OPEN")
    /\ LET k == Head(down[c]).k IN
        /\ cfp' = [cfp EXCEPT ![c] = Stream(k, "w")]
        /\ disk' = [disk EXCEPT ![c][k] = <<>>]
    /\ cbytes' = [cbytes EXCEPT ![c] = 0]
    /\ UNCHANGED <<operator, server, failed, crashed, conns, up, acked>>

\* Mutant of ClientData: filebytes grows by data_size also when fwrite fails,
\* and the handler goes on.
ClientDataCountsAll(c) ==
    /\ Takes(c, "SEND", "DATA") /\ cfp[c].mode = "w"
    /\ LET frame == Head(down[c]) IN
        \/ disk' = [disk EXCEPT ![c][cfp[c].k] = Append(@, Block(frame.k, frame.n))]
        \/ UNCHANGED disk
    /\ cbytes' = [cbytes EXCEPT ![c] = @ + 1]
    /\ UNCHANGED <<operator, server, cfp, failed, crashed, conns, up, acked>>

\* DATA: fwrite of the block.
ClientData(c) ==
    /\ Takes(c, "SEND", "DATA") /\ cfp[c].mode = "w"
    /\ LET frame == Head(down[c]) IN
        disk' = [disk EXCEPT ![c][cfp[c].k] = Append(@, Block(frame.k, frame.n))]
    /\ cbytes' = [cbytes EXCEPT ![c] = @ + 1]
    /\ UNCHANGED <<operator, server, cfp, failed, crashed, conns, up, acked>>

\* SEND_END: fclose, and SEND_SUCCESS if byte_size == filebytes.
ClientEnd(c) ==
    /\ Takes(c, "SEND", "END") /\ cfp[c].mode = "w"
    /\ cfp' = [cfp EXCEPT ![c] = Closed(@)]
    /\ LET frame == Head(down[c]) IN
        IF frame.n = cbytes[c]
        THEN /\ up' = [up EXCEPT ![c] = Append(@, Frame("SEND", "SUCCESS", frame.k, 0))]
             /\ acked' = acked \cup {<<"SEND", c, frame.k>>}
        ELSE UNCHANGED <<up, acked>>
    /\ UNCHANGED <<operator, server, cbytes, disk, failed, crashed, conns>>

\* DATA or SEND_END with fp NULL or closed: the process dies, and with it the
\* connection.
ClientCrashes(c) ==
    /\ ~ undefined /\ ~ wedged /\ c \in listed \ failed
    /\ IsNext(down[c], "SEND", "DATA") \/ IsNext(down[c], "SEND", "END")
    /\ cfp[c].mode # "w"
    /\ crashed' = crashed \cup {c}
    /\ listed' = listed \ {c}
    /\ down' = [down EXCEPT ![c] = <<>>]
    /\ up' = [up EXCEPT ![c] = <<>>]
    /\ UNCHANGED <<operator, server, cfp, cbytes, disk, failed, waiting, late, acked>>

\* fopen fails, or fwrite writes less (and the mutex stays locked): tcp_recv
\* returns with the frame still in the buffer, and comes no further than it.
ClientFails(c) ==
    /\ ~ undefined /\ c \in listed \ failed
    /\ \/ IsNext(down[c], "SEND", "OPEN")
       \/ IsNext(down[c], "GET", "CLIENT")
       \/ IsNext(down[c], "SEND", "DATA") /\ cfp[c].mode = "w"
    /\ failed' = failed \cup {c}
    /\ UNCHANGED <<operator, server, cfp, cbytes, disk, crashed, conns, down, up, acked>>

Blocks(k) == [i \in 1 .. size[k] |-> Frame("GET", "DATA", k, i)]

\* Mutant of ClientGet: GET_END goes out before the blocks.
ClientGetEndsFirst(c) ==
    /\ Takes(c, "GET", "CLIENT")
    /\ LET k == Head(down[c]).k IN
        /\ up' = [up EXCEPT ![c] = @ \o <<Frame("GET", "OPEN", k, 0), Frame("GET", "END", k, size[k])>>
                                     \o Blocks(k)]
        /\ cfp' = [cfp EXCEPT ![c] = Closed(Stream(k, "r"))]
        /\ cbytes' = [cbytes EXCEPT ![c] = size[k]]
    /\ UNCHANGED <<operator, server, disk, failed, crashed, conns, acked>>

\* GET NETMT_CLIENT: the whole file is sent by one handler.
ClientGet(c) ==
    /\ Takes(c, "GET", "CLIENT")
    /\ LET k == Head(down[c]).k IN
        /\ up' = [up EXCEPT ![c] = @ \o <<Frame("GET", "OPEN", k, 0)>> \o Blocks(k)
                                     \o <<Frame("GET", "END", k, size[k])>>]
        /\ cfp' = [cfp EXCEPT ![c] = Closed(Stream(k, "r"))]
        /\ cbytes' = [cbytes EXCEPT ![c] = size[k]]
    /\ UNCHANGED <<operator, server, disk, failed, crashed, conns, acked>>

\* GET GET_SUCCESS has no branch.
ClientIgnores(c) ==
    /\ Takes(c, "GET", "SUCCESS")
    /\ UNCHANGED <<operator, server, client, conns, up, acked>>
-----------------------------------------------------------------------------
(* The loop thread of the server: tcp_recv of netmtserver.c *)

ServerTakes(c, comm, sub) ==
    /\ ~ undefined /\ ~ wedged /\ c \in listed
    /\ IsNext(up[c], comm, sub)
    /\ up' = [up EXCEPT ![c] = Tail(@)]

\* FILE_OPEN: fopen "wb" into fp, whatever fp was.
ServerOpen(c) ==
    /\ ServerTakes(c, "GET", "OPEN")
    /\ LET k == Head(up[c]).k IN
        /\ fp' = Stream(k, "w")
        /\ sdisk' = [sdisk EXCEPT ![k] = <<>>]
    /\ fsize' = 0
    /\ UNCHANGED <<wedged, undefined, operator, client, conns, down, acked>>

\* Mutant of ServerData: every block is written at the start of the file.
ServerDataRewinds(c) ==
    /\ ServerTakes(c, "GET", "DATA") /\ fp.mode = "w"
    /\ sdisk' = [sdisk EXCEPT ![fp.k] = <<Block(Head(up[c]).k, Head(up[c]).n)>>]
    /\ fsize' = fsize + 1
    /\ UNCHANGED <<fp, wedged, undefined, operator, client, conns, down, acked>>

\* DATA: fwrite of the block, into a FILE that may have been closed.
ServerData(c) ==
    /\ ServerTakes(c, "GET", "DATA") /\ fp.mode # "r"
    /\ undefined' = (fp.mode # "w")
    /\ IF fp.mode = "w"
       THEN /\ sdisk' = [sdisk EXCEPT ![fp.k] = Append(@, Block(Head(up[c]).k, Head(up[c]).n))]
            /\ fsize' = fsize + 1
       ELSE UNCHANGED <<sdisk, fsize>>
    /\ UNCHANGED <<fp, wedged, operator, client, conns, down, acked>>

\* fwrite writes less, as it does to a stream opened for reading: tcp_recv
\* returns with the mutex locked and the frame in the buffer.
ServerDataShort(c) ==
    /\ ~ undefined /\ ~ wedged /\ c \in listed
    /\ IsNext(up[c], "GET", "DATA") /\ fp.mode \in {"r", "w"}
    /\ wedged' = TRUE
    /\ UNCHANGED <<fp, fsize, sdisk, undefined, operator, client, conns, down, up, acked>>

\* GET_END: fclose of a FILE that may have been closed, and GET_SUCCESS if
\* byte_size == fsize.
ServerEnd(c) ==
    /\ ServerTakes(c, "GET", "END")
    /\ undefined' = (fp.mode \notin {"r", "w"})
    /\ fp' = Closed(fp)
    /\ LET frame == Head(up[c]) IN
        IF frame.n = fsize
        THEN /\ Broadcast({c}, Frame("GET", "SUCCESS", frame.k, 0))
             /\ acked' = acked \cup {<<"GET", c, frame.k>>}
        ELSE UNCHANGED <<down, acked>>
    /\ UNCHANGED <<fsize, sdisk, wedged, operator, client, conns>>

\* SEND SEND_SUCCESS: nothing is done.
ServerIgnores(c) ==
    /\ ServerTakes(c, "SEND", "SUCCESS")
    /\ UNCHANGED <<operator, server, client, conns, down, acked>>
-----------------------------------------------------------------------------
SendOn == SendBlock \/ SendEnd

Client(c) ==
    \/ ClientOpen(c) \/ ClientData(c) \/ ClientEnd(c) \/ ClientGet(c) \/ ClientIgnores(c)
    \/ ClientCrashes(c) \/ ClientFails(c)

Server(c) ==
    \/ ServerOpen(c) \/ ServerData(c) \/ ServerDataShort(c) \/ ServerEnd(c) \/ ServerIgnores(c)

Next ==
    \/ \E n \in 0 .. MaxBlocks :
        \/ \E match \in SUBSET Clients : SendOpen(match, n)
        \/ \E c \in Clients : Get(c, n)
    \/ SendOn
    \/ \E c \in Clients : Join(c) \/ Leave(c) \/ Client(c) \/ Server(c)

\* The vty thread, each client and the server's loop are scheduled.
Spec ==
    /\ Init /\ [][Next]_vars
    /\ WF_vars(SendOn)
    /\ \A c \in Clients : WF_vars(Client(c)) /\ WF_vars(Server(c))
-----------------------------------------------------------------------------
Streams == [k : 0 .. MaxCommands, mode : {"null", "r", "w", "closed"}, pos : 0 .. MaxBlocks]
Frames == [comm : {"SEND", "GET"}, sub : {"OPEN", "DATA", "END", "SUCCESS", "CLIENT"},
           k : 1 .. MaxCommands, n : Nat]
Copies == [1 .. MaxCommands -> Seq((1 .. MaxCommands) \X (1 .. MaxBlocks))]

TypeOK ==
    /\ waiting \subseteq Clients /\ listed \subseteq Clients \ waiting /\ late \subseteq Clients
    /\ down \in [Clients -> Seq(Frames)] /\ up \in [Clients -> Seq(Frames)]
    /\ size \in Seq(0 .. MaxBlocks) /\ Len(size) <= MaxCommands
    /\ vty \in [k : 0 .. MaxCommands, match : SUBSET Clients]
    /\ fp \in Streams /\ cfp \in [Clients -> Streams]
    /\ filebytes \in Nat /\ fsize \in 0 .. MaxBlocks /\ cbytes \in [Clients -> 0 .. MaxBlocks]
    /\ disk \in [Clients -> Copies] /\ sdisk \in Copies
    /\ failed \subseteq Clients /\ crashed \subseteq Clients \ listed
    /\ wedged \in BOOLEAN /\ undefined \in BOOLEAN
    /\ acked \subseteq {"SEND", "GET"} \X Clients \X (1 .. MaxCommands)

\* The copy of command k's file that client c, or the server, reports complete.
Sent(c, k) == k \in DOMAIN size /\ disk[c][k] = File(k)
Got(k) == k \in DOMAIN size /\ sdisk[k] = File(k)

\* SEND_SUCCESS or GET_SUCCESS goes out only for a complete copy, block by
\* block: that the numbers of bytes are equal is enough.
ConfirmedIsComplete ==
    \A ack \in acked : IF ack[1] = "SEND" THEN Sent(ack[2], ack[3]) ELSE Got(ack[3])

\* A client writes to a file it has not opened (and dies) only if it connected
\* while a send was running.
OnlyLateClientsCrash == crashed \subseteq late

\* The server writes to and closes only the file that is open.
ServerFileIsOpen == ~ undefined

\* What can keep a transfer from its end.
Broken(c) == c \notin listed \/ c \in failed \/ undefined

\* A send reaches every matching client that stays and can write its file.
SendArrives ==
    \A c \in Clients, k \in 1 .. MaxCommands :
        (vty.k = k /\ c \in vty.match \cap (listed \ late)) ~> (Sent(c, k) \/ Broken(c))

\* And the first send of the server's life is confirmed.
FirstSendIsConfirmed ==
    \A c \in Clients, k \in 1 .. MaxCommands :
        (vty.k = k /\ filebytes = 0 /\ fp.pos = 0 /\ c \in vty.match \cap (listed \ late))
            ~> (<<"SEND", c, k>> \in acked \/ Broken(c))

\* netmt.h: byte_size of SEND_END is the size of the file.
ByteSizeIsFileSize ==
    \A c \in Clients : \A i \in DOMAIN down[c] :
        down[c][i].comm = "SEND" /\ down[c][i].sub = "END" => down[c][i].n = size[down[c][i].k]

\* GET_SUCCESS ("get file success") goes out only for a file that is complete.
GetConfirmedIsComplete ==
    \A ack \in acked : ack[1] = "GET" => Got(ack[3])
=============================================================================
