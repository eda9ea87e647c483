------------------------------ MODULE Control ------------------------------
(***************************************************************************)
(* What keeps a client known to its server: "register", the heartbeat, and *)
(* PING with the second TCP connection it makes a client open.  The three  *)
(* tell connections apart by fd numbers, the server's and the client's,    *)
(* which are numbers of two processes.                                     *)
(*                                                                         *)
(* A client is a process with the TCP loop of main (loop 1), the UDP loop  *)
(* and the TCP loop that udp_recv starts (loop 2).  A connection hands     *)
(* frames over whole and in order (NetmtRecv has the bytes, and what two   *)
(* connections that share databuf do to them); the server's list is walked *)
(* soundly (ServerClients has the walks, and the client freed under one).  *)
(***************************************************************************)
EXTENDS Integers, Sequences, SequencesExt, FiniteSetsExt

CONSTANTS
    Clients,        \* client processes
    ClientFd,       \* ClientFd[l]: the number socket() gave the client's loop l
    FirstFd,        \* the first number accept() gives on the server
    Skew,           \* Skew[c]: how far the uptime of c is ahead of the server's
    TimeBits,       \* width of a time in gethrtime_us
    AgeBits,        \* width of int
    Unit,           \* microseconds in a millisecond
    Patience,       \* age at which a heartbeat is not answered, 15000 in the code
    StartTime,      \* the server's clock when the model begins
    MaxTime,        \* bound: the server's clock
    MaxConns,       \* bound: connections open on the server at once
    MaxBeats,       \* bound: heartbeats
    MaxEnds,        \* bound: loops that quit and connections that break
    MaxRegisters,   \* bound: register commands
    MaxPings        \* bound: ping commands

Loops == {1, 2}

\* Clocks show how long a host has been up, and fit their 64 bits.
ASSUME ControlAssumption ==
    /\ FirstFd \in Nat /\ MaxConns \in Nat /\ MaxTime \in Nat /\ StartTime \in 0 .. MaxTime
    /\ ClientFd \in [Loops -> Nat] /\ Skew \in [Clients -> Int]
    /\ \A c \in Clients : StartTime + Skew[c] >= 0 /\ MaxTime + Skew[c] < 2^TimeBits

Fds == FirstFd .. FirstFd + MaxConns - 1

VARIABLES
    now,        \* gethrtime_us of the server
    server,     \* "up", or what became of its TCP loop
    conn,       \* conn[f]: the accepted connection with the server's fd f
    clients,    \* t_server.clients: fds, the last accepted first
    listenio,   \* the priority of the listening io: "normal" or "pointer"
    commonid,   \* t_server.commonid
    vty,        \* the vty thread: [at, walk, told]
    registers,  \* register commands so far
    pings,      \* ping commands so far
    beats,      \* heartbeats so far
    ends,       \* loops that quit and connections that broke so far
    udp,        \* PINGs on their way to each client
    joins,      \* clients whose UDP loop is in pthread_join
    sock,       \* sock[c][l]: "off", "connecting" or "open"
    hungUp      \* history: <<whose connection was closed by the answer to a
                \* heartbeat, whose heartbeat it was>>

clientSide == <<udp, joins, sock, beats, ends>>
vtySide == <<vty, registers, pings>>
vars == <<now, server, conn, clients, listenio, commonid, vtySide, clientSide, hungUp>>

None == [client |-> "none"]
Open == {f \in Fds : conn[f] # None}

\* int time = (cur_time - comm->last_send_ping_time) / 1000
Age(cur, last) ==
    LET low == (((cur - last) % 2^TimeBits) \div Unit) % 2^AgeBits IN
    IF low < 2^(AgeBits - 1) THEN low ELSE low - 2^AgeBits

\* The clock of a client's host.
ClockOf(c) == now + Skew[c]

Init ==
    /\ now = StartTime /\ server = "up" /\ listenio = "normal" /\ commonid = "zero"
    /\ conn = [f \in Fds |-> None] /\ clients = <<>>
    /\ vty = [at |-> "idle", walk |-> <<>>, told |-> "nothing"]
    /\ registers = 0 /\ pings = 0 /\ hungUp = {}
    /\ udp = [c \in Clients |-> 0] /\ joins = {} /\ beats = 0 /\ ends = 0
    /\ sock = [c \in Clients |-> [l \in Loops |-> IF l = 1 THEN "connecting" ELSE "off"]]

\* Where client c has its loop l connected.
Connected(f, c, l) == f \in Open /\ conn[f].client = c /\ conn[f].loop = l /\ conn[f].peer

\* conn after the client behind f has closed: what it sent stays readable.
HungUp(f) == [conn EXCEPT ![f].peer = FALSE, ![f].down = <<>>]
-----------------------------------------------------------------------------
\* netmt_accept, with netmt_connect at the other end.  Loop 2 has written the
\* PING before it was connected.
Accept(c, l) ==
    /\ server = "up" /\ listenio = "normal" /\ sock[c][l] = "connecting" /\ Open # Fds
    /\ LET f == Min(Fds \ Open) IN
       /\ conn' = [conn EXCEPT ![f] =
              [client |-> c, loop |-> l, peer |-> TRUE, info |-> "unknown",
               up |-> IF l = 2 THEN <<[is |-> "ping"]>> ELSE <<>>, down |-> <<>>]]
       /\ clients' = <<f>> \o clients
    /\ sock' = [sock EXCEPT ![c][l] = "open"]
    /\ UNCHANGED <<now, server, listenio, commonid, vtySide, udp, joins, beats, ends, hungUp>>

\* The loop takes a pointer for the priority of the listening io and stores into
\* the pendings that far behind it: a fault, which ends every connection, or a word
\* of something else, and the event is in no list that a pass visits.
AcceptMisplaced ==
    /\ server = "up" /\ listenio = "pointer"
    /\ \E c \in Clients, l \in Loops : sock[c][l] = "connecting"
    /\ \/ /\ server' = "crashed"
          /\ conn' = [f \in Fds |-> None] /\ clients' = <<>>
          /\ vty' = [vty EXCEPT !.walk = <<>>]
          /\ sock' = [c \in Clients |-> [l \in Loops |-> "off"]]
       \/ /\ server' = "deaf"
          /\ UNCHANGED <<conn, clients, vty, sock>>
    /\ UNCHANGED <<now, listenio, commonid, registers, pings, udp, joins, beats, ends, hungUp>>

\* The server comes to the end of a connection its peer has left: netmt_close.
ServerClose(f) ==
    /\ server # "crashed" /\ f \in Open /\ ~ conn[f].peer
    /\ conn' = [conn EXCEPT ![f] = None]
    /\ clients' = RemoveFirst(clients, f)
    /\ vty' = [vty EXCEPT !.walk = RemoveFirst(@, f)]
    /\ UNCHANGED <<now, server, listenio, commonid, registers, pings, clientSide, hungUp>>

\* conn after the frame at the head of f's input was handled.
Taken(f) == [conn EXCEPT ![f].up = Tail(@)]
ServerTakes(f, kind) ==
    /\ server # "crashed" /\ f \in Open /\ conn[f].up # <<>> /\ Head(conn[f].up).is = kind

\* case NETMT_PING: hevent_set_priority(t_server.listenio, sendbuf).
ServerPing(f) ==
    /\ ServerTakes(f, "ping")
    /\ listenio' = "pointer"
    /\ conn' = Taken(f)
    /\ UNCHANGED <<now, server, clients, commonid, vtySide, clientSide, hungUp>>

\* A plausible slip: the answer leaves last_recv_pong_time as it came.
ServerHeartbeatNoPong(f) ==
    LET beat == Head(conn[f].up)
        time == Age(now, beat.ping)
        answer == [is |-> "heartbeat", from |-> beat.from, ping |-> beat.ping, pong |-> 0] IN
    /\ ServerTakes(f, "heartbeat")
    /\ conn' = IF 0 < time /\ time < Patience /\ beat.fd \in Open /\ conn[beat.fd].peer
               THEN [Taken(f) EXCEPT ![beat.fd].down = Append(@, answer)]
               ELSE Taken(f)
    /\ UNCHANGED <<now, server, clients, listenio, commonid, vtySide, clientSide, hungUp>>

\* case NETMT_HEARTBEAT: the answer goes to the connection whose number on the
\* server is the one the client's socket has in the client.
ServerHeartbeat(f) ==
    LET beat == Head(conn[f].up)
        time == Age(now, beat.ping)
        answer == [is |-> "heartbeat", from |-> beat.from, ping |-> beat.ping, pong |-> now] IN
    /\ ServerTakes(f, "heartbeat")
    /\ conn' = IF 0 < time /\ time < Patience /\ beat.fd \in Open /\ conn[beat.fd].peer
               THEN [Taken(f) EXCEPT ![beat.fd].down = Append(@, answer)]
               ELSE Taken(f)
    /\ UNCHANGED <<now, server, clients, listenio, commonid, vtySide, clientSide, hungUp>>

\* case NETMT_REGISTER: the client's data are stored by the number in the frame.
ServerRegister(f) ==
    LET frame == Head(conn[f].up) IN
    /\ ServerTakes(f, "register")
    /\ conn' = IF frame.fd \in Open THEN [Taken(f) EXCEPT ![frame.fd].info = frame.info]
               ELSE Taken(f)
    /\ commonid' = "register"
    /\ UNCHANGED <<now, server, clients, listenio, vtySide, clientSide, hungUp>>
-----------------------------------------------------------------------------
\* register: list_for_each with an hio_write, sleep(1), the word on the terminal.
RegisterBegins ==
    /\ server # "crashed" /\ vty.at = "idle" /\ registers < MaxRegisters
    /\ registers' = registers + 1
    /\ vty' = [at |-> "walk", walk |-> clients, told |-> "nothing"]
    /\ UNCHANGED <<now, server, conn, clients, listenio, commonid, pings, clientSide, hungUp>>

RegisterVisits ==
    /\ server # "crashed" /\ vty.at = "walk" /\ vty.walk # <<>>
    /\ LET f == Head(vty.walk) IN
       conn' = IF f \in Open /\ conn[f].peer
               THEN [conn EXCEPT ![f].down = Append(@, [is |-> "register", fd |-> f])]
               ELSE conn
    /\ vty' = [vty EXCEPT !.walk = Tail(@)]
    /\ UNCHANGED <<now, server, clients, listenio, commonid, registers, pings, clientSide, hungUp>>

RegisterEnds ==
    /\ server # "crashed" /\ vty.at = "walk" /\ vty.walk = <<>>
    /\ vty' = [at |-> "idle", walk |-> <<>>,
               told |-> IF commonid = "register" THEN "success" ELSE "fail"]
    /\ UNCHANGED <<now, server, conn, clients, listenio, commonid, registers, pings, clientSide, hungUp>>

\* ping: one datagram, which may be lost.
Ping(c) ==
    /\ server # "crashed" /\ vty.at = "idle" /\ pings < MaxPings
    /\ pings' = pings + 1
    /\ udp' \in {udp, [udp EXCEPT ![c] = @ + 1]}
    /\ UNCHANGED <<now, server, conn, clients, listenio, commonid, vty, registers, joins, sock, beats, ends, hungUp>>
-----------------------------------------------------------------------------
\* A plausible slip: the thread is detached, not joined.
ClientPingDetached(c) ==
    /\ udp[c] > 0
    /\ udp' = [udp EXCEPT ![c] = @ - 1]
    /\ joins' = joins \cup {c}
    /\ sock' = [sock EXCEPT ![c][2] = "connecting"]
    /\ UNCHANGED <<now, server, conn, clients, listenio, commonid, vtySide, beats, ends, hungUp>>

\* udp_recv: netmt_setTcp in a thread of its own, and pthread_join.
ClientPing(c) ==
    /\ c \notin joins /\ udp[c] > 0
    /\ udp' = [udp EXCEPT ![c] = @ - 1]
    /\ joins' = joins \cup {c}
    /\ sock' = [sock EXCEPT ![c][2] = "connecting"]
    /\ UNCHANGED <<now, server, conn, clients, listenio, commonid, vtySide, beats, ends, hungUp>>

\* send_heartbeat, with hio_fd(io).
SendHeartbeat(f) ==
    /\ f \in Open /\ conn[f].peer /\ beats < MaxBeats
    /\ beats' = beats + 1
    /\ LET c == conn[f].client IN
       conn' = [conn EXCEPT ![f].up = Append(@, [is |-> "heartbeat", from |-> c,
                                                 ping |-> ClockOf(c),
                                                 fd |-> ClientFd[conn[f].loop]])]
    /\ UNCHANGED <<now, server, clients, listenio, commonid, vtySide, udp, joins, sock, ends, hungUp>>

ClientTakes(f, kind) ==
    f \in Open /\ conn[f].peer /\ conn[f].down # <<>> /\ Head(conn[f].down).is = kind

\* A plausible slip: fd is filled in with hio_fd(io), as send_heartbeat does.
ClientRegisterOwnFd(f) ==
    /\ ClientTakes(f, "register")
    /\ conn' = [conn EXCEPT
           ![f].down = Tail(@),
           ![f].up = Append(@, [is |-> "register", fd |-> ClientFd[conn[f].loop],
                                info |-> conn[f].client])]
    /\ UNCHANGED <<now, server, clients, listenio, commonid, vtySide, clientSide, hungUp>>

\* case NETMT_REGISTER: the frame goes back with the data of netmtclient.ini.
ClientRegister(f) ==
    /\ ClientTakes(f, "register")
    /\ conn' = [conn EXCEPT
           ![f].down = Tail(@),
           ![f].up = Append(@, [is |-> "register", fd |-> Head(conn[f].down).fd,
                                info |-> conn[f].client])]
    /\ UNCHANGED <<now, server, clients, listenio, commonid, vtySide, clientSide, hungUp>>

\* case NETMT_HEARTBEAT: the answer is as it should be, or it was sent after it
\* was answered and the client hangs up.
ClientHeartbeat(f) ==
    LET answer == Head(conn[f].down) IN
    /\ ClientTakes(f, "heartbeat")
    /\ answer.pong >= answer.ping
    /\ conn' = [conn EXCEPT ![f].down = Tail(@)]
    /\ UNCHANGED <<now, server, clients, listenio, commonid, vtySide, clientSide, hungUp>>

ClientTimesOut(f) ==
    LET answer == Head(conn[f].down) IN
    /\ ClientTakes(f, "heartbeat")
    /\ answer.pong < answer.ping
    /\ conn' = HungUp(f)
    /\ sock' = [sock EXCEPT ![conn[f].client][conn[f].loop] = "off"]
    /\ hungUp' = hungUp \cup {<<conn[f].client, answer.from>>}
    /\ UNCHANGED <<now, server, clients, listenio, commonid, vtySide, udp, joins, beats, ends>>

\* "quit" on the client's terminal ends loop l: hloop_free closes its sockets, and
\* the end of loop 2 is what pthread_join waits for.
Quit(c, l) ==
    /\ ends < MaxEnds /\ ends' = ends + 1
    /\ l = 2 => c \in joins
    /\ l = 1 => sock[c][l] # "off"
    /\ conn' = [f \in Fds |-> IF Connected(f, c, l) THEN HungUp(f)[f] ELSE conn[f]]
    /\ sock' = [sock EXCEPT ![c][l] = "off"]
    /\ joins' = IF l = 2 THEN joins \ {c} ELSE joins
    /\ UNCHANGED <<now, server, clients, listenio, commonid, vtySide, udp, beats, hungUp>>

\* The network between the two gives a connection up.
Breaks(f) ==
    /\ f \in Open /\ conn[f].peer
    /\ ends < MaxEnds /\ ends' = ends + 1
    /\ conn' = HungUp(f)
    /\ sock' = [sock EXCEPT ![conn[f].client][conn[f].loop] = "off"]
    /\ UNCHANGED <<now, server, clients, listenio, commonid, vtySide, udp, joins, beats, hungUp>>

Tick ==
    /\ now < MaxTime
    /\ now' = now + 1
    /\ UNCHANGED <<server, conn, clients, listenio, commonid, vtySide, clientSide, hungUp>>
-----------------------------------------------------------------------------
Next ==
    \/ Tick \/ AcceptMisplaced \/ RegisterBegins \/ RegisterVisits \/ RegisterEnds
    \/ \E c \in Clients : Ping(c) \/ ClientPing(c) \/ \E l \in Loops : Accept(c, l) \/ Quit(c, l)
    \/ \E f \in Fds :
           \/ ServerClose(f) \/ ServerPing(f) \/ ServerHeartbeat(f) \/ ServerRegister(f)
           \/ SendHeartbeat(f) \/ ClientRegister(f) \/ ClientHeartbeat(f)
           \/ ClientTimesOut(f) \/ Breaks(f)

Spec == Init /\ [][Next]_vars
-----------------------------------------------------------------------------
\* What each step keeps of the state: the list and the open connections agree, a
\* client has one connection for each loop that is connected, and its UDP loop
\* waits in pthread_join for every second loop there is.
TypeOK ==
    /\ now \in StartTime .. MaxTime /\ server \in {"up", "crashed", "deaf"}
    /\ listenio \in {"normal", "pointer"} /\ commonid \in {"zero", "register"}
    /\ ToSet(clients) = Open /\ IsInjective(clients)
    /\ vty.at \in {"idle", "walk"} /\ ToSet(vty.walk) \subseteq Open
    /\ vty.told \in {"nothing", "success", "fail"}
    /\ \A f \in Open : conn[f].info \in Clients \cup {"unknown"}
    /\ \A c \in Clients, l \in Loops :
           /\ sock[c][l] \in {"off", "connecting", "open"}
           /\ Cardinality({f \in Fds : Connected(f, c, l)}) = IF sock[c][l] = "open" THEN 1 ELSE 0
    /\ \A c \in Clients : sock[c][2] # "off" => c \in joins

\* What the server keeps of a connection is what the client at its other end has
\* registered, though it is stored by an fd number that connections reuse and
\* that went to the client and back.
OwnRegistration == \A f \in Open : conn[f].info \in {"unknown", conn[f].client}

\* A client hangs up over a heartbeat only if a client's clock is ahead of the
\* server's: its own, or that of the one whose answer it was given.
OnlyAheadClocksHangUp == \A h \in hungUp : Skew[h[2]] > 0
=============================================================================
