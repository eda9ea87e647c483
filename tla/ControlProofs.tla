--------------------------- MODULE ControlProofs ---------------------------
(***************************************************************************)
(* For every number of clients, whatever numbers accept() and socket()     *)
(* give, whatever the clocks show and the widths are: what the server      *)
(* keeps of a connection is its peer's, heartbeats end a connection only   *)
(* over a clock that is ahead, and the list is the open connections.       *)
(***************************************************************************)
EXTENDS Control, SequenceTheorems, FiniteSetTheorems, WellFoundedInduction, TLAPS

\* What may be on its way to the server behind fd f, whose peer is c, and back.
Beat == [is : {"heartbeat"}, from : Clients, ping : Int, fd : Nat]
UpOf(f, c) == [is : {"ping"}] \cup Beat \cup [is : {"register"}, fd : {f}, info : {c}]
Answer == [is : {"heartbeat"}, from : Clients, ping : Int, pong : Int]
DownOf(f) == Answer \cup [is : {"register"}, fd : {f}]

ConnOf(f, c) ==
    [client : {c}, loop : Loops, peer : BOOLEAN, info : {"unknown", c},
     up : Seq(UpOf(f, c)), down : Seq(DownOf(f))]

\* At time t a heartbeat on its way was sent in the past of its client's clock, and
\* one that was answered was sent before.
BeatsPast(x, t) ==
    /\ \A i \in 1 .. Len(x.up) :
           x.up[i].is = "heartbeat" => x.up[i].ping <= t + Skew[x.up[i].from]
    /\ \A i \in 1 .. Len(x.down) :
           x.down[i].is = "heartbeat" => x.down[i].ping <= x.down[i].pong + Skew[x.down[i].from]

Good(f, x, t) == x = None \/ \E c \in Clients : x \in ConnOf(f, c) /\ BeatsPast(x, t)

AllGood(cn, t) == cn = [f \in Fds |-> cn[f]] /\ \A f \in Fds : Good(f, cn[f], t)

\* The inductive invariant: an fd that comes back was sent to where it comes from.
Inv ==
    /\ now \in Int
    /\ AllGood(conn, now)
    /\ OnlyAheadClocksHangUp

\* One connection changes, to a good one.
LEMMA PutGood ==
  ASSUME NEW cn, NEW t, AllGood(cn, t), NEW f, NEW y, f \in Fds => Good(f, y, t)
  PROVE  AllGood([cn EXCEPT ![f] = y], t)
  BY DEF AllGood

\* What the operations do to the record of a connection keeps it good.
LEMMA TakeUp ==
  ASSUME NEW f, NEW c, NEW x \in ConnOf(f, c), NEW t \in Int, BeatsPast(x, t), x.up # <<>>
  PROVE  /\ [x EXCEPT !.up = Tail(@)] \in ConnOf(f, c)
         /\ BeatsPast([x EXCEPT !.up = Tail(@)], t)
<1>1. x.up \in Seq(UpOf(f, c)) /\ Tail(x.up) \in Seq(UpOf(f, c)) /\ Len(Tail(x.up)) = Len(x.up) - 1
  BY DEF ConnOf
<1>2. \A i \in 1 .. Len(Tail(x.up)) : Tail(x.up)[i] = x.up[i + 1] /\ i + 1 \in 1 .. Len(x.up)
  BY <1>1
<1>3. [x EXCEPT !.up = Tail(@)] \in ConnOf(f, c)
  BY <1>1 DEF ConnOf
<1>4. BeatsPast([x EXCEPT !.up = Tail(@)], t)
  BY <1>2 DEF BeatsPast, ConnOf
<1> QED
  BY <1>3, <1>4

\* The same for what the client has handled.
LEMMA TakeDown ==
  ASSUME NEW f, NEW c, NEW x \in ConnOf(f, c), NEW t \in Int, BeatsPast(x, t), x.down # <<>>
  PROVE  /\ [x EXCEPT !.down = Tail(@)] \in ConnOf(f, c)
         /\ BeatsPast([x EXCEPT !.down = Tail(@)], t)
<1>1. x.down \in Seq(DownOf(f)) /\ Tail(x.down) \in Seq(DownOf(f)) /\ Len(Tail(x.down)) = Len(x.down) - 1
  BY DEF ConnOf
<1>2. \A i \in 1 .. Len(Tail(x.down)) : Tail(x.down)[i] = x.down[i + 1] /\ i + 1 \in 1 .. Len(x.down)
  BY <1>1
<1>3. [x EXCEPT !.down = Tail(@)] \in ConnOf(f, c)
  BY <1>1 DEF ConnOf
<1>4. BeatsPast([x EXCEPT !.down = Tail(@)], t)
  BY <1>2 DEF BeatsPast, ConnOf
<1> QED
  BY <1>3, <1>4

\* The client sends one frame more.
LEMMA PutUp ==
  ASSUME NEW f, NEW c, NEW x \in ConnOf(f, c), NEW t \in Int, BeatsPast(x, t),
         NEW e \in UpOf(f, c), e.is = "heartbeat" => e.ping <= t + Skew[e.from]
  PROVE  /\ [x EXCEPT !.up = Append(@, e)] \in ConnOf(f, c)
         /\ BeatsPast([x EXCEPT !.up = Append(@, e)], t)
<1>1. x.up \in Seq(UpOf(f, c)) /\ Append(x.up, e) \in Seq(UpOf(f, c))
  BY DEF ConnOf
<1>2. \A i \in 1 .. Len(Append(x.up, e)) :
          Append(x.up, e)[i] = IF i = Len(x.up) + 1 THEN e ELSE x.up[i]
  BY <1>1
<1>3. \A i \in 1 .. Len(Append(x.up, e)) : i # Len(x.up) + 1 => i \in 1 .. Len(x.up)
  BY <1>1
<1>4. [x EXCEPT !.up = Append(@, e)] \in ConnOf(f, c)
  BY <1>1 DEF ConnOf
<1>5. BeatsPast([x EXCEPT !.up = Append(@, e)], t)
  BY <1>2, <1>3 DEF BeatsPast, ConnOf
<1> QED
  BY <1>4, <1>5

\* The server sends one frame more.
LEMMA PutDown ==
  ASSUME NEW f, NEW c, NEW x \in ConnOf(f, c), NEW t \in Int, BeatsPast(x, t),
         NEW e \in DownOf(f), e.is = "heartbeat" => e.ping <= e.pong + Skew[e.from]
  PROVE  /\ [x EXCEPT !.down = Append(@, e)] \in ConnOf(f, c)
         /\ BeatsPast([x EXCEPT !.down = Append(@, e)], t)
<1>1. x.down \in Seq(DownOf(f)) /\ Append(x.down, e) \in Seq(DownOf(f))
  BY DEF ConnOf
<1>2. \A i \in 1 .. Len(Append(x.down, e)) :
          Append(x.down, e)[i] = IF i = Len(x.down) + 1 THEN e ELSE x.down[i]
  BY <1>1
<1>3. \A i \in 1 .. Len(Append(x.down, e)) : i # Len(x.down) + 1 => i \in 1 .. Len(x.down)
  BY <1>1
<1>4. [x EXCEPT !.down = Append(@, e)] \in ConnOf(f, c)
  BY <1>1 DEF ConnOf
<1>5. BeatsPast([x EXCEPT !.down = Append(@, e)], t)
  BY <1>2, <1>3 DEF BeatsPast, ConnOf
<1> QED
  BY <1>4, <1>5

\* The client leaves: nothing is on its way to it.
LEMMA HangUp ==
  ASSUME NEW f, NEW c, NEW x \in ConnOf(f, c), NEW t \in Int, BeatsPast(x, t)
  PROVE  /\ [x EXCEPT !.peer = FALSE, !.down = <<>>] \in ConnOf(f, c)
         /\ BeatsPast([x EXCEPT !.peer = FALSE, !.down = <<>>], t)
<1>1. <<>> \in Seq(DownOf(f)) /\ Len(<<>>) = 0
  OBVIOUS
<1>2. [x EXCEPT !.peer = FALSE, !.down = <<>>] \in ConnOf(f, c)
  BY <1>1 DEF ConnOf
<1>3. BeatsPast([x EXCEPT !.peer = FALSE, !.down = <<>>], t)
  BY <1>1 DEF ConnOf, BeatsPast
<1> QED
  BY <1>2, <1>3

\* The data of the peer itself are stored.
LEMMA Registers ==
  ASSUME NEW f, NEW c, NEW x \in ConnOf(f, c), NEW t \in Int, BeatsPast(x, t)
  PROVE  [x EXCEPT !.info = c] \in ConnOf(f, c) /\ BeatsPast([x EXCEPT !.info = c], t)
  BY DEF ConnOf, BeatsPast

\* An open connection has a client, and what is at the head of its queues is what
\* the types say.
LEMMA OpenGood ==
  ASSUME Inv, NEW f \in Open
  PROVE  /\ f \in Fds
         /\ \E c \in Clients : conn[f] \in ConnOf(f, c) /\ BeatsPast(conn[f], now)
  BY DEF Inv, AllGood, Good, Open

\* What is known of the frame the server handles next.
LEMMA HeadUp ==
  ASSUME NEW f, NEW c, NEW x \in ConnOf(f, c), NEW t \in Int, BeatsPast(x, t), x.up # <<>>
  PROVE  /\ x.client = c /\ Head(x.up) \in UpOf(f, c)
         /\ Head(x.up).is = "heartbeat" => Head(x.up).ping <= t + Skew[Head(x.up).from]
<1>1. x.up \in Seq(UpOf(f, c)) /\ x.client = c
  BY DEF ConnOf
<1>2. Head(x.up) = x.up[1] /\ 1 \in 1 .. Len(x.up) /\ Head(x.up) \in UpOf(f, c)
  BY <1>1
<1> QED
  BY <1>1, <1>2 DEF BeatsPast

\* What is known of the frame the client handles next.
LEMMA HeadDown ==
  ASSUME NEW f, NEW c, NEW x \in ConnOf(f, c), NEW t \in Int, BeatsPast(x, t), x.down # <<>>
  PROVE  /\ x.client = c /\ x.loop \in Loops /\ Head(x.down) \in DownOf(f)
         /\ Head(x.down).is = "heartbeat" =>
                Head(x.down).ping <= Head(x.down).pong + Skew[Head(x.down).from]
<1>1. x.down \in Seq(DownOf(f)) /\ x.client = c /\ x.loop \in Loops
  BY DEF ConnOf
<1>2. Head(x.down) = x.down[1] /\ 1 \in 1 .. Len(x.down) /\ Head(x.down) \in DownOf(f)
  BY <1>1
<1> QED
  BY <1>1, <1>2 DEF BeatsPast

\* Every step that leaves the clock and the hung up alone keeps the invariant if it
\* keeps the connections good.
LEMMA KeepsInv ==
  ASSUME Inv, AllGood(conn', now), UNCHANGED <<now, hungUp>>
  PROVE  Inv'
  BY DEF Inv, OnlyAheadClocksHangUp

\* Nobody is connected.
LEMMA InitInv == Init => Inv
  BY ControlAssumption DEF Init, Inv, AllGood, Good, OnlyAheadClocksHangUp

\* The clock only makes what was sent older.
LEMMA TickInv == ASSUME Inv, Tick PROVE Inv'
<1>1. now \in Int /\ now' = now + 1 /\ conn' = conn /\ hungUp' = hungUp
  BY DEF Inv, Tick
<1>2. ASSUME NEW f \in Fds, NEW c \in Clients, conn[f] \in ConnOf(f, c),
             BeatsPast(conn[f], now)
      PROVE  BeatsPast(conn[f], now + 1)
  <2> SUFFICES ASSUME NEW i \in 1 .. Len(conn[f].up), conn[f].up[i].is = "heartbeat"
               PROVE  conn[f].up[i].ping <= now + 1 + Skew[conn[f].up[i].from]
    BY <1>2 DEF BeatsPast
  <2>1. conn[f].up[i] \in UpOf(f, c)
    BY <1>2 DEF ConnOf
  <2>2. conn[f].up[i].ping \in Int /\ Skew[conn[f].up[i].from] \in Int
    BY <2>1, ControlAssumption DEF UpOf, Beat
  <2>3. conn[f].up[i].ping <= now + Skew[conn[f].up[i].from]
    BY <1>2 DEF BeatsPast
  <2> QED
    BY <1>1, <2>2, <2>3
<1>3. AllGood(conn, now + 1)
  BY <1>2 DEF Inv, AllGood, Good
<1> QED
  BY <1>1, <1>3 DEF Inv, OnlyAheadClocksHangUp

\* netmt_accept: the new connection has nothing registered, and at most the PING on its way.
LEMMA AcceptInv == ASSUME Inv, NEW c \in Clients, NEW l \in Loops, Accept(c, l) PROVE Inv'
<1> DEFINE f == Min(Fds \ Open)
           x == [client |-> c, loop |-> l, peer |-> TRUE, info |-> "unknown",
                 up |-> IF l = 2 THEN <<[is |-> "ping"]>> ELSE <<>>, down |-> <<>>]
<1>1. conn' = [conn EXCEPT ![f] = x] /\ UNCHANGED <<now, hungUp>>
  BY DEF Accept
<1>2. [is |-> "ping"] \in UpOf(f, c)
  BY DEF UpOf
<1>3. x.up \in Seq(UpOf(f, c)) /\ x.down \in Seq(DownOf(f)) /\ Len(x.down) = 0
  <2>1. <<[is |-> "ping"]>> \in Seq(UpOf(f, c)) /\ <<>> \in Seq(UpOf(f, c))
    BY <1>2
  <2>2. <<>> \in Seq(DownOf(f)) /\ Len(<<>>) = 0
    OBVIOUS
  <2> QED
    BY <2>1, <2>2
<1>4. \A i \in 1 .. Len(x.up) : x.up[i].is = "ping"
  OBVIOUS
<1>5. x \in ConnOf(f, c)
  BY <1>3 DEF ConnOf
<1>6. BeatsPast(x, now)
  BY <1>3, <1>4 DEF BeatsPast
<1>7. AllGood(conn', now)
  BY <1>1, <1>5, <1>6, PutGood DEF Inv, Good
<1> QED
  BY <1>1, <1>7, KeepsInv

\* The frame at the head of a queue is consumed.
LEMMA TakenGood ==
  ASSUME Inv, NEW f \in Open, conn[f].up # <<>>
  PROVE  AllGood(Taken(f), now)
<1>1. PICK c \in Clients : conn[f] \in ConnOf(f, c) /\ BeatsPast(conn[f], now)
  BY OpenGood
<1> DEFINE y == [conn[f] EXCEPT !.up = Tail(@)]
<1>2. Good(f, y, now)
  BY <1>1, TakeUp DEF Good, Inv
<1>3. Taken(f) = [conn EXCEPT ![f] = y]
  BY OpenGood DEF Taken, Inv, AllGood
<1> HIDE DEF y
<1>4. AllGood([conn EXCEPT ![f] = y], now)
  BY <1>2, PutGood DEF Inv
<1> QED
  BY <1>3, <1>4

\* netmt_close of the client keeps all connections good.
LEMMA HungUpGood ==
  ASSUME Inv, NEW f \in Open
  PROVE  AllGood(HungUp(f), now)
<1>1. PICK c \in Clients : conn[f] \in ConnOf(f, c) /\ BeatsPast(conn[f], now)
  BY OpenGood
<1> DEFINE y == [conn[f] EXCEPT !.peer = FALSE, !.down = <<>>]
<1>2. Good(f, y, now)
  BY <1>1, HangUp DEF Good, Inv
<1>3. HungUp(f) = [conn EXCEPT ![f] = y]
  BY OpenGood DEF HungUp, Inv, AllGood
<1> HIDE DEF y
<1>4. AllGood([conn EXCEPT ![f] = y], now)
  BY <1>2, PutGood DEF Inv
<1> QED
  BY <1>3, <1>4

\* The four handlers of a frame that the server takes, and its close.
LEMMA ServerCloseInv == ASSUME Inv, NEW f \in Fds, ServerClose(f) PROVE Inv'
<1>1. conn' = [conn EXCEPT ![f] = None] /\ UNCHANGED <<now, hungUp>>
  BY DEF ServerClose, clientSide
<1>2. AllGood(conn', now)
  BY <1>1, PutGood DEF Inv, Good
<1> QED
  BY <1>1, <1>2, KeepsInv

\* case NETMT_PING of the server: one frame less.
LEMMA ServerPingInv == ASSUME Inv, NEW f \in Fds, ServerPing(f) PROVE Inv'
<1>1. f \in Open /\ conn[f].up # <<>> /\ conn' = Taken(f) /\ UNCHANGED <<now, hungUp>>
  BY DEF ServerPing, ServerTakes
<1> QED
  BY <1>1, TakenGood, KeepsInv

\* case NETMT_HEARTBEAT of the server: the answer is stamped with the present, and
\* goes to some connection, where an answer is good whoever it is for.
LEMMA ServerHeartbeatInv == ASSUME Inv, NEW f \in Fds, ServerHeartbeat(f) PROVE Inv'
<1> DEFINE beat == Head(conn[f].up)
           answer == [is |-> "heartbeat", from |-> beat.from, ping |-> beat.ping, pong |-> now]
           y == [Taken(f)[beat.fd] EXCEPT !.down = Append(@, answer)]
<1>1. /\ f \in Open /\ conn[f].up # <<>> /\ beat.is = "heartbeat" /\ UNCHANGED <<now, hungUp>>
      /\ \/ conn' = Taken(f)
         \/ beat.fd \in Open /\ conn' = [Taken(f) EXCEPT ![beat.fd].down = Append(@, answer)]
  BY DEF ServerHeartbeat, ServerTakes
<1>2. AllGood(Taken(f), now)
  BY <1>1, TakenGood
<1>3. CASE conn' = Taken(f)
  BY <1>1, <1>2, <1>3, KeepsInv
<1>4. CASE beat.fd \in Open /\ conn' = [Taken(f) EXCEPT ![beat.fd].down = Append(@, answer)]
  <2>1. PICK c \in Clients : conn[f] \in ConnOf(f, c) /\ BeatsPast(conn[f], now)
    BY <1>1, OpenGood
  <2>2. beat \in UpOf(f, c) /\ beat.ping <= now + Skew[beat.from]
    BY <1>1, <2>1, HeadUp DEF Inv
  <2>3. beat \in Beat /\ now \in Int
    BY <1>1, <2>2 DEF UpOf, Inv
  <2>4. answer \in DownOf(beat.fd) /\ answer.ping <= answer.pong + Skew[answer.from]
    BY <2>2, <2>3 DEF DownOf, Answer, Beat
  <2>5. Taken(f)[beat.fd] # None
    BY <1>1, <1>4, <2>1, OpenGood DEF Taken, Open, None, ConnOf, Inv, AllGood
  <2>6. beat.fd \in Fds /\ Good(beat.fd, Taken(f)[beat.fd], now)
    BY <1>2, <1>4 DEF AllGood, Open
  <2>7. PICK d \in Clients : /\ Taken(f)[beat.fd] \in ConnOf(beat.fd, d)
                             /\ BeatsPast(Taken(f)[beat.fd], now)
    BY <2>5, <2>6 DEF Good
  <2>8. conn' = [Taken(f) EXCEPT ![beat.fd] = y]
    BY <1>4
  <2> HIDE DEF beat, answer
  <2>9. Good(beat.fd, y, now)
    BY <2>3, <2>4, <2>7, PutDown DEF Good
  <2> HIDE DEF y
  <2>10. AllGood(conn', now)
    BY <1>2, <2>8, <2>9, PutGood
  <2> QED
    BY <1>1, <2>10, KeepsInv
<1> QED
  BY <1>1, <1>3, <1>4

\* case NETMT_REGISTER of the server: the fd in the frame is the one it came by.
LEMMA ServerRegisterInv == ASSUME Inv, NEW f \in Fds, ServerRegister(f) PROVE Inv'
<1> DEFINE frame == Head(conn[f].up)
           y == [Taken(f)[f] EXCEPT !.info = frame.info]
<1>1. /\ f \in Open /\ conn[f].up # <<>> /\ frame.is = "register" /\ UNCHANGED <<now, hungUp>>
      /\ frame.fd \in Open => conn' = [Taken(f) EXCEPT ![frame.fd].info = frame.info]
  BY DEF ServerRegister, ServerTakes, clientSide
<1>2. PICK c \in Clients : conn[f] \in ConnOf(f, c) /\ BeatsPast(conn[f], now)
  BY <1>1, OpenGood
<1>3. frame \in UpOf(f, c)
  BY <1>1, <1>2, HeadUp DEF Inv
<1>4. frame.fd = f /\ frame.info = c
  BY <1>1, <1>3 DEF UpOf, Beat
<1>5. Taken(f)[f] = [conn[f] EXCEPT !.up = Tail(@)]
  BY <1>1, OpenGood DEF Taken, Inv, AllGood
<1>6. Taken(f)[f] \in ConnOf(f, c) /\ BeatsPast(Taken(f)[f], now)
  <2>1. /\ [conn[f] EXCEPT !.up = Tail(@)] \in ConnOf(f, c)
        /\ BeatsPast([conn[f] EXCEPT !.up = Tail(@)], now)
    BY <1>1, <1>2, TakeUp DEF Inv
  <2> QED
    BY <1>5, <2>1
<1>7. Good(f, y, now)
  BY <1>2, <1>4, <1>6, Registers DEF Good, Inv
<1>8. conn' = [Taken(f) EXCEPT ![f] = y]
  BY <1>1, <1>4
<1> HIDE DEF y, frame
<1>9. AllGood(conn', now)
  BY <1>1, <1>7, <1>8, TakenGood, PutGood
<1> QED
  BY <1>1, <1>9, KeepsInv

\* register: the frame is written to the connection whose fd it carries.
LEMMA RegisterVisitsInv == ASSUME Inv, RegisterVisits PROVE Inv'
<1> DEFINE f == Head(vty.walk)
           e == [is |-> "register", fd |-> f]
           y == [conn[f] EXCEPT !.down = Append(@, e)]
<1>1. /\ UNCHANGED <<now, hungUp>>
      /\ \/ conn' = conn
         \/ f \in Open /\ conn' = [conn EXCEPT ![f] = y]
  <2>1. /\ UNCHANGED <<now, hungUp>>
        /\ conn' = IF f \in Open /\ conn[f].peer
                   THEN [conn EXCEPT ![f].down = Append(@, e)] ELSE conn
    BY DEF RegisterVisits
  <2> HIDE DEF f, e
  <2>2. [conn EXCEPT ![f].down = Append(@, e)] = [conn EXCEPT ![f] = y]
    OBVIOUS
  <2> QED
    BY <2>1, <2>2
<1>2. CASE conn' = conn
  BY <1>1, <1>2, KeepsInv DEF Inv
<1>3. CASE f \in Open /\ conn' = [conn EXCEPT ![f] = y]
  <2>1. PICK c \in Clients : conn[f] \in ConnOf(f, c) /\ BeatsPast(conn[f], now)
    BY <1>3, OpenGood
  <2>2. e \in DownOf(f) /\ e.is # "heartbeat"
    BY DEF DownOf
  <2> HIDE DEF f, e
  <2>3. Good(f, y, now)
    BY <2>1, <2>2, PutDown DEF Good, Inv
  <2> HIDE DEF y
  <2>4. AllGood(conn', now)
    BY <1>3, <2>3, PutGood DEF Inv
  <2> QED
    BY <1>1, <2>4, KeepsInv
<1> QED
  BY <1>1, <1>2, <1>3

\* send_heartbeat: the time in it is the client's present.
LEMMA SendHeartbeatInv == ASSUME Inv, NEW f \in Fds, SendHeartbeat(f) PROVE Inv'
<1> DEFINE e == [is |-> "heartbeat", from |-> conn[f].client, ping |-> ClockOf(conn[f].client),
                 fd |-> ClientFd[conn[f].loop]]
           y == [conn[f] EXCEPT !.up = Append(@, e)]
<1>1. f \in Open /\ conn' = [conn EXCEPT ![f] = y] /\ UNCHANGED <<now, hungUp>>
  BY DEF SendHeartbeat
<1>2. PICK c \in Clients : conn[f] \in ConnOf(f, c) /\ BeatsPast(conn[f], now)
  BY <1>1, OpenGood
<1>3. conn[f].client = c /\ conn[f].loop \in Loops
  BY <1>2 DEF ConnOf
<1>4. Skew[c] \in Int /\ ClientFd[conn[f].loop] \in Nat /\ now + Skew[c] \in Int
  BY <1>3, ControlAssumption DEF Inv
<1>5. e \in UpOf(f, c) /\ e.ping <= now + Skew[e.from]
  BY <1>2, <1>3, <1>4 DEF UpOf, Beat, ClockOf
<1> HIDE DEF e
<1>6. Good(f, y, now)
  BY <1>2, <1>5, PutUp DEF Good, Inv
<1> HIDE DEF y
<1>7. AllGood(conn', now)
  BY <1>1, <1>6, PutGood DEF Inv
<1> QED
  BY <1>1, <1>7, KeepsInv

\* The handlers of the client, and the ways it has to end a connection.
LEMMA ClientRegisterInv == ASSUME Inv, NEW f \in Fds, ClientRegister(f) PROVE Inv'
<1> DEFINE e == [is |-> "register", fd |-> Head(conn[f].down).fd, info |-> conn[f].client]
           x == [conn[f] EXCEPT !.down = Tail(@)]
           y == [x EXCEPT !.up = Append(@, e)]
<1>1. /\ f \in Open /\ conn[f].down # <<>> /\ Head(conn[f].down).is = "register"
      /\ conn' = [conn EXCEPT ![f].down = Tail(@), ![f].up = Append(@, e)]
      /\ UNCHANGED <<now, hungUp>>
  BY DEF ClientRegister, ClientTakes
<1>2. PICK c \in Clients : conn[f] \in ConnOf(f, c) /\ BeatsPast(conn[f], now)
  BY <1>1, OpenGood
<1>3. Head(conn[f].down) \in DownOf(f) /\ conn[f].client = c
  BY <1>1, <1>2, HeadDown DEF Inv
<1>4. e \in UpOf(f, c) /\ e.is # "heartbeat"
  BY <1>1, <1>3 DEF UpOf, DownOf, Answer
<1>5. x \in ConnOf(f, c) /\ BeatsPast(x, now)
  BY <1>1, <1>2, TakeDown DEF Inv
<1>6. conn' = [conn EXCEPT ![f] = y]
  BY <1>1, OpenGood DEF Inv, AllGood
<1> HIDE DEF e, x
<1>7. Good(f, y, now)
  BY <1>2, <1>4, <1>5, PutUp DEF Good, Inv
<1> HIDE DEF y
<1>8. AllGood(conn', now)
  BY <1>6, <1>7, PutGood DEF Inv
<1> QED
  BY <1>1, <1>8, KeepsInv

\* case NETMT_HEARTBEAT of the client, answered in time.
LEMMA ClientHeartbeatInv == ASSUME Inv, NEW f \in Fds, ClientHeartbeat(f) PROVE Inv'
<1> DEFINE y == [conn[f] EXCEPT !.down = Tail(@)]
<1>1. /\ f \in Open /\ conn[f].down # <<>> /\ conn' = [conn EXCEPT ![f] = y]
      /\ UNCHANGED <<now, hungUp>>
  BY DEF ClientHeartbeat, ClientTakes
<1>2. PICK c \in Clients : conn[f] \in ConnOf(f, c) /\ BeatsPast(conn[f], now)
  BY <1>1, OpenGood
<1>3. Good(f, y, now)
  BY <1>1, <1>2, TakeDown DEF Good, Inv
<1> HIDE DEF y
<1>4. AllGood(conn', now)
  BY <1>1, <1>3, PutGood DEF Inv
<1> QED
  BY <1>1, <1>4, KeepsInv

\* An answer that is older than its heartbeat: the clock it was sent by is ahead.
LEMMA ClientTimesOutInv == ASSUME Inv, NEW f \in Fds, ClientTimesOut(f) PROVE Inv'
<1> DEFINE answer == Head(conn[f].down)
<1>1. /\ f \in Open /\ conn[f].down # <<>> /\ answer.is = "heartbeat"
      /\ answer.pong < answer.ping /\ conn' = HungUp(f) /\ now' = now
      /\ hungUp' = hungUp \cup {<<conn[f].client, answer.from>>}
  BY DEF ClientTimesOut, ClientTakes
<1>2. AllGood(conn', now)
  BY <1>1, HungUpGood
<1>3. PICK c \in Clients : conn[f] \in ConnOf(f, c) /\ BeatsPast(conn[f], now)
  BY <1>1, OpenGood
<1>4. answer \in DownOf(f) /\ answer.ping <= answer.pong + Skew[answer.from]
  BY <1>1, <1>3, HeadDown DEF Inv
<1>5. answer.from \in Clients /\ answer.ping \in Int /\ answer.pong \in Int
  BY <1>1, <1>4 DEF DownOf, Answer
<1>6. Skew[answer.from] \in Int /\ answer.pong < answer.ping
  BY <1>1, <1>5, ControlAssumption
<1> HIDE DEF answer
<1>7. Skew[answer.from] > 0
  BY <1>4, <1>5, <1>6
<1>8. OnlyAheadClocksHangUp'
  BY <1>1, <1>7 DEF OnlyAheadClocksHangUp, Inv
<1> QED
  BY <1>1, <1>2, <1>8 DEF Inv

\* A client's loop ends, and its connection with it.
LEMMA QuitInv == ASSUME Inv, NEW c \in Clients, NEW l \in Loops, Quit(c, l) PROVE Inv'
<1>1. /\ conn' = [f \in Fds |-> IF Connected(f, c, l) THEN HungUp(f)[f] ELSE conn[f]]
      /\ UNCHANGED <<now, hungUp>>
  BY DEF Quit
<1>2. \A f \in Fds : Connected(f, c, l) => Good(f, HungUp(f)[f], now)
  BY HungUpGood DEF Connected, AllGood
<1>3. AllGood(conn', now)
  BY <1>1, <1>2 DEF AllGood, Inv
<1> QED
  BY <1>1, <1>3, KeepsInv

\* A connection breaks.
LEMMA BreaksInv == ASSUME Inv, NEW f \in Fds, Breaks(f) PROVE Inv'
<1>1. f \in Open /\ conn' = HungUp(f) /\ UNCHANGED <<now, hungUp>>
  BY DEF Breaks
<1> QED
  BY <1>1, HungUpGood, KeepsInv

\* The server crashes, with no connection left, or loses its listener.
LEMMA AcceptMisplacedInv == ASSUME Inv, AcceptMisplaced PROVE Inv'
<1>1. /\ conn' = conn \/ conn' = [f \in Fds |-> None]
      /\ UNCHANGED <<now, hungUp>>
  BY DEF AcceptMisplaced
<1>2. AllGood(conn', now)
  BY <1>1 DEF Inv, AllGood, Good
<1> QED
  BY <1>1, <1>2, KeepsInv

\* Every step keeps the invariant.
LEMMA NextInv == ASSUME Inv, [Next]_vars PROVE Inv'
<1>1. CASE UNCHANGED vars
  BY <1>1, KeepsInv DEF vars, Inv
<1>2. CASE RegisterBegins \/ RegisterEnds \/ \E c \in Clients : Ping(c) \/ ClientPing(c)
  <2>1. UNCHANGED <<conn, now, hungUp>>
    BY <1>2 DEF RegisterBegins, RegisterEnds, Ping, ClientPing
  <2> QED
    BY <2>1, KeepsInv DEF Inv
<1>3. CASE Tick
  BY <1>3, TickInv
<1>4. CASE AcceptMisplaced
  BY <1>4, AcceptMisplacedInv
<1>5. CASE RegisterVisits
  BY <1>5, RegisterVisitsInv
<1>6. ASSUME NEW c \in Clients, NEW l \in Loops, Accept(c, l) \/ Quit(c, l) PROVE Inv'
  BY <1>6, AcceptInv, QuitInv
<1>7. ASSUME NEW f \in Fds,
             \/ ServerClose(f) \/ ServerPing(f) \/ ServerHeartbeat(f) \/ ServerRegister(f)
      PROVE  Inv'
  BY <1>7, ServerCloseInv, ServerPingInv, ServerHeartbeatInv, ServerRegisterInv
<1>8. ASSUME NEW f \in Fds,
             \/ SendHeartbeat(f) \/ ClientRegister(f) \/ ClientHeartbeat(f)
             \/ ClientTimesOut(f) \/ Breaks(f)
      PROVE  Inv'
  BY <1>8, SendHeartbeatInv, ClientRegisterInv, ClientHeartbeatInv, ClientTimesOutInv, BreaksInv
<1> QED
  BY <1>1, <1>2, <1>3, <1>4, <1>5, <1>6, <1>7, <1>8 DEF Next

\* The fds and clocks on their way are always those of Inv.
THEOREM ControlInvariance == Spec => []Inv
<1>1. Inv /\ [Next]_vars => Inv'
  BY NextInv
<1> QED
  BY InitInv, <1>1, PTL DEF Spec

\* What netmtclient of an io_t says is what the client at its other end registered.
THEOREM RegistrationIsOwn == Spec => []OwnRegistration
<1>1. Inv => OwnRegistration
  BY DEF Inv, AllGood, Good, ConnOf, OwnRegistration, Open
<1> QED
  BY <1>1, ControlInvariance, PTL

\* Only a clock that is ahead of the server's makes a client hang up over an answer.
THEOREM HungUpByAheadClocks == Spec => []OnlyAheadClocksHangUp
<1>1. Inv => OnlyAheadClocksHangUp
  BY DEF Inv
<1> QED
  BY <1>1, ControlInvariance, PTL
-----------------------------------------------------------------------------
(***************************************************************************)
(* The types: the list of clients is the open connections, and a client's  *)
(* socket is open exactly when one connection is its other end.            *)
(***************************************************************************)

\* A set of numbers has a least one, which is what accept() returns.
LEMMA LeastIsIn ==
  ASSUME NEW S, S \subseteq Nat, S # {}
  PROVE  Min(S) \in S
<1>1. PICK x \in S : \A y \in S : ~ (<<y, x>> \in OpToRel(<, Nat))
  BY NatLessThanWellFounded, WFMin, Zenon
<1>2. ASSUME NEW y \in S PROVE x <= y
  <2>1. x \in Nat /\ y \in Nat
    OBVIOUS
  <2>2. <<y, x>> \notin OpToRel(<, Nat)
    BY <1>1
  <2>3. ~ (y < x)
    BY <2>1, <2>2 DEF OpToRel
  <2> QED
    BY <2>1, <2>3
<1>3. \E z \in S : \A y \in S : z =< y
  BY <1>2
<1> QED
  BY <1>3 DEF Min

\* Where the one place of e is.
LEMMA OnePlace ==
  ASSUME NEW s, s \in Seq(Fds), IsInjective(s), NEW i \in 1 .. Len(s)
  PROVE  SelectInSeq(s, LAMBDA v : v = s[i]) = i
<1>1. {j \in 1 .. Len(s) : s[j] = s[i]} = {i}
  BY DEF IsInjective
<1>2. Min({i}) = i
  <2>1. {i} \subseteq Nat /\ {i} # {}
    OBVIOUS
  <2>2. Min({i}) \in {i}
    BY <2>1, LeastIsIn
  <2> QED
    BY <2>2
<1> QED
  BY <1>1, <1>2 DEF SelectInSeq

\* A list in which nothing is twice loses what list_del takes out, and only that.
LEMMA OneRemoved ==
  ASSUME NEW s, s \in Seq(Fds), IsInjective(s), NEW e
  PROVE  /\ RemoveFirst(s, e) \in Seq(Fds)
         /\ IsInjective(RemoveFirst(s, e))
         /\ ToSet(RemoveFirst(s, e)) = ToSet(s) \ {e}
<1>1. CASE ~ \E i \in 1 .. Len(s) : s[i] = e
  <2>1. RemoveFirst(s, e) = s
    BY <1>1 DEF RemoveFirst
  <2>2. DOMAIN s = 1 .. Len(s)
    OBVIOUS
  <2> QED
    BY <1>1, <2>1, <2>2 DEF ToSet
<1>2. CASE \E i \in 1 .. Len(s) : s[i] = e
  <2>1. PICK i \in 1 .. Len(s) : s[i] = e
    BY <1>2
  <2> DEFINE p == SubSeq(s, 1, i - 1)
             q == SubSeq(s, i + 1, Len(s))
             r == p \o q
  <2>2. RemoveFirst(s, e) = r
    <3>1. SelectInSeq(s, LAMBDA v : v = s[i]) = i
      BY OnePlace
    <3>2. SelectInSeq(s, LAMBDA v : v = e) = i
      BY <2>1, <3>1
    <3> QED
      BY <1>2, <3>2 DEF RemoveFirst, RemoveAt
  <2>3. p \in Seq(Fds) /\ Len(p) = i - 1 /\ \A j \in 1 .. i - 1 : p[j] = s[j]
    OBVIOUS
  <2>4. q \in Seq(Fds) /\ Len(q) = Len(s) - i /\ \A j \in 1 .. Len(s) - i : q[j] = s[i + j]
    OBVIOUS
  <2> HIDE DEF p, q
  <2>5. /\ r \in Seq(Fds) /\ Len(r) = Len(p) + Len(q)
        /\ \A j \in 1 .. Len(p) + Len(q) : r[j] = IF j <= Len(p) THEN p[j] ELSE q[j - Len(p)]
    BY <2>3, <2>4, ConcatProperties, Zenon
  <2> HIDE DEF r
  <2>6. r \in Seq(Fds) /\ Len(r) = Len(s) - 1
    BY <2>3, <2>4, <2>5
  <2>7. \A j \in 1 .. Len(s) - 1 : r[j] = IF j < i THEN s[j] ELSE s[j + 1]
    <3> TAKE j \in 1 .. Len(s) - 1
    <3>1. r[j] = IF j <= Len(p) THEN p[j] ELSE q[j - Len(p)]
      BY <2>3, <2>4, <2>5
    <3>2. CASE j < i
      BY <2>3, <3>1, <3>2
    <3>3. CASE j >= i
      <4>1. j - (i - 1) \in 1 .. Len(s) - i /\ i + (j - (i - 1)) = j + 1
        BY <3>3
      <4>2. q[j - (i - 1)] = s[j + 1]
        BY <2>4, <4>1
      <4> QED
        BY <2>3, <3>1, <3>3, <4>2
    <3> QED
      BY <3>2, <3>3
  <2>8. IsInjective(r)
    <3> SUFFICES ASSUME NEW j \in 1 .. Len(s) - 1, NEW k \in 1 .. Len(s) - 1, r[j] = r[k]
                 PROVE  j = k
      BY <2>6 DEF IsInjective
    <3> DEFINE jj == IF j < i THEN j ELSE j + 1
               kk == IF k < i THEN k ELSE k + 1
    <3>1. jj \in 1 .. Len(s) /\ kk \in 1 .. Len(s) /\ s[jj] = s[kk]
      BY <2>7
    <3>2. jj = kk
      BY <3>1 DEF IsInjective
    <3> QED
      BY <3>2
  <2>9. ASSUME NEW v \in ToSet(r) PROVE v \in ToSet(s) /\ v # e
    <3>1. PICK j \in 1 .. Len(s) - 1 : v = r[j]
      BY <2>6, <2>9 DEF ToSet
    <3>2. PICK k \in 1 .. Len(s) : v = s[k] /\ k # i
      BY <2>7, <3>1
    <3> QED
      BY <2>1, <3>2 DEF ToSet, IsInjective
  <2>10. ASSUME NEW v \in ToSet(s), v # e PROVE v \in ToSet(r)
    <3>1. PICK k \in 1 .. Len(s) : v = s[k]
      BY <2>10 DEF ToSet
    <3>2. k # i
      BY <2>1, <2>10, <3>1
    <3>3. PICK j \in 1 .. Len(s) - 1 : r[j] = v
      <4>1. CASE k < i
        BY <2>7, <3>1, <4>1
      <4>2. CASE k > i
        <5>1. k - 1 \in 1 .. Len(s) - 1 /\ ~ (k - 1 < i) /\ (k - 1) + 1 = k
          BY <4>2
        <5> QED
          BY <2>7, <3>1, <5>1
      <4> QED
        BY <3>2, <4>1, <4>2
    <3> QED
      BY <2>6, <3>3 DEF ToSet
  <2> QED
    BY <2>2, <2>6, <2>8, <2>9, <2>10
<1> QED
  BY <1>1, <1>2

\* A walk goes on without its first.
LEMMA TailInjective ==
  ASSUME NEW s, s \in Seq(Fds), IsInjective(s), s # <<>>
  PROVE  Tail(s) \in Seq(Fds) /\ IsInjective(Tail(s)) /\ ToSet(Tail(s)) \subseteq ToSet(s)
<1>1. /\ Tail(s) \in Seq(Fds) /\ Len(Tail(s)) = Len(s) - 1
      /\ \A i \in 1 .. Len(Tail(s)) : Tail(s)[i] = s[i + 1] /\ i + 1 \in 1 .. Len(s)
  OBVIOUS
<1> QED
  BY <1>1 DEF IsInjective, ToSet

\* list_add puts the new client first.
LEMMA AddedInjective ==
  ASSUME NEW s, s \in Seq(Fds), IsInjective(s), NEW f \in Fds, f \notin ToSet(s)
  PROVE  /\ <<f>> \o s \in Seq(Fds) /\ IsInjective(<<f>> \o s)
         /\ ToSet(<<f>> \o s) = ToSet(s) \cup {f}
<1> DEFINE r == <<f>> \o s
<1>1. /\ r \in Seq(Fds) /\ Len(r) = Len(s) + 1 /\ r[1] = f
      /\ \A i \in 2 .. Len(s) + 1 : r[i] = s[i - 1] /\ i - 1 \in 1 .. Len(s)
  OBVIOUS
<1> HIDE DEF r
<1>2. \A i \in 1 .. Len(s) : s[i] # f /\ r[i + 1] = s[i]
  BY <1>1 DEF ToSet
<1>3. IsInjective(r)
  <2> SUFFICES ASSUME NEW i \in 1 .. Len(s) + 1, NEW j \in 1 .. Len(s) + 1, r[i] = r[j]
               PROVE  i = j
    BY <1>1 DEF IsInjective
  <2>1. CASE i = 1 \/ j = 1
    BY <1>1, <1>2, <2>1
  <2>2. CASE i # 1 /\ j # 1
    BY <1>1, <2>2 DEF IsInjective
  <2> QED
    BY <2>1, <2>2
<1>4. ToSet(r) = ToSet(s) \cup {f}
  <2>1. ASSUME NEW v \in ToSet(r) PROVE v \in ToSet(s) \cup {f}
    <3>1. PICK i \in 1 .. Len(s) + 1 : v = r[i]
      BY <1>1, <2>1 DEF ToSet
    <3>2. CASE i = 1
      BY <1>1, <3>1, <3>2
    <3>3. CASE i # 1
      BY <1>1, <3>1, <3>3 DEF ToSet
    <3> QED
      BY <3>2, <3>3
  <2>2. ASSUME NEW v \in ToSet(s) \cup {f} PROVE v \in ToSet(r)
    <3>1. CASE v = f
      BY <1>1, <3>1 DEF ToSet
    <3>2. CASE v \in ToSet(s)
      <4>1. PICK i \in 1 .. Len(s) : v = s[i]
        BY <3>2 DEF ToSet
      <4>2. v = r[i + 1] /\ i + 1 \in 1 .. Len(r)
        BY <1>1, <1>2, <4>1
      <4> QED
        BY <1>1, <4>2 DEF ToSet
    <3> QED
      BY <2>2, <3>1, <3>2
  <2> QED
    BY <2>1, <2>2
<1> QED
  BY <1>1, <1>3, <1>4 DEF r

-----------------------------------------------------------------------------
\* The connections of a client's loop that are not closed at its end.
Ends(cn, c, l) ==
    {f \in Fds : cn[f] # None /\ cn[f].client = c /\ cn[f].loop = l /\ cn[f].peer}

OneEach(cn, sk) ==
    \A c \in Clients, l \in Loops :
        IF sk[c][l] = "open" THEN \E f : Ends(cn, c, l) = {f} ELSE Ends(cn, c, l) = {}

Listed(open, list, walk) ==
    /\ list \in Seq(Fds) /\ IsInjective(list) /\ ToSet(list) = open
    /\ walk \in Seq(Fds) /\ IsInjective(walk) /\ ToSet(walk) \subseteq open

Waits(sk, js) == \A c \in Clients : sk[c][2] # "off" => c \in js

Words ==
    /\ now \in StartTime .. MaxTime /\ server \in {"up", "crashed", "deaf"}
    /\ listenio \in {"normal", "pointer"} /\ commonid \in {"zero", "register"}
    /\ vty \in [at : {"idle", "walk"}, walk : Seq(Fds), told : {"nothing", "success", "fail"}]
    /\ sock \in [Clients -> [Loops -> {"off", "connecting", "open"}]]

\* Inductive beside Inv.  A walk of the vty thread has each client once, or the
\* close of one would leave it there.
TypeInv ==
    /\ Words
    /\ Listed(Open, clients, vty.walk)
    /\ OneEach(conn, sock)
    /\ Waits(sock, joins)

\* A record of a connection that only handled or sent frames.
Like(x, y) ==
    /\ x = None <=> y = None
    /\ x # None => y.client = x.client /\ y.loop = x.loop /\ y.peer = x.peer

\* Frames leave who is connected as it was.
LEMMA FramesLike ==
  ASSUME NEW f, NEW c, NEW x \in ConnOf(f, c), NEW v
  PROVE  /\ Like(x, [x EXCEPT !.up = v]) /\ Like(x, [x EXCEPT !.down = v])
         /\ Like(x, [x EXCEPT !.info = v]) /\ x # None
<1>1. /\ x # None /\ [x EXCEPT !.up = v] # None
      /\ [x EXCEPT !.down = v] # None /\ [x EXCEPT !.info = v] # None
  <2>1. /\ "loop" \in DOMAIN x /\ "loop" \in DOMAIN [x EXCEPT !.up = v]
        /\ "loop" \in DOMAIN [x EXCEPT !.down = v] /\ "loop" \in DOMAIN [x EXCEPT !.info = v]
    BY DEF ConnOf
  <2>2. "loop" \notin DOMAIN None
    BY DEF None
  <2> QED
    BY <2>1, <2>2
<1>2. /\ [x EXCEPT !.up = v].client = x.client /\ [x EXCEPT !.up = v].loop = x.loop
      /\ [x EXCEPT !.up = v].peer = x.peer
      /\ [x EXCEPT !.down = v].client = x.client /\ [x EXCEPT !.down = v].loop = x.loop
      /\ [x EXCEPT !.down = v].peer = x.peer
      /\ [x EXCEPT !.info = v].client = x.client /\ [x EXCEPT !.info = v].loop = x.loop
      /\ [x EXCEPT !.info = v].peer = x.peer
  BY DEF ConnOf
<1> QED
  BY <1>1, <1>2 DEF Like

\* One connection sends or handles a frame.
LEMMA PutLike ==
  ASSUME NEW cn, cn = [f \in Fds |-> cn[f]], NEW f \in Fds, NEW y, Like(cn[f], y)
  PROVE  \A g \in Fds : Like(cn[g], [cn EXCEPT ![f] = y][g])
  BY DEF Like

\* Two times.
LEMMA LikeTwice ==
  ASSUME NEW x, NEW y, NEW z, Like(x, y), Like(y, z)
  PROVE  Like(x, z)
  BY DEF Like

\* What holds of the list and the sockets goes on holding when only frames move.
LEMMA FramesTypes ==
  ASSUME TypeInv, \A f \in Fds : Like(conn[f], conn'[f]), UNCHANGED <<clients, vty, sock, joins>>,
         UNCHANGED <<now, server>>, listenio' \in {"normal", "pointer"},
         commonid' \in {"zero", "register"}
  PROVE  TypeInv'
<1>1. Words'
  BY DEF TypeInv, Words
<1>2. Open' = Open
  BY DEF Open, Like
<1>3. \A c \in Clients, l \in Loops : Ends(conn', c, l) = Ends(conn, c, l)
  BY DEF Ends, Like
<1>4. OneEach(conn, sock)'
  BY <1>3 DEF OneEach, TypeInv
<1> QED
  BY <1>1, <1>2, <1>4 DEF TypeInv

\* No connections, nothing on the list.
LEMMA NoOne ==
  ASSUME NEW cn, \A f \in Fds : cn[f] = None
  PROVE  /\ {f \in Fds : cn[f] # None} = {}
         /\ \A c \in Clients, l \in Loops : Ends(cn, c, l) = {}
         /\ Listed({}, <<>>, <<>>)
<1>1. <<>> \in Seq(Fds) /\ DOMAIN <<>> = {}
  OBVIOUS
<1>2. IsInjective(<<>>) /\ ToSet(<<>>) = {}
  BY <1>1 DEF IsInjective, ToSet
<1> QED
  BY <1>1, <1>2 DEF Ends, Listed

\* At the start nobody is connected, and main's loops are on their way.
LEMMA InitTypes == Init => TypeInv
<1> SUFFICES ASSUME Init PROVE TypeInv
  OBVIOUS
<1>1. /\ now = StartTime /\ server = "up" /\ listenio = "normal" /\ commonid = "zero"
      /\ conn = [f \in Fds |-> None] /\ clients = <<>>
      /\ vty = [at |-> "idle", walk |-> <<>>, told |-> "nothing"]
      /\ sock = [c \in Clients |-> [l \in Loops |-> IF l = 1 THEN "connecting" ELSE "off"]]
  BY DEF Init
<1>2. <<>> \in Seq(Fds) /\ StartTime \in StartTime .. MaxTime
  BY ControlAssumption
<1>3. Words
  BY <1>1, <1>2 DEF Words
<1>4. \A f \in Fds : conn[f] = None
  BY <1>1
<1>5. Listed(Open, clients, vty.walk)
  BY <1>1, <1>4, NoOne DEF Open
<1>6. OneEach(conn, sock)
  <2>1. \A c \in Clients, l \in Loops : Ends(conn, c, l) = {}
    BY <1>4, NoOne
  <2>2. \A c \in Clients, l \in Loops : sock[c][l] # "open"
    BY <1>1
  <2> QED
    BY <2>1, <2>2 DEF OneEach
<1>7. Waits(sock, joins)
  BY <1>1 DEF Waits, Loops
<1> QED
  BY <1>3, <1>5, <1>6, <1>7 DEF TypeInv

\* netmt_accept: the client whose socket connected had no connection of that loop.
LEMMA AcceptTypes ==
  ASSUME Inv, TypeInv, NEW c \in Clients, NEW l \in Loops, Accept(c, l) PROVE TypeInv'
<1> DEFINE f == Min(Fds \ Open)
           x == [client |-> c, loop |-> l, peer |-> TRUE, info |-> "unknown",
                 up |-> IF l = 2 THEN <<[is |-> "ping"]>> ELSE <<>>, down |-> <<>>]
<1>1. /\ conn' = [conn EXCEPT ![f] = x] /\ clients' = <<f>> \o clients
      /\ sock' = [sock EXCEPT ![c][l] = "open"] /\ sock[c][l] = "connecting" /\ Open # Fds
      /\ UNCHANGED <<now, server, listenio, commonid, vty, joins>>
  BY DEF Accept, vtySide
<1>2. f \in Fds /\ f \notin Open
  <2>1. Fds \ Open \subseteq Nat /\ Fds \ Open # {}
    BY <1>1, ControlAssumption DEF Fds, Open
  <2> QED
    BY <2>1, LeastIsIn
<1>3. x # None /\ x.client = c /\ x.loop = l /\ x.peer
  <2>1. "loop" \in DOMAIN x /\ "loop" \notin DOMAIN None
    BY DEF None
  <2> QED
    BY <2>1
<1> HIDE DEF f, x
<1>4. conn = [g \in Fds |-> conn[g]]
  BY DEF Inv, AllGood
<1>5. \A g \in Fds : conn'[g] = IF g = f THEN x ELSE conn[g]
  BY <1>1, <1>4
<1>6. Open' = Open \cup {f}
  BY <1>2, <1>3, <1>5 DEF Open
<1>7. Words'
  BY <1>1 DEF TypeInv, Words
<1>8. Listed(Open, clients, vty.walk)'
  <2>1. /\ clients \in Seq(Fds) /\ IsInjective(clients) /\ ToSet(clients) = Open
        /\ vty.walk \in Seq(Fds) /\ IsInjective(vty.walk) /\ ToSet(vty.walk) \subseteq Open
    BY DEF TypeInv, Listed
  <2>2. /\ <<f>> \o clients \in Seq(Fds) /\ IsInjective(<<f>> \o clients)
        /\ ToSet(<<f>> \o clients) = Open \cup {f}
    BY <1>2, <2>1, AddedInjective
  <2> QED
    BY <1>1, <1>6, <2>1, <2>2 DEF Listed
<1>9. OneEach(conn, sock)'
  <2>1. \A d \in Clients, m \in Loops :
            sock'[d][m] = IF d = c /\ m = l THEN "open" ELSE sock[d][m]
    BY <1>1 DEF TypeInv, Words
  <2>2. Ends(conn, c, l) = {}
    BY <1>1 DEF TypeInv, OneEach
  <2>3. Ends(conn', c, l) = {f}
    BY <1>2, <1>3, <1>5, <2>2 DEF Ends
  <2>4. ASSUME NEW d \in Clients, NEW m \in Loops, d # c \/ m # l
        PROVE  Ends(conn', d, m) = Ends(conn, d, m)
    BY <1>2, <1>3, <1>5, <2>4 DEF Ends, Open
  <2>5. ASSUME NEW d \in Clients, NEW m \in Loops
        PROVE  IF sock'[d][m] = "open" THEN \E g : Ends(conn', d, m) = {g}
               ELSE Ends(conn', d, m) = {}
    <3>1. CASE d = c /\ m = l
      BY <2>1, <2>3, <3>1
    <3>2. CASE ~ (d = c /\ m = l)
      <4>1. sock'[d][m] = sock[d][m] /\ Ends(conn', d, m) = Ends(conn, d, m)
        BY <2>1, <2>4, <3>2
      <4> QED
        BY <4>1 DEF TypeInv, OneEach
    <3> QED
      BY <3>1, <3>2
  <2> QED
    BY <2>5 DEF OneEach
<1>10. Waits(sock, joins)'
  <2>1. \A d \in Clients : sock'[d][2] # "off" => sock[d][2] # "off"
    BY <1>1 DEF TypeInv, Words, Loops
  <2> QED
    BY <1>1, <2>1 DEF TypeInv, Waits
<1> QED
  BY <1>7, <1>8, <1>9, <1>10 DEF TypeInv

\* The fault ends every connection, and every client's sockets with it.
LEMMA AcceptMisplacedTypes == ASSUME Inv, TypeInv, AcceptMisplaced PROVE TypeInv'
<1>1. UNCHANGED <<now, listenio, commonid, joins>>
  BY DEF AcceptMisplaced
<1>2. CASE /\ server' = "crashed"
           /\ conn' = [f \in Fds |-> None] /\ clients' = <<>>
           /\ vty' = [vty EXCEPT !.walk = <<>>]
           /\ sock' = [c \in Clients |-> [l \in Loops |-> "off"]]
  <2>1. <<>> \in Seq(Fds)
    OBVIOUS
  <2>2. Words'
    BY <1>1, <1>2, <2>1 DEF TypeInv, Words
  <2>3. vty'.walk = <<>> /\ \A f \in Fds : conn'[f] = None
    BY <1>2 DEF TypeInv, Words
  <2>4. Listed(Open, clients, vty.walk)'
    BY <1>2, <2>3, NoOne DEF Open
  <2>5. \A c \in Clients, l \in Loops : sock'[c][l] = "off" /\ Ends(conn', c, l) = {}
    BY <1>2, <2>3, NoOne
  <2>6. OneEach(conn, sock)'
    BY <2>5 DEF OneEach
  <2>7. Waits(sock, joins)'
    BY <2>5 DEF Waits, Loops
  <2> QED
    BY <2>2, <2>4, <2>6, <2>7 DEF TypeInv
<1>3. CASE server' = "deaf" /\ UNCHANGED <<conn, clients, vty, sock>>
  <2>1. Words'
    BY <1>1, <1>3 DEF TypeInv, Words
  <2>2. Open' = Open
    BY <1>3 DEF Open
  <2>3. Listed(Open, clients, vty.walk)'
    BY <1>3, <2>2 DEF TypeInv
  <2>4. OneEach(conn, sock)' /\ Waits(sock, joins)'
    BY <1>1, <1>3 DEF TypeInv
  <2> QED
    BY <2>1, <2>3, <2>4 DEF TypeInv
<1> QED
  BY <1>2, <1>3 DEF AcceptMisplaced

\* netmt_close: the one io is taken from the list and from what a walk has before it.
LEMMA ServerCloseTypes == ASSUME Inv, TypeInv, NEW f \in Fds, ServerClose(f) PROVE TypeInv'
<1>1. /\ f \in Open /\ ~ conn[f].peer /\ conn' = [conn EXCEPT ![f] = None]
      /\ clients' = RemoveFirst(clients, f)
      /\ vty' = [vty EXCEPT !.walk = RemoveFirst(@, f)]
      /\ UNCHANGED <<now, server, listenio, commonid, sock, joins>>
  BY DEF ServerClose, clientSide
<1>2. conn = [g \in Fds |-> conn[g]]
  BY DEF Inv, AllGood
<1>3. \A g \in Fds : conn'[g] = IF g = f THEN None ELSE conn[g]
  BY <1>1, <1>2
<1>4. Open' = Open \ {f}
  BY <1>3 DEF Open
<1>5. /\ clients \in Seq(Fds) /\ IsInjective(clients) /\ ToSet(clients) = Open
      /\ vty.walk \in Seq(Fds) /\ IsInjective(vty.walk) /\ ToSet(vty.walk) \subseteq Open
  BY DEF TypeInv, Listed
<1>6. /\ clients' \in Seq(Fds) /\ IsInjective(clients') /\ ToSet(clients') = Open \ {f}
  BY <1>1, <1>5, OneRemoved
<1>7. /\ RemoveFirst(vty.walk, f) \in Seq(Fds) /\ IsInjective(RemoveFirst(vty.walk, f))
      /\ ToSet(RemoveFirst(vty.walk, f)) = ToSet(vty.walk) \ {f}
  BY <1>5, OneRemoved
<1>8. vty'.walk = RemoveFirst(vty.walk, f) /\ Words'
  BY <1>1, <1>7 DEF TypeInv, Words
<1>9. Listed(Open, clients, vty.walk)'
  BY <1>4, <1>5, <1>6, <1>7, <1>8 DEF Listed
<1>10. \A c \in Clients, l \in Loops : Ends(conn', c, l) = Ends(conn, c, l)
  BY <1>1, <1>3 DEF Ends
<1>11. OneEach(conn, sock)'
  BY <1>1, <1>10 DEF OneEach, TypeInv
<1>12. Waits(sock, joins)'
  BY <1>1 DEF TypeInv, Waits
<1> QED
  BY <1>8, <1>9, <1>11, <1>12 DEF TypeInv

\* One connection only handled or sent a frame.
LEMMA OneLike ==
  ASSUME Inv, NEW f \in Open, NEW y, Like(conn[f], y), conn' = [conn EXCEPT ![f] = y]
  PROVE  \A g \in Fds : Like(conn[g], conn'[g])
<1>1. f \in Fds /\ conn = [g \in Fds |-> conn[g]]
  BY DEF Inv, AllGood, Open
<1> QED
  BY <1>1, PutLike

\* The server took a frame.
LEMMA TakenLike ==
  ASSUME Inv, NEW f \in Open
  PROVE  /\ Taken(f) = [g \in Fds |-> Taken(f)[g]]
         /\ \A g \in Fds : Like(conn[g], Taken(f)[g])
<1>1. f \in Fds /\ conn = [g \in Fds |-> conn[g]]
  BY DEF Inv, AllGood, Open
<1>2. Like(conn[f], [conn[f] EXCEPT !.up = Tail(@)])
  BY OpenGood, FramesLike
<1>3. Taken(f) = [conn EXCEPT ![f] = [conn[f] EXCEPT !.up = Tail(@)]]
  BY <1>1 DEF Taken
<1> HIDE DEF Taken
<1>4. \A g \in Fds : Like(conn[g], Taken(f)[g])
  BY <1>1, <1>2, <1>3, PutLike
<1> QED
  BY <1>1, <1>3, <1>4

\* After the server took a frame, it wrote to a connection or stored in its io_t.
LEMMA TakenTwiceLike ==
  ASSUME Inv, NEW f \in Open, conn[f].up # <<>>, NEW h \in Open, NEW v,
         \/ conn' = [Taken(f) EXCEPT ![h] = [Taken(f)[h] EXCEPT !.down = v]]
         \/ conn' = [Taken(f) EXCEPT ![h] = [Taken(f)[h] EXCEPT !.info = v]]
  PROVE  \A g \in Fds : Like(conn[g], conn'[g])
<1> DEFINE t == Taken(f)
<1>1. t = [g \in Fds |-> t[g]] /\ \A g \in Fds : Like(conn[g], t[g])
  BY TakenLike
<1>2. h \in Fds /\ conn[h] # None
  BY DEF Open
<1>3. AllGood(t, now)
  BY TakenGood
<1> HIDE DEF t
<1>4. t[h] # None
  BY <1>1, <1>2 DEF Like
<1>5. PICK c : t[h] \in ConnOf(h, c)
  BY <1>2, <1>3, <1>4 DEF AllGood, Good
<1>6. PICK y : Like(t[h], y) /\ conn' = [t EXCEPT ![h] = y]
  <2>1. Like(t[h], [t[h] EXCEPT !.down = v]) /\ Like(t[h], [t[h] EXCEPT !.info = v])
    BY <1>5, FramesLike
  <2> QED
    BY <2>1 DEF t
<1>7. \A g \in Fds : Like(t[g], conn'[g])
  BY <1>1, <1>2, <1>6, PutLike
<1> QED
  BY <1>1, <1>7, LikeTwice

\* case NETMT_PING of the server.
LEMMA ServerPingTypes == ASSUME Inv, TypeInv, NEW f \in Fds, ServerPing(f) PROVE TypeInv'
<1>1. /\ f \in Open /\ conn' = Taken(f) /\ listenio' = "pointer"
      /\ UNCHANGED <<now, server, commonid, clients, vty, sock, joins>>
  BY DEF ServerPing, ServerTakes, vtySide, clientSide
<1>2. commonid' \in {"zero", "register"}
  BY <1>1 DEF TypeInv, Words
<1> QED
  BY <1>1, <1>2, TakenLike, FramesTypes

\* case NETMT_HEARTBEAT of the server.
LEMMA ServerHeartbeatTypes == ASSUME Inv, TypeInv, NEW f \in Fds, ServerHeartbeat(f) PROVE TypeInv'
<1> DEFINE beat == Head(conn[f].up)
           answer == [is |-> "heartbeat", from |-> beat.from, ping |-> beat.ping, pong |-> now]
<1>1. /\ f \in Open /\ conn[f].up # <<>>
      /\ UNCHANGED <<now, server, listenio, commonid, clients, vty, sock, joins>>
      /\ \/ conn' = Taken(f)
         \/ beat.fd \in Open /\ conn' = [Taken(f) EXCEPT ![beat.fd].down = Append(@, answer)]
  BY DEF ServerHeartbeat, ServerTakes, vtySide, clientSide
<1>2. listenio' \in {"normal", "pointer"} /\ commonid' \in {"zero", "register"}
  BY <1>1 DEF TypeInv, Words
<1> HIDE DEF beat, answer
<1>3. CASE conn' = Taken(f)
  BY <1>1, <1>2, <1>3, TakenLike, FramesTypes
<1>4. CASE beat.fd \in Open /\ conn' = [Taken(f) EXCEPT ![beat.fd].down = Append(@, answer)]
  <2> DEFINE h == beat.fd
             v == Append(Taken(f)[h].down, answer)
  <2>1. h \in Open /\ conn' = [Taken(f) EXCEPT ![h] = [Taken(f)[h] EXCEPT !.down = v]]
    BY <1>4
  <2> HIDE DEF v, h
  <2>2. \A g \in Fds : Like(conn[g], conn'[g])
    BY <1>1, <2>1, TakenTwiceLike
  <2> QED
    BY <1>1, <1>2, <2>2, FramesTypes
<1> QED
  BY <1>1, <1>3, <1>4

\* case NETMT_REGISTER of the server.
LEMMA ServerRegisterTypes == ASSUME Inv, TypeInv, NEW f \in Fds, ServerRegister(f) PROVE TypeInv'
<1> DEFINE frame == Head(conn[f].up)
<1>1. /\ f \in Open /\ conn[f].up # <<>> /\ commonid' = "register"
      /\ UNCHANGED <<now, server, listenio, clients, vty, sock, joins>>
      /\ \/ conn' = Taken(f)
         \/ frame.fd \in Open /\ conn' = [Taken(f) EXCEPT ![frame.fd].info = frame.info]
  BY DEF ServerRegister, ServerTakes, vtySide, clientSide
<1>2. listenio' \in {"normal", "pointer"} /\ commonid' \in {"zero", "register"}
  BY <1>1 DEF TypeInv, Words
<1> HIDE DEF frame
<1>3. CASE conn' = Taken(f)
  BY <1>1, <1>2, <1>3, TakenLike, FramesTypes
<1>4. CASE frame.fd \in Open /\ conn' = [Taken(f) EXCEPT ![frame.fd].info = frame.info]
  <2> DEFINE v == frame.info
             h == frame.fd
  <2>1. h \in Open /\ conn' = [Taken(f) EXCEPT ![h] = [Taken(f)[h] EXCEPT !.info = v]]
    BY <1>4
  <2> HIDE DEF v, h
  <2>2. \A g \in Fds : Like(conn[g], conn'[g])
    BY <1>1, <2>1, TakenTwiceLike
  <2> QED
    BY <1>1, <1>2, <2>2, FramesTypes
<1> QED
  BY <1>1, <1>3, <1>4

\* send_heartbeat and the client's handlers that stay connected.
LEMMA ClientFramesTypes ==
  ASSUME Inv, TypeInv, NEW f \in Fds, SendHeartbeat(f) \/ ClientRegister(f) \/ ClientHeartbeat(f)
  PROVE  TypeInv'
<1>1. /\ f \in Open
      /\ UNCHANGED <<now, server, listenio, commonid, clients, vty, sock, joins>>
  BY DEF SendHeartbeat, ClientRegister, ClientHeartbeat, ClientTakes, vtySide, clientSide
<1>2. listenio' \in {"normal", "pointer"} /\ commonid' \in {"zero", "register"}
  BY <1>1 DEF TypeInv, Words
<1>3. PICK c : conn[f] \in ConnOf(f, c)
  BY <1>1, OpenGood
<1>4. f \in Fds /\ conn = [g \in Fds |-> conn[g]]
  BY DEF Inv, AllGood
<1>5. \A v, w : /\ Like(conn[f], [conn[f] EXCEPT !.up = v])
                /\ Like(conn[f], [conn[f] EXCEPT !.down = v])
                /\ Like(conn[f], [conn[f] EXCEPT !.down = v, !.up = w])
  <2> TAKE v, w
  <2>1. Like(conn[f], [conn[f] EXCEPT !.up = v]) /\ Like(conn[f], [conn[f] EXCEPT !.down = v])
    BY <1>3, FramesLike
  <2>2. /\ conn[f] # None /\ [conn[f] EXCEPT !.down = v, !.up = w] # None
        /\ [conn[f] EXCEPT !.down = v, !.up = w].client = conn[f].client
        /\ [conn[f] EXCEPT !.down = v, !.up = w].loop = conn[f].loop
        /\ [conn[f] EXCEPT !.down = v, !.up = w].peer = conn[f].peer
    <3>1. "loop" \in DOMAIN conn[f] /\ "loop" \in DOMAIN [conn[f] EXCEPT !.down = v, !.up = w]
      BY <1>3 DEF ConnOf
    <3>2. "loop" \notin DOMAIN None
      BY DEF None
    <3>3. /\ [conn[f] EXCEPT !.down = v, !.up = w].client = conn[f].client
          /\ [conn[f] EXCEPT !.down = v, !.up = w].loop = conn[f].loop
          /\ [conn[f] EXCEPT !.down = v, !.up = w].peer = conn[f].peer
      BY <1>3 DEF ConnOf
    <3> QED
      BY <3>1, <3>2, <3>3
  <2> QED
    BY <2>1, <2>2 DEF Like
<1>6. PICK y : Like(conn[f], y) /\ conn' = [conn EXCEPT ![f] = y]
  <2>1. CASE SendHeartbeat(f)
    <3>1. \E v : conn' = [conn EXCEPT ![f].up = v]
      BY <2>1 DEF SendHeartbeat
    <3>2. \E v : conn' = [conn EXCEPT ![f] = [conn[f] EXCEPT !.up = v]]
      BY <1>4, <3>1
    <3> QED
      BY <1>5, <3>2
  <2>2. CASE ClientRegister(f)
    <3>1. \E v, w : conn' = [conn EXCEPT ![f].down = v, ![f].up = w]
      BY <1>4, <2>2 DEF ClientRegister
    <3>2. \E v, w : conn' = [conn EXCEPT ![f] = [conn[f] EXCEPT !.down = v, !.up = w]]
      BY <1>4, <3>1
    <3> QED
      BY <1>5, <3>2
  <2>3. CASE ClientHeartbeat(f)
    <3>1. \E v : conn' = [conn EXCEPT ![f].down = v]
      BY <2>3 DEF ClientHeartbeat
    <3>2. \E v : conn' = [conn EXCEPT ![f] = [conn[f] EXCEPT !.down = v]]
      BY <1>4, <3>1
    <3> QED
      BY <1>5, <3>2
  <2> QED
    BY <2>1, <2>2, <2>3
<1>7. \A g \in Fds : Like(conn[g], conn'[g])
  BY <1>1, <1>6, OneLike
<1> QED
  BY <1>1, <1>2, <1>7, FramesTypes

\* A client's loop ends, and what connection it has is hung up.
LEMMA LoopEndsTypes ==
  ASSUME Inv, TypeInv, NEW c \in Clients, NEW l \in Loops,
         sock' = [sock EXCEPT ![c][l] = "off"],
         \A g \in Fds : conn'[g] = IF g \in Ends(conn, c, l)
                                   THEN [conn[g] EXCEPT !.peer = FALSE, !.down = <<>>] ELSE conn[g],
         Waits(sock', joins'), UNCHANGED <<now, server, listenio, commonid, clients, vty>>
  PROVE  TypeInv'
<1>1. Words'
  BY DEF TypeInv, Words
<1>2. ASSUME NEW g \in Ends(conn, c, l)
      PROVE  g \in Open /\ conn'[g] # None /\ ~ conn'[g].peer
  <2>1. g \in Open
    BY DEF Ends, Open
  <2>2. PICK d : conn[g] \in ConnOf(g, d)
    BY <2>1, OpenGood
  <2>3. g \in Fds /\ conn'[g] = [conn[g] EXCEPT !.peer = FALSE, !.down = <<>>]
    BY DEF Ends
  <2>4. "loop" \in DOMAIN conn'[g] /\ ~ conn'[g].peer
    BY <2>2, <2>3 DEF ConnOf
  <2>5. "loop" \notin DOMAIN None
    BY DEF None
  <2> QED
    BY <2>1, <2>4, <2>5
<1>3. Open' = Open
  <2>1. \A g \in Fds : conn'[g] # None <=> conn[g] # None
    BY <1>2 DEF Open
  <2> QED
    BY <2>1 DEF Open
<1>4. Listed(Open, clients, vty.walk)'
  BY <1>3 DEF TypeInv
<1>5. Ends(conn', c, l) = {}
  <2> SUFFICES ASSUME NEW g \in Ends(conn', c, l) PROVE FALSE
    OBVIOUS
  <2>1. g \in Fds /\ conn'[g] # None /\ conn'[g].client = c /\ conn'[g].loop = l /\ conn'[g].peer
    BY DEF Ends
  <2>2. g \notin Ends(conn, c, l)
    BY <1>2, <2>1
  <2>3. conn'[g] = conn[g]
    BY <2>1, <2>2
  <2> QED
    BY <2>1, <2>2, <2>3 DEF Ends
<1>6. ASSUME NEW d \in Clients, NEW m \in Loops, ~ (d = c /\ m = l)
      PROVE  Ends(conn', d, m) = Ends(conn, d, m)
  <2>1. ASSUME NEW g \in Ends(conn, c, l) PROVE g \notin Ends(conn, d, m) /\ g \notin Ends(conn', d, m)
    BY <1>2, <1>6 DEF Ends
  <2>2. ASSUME NEW g \in Fds, g \notin Ends(conn, c, l)
        PROVE  g \in Ends(conn', d, m) <=> g \in Ends(conn, d, m)
    BY <2>2 DEF Ends
  <2>3. \A g : g \in Ends(conn', d, m) <=> g \in Ends(conn, d, m)
    BY <2>1, <2>2 DEF Ends
  <2> QED
    BY <2>3
<1>7. OneEach(conn, sock)'
  <2>1. \A d \in Clients, m \in Loops :
            sock'[d][m] = IF d = c /\ m = l THEN "off" ELSE sock[d][m]
    BY DEF TypeInv, Words
  <2>2. ASSUME NEW d \in Clients, NEW m \in Loops
        PROVE  IF sock'[d][m] = "open" THEN \E g : Ends(conn', d, m) = {g}
               ELSE Ends(conn', d, m) = {}
    <3>1. CASE d = c /\ m = l
      <4>1. sock'[d][m] = "off"
        BY <2>1, <3>1
      <4>2. Ends(conn', d, m) = {}
        BY <1>5, <3>1, Zenon
      <4> QED
        BY <4>1, <4>2
    <3>2. CASE ~ (d = c /\ m = l)
      <4>1. sock'[d][m] = sock[d][m] /\ Ends(conn', d, m) = Ends(conn, d, m)
        BY <1>6, <2>1, <3>2
      <4> QED
        BY <4>1 DEF TypeInv, OneEach
    <3> QED
      BY <3>1, <3>2
  <2> QED
    BY <2>2 DEF OneEach
<1> QED
  BY <1>1, <1>4, <1>7 DEF TypeInv

\* A socket that is off makes nobody wait.
LEMMA OffWaits ==
  ASSUME TypeInv, NEW c \in Clients, NEW l \in Loops, sock' = [sock EXCEPT ![c][l] = "off"],
         joins' = joins \/ (l = 2 /\ joins' = joins \ {c})
  PROVE  Waits(sock', joins')
<1>1. \A d \in Clients : sock'[d][2] # "off" => sock[d][2] # "off" /\ (l = 2 => d # c)
  BY DEF TypeInv, Words, Loops
<1> QED
  BY <1>1 DEF TypeInv, Waits

\* A client hangs up over an answer, or the network does.
LEMMA HungUpTypes ==
  ASSUME Inv, TypeInv, NEW f \in Fds, ClientTimesOut(f) \/ Breaks(f) PROVE TypeInv'
<1>1. /\ f \in Open /\ conn[f].peer /\ conn' = HungUp(f)
      /\ sock' = [sock EXCEPT ![conn[f].client][conn[f].loop] = "off"]
      /\ UNCHANGED <<now, server, listenio, commonid, clients, vty, joins>>
  BY DEF ClientTimesOut, Breaks, ClientTakes, vtySide
<1>2. conn = [g \in Fds |-> conn[g]]
  BY DEF Inv, AllGood
<1>3. PICK c \in Clients : conn[f] \in ConnOf(f, c)
  BY <1>1, OpenGood
<1> DEFINE l == conn[f].loop
<1>4. conn[f].client = c /\ l \in Loops
  BY <1>3 DEF ConnOf
<1>5. f \in Ends(conn, c, l)
  BY <1>1, <1>4 DEF Ends, Open
<1>6. Ends(conn, c, l) = {f}
  <2>1. IF sock[c][l] = "open" THEN \E g : Ends(conn, c, l) = {g} ELSE Ends(conn, c, l) = {}
    BY <1>4 DEF TypeInv, OneEach
  <2> HIDE DEF l
  <2> QED
    BY <1>5, <2>1
<1>7. \A g \in Fds : conn'[g] = IF g = f THEN [conn[g] EXCEPT !.peer = FALSE, !.down = <<>>]
                                ELSE conn[g]
  BY <1>1, <1>2 DEF HungUp
<1>8. sock' = [sock EXCEPT ![c][l] = "off"]
  BY <1>1, <1>4
<1> HIDE DEF l
<1>9. Waits(sock', joins')
  BY <1>1, <1>4, <1>8, OffWaits
<1>10. \A g \in Fds : conn'[g] = IF g \in Ends(conn, c, l)
                                 THEN [conn[g] EXCEPT !.peer = FALSE, !.down = <<>>] ELSE conn[g]
  BY <1>6, <1>7
<1> QED
  BY <1>1, <1>4, <1>8, <1>9, <1>10, LoopEndsTypes

\* "quit" at the client, whose UDP loop goes on when it was the second loop's.
LEMMA QuitTypes ==
  ASSUME Inv, TypeInv, NEW c \in Clients, NEW l \in Loops, Quit(c, l) PROVE TypeInv'
<1>1. /\ conn' = [f \in Fds |-> IF Connected(f, c, l) THEN HungUp(f)[f] ELSE conn[f]]
      /\ sock' = [sock EXCEPT ![c][l] = "off"]
      /\ joins' = joins \/ (l = 2 /\ joins' = joins \ {c})
      /\ UNCHANGED <<now, server, listenio, commonid, clients, vty>>
  BY DEF Quit, vtySide
<1>2. conn = [g \in Fds |-> conn[g]]
  BY DEF Inv, AllGood
<1>3. \A g \in Fds : conn'[g] = IF g \in Ends(conn, c, l)
                                THEN [conn[g] EXCEPT !.peer = FALSE, !.down = <<>>] ELSE conn[g]
  <2> TAKE g \in Fds
  <2>1. Connected(g, c, l) <=> g \in Ends(conn, c, l)
    BY DEF Connected, Ends, Open
  <2>2. HungUp(g)[g] = [conn[g] EXCEPT !.peer = FALSE, !.down = <<>>]
    BY <1>2 DEF HungUp
  <2> QED
    BY <1>1, <2>1, <2>2
<1>4. Waits(sock', joins')
  BY <1>1, OffWaits
<1> QED
  BY <1>1, <1>3, <1>4, LoopEndsTypes

\* udp_recv: a second loop is started only when the one before it has ended, so that
\* it has no connection yet.
LEMMA ClientPingTypes == ASSUME Inv, TypeInv, NEW c \in Clients, ClientPing(c) PROVE TypeInv'
<1>1. /\ c \notin joins /\ joins' = joins \cup {c}
      /\ sock' = [sock EXCEPT ![c][2] = "connecting"]
      /\ UNCHANGED <<now, server, listenio, commonid, clients, vty, conn>>
  BY DEF ClientPing, vtySide
<1>2. sock[c][2] = "off" /\ 2 \in Loops
  BY <1>1 DEF TypeInv, Waits, Loops
<1>3. Words'
  BY <1>1 DEF TypeInv, Words
<1>4. \A d \in Clients, m \in Loops :
          sock'[d][m] = IF d = c /\ m = 2 THEN "connecting" ELSE sock[d][m]
  BY <1>1 DEF TypeInv, Words
<1>5. \A d \in Clients, m \in Loops : sock'[d][m] = "open" <=> sock[d][m] = "open"
  BY <1>2, <1>4
<1>6. OneEach(conn, sock)'
  BY <1>1, <1>5 DEF OneEach, TypeInv
<1>7. Waits(sock, joins)'
  BY <1>1, <1>2, <1>4 DEF TypeInv, Waits
<1> QED
  BY <1>1, <1>3, <1>6, <1>7 DEF TypeInv, Open

\* register: the walk is the list as it begins, and gets shorter.
LEMMA RegisterTypes ==
  ASSUME Inv, TypeInv, RegisterBegins \/ RegisterVisits \/ RegisterEnds PROVE TypeInv'
<1>1. UNCHANGED <<now, server, listenio, commonid, clients, sock, joins>>
  BY DEF RegisterBegins, RegisterVisits, RegisterEnds, clientSide
<1>2. /\ clients \in Seq(Fds) /\ IsInjective(clients) /\ ToSet(clients) = Open
      /\ vty.walk \in Seq(Fds) /\ IsInjective(vty.walk) /\ ToSet(vty.walk) \subseteq Open
  BY DEF TypeInv, Listed
<1>3. \A f \in Fds : Like(conn[f], conn'[f])
  <2>1. CASE UNCHANGED conn
    BY <2>1 DEF Like
  <2>2. CASE RegisterVisits /\ conn' # conn
    <3> DEFINE f == Head(vty.walk)
               v == Append(conn[f].down, [is |-> "register", fd |-> f])
    <3>1. f \in Open /\ conn' = [conn EXCEPT ![f] = [conn[f] EXCEPT !.down = v]]
      BY <2>2 DEF RegisterVisits
    <3> HIDE DEF f, v
    <3>2. Like(conn[f], [conn[f] EXCEPT !.down = v])
      BY <3>1, OpenGood, FramesLike
    <3> QED
      BY <3>1, <3>2, OneLike
  <2> QED
    BY <2>1, <2>2 DEF RegisterBegins, RegisterEnds
<1>4. Open' = Open
  BY <1>3 DEF Open, Like
<1>5. /\ vty' \in [at : {"idle", "walk"}, walk : Seq(Fds), told : {"nothing", "success", "fail"}]
      /\ IsInjective(vty'.walk) /\ ToSet(vty'.walk) \subseteq Open
  <2>1. CASE RegisterBegins
    BY <1>2, <2>1 DEF RegisterBegins
  <2>2. CASE RegisterVisits
    <3>1. vty.walk # <<>> /\ vty' = [vty EXCEPT !.walk = Tail(@)]
      BY <2>2 DEF RegisterVisits
    <3>2. /\ Tail(vty.walk) \in Seq(Fds) /\ IsInjective(Tail(vty.walk))
          /\ ToSet(Tail(vty.walk)) \subseteq ToSet(vty.walk)
      BY <1>2, <3>1, TailInjective
    <3>3. vty'.walk = Tail(vty.walk)
      BY <3>1 DEF TypeInv, Words
    <3>4. vty' \in [at : {"idle", "walk"}, walk : Seq(Fds), told : {"nothing", "success", "fail"}]
      BY <3>1, <3>2 DEF TypeInv, Words
    <3> QED
      BY <1>2, <3>2, <3>3, <3>4
  <2>3. CASE RegisterEnds
    <3>1. vty.walk = <<>>
      BY <2>3 DEF RegisterEnds
    <3> QED
      BY <1>2, <2>3, <3>1 DEF RegisterEnds
  <2> QED
    BY <2>1, <2>2, <2>3
<1>6. Words'
  BY <1>1, <1>5 DEF TypeInv, Words
<1>7. Listed(Open, clients, vty.walk)'
  BY <1>1, <1>2, <1>4, <1>5, <1>6 DEF Listed, Words
<1>8. \A c \in Clients, l \in Loops : Ends(conn', c, l) = Ends(conn, c, l)
  BY <1>3 DEF Ends, Like
<1>9. OneEach(conn, sock)'
  BY <1>1, <1>8 DEF OneEach, TypeInv
<1> QED
  BY <1>1, <1>6, <1>7, <1>9 DEF TypeInv

\* Every step keeps the types.
LEMMA NextTypes == ASSUME Inv, TypeInv, [Next]_vars PROVE TypeInv'
<1>1. CASE UNCHANGED vars \/ \E c \in Clients : Ping(c)
  <2>1. UNCHANGED <<now, server, listenio, commonid, clients, vty, sock, joins, conn>>
    BY <1>1 DEF vars, Ping, vtySide, clientSide
  <2> QED
    BY <2>1 DEF TypeInv, Words, Open
<1>2. CASE Tick
  <2>1. /\ now < MaxTime /\ now' = now + 1
        /\ UNCHANGED <<server, listenio, commonid, clients, vty, sock, joins, conn>>
    BY <1>2 DEF Tick, vtySide, clientSide
  <2>2. now' \in StartTime .. MaxTime
    BY <2>1, ControlAssumption DEF TypeInv, Words
  <2> QED
    BY <2>1, <2>2 DEF TypeInv, Words, Open
<1>3. CASE AcceptMisplaced
  BY <1>3, AcceptMisplacedTypes
<1>4. CASE RegisterBegins \/ RegisterVisits \/ RegisterEnds
  BY <1>4, RegisterTypes
<1>5. ASSUME NEW c \in Clients, ClientPing(c) PROVE TypeInv'
  BY <1>5, ClientPingTypes
<1>6. ASSUME NEW c \in Clients, NEW l \in Loops, Accept(c, l) \/ Quit(c, l) PROVE TypeInv'
  BY <1>6, AcceptTypes, QuitTypes
<1>7. ASSUME NEW f \in Fds,
             \/ ServerClose(f) \/ ServerPing(f) \/ ServerHeartbeat(f) \/ ServerRegister(f)
      PROVE  TypeInv'
  BY <1>7, ServerCloseTypes, ServerPingTypes, ServerHeartbeatTypes, ServerRegisterTypes
<1>8. ASSUME NEW f \in Fds,
             \/ SendHeartbeat(f) \/ ClientRegister(f) \/ ClientHeartbeat(f)
             \/ ClientTimesOut(f) \/ Breaks(f)
      PROVE  TypeInv'
  BY <1>8, ClientFramesTypes, HungUpTypes
<1> QED
  BY <1>1, <1>2, <1>3, <1>4, <1>5, <1>6, <1>7, <1>8 DEF Next

\* The two invariants say what TypeOK says.
LEMMA TypesMean == ASSUME Inv, TypeInv PROVE TypeOK
<1>1. \A f \in Open : conn[f].info \in Clients \cup {"unknown"}
  BY DEF Inv, AllGood, Good, ConnOf, Open
<1>2. ASSUME NEW c \in Clients, NEW l \in Loops
      PROVE  /\ sock[c][l] \in {"off", "connecting", "open"}
             /\ Cardinality({f \in Fds : Connected(f, c, l)}) = IF sock[c][l] = "open" THEN 1 ELSE 0
  <2>1. {f \in Fds : Connected(f, c, l)} = Ends(conn, c, l)
    BY DEF Connected, Ends, Open
  <2>2. IF sock[c][l] = "open" THEN \E g : Ends(conn, c, l) = {g} ELSE Ends(conn, c, l) = {}
    BY DEF TypeInv, OneEach
  <2>3. Cardinality({}) = 0
    BY FS_EmptySet
  <2>4. \A g : Cardinality({g}) = 1
    BY FS_Singleton
  <2>5. Cardinality(Ends(conn, c, l)) = IF sock[c][l] = "open" THEN 1 ELSE 0
    BY <2>2, <2>3, <2>4
  <2>6. sock[c][l] \in {"off", "connecting", "open"}
    BY DEF TypeInv, Words
  <2> QED
    BY <2>1, <2>5, <2>6
<1>3. /\ now \in StartTime .. MaxTime /\ server \in {"up", "crashed", "deaf"}
      /\ listenio \in {"normal", "pointer"} /\ commonid \in {"zero", "register"}
      /\ vty.at \in {"idle", "walk"} /\ vty.told \in {"nothing", "success", "fail"}
  BY DEF TypeInv, Words
<1>4. ToSet(clients) = Open /\ IsInjective(clients) /\ ToSet(vty.walk) \subseteq Open
  BY DEF TypeInv, Listed
<1>5. \A c \in Clients : sock[c][2] # "off" => c \in joins
  BY DEF TypeInv, Waits
<1> QED
  BY <1>1, <1>2, <1>3, <1>4, <1>5 DEF TypeOK

\* The list the server walks is its open connections, each once; a client's socket is
\* open exactly when it is one connection's other end, however loops and connections end;
\* a UDP loop waits in pthread_join for each second loop.
THEOREM ControlTypes == Spec => []TypeOK
<1>1. Inv /\ TypeInv /\ [Next]_vars => (Inv /\ TypeInv)'
  BY NextInv, NextTypes
<1>2. Inv /\ TypeInv => TypeOK
  BY TypesMean
<1> QED
  BY InitInv, InitTypes, <1>1, <1>2, PTL DEF Spec
=============================================================================
