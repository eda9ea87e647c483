-------------------------------- MODULE Hio --------------------------------
(***************************************************************************)
(* One hio_t of libhv, which serves one connection after the other on its  *)
(* file descriptor: hio_write of the loop thread and of another thread     *)
(* (the server's vty thread), nio_write, hio_close with its delay and its  *)
(* timer, closes posted by the other thread, and the reuse of the hio_t by *)
(* the next accept.                                                        *)
(*                                                                         *)
(* write_queue is a sequence, which is what HvQueue shows it to be.  A     *)
(* frame goes out in two pieces.  What is done under write_mutex is one    *)
(* step, except hio_write's enqueue, which stores outside it can meet.     *)
(***************************************************************************)
EXTENDS Naturals, Sequences, SequencesExt

CONSTANTS
    MaxConns,   \* bound: connections that come to this descriptor
    MaxWrites   \* bound: calls of hio_write

ASSUME HioAssumption == MaxConns \in Nat /\ MaxWrites \in Nat

Conns == 1 .. MaxConns
NoConn == 0

VARIABLES
    io,         \* the fields of the hio_t
    queue,      \* write_queue
    sent,       \* pieces of its first frame that are on the wire (pbuf->offset)
    timer,      \* the connection io->close_timer was started for, or NoConn
    strays,     \* the same for the close timers no pointer leads to any more
    ids,        \* hio_next_id
    posted,     \* custom_events: the closes of the other thread
    listed,     \* connections whose io_t is in t_server.clients
    sock,       \* kernel: the connection the descriptor is, or NoConn
    watched,    \* kernel: the events epoll watches it for
    gone,       \* kernel: the connections whose peer has closed
    accepts,    \* number of connections accepted
    wire,       \* kernel: the pieces each peer was sent
    log,        \* history: the frames hio_write has taken for each connection
    writes,     \* number of calls of hio_write
    loop,       \* where the loop thread is
    vty,        \* where the other thread is in hio_write
    frame,      \* the frame it writes, and the pieces write() took of it
    late,       \* history: a connection was closed during such a hio_write
    rearmed     \* history: close_timer was set while it was set

kernel == <<sock, watched, gone, accepts, wire>>
timers == <<timer, strays, ids, rearmed>>
output == <<queue, sent, log>>
vtyState == <<vty, frame, posted>>
vars == <<io, output, timers, vtyState, kernel, listed, writes, loop, late>>

Pieces(f) == <<[frame |-> f, piece |-> 1], [frame |-> f, piece |-> 2]>>
PiecesOf(fs) == FlattenSeq([i \in 1 .. Len(fs) |-> Pieces(fs[i])])
First(k, s) == SubSeq(s, 1, k)
Drop(k, s) == SubSeq(s, k + 1, Len(s))

\* What is left to send.
Unsent == Drop(sent, PiecesOf(queue))

Fresh(id) == [ready |-> TRUE, closed |-> FALSE, close |-> FALSE, error |-> FALSE,
              close_cb |-> FALSE, id |-> id, events |-> {}]

Init ==
    /\ io = [Fresh(0) EXCEPT !.ready = FALSE]
    /\ queue = <<>> /\ sent = 0 /\ log = [c \in Conns |-> <<>>]
    /\ timer = NoConn /\ strays = {} /\ ids = 0 /\ rearmed = FALSE
    /\ posted = <<>> /\ listed = {}
    /\ sock = NoConn /\ watched = {} /\ gone = {} /\ accepts = 0
    /\ wire = [c \in Conns |-> <<>>]
    /\ writes = 0 /\ loop = "poll" /\ late = FALSE
    /\ vty = "idle" /\ frame = [f |-> [to |-> NoConn, n |-> 0], taken |-> 0]
-----------------------------------------------------------------------------
\* epoll_ctl on an open descriptor, as iowatcher_add_event calls it: ADD when
\* io->events is empty, else MOD.  The kernel refuses an ADD of a descriptor it
\* watches and a MOD of one it does not.
Watch(events, e) == IF (events = {}) # (watched = {}) THEN watched ELSE events \cup {e}

\* hio_ready, which does nothing when the hio_t is ready.
Ready == IF io.ready THEN io ELSE Fresh(ids + 1)
ForgetsTimer ==
    IF io.ready
    THEN UNCHANGED <<ids, timer, strays>>
    ELSE /\ ids' = ids + 1
         /\ timer' = NoConn
         /\ strays' = strays \cup ({timer} \ {NoConn})

\* hio_add of e on a descriptor that is open, or on a number that is not.
Add(e, open) ==
    /\ io' = [Ready EXCEPT !.events = @ \cup {e}]
    /\ watched' = IF e \in Ready.events \/ ~ open THEN watched ELSE Watch(Ready.events, e)
    /\ ForgetsTimer

\* nio_accept: hio_get of the descriptor, netmt_accept with its hio_setcb_close
\* and hio_read_start, and list_add.
Accept(c) ==
    /\ loop = "poll" /\ sock = NoConn /\ c = accepts + 1
    /\ sock' = c /\ accepts' = c
    /\ io' = [Ready EXCEPT !.close_cb = TRUE, !.events = @ \cup {"read"}]
    /\ watched' = Watch(Ready.events, "read")
    /\ ForgetsTimer
    /\ listed' = listed \cup {c}
    /\ UNCHANGED <<output, rearmed, vtyState, gone, wire, writes, loop, late>>

PeerCloses(c) ==
    /\ sock = c /\ c \notin gone
    /\ gone' = gone \cup {c}
    /\ UNCHANGED <<io, output, timers, vtyState, sock, watched, accepts, wire, listed,
                   writes, loop, late>>
-----------------------------------------------------------------------------
\* hio_write of another thread.

\* write() takes the first k pieces of f.
Takes(f, k) ==
    /\ sock # NoConn
    /\ wire' = [wire EXCEPT ![sock] = @ \o First(k, Pieces(f))]
WriteFails == sock = NoConn \/ sock \in gone

Logged(f) == log' = [log EXCEPT ![f.to] = Append(@, f)]
NewFrame(c) == [to |-> c, n |-> writes + 1]

\* The test of io->closed; a closed io is left alone.
VtyCheck(c) ==
    /\ vty = "idle" /\ c \in listed /\ ~ io.closed /\ writes < MaxWrites
    /\ writes' = writes + 1
    /\ frame' = [f |-> NewFrame(c), taken |-> 0]
    /\ vty' = "checked"
    /\ UNCHANGED <<io, output, timers, posted, kernel, listed, loop, late>>

\* With the mutex: behind the others, or by write() at once.
VtyQueues ==
    /\ vty = "checked" /\ queue # <<>>
    /\ queue' = Append(queue, frame.f)
    /\ Logged(frame.f)
    /\ vty' = "idle"
    /\ UNCHANGED <<io, sent, timers, frame, posted, kernel, listed, writes, loop, late>>

\* A mutant: write() although others wait.
VtyWritesFirst(k) ==
    /\ vty = "checked"
    /\ Takes(frame.f, k)
    /\ Logged(frame.f)
    /\ frame' = [frame EXCEPT !.taken = k]
    /\ vty' = IF k = 2 THEN "idle" ELSE "enqueue"
    /\ UNCHANGED <<io, queue, sent, timers, posted, sock, watched, gone, accepts, listed,
                   writes, loop, late>>

VtyWrites(k) ==
    /\ vty = "checked" /\ queue = <<>>
    /\ Takes(frame.f, k)
    /\ Logged(frame.f)
    /\ frame' = [frame EXCEPT !.taken = k]
    /\ vty' = IF k = 2 THEN "idle" ELSE "enqueue"
    /\ UNCHANGED <<io, queue, sent, timers, posted, sock, watched, gone, accepts, listed,
                   writes, loop, late>>

VtyFails ==
    /\ vty = "checked" /\ queue = <<>> /\ WriteFails
    /\ io' = [io EXCEPT !.error = TRUE]
    /\ vty' = "failed"
    /\ UNCHANGED <<output, timers, frame, posted, kernel, listed, writes, loop, late>>

\* A mutant: without hio_add.
VtyEnqueuesUnwatched ==
    /\ vty = "enqueue"
    /\ queue' = <<frame.f>> /\ sent' = frame.taken
    /\ vty' = "idle"
    /\ UNCHANGED <<io, log, timers, frame, posted, kernel, listed, writes, loop, late>>

\* Still with the mutex, after a short write.
VtyEnqueues ==
    /\ vty = "enqueue"
    /\ Add("write", sock # NoConn)
    /\ queue' = <<frame.f>> /\ sent' = frame.taken
    /\ vty' = "idle"
    /\ UNCHANGED <<log, rearmed, frame, posted, sock, gone, accepts, wire, listed, writes,
                   loop, late>>

Locked == vty = "enqueue"

\* hio_close after an error: a post with the id the hio_t has now.
VtyCloses ==
    /\ vty = "failed"
    /\ posted' = IF io.closed THEN posted
                 ELSE Append(posted, [id |-> io.id, to |-> frame.f.to])
    /\ vty' = "idle"
    /\ UNCHANGED <<io, output, timers, frame, kernel, listed, writes, loop, late>>
-----------------------------------------------------------------------------
\* The loop thread: what poll reports.

\* hio_write in the read callback.
LoopReads == loop = "poll" /\ sock # NoConn /\ "read" \in watched \cap io.events

LoopReplies(k) ==
    /\ LoopReads /\ ~ Locked /\ writes < MaxWrites
    /\ writes' = writes + 1
    /\ LET f == NewFrame(sock) IN
       /\ Logged(f)
       /\ IF queue # <<>>
          THEN /\ k = 0
               /\ queue' = Append(queue, f)
               /\ UNCHANGED <<io, sent, ids, timer, strays, watched, wire>>
          ELSE /\ Takes(f, k)
               /\ IF k = 2
                  THEN UNCHANGED <<io, queue, sent, ids, timer, strays, watched>>
                  ELSE Add("write", TRUE) /\ queue' = <<f>> /\ sent' = k
    /\ UNCHANGED <<rearmed, vtyState, sock, gone, accepts, listed, loop, late>>

LoopReplyFails ==
    /\ LoopReads /\ ~ Locked /\ writes < MaxWrites /\ queue = <<>> /\ WriteFails
    /\ writes' = writes + 1
    /\ io' = [io EXCEPT !.error = TRUE]
    /\ loop' = "close"
    /\ UNCHANGED <<output, timers, vtyState, kernel, listed, late>>

\* nio_read gets end of file, or an error, and closes.
LoopEof(error) ==
    /\ LoopReads /\ sock \in gone
    /\ io' = [io EXCEPT !.error = @ \/ error]
    /\ loop' = "close"
    /\ UNCHANGED <<output, timers, vtyState, kernel, listed, writes, late>>

\* The read callback closes, as the client's does after an old heartbeat.
LoopHangsUp ==
    /\ LoopReads
    /\ loop' = "close"
    /\ UNCHANGED <<io, output, timers, vtyState, kernel, listed, writes, late>>

\* A mutant: the event goes, whatever is in the queue.
LoopWritableOnce ==
    /\ loop = "poll" /\ "write" \in watched \cap io.events /\ ~ Locked
    /\ io' = [io EXCEPT !.events = @ \ {"write"}]
    /\ watched' = io.events \ {"write"}
    /\ loop' = "write"
    /\ UNCHANGED <<output, timers, vtyState, sock, gone, accepts, wire, listed, writes, late>>

\* hio_handle_events: an empty queue is not watched any more.
LoopWritable ==
    /\ loop = "poll" /\ "write" \in watched \cap io.events /\ ~ Locked
    /\ IF queue = <<>>
       THEN /\ io' = [io EXCEPT !.events = @ \ {"write"}]
            /\ watched' = io.events \ {"write"}
       ELSE UNCHANGED <<io, watched>>
    /\ loop' = "write"
    /\ UNCHANGED <<output, timers, vtyState, sock, gone, accepts, wire, listed, writes, late>>

\* nio_write: k pieces go out, whole frames leave the queue.
LoopSends(k) ==
    /\ loop = "write" /\ ~ Locked
    /\ wire' = [wire EXCEPT ![sock] = @ \o First(k, Unsent)]
    /\ queue' = Drop((sent + k) \div 2, queue)
    /\ sent' = (sent + k) % 2
    /\ loop' = IF queue' = <<>> THEN "drained" ELSE "poll"
    /\ UNCHANGED <<io, log, timers, vtyState, sock, watched, gone, accepts, listed, writes,
                   late>>

LoopSendFails ==
    /\ loop = "write" /\ ~ Locked /\ queue # <<>> /\ WriteFails
    /\ io' = [io EXCEPT !.error = TRUE]
    /\ loop' = "close"
    /\ UNCHANGED <<output, timers, vtyState, kernel, listed, writes, late>>

\* After the unlock: the close that waited for the queue.
LoopDrained ==
    /\ loop = "drained"
    /\ io' = [io EXCEPT !.close = FALSE]
    /\ loop' = IF io.close THEN "close" ELSE "poll"
    /\ UNCHANGED <<output, timers, vtyState, kernel, listed, writes, late>>

\* A mutant: without the test of the id.
LoopEventAlways ==
    /\ loop = "poll" /\ posted # <<>>
    /\ posted' = Tail(posted)
    /\ loop' = "close"
    /\ UNCHANGED <<io, output, timers, vty, frame, kernel, listed, writes, late>>

\* hio_close_event_cb
LoopEvent ==
    /\ loop = "poll" /\ posted # <<>>
    /\ posted' = Tail(posted)
    /\ loop' = IF posted[1].id = io.id THEN "close" ELSE "poll"
    /\ UNCHANGED <<io, output, timers, vty, frame, kernel, listed, writes, late>>

\* __close_timeout_cb
LoopTimer(c) ==
    /\ loop = "poll" /\ c \in {timer} \cup strays
    /\ strays' = strays \ {c}
    /\ io' = [io EXCEPT !.error = TRUE]
    /\ loop' = "close"
    /\ UNCHANGED <<output, timer, ids, rearmed, vtyState, kernel, listed, writes, late>>
-----------------------------------------------------------------------------
\* The loop thread: hio_close.

\* A mutant: the close waits without a timer.
LoopCloseUntimed ==
    /\ loop = "close" /\ ~ Locked
    /\ LET delayed == queue # <<>> /\ ~ io.error /\ ~ io.close IN
       /\ loop' = IF io.closed \/ delayed THEN "poll" ELSE "done"
       /\ io' = IF ~ io.closed /\ delayed THEN [io EXCEPT !.close = TRUE] ELSE io
    /\ UNCHANGED <<output, timers, vtyState, kernel, listed, writes, late>>

LoopClose ==
    /\ loop = "close" /\ ~ Locked
    /\ LET delayed == queue # <<>> /\ ~ io.error /\ ~ io.close IN
       /\ loop' = IF io.closed \/ delayed THEN "poll" ELSE "done"
       /\ IF ~ io.closed /\ delayed
          THEN /\ io' = [io EXCEPT !.close = TRUE]
               /\ timer' = sock
               /\ strays' = strays \cup ({timer} \ {NoConn})
               /\ rearmed' = (rearmed \/ timer # NoConn)
          ELSE UNCHANGED <<io, timer, strays, rearmed>>
    /\ UNCHANGED <<output, ids, vtyState, kernel, listed, writes, late>>

LoopDone ==
    /\ loop = "done"
    /\ io' = [io EXCEPT !.closed = TRUE, !.ready = FALSE]
    /\ loop' = IF io.ready THEN "del" ELSE "callback"
    /\ late' = (late \/ vty # "idle")
    /\ UNCHANGED <<output, timers, vtyState, kernel, listed, writes>>

LoopDel ==
    /\ loop = "del"
    /\ io' = [io EXCEPT !.events = {}]
    /\ watched' = IF io.events = {} THEN watched ELSE {}
    /\ loop' = "clean"
    /\ UNCHANGED <<output, timers, vtyState, sock, gone, accepts, wire, listed, writes, late>>

\* A mutant: pbuf->offset survives.
LoopCleanKeepsSent ==
    /\ loop = "clean" /\ ~ Locked
    /\ queue' = <<>>
    /\ loop' = "callback"
    /\ UNCHANGED <<io, log, sent, timers, vtyState, kernel, listed, writes, late>>

LoopClean ==
    /\ loop = "clean" /\ ~ Locked
    /\ queue' = <<>> /\ sent' = 0
    /\ loop' = "callback"
    /\ UNCHANGED <<io, log, timers, vtyState, kernel, listed, writes, late>>

\* A mutant: close_timer stays.
LoopCallbackKeepsTimer ==
    /\ loop = "callback"
    /\ listed' = IF io.close_cb THEN listed \ {accepts} ELSE listed
    /\ loop' = "closefd"
    /\ UNCHANGED <<io, output, timers, vtyState, kernel, writes, late>>

\* __close_cb: the timer, then netmt_close with its list_del.
LoopCallback ==
    /\ loop = "callback"
    /\ timer' = NoConn
    /\ listed' = IF io.close_cb THEN listed \ {accepts} ELSE listed
    /\ loop' = "closefd"
    /\ UNCHANGED <<io, output, strays, ids, rearmed, vtyState, kernel, writes, late>>

\* closesocket; the kernel forgets what it watched.
LoopCloseFd ==
    /\ loop = "closefd"
    /\ sock' = NoConn /\ watched' = {}
    /\ loop' = "poll"
    /\ UNCHANGED <<io, output, timers, vtyState, gone, accepts, wire, listed, writes, late>>
-----------------------------------------------------------------------------
Vty ==
    \/ VtyQueues \/ VtyFails \/ VtyEnqueues \/ VtyCloses
    \/ \E k \in 0 .. 2 : VtyWrites(k)

Closing ==
    LoopDrained \/ LoopClose \/ LoopDone \/ LoopDel \/ LoopClean \/ LoopCallback \/ LoopCloseFd

Sending == LoopSendFails \/ \E k \in 1 .. Len(Unsent) : LoopSends(k)

\* nio_write with nothing to send.
NothingToSend == queue = <<>> /\ LoopSends(0)

Timers == \E c \in Conns : LoopTimer(c)

Next ==
    \/ \E c \in Conns : Accept(c) \/ PeerCloses(c) \/ VtyCheck(c)
    \/ \E k \in 0 .. 2 : LoopReplies(k)
    \/ \E error \in BOOLEAN : LoopEof(error)
    \/ LoopReplyFails \/ LoopHangsUp \/ LoopWritable \/ LoopEvent
    \/ Vty \/ Closing \/ Sending \/ NothingToSend \/ Timers

\* Both threads run, a posted event is read, a timer fires.  A peer may stop to
\* read: nothing says that the socket becomes writable.
Fairness ==
    /\ WF_vars(Vty) /\ WF_vars(Closing) /\ WF_vars(Sending) /\ WF_vars(NothingToSend)
    /\ WF_vars(LoopEvent) /\ WF_vars(Timers)

Spec == Init /\ [][Next]_vars /\ Fairness
-----------------------------------------------------------------------------
TypeOK ==
    /\ io \in [ready : BOOLEAN, closed : BOOLEAN, close : BOOLEAN, error : BOOLEAN,
               close_cb : BOOLEAN, id : 0 .. ids, events : SUBSET {"read", "write"}]
    /\ queue \in Seq([to : Conns, n : 1 .. MaxWrites]) /\ sent \in 0 .. 1
    /\ timer \in Conns \cup {NoConn} /\ strays \subseteq Conns /\ listed \subseteq Conns
    /\ sock \in {NoConn, accepts} /\ watched \subseteq {"read", "write"}
    /\ vty \in {"idle", "checked", "enqueue", "failed"}
    /\ queue = <<>> => sent = 0

\* Whatever two threads write, and however the socket splits it, every peer gets
\* the frames written for it, whole, in order, once and no others; while the
\* connection is open nothing is missing between the wire and the queue.  (Unless
\* a connection was closed in the middle of a hio_write of the other thread.)
FramesInOrder ==
    ~ late =>
        /\ \A c \in Conns : IsPrefix(wire[c], PiecesOf(log[c]))
        /\ sock # NoConn /\ ~ io.closed /\ ~ Locked =>
               wire[sock] \o Unsent = PiecesOf(log[sock])

\* hio_write asks for the write event only when it finds the queue empty, and
\* the loop takes the event away when it finds it empty: whatever the order, a
\* frame that waits is watched for by io->events and by epoll.
QueueIsWatched ==
    ~ late /\ queue # <<>> /\ io.ready => "write" \in watched \cap io.events

\* Between two connections nothing of the old one is left: no client in the
\* list, no frame, no event, no timer that would close the next one.
ClosedIsForgotten ==
    ~ late /\ loop = "poll" /\ sock = NoConn =>
        /\ listed = {} /\ queue = <<>> /\ io.events = {} /\ watched = {}
        /\ timer = NoConn /\ (~ rearmed => strays = {})

\* A close of the other thread that waits in custom_events ends the connection
\* whose write failed, never the next one that got its hio_t.
PostedClosesItsOwn ==
    [][loop = "poll" /\ loop' = "close" /\ posted' # posted /\ ~ io.closed /\ ~ late
         => posted[1].to = sock]_vars

\* What is queued for a peer that reads is sent, or the connection closes: no
\* order of the two threads' writes leaves a frame in the queue for ever.
QueuedIsSent ==
    WF_vars(LoopWritable) => ((queue # <<>> /\ ~ late) ~> (queue = <<>> \/ late))

\* hio_close returns at once when it has to wait for the queue; the connection
\* is closed nevertheless, whether its peer reads or not.
DelayedCloseEnds == (io.close /\ ~ late) ~> (io.closed \/ late)

\* hloop.h:259 says hio_write "is thread-safe, locked by recursive_mutex, allow
\* to be called by other threads": no peer gets a frame written for another.
FramesReachTheirPeer ==
    \A c \in Conns : \A i \in 1 .. Len(wire[c]) : wire[c][i].frame.to = c
=============================================================================
