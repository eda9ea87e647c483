# netmt: a verification development

netmt is a remote maintenance tool: one server (`src/source/netmtserver`), many
clients (`src/source/netmtclient`), TCP between them, an operator at a telnet
session (vty) of the server.  Both programs run on libhv
(`src/source/pub3/libhv`), the vty on the command library of zebra
(`src/source/pub3/cmd`).  This directory has TLA+ modules translated from that
code, the TLC configurations that check them, and theorems checked by TLAPS.

## The system

| Part | State | Operations | Speaks to |
|---|---|---|---|
| receive path, `tcp_recv` of server and client | `databuf[20480]`, `bytelen` (one pair per process) | append a read, execute every whole frame, move the rest to the front | called by libhv for every connection of the loop; calls the handlers |
| list of clients, `t_server.clients` | doubly linked list of `io_t`, two `static hmutex_t s_mutex` | `netmt_accept`, `netmt_close`, `list_for_each` | loop thread and vty thread share it |
| file transfer | `fp`, `filebytes`, `fsize` of the server; `fp`, `filebytes` of each client | `send`, `get`, FILE_OPEN, DATA, SEND_END, GET_END | vty thread sends, loop thread receives; frames over the receive path |
| remote execution | `flag` and `buffer` of every `io_t` | `exec shell`, EXEC, `save_result_info_to_buffer`, `handle_endflag`, `print_all_client_return_info` | vty thread writes and prints, loop thread stores, `sleep(1)` in between |
| registration, status | `t_server.commonid`, `netmtclient` of every `io_t` | `register`, REGISTER, `show` | same two threads |
| heartbeat, PING | timers of libhv, `sockio`, a second TCP loop of the client | `send_heartbeat`, HEARTBEAT, `ping`, `udp_recv` | UDP and TCP loops of both sides |
| libhv connections | `write_queue`, `write_mutex`, `closed`, `close`, timers of every `hio_t` | `hio_write`, `nio_write`, `nio_read`, `hio_close` | any thread writes, the loop thread reads, flushes, closes |
| libhv loop | pending lists by priority, timer heap, posted events | `hloop_run`, `htimer_add`, `hloop_post_event` | one thread per loop |
| INI configuration | chain of sections and keys | `CGetValueString`, `CGetValueInt` | called at start, by `ping`, by REGISTER |
| command line | vty sessions | one command at a time | one thread for all sessions |

A frame is a `netmt_command_t` of 5168 bytes with its length in the first int;
`commonid` is the command, `subcommonid` the step of it.

What is hard here: two threads of the server share the list, `fp` and the
`io_t` blocks under locks that do not exclude each other; one static buffer
serves all connections; handlers return early and leave a mutex or a frame
behind; a client comes or goes in the middle of a command; results come after
the second the operator waits; a write meets an error in the middle of a walk.
PROJECT.json lists these places under "hazards".

What makes the parts correct:

* receive path: the commands executed for a connection are those its peer sent,
  whole, in order, once; no command that has arrived waits; no write behind the
  buffer;
* list of clients: at any moment a walk is sound; the list is the set of open
  connections when the loop polls; a broadcast meets each client once; nobody
  uses a freed client; nobody waits for a mutex for ever;
* file transfer: SUCCESS means a complete copy; a send reaches all clients that
  match and stay; nobody writes to a file that is not open; byte_size is the
  size of the file;
* remote execution: what is printed under a command is its result, whole, once;
* registration: "success" means an answer; filters do not change during a send;
* libhv: bytes of two writers are not mixed, order is kept, a connection is
  closed once, nothing is written after that, a timer of a closed connection
  never fires on the next one.

## Modules

### NetmtStream (abstract) and NetmtRecv

`NetmtStream` is what the receive path promises: every connection has a stream
of commands, and they are executed one after the other.

`NetmtRecv` is `tcp_recv`.  A byte is a pair of connection and offset in its
stream, so that a frame made of the wrong bytes is seen; of the contents of a
byte only the two low-order bytes of `len` are kept, as digits, because the
code frames the stream with nothing else.  `databuf`, `bytelen` are the statics,
`tem` is `tembuf - databuf`, `rcvd` is how much of each stream was read.

| Action | Code |
|---|---|
| `Read(c, k)` | read event, append, first check of `comm->len` |
| `HandleMore` | one round of the loop, another whole frame follows |
| `HandleLast` | one round of the loop, the rest moves to the front |
| `HandleDrained` | one round of the loop, nothing is left and `len` behind it reads 0 |
| `HandleFails` | a handler that returns because fopen failed |

Closing a connection changes neither static, so it is no action: a closed
connection is one that has no further `Read`.  `Log` is the refinement mapping:
the numbers of the frames delivered.

`NetmtRecvProofs` has the theorems (below).

### ServerClients

The list with its `next` and `prev` pointers, the heap, the two mutexes, and a
program counter for each of the two threads.  `list_add` is two steps, `Link`
and `Publish`: no reader sees the difference between the first three stores, as
`n` cannot be reached and walks do not read `prev`.  `list_del` is one step for
the same reason.  `Walk` and `Clients` read the list from the head.

`VtyWalk`, `VtyVisit`, `VtyAdvance`, `VtyDone` are one `list_for_each` of any
command; `send` takes the vty mutex around it, the others none.  A failed
`hio_write` of the vty thread only posts the close (`Close` of the loop thread
comes later); one of the loop thread closes at once (`LoopWriteFails`).  A
thread that reads a block that was freed ends the behaviour (`touched`): nothing
is defined after that.

Assumed: stores of a thread are seen in program order (x86-64, no `-O` in
`config.mk`).  `ServerClientsProofs` has the theorems.

### FileTransfer

`send` and `get` from the command to SUCCESS.  Channels are FIFO queues of whole
frames, which is what NetmtRecv shows for one connection per buffer.  A file is
a sequence of blocks; `Block(k, i)` is block i of the file of command k, so a
block in the wrong file is seen.  Sizes count blocks instead of bytes: all of
`filebytes`, `fsize`, `byte_size` are sums of block lengths.

`SendOpen`, `SendBlock`, `SendEnd` are the vty thread's walk with FILE_OPEN, with
each block, and with SEND_END.  `match` is the argument: all clients, one of
them, or the set a group or type names.  `ClientOpen`, `ClientData`, `ClientEnd`,
`ClientGet` are the client's handlers, `ServerOpen`, `ServerData`, `ServerEnd`
the server's.  `fp` is one variable of the server because
`netmtserver.c` and `netmt_servercommand.c` both declare `FILE *fp;` without
`static` or `extern`, so a program that links has one.

`ClientFails` and `ServerDataShort` are the early returns.  A client that failed
handles nothing more in this module: NetmtRecv has what it replays
(`HandleFails`, see "More counterexamples").  `ClientCrashes` is a write to `fp` NULL or closed,
taken as the end of the client's process.

`Patient` says that the operator gives no command while frames of a get are on
their way.  `FileTransferProofs` has the theorems.

### Fifo (abstract) and HvQueue

`HvQueue` is `QUEUE_DECL` of libhv's `queue.h` as `hio_t` uses it for
`write_queue`, through which every frame goes that the socket does not take at
once.  `ptr` is the array, `offset`, `size`, `maxsize` are the fields.
`PushBack` is `write_queue_push_back` with the first allocation by `hio_write`,
the doubling of a full array and the `memmove` at the end of the array;
`PopFront` is `write_queue_pop_front`; `Cleanup` is what `hio_done` does.
All are called under `write_mutex`, so each is one step.  `Fifo` is the promise,
and `HvQueueProofs` has the theorems.

### Hio

One `hio_t` and the connections it serves one after the other, with the loop
thread and the vty thread in `hio_write`, `nio_write` and `hio_close`.  `io` is
the struct, `queue` and `sent` are `write_queue` and the offset of its first
buffer, `timer` is `close_timer` and `strays` the close timers that were lost
from it, `sock`, `watched`, `gone`, `wire` are the kernel's side.  A frame is
two pieces, so that a short write and a frame that was cut in two can be seen.

| Action | Code |
|---|---|
| `VtyCheck`, `VtyQueues`, `VtyWrites`, `VtyFails`, `VtyEnqueues`, `VtyCloses` | `hio_write` of the vty thread, from the test of `closed` to the posted close |
| `LoopReads`, `LoopReplies`, `LoopReplyFails`, `LoopEof`, `LoopHangsUp` | a read event, and what the handler writes or closes in it |
| `LoopWritable`, `LoopSends`, `LoopSendFails`, `LoopDrained` | a write event: `nio_write` |
| `LoopEvent`, `LoopTimer` | a posted close, a close timer |
| `LoopClose`, `LoopDone`, `LoopDel`, `LoopClean`, `LoopCallback`, `LoopCloseFd` | `hio_close`, store by store where the other thread can see them |
| `Accept`, `PeerCloses` | the next connection on the descriptor, the end of this one |

What is done under `write_mutex` is one step, except the enqueue, during which
the stores of `hio_close` outside the mutex can meet it.  Two facts about the
code come out of it: a frame may go to the connection that has the
descriptor next (`hio_late_write`), and a delayed close may start its timer twice
(`rearmed`), of which the first is in nobody's hand any more.  `HioProofs` has the
theorems.

### ExecRemote

`exec shell remote`: `flag` and `buffer` of every client, stored by
`save_result_info_to_buffer` and `handle_endflag` on the loop thread, read,
printed and cleared by `print_all_client_return_info` on the vty thread.  A
buffer is a few cells of one line each; `PrintBegins` (with `strchr` and
`strrchr`), `PrintLine`, `PrintNext`, `PrintRest`, `Memset`, `ClearFlag` are the
steps of the printing, any of which a `Store` may come between.  `PrintCrashes`
is `*current` with `current` NULL.  `late` is the set of clients one of whose
results came after the second its command waited.  `NoLineTwice` leaves out empty
lines: a `'\0'` that a store puts under the printing makes one, and the same
cell can be printed as an empty line and later as itself.  `ExecRemoteProofs` has
the theorems.

### HvHeap and Hloop

`HvHeap` is libhv's heap of `heap.h` with its `parent`, `left`, `right`.  Its sifting
loops are `nelts` rounds that do nothing once the node is in its place; that
so many are enough is proved.  `Hloop` is
a turn of the loop: `Poll`, `ProcessTimer`, and `hloop_process_pendings` as a walk
(`Visit`, `Pass`, `Return`, `ListDone`) over linked lists whose events a callback
may delete (`Del`) or reset (`Reset`) while the walk stands on them.  `PostByte`,
`PostPush` and `HandlePost` are the posted events with their socket pair.  Two
of the priorities are there, one for timers and one for descriptors; `Poll` pends
the ready descriptors in the order epoll_wait gives them in.  `HloopProofs` has the
theorems.

### Control

`register`, the heartbeat and PING.  `conn[f]` is the connection with number f on
the server, with the frames on their way in both directions; `ClientFd` are the
numbers the client's own sockets have, which a heartbeat carries.  `ClockOf(c)` is
the monotonic clock of a client's host, `Age` the difference the server takes,
with its widths.  `ServerPing` stores a pointer as the priority of the listening
io, and `AcceptMisplaced` is what `EVENT_PENDING` makes of it.  `joins` are the
clients whose UDP loop waits in `pthread_join` for a second TCP loop.

The run shows that the answer to a heartbeat can close another client's
connection: the clock of one is far enough ahead that the difference, cast to
int, is a small age, and its fd number is that of the other on the server.
`OnlyAheadClocksHangUp` is as much as holds.  `ControlProofs` has the theorems.

## Runs

| Run | Question | Result |
|---|---|---|
| `recv_one_connection` | does `tcp_recv` cut one stream right, and implement NetmtStream with its liveness? | holds |
| `recv_shared_buffer` | do two connections share `databuf` safely? | no: a frame nobody sent is executed |
| `clients_walks` | is the list sound at every step, and what endangers a walk? | accepts never, closes do |
| `clients_use_after_free` | do the locks protect a walk? | no: there are two |
| `transfer_one_at_a_time` | with a patient operator, does SUCCESS mean a complete copy, and does a send arrive? | holds |
| `transfer_second_send` | is byte_size the size of the file? | not from the second send on |
| `queue_fifo` | does `queue.h` stay inside its array and keep the order? | holds |
| `hio_two_threads` | do two threads that write and a loop that closes keep frames whole and in order, closes and timers to their own connection? | holds, a close timer that was started twice excepted |
| `hio_late_write` | does a frame reach the peer it was written for? | no: `closed` is tested before the mutex is taken |
| `exec_results` | is a result printed whole, once, under any order of stores? | those in time are; a late one can crash the printing thread |
| `hloop_turns` | may callbacks do what they like to timers, and does every timer and posted event get its turn? | yes, `htimer_reset` inside a pass excepted |
| `control_fd_numbers` | do fd numbers of two processes keep clients apart? | for registration yes; a heartbeat's answer may go to, and end, another's connection |

Every property of a passing run is tried on a mutant of the code (an operator
next to the definition it replaces, "Mutant of ..." in the modules) and fails
there.

### More counterexamples

Three configurations are not in the list of runs but stay beside it; TLC ends
each with a counterexample (`tlc -config <name>.cfg <MC module>`):

* `recv_failing_handler` (`MCNetmtRecv`, `FramesIntact`): a handler that returns
  because fopen failed leaves its batch in `databuf`, and the frames before it are
  executed again (`netmtclient.c:313`);
* `clients_leaked_mutex` (`MCServerClients`, `AcceptedIsListed`): after a short fwrite
  the mutex stays locked, and the next accept waits for ever
  (`netmtserver.c:315`);
* `transfer_two_gets` (`MCFileTransfer`, `GetConfirmedIsComplete`): a second get
  shares `fp` and `fsize` with the first, and GET_SUCCESS is sent for a copy that
  is not complete (`netmtserver.c:292`).

### Bounds

* `recv_*`: frames of 5 bytes with `len` in the first two, reads of 1 to 7
  bytes, a buffer of 16.  As in the program (5168, 8192, 20480) a read may
  complete two frames and start a third, and `FrameLen + ReadSize < DataBuf`.
  6 frames per peer let the buffer start at every phase of a frame.
* `clients_*`: 3 blocks (2 in the violation runs), so a walk can stand on the
  first, the middle or the last client while another is removed, freed and
  allocated again.
* `transfer_*`: 2 clients, 2 commands, files of 0 to 2 blocks: a client that is
  meant and one that is not, a command that meets what the one before it left,
  an empty file, a file with a block before the last.
* `queue_fifo`: the array starts with 2 places instead of 4 and holds up to 5
  elements, so it doubles twice and the front stands at every place of each array.

* `hio_*`: 2 connections on the descriptor, 3 writes (2 in the violation run): a
  frame on the wire, one in the queue and one that arrives during a close, and a
  connection that inherits the hio_t.
* `exec_results`: 2 clients, 2 commands, results of up to 2 lines: a late
  result, the one it meets, a walk with somebody behind it, and a line in the
  middle.
* `hloop_turns`: 3 timers (one that repeats without end as heartbeats do, one
  that does not), 1 post, 1 reset, the clock up to 2: two timers in one list and a
  third that a callback adds or removes.  `MCHloop` checks the heap by itself on
  every order of six keys, as it needs three levels to go wrong.
* `control_fd_numbers`: 2 clients, 2 numbers on the server, two of which are also
  numbers in a client, 1 heartbeat, 1 register, 2 PINGs, one loop or connection
  that ends.  Times of 6 bits, ages of 4, in units of 2: the cast wraps.

Deadlock is not checked where the system may stop: peers that have sent all
their commands (`recv_*`), a server that has used freed memory (`clients_*`),
commands that are used up (`transfer_*`, `exec_results`), writes, connections and
clocks at their bounds (`hio_*`, `hloop_turns`, `control_fd_numbers`), a process that
has crashed.

### Fairness

`WF` of the handlers of `NetmtRecv` (a handler that runs ends) and of the reads
of each connection (TCP delivers, `poll` is level triggered); of `Handler` and
`Command` of `ServerClients` (the kernel schedules both threads); of the vty
thread, of each client and of the server's handling of each client in
`FileTransfer`.  `Hio` assumes `WF` of the vty thread, of the steps of a close,
of posted closes, of timers, and of sending while the peer reads: `QueuedIsSent`
needs the last, `DelayedCloseEnds` does not, that is what the timer is for.
`Hloop` assumes that the loop thread runs, that callbacks return, and that a thread
inside `custom_events_mutex` leaves it.  `ExecRemote` and `Control` state safety only.
New connections, closes, failures and commands have none.
Strong fairness is not used: a thread that waits for a mutex does so in a state
nothing else leaves, or (ServerClients) the mutex is the loop's alone.

## Proofs

`NetmtRecvProofs` proves about `NetmtRecv`, for every frame length, read size,
buffer size and number of frames that satisfy `LenAssumption`, `ConnAssumption`
and `BufAssumption`, and one connection (`Conns = {c}`, as in the client; for two
the properties are false, `recv_shared_buffer`):

* `Invariance`: `Spec => []Inv`;
* `TypeCorrect`, `BufferNeverOverrun`, `NoFrameEverLeftBehind`,
  `FramesAlwaysIntact`: the four invariants of `recv_one_connection`;
* `StreamImplemented`: every behaviour is one of `NetmtStream` (its safety part)
  under `Log`.

`FramesIntact` is not inductive by itself: it says nothing of the bytes that are
in the buffer.  `Inv` adds `Pending` (the bytes received and not delivered lie at
`tembuf` in the order of the stream, the first of them the first byte of a
frame) and `Control` (between calls less than a frame is left; inside the loop at
least a whole one; `tembuf + bytelen` stays below `FrameLen + ReadSize`).
`IncompleteMeans` is the lemma that carries it: with b > 0 bytes
of a frame at a place, `comm->len > b` tells exactly that the frame is not whole,
also when only one of the two bytes of `len` has arrived and the other reads
whatever was there before.  That needs `LenLo >= 2` (48 in the program): one byte
alone must not read as a length of 1.  With b = 0 the check reads stale bytes
only; if they are 0 the loop ends on `bytelen != 0` (`HandleDrained`).  `HeaderDigits` and `StartsDiffer`
are why a byte's place in the stream decides what `len` reads.

`HvQueueProofs` proves about `HvQueue`, for all elements, every initial length
(`QueueAssumption`) and every bound: `QueueTypeCorrect`, `QueueInsideArray` and
`QueueImplementsFifo` (of these, `TypeOK` has the theorem only and is in no run).
The invariant is `InsideArray` with the types and with
"every place of the queue holds an element"; `PushedContent` and `PoppedContent`
say what each place of the queue holds after a step, which is what the
refinement needs.  The full array is the case to see: `push_back` does not test
`_offset` there, and need not, as `offset + size <= maxsize` leaves only
`offset = 0`.

`ControlProofs` proves about `Control`, for any clients, any numbers `accept` and
`socket` give, any clocks and widths that satisfy `ControlAssumption`, and every
bound: `ControlInvariance`, `RegistrationIsOwn`, `HungUpByAheadClocks` and
`ControlTypes`.  What is
stored by a number is right only because of what is on its way, so the invariant
`Inv` speaks of the queues: a REGISTER frame behind fd f carries f and the data of f's
peer (a number is used again only after the connection and its frames are gone),
a heartbeat on its way to the server was sent in the past of its client's clock,
and one on its way back was stamped after it was sent, up to that clock's lead.
Each action has a lemma; `PutUp`, `TakeUp` and their like say what a queue keeps.
`TypeOK` relates the list, the open connections, the clients' sockets and
`pthread_join`; beside `Inv` it takes `TypeInv`, which adds that a walk of the vty
thread has no client twice, as the close of one would leave the second there.

`ServerClientsProofs` proves about `ServerClients`, for any number of blocks, walks,
accepts and closes: `TypeCorrect`, `ChainAlwaysSound`, `ListAlwaysOpenConnections`,
`BroadcastsOnce`, `ClosesAloneEndanger`.  The invariant says that there is a
sequence of blocks which the pointers spell, forward and backward, also between
the stores of `list_add`, that the heap is what is in it and the client in the loop
thread's hand, and where in it each walk stands (`ListIs`); `Freed` says which thread may have touched
a free block.  `Walk`, which the
model uses to read the list, is a recursive function; that it follows the sequence
is shown on the least index at which it would not.

`ExecRemoteProofs` proves about `ExecRemote`, for any clients, commands, lines and
cells: `ExecTypes`, `LinesPrintedOnce`, `CrashesAreLate`, `PromptAnswersPrinted`.
The invariant says of every client what `flag` and `buffer` can hold at each
place of the two threads: `Fresh` (a client has each command once, in its shell or
among its results), `Once` (a line that was printed is stored no more, and lies
before the place of the printing if it is in the buffer still) and `Prompt` (while
no result of the client was late, its buffer holds the result of the command that
waits, whole, until it is printed).

`FileTransferProofs` proves about `FileTransfer`, for any clients, commands, files
and block counts: `TransferInvariant`, `TransferTypes`, `ConfirmedCopiesAreComplete`,
`CrashesAreLateClients`, `ServerUsesOpenFiles`.  All have the hypothesis `Patient`, the
constant by which the operator waits for a get to end: without it
`transfer_two_gets` is a counterexample.  The invariant says what is
on its way: the frames to a client continue what its copy has (`Chain`, `At`), those to the
server belong to the one get there is and continue what the server's copy has
(`Reply`, `Answer`), and the vty thread's place in the file is what the clients
it has served were sent.

`HioProofs` proves about `Hio`, for any number of connections on the descriptor, of writes
and of frames, and every way the socket may split them: `HioInvariant`, `HioTypes`,
`FramesStayInOrder`, `QueuesAreWatched`, `ClosedConnectionsAreForgotten`,
`PostedClosesEndTheirOwn`.  The last is an action property.  `Types` holds always, the
rest (`Calm`) as long as no connection was closed in the middle of a `hio_write` of
the other thread: `hio_late_write` is what happens otherwise.  `Calm` has five parts:
`Life` (the struct's flags at each place of the two threads), `Watching` (who waits for the
socket to take more), `Timing` (which timers are whose), `Posting` (which posted
closes are there, and for which connection) and `Streaming` (what is on the wire,
what is queued and what a thread holds are together the pieces of whole frames, in
order).  The lemmas from `OneFlattening` to `StreamSends` are the arithmetic of
pieces.

`HloopProofs` proves about `Hloop`, for any number and kinds of timers, any clock and
any number of posts and resets: `HloopInvariant`, `HloopTypes`,
`HeapAlwaysHoldsTheTimers`, `CrashesAreResetTimers`, `PostsAlwaysInOrder` and the
action properties `DeletedTimersNeverFire` and `DueTimersAreTaken`.  `MCHloop` tries the heap on six
nodes and the run on three; the proof is of every size, in two parts.

* The heap.  `HeapOf(h, key, S)` says that there is a sequence of the timers in S,
  the nodes in level order, that every pointer of h spells (`Tree`) and along which no
  key is below one it must not be below (`Ordered`).  The operations are followed on
  the sequence: `SwapTree` says that the stores of `heap_swap` exchange two
  places of it, `LinkedTree` that `heap_insert` adds one behind the last,
  `ReplacedTree` that `heap_remove` puts the last in the place of the one that goes.
  While a node sifts the order fails at its place only: `Around` (the nodes around it are in order
  without it), `Below` and `Above` (on which side it is not out of order).
  `UpStep` and `DownStep` are one round, `SiftedUp` and `SiftedDown` all of them;
  the place halves or grows in every round, so `nelts` rounds end it.
  `HeapContents` goes back from the sequence to `IsHeap` and `Members`, as the
  run checks them; `RootIsEarliest` is what the loop needs of the order, as it looks
  at the root only to know that nothing is due.
* The loop.  `HeapHolds` says that the heap is one of the timers that wait;
  `Lives` which states a pending and a deleted event can have; `Chains` that each list is a
  chain without a cycle, which holds exactly what is pending before the walk
  (`Whole`) and, during it, from `cur` on all that is pending and else only timers that were
  reset (`Rest`): that is why nothing but a reset leads to a freed event;
  `OneShots` that a timer that has fired for the last time is under its own callback or
  freed; `Posted` that `handled` and `custom_events` together are the events posted so far.

The provers know no induction over data: where a recursive function is unfolded
(`Walk`, the flattening of the queue) the least natural number at which two
functions differ is taken from the set of those (`WFMin`), and shown not to be one.

Only model-checked are

* every temporal property (liveness under fairness is beyond the prover), with
  the liveness half of `ImplementsStream`: `AcceptedIsListedUnlessLeaked`,
  `SendArrives`, `FirstSendIsConfirmed`, `QueuedIsSent`, `DelayedCloseEnds` and
  `NothingWaitsForEver`;
* what the violation runs and the other counterexamples refute.

## Plan

Modelled so far, in the order of their weight: the receive path, the list of
clients, file transfer, the write queue, connections, remote execution, the
loop, registration and heartbeat.  What is left:

1. Proofs: every invariant of the passing runs has its theorem.  Left are the
   safety halves of the temporal properties (what `Hio` and `ServerClients` need
   for a queue or an accept to end).
2. `FileTransfer`: frames of one batch (the freed `sendbuf`), clients that begin
   to match a group during a send.
3. `Control`: the two TCP loops of a client as two threads over one `databuf`.
4. `IniChain`, the chain manager of the INI library.

## Not modelled

Parsing and printing of the vty, command strings and popen, logging, `daemon_init`
and `main` (sequential set-up), the INI files, the parts of libhv that netmt does
not call (http, evpp, ssl, consul) and those it calls without depending on their
order (idles, period timers, UDP).  Vendored code, which is most of the repository's
lines, is modelled only where netmt's behaviour hangs on it.
