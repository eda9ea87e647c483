--------------------------- MODULE ServerClients ---------------------------
(***************************************************************************)
(* t_server.clients, the server's list of connected clients, shared by two *)
(* threads without a common lock.  The TCP loop thread adds a client in    *)
(* netmt_accept, removes and frees it in netmt_close, and walks the list   *)
(* in tcp_recv (HEARTBEAT, REGISTER, GET_END); the vty thread walks it in  *)
(* every command (send, get, register, exec, show).  Each of the two       *)
(* source files declares its own `static hmutex_t s_mutex'.                *)
(*                                                                         *)
(* Stores of one thread are seen in program order (the target is x86-64);  *)
(* those that no other thread can see before a later one are one step.     *)
(***************************************************************************)
EXTENDS Naturals, Sequences, FiniteSets

CONSTANT
    Nodes           \* bound: the addresses malloc has for io_t blocks

ListHead == "head"      \* &t_server.clients
Null == "null"
Links == Nodes \cup {ListHead}

LoopMutex == "netmtserver.c:30"
VtyMutex == "netmt_servercommand.c:11"

ASSUME NodesAssumption == IsFiniteSet(Nodes) /\ Links \cap {Null} = {} /\ ListHead \notin Nodes

VARIABLES
    nxt, prv,       \* list_node.next and .prev of the head and of every block
    heap,           \* the blocks that are allocated
    userdata,       \* the blocks an open connection's hevent_userdata points to
    owner,          \* owner[m]: the thread that holds mutex m, or "none"
    lpc,            \* where the loop thread is
    lnode,          \* the io_t its accept or close handler works on
    lcur,           \* `node' of a list_for_each of the loop thread, else Null
    vpc,            \* where the vty thread is
    vcur,           \* `node' of its list_for_each
    closed,         \* history: a client was closed while the vty walk ran
    visited,        \* history: the clients that walk wrote to, until a close
    present,        \* history: the list when that walk began, until a close
    short,          \* history: a handler returned with the mutex locked
    touched         \* the threads that used a block that was freed

loopVars == <<lpc, lnode, lcur>>
vtyVars == <<vpc, vcur, visited, present>>
vars == <<nxt, prv, heap, userdata, owner, loopVars, vtyVars, closed, short, touched>>

\* Following next from the head: the first blocks of the list, up to |Nodes|.
Walk[i \in Nat] ==
    IF i = 0 THEN nxt[ListHead]
    ELSE IF Walk[i - 1] \in Nodes THEN nxt[Walk[i - 1]] ELSE Walk[i - 1]

\* The list as a sequence, when it is one.
ListLength == Cardinality({i \in 0 .. Cardinality(Nodes) : Walk[i] \in Nodes})
Clients == [i \in 1 .. ListLength |-> Walk[i - 1]]
-----------------------------------------------------------------------------
Init ==
    /\ nxt = [l \in Links |-> IF l = ListHead THEN ListHead ELSE Null]
    /\ prv = [l \in Links |-> IF l = ListHead THEN ListHead ELSE Null]
    /\ heap = {} /\ userdata = {}
    /\ owner = [m \in {LoopMutex, VtyMutex} |-> "none"]
    /\ lpc = "poll" /\ lnode = Null /\ lcur = Null
    /\ vpc = "prompt" /\ vcur = Null
    /\ visited = <<>> /\ present = <<>>
    /\ closed = FALSE /\ short = FALSE /\ touched = {}

\* A process that has used freed memory goes on in no defined way.
Defined == touched = {}

Acquire(m, t) == owner[m] = "none" /\ owner' = [owner EXCEPT ![m] = t]
Release(m) == owner' = [owner EXCEPT ![m] = "none"]
-----------------------------------------------------------------------------
(* netmt_accept *)

\* A connection is accepted and its io_t allocated and zeroed.
Accept(n) ==
    /\ Defined /\ lpc = "poll" /\ n \in Nodes \ heap
    /\ heap' = heap \cup {n}
    /\ nxt' = [nxt EXCEPT ![n] = Null]
    /\ prv' = [prv EXCEPT ![n] = Null]
    /\ userdata' = userdata \cup {n}
    /\ lnode' = n
    /\ lpc' = "accept lock"
    /\ UNCHANGED <<owner, lcur, vtyVars, closed, short, touched>>

AcceptLock ==
    /\ Defined /\ lpc = "accept lock"
    /\ Acquire(LoopMutex, "loop")
    /\ lpc' = "link"
    /\ UNCHANGED <<nxt, prv, heap, userdata, lnode, lcur, vtyVars, closed, short, touched>>

\* Mutant of Link: n->next = next is left out.
LinkWithoutNext ==
    /\ Defined /\ lpc = "link"
    /\ prv' = [prv EXCEPT ![nxt[ListHead]] = lnode, ![lnode] = ListHead]
    /\ lpc' = "publish"
    /\ UNCHANGED <<nxt, heap, userdata, owner, lnode, lcur, vtyVars, closed, short, touched>>

\* __list_add: next->prev = n; n->next = next; n->prev = prev.  No walk can
\* come to n yet, and walks do not read prev.
Link ==
    /\ Defined /\ lpc = "link"
    /\ prv' = [prv EXCEPT ![nxt[ListHead]] = lnode, ![lnode] = ListHead]
    /\ nxt' = [nxt EXCEPT ![lnode] = nxt[ListHead]]
    /\ lpc' = "publish"
    /\ UNCHANGED <<heap, userdata, owner, lnode, lcur, vtyVars, closed, short, touched>>

\* __list_add: prev->next = n, and the unlock.
Publish ==
    /\ Defined /\ lpc = "publish"
    /\ nxt' = [nxt EXCEPT ![ListHead] = lnode]
    /\ Release(LoopMutex)
    /\ lpc' = "poll"
    /\ lnode' = Null
    /\ UNCHANGED <<prv, heap, userdata, lcur, vtyVars, closed, short, touched>>
-----------------------------------------------------------------------------
(* netmt_close: by the peer, or inside hio_write when that fails *)

Walking == vpc \in {"visit", "advance"}

\* Mutant of BeginClose: the connection keeps its hevent_userdata.
BeginCloseKeepsUserdata(n) ==
    /\ lnode' = n
    /\ lpc' = "close lock"
    /\ closed' = (closed \/ Walking)
    /\ visited' = <<>> /\ present' = <<>>
    /\ UNCHANGED <<nxt, prv, heap, userdata, owner, lcur, vpc, vcur, short, touched>>

\* hevent_set_userdata(io, NULL).
BeginClose(n) ==
    /\ userdata' = userdata \ {n}
    /\ lnode' = n
    /\ lpc' = "close lock"
    /\ closed' = (closed \/ Walking)
    /\ visited' = <<>> /\ present' = <<>>
    /\ UNCHANGED <<nxt, prv, heap, owner, lcur, vpc, vcur, short, touched>>

Close(n) == Defined /\ lpc = "poll" /\ n \in userdata /\ BeginClose(n)

CloseLock ==
    /\ Defined /\ lpc = "close lock"
    /\ Acquire(LoopMutex, "loop")
    /\ lpc' = "unlink"
    /\ UNCHANGED <<nxt, prv, heap, userdata, lnode, lcur, vtyVars, closed, short, touched>>

\* Mutant of Unlink: prev->next = next only.
UnlinkForwardOnly ==
    /\ Defined /\ lpc = "unlink"
    /\ nxt' = [nxt EXCEPT ![prv[lnode]] = nxt[lnode]]
    /\ Release(LoopMutex)
    /\ lpc' = "free"
    /\ UNCHANGED <<prv, heap, userdata, lnode, lcur, vtyVars, closed, short, touched>>

\* Mutant of Unlink: the handler returns without hmutex_unlock.
UnlinkWithoutUnlock ==
    /\ Defined /\ lpc = "unlink"
    /\ prv' = [prv EXCEPT ![nxt[lnode]] = prv[lnode]]
    /\ nxt' = [nxt EXCEPT ![prv[lnode]] = nxt[lnode]]
    /\ lpc' = "free"
    /\ UNCHANGED <<heap, userdata, owner, lnode, lcur, vtyVars, closed, short, touched>>

\* __list_del: next->prev = prev; prev->next = next.  And the unlock.
Unlink ==
    /\ Defined /\ lpc = "unlink"
    /\ prv' = [prv EXCEPT ![nxt[lnode]] = prv[lnode]]
    /\ nxt' = [nxt EXCEPT ![prv[lnode]] = nxt[lnode]]
    /\ Release(LoopMutex)
    /\ lpc' = "free"
    /\ UNCHANGED <<heap, userdata, lnode, lcur, vtyVars, closed, short, touched>>

\* HV_FREE(client).  A walk of the loop thread goes on after a failed write.
Free ==
    /\ Defined /\ lpc = "free"
    /\ heap' = heap \ {lnode}
    /\ lnode' = Null
    /\ lpc' = IF lcur = Null THEN "poll" ELSE "walk"
    /\ UNCHANGED <<nxt, prv, userdata, owner, lcur, vtyVars, closed, short, touched>>
-----------------------------------------------------------------------------
(* tcp_recv: the handlers that walk the list, and the one that locks *)

\* list_for_each of HEARTBEAT, REGISTER and GET_END begins.
LoopWalk ==
    /\ Defined /\ lpc = "poll"
    /\ lcur' = nxt[ListHead]
    /\ lpc' = "walk"
    /\ UNCHANGED <<nxt, prv, heap, userdata, owner, lnode, vtyVars, closed, short, touched>>

\* node = node->next, whether the client at node was the one meant or not.
LoopWalkNext ==
    /\ Defined /\ lpc = "walk" /\ lcur \in heap
    /\ lcur' = nxt[lcur]
    /\ UNCHANGED <<nxt, prv, heap, userdata, owner, lpc, lnode, vtyVars, closed, short, touched>>

\* hio_write to the client at node meets an error and closes it: hio_close,
\* called in the loop's own thread, runs netmt_close at once.
LoopWriteFails ==
    /\ Defined /\ lpc = "walk" /\ lcur \in userdata
    /\ BeginClose(lcur)

LoopWalkEnd ==
    /\ Defined /\ lpc = "walk" /\ lcur = ListHead
    /\ lcur' = Null
    /\ lpc' = "poll"
    /\ UNCHANGED <<nxt, prv, heap, userdata, owner, lnode, vtyVars, closed, short, touched>>

\* node->next of a client the walk has just freed.
LoopTouchesFreed ==
    /\ Defined /\ lpc = "walk" /\ lcur \notin heap \cup {ListHead}
    /\ touched' = {"loop"}
    /\ UNCHANGED <<nxt, prv, heap, userdata, owner, loopVars, vtyVars, closed, short>>

\* A NETMT_GET NETMT_DATA frame arrives: hmutex_lock.
Data ==
    /\ Defined /\ lpc = "poll" /\ userdata # {}
    /\ lpc' = "data lock"
    /\ UNCHANGED <<nxt, prv, heap, userdata, owner, lnode, lcur, vtyVars, closed, short, touched>>

DataLock ==
    /\ Defined /\ lpc = "data lock"
    /\ Acquire(LoopMutex, "loop")
    /\ lpc' = "fwrite"
    /\ UNCHANGED <<nxt, prv, heap, userdata, lnode, lcur, vtyVars, closed, short, touched>>

\* fwrite writes the whole block: hmutex_unlock.
DataWritten ==
    /\ Defined /\ lpc = "fwrite"
    /\ Release(LoopMutex)
    /\ lpc' = "poll"
    /\ UNCHANGED <<nxt, prv, heap, userdata, lnode, lcur, vtyVars, closed, short, touched>>

\* fwrite writes less: tcp_recv returns with the mutex locked.
DataShort ==
    /\ Defined /\ lpc = "fwrite"
    /\ lpc' = "poll"
    /\ short' = TRUE
    /\ UNCHANGED <<nxt, prv, heap, userdata, owner, lnode, lcur, vtyVars, closed, touched>>
-----------------------------------------------------------------------------
(* The vty thread: any command's list_for_each *)

\* Mutant of VtyWalk: the walk begins behind the first client.
VtyWalkSkipsFirst ==
    /\ Defined /\ vpc = "prompt"
    /\ Acquire(VtyMutex, "vty") \/ UNCHANGED owner
    /\ vcur' = nxt[nxt[ListHead]]
    /\ vpc' = "visit"
    /\ visited' = <<>>
    /\ closed' = (lpc \in {"close lock", "unlink", "free"})
    /\ present' = IF closed' THEN <<>> ELSE Clients
    /\ UNCHANGED <<nxt, prv, heap, userdata, loopVars, short, touched>>

\* A command walks the list: send holds a mutex meanwhile, the others do not.
VtyWalk ==
    /\ Defined /\ vpc = "prompt"
    /\ Acquire(VtyMutex, "vty") \/ UNCHANGED owner
    /\ vcur' = nxt[ListHead]
    /\ vpc' = "visit"
    /\ visited' = <<>>
    /\ closed' = (lpc \in {"close lock", "unlink", "free"})
    /\ present' = IF closed' THEN <<>> ELSE Clients
    /\ UNCHANGED <<nxt, prv, heap, userdata, loopVars, short, touched>>

\* conn->io is read and the client written to; an error of hio_write only
\* posts the close to the loop thread.
VtyVisit ==
    /\ Defined /\ vpc = "visit" /\ vcur \in heap
    /\ visited' = IF closed THEN <<>> ELSE Append(visited, vcur)
    /\ vpc' = "advance"
    /\ UNCHANGED <<nxt, prv, heap, userdata, owner, loopVars, vcur, present, closed, short, touched>>

\* node = node->next
VtyAdvance ==
    /\ Defined /\ vpc = "advance" /\ vcur \in heap
    /\ vcur' = nxt[vcur]
    /\ vpc' = "visit"
    /\ UNCHANGED <<nxt, prv, heap, userdata, owner, loopVars, visited, present, closed, short, touched>>

VtyDone ==
    /\ Defined /\ vpc = "visit" /\ vcur = ListHead
    /\ owner' = [owner EXCEPT ![VtyMutex] = "none"]
    /\ vcur' = Null
    /\ vpc' = "prompt"
    /\ visited' = <<>> /\ present' = <<>> /\ closed' = FALSE
    /\ UNCHANGED <<nxt, prv, heap, userdata, loopVars, short, touched>>

\* The walk comes to a block that was freed (or to the zeroed next of one that
\* was freed and allocated again).
VtyTouchesFreed ==
    /\ Defined /\ Walking /\ vcur \notin heap \cup {ListHead}
    /\ touched' = {"vty"}
    /\ UNCHANGED <<nxt, prv, heap, userdata, owner, loopVars, vtyVars, closed, short>>
-----------------------------------------------------------------------------
\* One line per place the loop thread can be at, once a handler has begun.
Handler ==
    \/ AcceptLock \/ Link \/ Publish
    \/ CloseLock \/ Unlink \/ Free
    \/ LoopWalkNext \/ LoopWalkEnd \/ LoopTouchesFreed
    \/ DataLock \/ DataWritten \/ DataShort

Loop ==
    \/ \E n \in Nodes : Accept(n) \/ Close(n)
    \/ LoopWalk \/ LoopWriteFails \/ Data
    \/ Handler

Command == VtyVisit \/ VtyAdvance \/ VtyDone \/ VtyTouchesFreed

Next == Loop \/ VtyWalk \/ Command

\* Both threads are scheduled: a handler and a command that have begun run on.
Spec == Init /\ [][Next]_vars /\ WF_vars(Handler) /\ WF_vars(Command)
-----------------------------------------------------------------------------
TypeOK ==
    /\ nxt \in [Links -> Links \cup {Null}] /\ prv \in [Links -> Links \cup {Null}]
    /\ heap \subseteq Nodes /\ userdata \subseteq heap
    /\ owner \in [{LoopMutex, VtyMutex} -> {"none", "loop", "vty"}]
    /\ lpc \in {"poll", "accept lock", "link", "publish", "close lock", "unlink",
                "free", "walk", "data lock", "fwrite"}
    /\ lnode \in Nodes \cup {Null} /\ lcur \in Links \cup {Null}
    /\ vpc \in {"prompt", "visit", "advance"} /\ vcur \in Links \cup {Null}
    /\ visited \in Seq(Nodes) /\ present \in Seq(Nodes)
    /\ closed \in BOOLEAN /\ short \in BOOLEAN /\ touched \subseteq {"loop", "vty"}

Listed == {Clients[i] : i \in DOMAIN Clients}

\* At every moment, also between the stores of list_add and list_del, a walk
\* that starts at the head meets live clients only and comes back to the head.
ForwardChainSound ==
    /\ Walk[Cardinality(Nodes)] = ListHead
    /\ Listed \subseteq heap

\* When the loop thread polls, the list is the set of open connections, every
\* io_t that is allocated is on it, and it reads the same backwards.
ListIsOpenConnections ==
    lpc = "poll" =>
        /\ Listed = userdata /\ Listed = heap
        /\ \A l \in Listed \cup {ListHead} : prv[nxt[l]] = l

\* A command that finishes although no client was closed meanwhile has written
\* to each client once, in list order, whoever else was accepted meanwhile.
BroadcastOnce ==
    (vpc = "visit" /\ vcur = ListHead /\ ~ closed) => visited = present

\* Freed memory is used only after a close: to accept clients during a walk,
\* with no common lock, is safe.
OnlyClosesEndangerWalks ==
    /\ touched = {"vty"} => closed
    /\ touched = {"loop"} => lcur \notin heap /\ lcur \notin userdata

\* Every handler that locks the loop's mutex but the one whose fwrite was short
\* unlocks it: an accepted client comes into the list, unless that happened or
\* a thread of the server has used freed memory.
AcceptedIsListedUnlessLeaked ==
    \A n \in Nodes :
        (lpc = "accept lock" /\ lnode = n) ~> (n \in Listed \/ short \/ ~ Defined)

\* An accepted client comes into the list.
AcceptedIsListed ==
    \A n \in Nodes : (lpc = "accept lock" /\ lnode = n) ~> (n \in Listed \/ ~ Defined)

\* The clients' list is used under a lock: no thread uses a freed client.
NoUseAfterFree == touched = {}
=============================================================================
