------------------------------ MODULE MCHloop ------------------------------
(***************************************************************************)
(* Hloop for TLC: every use of a few timers by callbacks, while another    *)
(* thread posts.                                                           *)
(***************************************************************************)
EXTENDS Hloop

\* The timers of hio_t: the client's heartbeat, and connect_timer or close_timer.
HioTimers == {<<1, Infinite>>, <<2, 1>>}

\* heap.h on trees larger than the timers of a run: six nodes, two of them with
\* the same key, added in every order, and any one removed.
Six == 1 .. 6
SixKeys == <<1, 2, 3, 3, 4, 5>>

\* The heaps that the nodes of S, added in any order, may form.
RECURSIVE Built(_)
Built(S) ==
    IF S = {} THEN {EmptyHeap(Six)}
    ELSE UNION {{HeapInsert(h, SixKeys, v) : h \in Built(S \ {v})} : v \in S}

\* push and erase of heap.h keep the tree complete, its pointers in agreement
\* and its keys in order, and lose no other node.
ASSUME HeapOfSix ==
    \A h \in Built(Six) : \A v \in Six :
        \A g \in {HeapRemove(h, SixKeys, v)} :
            IsHeap(g, SixKeys) /\ Members(g) = Six \ {v}
=============================================================================
