------------------------------- MODULE Hloop -------------------------------
(***************************************************************************)
(* The event loop of libhv: one turn polls the descriptors, takes the due  *)
(* timers from the heap, and runs the callbacks of what is pending, from   *)
(* high to low priority, through lists whose events a callback may delete  *)
(* or reset.  Another thread posts events through the socket pair.         *)
(*                                                                         *)
(* The descriptors are Pair, the read end of the socket pair, and Sock,    *)
(* which stands for the connections.  Time passes while the loop polls.    *)
(***************************************************************************)
EXTENDS HvHeap, Sequences, SequencesExt

CONSTANTS
    Kinds,      \* the timers callbacks add: <<timeout, repeat>>
    NumTimers,  \* bound: timers ever added
    MaxTime,    \* bound: the clock
    MaxPosts,   \* bound: posted events
    MaxResets   \* bound: calls of htimer_reset

ASSUME HloopAssumption ==
    /\ {NumTimers, MaxTime, MaxPosts, MaxResets} \subseteq Nat
    /\ Kinds \subseteq (Nat \ {0}) \X {1, 2}

Timers == 1 .. NumTimers
Pair == NumTimers + 1
Sock == NumTimers + 2
Ios == {Pair, Sock}
Events == Timers \cup Ios
Infinite == 2               \* INFINITE as a repeat, which is 1 otherwise
NewTimer == [repeat |-> 1, timeout |-> 1, destroy |-> FALSE]

VARIABLES
    heap,       \* loop->timers
    next_timeout,
    timer,      \* repeat, timeout and destroy of each timer
    ntimers,    \* loop->ntimers
    status,     \* of each event: "new", "active", "inactive" or "freed"
    pending,    \* the events with the bit set
    head,       \* loop->pendings: the list of the timers, the list of the ios
    pending_next,
    loop,       \* where the loop thread is
    cur, next,  \* the variables of hloop_process_pendings
    now,        \* cur_hrtime
    bytes,      \* in the socket pair
    custom,     \* custom_events
    locked,     \* the poster is inside custom_events_mutex
    posts,      \* number of calls of hloop_post_event
    handled,    \* history: the posted events handled
    fired,      \* history: timers whose callback has begun
    deleted,    \* history: timers given to htimer_del
    resets,     \* number of calls of htimer_reset
    unlinked    \* history: timers reset while they were in a list

timerState == <<heap, next_timeout, timer, ntimers>>
lists == <<pending, head, pending_next>>
posting == <<bytes, custom, locked, posts, handled>>
history == <<fired, deleted, resets, unlinked>>
vars == <<timerState, status, lists, loop, cur, next, now, posting, history>>

Level(ev) == IF ev \in Timers THEN "timers" ELSE "ios"

Init ==
    /\ heap = EmptyHeap(Timers) /\ next_timeout = [t \in Timers |-> 0]
    /\ timer = [t \in Timers |-> NewTimer] /\ ntimers = 0
    /\ status = [ev \in Events |-> IF ev \in Ios THEN "active" ELSE "new"]
    /\ pending = {} /\ head = [timers |-> Null, ios |-> Null]
    /\ pending_next = [ev \in Events |-> Null]
    /\ loop = "turn" /\ cur = Null /\ next = Null /\ now = 0
    /\ bytes = 0 /\ custom = <<>> /\ locked = FALSE /\ posts = 0 /\ handled = <<>>
    /\ fired = {} /\ deleted = {} /\ resets = 0 /\ unlinked = {}
-----------------------------------------------------------------------------
\* The state of the lists, and EVENT_PENDING of one event.
Lists == [pending |-> pending, head |-> head, pending_next |-> pending_next]

\* A mutant: the head is replaced, what was behind it is lost.
PendedAlone(l, ev) ==
    IF ev \in l.pending \cup {Null} THEN l
    ELSE [pending |-> l.pending \cup {ev},
          head |-> [l.head EXCEPT ![Level(ev)] = ev],
          pending_next |-> [l.pending_next EXCEPT ![ev] = Null]]

Pended(l, ev) ==
    IF ev \in l.pending \cup {Null} THEN l
    ELSE [pending |-> l.pending \cup {ev},
          head |-> [l.head EXCEPT ![Level(ev)] = ev],
          pending_next |-> [l.pending_next EXCEPT ![ev] = l.head[Level(ev)]]]

SetLists(l) == pending' = l.pending /\ head' = l.head /\ pending_next' = l.pending_next

Due == heap.root # Null /\ next_timeout[heap.root] <= now

\* hloop_process_events: poll, unless a timer is due.  What is ready is pended in
\* the order epoll_wait gives it in.
Poll(first, second, time) ==
    /\ loop = "turn" /\ ~ Due
    /\ now' = time
    /\ Pair \in {first, second} <=> bytes > 0
    /\ SetLists(Pended(Pended(Lists, first), second))
    /\ loop' = "timers"
    /\ UNCHANGED <<timerState, status, cur, next, posting, history>>

\* hloop_process_timers: the root of the heap, if it is due.  If it is due before
\* the turn, there is no poll.
Later(t) == now + timer[t].timeout - ((now - next_timeout[t]) % timer[t].timeout)

\* A mutant: the key changes while the timer stays at the root.
ProcessTimerInPlace ==
    /\ loop \in {"turn", "timers"} /\ Due
    /\ loop' = "timers"
    /\ LET t == heap.root IN
       /\ IF timer[t].repeat = Infinite
          THEN /\ next_timeout' = [next_timeout EXCEPT ![t] = Later(t)]
               /\ UNCHANGED <<heap, timer, ntimers>>
          ELSE /\ heap' = HeapRemove(heap, next_timeout, t)
               /\ ntimers' = ntimers - 1
               /\ timer' = [timer EXCEPT ![t].repeat = 0, ![t].destroy = TRUE]
               /\ UNCHANGED next_timeout
       /\ SetLists(Pended(Lists, t))
    /\ UNCHANGED <<status, cur, next, now, posting, history>>

ProcessTimer ==
    /\ loop \in {"turn", "timers"} /\ Due
    /\ loop' = "timers"
    /\ LET t == heap.root
           removed == HeapRemove(heap, next_timeout, t)
           keys == [next_timeout EXCEPT ![t] = Later(t)] IN
       /\ IF timer[t].repeat = Infinite
          THEN /\ next_timeout' = keys
               /\ heap' = HeapInsert(removed, keys, t)
               /\ UNCHANGED <<timer, ntimers>>
          ELSE /\ heap' = removed
               /\ ntimers' = ntimers - 1
               /\ timer' = [timer EXCEPT ![t].repeat = 0, ![t].destroy = TRUE]
               /\ UNCHANGED next_timeout
       /\ SetLists(Pended(Lists, t))
    /\ UNCHANGED <<status, cur, next, now, posting, history>>

TimersDone ==
    /\ loop = "timers" /\ ~ Due
    /\ loop' = "pendings-timers" /\ cur' = head["timers"]
    /\ UNCHANGED <<timerState, status, lists, next, now, posting, history>>
-----------------------------------------------------------------------------
\* hloop_process_pendings.  A process that reads a freed event has crashed.
Walking == [timers |-> "pendings-timers", ios |-> "pendings-ios"]
Calling == [timers |-> "callback-timers", ios |-> "callback-ios"]
AtList(level) == loop = Walking[level]

\* HV_FREE: nothing of the timer is left.
Free(t) ==
    /\ status' = [status EXCEPT ![t] = "freed"]
    /\ timer' = [timer EXCEPT ![t] = NewTimer]
    /\ next_timeout' = [next_timeout EXCEPT ![t] = 0]

\* The bit is cleared, an event marked as destroyed is freed; then follows nxt.
Leave(level, nxt) ==
    /\ pending' = pending \ {cur}
    /\ IF cur \in pending \cap Timers /\ timer[cur].destroy
       THEN Free(cur)
       ELSE UNCHANGED <<status, timer, next_timeout>>
    /\ cur' = nxt
    /\ loop' = Walking[level]

\* A mutant: without the test of active.
VisitInactive(level) ==
    /\ AtList(level) /\ cur # Null /\ status[cur] # "freed"
    /\ cur \in pending
    /\ next' = pending_next[cur]
    /\ loop' = Calling[level]
    /\ fired' = IF cur \in Timers THEN fired \cup {cur} ELSE fired
    /\ UNCHANGED <<timerState, status, lists, cur, now, posting, deleted, resets, unlinked>>

Visit(level) ==
    /\ AtList(level) /\ cur # Null /\ status[cur] # "freed"
    /\ cur \in pending /\ status[cur] = "active"
    /\ next' = pending_next[cur]
    /\ loop' = Calling[level]
    /\ fired' = IF cur \in Timers THEN fired \cup {cur} ELSE fired
    /\ UNCHANGED <<timerState, status, lists, cur, now, posting, deleted, resets, unlinked>>

\* No callback: deleted since, or reset.
Pass(level) ==
    /\ AtList(level) /\ cur # Null /\ status[cur] # "freed"
    /\ ~ (cur \in pending /\ status[cur] = "active")
    /\ next' = pending_next[cur]
    /\ Leave(level, pending_next[cur])
    /\ UNCHANGED <<heap, ntimers, head, pending_next, now, posting, history>>

\* The callback has returned.
Return(level) ==
    /\ loop = Calling[level] /\ status[cur] # "freed"
    /\ cur = Pair => bytes = 0
    /\ Leave(level, next)
    /\ UNCHANGED <<heap, ntimers, head, pending_next, next, now, posting, history>>

\* The event in the list, or the one whose callback returns, was freed.
ReadsFreed ==
    /\ loop \in {"pendings-timers", "pendings-ios", "callback-timers", "callback-ios"}
    /\ cur # Null /\ status[cur] = "freed"
    /\ loop' = "crashed"
    /\ UNCHANGED <<timerState, status, lists, cur, next, now, posting, history>>

\* The links of the list are read no more.
ListDone(level) ==
    /\ AtList(level) /\ cur = Null
    /\ head' = [head EXCEPT ![level] = Null]
    /\ pending_next' = [ev \in Events |-> IF Level(ev) = level THEN Null ELSE pending_next[ev]]
    /\ next' = Null
    /\ IF level = "timers"
       THEN loop' = "pendings-ios" /\ cur' = head["ios"]
       ELSE loop' = "turn" /\ UNCHANGED cur
    /\ UNCHANGED <<timerState, status, pending, now, posting, history>>
-----------------------------------------------------------------------------
\* What a callback may do, any number of times, before it returns.
InCallback == loop \in {"callback-timers", "callback-ios"} /\ cur # Pair

\* htimer_add
Add(t, timeout, repeat) ==
    /\ InCallback /\ status[t] = "new" /\ \A u \in 1 .. t - 1 : status[u] # "new"
    /\ LET keys == [next_timeout EXCEPT ![t] = now + timeout] IN
       next_timeout' = keys /\ heap' = HeapInsert(heap, keys, t)
    /\ timer' = [timer EXCEPT ![t] = [repeat |-> repeat, timeout |-> timeout, destroy |-> FALSE]]
    /\ ntimers' = ntimers + 1
    /\ status' = [status EXCEPT ![t] = "active"]
    /\ UNCHANGED <<lists, loop, cur, next, now, posting, history>>

\* A program deletes a timer once, as hio_close does with those of its io.
Usable(t) == status[t] \in {"active", "inactive"} /\ t \notin deleted

\* A mutant: EVENT_DEL frees at once.
DelAtOnce(t) ==
    /\ InCallback /\ Usable(t)
    /\ deleted' = deleted \cup {t}
    /\ IF status[t] = "active" /\ ~ timer[t].destroy
       THEN heap' = HeapRemove(heap, next_timeout, t) /\ ntimers' = ntimers - 1
       ELSE UNCHANGED <<heap, ntimers>>
    /\ IF status[t] = "active" THEN Free(t) ELSE UNCHANGED <<status, timer, next_timeout>>
    /\ UNCHANGED <<lists, loop, cur, next, now, posting, fired, resets, unlinked>>

\* htimer_del; EVENT_DEL frees it now, or leaves that to its turn in the list.
Del(t) ==
    /\ InCallback /\ Usable(t)
    /\ deleted' = deleted \cup {t}
    /\ IF status[t] = "active" /\ ~ timer[t].destroy
       THEN heap' = HeapRemove(heap, next_timeout, t) /\ ntimers' = ntimers - 1
       ELSE UNCHANGED <<heap, ntimers>>
    /\ CASE status[t] # "active" -> UNCHANGED <<status, timer, next_timeout>>
         [] status[t] = "active" /\ t \notin pending -> Free(t)
         [] OTHER -> /\ status' = [status EXCEPT ![t] = "inactive"]
                     /\ timer' = [timer EXCEPT ![t].destroy = TRUE]
                     /\ UNCHANGED next_timeout
    /\ UNCHANGED <<lists, loop, cur, next, now, posting, fired, resets, unlinked>>

\* A mutant: the key changes while the timer stays in the heap.
ResetInPlace(t) ==
    /\ InCallback /\ Usable(t) /\ resets < MaxResets
    /\ resets' = resets + 1
    /\ unlinked' = IF t \in pending THEN unlinked \cup {t} ELSE unlinked
    /\ LET keys == [next_timeout EXCEPT ![t] = now + timer[t].timeout] IN
       /\ next_timeout' = keys
       /\ heap' = IF timer[t].destroy THEN HeapInsert(heap, keys, t) ELSE heap
    /\ ntimers' = IF timer[t].destroy THEN ntimers + 1 ELSE ntimers
    /\ timer' = [timer EXCEPT ![t].destroy = FALSE, ![t].repeat = IF @ = 0 THEN 1 ELSE @]
    /\ status' = [status EXCEPT ![t] = "active"]
    /\ pending' = pending \ {t}
    /\ UNCHANGED <<head, pending_next, loop, cur, next, now, posting, fired, deleted>>

\* htimer_reset, as hio_t's keepalive uses it.
Reset(t) ==
    /\ InCallback /\ Usable(t) /\ resets < MaxResets
    /\ resets' = resets + 1
    /\ unlinked' = IF t \in pending THEN unlinked \cup {t} ELSE unlinked
    /\ LET keys == [next_timeout EXCEPT ![t] = now + timer[t].timeout]
           removed == IF timer[t].destroy THEN heap ELSE HeapRemove(heap, next_timeout, t) IN
       next_timeout' = keys /\ heap' = HeapInsert(removed, keys, t)
    /\ ntimers' = IF timer[t].destroy THEN ntimers + 1 ELSE ntimers
    /\ timer' = [timer EXCEPT ![t].destroy = FALSE, ![t].repeat = IF @ = 0 THEN 1 ELSE @]
    /\ status' = [status EXCEPT ![t] = "active"]
    /\ pending' = pending \ {t}
    /\ UNCHANGED <<head, pending_next, loop, cur, next, now, posting, fired, deleted>>

\* A mutant: custom_events without its mutex.
HandlePostUnlocked ==
    /\ loop = "callback-ios" /\ cur = Pair /\ bytes > 0
    /\ bytes' = bytes - 1
    /\ IF custom = <<>>
       THEN UNCHANGED <<custom, handled>>
       ELSE handled' = Append(handled, custom[1]) /\ custom' = Tail(custom)
    /\ UNCHANGED <<timerState, status, lists, loop, cur, next, now, locked, posts, history>>

\* sockpair_read_cb: one event for each byte read, the mutex for each.
HandlePost ==
    /\ loop = "callback-ios" /\ cur = Pair /\ bytes > 0 /\ ~ locked
    /\ bytes' = bytes - 1
    /\ IF custom = <<>>
       THEN UNCHANGED <<custom, handled>>
       ELSE handled' = Append(handled, custom[1]) /\ custom' = Tail(custom)
    /\ UNCHANGED <<timerState, status, lists, loop, cur, next, now, locked, posts, history>>

\* A mutant: a byte more than events.
PostByteTwice ==
    /\ ~ locked /\ posts < MaxPosts /\ loop # "crashed"
    /\ locked' = TRUE
    /\ posts' = posts + 1
    /\ bytes' = bytes + 2
    /\ UNCHANGED <<timerState, status, lists, loop, cur, next, now, custom, handled, history>>

\* hloop_post_event: the byte, then the event, under the mutex.
PostByte ==
    /\ ~ locked /\ posts < MaxPosts /\ loop # "crashed"
    /\ locked' = TRUE
    /\ posts' = posts + 1
    /\ bytes' = bytes + 1
    /\ UNCHANGED <<timerState, status, lists, loop, cur, next, now, custom, handled, history>>

PostPush ==
    /\ locked /\ loop # "crashed"
    /\ custom' = Append(custom, posts)
    /\ locked' = FALSE
    /\ UNCHANGED <<timerState, status, lists, loop, cur, next, now, bytes, posts, handled,
                   history>>
-----------------------------------------------------------------------------
Levels == {"timers", "ios"}

Turn ==
    \/ \E first, second \in Ios \cup {Null}, time \in now .. MaxTime : Poll(first, second, time)
    \/ ProcessTimer \/ TimersDone
    \/ \E level \in Levels :
           Visit(level) \/ Pass(level) \/ Return(level) \/ ListDone(level)
    \/ ReadsFreed \/ HandlePost

Use == \E t \in Timers :
    \/ \E kind \in Kinds : Add(t, kind[1], kind[2])
    \/ Del(t) \/ Reset(t)

Next == Turn \/ Use \/ PostByte \/ PostPush

\* Both threads run, callbacks return.
Spec == Init /\ [][Next]_vars /\ WF_vars(Turn) /\ WF_vars(PostPush)
-----------------------------------------------------------------------------
TypeOK ==
    /\ status \in [Events -> {"new", "active", "inactive", "freed"}]
    /\ pending \subseteq Events /\ head \in [Levels -> Events \cup {Null}]
    /\ pending_next \in [Events -> Events \cup {Null}]
    /\ cur \in Events \cup {Null} /\ next \in Events \cup {Null}
    /\ timer \in [Timers -> [repeat : 0 .. Infinite, timeout : Nat \ {0}, destroy : BOOLEAN]]
    /\ bytes \in 0 .. MaxPosts /\ now \in 0 .. MaxTime

\* Whatever callbacks do to timers that are due, waiting or in a list, the heap
\* is one, and it and ntimers hold the timers that are not marked as destroyed.
HeapHoldsTheTimers ==
    /\ IsHeap(heap, next_timeout)
    /\ Members(heap) = {t \in Timers : status[t] = "active" /\ ~ timer[t].destroy}
    /\ ntimers = heap.nelts

\* hloop_process_pendings reads no freed event: a callback may delete any timer,
\* itself and those behind it in the list included.  Only after a reset, which
\* takes the bit but not the link, is a timer freed while it is in the list.
OnlyResetTimersCrash == loop = "crashed" => cur \in unlinked

\* After htimer_del no callback of the timer begins; a timer that does not
\* repeat fires once.
DeletedNeverFires ==
    [][\A t \in Timers :
          loop = "pendings-timers" /\ loop' = "callback-timers" /\ cur' = t
              => /\ t \notin deleted
                 /\ (timer[t].repeat # Infinite /\ t \in fired) => resets > 0]_vars

\* However callbacks have changed the heap, the timers that are due at its end, all
\* of them, are out of it and in their list when the lists are processed.
AllDueTaken ==
    [][loop = "timers" /\ loop' # "timers" =>
          \A t \in Timers :
              status[t] = "active" /\ ~ timer[t].destroy => next_timeout[t] > now]_vars

\* Outside the mutex every posted event has a byte in the socket pair that wakes
\* the loop for it, and those before it are handled, each once and in order.
PostsInOrder ==
    /\ \A i \in 1 .. Len(handled) : handled[i] = i
    /\ ~ locked => bytes = Len(custom) /\ posts = Len(handled) + Len(custom)

\* A posted event is handled, and a due timer's callback runs or the timer is
\* deleted or reset.
NothingWaitsForEver ==
    /\ \A n \in 1 .. MaxPosts :
           (n \in ToSet(custom)) ~> (n \in ToSet(handled) \/ loop = "crashed")
    /\ \A t \in Timers :
           (status[t] = "active" /\ ~ timer[t].destroy /\ next_timeout[t] <= now)
               ~> (t \in fired \cup deleted \/ resets > 0 \/ loop = "crashed")
=============================================================================
