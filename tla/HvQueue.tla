------------------------------ MODULE HvQueue ------------------------------
(***************************************************************************)
(* QUEUE_DECL of libhv's queue.h as hio_t uses it for its write_queue: an  *)
(* array that is allocated by the first write that cannot be sent at once, *)
(* doubles when it is full, moves its elements to the front when they have *)
(* come to its end, and is freed when the connection is closed.  Callers   *)
(* hold write_mutex, so one operation is one step.                         *)
(***************************************************************************)
EXTENDS Naturals, Sequences

CONSTANTS
    Elems,      \* offset_buf_t
    Zeroed,     \* what memory no element was stored to holds
    InitSize,   \* the maxsize of write_queue_init (4)
    MaxSize     \* bound: the elements in the queue

ASSUME QueueAssumption == InitSize \in Nat \ {0} /\ MaxSize \in Nat

VARIABLES
    ptr,        \* the array
    size,       \* the number of elements
    maxsize,    \* the length of the array, 0 when there is none
    offset      \* the place of the first element

vars == <<ptr, size, maxsize, offset>>

Array(n) == [0 .. n - 1 -> Elems \cup {Zeroed}]

Init == ptr = [i \in 0 .. 0 - 1 |-> Zeroed] /\ size = 0 /\ maxsize = 0 /\ offset = 0

\* write_queue_init, or realloc to the double length, or the array as it is.
Grown == IF maxsize = 0 THEN InitSize ELSE IF size = maxsize THEN 2 * maxsize ELSE maxsize

\* Mutant of AtEnd: the end of the array is found one element too early.
AtEndOffByOne == Grown = maxsize /\ offset + size + 1 = maxsize

\* The last element is at the end of the array, and the array is not full.
AtEnd == Grown = maxsize /\ offset + size = maxsize

\* Mutant of Moved: _offset = 0 comes before the memmove.
MovedFromStart(i) == ptr[i]

\* memmove(ptr, ptr + offset, size)
Moved(i) == IF i < size THEN ptr[offset + i] ELSE ptr[i]

\* The place the new element gets.
Place == IF AtEnd THEN size ELSE offset + size

\* write_queue_push_back
PushBack(e) ==
    /\ size < MaxSize
    /\ ptr' = [i \in 0 .. Grown - 1 |->
                   IF i = Place THEN e
                   ELSE IF i >= maxsize THEN Zeroed
                   ELSE IF AtEnd THEN Moved(i) ELSE ptr[i]]
    /\ size' = size + 1
    /\ maxsize' = Grown
    /\ offset' = IF AtEnd THEN 0 ELSE offset

\* write_queue_pop_front: offset goes round.
PopFront ==
    /\ size > 0
    /\ size' = size - 1
    /\ offset' = IF offset + 1 = maxsize THEN 0 ELSE offset + 1
    /\ UNCHANGED <<ptr, maxsize>>

\* hio_done: all elements are popped, then write_queue_cleanup.
Cleanup ==
    /\ ptr' = [i \in 0 .. 0 - 1 |-> Zeroed]
    /\ size' = 0 /\ maxsize' = 0 /\ offset' = 0

Next == (\E e \in Elems : PushBack(e)) \/ PopFront \/ Cleanup

Spec == Init /\ [][Next]_vars
-----------------------------------------------------------------------------
TypeOK ==
    /\ maxsize \in Nat /\ size \in Nat /\ offset \in Nat
    /\ ptr \in Array(maxsize)

\* The elements lie inside the array in one piece, whatever pushes and pops
\* came before: only the array's end and a full array are tested by push_back.
InsideArray ==
    /\ offset + size <= maxsize
    /\ maxsize > 0 => offset < maxsize

\* The queue holds elements, never the memory between them.
Content == [i \in 1 .. size |-> ptr[offset + i - 1]]

\* push_back and pop_front are first-in first-out over any number of rounds
\* through the array.
Queue == INSTANCE Fifo WITH fifo <- Content
ImplementsFifo == Queue!Spec
=============================================================================
