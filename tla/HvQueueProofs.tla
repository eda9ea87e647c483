--------------------------- MODULE HvQueueProofs ---------------------------
(***************************************************************************)
(* For every element type, initial length and bound, libhv's queue keeps   *)
(* its elements inside its array and is a first-in first-out queue.        *)
(***************************************************************************)
EXTENDS HvQueue, SequenceTheorems, TLAPS

\* The inductive invariant, and what the places of the array hold.
Inv ==
    /\ TypeOK
    /\ InsideArray
    /\ \A i \in 1 .. size : ptr[offset + i - 1] \in Elems

\* The new length has room for one more element.
LEMMA GrownFits ==
  ASSUME TypeOK, InsideArray
  PROVE  /\ Grown \in Nat /\ Grown > size /\ Grown >= maxsize /\ Grown > 0
         /\ Place \in Nat /\ Place < Grown
         /\ maxsize > 0 /\ size = maxsize => offset = 0
  BY QueueAssumption DEF TypeOK, InsideArray, Grown, AtEnd, Place

\* An index of the queue before and after push_back.
LEMMA PushedContent ==
  ASSUME Inv, NEW e \in Elems, PushBack(e), NEW i \in 1 .. size'
  PROVE  ptr'[offset' + i - 1] = IF i = size + 1 THEN e ELSE ptr[offset + i - 1]
<1>1. /\ size \in Nat /\ offset \in Nat /\ maxsize \in Nat
      /\ offset + size <= maxsize
      /\ size' = size + 1 /\ i \in Nat /\ i >= 1 /\ i <= size + 1
  BY DEF Inv, TypeOK, InsideArray, PushBack
<1>2. /\ Grown \in Nat /\ Grown > size /\ Grown >= maxsize
      /\ maxsize > 0 /\ size = maxsize => offset = 0
  BY GrownFits DEF Inv
<1>3. CASE AtEnd
  <2>1. offset' = 0 /\ offset' + i - 1 = i - 1 /\ i - 1 \in 0 .. Grown - 1 /\ Place = size
    BY <1>1, <1>2, <1>3 DEF PushBack, Place
  <2>2. ptr'[i - 1] = IF i - 1 = size THEN e
                      ELSE IF i - 1 >= maxsize THEN Zeroed ELSE Moved(i - 1)
    BY <1>3, <2>1 DEF PushBack
  <2>3. i - 1 < size => i - 1 < maxsize /\ Moved(i - 1) = ptr[offset + i - 1]
    <3>1. offset + (i - 1) = offset + i - 1
      BY <1>1
    <3> QED
      BY <1>1, <3>1 DEF Moved
  <2> QED
    BY <1>1, <2>1, <2>2, <2>3
<1>4. CASE ~ AtEnd
  <2>1. offset' = offset /\ Place = offset + size
    BY <1>4 DEF PushBack, Place
  <2>2. Place < Grown
    BY GrownFits DEF Inv
  <2>3. offset + i - 1 \in 0 .. Grown - 1
    BY <1>1, <1>2, <2>1, <2>2
  <2>4. ptr'[offset + i - 1] = IF offset + i - 1 = offset + size THEN e
                               ELSE IF offset + i - 1 >= maxsize THEN Zeroed
                               ELSE ptr[offset + i - 1]
    BY <1>4, <2>1, <2>3 DEF PushBack
  <2> QED
    BY <1>1, <2>1, <2>4
<1> QED
  BY <1>3, <1>4

\* An array that hio_write has not allocated holds nothing.
LEMMA InitInv == Init => Inv
  BY DEF Init, Inv, TypeOK, InsideArray, Array

\* push_back, with the allocation, the doubling and the move to the front.
LEMMA PushInv == ASSUME Inv, NEW e \in Elems, PushBack(e) PROVE Inv'
<1>1. /\ size \in Nat /\ offset \in Nat /\ maxsize \in Nat
      /\ offset + size <= maxsize /\ ptr \in Array(maxsize)
      /\ size' = size + 1 /\ maxsize' = Grown
  BY DEF Inv, TypeOK, InsideArray, PushBack
<1>2. /\ Grown \in Nat /\ Grown > size /\ Grown >= maxsize /\ Grown > 0
      /\ Place \in Nat /\ Place < Grown
  BY GrownFits DEF Inv
<1>3. ptr' \in Array(maxsize')
  <2>1. ASSUME NEW i \in 0 .. Grown - 1, i < maxsize
        PROVE  ptr[i] \in Elems \cup {Zeroed} /\ (AtEnd => Moved(i) \in Elems \cup {Zeroed})
    <3>1. i \in 0 .. maxsize - 1
      BY <1>1, <2>1
    <3>2. AtEnd /\ i < size => offset + i \in 0 .. maxsize - 1
      BY <1>1, <2>1 DEF AtEnd
    <3> QED
      BY <1>1, <3>1, <3>2 DEF Array, Moved
  <2> QED
    BY <1>1, <1>2, <2>1 DEF PushBack, Array
<1>4. /\ offset' \in Nat /\ offset' + size' <= maxsize' /\ offset' < maxsize'
  BY <1>1, <1>2 DEF PushBack, Place
<1>5. \A i \in 1 .. size' : ptr'[offset' + i - 1] \in Elems
  BY <1>1, PushedContent DEF Inv
<1>6. size' \in Nat /\ maxsize' \in Nat
  BY <1>1, <1>2
<1>7. TypeOK' /\ InsideArray'
  BY <1>3, <1>4, <1>6 DEF TypeOK, InsideArray
<1> QED
  BY <1>5, <1>7 DEF Inv

\* The elements behind the front one stay where they are.
LEMMA PoppedContent ==
  ASSUME Inv, PopFront, NEW i \in 1 .. size'
  PROVE  offset' + i - 1 = offset + (i + 1) - 1 /\ i + 1 \in 1 .. size
<1>1. /\ size \in Nat /\ offset \in Nat /\ maxsize \in Nat /\ offset + size <= maxsize
      /\ size > 0 /\ size' = size - 1
  BY DEF Inv, TypeOK, InsideArray, PopFront
<1>2. i \in Nat /\ i >= 1 /\ i + 1 <= size
  BY <1>1
<1>3. offset + 1 # maxsize
  BY <1>1, <1>2
<1> QED
  BY <1>1, <1>2, <1>3 DEF PopFront

\* pop_front, which only moves _offset.
LEMMA PopInv == ASSUME Inv, PopFront PROVE Inv'
<1>1. /\ size \in Nat /\ offset \in Nat /\ maxsize \in Nat /\ offset + size <= maxsize
      /\ size > 0 /\ size' = size - 1 /\ maxsize' = maxsize /\ ptr' = ptr
  BY DEF Inv, TypeOK, InsideArray, PopFront
<1>2. size - 1 \in Nat /\ offset' \in Nat /\ offset' + (size - 1) <= maxsize /\ offset' < maxsize
  BY <1>1 DEF PopFront
<1>3. \A i \in 1 .. size' : ptr'[offset' + i - 1] \in Elems
  BY <1>1, PoppedContent DEF Inv
<1> QED
  BY <1>1, <1>2, <1>3 DEF Inv, TypeOK, InsideArray

\* cleanup, which frees the array.
LEMMA CleanupInv == ASSUME Cleanup PROVE Inv'
  BY DEF Cleanup, Inv, TypeOK, InsideArray, Array

\* The invariant of the queue.
THEOREM QueueInvariance == Spec => []Inv
<1>1. Inv /\ [Next]_vars => Inv'
  <2>1. SUFFICES ASSUME Inv, [Next]_vars PROVE Inv'
    OBVIOUS
  <2>2. CASE UNCHANGED vars
    BY <2>1, <2>2 DEF vars, Inv, TypeOK, InsideArray, Array
  <2> QED
    BY <2>1, <2>2, PushInv, PopInv, CleanupInv DEF Next
<1> QED
  BY <1>1, InitInv, PTL DEF Spec

\* push_back and pop_front keep the queue's fields in their types.
THEOREM QueueTypeCorrect == Spec => []TypeOK
<1>1. Inv => TypeOK
  BY DEF Inv
<1> QED
  BY <1>1, QueueInvariance, PTL

\* push_back never writes behind the array.
THEOREM QueueInsideArray == Spec => []InsideArray
<1>1. Inv => InsideArray
  BY DEF Inv
<1> QED
  BY <1>1, QueueInvariance, PTL

\* libhv's queue implements the first-in first-out queue.
THEOREM QueueImplementsFifo == Spec => ImplementsFifo
<1>1. Init => Queue!Init
  BY DEF Init, Queue!Init, Content
<1>2. Inv /\ [Next]_vars => [Queue!Next]_Content
  <2>1. SUFFICES ASSUME Inv, [Next]_vars PROVE Queue!Next \/ Content' = Content
    OBVIOUS
  <2>2. /\ size \in Nat /\ Content \in Seq(Elems) /\ Len(Content) = size
    BY <2>1 DEF Inv, TypeOK, Content
  <2>3. ASSUME NEW e \in Elems, PushBack(e) PROVE Queue!Push(e)
    <3>1. size' = size + 1
      BY <2>3 DEF PushBack
    <3>2. Content' = [i \in 1 .. size + 1 |-> IF i = size + 1 THEN e ELSE ptr[offset + i - 1]]
      BY <2>1, <2>3, <3>1, PushedContent DEF Content
    <3>3. Append(Content, e) = [i \in 1 .. size + 1 |-> IF i = size + 1 THEN e ELSE Content[i]]
      <4>1. Append(Content, e) \in Seq(Elems) /\ Len(Append(Content, e)) = size + 1
        BY <2>2, AppendProperties
      <4>2. Append(Content, e) = [i \in 1 .. size + 1 |-> Append(Content, e)[i]]
        BY <4>1, LenProperties
      <4>3. \A i \in 1 .. size + 1 :
              Append(Content, e)[i] = IF i = size + 1 THEN e ELSE Content[i]
        BY <2>2, AppendProperties
      <4> QED
        BY <4>2, <4>3
    <3>4. \A i \in 1 .. size + 1 : i # size + 1 => Content[i] = ptr[offset + i - 1]
      BY <2>2 DEF Content
    <3> QED
      BY <3>2, <3>3, <3>4 DEF Queue!Push
  <2>4. CASE PopFront
    <3>1. size > 0 /\ size' = size - 1 /\ ptr' = ptr /\ Content # <<>>
      BY <2>2, <2>4 DEF PopFront
    <3>2. Content' = [i \in 1 .. size - 1 |-> ptr[offset + (i + 1) - 1]]
      BY <2>1, <2>4, <3>1, PoppedContent DEF Content
    <3>3. Tail(Content) = [i \in 1 .. size - 1 |-> Content[i + 1]]
      <4>1. Tail(Content) \in Seq(Elems) /\ Len(Tail(Content)) = size - 1
        BY <2>2, <3>1, HeadTailProperties
      <4>2. Tail(Content) = [i \in 1 .. size - 1 |-> Tail(Content)[i]]
        BY <4>1, LenProperties
      <4>3. \A i \in 1 .. size - 1 : Tail(Content)[i] = Content[i + 1]
        BY <2>2, <3>1, <4>1, HeadTailProperties
      <4> QED
        BY <4>2, <4>3
    <3>4. \A i \in 1 .. size - 1 : Content[i + 1] = ptr[offset + (i + 1) - 1]
      BY <2>2, <3>1 DEF Content
    <3> QED
      BY <3>1, <3>2, <3>3, <3>4 DEF Queue!Next, Queue!Pop
  <2>5. CASE Cleanup
    BY <2>5 DEF Cleanup, Content, Queue!Next, Queue!Drop
  <2>6. CASE UNCHANGED vars
    BY <2>6 DEF vars, Content
  <2> QED
    BY <2>1, <2>3, <2>4, <2>5, <2>6 DEF Next, Queue!Next
<1> QED
  BY <1>1, <1>2, QueueInvariance, PTL DEF Spec, ImplementsFifo, Queue!Spec
=============================================================================
