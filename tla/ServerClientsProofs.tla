------------------------ MODULE ServerClientsProofs ------------------------
(***************************************************************************)
(* For every number of io_t blocks: the list of clients is sound at every  *)
(* store of the loop thread, a command without a close reaches each client *)
(* once, and freed memory is used only after a close.                      *)
(***************************************************************************)
EXTENDS ServerClients, Integers, FiniteSetTheorems, SequenceTheorems, WellFoundedInduction, TLAPS

\* s is the list, between two mentions of its head.
At(s, i) == IF i \in 1 .. Len(s) THEN s[i] ELSE ListHead
Of(s) == {s[i] : i \in 1 .. Len(s)}

Forward(s) ==
    /\ \A i, j \in 1 .. Len(s) : s[i] = s[j] => i = j
    /\ \A i \in 0 .. Len(s) : nxt[At(s, i)] = At(s, i + 1)

\* Between the stores of list_add the first client's prev is the new one already.
Backward(s) ==
    /\ lpc = "publish" => nxt[lnode] = At(s, 1) /\ prv[lnode] = ListHead
    /\ \A i \in 0 .. Len(s) :
           prv[At(s, i + 1)] = IF i = 0 /\ lpc = "publish" THEN lnode ELSE At(s, i)

Accepting == {"accept lock", "link", "publish"}
Closing == {"close lock", "unlink", "free"}

\* What is allocated, what an open connection has, and what is on the list.
Owned(s) ==
    /\ heap = Of(s) \cup (IF lpc \in Accepting \cup {"free"} THEN {lnode} ELSE {})
    /\ userdata = heap \ (IF lpc \in Closing THEN {lnode} ELSE {})
    /\ lpc \in Accepting \cup Closing => lnode \in heap
    /\ lpc \in Accepting \cup {"free"} => lnode \notin Of(s)

\* A walk of the loop thread is at a client of the list, or at one it has freed.
LoopWalkAt(s) ==
    /\ lpc \notin Closing \cup {"walk"} => lcur = Null
    /\ lpc \in Closing => lcur \in {Null, lnode}
    /\ lpc = "walk" => lcur \in Of(s) \cup {ListHead} \cup (Nodes \ heap)

\* A command without a close meanwhile: the list it began with is the end of the
\* list, and it has written to the first clients of that.
VtyWalkAt(s) ==
    Walking /\ ~ closed =>
        LET k == Len(s) - Len(present)
            q == Len(visited)
        IN
        /\ lpc \notin Closing /\ k >= 0 /\ q <= Len(present)
        /\ \A i \in 1 .. Len(present) : s[k + i] = present[i]
        /\ \A i \in 1 .. q : visited[i] = present[i]
        /\ vpc = "visit" => vcur = At(s, k + q + 1)
        /\ vpc = "advance" => q > 0 /\ vcur = At(s, k + q)

Freed ==
    /\ touched \in {{}, {"loop"}, {"vty"}}
    /\ touched = {"vty"} => closed
    /\ touched = {"loop"} => lcur \notin heap

Types ==
    /\ nxt \in [Links -> Links \cup {Null}] /\ prv \in [Links -> Links \cup {Null}]
    /\ heap \subseteq Nodes
    /\ owner \in [{LoopMutex, VtyMutex} -> {"none", "loop", "vty"}]
    /\ lpc \in {"poll", "accept lock", "link", "publish", "close lock", "unlink",
                "free", "walk", "data lock", "fwrite"}
    /\ lnode \in Nodes \cup {Null} /\ lcur \in Links \cup {Null}
    /\ vpc \in {"prompt", "visit", "advance"} /\ vcur \in Links \cup {Null}
    /\ visited \in Seq(Nodes) /\ present \in Seq(Nodes)
    /\ closed \in BOOLEAN /\ short \in BOOLEAN

ListIs(s) == Forward(s) /\ Backward(s) /\ Owned(s) /\ LoopWalkAt(s) /\ VtyWalkAt(s)

\* The inductive invariant.
Inv == Types /\ Freed /\ \E s \in Seq(Nodes) : ListIs(s)

-----------------------------------------------------------------------------
\* A link of the list is a client of it, or the head.
LEMMA AtIs ==
  ASSUME NEW s \in Seq(Nodes), NEW i \in Int
  PROVE  /\ At(s, i) \in Of(s) \cup {ListHead}
         /\ i \in 1 .. Len(s) => At(s, i) = s[i] /\ s[i] \in Of(s) /\ s[i] \in Nodes
         /\ At(s, i) \in Nodes <=> i \in 1 .. Len(s)
         /\ At(s, i) = ListHead <=> i \notin 1 .. Len(s)
  BY NodesAssumption DEF At, Of

\* The list with a client put before it.
LEMMA PushedFront ==
  ASSUME NEW s \in Seq(Nodes), NEW x \in Nodes, x \notin Of(s),
         \A i, j \in 1 .. Len(s) : s[i] = s[j] => i = j
  PROVE  LET t == <<x>> \o s IN
         /\ t \in Seq(Nodes) /\ Len(t) = Len(s) + 1 /\ Of(t) = Of(s) \cup {x}
         /\ At(t, 0) = ListHead /\ At(t, 1) = x /\ t[1] = x
         /\ \A i \in 1 .. Len(s) + 1 : At(t, i + 1) = At(s, i)
         /\ \A i \in 1 .. Len(s) : t[i + 1] = s[i]
         /\ \A i, j \in 1 .. Len(t) : t[i] = t[j] => i = j
<1> DEFINE t == <<x>> \o s
<1>1. t \in Seq(Nodes) /\ Len(t) = Len(s) + 1 /\ Len(s) \in Nat
  OBVIOUS
<1>2. t[1] = x /\ \A i \in 1 .. Len(s) : t[i + 1] = s[i]
  OBVIOUS
<1>3. \A i \in 1 .. Len(t) : i = 1 \/ (i - 1 \in 1 .. Len(s) /\ t[i] = s[i - 1])
  BY <1>1, <1>2
<1> HIDE DEF t
<1>4. Of(t) = Of(s) \cup {x}
  <2>1. Of(t) \subseteq Of(s) \cup {x}
    BY <1>2, <1>3 DEF Of
  <2>2. x \in Of(t)
    BY <1>1, <1>2 DEF Of
  <2>3. \A i \in 1 .. Len(s) : s[i] \in Of(t)
    <3>1. \A i \in 1 .. Len(s) : i + 1 \in 1 .. Len(t)
      BY <1>1
    <3> QED
      BY <1>2, <3>1 DEF Of
  <2>4. Of(s) \subseteq Of(t)
    BY <2>3 DEF Of
  <2> QED
    BY <2>1, <2>2, <2>4
<1>5. At(t, 0) = ListHead /\ At(t, 1) = x
  BY <1>1, <1>2 DEF At
<1>6. \A i \in 1 .. Len(s) + 1 : At(t, i + 1) = At(s, i)
  BY <1>1, <1>2 DEF At
<1>7. ASSUME NEW i \in 1 .. Len(t), NEW j \in 1 .. Len(t), t[i] = t[j] PROVE i = j
  <2>1. \A y \in 1 .. Len(s) : s[y] # x
    BY DEF Of
  <2>2. t[1] = x
    BY <1>2
  <2>3. ASSUME NEW y \in 1 .. Len(t), y # 1 PROVE y - 1 \in 1 .. Len(s) /\ t[y] = s[y - 1]
    BY <1>3, <2>3
  <2>4. ASSUME NEW y \in 1 .. Len(t), y # 1 PROVE t[y] # x
    BY <2>1, <2>3, <2>4
  <2>5. CASE i # 1 /\ j # 1
    <3>1. i - 1 = j - 1
      BY <1>7, <2>3, <2>5
    <3> QED
      BY <1>1, <3>1
  <2> QED
    BY <1>7, <2>2, <2>4, <2>5
<1> QED
  BY <1>1, <1>2, <1>4, <1>5, <1>6, <1>7 DEF t

\* The list with its k-th client taken out.
Without(s, k) == [i \in 1 .. Len(s) - 1 |-> IF i < k THEN s[i] ELSE s[i + 1]]

\* What list_del leaves of a list, by place.
LEMMA TakenOut ==
  ASSUME NEW s \in Seq(Nodes), NEW k \in 1 .. Len(s),
         \A i, j \in 1 .. Len(s) : s[i] = s[j] => i = j
  PROVE  LET t == Without(s, k) IN
         /\ t \in Seq(Nodes) /\ Len(t) = Len(s) - 1 /\ Of(t) = Of(s) \ {s[k]}
         /\ \A i \in 0 .. Len(s) : At(t, i) = IF i < k THEN At(s, i) ELSE At(s, i + 1)
         /\ \A i, j \in 1 .. Len(t) : t[i] = t[j] => i = j
<1> DEFINE t == Without(s, k)
<1>1. Len(s) - 1 \in Nat /\ Len(s) \in Nat
  OBVIOUS
<1>2. \A i \in 1 .. Len(s) - 1 : i \in 1 .. Len(s) /\ i + 1 \in 1 .. Len(s)
  BY <1>1
<1>3. t \in [1 .. Len(s) - 1 -> Nodes]
  BY <1>2 DEF Without
<1>4. t \in Seq(Nodes) /\ Len(t) = Len(s) - 1
  BY <1>1, <1>3
<1>5. \A i \in 1 .. Len(s) - 1 : t[i] = IF i < k THEN s[i] ELSE s[i + 1]
  BY DEF Without
<1> HIDE DEF t
<1>6. ASSUME NEW i \in 1 .. Len(t), NEW j \in 1 .. Len(t), t[i] = t[j] PROVE i = j
  <2>1. PICK m \in 1 .. Len(s) : t[i] = s[m] /\ m = IF i < k THEN i ELSE i + 1
    BY <1>1, <1>2, <1>4, <1>5
  <2>2. PICK n \in 1 .. Len(s) : t[j] = s[n] /\ n = IF j < k THEN j ELSE j + 1
    BY <1>1, <1>2, <1>4, <1>5
  <2>3. m = n
    BY <1>6, <2>1, <2>2
  <2> QED
    BY <1>1, <1>4, <2>1, <2>2, <2>3
<1>7. \A i \in 0 .. Len(s) : At(t, i) = IF i < k THEN At(s, i) ELSE At(s, i + 1)
  BY <1>1, <1>4, <1>5 DEF At
<1>8. Of(t) = Of(s) \ {s[k]}
  <2>1. ASSUME NEW i \in 1 .. Len(t) PROVE t[i] \in Of(s) \ {s[k]}
    BY <1>1, <1>2, <1>4, <1>5 DEF Of
  <2>2. ASSUME NEW i \in 1 .. Len(s), s[i] # s[k] PROVE s[i] \in Of(t)
    <3>1. CASE i < k
      <4>1. i \in 1 .. Len(t) /\ t[i] = s[i]
        BY <1>1, <1>4, <1>5, <3>1
      <4> QED
        BY <4>1 DEF Of
    <3>2. CASE i > k
      <4>1. i - 1 \in 1 .. Len(t) /\ t[i - 1] = s[i]
        BY <1>1, <1>4, <1>5, <3>2
      <4> QED
        BY <4>1 DEF Of
    <3> QED
      BY <2>2, <3>1, <3>2
  <2> QED
    BY <2>1, <2>2 DEF Of
<1> QED
  BY <1>4, <1>6, <1>7, <1>8 DEF t

\* g has the equation of Walk.
Follows(next, g) ==
    g = [i \in Nat |-> IF i = 0 THEN next[ListHead]
                       ELSE IF g[i - 1] \in Nodes THEN next[g[i - 1]] ELSE g[i - 1]]

\* Two functions that do have no least argument at which they differ.
LEMMA OneRecursion ==
  ASSUME NEW next, NEW G, NEW H, Follows(next, G), Follows(next, H)
  PROVE  G = H
<1>0. /\ G = [i \in Nat |-> IF i = 0 THEN next[ListHead]
                            ELSE IF G[i - 1] \in Nodes THEN next[G[i - 1]] ELSE G[i - 1]]
      /\ H = [i \in Nat |-> IF i = 0 THEN next[ListHead]
                            ELSE IF H[i - 1] \in Nodes THEN next[H[i - 1]] ELSE H[i - 1]]
  BY DEF Follows
<1> DEFINE D == {i \in Nat : G[i] # H[i]}
<1>1. D = {}
  <2> SUFFICES ASSUME D # {} PROVE FALSE
    OBVIOUS
  <2>1. PICK i \in D : \A j \in D : ~ (<<j, i>> \in OpToRel(<, Nat))
    <3>1. D \subseteq Nat
      OBVIOUS
    <3> HIDE DEF D
    <3> QED
      BY <3>1, NatLessThanWellFounded, WFMin, Zenon
  <2>2. i \in Nat /\ G[i] # H[i]
    OBVIOUS
  <2>3. G[0] = H[0]
    BY <1>0
  <2>4. i - 1 \in Nat /\ i - 1 < i /\ i # 0
    BY <2>2, <2>3
  <2>5. G[i - 1] = H[i - 1]
    <3>1. <<i - 1, i>> \in OpToRel(<, Nat)
      BY <2>2, <2>4 DEF OpToRel
    <3>2. i - 1 \notin D
      BY <2>1, <3>1
    <3> QED
      BY <2>4, <3>2
  <2>6. /\ G[i] = IF G[i - 1] \in Nodes THEN next[G[i - 1]] ELSE G[i - 1]
        /\ H[i] = IF H[i - 1] \in Nodes THEN next[H[i - 1]] ELSE H[i - 1]
    BY <1>0, <2>2, <2>4
  <2> QED
    BY <2>2, <2>5, <2>6
<1>2. \A i \in Nat : G[i] = H[i]
  BY <1>1
<1>3. G = [i \in Nat |-> G[i]] /\ H = [i \in Nat |-> H[i]]
  BY <1>0
<1> QED
  BY <1>2, <1>3

\* Following next from the head goes through the list and stays at the head.
LEMMA WalkIs ==
  ASSUME NEW s \in Seq(Nodes), Forward(s)
  PROVE  \A i \in Nat : Walk[i] = At(s, i + 1)
<1> DEFINE F == [i \in Nat |-> At(s, i + 1)]
<1>1. ASSUME NEW i \in Nat
      PROVE  At(s, i + 1) = IF i = 0 THEN nxt[ListHead]
                            ELSE IF At(s, i) \in Nodes THEN nxt[At(s, i)] ELSE At(s, i)
  <2>0. Len(s) \in Nat
    OBVIOUS
  <2>1. CASE i = 0
    <3>1. At(s, 0) = ListHead /\ nxt[At(s, 0)] = At(s, 0 + 1)
      BY <2>0, AtIs DEF Forward
    <3> QED
      BY <2>1, <3>1
  <2>2. CASE i # 0 /\ i \in 1 .. Len(s)
    <3>1. At(s, i) \in Nodes /\ nxt[At(s, i)] = At(s, i + 1)
      BY <2>0, <2>2, AtIs DEF Forward
    <3> QED
      BY <2>2, <3>1
  <2>3. CASE i # 0 /\ i \notin 1 .. Len(s)
    <3>1. i + 1 \notin 1 .. Len(s)
      BY <2>0, <2>3
    <3>2. At(s, i) = ListHead /\ At(s, i + 1) = ListHead /\ ListHead \notin Nodes
      BY <2>3, <3>1, NodesAssumption DEF At
    <3> QED
      BY <2>3, <3>2
  <2> QED
    BY <2>1, <2>2, <2>3
<1>2. Follows(nxt, F)
  <2>1. \A i \in Nat : i # 0 => i - 1 \in Nat /\ (i - 1) + 1 = i
    OBVIOUS
  <2>2. \A i \in Nat : i # 0 => F[i - 1] = At(s, i)
    BY <2>1
  <2> QED
    BY <1>1, <2>2 DEF Follows
<1> HIDE DEF F
<1>3. Follows(nxt, Walk)
  <2>1. Walk = CHOOSE g : Follows(nxt, g)
    BY Zenon DEF Walk, Follows
  <2> QED
    BY <1>2, <2>1, Zenon
<1>4. Walk = F
  BY <1>2, <1>3, OneRecursion
<1>5. \A i \in Nat : F[i] = At(s, i + 1)
  BY DEF F
<1> QED
  BY <1>4, <1>5

\* The list is the sequence the walk finds.
LEMMA ListFound ==
  ASSUME NEW s \in Seq(Nodes), Forward(s)
  PROVE  /\ Clients = s /\ Listed = Of(s)
         /\ Walk[Cardinality(Nodes)] = ListHead
<1>1. Len(s) \in Nat /\ IsFiniteSet(Nodes) /\ Cardinality(Nodes) \in Nat
  BY NodesAssumption, FS_CardinalityType
<1>2. Len(s) <= Cardinality(Nodes)
  <2>1. s \in [1 .. Len(s) -> Nodes]
    OBVIOUS
  <2>2. s \in Injection(1 .. Len(s), Nodes)
    BY <2>1 DEF Forward, Injection, IsInjective
  <2>3. Cardinality(1 .. Len(s)) <= Cardinality(Nodes)
    BY <1>1, <2>2, FS_Injection
  <2> QED
    BY <1>1, <2>3, FS_Interval
<1>3. \A i \in Nat : Walk[i] = At(s, i + 1)
  BY WalkIs
<1>4. ListLength = Len(s)
  <2>1. {i \in 0 .. Cardinality(Nodes) : Walk[i] \in Nodes} = 0 .. Len(s) - 1
    <3>1. \A i \in 0 .. Cardinality(Nodes) : Walk[i] \in Nodes <=> i \in 0 .. Len(s) - 1
      <4> TAKE i \in 0 .. Cardinality(Nodes)
      <4>1. i \in Nat /\ (i + 1 \in 1 .. Len(s) <=> i \in 0 .. Len(s) - 1)
        BY <1>1
      <4>2. At(s, i + 1) \in Nodes <=> i + 1 \in 1 .. Len(s)
        BY <4>1, AtIs
      <4> QED
        BY <1>3, <4>1, <4>2
    <3>2. 0 .. Len(s) - 1 \subseteq 0 .. Cardinality(Nodes)
      BY <1>1, <1>2
    <3> QED
      BY <3>1, <3>2
  <2>2. Cardinality(0 .. Len(s) - 1) = Len(s)
    <3>1. 0 \in Int /\ Len(s) - 1 \in Int
      BY <1>1
    <3>2. Cardinality(0 .. Len(s) - 1) = IF 0 > Len(s) - 1 THEN 0 ELSE Len(s) - 1 - 0 + 1
      BY <3>1, FS_Interval
    <3> QED
      BY <1>1, <3>2
  <2> QED
    BY <2>1, <2>2 DEF ListLength
<1>5. Clients = s
  <2>1. \A i \in 1 .. Len(s) : Walk[i - 1] = s[i]
    <3> TAKE i \in 1 .. Len(s)
    <3>1. i - 1 \in Nat /\ (i - 1) + 1 = i
      BY <1>1
    <3>2. At(s, i) = s[i]
      BY DEF At
    <3> QED
      BY <1>3, <3>1, <3>2
  <2>2. s = [i \in 1 .. Len(s) |-> s[i]]
    OBVIOUS
  <2> QED
    BY <1>4, <2>1, <2>2 DEF Clients
<1>6. Listed = Of(s)
  BY <1>5 DEF Listed, Of
<1>7. Walk[Cardinality(Nodes)] = ListHead
  <2>1. Cardinality(Nodes) + 1 \notin 1 .. Len(s)
    BY <1>1, <1>2
  <2> QED
    BY <1>1, <1>3, <2>1 DEF At
<1> QED
  BY <1>5, <1>6, <1>7

-----------------------------------------------------------------------------
\* Every step of both threads keeps the types.
LEMMA TypesStep ==
  ASSUME Types, NEW s \in Seq(Nodes), ListIs(s), Next
  PROVE  Types'
<1>0. ListHead \in Links /\ Nodes \subseteq Links /\ heap \subseteq Nodes
  BY DEF Types, Links
<1>1. lpc \in Accepting \cup Closing => lnode \in Nodes
  BY <1>0 DEF ListIs, Owned
<1>2. ASSUME NEW n \in Nodes, Accept(n) PROVE Types'
  BY <1>0, <1>2 DEF Accept, Types, vtyVars
<1>3. ASSUME NEW n \in Nodes, BeginClose(n) PROVE Types'
  <2>1. closed' \in BOOLEAN
    BY <1>3, Zenon DEF BeginClose
  <2>2. <<>> \in Seq(Nodes)
    OBVIOUS
  <2>3. /\ lnode' = n /\ lpc' = "close lock" /\ visited' = <<>> /\ present' = <<>>
        /\ UNCHANGED <<nxt, prv, heap, owner, lcur, vpc, vcur, short, touched>>
    BY <1>3 DEF BeginClose
  <2> QED
    BY <2>1, <2>2, <2>3 DEF Types
<1>4. CASE AcceptLock \/ CloseLock \/ DataLock
  BY <1>4 DEF AcceptLock, CloseLock, DataLock, Acquire, Types, vtyVars
<1>5. CASE Link
  BY <1>0, <1>1, <1>5 DEF Link, Types, vtyVars, Accepting
<1>6. CASE Publish
  BY <1>0, <1>1, <1>6 DEF Publish, Release, Types, vtyVars, Accepting
<1>7. CASE Unlink
  BY <1>0, <1>1, <1>7 DEF Unlink, Release, Types, vtyVars, Closing
<1>8. CASE Free \/ LoopWalk \/ LoopWalkNext \/ LoopWalkEnd
  BY <1>0, <1>8 DEF Free, LoopWalk, LoopWalkNext, LoopWalkEnd, Types, vtyVars
<1>9. CASE LoopTouchesFreed \/ Data \/ DataWritten \/ DataShort
  BY <1>9 DEF LoopTouchesFreed, Data, DataWritten, DataShort, Release, Types, vtyVars, loopVars
<1>10. CASE VtyWalk
  <2>1. Clients \in Seq(Nodes) /\ <<>> \in Seq(Nodes)
    BY ListFound DEF ListIs
  <2>2. closed' \in BOOLEAN
    <3>1. PICK c : c = closed' /\ c = (lpc \in Closing)
      BY <1>10, Zenon DEF VtyWalk, Closing
    <3>2. (lpc \in Closing) \in BOOLEAN
      BY SMT
    <3> QED
      BY <3>1, <3>2, SMT
  <2>3. present' \in Seq(Nodes)
    BY <1>10, <2>1, Zenon DEF VtyWalk
  <2>4. /\ vcur' = nxt[ListHead] /\ vpc' = "visit" /\ visited' = <<>>
        /\ owner' = owner \/ owner' = [owner EXCEPT ![VtyMutex] = "vty"]
        /\ UNCHANGED <<nxt, prv, heap, userdata, loopVars, short, touched>>
    BY <1>10, Zenon DEF VtyWalk, Acquire
  <2> QED
    BY <1>0, <2>1, <2>2, <2>3, <2>4 DEF Types, loopVars
<1>11. CASE VtyVisit
  <2>1. vcur \in Nodes
    BY <1>0, <1>11 DEF VtyVisit
  <2>2. visited \in Seq(Nodes)
    BY DEF Types
  <2>3. Append(visited, vcur) \in Seq(Nodes) /\ <<>> \in Seq(Nodes)
    BY <2>1, <2>2
  <2>4. visited' \in Seq(Nodes)
    BY <1>11, <2>3, Zenon DEF VtyVisit
  <2>5. /\ vpc' = "advance"
        /\ UNCHANGED <<nxt, prv, heap, owner, loopVars, vcur, present, closed, short>>
    BY <1>11, Zenon DEF VtyVisit
  <2> QED
    BY <2>4, <2>5 DEF Types, loopVars
<1>12. CASE VtyAdvance
  BY <1>0, <1>12 DEF VtyAdvance, Types, loopVars
<1>13. CASE VtyDone
  <2>1. <<>> \in Seq(Nodes)
    OBVIOUS
  <2>2. /\ owner' = [owner EXCEPT ![VtyMutex] = "none"]
        /\ vcur' = Null /\ vpc' = "prompt" /\ visited' = <<>> /\ present' = <<>> /\ closed' = FALSE
        /\ UNCHANGED <<nxt, prv, heap, loopVars, short>>
    BY <1>13 DEF VtyDone
  <2> QED
    BY <2>1, <2>2 DEF Types, loopVars
<1>14. CASE VtyTouchesFreed
  BY <1>14 DEF VtyTouchesFreed, Types, loopVars, vtyVars
<1> QED
  BY <1>0, <1>2, <1>3, <1>4, <1>5, <1>6, <1>7, <1>8, <1>9, <1>10, <1>11, <1>12,
     <1>13, <1>14
     DEF Next, Loop, Handler, Command, Close, LoopWriteFails, ListIs, Owned

\* The links of the list are not stored to, nor what hangs on them.
LEMMA LinksKept ==
  ASSUME NEW s \in Seq(Nodes), Forward(s), Backward(s), UNCHANGED <<nxt, prv>>,
         lpc' # "publish", lpc # "publish"
  PROVE  Forward(s)' /\ Backward(s)'
  BY DEF Forward, Backward

\* The steps of a command.
LEMMA VtyStep ==
  ASSUME Types, NEW s \in Seq(Nodes), ListIs(s), VtyWalk \/ Command
  PROVE  ListIs(s)'
<1>1. UNCHANGED <<nxt, prv, heap, userdata, lpc, lnode, lcur>>
  BY DEF VtyWalk, Command, VtyVisit, VtyAdvance, VtyDone, VtyTouchesFreed, loopVars
<1>2. Forward(s)' /\ Backward(s)' /\ Owned(s)' /\ LoopWalkAt(s)'
  BY <1>1 DEF ListIs, Forward, Backward, Owned, LoopWalkAt
<1>3. CASE VtyWalk
  <2>1. /\ vcur' = nxt[ListHead] /\ vpc' = "visit" /\ visited' = <<>>
        /\ closed' = (lpc \in Closing) /\ present' = IF closed' THEN <<>> ELSE Clients
    BY <1>3, Zenon DEF VtyWalk, Closing
  <2>2. Clients = s
    BY ListFound DEF ListIs
  <2>3. ~ closed' => lpc' \notin Closing /\ present' = s
    BY <1>1, <2>1, <2>2
  <2>4. nxt[ListHead] = At(s, 1) /\ Len(s) - Len(s) = 0 /\ Len(s) \in Nat
    <3>1. At(s, 0) = ListHead /\ 0 \in 0 .. Len(s)
      BY AtIs
    <3> QED
      BY <3>1 DEF ListIs, Forward
  <2>5. ASSUME ~ closed' PROVE VtyWalkAt(s)'
    BY <2>1, <2>3, <2>4, <2>5 DEF VtyWalkAt
  <2> QED
    BY <1>2, <2>5 DEF ListIs, VtyWalkAt
<1>4. CASE VtyVisit
  <2>1. /\ vpc = "visit" /\ vcur \in heap /\ vpc' = "advance" /\ UNCHANGED <<vcur, present, closed>>
        /\ visited' = IF closed THEN <<>> ELSE Append(visited, vcur)
    BY <1>4, Zenon DEF VtyVisit
  <2>2. ASSUME ~ closed PROVE VtyWalkAt(s)'
    <3> DEFINE k == Len(s) - Len(present)
               q == Len(visited)
    <3>1. /\ k \in Nat /\ q \in Nat /\ Len(s) \in Nat /\ Len(present) \in Nat
          /\ Len(s) = k + Len(present)
      <4>1. visited \in Seq(Nodes) /\ present \in Seq(Nodes)
        BY DEF Types
      <4>2. k >= 0
        BY <2>1, <2>2 DEF ListIs, VtyWalkAt, Walking
      <4> QED
        BY <4>1, <4>2
    <3>2. /\ lpc \notin Closing /\ q <= Len(present)
          /\ \A i \in 1 .. Len(present) : s[k + i] = present[i]
          /\ \A i \in 1 .. q : visited[i] = present[i]
          /\ vcur = At(s, k + q + 1)
      BY <2>1, <2>2 DEF ListIs, VtyWalkAt, Walking
    <3>3. vcur \in Nodes /\ visited \in Seq(Nodes)
      BY <2>1 DEF Types
    <3>4. visited' = Append(visited, vcur)
      BY <2>1, <2>2
    <3> HIDE DEF k, q
    <3>5. k + q + 1 \in 1 .. Len(s)
      BY <3>1, <3>2, <3>3, AtIs
    <3>6. q + 1 \in 1 .. Len(present) /\ vcur = present[q + 1]
      <4>1. q + 1 \in 1 .. Len(present) /\ k + q + 1 = k + (q + 1)
        BY <3>1, <3>2, <3>5
      <4> QED
        BY <3>2, <3>5, <4>1 DEF At
    <3>7. /\ Len(visited') = q + 1
          /\ \A i \in 1 .. q + 1 : visited'[i] = present[i]
      BY <3>2, <3>3, <3>4, <3>6 DEF q
    <3>8. At(s, k + (q + 1)) = vcur
      <4>1. k + (q + 1) = k + q + 1
        BY <3>1
      <4> QED
        BY <3>2, <4>1
    <3>9. q + 1 > 0 /\ q + 1 <= Len(present)
      BY <3>1, <3>6
    <3>10. /\ lpc' = lpc /\ present' = present /\ vpc' = "advance" /\ vcur' = vcur
           /\ Len(s) - Len(present) = k /\ k >= 0
      BY <1>1, <2>1, <3>1 DEF k
    <3> QED
      BY <3>2, <3>7, <3>8, <3>9, <3>10 DEF VtyWalkAt
  <2> QED
    BY <1>2, <2>1, <2>2 DEF ListIs, VtyWalkAt
<1>5. CASE VtyAdvance
  <2>1. /\ vpc = "advance" /\ vcur \in heap /\ vpc' = "visit" /\ vcur' = nxt[vcur]
        /\ UNCHANGED <<visited, present, closed>>
    BY <1>5, Zenon DEF VtyAdvance
  <2>2. ASSUME ~ closed PROVE VtyWalkAt(s)'
    <3> DEFINE k == Len(s) - Len(present)
               q == Len(visited)
    <3>1. /\ k \in Nat /\ q \in Nat /\ Len(s) \in Nat /\ Len(present) \in Nat
          /\ Len(s) = k + Len(present)
      <4>1. visited \in Seq(Nodes) /\ present \in Seq(Nodes)
        BY DEF Types
      <4>2. k >= 0
        BY <2>1, <2>2 DEF ListIs, VtyWalkAt, Walking
      <4> QED
        BY <4>1, <4>2
    <3>2. /\ lpc \notin Closing /\ q <= Len(present)
          /\ \A i \in 1 .. Len(present) : s[k + i] = present[i]
          /\ \A i \in 1 .. q : visited[i] = present[i]
          /\ vcur = At(s, k + q)
      BY <2>1, <2>2 DEF ListIs, VtyWalkAt, Walking
    <3> HIDE DEF k, q
    <3>3. k + q \in 0 .. Len(s)
      BY <3>1, <3>2
    <3>4. vcur' = At(s, k + q + 1)
      BY <2>1, <3>2, <3>3 DEF ListIs, Forward
    <3> QED
      BY <1>1, <2>1, <3>1, <3>2, <3>4 DEF VtyWalkAt, k, q
  <2> QED
    BY <1>2, <2>1, <2>2 DEF ListIs, VtyWalkAt
<1>6. CASE VtyDone
  BY <1>2, <1>6 DEF VtyDone, ListIs, VtyWalkAt, Walking
<1>7. CASE VtyTouchesFreed
  <2>1. VtyWalkAt(s)'
    BY <1>1, <1>7 DEF VtyTouchesFreed, vtyVars, ListIs, VtyWalkAt, Walking
  <2> QED
    BY <1>2, <2>1 DEF ListIs
<1> QED
  BY <1>3, <1>4, <1>5, <1>6, <1>7 DEF Command

\* The walk of the vty thread stays where it is in an unchanged list.
LEMMA VtyKept ==
  ASSUME NEW s \in Seq(Nodes), VtyWalkAt(s), UNCHANGED <<vtyVars, closed>>,
         lpc' \in Closing => lpc \in Closing
  PROVE  VtyWalkAt(s)'
<1>1. UNCHANGED <<vpc, vcur, visited, present, closed>>
  BY DEF vtyVars
<1> QED
  BY <1>1 DEF VtyWalkAt, Walking

\* The steps of the loop thread that leave the list as it is.
LEMMA LoopKeeps ==
  ASSUME Types, NEW s \in Seq(Nodes), ListIs(s),
         \/ AcceptLock \/ CloseLock \/ LoopWalk \/ LoopWalkNext \/ LoopWalkEnd
         \/ LoopTouchesFreed \/ Data \/ DataLock \/ DataWritten \/ DataShort
  PROVE  ListIs(s)'
<1>1. UNCHANGED <<nxt, prv, heap, userdata, lnode, vtyVars, closed>>
  BY DEF AcceptLock, CloseLock, LoopWalk, LoopWalkNext, LoopWalkEnd, LoopTouchesFreed, Data,
         DataLock, DataWritten, DataShort, loopVars
<1>2. /\ lpc # "publish" /\ lpc' # "publish"
      /\ (lpc' \in Closing <=> lpc \in Closing) /\ (lpc' \in Accepting <=> lpc \in Accepting)
      /\ (lpc' = "free" <=> lpc = "free")
  BY DEF AcceptLock, CloseLock, LoopWalk, LoopWalkNext, LoopWalkEnd, LoopTouchesFreed, Data,
         DataLock, DataWritten, DataShort, loopVars, Accepting, Closing
<1>3. Forward(s)' /\ Backward(s)' /\ VtyWalkAt(s)'
  BY <1>1, <1>2, LinksKept, VtyKept DEF ListIs
<1>4. Owned(s)'
  <2>1. Owned(s)
    BY DEF ListIs
  <2>2. (lpc' \in Accepting \cup {"free"} <=> lpc \in Accepting \cup {"free"})
        /\ (lpc' \in Accepting \cup Closing <=> lpc \in Accepting \cup Closing)
    BY <1>2
  <2> QED
    BY <1>1, <1>2, <2>1, <2>2 DEF Owned
<1>5. LoopWalkAt(s)'
  <2>1. nxt[ListHead] = At(s, 1) /\ At(s, 1) \in Of(s) \cup {ListHead}
    <3>1. At(s, 0) = ListHead /\ 0 \in 0 .. Len(s) /\ At(s, 1) \in Of(s) \cup {ListHead}
      BY AtIs
    <3> QED
      BY <3>1 DEF ListIs, Forward
  <2>2. CASE LoopWalk
    BY <1>1, <2>1, <2>2 DEF LoopWalk, LoopWalkAt, Closing
  <2>3. CASE LoopWalkNext
    <3>1. lcur \in Of(s)
      BY <2>3, NodesAssumption DEF LoopWalkNext, ListIs, LoopWalkAt, Types
    <3>2. PICK i \in 1 .. Len(s) : lcur = s[i]
      BY <3>1 DEF Of
    <3>3. i \in 0 .. Len(s) /\ At(s, i) = s[i] /\ At(s, i + 1) \in Of(s) \cup {ListHead}
      BY AtIs
    <3>4. nxt[lcur] = At(s, i + 1)
      BY <3>2, <3>3 DEF ListIs, Forward
    <3> QED
      BY <1>1, <2>3, <3>3, <3>4 DEF LoopWalkNext, LoopWalkAt, Closing
  <2>4. CASE LoopWalkEnd
    BY <2>4 DEF LoopWalkEnd, LoopWalkAt, Closing
  <2>5. CASE UNCHANGED lcur /\ (lpc' = "walk" <=> lpc = "walk")
    BY <1>1, <1>2, <2>5 DEF ListIs, LoopWalkAt
  <2> QED
    BY <2>2, <2>3, <2>4, <2>5
       DEF AcceptLock, CloseLock, LoopTouchesFreed, Data, DataLock, DataWritten, DataShort, loopVars
<1> QED
  BY <1>3, <1>4, <1>5 DEF ListIs

\* netmt_accept allocates a block that is in no list.
LEMMA AcceptKeeps ==
  ASSUME Types, NEW s \in Seq(Nodes), ListIs(s), NEW n \in Nodes, Accept(n)
  PROVE  ListIs(s)'
<1>1. /\ lpc = "poll" /\ n \notin heap /\ heap' = heap \cup {n} /\ userdata' = userdata \cup {n}
      /\ nxt' = [nxt EXCEPT ![n] = Null] /\ prv' = [prv EXCEPT ![n] = Null]
      /\ lnode' = n /\ lpc' = "accept lock" /\ UNCHANGED <<lcur, vtyVars, closed>>
  BY DEF Accept
<1>2. n \notin Of(s) /\ n # ListHead /\ heap = Of(s) /\ userdata = heap
  BY <1>1, NodesAssumption DEF ListIs, Owned, Accepting, Closing
<1>3. \A i \in Int : At(s, i) # n /\ At(s, i) \in Links
  BY <1>2, AtIs DEF Types, Links, ListIs
<1>4. \A l \in Links : l # n => nxt'[l] = nxt[l] /\ prv'[l] = prv[l]
  BY <1>1 DEF Types
<1>5. \A i \in 0 .. Len(s) : /\ nxt'[At(s, i)] = nxt[At(s, i)]
                             /\ prv'[At(s, i + 1)] = prv[At(s, i + 1)]
  <2>1. \A i \in 0 .. Len(s) : i \in Int /\ i + 1 \in Int
    OBVIOUS
  <2> QED
    BY <1>3, <1>4, <2>1
<1>6. Forward(s)' /\ Backward(s)'
  BY <1>1, <1>5 DEF ListIs, Forward, Backward
<1>7. Owned(s)'
  BY <1>1, <1>2 DEF Owned, Accepting, Closing
<1>8. LoopWalkAt(s)' /\ VtyWalkAt(s)'
  BY <1>1, VtyKept DEF ListIs, LoopWalkAt, Closing
<1> QED
  BY <1>6, <1>7, <1>8 DEF ListIs

\* The stores of list_add before head->next do not show in a walk.
LEMMA LinkKeeps ==
  ASSUME Types, NEW s \in Seq(Nodes), ListIs(s), Link
  PROVE  ListIs(s)'
<1>1. /\ lpc = "link" /\ lpc' = "publish"
      /\ prv' = [prv EXCEPT ![nxt[ListHead]] = lnode, ![lnode] = ListHead]
      /\ nxt' = [nxt EXCEPT ![lnode] = nxt[ListHead]]
      /\ UNCHANGED <<heap, userdata, lnode, lcur, vtyVars, closed>>
  BY DEF Link
<1>2. /\ lnode \in Nodes /\ lnode \notin Of(s) /\ lnode # ListHead
  BY <1>1, NodesAssumption DEF ListIs, Owned, Accepting, Types
<1>3. \A i \in Int : At(s, i) # lnode /\ At(s, i) \in Links
  BY <1>2, AtIs DEF Links
<1>4. nxt[ListHead] = At(s, 1) /\ Len(s) \in Nat
  <2>1. At(s, 0) = ListHead /\ 0 \in 0 .. Len(s)
    BY AtIs
  <2> QED
    BY <2>1 DEF ListIs, Forward
<1>5. \A l \in Links : l # lnode => /\ nxt'[l] = nxt[l]
                                    /\ prv'[l] = IF l = At(s, 1) THEN lnode ELSE prv[l]
  BY <1>1, <1>4 DEF Types
<1>6. nxt'[lnode] = At(s, 1) /\ prv'[lnode] = ListHead
  <2>1. lnode \in Links
    BY <1>2 DEF Links
  <2> QED
    BY <1>1, <1>4, <2>1 DEF Types
<1>7. Forward(s)'
  <2>1. ASSUME NEW i \in 0 .. Len(s) PROVE nxt'[At(s, i)] = At(s, i + 1)
    BY <1>3, <1>5 DEF ListIs, Forward
  <2> QED
    BY <2>1 DEF ListIs, Forward
<1>8. Backward(s)'
  <2>1. ASSUME NEW i \in 0 .. Len(s)
        PROVE  prv'[At(s, i + 1)] = IF i = 0 THEN lnode ELSE At(s, i)
    <3>1. i + 1 \in Int /\ (i = 0 <=> i + 1 = 1) /\ 1 \in Int
      OBVIOUS
    <3>2. i # 0 => At(s, i + 1) # At(s, 1)
      <4>1. CASE i # 0 /\ i + 1 \in 1 .. Len(s)
        <5>1. i + 1 # 1 /\ 1 \in 1 .. Len(s)
          BY <1>4, <4>1
        <5> QED
          BY <4>1, <5>1, AtIs DEF ListIs, Forward
      <4>2. CASE i # 0 /\ i + 1 \notin 1 .. Len(s)
        <5>1. At(s, i + 1) = ListHead /\ 1 \in 1 .. Len(s)
          BY <1>4, <4>2, AtIs
        <5> QED
          BY <5>1, AtIs, NodesAssumption
      <4> QED
        BY <4>1, <4>2
    <3>3. prv[At(s, i + 1)] = At(s, i)
      BY <1>1 DEF ListIs, Backward
    <3> QED
      BY <1>3, <1>5, <3>1, <3>2, <3>3
  <2> QED
    BY <1>1, <1>6, <2>1 DEF Backward
<1>9. Owned(s)' /\ LoopWalkAt(s)' /\ VtyWalkAt(s)'
  <2>1. Owned(s)'
    BY <1>1 DEF ListIs, Owned, Accepting, Closing
  <2>2. LoopWalkAt(s)'
    BY <1>1 DEF ListIs, LoopWalkAt, Closing
  <2>3. VtyWalkAt(s)'
    BY <1>1, VtyKept DEF ListIs, Closing
  <2> QED
    BY <2>1, <2>2, <2>3
<1> QED
  BY <1>7, <1>8, <1>9 DEF ListIs

\* netmt_close begins, and the list is still whole.
LEMMA BeginCloseKeeps ==
  ASSUME Types, NEW s \in Seq(Nodes), ListIs(s), NEW n \in Nodes, n \in userdata, BeginClose(n),
         \/ lpc = "poll"
         \/ lpc = "walk" /\ n = lcur
  PROVE  ListIs(s)'
<1>1. /\ userdata' = userdata \ {n} /\ lnode' = n /\ lpc' = "close lock"
      /\ closed' = (closed \/ Walking) /\ UNCHANGED <<nxt, prv, heap, lcur, vpc>>
  BY Zenon DEF BeginClose
<1>2. Forward(s)' /\ Backward(s)'
  BY <1>1, LinksKept DEF ListIs
<1>3. Owned(s)'
  <2>1. heap = Of(s) /\ userdata = heap
    BY DEF ListIs, Owned, Accepting, Closing
  <2> QED
    BY <1>1, <2>1 DEF Owned, Accepting, Closing
<1>4. LoopWalkAt(s)'
  BY <1>1 DEF ListIs, LoopWalkAt, Closing
<1>5. VtyWalkAt(s)'
  <2>1. Walking' <=> Walking
    BY <1>1 DEF Walking
  <2>2. Walking => closed'
    BY <1>1
  <2> QED
    BY <2>1, <2>2 DEF VtyWalkAt
<1> QED
  BY <1>2, <1>3, <1>4, <1>5 DEF ListIs

\* HV_FREE takes a block that is no longer in the list.
LEMMA FreeKeeps ==
  ASSUME Types, NEW s \in Seq(Nodes), ListIs(s), Free
  PROVE  ListIs(s)'
<1>1. /\ lpc = "free" /\ heap' = heap \ {lnode} /\ lnode' = Null
      /\ lpc' = (IF lcur = Null THEN "poll" ELSE "walk")
      /\ UNCHANGED <<nxt, prv, userdata, lcur, vtyVars, closed>>
  BY DEF Free
<1>2. /\ heap = Of(s) \cup {lnode} /\ userdata = heap \ {lnode} /\ lnode \in heap /\ lnode \notin Of(s)
      /\ lcur \in {Null, lnode} /\ heap \subseteq Nodes
  BY <1>1 DEF ListIs, Owned, LoopWalkAt, Types, Accepting, Closing
<1>3. Forward(s)' /\ Backward(s)'
  BY <1>1, LinksKept DEF ListIs
<1>4. Owned(s)'
  BY <1>1, <1>2 DEF Owned, Accepting, Closing
<1>5. LoopWalkAt(s)'
  BY <1>1, <1>2 DEF LoopWalkAt, Closing
<1>6. VtyWalkAt(s)'
  BY <1>1, VtyKept DEF ListIs, Closing
<1> QED
  BY <1>3, <1>4, <1>5, <1>6 DEF ListIs

\* The new client comes first.
LEMMA PublishPushes ==
  ASSUME Types, NEW s \in Seq(Nodes), ListIs(s), Publish
  PROVE  \E t \in Seq(Nodes) : ListIs(t)'
<1>1. PICK x : x = lnode
  OBVIOUS
<1>2. /\ lpc = "publish" /\ lpc' = "poll" /\ nxt' = [nxt EXCEPT ![ListHead] = x]
      /\ lnode' = Null /\ UNCHANGED <<prv, heap, userdata, lcur, vtyVars, closed>>
  BY <1>1 DEF Publish
<1>3. /\ x \in Nodes /\ x \notin Of(s) /\ heap = Of(s) \cup {x} /\ userdata = heap
      /\ nxt[x] = At(s, 1) /\ prv[x] = ListHead /\ x # ListHead
  BY <1>1, <1>2, NodesAssumption DEF ListIs, Owned, Backward, Accepting, Closing, Types
<1> DEFINE t == <<x>> \o s
<1>4. /\ t \in Seq(Nodes) /\ Len(t) = Len(s) + 1 /\ Of(t) = Of(s) \cup {x}
      /\ At(t, 0) = ListHead /\ At(t, 1) = x /\ t[1] = x
      /\ \A i \in 1 .. Len(s) + 1 : At(t, i + 1) = At(s, i)
      /\ \A i \in 1 .. Len(s) : t[i + 1] = s[i]
      /\ \A i, j \in 1 .. Len(t) : t[i] = t[j] => i = j
  BY <1>3, PushedFront DEF ListIs, Forward
<1>5. Len(s) \in Nat
  OBVIOUS
<1> HIDE DEF t
<1>6. \A l \in Links : nxt'[l] = IF l = ListHead THEN x ELSE nxt[l]
  BY <1>2 DEF Types
<1>7. Forward(t)'
  <2>1. ASSUME NEW i \in 0 .. Len(t) PROVE nxt'[At(t, i)] = At(t, i + 1)
    <3>1. CASE i = 0
      BY <1>4, <1>6, <3>1 DEF Links
    <3>2. CASE i = 1
      BY <1>3, <1>4, <1>5, <1>6, <3>2 DEF Links
    <3>3. CASE i > 1
      <4>1. PICK j \in 1 .. Len(s) : i = j + 1
        BY <1>4, <1>5, <3>3
      <4>2. At(t, i) = At(s, j) /\ At(t, i + 1) = At(s, j + 1)
        <5>1. j \in 1 .. Len(s) + 1 /\ j + 1 \in 1 .. Len(s) + 1 /\ i + 1 = (j + 1) + 1
          BY <1>5, <4>1
        <5> QED
          BY <1>4, <4>1, <5>1
      <4>3. At(s, j) \in Nodes /\ nxt[At(s, j)] = At(s, j + 1)
        BY <4>1, AtIs DEF ListIs, Forward
      <4> QED
        BY <1>6, <4>2, <4>3, NodesAssumption DEF Links
    <3> QED
      BY <3>1, <3>2, <3>3
  <2> QED
    BY <1>4, <2>1 DEF Forward
<1>8. Backward(t)'
  <2>1. ASSUME NEW i \in 0 .. Len(t) PROVE prv[At(t, i + 1)] = At(t, i)
    <3>1. CASE i = 0
      BY <1>3, <1>4, <3>1
    <3>2. CASE i > 0
      <4>1. PICK j \in 0 .. Len(s) : i = j + 1 /\ j + 1 \in 1 .. Len(s) + 1
        BY <1>4, <1>5, <3>2
      <4>2. At(t, i + 1) = At(s, j + 1)
        BY <1>4, <4>1
      <4>3. prv[At(s, j + 1)] = IF j = 0 THEN x ELSE At(s, j)
        BY <1>1, <1>2 DEF ListIs, Backward
      <4>4. At(t, i) = IF j = 0 THEN x ELSE At(s, j)
        <5>1. CASE j = 0
          BY <1>4, <4>1, <5>1
        <5>2. CASE j # 0
          <6>1. j \in 1 .. Len(s) + 1
            BY <4>1, <5>2
          <6> QED
            BY <1>4, <4>1, <5>2, <6>1
        <5> QED
          BY <5>1, <5>2
      <4> QED
        BY <4>2, <4>3, <4>4
    <3> QED
      BY <3>1, <3>2
  <2> QED
    BY <1>2, <2>1 DEF Backward
<1>9. Owned(t)'
  BY <1>2, <1>3, <1>4 DEF Owned, Accepting, Closing
<1>10. LoopWalkAt(t)'
  BY <1>2 DEF ListIs, LoopWalkAt, Closing
<1>11. VtyWalkAt(t)'
  <2>0. UNCHANGED <<vpc, vcur, visited, present, closed>>
    BY <1>2 DEF vtyVars
  <2> SUFFICES ASSUME Walking, ~ closed PROVE VtyWalkAt(t)'
    BY <2>0 DEF VtyWalkAt, Walking
  <2> DEFINE k == Len(s) - Len(present)
             q == Len(visited)
  <2>1. /\ k >= 0 /\ q <= Len(present)
        /\ \A i \in 1 .. Len(present) : s[k + i] = present[i]
        /\ \A i \in 1 .. q : visited[i] = present[i]
        /\ vpc = "visit" => vcur = At(s, k + q + 1)
        /\ vpc = "advance" => q > 0 /\ vcur = At(s, k + q)
    BY DEF ListIs, VtyWalkAt
  <2>2. present \in Seq(Nodes) /\ visited \in Seq(Nodes)
    BY DEF Types
  <2>3. Len(present) \in Nat /\ q \in Nat /\ k \in Nat /\ Len(s) = k + Len(present)
    BY <1>5, <2>1, <2>2
  <2>4. Len(t) - Len(present) = k + 1
    BY <1>4, <2>3
  <2> HIDE DEF k, q
  <2>5. \A i \in 1 .. Len(present) : t[(k + 1) + i] = present[i]
    <3> TAKE i \in 1 .. Len(present)
    <3>1. k + i \in 1 .. Len(s) /\ (k + 1) + i = (k + i) + 1
      BY <2>3
    <3> QED
      BY <1>4, <2>1, <3>1
  <2>6. vpc = "visit" => vcur = At(t, (k + 1) + q + 1)
    <3>1. k + q + 1 \in 1 .. Len(s) + 1 /\ (k + 1) + q + 1 = (k + q + 1) + 1
      BY <2>1, <2>3
    <3> QED
      BY <1>4, <2>1, <3>1
  <2>7. vpc = "advance" => q > 0 /\ vcur = At(t, (k + 1) + q)
    <3>1. q > 0 => k + q \in 1 .. Len(s) + 1 /\ (k + 1) + q = (k + q) + 1
      BY <2>1, <2>3
    <3> QED
      BY <1>4, <2>1, <3>1
  <2>8. lpc' \notin Closing /\ k + 1 >= 0
    BY <1>2, <2>3 DEF Closing
  <2> QED
    BY <2>0, <2>1, <2>4, <2>5, <2>6, <2>7, <2>8 DEF VtyWalkAt, q
<1>12. ListIs(t)'
  BY <1>7, <1>8, <1>9, <1>10, <1>11 DEF ListIs
<1> QED
  BY <1>4, <1>12

\* The closed client is taken out, wherever it is.
LEMMA UnlinkTakesOut ==
  ASSUME Types, NEW s \in Seq(Nodes), ListIs(s), Unlink
  PROVE  \E t \in Seq(Nodes) : ListIs(t)'
<1>1. /\ lpc = "unlink" /\ lpc' = "free"
      /\ prv' = [prv EXCEPT ![nxt[lnode]] = prv[lnode]]
      /\ nxt' = [nxt EXCEPT ![prv[lnode]] = nxt[lnode]]
      /\ UNCHANGED <<heap, userdata, lnode, lcur, vtyVars, closed>>
  BY DEF Unlink
<1>2. heap = Of(s) /\ userdata = heap \ {lnode} /\ lnode \in Of(s)
  BY <1>1 DEF ListIs, Owned, Accepting, Closing
<1>3. PICK k \in 1 .. Len(s) : lnode = s[k]
  BY <1>2 DEF Of
<1> DEFINE t == Without(s, k)
<1>4. /\ t \in Seq(Nodes) /\ Len(t) = Len(s) - 1 /\ Of(t) = Of(s) \ {s[k]}
      /\ \A i \in 0 .. Len(s) : At(t, i) = IF i < k THEN At(s, i) ELSE At(s, i + 1)
      /\ \A i, j \in 1 .. Len(t) : t[i] = t[j] => i = j
  BY TakenOut DEF ListIs, Forward
<1>5. Len(s) \in Nat /\ k \in Nat /\ k >= 1 /\ k <= Len(s)
  OBVIOUS
<1> HIDE DEF t
<1>6. At(s, k) = lnode /\ nxt[lnode] = At(s, k + 1) /\ prv[lnode] = At(s, k - 1)
  <2>1. At(s, k) = lnode
    BY <1>3 DEF At
  <2>2. nxt[At(s, k)] = At(s, k + 1)
    BY <1>5 DEF ListIs, Forward
  <2>3. k - 1 \in 0 .. Len(s) /\ (k - 1) + 1 = k
    BY <1>5
  <2>4. prv[At(s, k)] = At(s, k - 1)
    BY <1>1, <2>3 DEF ListIs, Backward
  <2> QED
    BY <2>1, <2>2, <2>4
<1>7. \A i \in Int : At(s, i) \in Links
  BY AtIs DEF Links
\* A link of s is mentioned once, but the head, which comes first and last.
<1>8. ASSUME NEW i \in 0 .. Len(s), NEW j \in 0 .. Len(s), At(s, i) = At(s, j) PROVE i = j
  <2>1. CASE i \in 1 .. Len(s) /\ j \in 1 .. Len(s)
    BY <1>8, <2>1, AtIs DEF ListIs, Forward
  <2>2. CASE i \notin 1 .. Len(s) \/ j \notin 1 .. Len(s)
    <3>1. At(s, i) = ListHead /\ At(s, j) = ListHead
      BY <1>8, <2>2, AtIs
    <3>2. i \notin 1 .. Len(s) /\ j \notin 1 .. Len(s)
      BY <3>1, AtIs
    <3> QED
      BY <1>5, <3>2
  <2> QED
    BY <2>1, <2>2
<1>9. ASSUME NEW i \in 1 .. Len(s) + 1, NEW j \in 1 .. Len(s) + 1, At(s, i) = At(s, j) PROVE i = j
  <2>1. CASE i \in 1 .. Len(s) /\ j \in 1 .. Len(s)
    BY <1>8, <1>9, <2>1
  <2>2. CASE i \notin 1 .. Len(s) \/ j \notin 1 .. Len(s)
    <3>1. At(s, i) = ListHead /\ At(s, j) = ListHead
      BY <1>9, <2>2, AtIs
    <3>2. i \notin 1 .. Len(s) /\ j \notin 1 .. Len(s)
      BY <3>1, AtIs
    <3> QED
      BY <1>5, <3>2
  <2> QED
    BY <2>1, <2>2
<1>10. \A l \in Links : /\ nxt'[l] = IF l = At(s, k - 1) THEN At(s, k + 1) ELSE nxt[l]
                        /\ prv'[l] = IF l = At(s, k + 1) THEN At(s, k - 1) ELSE prv[l]
  BY <1>1, <1>6 DEF Types
<1>11. Forward(t)'
  <2>1. ASSUME NEW i \in 0 .. Len(t) PROVE nxt'[At(t, i)] = At(t, i + 1)
    <3>0. i \in Int /\ i \in 0 .. Len(s) /\ i + 1 \in 0 .. Len(s)
      BY <1>4, <1>5
    <3>1. CASE i < k - 1
      <4>1. At(t, i) = At(s, i) /\ At(t, i + 1) = At(s, i + 1)
        BY <1>4, <1>5, <3>0, <3>1
      <4>2. At(s, i) # At(s, k - 1)
        BY <1>5, <1>8, <3>0, <3>1
      <4>3. nxt[At(s, i)] = At(s, i + 1)
        BY <3>0 DEF ListIs, Forward
      <4> QED
        BY <1>7, <1>10, <3>0, <4>1, <4>2, <4>3
    <3>2. CASE i = k - 1
      <4>1. At(t, i) = At(s, k - 1)
        BY <1>4, <1>5, <3>0, <3>2
      <4>2. At(t, i + 1) = At(s, k + 1)
        <5>1. i + 1 = k
          BY <1>5, <3>2
        <5> QED
          BY <1>4, <1>5, <3>0, <5>1
      <4> QED
        BY <1>5, <1>7, <1>10, <4>1, <4>2
    <3>3. CASE i >= k
      <4>1. At(t, i) = At(s, i + 1) /\ At(t, i + 1) = At(s, (i + 1) + 1)
        BY <1>4, <1>5, <3>0, <3>3
      <4>2. At(s, i + 1) # At(s, k - 1)
        <5>1. k - 1 \in 0 .. Len(s) /\ i + 1 # k - 1
          BY <1>5, <3>0, <3>3
        <5> QED
          BY <1>8, <3>0, <5>1
      <4>3. nxt[At(s, i + 1)] = At(s, (i + 1) + 1)
        BY <3>0 DEF ListIs, Forward
      <4> QED
        BY <1>7, <1>10, <3>0, <4>1, <4>2, <4>3
    <3> QED
      BY <1>5, <3>0, <3>1, <3>2, <3>3
  <2> QED
    BY <1>4, <2>1 DEF Forward
<1>12. Backward(t)'
  <2>1. ASSUME NEW i \in 0 .. Len(t) PROVE prv'[At(t, i + 1)] = At(t, i)
    <3>0. i \in Int /\ i \in 0 .. Len(s) /\ i + 1 \in 0 .. Len(s)
      BY <1>4, <1>5
    <3>1. CASE i < k - 1
      <4>1. At(t, i) = At(s, i) /\ At(t, i + 1) = At(s, i + 1)
        BY <1>4, <1>5, <3>0, <3>1
      <4>2. At(s, i + 1) # At(s, k + 1)
        <5>1. i + 1 \in 1 .. Len(s) + 1 /\ k + 1 \in 1 .. Len(s) + 1 /\ i + 1 # k + 1
          BY <1>5, <3>0, <3>1
        <5> QED
          BY <1>9, <5>1
      <4>3. prv[At(s, i + 1)] = At(s, i)
        BY <1>1, <3>0 DEF ListIs, Backward
      <4> QED
        BY <1>7, <1>10, <3>0, <4>1, <4>2, <4>3
    <3>2. CASE i = k - 1
      <4>1. At(t, i) = At(s, k - 1)
        BY <1>4, <1>5, <3>0, <3>2
      <4>2. At(t, i + 1) = At(s, k + 1)
        <5>1. i + 1 = k
          BY <1>5, <3>2
        <5> QED
          BY <1>4, <1>5, <3>0, <5>1
      <4> QED
        BY <1>5, <1>7, <1>10, <4>1, <4>2
    <3>3. CASE i >= k
      <4>1. At(t, i) = At(s, i + 1) /\ At(t, i + 1) = At(s, (i + 1) + 1)
        BY <1>4, <1>5, <3>0, <3>3
      <4>2. At(s, (i + 1) + 1) # At(s, k + 1)
        <5>1. (i + 1) + 1 \in 1 .. Len(s) + 1 /\ k + 1 \in 1 .. Len(s) + 1 /\ (i + 1) + 1 # k + 1
          BY <1>5, <3>0, <3>3
        <5> QED
          BY <1>9, <5>1
      <4>3. prv[At(s, (i + 1) + 1)] = At(s, i + 1)
        <5>1. i + 1 # 0
          BY <3>0, <3>3, <1>5
        <5> QED
          BY <1>1, <3>0, <5>1 DEF ListIs, Backward
      <4> QED
        BY <1>7, <1>10, <3>0, <4>1, <4>2, <4>3
    <3> QED
      BY <1>5, <3>0, <3>1, <3>2, <3>3
  <2> QED
    BY <1>1, <2>1 DEF Backward
<1>13. Owned(t)'
  BY <1>1, <1>2, <1>3, <1>4 DEF Owned, Accepting, Closing
<1>14. LoopWalkAt(t)'
  BY <1>1 DEF ListIs, LoopWalkAt, Closing
<1>15. VtyWalkAt(t)'
  <2>1. UNCHANGED <<vpc, closed>>
    BY <1>1 DEF vtyVars
  <2>2. ~ (Walking /\ ~ closed)
    BY <1>1 DEF ListIs, VtyWalkAt, Closing
  <2> QED
    BY <2>1, <2>2 DEF VtyWalkAt, Walking
<1>16. ListIs(t)'
  BY <1>11, <1>12, <1>13, <1>14, <1>15 DEF ListIs
<1> QED
  BY <1>4, <1>16

-----------------------------------------------------------------------------
\* Only a thread that has left the list uses freed memory.
LEMMA FreedStep ==
  ASSUME Types, Freed, NEW s \in Seq(Nodes), ListIs(s), Next
  PROVE  Freed'
<1>1. touched = {}
  BY DEF Next, Loop, Handler, Command, Accept, Close, AcceptLock, Link, Publish, CloseLock, Unlink,
         Free, LoopWalk, LoopWalkNext, LoopWriteFails, LoopWalkEnd, LoopTouchesFreed, Data, DataLock,
         DataWritten, DataShort, VtyWalk, VtyVisit, VtyAdvance, VtyDone, VtyTouchesFreed, Defined
<1>2. CASE LoopTouchesFreed
  BY <1>2, Zenon DEF LoopTouchesFreed, loopVars, Freed
<1>3. CASE VtyTouchesFreed
  <2>1. Walking /\ vcur \notin heap \cup {ListHead} /\ touched' = {"vty"} /\ closed' = closed
    BY <1>3 DEF VtyTouchesFreed
  <2>2. ASSUME ~ closed PROVE vcur \in Of(s) \cup {ListHead}
    <3>1. present \in Seq(Nodes) /\ visited \in Seq(Nodes) /\ vpc \in {"visit", "advance"}
      BY <2>1 DEF Types, Walking
    <3>2. \E i \in Int : vcur = At(s, i)
      BY <2>1, <2>2, <3>1 DEF ListIs, VtyWalkAt
    <3> QED
      BY <3>2, AtIs
  <2>3. Of(s) \subseteq heap
    BY DEF ListIs, Owned
  <2>4. closed
    BY <2>1, <2>2, <2>3
  <2> QED
    BY <2>1, <2>4 DEF Freed
<1>4. CASE touched' = touched
  BY <1>1, <1>4 DEF Freed
<1> QED
  BY <1>2, <1>3, <1>4
     DEF Next, Loop, Handler, Command, Accept, Close, BeginClose, AcceptLock, Link, Publish,
         CloseLock, Unlink, Free, LoopWalk, LoopWalkNext, LoopWriteFails, LoopWalkEnd, Data, DataLock,
         DataWritten, DataShort, VtyWalk, VtyVisit, VtyAdvance, VtyDone

\* After every step the list is again a sequence of clients.
LEMMA ListStep ==
  ASSUME Types, NEW s \in Seq(Nodes), ListIs(s), Next
  PROVE  \E t \in Seq(Nodes) : ListIs(t)'
<1>1. CASE VtyWalk \/ Command
  BY <1>1, VtyStep
<1>2. ASSUME NEW n \in Nodes, Accept(n) PROVE ListIs(s)'
  BY <1>2, AcceptKeeps
<1>3. ASSUME NEW n \in Nodes, Close(n) PROVE ListIs(s)'
  BY <1>3, BeginCloseKeeps DEF Close
<1>4. CASE LoopWriteFails
  <2>1. lcur \in userdata /\ lpc = "walk" /\ BeginClose(lcur)
    BY <1>4 DEF LoopWriteFails
  <2>2. lcur \in Nodes
    BY <2>1 DEF ListIs, Owned, Types
  <2>3. PICK n \in Nodes : n = lcur
    BY <2>2
  <2>4. n \in userdata /\ BeginClose(n)
    BY <2>1, <2>3 DEF BeginClose
  <2>5. ListIs(s)'
    BY <2>1, <2>3, <2>4, BeginCloseKeeps
  <2> QED
    BY <2>5
<1>5. CASE \/ AcceptLock \/ CloseLock \/ LoopWalk \/ LoopWalkNext \/ LoopWalkEnd
           \/ LoopTouchesFreed \/ Data \/ DataLock \/ DataWritten \/ DataShort
  BY <1>5, LoopKeeps
<1>6. CASE Link
  BY <1>6, LinkKeeps
<1>7. CASE Free
  BY <1>7, FreeKeeps
<1>8. CASE Publish
  BY <1>8, PublishPushes
<1>9. CASE Unlink
  BY <1>9, UnlinkTakesOut
<1> QED
  BY <1>1, <1>2, <1>3, <1>4, <1>5, <1>6, <1>7, <1>8, <1>9 DEF Next, Loop, Handler

\* The list begins empty.
LEMMA InitInv == Init => Inv
<1> SUFFICES ASSUME Init PROVE Inv
  OBVIOUS
<1>1. Types /\ Freed
  <2>1. ListHead \in Links /\ <<>> \in Seq(Nodes)
    BY DEF Links
  <2>2. /\ nxt \in [Links -> Links \cup {Null}] /\ prv \in [Links -> Links \cup {Null}]
        /\ owner \in [{LoopMutex, VtyMutex} -> {"none", "loop", "vty"}]
    BY <2>1 DEF Init
  <2>3. /\ heap = {} /\ lpc = "poll" /\ lnode = Null /\ lcur = Null /\ vpc = "prompt" /\ vcur = Null
        /\ visited = <<>> /\ present = <<>> /\ closed = FALSE /\ short = FALSE /\ touched = {}
    BY DEF Init
  <2>4. {} \subseteq Nodes
    OBVIOUS
  <2>5. Types
    BY <2>1, <2>2, <2>3, <2>4 DEF Types
  <2>6. touched = {} /\ touched # {"vty"} /\ touched # {"loop"}
    BY <2>3
  <2>7. Freed
    BY <2>6 DEF Freed
  <2> QED
    BY <2>5, <2>7
<1>2. <<>> \in Seq(Nodes) /\ Len(<<>>) = 0 /\ \A i \in 1 .. 0 : FALSE
  OBVIOUS
<1>3. \A i : At(<<>>, i) = ListHead
  BY <1>2 DEF At
<1>4. nxt[ListHead] = ListHead /\ prv[ListHead] = ListHead /\ lpc = "poll"
  BY DEF Init, Links
<1>5. Forward(<<>>) /\ Backward(<<>>)
  BY <1>2, <1>3, <1>4 DEF Forward, Backward
<1>6. Owned(<<>>)
  <2>1. Of(<<>>) = {}
    BY <1>2 DEF Of
  <2> QED
    BY <1>4, <2>1 DEF Init, Owned, Accepting, Closing
<1>7. LoopWalkAt(<<>>) /\ VtyWalkAt(<<>>)
  BY DEF Init, LoopWalkAt, VtyWalkAt, Walking, Closing
<1> QED
  BY <1>1, <1>2, <1>5, <1>6, <1>7 DEF Inv, ListIs

\* Every step keeps the invariant.
LEMMA StepInv == Inv /\ [Next]_vars => Inv'
<1> SUFFICES ASSUME Inv, [Next]_vars PROVE Inv'
  OBVIOUS
<1>1. PICK s \in Seq(Nodes) : ListIs(s)
  BY DEF Inv
<1>2. CASE Next
  BY <1>1, <1>2, TypesStep, FreedStep, ListStep DEF Inv
<1>3. CASE UNCHANGED vars
  <2>1. UNCHANGED <<nxt, prv, heap, userdata, owner, lpc, lnode, lcur, vpc, vcur, closed, visited,
                    present, short, touched>>
    BY <1>3 DEF vars, loopVars, vtyVars
  <2>2. Types'
    BY <2>1 DEF Inv, Types
  <2>3. Types' /\ Freed'
    BY <2>1, <2>2 DEF Inv, Freed
  <2>4. Forward(s)' /\ Backward(s)'
    BY <1>1, <2>1 DEF ListIs, Forward, Backward
  <2>5. Owned(s)' /\ LoopWalkAt(s)'
    BY <1>1, <2>1 DEF ListIs, Owned, LoopWalkAt
  <2>6. VtyWalkAt(s)'
    BY <1>1, <2>1, Zenon DEF ListIs, VtyWalkAt, Walking
  <2> QED
    BY <2>3, <2>4, <2>5, <2>6 DEF Inv, ListIs
<1> QED
  BY <1>2, <1>3

\* The inductive invariant: the list is a sequence of allocated blocks, linked both
\* ways but between the stores of list_add, and each walk is at a known place of it.
THEOREM Invariance == Spec => []Inv
  BY InitInv, StepInv, PTL DEF Spec
-----------------------------------------------------------------------------
\* The links, blocks and places in list_for_each, list_add and list_del keep their
\* types, and a hevent_userdata never points to a block that HV_FREE took.
THEOREM TypeCorrect == Spec => []TypeOK
<1>1. Inv => TypeOK
  <2> SUFFICES ASSUME Types, Freed, NEW s \in Seq(Nodes), Owned(s) PROVE TypeOK
    BY DEF Inv, ListIs
  <2>1. userdata \subseteq heap /\ touched \subseteq {"loop", "vty"}
    BY DEF Owned, Freed
  <2> QED
    BY <2>1 DEF Types, TypeOK
<1> QED
  BY <1>1, Invariance, PTL

\* Also between the stores of __list_add and __list_del, a list_for_each that starts
\* at the head meets allocated clients only and comes back to the head.
THEOREM ChainAlwaysSound == Spec => []ForwardChainSound
<1>1. Inv => ForwardChainSound
  <2> SUFFICES ASSUME NEW s \in Seq(Nodes), Forward(s), Owned(s) PROVE ForwardChainSound
    BY DEF Inv, ListIs
  <2> QED
    BY ListFound DEF Owned, ForwardChainSound
<1> QED
  BY <1>1, Invariance, PTL

\* When no handler of the TCP loop runs, t_server.clients is the set of open
\* connections: netmt_accept and netmt_close have left no other block and no gap.
THEOREM ListAlwaysOpenConnections == Spec => []ListIsOpenConnections
<1>1. Inv => ListIsOpenConnections
  <2> SUFFICES ASSUME NEW s \in Seq(Nodes), ListIs(s), lpc = "poll" PROVE
                 /\ Listed = userdata /\ Listed = heap
                 /\ \A l \in Listed \cup {ListHead} : prv[nxt[l]] = l
    BY DEF Inv, ListIsOpenConnections
  <2>1. Listed = Of(s)
    BY ListFound DEF ListIs
  <2>2. heap = Of(s) /\ userdata = heap
    BY DEF ListIs, Owned, Accepting, Closing
  <2>3. ASSUME NEW l \in Of(s) \cup {ListHead} PROVE prv[nxt[l]] = l
    <3>1. PICK i \in 0 .. Len(s) : l = At(s, i)
      <4>1. CASE l = ListHead
        <5>1. 0 \in 0 .. Len(s) /\ At(s, 0) = ListHead
          BY AtIs
        <5> QED
          BY <4>1, <5>1
      <4>2. CASE l \in Of(s)
        <5>1. PICK j \in 1 .. Len(s) : l = s[j]
          BY <4>2 DEF Of
        <5>2. j \in 0 .. Len(s) /\ At(s, j) = s[j]
          BY AtIs
        <5> QED
          BY <5>1, <5>2
      <4> QED
        BY <4>1, <4>2
    <3>2. nxt[At(s, i)] = At(s, i + 1) /\ prv[At(s, i + 1)] = At(s, i)
      BY DEF ListIs, Forward, Backward
    <3> QED
      BY <3>1, <3>2
  <2> QED
    BY <2>1, <2>2, <2>3
<1> QED
  BY <1>1, Invariance, PTL

\* send, register, exec and get write once to every client there was when the command
\* began, in the list's order, when none is closed meanwhile.
THEOREM BroadcastsOnce == Spec => []BroadcastOnce
<1>1. Inv => BroadcastOnce
  <2> SUFFICES ASSUME Types, NEW s \in Seq(Nodes), ListIs(s), vpc = "visit", vcur = ListHead, ~ closed
               PROVE  visited = present
    BY DEF Inv, BroadcastOnce
  <2> DEFINE k == Len(s) - Len(present)
             q == Len(visited)
  <2>1. /\ k >= 0 /\ q <= Len(present) /\ vcur = At(s, k + q + 1)
        /\ \A i \in 1 .. q : visited[i] = present[i]
    BY DEF ListIs, VtyWalkAt, Walking
  <2>2. visited \in Seq(Nodes) /\ present \in Seq(Nodes)
    BY DEF Types
  <2>3. q = Len(present)
    <3>1. /\ k \in Nat /\ q \in Nat /\ Len(present) \in Nat /\ Len(s) \in Nat
          /\ Len(s) = k + Len(present)
      BY <2>1, <2>2
    <3> HIDE DEF k, q
    <3>2. k + q + 1 \notin 1 .. Len(s)
      BY <2>1, <3>1, AtIs
    <3> QED
      BY <2>1, <3>1, <3>2
  <2>4. visited = [i \in 1 .. Len(visited) |-> visited[i]]
        /\ present = [i \in 1 .. Len(present) |-> present[i]]
    BY <2>2
  <2> QED
    BY <2>1, <2>3, <2>4
<1> QED
  BY <1>1, Invariance, PTL

\* With the two mutexes both called s_mutex excluding nobody, it is netmt_close alone
\* that makes a walk use freed memory: to accept during one never does.
THEOREM ClosesAloneEndanger == Spec => []OnlyClosesEndangerWalks
<1>1. Inv => OnlyClosesEndangerWalks
  <2> SUFFICES ASSUME Freed, NEW s \in Seq(Nodes), Owned(s) PROVE OnlyClosesEndangerWalks
    BY DEF Inv, ListIs
  <2> QED
    BY DEF Freed, Owned, OnlyClosesEndangerWalks
<1> QED
  BY <1>1, Invariance, PTL
=============================================================================
