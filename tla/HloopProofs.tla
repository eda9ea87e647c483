----------------------------- MODULE HloopProofs -----------------------------
(***************************************************************************)
(* For any number of timers, of any kinds, any clock and any number of     *)
(* posts and resets: the heap of a loop is one after every operation, and  *)
(* what the loop promises of its timers and of posted events.              *)
(***************************************************************************)
EXTENDS Hloop, FiniteSetTheorems, WellFoundedInduction, TLAPS

N0 == Timers \cup {Null}
Heaps == [root : N0, nelts : Nat, parent : [Timers -> N0], left : [Timers -> N0],
          right : [Timers -> N0]]
Keys == [Timers -> Int]

\* The nodes in level order: of node k, 2k and 2k + 1 are below.
Nth(s, n, k) == IF k \in 1 .. n THEN s[k] ELSE Null
Level1(n, s) ==
    /\ s \in [1 .. n -> Timers]
    /\ \A i, j \in 1 .. n : s[i] = s[j] => i = j
Nodes(n, s) == {s[k] : k \in 1 .. n}
Under(k) == {2 * k, 2 * k + 1}

\* The heap h is the complete tree of those nodes, and nothing else is linked.
Tree(h, n, s) ==
    /\ n \in Nat /\ h.nelts = n /\ Level1(n, s)
    /\ h.root = Nth(s, n, 1)
    /\ \A k \in 1 .. n : /\ h.left[s[k]] = Nth(s, n, 2 * k)
                         /\ h.right[s[k]] = Nth(s, n, 2 * k + 1)
                         /\ \A m \in Under(k) : m <= n => h.parent[s[m]] = s[k]
    /\ n > 0 => h.parent[s[1]] = Null
    /\ \A t \in Timers : t \notin Nodes(n, s) =>
           h.parent[t] = Null /\ h.left[t] = Null /\ h.right[t] = Null
-----------------------------------------------------------------------------
LEMMA NullIsNone == Null \notin Timers /\ Timers \subseteq Nat /\ NumTimers \in Nat
BY HloopAssumption DEF Null, Timers

\* Every place but the first is under one above it.
LEMMA PlaceAbove ==
  ASSUME NEW k \in Nat, k > 1
  PROVE  \E i \in 1 .. k - 1 : k \in Under(i)
<1> DEFINE i == k \div 2
<1>1. i \in 1 .. k - 1 /\ (k = 2 * i \/ k = 2 * i + 1)
  OBVIOUS
<1> HIDE DEF i
<1> QED
  BY <1>1 DEF Under

OnLeft(h, p, c) == h.left[p] = c
Sibling(h, p, c) == IF OnLeft(h, p, c) THEN h.right[p] ELSE h.left[p]

\* HeapSwap, field by field.
SwappedFields(h, p, c, g) ==
    /\ g \in Heaps /\ g.nelts = h.nelts
    /\ g.root = IF h.parent[p] = Null THEN c ELSE h.root
    /\ \A x \in Timers :
           /\ g.left[x] = IF x = p THEN h.left[c]
                          ELSE IF x = c THEN (IF OnLeft(h, p, c) THEN p ELSE Sibling(h, p, c))
                          ELSE IF x = h.parent[p] /\ h.left[x] = p THEN c ELSE h.left[x]
           /\ g.right[x] = IF x = p THEN h.right[c]
                           ELSE IF x = c THEN (IF OnLeft(h, p, c) THEN Sibling(h, p, c) ELSE p)
                           ELSE IF x = h.parent[p] /\ h.left[x] # p /\ h.right[x] = p THEN c
                           ELSE h.right[x]
           /\ g.parent[x] = IF x \in {p, Sibling(h, p, c)} THEN c
                            ELSE IF x = c THEN h.parent[p]
                            ELSE IF x \in {h.left[c], h.right[c]} THEN p
                            ELSE h.parent[x]

LEMMA SwapFields ==
  ASSUME NEW h \in Heaps, NEW p \in Timers, NEW c \in Timers, p # c
  PROVE  SwappedFields(h, p, c, HeapSwap(h, p, c))
<1> DEFINE r == Reparented(h, p, c)
           up == h.parent[p]
           onLeft == OnLeft(h, p, c)
           sibling == Sibling(h, p, c)
           g == HeapSwap(h, p, c)
<1>0. up \in N0 /\ sibling \in N0 /\ h.left[c] \in N0 /\ h.right[c] \in N0 /\ Null \notin Timers
  BY NullIsNone DEF Heaps, N0, OnLeft, Sibling
<1>1. /\ r \in Heaps /\ r.nelts = h.nelts /\ r.root = IF up = Null THEN c ELSE h.root
      /\ r.parent = h.parent
      /\ r.left = IF up # Null /\ h.left[up] = p THEN [h.left EXCEPT ![up] = c] ELSE h.left
      /\ r.right = IF up # Null /\ h.left[up] # p /\ h.right[up] = p
                   THEN [h.right EXCEPT ![up] = c] ELSE h.right
  BY <1>0 DEF Reparented, Heaps, Store, N0
<1> HIDE DEF r
<1> DEFINE par == Store([Store(Store(r.parent, h.left[c], p), h.right[c], p)
                                    EXCEPT ![c] = h.parent[p], ![p] = c], sibling, c)
           lft == [r.left EXCEPT ![c] = IF onLeft THEN p ELSE sibling, ![p] = h.left[c]]
           rgt == [r.right EXCEPT ![c] = IF onLeft THEN sibling ELSE p, ![p] = h.right[c]]
<1>2. g = [r EXCEPT !.parent = par, !.left = lft, !.right = rgt]
  BY DEF HeapSwap, OnLeft, Sibling, r
<1>3. par \in [Timers -> N0] /\ lft \in [Timers -> N0] /\ rgt \in [Timers -> N0]
  BY <1>0, <1>1 DEF Heaps, Store, N0
<1>4. \A x \in Timers :
                /\ lft[x] = IF x = p THEN h.left[c]
                               ELSE IF x = c THEN (IF onLeft THEN p ELSE sibling)
                               ELSE IF x = up /\ h.left[x] = p THEN c ELSE h.left[x]
                /\ rgt[x] = IF x = p THEN h.right[c]
                                ELSE IF x = c THEN (IF onLeft THEN sibling ELSE p)
                                ELSE IF x = up /\ h.left[x] # p /\ h.right[x] = p THEN c
                                ELSE h.right[x]
  BY <1>0, <1>1 DEF Heaps, N0
<1>5. ASSUME NEW x \in Timers
      PROVE  par[x] = IF x \in {p, sibling} THEN c
                      ELSE IF x = c THEN up
                      ELSE IF x \in {h.left[c], h.right[c]} THEN p
                      ELSE h.parent[x]
  BY <1>0, <1>1 DEF Heaps, N0, Store
<1> HIDE DEF par, lft, rgt
<1>6. /\ g \in Heaps /\ g.nelts = h.nelts /\ g.root = r.root
      /\ g.parent = par /\ g.left = lft /\ g.right = rgt
  BY <1>1, <1>2, <1>3 DEF Heaps
<1> QED
  BY <1>1, <1>4, <1>5, <1>6 DEF SwappedFields

-----------------------------------------------------------------------------
Swapped(n, s, i, j) == [k \in 1 .. n |-> IF k = i THEN s[j] ELSE IF k = j THEN s[i] ELSE s[k]]

\* The same nodes, in another order.
LEMMA SwappedOrder ==
  ASSUME NEW n \in Nat, NEW s, Level1(n, s), NEW i \in 1 .. n, NEW j \in 1 .. n, i # j
  PROVE  LET z == Swapped(n, s, i, j) IN
         /\ Level1(n, z) /\ Nodes(n, z) = Nodes(n, s)
         /\ z[i] = s[j] /\ z[j] = s[i]
         /\ \A k \in 1 .. n : k # i /\ k # j => z[k] = s[k]
<1> DEFINE z == Swapped(n, s, i, j)
<1>1. /\ z \in [1 .. n -> Timers] /\ z[i] = s[j] /\ z[j] = s[i]
      /\ \A k \in 1 .. n : k # i /\ k # j => z[k] = s[k]
  BY DEF Swapped, Level1
<1> HIDE DEF z
<1>2. ASSUME NEW k \in 1 .. n, NEW l \in 1 .. n, z[k] = z[l] PROVE k = l
  BY <1>1, <1>2 DEF Level1
<1>3. ASSUME NEW k \in 1 .. n PROVE z[k] \in Nodes(n, s)
  <2>1. z[k] \in {s[i], s[j], s[k]}
    BY <1>1
  <2> QED
    BY <2>1 DEF Nodes
<1>4. ASSUME NEW k \in 1 .. n PROVE s[k] \in Nodes(n, z)
  <2>1. s[k] \in {z[i], z[j], z[k]}
    BY <1>1
  <2> QED
    BY <2>1 DEF Nodes
<1>5. Nodes(n, z) = Nodes(n, s)
  BY <1>3, <1>4 DEF Nodes
<1> QED
  BY <1>1, <1>2, <1>5 DEF z, Level1

\* A node and the one it is under change places.
LEMMA SwapTree ==
  ASSUME NEW h \in Heaps, NEW n, NEW s, Tree(h, n, s),
         NEW i \in 1 .. n, NEW j \in 1 .. n, j \in Under(i)
  PROVE  Tree(HeapSwap(h, s[i], s[j]), n, Swapped(n, s, i, j))
<1> DEFINE p == s[i]
           c == s[j]
           g == HeapSwap(h, p, c)
           z == Swapped(n, s, i, j)
           up == h.parent[p]
           onLeft == OnLeft(h, p, c)
           sibling == Sibling(h, p, c)
<1>0. n \in Nat /\ h.nelts = n /\ Level1(n, s) /\ i # j /\ i \in Nat /\ j \in Nat
      /\ (j = 2 * i \/ j = 2 * i + 1)
  BY DEF Tree, Under
<1>1. /\ Level1(n, z) /\ Nodes(n, z) = Nodes(n, s) /\ z[i] = c /\ z[j] = p
      /\ \A k \in 1 .. n : k # i /\ k # j => z[k] = s[k]
  BY <1>0, SwappedOrder
<1>2. p \in Timers /\ c \in Timers /\ p # c
  BY <1>0 DEF Level1
<1>3. /\ g \in Heaps /\ g.nelts = h.nelts
      /\ g.root = IF up = Null THEN c ELSE h.root
      /\ \A x \in Timers :
                /\ g.left[x] = IF x = p THEN h.left[c]
                               ELSE IF x = c THEN (IF onLeft THEN p ELSE sibling)
                               ELSE IF x = up /\ h.left[x] = p THEN c ELSE h.left[x]
                /\ g.right[x] = IF x = p THEN h.right[c]
                                ELSE IF x = c THEN (IF onLeft THEN sibling ELSE p)
                                ELSE IF x = up /\ h.left[x] # p /\ h.right[x] = p THEN c
                                ELSE h.right[x]
                /\ g.parent[x] = IF x = sibling THEN c
                                 ELSE IF x = p THEN c
                                 ELSE IF x = c THEN up
                                 ELSE IF x = h.right[c] \/ x = h.left[c] THEN p
                                 ELSE h.parent[x]
  <2> HIDE DEF p, c
  <2>1. SwappedFields(h, p, c, g)
    BY <1>2, SwapFields, Zenon
  <2> HIDE DEF g
  <2> QED
    BY <2>1 DEF SwappedFields
<1> HIDE DEF g, z
\* In places: where the node above is, and the one beside.
<1>4. /\ h.root = s[1]
      /\ \A k \in 1 .. n : /\ s[k] \in Timers /\ s[k] # Null
                           /\ h.left[s[k]] = IF 2 * k <= n THEN s[2 * k] ELSE Null
                           /\ h.right[s[k]] = IF 2 * k + 1 <= n THEN s[2 * k + 1] ELSE Null
                           /\ (2 * k <= n => h.parent[s[2 * k]] = s[k])
                           /\ (2 * k + 1 <= n => h.parent[s[2 * k + 1]] = s[k])
      /\ h.parent[s[1]] = Null
  <2>1. h.root = s[1] /\ h.parent[s[1]] = Null
    BY <1>0 DEF Tree, Nth
  <2>2. ASSUME NEW k \in 1 .. n
        PROVE  /\ s[k] \in Timers /\ s[k] # Null
               /\ h.left[s[k]] = IF 2 * k <= n THEN s[2 * k] ELSE Null
               /\ h.right[s[k]] = IF 2 * k + 1 <= n THEN s[2 * k + 1] ELSE Null
               /\ (2 * k <= n => h.parent[s[2 * k]] = s[k])
               /\ (2 * k + 1 <= n => h.parent[s[2 * k + 1]] = s[k])
    <3>1. s[k] \in Timers /\ s[k] # Null
      BY <1>0, NullIsNone DEF Level1
    <3>2. /\ h.left[s[k]] = Nth(s, n, 2 * k) /\ h.right[s[k]] = Nth(s, n, 2 * k + 1)
          /\ (2 * k <= n => h.parent[s[2 * k]] = s[k])
          /\ (2 * k + 1 <= n => h.parent[s[2 * k + 1]] = s[k])
      BY DEF Tree, Under
    <3> QED
      BY <3>1, <3>2, <1>0 DEF Nth
  <2> QED
    BY <2>1, <2>2
<1>5. \A k, l \in 1 .. n : s[k] = s[l] => k = l
  BY <1>0 DEF Level1
<1>6. onLeft <=> j = 2 * i
  BY <1>0, <1>2, <1>4, <1>5, NullIsNone DEF OnLeft
<1>7. sibling = IF j = 2 * i THEN (IF 2 * i + 1 <= n THEN s[2 * i + 1] ELSE Null) ELSE s[2 * i]
  BY <1>0, <1>4, <1>6 DEF Sibling
<1>8. (i = 1 => up = Null) /\ \A k \in 1 .. n : i \in Under(k) => up = s[k]
  BY <1>0, <1>4 DEF Under
<1>9. i > 1 => \E k \in 1 .. n : i \in Under(k)
  BY <1>0, PlaceAbove
<1> HIDE DEF onLeft, sibling, up
<1>10. g.root = Nth(z, n, 1)
  <2>1. CASE i = 1
    BY <2>1, <1>1, <1>3, <1>8, <1>0 DEF Nth
  <2>2. CASE i # 1
    BY <2>2, <1>0, <1>1, <1>3, <1>4, <1>8, <1>9 DEF Nth
  <2> QED
    BY <2>1, <2>2
<1>11. ASSUME NEW k \in 1 .. n
       PROVE  g.left[z[k]] = Nth(z, n, 2 * k) /\ g.right[z[k]] = Nth(z, n, 2 * k + 1)
  <2>1. CASE k = i
    <3>1. g.left[z[k]] = (IF onLeft THEN p ELSE sibling) /\ g.right[z[k]] = (IF onLeft THEN sibling ELSE p)
      BY <2>1, <1>1, <1>2, <1>3
    <3> QED
      BY <2>1, <3>1, <1>0, <1>1, <1>6, <1>7 DEF Nth
  <2>2. CASE k = j
    <3>1. g.left[z[k]] = h.left[c] /\ g.right[z[k]] = h.right[c]
      BY <2>2, <1>1, <1>2, <1>3
    <3> QED
      BY <2>2, <3>1, <1>0, <1>1, <1>4 DEF Nth
  <2>3. CASE k # i /\ k # j /\ i \in Under(k)
    <3>1. z[k] = s[k] /\ s[k] = up /\ s[k] # p /\ s[k] # c /\ s[k] \in Timers
      BY <2>3, <1>1, <1>4, <1>5, <1>8
    <3>2. /\ g.left[z[k]] = IF h.left[s[k]] = p THEN c ELSE h.left[s[k]]
          /\ g.right[z[k]] = IF h.left[s[k]] # p /\ h.right[s[k]] = p THEN c ELSE h.right[s[k]]
      BY <3>1, <1>3
    <3>3. k \in Nat /\ (i = 2 * k \/ i = 2 * k + 1) /\ j # 2 * k /\ j # 2 * k + 1
      BY <2>3, <1>0 DEF Under
    <3>4. CASE i = 2 * k
      BY <3>2, <3>3, <3>4, <1>0, <1>1, <1>4, <1>5 DEF Nth
    <3>5. CASE i = 2 * k + 1
      BY <3>2, <3>3, <3>5, <1>0, <1>1, <1>4, <1>5 DEF Nth
    <3> QED
      BY <3>3, <3>4, <3>5
  <2>4. CASE k # i /\ k # j /\ i \notin Under(k)
    <3>1. z[k] = s[k] /\ s[k] # up /\ s[k] # p /\ s[k] # c /\ s[k] \in Timers
      BY <2>4, <1>1, <1>4, <1>5, <1>8, <1>9
    <3>2. g.left[z[k]] = h.left[s[k]] /\ g.right[z[k]] = h.right[s[k]]
      BY <3>1, <1>3
    <3>3. k \in Nat /\ i # 2 * k /\ i # 2 * k + 1 /\ j # 2 * k /\ j # 2 * k + 1
      BY <2>4, <1>0 DEF Under
    <3> QED
      BY <3>2, <3>3, <1>0, <1>1, <1>4 DEF Nth
  <2> QED
    BY <2>1, <2>2, <2>3, <2>4
<1>12. ASSUME NEW k \in 1 .. n, NEW m \in Under(k), m <= n
       PROVE  g.parent[z[m]] = z[k]
  <2>0. m \in 1 .. n /\ k \in Nat /\ (m = 2 * k \/ m = 2 * k + 1) /\ m # k
    BY <1>12, <1>0 DEF Under
  <2>1. CASE m = i
    <3>1. z[m] = c /\ k # i /\ k # j /\ up = s[k]
      BY <2>0, <2>1, <1>0, <1>1, <1>8 DEF Under
    <3>2. c # sibling
      BY <1>0, <1>4, <1>5, <1>7
    <3> QED
      BY <3>1, <3>2, <1>1, <1>2, <1>3
  <2>2. CASE m = j
    <3>1. k = i
      BY <2>0, <2>2, <1>0
    <3> QED
      BY <2>2, <3>1, <1>1, <1>2, <1>3
  <2>3. CASE m # i /\ m # j /\ k = i
    <3>1. s[m] = sibling /\ z[m] = s[m] /\ s[m] \in Timers
      BY <2>0, <2>3, <1>0, <1>1, <1>4, <1>7
    <3> QED
      BY <2>3, <3>1, <1>1, <1>3
  <2>4. CASE m # i /\ m # j /\ k = j
    <3>1. s[m] \in {h.left[c], h.right[c]} /\ z[m] = s[m] /\ s[m] \in Timers
          /\ s[m] # p /\ s[m] # c
      BY <2>0, <2>4, <1>0, <1>1, <1>4, <1>5
    <3>2. s[m] # sibling
      BY <2>0, <2>4, <1>0, <1>4, <1>5, <1>7
    <3> QED
      BY <2>4, <3>1, <3>2, <1>1, <1>3
  <2>5. CASE m # i /\ m # j /\ k # i /\ k # j
    <3>1. z[m] = s[m] /\ s[m] \in Timers /\ s[m] # p /\ s[m] # c /\ z[k] = s[k]
          /\ h.parent[s[m]] = s[k]
      <4>1. z[m] = s[m] /\ z[k] = s[k] /\ s[m] \in Timers
        BY <2>0, <2>5, <1>1, <1>4
      <4>2. s[m] # p /\ s[m] # c
        BY <2>0, <2>5, <1>5
      <4>3. h.parent[s[m]] = s[k]
        BY <2>0, <1>4
      <4> QED
        BY <4>1, <4>2, <4>3
    <3>2. s[m] # sibling
      <4>1. m # 2 * i /\ m # 2 * i + 1
        BY <2>0, <2>5, <1>0
      <4>2. s[m] # s[2 * i] \/ 2 * i > n
        BY <4>1, <2>0, <1>0, <1>5
      <4>3. s[m] # s[2 * i + 1] \/ 2 * i + 1 > n
        BY <4>1, <2>0, <1>0, <1>5
      <4> QED
        BY <4>2, <4>3, <2>0, <1>0, <1>4, <1>7
    <3>3. s[m] # h.left[c] /\ s[m] # h.right[c]
      BY <2>0, <2>5, <1>0, <1>4, <1>5
    <3> QED
      BY <3>1, <3>2, <3>3, <1>3
  <2> QED
    BY <2>1, <2>2, <2>3, <2>4, <2>5
<1>13. g.parent[z[1]] = Null
  <2>1. CASE i = 1
    <3>1. c # sibling
      BY <1>0, <1>4, <1>5, <1>7
    <3> QED
      BY <2>1, <3>1, <1>1, <1>2, <1>3, <1>8
  <2>2. CASE i # 1
    <3>1. z[1] = s[1] /\ s[1] \in Timers /\ s[1] # p /\ s[1] # c
      BY <2>2, <1>0, <1>1, <1>4, <1>5
    <3>2. s[1] # sibling
      BY <2>2, <1>0, <1>4, <1>5, <1>7
    <3>3. s[1] # h.left[c] /\ s[1] # h.right[c]
      BY <1>0, <1>4, <1>5
    <3> QED
      BY <3>1, <3>2, <3>3, <1>3, <1>4
  <2> QED
    BY <2>1, <2>2
<1>14. ASSUME NEW t \in Timers, t \notin Nodes(n, z)
       PROVE  g.parent[t] = Null /\ g.left[t] = Null /\ g.right[t] = Null
  <2>1. /\ h.parent[t] = Null /\ h.left[t] = Null /\ h.right[t] = Null
        /\ \A k \in 1 .. n : t # s[k]
    BY <1>1, <1>14 DEF Tree, Nodes
  <2>2. t # sibling
    BY <2>1, <1>0, <1>7, <1>14, NullIsNone
  <2>3. t # up
    BY <2>1, <1>0, <1>8, <1>9, <1>14, NullIsNone
  <2>4. t # h.left[c] /\ t # h.right[c] /\ t # p /\ t # c
    BY <2>1, <1>0, <1>4, <1>14, NullIsNone
  <2> QED
    BY <2>1, <2>2, <2>3, <2>4, <1>3
<1> QED
  BY <1>0, <1>1, <1>3, <1>10, <1>11, <1>12, <1>13, <1>14 DEF Tree, g, z

-----------------------------------------------------------------------------
\* The keys are in order wherever place j is not concerned, and around it; below
\* it; and above it.
Around(n, s, key, j) ==
    \A k \in 1 .. n : \A m \in Under(k) : m <= n =>
        /\ k # j /\ m # j => key[s[k]] <= key[s[m]]
        /\ m = j => \A l \in Under(j) : l <= n => key[s[k]] <= key[s[l]]
Below(n, s, key, j) == \A m \in Under(j) : m <= n => key[s[j]] <= key[s[m]]
Above(n, s, key, j) == \A k \in 1 .. n : j \in Under(k) => key[s[k]] <= key[s[j]]
Ordered(n, s, key) ==
    \A k \in 1 .. n : \A m \in Under(k) : m <= n => key[s[k]] <= key[s[m]]

LEMMA OrderedParts ==
  ASSUME NEW n \in Nat, NEW s, NEW key, NEW j \in 1 .. n, Around(n, s, key, j),
         Below(n, s, key, j), Above(n, s, key, j)
  PROVE  Ordered(n, s, key)
BY DEF Around, Below, Above, Ordered

\* What holds of the heap while v is sifted, at place j.
Sifting(h, n, s, key, nodes, v, j) ==
    /\ h \in Heaps /\ Tree(h, n, s) /\ Nodes(n, s) = nodes
    /\ j \in 1 .. n /\ s[j] = v /\ Around(n, s, key, j)

\* One round of sifting up: v goes to the place above.
LEMMA UpStep ==
  ASSUME NEW h, NEW n, NEW s, NEW key \in Keys, NEW nodes, NEW v, NEW j,
         Sifting(h, n, s, key, nodes, v, j), Below(n, s, key, j)
  PROVE  \/ Above(n, s, key, j) /\ SwapUp(h, key, v) = h
         \/ \E z, i : /\ i < j
                      /\ Sifting(SwapUp(h, key, v), n, z, key, nodes, v, i)
                      /\ Below(n, z, key, i)
<1>0. /\ h \in Heaps /\ Tree(h, n, s) /\ Nodes(n, s) = nodes /\ n \in Nat /\ Level1(n, s)
      /\ j \in 1 .. n /\ s[j] = v /\ Around(n, s, key, j) /\ j \in Nat
  BY DEF Sifting, Tree
<1>1. \A k \in 1 .. n : s[k] \in Timers /\ s[k] # Null /\ key[s[k]] \in Int
  BY <1>0, NullIsNone DEF Level1, Keys
<1>2. CASE j = 1
  <2>1. h.parent[v] = Null
    BY <1>0, <1>2 DEF Tree
  <2>2. Above(n, s, key, j)
    BY <1>2 DEF Above, Under
  <2> QED
    BY <2>1, <2>2 DEF SwapUp
<1>3. CASE j # 1
  <2>1. PICK i \in 1 .. j - 1 : j \in Under(i)
    BY <1>0, <1>3, PlaceAbove
  <2>2. i \in 1 .. n /\ i < j /\ i \in Nat /\ (j = 2 * i \/ j = 2 * i + 1)
    BY <1>0, <2>1 DEF Under
  <2>3. h.parent[v] = s[i]
    BY <1>0, <2>1, <2>2 DEF Tree
  <2>4. CASE ~ key[v] < key[s[i]]
    <3>1. SwapUp(h, key, v) = h
      BY <2>3, <2>4 DEF SwapUp
    <3>2. \A k \in 1 .. n : j \in Under(k) => k = i
      BY <2>2 DEF Under
    <3>3. Above(n, s, key, j)
      BY <1>0, <1>1, <2>2, <2>4, <3>2 DEF Above
    <3> QED
      BY <3>1, <3>3
  <2>5. CASE key[v] < key[s[i]]
    <3> DEFINE z == Swapped(n, s, i, j)
               g == SwapUp(h, key, v)
    <3>1. g = HeapSwap(h, s[i], s[j])
      BY <1>0, <1>1, <2>2, <2>3, <2>5 DEF SwapUp
    <3>2. /\ Level1(n, z) /\ Nodes(n, z) = nodes /\ z[i] = v /\ z[j] = s[i]
          /\ \A k \in 1 .. n : k # i /\ k # j => z[k] = s[k]
      BY <1>0, <2>2, SwappedOrder
    <3>3. Tree(g, n, z)
      BY <1>0, <2>1, <2>2, <3>1, SwapTree
    <3>4. g \in Heaps
      <4>1. s[i] # s[j]
        BY <1>0, <2>2 DEF Level1
      <4>2. SwappedFields(h, s[i], s[j], g)
        BY <1>0, <1>1, <2>2, <3>1, <4>1, SwapFields
      <4> QED
        BY <4>2 DEF SwappedFields
    <3> HIDE DEF z, g
    <3>5. Below(n, z, key, i)
      <4> SUFFICES ASSUME NEW m \in Under(i), m <= n PROVE key[z[i]] <= key[z[m]]
        BY DEF Below
      <4>1. m \in 1 .. n /\ m # i
        BY <2>2 DEF Under
      <4>2. CASE m = j
        BY <4>2, <1>0, <1>1, <2>2, <2>5, <3>2
      <4>3. CASE m # j
        <5>1. key[s[i]] <= key[s[m]]
          BY <1>0, <2>2, <4>3 DEF Around
        <5> QED
          BY <4>1, <4>3, <5>1, <1>0, <1>1, <2>2, <2>5, <3>2
      <4> QED
        BY <4>2, <4>3
    <3>6. Around(n, z, key, i)
      <4> SUFFICES ASSUME NEW k \in 1 .. n, NEW m \in Under(k), m <= n
                   PROVE  /\ k # i /\ m # i => key[z[k]] <= key[z[m]]
                          /\ m = i => \A l \in Under(i) : l <= n => key[z[k]] <= key[z[l]]
        BY DEF Around
      <4>1. m \in 1 .. n /\ k < m /\ (m = 2 * k \/ m = 2 * k + 1)
        BY DEF Under
      <4>2. ASSUME k # i, m # i PROVE key[z[k]] <= key[z[m]]
        <5>1. m # j
          BY <2>2, <4>1, <4>2
        <5>2. CASE k = j
          BY <1>0, <2>1, <2>2, <3>2, <4>1, <4>2, <5>1, <5>2 DEF Around
        <5>3. CASE k # j
          BY <1>0, <3>2, <4>1, <4>2, <5>1, <5>3 DEF Around
        <5> QED
          BY <5>2, <5>3
      <4>3. ASSUME m = i, NEW l \in Under(i), l <= n PROVE key[z[k]] <= key[z[l]]
        <5>1. k # i /\ k # j /\ z[k] = s[k] /\ l \in 1 .. n /\ l # i
          BY <2>2, <4>1, <4>3, <3>2 DEF Under
        <5>2. key[s[k]] <= key[s[i]]
          BY <1>0, <2>2, <4>1, <4>3, <5>1 DEF Around
        <5>3. CASE l = j
          BY <3>2, <5>1, <5>2, <5>3
        <5>4. CASE l # j
          <6>1. key[s[i]] <= key[s[l]]
            BY <1>0, <2>2, <4>3, <5>4 DEF Around
          <6> QED
            BY <1>1, <2>2, <3>2, <5>1, <5>2, <5>4, <6>1
        <5> QED
          BY <5>3, <5>4
      <4> QED
        BY <4>2, <4>3
    <3>7. Sifting(g, n, z, key, nodes, v, i)
      BY <2>2, <3>2, <3>3, <3>4, <3>6 DEF Sifting
    <3> QED
      BY <2>2, <3>5, <3>7 DEF g
  <2> QED
    BY <2>4, <2>5
<1> QED
  BY <1>2, <1>3

\* One round of sifting down: v goes to the place of the least node below.
LEMMA DownStep ==
  ASSUME NEW h, NEW n, NEW s, NEW key \in Keys, NEW nodes, NEW v, NEW j,
         Sifting(h, n, s, key, nodes, v, j)
  PROVE  \/ Below(n, s, key, j) /\ SwapDown(h, key, v) = h
         \/ \E z, m : m > j /\ Sifting(SwapDown(h, key, v), n, z, key, nodes, v, m)
<1>0. /\ h \in Heaps /\ Tree(h, n, s) /\ Nodes(n, s) = nodes /\ n \in Nat /\ Level1(n, s)
      /\ j \in 1 .. n /\ s[j] = v /\ Around(n, s, key, j) /\ j \in Nat
  BY DEF Sifting, Tree
<1>1. \A k \in 1 .. n : s[k] \in Timers /\ s[k] # Null /\ key[s[k]] \in Int
  BY <1>0, NullIsNone DEF Level1, Keys
<1>2. \A k, l \in 1 .. n : s[k] = s[l] => k = l
  BY <1>0 DEF Level1
<1>3. h.left[v] = Nth(s, n, 2 * j) /\ h.right[v] = Nth(s, n, 2 * j + 1)
  BY <1>0 DEF Tree
<1> DEFINE l == h.left[v]
           r == h.right[v]
           est1 == IF l # Null /\ ~ key[v] < key[l] THEN l ELSE v
           est == IF r # Null /\ ~ key[est1] < key[r] THEN r ELSE est1
           g == SwapDown(h, key, v)
<1>4. g = IF est = v THEN h ELSE HeapSwap(h, v, est)
  BY DEF SwapDown
\* The place of est, and its key.
<1>5. \E m \in 1 .. n : /\ s[m] = est /\ m \in {j} \cup Under(j)
                        /\ key[s[m]] <= key[v]
                        /\ \A k \in Under(j) : k <= n => key[s[m]] <= key[s[k]]
  <2>1. l = IF 2 * j <= n THEN s[2 * j] ELSE Null
    BY <1>0, <1>3 DEF Nth
  <2>2. r = IF 2 * j + 1 <= n THEN s[2 * j + 1] ELSE Null
    BY <1>0, <1>3 DEF Nth
  <2> HIDE DEF l, r
  <2>3. \E m1 \in 1 .. n : /\ s[m1] = est1 /\ m1 \in {j, 2 * j} /\ key[s[m1]] <= key[v]
                           /\ 2 * j <= n => key[s[m1]] <= key[s[2 * j]]
    <3>1. CASE l # Null /\ ~ key[v] < key[l]
      BY <1>0, <1>1, <2>1, <3>1
    <3>2. CASE ~ (l # Null /\ ~ key[v] < key[l])
      BY <1>0, <1>1, <2>1, <3>2
    <3> QED
      BY <3>1, <3>2
  <2>4. PICK m1 \in 1 .. n : /\ s[m1] = est1 /\ m1 \in {j, 2 * j} /\ key[s[m1]] <= key[v]
                             /\ 2 * j <= n => key[s[m1]] <= key[s[2 * j]]
    BY <2>3
  <2> HIDE DEF est1
  <2>5. CASE r # Null /\ ~ key[est1] < key[r]
    <3>1. 2 * j + 1 \in 1 .. n /\ s[2 * j + 1] = r /\ est = r
      BY <1>0, <2>2, <2>5
    <3>2. key[r] <= key[s[m1]]
      BY <2>4, <2>5, <3>1, <1>1
    <3>3. 2 * j \in 1 .. n
      BY <3>1, <1>0
    <3>4. key[r] <= key[v] /\ key[r] <= key[s[2 * j]]
      BY <3>1, <3>2, <3>3, <2>4, <1>1, <1>0
    <3> QED
      BY <3>1, <3>4, <1>0, <1>1 DEF Under
  <2>6. CASE ~ (r # Null /\ ~ key[est1] < key[r])
    <3>1. est = est1
      BY <2>6
    <3>2. 2 * j + 1 <= n => key[s[m1]] <= key[s[2 * j + 1]]
      BY <1>0, <1>1, <2>2, <2>4, <2>6
    <3> QED
      BY <3>1, <3>2, <2>4 DEF Under
  <2> QED
    BY <2>5, <2>6
<1> HIDE DEF est
<1>6. PICK m \in 1 .. n : /\ s[m] = est /\ m \in {j} \cup Under(j)
                          /\ key[s[m]] <= key[v]
                          /\ \A k \in Under(j) : k <= n => key[s[m]] <= key[s[k]]
  BY <1>5
<1>7. CASE m = j
  <2>1. Below(n, s, key, j)
    BY <1>6, <1>7 DEF Below
  <2>2. g = h
    BY <1>0, <1>4, <1>6, <1>7
  <2> QED
    BY <2>1, <2>2
<1>8. CASE m # j
  <2>1. m \in Under(j) /\ m > j /\ m \in Nat /\ (m = 2 * j \/ m = 2 * j + 1)
    BY <1>0, <1>6, <1>8 DEF Under
  <2> DEFINE z == Swapped(n, s, j, m)
  <2>2. s[j] # s[m] /\ g = HeapSwap(h, s[j], s[m])
    BY <1>0, <1>2, <1>4, <1>6, <1>8
  <2>3. /\ Level1(n, z) /\ Nodes(n, z) = nodes /\ z[j] = s[m] /\ z[m] = v
        /\ \A k \in 1 .. n : k # j /\ k # m => z[k] = s[k]
    BY <1>0, <1>8, SwappedOrder
  <2>4. Tree(g, n, z)
    BY <1>0, <2>1, <2>2, SwapTree
  <2>5. g \in Heaps
    <3>1. SwappedFields(h, s[j], s[m], g)
      BY <1>0, <1>1, <2>2, SwapFields
    <3> QED
      BY <3>1 DEF SwappedFields
  <2> HIDE DEF z, g
  <2>6. Around(n, z, key, m)
    <3> SUFFICES ASSUME NEW k \in 1 .. n, NEW q \in Under(k), q <= n
                 PROVE  /\ k # m /\ q # m => key[z[k]] <= key[z[q]]
                        /\ q = m => \A i \in Under(m) : i <= n => key[z[k]] <= key[z[i]]
      BY DEF Around
    <3>1. q \in 1 .. n /\ k < q /\ (q = 2 * k \/ q = 2 * k + 1)
      BY DEF Under
    <3>2. ASSUME k # m, q # m PROVE key[z[k]] <= key[z[q]]
      <4>1. CASE k = j
        <5>1. z[k] = s[m] /\ z[q] = s[q]
          BY <2>3, <3>1, <3>2, <4>1
        <5> QED
          BY <5>1, <4>1, <1>6
      <4>2. CASE q = j
        <5>1. z[k] = s[k] /\ z[q] = s[m]
          BY <2>3, <3>1, <3>2, <4>2
        <5>2. key[s[k]] <= key[s[m]]
          BY <1>0, <2>1, <4>2 DEF Around
        <5> QED
          BY <5>1, <5>2
      <4>3. CASE k # j /\ q # j
        BY <1>0, <2>3, <3>1, <3>2, <4>3 DEF Around
      <4> QED
        BY <4>1, <4>2, <4>3
    <3>3. ASSUME q = m, NEW i \in Under(m), i <= n PROVE key[z[k]] <= key[z[i]]
      <4>0. i = 2 * m \/ i = 2 * m + 1
        BY <3>3 DEF Under
      <4>1. k = j /\ i \in 1 .. n /\ i # m /\ i # j
        BY <1>0, <2>1, <3>1, <3>3, <4>0
      <4>2. key[s[m]] <= key[s[i]]
        BY <1>0, <2>1, <3>3, <4>1 DEF Around
      <4> QED
        BY <2>3, <4>1, <4>2
    <3> QED
      BY <3>2, <3>3
  <2>7. Sifting(g, n, z, key, nodes, v, m)
    BY <2>3, <2>4, <2>5, <2>6 DEF Sifting
  <2> QED
    BY <2>1, <2>7 DEF g
<1> QED
  BY <1>7, <1>8

-----------------------------------------------------------------------------
\* Induction over a set.
LEMMA FromZero ==
  ASSUME NEW S, 0 \in S, \A k \in Nat : k \in S => k + 1 \in S
  PROVE  \A k \in Nat : k \in S
<1> DEFINE D == {k \in Nat : k \notin S}
<1>1. D = {}
  <2> SUFFICES ASSUME D # {} PROVE FALSE
    OBVIOUS
  <2>1. PICK k \in D : \A j \in D : ~ (<<j, k>> \in OpToRel(<, Nat))
    <3>1. D \subseteq Nat
      OBVIOUS
    <3> HIDE DEF D
    <3> QED
      BY <3>1, NatLessThanWellFounded, WFMin, Zenon
  <2>2. k \in Nat /\ k \notin S /\ k - 1 \in Nat /\ k - 1 < k /\ k - 1 + 1 = k
    OBVIOUS
  <2>3. <<k - 1, k>> \in OpToRel(<, Nat)
    BY <2>2 DEF OpToRel
  <2>4. k - 1 \in S
    BY <2>1, <2>2, <2>3
  <2> QED
    BY <2>2, <2>4
<1> QED
  BY <1>1

\* Rounds of an operation: a function with the equation of up and of down.
Rounds(N, h, F, f) == f = [k \in 0 .. N |-> IF k = 0 THEN h ELSE F[f[k - 1]]]

LEMMA RoundsExist ==
  ASSUME NEW A, NEW h \in A, NEW F \in [A -> A], NEW N \in Nat
  PROVE  \E f \in [0 .. N -> A] : Rounds(N, h, F, f)
<1> DEFINE S == {M \in Nat : \E f \in [0 .. M -> A] : Rounds(M, h, F, f)}
<1>1. 0 \in S
  <2> DEFINE f == [k \in 0 .. 0 |-> h]
  <2>1. Rounds(0, h, F, f) /\ f \in [0 .. 0 -> A]
    BY DEF Rounds
  <2> QED
    BY <2>1
<1>2. ASSUME NEW M \in Nat, M \in S PROVE M + 1 \in S
  <2>1. PICK e \in [0 .. M -> A] : Rounds(M, h, F, e)
    BY <1>2
  <2> DEFINE f == [k \in 0 .. M + 1 |-> IF k = M + 1 THEN F[e[M]] ELSE e[k]]
  <2>2. e = [k \in 0 .. M |-> IF k = 0 THEN h ELSE F[e[k - 1]]]
    BY <2>1 DEF Rounds
  <2>3. f \in [0 .. M + 1 -> A]
    OBVIOUS
  <2>4. ASSUME NEW k \in 0 .. M + 1
        PROVE  f[k] = IF k = 0 THEN h ELSE F[f[k - 1]]
    <3>1. CASE k = M + 1
      <4>1. f[k] = F[e[M]] /\ f[k - 1] = e[M] /\ k # 0
        BY <3>1
      <4> QED
        BY <4>1
    <3>2. CASE k = 0
      <4>1. f[k] = e[k] /\ e[k] = h
        BY <2>2, <3>2
      <4> QED
        BY <4>1, <3>2
    <3>3. CASE k # M + 1 /\ k # 0
      <4>1. k \in 0 .. M /\ k - 1 \in 0 .. M + 1 /\ k - 1 # M + 1
        BY <3>3
      <4>2. f[k] = e[k] /\ f[k - 1] = e[k - 1]
        BY <3>3, <4>1
      <4> HIDE DEF f
      <4>3. e[k] = F[e[k - 1]]
        BY <2>2, <3>3, <4>1
      <4> QED
        BY <3>3, <4>2, <4>3
    <3> QED
      BY <3>1, <3>2, <3>3
  <2>5. Rounds(M + 1, h, F, f)
    <3>1. f = [k \in 0 .. M + 1 |-> f[k]]
      OBVIOUS
    <3> HIDE DEF f
    <3> QED
      BY <2>4, <3>1 DEF Rounds
  <2> QED
    BY <2>3, <2>5
<1> HIDE DEF S
<1>3. N \in S
  BY <1>1, <1>2, FromZero
<1> QED
  BY <1>3 DEF S

\* One round keeps a heap of these nodes.
LEMMA RoundTypes ==
  ASSUME NEW h \in Heaps, NEW key \in Keys, NEW v \in Timers
  PROVE  SwapUp(h, key, v) \in Heaps /\ SwapDown(h, key, v) \in Heaps
<1>0. h.parent[v] \in N0 /\ h.left[v] \in N0 /\ h.right[v] \in N0
      /\ \A t \in Timers : key[t] \in Int
  BY DEF Heaps, Keys
<1>1. ASSUME NEW p \in Timers, NEW c \in Timers, p # c PROVE HeapSwap(h, p, c) \in Heaps
  BY <1>1, SwapFields DEF SwappedFields
<1>2. SwapUp(h, key, v) \in Heaps
  BY <1>0, <1>1 DEF SwapUp, N0
<1>3. SwapDown(h, key, v) \in Heaps
  BY <1>0, <1>1 DEF SwapDown, N0
<1> QED
  BY <1>2, <1>3

\* SiftUp and SiftDown are those rounds.
LEMMA SiftUpIs ==
  ASSUME NEW h \in Heaps, NEW key \in Keys, NEW v \in Timers
  PROVE  \E f : /\ f[0] = h /\ SiftUp(h, key, v) = f[h.nelts]
                /\ \A k \in 1 .. h.nelts : f[k] = SwapUp(f[k - 1], key, v)
<1>0. h.nelts \in Nat
  BY DEF Heaps
<1> DEFINE N == h.nelts
           F == [g \in Heaps |-> SwapUp(g, key, v)]
           Eq(f) == f = [k \in 0 .. N |-> IF k = 0 THEN h
                              ELSE CHOOSE r \in {SwapUp(x, key, v) : x \in {f[k - 1]}} : TRUE]
           up == CHOOSE f : Eq(f)
<1>1. SiftUp(h, key, v) = up[N]
  BY DEF SiftUp, Applied
<1>2. \E f : Eq(f)
  <2>1. F \in [Heaps -> Heaps]
    BY RoundTypes
  <2> HIDE DEF F
  <2>2. PICK f \in [0 .. N -> Heaps] : Rounds(N, h, F, f)
    BY <1>0, <2>1, RoundsExist
  <2> USE DEF F
  <2>3. ASSUME NEW k \in 0 .. N
        PROVE  f[k] = IF k = 0 THEN h
                      ELSE CHOOSE r \in {SwapUp(x, key, v) : x \in {f[k - 1]}} : TRUE
    <3>1. k # 0 => f[k - 1] \in Heaps
      BY <1>0, <2>2
    <3>2. f[k] = IF k = 0 THEN h ELSE F[f[k - 1]]
      BY <2>2 DEF Rounds
    <3>3. {SwapUp(x, key, v) : x \in {f[k - 1]}} = {SwapUp(f[k - 1], key, v)}
      OBVIOUS
    <3> QED
      BY <3>1, <3>2, <3>3
  <2>4. f = [k \in 0 .. N |-> f[k]]
    BY <2>2
  <2> QED
    BY <2>3, <2>4
<1>3. Eq(up)
  <2> HIDE DEF Eq
  <2> QED
    BY <1>2
<1> HIDE DEF up
<1>4. up[0] = h
  BY <1>0, <1>3
<1>5. ASSUME NEW k \in 1 .. N PROVE up[k] = SwapUp(up[k - 1], key, v)
  <2>1. k \in 0 .. N /\ k # 0
    BY <1>0
  <2>2. up[k] = CHOOSE r \in {SwapUp(x, key, v) : x \in {up[k - 1]}} : TRUE
    BY <1>3, <2>1
  <2>3. {SwapUp(x, key, v) : x \in {up[k - 1]}} = {SwapUp(up[k - 1], key, v)}
    OBVIOUS
  <2> QED
    BY <2>2, <2>3
<1> QED
  BY <1>1, <1>4, <1>5

LEMMA SiftDownIs ==
  ASSUME NEW h \in Heaps, NEW key \in Keys, NEW v \in Timers
  PROVE  \E f : /\ f[0] = h /\ SiftDown(h, key, v) = f[h.nelts]
                /\ \A k \in 1 .. h.nelts : f[k] = SwapDown(f[k - 1], key, v)
<1>0. h.nelts \in Nat
  BY DEF Heaps
<1> DEFINE N == h.nelts
           F == [g \in Heaps |-> SwapDown(g, key, v)]
           Eq(f) == f = [k \in 0 .. N |-> IF k = 0 THEN h
                              ELSE CHOOSE r \in {SwapDown(x, key, v) : x \in {f[k - 1]}} : TRUE]
           down == CHOOSE f : Eq(f)
<1>1. SiftDown(h, key, v) = down[N]
  BY DEF SiftDown, Applied
<1>2. \E f : Eq(f)
  <2>1. F \in [Heaps -> Heaps]
    BY RoundTypes
  <2> HIDE DEF F
  <2>2. PICK f \in [0 .. N -> Heaps] : Rounds(N, h, F, f)
    BY <1>0, <2>1, RoundsExist
  <2> USE DEF F
  <2>3. ASSUME NEW k \in 0 .. N
        PROVE  f[k] = IF k = 0 THEN h
                      ELSE CHOOSE r \in {SwapDown(x, key, v) : x \in {f[k - 1]}} : TRUE
    <3>1. k # 0 => f[k - 1] \in Heaps
      BY <1>0, <2>2
    <3>2. f[k] = IF k = 0 THEN h ELSE F[f[k - 1]]
      BY <2>2 DEF Rounds
    <3>3. {SwapDown(x, key, v) : x \in {f[k - 1]}} = {SwapDown(f[k - 1], key, v)}
      OBVIOUS
    <3> QED
      BY <3>1, <3>2, <3>3
  <2>4. f = [k \in 0 .. N |-> f[k]]
    BY <2>2
  <2> QED
    BY <2>3, <2>4
<1>3. Eq(down)
  <2> HIDE DEF Eq
  <2> QED
    BY <1>2
<1> HIDE DEF down
<1>4. down[0] = h
  BY <1>0, <1>3
<1>5. ASSUME NEW k \in 1 .. N PROVE down[k] = SwapDown(down[k - 1], key, v)
  <2>1. k \in 0 .. N /\ k # 0
    BY <1>0
  <2>2. down[k] = CHOOSE r \in {SwapDown(x, key, v) : x \in {down[k - 1]}} : TRUE
    BY <1>3, <2>1
  <2>3. {SwapDown(x, key, v) : x \in {down[k - 1]}} = {SwapDown(down[k - 1], key, v)}
    OBVIOUS
  <2> QED
    BY <2>2, <2>3
<1> QED
  BY <1>1, <1>4, <1>5

\* After as many rounds as there are nodes v has stopped.
LEMMA SiftedDown ==
  ASSUME NEW h, NEW n, NEW s, NEW key \in Keys, NEW nodes, NEW v, NEW j,
         Sifting(h, n, s, key, nodes, v, j)
  PROVE  \E z, i : Sifting(SiftDown(h, key, v), n, z, key, nodes, v, i) /\ Below(n, z, key, i)
<1>0. h \in Heaps /\ n \in Nat /\ h.nelts = n /\ v \in Timers /\ j \in 1 .. n
  BY DEF Sifting, Tree, Level1
<1>1. PICK f : /\ f[0] = h /\ SiftDown(h, key, v) = f[h.nelts]
               /\ \A k \in 1 .. h.nelts : f[k] = SwapDown(f[k - 1], key, v)
  BY <1>0, SiftDownIs
<1> DEFINE Rests(k, z, i) == Below(n, z, key, i) /\ SwapDown(f[k], key, v) = f[k]
           S == {k \in Nat : k <= n =>
                     \E z, i : /\ Sifting(f[k], n, z, key, nodes, v, i)
                               /\ Rests(k, z, i) \/ k < i}
<1>2. 0 \in S
  BY <1>0, <1>1
<1>3. ASSUME NEW k \in Nat, k \in S PROVE k + 1 \in S
  <2> SUFFICES ASSUME k + 1 <= n
               PROVE  \E z, i : /\ Sifting(f[k + 1], n, z, key, nodes, v, i)
                                /\ Rests(k + 1, z, i) \/ k + 1 < i
    OBVIOUS
  <2>1. PICK z, i : /\ Sifting(f[k], n, z, key, nodes, v, i)
                    /\ Rests(k, z, i) \/ k < i
    BY <1>0, <1>3
  <2>2. f[k + 1] = SwapDown(f[k], key, v)
    <3>1. k + 1 \in 1 .. h.nelts /\ k + 1 - 1 = k
      BY <1>0
    <3> QED
      BY <1>1, <3>1
  <2>3. i \in 1 .. n
    BY <2>1 DEF Sifting
  <2>4. CASE Rests(k, z, i)
    BY <2>1, <2>2, <2>4
  <2>5. CASE k < i /\ ~ Rests(k, z, i)
    <3>1. PICK y, m : m > i /\ Sifting(SwapDown(f[k], key, v), n, y, key, nodes, v, m)
      BY <2>1, <2>5, DownStep
    <3>2. k + 1 < m
      <4>1. m \in 1 .. n
        BY <3>1 DEF Sifting
      <4> QED
        BY <1>0, <2>3, <2>5, <3>1, <4>1
    <3> QED
      BY <2>2, <3>1, <3>2
  <2> QED
    BY <2>1, <2>4, <2>5
<1> HIDE DEF S
<1>4. n \in S
  BY <1>0, <1>2, <1>3, FromZero
<1> QED
  <2>1. PICK z, i : Sifting(f[n], n, z, key, nodes, v, i) /\ (Rests(n, z, i) \/ n < i)
    BY <1>0, <1>4 DEF S
  <2>2. i \in 1 .. n
    BY <2>1 DEF Sifting
  <2> QED
    BY <1>0, <1>1, <2>1, <2>2

LEMMA SiftedUp ==
  ASSUME NEW h, NEW n, NEW s, NEW key \in Keys, NEW nodes, NEW v, NEW j,
         Sifting(h, n, s, key, nodes, v, j), Below(n, s, key, j)
  PROVE  /\ SiftUp(h, key, v) \in Heaps
         /\ \E z : /\ Tree(SiftUp(h, key, v), n, z) /\ Nodes(n, z) = nodes
                   /\ Ordered(n, z, key)
<1>0. h \in Heaps /\ n \in Nat /\ h.nelts = n /\ v \in Timers /\ j \in 1 .. n
  BY DEF Sifting, Tree, Level1
<1>1. PICK f : /\ f[0] = h /\ SiftUp(h, key, v) = f[h.nelts]
               /\ \A k \in 1 .. h.nelts : f[k] = SwapUp(f[k - 1], key, v)
  BY <1>0, SiftUpIs
<1> DEFINE Rests(k, z, i) == Above(n, z, key, i) /\ SwapUp(f[k], key, v) = f[k]
           S == {k \in Nat : k <= n =>
                     \E z, i : /\ Sifting(f[k], n, z, key, nodes, v, i) /\ Below(n, z, key, i)
                               /\ Rests(k, z, i) \/ i + k <= n}
<1>2. 0 \in S
  BY <1>0, <1>1
<1>3. ASSUME NEW k \in Nat, k \in S PROVE k + 1 \in S
  <2> SUFFICES ASSUME k + 1 <= n
               PROVE  \E z, i : /\ Sifting(f[k + 1], n, z, key, nodes, v, i)
                                /\ Below(n, z, key, i)
                                /\ Rests(k + 1, z, i) \/ i + (k + 1) <= n
    OBVIOUS
  <2>1. PICK z, i : /\ Sifting(f[k], n, z, key, nodes, v, i) /\ Below(n, z, key, i)
                    /\ Rests(k, z, i) \/ i + k <= n
    BY <1>0, <1>3
  <2>2. f[k + 1] = SwapUp(f[k], key, v)
    <3>1. k + 1 \in 1 .. h.nelts /\ k + 1 - 1 = k
      BY <1>0
    <3> QED
      BY <1>1, <3>1
  <2>3. i \in 1 .. n
    BY <2>1 DEF Sifting
  <2>4. CASE Rests(k, z, i)
    BY <2>1, <2>2, <2>4
  <2>5. CASE i + k <= n /\ ~ Rests(k, z, i)
    <3>1. PICK y, m : m < i /\ Sifting(SwapUp(f[k], key, v), n, y, key, nodes, v, m)
                      /\ Below(n, y, key, m)
      BY <2>1, <2>5, UpStep
    <3>2. m + (k + 1) <= n
      <4>1. m \in 1 .. n
        BY <3>1 DEF Sifting
      <4> QED
        BY <1>0, <2>3, <2>5, <3>1, <4>1
    <3> QED
      BY <2>2, <3>1, <3>2
  <2> QED
    BY <2>1, <2>4, <2>5
<1> HIDE DEF S
<1>4. n \in S
  BY <1>0, <1>2, <1>3, FromZero
<1> QED
  <2>1. PICK z, i : /\ Sifting(f[n], n, z, key, nodes, v, i) /\ Below(n, z, key, i)
                    /\ Rests(n, z, i) \/ i + n <= n
    BY <1>0, <1>4 DEF S
  <2>2. /\ i \in 1 .. n /\ Around(n, z, key, i) /\ f[n] \in Heaps /\ Tree(f[n], n, z)
        /\ Nodes(n, z) = nodes
    BY <2>1 DEF Sifting
  <2>3. Above(n, z, key, i)
    BY <1>0, <2>1, <2>2
  <2>4. Ordered(n, z, key)
    BY <1>0, <2>1, <2>2, <2>3, OrderedParts
  <2> QED
    BY <1>0, <1>1, <2>2, <2>4

\* Down, then up.
LEMMA SiftedBoth ==
  ASSUME NEW h, NEW n, NEW s, NEW key \in Keys, NEW nodes, NEW v, NEW j,
         Sifting(h, n, s, key, nodes, v, j)
  PROVE  LET g == SiftUp(SiftDown(h, key, v), key, v) IN
         g \in Heaps /\ \E z : Tree(g, n, z) /\ Nodes(n, z) = nodes /\ Ordered(n, z, key)
<1>1. PICK z, i : Sifting(SiftDown(h, key, v), n, z, key, nodes, v, i) /\ Below(n, z, key, i)
  BY SiftedDown
<1> QED
  BY <1>1, SiftedUp

-----------------------------------------------------------------------------
\* The path given by the bits of m leads to place m.
LEMMA AtIs ==
  ASSUME NEW h, NEW n, NEW s, Tree(h, n, s), NEW m \in 1 .. n
  PROVE  At(h, m) = s[m]
<1>0. n \in Nat /\ m \in Nat /\ h.root = s[1]
  BY DEF Tree, Nth
<1> DEFINE Value(f, k) == IF k = 1 THEN h.root
                          ELSE IF k % 2 = 1 THEN h.right[f[k \div 2]] ELSE h.left[f[k \div 2]]
           Eq(f) == f = [k \in 1 .. m |-> Value(f, k)]
           at == CHOOSE f : Eq(f)
           places == [k \in 1 .. m |-> s[k]]
<1>1. At(h, m) = at[m]
  BY DEF At
<1>2. ASSUME NEW k \in 1 .. m, k # 1
      PROVE  /\ k \div 2 \in 1 .. m /\ k \div 2 < k /\ k \div 2 \in Nat
             /\ s[k] = IF k % 2 = 1 THEN h.right[s[k \div 2]] ELSE h.left[s[k \div 2]]
  <2> DEFINE i == k \div 2
  <2>1. i \in 1 .. m /\ i < k /\ i \in Nat /\ k = 2 * i + (k % 2) /\ k % 2 \in {0, 1}
    BY <1>0, <1>2
  <2> HIDE DEF i
  <2>2. i \in 1 .. n /\ k \in 1 .. n
    BY <1>0, <2>1
  <2>3. h.left[s[i]] = Nth(s, n, 2 * i) /\ h.right[s[i]] = Nth(s, n, 2 * i + 1)
    BY <2>2 DEF Tree
  <2>4. CASE k % 2 = 1
    BY <2>1, <2>2, <2>3, <2>4 DEF i, Nth
  <2>5. CASE k % 2 = 0
    BY <2>1, <2>2, <2>3, <2>5 DEF i, Nth
  <2> QED
    BY <2>1, <2>4, <2>5 DEF i
<1>3. Eq(places)
  <2>1. ASSUME NEW k \in 1 .. m PROVE s[k] = Value(places, k)
    <3>1. CASE k = 1
      BY <1>0, <3>1
    <3>2. CASE k # 1
      <4>1. places[k \div 2] = s[k \div 2]
        BY <1>2, <3>2
      <4> HIDE DEF places
      <4> QED
        BY <1>2, <3>2, <4>1
    <3> QED
      BY <3>1, <3>2
  <2> QED
    BY <2>1
<1>4. Eq(at)
  <2> HIDE DEF Eq, places
  <2> QED
    BY <1>3
<1> HIDE DEF at, places
<1> DEFINE D == {k \in 1 .. m : at[k] # s[k]}
<1>5. D = {}
  <2> SUFFICES ASSUME D # {} PROVE FALSE
    OBVIOUS
  <2>1. PICK k \in D : \A j \in D : ~ (<<j, k>> \in OpToRel(<, Nat))
    <3>1. D \subseteq Nat
      OBVIOUS
    <3> HIDE DEF D
    <3> QED
      BY <3>1, NatLessThanWellFounded, WFMin, Zenon
  <2>2. k \in 1 .. m /\ at[k] # s[k] /\ k \in Nat
    OBVIOUS
  <2>3. at[k] = Value(at, k)
    BY <1>4, <2>2
  <2>4. k # 1
    BY <1>0, <2>2, <2>3
  <2>5. <<k \div 2, k>> \in OpToRel(<, Nat)
    BY <1>2, <2>2, <2>4 DEF OpToRel
  <2>6. at[k \div 2] = s[k \div 2]
    <3>1. k \div 2 \in 1 .. m
      BY <1>2, <2>4
    <3> QED
      BY <2>1, <2>5, <3>1
  <2> QED
    BY <1>2, <2>2, <2>3, <2>4, <2>6
<1> QED
  BY <1>1, <1>5

\* An ordered tree is what IsHeap says.
LEMMA TreeIsHeap ==
  ASSUME NEW h, NEW n, NEW s, NEW key, Tree(h, n, s), Ordered(n, s, key)
  PROVE  IsHeap(h, key) /\ Members(h) = Nodes(n, s)
<1>0. n \in Nat /\ h.nelts = n /\ Level1(n, s)
  BY DEF Tree
<1>1. \A k \in 1 .. n : At(h, k) = s[k]
  BY AtIs
<1>2. Members(h) = Nodes(n, s)
  BY <1>0, <1>1 DEF Members, Nodes
<1>3. Cardinality(Nodes(n, s)) = n
  <2>1. s \in [1 .. n -> Nodes(n, s)]
    BY <1>0 DEF Level1, Nodes
  <2>2. s \in Bijection(1 .. n, Nodes(n, s))
    <3>1. s \in Injection(1 .. n, Nodes(n, s))
      BY <1>0, <2>1 DEF Level1, Injection, IsInjective
    <3>2. s \in Surjection(1 .. n, Nodes(n, s))
      BY <2>1 DEF Nodes, Surjection
    <3> QED
      BY <3>1, <3>2 DEF Bijection
  <2>3. ExistsBijection(1 .. n, Nodes(n, s))
    BY <2>2, Zenon DEF ExistsBijection
  <2> QED
    BY <1>0, <2>3, FS_CountingElements
<1>4. Null \notin Nodes(n, s)
  BY <1>0, NullIsNone DEF Level1, Nodes
<1>5. (n = 0 <=> h.root = Null) /\ (n > 0 => h.parent[h.root] = Null)
  BY <1>0, NullIsNone DEF Tree, Nth, Level1
<1>6. ASSUME NEW k \in 1 .. n
      PROVE  /\ h.left[s[k]] = IF 2 * k <= n THEN At(h, 2 * k) ELSE Null
             /\ h.right[s[k]] = IF 2 * k < n THEN At(h, 2 * k + 1) ELSE Null
             /\ k > 1 => /\ h.parent[s[k]] = At(h, k \div 2)
                         /\ key[h.parent[s[k]]] <= key[s[k]]
  <2>1. h.left[s[k]] = Nth(s, n, 2 * k) /\ h.right[s[k]] = Nth(s, n, 2 * k + 1)
    BY DEF Tree
  <2>2. h.left[s[k]] = IF 2 * k <= n THEN At(h, 2 * k) ELSE Null
    BY <1>0, <1>1, <2>1 DEF Nth
  <2>3. h.right[s[k]] = IF 2 * k < n THEN At(h, 2 * k + 1) ELSE Null
    BY <1>0, <1>1, <2>1 DEF Nth
  <2>4. ASSUME k > 1
        PROVE  h.parent[s[k]] = At(h, k \div 2) /\ key[h.parent[s[k]]] <= key[s[k]]
    <3>1. k \div 2 \in 1 .. n /\ (k = 2 * (k \div 2) \/ k = 2 * (k \div 2) + 1)
      BY <1>0, <2>4
    <3> DEFINE i == k \div 2
    <3>2. i \in 1 .. n /\ k \in Under(i)
      BY <3>1 DEF Under
    <3> HIDE DEF i
    <3>3. h.parent[s[k]] = s[i] /\ key[s[i]] <= key[s[k]]
      BY <1>0, <3>2 DEF Tree, Ordered
    <3> QED
      BY <1>1, <3>2, <3>3 DEF i
  <2> QED
    BY <2>2, <2>3, <2>4
<1> QED
  <2>1. \A k \in 1 .. h.nelts :
            LET v == At(h, k) IN
            /\ h.left[v] = IF 2 * k <= h.nelts THEN At(h, 2 * k) ELSE Null
            /\ h.right[v] = IF 2 * k < h.nelts THEN At(h, 2 * k + 1) ELSE Null
            /\ k > 1 => /\ h.parent[v] = At(h, k \div 2)
                        /\ key[h.parent[v]] <= key[v]
    BY <1>0, <1>1, <1>6
  <2> QED
    BY <1>0, <1>2, <1>3, <1>4, <1>5, <2>1 DEF IsHeap

-----------------------------------------------------------------------------
\* A heap of the timers in S.
HeapOf(h, key, S) ==
    h \in Heaps /\ \E n, s : Tree(h, n, s) /\ Ordered(n, s, key) /\ Nodes(n, s) = S

\* heap_insert before it sifts.
Linked(h, v) ==
    LET n == h.nelts + 1
        p == IF n = 1 THEN Null ELSE At(h, n \div 2) IN
    [h EXCEPT !.nelts = n, !.root = IF n = 1 THEN v ELSE @, !.parent[v] = p,
              !.left = IF n % 2 = 0 THEN Store(@, p, v) ELSE @,
              !.right = IF n > 1 /\ n % 2 = 1 THEN Store(@, p, v) ELSE @]

LEMMA InsertIs ==
  ASSUME NEW h, NEW key, NEW v
  PROVE  HeapInsert(h, key, v) = SiftUp(Linked(h, v), key, v)
BY DEF HeapInsert, Linked, Applied

\* A new last node.
Longer(n, s, v) == [k \in 1 .. n + 1 |-> IF k = n + 1 THEN v ELSE s[k]]

LEMMA LinkedTree ==
  ASSUME NEW h \in Heaps, NEW n, NEW s, Tree(h, n, s), NEW v \in Timers, v \notin Nodes(n, s)
  PROVE  LET z == Longer(n, s, v) IN
         /\ Linked(h, v) \in Heaps /\ Tree(Linked(h, v), n + 1, z)
         /\ Nodes(n + 1, z) = Nodes(n, s) \cup {v}
<1> DEFINE z == Longer(n, s, v)
           p == IF n + 1 = 1 THEN Null ELSE At(h, (n + 1) \div 2)
           g == Linked(h, v)
<1>0. n \in Nat /\ h.nelts = n /\ Level1(n, s) /\ \A k \in 1 .. n : s[k] # v
  BY DEF Tree, Nodes
<1>1. /\ z \in [1 .. n + 1 -> Timers] /\ z[n + 1] = v /\ \A k \in 1 .. n : z[k] = s[k] /\ k # n + 1
      /\ \A k \in 1 .. n + 1 : k # n + 1 => k \in 1 .. n
  BY <1>0 DEF Level1, Longer
<1> HIDE DEF z
<1>2. Level1(n + 1, z)
  <2>1. ASSUME NEW k \in 1 .. n + 1, NEW l \in 1 .. n + 1, z[k] = z[l] PROVE k = l
    BY <1>0, <1>1, <2>1 DEF Level1
  <2> QED
    BY <1>1, <2>1 DEF Level1
<1>3. Nodes(n + 1, z) = Nodes(n, s) \cup {v}
  <2>1. ASSUME NEW k \in 1 .. n + 1 PROVE z[k] \in Nodes(n, s) \cup {v}
    BY <1>0, <1>1 DEF Nodes
  <2>2. ASSUME NEW k \in 1 .. n PROVE s[k] \in Nodes(n + 1, z)
    <3>1. k \in 1 .. n + 1 /\ z[k] = s[k]
      BY <1>0, <1>1
    <3> QED
      BY <3>1 DEF Nodes
  <2>3. v \in Nodes(n + 1, z)
    BY <1>0, <1>1 DEF Nodes
  <2> QED
    BY <2>1, <2>2, <2>3 DEF Nodes
\* The place above the new one.
<1>4. /\ n = 0 => p = Null
      /\ n # 0 => \E i \in 1 .. n : /\ p = s[i] /\ n + 1 \in Under(i) /\ 2 * i >= n
                                    /\ n + 1 = 2 * i <=> (n + 1) % 2 = 0
  <2>1. CASE n = 0
    BY <2>1
  <2>2. CASE n # 0
    <3> DEFINE i == (n + 1) \div 2
    <3>1. i \in 1 .. n /\ (n + 1 = 2 * i \/ n + 1 = 2 * i + 1) /\ (n + 1 = 2 * i <=> (n + 1) % 2 = 0)
      BY <1>0, <2>2
    <3> HIDE DEF i
    <3>2. At(h, i) = s[i]
      BY <3>1, AtIs
    <3>3. p = s[i]
      BY <1>0, <2>2, <3>2 DEF i
    <3>4. n + 1 \in Under(i) /\ 2 * i >= n
      BY <1>0, <3>1 DEF Under
    <3> QED
      BY <2>2, <3>1, <3>3, <3>4
  <2> QED
    BY <2>1, <2>2
<1>5. p \in N0
  BY <1>0, <1>4 DEF Level1, N0
<1>6. /\ g \in Heaps /\ g.nelts = n + 1
      /\ g.root = IF n = 0 THEN v ELSE h.root
      /\ g.parent = [h.parent EXCEPT ![v] = p]
      /\ g.left = IF (n + 1) % 2 = 0 THEN Store(h.left, p, v) ELSE h.left
      /\ g.right = IF n + 1 > 1 /\ (n + 1) % 2 = 1 THEN Store(h.right, p, v) ELSE h.right
  <2> DEFINE rt == IF n + 1 = 1 THEN v ELSE h.root
             par == [h.parent EXCEPT ![v] = p]
             lft == IF (n + 1) % 2 = 0 THEN Store(h.left, p, v) ELSE h.left
             rgt == IF n + 1 > 1 /\ (n + 1) % 2 = 1 THEN Store(h.right, p, v) ELSE h.right
  <2>1. rt = IF n = 0 THEN v ELSE h.root
    BY <1>0
  <2>2. g = [h EXCEPT !.nelts = n + 1, !.root = rt, !.parent = par, !.left = lft, !.right = rgt]
    BY <1>0 DEF Linked
  <2> HIDE DEF g, p
  <2>3. rt \in N0 /\ par \in [Timers -> N0] /\ lft \in [Timers -> N0] /\ rgt \in [Timers -> N0]
    BY <1>5 DEF Heaps, N0, Store
  <2> HIDE DEF rt, par, lft, rgt
  <2>4. g \in Heaps /\ g.nelts = n + 1 /\ g.root = rt /\ g.parent = par /\ g.left = lft /\ g.right = rgt
    <3>1. n + 1 \in Nat
      BY <1>0
    <3> DEFINE N == n + 1
    <3> HIDE DEF N
    <3>2. g = [root |-> rt, nelts |-> N, parent |-> par, left |-> lft, right |-> rgt]
      BY <2>2 DEF Heaps, N
    <3> QED
      BY <2>3, <3>1, <3>2 DEF Heaps, N
  <2> QED
    BY <2>1, <2>4 DEF par, lft, rgt
<1> HIDE DEF g, p
<1>7. \A k \in 1 .. n : /\ s[k] \in Timers /\ s[k] # Null
                        /\ h.left[s[k]] = Nth(s, n, 2 * k) /\ h.right[s[k]] = Nth(s, n, 2 * k + 1)
                        /\ \A m \in Under(k) : m <= n => h.parent[s[m]] = s[k]
  BY <1>0, NullIsNone DEF Tree, Level1
<1>8. h.parent[v] = Null /\ h.left[v] = Null /\ h.right[v] = Null
  BY DEF Tree
<1>9. CASE n = 0
  <2>1. /\ g.left = h.left /\ g.right = h.right /\ g.parent = h.parent /\ g.root = v /\ p = Null
    BY <1>4, <1>6, <1>8, <1>9 DEF Heaps, Store
  <2>2. ASSUME NEW k \in 1 .. 1
        PROVE  /\ g.left[z[k]] = Nth(z, 1, 2 * k) /\ g.right[z[k]] = Nth(z, 1, 2 * k + 1)
               /\ \A m \in Under(k) : m <= 1 => g.parent[z[m]] = z[k]
    BY <1>1, <1>8, <1>9, <2>1 DEF Nth, Under
  <2>3. g.root = Nth(z, 1, 1) /\ g.parent[z[1]] = Null
    BY <1>1, <1>8, <1>9, <2>1 DEF Nth
  <2>4. \A t \in Timers : t \notin Nodes(n + 1, z) =>
            g.parent[t] = Null /\ g.left[t] = Null /\ g.right[t] = Null
    BY <1>3, <2>1 DEF Tree
  <2>5. Tree(g, n + 1, z)
    BY <1>0, <1>2, <1>6, <1>9, <2>2, <2>3, <2>4 DEF Tree
  <2> QED
    BY <1>3, <1>6, <2>5 DEF g, z
<1>10. CASE n # 0
  <2>1. PICK i \in 1 .. n : /\ p = s[i] /\ n + 1 \in Under(i) /\ 2 * i >= n
                            /\ n + 1 = 2 * i <=> (n + 1) % 2 = 0
    BY <1>4, <1>10
  <2>2. /\ n + 1 = 2 * i \/ n + 1 = 2 * i + 1
        /\ (n + 1 = 2 * i + 1 <=> (n + 1) % 2 = 1)
        /\ n + 1 > 1 /\ i \in Nat /\ i # n + 1 /\ p \in Timers /\ p # Null /\ p # v
    BY <1>0, <1>7, <1>10, <2>1 DEF Under
  <2>3. /\ g.left = IF n + 1 = 2 * i THEN [h.left EXCEPT ![p] = v] ELSE h.left
        /\ g.right = IF n + 1 = 2 * i + 1 THEN [h.right EXCEPT ![p] = v] ELSE h.right
    BY <1>6, <2>1, <2>2 DEF Store
  <2>4. \A t \in Timers :
            /\ g.left[t] = IF t = p /\ n + 1 = 2 * i THEN v ELSE h.left[t]
            /\ g.right[t] = IF t = p /\ n + 1 = 2 * i + 1 THEN v ELSE h.right[t]
            /\ g.parent[t] = IF t = v THEN p ELSE h.parent[t]
    BY <1>6, <2>3 DEF Heaps
  <2>5. ASSUME NEW k \in 1 .. n + 1
        PROVE  g.left[z[k]] = Nth(z, n + 1, 2 * k) /\ g.right[z[k]] = Nth(z, n + 1, 2 * k + 1)
    <3>1. CASE k = n + 1
      <4>1. g.left[z[k]] = Null /\ g.right[z[k]] = Null
        BY <1>1, <1>8, <2>2, <2>4, <3>1
      <4> QED
        BY <1>0, <3>1, <4>1 DEF Nth
    <3>2. CASE k = i
      <4>1. z[k] = p /\ k \in 1 .. n /\ h.left[p] = Nth(s, n, 2 * k) /\ h.right[p] = Nth(s, n, 2 * k + 1)
        BY <1>1, <1>7, <2>1, <3>2
      <4>2. /\ g.left[p] = IF n + 1 = 2 * i THEN v ELSE h.left[p]
            /\ g.right[p] = IF n + 1 = 2 * i + 1 THEN v ELSE h.right[p]
        BY <2>2, <2>4
      <4>3. CASE n + 1 = 2 * i
        BY <1>0, <1>1, <2>2, <3>2, <4>1, <4>2, <4>3 DEF Nth
      <4>4. CASE n + 1 = 2 * i + 1
        BY <1>0, <1>1, <2>2, <3>2, <4>1, <4>2, <4>4 DEF Nth
      <4> QED
        BY <2>2, <4>3, <4>4
    <3>3. CASE k # n + 1 /\ k # i
      <4>1. k \in 1 .. n /\ z[k] = s[k] /\ s[k] # p /\ s[k] \in Timers
        BY <1>0, <1>1, <1>7, <2>1, <3>3 DEF Level1
      <4>2. g.left[z[k]] = Nth(s, n, 2 * k) /\ g.right[z[k]] = Nth(s, n, 2 * k + 1)
        BY <1>7, <2>4, <4>1
      <4>3. 2 * k # n + 1 /\ 2 * k + 1 # n + 1
        BY <1>0, <2>2, <3>3
      <4> QED
        BY <1>0, <1>1, <4>2, <4>3 DEF Nth
    <3> QED
      BY <3>1, <3>2, <3>3
  <2>6. ASSUME NEW k \in 1 .. n + 1, NEW m \in Under(k), m <= n + 1
        PROVE  g.parent[z[m]] = z[k]
    <3>1. m \in 1 .. n + 1 /\ k \in 1 .. n /\ (m = 2 * k \/ m = 2 * k + 1)
      BY <1>0, <2>6 DEF Under
    <3>2. CASE m = n + 1
      <4>1. k = i
        BY <2>2, <3>1, <3>2
      <4> QED
        BY <1>1, <2>1, <2>4, <3>2, <4>1
    <3>3. CASE m # n + 1
      <4>1. m \in 1 .. n /\ z[m] = s[m] /\ s[m] # v /\ s[m] \in Timers /\ z[k] = s[k]
        BY <1>0, <1>1, <1>7, <3>1, <3>3
      <4>2. h.parent[s[m]] = s[k]
        BY <1>7, <2>6, <3>1, <4>1
      <4> QED
        BY <2>4, <4>1, <4>2
    <3> QED
      BY <3>2, <3>3
  <2>7. g.root = Nth(z, n + 1, 1) /\ g.parent[z[1]] = Null
    <3>1. 1 \in 1 .. n /\ z[1] = s[1] /\ s[1] \in Timers /\ s[1] # v
      BY <1>0, <1>1, <1>7, <1>10
    <3>2. h.root = s[1] /\ h.parent[s[1]] = Null
      BY <1>0, <1>10 DEF Tree, Nth
    <3> QED
      BY <1>0, <1>6, <1>10, <2>4, <3>1, <3>2 DEF Nth
  <2>8. ASSUME NEW t \in Timers, t \notin Nodes(n + 1, z)
        PROVE  g.parent[t] = Null /\ g.left[t] = Null /\ g.right[t] = Null
    <3>1. t # v /\ t \notin Nodes(n, s) /\ t # p
      BY <1>3, <2>1, <2>8 DEF Nodes
    <3> QED
      BY <2>4, <3>1 DEF Tree
  <2>9. Tree(g, n + 1, z)
    BY <1>0, <1>2, <1>6, <2>5, <2>6, <2>7, <2>8 DEF Tree
  <2> QED
    BY <1>3, <1>6, <2>9 DEF g, z
<1> QED
  BY <1>9, <1>10

\* heap_insert.
LEMMA InsertHeap ==
  ASSUME NEW h, NEW old, NEW S, HeapOf(h, old, S), NEW key \in Keys, \A t \in S : key[t] = old[t],
         NEW v \in Timers, v \notin S
  PROVE  /\ HeapOf(HeapInsert(h, key, v), key, S \cup {v})
         /\ HeapInsert(h, key, v).nelts = h.nelts + 1
<1>1. PICK n, s : h \in Heaps /\ Tree(h, n, s) /\ Ordered(n, s, old) /\ Nodes(n, s) = S
  BY DEF HeapOf
<1>0. n \in Nat /\ h.nelts = n /\ Level1(n, s)
  BY <1>1 DEF Tree
<1> DEFINE z == Longer(n, s, v)
           g == Linked(h, v)
<1>2. g \in Heaps /\ Tree(g, n + 1, z) /\ Nodes(n + 1, z) = S \cup {v}
  BY <1>1, LinkedTree
<1>3. z[n + 1] = v /\ \A k \in 1 .. n : z[k] = s[k]
  BY <1>0 DEF Longer
<1> HIDE DEF z, g
<1>4. Below(n + 1, z, key, n + 1)
  BY <1>0 DEF Below, Under
<1>5. Around(n + 1, z, key, n + 1)
  <2> SUFFICES ASSUME NEW k \in 1 .. n + 1, NEW m \in Under(k), m <= n + 1
               PROVE  /\ k # n + 1 /\ m # n + 1 => key[z[k]] <= key[z[m]]
                      /\ m = n + 1 => \A l \in Under(n + 1) : l <= n + 1 => key[z[k]] <= key[z[l]]
    BY DEF Around
  <2>1. ASSUME k # n + 1, m # n + 1 PROVE key[z[k]] <= key[z[m]]
    <3>1. k \in 1 .. n /\ m \in 1 .. n /\ m <= n
      BY <1>0, <2>1 DEF Under
    <3>2. old[s[k]] <= old[s[m]]
      BY <1>1, <3>1 DEF Ordered
    <3>3. s[k] \in S /\ s[m] \in S
      BY <1>1, <3>1 DEF Nodes
    <3> QED
      BY <1>3, <3>1, <3>2, <3>3
  <2>2. ~ \E l \in Under(n + 1) : l <= n + 1
    BY <1>0 DEF Under
  <2> QED
    BY <2>1, <2>2
<1>6. Sifting(g, n + 1, z, key, S \cup {v}, v, n + 1)
  BY <1>0, <1>2, <1>3, <1>5 DEF Sifting
<1>7. /\ SiftUp(g, key, v) \in Heaps
      /\ \E y : /\ Tree(SiftUp(g, key, v), n + 1, y) /\ Nodes(n + 1, y) = S \cup {v}
                /\ Ordered(n + 1, y, key)
  BY <1>4, <1>6, SiftedUp
<1>8. HeapInsert(h, key, v) = SiftUp(g, key, v)
  BY InsertIs DEF g
<1>9. SiftUp(g, key, v).nelts = n + 1
  BY <1>7 DEF Tree
<1> QED
  BY <1>0, <1>7, <1>8, <1>9 DEF HeapOf

-----------------------------------------------------------------------------
\* heap_remove before it sifts: the pointer to the last node is cleared, and the
\* last node takes the place of v.
Cut(h) ==
    LET n == h.nelts
        p == At(h, n \div 2) IN
    [h EXCEPT !.nelts = n - 1,
              !.left = IF n % 2 = 0 THEN Store(@, p, Null) ELSE @,
              !.right = IF n % 2 = 1 THEN Store(@, p, Null) ELSE @]
Replaced(g, v, last) ==
    [HeapReplace(g, v, last) EXCEPT !.parent[v] = Null, !.left[v] = Null, !.right[v] = Null]

LEMMA RemoveIs ==
  ASSUME NEW h, NEW key, NEW v, h.nelts # 0, h.nelts # 1
  PROVE  LET last == At(h, h.nelts) IN
         HeapRemove(h, key, v) = SiftUp(SiftDown(Replaced(Cut(h), v, last), key, last), key, last)
BY DEF HeapRemove, Cut, Replaced, Applied

\* HeapReplace and the three stores after it, field by field.
ReplacedFields(g, v, l, c) ==
    /\ c \in Heaps /\ c.nelts = g.nelts
    /\ c.root = IF g.parent[v] = Null THEN l ELSE g.root
    /\ \A x \in Timers :
           /\ c.left[x] = IF x = v THEN Null ELSE IF x = l THEN g.left[v]
                          ELSE IF x = g.parent[v] /\ g.left[x] = v THEN l ELSE g.left[x]
           /\ c.right[x] = IF x = v THEN Null ELSE IF x = l THEN g.right[v]
                           ELSE IF x = g.parent[v] /\ g.left[x] # v /\ g.right[x] = v THEN l
                           ELSE g.right[x]
           /\ c.parent[x] = IF x = v THEN Null ELSE IF x = l THEN g.parent[v]
                            ELSE IF x \in {g.left[v], g.right[v]} THEN l ELSE g.parent[x]

LEMMA ReplaceFields ==
  ASSUME NEW g \in Heaps, NEW v \in Timers, NEW l \in Timers, g.parent[v] # v
  PROVE  ReplacedFields(g, v, l, Replaced(g, v, l))
<1> DEFINE r == Reparented(g, v, l)
           up == g.parent[v]
           c == Replaced(g, v, l)
<1>0. up \in N0 /\ g.left[v] \in N0 /\ g.right[v] \in N0 /\ Null \notin Timers
  BY NullIsNone DEF Heaps, N0
<1>1. /\ r \in Heaps /\ r.nelts = g.nelts /\ r.root = IF up = Null THEN l ELSE g.root
      /\ r.parent = g.parent
      /\ r.left = IF up # Null /\ g.left[up] = v THEN [g.left EXCEPT ![up] = l] ELSE g.left
      /\ r.right = IF up # Null /\ g.left[up] # v /\ g.right[up] = v
                   THEN [g.right EXCEPT ![up] = l] ELSE g.right
  BY <1>0 DEF Reparented, Heaps, Store, N0
<1> HIDE DEF r
<1>2. r.left[v] = g.left[v] /\ r.right[v] = g.right[v]
  BY <1>0, <1>1 DEF Heaps, N0
<1> DEFINE par1 == [Store(Store(r.parent, g.left[v], l), g.right[v], l) EXCEPT ![l] = g.parent[v]]
           lft1 == [r.left EXCEPT ![l] = r.left[v]]
           rgt1 == [r.right EXCEPT ![l] = r.right[v]]
           par == [par1 EXCEPT ![v] = Null]
           lft == [lft1 EXCEPT ![v] = Null]
           rgt == [rgt1 EXCEPT ![v] = Null]
<1>3. HeapReplace(g, v, l) = [r EXCEPT !.parent = par1, !.left = lft1, !.right = rgt1]
  BY <1>1 DEF HeapReplace, r, Heaps
<1>4. par1 \in [Timers -> N0] /\ lft1 \in [Timers -> N0] /\ rgt1 \in [Timers -> N0]
  BY <1>0, <1>1 DEF Heaps, Store, N0
<1>5. \A x \in Timers :
          /\ lft[x] = IF x = v THEN Null ELSE IF x = l THEN g.left[v]
                      ELSE IF x = up /\ g.left[x] = v THEN l ELSE g.left[x]
          /\ rgt[x] = IF x = v THEN Null ELSE IF x = l THEN g.right[v]
                      ELSE IF x = up /\ g.left[x] # v /\ g.right[x] = v THEN l ELSE g.right[x]
  BY <1>0, <1>1, <1>2 DEF Heaps, N0
<1>6. ASSUME NEW x \in Timers
      PROVE  par[x] = IF x = v THEN Null ELSE IF x = l THEN up
                      ELSE IF x \in {g.left[v], g.right[v]} THEN l ELSE g.parent[x]
  BY <1>0, <1>1 DEF Heaps, N0, Store
<1>7. par \in [Timers -> N0] /\ lft \in [Timers -> N0] /\ rgt \in [Timers -> N0]
  BY <1>4 DEF N0
<1>8. c = [root |-> r.root, nelts |-> r.nelts, parent |-> par, left |-> lft, right |-> rgt]
  <2> DEFINE q == HeapReplace(g, v, l)
  <2> HIDE DEF par1, lft1, rgt1
  <2>1. q = [root |-> r.root, nelts |-> r.nelts, parent |-> par1, left |-> lft1, right |-> rgt1]
    BY <1>1, <1>3 DEF Heaps
  <2>2. c = [q EXCEPT !.parent = [q.parent EXCEPT ![v] = Null],
                      !.left = [q.left EXCEPT ![v] = Null], !.right = [q.right EXCEPT ![v] = Null]]
    BY DEF Replaced
  <2> HIDE DEF q, c
  <2>3. q.parent = par1 /\ q.left = lft1 /\ q.right = rgt1
    BY <2>1
  <2>4. c = [q EXCEPT !.parent = par, !.left = lft, !.right = rgt]
    BY <2>2, <2>3
  <2> HIDE DEF par, lft, rgt
  <2> QED
    BY <2>1, <2>4
<1> HIDE DEF par, lft, rgt, c
<1>9. /\ c \in Heaps /\ c.nelts = g.nelts /\ c.root = r.root
      /\ c.parent = par /\ c.left = lft /\ c.right = rgt
  BY <1>1, <1>7, <1>8 DEF Heaps
<1> QED
  BY <1>1, <1>5, <1>6, <1>9 DEF ReplacedFields, c

\* Without the pointer to its last node.
LEMMA CutFields ==
  ASSUME NEW h \in Heaps, NEW n, NEW s, Tree(h, n, s), n > 1
  PROVE  LET g == Cut(h) IN
         /\ g \in Heaps /\ g.nelts = n - 1 /\ g.root = h.root /\ g.parent = h.parent
         /\ \A k \in 1 .. n : /\ g.left[s[k]] = Nth(s, n - 1, 2 * k)
                              /\ g.right[s[k]] = Nth(s, n - 1, 2 * k + 1)
         /\ \A t \in Timers : t \notin Nodes(n, s) => g.left[t] = Null /\ g.right[t] = Null
<1> DEFINE p == At(h, n \div 2)
           g == Cut(h)
           lft == IF n % 2 = 0 THEN Store(h.left, p, Null) ELSE h.left
           rgt == IF n % 2 = 1 THEN Store(h.right, p, Null) ELSE h.right
           i == n \div 2
           N == n - 1
<1>0. n \in Nat /\ h.nelts = n /\ Level1(n, s) /\ N \in Nat
  BY DEF Tree
<1>1. g = [h EXCEPT !.nelts = N, !.left = lft, !.right = rgt]
  BY <1>0 DEF Cut
<1>2. i \in 1 .. n /\ i \in Nat /\ i < n /\ (n = 2 * i <=> n % 2 = 0) /\ (n = 2 * i + 1 <=> n % 2 = 1)
      /\ (n = 2 * i \/ n = 2 * i + 1)
  BY <1>0
<1>3. p = s[i]
  BY <1>2, AtIs
<1> HIDE DEF g, p, i
<1>4. p \in Timers /\ p # Null
  BY <1>0, <1>2, <1>3, NullIsNone DEF Level1
<1>5. lft \in [Timers -> N0] /\ rgt \in [Timers -> N0]
  BY <1>4 DEF Heaps, N0, Store
<1>6. \A t \in Timers : /\ lft[t] = IF t = p /\ n = 2 * i THEN Null ELSE h.left[t]
                        /\ rgt[t] = IF t = p /\ n = 2 * i + 1 THEN Null ELSE h.right[t]
  BY <1>2, <1>4 DEF Heaps, Store
<1> HIDE DEF lft, rgt
<1>7. /\ g \in Heaps /\ g.nelts = N /\ g.root = h.root /\ g.parent = h.parent
      /\ g.left = lft /\ g.right = rgt
  <2> HIDE DEF N
  <2> QED
    BY <1>0, <1>1, <1>5 DEF Heaps
<1>8. ASSUME NEW k \in 1 .. n
      PROVE  g.left[s[k]] = Nth(s, n - 1, 2 * k) /\ g.right[s[k]] = Nth(s, n - 1, 2 * k + 1)
  <2>1. h.left[s[k]] = Nth(s, n, 2 * k) /\ h.right[s[k]] = Nth(s, n, 2 * k + 1) /\ s[k] \in Timers
    BY <1>0 DEF Tree, Level1
  <2>2. s[k] = p <=> k = i
    BY <1>0, <1>2, <1>3 DEF Level1
  <2>3. CASE k = i
    <3>1. CASE n = 2 * i
      BY <1>0, <1>2, <1>6, <1>7, <2>1, <2>2, <2>3, <3>1 DEF Nth
    <3>2. CASE n = 2 * i + 1
      BY <1>0, <1>2, <1>6, <1>7, <2>1, <2>2, <2>3, <3>2 DEF Nth
    <3> QED
      BY <1>2, <3>1, <3>2
  <2>4. CASE k # i
    <3>1. 2 * k # n /\ 2 * k + 1 # n
      BY <1>2, <2>4
    <3>2. g.left[s[k]] = Nth(s, n, 2 * k) /\ g.right[s[k]] = Nth(s, n, 2 * k + 1)
      BY <1>6, <1>7, <2>1, <2>2, <2>4
    <3> QED
      BY <1>0, <3>1, <3>2 DEF Nth
  <2> QED
    BY <2>3, <2>4
<1>9. \A t \in Timers : t \notin Nodes(n, s) => g.left[t] = Null /\ g.right[t] = Null
  BY <1>6, <1>7 DEF Tree
<1> QED
  BY <1>7, <1>8, <1>9 DEF g

\* The nodes without v, the last one in its place.
Without(n, s, j) == [k \in 1 .. n - 1 |-> IF k = j THEN s[n] ELSE s[k]]

LEMMA WithoutOrder ==
  ASSUME NEW n \in Nat, n > 1, NEW s, Level1(n, s), NEW j \in 1 .. n
  PROVE  LET z == Without(n, s, j) IN
         /\ Level1(n - 1, z) /\ Nodes(n - 1, z) = Nodes(n, s) \ {s[j]}
         /\ j # n => z[j] = s[n]
         /\ \A k \in 1 .. n - 1 : k # j => z[k] = s[k]
<1> DEFINE z == Without(n, s, j)
<1>1. /\ z \in [1 .. n - 1 -> Timers] /\ (j # n => z[j] = s[n])
      /\ \A k \in 1 .. n - 1 : k # j => z[k] = s[k]
  BY DEF Without, Level1
<1> HIDE DEF z
<1>2. ASSUME NEW k \in 1 .. n - 1, NEW l \in 1 .. n - 1, z[k] = z[l] PROVE k = l
  BY <1>1, <1>2 DEF Level1
<1>3. ASSUME NEW k \in 1 .. n - 1 PROVE z[k] \in Nodes(n, s) \ {s[j]}
  <2>1. \E m \in 1 .. n : z[k] = s[m] /\ m # j
    <3>1. CASE k = j
      <4>1. n \in 1 .. n /\ z[k] = s[n] /\ n # j
        BY <1>1, <3>1
      <4> QED
        BY <4>1
    <3>2. CASE k # j
      BY <1>1, <3>2
    <3> QED
      BY <3>1, <3>2
  <2> QED
    BY <2>1 DEF Nodes, Level1
<1>4. ASSUME NEW m \in 1 .. n, m # j PROVE s[m] \in Nodes(n - 1, z)
  <2>1. \E k \in 1 .. n - 1 : s[m] = z[k]
    <3>1. CASE m = n
      <4>1. j \in 1 .. n - 1 /\ z[j] = s[m]
        BY <1>1, <1>4, <3>1
      <4> QED
        BY <4>1
    <3>2. CASE m # n
      <4>1. m \in 1 .. n - 1 /\ z[m] = s[m]
        BY <1>1, <1>4, <3>2
      <4> QED
        BY <4>1
    <3> QED
      BY <3>1, <3>2
  <2> QED
    BY <2>1 DEF Nodes
<1>5. Nodes(n - 1, z) = Nodes(n, s) \ {s[j]}
  <2>1. \A x \in Nodes(n - 1, z) : x \in Nodes(n, s) \ {s[j]}
    BY <1>3 DEF Nodes
  <2>2. \A x \in Nodes(n, s) \ {s[j]} : x \in Nodes(n - 1, z)
    BY <1>4 DEF Nodes
  <2> QED
    BY <2>1, <2>2
<1> QED
  BY <1>1, <1>2, <1>5 DEF z, Level1

LEMMA ReplacedTree ==
  ASSUME NEW h \in Heaps, NEW n, NEW s, Tree(h, n, s), n > 1, NEW j \in 1 .. n
  PROVE  LET c == Replaced(Cut(h), s[j], s[n]) IN
         c \in Heaps /\ Tree(c, n - 1, Without(n, s, j))
<1> DEFINE v == s[j]
           last == s[n]
           g == Cut(h)
           c == Replaced(g, v, last)
           z == Without(n, s, j)
           up == h.parent[v]
<1>0. n \in Nat /\ h.nelts = n /\ Level1(n, s) /\ j \in Nat /\ n \in 1 .. n
  BY DEF Tree
<1>1. /\ Level1(n - 1, z) /\ Nodes(n - 1, z) = Nodes(n, s) \ {v} /\ (j # n => z[j] = last)
      /\ \A k \in 1 .. n - 1 : k # j => z[k] = s[k]
  BY <1>0, WithoutOrder
<1>2. /\ g \in Heaps /\ g.nelts = n - 1 /\ g.root = h.root /\ g.parent = h.parent
      /\ \A k \in 1 .. n : /\ g.left[s[k]] = Nth(s, n - 1, 2 * k)
                           /\ g.right[s[k]] = Nth(s, n - 1, 2 * k + 1)
      /\ \A t \in Timers : t \notin Nodes(n, s) => g.left[t] = Null /\ g.right[t] = Null
  BY CutFields
<1>3. /\ h.root = s[1] /\ h.parent[s[1]] = Null
      /\ \A k \in 1 .. n : s[k] \in Timers /\ s[k] # Null
      /\ \A k \in 1 .. n : \A m \in Under(k) : m <= n => h.parent[s[m]] = s[k]
  <2>1. \A k \in 1 .. n : s[k] \in Timers /\ s[k] # Null
    BY <1>0, NullIsNone DEF Level1
  <2> QED
    BY <1>0, <2>1 DEF Tree, Nth
<1>4. \A k, l \in 1 .. n : s[k] = s[l] => k = l
  BY <1>0 DEF Level1
\* The node above v.
<1>5. (j = 1 => up = Null) /\ \A k \in 1 .. n : j \in Under(k) => up = s[k] /\ k # j
  BY <1>0, <1>3 DEF Under
<1>6. j > 1 => \E k \in 1 .. n : j \in Under(k) /\ k <= n - 1
  BY <1>0, PlaceAbove
<1>7. v \in Timers /\ last \in Timers /\ up # v
  BY <1>0, <1>3, <1>4, <1>5, <1>6
<1> HIDE DEF g, c, z
<1>8. ReplacedFields(g, v, last, c)
  <2> HIDE DEF v, last
  <2> QED
    BY <1>2, <1>7, ReplaceFields DEF c, up
<1> HIDE DEF up
<1>9. /\ c \in Heaps /\ c.nelts = n - 1 /\ c.root = IF up = Null THEN last ELSE h.root
      /\ \A x \in Timers :
           /\ c.left[x] = IF x = v THEN Null ELSE IF x = last THEN g.left[v]
                          ELSE IF x = up /\ g.left[x] = v THEN last ELSE g.left[x]
           /\ c.right[x] = IF x = v THEN Null ELSE IF x = last THEN g.right[v]
                           ELSE IF x = up /\ g.left[x] # v /\ g.right[x] = v THEN last
                           ELSE g.right[x]
           /\ c.parent[x] = IF x = v THEN Null ELSE IF x = last THEN up
                            ELSE IF x \in {g.left[v], g.right[v]} THEN last ELSE h.parent[x]
  BY <1>2, <1>8 DEF ReplacedFields, up
<1>10. ASSUME NEW k \in 1 .. n - 1
       PROVE  c.left[z[k]] = Nth(z, n - 1, 2 * k) /\ c.right[z[k]] = Nth(z, n - 1, 2 * k + 1)
  <2>0. k \in 1 .. n /\ k # n /\ k \in Nat
        /\ g.left[s[k]] = Nth(s, n - 1, 2 * k) /\ g.right[s[k]] = Nth(s, n - 1, 2 * k + 1)
    BY <1>0, <1>2
  <2>1. CASE k = j
    <3>1. z[k] = last /\ last # v
      BY <1>0, <1>1, <1>4, <2>0, <2>1
    <3>2. c.left[last] = g.left[v] /\ c.right[last] = g.right[v]
      BY <1>7, <1>9, <3>1
    <3> QED
      BY <1>0, <1>1, <2>0, <2>1, <3>1, <3>2 DEF Nth
  <2>2. CASE k # j
    <3>1. z[k] = s[k] /\ s[k] # last /\ s[k] # v /\ s[k] \in Timers
      BY <1>0, <1>1, <1>3, <1>4, <2>0, <2>2
    <3>2. /\ c.left[s[k]] = IF s[k] = up /\ g.left[s[k]] = v THEN last ELSE g.left[s[k]]
          /\ c.right[s[k]] = IF s[k] = up /\ g.left[s[k]] # v /\ g.right[s[k]] = v THEN last
                             ELSE g.right[s[k]]
      BY <1>9, <3>1
    <3>3. g.left[s[k]] = v <=> 2 * k = j /\ j # n
      BY <1>0, <1>3, <1>4, <2>0 DEF Nth
    <3>4. g.right[s[k]] = v <=> 2 * k + 1 = j /\ j # n
      BY <1>0, <1>3, <1>4, <2>0 DEF Nth
    <3>5. (2 * k = j => s[k] = up) /\ (2 * k + 1 = j => s[k] = up)
      BY <1>5, <2>0 DEF Under
    <3>6. CASE 2 * k = j /\ j # n
      BY <1>0, <1>1, <2>0, <3>1, <3>2, <3>3, <3>4, <3>5, <3>6 DEF Nth
    <3>7. CASE 2 * k + 1 = j /\ j # n
      BY <1>0, <1>1, <2>0, <3>1, <3>2, <3>3, <3>4, <3>5, <3>7 DEF Nth
    <3>8. CASE j = n \/ (2 * k # j /\ 2 * k + 1 # j)
      <4>1. c.left[z[k]] = Nth(s, n - 1, 2 * k) /\ c.right[z[k]] = Nth(s, n - 1, 2 * k + 1)
        BY <2>0, <3>1, <3>2, <3>3, <3>4, <3>8
      <4> QED
        BY <1>0, <1>1, <2>0, <3>8, <4>1 DEF Nth
    <3> QED
      BY <3>6, <3>7, <3>8
  <2> QED
    BY <2>1, <2>2
<1>11. ASSUME NEW k \in 1 .. n - 1, NEW m \in Under(k), m <= n - 1
       PROVE  c.parent[z[m]] = z[k]
  <2>0. m \in 1 .. n - 1 /\ m \in 1 .. n /\ k \in 1 .. n /\ m # k /\ m # n /\ k # n
        /\ (m = 2 * k \/ m = 2 * k + 1) /\ m <= n
    BY <1>0, <1>11 DEF Under
  <2>1. CASE m = j
    <3>1. z[m] = last /\ last # v /\ z[k] = s[k] /\ up = s[k]
      BY <1>0, <1>1, <1>4, <1>5, <2>0, <2>1, <1>11
    <3> QED
      BY <1>7, <1>9, <3>1
  <2>2. CASE m # j
    <3>1. z[m] = s[m] /\ s[m] # last /\ s[m] # v /\ s[m] \in Timers /\ h.parent[s[m]] = s[k]
      BY <1>0, <1>1, <1>3, <1>4, <2>0, <2>2
    <3>2. c.parent[s[m]] = IF s[m] \in {g.left[v], g.right[v]} THEN last ELSE s[k]
      BY <1>9, <3>1
    <3>3. s[m] \in {g.left[v], g.right[v]} <=> k = j
      <4>1. g.left[v] = Nth(s, n - 1, 2 * j) /\ g.right[v] = Nth(s, n - 1, 2 * j + 1)
        BY <1>2
      <4>2. CASE k = j
        BY <1>0, <2>0, <4>1, <4>2 DEF Nth
      <4>3. CASE k # j
        <5>1. m # 2 * j /\ m # 2 * j + 1
          BY <1>0, <2>0, <4>3
        <5>2. s[m] # Nth(s, n - 1, 2 * j)
          BY <1>0, <1>3, <1>4, <2>0, <5>1 DEF Nth
        <5>3. s[m] # Nth(s, n - 1, 2 * j + 1)
          BY <1>0, <1>3, <1>4, <2>0, <5>1 DEF Nth
        <5> QED
          BY <4>1, <4>3, <5>2, <5>3
      <4> QED
        BY <4>2, <4>3
    <3> QED
      BY <1>1, <2>0, <3>1, <3>2, <3>3
  <2> QED
    BY <2>1, <2>2
<1>12. c.root = Nth(z, n - 1, 1) /\ c.parent[z[1]] = Null
  <2>1. CASE j = 1
    <3>1. z[1] = last /\ last # v /\ up = Null
      BY <1>0, <1>1, <1>4, <1>5, <2>1
    <3> QED
      BY <1>0, <1>7, <1>9, <3>1 DEF Nth
  <2>2. CASE j # 1
    <3>1. z[1] = s[1] /\ s[1] # last /\ s[1] # v /\ s[1] \in Timers /\ up # Null
      BY <1>0, <1>1, <1>3, <1>4, <1>5, <1>6, <2>2
    <3>2. g.left[v] = Nth(s, n - 1, 2 * j) /\ g.right[v] = Nth(s, n - 1, 2 * j + 1)
      BY <1>2
    <3>3. s[1] # g.left[v]
      BY <1>0, <1>3, <1>4, <3>2 DEF Nth
    <3>4. s[1] # g.right[v]
      BY <1>0, <1>3, <1>4, <3>2 DEF Nth
    <3> QED
      BY <1>0, <1>3, <1>9, <3>1, <3>3, <3>4 DEF Nth
  <2> QED
    BY <2>1, <2>2
<1>13. ASSUME NEW t \in Timers, t \notin Nodes(n - 1, z)
       PROVE  c.parent[t] = Null /\ c.left[t] = Null /\ c.right[t] = Null
  <2>1. CASE t = v
    BY <1>9, <2>1
  <2>2. CASE t # v
    <3>1. t \notin Nodes(n, s)
      BY <1>1, <1>13, <2>2
    <3>2. /\ h.parent[t] = Null /\ g.left[t] = Null /\ g.right[t] = Null
          /\ \A k \in 1 .. n : t # s[k]
      BY <1>2, <3>1 DEF Tree, Nodes
    <3>3. t # up
      BY <1>0, <1>5, <1>6, <3>2, NullIsNone
    <3>4. g.left[v] = Nth(s, n - 1, 2 * j) /\ g.right[v] = Nth(s, n - 1, 2 * j + 1)
      BY <1>2
    <3>5. t # g.left[v]
      BY <1>0, <3>2, <3>4, NullIsNone DEF Nth
    <3>6. t # g.right[v]
      BY <1>0, <3>2, <3>4, NullIsNone DEF Nth
    <3> QED
      BY <1>0, <1>9, <2>2, <3>2, <3>3, <3>5, <3>6
  <2> QED
    BY <2>1, <2>2
<1>14. Tree(c, n - 1, z)
  <2>1. n - 1 \in Nat
    BY <1>0
  <2> QED
    BY <2>1, <1>1, <1>9, <1>10, <1>11, <1>12, <1>13 DEF Tree
<1> QED
  BY <1>9, <1>14 DEF c, g, z

\* A node that is linked to nothing stays where it is.
LEMMA SiftIdle ==
  ASSUME NEW h \in Heaps, NEW key \in Keys, NEW v \in Timers,
         h.parent[v] = Null, h.left[v] = Null, h.right[v] = Null
  PROVE  SiftUp(SiftDown(h, key, v), key, v) = h
<1>0. h.nelts \in Nat
  BY DEF Heaps
<1>1. SwapUp(h, key, v) = h /\ SwapDown(h, key, v) = h
  BY DEF SwapUp, SwapDown
<1>2. SiftDown(h, key, v) = h
  <2>1. PICK f : /\ f[0] = h /\ SiftDown(h, key, v) = f[h.nelts]
                 /\ \A k \in 1 .. h.nelts : f[k] = SwapDown(f[k - 1], key, v)
    BY SiftDownIs
  <2> DEFINE S == {k \in Nat : k <= h.nelts => f[k] = h}
  <2>2. 0 \in S
    BY <2>1
  <2>3. ASSUME NEW k \in Nat, k \in S PROVE k + 1 \in S
    <3>1. k + 1 <= h.nelts => k + 1 \in 1 .. h.nelts /\ k + 1 - 1 = k /\ k <= h.nelts
      BY <1>0
    <3> QED
      BY <1>1, <2>1, <2>3, <3>1
  <2> HIDE DEF S
  <2>4. h.nelts \in S
    BY <1>0, <2>2, <2>3, FromZero
  <2> QED
    BY <1>0, <2>1, <2>4 DEF S
<1>3. SiftUp(h, key, v) = h
  <2>1. PICK f : /\ f[0] = h /\ SiftUp(h, key, v) = f[h.nelts]
                 /\ \A k \in 1 .. h.nelts : f[k] = SwapUp(f[k - 1], key, v)
    BY SiftUpIs
  <2> DEFINE S == {k \in Nat : k <= h.nelts => f[k] = h}
  <2>2. 0 \in S
    BY <2>1
  <2>3. ASSUME NEW k \in Nat, k \in S PROVE k + 1 \in S
    <3>1. k + 1 <= h.nelts => k + 1 \in 1 .. h.nelts /\ k + 1 - 1 = k /\ k <= h.nelts
      BY <1>0
    <3> QED
      BY <1>1, <2>1, <2>3, <3>1
  <2> HIDE DEF S
  <2>4. h.nelts \in S
    BY <1>0, <2>2, <2>3, FromZero
  <2> QED
    BY <1>0, <2>1, <2>4 DEF S
<1> QED
  BY <1>2, <1>3

\* heap_remove.
LEMMA RemoveHeap ==
  ASSUME NEW h, NEW key \in Keys, NEW S, HeapOf(h, key, S), NEW v, v \in S
  PROVE  /\ HeapOf(HeapRemove(h, key, v), key, S \ {v})
         /\ HeapRemove(h, key, v).nelts = h.nelts - 1
<1>1. PICK n, s : h \in Heaps /\ Tree(h, n, s) /\ Ordered(n, s, key) /\ Nodes(n, s) = S
  BY DEF HeapOf
<1>0. n \in Nat /\ h.nelts = n /\ Level1(n, s)
  BY <1>1 DEF Tree
<1>2. PICK j \in 1 .. n : v = s[j]
  BY <1>1 DEF Nodes
<1>3. CASE n = 1
  <2>1. j = 1 /\ v = s[1] /\ v \in Timers /\ h.root = v /\ S = {v} /\ h.nelts = 1
    BY <1>0, <1>1, <1>2, <1>3 DEF Tree, Nth, Nodes, Level1
  <2> DEFINE g == HeapRemove(h, key, v)
             e == [k \in 1 .. 0 |-> v]
  <2>2. g = [h EXCEPT !.nelts = 0, !.root = Null]
    BY <2>1 DEF HeapRemove
  <2> HIDE DEF g
  <2>3. /\ g \in Heaps /\ g.nelts = 0 /\ g.root = Null
        /\ g.parent = h.parent /\ g.left = h.left /\ g.right = h.right
    BY <1>1, <2>2 DEF Heaps, N0
  <2>4. h.parent[v] = Null /\ h.left[v] = Null /\ h.right[v] = Null
    BY <1>1, <1>3, <2>1 DEF Tree, Nth
  <2>5. \A t \in Timers : h.parent[t] = Null /\ h.left[t] = Null /\ h.right[t] = Null
    BY <1>1, <2>1, <2>4 DEF Tree
  <2>6. Tree(g, 0, e) /\ Ordered(0, e, key) /\ Nodes(0, e) = {}
    BY <2>3, <2>5 DEF Tree, Level1, Nth, Ordered, Nodes
  <2> QED
    BY <2>1, <2>3, <2>6 DEF HeapOf, g
<1>4. CASE n # 1
  <2>0. n > 1 /\ n - 1 \in Nat /\ n \in 1 .. n
    BY <1>0, <1>2, <1>4
  <2> DEFINE last == s[n]
             z == Without(n, s, j)
             c == Replaced(Cut(h), v, last)
  <2>1. HeapRemove(h, key, v) = SiftUp(SiftDown(c, key, last), key, last)
    <3>1. At(h, n) = s[n]
      BY <1>1, <2>0, AtIs
    <3> QED
      BY <1>0, <2>0, <3>1, RemoveIs
  <2>2. c \in Heaps /\ Tree(c, n - 1, z)
    BY <1>1, <1>2, <2>0, ReplacedTree
  <2>3. /\ Level1(n - 1, z) /\ Nodes(n - 1, z) = S \ {v} /\ (j # n => z[j] = last)
        /\ \A k \in 1 .. n - 1 : k # j => z[k] = s[k]
    BY <1>0, <1>1, <1>2, <2>0, WithoutOrder
  <2>4. last \in Timers /\ v \in Timers
    BY <1>0, <1>2, <2>0 DEF Level1
  <2> HIDE DEF c, z
  <2>5. \A k \in 1 .. n : \A m \in Under(k) : m <= n => m \in 1 .. n /\ key[s[k]] <= key[s[m]]
    BY <1>0, <1>1 DEF Ordered, Under
  <2>6. CASE j = n
    <3>1. c.parent[v] = Null /\ c.left[v] = Null /\ c.right[v] = Null
      BY <2>2, <2>3, <2>4 DEF Tree
    <3>2. HeapRemove(h, key, v) = c
      BY <1>2, <2>1, <2>2, <2>4, <2>6, <3>1, SiftIdle
    <3>3. Ordered(n - 1, z, key)
      <4> SUFFICES ASSUME NEW k \in 1 .. n - 1, NEW m \in Under(k), m <= n - 1
                   PROVE  key[z[k]] <= key[z[m]]
        BY DEF Ordered
      <4>1. k \in 1 .. n /\ k # j /\ m <= n /\ m \in 1 .. n - 1 /\ m # j
        BY <2>0, <2>6 DEF Under
      <4> QED
        BY <2>3, <2>5, <4>1
    <3>4. c.nelts = n - 1
      BY <2>2 DEF Tree
    <3> QED
      BY <1>0, <2>2, <2>3, <3>2, <3>3, <3>4 DEF HeapOf
  <2>7. CASE j # n
    <3>0. j \in 1 .. n - 1
      BY <2>0, <2>7
    <3>1. Around(n - 1, z, key, j)
      <4> SUFFICES ASSUME NEW k \in 1 .. n - 1, NEW m \in Under(k), m <= n - 1
                   PROVE  /\ k # j /\ m # j => key[z[k]] <= key[z[m]]
                          /\ m = j => \A l \in Under(j) : l <= n - 1 => key[z[k]] <= key[z[l]]
        BY DEF Around
      <4>1. k \in 1 .. n /\ m <= n /\ m \in 1 .. n - 1 /\ k # m
        BY <2>0 DEF Under
      <4>2. k # j /\ m # j => key[z[k]] <= key[z[m]]
        BY <2>3, <2>5, <4>1
      <4>3. ASSUME m = j, NEW l \in Under(j), l <= n - 1 PROVE key[z[k]] <= key[z[l]]
        <5>1. l \in 1 .. n - 1 /\ l # j /\ l <= n
          BY <2>0, <4>3 DEF Under
        <5>2. key[s[k]] <= key[s[j]] /\ key[s[j]] <= key[s[l]]
          BY <2>5, <4>1, <4>3, <5>1
        <5>3. s[k] \in Timers /\ s[j] \in Timers /\ s[l] \in Timers
          BY <1>0, <4>1, <5>1 DEF Level1
        <5>4. key[s[k]] \in Int /\ key[s[j]] \in Int /\ key[s[l]] \in Int
          BY <5>3 DEF Keys
        <5> QED
          BY <2>3, <4>1, <4>3, <5>1, <5>2, <5>4
      <4> QED
        BY <4>2, <4>3
    <3>2. Sifting(c, n - 1, z, key, S \ {v}, last, j)
      BY <2>2, <2>3, <2>7, <3>0, <3>1 DEF Sifting
    <3> DEFINE g == SiftUp(SiftDown(c, key, last), key, last)
    <3>3. g \in Heaps /\ \E y : Tree(g, n - 1, y) /\ Nodes(n - 1, y) = S \ {v} /\ Ordered(n - 1, y, key)
      <4> DEFINE rest == S \ {v}
      <4>1. Sifting(c, n - 1, z, key, rest, last, j)
        BY <3>2
      <4> HIDE DEF rest
      <4>2. g \in Heaps /\ \E y : Tree(g, n - 1, y) /\ Nodes(n - 1, y) = rest /\ Ordered(n - 1, y, key)
        BY <4>1, SiftedBoth
      <4> QED
        BY <4>2 DEF rest
    <3> HIDE DEF g
    <3>4. g.nelts = n - 1
      BY <3>3 DEF Tree
    <3> QED
      BY <1>0, <2>1, <3>3, <3>4 DEF HeapOf, g
  <2> QED
    BY <2>6, <2>7
<1> QED
  BY <1>3, <1>4

\* The keys of other timers do not matter.
LEMMA KeysOutside ==
  ASSUME NEW h, NEW old, NEW key, NEW S, HeapOf(h, old, S), \A t \in S : key[t] = old[t]
  PROVE  HeapOf(h, key, S)
<1>1. PICK n, s : h \in Heaps /\ Tree(h, n, s) /\ Ordered(n, s, old) /\ Nodes(n, s) = S
  BY DEF HeapOf
<1>2. n \in Nat
  BY <1>1 DEF Tree
<1>3. ASSUME NEW k \in 1 .. n, NEW m \in Under(k), m <= n PROVE key[s[k]] <= key[s[m]]
  <2>1. m \in 1 .. n
    BY <1>2, <1>3 DEF Under
  <2>2. s[k] \in S /\ s[m] \in S
    BY <1>1, <2>1 DEF Nodes
  <2> QED
    BY <1>1, <1>3, <2>2 DEF Ordered
<1> QED
  BY <1>1, <1>3 DEF HeapOf, Ordered

\* What is in a heap, and at its root.
LEMMA HeapContents ==
  ASSUME NEW h, NEW key, NEW S, HeapOf(h, key, S)
  PROVE  /\ IsHeap(h, key) /\ Members(h) = S /\ S \subseteq Timers
         /\ h.nelts \in Nat /\ h.root \in S \cup {Null}
<1>1. PICK n, s : h \in Heaps /\ Tree(h, n, s) /\ Ordered(n, s, key) /\ Nodes(n, s) = S
  BY DEF HeapOf
<1>2. IsHeap(h, key) /\ Members(h) = S
  BY <1>1, TreeIsHeap
<1>3. n \in Nat /\ h.nelts = n /\ S \subseteq Timers
  BY <1>1 DEF Tree, Level1, Nodes
<1>4. h.root \in S \cup {Null}
  BY <1>1, <1>3 DEF Tree, Nth, Nodes
<1> QED
  BY <1>2, <1>3, <1>4

\* The heap of a new loop.
\* The root of a heap is its earliest timer.
LEMMA RootIsEarliest ==
  ASSUME NEW h, NEW key \in Keys, NEW S, HeapOf(h, key, S), NEW t \in S
  PROVE  h.root \in S /\ key[h.root] <= key[t]
<1>1. PICK n, s : Tree(h, n, s) /\ Ordered(n, s, key) /\ Nodes(n, s) = S
  BY DEF HeapOf
<1>2. n \in Nat /\ s \in [1 .. n -> Timers] /\ h.root = Nth(s, n, 1)
  BY <1>1 DEF Tree, Level1
<1>3. PICK j \in 1 .. n : t = s[j]
  BY <1>1 DEF Nodes
<1>4. 1 \in 1 .. n /\ h.root = s[1] /\ s[1] \in S
  BY <1>1, <1>2, <1>3 DEF Nth, Nodes
<1>5. \A k \in 1 .. n : key[s[k]] \in Int
  BY <1>2 DEF Keys
<1> DEFINE D == {m \in Nat : \A k \in 1 .. m : k <= n => key[s[1]] <= key[s[k]]}
<1>6. 0 \in D
  OBVIOUS
<1>7. ASSUME NEW m \in Nat, m \in D
      PROVE  m + 1 \in D
  <2> SUFFICES ASSUME NEW k \in 1 .. m + 1, k <= n
               PROVE  key[s[1]] <= key[s[k]]
    OBVIOUS
  <2>1. CASE k <= m
    BY <1>7, <2>1
  <2>2. CASE k = 1
    BY <1>4, <1>5, <2>2
  <2>3. CASE k = m + 1 /\ k > 1
    <3>1. PICK i \in 1 .. k - 1 : k \in Under(i)
      BY <2>3, PlaceAbove
    <3>2. i \in 1 .. m /\ i \in 1 .. n /\ i <= n /\ k \in 1 .. n
      BY <1>2, <2>3, <3>1
    <3>3. key[s[1]] <= key[s[i]]
      BY <1>7, <3>2
    <3>4. key[s[i]] <= key[s[k]]
      BY <1>1, <3>1, <3>2 DEF Ordered
    <3> QED
      BY <1>4, <1>5, <3>2, <3>3, <3>4
  <2> QED
    BY <2>1, <2>2, <2>3
<1> HIDE DEF D
<1>8. \A m \in Nat : m \in D
  BY <1>6, <1>7, FromZero
<1>9. n \in D
  BY <1>2, <1>8
<1>10. key[s[1]] <= key[s[j]]
  BY <1>3, <1>9 DEF D
<1> QED
  BY <1>3, <1>4, <1>10

LEMMA EmptyHeapOf ==
  ASSUME NEW key
  PROVE  HeapOf(EmptyHeap(Timers), key, {}) /\ EmptyHeap(Timers).nelts = 0
<1> DEFINE h == EmptyHeap(Timers)
           e == [k \in 1 .. 0 |-> Null]
<1>1. h \in Heaps /\ h.nelts = 0
  BY DEF EmptyHeap, Heaps, N0
<1>2. Tree(h, 0, e) /\ Ordered(0, e, key) /\ Nodes(0, e) = {}
  BY DEF EmptyHeap, Tree, Level1, Nth, Ordered, Nodes
<1> QED
  BY <1>1, <1>2 DEF HeapOf

-----------------------------------------------------------------------------
\* The timers that are waiting.
Live == {t \in Timers : status[t] = "active" /\ ~ timer[t].destroy}
TimerSet == [repeat : 0 .. Infinite, timeout : Nat \ {0}, destroy : BOOLEAN]
States == {"new", "active", "inactive", "freed"}
LoopStates == {"turn", "timers", "pendings-timers", "pendings-ios", "callback-timers",
               "callback-ios", "crashed"}

TimerTypes ==
    /\ status \in [Events -> States] /\ timer \in [Timers -> TimerSet]
    /\ next_timeout \in Keys /\ now \in 0 .. MaxTime /\ resets \in Nat

ListTypes ==
    /\ pending \subseteq Events /\ head \in [Levels -> Events \cup {Null}]
    /\ pending_next \in [Events -> Events \cup {Null}]
    /\ cur \in Events \cup {Null} /\ next \in Events \cup {Null}
    /\ loop \in LoopStates /\ unlinked \subseteq Timers

HeapHolds == HeapOf(heap, next_timeout, Live) /\ ntimers = heap.nelts

\* Which events are pending, and what became of deleted timers.
Lives ==
    /\ \A ev \in pending : status[ev] \in {"active", "inactive"}
    /\ \A ev \in Ios : status[ev] = "active"
    /\ \A t \in Timers : t \in deleted => status[t] \in {"inactive", "freed"}
    /\ \A t \in Timers : status[t] = "inactive" => t \in deleted

\* A list of events: n of them, from p along pn.
Chain(p, pn, n, s) ==
    /\ n \in Nat /\ s \in [1 .. n -> Events] /\ \A i, j \in 1 .. n : s[i] = s[j] => i = j
    /\ p = Nth(s, n, 1) /\ \A k \in 1 .. n : pn[s[k]] = Nth(s, n, k + 1)
ListOf(p, pn, S) == \E n, s : Chain(p, pn, n, s) /\ Nodes(n, s) = S
OfLevel(level) == IF level = "timers" THEN Timers ELSE Ios

\* A list to be processed; one that is being processed.  What was reset in it is
\* in it still.
Whole(level) == ListOf(head[level], pending_next, pending \cap OfLevel(level))
Rest(level) ==
    \E S : /\ ListOf(cur, pending_next, S) /\ S \subseteq OfLevel(level)
           /\ pending \cap OfLevel(level) \subseteq S /\ S \subseteq pending \cup unlinked
Chains ==
    /\ loop \in {"turn", "timers"} => Whole("timers") /\ Whole("ios")
    /\ loop \in {"pendings-timers", "callback-timers"} => Rest("timers") /\ Whole("ios")
    /\ loop \in {"pendings-ios", "callback-ios"} =>
           pending \cap Timers = {} /\ head["timers"] = Null /\ Rest("ios")
    /\ loop \in {"callback-timers", "callback-ios"} => cur # Null /\ next = pending_next[cur]

Crashes == loop = "crashed" => cur \in unlinked

\* Without resets, a timer that has fired is on its way to being freed.
OneShots ==
    /\ \A t \in Timers : status[t] = "new" => t \notin fired
    /\ resets = 0 =>
           \A t \in Timers :
               status[t] \in {"active", "inactive"} /\ timer[t].repeat # Infinite =>
                   /\ t \in pending => timer[t].destroy
                   /\ t \in fired => loop = "callback-timers" /\ cur = t /\ t \in pending

Posted ==
    /\ locked \in BOOLEAN /\ posts \in 0 .. MaxPosts
    /\ custom \in Seq(Nat) /\ handled \in Seq(Nat)
    /\ \A i \in 1 .. Len(handled) : handled[i] = i
    /\ \A i \in 1 .. Len(custom) : custom[i] = Len(handled) + i
    /\ posts = Len(handled) + Len(custom) + (IF locked THEN 1 ELSE 0)
    /\ bytes = Len(custom) + (IF locked THEN 1 ELSE 0)

IInv ==
    /\ TimerTypes /\ ListTypes /\ HeapHolds /\ Lives /\ Chains /\ Crashes /\ OneShots /\ Posted
-----------------------------------------------------------------------------
LEMMA EventFacts ==
    /\ Timers \cap Ios = {} /\ Null \notin Events /\ Events = Timers \cup Ios
    /\ Pair \in Ios /\ \A ev \in Events : ev \in OfLevel(Level(ev))
    /\ \A ev \in Events : (Level(ev) = "timers" <=> ev \in Timers) /\ Level(ev) \in Levels
    /\ \A ev \in Ios : Level(ev) = "ios"
BY HloopAssumption DEF Events, Timers, Ios, Pair, Sock, Null, OfLevel, Level, Levels

\* The times of the timers.
LEMMA LaterIsTime ==
  ASSUME TimerTypes, NEW t \in Timers
  PROVE  Later(t) \in Int
<1>1. now \in Int /\ timer[t].timeout \in Nat \ {0} /\ next_timeout[t] \in Int
  BY DEF TimerTypes, TimerSet, Keys
<1> DEFINE d == now - next_timeout[t]
           w == timer[t].timeout
<1>2. d \in Int /\ w \in Nat \ {0}
  BY <1>1
<1> HIDE DEF d, w
<1>3. d % w \in Int
  BY <1>2
<1> QED
  BY <1>1, <1>2, <1>3 DEF Later, d, w

\* What the root of the heap is, when it is due.
LEMMA RootIsLive ==
  ASSUME HeapHolds, Due
  PROVE  heap.root \in Live /\ heap.root \in Timers
<1>1. heap.root \in Live \cup {Null} /\ Live \subseteq Timers
  BY HeapContents DEF HeapHolds
<1> QED
  BY <1>1 DEF Due

LEMMA InitTimers ==
  ASSUME Init
  PROVE  TimerTypes /\ HeapHolds
<1>1. TimerTypes
  BY HloopAssumption DEF Init, TimerTypes, States, TimerSet, NewTimer, Keys, Infinite
<1>2. Live = {}
  <2>1. \A t \in Timers : status[t] = "new"
    BY EventFacts DEF Init
  <2> QED
    BY <2>1 DEF Live
<1>3. heap = EmptyHeap(Timers) /\ ntimers = 0
  BY DEF Init
<1> QED
  BY <1>1, <1>2, <1>3, EmptyHeapOf DEF HeapHolds

\* The stores into a timer.
Stored(g, f, t, n, b) ==
    /\ g \in [Timers -> TimerSet] /\ g[t].repeat = n /\ g[t].destroy = b
    /\ \A u \in Timers : u # t => g[u] = f[u]

LEMMA TimerStores ==
  ASSUME NEW f \in [Timers -> TimerSet], NEW t \in Timers, NEW g, NEW b \in BOOLEAN,
         NEW n \in 0 .. Infinite,
         \/ g = [f EXCEPT ![t].repeat = n, ![t].destroy = b]
         \/ g = [f EXCEPT ![t].destroy = b, ![t].repeat = n]
         \/ g = [f EXCEPT ![t].destroy = b] /\ n = f[t].repeat
  PROVE  Stored(g, f, t, n, b)
<1>1. CASE g = [f EXCEPT ![t].repeat = n, ![t].destroy = b]
  BY <1>1 DEF TimerSet, Stored
<1>2. CASE g = [f EXCEPT ![t].destroy = b, ![t].repeat = n]
  BY <1>2 DEF TimerSet, Stored
<1>3. CASE g = [f EXCEPT ![t].destroy = b] /\ n = f[t].repeat
  BY <1>3 DEF TimerSet, Stored
<1> QED
  BY <1>1, <1>2, <1>3

\* One timer more in the heap, or one less; the states of the others stay.
LEMMA TimerInserted ==
  ASSUME TimerTypes, NEW t \in Timers, NEW h, NEW S, S \subseteq Timers, t \notin S,
         HeapOf(h, next_timeout, S), NEW time \in Int,
         next_timeout' = [next_timeout EXCEPT ![t] = time],
         heap' = HeapInsert(h, [next_timeout EXCEPT ![t] = time], t),
         ntimers' = h.nelts + 1, Live' = S \cup {t}
  PROVE  HeapHolds' /\ next_timeout' \in Keys
<1> DEFINE keys == [next_timeout EXCEPT ![t] = time]
<1>1. keys \in Keys /\ \A u \in S : keys[u] = next_timeout[u]
  BY DEF TimerTypes, Keys
<1> HIDE DEF keys
<1>2. HeapOf(HeapInsert(h, keys, t), keys, S \cup {t}) /\ HeapInsert(h, keys, t).nelts = h.nelts + 1
  BY <1>1, InsertHeap
<1> QED
  BY <1>1, <1>2 DEF HeapHolds, keys

LEMMA ProcessTimerTimers ==
  ASSUME TimerTypes, ListTypes, HeapHolds, ProcessTimer
  PROVE  TimerTypes' /\ HeapHolds'
<1> DEFINE t == heap.root
           removed == HeapRemove(heap, next_timeout, t)
<1>1. /\ Due /\ status' = status /\ now' = now /\ resets' = resets
      /\ IF timer[t].repeat = Infinite
         THEN /\ next_timeout' = [next_timeout EXCEPT ![t] = Later(t)]
              /\ heap' = HeapInsert(removed, [next_timeout EXCEPT ![t] = Later(t)], t)
              /\ timer' = timer /\ ntimers' = ntimers
         ELSE /\ heap' = removed /\ ntimers' = ntimers - 1
              /\ timer' = [timer EXCEPT ![t].repeat = 0, ![t].destroy = TRUE]
              /\ next_timeout' = next_timeout
  BY Zenon DEF ProcessTimer, history
<1>2. t \in Live /\ t \in Timers
  BY <1>1, RootIsLive
<1>3. HeapOf(removed, next_timeout, Live \ {t}) /\ removed.nelts = heap.nelts - 1
  <2>1. next_timeout \in Keys
    BY DEF TimerTypes
  <2> QED
    BY <1>2, <2>1, RemoveHeap DEF HeapHolds
<1>4. heap.nelts \in Nat /\ Live \subseteq Timers /\ ntimers = heap.nelts
  BY HeapContents DEF HeapHolds
<1> HIDE DEF t, removed
<1>5. CASE timer[t].repeat = Infinite
  <2>1. Live' = (Live \ {t}) \cup {t}
    BY <1>1, <1>2, <1>5 DEF Live
  <2>2. Later(t) \in Int
    BY <1>2, LaterIsTime
  <2>3. ntimers' = removed.nelts + 1
    BY <1>1, <1>3, <1>4, <1>5
  <2> DEFINE S == Live \ {t}
  <2>4. S \subseteq Timers /\ t \notin S /\ HeapOf(removed, next_timeout, S) /\ Live' = S \cup {t}
    BY <1>3, <1>4, <2>1
  <2> HIDE DEF S
  <2>5. HeapHolds' /\ next_timeout' \in Keys
    BY <1>1, <1>2, <1>5, <2>2, <2>3, <2>4, TimerInserted
  <2> QED
    BY <1>1, <1>5, <2>5 DEF TimerTypes
<1>6. CASE timer[t].repeat # Infinite
  <2>1. /\ timer' = [timer EXCEPT ![t].repeat = 0, ![t].destroy = TRUE]
        /\ heap' = removed /\ ntimers' = ntimers - 1 /\ next_timeout' = next_timeout
    BY <1>1, <1>6
  <2>2. /\ timer' \in [Timers -> TimerSet] /\ timer'[t].destroy
        /\ \A u \in Timers : u # t => timer'[u] = timer[u]
    <3>1. timer \in [Timers -> TimerSet] /\ 0 \in 0 .. Infinite
      BY DEF TimerTypes, Infinite
    <3> DEFINE z == 0
               b == TRUE
    <3>2. z \in 0 .. Infinite /\ b \in BOOLEAN
      BY <3>1
    <3>3. timer' = [timer EXCEPT ![t].repeat = z, ![t].destroy = b]
      BY <2>1
    <3> HIDE DEF z, b
    <3>4. Stored(timer', timer, t, z, b)
      BY <1>2, <3>1, <3>2, <3>3, TimerStores, Zenon
    <3> QED
      BY <3>4 DEF b, Stored
  <2>3. Live' = Live \ {t}
    BY <1>1, <2>2 DEF Live
  <2> QED
    BY <1>1, <1>3, <1>4, <2>1, <2>2, <2>3 DEF TimerTypes, HeapHolds
<1> QED
  BY <1>5, <1>6

\* The bit is cleared, and the timer freed if it is destroyed.
LEMMA LeaveTimers ==
  ASSUME TimerTypes, ListTypes, HeapHolds, NEW level, NEW nxt, Leave(level, nxt),
         UNCHANGED <<heap, ntimers, now, resets>>
  PROVE  TimerTypes' /\ HeapHolds'
<1>1. CASE cur \in pending \cap Timers /\ timer[cur].destroy
  <2>1. /\ status' = [status EXCEPT ![cur] = "freed"] /\ timer' = [timer EXCEPT ![cur] = NewTimer]
        /\ next_timeout' = [next_timeout EXCEPT ![cur] = 0] /\ cur \in Timers /\ cur \in Events
    BY <1>1, EventFacts DEF Leave, Free
  <2>2. TimerTypes'
    <3>1. NewTimer \in TimerSet
      BY DEF NewTimer, TimerSet, Infinite
    <3> QED
      BY <2>1, <3>1 DEF TimerTypes, States, Keys
  <2>3. cur \notin Live /\ Live' = Live
    <3>1. status'[cur] = "freed"
      BY <2>1 DEF TimerTypes
    <3>2. \A u \in Timers : u # cur => status'[u] = status[u] /\ timer'[u] = timer[u]
      BY <2>1, EventFacts DEF TimerTypes
    <3> QED
      BY <1>1, <2>1, <3>1, <3>2 DEF Live
  <2>4. \A u \in Live : next_timeout'[u] = next_timeout[u]
    BY <2>1, <2>3 DEF TimerTypes, Keys, Live
  <2> DEFINE S == Live
             keys == next_timeout'
  <2>5. HeapOf(heap, next_timeout, S) /\ \A u \in S : keys[u] = next_timeout[u]
    BY <2>4 DEF HeapHolds
  <2> HIDE DEF S, keys
  <2>6. HeapOf(heap, keys, S)
    BY <2>5, KeysOutside
  <2> QED
    BY <2>2, <2>3, <2>6 DEF HeapHolds, S, keys
<1>2. CASE ~ (cur \in pending \cap Timers /\ timer[cur].destroy)
  <2>1. status' = status /\ timer' = timer /\ next_timeout' = next_timeout
    BY <1>2 DEF Leave
  <2> QED
    BY <2>1 DEF TimerTypes, HeapHolds, Live
<1> QED
  BY <1>1, <1>2

\* htimer_add.
LEMMA AddTimers ==
  ASSUME TimerTypes, HeapHolds, NEW t \in Timers, NEW kind \in Kinds, Add(t, kind[1], kind[2])
  PROVE  TimerTypes' /\ HeapHolds'
<1>1. /\ status[t] = "new" /\ status' = [status EXCEPT ![t] = "active"]
      /\ next_timeout' = [next_timeout EXCEPT ![t] = now + kind[1]]
      /\ heap' = HeapInsert(heap, [next_timeout EXCEPT ![t] = now + kind[1]], t)
      /\ timer' = [timer EXCEPT ![t] = [repeat |-> kind[2], timeout |-> kind[1], destroy |-> FALSE]]
      /\ ntimers' = ntimers + 1 /\ now' = now /\ resets' = resets
  BY DEF Add, history
<1>2. kind[1] \in Nat \ {0} /\ kind[2] \in 0 .. Infinite
  BY HloopAssumption DEF Infinite
<1>3. [repeat |-> kind[2], timeout |-> kind[1], destroy |-> FALSE] \in TimerSet
  BY <1>2 DEF TimerSet
<1>4. /\ timer' \in [Timers -> TimerSet] /\ ~ timer'[t].destroy
      /\ \A u \in Timers : u # t => timer'[u] = timer[u]
  BY <1>1, <1>3 DEF TimerTypes
<1>5. t \in Events /\ status' \in [Events -> States] /\ status'[t] = "active"
      /\ \A u \in Timers : u # t => status'[u] = status[u]
  BY <1>1, EventFacts DEF TimerTypes, States
<1>6. t \notin Live /\ Live \subseteq Timers /\ Live' = Live \cup {t}
  BY <1>1, <1>4, <1>5 DEF Live
<1>7. now + kind[1] \in Int /\ ntimers' = heap.nelts + 1
  BY <1>1, <1>2 DEF TimerTypes, HeapHolds
<1>8. HeapHolds' /\ next_timeout' \in Keys
  <2> DEFINE S == Live
             time == now + kind[1]
  <2>1. /\ S \subseteq Timers /\ t \notin S /\ HeapOf(heap, next_timeout, S) /\ time \in Int
        /\ next_timeout' = [next_timeout EXCEPT ![t] = time]
        /\ heap' = HeapInsert(heap, [next_timeout EXCEPT ![t] = time], t)
        /\ Live' = S \cup {t}
    BY <1>1, <1>6, <1>7 DEF HeapHolds
  <2> HIDE DEF S, time
  <2> QED
    BY <1>7, <2>1, TimerInserted
<1> QED
  BY <1>1, <1>4, <1>5, <1>8 DEF TimerTypes

\* htimer_del.
LEMMA DelTimers ==
  ASSUME TimerTypes, ListTypes, HeapHolds, NEW t \in Timers, Del(t)
  PROVE  TimerTypes' /\ HeapHolds'
<1> DEFINE waits == status[t] = "active" /\ ~ timer[t].destroy
<1>1. /\ now' = now /\ resets' = resets
      /\ IF waits
         THEN heap' = HeapRemove(heap, next_timeout, t) /\ ntimers' = ntimers - 1
         ELSE heap' = heap /\ ntimers' = ntimers
      /\ \/ status[t] # "active" /\ status' = status /\ timer' = timer /\ next_timeout' = next_timeout
         \/ status[t] = "active" /\ Free(t)
         \/ /\ status[t] = "active" /\ status' = [status EXCEPT ![t] = "inactive"]
            /\ timer' = [timer EXCEPT ![t].destroy = TRUE] /\ next_timeout' = next_timeout
  BY DEF Del
<1>2. /\ status' \in [Events -> States] /\ timer' \in [Timers -> TimerSet] /\ next_timeout' \in Keys
      /\ \A u \in Timers : u # t => /\ status'[u] = status[u] /\ timer'[u] = timer[u]
                                    /\ next_timeout'[u] = next_timeout[u]
      /\ status'[t] # "active"
  <2>0. t \in Events /\ NewTimer \in TimerSet
    BY EventFacts DEF NewTimer, TimerSet, Infinite
  <2>1. CASE status[t] # "active" /\ status' = status /\ timer' = timer /\ next_timeout' = next_timeout
    BY <2>1 DEF TimerTypes
  <2>2. CASE Free(t)
    BY <2>0, <2>2 DEF Free, TimerTypes, States, Keys
  <2>3. CASE /\ status' = [status EXCEPT ![t] = "inactive"]
             /\ timer' = [timer EXCEPT ![t].destroy = TRUE] /\ next_timeout' = next_timeout
    <3> DEFINE b == TRUE
               n == timer[t].repeat
    <3>1. timer \in [Timers -> TimerSet] /\ b \in BOOLEAN /\ n \in 0 .. Infinite
      BY DEF TimerTypes, TimerSet
    <3>2. timer' = [timer EXCEPT ![t].destroy = b] /\ n = timer[t].repeat
      BY <2>3
    <3> HIDE DEF n, b
    <3>3. Stored(timer', timer, t, n, b)
      BY <3>1, <3>2, TimerStores, Zenon
    <3> QED
      BY <2>0, <2>3, <3>3 DEF TimerTypes, States, Stored
  <2> QED
    BY <1>1, <2>1, <2>2, <2>3
<1>3. Live' = Live \ {t} /\ (waits <=> t \in Live) /\ Live \subseteq Timers
  BY <1>2 DEF Live
<1> DEFINE S == Live \ {t}
<1>4. HeapOf(heap', next_timeout, S) /\ ntimers' = heap'.nelts
  <2>0. heap.nelts \in Nat /\ next_timeout \in Keys
    BY HeapContents DEF HeapHolds, TimerTypes
  <2>1. CASE waits
    <3>1. t \in Live /\ heap' = HeapRemove(heap, next_timeout, t) /\ ntimers' = ntimers - 1
      BY <1>1, <1>3, <2>1
    <3>2. /\ HeapOf(HeapRemove(heap, next_timeout, t), next_timeout, Live \ {t})
          /\ HeapRemove(heap, next_timeout, t).nelts = heap.nelts - 1
      BY <2>0, <3>1, RemoveHeap DEF HeapHolds
    <3> QED
      BY <3>1, <3>2 DEF HeapHolds
  <2>2. CASE ~ waits
    <3>1. S = Live /\ heap' = heap /\ ntimers' = ntimers
      BY <1>1, <1>3, <2>2
    <3> QED
      BY <3>1 DEF HeapHolds
  <2> QED
    BY <2>1, <2>2
<1>5. \A u \in S : next_timeout'[u] = next_timeout[u]
  BY <1>2, <1>3
<1>6. HeapOf(heap', next_timeout', S)
  <2> DEFINE keys == next_timeout'
  <2>1. \A u \in S : keys[u] = next_timeout[u]
    BY <1>5
  <2> HIDE DEF S, keys
  <2>2. HeapOf(heap', keys, S)
    BY <1>4, <2>1, KeysOutside
  <2> QED
    BY <2>2 DEF keys
<1> QED
  BY <1>1, <1>2, <1>3, <1>4, <1>6 DEF TimerTypes, HeapHolds

\* htimer_reset.
LEMMA ResetTimers ==
  ASSUME TimerTypes, ListTypes, HeapHolds, Lives, NEW t \in Timers, Reset(t)
  PROVE  TimerTypes' /\ HeapHolds'
<1> DEFINE time == now + timer[t].timeout
           removed == IF timer[t].destroy THEN heap ELSE HeapRemove(heap, next_timeout, t)
           S == Live \ {t}
<1>1. /\ Usable(t) /\ now' = now /\ resets' = resets + 1
      /\ next_timeout' = [next_timeout EXCEPT ![t] = time]
      /\ heap' = HeapInsert(removed, [next_timeout EXCEPT ![t] = time], t)
      /\ ntimers' = IF timer[t].destroy THEN ntimers + 1 ELSE ntimers
      /\ timer' = [timer EXCEPT ![t].destroy = FALSE, ![t].repeat = IF @ = 0 THEN 1 ELSE @]
      /\ status' = [status EXCEPT ![t] = "active"]
  BY DEF Reset
<1>2. timer[t].destroy <=> t \notin Live
  <2>1. status[t] = "active"
    BY <1>1 DEF Usable, Lives
  <2> QED
    BY <2>1 DEF Live
<1>3. timer' \in [Timers -> TimerSet] /\ ~ timer'[t].destroy
      /\ \A u \in Timers : u # t => timer'[u] = timer[u]
  <2> DEFINE b == FALSE
             n == IF timer[t].repeat = 0 THEN 1 ELSE timer[t].repeat
  <2>1. timer \in [Timers -> TimerSet] /\ b \in BOOLEAN /\ n \in 0 .. Infinite
    BY DEF TimerTypes, TimerSet, Infinite
  <2>2. timer' = [timer EXCEPT ![t].destroy = b, ![t].repeat = n]
    BY <1>1, <2>1
  <2> HIDE DEF n, b
  <2>3. Stored(timer', timer, t, n, b)
    BY <2>1, <2>2, TimerStores, Zenon
  <2> QED
    BY <2>3 DEF Stored, b
<1>4. t \in Events /\ status' \in [Events -> States] /\ status'[t] = "active"
      /\ \A u \in Timers : u # t => status'[u] = status[u]
  BY <1>1, EventFacts DEF TimerTypes, States
<1>5. Live' = S \cup {t} /\ S \subseteq Timers /\ t \notin S
  BY <1>3, <1>4 DEF Live
<1>6. HeapOf(removed, next_timeout, S) /\ ntimers' = removed.nelts + 1
  <2>0. heap.nelts \in Nat /\ next_timeout \in Keys
    BY HeapContents DEF HeapHolds, TimerTypes
  <2>1. CASE timer[t].destroy
    <3>1. S = Live /\ removed = heap /\ ntimers' = ntimers + 1
      BY <1>1, <1>2, <2>1
    <3> QED
      BY <3>1 DEF HeapHolds
  <2>2. CASE ~ timer[t].destroy
    <3>1. t \in Live /\ removed = HeapRemove(heap, next_timeout, t) /\ ntimers' = ntimers
      BY <1>1, <1>2, <2>2
    <3>2. /\ HeapOf(HeapRemove(heap, next_timeout, t), next_timeout, Live \ {t})
          /\ HeapRemove(heap, next_timeout, t).nelts = heap.nelts - 1
      BY <2>0, <3>1, RemoveHeap DEF HeapHolds
    <3> QED
      BY <2>0, <3>1, <3>2 DEF HeapHolds
  <2> QED
    BY <2>1, <2>2
<1>7. time \in Int
  BY DEF TimerTypes, TimerSet
<1> HIDE DEF time, removed, S
<1>8. HeapHolds' /\ next_timeout' \in Keys
  BY <1>1, <1>5, <1>6, <1>7, TimerInserted
<1> QED
  BY <1>1, <1>3, <1>4, <1>8 DEF TimerTypes

\* No other action changes a timer.
LEMMA StepTimers ==
  ASSUME TimerTypes, ListTypes, HeapHolds, Lives, [Next]_vars
  PROVE  TimerTypes' /\ HeapHolds'
<1>1. ASSUME UNCHANGED <<timerState, status, resets>>, now' \in 0 .. MaxTime
      PROVE  TimerTypes' /\ HeapHolds'
  <2>1. /\ heap' = heap /\ next_timeout' = next_timeout /\ timer' = timer /\ ntimers' = ntimers
        /\ status' = status /\ resets' = resets
    BY <1>1 DEF timerState
  <2> QED
    BY <1>1, <2>1 DEF TimerTypes, HeapHolds, Live
<1>0. now \in 0 .. MaxTime
  BY DEF TimerTypes
<1>2. ASSUME NEW first, NEW second, NEW time \in now .. MaxTime, Poll(first, second, time)
      PROVE  TimerTypes' /\ HeapHolds'
  <2>1. now' \in 0 .. MaxTime /\ UNCHANGED <<timerState, status, resets>>
    BY <1>0, <1>2, HloopAssumption DEF Poll, history
  <2> QED
    BY <1>1, <2>1
<1>3. CASE ProcessTimer
  BY <1>3, ProcessTimerTimers
<1>4. CASE TimersDone \/ ReadsFreed
  BY <1>0, <1>1, <1>4 DEF TimersDone, ReadsFreed, history
<1>5. ASSUME NEW level \in Levels, Visit(level) \/ ListDone(level)
      PROVE  TimerTypes' /\ HeapHolds'
  <2>1. CASE Visit(level)
    BY <1>0, <1>1, <2>1 DEF Visit
  <2>2. CASE ListDone(level)
    BY <1>0, <1>1, <2>2 DEF ListDone, history
  <2> QED
    BY <1>5, <2>1, <2>2
<1>6. ASSUME NEW level \in Levels, Pass(level) \/ Return(level)
      PROVE  TimerTypes' /\ HeapHolds'
  <2>1. CASE Pass(level)
    BY <2>1, LeaveTimers DEF Pass, history
  <2>2. CASE Return(level)
    BY <2>2, LeaveTimers DEF Return, history
  <2> QED
    BY <1>6, <2>1, <2>2
<1>7. CASE HandlePost
  BY <1>0, <1>1, <1>7 DEF HandlePost, history
<1>8. CASE Use
  BY <1>8, AddTimers, DelTimers, ResetTimers DEF Use
<1>9. CASE PostByte \/ PostPush
  BY <1>0, <1>1, <1>9 DEF PostByte, PostPush, history
<1>10. CASE UNCHANGED vars
  BY <1>0, <1>1, <1>10 DEF vars, timerState, history
<1> QED
  BY <1>2, <1>3, <1>4, <1>5, <1>6, <1>7, <1>8, <1>9, <1>10 DEF Next, Turn

-----------------------------------------------------------------------------
\* Lists: the empty one, the first event of one, and what is behind it.
LEMMA ListEmpty ==
  ASSUME NEW pn
  PROVE  ListOf(Null, pn, {})
<1> DEFINE e == [k \in 1 .. 0 |-> Null]
<1>1. Chain(Null, pn, 0, e) /\ Nodes(0, e) = {}
  BY DEF Chain, Nth, Nodes
<1> QED
  BY <1>1 DEF ListOf

LEMMA ListFirst ==
  ASSUME NEW p, NEW pn, NEW S, ListOf(p, pn, S)
  PROVE  S \subseteq Events /\ (p = Null => S = {}) /\ (p # Null => p \in S)
<1>1. PICK n, s : Chain(p, pn, n, s) /\ Nodes(n, s) = S
  BY DEF ListOf
<1>2. n \in Nat /\ \A k \in 1 .. n : s[k] \in Events /\ s[k] # Null
  BY <1>1, EventFacts DEF Chain
<1>3. p = Null => n = 0
  BY <1>1, <1>2 DEF Chain, Nth
<1>4. p # Null => p = s[1] /\ 1 \in 1 .. n
  BY <1>1, <1>2 DEF Chain, Nth
<1> QED
  BY <1>1, <1>2, <1>3, <1>4 DEF Nodes

LEMMA ListRest ==
  ASSUME NEW p, NEW pn, NEW S, ListOf(p, pn, S), p # Null
  PROVE  ListOf(pn[p], pn, S \ {p})
<1>1. PICK n, s : Chain(p, pn, n, s) /\ Nodes(n, s) = S
  BY DEF ListOf
<1>2. n \in Nat /\ n > 0 /\ p = s[1] /\ n - 1 \in Nat /\ s \in [1 .. n -> Events]
  BY <1>1 DEF Chain, Nth
<1>3. \A i, j \in 1 .. n : s[i] = s[j] => i = j
  BY <1>1 DEF Chain
<1>4. \A k \in 1 .. n : pn[s[k]] = Nth(s, n, k + 1)
  BY <1>1 DEF Chain
<1> DEFINE z == [k \in 1 .. n - 1 |-> s[k + 1]]
<1>5. z \in [1 .. n - 1 -> Events] /\ \A k \in 1 .. n - 1 : z[k] = s[k + 1] /\ k + 1 \in 1 .. n
  BY <1>2
<1> HIDE DEF z
<1>6. \A i, j \in 1 .. n - 1 : z[i] = z[j] => i = j
  BY <1>2, <1>3, <1>5
<1>7. \A k \in 1 .. n - 1 : pn[z[k]] = Nth(z, n - 1, k + 1)
  <2> TAKE k \in 1 .. n - 1
  <2>1. pn[z[k]] = Nth(s, n, k + 2)
    BY <1>2, <1>4, <1>5
  <2> QED
    BY <1>2, <1>5, <2>1 DEF Nth
<1>8. pn[p] = Nth(z, n - 1, 1)
  <2>1. pn[p] = Nth(s, n, 2)
    BY <1>2, <1>4
  <2> QED
    BY <1>2, <1>5, <2>1 DEF Nth
<1>9. Nodes(n - 1, z) = S \ {p}
  <2>1. \A k \in 1 .. n - 1 : z[k] \in S \ {p}
    BY <1>1, <1>2, <1>3, <1>5 DEF Nodes
  <2>2. ASSUME NEW x \in S \ {p} PROVE x \in Nodes(n - 1, z)
    <3>1. PICK m \in 1 .. n : x = s[m]
      BY <1>1 DEF Nodes
    <3>2. m - 1 \in 1 .. n - 1 /\ z[m - 1] = x
      BY <1>2, <1>5, <3>1
    <3> QED
      BY <3>2 DEF Nodes
  <2> QED
    BY <2>1, <2>2 DEF Nodes
<1>10. Chain(pn[p], pn, n - 1, z)
  BY <1>2, <1>5, <1>6, <1>7, <1>8 DEF Chain
<1> QED
  BY <1>9, <1>10 DEF ListOf

\* Links elsewhere do not matter.
LEMMA ListElsewhere ==
  ASSUME NEW p, NEW pn, NEW S, ListOf(p, pn, S), NEW pn2, \A ev \in S : pn2[ev] = pn[ev]
  PROVE  ListOf(p, pn2, S)
<1>1. PICK n, s : Chain(p, pn, n, s) /\ Nodes(n, s) = S
  BY DEF ListOf
<1>2. \A k \in 1 .. n : pn2[s[k]] = pn[s[k]]
  BY <1>1 DEF Nodes
<1>3. Chain(p, pn2, n, s)
  BY <1>1, <1>2 DEF Chain
<1> QED
  BY <1>1, <1>3 DEF ListOf

\* A new first event.
LEMMA ListPushed ==
  ASSUME NEW p, NEW pn, NEW S, ListOf(p, pn, S), NEW ev \in Events, ev \notin S,
         NEW pn2, pn2[ev] = p, \A e \in S : pn2[e] = pn[e]
  PROVE  ListOf(ev, pn2, S \cup {ev})
<1>1. PICK n, s : Chain(p, pn, n, s) /\ Nodes(n, s) = S
  BY DEF ListOf
<1>2. n \in Nat /\ s \in [1 .. n -> Events] /\ p = Nth(s, n, 1)
      /\ \A k \in 1 .. n : s[k] \in S
  BY <1>1 DEF Chain, Nodes
<1>3. \A i, j \in 1 .. n : s[i] = s[j] => i = j
  BY <1>1 DEF Chain
<1>4. \A k \in 1 .. n : pn2[s[k]] = Nth(s, n, k + 1)
  BY <1>1, <1>2 DEF Chain
<1> DEFINE z == [k \in 1 .. n + 1 |-> IF k = 1 THEN ev ELSE s[k - 1]]
<1>5. /\ z \in [1 .. n + 1 -> Events] /\ z[1] = ev
      /\ \A k \in 1 .. n + 1 : k # 1 => z[k] = s[k - 1] /\ k - 1 \in 1 .. n
  BY <1>2
<1> HIDE DEF z
<1>6. \A i, j \in 1 .. n + 1 : z[i] = z[j] => i = j
  <2> SUFFICES ASSUME NEW i \in 1 .. n + 1, NEW j \in 1 .. n + 1, z[i] = z[j] PROVE i = j
    OBVIOUS
  <2>1. CASE i = 1 \/ j = 1
    BY <1>2, <1>5, <2>1
  <2>2. CASE i # 1 /\ j # 1
    <3>1. i - 1 = j - 1
      BY <1>3, <1>5, <2>2
    <3> QED
      BY <3>1
  <2> QED
    BY <2>1, <2>2
<1>7. \A k \in 1 .. n + 1 : pn2[z[k]] = Nth(z, n + 1, k + 1)
  <2> TAKE k \in 1 .. n + 1
  <2>1. CASE k = 1
    BY <1>2, <1>5, <2>1 DEF Nth
  <2>2. CASE k # 1
    <3>1. pn2[z[k]] = Nth(s, n, k)
      BY <1>2, <1>4, <1>5, <2>2
    <3> QED
      BY <1>2, <1>5, <2>2, <3>1 DEF Nth
  <2> QED
    BY <2>1, <2>2
<1>8. Nodes(n + 1, z) = S \cup {ev}
  <2>1. \A k \in 1 .. n + 1 : z[k] \in S \cup {ev}
    BY <1>2, <1>5
  <2>2. ASSUME NEW x \in S PROVE x \in Nodes(n + 1, z)
    <3>1. PICK m \in 1 .. n : x = s[m]
      BY <1>1 DEF Nodes
    <3>2. m + 1 \in 1 .. n + 1 /\ z[m + 1] = x
      BY <1>2, <1>5, <3>1
    <3> QED
      BY <3>2 DEF Nodes
  <2>3. ev \in Nodes(n + 1, z)
    BY <1>2, <1>5 DEF Nodes
  <2> QED
    BY <2>1, <2>2, <2>3 DEF Nodes
<1>9. Chain(ev, pn2, n + 1, z)
  <2>1. n + 1 \in Nat /\ ev = Nth(z, n + 1, 1)
    BY <1>2, <1>5 DEF Nth
  <2> QED
    BY <2>1, <1>5, <1>6, <1>7 DEF Chain
<1> QED
  BY <1>8, <1>9 DEF ListOf

-----------------------------------------------------------------------------
\* Both lists hold what is pending.
BothWhole(l) ==
    /\ l.pending \subseteq Events /\ l.head \in [Levels -> Events \cup {Null}]
    /\ l.pending_next \in [Events -> Events \cup {Null}]
    /\ \A level \in Levels :
           ListOf(l.head[level], l.pending_next, l.pending \cap OfLevel(level))

\* EVENT_PENDING puts the event before those of its level.
LEMMA PendedWhole ==
  ASSUME NEW l, BothWhole(l), NEW ev \in Events \cup {Null}
  PROVE  /\ BothWhole(Pended(l, ev))
         /\ \A e : e \in Pended(l, ev).pending <=> e \in l.pending \/ (e = ev /\ ev # Null)
<1>1. CASE ev \in l.pending \cup {Null}
  <2>1. Pended(l, ev) = l
    BY <1>1 DEF Pended
  <2> QED
    BY <1>1, <2>1, EventFacts DEF BothWhole
<1>2. CASE ev \notin l.pending \cup {Null}
  <2> DEFINE g == Pended(l, ev)
             hd == [l.head EXCEPT ![Level(ev)] = ev]
             pn == [l.pending_next EXCEPT ![ev] = l.head[Level(ev)]]
  <2>1. g = [pending |-> l.pending \cup {ev}, head |-> hd, pending_next |-> pn]
    BY <1>2 DEF Pended
  <2>2. g.pending = l.pending \cup {ev} /\ g.head = hd /\ g.pending_next = pn
    BY <2>1
  <2>3. ev \in Events /\ Level(ev) \in Levels /\ ev \in OfLevel(Level(ev)) /\ ev # Null
    BY <1>2, EventFacts
  <2>4. /\ hd \in [Levels -> Events \cup {Null}] /\ hd[Level(ev)] = ev
        /\ \A level \in Levels : level # Level(ev) => hd[level] = l.head[level]
    BY <2>3 DEF BothWhole
  <2>5. /\ pn \in [Events -> Events \cup {Null}] /\ pn[ev] = l.head[Level(ev)]
        /\ \A e \in Events : e # ev => pn[e] = l.pending_next[e]
    BY <2>3 DEF BothWhole
  <2> HIDE DEF g, hd, pn
  <2>6. ASSUME NEW level \in Levels
        PROVE  ListOf(hd[level], pn, (l.pending \cup {ev}) \cap OfLevel(level))
    <3> DEFINE S == l.pending \cap OfLevel(level)
               T == (l.pending \cup {ev}) \cap OfLevel(level)
    <3>1. ListOf(l.head[level], l.pending_next, S) /\ S \subseteq Events /\ ev \notin S
      BY <1>2 DEF BothWhole
    <3>2. \A e \in S : pn[e] = l.pending_next[e]
      BY <2>5, <3>1
    <3>3. CASE level = Level(ev)
      <4>1. T = S \cup {ev}
        BY <2>3, <3>3
      <4> HIDE DEF S, T
      <4>2. ListOf(ev, pn, S \cup {ev})
        BY <2>3, <2>5, <3>1, <3>2, <3>3, ListPushed
      <4> QED
        BY <2>4, <3>3, <4>1, <4>2 DEF T
    <3>4. CASE level # Level(ev)
      <4>1. T = S
        BY <2>3, <3>4, EventFacts DEF OfLevel, Levels
      <4> HIDE DEF S, T
      <4>2. ListOf(l.head[level], pn, S)
        BY <3>1, <3>2, ListElsewhere
      <4> QED
        BY <2>4, <3>4, <4>1, <4>2 DEF T
    <3> QED
      BY <3>3, <3>4
  <2>7. l.pending \cup {ev} \subseteq Events
    BY <2>3 DEF BothWhole
  <2>8. BothWhole(g)
    BY <2>2, <2>4, <2>5, <2>6, <2>7 DEF BothWhole
  <2> QED
    BY <2>2, <2>3, <2>8 DEF g
<1> QED
  BY <1>1, <1>2

LEMMA InitLists ==
  ASSUME Init
  PROVE  ListTypes /\ Chains /\ Crashes /\ Lives
<1>1. /\ pending = {} /\ head = [timers |-> Null, ios |-> Null] /\ loop = "turn"
      /\ pending_next = [ev \in Events |-> Null] /\ cur = Null /\ next = Null
      /\ deleted = {} /\ unlinked = {}
      /\ status = [ev \in Events |-> IF ev \in Ios THEN "active" ELSE "new"]
  BY DEF Init
<1>2. head \in [Levels -> Events \cup {Null}] /\ head["timers"] = Null /\ head["ios"] = Null
  BY <1>1 DEF Levels
<1>3. ListTypes
  BY <1>1, <1>2 DEF ListTypes, LoopStates
<1>4. Whole("timers") /\ Whole("ios")
  <2>1. pending \cap OfLevel("timers") = {} /\ pending \cap OfLevel("ios") = {}
    BY <1>1
  <2>2. ListOf(Null, pending_next, {})
    BY ListEmpty
  <2> QED
    BY <1>2, <2>1, <2>2 DEF Whole
<1>5. Lives
  BY <1>1, EventFacts DEF Lives
<1> QED
  BY <1>1, <1>3, <1>4, <1>5 DEF Chains, Crashes

\* hloop_process_events and hloop_process_timers fill the lists.
LEMMA FillLists ==
  ASSUME ListTypes, HeapHolds, Chains,
         \/ ProcessTimer
         \/ \E first, second \in Ios \cup {Null}, time \in now .. MaxTime : Poll(first, second, time)
  PROVE  ListTypes' /\ Chains' /\ Crashes'
<1>1. loop \in {"turn", "timers"}
  BY DEF Poll, ProcessTimer
<1>2. BothWhole(Lists)
  <2>1. Whole("timers") /\ Whole("ios")
    BY <1>1 DEF Chains
  <2> QED
    BY <2>1 DEF BothWhole, Lists, Whole, ListTypes, Levels
<1>3. \E l : BothWhole(l) /\ SetLists(l)
  <2>1. CASE ProcessTimer
    <3>1. SetLists(Pended(Lists, heap.root)) /\ heap.root \in Timers
      BY <2>1, RootIsLive, Zenon DEF ProcessTimer
    <3>2. BothWhole(Pended(Lists, heap.root))
      BY <1>2, <3>1, PendedWhole, EventFacts
    <3> QED
      BY <3>1, <3>2
  <2>2. CASE \E first, second \in Ios \cup {Null}, time \in now .. MaxTime : Poll(first, second, time)
    <3>1. PICK first \in Ios \cup {Null}, second \in Ios \cup {Null} :
              SetLists(Pended(Pended(Lists, first), second))
      BY <2>2, Zenon DEF Poll
    <3>2. first \in Events \cup {Null} /\ second \in Events \cup {Null}
      BY EventFacts
    <3>3. BothWhole(Pended(Lists, first))
      BY <1>2, <3>2, PendedWhole
    <3> DEFINE l == Pended(Lists, first)
    <3> HIDE DEF l
    <3>4. BothWhole(Pended(l, second))
      BY <3>2, <3>3, PendedWhole DEF l
    <3> QED
      BY <3>1, <3>4 DEF l
  <2> QED
    BY <2>1, <2>2
<1>4. PICK l : BothWhole(l) /\ SetLists(l)
  BY <1>3
<1>5. pending' = l.pending /\ head' = l.head /\ pending_next' = l.pending_next
  BY <1>4 DEF SetLists
<1>6. loop' = "timers" /\ cur' = cur /\ next' = next /\ unlinked' = unlinked
  BY DEF Poll, ProcessTimer, history
<1>7. Whole("timers")' /\ Whole("ios")'
  BY <1>4, <1>5 DEF Whole, BothWhole, Levels
<1>8. ListTypes'
  BY <1>4, <1>5, <1>6 DEF ListTypes, BothWhole, LoopStates
<1> QED
  BY <1>6, <1>7, <1>8 DEF Chains, Crashes

\* hloop_process_pendings takes the first event from the list.
LEMMA LeaveLists ==
  ASSUME ListTypes, Chains, NEW level \in Levels, loop \in {Walking[level], Calling[level]},
         cur # Null, NEW nxt, nxt = pending_next[cur], Leave(level, nxt),
         UNCHANGED <<head, pending_next, unlinked>>, next' \in Events \cup {Null}
  PROVE  ListTypes' /\ Chains' /\ Crashes'
<1>1. pending' = pending \ {cur} /\ cur' = pending_next[cur] /\ loop' = Walking[level]
      /\ cur \in Events
  BY Zenon DEF Leave, ListTypes
<1>2. ListTypes'
  <2>1. Walking[level] \in LoopStates
    BY DEF Walking, Levels, LoopStates
  <2> QED
    BY <1>1, <2>1 DEF ListTypes
<1>3. Rest(level)
  <2>1. CASE level = "timers"
    BY <2>1 DEF Chains, Walking, Calling
  <2>2. CASE level = "ios"
    BY <2>2 DEF Chains, Walking, Calling
  <2> QED
    BY <2>1, <2>2 DEF Levels
<1>4. PICK S : /\ ListOf(cur, pending_next, S) /\ S \subseteq OfLevel(level)
               /\ pending \cap OfLevel(level) \subseteq S /\ S \subseteq pending \cup unlinked
  BY <1>3 DEF Rest
<1>5. cur \in S /\ ListOf(pending_next[cur], pending_next, S \ {cur})
  BY <1>4, ListFirst, ListRest
<1>6. Rest(level)'
  BY <1>1, <1>4, <1>5 DEF Rest
<1>7. CASE level = "timers"
  <2>1. Whole("ios") /\ loop' = "pendings-timers"
    BY <1>1, <1>7 DEF Chains, Walking, Calling
  <2>2. pending' \cap OfLevel("ios") = pending \cap OfLevel("ios")
    BY <1>1, <1>4, <1>5, <1>7, EventFacts DEF OfLevel
  <2>3. Whole("ios")'
    BY <2>1, <2>2 DEF Whole
  <2> QED
    BY <1>2, <1>6, <1>7, <2>1, <2>3 DEF Chains, Crashes
<1>8. CASE level = "ios"
  <2>1. pending \cap Timers = {} /\ head["timers"] = Null /\ loop' = "pendings-ios"
    BY <1>1, <1>8 DEF Chains, Walking, Calling
  <2> QED
    BY <1>1, <1>2, <1>6, <1>8, <2>1 DEF Chains, Crashes
<1> QED
  BY <1>7, <1>8 DEF Levels

\* From one list to the next.
LEMMA DoneLists ==
  ASSUME ListTypes, Chains, TimersDone \/ \E level \in Levels : ListDone(level)
  PROVE  ListTypes' /\ Chains' /\ Crashes'
<1>1. CASE TimersDone
  <2>1. /\ loop = "timers" /\ loop' = "pendings-timers" /\ cur' = head["timers"] /\ next' = next
        /\ pending' = pending /\ head' = head /\ pending_next' = pending_next
        /\ unlinked' = unlinked
    BY <1>1 DEF TimersDone, lists, history
  <2>2. Whole("timers") /\ Whole("ios")
    BY <2>1 DEF Chains
  <2>3. ListTypes'
    BY <2>1 DEF ListTypes, LoopStates, Levels
  <2>4. Rest("timers")'
    <3> DEFINE S == pending \cap OfLevel("timers")
    <3>1. ListOf(cur', pending_next', S)
      BY <2>1, <2>2 DEF Whole
    <3>2. /\ S \subseteq OfLevel("timers") /\ pending' \cap OfLevel("timers") \subseteq S
          /\ S \subseteq pending' \cup unlinked'
      BY <2>1
    <3> QED
      BY <3>1, <3>2 DEF Rest
  <2>5. Whole("ios")'
    BY <2>1, <2>2 DEF Whole
  <2> QED
    BY <2>1, <2>3, <2>4, <2>5 DEF Chains, Crashes
<1>2. ASSUME NEW level \in Levels, ListDone(level)
      PROVE  ListTypes' /\ Chains' /\ Crashes'
  <2>1. /\ loop = Walking[level] /\ cur = Null /\ next' = Null /\ head' = [head EXCEPT ![level] = Null]
        /\ pending_next' = [ev \in Events |-> IF Level(ev) = level THEN Null ELSE pending_next[ev]]
        /\ IF level = "timers" THEN loop' = "pendings-ios" /\ cur' = head["ios"]
           ELSE loop' = "turn" /\ cur' = cur
        /\ pending' = pending /\ unlinked' = unlinked
    BY <1>2 DEF ListDone, AtList, history
  <2>2. ListTypes'
    <3>1. head' \in [Levels -> Events \cup {Null}] /\ head["ios"] \in Events \cup {Null}
      BY <2>1 DEF ListTypes, Levels
    <3>2. pending_next' \in [Events -> Events \cup {Null}]
      BY <2>1 DEF ListTypes
    <3>3. loop' \in LoopStates /\ cur' \in Events \cup {Null}
      BY <2>1, <3>1 DEF LoopStates, ListTypes
    <3> QED
      BY <2>1, <3>1, <3>2, <3>3 DEF ListTypes
  <2>3. pending \cap OfLevel(level) = {}
    <3>1. Rest(level)
      <4>1. CASE level = "timers"
        BY <2>1, <4>1 DEF Chains, Walking
      <4>2. CASE level = "ios"
        BY <2>1, <4>2 DEF Chains, Walking
      <4> QED
        BY <4>1, <4>2 DEF Levels
    <3>2. PICK S : ListOf(cur, pending_next, S) /\ pending \cap OfLevel(level) \subseteq S
      BY <3>1 DEF Rest
    <3>3. S = {}
      BY <2>1, <3>2, ListFirst
    <3> QED
      BY <3>2, <3>3
  <2>4. CASE level = "timers"
    <3>1. Whole("ios") /\ loop' = "pendings-ios" /\ cur' = head["ios"]
      BY <2>1, <2>4 DEF Chains, Walking
    <3> DEFINE S == pending \cap OfLevel("ios")
    <3>2. ListOf(head["ios"], pending_next, S) /\ S \subseteq Ios
      BY <3>1 DEF Whole, OfLevel
    <3>3. \A e \in S : pending_next'[e] = pending_next[e]
      BY <2>1, <2>4, <3>2, EventFacts
    <3> HIDE DEF S
    <3>4. ListOf(head["ios"], pending_next', S)
      <4> DEFINE pn == pending_next'
      <4>1. \A e \in S : pn[e] = pending_next[e]
        BY <3>3
      <4> HIDE DEF pn
      <4>2. ListOf(head["ios"], pn, S)
        BY <3>2, <4>1, ListElsewhere
      <4> QED
        BY <4>2 DEF pn
    <3>5. Rest("ios")'
      BY <2>1, <3>1, <3>4 DEF Rest, S
    <3>6. pending' \cap Timers = {} /\ head'["timers"] = Null
      BY <2>1, <2>3, <2>4 DEF OfLevel, ListTypes, Levels
    <3> QED
      BY <2>2, <3>1, <3>5, <3>6 DEF Chains, Crashes
  <2>5. CASE level = "ios"
    <3>1. pending \cap Timers = {} /\ head["timers"] = Null /\ loop' = "turn"
      BY <2>1, <2>5 DEF Chains, Walking
    <3>2. pending' \cap OfLevel("timers") = {} /\ pending' \cap OfLevel("ios") = {}
      BY <2>1, <2>3, <2>5, <3>1 DEF OfLevel
    <3>3. head'["timers"] = Null /\ head'["ios"] = Null
      BY <2>1, <2>5, <3>1 DEF ListTypes, Levels
    <3>4. ListOf(Null, pending_next', {})
      BY ListEmpty
    <3>5. Whole("timers")' /\ Whole("ios")'
      BY <3>2, <3>3, <3>4 DEF Whole
    <3> QED
      BY <2>2, <3>1, <3>5 DEF Chains, Crashes
  <2> QED
    BY <2>4, <2>5 DEF Levels
<1> QED
  BY <1>1, <1>2

\* A timer loses its bit, not its link.
LEMMA ResetLists ==
  ASSUME ListTypes, Chains, NEW t \in Timers, Reset(t)
  PROVE  ListTypes' /\ Chains' /\ Crashes'
<1>1. /\ loop \in {"callback-timers", "callback-ios"} /\ loop' = loop /\ cur' = cur /\ next' = next
      /\ pending' = pending \ {t} /\ head' = head /\ pending_next' = pending_next
      /\ unlinked' = IF t \in pending THEN unlinked \cup {t} ELSE unlinked
  BY DEF Reset, InCallback
<1>2. ListTypes'
  BY <1>1 DEF ListTypes
<1>3. cur # Null /\ next = pending_next[cur]
  BY <1>1 DEF Chains
<1>4. pending' \cap Ios = pending \cap Ios
  BY <1>1, EventFacts
<1>5. ASSUME NEW level, Rest(level) PROVE Rest(level)'
  <2>1. PICK S : /\ ListOf(cur, pending_next, S) /\ S \subseteq OfLevel(level)
                 /\ pending \cap OfLevel(level) \subseteq S /\ S \subseteq pending \cup unlinked
    BY <1>5 DEF Rest
  <2>2. pending' \cap OfLevel(level) \subseteq S /\ S \subseteq pending' \cup unlinked'
    BY <1>1, <2>1
  <2> QED
    BY <1>1, <2>1, <2>2 DEF Rest
<1>6. CASE loop = "callback-timers"
  <2>1. Rest("timers") /\ Whole("ios")
    BY <1>6 DEF Chains
  <2>2. Whole("ios")'
    BY <1>1, <1>4, <2>1 DEF Whole, OfLevel
  <2> QED
    BY <1>1, <1>2, <1>3, <1>5, <1>6, <2>1, <2>2 DEF Chains, Crashes
<1>7. CASE loop = "callback-ios"
  <2>1. Rest("ios") /\ pending \cap Timers = {} /\ head["timers"] = Null
    BY <1>7 DEF Chains
  <2> QED
    BY <1>1, <1>2, <1>3, <1>5, <1>7, <2>1 DEF Chains, Crashes
<1> QED
  BY <1>1, <1>6, <1>7

\* What is read from the list is in it: pending, or reset.
LEMMA ReadsFreedLists ==
  ASSUME ListTypes, Chains, Lives, ReadsFreed
  PROVE  ListTypes' /\ Chains' /\ Crashes'
<1>1. /\ loop \in {"pendings-timers", "pendings-ios", "callback-timers", "callback-ios"}
      /\ cur # Null /\ status[cur] = "freed" /\ loop' = "crashed" /\ cur' = cur /\ next' = next
      /\ pending' = pending /\ head' = head /\ pending_next' = pending_next /\ unlinked' = unlinked
  BY DEF ReadsFreed, lists, history
<1>2. \E level \in Levels : Rest(level)
  BY <1>1 DEF Chains, Levels
<1>3. PICK S : ListOf(cur, pending_next, S) /\ S \subseteq pending \cup unlinked
  BY <1>2 DEF Rest
<1>4. cur \in pending \cup unlinked
  BY <1>1, <1>3, ListFirst
<1>5. cur \in unlinked
  BY <1>1, <1>4 DEF Lives
<1> QED
  BY <1>1, <1>5 DEF ListTypes, Chains, Crashes, LoopStates

LEMMA StepLists ==
  ASSUME ListTypes, HeapHolds, Chains, Lives, Crashes, [Next]_vars
  PROVE  ListTypes' /\ Chains' /\ Crashes'
<1>1. ASSUME UNCHANGED <<lists, loop, cur, next, unlinked>>
      PROVE  ListTypes' /\ Chains' /\ Crashes'
  <2>1. /\ pending' = pending /\ head' = head /\ pending_next' = pending_next
        /\ loop' = loop /\ cur' = cur /\ next' = next /\ unlinked' = unlinked
    BY <1>1 DEF lists
  <2> QED
    BY <2>1 DEF ListTypes, Chains, Crashes, Whole, Rest
<1>2. ASSUME NEW first \in Ios \cup {Null}, NEW second \in Ios \cup {Null},
             NEW time \in now .. MaxTime, Poll(first, second, time)
      PROVE  ListTypes' /\ Chains' /\ Crashes'
  BY <1>2, FillLists
<1>3. CASE ProcessTimer
  BY <1>3, FillLists
<1>4. CASE TimersDone
  BY <1>4, DoneLists
<1>5. ASSUME NEW level \in Levels, Visit(level)
      PROVE  ListTypes' /\ Chains' /\ Crashes'
  <2>1. /\ loop = Walking[level] /\ cur # Null /\ next' = pending_next[cur] /\ loop' = Calling[level]
        /\ pending' = pending /\ head' = head /\ pending_next' = pending_next
        /\ cur' = cur /\ unlinked' = unlinked
    BY <1>5 DEF Visit, AtList, lists
  <2>2. ListTypes'
    <3>1. Calling[level] \in LoopStates
      BY DEF Calling, Levels, LoopStates
    <3> QED
      BY <2>1, <3>1 DEF ListTypes
  <2>3. CASE level = "timers"
    <3>1. Rest("timers") /\ Whole("ios") /\ loop' = "callback-timers"
      BY <2>1, <2>3 DEF Chains, Walking, Calling
    <3>2. Rest("timers")' /\ Whole("ios")'
      BY <2>1, <3>1 DEF Rest, Whole
    <3> QED
      BY <2>1, <2>2, <3>1, <3>2 DEF Chains, Crashes
  <2>4. CASE level = "ios"
    <3>1. Rest("ios") /\ pending \cap Timers = {} /\ head["timers"] = Null /\ loop' = "callback-ios"
      BY <2>1, <2>4 DEF Chains, Walking, Calling
    <3>2. Rest("ios")'
      BY <2>1, <3>1 DEF Rest
    <3> QED
      BY <2>1, <2>2, <3>1, <3>2 DEF Chains, Crashes
  <2> QED
    BY <2>3, <2>4 DEF Levels
<1>6. ASSUME NEW level \in Levels, Pass(level)
      PROVE  ListTypes' /\ Chains' /\ Crashes'
  <2>1. /\ loop = Walking[level] /\ cur # Null /\ next' = pending_next[cur]
        /\ Leave(level, pending_next[cur]) /\ UNCHANGED <<head, pending_next, unlinked>>
    BY <1>6 DEF Pass, AtList, history
  <2>2. next' \in Events \cup {Null}
    BY <2>1 DEF ListTypes
  <2> QED
    BY <2>1, <2>2, LeaveLists
<1>7. ASSUME NEW level \in Levels, Return(level)
      PROVE  ListTypes' /\ Chains' /\ Crashes'
  <2>1. /\ loop = Calling[level] /\ Leave(level, next) /\ next' = next
        /\ UNCHANGED <<head, pending_next, unlinked>>
    BY <1>7 DEF Return, history
  <2>2. cur # Null /\ next = pending_next[cur] /\ next' \in Events \cup {Null}
    <3>1. loop \in {"callback-timers", "callback-ios"}
      BY <2>1 DEF Calling, Levels
    <3> QED
      BY <2>1, <3>1 DEF Chains, ListTypes
  <2> QED
    BY <2>1, <2>2, LeaveLists
<1>8. ASSUME NEW level \in Levels, ListDone(level)
      PROVE  ListTypes' /\ Chains' /\ Crashes'
  BY <1>8, DoneLists
<1>9. CASE ReadsFreed
  BY <1>9, ReadsFreedLists
<1>10. CASE HandlePost
  BY <1>1, <1>10 DEF HandlePost, history
<1>11. ASSUME NEW t \in Timers, NEW kind, Add(t, kind[1], kind[2]) \/ Del(t)
       PROVE  ListTypes' /\ Chains' /\ Crashes'
  BY <1>1, <1>11 DEF Add, Del, history
<1>12. ASSUME NEW t \in Timers, Reset(t)
       PROVE  ListTypes' /\ Chains' /\ Crashes'
  BY <1>12, ResetLists
<1>13. CASE PostByte \/ PostPush
  BY <1>1, <1>13 DEF PostByte, PostPush, history
<1>14. CASE UNCHANGED vars
  BY <1>1, <1>14 DEF vars, history
<1> QED
  BY <1>2, <1>3, <1>4, <1>5, <1>6, <1>7, <1>8, <1>9, <1>10, <1>11, <1>12, <1>13, <1>14
  DEF Next, Turn, Use

-----------------------------------------------------------------------------
\* What a fill of the lists adds.
LEMMA PendedPending ==
  ASSUME NEW l, NEW ev
  PROVE  \A e : e \in Pended(l, ev).pending <=> e \in l.pending \/ (e = ev /\ ev # Null)
<1>1. CASE ev \in l.pending \cup {Null}
  <2>1. Pended(l, ev) = l
    BY <1>1 DEF Pended
  <2> QED
    BY <1>1, <2>1
<1>2. CASE ev \notin l.pending \cup {Null}
  <2>1. Pended(l, ev).pending = l.pending \cup {ev}
    BY <1>2 DEF Pended
  <2> QED
    BY <1>2, <2>1
<1> QED
  BY <1>1, <1>2

LEMMA PollPending ==
  ASSUME NEW first \in Ios \cup {Null}, NEW second \in Ios \cup {Null}, NEW time,
         Poll(first, second, time)
  PROVE  pending \subseteq pending' /\ pending' \subseteq pending \cup Ios
<1> DEFINE l == Pended(Lists, first)
<1>1. pending' = Pended(l, second).pending
  BY Zenon DEF Poll, SetLists
<1>2. Lists.pending = pending
  BY DEF Lists
<1>3. \A e : e \in l.pending <=> e \in pending \/ (e = first /\ first # Null)
  BY <1>2, PendedPending
<1> HIDE DEF l
<1>4. \A e : e \in pending' <=> e \in l.pending \/ (e = second /\ second # Null)
  BY <1>1, PendedPending
<1> QED
  BY <1>3, <1>4

LEMMA ProcessPending ==
  ASSUME HeapHolds, ProcessTimer
  PROVE  heap.root \in Live /\ heap.root \in Timers /\ pending' = pending \cup {heap.root}
<1>1. pending' = Pended(Lists, heap.root).pending /\ Due
  BY Zenon DEF ProcessTimer, SetLists
<1>2. Lists.pending = pending
  BY DEF Lists
<1>3. heap.root \in Live /\ heap.root \in Timers /\ heap.root # Null
  BY <1>1, RootIsLive DEF Due
<1>4. \A e : e \in pending' <=> e \in pending \/ (e = heap.root /\ heap.root # Null)
  BY <1>1, <1>2, PendedPending
<1> QED
  BY <1>3, <1>4

\* Del, as far as the lists and the states of timers go.
LEMMA DelStates ==
  ASSUME TimerTypes, NEW t \in Timers, Del(t)
  PROVE  /\ t \notin deleted /\ deleted' = deleted \cup {t} /\ pending' = pending
         /\ fired' = fired /\ loop' = loop /\ cur' = cur /\ resets' = resets
         /\ \/ status[t] = "inactive" /\ status' = status /\ timer' = timer
            \/ /\ status[t] = "active" /\ t \notin pending
               /\ status' = [status EXCEPT ![t] = "freed"]
               /\ \A u \in Timers : u # t => timer'[u] = timer[u]
            \/ /\ status[t] = "active" /\ t \in pending
               /\ status' = [status EXCEPT ![t] = "inactive"]
               /\ timer'[t].destroy /\ timer'[t].repeat = timer[t].repeat
               /\ \A u \in Timers : u # t => timer'[u] = timer[u]
<1>1. /\ t \notin deleted /\ status[t] \in {"active", "inactive"}
      /\ deleted' = deleted \cup {t} /\ pending' = pending
      /\ fired' = fired /\ loop' = loop /\ cur' = cur /\ resets' = resets
  BY DEF Del, Usable, lists
<1>2. CASE status[t] # "active"
  <2>1. status[t] = "inactive" /\ status' = status /\ timer' = timer
    BY <1>1, <1>2 DEF Del
  <2> QED
    BY <1>1, <2>1
<1>3. CASE status[t] = "active" /\ t \notin pending
  <2>1. Free(t)
    BY <1>3 DEF Del
  <2>2. status' = [status EXCEPT ![t] = "freed"] /\ \A u \in Timers : u # t => timer'[u] = timer[u]
    BY <2>1 DEF Free, TimerTypes
  <2> QED
    BY <1>1, <1>3, <2>2
<1>4. CASE status[t] = "active" /\ t \in pending
  <2>1. status' = [status EXCEPT ![t] = "inactive"] /\ timer' = [timer EXCEPT ![t].destroy = TRUE]
    BY <1>4 DEF Del
  <2> DEFINE b == TRUE
             n == timer[t].repeat
  <2>2. /\ timer \in [Timers -> TimerSet] /\ b \in BOOLEAN /\ n \in 0 .. Infinite
        /\ timer' = [timer EXCEPT ![t].destroy = b] /\ n = timer[t].repeat
    BY <2>1 DEF TimerTypes, TimerSet
  <2> HIDE DEF n, b
  <2>3. Stored(timer', timer, t, n, b)
    BY <2>2, TimerStores, Zenon
  <2>4. timer'[t].destroy /\ timer'[t].repeat = timer[t].repeat
        /\ \A u \in Timers : u # t => timer'[u] = timer[u]
    BY <2>3 DEF Stored, b, n
  <2> QED
    BY <1>1, <1>4, <2>1, <2>4
<1> QED
  BY <1>2, <1>3, <1>4

\* Leave, as far as these go.
LEMMA LeaveStates ==
  ASSUME TimerTypes, NEW level, NEW nxt, Leave(level, nxt)
  PROVE  /\ pending' = pending \ {cur}
         /\ \/ /\ cur \in pending \cap Timers /\ timer[cur].destroy
               /\ status' = [status EXCEPT ![cur] = "freed"]
               /\ \A u \in Timers : u # cur => timer'[u] = timer[u]
            \/ /\ ~ (cur \in pending \cap Timers /\ timer[cur].destroy)
               /\ status' = status /\ timer' = timer
<1>1. CASE cur \in pending \cap Timers /\ timer[cur].destroy
  <2>1. Free(cur) /\ pending' = pending \ {cur}
    BY <1>1 DEF Leave
  <2> QED
    BY <1>1, <2>1 DEF Free, TimerTypes
<1>2. CASE ~ (cur \in pending \cap Timers /\ timer[cur].destroy)
  BY <1>2 DEF Leave
<1> QED
  BY <1>1, <1>2

LEMMA StepLives ==
  ASSUME TimerTypes, ListTypes, HeapHolds, Lives, [Next]_vars
  PROVE  Lives'
<1>0. /\ \A ev \in pending : status[ev] \in {"active", "inactive"}
      /\ \A ev \in Ios : status[ev] = "active"
      /\ \A t \in Timers : t \in deleted => status[t] \in {"inactive", "freed"}
      /\ \A t \in Timers : status[t] = "inactive" => t \in deleted
      /\ status \in [Events -> States] /\ pending \subseteq Events
  BY DEF Lives, TimerTypes, ListTypes
<1>1. ASSUME status' = status, deleted' = deleted, pending' \subseteq pending \cup Ios \cup Live
      PROVE  Lives'
  BY <1>0, <1>1 DEF Lives, Live
<1>2. ASSUME NEW first \in Ios \cup {Null}, NEW second \in Ios \cup {Null},
             NEW time \in now .. MaxTime, Poll(first, second, time)
      PROVE  Lives'
  <2>1. pending' \subseteq pending \cup Ios
    BY <1>2, PollPending
  <2>2. status' = status /\ deleted' = deleted
    BY <1>2 DEF Poll, history
  <2> QED
    BY <1>1, <2>1, <2>2
<1>3. CASE ProcessTimer
  <2>1. heap.root \in Live /\ pending' = pending \cup {heap.root}
    BY <1>3, ProcessPending
  <2>2. status' = status /\ deleted' = deleted
    BY <1>3 DEF ProcessTimer, history
  <2> QED
    BY <1>1, <2>1, <2>2
<1>4. CASE TimersDone \/ ReadsFreed \/ HandlePost
  BY <1>1, <1>4 DEF TimersDone, ReadsFreed, HandlePost, lists, history
<1>5. ASSUME NEW level \in Levels, Visit(level) \/ ListDone(level)
      PROVE  Lives'
  BY <1>1, <1>5 DEF Visit, ListDone, lists, history
<1>6. ASSUME NEW level \in Levels, Pass(level) \/ Return(level)
      PROVE  Lives'
  <2>1. (\E nxt : Leave(level, nxt)) /\ deleted' = deleted
    BY <1>6 DEF Pass, Return, history
  <2>2. /\ pending' = pending \ {cur}
        /\ \/ cur \in pending \cap Timers /\ status' = [status EXCEPT ![cur] = "freed"]
           \/ status' = status
    BY <2>1, LeaveStates
  <2>3. CASE status' = status
    BY <1>1, <2>1, <2>2, <2>3
  <2>4. CASE cur \in pending \cap Timers /\ status' = [status EXCEPT ![cur] = "freed"]
    BY <1>0, <2>1, <2>2, <2>4, EventFacts DEF Lives
  <2> QED
    BY <2>2, <2>3, <2>4
<1>7. ASSUME NEW t \in Timers, NEW kind, Add(t, kind[1], kind[2])
      PROVE  Lives'
  <2>1. /\ status[t] = "new" /\ status' = [status EXCEPT ![t] = "active"]
        /\ deleted' = deleted /\ pending' = pending
    BY <1>7 DEF Add, lists, history
  <2> QED
    BY <1>0, <2>1, EventFacts DEF Lives
<1>8. ASSUME NEW t \in Timers, Del(t)
      PROVE  Lives'
  <2>1. /\ t \notin deleted /\ deleted' = deleted \cup {t} /\ pending' = pending
        /\ \/ status[t] = "inactive" /\ status' = status
           \/ /\ status[t] = "active" /\ t \notin pending
              /\ status' = [status EXCEPT ![t] = "freed"]
           \/ /\ status[t] = "active" /\ t \in pending
              /\ status' = [status EXCEPT ![t] = "inactive"]
    BY <1>8, DelStates
  <2> QED
    BY <1>0, <2>1, EventFacts DEF Lives
<1>9. ASSUME NEW t \in Timers, Reset(t)
      PROVE  Lives'
  <2>1. /\ t \notin deleted /\ status' = [status EXCEPT ![t] = "active"]
        /\ deleted' = deleted /\ pending' = pending \ {t}
    BY <1>9 DEF Reset, Usable
  <2> QED
    BY <1>0, <2>1, EventFacts DEF Lives
<1>10. CASE PostByte \/ PostPush
  BY <1>1, <1>10 DEF PostByte, PostPush, lists, history
<1>11. CASE UNCHANGED vars
  BY <1>1, <1>11 DEF vars, lists, history
<1> QED
  BY <1>2, <1>3, <1>4, <1>5, <1>6, <1>7, <1>8, <1>9, <1>10, <1>11 DEF Next, Turn, Use

-----------------------------------------------------------------------------
\* Which timers fire once more.
LEMMA StepOneShots ==
  ASSUME TimerTypes, ListTypes, HeapHolds, Lives, Chains, OneShots, [Next]_vars
  PROVE  OneShots'
<1>0. /\ \A t \in Timers : status[t] = "new" => t \notin fired
      /\ resets = 0 =>
            \A t \in Timers :
               status[t] \in {"active", "inactive"} /\ timer[t].repeat # Infinite =>
                   /\ t \in pending => timer[t].destroy
                   /\ t \in fired => loop = "callback-timers" /\ cur = t /\ t \in pending
      /\ status \in [Events -> States] /\ Timers \subseteq Events
  BY EventFacts DEF OneShots, TimerTypes
<1>1. ASSUME UNCHANGED <<status, timer, fired, resets>>,
             pending' \cap Timers = pending \cap Timers,
             loop # "callback-timers" \/ (loop' = loop /\ cur' = cur)
      PROVE  OneShots'
  BY <1>0, <1>1 DEF OneShots
<1>2. ASSUME NEW first \in Ios \cup {Null}, NEW second \in Ios \cup {Null},
             NEW time \in now .. MaxTime, Poll(first, second, time)
      PROVE  OneShots'
  <2>1. pending \subseteq pending' /\ pending' \subseteq pending \cup Ios
    BY <1>2, PollPending
  <2>2. UNCHANGED <<status, timer, fired, resets>> /\ loop = "turn"
    BY <1>2 DEF Poll, timerState, history
  <2>3. pending' \cap Timers = pending \cap Timers
    BY <2>1, EventFacts
  <2> QED
    BY <1>1, <2>2, <2>3
<1>3. CASE ProcessTimer
  <2> DEFINE r == heap.root
  <2>1. r \in Live /\ r \in Timers /\ pending' = pending \cup {r}
    BY <1>3, ProcessPending
  <2>2. UNCHANGED <<status, fired, resets>> /\ loop # "callback-timers"
    BY <1>3, Zenon DEF ProcessTimer, history
  <2>3. \/ timer[r].repeat = Infinite /\ timer' = timer
        \/ timer' = [timer EXCEPT ![r].repeat = 0, ![r].destroy = TRUE]
    BY <1>3, Zenon DEF ProcessTimer
  <2> HIDE DEF r
  <2>4. CASE timer[r].repeat = Infinite /\ timer' = timer
    BY <1>0, <2>1, <2>2, <2>4 DEF OneShots
  <2>5. CASE timer' = [timer EXCEPT ![r].repeat = 0, ![r].destroy = TRUE]
    <3>1. timer'[r].destroy /\ \A u \in Timers : u # r => timer'[u] = timer[u]
      <4> DEFINE z == 0
                 b == TRUE
      <4>1. /\ timer \in [Timers -> TimerSet] /\ z \in 0 .. Infinite /\ b \in BOOLEAN
            /\ timer' = [timer EXCEPT ![r].repeat = z, ![r].destroy = b]
        BY <2>5 DEF TimerTypes, Infinite
      <4> HIDE DEF z, b
      <4>2. Stored(timer', timer, r, z, b)
        BY <2>1, <4>1, TimerStores, Zenon
      <4> QED
        BY <4>2 DEF Stored, b
    <3>2. timer[r].repeat # Infinite /\ resets = 0 => r \notin fired
      BY <1>0, <2>1, <2>2 DEF Live
    <3>3. timer[r].repeat = Infinite => timer' = timer
      BY <1>3, Zenon DEF ProcessTimer, r
    <3> QED
      BY <1>0, <2>1, <2>2, <3>1, <3>2, <3>3 DEF OneShots
  <2> QED
    BY <2>3, <2>4, <2>5
<1>4. CASE TimersDone
  BY <1>1, <1>4 DEF TimersDone, timerState, lists, history
<1>5. ASSUME NEW level \in Levels, Visit(level)
      PROVE  OneShots'
  <2>1. /\ loop = Walking[level] /\ cur \in pending /\ status[cur] = "active"
        /\ loop' = Calling[level] /\ fired' = IF cur \in Timers THEN fired \cup {cur} ELSE fired
        /\ UNCHANGED <<status, timer, resets, pending, cur>>
    BY <1>5 DEF Visit, AtList, timerState, lists
  <2>2. loop # "callback-timers"
    BY <2>1 DEF Walking, Levels
  <2>3. CASE level = "timers"
    BY <1>0, <2>1, <2>2, <2>3 DEF OneShots, Calling
  <2>4. CASE level = "ios"
    <3>1. pending \cap Timers = {}
      BY <2>1, <2>4 DEF Chains, Walking
    <3>2. fired' = fired
      BY <2>1, <3>1
    <3> QED
      BY <1>1, <2>1, <2>2, <3>2
  <2> QED
    BY <2>3, <2>4 DEF Levels
<1>6. ASSUME NEW level \in Levels, Pass(level) \/ Return(level)
      PROVE  OneShots'
  <2>1. (\E nxt : Leave(level, nxt)) /\ fired' = fired /\ resets' = resets
    BY <1>6 DEF Pass, Return, history
  <2>2. /\ pending' = pending \ {cur}
        /\ \/ /\ cur \in pending \cap Timers /\ timer[cur].destroy
              /\ status' = [status EXCEPT ![cur] = "freed"]
              /\ \A u \in Timers : u # cur => timer'[u] = timer[u]
           \/ /\ ~ (cur \in pending \cap Timers /\ timer[cur].destroy)
              /\ status' = status /\ timer' = timer
    BY <2>1, LeaveStates
  <2>3. \A t \in Timers : status'[t] # "freed" => status'[t] = status[t] /\ timer'[t] = timer[t]
    BY <1>0, <2>2
  <2>4. ASSUME NEW t \in Timers, resets = 0, status'[t] \in {"active", "inactive"},
               timer'[t].repeat # Infinite, t \in fired
        PROVE  FALSE
    <3>1. status'[t] = status[t] /\ timer'[t] = timer[t]
      BY <2>3, <2>4
    <3>2. cur = t /\ t \in pending /\ timer[t].destroy
      BY <1>0, <2>4, <3>1
    <3>3. status'[t] = "freed"
      BY <1>0, <2>2, <3>2
    <3> QED
      BY <2>4, <3>3
  <2>5. \A t \in Timers : status'[t] = "new" => t \notin fired
    BY <1>0, <2>3
  <2>6. resets = 0 =>
            \A t \in Timers :
               status'[t] \in {"active", "inactive"} /\ timer'[t].repeat # Infinite =>
                   (t \in pending' => timer'[t].destroy)
    BY <1>0, <2>2, <2>3
  <2> QED
    BY <2>1, <2>4, <2>5, <2>6 DEF OneShots
<1>7. ASSUME NEW level \in Levels, ListDone(level)
      PROVE  OneShots'
  <2>1. /\ loop = Walking[level] /\ UNCHANGED <<status, timer, fired, resets, pending>>
    BY <1>7 DEF ListDone, AtList, timerState, history
  <2>2. loop # "callback-timers"
    BY <2>1 DEF Walking, Levels
  <2> QED
    BY <1>1, <2>1, <2>2
<1>8. CASE ReadsFreed
  <2>1. /\ UNCHANGED <<status, timer, fired, resets, pending>> /\ cur # Null
        /\ status[cur] = "freed"
    BY <1>8 DEF ReadsFreed, timerState, lists, history
  <2> QED
    BY <1>0, <2>1 DEF OneShots
<1>9. CASE HandlePost
  BY <1>1, <1>9 DEF HandlePost, timerState, lists, history
<1>10. ASSUME NEW t \in Timers, NEW kind, Add(t, kind[1], kind[2])
       PROVE  OneShots'
  <2>1. /\ status[t] = "new" /\ status' = [status EXCEPT ![t] = "active"]
        /\ \E f : timer' = [timer EXCEPT ![t] = f]
        /\ UNCHANGED <<fired, resets, pending, loop, cur>>
    BY <1>10 DEF Add, lists, history
  <2>2. \A u \in Timers : u # t => timer'[u] = timer[u]
    BY <2>1 DEF TimerTypes
  <2>3. t \notin fired /\ t \notin pending
    BY <1>0, <2>1 DEF Lives
  <2> QED
    BY <1>0, <2>1, <2>2, <2>3 DEF OneShots
<1>11. ASSUME NEW t \in Timers, Del(t)
       PROVE  OneShots'
  <2>1. /\ pending' = pending /\ fired' = fired /\ loop' = loop /\ cur' = cur /\ resets' = resets
        /\ \/ status[t] = "inactive" /\ status' = status /\ timer' = timer
           \/ /\ status[t] = "active" /\ t \notin pending
              /\ status' = [status EXCEPT ![t] = "freed"]
              /\ \A u \in Timers : u # t => timer'[u] = timer[u]
           \/ /\ status[t] = "active" /\ t \in pending
              /\ status' = [status EXCEPT ![t] = "inactive"]
              /\ timer'[t].destroy /\ timer'[t].repeat = timer[t].repeat
              /\ \A u \in Timers : u # t => timer'[u] = timer[u]
    BY <1>11, DelStates
  <2>2. CASE status[t] = "inactive" /\ status' = status /\ timer' = timer
    BY <1>0, <2>1, <2>2 DEF OneShots
  <2>3. CASE /\ status' = [status EXCEPT ![t] = "freed"]
             /\ \A u \in Timers : u # t => timer'[u] = timer[u]
    BY <1>0, <2>1, <2>3 DEF OneShots
  <2>4. CASE /\ status[t] = "active" /\ status' = [status EXCEPT ![t] = "inactive"]
             /\ timer'[t].destroy /\ timer'[t].repeat = timer[t].repeat
             /\ \A u \in Timers : u # t => timer'[u] = timer[u]
    BY <1>0, <2>1, <2>4 DEF OneShots
  <2> QED
    BY <2>1, <2>2, <2>3, <2>4
<1>12. ASSUME NEW t \in Timers, Reset(t)
       PROVE  OneShots'
  <2>1. /\ resets' = resets + 1 /\ fired' = fired /\ status' = [status EXCEPT ![t] = "active"]
    BY <1>12 DEF Reset
  <2>2. resets' # 0
    BY <2>1 DEF TimerTypes
  <2> QED
    BY <1>0, <2>1, <2>2 DEF OneShots
<1>13. CASE PostByte \/ PostPush
  BY <1>1, <1>13 DEF PostByte, PostPush, timerState, lists, history
<1>14. CASE UNCHANGED vars
  BY <1>1, <1>14 DEF vars, timerState, lists, history
<1> QED
  BY <1>2, <1>3, <1>4, <1>5, <1>6, <1>7, <1>8, <1>9, <1>10, <1>11, <1>12, <1>13, <1>14
  DEF Next, Turn, Use

\* The posted events, between the poster and the loop.
LEMMA StepPosted ==
  ASSUME Posted, [Next]_vars
  PROVE  Posted'
<1>0. /\ locked \in BOOLEAN /\ posts \in 0 .. MaxPosts
      /\ custom \in Seq(Nat) /\ handled \in Seq(Nat)
      /\ \A i \in 1 .. Len(handled) : handled[i] = i
      /\ \A i \in 1 .. Len(custom) : custom[i] = Len(handled) + i
      /\ posts = Len(handled) + Len(custom) + (IF locked THEN 1 ELSE 0)
      /\ bytes = Len(custom) + (IF locked THEN 1 ELSE 0)
      /\ MaxPosts \in Nat
  BY HloopAssumption DEF Posted
<1>1. ASSUME UNCHANGED posting
      PROVE  Posted'
  BY <1>1 DEF posting, Posted
<1>2. CASE HandlePost
  <2>1. /\ ~ locked /\ bytes > 0 /\ bytes' = bytes - 1 /\ locked' = locked /\ posts' = posts
        /\ IF custom = <<>>
           THEN UNCHANGED <<custom, handled>>
           ELSE handled' = Append(handled, custom[1]) /\ custom' = Tail(custom)
    BY <1>2 DEF HandlePost
  <2>2. Len(custom) > 0 /\ Len(custom) \in Nat /\ custom # <<>>
    BY <1>0, <2>1
  <2>3. custom[1] = Len(handled) + 1
    BY <1>0, <2>2
  <2>4. /\ handled' \in Seq(Nat) /\ Len(handled') = Len(handled) + 1
        /\ \A i \in 1 .. Len(handled') : handled'[i] = i
    <3>1. handled' = Append(handled, Len(handled) + 1)
      BY <2>1, <2>2, <2>3
    <3> QED
      BY <1>0, <3>1
  <2>5. /\ custom' \in Seq(Nat) /\ Len(custom') = Len(custom) - 1
        /\ \A i \in 1 .. Len(custom') : custom'[i] = Len(handled) + 1 + i
    <3>1. custom' = Tail(custom)
      BY <2>1, <2>2
    <3> QED
      BY <1>0, <2>2, <3>1
  <2> QED
    BY <1>0, <2>1, <2>4, <2>5 DEF Posted
<1>3. CASE PostByte
  <2>1. /\ ~ locked /\ posts < MaxPosts /\ locked' = TRUE /\ posts' = posts + 1
        /\ bytes' = bytes + 1 /\ custom' = custom /\ handled' = handled
    BY <1>3 DEF PostByte
  <2>2. posts' \in 0 .. MaxPosts /\ Len(custom) \in Nat /\ Len(handled) \in Nat
    BY <1>0, <2>1
  <2> QED
    BY <1>0, <2>1, <2>2 DEF Posted
<1>4. CASE PostPush
  <2>1. /\ locked /\ custom' = Append(custom, posts) /\ ~ locked' /\ locked' \in BOOLEAN
        /\ bytes' = bytes /\ posts' = posts /\ handled' = handled
    BY <1>4 DEF PostPush
  <2>2. posts = Len(handled) + Len(custom) + 1 /\ Len(custom) \in Nat /\ Len(handled) \in Nat
    BY <1>0, <2>1
  <2>3. /\ custom' \in Seq(Nat) /\ Len(custom') = Len(custom) + 1
        /\ \A i \in 1 .. Len(custom') : custom'[i] = Len(handled) + i
    <3>1. posts \in Nat /\ custom' = Append(custom, posts)
      BY <1>0, <2>1
    <3>2. custom' \in Seq(Nat) /\ Len(custom') = Len(custom) + 1
      BY <1>0, <3>1
    <3>3. /\ \A i \in 1 .. Len(custom) : custom'[i] = custom[i]
          /\ custom'[Len(custom) + 1] = posts
      BY <1>0, <3>1
    <3>4. ASSUME NEW i \in 1 .. Len(custom')
          PROVE  custom'[i] = Len(handled) + i
      <4>1. i \in 1 .. Len(custom) \/ i = Len(custom) + 1
        BY <2>2, <3>2
      <4>2. CASE i \in 1 .. Len(custom)
        BY <1>0, <3>3, <4>2
      <4>3. CASE i = Len(custom) + 1
        BY <2>2, <3>3, <4>3
      <4> QED
        BY <4>1, <4>2, <4>3
    <3> QED
      BY <3>2, <3>4
  <2> QED
    BY <1>0, <2>1, <2>2, <2>3 DEF Posted
<1>5. ASSUME NEW level, Visit(level) \/ Pass(level) \/ Return(level) \/ ListDone(level)
      PROVE  Posted'
  BY <1>1, <1>5 DEF Visit, Pass, Return, ListDone
<1>6. ASSUME NEW first, NEW second, NEW time, Poll(first, second, time)
      PROVE  Posted'
  BY <1>1, <1>6, Zenon DEF Poll
<1>7. CASE ProcessTimer
  BY <1>1, <1>7, Zenon DEF ProcessTimer
<1>8. CASE TimersDone \/ ReadsFreed
  BY <1>1, <1>8 DEF TimersDone, ReadsFreed
<1>9. ASSUME NEW t, NEW kind, Add(t, kind[1], kind[2]) \/ Del(t) \/ Reset(t)
      PROVE  Posted'
  <2>1. UNCHANGED posting
    BY <1>9, Zenon DEF Add, Del, Reset, posting
  <2> QED
    BY <1>1, <2>1
<1>10. CASE UNCHANGED vars
  BY <1>1, <1>10 DEF vars
<1> QED
  BY <1>2, <1>3, <1>4, <1>5, <1>6, <1>7, <1>8, <1>9, <1>10 DEF Next, Turn, Use

LEMMA InitRest ==
  ASSUME Init
  PROVE  OneShots /\ Posted
<1>1. /\ status = [ev \in Events |-> IF ev \in Ios THEN "active" ELSE "new"] /\ fired = {}
      /\ pending = {}
  BY DEF Init
<1>2. \A t \in Timers : status[t] = "new"
  BY <1>1, EventFacts
<1>3. OneShots
  BY <1>1, <1>2 DEF OneShots
<1>4. Posted
  <2>1. /\ bytes = 0 /\ custom = <<>> /\ locked = FALSE /\ posts = 0 /\ handled = <<>>
        /\ MaxPosts \in Nat
    BY HloopAssumption DEF Init
  <2>2. custom \in Seq(Nat) /\ handled \in Seq(Nat) /\ Len(custom) = 0 /\ Len(handled) = 0
    BY <2>1
  <2>3. locked \in BOOLEAN /\ ~ locked
    BY <2>1, Zenon
  <2>4. posts = 0 /\ bytes = 0 /\ posts \in 0 .. MaxPosts
    BY <2>1
  <2> QED
    BY <2>2, <2>3, <2>4 DEF Posted
<1> QED
  BY <1>3, <1>4

-----------------------------------------------------------------------------
LEMMA InitIInv ==
  ASSUME Init
  PROVE  IInv
BY InitTimers, InitLists, InitRest DEF IInv

LEMMA StepIInv ==
  ASSUME IInv, [Next]_vars
  PROVE  IInv'
<1>1. /\ TimerTypes /\ ListTypes /\ HeapHolds /\ Lives /\ Chains /\ Crashes /\ OneShots /\ Posted
  BY DEF IInv
<1>2. TimerTypes' /\ HeapHolds'
  BY <1>1, StepTimers
<1>3. ListTypes' /\ Chains' /\ Crashes'
  BY <1>1, StepLists
<1>4. Lives'
  BY <1>1, StepLives
<1>5. OneShots' /\ Posted'
  BY <1>1, StepOneShots, StepPosted
<1> QED
  BY <1>2, <1>3, <1>4, <1>5 DEF IInv

\* In every state of the loop its heap is a heap of the timers that are waiting,
\* its lists are chains that hold what is pending, an event is pending only
\* until it is freed, a timer that does not repeat is marked as destroyed before
\* it fires, and the posted events are those handled and those in custom_events.
THEOREM HloopInvariant == Spec => []IInv
<1>1. Spec => Init /\ [][Next]_vars
  BY PTL DEF Spec
<1>2. Init => IInv
  BY InitIInv
<1>3. IInv /\ [Next]_vars => IInv'
  BY StepIInv
<1> QED
  BY <1>1, <1>2, <1>3, PTL

\* hloop.c's state keeps its types: no list leaves the events there are, no
\* timer gets a timeout of 0, and the socket pair never holds more bytes than
\* hloop_post_event has written.
THEOREM HloopTypes == Spec => []TypeOK
<1>1. IInv => TypeOK
  <2>1. TimerTypes /\ ListTypes => /\ status \in [Events -> States] /\ timer \in [Timers -> TimerSet]
                                   /\ pending \subseteq Events
                                   /\ head \in [Levels -> Events \cup {Null}]
                                   /\ pending_next \in [Events -> Events \cup {Null}]
                                   /\ cur \in Events \cup {Null} /\ next \in Events \cup {Null}
                                   /\ now \in 0 .. MaxTime
    BY DEF TimerTypes, ListTypes
  <2>2. Posted => bytes \in 0 .. MaxPosts
    <3> SUFFICES ASSUME Posted
                 PROVE  bytes \in 0 .. MaxPosts
      OBVIOUS
    <3>1. Len(custom) \in Nat /\ Len(handled) \in Nat /\ MaxPosts \in Nat /\ posts \in 0 .. MaxPosts
      BY HloopAssumption DEF Posted
    <3> QED
      BY <3>1 DEF Posted
  <2> QED
    BY <2>1, <2>2 DEF IInv, TypeOK, States, TimerSet
<1> QED
  BY <1>1, HloopInvariant, PTL

\* heap.h and hloop.c together: whatever is added, deleted, reset or taken as
\* due, from whichever callback, the heap is ordered and well linked, and it and
\* loop->ntimers hold the timers that are not marked as destroyed.
THEOREM HeapAlwaysHoldsTheTimers == Spec => []HeapHoldsTheTimers
<1>1. IInv => HeapHoldsTheTimers
  <2> SUFFICES ASSUME IInv
               PROVE  HeapHoldsTheTimers
    OBVIOUS
  <2>1. HeapOf(heap, next_timeout, Live) /\ ntimers = heap.nelts
    BY DEF IInv, HeapHolds
  <2>2. IsHeap(heap, next_timeout) /\ Members(heap) = Live
    BY <2>1, HeapContents
  <2> QED
    BY <2>1, <2>2 DEF HeapHoldsTheTimers, Live
<1> QED
  BY <1>1, HloopInvariant, PTL

\* hloop_process_pendings and EVENT_DEL: the loop reads a freed event only after
\* htimer_reset has taken the bit of a timer that is in the list.
THEOREM CrashesAreResetTimers == Spec => []OnlyResetTimersCrash
<1>1. IInv => OnlyResetTimersCrash
  BY DEF IInv, Crashes, OnlyResetTimersCrash
<1> QED
  BY <1>1, HloopInvariant, PTL

\* hloop_post_event and sockpair_read_cb: outside the mutex there is a byte for
\* every event in custom_events, and what is handled came each once, in order.
THEOREM PostsAlwaysInOrder == Spec => []PostsInOrder
<1>1. IInv => PostsInOrder
  BY DEF IInv, Posted, PostsInOrder
<1> QED
  BY <1>1, HloopInvariant, PTL

\* htimer_del and __htimer_cb: after htimer_del no callback of the timer begins,
\* and a timer that does not repeat, and is not reset, fires once.
THEOREM DeletedTimersNeverFire == Spec => DeletedNeverFires
<1> DEFINE Fires == \A t \in Timers :
          loop = "pendings-timers" /\ loop' = "callback-timers" /\ cur' = t
              => /\ t \notin deleted
                 /\ (timer[t].repeat # Infinite /\ t \in fired) => resets > 0
<1>1. ASSUME IInv, [Next]_vars
      PROVE  Fires
  <2>1. SUFFICES ASSUME NEW t \in Timers, loop = "pendings-timers", loop' = "callback-timers",
                        cur' = t
                 PROVE  /\ t \notin deleted
                        /\ (timer[t].repeat # Infinite /\ t \in fired) => resets > 0
    BY Zenon
  <2>2. PICK level \in Levels : Visit(level)
    <3>1. ~ (\E first, second, time : Poll(first, second, time)) /\ ~ ProcessTimer
      BY <2>1, Zenon DEF Poll, ProcessTimer
    <3>2. ~ TimersDone /\ ~ ReadsFreed /\ ~ HandlePost /\ ~ PostByte /\ ~ PostPush
      BY <2>1 DEF TimersDone, ReadsFreed, HandlePost, PostByte, PostPush
    <3>3. \A level \in Levels : ~ Pass(level) /\ ~ Return(level) /\ ~ ListDone(level)
      BY <2>1 DEF Pass, Return, ListDone, Leave, Levels, Walking
    <3>4. ~ Use /\ ~ UNCHANGED vars
      <4>1. ~ InCallback /\ loop' # loop
        BY <2>1 DEF InCallback
      <4> QED
        BY <4>1, Zenon DEF Use, Add, Del, Reset, vars
    <3> QED
      BY <1>1, <3>1, <3>2, <3>3, <3>4, Zenon DEF Next, Turn
  <2>3. cur = t /\ status[t] = "active" /\ t \in pending
    BY <2>1, <2>2 DEF Visit
  <2>4. t \notin deleted
    BY <1>1, <2>3 DEF IInv, Lives
  <2>5. resets = 0 /\ timer[t].repeat # Infinite => t \notin fired
    BY <1>1, <2>1, <2>3 DEF IInv, OneShots
  <2>6. resets \in Nat
    BY <1>1 DEF IInv, TimerTypes
  <2> QED
    BY <2>4, <2>5, <2>6
<1>2. Spec => [][Next]_vars
  BY PTL DEF Spec
<1>3. IInv /\ [Next]_vars => [Fires]_vars
  BY <1>1
<1> HIDE DEF Fires
<1>4. Spec => [][Fires]_vars
  BY <1>2, <1>3, HloopInvariant, PTL
<1> QED
  BY <1>4 DEF DeletedNeverFires, Fires

\* __hloop_process_timers: when the loop goes on to the pending lists, no timer
\* that is due is left in the heap, whatever callbacks have made of the heap.
THEOREM DueTimersAreTaken == Spec => AllDueTaken
<1> DEFINE Taken == loop = "timers" /\ loop' # "timers" =>
          \A t \in Timers : status[t] = "active" /\ ~ timer[t].destroy => next_timeout[t] > now
<1>1. ASSUME IInv, [Next]_vars
      PROVE  Taken
  <2> SUFFICES ASSUME loop = "timers", loop' # "timers", NEW t \in Timers,
                      status[t] = "active", ~ timer[t].destroy
               PROVE  next_timeout[t] > now
    BY Zenon
  <2>1. ~ Due
    <3>1. ~ (\E first, second, time : Poll(first, second, time)) /\ ~ ProcessTimer
      BY Zenon DEF Poll, ProcessTimer
    <3>2. ~ ReadsFreed /\ ~ HandlePost /\ ~ PostByte /\ ~ PostPush
      BY DEF ReadsFreed, HandlePost, PostByte, PostPush
    <3>3. \A level \in Levels : ~ Visit(level) /\ ~ Pass(level) /\ ~ Return(level) /\ ~ ListDone(level)
      BY DEF Visit, Pass, Return, ListDone, AtList, Levels, Walking, Calling
    <3>4. ~ Use /\ ~ UNCHANGED vars
      <4>1. ~ InCallback /\ loop' # loop
        BY DEF InCallback
      <4> QED
        BY <4>1, Zenon DEF Use, Add, Del, Reset, vars
    <3>5. TimersDone
      BY <1>1, <3>1, <3>2, <3>3, <3>4, Zenon DEF Next, Turn
    <3> QED
      BY <3>5 DEF TimersDone
  <2>2. t \in Live /\ HeapOf(heap, next_timeout, Live) /\ next_timeout \in Keys /\ now \in Int
    BY <1>1 DEF IInv, HeapHolds, TimerTypes, Live
  <2>3. heap.root \in Live /\ next_timeout[heap.root] <= next_timeout[t]
    BY <2>2, RootIsEarliest
  <2>4. heap.root \in Timers /\ heap.root # Null
    BY <2>3, NullIsNone DEF Live
  <2>5. ~ (next_timeout[heap.root] <= now)
    BY <2>1, <2>4 DEF Due
  <2> QED
    BY <2>2, <2>3, <2>4, <2>5 DEF Keys
<1>2. Spec => [][Next]_vars
  BY PTL DEF Spec
<1>3. IInv /\ [Next]_vars => [Taken]_vars
  BY <1>1
<1> HIDE DEF Taken
<1>4. Spec => [][Taken]_vars
  BY <1>2, <1>3, HloopInvariant, PTL
<1> QED
  BY <1>4 DEF AllDueTaken, Taken
=============================================================================
