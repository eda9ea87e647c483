------------------------------- MODULE HvHeap -------------------------------
(***************************************************************************)
(* libhv's heap.h, the heap of a loop's timers: a binary tree of nodes     *)
(* with three pointers each, whose n-th node in level order is found by    *)
(* the bits of n.  An operation maps a heap to a heap, as it runs in one   *)
(* thread; key[n] is what compare looks at.                                *)
(***************************************************************************)
EXTENDS Integers, FiniteSets

Null == 0

EmptyHeap(Nodes) ==
    [root |-> Null, nelts |-> 0, parent |-> [n \in Nodes |-> Null],
     left |-> [n \in Nodes |-> Null], right |-> [n \in Nodes |-> Null]]

\* The store n->field = v, if n is not NULL.
Store(field, n, v) == IF n = Null THEN field ELSE [field EXCEPT ![n] = v]

\* Every pointer to s at a node above it, or the root, becomes r.
Reparented(h, s, r) ==
    LET p == h.parent[s] IN
    [h EXCEPT !.root = IF p = Null THEN r ELSE @,
              !.left = IF p # Null /\ h.left[p] = s THEN Store(@, p, r) ELSE @,
              !.right = IF p # Null /\ h.left[p] # s /\ h.right[p] = s THEN Store(@, p, r) ELSE @]

HeapReplace(h, s, r) ==
    LET g == Reparented(h, s, r) IN
    [g EXCEPT !.parent = [Store(Store(@, h.left[s], r), h.right[s], r) EXCEPT ![r] = h.parent[s]],
              !.left[r] = g.left[s],
              !.right[r] = g.right[s]]

HeapSwap(h, p, c) ==
    LET g == Reparented(h, p, c)
        onLeft == h.left[p] = c
        sibling == IF onLeft THEN h.right[p] ELSE h.left[p] IN
    [g EXCEPT !.parent = Store([Store(Store(@, h.left[c], p), h.right[c], p)
                                    EXCEPT ![c] = h.parent[p], ![p] = c], sibling, c),
              !.left = [@ EXCEPT ![c] = IF onLeft THEN p ELSE sibling, ![p] = h.left[c]],
              !.right = [@ EXCEPT ![c] = IF onLeft THEN sibling ELSE p, ![p] = h.right[c]]]

SwapUp(h, key, v) ==
    LET p == h.parent[v] IN
    IF p # Null /\ key[v] < key[p] THEN HeapSwap(h, p, v) ELSE h

SwapDown(h, key, v) ==
    LET l == h.left[v]
        r == h.right[v]
        est1 == IF l # Null /\ ~ key[v] < key[l] THEN l ELSE v
        est == IF r # Null /\ ~ key[est1] < key[r] THEN r ELSE est1 IN
    IF est = v THEN h ELSE HeapSwap(h, v, est)

\* F(v), with v evaluated first: TLC would evaluate it at each use.
Applied(F(_), v) == CHOOSE r \in {F(x) : x \in {v}} : TRUE

\* The loops, which swap until nothing changes: in nelts rounds at most.
SiftUp(h, key, v) ==
    LET Once(g) == SwapUp(g, key, v)
        up[k \in 0 .. h.nelts] == IF k = 0 THEN h ELSE Applied(Once, up[k - 1]) IN
    up[h.nelts]

SiftDown(h, key, v) ==
    LET Once(g) == SwapDown(g, key, v)
        down[k \in 0 .. h.nelts] == IF k = 0 THEN h ELSE Applied(Once, down[k - 1]) IN
    down[h.nelts]

\* The node where the path given by the bits of n ends.
At(h, n) ==
    LET at[m \in 1 .. n] ==
            IF m = 1 THEN h.root
            ELSE IF m % 2 = 1 THEN h.right[at[m \div 2]] ELSE h.left[at[m \div 2]] IN
    at[n]

HeapInsert(h, key, v) ==
    LET n == h.nelts + 1
        p == IF n = 1 THEN Null ELSE At(h, n \div 2)
        g == [h EXCEPT !.nelts = n,
                       !.root = IF n = 1 THEN v ELSE @,
                       !.parent[v] = p,
                       !.left = IF n % 2 = 0 THEN Store(@, p, v) ELSE @,
                       !.right = IF n > 1 /\ n % 2 = 1 THEN Store(@, p, v) ELSE @]
        Up(x) == SiftUp(x, key, v) IN
    Applied(Up, g)

HeapRemove(h, key, v) ==
    LET n == h.nelts
        p == At(h, n \div 2)
        last == At(h, n)
        g == [h EXCEPT !.nelts = n - 1,
                       !.left = IF n % 2 = 0 THEN Store(@, p, Null) ELSE @,
                       !.right = IF n % 2 = 1 THEN Store(@, p, Null) ELSE @]
        Cleared(x) == [x EXCEPT !.parent[v] = Null, !.left[v] = Null, !.right[v] = Null]
        Down(x) == SiftDown(x, key, last)
        Up(x) == SiftUp(x, key, last) IN
    CASE n = 0 -> h
      [] n = 1 -> [h EXCEPT !.nelts = 0, !.root = IF @ = v THEN Null ELSE @]
      [] OTHER -> Applied(Up, Applied(Down, Applied(Cleared, HeapReplace(g, v, last))))
-----------------------------------------------------------------------------
\* The nodes that the paths of 1 .. nelts lead to.
Members(h) == {At(h, n) : n \in 1 .. h.nelts}

\* What heap.h has to keep: a complete tree whose pointers agree in both
\* directions, no node under one with a later key.
IsHeap(h, key) ==
    /\ Cardinality(Members(h)) = h.nelts /\ Null \notin Members(h)
    /\ h.nelts = 0 <=> h.root = Null
    /\ h.nelts > 0 => h.parent[h.root] = Null
    /\ \A n \in 1 .. h.nelts :
           LET v == At(h, n) IN
           /\ h.left[v] = IF 2 * n <= h.nelts THEN At(h, 2 * n) ELSE Null
           /\ h.right[v] = IF 2 * n < h.nelts THEN At(h, 2 * n + 1) ELSE Null
           /\ n > 1 => /\ h.parent[v] = At(h, n \div 2)
                       /\ key[h.parent[v]] <= key[v]
=============================================================================
