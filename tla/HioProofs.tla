------------------------------ MODULE HioProofs ------------------------------
(***************************************************************************)
(* For any number of connections on the descriptor and any number of       *)
(* writes of the two threads: as long as no connection was closed in the   *)
(* middle of a hio_write of the other thread (late), frames stay whole and *)
(* in order, what waits in write_queue is watched for, and nothing of a    *)
(* closed connection meets the next one.                                   *)
(***************************************************************************)
EXTENDS Hio, SequenceTheorems, WellFoundedInduction, TLAPS

FrameSet == [to : Conns, n : 1 .. MaxWrites]
PieceSet == [frame : FrameSet, piece : {1, 2}]
Posts == [id : Nat, to : Conns]

IoSet == [ready : BOOLEAN, closed : BOOLEAN, close : BOOLEAN, error : BOOLEAN,
          close_cb : BOOLEAN, id : Nat, events : SUBSET {"read", "write"}]

\* The hio_t and what the kernel knows of its descriptor.
IoTypes ==
    /\ io \in IoSet /\ ids \in Nat /\ io.id <= ids
    /\ timer \in Conns \cup {NoConn} /\ strays \subseteq Conns /\ rearmed \in BOOLEAN
    /\ sock \in {NoConn, accepts} /\ accepts \in Conns \cup {NoConn}
    /\ watched \subseteq {"read", "write"} /\ (sock = NoConn => watched = {})
    /\ listed \subseteq Conns /\ late \in BOOLEAN

\* What is written, and where the two threads are.
Threads == {"poll", "close", "write", "drained", "done", "del", "clean", "callback", "closefd"}

WriteTypes ==
    /\ queue \in Seq(FrameSet) /\ sent \in 0 .. 1 /\ (queue = <<>> => sent = 0)
    /\ log \in [Conns -> Seq(FrameSet)] /\ wire \in [Conns -> Seq(PieceSet)]
    /\ writes \in 0 .. MaxWrites /\ loop \in Threads
    /\ loop = "write" => sock # NoConn
    /\ vty \in {"idle", "checked", "enqueue", "failed"}
    /\ vty # "idle" => frame.f \in FrameSet
    /\ vty = "enqueue" => frame.taken \in 0 .. 1
    /\ frame = [f |-> frame.f, taken |-> frame.taken]
    /\ posted \in Seq(Posts)

Types == IoTypes /\ WriteTypes

\* The connection is there for both threads.
Open == sock # NoConn /\ ~ io.closed

\* Where hio_close is after it has set closed, and where it has emptied the queue.
Ends == {"del", "clean", "callback", "closefd"}
Emptied == sock = NoConn \/ loop \in {"callback", "closefd"}

\* A connection is closed only by the steps of hio_close, and opened by Accept.
Life ==
    /\ loop \in {"write", "drained", "done"} => Open
    /\ loop \in Ends => sock # NoConn /\ io.closed
    /\ loop \in {"poll", "close"} /\ io.closed => sock = NoConn
    /\ sock = NoConn /\ ~ io.closed => accepts = NoConn
    /\ accepts = NoConn => posted = <<>> /\ timer = NoConn /\ strays = {} /\ loop = "poll"
    /\ io.ready <=> Open
    /\ sock # NoConn => io.close_cb
    /\ vty # "idle" => Open /\ frame.f.to = sock
    /\ listed = IF sock = NoConn \/ loop = "closefd" THEN {} ELSE {sock}

\* epoll watches what io->events says, the read event as long as the io is there.
Watching ==
    IF sock = NoConn \/ loop \in {"clean", "callback", "closefd"}
    THEN io.events = {} /\ watched = {}
    ELSE /\ watched = io.events /\ "read" \in io.events
         /\ io.ready /\ queue # <<>> => "write" \in io.events

\* No timer is left when its connection is closed, unless it was started twice.
Timing ==
    /\ sock = NoConn \/ loop = "closefd" => timer = NoConn
    /\ ~ rearmed => strays = {}

\* A posted close carries the id of its own connection.
Posting == \A i \in 1 .. Len(posted) :
    posted[i].id <= ids /\ (posted[i].id = io.id => posted[i].to = accepts)

\* What the peer of c has got, and what is still on its way, are what was written.
Delivered(c) == IsPrefix(wire[c], PiecesOf(log[c]))
Streaming ==
    /\ \A c \in Conns : Delivered(c)
    /\ \A c \in Conns : c > accepts => wire[c] = <<>> /\ log[c] = <<>>
    /\ Emptied => queue = <<>>
    /\ Locked => /\ queue = <<>>
                 /\ wire[sock] \o Drop(frame.taken, Pieces(frame.f)) = PiecesOf(log[sock])
    /\ Open /\ ~ Locked => wire[sock] \o Unsent = PiecesOf(log[sock])

Calm == Life /\ Watching /\ Timing /\ Posting /\ Streaming

Inv == Types /\ (~ late => Calm)


-----------------------------------------------------------------------------
(* The pieces of a sequence of frames *)

\* The i-th piece, and the pieces of the first n frames.
Piece(fs, i) == [frame |-> fs[(i + 1) \div 2], piece |-> IF i % 2 = 1 THEN 1 ELSE 2]
Flat(fs, n) == [i \in 1 .. 2 * n |-> Piece(fs, i)]

\* g has the equation of the function in FlattenSeq.
Flattens(s, g) == g = [i \in 1 .. Len(s) |-> IF i = 1 THEN s[i] ELSE g[i - 1] \o s[i]]

\* Two functions with that equation are one: look at the first argument they differ on.
LEMMA OneFlattening ==
  ASSUME NEW s, Len(s) \in Nat, NEW G, NEW H, Flattens(s, G), Flattens(s, H)
  PROVE  G = H
<1>0. /\ G = [i \in 1 .. Len(s) |-> IF i = 1 THEN s[i] ELSE G[i - 1] \o s[i]]
      /\ H = [i \in 1 .. Len(s) |-> IF i = 1 THEN s[i] ELSE H[i - 1] \o s[i]]
  BY DEF Flattens
<1> DEFINE D == {i \in 1 .. Len(s) : G[i] # H[i]}
<1>1. D = {}
  <2> SUFFICES ASSUME D # {} PROVE FALSE
    OBVIOUS
  <2>1. PICK i \in D : \A j \in D : ~ (<<j, i>> \in OpToRel(<, Nat))
    <3>1. D \subseteq Nat
      OBVIOUS
    <3> HIDE DEF D
    <3> QED
      BY <3>1, NatLessThanWellFounded, WFMin, Zenon
  <2>2. i \in 1 .. Len(s) /\ G[i] # H[i]
    OBVIOUS
  <2>3. CASE i = 1
    BY <1>0, <2>2, <2>3
  <2>4. CASE i # 1
    <3>1. i - 1 \in 1 .. Len(s) /\ i - 1 \in Nat /\ i \in Nat /\ i - 1 < i
      BY <2>2, <2>4
    <3>2. <<i - 1, i>> \in OpToRel(<, Nat)
      BY <3>1 DEF OpToRel
    <3>3. i - 1 \notin D
      BY <2>1, <3>2
    <3>4. G[i - 1] = H[i - 1]
      BY <3>1, <3>3
    <3>5. G[i] = G[i - 1] \o s[i] /\ H[i] = H[i - 1] \o s[i]
      BY <1>0, <2>2, <2>4, Zenon
    <3> QED
      BY <2>2, <3>4, <3>5, Zenon
  <2> QED
    BY <2>3, <2>4
<1>2. \A i \in 1 .. Len(s) : G[i] = H[i]
  BY <1>1
<1>3. G = [i \in 1 .. Len(s) |-> G[i]] /\ H = [i \in 1 .. Len(s) |-> H[i]]
  BY <1>0
<1> QED
  BY <1>2, <1>3

\* One frame more is two pieces more.
LEMMA FlatGrows ==
  ASSUME NEW fs, NEW n \in Nat
  PROVE  Flat(fs, n + 1) = Flat(fs, n) \o Pieces(fs[n + 1])
<1> DEFINE f == fs[n + 1]
           p == Pieces(f)
           a == Flat(fs, n)
           b == Flat(fs, n + 1)
<1>1. Len(p) = 2 /\ p[1] = [frame |-> f, piece |-> 1] /\ p[2] = [frame |-> f, piece |-> 2]
      /\ p = [i \in 1 .. 2 |-> p[i]]
  BY DEF Pieces
<1>2. /\ a = [i \in 1 .. 2 * n |-> Piece(fs, i)] /\ Len(a) = 2 * n
      /\ b = [i \in 1 .. 2 * n + 2 |-> Piece(fs, i)]
  BY DEF Flat
<1>4. Piece(fs, 2 * n + 1) = p[1] /\ Piece(fs, 2 * n + 2) = p[2]
  <2>1. (2 * n + 1 + 1) \div 2 = n + 1 /\ (2 * n + 1) % 2 = 1
    OBVIOUS
  <2>2. (2 * n + 2 + 1) \div 2 = n + 1 /\ (2 * n + 2) % 2 = 0
    OBVIOUS
  <2> QED
    BY <1>1, <2>1, <2>2 DEF Piece
<1>5. ASSUME NEW i \in 1 .. 2 * n + 2
      PROVE  Piece(fs, i) = IF i <= 2 * n THEN a[i] ELSE p[i - 2 * n]
  <2>1. CASE i <= 2 * n
    BY <1>2, <2>1
  <2>2. CASE i = 2 * n + 1
    BY <1>4, <2>2
  <2>3. CASE i = 2 * n + 2
    BY <1>4, <2>3
  <2> QED
    BY <2>1, <2>2, <2>3
<1> DEFINE S == {Piece(fs, i) : i \in 1 .. 2 * n + 2}
<1>6. a \in Seq(S) /\ b \in Seq(S) /\ p \in Seq(S)
  <2>1. p = <<Piece(fs, 2 * n + 1), Piece(fs, 2 * n + 2)>>
    BY <1>1, <1>4
  <2>2. Piece(fs, 2 * n + 1) \in S /\ Piece(fs, 2 * n + 2) \in S
    OBVIOUS
  <2>3. p \in Seq(S)
    BY <2>1, <2>2
  <2>4. \A i \in 1 .. 2 * n + 2 : Piece(fs, i) \in S
    OBVIOUS
  <2> HIDE DEF S, p
  <2>5. a \in Seq(S) /\ b \in Seq(S)
    BY <1>2, <2>4
  <2> QED
    BY <2>3, <2>5
<1>7. Len(b) = 2 * n + 2
  BY <1>2
<1> HIDE DEF a, b, p, S
<1>8. a \o p \in Seq(S) /\ Len(a \o p) = 2 * n + 2
      /\ \A i \in 1 .. 2 * n + 2 : (a \o p)[i] = IF i <= 2 * n THEN a[i] ELSE p[i - 2 * n]
  <2>1. Len(a) = 2 * n /\ Len(p) = 2
    BY <1>1, <1>2 DEF a, p
  <2>2. /\ a \o p \in Seq(S) /\ Len(a \o p) = Len(a) + Len(p)
        /\ \A i \in 1 .. Len(a) + Len(p) :
              (a \o p)[i] = IF i <= Len(a) THEN a[i] ELSE p[i - Len(a)]
    BY <1>6, ConcatProperties
  <2> QED
    BY <2>1, <2>2
<1>9. \A i \in 1 .. 2 * n + 2 : b[i] = (a \o p)[i]
  BY <1>2, <1>5, <1>8
<1>10. b = a \o p
  BY <1>6, <1>7, <1>8, <1>9, SeqEqual
<1> QED
  BY <1>10 DEF a, b, p, f

\* FlattenSeq puts the pieces of the frames one behind the other.
LEMMA PiecesAre ==
  ASSUME NEW T, NEW fs \in Seq(T)
  PROVE  PiecesOf(fs) = Flat(fs, Len(fs))
<1> DEFINE n == Len(fs)
           s == [i \in 1 .. n |-> Pieces(fs[i])]
           H == [i \in 1 .. n |-> Flat(fs, i)]
<1>1. n \in Nat /\ Len(s) = n
  OBVIOUS
<1>2. CASE n = 0
  <2>1. s = <<>>
    BY <1>2
  <2>2. FlattenSeq(s) = s
    BY <1>1, <1>2 DEF FlattenSeq
  <2>3. Flat(fs, n) = <<>>
    BY <1>2 DEF Flat
  <2> QED
    BY <2>1, <2>2, <2>3 DEF PiecesOf
<1>3. CASE n # 0
  <2>1. ASSUME NEW i \in 1 .. n
        PROVE  H[i] = IF i = 1 THEN s[i] ELSE H[i - 1] \o s[i]
    <3>1. i - 1 \in Nat /\ (i - 1) + 1 = i /\ H[i] = Flat(fs, i) /\ s[i] = Pieces(fs[i])
      BY <1>1
    <3>2. Flat(fs, i) = Flat(fs, i - 1) \o s[i]
      BY <3>1, FlatGrows
    <3>3. CASE i = 1
      <4>1. Flat(fs, i - 1) = <<>>
        BY <3>3 DEF Flat
      <4>2. s[i] = <<[frame |-> fs[i], piece |-> 1], [frame |-> fs[i], piece |-> 2]>>
        BY <3>1 DEF Pieces
      <4>3. <<>> \o s[i] = s[i]
        BY <4>2
      <4> QED
        BY <3>1, <3>2, <3>3, <4>1, <4>3
    <3>4. CASE i # 1
      <4>1. i - 1 \in 1 .. n
        BY <1>1, <3>4
      <4>2. H[i - 1] = Flat(fs, i - 1)
        BY <4>1
      <4> QED
        BY <3>1, <3>2, <3>4, <4>2
    <3> QED
      BY <3>3, <3>4
  <2>2. Flattens(s, H)
    <3>1. H = [i \in 1 .. n |-> H[i]]
      OBVIOUS
    <3> HIDE DEF H, s
    <3> QED
      BY <1>1, <2>1, <3>1, Zenon DEF Flattens
  <2> HIDE DEF H, s
  <2>3. FlattenSeq(s) = (CHOOSE g : Flattens(s, g))[Len(s)]
    BY <1>1, <1>3, Zenon DEF FlattenSeq, Flattens
  <2>4. Flattens(s, CHOOSE g : Flattens(s, g))
    BY <2>2, Zenon
  <2>5. (CHOOSE g : Flattens(s, g)) = H
    BY <1>1, <2>2, <2>4, OneFlattening
  <2>6. H[n] = Flat(fs, n)
    BY <1>1, <1>3 DEF H
  <2> QED
    BY <1>1, <2>3, <2>5, <2>6 DEF PiecesOf, s
<1> QED
  BY <1>2, <1>3


\* The pieces of a sequence of frames, one by one.
LEMMA PiecesElements ==
  ASSUME NEW fs \in Seq(FrameSet)
  PROVE  /\ PiecesOf(fs) \in Seq(PieceSet) /\ Len(PiecesOf(fs)) = 2 * Len(fs)
         /\ \A i \in 1 .. 2 * Len(fs) : PiecesOf(fs)[i] = Piece(fs, i)
<1>0. Len(fs) \in Nat /\ PiecesOf(fs) = Flat(fs, Len(fs))
  BY PiecesAre
<1>1. ASSUME NEW i \in 1 .. 2 * Len(fs)
      PROVE  Piece(fs, i) \in PieceSet
  <2>1. (i + 1) \div 2 \in 1 .. Len(fs)
    BY <1>0
  <2>2. fs[(i + 1) \div 2] \in FrameSet
    BY <2>1, ElementOfSeq
  <2> QED
    BY <2>2 DEF Piece, PieceSet
<1>2. 2 * Len(fs) \in Nat
  BY <1>0
<1> DEFINE p == [i \in 1 .. 2 * Len(fs) |-> Piece(fs, i)]
<1>3. PiecesOf(fs) = p /\ \A i \in 1 .. 2 * Len(fs) : p[i] = Piece(fs, i)
  BY <1>0 DEF Flat
<1>4. p \in Seq(PieceSet) /\ Len(p) = 2 * Len(fs)
  BY <1>1, <1>2
<1> QED
  BY <1>3, <1>4

\* No frames, and one.
LEMMA PiecesOfFew ==
  /\ PiecesOf(<<>>) = <<>>
  /\ \A f \in FrameSet : /\ PiecesOf(<<f>>) = Pieces(f) /\ Len(Pieces(f)) = 2
                         /\ Pieces(f) \in Seq(PieceSet)
<1>1. PiecesOf(<<>>) = <<>>
  <2> DEFINE e == <<>>
  <2>1. e \in Seq(FrameSet) /\ Len(e) = 0 /\ 2 * 0 = 0
    OBVIOUS
  <2> HIDE DEF e
  <2>2. PiecesOf(e) \in Seq(PieceSet) /\ Len(PiecesOf(e)) = 2 * Len(e)
    BY <2>1, PiecesElements
  <2>3. PiecesOf(e) = <<>>
    BY <2>1, <2>2, EmptySeq
  <2> QED
    BY <2>3 DEF e
<1>2. ASSUME NEW f \in FrameSet
      PROVE  /\ PiecesOf(<<f>>) = Pieces(f) /\ Len(Pieces(f)) = 2
             /\ Pieces(f) \in Seq(PieceSet)
  <2> DEFINE fs == <<f>>
             p == Pieces(f)
             q == PiecesOf(fs)
  <2>1. fs \in Seq(FrameSet) /\ Len(fs) = 1 /\ fs[1] = f
    OBVIOUS
  <2> HIDE DEF fs
  <2>2. /\ q \in Seq(PieceSet) /\ Len(q) = 2
        /\ q[1] = Piece(fs, 1) /\ q[2] = Piece(fs, 2)
    <3>1. /\ q \in Seq(PieceSet) /\ Len(q) = 2 * Len(fs)
          /\ \A i \in 1 .. 2 * Len(fs) : q[i] = Piece(fs, i)
      BY <2>1, PiecesElements, Zenon
    <3> HIDE DEF q
    <3>2. 2 * Len(fs) = 2 /\ 1 \in 1 .. 2 /\ 2 \in 1 .. 2
      BY <2>1
    <3> QED
      BY <3>1, <3>2
  <2>3. /\ p = <<[frame |-> f, piece |-> 1], [frame |-> f, piece |-> 2]>>
        /\ [frame |-> f, piece |-> 1] \in PieceSet /\ [frame |-> f, piece |-> 2] \in PieceSet
    BY DEF Pieces, PieceSet
  <2>4. Piece(fs, 1) = [frame |-> f, piece |-> 1] /\ Piece(fs, 2) = [frame |-> f, piece |-> 2]
    <3>1. (1 + 1) \div 2 = 1 /\ (2 + 1) \div 2 = 1 /\ 1 % 2 = 1 /\ 2 % 2 = 0
      OBVIOUS
    <3> QED
      BY <2>1, <3>1 DEF Piece
  <2>5. Len(p) = 2 /\ p \in Seq(PieceSet) /\ p[1] = q[1] /\ p[2] = q[2]
    BY <2>2, <2>3, <2>4
  <2> HIDE DEF p, q
  <2>6. \A i \in 1 .. 2 : p[i] = q[i]
    BY <2>5
  <2>7. p = q
    BY <2>2, <2>5, <2>6, SeqEqual
  <2> QED
    BY <2>5, <2>7 DEF p, q, fs
<1> QED
  BY <1>1, <1>2

\* One frame more.
LEMMA PiecesOfMore ==
  ASSUME NEW fs \in Seq(FrameSet), NEW f \in FrameSet
  PROVE  PiecesOf(Append(fs, f)) = PiecesOf(fs) \o Pieces(f)
<1> DEFINE n == Len(fs)
           g == Append(fs, f)
<1>1. /\ n \in Nat /\ g \in Seq(FrameSet) /\ Len(g) = n + 1 /\ g[n + 1] = f
      /\ \A i \in 1 .. n : g[i] = fs[i]
  BY AppendProperties
<1> HIDE DEF g
<1>2. PiecesOf(g) = Flat(g, n + 1) /\ PiecesOf(fs) = Flat(fs, n)
  BY <1>1, PiecesAre
<1>3. Flat(g, n + 1) = Flat(g, n) \o Pieces(f)
  BY <1>1, FlatGrows
<1>4. Flat(g, n) = Flat(fs, n)
  <2>1. ASSUME NEW i \in 1 .. 2 * n
        PROVE  Piece(g, i) = Piece(fs, i)
    <3>1. (i + 1) \div 2 \in 1 .. n
      BY <1>1
    <3> QED
      BY <1>1, <3>1 DEF Piece
  <2> QED
    BY <2>1 DEF Flat
<1> QED
  BY <1>2, <1>3, <1>4 DEF g

\* What is first and what is left.
LEMMA DropElements ==
  ASSUME NEW T, NEW s \in Seq(T), NEW k \in 0 .. Len(s)
  PROVE  /\ Drop(k, s) \in Seq(T) /\ Len(Drop(k, s)) = Len(s) - k
         /\ \A i \in 1 .. Len(s) - k : Drop(k, s)[i] = s[k + i]
         /\ First(k, s) \in Seq(T) /\ Len(First(k, s)) = k
         /\ \A i \in 1 .. k : First(k, s)[i] = s[i]
<1>0. Len(s) \in Nat /\ k \in Nat /\ k + 1 \in Int /\ Len(s) \in Int /\ k \in Int
  OBVIOUS
<1>1. \A i \in k + 1 .. Len(s) : s[i] \in T
  BY <1>0, ElementOfSeq
<1>2. \A i \in 1 .. k : s[i] \in T
  BY <1>0, ElementOfSeq
<1>3. /\ SubSeq(s, k + 1, Len(s)) \in Seq(T)
      /\ Len(SubSeq(s, k + 1, Len(s))) = IF k + 1 <= Len(s) THEN Len(s) - (k + 1) + 1 ELSE 0
      /\ \A i \in 1 .. Len(s) - (k + 1) + 1 : SubSeq(s, k + 1, Len(s))[i] = s[(k + 1) + i - 1]
  BY <1>0, <1>1, SubSeqProperties
<1>4. /\ SubSeq(s, 1, k) \in Seq(T)
      /\ Len(SubSeq(s, 1, k)) = IF 1 <= k THEN k - 1 + 1 ELSE 0
      /\ \A i \in 1 .. k - 1 + 1 : SubSeq(s, 1, k)[i] = s[1 + i - 1]
  BY <1>0, <1>2, SubSeqProperties
<1> DEFINE d == SubSeq(s, k + 1, Len(s))
           e == SubSeq(s, 1, k)
<1> HIDE DEF d, e
<1>5. d \in Seq(T) /\ Len(d) = Len(s) - k /\ \A i \in 1 .. Len(s) - k : d[i] = s[k + i]
  BY <1>0, <1>3 DEF d
<1>6. e \in Seq(T) /\ Len(e) = k /\ \A i \in 1 .. k : e[i] = s[i]
  BY <1>0, <1>4 DEF e
<1> QED
  BY <1>5, <1>6 DEF d, e, Drop, First

\* Together they are the whole.
LEMMA FirstThenDrop ==
  ASSUME NEW T, NEW s \in Seq(T), NEW k \in 0 .. Len(s)
  PROVE  First(k, s) \o Drop(k, s) = s
<1> DEFINE d == Drop(k, s)
           e == First(k, s)
           n == Len(s)
<1>1. /\ n \in Nat /\ k \in Nat /\ k <= n
      /\ d \in Seq(T) /\ Len(d) = n - k /\ \A i \in 1 .. n - k : d[i] = s[k + i]
      /\ e \in Seq(T) /\ Len(e) = k /\ \A i \in 1 .. k : e[i] = s[i]
  BY DropElements
<1> HIDE DEF d, e
<1>2. /\ e \o d \in Seq(T) /\ Len(e \o d) = Len(e) + Len(d)
      /\ \A i \in 1 .. Len(e) + Len(d) : (e \o d)[i] = IF i <= Len(e) THEN e[i] ELSE d[i - Len(e)]
  BY <1>1, ConcatProperties
<1>3. ASSUME NEW i \in 1 .. n
      PROVE  (e \o d)[i] = s[i]
  <2>1. i \in 1 .. Len(e) + Len(d)
    BY <1>1
  <2>2. CASE i <= k
    BY <1>1, <1>2, <2>1, <2>2
  <2>3. CASE i > k
    <3>1. i - k \in 1 .. n - k /\ k + (i - k) = i
      BY <1>1, <2>3
    <3>2. d[i - k] = s[i]
      BY <1>1, <3>1
    <3> QED
      BY <1>1, <1>2, <2>1, <2>3, <3>2
  <2> QED
    BY <1>1, <2>2, <2>3
<1>4. Len(e \o d) = n
  BY <1>1, <1>2
<1>5. e \o d = s
  BY <1>2, <1>3, <1>4, SeqEqual
<1> QED
  BY <1>5 DEF d, e


\* To drop twice is to drop more.
LEMMA DropTwice ==
  ASSUME NEW T, NEW s \in Seq(T), NEW j \in Nat, NEW k \in Nat, j + k <= Len(s)
  PROVE  Drop(k, Drop(j, s)) = Drop(j + k, s)
<1> DEFINE a == Drop(j, s)
           b == Drop(k, a)
           c == Drop(j + k, s)
           n == Len(s)
<1>1. n \in Nat /\ j \in 0 .. n /\ j + k \in 0 .. n /\ k \in 0 .. n - j
  OBVIOUS
<1>2. a \in Seq(T) /\ Len(a) = n - j /\ \A i \in 1 .. n - j : a[i] = s[j + i]
  BY <1>1, DropElements
<1>3. /\ c \in Seq(T) /\ Len(c) = n - (j + k)
      /\ \A i \in 1 .. n - (j + k) : c[i] = s[(j + k) + i]
  BY <1>1, DropElements
<1> HIDE DEF a, c
<1>4. /\ b \in Seq(T) /\ Len(b) = n - j - k
      /\ \A i \in 1 .. n - j - k : b[i] = a[k + i]
  <2>1. k \in 0 .. Len(a)
    BY <1>1, <1>2
  <2>2. /\ b \in Seq(T) /\ Len(b) = Len(a) - k
        /\ \A i \in 1 .. Len(a) - k : b[i] = a[k + i]
    BY <1>2, <2>1, DropElements
  <2> QED
    BY <1>2, <2>2
<1> HIDE DEF b
<1>5. ASSUME NEW i \in 1 .. n - j - k
      PROVE  b[i] = c[i]
  <2>1. k + i \in 1 .. n - j /\ j + (k + i) = (j + k) + i /\ i \in 1 .. n - (j + k)
    BY <1>1
  <2>2. b[i] = a[k + i] /\ a[k + i] = s[j + (k + i)] /\ c[i] = s[(j + k) + i]
    BY <1>2, <1>3, <1>4, <2>1
  <2> QED
    BY <2>1, <2>2
<1>6. Len(b) = Len(c) /\ \A i \in 1 .. Len(b) : b[i] = c[i]
  BY <1>1, <1>3, <1>4, <1>5
<1>7. b = c
  BY <1>3, <1>4, <1>6, SeqEqual
<1> QED
  BY <1>7 DEF a, b, c

\* What is dropped of the first part does not touch the second.
LEMMA DropOfConcat ==
  ASSUME NEW T, NEW s \in Seq(T), NEW t \in Seq(T), NEW k \in 0 .. Len(s)
  PROVE  Drop(k, s \o t) = Drop(k, s) \o t
<1> DEFINE a == s \o t
           b == Drop(k, s)
           c == Drop(k, a)
           d == b \o t
           n == Len(s)
           m == Len(t)
<1>1. n \in Nat /\ m \in Nat /\ k \in Nat /\ k <= n
  OBVIOUS
<1>2. /\ a \in Seq(T) /\ Len(a) = n + m
      /\ \A i \in 1 .. n + m : a[i] = IF i <= n THEN s[i] ELSE t[i - n]
  BY ConcatProperties
<1>3. b \in Seq(T) /\ Len(b) = n - k /\ \A i \in 1 .. n - k : b[i] = s[k + i]
  BY DropElements
<1> HIDE DEF a, b
<1>4. /\ c \in Seq(T) /\ Len(c) = n + m - k
      /\ \A i \in 1 .. n + m - k : c[i] = a[k + i]
  <2>1. k \in 0 .. Len(a)
    BY <1>1, <1>2
  <2>2. /\ c \in Seq(T) /\ Len(c) = Len(a) - k
        /\ \A i \in 1 .. Len(a) - k : c[i] = a[k + i]
    BY <1>2, <2>1, DropElements
  <2> QED
    BY <1>2, <2>2
<1>5. /\ d \in Seq(T) /\ Len(d) = n - k + m
      /\ \A i \in 1 .. n - k + m : d[i] = IF i <= n - k THEN b[i] ELSE t[i - (n - k)]
  <2>1. /\ d \in Seq(T) /\ Len(d) = Len(b) + m
        /\ \A i \in 1 .. Len(b) + m : d[i] = IF i <= Len(b) THEN b[i] ELSE t[i - Len(b)]
    BY <1>3, ConcatProperties
  <2> HIDE DEF d
  <2> QED
    BY <1>3, <2>1
<1> HIDE DEF c, d
<1>6. ASSUME NEW i \in 1 .. n + m - k
      PROVE  c[i] = d[i]
  <2>1. k + i \in 1 .. n + m /\ i \in 1 .. n - k + m
    BY <1>1
  <2>2. CASE i <= n - k
    <3>1. i \in 1 .. n - k /\ k + i <= n
      BY <1>1, <2>2
    <3> QED
      BY <1>2, <1>3, <1>4, <1>5, <2>1, <2>2, <3>1
  <2>3. CASE i > n - k
    <3>1. ~ (i <= n - k) /\ ~ (k + i <= n) /\ k + i - n = i - (n - k)
      BY <1>1, <2>3
    <3>2. a[k + i] = t[k + i - n]
      BY <1>2, <2>1, <3>1
    <3>3. d[i] = t[i - (n - k)]
      BY <1>5, <2>1, <3>1
    <3>4. c[i] = a[k + i]
      BY <1>4
    <3> QED
      BY <3>1, <3>2, <3>3, <3>4, Zenon
  <2> QED
    BY <1>1, <2>2, <2>3
<1>7. Len(c) = Len(d) /\ \A i \in 1 .. Len(c) : c[i] = d[i]
  BY <1>1, <1>4, <1>5, <1>6
<1>8. c = d
  BY <1>4, <1>5, <1>7, SeqEqual
<1> QED
  BY <1>8 DEF a, b, c, d

\* A frame less is two pieces less.
LEMMA PiecesOfDrop ==
  ASSUME NEW fs \in Seq(FrameSet), NEW m \in 0 .. Len(fs)
  PROVE  PiecesOf(Drop(m, fs)) = Drop(2 * m, PiecesOf(fs))
<1> DEFINE g == Drop(m, fs)
           p == PiecesOf(fs)
           q == PiecesOf(g)
           d == Drop(2 * m, p)
           n == Len(fs)
<1>1. n \in Nat /\ m \in Nat /\ m <= n
  OBVIOUS
<1>2. g \in Seq(FrameSet) /\ Len(g) = n - m /\ \A i \in 1 .. n - m : g[i] = fs[m + i]
  BY DropElements
<1>3. p \in Seq(PieceSet) /\ Len(p) = 2 * n /\ \A i \in 1 .. 2 * n : p[i] = Piece(fs, i)
  BY PiecesElements
<1> HIDE DEF g, p
<1>4. /\ q \in Seq(PieceSet) /\ Len(q) = 2 * n - 2 * m
      /\ \A i \in 1 .. 2 * n - 2 * m : q[i] = Piece(g, i)
  <2>1. /\ q \in Seq(PieceSet) /\ Len(q) = 2 * Len(g)
        /\ \A i \in 1 .. 2 * Len(g) : q[i] = Piece(g, i)
    BY <1>2, PiecesElements, Zenon
  <2> HIDE DEF q
  <2>2. 2 * Len(g) = 2 * n - 2 * m
    BY <1>1, <1>2
  <2> QED
    BY <2>1, <2>2
<1>5. /\ d \in Seq(PieceSet) /\ Len(d) = 2 * n - 2 * m
      /\ \A i \in 1 .. 2 * n - 2 * m : d[i] = p[2 * m + i]
  <2>1. 2 * m \in 0 .. Len(p)
    BY <1>1, <1>3
  <2>2. /\ d \in Seq(PieceSet) /\ Len(d) = Len(p) - 2 * m
        /\ \A i \in 1 .. Len(p) - 2 * m : d[i] = p[2 * m + i]
    BY <1>3, <2>1, DropElements
  <2> HIDE DEF d
  <2> QED
    BY <1>3, <2>2
<1> HIDE DEF q, d
<1>6. ASSUME NEW i \in 1 .. 2 * n - 2 * m
      PROVE  q[i] = d[i]
  <2>1. 2 * m + i \in 1 .. 2 * n
    BY <1>1
  <2>2. q[i] = Piece(g, i) /\ d[i] = p[2 * m + i] /\ p[2 * m + i] = Piece(fs, 2 * m + i)
    BY <1>3, <1>4, <1>5, <2>1
  <2>3. (i + 1) \div 2 \in 1 .. n - m
    BY <1>1
  <2>4. (2 * m + i + 1) \div 2 = m + ((i + 1) \div 2) /\ (2 * m + i) % 2 = i % 2
    BY <1>1
  <2>5. g[(i + 1) \div 2] = fs[m + ((i + 1) \div 2)]
    BY <1>2, <2>3
  <2>6. Piece(g, i) = Piece(fs, 2 * m + i)
    BY <2>4, <2>5 DEF Piece
  <2> QED
    BY <2>2, <2>6
<1>7. Len(q) = Len(d) /\ \A i \in 1 .. Len(q) : q[i] = d[i]
  BY <1>4, <1>5, <1>6
<1>8. q = d
  BY <1>4, <1>5, <1>7, SeqEqual
<1> QED
  BY <1>8 DEF g, p, q, d

\* What is appended leaves a prefix a prefix.
LEMMA PrefixOfMore ==
  ASSUME NEW T, NEW s \in Seq(T), NEW t \in Seq(T), NEW u \in Seq(T), IsPrefix(s, t)
  PROVE  IsPrefix(s, t \o u)
<1> DEFINE a == t \o u
           n == Len(s)
<1>1. n \in Nat /\ Len(t) \in Nat /\ Len(u) \in Nat /\ n <= Len(t)
      /\ SubSeq(s, 1, n) = SubSeq(t, 1, n)
  BY DEF IsPrefix
<1>2. a \in Seq(T) /\ Len(a) = Len(t) + Len(u)
  BY ConcatProperties
<1>3. SubSeq(a, 1, n) = SubSeq(t, 1, n)
  <2>1. CASE n = 0
    <3>1. SubSeq(a, 1, 0) = <<>> /\ SubSeq(t, 1, 0) = <<>>
      BY SubSeqEmpty
    <3> QED
      BY <2>1, <3>1
  <2>2. CASE n # 0
    <3>1. 1 \in 1 .. Len(t) /\ n \in 1 .. Len(t)
      BY <1>1, <2>2
    <3> QED
      BY <3>1, SubSeqOfConcat1
  <2> QED
    BY <2>1, <2>2
<1>4. Len(s) <= Len(a)
  BY <1>1, <1>2
<1> QED
  BY <1>1, <1>3, <1>4 DEF IsPrefix

\* The first part is a prefix.
LEMMA PrefixOfConcat ==
  ASSUME NEW T, NEW s \in Seq(T), NEW t \in Seq(T)
  PROVE  IsPrefix(s, s \o t)
<1>1. Len(s) \in Nat
  OBVIOUS
<1>2. IsPrefix(s, s)
  BY <1>1 DEF IsPrefix
<1> QED
  BY <1>2, PrefixOfMore


\* w is on the wire, q in the queue with s pieces of it sent, and l was written.
Stream(w, q, s, l) == w \o Drop(s, PiecesOf(q)) = PiecesOf(l)

\* What is left of the queue.
LEMMA UnsentElements ==
  ASSUME NEW q \in Seq(FrameSet), NEW s \in 0 .. 1, q = <<>> => s = 0
  PROVE  /\ s \in 0 .. Len(PiecesOf(q)) /\ PiecesOf(q) \in Seq(PieceSet)
         /\ Len(PiecesOf(q)) = 2 * Len(q)
         /\ Drop(s, PiecesOf(q)) \in Seq(PieceSet)
         /\ Len(Drop(s, PiecesOf(q))) = 2 * Len(q) - s
<1>1. PiecesOf(q) \in Seq(PieceSet) /\ Len(PiecesOf(q)) = 2 * Len(q)
  BY PiecesElements
<1>2. s <= 2 * Len(q)
  <2>1. CASE q = <<>>
    BY <2>1
  <2>2. CASE q # <<>>
    <3>1. Len(q) \in Nat \ {0}
      BY <2>2, EmptySeq
    <3> QED
      BY <3>1
  <2> QED
    BY <2>1, <2>2
<1>3. s \in 0 .. Len(PiecesOf(q))
  BY <1>1, <1>2
<1> QED
  BY <1>1, <1>3, DropElements

\* Pieces put one behind the other.
LEMMA PiecesConcat ==
  \A u, v, x \in Seq(PieceSet) : u \o v \in Seq(PieceSet) /\ (u \o v) \o x = u \o (v \o x)
<1>1. ASSUME NEW u \in Seq(PieceSet), NEW v \in Seq(PieceSet), NEW x \in Seq(PieceSet)
      PROVE  (u \o v) \o x = u \o (v \o x)
  BY ConcatAssociative
<1>2. ASSUME NEW u \in Seq(PieceSet), NEW v \in Seq(PieceSet)
      PROVE  u \o v \in Seq(PieceSet)
  BY ConcatProperties
<1> QED
  BY <1>1, <1>2

\* A frame goes behind the others.
LEMMA StreamQueues ==
  ASSUME NEW w \in Seq(PieceSet), NEW q \in Seq(FrameSet), NEW s \in 0 .. 1,
         q = <<>> => s = 0, NEW l \in Seq(FrameSet), NEW f \in FrameSet, Stream(w, q, s, l)
  PROVE  Stream(w, Append(q, f), s, Append(l, f))
<1> DEFINE p == PiecesOf(q)
           d == Drop(s, p)
           x == Pieces(f)
<1>1. p \in Seq(PieceSet) /\ s \in 0 .. Len(p) /\ d \in Seq(PieceSet)
  BY UnsentElements
<1>2. x \in Seq(PieceSet)
  BY PiecesOfFew
<1>3. PiecesOf(Append(q, f)) = p \o x /\ PiecesOf(Append(l, f)) = PiecesOf(l) \o x
  BY PiecesOfMore
<1> HIDE DEF p, x
<1>4. Drop(s, p \o x) = d \o x
  BY <1>1, <1>2, DropOfConcat
<1>5. w \o d = PiecesOf(l)
  BY DEF Stream, p
<1> HIDE DEF d
<1>6. (w \o d) \o x = w \o (d \o x)
  BY <1>1, <1>2, PiecesConcat, Zenon
<1> QED
  BY <1>3, <1>4, <1>5, <1>6 DEF Stream

\* write() takes k pieces of a frame when nothing waits.
LEMMA StreamWrites ==
  ASSUME NEW w \in Seq(PieceSet), NEW l \in Seq(FrameSet), NEW f \in FrameSet,
         NEW k \in 0 .. 2, Stream(w, <<>>, 0, l)
  PROVE  /\ (w \o First(k, Pieces(f))) \o Drop(k, Pieces(f)) = PiecesOf(Append(l, f))
         /\ k = 2 => Stream(w \o First(k, Pieces(f)), <<>>, 0, Append(l, f))
         /\ k < 2 => Stream(w \o First(k, Pieces(f)), <<f>>, k, Append(l, f))
<1> DEFINE x == Pieces(f)
           a == First(k, x)
           b == Drop(k, x)
           none == Drop(0, PiecesOf(<<>>))
<1>1. x \in Seq(PieceSet) /\ Len(x) = 2 /\ PiecesOf(<<f>>) = x
  BY PiecesOfFew
<1>2. PiecesOf(Append(l, f)) = PiecesOf(l) \o x
  BY PiecesOfMore
<1>3. none = <<>>
  BY PiecesOfFew, SubSeqEmpty DEF Drop
<1>4. w = PiecesOf(l)
  BY <1>3, ConcatEmptySeq DEF Stream
<1> HIDE DEF x
<1>5. a \in Seq(PieceSet) /\ b \in Seq(PieceSet) /\ Len(b) = 2 - k /\ a \o b = x
  <2>1. k \in 0 .. Len(x)
    BY <1>1
  <2>2. a \in Seq(PieceSet) /\ b \in Seq(PieceSet) /\ Len(b) = Len(x) - k
    BY <1>1, <2>1, DropElements
  <2>3. a \o b = x
    BY <1>1, <2>1, FirstThenDrop
  <2> QED
    BY <1>1, <2>2, <2>3
<1> HIDE DEF a, b, none
<1>6. (w \o a) \o b = w \o (a \o b)
  BY <1>5, PiecesConcat, Zenon
<1>7. (w \o a) \o b = PiecesOf(Append(l, f))
  BY <1>2, <1>4, <1>5, <1>6
<1>8. CASE k = 2
  <2>1. b = <<>>
    <3>1. Len(b) = 0
      BY <1>5, <1>8
    <3> QED
      BY <1>5, <3>1, EmptySeq
  <2>2. (w \o a) \o none = PiecesOf(Append(l, f))
    BY <1>3, <1>7, <2>1
  <2>3. Stream(w \o a, <<>>, 0, Append(l, f)) /\ ~ (k < 2)
    BY <1>8, <2>2 DEF Stream, none
  <2> QED
    BY <1>7, <2>3 DEF a, b, x
<1>9. CASE k < 2
  <2>1. Drop(k, PiecesOf(<<f>>)) = b
    BY <1>1 DEF b
  <2>2. (w \o a) \o Drop(k, PiecesOf(<<f>>)) = PiecesOf(Append(l, f))
    BY <1>7, <2>1
  <2>3. Stream(w \o a, <<f>>, k, Append(l, f))
    BY <2>2, Zenon DEF Stream
  <2>4. k # 2
    BY <1>9
  <2> QED
    BY <1>7, <2>3, <2>4 DEF a, b, x
<1> QED
  BY <1>8, <1>9

\* What write() takes is pieces.
LEMMA TakenPieces ==
  ASSUME NEW w \in Seq(PieceSet), NEW f \in FrameSet, NEW k \in 0 .. 2
  PROVE  w \o First(k, Pieces(f)) \in Seq(PieceSet)
<1>1. Pieces(f) \in Seq(PieceSet) /\ Len(Pieces(f)) = 2
  BY PiecesOfFew
<1>2. First(k, Pieces(f)) \in Seq(PieceSet)
  BY <1>1, DropElements
<1> QED
  BY <1>2, ConcatProperties

\* nio_write sends k pieces of what waits.
LEMMA StreamSends ==
  ASSUME NEW w \in Seq(PieceSet), NEW q \in Seq(FrameSet), NEW s \in 0 .. 1,
         q = <<>> => s = 0, NEW l \in Seq(FrameSet),
         NEW k \in 0 .. Len(Drop(s, PiecesOf(q)))
  PROVE  LET x == First(k, Drop(s, PiecesOf(q)))
             r == Drop((s + k) \div 2, q)
         IN  /\ w \o x \in Seq(PieceSet) /\ r \in Seq(FrameSet) /\ (q = <<>> => r = <<>>)
             /\ (s + k) % 2 \in 0 .. 1 /\ (r = <<>> => (s + k) % 2 = 0)
             /\ Stream(w, q, s, l) => Stream(w \o x, r, (s + k) % 2, l)
<1> DEFINE p == PiecesOf(q)
           d == Drop(s, p)
           x == First(k, d)
           y == Drop(k, d)
           m == (s + k) \div 2
           t == (s + k) % 2
           r == Drop(m, q)
<1>1. /\ p \in Seq(PieceSet) /\ Len(p) = 2 * Len(q) /\ s \in 0 .. Len(p)
      /\ d \in Seq(PieceSet) /\ Len(d) = 2 * Len(q) - s
  BY UnsentElements
<1>2. Len(q) \in Nat /\ k \in Nat /\ k <= 2 * Len(q) - s
  BY <1>1
<1>3. /\ m \in 0 .. Len(q) /\ t \in 0 .. 1 /\ 2 * m + t = s + k
      /\ (m = Len(q) => t = 0)
  <2> HIDE DEF p, d
  <2>1. s + k \in Nat /\ s + k <= 2 * Len(q)
    BY <1>2
  <2> QED
    BY <1>2, <2>1
<1>4. r \in Seq(FrameSet) /\ Len(r) = Len(q) - m
  BY <1>3, DropElements
<1>5. PiecesOf(r) = Drop(2 * m, p)
  BY <1>3, PiecesOfDrop
<1> HIDE DEF p, m, t, r
<1>6. x \in Seq(PieceSet) /\ y \in Seq(PieceSet) /\ x \o y = d
  <2>1. k \in 0 .. Len(d)
    BY DEF p
  <2> HIDE DEF d
  <2>2. x \in Seq(PieceSet) /\ y \in Seq(PieceSet)
    BY <1>1, <2>1, DropElements
  <2>3. x \o y = d
    BY <1>1, <2>1, FirstThenDrop
  <2> QED
    BY <2>2, <2>3
<1>7. Drop(t, PiecesOf(r)) = y
  <2>1. Drop(t, Drop(2 * m, p)) = Drop(2 * m + t, p)
    <3>1. 2 * m \in Nat /\ t \in Nat /\ 2 * m + t <= Len(p)
      BY <1>1, <1>2, <1>3
    <3> QED
      BY <1>1, <3>1, DropTwice
  <2>2. y = Drop(s + k, p)
    <3>1. s \in Nat /\ k \in Nat /\ s + k <= Len(p)
      BY <1>1, <1>2
    <3> QED
      BY <1>1, <3>1, DropTwice
  <2> QED
    BY <1>3, <1>5, <2>1, <2>2
<1>8. Stream(w, q, s, l) => w \o d = PiecesOf(l)
  BY DEF Stream, p
<1> HIDE DEF d, x, y
<1>9. (w \o x) \o y = w \o (x \o y) /\ w \o x \in Seq(PieceSet)
  BY <1>6, PiecesConcat, Zenon
<1>10. Stream(w, q, s, l) => Stream(w \o x, r, t, l)
  BY <1>6, <1>7, <1>8, <1>9 DEF Stream
<1>11. r = <<>> => t = 0
  <2>1. r = <<>> => Len(r) = 0
    OBVIOUS
  <2> QED
    BY <1>2, <1>3, <1>4, <2>1
<1>12. q = <<>> => r = <<>>
  <2>1. q = <<>> => Len(r) = 0
    BY <1>2, <1>3, <1>4
  <2> QED
    BY <1>4, <2>1, EmptySeq
<1> QED
  BY <1>3, <1>4, <1>9, <1>10, <1>11, <1>12 DEF r, t, m, x, d, p

\* What the peer has is a prefix of what was written.
LEMMA StreamPrefix ==
  ASSUME NEW w \in Seq(PieceSet), NEW q \in Seq(FrameSet), NEW s \in 0 .. 1,
         q = <<>> => s = 0, NEW l \in Seq(FrameSet), Stream(w, q, s, l)
  PROVE  IsPrefix(w, PiecesOf(l))
<1>1. Drop(s, PiecesOf(q)) \in Seq(PieceSet)
  BY UnsentElements
<1> QED
  BY <1>1, PrefixOfConcat DEF Stream


-----------------------------------------------------------------------------
(* The initial state *)

LEMMA InitInv == Init => Inv
<1> SUFFICES ASSUME Init PROVE Inv
  OBVIOUS
<1>0. MaxConns \in Nat /\ MaxWrites \in Nat
  BY HioAssumption
<1>1. Types
  <2>1. IoTypes
    <3>1. io = [ready |-> FALSE, closed |-> FALSE, close |-> FALSE, error |-> FALSE,
                close_cb |-> FALSE, id |-> 0, events |-> {}]
      BY DEF Init, Fresh
    <3>2. io \in IoSet /\ io.id = 0
      BY <3>1, 0 \in Nat, {} \in SUBSET {"read", "write"} DEF IoSet
    <3>3. /\ timer = 0 /\ strays = {} /\ ids = 0 /\ rearmed = FALSE /\ listed = {}
          /\ sock = 0 /\ watched = {} /\ accepts = 0 /\ late = FALSE
      BY Zenon DEF Init, NoConn
    <3>4. rearmed \in BOOLEAN /\ late \in BOOLEAN
      BY <3>3, Zenon
    <3>5. ids \in Nat /\ io.id <= ids
      BY <3>2, <3>3
    <3>6. /\ timer \in Conns \cup {NoConn} /\ strays \subseteq Conns
          /\ sock \in {NoConn, accepts} /\ accepts \in Conns \cup {NoConn}
          /\ watched \subseteq {"read", "write"} /\ (sock = NoConn => watched = {})
          /\ listed \subseteq Conns
      BY <3>3 DEF NoConn
    <3> QED
      BY <3>2, <3>4, <3>5, <3>6, Zenon DEF IoTypes
  <2>2. WriteTypes
    BY <1>0 DEF Init, WriteTypes, Threads, NoConn
  <2> QED
    BY <2>1, <2>2 DEF Types
<1>2. Life /\ Watching /\ Timing /\ Posting
  BY DEF Init, Life, Watching, Timing, Posting, Open, Ends, Fresh, NoConn
<1>3. Streaming
  <2>1. \A c \in Conns : wire[c] = <<>> /\ log[c] = <<>>
    BY DEF Init
  <2>2. ASSUME NEW c \in Conns PROVE Delivered(c)
    <3>1. log[c] = <<>> /\ wire[c] = <<>>
      BY <2>1
    <3>2. PiecesOf(log[c]) = <<>>
      BY <3>1, PiecesOfFew, Zenon
    <3>3. IsPrefix(<<>>, <<>>)
      BY DEF IsPrefix
    <3> QED
      BY <3>1, <3>2, <3>3, Zenon DEF Delivered
  <2>3. queue = <<>> /\ ~ Locked /\ ~ Open
    BY DEF Init, Locked, Open
  <2> QED
    BY <2>1, <2>2, <2>3 DEF Streaming
<1> QED
  BY <1>1, <1>2, <1>3 DEF Inv, Calm


-----------------------------------------------------------------------------
(* Types, step by step *)

\* What the actions make of the hio_t is an hio_t, with its id.
LEMMA IoChanges ==
  ASSUME NEW i \in IoSet, NEW b \in BOOLEAN, NEW e \in SUBSET {"read", "write"}
  PROVE  /\ [i EXCEPT !.error = b] \in IoSet /\ [i EXCEPT !.error = b].id = i.id
         /\ [i EXCEPT !.close = b] \in IoSet /\ [i EXCEPT !.close = b].id = i.id
         /\ [i EXCEPT !.events = e] \in IoSet /\ [i EXCEPT !.events = e].id = i.id
         /\ [i EXCEPT !.closed = TRUE, !.ready = FALSE] \in IoSet
         /\ [i EXCEPT !.closed = TRUE, !.ready = FALSE].id = i.id
         /\ [i EXCEPT !.close_cb = TRUE, !.events = e] \in IoSet
         /\ [i EXCEPT !.close_cb = TRUE, !.events = e].id = i.id
BY DEF IoSet

\* hio_ready gives an hio_t its fields, and a new id when it was not ready.
LEMMA ReadyTypes ==
  ASSUME Types, ForgetsTimer
  PROVE  /\ Ready \in IoSet /\ Ready.events \in SUBSET {"read", "write"}
         /\ ids' \in Nat /\ Ready.id <= ids' /\ ids <= ids'
         /\ timer' \in Conns \cup {NoConn} /\ strays' \subseteq Conns
<1>0. io \in IoSet /\ ids \in Nat /\ io.id <= ids
      /\ timer \in Conns \cup {NoConn} /\ strays \subseteq Conns
  BY DEF Types, IoTypes
<1>1. CASE io.ready
  <2>1. Ready = io /\ ids' = ids /\ timer' = timer /\ strays' = strays
    BY <1>1 DEF Ready, ForgetsTimer
  <2>2. io.events \in SUBSET {"read", "write"}
    BY <1>0 DEF IoSet
  <2> QED
    BY <1>0, <2>1, <2>2
<1>2. CASE ~ io.ready
  <2>1. /\ Ready = Fresh(ids + 1) /\ ids' = ids + 1 /\ timer' = NoConn
        /\ strays' = strays \cup ({timer} \ {NoConn})
    BY <1>2 DEF Ready, ForgetsTimer
  <2>2. /\ Fresh(ids + 1) \in IoSet /\ Fresh(ids + 1).id = ids + 1
        /\ Fresh(ids + 1).events = {}
    BY <1>0 DEF Fresh, IoSet
  <2>3. strays' \subseteq Conns
    BY <1>0, <2>1
  <2> QED
    BY <1>0, <2>1, <2>2, <2>3
<1> QED
  BY <1>1, <1>2

\* hio_add
LEMMA AddTypes ==
  ASSUME Types, Add("write", sock # NoConn)
  PROVE  /\ io' \in IoSet /\ ids' \in Nat /\ io'.id <= ids' /\ ids <= ids'
         /\ timer' \in Conns \cup {NoConn} /\ strays' \subseteq Conns
         /\ watched' \subseteq {"read", "write"} /\ (sock = NoConn => watched' = {})
<1>1. ForgetsTimer
  BY DEF Add
<1>2. /\ Ready \in IoSet /\ Ready.events \in SUBSET {"read", "write"}
      /\ ids' \in Nat /\ Ready.id <= ids' /\ ids <= ids'
      /\ timer' \in Conns \cup {NoConn} /\ strays' \subseteq Conns
  BY <1>1, ReadyTypes
<1>3. io' = [Ready EXCEPT !.events = Ready.events \cup {"write"}]
  BY DEF Add
<1>4. io' \in IoSet /\ io'.id = Ready.id
  BY <1>2, <1>3, IoChanges
<1>5. watched' = watched \/ (sock # NoConn /\ watched' = Ready.events \cup {"write"})
  BY DEF Add, Watch
<1>6. watched \subseteq {"read", "write"} /\ (sock = NoConn => watched = {})
  BY DEF Types, IoTypes
<1>7. watched' \subseteq {"read", "write"} /\ (sock = NoConn => watched' = {})
  BY <1>2, <1>5, <1>6
<1> QED
  BY <1>2, <1>4, <1>7


\* A step that touches neither.
LEMMA IoTypesKept ==
  ASSUME IoTypes,
         UNCHANGED <<io, ids, timer, strays, rearmed, sock, accepts, watched, listed, late>>
  PROVE  IoTypes'
BY DEF IoTypes

LEMMA WriteTypesKept ==
  ASSUME WriteTypes, UNCHANGED <<queue, sent, log, wire, writes, vty, frame, posted>>,
         loop' \in Threads, loop' = "write" => sock' # NoConn
  PROVE  WriteTypes'
BY DEF WriteTypes

\* A new frame for connection c.
LEMMA NewFrameTypes ==
  ASSUME Types, writes < MaxWrites, NEW c \in Conns
  PROVE  writes + 1 \in 0 .. MaxWrites /\ NewFrame(c) \in FrameSet
<1>1. writes \in 0 .. MaxWrites /\ MaxWrites \in Nat
  BY HioAssumption DEF Types, WriteTypes
<1>2. writes + 1 \in 1 .. MaxWrites
  BY <1>1
<1> QED
  BY <1>1, <1>2 DEF NewFrame, FrameSet

\* What hio_write logs.
LEMMA LoggedTypes ==
  ASSUME Types, NEW f \in FrameSet, Logged(f)
  PROVE  /\ log' \in [Conns -> Seq(FrameSet)] /\ f.to \in Conns
         /\ log'[f.to] = Append(log[f.to], f)
         /\ \A c \in Conns \ {f.to} : log'[c] = log[c]
<1>1. f.to \in Conns
  BY DEF FrameSet
<1>2. log \in [Conns -> Seq(FrameSet)]
  BY DEF Types, WriteTypes
<1>3. log[f.to] \in Seq(FrameSet)
  BY <1>1, <1>2
<1>4. Append(log[f.to], f) \in Seq(FrameSet)
  BY <1>3, AppendProperties
<1> QED
  BY <1>1, <1>2, <1>4 DEF Logged

\* What write() takes.
LEMMA TakesTypes ==
  ASSUME Types, NEW f \in FrameSet, NEW k \in 0 .. 2, Takes(f, k)
  PROVE  /\ wire' \in [Conns -> Seq(PieceSet)] /\ sock \in Conns
         /\ wire'[sock] = wire[sock] \o First(k, Pieces(f))
         /\ \A c \in Conns \ {sock} : wire'[c] = wire[c]
<1>1. sock \in Conns
  BY DEF Takes, Types, IoTypes
<1>2. wire \in [Conns -> Seq(PieceSet)]
  BY DEF Types, WriteTypes
<1>3. wire[sock] \in Seq(PieceSet)
  BY <1>1, <1>2
<1>4. wire[sock] \o First(k, Pieces(f)) \in Seq(PieceSet)
  BY <1>3, TakenPieces
<1> QED
  BY <1>1, <1>2, <1>4 DEF Takes

\* One frame is a queue.
LEMMA OneFrame ==
  \A f \in FrameSet : <<f>> \in Seq(FrameSet) /\ <<f>> # <<>>
OBVIOUS

\* hio_write of the other thread.
LEMMA VtyTypes ==
  ASSUME Types,
         \/ \E c \in Conns : VtyCheck(c)
         \/ Vty
  PROVE  Types'
<1>0. /\ IoTypes /\ WriteTypes /\ io \in IoSet /\ ids \in Nat /\ io.id <= ids
      /\ timer \in Conns \cup {NoConn} /\ strays \subseteq Conns
      /\ queue \in Seq(FrameSet) /\ sent \in 0 .. 1 /\ (queue = <<>> => sent = 0)
      /\ log \in [Conns -> Seq(FrameSet)] /\ wire \in [Conns -> Seq(PieceSet)]
      /\ writes \in 0 .. MaxWrites /\ loop \in Threads
      /\ loop = "write" => sock # NoConn
      /\ vty # "idle" => frame.f \in FrameSet
      /\ frame = [f |-> frame.f, taken |-> frame.taken]
      /\ posted \in Seq(Posts) /\ listed \subseteq Conns
  BY DEF Types, IoTypes, WriteTypes
<1>1. ASSUME NEW c \in Conns, VtyCheck(c) PROVE Types'
  <2>1. IoTypes'
    BY <1>0, <1>1, IoTypesKept DEF VtyCheck, timers, kernel
  <2>2. writes' \in 0 .. MaxWrites /\ NewFrame(c) \in FrameSet
    BY <1>1, NewFrameTypes DEF VtyCheck
  <2>3. frame' = [f |-> NewFrame(c), taken |-> 0] /\ vty' = "checked"
        /\ UNCHANGED <<queue, sent, log, wire, posted, loop, sock>>
    BY <1>1, Zenon DEF VtyCheck, output, kernel
  <2>4. WriteTypes'
    BY <1>0, <2>2, <2>3 DEF WriteTypes
  <2> QED
    BY <2>1, <2>4 DEF Types
<1>2. ASSUME VtyQueues PROVE Types'
  <2>1. IoTypes'
    BY <1>0, <1>2, IoTypesKept DEF VtyQueues, timers, kernel
  <2>2. /\ vty = "checked" /\ queue # <<>> /\ queue' = Append(queue, frame.f)
        /\ Logged(frame.f) /\ vty' = "idle"
        /\ UNCHANGED <<sent, frame, posted, wire, writes, loop, sock>>
    BY <1>2, Zenon DEF VtyQueues, kernel
  <2>3. frame.f \in FrameSet
    BY <1>0, <2>2
  <2>4. queue' \in Seq(FrameSet) /\ queue' # <<>>
    BY <1>0, <2>2, <2>3, AppendProperties
  <2>5. log' \in [Conns -> Seq(FrameSet)]
    BY <2>2, <2>3, LoggedTypes
  <2>6. WriteTypes'
    BY <1>0, <2>2, <2>4, <2>5 DEF WriteTypes
  <2> QED
    BY <2>1, <2>6 DEF Types
<1>3. ASSUME NEW k \in 0 .. 2, VtyWrites(k) PROVE Types'
  <2>1. IoTypes'
    BY <1>0, <1>3, IoTypesKept DEF VtyWrites, timers
  <2>2. /\ vty = "checked" /\ Takes(frame.f, k) /\ Logged(frame.f)
        /\ frame' = [frame EXCEPT !.taken = k]
        /\ vty' = IF k = 2 THEN "idle" ELSE "enqueue"
        /\ UNCHANGED <<queue, sent, posted, writes, loop, sock>>
    BY <1>3, Zenon DEF VtyWrites
  <2>3. frame.f \in FrameSet
    BY <1>0, <2>2
  <2>4. wire' \in [Conns -> Seq(PieceSet)] /\ log' \in [Conns -> Seq(FrameSet)]
    BY <2>2, <2>3, LoggedTypes, TakesTypes
  <2>5. frame' = [f |-> frame.f, taken |-> k] /\ frame'.f = frame.f /\ frame'.taken = k
    BY <1>0, <2>2
  <2>6. WriteTypes'
    BY <1>0, <2>2, <2>3, <2>4, <2>5 DEF WriteTypes
  <2> QED
    BY <2>1, <2>6 DEF Types
<1>4. ASSUME VtyFails PROVE Types'
  <2>1. /\ io' = [io EXCEPT !.error = TRUE] /\ vty = "checked" /\ vty' = "failed"
        /\ UNCHANGED <<queue, sent, log, wire, writes, frame, posted, loop, sock>>
        /\ UNCHANGED <<ids, timer, strays, rearmed, accepts, watched, listed, late>>
    BY <1>4, Zenon DEF VtyFails, output, timers, kernel
  <2>2. io' \in IoSet /\ io'.id = io.id
    BY <1>0, <2>1, IoChanges
  <2>3. IoTypes'
    BY <1>0, <2>1, <2>2 DEF IoTypes
  <2>4. WriteTypes'
    BY <1>0, <2>1 DEF WriteTypes
  <2> QED
    BY <2>3, <2>4 DEF Types
<1>5. ASSUME VtyEnqueues PROVE Types'
  <2>1. /\ vty = "enqueue" /\ Add("write", sock # NoConn) /\ queue' = <<frame.f>>
        /\ sent' = frame.taken /\ vty' = "idle"
        /\ UNCHANGED <<log, wire, writes, frame, posted, loop, sock>>
        /\ UNCHANGED <<rearmed, accepts, listed, late>>
    BY <1>5, Zenon DEF VtyEnqueues
  <2>2. /\ io' \in IoSet /\ ids' \in Nat /\ io'.id <= ids' /\ ids <= ids'
        /\ timer' \in Conns \cup {NoConn} /\ strays' \subseteq Conns
        /\ watched' \subseteq {"read", "write"} /\ (sock = NoConn => watched' = {})
    BY <2>1, AddTypes
  <2>3. IoTypes'
    BY <1>0, <2>1, <2>2 DEF IoTypes
  <2>4. frame.f \in FrameSet /\ frame.taken \in 0 .. 1
    BY <2>1 DEF Types, WriteTypes
  <2>5. queue' \in Seq(FrameSet) /\ queue' # <<>>
    BY <2>1, <2>4, OneFrame
  <2>6. WriteTypes'
    BY <1>0, <2>1, <2>4, <2>5 DEF WriteTypes
  <2> QED
    BY <2>3, <2>6 DEF Types
<1>6. ASSUME VtyCloses PROVE Types'
  <2>1. IoTypes'
    BY <1>0, <1>6, IoTypesKept DEF VtyCloses, timers, kernel
  <2>2. /\ vty = "failed" /\ vty' = "idle"
        /\ posted' = IF io.closed THEN posted
                     ELSE Append(posted, [id |-> io.id, to |-> frame.f.to])
        /\ UNCHANGED <<queue, sent, log, wire, writes, frame, loop, sock>>
    BY <1>6, Zenon DEF VtyCloses, output, kernel
  <2>3. frame.f.to \in Conns /\ io.id \in Nat
    BY <1>0, <2>2 DEF FrameSet, IoSet
  <2>4. [id |-> io.id, to |-> frame.f.to] \in Posts
    BY <2>3 DEF Posts
  <2>5. posted' \in Seq(Posts)
    BY <1>0, <2>2, <2>4, AppendProperties
  <2>6. WriteTypes'
    BY <1>0, <2>2, <2>5 DEF WriteTypes
  <2> QED
    BY <2>1, <2>6 DEF Types
<1> QED
  BY <1>1, <1>2, <1>3, <1>4, <1>5, <1>6 DEF Vty


\* accept, and the peer that closes.
LEMMA AcceptTypes ==
  ASSUME Types, \E c \in Conns : Accept(c) \/ PeerCloses(c)
  PROVE  Types'
<1>0. /\ IoTypes /\ WriteTypes /\ io \in IoSet /\ ids \in Nat /\ io.id <= ids
      /\ timer \in Conns \cup {NoConn} /\ strays \subseteq Conns
      /\ watched \subseteq {"read", "write"} /\ listed \subseteq Conns /\ loop \in Threads
  BY DEF Types, IoTypes, WriteTypes
<1>1. ASSUME NEW c \in Conns, Accept(c) PROVE Types'
  <2>1. /\ loop = "poll" /\ sock' = c /\ accepts' = c /\ listed' = listed \cup {c}
        /\ io' = [Ready EXCEPT !.close_cb = TRUE, !.events = Ready.events \cup {"read"}]
        /\ watched' = Watch(Ready.events, "read") /\ ForgetsTimer
        /\ UNCHANGED <<queue, sent, log, wire, writes, vty, frame, posted, loop>>
        /\ UNCHANGED <<rearmed, late>>
    BY <1>1, Zenon DEF Accept, output, vtyState
  <2>2. /\ Ready \in IoSet /\ Ready.events \in SUBSET {"read", "write"}
        /\ ids' \in Nat /\ Ready.id <= ids' /\ ids <= ids'
        /\ timer' \in Conns \cup {NoConn} /\ strays' \subseteq Conns
    BY <2>1, ReadyTypes
  <2>3. io' \in IoSet /\ io'.id = Ready.id
    BY <2>1, <2>2, IoChanges
  <2>4. watched' \subseteq {"read", "write"} /\ sock' # NoConn
    BY <1>0, <2>1, <2>2 DEF Watch, Conns, NoConn
  <2>5. IoTypes'
    BY <1>0, <2>1, <2>2, <2>3, <2>4 DEF IoTypes
  <2>6. WriteTypes'
    BY <1>0, <2>1, <2>4 DEF WriteTypes
  <2> QED
    BY <2>5, <2>6 DEF Types
<1>2. ASSUME NEW c \in Conns, PeerCloses(c) PROVE Types'
  <2>1. UNCHANGED <<io, ids, timer, strays, rearmed, sock, accepts, watched, listed, late,
                    queue, sent, log, wire, writes, vty, frame, posted, loop>>
    BY <1>2, Zenon DEF PeerCloses, output, timers, vtyState
  <2>2. IoTypes'
    BY <1>0, <2>1, IoTypesKept
  <2>3. WriteTypes'
    BY <1>0, <2>1 DEF WriteTypes
  <2> QED
    BY <2>2, <2>3 DEF Types
<1> QED
  BY <1>1, <1>2

\* The loop thread's events.
LEMMA EventTypes ==
  ASSUME Types,
         \/ \E k \in 0 .. 2 : LoopReplies(k)
         \/ \E error \in BOOLEAN : LoopEof(error)
         \/ LoopReplyFails \/ LoopHangsUp \/ LoopWritable \/ LoopEvent \/ Timers
  PROVE  Types'
<1>0. /\ IoTypes /\ WriteTypes /\ io \in IoSet /\ ids \in Nat /\ io.id <= ids
      /\ timer \in Conns \cup {NoConn} /\ strays \subseteq Conns
      /\ queue \in Seq(FrameSet) /\ sent \in 0 .. 1 /\ (queue = <<>> => sent = 0)
      /\ log \in [Conns -> Seq(FrameSet)] /\ wire \in [Conns -> Seq(PieceSet)]
      /\ writes \in 0 .. MaxWrites /\ sock \in {NoConn, accepts}
      /\ accepts \in Conns \cup {NoConn} /\ posted \in Seq(Posts)
      /\ (sock = NoConn => watched = {}) /\ watched \subseteq {"read", "write"}
      /\ io.error \in BOOLEAN /\ io.events \in SUBSET {"read", "write"}
  BY DEF Types, IoTypes, WriteTypes, IoSet
<1>1. ASSUME NEW k \in 0 .. 2, LoopReplies(k) PROVE Types'
  <2> DEFINE f == NewFrame(sock)
  <2>1. /\ loop = "poll" /\ sock # NoConn /\ writes < MaxWrites /\ writes' = writes + 1
        /\ Logged(f)
        /\ UNCHANGED <<rearmed, vty, frame, posted, sock, gone, accepts, listed, loop, late>>
    BY <1>1, Zenon DEF LoopReplies, LoopReads, vtyState
  <2>2. sock \in Conns
    BY <1>0, <2>1
  <2>3. f \in FrameSet /\ writes' \in 0 .. MaxWrites
    BY <2>1, <2>2, NewFrameTypes
  <2>4. log' \in [Conns -> Seq(FrameSet)]
    BY <2>1, <2>3, LoggedTypes
  <2>5. CASE queue # <<>>
    <3>1. /\ queue' = Append(queue, f)
          /\ UNCHANGED <<io, sent, ids, timer, strays, watched, wire>>
      BY <1>1, <2>5, Zenon DEF LoopReplies
    <3>2. IoTypes'
      BY <1>0, <2>1, <3>1, IoTypesKept
    <3> HIDE DEF f
    <3>3. queue' \in Seq(FrameSet) /\ queue' # <<>>
      <4>1. f \in FrameSet /\ queue \in Seq(FrameSet)
        BY <1>0, <2>3
      <4>2. Append(queue, f) \in Seq(FrameSet) /\ Append(queue, f) # <<>>
        BY <4>1, AppendProperties
      <4> QED
        BY <3>1, <4>2
    <3>4. WriteTypes'
      BY <1>0, <2>1, <2>3, <2>4, <3>1, <3>3 DEF WriteTypes
    <3> QED
      BY <3>2, <3>4 DEF Types
  <2>6. CASE queue = <<>>
    <3>1. /\ Takes(f, k)
          /\ IF k = 2 THEN UNCHANGED <<io, queue, sent, ids, timer, strays, watched>>
             ELSE Add("write", TRUE) /\ queue' = <<f>> /\ sent' = k
      BY <1>1, <2>6, Zenon DEF LoopReplies
    <3> HIDE DEF f
    <3>2. wire' \in [Conns -> Seq(PieceSet)]
      BY <2>3, <3>1, TakesTypes
    <3>3. CASE k = 2
      <4>1. UNCHANGED <<io, queue, sent, ids, timer, strays, watched>>
        BY <3>1, <3>3
      <4>2. IoTypes'
        BY <1>0, <2>1, <4>1, IoTypesKept
      <4>3. WriteTypes'
        BY <1>0, <2>1, <2>3, <2>4, <3>2, <4>1 DEF WriteTypes
      <4> QED
        BY <4>2, <4>3 DEF Types
    <3>4. CASE k # 2
      <4>1. Add("write", TRUE) /\ queue' = <<f>> /\ sent' = k
        BY <3>1, <3>4
      <4>2. TRUE = (sock # NoConn)
        BY <2>1
      <4>3. Add("write", sock # NoConn)
        BY <4>1, <4>2, Zenon
      <4>4. /\ io' \in IoSet /\ ids' \in Nat /\ io'.id <= ids' /\ ids <= ids'
            /\ timer' \in Conns \cup {NoConn} /\ strays' \subseteq Conns
            /\ watched' \subseteq {"read", "write"} /\ (sock = NoConn => watched' = {})
        BY <4>3, AddTypes
      <4>5. IoTypes'
        BY <1>0, <2>1, <4>4 DEF IoTypes
      <4>6. queue' \in Seq(FrameSet) /\ queue' # <<>> /\ sent' \in 0 .. 1
        BY <2>3, <3>4, <4>1, OneFrame
      <4>7. WriteTypes'
        BY <1>0, <2>1, <2>3, <2>4, <3>2, <4>6 DEF WriteTypes
      <4> QED
        BY <4>5, <4>7 DEF Types
    <3> QED
      BY <3>3, <3>4
  <2> QED
    BY <2>5, <2>6
<1>2. ASSUME NEW b \in BOOLEAN, io' = [io EXCEPT !.error = b],
             UNCHANGED <<ids, timer, rearmed, sock, accepts, watched, listed, late>>,
             strays' \subseteq strays, writes' \in 0 .. MaxWrites, loop' = "close",
             UNCHANGED <<queue, sent, log, wire, vty, frame, posted>>
      PROVE  Types'
  <2>1. io' \in IoSet /\ io'.id = io.id
    BY <1>0, <1>2, IoChanges
  <2>2. strays' \subseteq Conns /\ "close" \in Threads
    BY <1>0, <1>2 DEF Threads
  <2>3. IoTypes'
    BY <1>0, <1>2, <2>1, <2>2 DEF IoTypes
  <2>4. WriteTypes'
    BY <1>0, <1>2, <2>2 DEF WriteTypes
  <2> QED
    BY <2>3, <2>4 DEF Types
<1>3. ASSUME NEW error \in BOOLEAN, LoopEof(error) PROVE Types'
  <2>1. io' = [io EXCEPT !.error = io.error \/ error] /\ (io.error \/ error) \in BOOLEAN
    BY <1>3, Zenon DEF LoopEof
  <2>2. /\ UNCHANGED <<ids, timer, rearmed, sock, accepts, watched, listed, late>>
        /\ strays' \subseteq strays /\ writes' = writes /\ loop' = "close"
        /\ UNCHANGED <<queue, sent, log, wire, vty, frame, posted>>
    BY <1>3, Zenon DEF LoopEof, output, timers, vtyState, kernel
  <2> QED
    BY <1>0, <1>2, <2>1, <2>2
<1>4. ASSUME LoopReplyFails PROVE Types'
  <2>1. /\ sock # NoConn /\ writes < MaxWrites /\ writes' = writes + 1
        /\ io' = [io EXCEPT !.error = TRUE]
        /\ UNCHANGED <<ids, timer, rearmed, sock, accepts, watched, listed, late>>
        /\ strays' \subseteq strays /\ loop' = "close"
        /\ UNCHANGED <<queue, sent, log, wire, vty, frame, posted>>
    BY <1>4, Zenon DEF LoopReplyFails, LoopReads, output, timers, vtyState, kernel
  <2>2. writes' \in 0 .. MaxWrites
    BY <1>0, <2>1, NewFrameTypes
  <2> QED
    BY <1>2, <2>1, <2>2
<1>5. ASSUME LoopHangsUp PROVE Types'
  <2>1. /\ UNCHANGED <<io, ids, timer, strays, rearmed, sock, accepts, watched, listed, late,
                       queue, sent, log, wire, writes, vty, frame, posted>>
        /\ loop' = "close"
    BY <1>5, Zenon DEF LoopHangsUp, output, timers, vtyState, kernel
  <2> QED
    BY <1>0, <2>1, IoTypesKept, WriteTypesKept DEF Types, Threads
<1>6. ASSUME LoopWritable PROVE Types'
  <2>1. /\ "write" \in watched /\ loop' = "write"
        /\ \/ io' = [io EXCEPT !.events = io.events \ {"write"}]
              /\ watched' = io.events \ {"write"}
           \/ UNCHANGED <<io, watched>>
        /\ UNCHANGED <<ids, timer, strays, rearmed, sock, accepts, listed, late,
                       queue, sent, log, wire, writes, vty, frame, posted>>
    BY <1>6, Zenon DEF LoopWritable, output, timers, vtyState
  <2>2. sock # NoConn /\ "write" \in Threads
    BY <1>0, <2>1 DEF Threads
  <2>3. io.events \ {"write"} \in SUBSET {"read", "write"}
    BY <1>0
  <2>4. io' \in IoSet /\ io'.id = io.id
    <3>1. CASE io' = [io EXCEPT !.events = io.events \ {"write"}]
      <4>1. /\ [io EXCEPT !.events = io.events \ {"write"}] \in IoSet
            /\ [io EXCEPT !.events = io.events \ {"write"}].id = io.id
        BY <1>0, <2>3, IoChanges
      <4> QED
        BY <3>1, <4>1
    <3>2. CASE UNCHANGED io
      BY <1>0, <3>2
    <3> QED
      BY <2>1, <3>1, <3>2
  <2>5. IoTypes'
    BY <1>0, <2>1, <2>2, <2>3, <2>4 DEF IoTypes
  <2>6. WriteTypes'
    BY <1>0, <2>1, <2>2 DEF WriteTypes
  <2> QED
    BY <2>5, <2>6 DEF Types
<1>7. ASSUME LoopEvent PROVE Types'
  <2>1. /\ posted # <<>> /\ posted' = Tail(posted) /\ loop' \in {"close", "poll"}
        /\ UNCHANGED <<io, ids, timer, strays, rearmed, sock, accepts, watched, listed, late,
                       queue, sent, log, wire, writes, vty, frame>>
    BY <1>7, Zenon DEF LoopEvent, output, timers, kernel
  <2>2. posted' \in Seq(Posts)
    BY <1>0, <2>1, HeadTailProperties
  <2>3. IoTypes'
    BY <1>0, <2>1, IoTypesKept
  <2>4. WriteTypes'
    BY <1>0, <2>1, <2>2 DEF WriteTypes, Threads
  <2> QED
    BY <2>3, <2>4 DEF Types
<1>8. ASSUME NEW c \in Conns, LoopTimer(c) PROVE Types'
  <2>1. /\ io' = [io EXCEPT !.error = TRUE] /\ strays' = strays \ {c}
        /\ UNCHANGED <<ids, timer, rearmed, sock, accepts, watched, listed, late>>
        /\ writes' = writes /\ loop' = "close"
        /\ UNCHANGED <<queue, sent, log, wire, vty, frame, posted>>
    BY <1>8, Zenon DEF LoopTimer, output, vtyState, kernel
  <2>2. strays' \subseteq strays
    BY <2>1
  <2> QED
    BY <1>0, <1>2, <2>1, <2>2
<1> QED
  BY <1>1, <1>3, <1>4, <1>5, <1>6, <1>7, <1>8 DEF Timers


\* nio_write, and what it sends.
LEMMA LoopSendsWhat ==
  ASSUME Types, NEW k \in 0 .. Len(Unsent), LoopSends(k)
  PROVE  /\ loop = "write" /\ ~ Locked /\ sock \in Conns /\ loop' \in {"drained", "poll"}
         /\ loop' = IF queue' = <<>> THEN "drained" ELSE "poll"
         /\ wire' \in [Conns -> Seq(PieceSet)] /\ queue' \in Seq(FrameSet)
         /\ sent' \in 0 .. 1 /\ (queue' = <<>> => sent' = 0)
         /\ (queue = <<>> => queue' = <<>>)
         /\ Stream(wire[sock], queue, sent, log[sock])
                => Stream(wire'[sock], queue', sent', log[sock])
         /\ \A c \in Conns \ {sock} : wire'[c] = wire[c]
         /\ UNCHANGED <<io, ids, timer, strays, rearmed, sock, accepts, watched, listed, late,
                        log, writes, vty, frame, posted>>
<1>0. /\ queue \in Seq(FrameSet) /\ sent \in 0 .. 1 /\ (queue = <<>> => sent = 0)
      /\ log \in [Conns -> Seq(FrameSet)] /\ wire \in [Conns -> Seq(PieceSet)]
      /\ sock \in {NoConn, accepts} /\ accepts \in Conns \cup {NoConn}
      /\ (loop = "write" => sock # NoConn)
  BY DEF Types, IoTypes, WriteTypes
<1>1. /\ loop = "write" /\ ~ Locked
      /\ wire' = [wire EXCEPT ![sock] = wire[sock] \o First(k, Drop(sent, PiecesOf(queue)))]
      /\ queue' = Drop((sent + k) \div 2, queue) /\ sent' = (sent + k) % 2
      /\ loop' = IF queue' = <<>> THEN "drained" ELSE "poll"
      /\ UNCHANGED <<io, ids, timer, strays, rearmed, sock, accepts, watched, listed, late,
                     log, writes, vty, frame, posted>>
  BY Zenon DEF LoopSends, Unsent, timers, vtyState
<1>2. sock \in Conns
  BY <1>0, <1>1
<1>3. wire[sock] \in Seq(PieceSet) /\ log[sock] \in Seq(FrameSet)
      /\ k \in 0 .. Len(Drop(sent, PiecesOf(queue)))
  BY <1>0, <1>2 DEF Unsent
<1> DEFINE x == First(k, Drop(sent, PiecesOf(queue)))
           r == Drop((sent + k) \div 2, queue)
           t == (sent + k) % 2
<1>4. /\ wire[sock] \o x \in Seq(PieceSet) /\ r \in Seq(FrameSet)
      /\ (queue = <<>> => r = <<>>)
      /\ t \in 0 .. 1 /\ (r = <<>> => t = 0)
      /\ Stream(wire[sock], queue, sent, log[sock]) => Stream(wire[sock] \o x, r, t, log[sock])
  <2> DEFINE w == wire[sock]
             l == log[sock]
  <2>1. w \in Seq(PieceSet) /\ l \in Seq(FrameSet)
    BY <1>3
  <2> HIDE DEF w, l
  <2>2. /\ w \o x \in Seq(PieceSet) /\ r \in Seq(FrameSet) /\ (queue = <<>> => r = <<>>)
        /\ t \in 0 .. 1 /\ (r = <<>> => t = 0)
        /\ Stream(w, queue, sent, l) => Stream(w \o x, r, t, l)
    BY <1>0, <1>3, <2>1, StreamSends
  <2> QED
    BY <2>2 DEF w, l
<1>5. /\ wire' = [wire EXCEPT ![sock] = wire[sock] \o x] /\ queue' = r /\ sent' = t
      /\ loop' \in {"drained", "poll"}
  BY <1>1
<1> HIDE DEF x, r, t
<1>6. /\ wire' \in [Conns -> Seq(PieceSet)] /\ wire'[sock] = wire[sock] \o x
      /\ \A c \in Conns \ {sock} : wire'[c] = wire[c]
  BY <1>0, <1>2, <1>4, <1>5
<1>7. /\ queue' \in Seq(FrameSet) /\ sent' \in 0 .. 1 /\ (queue' = <<>> => sent' = 0)
      /\ (queue = <<>> => queue' = <<>>)
      /\ Stream(wire[sock], queue, sent, log[sock])
             => Stream(wire'[sock], queue', sent', log[sock])
  <2>1. /\ queue' \in Seq(FrameSet) /\ sent' \in 0 .. 1 /\ (queue' = <<>> => sent' = 0)
        /\ (queue = <<>> => queue' = <<>>)
    BY <1>4, <1>5, Zenon
  <2>2. Stream(wire[sock], queue, sent, log[sock])
            => Stream(wire'[sock], queue', sent', log[sock])
    BY <1>4, <1>5, <1>6, Zenon
  <2> QED
    BY <2>1, <2>2
<1> QED
  BY <1>1, <1>2, <1>5, <1>6, <1>7

\* k pieces of what waits, or none of nothing.
LEMMA SomeSends ==
  ASSUME Types, NEW k, \/ k \in 1 .. Len(Unsent) /\ LoopSends(k)
                       \/ NothingToSend /\ k = 0
  PROVE  k \in 0 .. Len(Unsent) /\ LoopSends(k)
<1>1. queue \in Seq(FrameSet) /\ sent \in 0 .. 1 /\ (queue = <<>> => sent = 0)
  BY DEF Types, WriteTypes
<1>2. Unsent \in Seq(PieceSet)
  BY <1>1, UnsentElements DEF Unsent
<1>3. Len(Unsent) \in Nat
  BY <1>2
<1> QED
  BY <1>3 DEF NothingToSend

\* hio_close, and nio_write.
LEMMA ClosingTypes ==
  ASSUME Types, Closing \/ Sending \/ NothingToSend
  PROVE  Types'
<1>0. /\ IoTypes /\ WriteTypes /\ io \in IoSet /\ ids \in Nat /\ io.id <= ids
      /\ timer \in Conns \cup {NoConn} /\ strays \subseteq Conns
      /\ sock \in {NoConn, accepts} /\ accepts \in Conns \cup {NoConn}
      /\ watched \subseteq {"read", "write"} /\ (sock = NoConn => watched = {})
      /\ rearmed \in BOOLEAN /\ late \in BOOLEAN /\ listed \subseteq Conns
      /\ {"poll", "close", "drained", "done", "del", "clean", "callback", "closefd"}
             \subseteq Threads
  BY DEF Types, IoTypes, WriteTypes, Threads
<1>1. ASSUME NEW k \in 0 .. Len(Unsent), LoopSends(k) PROVE Types'
  <2>1. IoTypes'
    BY <1>0, <1>1, LoopSendsWhat, IoTypesKept
  <2>2. /\ wire' \in [Conns -> Seq(PieceSet)] /\ queue' \in Seq(FrameSet)
        /\ sent' \in 0 .. 1 /\ (queue' = <<>> => sent' = 0) /\ loop' \in {"drained", "poll"}
        /\ UNCHANGED <<log, writes, vty, frame, posted>>
    BY <1>1, LoopSendsWhat
  <2>3. WriteTypes'
    BY <1>0, <2>2 DEF WriteTypes
  <2> QED
    BY <2>1, <2>3 DEF Types
<1>2. ASSUME LoopSendFails PROVE Types'
  <2>1. /\ io' = [io EXCEPT !.error = TRUE] /\ loop' = "close"
        /\ UNCHANGED <<ids, timer, strays, rearmed, sock, accepts, watched, listed, late,
                       queue, sent, log, wire, writes, vty, frame, posted>>
    BY <1>2, Zenon DEF LoopSendFails, output, timers, vtyState, kernel
  <2>2. io' \in IoSet /\ io'.id = io.id
    BY <1>0, <2>1, IoChanges
  <2>3. IoTypes'
    BY <1>0, <2>1, <2>2 DEF IoTypes
  <2> QED
    BY <1>0, <2>1, <2>3, WriteTypesKept DEF Types
<1>3. ASSUME LoopDrained PROVE Types'
  <2>1. /\ io' = [io EXCEPT !.close = FALSE] /\ loop' \in {"close", "poll"}
        /\ UNCHANGED <<ids, timer, strays, rearmed, sock, accepts, watched, listed, late,
                       queue, sent, log, wire, writes, vty, frame, posted>>
    BY <1>3, Zenon DEF LoopDrained, output, timers, vtyState, kernel
  <2>2. io' \in IoSet /\ io'.id = io.id
    BY <1>0, <2>1, IoChanges
  <2>3. IoTypes'
    BY <1>0, <2>1, <2>2 DEF IoTypes
  <2> QED
    BY <1>0, <2>1, <2>3, WriteTypesKept DEF Types
<1>4. ASSUME LoopClose PROVE Types'
  <2>1. /\ loop' \in {"poll", "done"}
        /\ \/ /\ io' = [io EXCEPT !.close = TRUE] /\ timer' = sock
              /\ strays' = strays \cup ({timer} \ {NoConn})
              /\ rearmed' = (rearmed \/ timer # NoConn)
           \/ UNCHANGED <<io, timer, strays, rearmed>>
        /\ UNCHANGED <<ids, sock, accepts, watched, listed, late,
                       queue, sent, log, wire, writes, vty, frame, posted>>
    BY <1>4, Zenon DEF LoopClose, output, vtyState, kernel
  <2>2. io' \in IoSet /\ io'.id = io.id
    <3>1. CASE io' = [io EXCEPT !.close = TRUE]
      <4>1. [io EXCEPT !.close = TRUE] \in IoSet /\ [io EXCEPT !.close = TRUE].id = io.id
        BY <1>0, IoChanges
      <4> QED
        BY <3>1, <4>1
    <3>2. CASE UNCHANGED io
      BY <1>0, <3>2
    <3> QED
      BY <2>1, <3>1, <3>2
  <2>3. timer' \in Conns \cup {NoConn} /\ strays' \subseteq Conns
    BY <1>0, <2>1
  <2>4. rearmed' \in BOOLEAN
    BY <1>0, <2>1
  <2>5. IoTypes'
    BY <1>0, <2>1, <2>2, <2>3, <2>4 DEF IoTypes
  <2> QED
    BY <1>0, <2>1, <2>5, WriteTypesKept DEF Types
<1>5. ASSUME LoopDone PROVE Types'
  <2>1. /\ io' = [io EXCEPT !.closed = TRUE, !.ready = FALSE]
        /\ loop' \in {"del", "callback"} /\ late' = (late \/ vty # "idle")
        /\ UNCHANGED <<ids, timer, strays, rearmed, sock, accepts, watched, listed,
                       queue, sent, log, wire, writes, vty, frame, posted>>
    BY <1>5, Zenon DEF LoopDone, output, timers, vtyState, kernel
  <2>2. io' \in IoSet /\ io'.id = io.id
    BY <1>0, <2>1, IoChanges
  <2>3. late' \in BOOLEAN
    BY <1>0, <2>1, Zenon
  <2>4. IoTypes'
    BY <1>0, <2>1, <2>2, <2>3 DEF IoTypes
  <2> QED
    BY <1>0, <2>1, <2>4, WriteTypesKept DEF Types
<1>6. ASSUME LoopDel PROVE Types'
  <2>1. /\ io' = [io EXCEPT !.events = {}] /\ watched' \subseteq watched /\ loop' = "clean"
        /\ UNCHANGED <<ids, timer, strays, rearmed, sock, accepts, listed, late,
                       queue, sent, log, wire, writes, vty, frame, posted>>
    BY <1>6 DEF LoopDel, output, timers, vtyState
  <2>2. io' \in IoSet /\ io'.id = io.id
    BY <1>0, <2>1, IoChanges
  <2>3. IoTypes'
    BY <1>0, <2>1, <2>2 DEF IoTypes
  <2> QED
    BY <1>0, <2>1, <2>3, WriteTypesKept DEF Types
<1>7. ASSUME LoopClean PROVE Types'
  <2>1. /\ queue' = <<>> /\ sent' = 0 /\ loop' = "callback"
        /\ UNCHANGED <<io, ids, timer, strays, rearmed, sock, accepts, watched, listed, late,
                       log, wire, writes, vty, frame, posted>>
    BY <1>7, Zenon DEF LoopClean, timers, vtyState, kernel
  <2>2. IoTypes'
    BY <1>0, <2>1, IoTypesKept
  <2>3. queue' \in Seq(FrameSet) /\ sent' \in 0 .. 1
    BY <2>1
  <2>4. WriteTypes'
    BY <1>0, <2>1, <2>3 DEF WriteTypes
  <2> QED
    BY <2>2, <2>4 DEF Types
<1>8. ASSUME LoopCallback PROVE Types'
  <2>1. /\ timer' = NoConn /\ listed' \subseteq listed /\ loop' = "closefd"
        /\ UNCHANGED <<io, ids, strays, rearmed, sock, accepts, watched, late,
                       queue, sent, log, wire, writes, vty, frame, posted>>
    BY <1>8 DEF LoopCallback, output, vtyState, kernel
  <2>2. IoTypes'
    BY <1>0, <2>1 DEF IoTypes
  <2> QED
    BY <1>0, <2>1, <2>2, WriteTypesKept DEF Types
<1>9. ASSUME LoopCloseFd PROVE Types'
  <2>1. /\ sock' = NoConn /\ watched' = {} /\ loop' = "poll"
        /\ UNCHANGED <<io, ids, timer, strays, rearmed, accepts, listed, late,
                       queue, sent, log, wire, writes, vty, frame, posted>>
    BY <1>9, Zenon DEF LoopCloseFd, output, timers, vtyState
  <2>2. IoTypes'
    BY <1>0, <2>1 DEF IoTypes
  <2> QED
    BY <1>0, <2>1, <2>2, WriteTypesKept DEF Types
<1> QED
  BY <1>1, <1>2, <1>3, <1>4, <1>5, <1>6, <1>7, <1>8, <1>9, SomeSends DEF Closing, Sending

LEMMA TypesStep ==
  ASSUME Types, [Next]_vars PROVE Types'
<1>1. CASE Next
  BY <1>1, VtyTypes, AcceptTypes, EventTypes, ClosingTypes DEF Next
<1>2. CASE UNCHANGED vars
  BY <1>2 DEF vars, output, timers, vtyState, kernel, Types, IoTypes, WriteTypes
<1> QED
  BY <1>1, <1>2


-----------------------------------------------------------------------------
(* Calm, step by step *)

\* What Calm says of an hio_t is not about its error and close flags.
SameIo ==
    /\ io'.ready = io.ready /\ io'.closed = io.closed /\ io'.close_cb = io.close_cb
    /\ io'.id = io.id /\ io'.events = io.events

LEMMA SameIoChanges ==
  ASSUME Types, NEW b, io' = [io EXCEPT !.error = b] \/ io' = [io EXCEPT !.close = b]
  PROVE  SameIo
BY DEF Types, IoTypes, IoSet, SameIo

\* The parts of Calm and what they are about.
LEMMA WatchingKept ==
  ASSUME Watching, SameIo, UNCHANGED <<sock, watched>>, queue' = queue,
         loop' \in {"clean", "callback", "closefd"} <=> loop \in {"clean", "callback", "closefd"}
  PROVE  Watching'
<1>1. (sock' = NoConn \/ loop' \in {"clean", "callback", "closefd"})
      <=> (sock = NoConn \/ loop \in {"clean", "callback", "closefd"})
  OBVIOUS
<1>2. io'.events = io.events /\ io'.ready = io.ready
  BY DEF SameIo
<1> QED
  BY <1>1, <1>2 DEF Watching

LEMMA TimingKept ==
  ASSUME Timing, UNCHANGED <<timer, rearmed>>, strays' \subseteq strays,
         sock' = NoConn \/ loop' = "closefd" => sock = NoConn \/ loop = "closefd"
  PROVE  Timing'
BY DEF Timing

LEMMA PostingKept ==
  ASSUME Posting, UNCHANGED <<posted, ids, accepts>>, io'.id = io.id
  PROVE  Posting'
BY DEF Posting

LEMMA StreamingKept ==
  ASSUME Streaming, UNCHANGED <<queue, sent, log, wire, accepts, sock, frame>>,
         Locked' <=> Locked, Emptied' => Emptied, Open' => Open
  PROVE  Streaming'
<1>1. \A c \in Conns : Delivered(c)'
  BY DEF Streaming, Delivered
<1>2. Unsent' = Unsent
  BY DEF Unsent
<1>3. \A c \in Conns : c > accepts' => wire'[c] = <<>> /\ log'[c] = <<>>
  BY DEF Streaming
<1>4. Emptied' => queue' = <<>>
  BY DEF Streaming
<1>5. Locked' => /\ queue' = <<>>
                 /\ wire'[sock'] \o Drop(frame'.taken, Pieces(frame'.f)) = PiecesOf(log'[sock'])
  BY DEF Streaming
<1>6. Open' /\ ~ Locked' => wire'[sock'] \o Unsent' = PiecesOf(log'[sock'])
  BY <1>2 DEF Streaming
<1> QED
  BY <1>1, <1>3, <1>4, <1>5, <1>6 DEF Streaming

\* The steps of the loop thread that end in poll or in hio_close, and change no
\* more than a flag, a timer that has fired, an event that was read.
Moves ==
    /\ loop \in {"poll", "write", "drained"} /\ loop' \in {"poll", "close"} /\ SameIo
    /\ UNCHANGED <<queue, sent, log, wire, ids, timer, rearmed, vty, frame, accepts, sock,
                   watched, listed>>
    /\ strays' \subseteq strays
    /\ posted' = posted \/ (posted # <<>> /\ posted' = Tail(posted))
    /\ accepts # NoConn

LEMMA MovesCalm ==
  ASSUME Types, Calm, Moves PROVE Calm'
<1>0. /\ loop \in {"poll", "write", "drained"} /\ loop' \in {"poll", "close"} /\ SameIo
      /\ UNCHANGED <<queue, sent, log, wire, ids, timer, rearmed, vty, frame, accepts, sock,
                     watched, listed>>
      /\ strays' \subseteq strays
      /\ posted' = posted \/ (posted # <<>> /\ posted' = Tail(posted))
      /\ accepts # NoConn
  BY DEF Moves
<1>1. Life /\ Watching /\ Timing /\ Posting /\ Streaming
  BY DEF Calm
<1>2. Open' <=> Open
  BY <1>0 DEF Open, SameIo
<1>3. Life'
  <2>1. /\ loop \in {"write", "drained", "done"} => Open
        /\ loop \in {"poll", "close"} /\ io.closed => sock = NoConn
        /\ sock = NoConn /\ ~ io.closed => accepts = NoConn
        /\ io.ready <=> Open
        /\ sock # NoConn => io.close_cb
        /\ vty # "idle" => Open /\ frame.f.to = sock
        /\ listed = IF sock = NoConn \/ loop = "closefd" THEN {} ELSE {sock}
    BY <1>1 DEF Life
  <2>2. io.closed => sock = NoConn
    BY <1>0, <2>1 DEF Open
  <2>3. io'.ready = io.ready /\ io'.closed = io.closed /\ io'.close_cb = io.close_cb
    BY <1>0 DEF SameIo
  <2>4. listed' = IF sock' = NoConn \/ loop' = "closefd" THEN {} ELSE {sock'}
    BY <1>0, <2>1
  <2> QED
    BY <1>0, <1>2, <2>1, <2>2, <2>3, <2>4 DEF Life, Ends
<1>4. Watching' /\ Timing'
  BY <1>0, <1>1, WatchingKept, TimingKept
<1>5. Posting'
  <2>1. CASE posted' = posted
    BY <1>0, <1>1, <2>1, PostingKept DEF SameIo
  <2>2. CASE posted # <<>> /\ posted' = Tail(posted)
    <3>1. posted \in Seq(Posts)
      BY DEF Types, WriteTypes
    <3>2. /\ posted' \in Seq(Posts) /\ Len(posted') = Len(posted) - 1
          /\ \A i \in 1 .. Len(posted') : posted'[i] = posted[i + 1]
      BY <2>2, <3>1, HeadTailProperties
    <3>3. \A i \in 1 .. Len(posted') : i + 1 \in 1 .. Len(posted)
      BY <3>1, <3>2
    <3>4. io'.id = io.id
      BY <1>0 DEF SameIo
    <3> QED
      BY <1>0, <1>1, <3>2, <3>3, <3>4 DEF Posting
  <2> QED
    BY <1>0, <2>1, <2>2
<1>6. Streaming'
  <2>1. Locked' <=> Locked
    BY <1>0 DEF Locked
  <2>2. Emptied' => Emptied
    BY <1>0 DEF Emptied
  <2> QED
    BY <1>0, <1>1, <1>2, <2>1, <2>2, StreamingKept
<1> QED
  BY <1>3, <1>4, <1>5, <1>6 DEF Calm


LEMMA TheseMove ==
  ASSUME Types, Calm,
         \/ \E error \in BOOLEAN : LoopEof(error)
         \/ LoopReplyFails \/ LoopHangsUp \/ LoopEvent \/ Timers
         \/ LoopSendFails \/ LoopDrained
  PROVE  Moves
<1>0. /\ sock \in {NoConn, accepts}
      /\ loop \in {"write", "drained"} => sock # NoConn
      /\ accepts = NoConn => posted = <<>> /\ timer = NoConn /\ strays = {}
  BY DEF Types, IoTypes, Calm, Life, Open
<1>1. ASSUME NEW error \in BOOLEAN, LoopEof(error) PROVE Moves
  <2>1. /\ loop = "poll" /\ loop' = "close" /\ sock # NoConn
        /\ io' = [io EXCEPT !.error = io.error \/ error]
        /\ UNCHANGED <<queue, sent, log, wire, ids, timer, rearmed, vty, frame, accepts, sock,
                       watched, listed, strays, posted>>
    BY <1>1, Zenon DEF LoopEof, LoopReads, output, timers, vtyState, kernel
  <2>2. SameIo
    BY <2>1, SameIoChanges
  <2> QED
    BY <1>0, <2>1, <2>2 DEF Moves
<1>2. ASSUME LoopReplyFails PROVE Moves
  <2>1. /\ loop = "poll" /\ loop' = "close" /\ sock # NoConn
        /\ io' = [io EXCEPT !.error = TRUE]
        /\ UNCHANGED <<queue, sent, log, wire, ids, timer, rearmed, vty, frame, accepts, sock,
                       watched, listed, strays, posted>>
    BY <1>2, Zenon DEF LoopReplyFails, LoopReads, output, timers, vtyState, kernel
  <2>2. SameIo
    BY <2>1, SameIoChanges
  <2> QED
    BY <1>0, <2>1, <2>2 DEF Moves
<1>3. ASSUME LoopHangsUp PROVE Moves
  <2>1. /\ loop = "poll" /\ loop' = "close" /\ sock # NoConn
        /\ UNCHANGED <<io, queue, sent, log, wire, ids, timer, rearmed, vty, frame, accepts,
                       sock, watched, listed, strays, posted>>
    BY <1>3, Zenon DEF LoopHangsUp, LoopReads, output, timers, vtyState, kernel
  <2>2. SameIo
    BY <2>1 DEF SameIo
  <2> QED
    BY <1>0, <2>1, <2>2 DEF Moves
<1>4. ASSUME LoopEvent PROVE Moves
  <2>1. /\ loop = "poll" /\ loop' \in {"poll", "close"}
        /\ posted # <<>> /\ posted' = Tail(posted)
        /\ UNCHANGED <<io, queue, sent, log, wire, ids, timer, rearmed, vty, frame, accepts,
                       sock, watched, listed, strays>>
    BY <1>4, Zenon DEF LoopEvent, output, timers, kernel
  <2>2. SameIo
    BY <2>1 DEF SameIo
  <2> QED
    BY <1>0, <2>1, <2>2 DEF Moves
<1>5. ASSUME NEW c \in Conns, LoopTimer(c) PROVE Moves
  <2>1. /\ loop = "poll" /\ loop' = "close" /\ c \in {timer} \cup strays
        /\ strays' = strays \ {c} /\ io' = [io EXCEPT !.error = TRUE]
        /\ UNCHANGED <<queue, sent, log, wire, ids, timer, rearmed, vty, frame, accepts, sock,
                       watched, listed, posted>>
    BY <1>5, Zenon DEF LoopTimer, output, vtyState, kernel
  <2>2. SameIo
    BY <2>1, SameIoChanges
  <2>3. accepts # NoConn
    <3>1. c # NoConn
      BY DEF Conns, NoConn
    <3> QED
      BY <1>0, <2>1, <3>1
  <2> QED
    BY <2>1, <2>2, <2>3 DEF Moves
<1>6. ASSUME LoopSendFails PROVE Moves
  <2>1. /\ loop = "write" /\ loop' = "close" /\ io' = [io EXCEPT !.error = TRUE]
        /\ UNCHANGED <<queue, sent, log, wire, ids, timer, rearmed, vty, frame, accepts, sock,
                       watched, listed, strays, posted>>
    BY <1>6, Zenon DEF LoopSendFails, output, timers, vtyState, kernel
  <2>2. SameIo
    BY <2>1, SameIoChanges
  <2> QED
    BY <1>0, <2>1, <2>2 DEF Moves
<1>7. ASSUME LoopDrained PROVE Moves
  <2>1. /\ loop = "drained" /\ loop' \in {"close", "poll"} /\ io' = [io EXCEPT !.close = FALSE]
        /\ UNCHANGED <<queue, sent, log, wire, ids, timer, rearmed, vty, frame, accepts, sock,
                       watched, listed, strays, posted>>
    BY <1>7, Zenon DEF LoopDrained, output, timers, vtyState, kernel
  <2>2. SameIo
    BY <2>1, SameIoChanges
  <2> QED
    BY <1>0, <2>1, <2>2 DEF Moves
<1> QED
  BY <1>1, <1>2, <1>3, <1>4, <1>5, <1>6, <1>7 DEF Timers

\* hio_close: its test, and the wait for the queue.
LEMMA CloseCalm ==
  ASSUME Types, Calm, LoopClose PROVE Calm'
<1>0. /\ loop = "close" /\ loop' \in {"poll", "done"}
      /\ io.closed => loop' = "poll"
      /\ loop' = "poll" /\ ~ io.closed => io' = [io EXCEPT !.close = TRUE]
      /\ \/ /\ ~ io.closed /\ loop' = "poll" /\ io' = [io EXCEPT !.close = TRUE]
            /\ timer' = sock
            /\ strays' = strays \cup ({timer} \ {NoConn})
            /\ rearmed' = (rearmed \/ timer # NoConn)
         \/ UNCHANGED <<io, timer, strays, rearmed>>
      /\ UNCHANGED <<queue, sent, log, wire, ids, vty, frame, accepts, sock, watched, listed,
                     posted>>
  BY Zenon DEF LoopClose, output, vtyState, kernel
<1>1. Life /\ Watching /\ Timing /\ Posting /\ Streaming
  BY DEF Calm
<1>2. SameIo
  <2>1. CASE io' = [io EXCEPT !.close = TRUE]
    BY <2>1, SameIoChanges
  <2>2. CASE UNCHANGED io
    BY <2>2 DEF SameIo
  <2> QED
    BY <1>0, <2>1, <2>2
<1>3. Open' <=> Open
  BY <1>0, <1>2 DEF Open, SameIo
<1>4. io'.ready = io.ready /\ io'.closed = io.closed /\ io'.close_cb = io.close_cb
      /\ io'.id = io.id
  BY <1>2 DEF SameIo
<1>5. accepts # NoConn /\ (io.closed => sock = NoConn) /\ (~ io.closed => sock # NoConn)
  BY <1>0, <1>1 DEF Life
<1>6. Life'
  <2>1. /\ io.ready <=> Open
        /\ sock # NoConn => io.close_cb
        /\ vty # "idle" => Open /\ frame.f.to = sock
        /\ listed = IF sock = NoConn \/ loop = "closefd" THEN {} ELSE {sock}
    BY <1>1 DEF Life
  <2>2. loop' = "done" => Open
    BY <1>0, <1>5 DEF Open
  <2> QED
    BY <1>0, <1>3, <1>4, <1>5, <2>1, <2>2 DEF Life, Ends
<1>7. Watching'
  BY <1>0, <1>1, <1>2, WatchingKept
<1>8. Timing'
  <2>1. CASE UNCHANGED <<io, timer, strays, rearmed>>
    BY <1>0, <1>1, <2>1, TimingKept
  <2>2. CASE /\ ~ io.closed /\ loop' = "poll" /\ timer' = sock
             /\ strays' = strays \cup ({timer} \ {NoConn})
             /\ rearmed' = (rearmed \/ timer # NoConn)
    <3>1. sock' # NoConn /\ loop' # "closefd"
      BY <1>0, <1>5, <2>2
    <3>2. ~ rearmed' => ~ rearmed /\ timer = NoConn
      BY <2>2
    <3>3. ~ rearmed' => strays' = {}
      BY <1>1, <2>2, <3>2 DEF Timing
    <3> QED
      BY <3>1, <3>3 DEF Timing
  <2> QED
    BY <1>0, <2>1, <2>2
<1>9. Posting'
  BY <1>0, <1>1, <1>4, PostingKept
<1>10. Streaming'
  <2>1. (Locked' <=> Locked) /\ (Emptied' => Emptied)
    BY <1>0 DEF Locked, Emptied
  <2> QED
    BY <1>0, <1>1, <1>3, <2>1, StreamingKept
<1> QED
  BY <1>6, <1>7, <1>8, <1>9, <1>10 DEF Calm

\* hio_close: closed, and hio_done.  The other thread is not in hio_write.
LEMMA DoneCalm ==
  ASSUME Types, Calm, LoopDone, ~ late' PROVE Calm'
<1>0. /\ loop = "done" /\ io' = [io EXCEPT !.closed = TRUE, !.ready = FALSE]
      /\ loop' = (IF io.ready THEN "del" ELSE "callback")
      /\ late' = (late \/ vty # "idle")
      /\ UNCHANGED <<queue, sent, log, wire, ids, timer, strays, rearmed, vty, frame, accepts,
                     sock, watched, listed, posted>>
  BY Zenon DEF LoopDone, output, timers, vtyState, kernel
<1>1. Life /\ Watching /\ Timing /\ Posting /\ Streaming
  BY DEF Calm
<1>2. Open /\ io.ready /\ vty = "idle" /\ sock # NoConn /\ loop' = "del"
  BY <1>0, <1>1 DEF Life, Open
<1>3. /\ io'.closed /\ ~ io'.ready /\ io'.close_cb = io.close_cb /\ io'.id = io.id
      /\ io'.events = io.events
  BY <1>0 DEF Types, IoTypes, IoSet
<1>4. ~ Open' /\ accepts # NoConn
  BY <1>0, <1>1, <1>2, <1>3 DEF Open, Life
<1>5. Life'
  BY <1>0, <1>1, <1>2, <1>3, <1>4 DEF Life, Ends
<1>6. Watching'
  BY <1>0, <1>1, <1>2, <1>3 DEF Watching
<1>7. Timing' /\ Posting'
  BY <1>0, <1>1, <1>2, <1>3, TimingKept, PostingKept
<1>8. Streaming'
  <2>1. (Locked' <=> Locked) /\ (Emptied' => Emptied)
    BY <1>0, <1>2 DEF Locked, Emptied
  <2> QED
    BY <1>0, <1>1, <1>4, <2>1, StreamingKept
<1> QED
  BY <1>5, <1>6, <1>7, <1>8 DEF Calm


\* hio_del
LEMMA DelCalm ==
  ASSUME Types, Calm, LoopDel PROVE Calm'
<1>0. /\ loop = "del" /\ io' = [io EXCEPT !.events = {}] /\ loop' = "clean"
      /\ watched' = (IF io.events = {} THEN watched ELSE {})
      /\ UNCHANGED <<queue, sent, log, wire, ids, timer, strays, rearmed, vty, frame, accepts,
                     sock, listed, posted>>
  BY Zenon DEF LoopDel, output, timers, vtyState
<1>1. Life /\ Watching /\ Timing /\ Posting /\ Streaming
  BY DEF Calm
<1>2. sock # NoConn /\ io.closed /\ ~ Open
  BY <1>0, <1>1 DEF Life, Open, Ends
<1>3. /\ io'.ready = io.ready /\ io'.closed = io.closed /\ io'.close_cb = io.close_cb
      /\ io'.id = io.id /\ io'.events = {}
  BY <1>0 DEF Types, IoTypes, IoSet
<1>4. ~ Open' /\ accepts # NoConn
  BY <1>0, <1>1, <1>2, <1>3 DEF Open, Life
<1>5. Life'
  BY <1>0, <1>1, <1>2, <1>3, <1>4 DEF Life, Ends
<1>6. Watching'
  BY <1>0, <1>1, <1>2, <1>3 DEF Watching
<1>7. Timing' /\ Posting'
  BY <1>0, <1>1, <1>3, TimingKept, PostingKept
<1>8. Streaming'
  <2>1. (Locked' <=> Locked) /\ (Emptied' => Emptied)
    BY <1>0, <1>2 DEF Locked, Emptied
  <2> QED
    BY <1>0, <1>1, <1>4, <2>1, StreamingKept
<1> QED
  BY <1>5, <1>6, <1>7, <1>8 DEF Calm

\* The queue is emptied.
LEMMA CleanCalm ==
  ASSUME Types, Calm, LoopClean PROVE Calm'
<1>0. /\ loop = "clean" /\ queue' = <<>> /\ sent' = 0 /\ loop' = "callback"
      /\ UNCHANGED <<io, log, wire, ids, timer, strays, rearmed, vty, frame, accepts,
                     sock, watched, listed, posted>>
  BY Zenon DEF LoopClean, timers, vtyState, kernel
<1>1. Life /\ Watching /\ Timing /\ Posting /\ Streaming
  BY DEF Calm
<1>2. sock # NoConn /\ io.closed /\ ~ Open /\ vty = "idle" /\ accepts # NoConn
  BY <1>0, <1>1 DEF Life, Open, Ends
<1>3. ~ Open' /\ ~ Locked'
  BY <1>0, <1>2 DEF Open, Locked
<1>5. Life'
  BY <1>0, <1>1, <1>2, <1>3 DEF Life, Ends
<1>6. Watching'
  BY <1>0, <1>1, <1>2 DEF Watching
<1>7. Timing' /\ Posting'
  BY <1>0, <1>1, TimingKept, PostingKept
<1>8. Streaming'
  <2>1. \A c \in Conns : Delivered(c)'
    BY <1>0, <1>1 DEF Streaming, Delivered
  <2> QED
    BY <1>0, <1>1, <1>3, <2>1 DEF Streaming
<1> QED
  BY <1>5, <1>6, <1>7, <1>8 DEF Calm

\* __close_cb and netmt_close
LEMMA CallbackCalm ==
  ASSUME Types, Calm, LoopCallback PROVE Calm'
<1>0. /\ loop = "callback" /\ timer' = NoConn /\ loop' = "closefd"
      /\ listed' = (IF io.close_cb THEN listed \ {accepts} ELSE listed)
      /\ UNCHANGED <<io, queue, sent, log, wire, ids, strays, rearmed, vty, frame, accepts,
                     sock, watched, posted>>
  BY Zenon DEF LoopCallback, output, vtyState, kernel
<1>1. Life /\ Watching /\ Timing /\ Posting /\ Streaming
  BY DEF Calm
<1>2. /\ sock # NoConn /\ io.closed /\ ~ Open /\ vty = "idle" /\ accepts # NoConn
      /\ sock = accepts
  BY <1>0, <1>1 DEF Life, Open, Ends, Types, IoTypes
<1>3. ~ Open' /\ ~ Locked'
  BY <1>0, <1>2 DEF Open, Locked
<1>4. listed' = {}
  BY <1>0, <1>1, <1>2 DEF Life
<1>5. Life'
  BY <1>0, <1>1, <1>2, <1>3, <1>4 DEF Life, Ends
<1>6. Watching'
  BY <1>0, <1>1, <1>2 DEF Watching
<1>7. Timing' /\ Posting'
  BY <1>0, <1>1, PostingKept DEF Timing
<1>8. Streaming'
  <2>1. (Locked' <=> Locked) /\ (Emptied' => Emptied)
    BY <1>0, <1>2 DEF Locked, Emptied
  <2> QED
    BY <1>0, <1>1, <1>3, <2>1, StreamingKept
<1> QED
  BY <1>5, <1>6, <1>7, <1>8 DEF Calm

\* closesocket
LEMMA CloseFdCalm ==
  ASSUME Types, Calm, LoopCloseFd PROVE Calm'
<1>0. /\ loop = "closefd" /\ sock' = NoConn /\ watched' = {} /\ loop' = "poll"
      /\ UNCHANGED <<io, queue, sent, log, wire, ids, timer, strays, rearmed, vty, frame,
                     accepts, listed, posted>>
  BY Zenon DEF LoopCloseFd, output, timers, vtyState
<1>1. Life /\ Watching /\ Timing /\ Posting /\ Streaming
  BY DEF Calm
<1>2. /\ sock # NoConn /\ io.closed /\ ~ Open /\ vty = "idle" /\ accepts # NoConn
  BY <1>0, <1>1 DEF Life, Open, Ends, Types, IoTypes
<1>3. ~ Open' /\ ~ Locked' /\ ~ Locked
  BY <1>0, <1>2 DEF Open, Locked
<1>5. Life'
  BY <1>0, <1>1, <1>2, <1>3 DEF Life, Ends
<1>6. Watching' /\ Timing' /\ Posting'
  BY <1>0, <1>1, PostingKept DEF Watching, Timing
<1>8. Streaming'
  <2>1. \A c \in Conns : Delivered(c)'
    BY <1>0, <1>1 DEF Streaming, Delivered
  <2>2. queue' = <<>>
    BY <1>0, <1>1 DEF Streaming, Emptied
  <2> QED
    BY <1>0, <1>1, <1>3, <2>1, <2>2 DEF Streaming
<1> QED
  BY <1>5, <1>6, <1>8 DEF Calm

\* hio_handle_events, before nio_write
LEMMA WritableCalm ==
  ASSUME Types, Calm, LoopWritable PROVE Calm'
<1>0. /\ loop = "poll" /\ loop' = "write" /\ "write" \in watched
      /\ (IF queue = <<>>
          THEN /\ io' = [io EXCEPT !.events = io.events \ {"write"}]
               /\ watched' = io.events \ {"write"}
          ELSE UNCHANGED <<io, watched>>)
      /\ UNCHANGED <<queue, sent, log, wire, ids, timer, strays, rearmed, vty, frame, accepts,
                     sock, listed, posted>>
  BY Zenon DEF LoopWritable, output, timers, vtyState
<1>1. Life /\ Watching /\ Timing /\ Posting /\ Streaming
  BY DEF Calm
<1>2. sock # NoConn /\ ~ io.closed /\ Open /\ accepts # NoConn
  BY <1>0, <1>1 DEF Life, Open, Types, IoTypes
<1>3. /\ io'.ready = io.ready /\ io'.closed = io.closed /\ io'.close_cb = io.close_cb
      /\ io'.id = io.id
      /\ io'.events = IF queue = <<>> THEN io.events \ {"write"} ELSE io.events
  BY <1>0 DEF Types, IoTypes, IoSet
<1>4. Open'
  BY <1>0, <1>2, <1>3 DEF Open
<1>5. Life'
  BY <1>0, <1>1, <1>2, <1>3, <1>4 DEF Life, Ends
<1>6. Watching'
  BY <1>0, <1>1, <1>2, <1>3 DEF Watching
<1>7. Timing' /\ Posting'
  BY <1>0, <1>1, <1>3, TimingKept, PostingKept
<1>8. Streaming'
  <2>1. (Locked' <=> Locked) /\ (Emptied' => Emptied)
    BY <1>0, <1>2 DEF Locked, Emptied
  <2> QED
    BY <1>0, <1>1, <1>2, <2>1, StreamingKept
<1> QED
  BY <1>5, <1>6, <1>7, <1>8 DEF Calm


\* The connection stays, and what is written or sent for it fits.
LEMMA StreamingOpen ==
  ASSUME Types, Types', Streaming, Open', UNCHANGED <<sock, accepts>>, ~ Locked',
         loop' \notin {"callback", "closefd"},
         \A c \in Conns \ {sock} : wire'[c] = wire[c] /\ log'[c] = log[c],
         Stream(wire'[sock], queue', sent', log'[sock])
  PROVE  Streaming'
<1>0. sock \in Conns /\ sock = accepts
  BY DEF Types, IoTypes, Open
<1>1. /\ wire'[sock] \in Seq(PieceSet) /\ log'[sock] \in Seq(FrameSet)
      /\ queue' \in Seq(FrameSet) /\ sent' \in 0 .. 1 /\ (queue' = <<>> => sent' = 0)
  BY <1>0 DEF Types, WriteTypes
<1>2. IsPrefix(wire'[sock], PiecesOf(log'[sock]))
  BY <1>1, StreamPrefix
<1>3. ASSUME NEW c \in Conns PROVE Delivered(c)'
  <2>1. CASE c = sock
    BY <1>2, <2>1 DEF Delivered
  <2>2. CASE c # sock
    BY <2>2 DEF Streaming, Delivered
  <2> QED
    BY <2>1, <2>2
<1>4. ASSUME NEW c \in Conns, c > accepts' PROVE wire'[c] = <<>> /\ log'[c] = <<>>
  <2>1. c # sock
    <3>1. c \in Nat /\ sock \in Nat
      BY <1>0 DEF Conns
    <3> QED
      BY <1>0, <1>4, <3>1
  <2> QED
    BY <1>4, <2>1 DEF Streaming
<1>5. ~ Emptied'
  BY DEF Emptied, Open
<1>6. wire'[sock'] \o Unsent' = PiecesOf(log'[sock'])
  BY DEF Stream, Unsent
<1> QED
  BY <1>3, <1>4, <1>5, <1>6 DEF Streaming

\* What is on the wire and in the queue of an open connection.
LEMMA StreamNow ==
  ASSUME Streaming, Open, ~ Locked
  PROVE  Stream(wire[sock], queue, sent, log[sock])
BY DEF Streaming, Stream, Unsent

\* nio_write
LEMMA SendsCalm ==
  ASSUME Types, Types', Calm, NEW k \in 0 .. Len(Unsent), LoopSends(k) PROVE Calm'
<1>0. /\ loop = "write" /\ ~ Locked /\ sock \in Conns /\ loop' \in {"drained", "poll"}
      /\ (queue = <<>> => queue' = <<>>)
      /\ Stream(wire[sock], queue, sent, log[sock])
             => Stream(wire'[sock], queue', sent', log[sock])
      /\ \A c \in Conns \ {sock} : wire'[c] = wire[c]
      /\ UNCHANGED <<io, ids, timer, strays, rearmed, sock, accepts, watched, listed, late,
                     log, writes, vty, frame, posted>>
  BY LoopSendsWhat
<1>1. Life /\ Watching /\ Timing /\ Posting /\ Streaming
  BY DEF Calm
<1>2. Open /\ accepts # NoConn /\ sock # NoConn /\ ~ io.closed
  BY <1>0, <1>1 DEF Life, Open
<1>3. Open' /\ ~ Locked'
  BY <1>0, <1>2 DEF Open, Locked
<1>4. Life'
  BY <1>0, <1>1, <1>2, <1>3 DEF Life, Ends
<1>5. Watching'
  BY <1>0, <1>1 DEF Watching
<1>6. Timing' /\ Posting'
  BY <1>0, <1>1, TimingKept, PostingKept
<1>7. Stream(wire'[sock], queue', sent', log'[sock])
  <2>1. Stream(wire[sock], queue, sent, log[sock])
    BY <1>0, <1>1, <1>2, StreamNow
  <2>2. log' = log
    BY <1>0
  <2> QED
    BY <1>0, <2>1, <2>2
<1>8. Streaming'
  BY <1>0, <1>1, <1>3, <1>7, StreamingOpen
<1> QED
  BY <1>4, <1>5, <1>6, <1>8 DEF Calm

\* hio_add on an hio_t that is ready.
LEMMA AddKeeps ==
  ASSUME Types, Calm, Open, Add("write", TRUE)
  PROVE  /\ io'.ready = io.ready /\ io'.closed = io.closed /\ io'.close_cb = io.close_cb
         /\ io'.id = io.id /\ io'.events = io.events \cup {"write"} /\ watched' = io'.events
         /\ UNCHANGED <<ids, timer, strays>>
         /\ loop \notin Ends /\ "read" \in io.events
<1>1. io.ready /\ loop \notin Ends /\ sock # NoConn
  BY DEF Calm, Life, Open
<1>2. watched = io.events /\ "read" \in io.events
  BY <1>1 DEF Calm, Watching, Ends
<1>3. /\ io' = [io EXCEPT !.events = io.events \cup {"write"}]
      /\ watched' = IF "write" \in io.events THEN watched ELSE Watch(io.events, "write")
      /\ UNCHANGED <<ids, timer, strays>>
  BY <1>1 DEF Add, Ready, ForgetsTimer
<1>4. /\ io'.ready = io.ready /\ io'.closed = io.closed /\ io'.close_cb = io.close_cb
      /\ io'.id = io.id /\ io'.events = io.events \cup {"write"}
  BY <1>3 DEF Types, IoTypes, IoSet
<1>5. watched' = io.events \cup {"write"}
  BY <1>2, <1>3 DEF Watch
<1> QED
  BY <1>1, <1>2, <1>3, <1>4, <1>5

\* hio_write in the read callback.
LEMMA RepliesCalm ==
  ASSUME Types, Types', Calm, NEW k \in 0 .. 2, LoopReplies(k) PROVE Calm'
<1> DEFINE f == NewFrame(sock)
<1>0. /\ loop = "poll" /\ sock # NoConn /\ ~ Locked /\ writes < MaxWrites /\ Logged(f)
      /\ UNCHANGED <<rearmed, vty, frame, posted, sock, gone, accepts, listed, loop, late>>
      /\ IF queue # <<>>
         THEN /\ queue' = Append(queue, f)
              /\ UNCHANGED <<io, sent, ids, timer, strays, watched, wire>>
         ELSE /\ Takes(f, k)
              /\ IF k = 2
                 THEN UNCHANGED <<io, queue, sent, ids, timer, strays, watched>>
                 ELSE Add("write", TRUE) /\ queue' = <<f>> /\ sent' = k
  BY Zenon DEF LoopReplies, LoopReads, vtyState
<1>1. Life /\ Watching /\ Timing /\ Posting /\ Streaming
  BY DEF Calm
<1>2. /\ queue \in Seq(FrameSet) /\ sent \in 0 .. 1 /\ (queue = <<>> => sent = 0)
      /\ sock \in Conns /\ accepts # NoConn
      /\ log[sock] \in Seq(FrameSet) /\ wire[sock] \in Seq(PieceSet)
  BY <1>0 DEF Types, IoTypes, WriteTypes
<1>3. Open /\ io.ready /\ ~ io.closed
  BY <1>0, <1>1 DEF Life, Open
<1>4. Stream(wire[sock], queue, sent, log[sock])
  BY <1>0, <1>1, <1>3, StreamNow
<1>5. f \in FrameSet /\ f.to = sock
  BY <1>0, <1>2, NewFrameTypes DEF NewFrame
<1>6. log'[sock] = Append(log[sock], f) /\ \A c \in Conns \ {sock} : log'[c] = log[c]
  BY <1>0, <1>5, LoggedTypes
<1> HIDE DEF f
<1>7. /\ io'.ready = io.ready /\ io'.closed = io.closed /\ io'.close_cb = io.close_cb
      /\ io'.id = io.id /\ UNCHANGED <<ids, timer, strays>>
      /\ \/ UNCHANGED <<io, watched>> /\ (queue' # <<>> => queue # <<>>)
         \/ /\ io'.events = io.events \cup {"write"} /\ watched' = io'.events
            /\ "read" \in io.events
      /\ \A c \in Conns \ {sock} : wire'[c] = wire[c]
      /\ Stream(wire'[sock], queue', sent', log'[sock])
  <2>1. CASE queue # <<>>
    <3>1. /\ queue' = Append(queue, f)
          /\ UNCHANGED <<io, sent, ids, timer, strays, watched, wire>>
      BY <1>0, <2>1
    <3>2. Stream(wire[sock], Append(queue, f), sent, Append(log[sock], f))
      BY <1>2, <1>4, <1>5, StreamQueues
    <3> QED
      BY <1>6, <2>1, <3>1, <3>2
  <2>2. CASE queue = <<>>
    <3>1. /\ Takes(f, k)
          /\ IF k = 2 THEN UNCHANGED <<io, queue, sent, ids, timer, strays, watched>>
             ELSE Add("write", TRUE) /\ queue' = <<f>> /\ sent' = k
      BY <1>0, <2>2
    <3>2. /\ wire'[sock] = wire[sock] \o First(k, Pieces(f))
          /\ \A c \in Conns \ {sock} : wire'[c] = wire[c]
      BY <1>5, <3>1, TakesTypes
    <3>3. Stream(wire[sock], <<>>, 0, log[sock])
      BY <1>2, <1>4, <2>2
    <3>4. /\ k = 2 => Stream(wire'[sock], <<>>, 0, log'[sock])
          /\ k < 2 => Stream(wire'[sock], <<f>>, k, log'[sock])
      BY <1>2, <1>5, <1>6, <3>2, <3>3, StreamWrites
    <3>5. CASE k = 2
      BY <1>2, <2>2, <3>1, <3>2, <3>4, <3>5
    <3>6. CASE k # 2
      <4>0. k < 2
        BY <3>6
      <4>1. Add("write", TRUE) /\ queue' = <<f>> /\ sent' = k
        BY <3>1, <3>6, Zenon
      <4>2. /\ io'.ready = io.ready /\ io'.closed = io.closed /\ io'.close_cb = io.close_cb
            /\ io'.id = io.id /\ io'.events = io.events \cup {"write"} /\ watched' = io'.events
            /\ UNCHANGED <<ids, timer, strays>> /\ "read" \in io.events
        BY <1>3, <4>1, AddKeeps
      <4>3. Stream(wire'[sock], queue', sent', log'[sock])
        BY <3>4, <4>0, <4>1
      <4> QED
        BY <3>2, <4>2, <4>3
    <3> QED
      BY <3>5, <3>6
  <2> QED
    BY <2>1, <2>2
<1>8. Open' /\ ~ Locked'
  BY <1>0, <1>3, <1>7 DEF Open, Locked
<1>9. Life'
  BY <1>0, <1>1, <1>2, <1>3, <1>7, <1>8 DEF Life, Ends
<1>10. Watching'
  BY <1>0, <1>1, <1>3, <1>7 DEF Watching
<1>11. Timing' /\ Posting'
  BY <1>0, <1>1, <1>7, TimingKept, PostingKept
<1>12. Streaming'
  BY <1>0, <1>1, <1>6, <1>7, <1>8, StreamingOpen
<1> QED
  BY <1>9, <1>10, <1>11, <1>12 DEF Calm


\* accept: nothing of the connection before it is left.
LEMMA AcceptCalm ==
  ASSUME Types, Types', Calm, NEW c \in Conns, Accept(c) PROVE Calm'
<1>0. /\ loop = "poll" /\ sock = NoConn /\ c = accepts + 1 /\ sock' = c /\ accepts' = c
      /\ io' = [Ready EXCEPT !.close_cb = TRUE, !.events = Ready.events \cup {"read"}]
      /\ watched' = Watch(Ready.events, "read") /\ ForgetsTimer
      /\ listed' = listed \cup {c}
      /\ UNCHANGED <<queue, sent, log, rearmed, vty, frame, posted, gone, wire, writes, loop,
                     late>>
  BY Zenon DEF Accept, output, vtyState
<1>1. Life /\ Watching /\ Timing /\ Posting /\ Streaming
  BY DEF Calm
<1>2. /\ ids \in Nat /\ accepts \in Nat /\ c \in Nat /\ c # NoConn
      /\ (queue = <<>> => sent = 0) /\ posted \in Seq(Posts)
  <2>1. accepts \in Conns \cup {NoConn} /\ MaxConns \in Nat
    BY HioAssumption DEF Types, IoTypes
  <2>2. accepts \in Nat /\ c \in Nat /\ c # NoConn
    BY <2>1 DEF Conns, NoConn
  <2> QED
    BY <2>2 DEF Types, IoTypes, WriteTypes
<1>3. ~ Open /\ ~ io.ready /\ vty = "idle" /\ listed = {} /\ queue = <<>> /\ watched = {}
      /\ timer = NoConn
  BY <1>0, <1>1 DEF Open, Life, Watching, Timing, Streaming, Emptied
<1>4. /\ Ready = Fresh(ids + 1) /\ ids' = ids + 1 /\ timer' = NoConn /\ strays' = strays
  BY <1>0, <1>3 DEF Ready, ForgetsTimer
<1>5. /\ io'.ready /\ ~ io'.closed /\ io'.close_cb /\ io'.id = ids + 1
      /\ io'.events = {"read"} /\ watched' = {"read"}
  BY <1>0, <1>3, <1>4 DEF Fresh, Watch
<1>6. Open' /\ ~ Locked' /\ loop' = "poll" /\ accepts' # NoConn
  BY <1>0, <1>2, <1>3, <1>5 DEF Open, Locked
<1>7. Life'
  BY <1>0, <1>2, <1>3, <1>5, <1>6 DEF Life, Ends
<1>8. Watching'
  BY <1>0, <1>2, <1>3, <1>5, <1>6 DEF Watching
<1>9. Timing'
  BY <1>0, <1>1, <1>2, <1>4 DEF Timing
<1>10. Posting'
  <2>1. ASSUME NEW i \in 1 .. Len(posted)
        PROVE  posted[i].id <= ids' /\ posted[i].id # io'.id
    <3>1. posted[i].id <= ids /\ posted[i] \in Posts
      BY <1>1, <1>2, ElementOfSeq DEF Posting
    <3>2. posted[i].id \in Nat
      BY <3>1 DEF Posts
    <3> QED
      BY <1>2, <1>4, <1>5, <3>1, <3>2
  <2> QED
    BY <1>0, <2>1 DEF Posting
<1>11. Streaming'
  <2>1. \A d \in Conns : Delivered(d)'
    BY <1>0, <1>1 DEF Streaming, Delivered
  <2>2. ASSUME NEW d \in Conns, d > accepts' PROVE wire'[d] = <<>> /\ log'[d] = <<>>
    <3>1. d > accepts
      BY <1>0, <1>2, <2>2 DEF Conns
    <3> QED
      BY <1>0, <1>1, <3>1 DEF Streaming
  <2>3. wire'[sock'] \o Unsent' = PiecesOf(log'[sock'])
    <3>1. wire'[sock'] = <<>> /\ log'[sock'] = <<>>
      BY <1>0, <1>1, <1>2 DEF Streaming
    <3>2. queue' = <<>> /\ sent' = 0
      BY <1>0, <1>2, <1>3
    <3>3. PiecesOf(queue') = <<>> /\ PiecesOf(log'[sock']) = <<>>
      BY <3>1, <3>2, PiecesOfFew, Zenon
    <3>4. Unsent' = Drop(0, <<>>)
      BY <3>2, <3>3 DEF Unsent
    <3>5. Drop(0, <<>>) = <<>>
      BY SubSeqEmpty DEF Drop
    <3> QED
      BY <3>1, <3>3, <3>4, <3>5
  <2>4. ~ Emptied'
    BY <1>6 DEF Emptied, Open
  <2> QED
    BY <1>6, <2>1, <2>2, <2>3, <2>4 DEF Streaming
<1> QED
  BY <1>7, <1>8, <1>9, <1>10, <1>11 DEF Calm

\* hio_write of the other thread: nothing of the hio_t or of the loop moves.
LEMMA VtyLife ==
  ASSUME Types, Calm, Open, UNCHANGED <<loop, sock, accepts, timer, strays, listed>>,
         io'.ready = io.ready, io'.closed = io.closed, io'.close_cb = io.close_cb,
         vty' # "idle" => frame'.f.to = sock
  PROVE  Life' /\ Open' /\ accepts # NoConn /\ loop \notin Ends
<1>1. Life
  BY DEF Calm
<1>2. accepts # NoConn /\ Open' /\ loop \notin Ends
  BY <1>1 DEF Open, Types, IoTypes, Life
<1>3. Life'
  BY <1>1, <1>2 DEF Life
<1> QED
  BY <1>2, <1>3

LEMMA VtyCalm ==
  ASSUME Types, Types', Calm,
         \/ \E c \in Conns : VtyCheck(c)
         \/ Vty
  PROVE  Calm'
<1>1. Life /\ Watching /\ Timing /\ Posting /\ Streaming
  BY DEF Calm
<1>2. /\ queue \in Seq(FrameSet) /\ sent \in 0 .. 1 /\ (queue = <<>> => sent = 0)
      /\ \A c \in Conns : log[c] \in Seq(FrameSet) /\ wire[c] \in Seq(PieceSet)
      /\ vty # "idle" => frame.f \in FrameSet
      /\ frame = [f |-> frame.f, taken |-> frame.taken]
      /\ vty = "enqueue" => frame.taken \in 0 .. 1
      /\ posted \in Seq(Posts) /\ (sock # NoConn => sock = accepts /\ sock \in Conns)
      /\ io.id \in Nat /\ io.id <= ids
  BY DEF Types, WriteTypes, IoTypes, IoSet
<1>3. vty # "idle" => Open /\ frame.f.to = sock
  BY <1>1 DEF Life
<1>4. ASSUME NEW c \in Conns, VtyCheck(c) PROVE Calm'
  <2>1. /\ vty = "idle" /\ c \in listed /\ ~ io.closed /\ vty' = "checked"
        /\ frame' = [f |-> NewFrame(c), taken |-> 0]
        /\ UNCHANGED <<io, queue, sent, log, ids, timer, strays, rearmed, posted, sock,
                       accepts, watched, wire, listed, loop>>
    BY <1>4, Zenon DEF VtyCheck, output, timers, kernel
  <2>2. c = sock /\ Open
    BY <1>1, <2>1 DEF Life, Open
  <2>3. frame'.f.to = sock
    BY <2>1, <2>2 DEF NewFrame
  <2>4. Life' /\ Open' /\ accepts # NoConn /\ loop \notin Ends
    BY <2>1, <2>2, <2>3, VtyLife
  <2>5. Watching' /\ Timing' /\ Posting'
    BY <1>1, <2>1, WatchingKept, TimingKept, PostingKept DEF SameIo
  <2>6. Stream(wire'[sock], queue', sent', log'[sock])
    <3>1. ~ Locked
      BY <2>1 DEF Locked
    <3> QED
      BY <1>1, <2>1, <2>2, <3>1, StreamNow
  <2>7. ~ Locked' /\ loop' \notin {"callback", "closefd"}
    BY <2>1, <2>4 DEF Locked, Ends
  <2>8. Streaming'
    BY <1>1, <2>1, <2>4, <2>6, <2>7, StreamingOpen
  <2> QED
    BY <2>4, <2>5, <2>8 DEF Calm
<1>5. ASSUME VtyQueues PROVE Calm'
  <2>1. /\ vty = "checked" /\ queue # <<>> /\ queue' = Append(queue, frame.f)
        /\ Logged(frame.f) /\ vty' = "idle"
        /\ UNCHANGED <<io, sent, ids, timer, strays, rearmed, frame, posted, sock, accepts,
                       watched, wire, listed, loop>>
    BY <1>5, Zenon DEF VtyQueues, timers, kernel
  <2>2. Open /\ frame.f.to = sock /\ frame.f \in FrameSet /\ sock \in Conns
    BY <1>2, <1>3, <2>1 DEF Open
  <2>3. Life' /\ Open' /\ accepts # NoConn /\ loop \notin Ends
    BY <2>1, <2>2, VtyLife
  <2>4. Timing' /\ Posting'
    BY <1>1, <2>1, TimingKept, PostingKept
  <2>5. Watching'
    BY <1>1, <2>1 DEF Watching
  <2>6. ~ Locked /\ ~ Locked' /\ loop' \notin {"callback", "closefd"}
    BY <2>1, <2>3 DEF Locked, Ends
  <2>7. Stream(wire[sock], queue, sent, log[sock])
    BY <1>1, <2>2, <2>6, StreamNow
  <2>8. log'[sock] = Append(log[sock], frame.f) /\ \A c \in Conns \ {sock} : log'[c] = log[c]
    BY <2>1, <2>2, LoggedTypes
  <2>9. Stream(wire[sock], Append(queue, frame.f), sent, Append(log[sock], frame.f))
    BY <1>2, <2>2, <2>7, StreamQueues
  <2>10. Stream(wire'[sock], queue', sent', log'[sock])
    BY <2>1, <2>8, <2>9
  <2>11. Streaming'
    BY <1>1, <2>1, <2>3, <2>6, <2>8, <2>10, StreamingOpen
  <2> QED
    BY <2>3, <2>4, <2>5, <2>11 DEF Calm
<1>6. ASSUME NEW k \in 0 .. 2, VtyWrites(k) PROVE Calm'
  <2> DEFINE f == frame.f
  <2>1. /\ vty = "checked" /\ queue = <<>> /\ Takes(f, k) /\ Logged(f)
        /\ frame' = [frame EXCEPT !.taken = k]
        /\ vty' = IF k = 2 THEN "idle" ELSE "enqueue"
        /\ UNCHANGED <<io, queue, sent, ids, timer, strays, rearmed, posted, sock, accepts,
                       watched, listed, loop>>
    BY <1>6, Zenon DEF VtyWrites, timers
  <2>2. Open /\ f.to = sock /\ f \in FrameSet /\ sock \in Conns /\ sock = accepts /\ sent = 0
    BY <1>2, <1>3, <2>1 DEF Open
  <2>3. frame'.f = f /\ frame'.taken = k
    BY <1>2, <2>1
  <2>4. Life' /\ Open' /\ accepts # NoConn /\ loop \notin Ends
    BY <2>1, <2>2, <2>3, VtyLife
  <2>5. Watching' /\ Timing' /\ Posting'
    BY <1>1, <2>1, WatchingKept, TimingKept, PostingKept DEF SameIo
  <2>6. ~ Locked /\ loop' \notin {"callback", "closefd"}
    BY <2>1, <2>4 DEF Locked, Ends
  <2>7. Stream(wire[sock], <<>>, 0, log[sock])
    BY <1>1, <2>1, <2>2, <2>6, StreamNow
  <2>8. /\ log'[sock] = Append(log[sock], f) /\ \A c \in Conns \ {sock} : log'[c] = log[c]
        /\ wire'[sock] = wire[sock] \o First(k, Pieces(f))
        /\ \A c \in Conns \ {sock} : wire'[c] = wire[c]
    <3>1. log'[f.to] = Append(log[f.to], f) /\ \A c \in Conns \ {f.to} : log'[c] = log[c]
      BY <2>1, <2>2, LoggedTypes
    <3>2. /\ wire'[sock] = wire[sock] \o First(k, Pieces(f))
          /\ \A c \in Conns \ {sock} : wire'[c] = wire[c]
      BY <2>1, <2>2, TakesTypes
    <3> QED
      BY <2>2, <3>1, <3>2
  <2>9. log[sock] \in Seq(FrameSet) /\ wire[sock] \in Seq(PieceSet)
    BY <1>2, <2>2
  <2> HIDE DEF f
  <2>10. /\ wire'[sock] \o Drop(k, Pieces(f)) = PiecesOf(log'[sock])
         /\ k = 2 => Stream(wire'[sock], <<>>, 0, log'[sock])
    BY <2>2, <2>7, <2>8, <2>9, StreamWrites
  <2>11. Streaming'
    <3>1. CASE k = 2
      <4>1. ~ Locked'
        BY <2>1, <3>1 DEF Locked
      <4>2. Stream(wire'[sock], queue', sent', log'[sock])
        BY <2>1, <2>2, <2>10, <3>1
      <4> QED
        BY <1>1, <2>1, <2>4, <2>6, <2>8, <4>1, <4>2, StreamingOpen
    <3>2. CASE k # 2
      <4>1. Locked' /\ ~ Emptied'
        BY <2>1, <2>4, <2>6, <3>2 DEF Locked, Emptied, Open
      <4>2. /\ queue' = <<>>
            /\ wire'[sock'] \o Drop(frame'.taken, Pieces(frame'.f)) = PiecesOf(log'[sock'])
        BY <2>1, <2>3, <2>10 DEF f
      <4>3. IsPrefix(wire'[sock], PiecesOf(log'[sock]))
        <5>1. Pieces(f) \in Seq(PieceSet) /\ Len(Pieces(f)) = 2
          BY <2>2, PiecesOfFew
        <5>2. Drop(k, Pieces(f)) \in Seq(PieceSet)
          BY <5>1, DropElements
        <5>3. wire'[sock] \in Seq(PieceSet)
          BY <2>2 DEF Types, WriteTypes
        <5>4. IsPrefix(wire'[sock], wire'[sock] \o Drop(k, Pieces(f)))
          BY <5>2, <5>3, PrefixOfConcat
        <5> QED
          BY <2>10, <5>4
      <4>4. ASSUME NEW c \in Conns PROVE Delivered(c)'
        <5>1. CASE c = sock
          BY <4>3, <5>1 DEF Delivered
        <5>2. CASE c # sock
          BY <1>1, <2>8, <5>2 DEF Streaming, Delivered
        <5> QED
          BY <5>1, <5>2
      <4>5. ASSUME NEW c \in Conns, c > accepts' PROVE wire'[c] = <<>> /\ log'[c] = <<>>
        <5>1. c # sock
          <6>1. c \in Nat /\ sock \in Nat
            BY <2>2 DEF Conns
          <6> QED
            BY <2>1, <2>2, <4>5, <6>1
        <5> QED
          BY <1>1, <2>1, <2>8, <4>5, <5>1 DEF Streaming
      <4> QED
        BY <4>1, <4>2, <4>4, <4>5 DEF Streaming
    <3> QED
      BY <3>1, <3>2
  <2> QED
    BY <2>4, <2>5, <2>11 DEF Calm
<1>7. ASSUME VtyFails PROVE Calm'
  <2>1. /\ vty = "checked" /\ vty' = "failed" /\ io' = [io EXCEPT !.error = TRUE]
        /\ UNCHANGED <<queue, sent, log, ids, timer, strays, rearmed, frame, posted, sock,
                       accepts, watched, wire, listed, loop>>
    BY <1>7, Zenon DEF VtyFails, output, timers, kernel
  <2>2. SameIo
    BY <2>1, SameIoChanges
  <2>3. Open /\ frame.f.to = sock
    BY <1>3, <2>1
  <2>4. Life' /\ Open' /\ accepts # NoConn /\ loop \notin Ends
    BY <2>1, <2>2, <2>3, VtyLife DEF SameIo
  <2>5. Watching' /\ Timing'
    BY <1>1, <2>1, <2>2, WatchingKept, TimingKept
  <2>6. Posting'
    BY <1>1, <2>1, <2>2, PostingKept DEF SameIo
  <2>7. Streaming'
    <3>1. (Locked' <=> Locked) /\ (Emptied' => Emptied)
      BY <2>1 DEF Locked, Emptied
    <3> QED
      BY <1>1, <2>1, <2>3, <3>1, StreamingKept
  <2> QED
    BY <2>4, <2>5, <2>6, <2>7 DEF Calm
<1>8. ASSUME VtyEnqueues PROVE Calm'
  <2> DEFINE f == frame.f
  <2>1. /\ vty = "enqueue" /\ Add("write", sock # NoConn) /\ queue' = <<f>>
        /\ sent' = frame.taken /\ vty' = "idle"
        /\ UNCHANGED <<log, rearmed, frame, posted, sock, accepts, wire, listed, loop>>
    BY <1>8, Zenon DEF VtyEnqueues
  <2>2. Open /\ f.to = sock /\ f \in FrameSet /\ sock \in Conns
    BY <1>2, <1>3, <2>1 DEF Open
  <2>3. Add("write", TRUE)
    <3>1. (sock # NoConn) = TRUE
      BY <2>2 DEF Open
    <3> QED
      BY <2>1, <3>1, Zenon
  <2>4. /\ io'.ready = io.ready /\ io'.closed = io.closed /\ io'.close_cb = io.close_cb
        /\ io'.id = io.id /\ io'.events = io.events \cup {"write"} /\ watched' = io'.events
        /\ UNCHANGED <<ids, timer, strays>>
        /\ loop \notin Ends /\ "read" \in io.events
    BY <2>2, <2>3, AddKeeps
  <2>5. Life' /\ Open' /\ accepts # NoConn
    BY <2>1, <2>2, <2>4, VtyLife
  <2>6. Watching'
    BY <2>1, <2>2, <2>4 DEF Watching, Open, Ends
  <2>7. Timing' /\ Posting'
    BY <1>1, <2>1, <2>4, TimingKept, PostingKept
  <2>8. ~ Locked' /\ loop' \notin {"callback", "closefd"}
    BY <2>1, <2>4 DEF Locked, Ends
  <2>9. Stream(wire'[sock], queue', sent', log'[sock])
    <3>1. wire[sock] \o Drop(frame.taken, Pieces(f)) = PiecesOf(log[sock])
      BY <1>1, <2>1 DEF Streaming, Locked
    <3>2. PiecesOf(<<f>>) = Pieces(f)
      BY <2>2, PiecesOfFew
    <3> QED
      BY <2>1, <3>1, <3>2 DEF Stream
  <2>10. Streaming'
    BY <1>1, <2>1, <2>5, <2>8, <2>9, StreamingOpen
  <2> QED
    BY <2>5, <2>6, <2>7, <2>10 DEF Calm
<1>9. ASSUME VtyCloses PROVE Calm'
  <2> DEFINE p == [id |-> io.id, to |-> frame.f.to]
  <2>1. /\ vty = "failed" /\ vty' = "idle"
        /\ posted' = (IF io.closed THEN posted ELSE Append(posted, p))
        /\ UNCHANGED <<io, queue, sent, log, ids, timer, strays, rearmed, frame, sock,
                       accepts, watched, wire, listed, loop>>
    BY <1>9, Zenon DEF VtyCloses, output, timers, kernel
  <2>2. Open /\ frame.f.to = sock /\ frame.f \in FrameSet /\ sock = accepts
    BY <1>2, <1>3, <2>1 DEF Open
  <2>3. Life' /\ Open' /\ accepts # NoConn /\ loop \notin Ends
    BY <2>1, <2>2, VtyLife
  <2>4. Watching' /\ Timing'
    BY <1>1, <2>1, WatchingKept, TimingKept DEF SameIo
  <2>5. Posting'
    <3>1. p \in Posts /\ p.id = io.id /\ p.to = accepts
      BY <1>2, <2>2 DEF Posts, FrameSet
    <3>2. posted' = Append(posted, p)
      BY <2>1, <2>2 DEF Open
    <3> HIDE DEF p
    <3>3. /\ Len(posted') = Len(posted) + 1 /\ posted'[Len(posted) + 1] = p
          /\ \A i \in 1 .. Len(posted) : posted'[i] = posted[i]
      BY <1>2, <3>1, <3>2, AppendProperties
    <3>4. ASSUME NEW i \in 1 .. Len(posted')
          PROVE  posted'[i].id <= ids /\ (posted'[i].id = io.id => posted'[i].to = accepts)
      <4>1. CASE i \in 1 .. Len(posted)
        BY <1>1, <3>3, <4>1 DEF Posting
      <4>2. CASE i = Len(posted) + 1
        BY <1>2, <3>1, <3>3, <4>2
      <4> QED
        BY <1>2, <3>3, <4>1, <4>2
    <3> QED
      BY <2>1, <3>4 DEF Posting
  <2>6. Streaming'
    <3>1. (Locked' <=> Locked) /\ (Emptied' => Emptied)
      BY <2>1 DEF Locked, Emptied
    <3> QED
      BY <1>1, <2>1, <2>2, <3>1, StreamingKept
  <2> QED
    BY <2>3, <2>4, <2>5, <2>6 DEF Calm
<1> QED
  BY <1>4, <1>5, <1>6, <1>7, <1>8, <1>9 DEF Vty


-----------------------------------------------------------------------------
(* The invariant *)

LEMMA LateStays ==
  ASSUME Types, Next PROVE late' = late \/ (LoopDone /\ late' = (late \/ vty # "idle"))
<1>1. CASE \/ \E c \in Conns : Accept(c) \/ PeerCloses(c) \/ VtyCheck(c)
           \/ Vty
  BY <1>1, Zenon DEF Accept, PeerCloses, VtyCheck, Vty, VtyQueues, VtyFails, VtyEnqueues,
                     VtyCloses, VtyWrites
<1>2. CASE \/ \E k \in 0 .. 2 : LoopReplies(k)
           \/ \E error \in BOOLEAN : LoopEof(error)
           \/ LoopReplyFails \/ LoopHangsUp \/ LoopWritable \/ LoopEvent \/ Timers
  BY <1>2, Zenon DEF LoopReplies, LoopEof, LoopReplyFails, LoopHangsUp, LoopWritable,
                     LoopEvent, Timers, LoopTimer
<1>3. CASE Closing \/ Sending \/ NothingToSend
  BY <1>3, Zenon DEF Closing, Sending, NothingToSend, LoopDrained, LoopClose, LoopDone, LoopDel,
                     LoopClean, LoopCallback, LoopCloseFd, LoopSendFails, LoopSends
<1> QED
  BY <1>1, <1>2, <1>3 DEF Next

LEMMA CalmStep ==
  ASSUME Types, Types', Calm, Next, ~ late' PROVE Calm'
<1>1. ASSUME NEW c \in Conns, PeerCloses(c) PROVE Calm'
  <2>1. UNCHANGED <<io, queue, sent, log, ids, timer, strays, rearmed, vty, frame, posted,
                    sock, watched, accepts, wire, listed, writes, loop, late>>
    BY <1>1, Zenon DEF PeerCloses, output, timers, vtyState
  <2>2. Life' /\ Watching' /\ Timing' /\ Posting'
    BY <2>1 DEF Calm, Life, Watching, Timing, Posting, Open, Ends
  <2>3. (Locked' <=> Locked) /\ (Emptied' => Emptied) /\ (Open' => Open)
    BY <2>1 DEF Locked, Emptied, Open
  <2>4. Streaming'
    BY <2>1, <2>3, StreamingKept DEF Calm
  <2> QED
    BY <2>2, <2>4 DEF Calm
<1>2. CASE \E c \in Conns : Accept(c)
  BY <1>2, AcceptCalm
<1>3. CASE (\E c \in Conns : VtyCheck(c)) \/ Vty
  BY <1>3, VtyCalm
<1>4. CASE \/ \E error \in BOOLEAN : LoopEof(error)
           \/ LoopReplyFails \/ LoopHangsUp \/ LoopEvent \/ Timers
           \/ LoopSendFails \/ LoopDrained
  BY <1>4, TheseMove, MovesCalm
<1>5. CASE \E k \in 0 .. 2 : LoopReplies(k)
  BY <1>5, RepliesCalm
<1>6. CASE \/ LoopWritable \/ LoopClose \/ LoopDone \/ LoopDel \/ LoopClean \/ LoopCallback
           \/ LoopCloseFd
  BY <1>6, WritableCalm, CloseCalm, DoneCalm, DelCalm, CleanCalm, CallbackCalm, CloseFdCalm
<1>7. CASE (\E k \in 1 .. Len(Unsent) : LoopSends(k)) \/ NothingToSend
  <2>1. ASSUME NEW k \in 0 .. Len(Unsent), LoopSends(k) PROVE Calm'
    BY <2>1, SendsCalm
  <2> QED
    BY <1>7, <2>1, SomeSends
<1> QED
  BY <1>1, <1>2, <1>3, <1>4, <1>5, <1>6, <1>7 DEF Next, Closing, Sending

LEMMA InvStep == Inv /\ [Next]_vars => Inv'
<1> SUFFICES ASSUME Inv, [Next]_vars PROVE Inv'
  OBVIOUS
<1>1. Types /\ Types'
  BY TypesStep DEF Inv
<1>2. CASE Next
  <2>1. ~ late' => ~ late
    BY <1>1, <1>2, LateStays
  <2>2. ~ late' => Calm'
    BY <1>1, <1>2, <2>1, CalmStep DEF Inv
  <2> QED
    BY <1>1, <2>2 DEF Inv
<1>3. CASE UNCHANGED vars
  <2>1. UNCHANGED <<io, queue, sent, log, ids, timer, strays, rearmed, vty, frame, posted,
                    sock, watched, accepts, wire, listed, writes, loop, late>>
    BY <1>3, Zenon DEF vars, output, timers, vtyState, kernel
  <2>2. Calm => Life' /\ Watching' /\ Timing' /\ Posting'
    BY <2>1 DEF Calm, Life, Watching, Timing, Posting, Open, Ends
  <2>3. (Locked' <=> Locked) /\ (Emptied' => Emptied) /\ (Open' => Open)
    BY <2>1 DEF Locked, Emptied, Open
  <2>4. Calm => Streaming'
    BY <2>1, <2>3, StreamingKept DEF Calm
  <2> QED
    BY <1>1, <2>1, <2>2, <2>4 DEF Inv, Calm
<1> QED
  BY <1>2, <1>3

\* The invariant everything below follows from: the types always hold, and Calm
\* as long as no connection was closed in the middle of a hio_write of the other
\* thread.
THEOREM HioInvariant == Spec => []Inv
<1>1. Init => Inv
  BY InitInv
<1>2. Inv /\ [Next]_vars => Inv'
  BY InvStep
<1> QED
  BY <1>1, <1>2, PTL DEF Spec

-----------------------------------------------------------------------------
(* What it says *)

\* The fields of the hio_t, the queue and the two threads always have their
\* types, whatever hio_write, hio_close and the reuse of the hio_t do.
THEOREM HioTypes == Spec => []TypeOK
<1>1. Inv => TypeOK
  <2> SUFFICES ASSUME Inv PROVE TypeOK
    OBVIOUS
  <2>1. /\ io \in IoSet /\ ids \in Nat /\ io.id <= ids
        /\ queue \in Seq(FrameSet) /\ sent \in 0 .. 1 /\ (queue = <<>> => sent = 0)
        /\ timer \in Conns \cup {NoConn} /\ strays \subseteq Conns /\ listed \subseteq Conns
        /\ sock \in {NoConn, accepts} /\ watched \subseteq {"read", "write"}
        /\ vty \in {"idle", "checked", "enqueue", "failed"}
    BY DEF Inv, Types, IoTypes, WriteTypes
  <2>2. io \in [ready : BOOLEAN, closed : BOOLEAN, close : BOOLEAN, error : BOOLEAN,
                close_cb : BOOLEAN, id : 0 .. ids, events : SUBSET {"read", "write"}]
    BY <2>1 DEF IoSet
  <2> QED
    BY <2>1, <2>2 DEF TypeOK, FrameSet
<1> QED
  BY <1>1, HioInvariant, PTL

\* However the loop thread and the other thread interleave in hio_write and
\* nio_write, and however the socket splits what they write, every peer is sent
\* the frames written for it, whole, in order and once.
THEOREM FramesStayInOrder == Spec => []FramesInOrder
<1>1. Inv => FramesInOrder
  BY DEF Inv, Calm, Streaming, Delivered, Open, FramesInOrder
<1> QED
  BY <1>1, HioInvariant, PTL

\* A frame that hio_write has queued is watched for by io->events and by epoll.
THEOREM QueuesAreWatched == Spec => []QueueIsWatched
<1>1. Inv => QueueIsWatched
  <2> SUFFICES ASSUME Inv, ~ late, queue # <<>>, io.ready
               PROVE  "write" \in watched \cap io.events
    BY DEF QueueIsWatched
  <2>1. Life /\ Watching
    BY DEF Inv, Calm
  <2>2. sock # NoConn /\ loop \notin Ends
    BY <2>1 DEF Life, Open
  <2> QED
    BY <2>1, <2>2 DEF Watching, Ends
<1> QED
  BY <1>1, HioInvariant, PTL

\* hio_close, its callbacks and closesocket leave nothing of a connection to the
\* next one on the same hio_t.
THEOREM ClosedConnectionsAreForgotten == Spec => []ClosedIsForgotten
<1>1. Inv => ClosedIsForgotten
  BY DEF Inv, Calm, Life, Watching, Timing, Streaming, Emptied, ClosedIsForgotten
<1> QED
  BY <1>1, HioInvariant, PTL

\* What changes custom_events is the other thread, with the loop where it was, or
\* hio_close_event_cb.
LEMMA WhoReadsPosts ==
  ASSUME Types, Next PROVE loop' = loop \/ posted' = posted \/ LoopEvent
<1>1. CASE \/ \E c \in Conns : Accept(c) \/ PeerCloses(c) \/ VtyCheck(c)
           \/ Vty
  BY <1>1, Zenon DEF Accept, PeerCloses, VtyCheck, Vty, VtyQueues, VtyFails, VtyEnqueues,
                     VtyCloses, VtyWrites
<1>2. CASE \/ \E k \in 0 .. 2 : LoopReplies(k)
           \/ \E error \in BOOLEAN : LoopEof(error)
           \/ LoopReplyFails \/ LoopHangsUp \/ LoopWritable \/ LoopEvent \/ Timers
  BY <1>2, Zenon DEF LoopReplies, LoopEof, LoopReplyFails, LoopHangsUp, LoopWritable,
                     Timers, LoopTimer, vtyState
<1>3. CASE Closing \/ Sending \/ NothingToSend
  BY <1>3, Zenon DEF Closing, Sending, NothingToSend, LoopDrained, LoopClose, LoopDone, LoopDel,
                     LoopClean, LoopCallback, LoopCloseFd, LoopSendFails, LoopSends, vtyState
<1> QED
  BY <1>1, <1>2, <1>3 DEF Next

\* A close that the other thread has posted is dropped by hio_close_event_cb when
\* the hio_t has got a new id: it ends the connection whose write has failed.
THEOREM PostedClosesEndTheirOwn == Spec => PostedClosesItsOwn
<1> DEFINE Own == loop = "poll" /\ loop' = "close" /\ posted' # posted /\ ~ io.closed /\ ~ late
                  => posted[1].to = sock
<1>1. Inv /\ [Next]_vars => [Own]_vars
  <2> SUFFICES ASSUME Inv, Next, loop = "poll", loop' = "close", posted' # posted,
                      ~ io.closed, ~ late
               PROVE  posted[1].to = sock
    OBVIOUS
  <2>1. LoopEvent
    BY WhoReadsPosts DEF Inv
  <2>2. posted # <<>> /\ posted[1].id = io.id
    BY <2>1 DEF LoopEvent
  <2>3. 1 \in 1 .. Len(posted)
    <3>1. posted \in Seq(Posts)
      BY DEF Inv, Types, WriteTypes
    <3>2. Len(posted) \in Nat \ {0}
      BY <2>2, <3>1, EmptySeq
    <3> QED
      BY <3>2
  <2>4. posted[1].to = accepts
    BY <2>2, <2>3 DEF Inv, Calm, Posting
  <2>5. sock = accepts
    BY <2>2 DEF Inv, Calm, Life, Types, IoTypes
  <2> QED
    BY <2>4, <2>5
<1> QED
  BY <1>1, HioInvariant, PTL DEF Spec, PostedClosesItsOwn
=============================================================================
