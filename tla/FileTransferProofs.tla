------------------------- MODULE FileTransferProofs -------------------------
(***************************************************************************)
(* For every number of clients, commands and blocks, when the operator     *)
(* waits for a get to end before the next command (Patient): a transfer    *)
(* that is confirmed is complete, the server's fp is never used closed,    *)
(* and only a client that joins in the middle of a send can crash.         *)
(***************************************************************************)
EXTENDS FileTransfer, SequenceTheorems, TLAPS

Last == Len(size)
Part(k, n) == [i \in 1 .. n |-> Block(k, i)]

-----------------------------------------------------------------------------
(* What is on its way to a client *)

\* Where a receiver stands: in the file of a command, after some blocks; or nowhere.
Nowhere == <<0, 0>>
After(f) ==
    IF f.comm = "SEND" /\ f.sub = "OPEN" THEN <<f.k, 0>>
    ELSE IF f.comm = "SEND" /\ f.sub = "DATA" THEN <<f.k, f.n>> ELSE Nowhere

\* It stands at `at' before the first frame of d; where it stands after the i-th.
At(d, at, i) == IF i = 0 THEN at ELSE After(d[i])

\* Frame f may come to a receiver that stands at `at'; a late one meets the rest of
\* a send it has not seen the beginning of.
Fits(f, at, lost, sz) ==
    /\ f.k \in 1 .. Len(sz)
    /\ \/ f.comm = "SEND" /\ f.sub = "OPEN" /\ at = Nowhere
       \/ f.comm = "SEND" /\ f.sub = "DATA" /\ f.n \in 1 .. sz[f.k] /\ at = <<f.k, f.n - 1>>
       \/ f.comm = "SEND" /\ f.sub = "DATA" /\ f.n \in 1 .. sz[f.k] /\ at = Nowhere /\ lost
       \/ f.comm = "SEND" /\ f.sub = "END" /\ at = <<f.k, sz[f.k]>>
       \/ f.comm = "SEND" /\ f.sub = "END" /\ at = Nowhere /\ lost
       \/ f.comm = "GET" /\ f.sub \in {"CLIENT", "SUCCESS"} /\ at = Nowhere

Chain(d, at, lost, sz) ==
    \A i \in 1 .. Len(d) : Fits(d[i], At(d, at, i - 1), lost /\ i = 1, sz)

\* A FILE_OPEN comes after the frames of the commands before it.
Ordered(d) ==
    \A i, j \in 1 .. Len(d) :
        i < j /\ d[j].comm = "SEND" /\ d[j].sub = "OPEN" => d[i].k < d[j].k

Now(c) == IF cfp[c].mode = "w" THEN <<cfp[c].k, cbytes[c]>> ELSE Nowhere
Finally(c) == At(down[c], Now(c), Len(down[c]))

Incoming(c) == Chain(down[c], Now(c), c \in late, size) /\ Ordered(down[c])

\* What the vty thread goes on with is what the client waits for.
Served(c) ==
    c \in listed =>
        IF vty # Prompt /\ c \in vty.match
        THEN \/ Finally(c) = <<vty.k, fp.pos>>
             \/ c \in late /\ down[c] = <<>> /\ Now(c) = Nowhere
        ELSE Finally(c) = Nowhere

\* The copy being written is as far as filebytes says, and one confirmed is done with.
Writing(c) ==
    cfp[c].mode = "w" =>
        /\ cfp[c].k \in 1 .. Last /\ cbytes[c] \in 0 .. size[cfp[c].k]
        /\ disk[c][cfp[c].k] = Part(cfp[c].k, cbytes[c])

SendAcks(c) ==
    \A k \in 1 .. MaxCommands : <<"SEND", c, k>> \in acked =>
        /\ Sent(c, k)
        /\ cfp[c].mode = "w" => k # cfp[c].k
        /\ \A i \in 1 .. Len(down[c]) :
               down[c][i].comm = "SEND" /\ down[c][i].sub = "OPEN" => k < down[c][i].k
-----------------------------------------------------------------------------
(* What is on its way from a client *)

\* The n + 2 frames of a get of command k, the file of which has n blocks.
GetFrame(k, n, j) ==
    IF j = 1 THEN Frame("GET", "OPEN", k, 0)
    ELSE IF j = n + 2 THEN Frame("GET", "END", k, n) ELSE Frame("GET", "DATA", k, j - 1)

\* The last g frames of u are the last g of a get, before them there are SEND_SUCCESS.
Reply(u, g, k, n) ==
    \A i \in 1 .. Len(u) :
        IF i > Len(u) - g THEN u[i] = GetFrame(k, n, i - Len(u) + n + 2)
        ELSE u[i].comm = "SEND" /\ u[i].sub = "SUCCESS"

\* Begun, it is the only thing in the channel, and the server's copy is as far.
Answer(u, g) ==
    /\ Reply(u, g, Last, size[Last])
    /\ g > 0 =>
        /\ Last > 0 /\ g <= size[Last] + 2
        /\ g < size[Last] + 2 =>
            /\ Len(u) = g /\ fp = Stream(Last, "w") /\ fsize = size[Last] + 1 - g
            /\ sdisk[Last] = Part(Last, fsize)

Outgoing(c) == \E g \in 0 .. Len(up[c]) : Answer(up[c], g)

Asked(c) == \E i \in 1 .. Len(down[c]) : down[c][i].sub = "CLIENT"
Answering(c) == \E i \in 1 .. Len(up[c]) : up[c][i].comm = "GET"
Busy(c) == Asked(c) \/ Answering(c)

\* One get at a time, the last command, and no send under it.
Getting(c) ==
    /\ Busy(c) => vty = Prompt /\ \A d \in Clients : Busy(d) => c = d
    /\ Answering(c) => down[c] = <<>>
    /\ \A i \in 1 .. Len(down[c]) :
           down[c][i].sub = "CLIENT" => i = Len(down[c]) /\ down[c][i].k = Last
    /\ \A k \in 1 .. MaxCommands : <<"GET", c, k>> \in acked =>
           Got(k) /\ (k = Last => \A d \in Clients : ~ Busy(d))
-----------------------------------------------------------------------------
ConnTypes ==
    /\ waiting \subseteq Clients /\ listed \subseteq Clients \ waiting /\ late \subseteq Clients
    /\ failed \subseteq Clients /\ crashed \subseteq (late \ listed) \ waiting
    /\ \A c \in Clients : c \notin listed => down[c] = <<>> /\ up[c] = <<>>
    /\ \A c \in waiting : cfp[c] = NoStream

ChannelTypes == down \in [Clients -> Seq(Frames)] /\ up \in [Clients -> Seq(Frames)]

OperatorTypes ==
    /\ size \in Seq(0 .. MaxBlocks) /\ Last <= MaxCommands
    /\ vty \in [k : 0 .. MaxCommands, match : SUBSET Clients]
    /\ filebytes \in Nat
    /\ vty # Prompt => /\ vty.k = Last /\ Last > 0
                       /\ fp.mode = "r" /\ fp.k = Last /\ fp.pos <= size[Last]

FileTypes ==
    /\ fp \in Streams /\ cfp \in [Clients -> Streams]
    /\ fsize \in 0 .. MaxBlocks /\ cbytes \in [Clients -> 0 .. MaxBlocks]
    /\ disk \in [Clients -> Copies] /\ sdisk \in Copies
    /\ wedged \in BOOLEAN /\ undefined = FALSE
    /\ acked \subseteq {"SEND", "GET"} \X Clients \X (1 .. MaxCommands)

Types == ConnTypes /\ ChannelTypes /\ OperatorTypes /\ FileTypes

Inv ==
    /\ Types
    /\ \A c \in Clients : Incoming(c) /\ Served(c) /\ Writing(c) /\ SendAcks(c)
    /\ \A c \in Clients : Outgoing(c) /\ Getting(c)

-----------------------------------------------------------------------------
(* Channels: appending a frame and taking one *)

\* A sequence over a smaller set.
LEMMA SeqWider == ASSUME NEW T, NEW S \in SUBSET T, NEW s \in Seq(S) PROVE s \in Seq(T)
  OBVIOUS

\* A frame that fits where the last one leaves the receiver may be sent.
LEMMA ChainAppend ==
  ASSUME NEW d \in Seq(Frames), NEW f \in Frames, NEW at, NEW lost \in BOOLEAN,
         NEW sz \in Seq(Nat), Chain(d, at, lost, sz),
         Fits(f, At(d, at, Len(d)), lost /\ d = <<>>, sz)
  PROVE  /\ Chain(Append(d, f), at, lost, sz)
         /\ At(Append(d, f), at, Len(Append(d, f))) = After(f)
<1> DEFINE e == Append(d, f)
<1>1. e \in Seq(Frames) /\ Len(e) = Len(d) + 1 /\ e[Len(d) + 1] = f
      /\ \A i \in 1 .. Len(d) : e[i] = d[i]
  OBVIOUS
<1>2. Len(d) \in Nat /\ (d = <<>> <=> Len(d) = 0)
  OBVIOUS
<1> HIDE DEF e
<1>3. \A i \in 0 .. Len(d) : At(e, at, i) = At(d, at, i)
  BY <1>1, <1>2 DEF At
<1>4. ASSUME NEW i \in 1 .. Len(d) PROVE Fits(e[i], At(e, at, i - 1), lost /\ i = 1, sz)
  <2>1. At(e, at, i - 1) = At(d, at, i - 1)
    BY <1>2, <1>3
  <2> QED
    BY <1>1, <2>1 DEF Chain
<1>5. Fits(e[Len(d) + 1], At(e, at, Len(d)), lost /\ Len(d) + 1 = 1, sz)
  <2>1. At(e, at, Len(d)) = At(d, at, Len(d))
    BY <1>2, <1>3
  <2>2. (Len(d) + 1 = 1) = (d = <<>>)
    BY <1>2
  <2> QED
    BY <1>1, <2>1, <2>2
<1>6. Chain(e, at, lost, sz)
  <2> SUFFICES ASSUME NEW i \in 1 .. Len(d) + 1
               PROVE  Fits(e[i], At(e, at, i - 1), lost /\ i = 1, sz)
    BY <1>1 DEF Chain
  <2>1. CASE i \in 1 .. Len(d)
    BY <1>4, <2>1
  <2>2. CASE i = Len(d) + 1
    <3>1. i - 1 = Len(d)
      BY <1>2, <2>2
    <3> QED
      BY <1>5, <2>2, <3>1
  <2> QED
    BY <1>2, <2>1, <2>2
<1>7. At(e, at, Len(e)) = After(f)
  BY <1>1, <1>2 DEF At
<1> QED
  BY <1>6, <1>7 DEF e

\* A receiver that has taken the first frame stands where it says.
LEMMA ChainTail ==
  ASSUME NEW d \in Seq(Frames), NEW at, NEW lost \in BOOLEAN, NEW sz \in Seq(Nat),
         Chain(d, at, lost, sz), d # <<>>
  PROVE  /\ Fits(Head(d), at, lost, sz)
         /\ Chain(Tail(d), After(Head(d)), lost, sz)
         /\ At(Tail(d), After(Head(d)), Len(Tail(d))) = At(d, at, Len(d))
<1> DEFINE e == Tail(d)
           h == After(Head(d))
<1>1. e \in Seq(Frames) /\ Len(e) = Len(d) - 1 /\ Head(d) = d[1]
      /\ \A i \in 1 .. Len(d) - 1 : e[i] = d[i + 1]
  OBVIOUS
<1>2. Len(d) \in Nat \ {0}
  OBVIOUS
<1> HIDE DEF e
<1>3. \A i \in 0 .. Len(d) - 1 : At(e, h, i) = At(d, at, i + 1)
  BY <1>1, <1>2 DEF At
<1>4. Fits(Head(d), at, lost, sz)
  <2>1. Fits(d[1], At(d, at, 1 - 1), lost /\ 1 = 1, sz)
    BY <1>2 DEF Chain
  <2>2. At(d, at, 1 - 1) = at
    BY DEF At
  <2> QED
    BY <1>1, <2>1, <2>2
<1> HIDE DEF h
<1>5. Chain(e, h, lost, sz)
  <2> SUFFICES ASSUME NEW i \in 1 .. Len(d) - 1
               PROVE  Fits(e[i], At(e, h, i - 1), lost /\ i = 1, sz)
    BY <1>1 DEF Chain
  <2>1. Fits(d[i + 1], At(d, at, i), lost /\ i + 1 = 1, sz)
    <3>1. i + 1 \in 1 .. Len(d) /\ (i + 1) - 1 = i
      BY <1>2
    <3>2. Fits(d[i + 1], At(d, at, (i + 1) - 1), lost /\ i + 1 = 1, sz)
      BY <3>1 DEF Chain
    <3> QED
      BY <3>1, <3>2
  <2>2. Fits(d[i + 1], At(d, at, i), FALSE, sz)
    <3>1. (lost /\ i + 1 = 1) = FALSE
      OBVIOUS
    <3> QED
      BY <2>1, <3>1
  <2>3. e[i] = d[i + 1] /\ At(e, h, i - 1) = At(d, at, i)
    <3>1. i - 1 \in 0 .. Len(d) - 1 /\ (i - 1) + 1 = i
      BY <1>2
    <3> QED
      BY <1>1, <1>3, <3>1
  <2>4. Fits(e[i], At(e, h, i - 1), FALSE, sz)
    BY <2>2, <2>3
  <2> QED
    BY <2>4 DEF Fits
<1>6. At(e, h, Len(e)) = At(d, at, Len(d))
  <2>1. Len(e) \in 0 .. Len(d) - 1 /\ Len(e) + 1 = Len(d)
    BY <1>1, <1>2
  <2> QED
    BY <1>3, <2>1
<1> QED
  BY <1>4, <1>5, <1>6 DEF e, h

\* A further command changes nothing for the frames of the earlier ones.
LEMMA ChainGrow ==
  ASSUME NEW d \in Seq(Frames), NEW at, NEW lost \in BOOLEAN, NEW sz \in Seq(Nat),
         NEW n \in Nat, Chain(d, at, lost, sz)
  PROVE  Chain(d, at, lost, Append(sz, n))
<1>1. Len(Append(sz, n)) = Len(sz) + 1 /\ \A k \in 1 .. Len(sz) : Append(sz, n)[k] = sz[k]
  OBVIOUS
<1>2. 1 .. Len(sz) \subseteq 1 .. Len(sz) + 1
  OBVIOUS
<1> SUFFICES ASSUME NEW i \in 1 .. Len(d)
             PROVE  Fits(d[i], At(d, at, i - 1), lost /\ i = 1, Append(sz, n))
  BY DEF Chain
<1>3. Fits(d[i], At(d, at, i - 1), lost /\ i = 1, sz)
  BY DEF Chain
<1> QED
  BY <1>1, <1>2, <1>3, Zenon DEF Fits

\* The FILE_OPEN of a new command comes after all frames of the old.
LEMMA OrderedAppend ==
  ASSUME NEW d \in Seq(Frames), NEW f \in Frames, Ordered(d),
         f.comm = "SEND" /\ f.sub = "OPEN" => \A i \in 1 .. Len(d) : d[i].k < f.k
  PROVE  Ordered(Append(d, f))
<1> DEFINE e == Append(d, f)
<1>1. e \in Seq(Frames) /\ Len(e) = Len(d) + 1 /\ e[Len(d) + 1] = f
      /\ \A i \in 1 .. Len(d) : e[i] = d[i]
  OBVIOUS
<1>2. Len(d) \in Nat
  OBVIOUS
<1> HIDE DEF e
<1>3. ASSUME NEW i \in 1 .. Len(e), NEW j \in 1 .. Len(e), i < j,
             e[j].comm = "SEND", e[j].sub = "OPEN"
      PROVE  e[i].k < e[j].k
  <2>1. i \in 1 .. Len(d) /\ e[i] = d[i]
    BY <1>1, <1>2, <1>3
  <2>2. CASE j \in 1 .. Len(d)
    BY <1>1, <1>3, <2>1, <2>2 DEF Ordered
  <2>3. CASE j = Len(d) + 1
    BY <1>1, <1>3, <2>1, <2>3
  <2> QED
    BY <1>1, <1>2, <2>2, <2>3
<1> QED
  BY <1>3 DEF Ordered, e

\* What is left is ordered, and the FILE_OPENs in it are of later commands.
LEMMA OrderedTail ==
  ASSUME NEW d \in Seq(Frames), Ordered(d), d # <<>>
  PROVE  /\ Ordered(Tail(d))
         /\ \A i \in 1 .. Len(Tail(d)) : Tail(d)[i] = d[i + 1] /\ i + 1 \in 1 .. Len(d)
         /\ \A i \in 1 .. Len(Tail(d)) : Tail(d)[i].comm = "SEND" /\ Tail(d)[i].sub = "OPEN" =>
                Head(d).k < Tail(d)[i].k
<1> DEFINE e == Tail(d)
<1>1. e \in Seq(Frames) /\ Len(e) = Len(d) - 1 /\ Head(d) = d[1]
      /\ \A i \in 1 .. Len(d) - 1 : e[i] = d[i + 1]
  OBVIOUS
<1>2. Len(d) \in Nat \ {0}
  OBVIOUS
<1> HIDE DEF e
<1>3. \A i \in 1 .. Len(e) : e[i] = d[i + 1] /\ i + 1 \in 1 .. Len(d) /\ 1 \in 1 .. Len(d)
  BY <1>1, <1>2
<1>4. Ordered(e)
  <2> SUFFICES ASSUME NEW i \in 1 .. Len(e), NEW j \in 1 .. Len(e), i < j,
                      e[j].comm = "SEND", e[j].sub = "OPEN"
               PROVE  e[i].k < e[j].k
    BY DEF Ordered
  <2>1. i + 1 < j + 1
    BY <1>1, <1>2
  <2> QED
    BY <1>3, <2>1 DEF Ordered
<1>5. ASSUME NEW i \in 1 .. Len(e), e[i].comm = "SEND", e[i].sub = "OPEN"
      PROVE  Head(d).k < e[i].k
  <2>1. 1 < i + 1
    BY <1>1, <1>2
  <2> QED
    BY <1>1, <1>3, <1>5, <2>1 DEF Ordered
<1> QED
  BY <1>3, <1>4, <1>5 DEF e

\* The answer of a get without the first frame in the channel.
LEMMA ReplyTail ==
  ASSUME NEW u \in Seq(Frames), NEW g \in 0 .. Len(u), NEW k, NEW n \in Nat,
         Reply(u, g, k, n), u # <<>>
  PROVE  LET h == IF g = Len(u) THEN g - 1 ELSE g IN
         h \in 0 .. Len(Tail(u)) /\ Reply(Tail(u), h, k, n)
<1> DEFINE e == Tail(u)
           h == IF g = Len(u) THEN g - 1 ELSE g
<1>1. e \in Seq(Frames) /\ Len(e) = Len(u) - 1
      /\ \A i \in 1 .. Len(u) - 1 : e[i] = u[i + 1]
  OBVIOUS
<1>2. Len(u) \in Nat \ {0}
  OBVIOUS
<1> HIDE DEF e
<1>3. h \in 0 .. Len(e)
  BY <1>1, <1>2
<1>4. ASSUME NEW i \in 1 .. Len(e)
      PROVE  IF i > Len(e) - h THEN e[i] = GetFrame(k, n, i - Len(e) + n + 2)
             ELSE e[i].comm = "SEND" /\ e[i].sub = "SUCCESS"
  <2>1. i + 1 \in 1 .. Len(u) /\ e[i] = u[i + 1]
    BY <1>1, <1>2
  <2>2. (i + 1) - Len(u) + n + 2 = i - Len(e) + n + 2
    BY <1>1, <1>2
  <2>3. i > Len(e) - h <=> i + 1 > Len(u) - g
    BY <1>1, <1>2
  <2>4. IF i + 1 > Len(u) - g THEN u[i + 1] = GetFrame(k, n, (i + 1) - Len(u) + n + 2)
        ELSE u[i + 1].comm = "SEND" /\ u[i + 1].sub = "SUCCESS"
    BY <2>1 DEF Reply
  <2> HIDE DEF h
  <2> QED
    BY <2>1, <2>2, <2>3, <2>4
<1>5. Reply(e, h, k, n)
  BY <1>4 DEF Reply
<1> QED
  BY <1>3, <1>5 DEF e

\* A SEND_SUCCESS behind others.
LEMMA ReplyAppend ==
  ASSUME NEW u \in Seq(Frames), NEW f \in Frames, NEW k, NEW n \in Nat,
         Reply(u, 0, k, n), f.comm = "SEND", f.sub = "SUCCESS"
  PROVE  Reply(Append(u, f), 0, k, n)
<1> DEFINE e == Append(u, f)
<1>1. e \in Seq(Frames) /\ Len(e) = Len(u) + 1 /\ e[Len(u) + 1] = f
      /\ \A i \in 1 .. Len(u) : e[i] = u[i]
  OBVIOUS
<1>2. Len(u) \in Nat
  OBVIOUS
<1> HIDE DEF e
<1>3. \A i \in 1 .. Len(u) : ~ (i > Len(u) - 0)
  BY <1>2
<1>4. \A i \in 1 .. Len(u) : u[i].comm = "SEND" /\ u[i].sub = "SUCCESS"
  BY <1>3 DEF Reply
<1>5. \A i \in 1 .. Len(e) : i \in 1 .. Len(u) \/ i = Len(u) + 1
  BY <1>1, <1>2
<1>6. \A i \in 1 .. Len(e) : e[i].comm = "SEND" /\ e[i].sub = "SUCCESS"
  BY <1>1, <1>4, <1>5
<1>7. \A i \in 1 .. Len(e) : ~ (i > Len(e) - 0)
  BY <1>1, <1>2
<1>8. Reply(e, 0, k, n)
  BY <1>6, <1>7 DEF Reply
<1> QED
  BY <1>8 DEF e

\* One element behind a sequence.
LEMMA OneMore ==
  ASSUME NEW S, NEW s \in Seq(S), NEW e \in S
  PROVE  /\ s \o <<e>> \in Seq(S) /\ Len(s \o <<e>>) = Len(s) + 1
         /\ (s \o <<e>>)[Len(s) + 1] = e /\ \A i \in 1 .. Len(s) : (s \o <<e>>)[i] = s[i]
<1>1. s \o <<e>> = Append(s, e)
  BY AppendIsConcat
<1> QED
  BY <1>1

\* A concatenation, element by element.
LEMMA Joined ==
  ASSUME NEW S, NEW s \in Seq(S), NEW t \in Seq(S)
  PROVE  /\ s \o t \in Seq(S) /\ Len(s \o t) = Len(s) + Len(t)
         /\ \A i \in 1 .. Len(s) : (s \o t)[i] = s[i]
         /\ \A i \in Len(s) + 1 .. Len(s) + Len(t) : (s \o t)[i] = t[i - Len(s)]
<1> DEFINE r == s \o t
<1>1. r \in Seq(S) /\ Len(r) = Len(s) + Len(t)
      /\ \A i \in 1 .. Len(s) + Len(t) : r[i] = IF i <= Len(s) THEN s[i] ELSE t[i - Len(s)]
  BY ConcatProperties
<1>2. Len(s) \in Nat /\ Len(t) \in Nat
  OBVIOUS
<1> HIDE DEF r
<1>3. \A i \in 1 .. Len(s) : r[i] = s[i]
  BY <1>1, <1>2
<1>4. \A i \in Len(s) + 1 .. Len(s) + Len(t) : r[i] = t[i - Len(s)]
  BY <1>1, <1>2
<1> QED
  BY <1>1, <1>3, <1>4 DEF r

\* What GET NETMT_CLIENT sends.
LEMMA ReplyGroup ==
  ASSUME NEW u \in Seq(Frames), NEW k \in 1 .. MaxCommands, NEW n \in Nat,
         NEW b \in Seq(Frames), Len(b) = n,
         \A i \in 1 .. n : b[i] = Frame("GET", "DATA", k, i),
         Reply(u, 0, k, n)
  PROVE  LET w == u \o <<Frame("GET", "OPEN", k, 0)>> \o b \o <<Frame("GET", "END", k, n)>> IN
         w \in Seq(Frames) /\ Len(w) = Len(u) + n + 2 /\ Reply(w, n + 2, k, n)
<1> DEFINE o == Frame("GET", "OPEN", k, 0)
           f == Frame("GET", "END", k, n)
           x == u \o <<o>>
           y == x \o b
           w == y \o <<f>>
<1>1. o \in Frames /\ f \in Frames
  BY DEF Frame, Frames
<1> HIDE DEF o, f
<1>2. Len(u) \in Nat
  OBVIOUS
<1>3. x \in Seq(Frames) /\ Len(x) = Len(u) + 1 /\ x[Len(u) + 1] = o
      /\ \A i \in 1 .. Len(u) : x[i] = u[i]
  BY <1>1, OneMore
<1> HIDE DEF x
<1>4. y \in Seq(Frames) /\ Len(y) = Len(x) + n
      /\ (\A i \in 1 .. Len(x) : y[i] = x[i])
      /\ \A i \in Len(x) + 1 .. Len(x) + n : y[i] = b[i - Len(x)]
  <2>1. x \in Seq(Frames)
    BY <1>3
  <2> QED
    BY <2>1, Joined
<1> HIDE DEF y
<1>5. w \in Seq(Frames) /\ Len(w) = Len(y) + 1 /\ w[Len(y) + 1] = f
      /\ \A i \in 1 .. Len(y) : w[i] = y[i]
  <2>1. y \in Seq(Frames)
    BY <1>4
  <2> QED
    BY <1>1, <2>1, OneMore
<1> HIDE DEF w
<1>6. Len(w) = Len(u) + n + 2
  BY <1>2, <1>3, <1>4, <1>5
<1>7. \A i \in 1 .. Len(u) : ~ (i > Len(u) - 0)
  BY <1>2
<1>8. \A i \in 1 .. Len(u) : u[i].comm = "SEND" /\ u[i].sub = "SUCCESS"
  BY <1>7 DEF Reply
<1>9. ASSUME NEW i \in 1 .. Len(w)
      PROVE  IF i > Len(w) - (n + 2) THEN w[i] = GetFrame(k, n, i - Len(w) + n + 2)
             ELSE w[i].comm = "SEND" /\ w[i].sub = "SUCCESS"
  <2>1. i > Len(w) - (n + 2) <=> i > Len(u)
    BY <1>2, <1>6
  <2>2. i - Len(w) + n + 2 = i - Len(u)
    BY <1>2, <1>6
  <2>3. CASE i \in 1 .. Len(u)
    <3>1. i \in 1 .. Len(x) /\ i \in 1 .. Len(y)
      BY <1>2, <1>3, <1>4, <2>3
    <3>2. w[i] = u[i]
      BY <1>3, <1>4, <1>5, <2>3, <3>1
    <3> QED
      BY <1>2, <1>8, <2>1, <2>3, <3>2
  <2>4. CASE i = Len(u) + 1
    <3>1. w[i] = o
      <4>1. i \in 1 .. Len(x) /\ i \in 1 .. Len(y)
        BY <1>2, <1>3, <1>4, <2>4
      <4>2. w[i] = y[i]
        BY <1>5, <4>1, Zenon
      <4>3. y[i] = x[i]
        BY <1>4, <4>1, Zenon
      <4> QED
        BY <1>3, <2>4, <4>2, <4>3, Zenon
    <3>2. GetFrame(k, n, 1) = o
      BY DEF GetFrame, o
    <3>3. i - Len(u) = 1 /\ i > Len(u)
      BY <1>2, <2>4
    <3> QED
      BY <2>1, <2>2, <3>1, <3>2, <3>3
  <2>5. CASE i \in Len(u) + 2 .. Len(u) + n + 1
    <3>1. PICK j \in 1 .. n : j = i - Len(u) - 1
      <4>1. i - Len(u) - 1 \in 1 .. n
        BY <1>2, <2>5
      <4> QED
        BY <4>1
    <3>2. w[i] = b[j]
      <4>1. i \in 1 .. Len(y) /\ i \in Len(x) + 1 .. Len(x) + n /\ i - Len(x) = j
        BY <1>2, <1>3, <1>4, <2>5, <3>1
      <4> QED
        BY <1>4, <1>5, <4>1
    <3>3. GetFrame(k, n, j + 1) = Frame("GET", "DATA", k, (j + 1) - 1)
      BY <3>1 DEF GetFrame
    <3>4. i - Len(u) = j + 1 /\ i > Len(u) /\ (j + 1) - 1 = j
      BY <1>2, <2>5, <3>1
    <3> QED
      BY <2>1, <2>2, <3>2, <3>3, <3>4
  <2>6. CASE i = Len(u) + n + 2
    <3>1. w[i] = f
      BY <1>2, <1>3, <1>4, <1>5, <2>6
    <3>2. GetFrame(k, n, n + 2) = f
      BY DEF GetFrame, f
    <3>3. i - Len(u) = n + 2 /\ i > Len(u)
      BY <1>2, <2>6
    <3> QED
      BY <2>1, <2>2, <3>1, <3>2, <3>3
  <2> QED
    BY <1>2, <1>6, <2>3, <2>4, <2>5, <2>6
<1>10. Reply(w, n + 2, k, n)
  BY <1>9 DEF Reply
<1> QED
  BY <1>5, <1>6, <1>10 DEF w, y, x, o, f

\* A frame of a get is in the channel, or none is.
LEMMA ReplyGets ==
  ASSUME NEW u \in Seq(Frames), NEW g \in 0 .. Len(u), NEW k, NEW n \in Nat, Reply(u, g, k, n)
  PROVE  (\E i \in 1 .. Len(u) : u[i].comm = "GET") <=> g > 0
<1>1. Len(u) \in Nat
  OBVIOUS
<1>2. CASE g = 0
  <2>1. \A i \in 1 .. Len(u) : ~ (i > Len(u) - g)
    BY <1>1, <1>2
  <2>2. \A i \in 1 .. Len(u) : u[i].comm = "SEND"
    BY <2>1 DEF Reply
  <2> QED
    BY <1>2, <2>2
<1>3. CASE g > 0
  <2>1. Len(u) \in 1 .. Len(u) /\ Len(u) > Len(u) - g
    BY <1>1, <1>3
  <2>2. u[Len(u)] = GetFrame(k, n, Len(u) - Len(u) + n + 2)
    BY <2>1 DEF Reply
  <2>3. u[Len(u)].comm = "GET"
    BY <2>2 DEF GetFrame, Frame
  <2> QED
    BY <1>3, <2>1, <2>3
<1> QED
  BY <1>1, <1>2, <1>3

\* Where no frame of a get is, it is no matter of which.
LEMMA ReplyNone ==
  ASSUME NEW u \in Seq(Frames), NEW k, NEW n, NEW l, NEW m, Reply(u, 0, k, n)
  PROVE  Reply(u, 0, l, m)
<1>1. \A i \in 1 .. Len(u) : ~ (i > Len(u) - 0)
  OBVIOUS
<1> QED
  BY <1>1 DEF Reply

\* The copy of n blocks with block n + 1 behind it.
LEMMA PartGrows ==
  ASSUME NEW k, NEW n \in Nat
  PROVE  Append(Part(k, n), Block(k, n + 1)) = Part(k, n + 1) /\ Part(k, 0) = <<>>
<1> DEFINE p == Part(k, n)
           b == Block(k, n + 1)
           S == {Block(k, i) : i \in 1 .. n + 1}
<1>1. b \in S /\ p \in Seq(S) /\ Len(p) = n /\ \A i \in 1 .. n : p[i] = Block(k, i)
  BY DEF Part
<1> HIDE DEF p, b, S
<1>2. Append(p, b) \in [1 .. n + 1 -> S] /\ Append(p, b)[n + 1] = b
      /\ \A i \in 1 .. n : Append(p, b)[i] = p[i]
  <2>1. Append(p, b) \in Seq(S) /\ Len(Append(p, b)) = n + 1
    BY <1>1
  <2>2. Append(p, b) \in [1 .. Len(Append(p, b)) -> S]
    BY <2>1, LenProperties
  <2>3. Append(p, b)[n + 1] = b /\ \A i \in 1 .. n : Append(p, b)[i] = p[i]
    BY <1>1
  <2> QED
    BY <2>1, <2>2, <2>3
<1>3. \A i \in 1 .. n + 1 : i \in 1 .. n \/ i = n + 1
  OBVIOUS
<1>4. \A i \in 1 .. n + 1 : Append(p, b)[i] = Block(k, i)
  BY <1>1, <1>2, <1>3 DEF b
<1>5. Append(p, b) = Part(k, n + 1)
  BY <1>2, <1>4 DEF Part
<1> QED
  BY <1>5 DEF Part, p, b

-----------------------------------------------------------------------------
(* What the handlers find *)

\* What hio_write to some of the clients does to the channels.
LEMMA BroadcastIs ==
  ASSUME NEW to, NEW f \in Frames, ChannelTypes, Broadcast(to, f)
  PROVE  /\ down' \in [Clients -> Seq(Frames)]
         /\ \A c \in Clients : down'[c] = IF c \in to THEN Append(down[c], f) ELSE down[c]
<1>1. \A c \in Clients : down'[c] = IF c \in to THEN Append(down[c], f) ELSE down[c]
  BY DEF Broadcast
<1>2. \A c \in Clients : down[c] \in Seq(Frames)
  BY DEF ChannelTypes
<1>3. \A c \in Clients : Append(down[c], f) \in Seq(Frames)
  BY <1>2, AppendProperties
<1>4. down' \in [Clients -> Seq(Frames)]
  BY <1>2, <1>3 DEF Broadcast
<1> QED
  BY <1>1, <1>4

\* What a client's tcp_recv does to its channel.
LEMMA TakesIs ==
  ASSUME NEW c \in Clients, NEW comm, NEW sub, ChannelTypes, Takes(c, comm, sub)
  PROVE  /\ ~ undefined /\ c \in listed
         /\ down[c] \in Seq(Frames) /\ down[c] # <<>> /\ Head(down[c]) \in Frames
         /\ Head(down[c]).comm = comm /\ Head(down[c]).sub = sub
         /\ down' \in [Clients -> Seq(Frames)] /\ down'[c] = Tail(down[c])
         /\ \A d \in Clients \ {c} : down'[d] = down[d]
<1>1. down[c] \in Seq(Frames) /\ down[c] # <<>>
  BY DEF ChannelTypes, Takes, IsNext
<1>2. Head(down[c]) \in Frames /\ Tail(down[c]) \in Seq(Frames)
  BY <1>1
<1>3. down' = [down EXCEPT ![c] = Tail(down[c])]
  BY DEF Takes
<1>4. down' \in [Clients -> Seq(Frames)] /\ down'[c] = Tail(down[c])
      /\ \A d \in Clients \ {c} : down'[d] = down[d]
  BY <1>2, <1>3 DEF ChannelTypes
<1>5. ~ undefined /\ c \in listed /\ Head(down[c]).comm = comm /\ Head(down[c]).sub = sub
  BY Zenon DEF Takes, IsNext
<1> QED
  BY <1>1, <1>2, <1>4, <1>5

\* What the server's tcp_recv does to a channel.
LEMMA ServerTakesIs ==
  ASSUME NEW c \in Clients, NEW comm, NEW sub, ChannelTypes, ServerTakes(c, comm, sub)
  PROVE  /\ ~ undefined /\ ~ wedged /\ c \in listed
         /\ up[c] \in Seq(Frames) /\ up[c] # <<>> /\ Head(up[c]) \in Frames
         /\ Head(up[c]).comm = comm /\ Head(up[c]).sub = sub
         /\ up' \in [Clients -> Seq(Frames)] /\ up'[c] = Tail(up[c])
         /\ \A d \in Clients \ {c} : up'[d] = up[d]
<1>1. up[c] \in Seq(Frames) /\ up[c] # <<>>
  BY DEF ChannelTypes, ServerTakes, IsNext
<1>2. Head(up[c]) \in Frames /\ Tail(up[c]) \in Seq(Frames)
  BY <1>1
<1>3. up' = [up EXCEPT ![c] = Tail(up[c])]
  BY DEF ServerTakes
<1>4. up' \in [Clients -> Seq(Frames)] /\ up'[c] = Tail(up[c])
      /\ \A d \in Clients \ {c} : up'[d] = up[d]
  BY <1>2, <1>3 DEF ChannelTypes
<1>5. ~ undefined /\ ~ wedged /\ c \in listed /\ Head(up[c]).comm = comm
      /\ Head(up[c]).sub = sub
  BY Zenon DEF ServerTakes, IsNext
<1> QED
  BY <1>1, <1>2, <1>4, <1>5

\* Where a receiver stands that a block fits.
LEMMA FitsData ==
  ASSUME NEW f, NEW at, NEW lost \in BOOLEAN, NEW sz, Fits(f, at, lost, sz),
         f.comm = "SEND", f.sub = "DATA"
  PROVE  f.n \in 1 .. sz[f.k] /\ (at = <<f.k, f.n - 1>> \/ (at = Nowhere /\ lost))
<1>1. CASE lost
  BY <1>1 DEF Fits
<1>2. CASE ~ lost
  BY <1>2 DEF Fits
<1> QED
  BY <1>1, <1>2

\* Where a receiver stands that a SEND_END fits.
LEMMA FitsEnd ==
  ASSUME NEW f, NEW at, NEW lost \in BOOLEAN, NEW sz, Fits(f, at, lost, sz),
         f.comm = "SEND", f.sub = "END"
  PROVE  at = <<f.k, sz[f.k]>> \/ (at = Nowhere /\ lost)
<1>1. CASE lost
  BY <1>1 DEF Fits
<1>2. CASE ~ lost
  BY <1>2 DEF Fits
<1> QED
  BY <1>1, <1>2

\* The first frame of a client that has the file it is for open.
LEMMA HeadFits ==
  ASSUME NEW c \in Clients, Types, Incoming(c), Writing(c), down[c] # <<>>
  PROVE  LET f == Head(down[c]) IN
         /\ f.k \in 1 .. Last
         /\ f.comm = "SEND" /\ f.sub = "OPEN" => Now(c) = Nowhere /\ After(f) = <<f.k, 0>>
         /\ f.comm = "SEND" /\ f.sub = "DATA" =>
                /\ f.n \in 1 .. size[f.k] /\ After(f) = <<f.k, f.n>>
                /\ cfp[c].mode = "w" => f.k = cfp[c].k /\ f.n = cbytes[c] + 1
                /\ cfp[c].mode # "w" => c \in late
         /\ f.comm = "SEND" /\ f.sub = "END" =>
                /\ After(f) = Nowhere
                /\ cfp[c].mode = "w" => f.k = cfp[c].k /\ cbytes[c] = size[f.k]
                /\ cfp[c].mode # "w" => c \in late
         /\ f.comm = "GET" => Now(c) = Nowhere /\ cfp[c].mode # "w" /\ After(f) = Nowhere
<1> DEFINE f == Head(down[c])
<1>1. down[c] \in Seq(Frames)
  BY DEF Types, ChannelTypes
<1>2. size \in Seq(Nat)
  <2>1. size \in Seq(0 .. MaxBlocks) /\ 0 .. MaxBlocks \in SUBSET Nat
    BY TransferAssumption DEF Types, OperatorTypes
  <2> QED
    BY <2>1, SeqWider
<1>3. PICK lost \in BOOLEAN : lost = (c \in late)
  <2>1. (c \in late) \in BOOLEAN
    OBVIOUS
  <2> QED
    BY <2>1
<1>4. Fits(f, Now(c), lost, size)
  <2>1. Chain(down[c], Now(c), lost, size)
    BY <1>3 DEF Incoming
  <2> HIDE DEF f
  <2>2. f = Head(down[c])
    BY DEF f
  <2> QED
    BY <1>1, <1>2, <2>1, <2>2, ChainTail, Zenon
<1> HIDE DEF f
<1>5. f.k \in 1 .. Last
  BY <1>4 DEF Fits, Last
<1>6. cfp[c].mode = "w" => Now(c) = <<cfp[c].k, cbytes[c]>> /\ cfp[c].k \in 1 .. Last
                           /\ cbytes[c] \in Nat
  BY DEF Now, Writing
<1>7. cfp[c].mode # "w" => Now(c) = Nowhere
  BY DEF Now
<1>8. \A k \in 1 .. Last : \A n : <<k, n>> # Nowhere
  BY DEF Nowhere
<1>9. Now(c) = Nowhere => cfp[c].mode # "w"
  BY <1>6, <1>8
<1>10. ASSUME f.comm = "SEND", f.sub = "OPEN" PROVE Now(c) = Nowhere /\ After(f) = <<f.k, 0>>
  BY <1>4, <1>10 DEF Fits, After
<1>11. ASSUME f.comm = "SEND", f.sub = "DATA"
       PROVE  /\ f.n \in 1 .. size[f.k] /\ After(f) = <<f.k, f.n>>
              /\ Now(c) = <<f.k, f.n - 1>> \/ (Now(c) = Nowhere /\ c \in late)
  <2>1. /\ f.n \in 1 .. size[f.k]
        /\ Now(c) = <<f.k, f.n - 1>> \/ (Now(c) = Nowhere /\ lost)
    BY <1>4, <1>11, FitsData, Zenon
  <2>2. After(f) = <<f.k, f.n>>
    BY <1>11 DEF After
  <2> QED
    BY <1>3, <2>1, <2>2
<1>12. ASSUME f.comm = "SEND", f.sub = "END"
       PROVE  /\ After(f) = Nowhere
              /\ Now(c) = <<f.k, size[f.k]>> \/ (Now(c) = Nowhere /\ c \in late)
  <2>1. Now(c) = <<f.k, size[f.k]>> \/ (Now(c) = Nowhere /\ lost)
    BY <1>4, <1>12, FitsEnd, Zenon
  <2>2. After(f) = Nowhere
    BY <1>12 DEF After
  <2> QED
    BY <1>3, <2>1, <2>2
<1>13. ASSUME f.comm = "GET" PROVE Now(c) = Nowhere /\ After(f) = Nowhere
  BY <1>4, <1>13 DEF Fits, After
<1>14. f.comm = "SEND" /\ f.sub = "DATA" => f.n - 1 \in Nat
  BY <1>2, <1>5, <1>11
<1> QED
  BY <1>5, <1>6, <1>7, <1>8, <1>9, <1>10, <1>11, <1>12, <1>13, <1>14 DEF f

\* The first frame of the answer to a get, and how far the server is.
LEMMA HeadAnswers ==
  ASSUME NEW c \in Clients, Types, Outgoing(c), up[c] # <<>>, Head(up[c]).comm = "GET"
  PROVE  LET f == Head(up[c]) IN
         /\ Last > 0 /\ Last \in 1 .. MaxCommands /\ size[Last] \in 0 .. MaxBlocks
         /\ f.k = Last /\ f.sub \in {"OPEN", "DATA", "END"}
         /\ Answer(up[c], Len(up[c]))
         /\ f.sub = "OPEN" => Len(up[c]) = size[Last] + 2
         /\ f.sub \in {"DATA", "END"} => fp = Stream(Last, "w") /\ sdisk[Last] = Part(Last, fsize)
         /\ f.sub = "DATA" => /\ f.n = fsize + 1 /\ fsize < size[Last]
                              /\ Len(up[c]) = size[Last] + 1 - fsize
         /\ f.sub = "END" => f.n = size[Last] /\ fsize = size[Last] /\ Len(up[c]) = 1
<1> DEFINE f == Head(up[c])
<1>1. PICK g \in 0 .. Len(up[c]) : Answer(up[c], g)
  BY DEF Outgoing
<1>2. up[c] \in Seq(Frames)
  BY DEF Types, ChannelTypes
<1>3. Len(up[c]) \in Nat \ {0} /\ f = up[c][1]
  BY <1>2
<1>4. PICK n : n = size[Last]
  OBVIOUS
<1> HIDE DEF f
<1>5. 1 > Len(up[c]) - g /\ f = GetFrame(Last, n, 1 - Len(up[c]) + n + 2)
  <2>1. IF 1 > Len(up[c]) - g THEN f = GetFrame(Last, n, 1 - Len(up[c]) + n + 2)
        ELSE f.comm = "SEND" /\ f.sub = "SUCCESS"
    BY <1>1, <1>3, <1>4 DEF Answer, Reply
  <2>2. f.comm = "GET"
    BY DEF f
  <2> QED
    BY <2>1, <2>2
<1>6. g = Len(up[c])
  BY <1>3, <1>5
<1>7. Last > 0 /\ g <= n + 2
      /\ (g < n + 2 => fp = Stream(Last, "w") /\ fsize = n + 1 - g
                       /\ sdisk[Last] = Part(Last, fsize))
  BY <1>1, <1>3, <1>4, <1>6 DEF Answer
<1>8. Last \in 1 .. MaxCommands /\ n \in 0 .. MaxBlocks
  <2>1. size \in Seq(0 .. MaxBlocks) /\ Len(size) <= MaxCommands
    BY DEF Types, OperatorTypes, Last
  <2>2. Len(size) \in 1 .. Len(size)
    BY <1>7, <2>1 DEF Last
  <2> QED
    BY <1>4, <2>1, <2>2, TransferAssumption DEF Last
<1>9. PICK j \in 1 .. n + 2 : j = n + 3 - g
  <2>1. n + 3 - g \in 1 .. n + 2
    <3>1. n \in Nat /\ g \in Nat \ {0} /\ g <= n + 2
      BY <1>3, <1>6, <1>7, <1>8
    <3> QED
      BY <3>1
  <2> QED
    BY <2>1
<1>10. f = GetFrame(Last, n, j)
  <2>1. 1 - Len(up[c]) + n + 2 = j
    BY <1>3, <1>6, <1>8, <1>9, TransferAssumption
  <2> QED
    BY <1>5, <2>1
<1>11. n \in Nat
  BY <1>8
<1>12. CASE j = 1
  <2>1. f.k = Last /\ f.sub = "OPEN"
    BY <1>10, <1>12 DEF GetFrame, Frame
  <2>2. g = n + 2
    BY <1>9, <1>11, <1>12
  <2> QED
    BY <1>1, <1>4, <1>6, <1>7, <1>8, <2>1, <2>2 DEF f
<1>13. CASE j = n + 2
  <2>1. f.k = Last /\ f.sub = "END" /\ f.n = n
    BY <1>10, <1>11, <1>13 DEF GetFrame, Frame
  <2>2. g = 1 /\ 1 < n + 2 /\ n + 1 - g = n
    BY <1>9, <1>11, <1>13
  <2> QED
    BY <1>1, <1>4, <1>6, <1>7, <1>8, <2>1, <2>2 DEF f
<1>14. CASE j # 1 /\ j # n + 2
  <2>1. f.k = Last /\ f.sub = "DATA" /\ f.n = j - 1
    BY <1>10, <1>11, <1>14 DEF GetFrame, Frame
  <2>2. g < n + 2 /\ j - 1 = (n + 1 - g) + 1 /\ n + 1 - g < n /\ g = n + 1 - (n + 1 - g)
    <3>1. g \in Nat \ {0} /\ n \in Nat /\ j \in 1 .. n + 2 /\ j = n + 3 - g
      BY <1>3, <1>6, <1>9, <1>11
    <3> QED
      BY <1>14, <3>1
  <2> QED
    BY <1>1, <1>4, <1>6, <1>7, <1>8, <2>1, <2>2 DEF f
<1> QED
  BY <1>12, <1>13, <1>14

-----------------------------------------------------------------------------
(* Types *)

\* Before the first connection and command.
LEMMA InitInv == Init => Inv
<1> SUFFICES ASSUME Init PROVE Inv
  OBVIOUS
<1>1. ConnTypes /\ ChannelTypes
  BY DEF Init, ConnTypes, ChannelTypes
<1>2. OperatorTypes
  BY TransferAssumption DEF Init, OperatorTypes, Prompt, Last
<1>3. NoStream \in Streams
  BY TransferAssumption DEF NoStream, Stream, Streams
<1>4. [k \in 1 .. MaxCommands |-> <<>>] \in Copies
  BY DEF Copies
<1>5. FileTypes
  <2>1. disk \in [Clients -> Copies] /\ sdisk \in Copies
    BY <1>4, Zenon DEF Init
  <2>2. cfp \in [Clients -> Streams] /\ fp \in Streams
    BY <1>3 DEF Init
  <2>3. 0 \in 0 .. MaxBlocks
    BY TransferAssumption
  <2> QED
    BY <2>1, <2>2, <2>3 DEF Init, FileTypes
<1>6. ASSUME NEW c \in Clients PROVE Incoming(c) /\ Served(c) /\ Writing(c) /\ SendAcks(c)
  <2>1. down[c] = <<>> /\ Now(c) = Nowhere /\ cfp[c].mode # "w" /\ acked = {} /\ listed = {}
    BY DEF Init, Now, NoStream, Stream
  <2>2. \A i \in 1 .. Len(down[c]) : FALSE
    BY <2>1
  <2> QED
    BY <2>1, <2>2 DEF Incoming, Served, Writing, SendAcks, Chain, Ordered
<1>7. ASSUME NEW c \in Clients PROVE Outgoing(c) /\ Getting(c)
  <2>1. \A d \in Clients : down[d] = <<>> /\ up[d] = <<>>
    BY DEF Init
  <2>2. \A d \in Clients : ~ Busy(d) /\ ~ Asked(d)
    <3>1. \A i \in 1 .. Len(<<>>) : FALSE
      OBVIOUS
    <3> QED
      BY <2>1, <3>1, Zenon DEF Busy, Asked, Answering
  <2>3. \A i \in 1 .. Len(down[c]) : FALSE
    BY <2>1
  <2>4. Getting(c)
    BY <2>1, <2>2, <2>3 DEF Init, Getting
  <2>5. 0 \in 0 .. Len(up[c]) /\ \A i \in 1 .. Len(up[c]) : FALSE
    BY <2>1
  <2>6. Answer(up[c], 0)
    BY <2>5 DEF Answer, Reply
  <2> QED
    BY <2>4, <2>5, <2>6 DEF Outgoing
<1> QED
  BY <1>1, <1>2, <1>5, <1>6, <1>7 DEF Inv, Types

\* The parts of a type that an action leaves alone.
LEMMA ConnKept ==
  ConnTypes /\ ChannelTypes /\ UNCHANGED <<waiting, listed, late, failed, crashed>>
    /\ (\A c \in Clients \ listed : down'[c] = down[c] /\ up'[c] = up[c])
    /\ (\A c \in waiting : cfp'[c] = cfp[c]) => ConnTypes'
  BY DEF ConnTypes

\* The operator's part, when nothing is commanded.
LEMMA OperatorKept ==
  OperatorTypes /\ UNCHANGED <<size, vty, filebytes>> /\ (vty # Prompt => fp' = fp)
    => OperatorTypes'
  BY DEF OperatorTypes, Last

\* The files and counters, when nothing is written.
LEMMA FilesKept ==
  FileTypes /\ UNCHANGED <<fp, cfp, fsize, cbytes, disk, sdisk, wedged, undefined, acked>>
    => FileTypes'
  BY DEF FileTypes

\* The commands at the vty.
LEMMA CommandTypes ==
  ASSUME Types, NEW n \in 0 .. MaxBlocks, NewCommand(n)
  PROVE  /\ ~ undefined /\ vty = Prompt /\ Last < MaxCommands /\ Last \in Nat
         /\ size' \in Seq(0 .. MaxBlocks) /\ Len(size') = Last + 1 /\ size'[Last + 1] = n
         /\ \A k \in 1 .. Last : size'[k] = size[k]
         /\ size \in Seq(Nat) /\ size' = Append(size, n)
<1>1. size \in Seq(0 .. MaxBlocks) /\ size' = Append(size, n) /\ ~ undefined /\ vty = Prompt
      /\ Last < MaxCommands /\ Last = Len(size)
  BY DEF Types, OperatorTypes, NewCommand, Last
<1>2. 0 .. MaxBlocks \in SUBSET Nat
  BY TransferAssumption
<1>3. size \in Seq(Nat)
  BY <1>1, <1>2, SeqWider
<1>4. Append(size, n) \in Seq(0 .. MaxBlocks) /\ Len(Append(size, n)) = Len(size) + 1
      /\ Append(size, n)[Len(size) + 1] = n /\ Len(size) \in Nat
      /\ \A k \in 1 .. Len(size) : Append(size, n)[k] = size[k]
  BY <1>1
<1> QED
  BY <1>1, <1>3, <1>4

\* send_netmt opens the file of a new command.
LEMMA SendOpenTypes ==
  ASSUME Types, NEW n \in 0 .. MaxBlocks, NEW match \in SUBSET Clients, SendOpen(match, n)
  PROVE  Types'
<1> DEFINE k == Last + 1
<1>1. /\ NewCommand(n) /\ fp' = Stream(k, "r") /\ vty' = [k |-> k, match |-> match]
      /\ Broadcast(match \cap listed, Frame("SEND", "OPEN", k, 0))
      /\ UNCHANGED <<filebytes, fsize, sdisk, wedged, undefined, client, conns, up, acked>>
  BY Zenon DEF SendOpen, Last
<1>2. Last \in Nat /\ k \in 1 .. MaxCommands /\ size' \in Seq(0 .. MaxBlocks) /\ Len(size') = k
      /\ size'[k] = n
  BY <1>1, CommandTypes, TransferAssumption
<1>3. Frame("SEND", "OPEN", k, 0) \in Frames
  BY <1>2 DEF Frame, Frames
<1>4. /\ down' \in [Clients -> Seq(Frames)]
      /\ \A c \in Clients \ listed : down'[c] = down[c]
  BY <1>1, <1>3, BroadcastIs DEF Types
<1>5. ConnTypes'
  <2>1. UNCHANGED <<waiting, listed, late, failed, crashed, cfp, up>>
    BY <1>1 DEF client, conns
  <2> QED
    BY <1>4, <2>1, ConnKept DEF Types
<1>6. ChannelTypes'
  BY <1>1, <1>4 DEF Types, ChannelTypes
<1>7. fp' \in Streams /\ fp'.mode = "r" /\ fp'.k = k /\ fp'.pos = 0
  BY <1>1, <1>2, TransferAssumption DEF Stream, Streams
<1>8. OperatorTypes'
  <2>1. vty' \in [k : 0 .. MaxCommands, match : SUBSET Clients] /\ vty'.k = k
    BY <1>1, <1>2
  <2>2. filebytes' \in Nat
    BY <1>1 DEF Types, OperatorTypes
  <2>3. Last' = k /\ k > 0 /\ k <= MaxCommands /\ 0 <= size'[k]
    BY <1>2 DEF Last
  <2> HIDE DEF k
  <2> QED
    BY <1>2, <1>7, <2>1, <2>2, <2>3 DEF OperatorTypes
<1>9. FileTypes'
  BY <1>1, <1>7 DEF Types, FileTypes, client
<1> QED
  BY <1>5, <1>6, <1>8, <1>9 DEF Types

\* get_netmt asks for the file of a new command.
LEMMA GetTypes ==
  ASSUME Types, NEW n \in 0 .. MaxBlocks, NEW c \in Clients, Get(c, n)
  PROVE  Types'
<1> DEFINE k == Last + 1
<1>1. /\ NewCommand(n) /\ c \in listed
      /\ Broadcast({c}, Frame("GET", "CLIENT", k, 0))
      /\ UNCHANGED <<vty, filebytes, server, client, conns, up, acked>>
  BY Zenon DEF Get, Last
<1>2. Last \in Nat /\ k \in 1 .. MaxCommands /\ size' \in Seq(0 .. MaxBlocks) /\ Len(size') = k
      /\ vty = Prompt
  BY <1>1, CommandTypes, TransferAssumption
<1>3. Frame("GET", "CLIENT", k, 0) \in Frames
  BY <1>2 DEF Frame, Frames
<1>4. /\ down' \in [Clients -> Seq(Frames)]
      /\ \A d \in Clients \ listed : down'[d] = down[d]
  BY <1>1, <1>3, BroadcastIs DEF Types
<1>5. ConnTypes'
  <2>1. UNCHANGED <<waiting, listed, late, failed, crashed, cfp, up>>
    BY <1>1 DEF client, conns
  <2> QED
    BY <1>4, <2>1, ConnKept DEF Types
<1>6. ChannelTypes'
  BY <1>1, <1>4 DEF Types, ChannelTypes
<1>7. OperatorTypes'
  BY <1>1, <1>2 DEF Types, OperatorTypes, Last, Prompt
<1>8. FileTypes'
  BY <1>1 DEF Types, FileTypes, client, server
<1> QED
  BY <1>5, <1>6, <1>7, <1>8 DEF Types

\* A step of the send.
LEMMA SendTypes ==
  ASSUME Types, SendOn
  PROVE  Types'
<1>1. ~ undefined /\ vty # Prompt /\ UNCHANGED <<size, fsize, sdisk, wedged, client, conns, up, acked>>
  BY DEF SendOn, SendBlock, SendEnd
<1>2. Last \in 1 .. MaxCommands /\ vty.k = Last /\ fp.mode = "r" /\ fp.k = Last
      /\ fp.pos <= size[Last] /\ size[Last] \in 0 .. MaxBlocks /\ fp \in Streams
  <2>1. size \in Seq(0 .. MaxBlocks) /\ Len(size) <= MaxCommands /\ Len(size) > 0
    BY <1>1 DEF Types, OperatorTypes, Last
  <2>2. Len(size) \in 1 .. Len(size) /\ Len(size) \in 1 .. MaxCommands
    BY <2>1, TransferAssumption
  <2>3. vty.k = Last /\ fp.mode = "r" /\ fp.k = Last /\ fp.pos <= size[Last]
    BY <1>1, Zenon DEF Types, OperatorTypes
  <2>4. fp \in Streams
    BY DEF Types, FileTypes
  <2>5. size[Last] \in 0 .. MaxBlocks
    BY <2>1, <2>2, ElementOfSeq DEF Last
  <2> QED
    BY <2>2, <2>3, <2>4, <2>5 DEF Last
<1>3. PICK p \in 0 .. MaxBlocks : p = fp.pos
  BY <1>2 DEF Streams
<1>4. ASSUME NEW f \in Frames, Broadcast(vty.match \cap listed, f)
      PROVE  ConnTypes' /\ ChannelTypes'
  <2>1. /\ down' \in [Clients -> Seq(Frames)]
        /\ \A c \in Clients \ listed : down'[c] = down[c]
    BY <1>4, BroadcastIs DEF Types
  <2>2. UNCHANGED <<waiting, listed, late, failed, crashed, cfp, up>>
    BY <1>1 DEF client, conns
  <2> QED
    BY <2>1, <2>2, ConnKept DEF Types, ChannelTypes
<1>5. CASE SendBlock
  <2>1. /\ p < size[Last] /\ fp' = [fp EXCEPT !.pos = p + 1] /\ filebytes' = filebytes + 1
        /\ Broadcast(vty.match \cap listed, Frame("SEND", "DATA", Last, p + 1))
        /\ UNCHANGED <<undefined, vty>>
    BY <1>2, <1>3, <1>5 DEF SendBlock, Readable
  <2>2. Frame("SEND", "DATA", Last, p + 1) \in Frames
    BY <1>2 DEF Frame, Frames
  <2>3. p + 1 \in 0 .. MaxBlocks /\ p + 1 <= size[Last]
    BY <1>2, <2>1, TransferAssumption
  <2>4. fp' \in Streams /\ fp'.mode = "r" /\ fp'.k = Last /\ fp'.pos = p + 1
    BY <1>2, <2>1, <2>3 DEF Streams
  <2>5. ConnTypes' /\ ChannelTypes'
    BY <1>4, <2>1, <2>2
  <2>6. OperatorTypes'
    BY <1>1, <2>1, <2>3, <2>4 DEF Types, OperatorTypes, Last
  <2>7. FileTypes'
    BY <1>1, <2>1, <2>4 DEF Types, FileTypes, client
  <2> QED
    BY <2>5, <2>6, <2>7 DEF Types
<1>6. CASE SendEnd
  <2>1. /\ undefined' = (fp.mode = "closed") /\ fp' = Closed(fp) /\ vty' = Prompt
        /\ Broadcast(vty.match \cap listed, Frame("SEND", "END", Last, filebytes))
        /\ UNCHANGED filebytes
    BY <1>2, <1>6 DEF SendEnd
  <2>2. Frame("SEND", "END", Last, filebytes) \in Frames
    BY <1>2 DEF Frame, Frames, Types, OperatorTypes
  <2>3. fp' \in Streams
    BY <1>2, <2>1 DEF Streams, Closed
  <2>4. undefined' = FALSE
    BY <1>2, <2>1
  <2>5. ConnTypes' /\ ChannelTypes'
    BY <1>4, <2>1, <2>2
  <2>6. OperatorTypes'
    BY <1>1, <2>1, TransferAssumption DEF Types, OperatorTypes, Last, Prompt
  <2>7. FileTypes'
    BY <1>1, <2>3, <2>4 DEF Types, FileTypes, client
  <2> QED
    BY <2>5, <2>6, <2>7 DEF Types
<1> QED
  BY <1>5, <1>6 DEF SendOn

\* Connections.
LEMMA ConnectionTypes ==
  ASSUME Types, NEW c \in Clients, Join(c) \/ Leave(c) \/ ClientCrashes(c) \/ ClientFails(c),
         Incoming(c), Writing(c)
  PROVE  Types'
<1>1. UNCHANGED <<operator, server, cfp, cbytes, disk, acked>>
  BY DEF Join, Leave, ClientCrashes, ClientFails, client
<1>2. OperatorTypes' /\ FileTypes'
  BY <1>1, OperatorKept, FilesKept DEF Types, operator, server
<1>3. CASE Join(c)
  <2>1. /\ c \in waiting /\ waiting' = waiting \ {c} /\ listed' = listed \cup {c}
        /\ (late' = late \/ late' = late \cup {c}) /\ UNCHANGED <<failed, crashed, down, up>>
    BY <1>3 DEF Join, client
  <2>2. ConnTypes'
    BY <1>1, <2>1 DEF Types, ConnTypes
  <2> QED
    BY <1>2, <2>1, <2>2 DEF Types, ChannelTypes
<1>4. CASE ClientFails(c)
  <2>1. failed' = failed \cup {c} /\ UNCHANGED <<waiting, listed, late, crashed, down, up>>
    BY <1>4 DEF ClientFails, conns
  <2>2. ConnTypes'
    BY <1>1, <2>1 DEF Types, ConnTypes
  <2> QED
    BY <1>2, <2>1, <2>2 DEF Types, ChannelTypes
<1>5. ASSUME listed' = listed \ {c}, down' = [down EXCEPT ![c] = <<>>],
             up' = [up EXCEPT ![c] = <<>>], UNCHANGED <<waiting, late, failed>>,
             crashed' = crashed \/ (crashed' = crashed \cup {c} /\ c \in late /\ c \notin waiting)
      PROVE  Types'
  <2>1. <<>> \in Seq(Frames)
    OBVIOUS
  <2>2. ChannelTypes'
    BY <1>5, <2>1, Zenon DEF Types, ChannelTypes
  <2>3. down'[c] = <<>> /\ up'[c] = <<>>
        /\ \A d \in Clients \ {c} : down'[d] = down[d] /\ up'[d] = up[d]
    BY <1>5 DEF Types, ChannelTypes
  <2>4. ConnTypes'
    BY <1>1, <1>5, <2>3 DEF Types, ConnTypes
  <2> QED
    BY <1>2, <2>2, <2>4 DEF Types
<1>6. CASE Leave(c)
  <2>1. listed' = listed \ {c} /\ down' = [down EXCEPT ![c] = <<>>]
        /\ up' = [up EXCEPT ![c] = <<>>] /\ UNCHANGED <<waiting, late, failed, crashed>>
    BY <1>6 DEF Leave, client
  <2> QED
    BY <1>5, <2>1
<1>7. CASE ClientCrashes(c)
  <2>1. listed' = listed \ {c} /\ down' = [down EXCEPT ![c] = <<>>]
        /\ up' = [up EXCEPT ![c] = <<>>] /\ UNCHANGED <<waiting, late, failed>>
        /\ crashed' = crashed \cup {c} /\ c \in listed
    BY <1>7 DEF ClientCrashes
  <2>2. down[c] # <<>> /\ Head(down[c]).comm = "SEND" /\ Head(down[c]).sub \in {"DATA", "END"}
        /\ cfp[c].mode # "w"
    BY <1>7 DEF ClientCrashes, IsNext
  <2>3. c \in late
    BY <2>2, HeadFits
  <2>4. c \notin waiting
    BY <2>1 DEF Types, ConnTypes
  <2> QED
    BY <1>5, <2>1, <2>3, <2>4
<1> QED
  BY <1>3, <1>4, <1>6, <1>7

\* The DATA frames of a whole file.
LEMMA BlocksAre ==
  ASSUME NEW k \in 1 .. MaxCommands, size[k] \in Nat
  PROVE  /\ Blocks(k) \in Seq(Frames) /\ Len(Blocks(k)) = size[k]
         /\ \A i \in 1 .. size[k] : Blocks(k)[i] = Frame("GET", "DATA", k, i)
<1>1. \A i \in 1 .. size[k] : Frame("GET", "DATA", k, i) \in Frames
  BY DEF Frame, Frames
<1>2. Blocks(k) \in [1 .. size[k] -> Frames]
  BY <1>1 DEF Blocks
<1>3. Blocks(k) \in Seq(Frames)
  BY <1>2, IsASeq
<1>4. \A i \in 1 .. size[k] : Blocks(k)[i] = Frame("GET", "DATA", k, i)
  BY DEF Blocks
<1> QED
  BY <1>2, <1>3, <1>4

\* What a client writes is a block of the file.
LEMMA ClientTypes ==
  ASSUME Types, NEW c \in Clients, Incoming(c), Writing(c),
         ClientOpen(c) \/ ClientData(c) \/ ClientEnd(c) \/ ClientGet(c) \/ ClientIgnores(c)
  PROVE  Types'
<1> DEFINE f == Head(down[c])
<1>1. UNCHANGED <<operator, server, failed, crashed, conns>>
  BY DEF ClientOpen, ClientData, ClientEnd, ClientGet, ClientIgnores, client
<1>2. PICK comm, sub : Takes(c, comm, sub)
  BY Zenon DEF ClientOpen, ClientData, ClientEnd, ClientGet, ClientIgnores
<1>3. /\ c \in listed /\ down[c] \in Seq(Frames) /\ down[c] # <<>> /\ f \in Frames
      /\ down' \in [Clients -> Seq(Frames)] /\ down'[c] = Tail(down[c])
      /\ \A d \in Clients \ {c} : down'[d] = down[d]
  BY <1>2, TakesIs DEF Types
<1> HIDE DEF f
<1>0. f = Head(down[c])
  BY DEF f
<1>4. OperatorTypes'
  BY <1>1, OperatorKept DEF Types, operator, server
<1>5. ASSUME up' \in [Clients -> Seq(Frames)], cfp' \in [Clients -> Streams],
             cbytes' \in [Clients -> 0 .. MaxBlocks], disk' \in [Clients -> Copies],
             acked' = acked \/ acked' = acked \cup {<<"SEND", c, f.k>>},
             \A d \in Clients \ {c} : up'[d] = up[d] /\ cfp'[d] = cfp[d]
      PROVE  Types'
  <2>1. f.k \in 1 .. MaxCommands
    BY <1>3 DEF Frames
  <2>2. <<"SEND", c, f.k>> \in {"SEND", "GET"} \X Clients \X (1 .. MaxCommands)
    BY <2>1
  <2>3. acked' \subseteq {"SEND", "GET"} \X Clients \X (1 .. MaxCommands)
    BY <1>5, <2>2 DEF Types, FileTypes
  <2>4. FileTypes'
    BY <1>1, <1>5, <2>3 DEF Types, FileTypes, server
  <2>5. c \notin waiting
    BY <1>3 DEF Types, ConnTypes
  <2>6. ConnTypes'
    <3>1. UNCHANGED <<waiting, listed, late, failed, crashed>>
      BY <1>1 DEF conns
    <3>2. \A d \in Clients \ listed : down'[d] = down[d] /\ up'[d] = up[d]
      BY <1>3, <1>5
    <3>3. \A d \in waiting : cfp'[d] = cfp[d]
      BY <1>5, <2>5 DEF Types, ConnTypes
    <3> QED
      BY <3>1, <3>2, <3>3, ConnKept DEF Types
  <2> QED
    BY <1>3, <1>4, <1>5, <2>4, <2>6 DEF Types, ChannelTypes
<1>6. /\ up \in [Clients -> Seq(Frames)] /\ cfp \in [Clients -> Streams]
      /\ cbytes \in [Clients -> 0 .. MaxBlocks] /\ disk \in [Clients -> Copies]
  BY DEF Types, ChannelTypes, FileTypes
<1>7. f.k \in 1 .. MaxCommands /\ f.k \in 1 .. Last /\ size[f.k] \in 0 .. MaxBlocks
      /\ size[f.k] \in Nat
  <2>1. size \in Seq(0 .. MaxBlocks)
    BY DEF Types, OperatorTypes
  <2>2. f.k \in 1 .. MaxCommands
    BY <1>3 DEF Frames
  <2>3. f.k \in 1 .. Last
    BY <1>0, <1>3, HeadFits, Zenon
  <2>4. size[f.k] \in 0 .. MaxBlocks
    BY <2>1, <2>3, ElementOfSeq DEF Last
  <2> QED
    BY <2>2, <2>3, <2>4
<1>8. \A k \in 1 .. MaxCommands, m \in {"null", "r", "w", "closed"} : Stream(k, m) \in Streams
  BY TransferAssumption DEF Stream, Streams
<1>9. \A s \in Streams : Closed(s) \in Streams
  BY DEF Closed, Streams
<1>10. CASE ClientOpen(c)
  <2>1. cfp' = [cfp EXCEPT ![c] = Stream(f.k, "w")] /\ disk' = [disk EXCEPT ![c][f.k] = <<>>]
        /\ cbytes' = [cbytes EXCEPT ![c] = 0] /\ UNCHANGED <<up, acked>>
    BY <1>10 DEF ClientOpen, f
  <2>2. cfp' \in [Clients -> Streams] /\ \A d \in Clients \ {c} : cfp'[d] = cfp[d]
    <3>1. Stream(f.k, "w") \in Streams
      BY <1>7, <1>8
    <3> QED
      BY <1>6, <2>1, <3>1
  <2>3. disk' \in [Clients -> Copies]
    BY <1>6, <1>7, <2>1 DEF Copies
  <2>4. cbytes' \in [Clients -> 0 .. MaxBlocks]
    BY <1>6, <2>1, TransferAssumption
  <2> QED
    BY <1>5, <1>6, <2>1, <2>2, <2>3, <2>4
<1>11. CASE ClientData(c)
  <2>1. cfp[c].mode = "w" /\ f.comm = "SEND" /\ f.sub = "DATA"
        /\ disk' = [disk EXCEPT ![c][cfp[c].k] = Append(@, Block(f.k, f.n))]
        /\ cbytes' = [cbytes EXCEPT ![c] = @ + 1] /\ UNCHANGED <<up, acked, cfp>>
    BY <1>11 DEF ClientData, Takes, IsNext, f
  <2>2. f.n \in 1 .. size[f.k] /\ f.k = cfp[c].k /\ f.n = cbytes[c] + 1
    BY <1>0, <1>3, <2>1, HeadFits, Zenon
  <2>3. f.n \in 1 .. MaxBlocks
    BY <1>7, <2>2, TransferAssumption
  <2>4. Block(f.k, f.n) \in (1 .. MaxCommands) \X (1 .. MaxBlocks)
    BY <1>7, <2>3 DEF Block
  <2>5. disk' \in [Clients -> Copies]
    <3>1. disk[c] \in [1 .. MaxCommands -> Seq((1 .. MaxCommands) \X (1 .. MaxBlocks))]
      BY <1>6 DEF Copies
    <3>2. disk[c][f.k] \in Seq((1 .. MaxCommands) \X (1 .. MaxBlocks))
      BY <1>7, <3>1
    <3>3. Append(disk[c][f.k], Block(f.k, f.n)) \in Seq((1 .. MaxCommands) \X (1 .. MaxBlocks))
      BY <2>4, <3>2, AppendProperties
    <3>4. [disk[c] EXCEPT ![f.k] = Append(disk[c][f.k], Block(f.k, f.n))] \in Copies
      BY <3>1, <3>3 DEF Copies
    <3>5. disk' = [disk EXCEPT ![c] =
                      [disk[c] EXCEPT ![f.k] = Append(disk[c][f.k], Block(f.k, f.n))]]
      BY <2>1, <2>2
    <3> QED
      BY <1>6, <3>4, <3>5
  <2>6. cbytes' \in [Clients -> 0 .. MaxBlocks]
    <3>1. cbytes' = [cbytes EXCEPT ![c] = f.n] /\ f.n \in 0 .. MaxBlocks
      BY <2>1, <2>2, <2>3
    <3> QED
      BY <1>6, <3>1
  <2> QED
    BY <1>5, <1>6, <2>1, <2>5, <2>6
<1>12. CASE ClientEnd(c)
  <2>1. cfp' = [cfp EXCEPT ![c] = Closed(cfp[c])] /\ UNCHANGED <<cbytes, disk>>
        /\ \/ /\ up' = [up EXCEPT ![c] = Append(up[c], Frame("SEND", "SUCCESS", f.k, 0))]
              /\ acked' = acked \cup {<<"SEND", c, f.k>>}
           \/ UNCHANGED <<up, acked>>
    BY <1>12 DEF ClientEnd, f
  <2>2. cfp' \in [Clients -> Streams] /\ \A d \in Clients \ {c} : cfp'[d] = cfp[d]
    <3>1. Closed(cfp[c]) \in Streams
      BY <1>6, <1>9
    <3> QED
      BY <1>6, <2>1, <3>1
  <2>3. up' \in [Clients -> Seq(Frames)] /\ \A d \in Clients \ {c} : up'[d] = up[d]
    <3>1. Frame("SEND", "SUCCESS", f.k, 0) \in Frames
      BY <1>7 DEF Frame, Frames
    <3>2. Append(up[c], Frame("SEND", "SUCCESS", f.k, 0)) \in Seq(Frames)
      BY <1>6, <3>1, AppendProperties
    <3> QED
      BY <1>6, <2>1, <3>2
  <2> QED
    BY <1>5, <1>6, <2>1, <2>2, <2>3
<1>13. CASE ClientGet(c)
  <2> DEFINE w == up[c] \o <<Frame("GET", "OPEN", f.k, 0)>> \o Blocks(f.k)
                       \o <<Frame("GET", "END", f.k, size[f.k])>>
  <2>1. cfp' = [cfp EXCEPT ![c] = Closed(Stream(f.k, "r"))] /\ up' = [up EXCEPT ![c] = w]
        /\ cbytes' = [cbytes EXCEPT ![c] = size[f.k]] /\ UNCHANGED <<disk, acked>>
    BY <1>13 DEF ClientGet, f
  <2>2. w \in Seq(Frames)
    <3>1. Blocks(f.k) \in Seq(Frames)
      BY <1>7, BlocksAre
    <3>2. Frame("GET", "OPEN", f.k, 0) \in Frames /\ Frame("GET", "END", f.k, size[f.k]) \in Frames
      BY <1>7 DEF Frame, Frames
    <3>3. up[c] \in Seq(Frames)
      BY <1>6
    <3>4. up[c] \o <<Frame("GET", "OPEN", f.k, 0)>> \in Seq(Frames)
      BY <3>2, <3>3, OneMore
    <3>5. (up[c] \o <<Frame("GET", "OPEN", f.k, 0)>>) \o Blocks(f.k) \in Seq(Frames)
      BY <3>1, <3>4, ConcatProperties
    <3> QED
      BY <3>2, <3>5, OneMore
  <2> HIDE DEF w
  <2>3. cfp' \in [Clients -> Streams] /\ \A d \in Clients \ {c} : cfp'[d] = cfp[d]
    <3>1. Closed(Stream(f.k, "r")) \in Streams
      BY <1>7, <1>8, <1>9
    <3> QED
      BY <1>6, <2>1, <3>1
  <2>4. up' \in [Clients -> Seq(Frames)] /\ \A d \in Clients \ {c} : up'[d] = up[d]
    BY <1>6, <2>1, <2>2
  <2>5. cbytes' \in [Clients -> 0 .. MaxBlocks]
    BY <1>6, <1>7, <2>1
  <2> QED
    BY <1>5, <1>6, <2>1, <2>3, <2>4, <2>5
<1>14. CASE ClientIgnores(c)
  <2>1. UNCHANGED <<client, up, acked>>
    BY <1>14 DEF ClientIgnores
  <2> QED
    BY <1>5, <1>6, <2>1 DEF client
<1> QED
  BY <1>10, <1>11, <1>12, <1>13, <1>14

\* A frame of a get at the front makes its sender the one that answers.
LEMMA HeadIsAnswer ==
  ASSUME Types, NEW c \in Clients, up[c] # <<>>, Head(up[c]).comm = "GET"
  PROVE  Answering(c)
<1>1. up[c] \in Seq(Frames)
  BY DEF Types, ChannelTypes
<1>2. 1 \in 1 .. Len(up[c]) /\ up[c][1] = Head(up[c])
  BY <1>1
<1> QED
  BY <1>2 DEF Answering

\* What the server writes is a block of the file, and fp is then open.
LEMMA ServerTypes ==
  ASSUME Types, NEW c \in Clients, Outgoing(c), Getting(c), Server(c)
  PROVE  Types'
<1> DEFINE f == Head(up[c])
<1> HIDE DEF f
<1>0. f = Head(up[c])
  BY DEF f
<1>1. UNCHANGED <<operator, client, conns>>
  BY DEF Server, ServerOpen, ServerData, ServerDataShort, ServerEnd, ServerIgnores
<1>2. /\ fp \in Streams /\ fsize \in 0 .. MaxBlocks /\ sdisk \in Copies /\ wedged \in BOOLEAN
      /\ undefined = FALSE /\ acked \subseteq {"SEND", "GET"} \X Clients \X (1 .. MaxCommands)
      /\ down \in [Clients -> Seq(Frames)] /\ up \in [Clients -> Seq(Frames)]
  BY DEF Types, FileTypes, ChannelTypes
<1>3. ASSUME down' \in [Clients -> Seq(Frames)], up' \in [Clients -> Seq(Frames)],
             \A d \in Clients \ listed : down'[d] = down[d] /\ up'[d] = up[d],
             vty # Prompt => fp' = fp,
             fp' \in Streams, fsize' \in 0 .. MaxBlocks, sdisk' \in Copies, wedged' \in BOOLEAN,
             undefined' = FALSE,
             acked' \subseteq {"SEND", "GET"} \X Clients \X (1 .. MaxCommands)
      PROVE  Types'
  <2>1. FileTypes'
    BY <1>1, <1>3 DEF Types, FileTypes, client
  <2>2. OperatorTypes'
    BY <1>1, <1>3, OperatorKept DEF Types, operator
  <2>3. ConnTypes'
    BY <1>1, <1>3, ConnKept DEF Types, conns, client
  <2> QED
    BY <1>3, <2>1, <2>2, <2>3 DEF Types, ChannelTypes
<1>4. ASSUME NEW comm, NEW sub, ServerTakes(c, comm, sub)
      PROVE  /\ c \in listed /\ f.comm = comm /\ f.sub = sub
             /\ up' \in [Clients -> Seq(Frames)]
             /\ \A d \in Clients \ listed : up'[d] = up[d]
  BY <1>0, <1>4, ServerTakesIs DEF Types
<1>5. ASSUME up[c] # <<>>, f.comm = "GET"
      PROVE  /\ vty = Prompt /\ Last \in 1 .. MaxCommands /\ f.k = Last
             /\ size[Last] \in 0 .. MaxBlocks
             /\ f.sub \in {"DATA", "END"} => fp = Stream(Last, "w")
             /\ f.sub = "DATA" => f.n = fsize + 1 /\ fsize < size[Last]
  <2>1. vty = Prompt
    BY <1>0, <1>5, HeadIsAnswer DEF Getting, Busy
  <2> QED
    BY <1>0, <1>5, <2>1, HeadAnswers
<1>6. \A comm, sub : ServerTakes(c, comm, sub) => up[c] # <<>>
  BY Zenon DEF ServerTakes, IsNext
<1>7. CASE ServerOpen(c)
  <2>1. /\ ServerTakes(c, "GET", "OPEN") /\ fp' = Stream(f.k, "w")
        /\ sdisk' = [sdisk EXCEPT ![f.k] = <<>>] /\ fsize' = 0
        /\ UNCHANGED <<wedged, undefined, down, acked>>
    BY <1>7 DEF ServerOpen, f
  <2>2. vty = Prompt /\ f.k \in 1 .. MaxCommands
    BY <1>4, <1>5, <1>6, <2>1
  <2>3. fp' \in Streams /\ fsize' \in 0 .. MaxBlocks
    BY <2>1, <2>2, TransferAssumption DEF Stream, Streams
  <2>4. sdisk' \in Copies
    BY <1>2, <2>1, <2>2 DEF Copies
  <2> QED
    BY <1>2, <1>3, <1>4, <2>1, <2>2, <2>3, <2>4
<1>8. CASE ServerData(c)
  <2>1. /\ ServerTakes(c, "GET", "DATA") /\ UNCHANGED <<fp, wedged, down, acked>>
        /\ undefined' = (fp.mode # "w")
    BY <1>8 DEF ServerData
  <2>2. fp = Stream(Last, "w") /\ f.n = fsize + 1 /\ f.k = Last /\ Last \in 1 .. MaxCommands
        /\ fsize < size[Last] /\ size[Last] \in 0 .. MaxBlocks
    BY <1>4, <1>5, <1>6, <2>1
  <2>3. fp.mode = "w" /\ fp.k = Last
    BY <2>2 DEF Stream
  <2>4. sdisk' = [sdisk EXCEPT ![Last] = Append(@, Block(Last, f.n))] /\ fsize' = f.n
    BY <1>8, <2>2, <2>3 DEF ServerData, f
  <2>5. f.n \in 1 .. MaxBlocks
    BY <1>2, <2>2, TransferAssumption
  <2>6. Block(Last, f.n) \in (1 .. MaxCommands) \X (1 .. MaxBlocks)
    BY <2>2, <2>5 DEF Block
  <2>7. sdisk' \in Copies
    <3>1. sdisk[Last] \in Seq((1 .. MaxCommands) \X (1 .. MaxBlocks))
      BY <1>2, <2>2 DEF Copies
    <3>2. Append(sdisk[Last], Block(Last, f.n)) \in Seq((1 .. MaxCommands) \X (1 .. MaxBlocks))
      BY <2>6, <3>1, AppendProperties
    <3> QED
      BY <1>2, <2>4, <3>2 DEF Copies
  <2>8. undefined' = FALSE /\ fsize' \in 0 .. MaxBlocks
    <3>1. fsize' \in 0 .. MaxBlocks
      BY <2>4, <2>5
    <3>2. undefined' = FALSE
      BY <2>1, <2>3, Zenon
    <3> QED
      BY <3>1, <3>2
  <2> QED
    BY <1>2, <1>3, <1>4, <2>1, <2>7, <2>8
<1>9. CASE ServerDataShort(c)
  <2>1. wedged' = TRUE /\ UNCHANGED <<fp, fsize, sdisk, undefined, down, up, acked>>
    BY <1>9 DEF ServerDataShort
  <2> QED
    BY <1>2, <1>3, <2>1
<1>10. CASE ServerEnd(c)
  <2>1. /\ ServerTakes(c, "GET", "END") /\ UNCHANGED <<fsize, sdisk, wedged>>
        /\ undefined' = (fp.mode \notin {"r", "w"}) /\ fp' = Closed(fp)
        /\ \/ /\ Broadcast({c}, Frame("GET", "SUCCESS", f.k, 0))
              /\ acked' = acked \cup {<<"GET", c, f.k>>}
           \/ UNCHANGED <<down, acked>>
    BY <1>10 DEF ServerEnd, f
  <2>2. fp = Stream(Last, "w") /\ vty = Prompt /\ f.k \in 1 .. MaxCommands
    BY <1>4, <1>5, <1>6, <2>1
  <2>3. undefined' = FALSE /\ fp' \in Streams
    BY <1>2, <2>1, <2>2 DEF Stream, Streams, Closed
  <2>4. down' \in [Clients -> Seq(Frames)] /\ \A d \in Clients \ listed : down'[d] = down[d]
    <3>1. Frame("GET", "SUCCESS", f.k, 0) \in Frames
      BY <2>2 DEF Frame, Frames
    <3>2. c \in listed
      BY <1>4, <2>1
    <3>3. CASE Broadcast({c}, Frame("GET", "SUCCESS", f.k, 0))
      BY <3>1, <3>2, <3>3, BroadcastIs DEF Types
    <3> QED
      BY <1>2, <2>1, <3>3
  <2>5. acked' \subseteq {"SEND", "GET"} \X Clients \X (1 .. MaxCommands)
    BY <1>2, <2>1, <2>2
  <2> QED
    BY <1>2, <1>3, <1>4, <2>1, <2>2, <2>3, <2>4, <2>5
<1>11. CASE ServerIgnores(c)
  <2>1. ServerTakes(c, "SEND", "SUCCESS") /\ UNCHANGED <<server, down, acked>>
    BY <1>11 DEF ServerIgnores
  <2> QED
    BY <1>2, <1>3, <1>4, <2>1 DEF server
<1> QED
  BY <1>7, <1>8, <1>9, <1>10, <1>11 DEF Server

\* No handler leaves the types.
LEMMA TypesStep == Inv /\ Next => Types'
<1> SUFFICES ASSUME Inv, Next PROVE Types'
  OBVIOUS
<1>1. Types /\ \A c \in Clients : Incoming(c) /\ Writing(c) /\ Outgoing(c) /\ Getting(c)
  BY DEF Inv
<1>2. ASSUME NEW n \in 0 .. MaxBlocks, NEW match \in SUBSET Clients, SendOpen(match, n)
      PROVE  Types'
  BY <1>1, <1>2, SendOpenTypes
<1>3. ASSUME NEW n \in 0 .. MaxBlocks, NEW c \in Clients, Get(c, n) PROVE Types'
  BY <1>1, <1>3, GetTypes
<1>4. CASE SendOn
  BY <1>1, <1>4, SendTypes
<1>5. ASSUME NEW c \in Clients, Join(c) \/ Leave(c) \/ Client(c) \/ Server(c) PROVE Types'
  <2>1. CASE Join(c) \/ Leave(c) \/ ClientCrashes(c) \/ ClientFails(c)
    BY <1>1, <2>1, ConnectionTypes
  <2>2. CASE ClientOpen(c) \/ ClientData(c) \/ ClientEnd(c) \/ ClientGet(c) \/ ClientIgnores(c)
    BY <1>1, <2>2, ClientTypes
  <2>3. CASE Server(c)
    BY <1>1, <2>3, ServerTypes
  <2> QED
    BY <1>5, <2>1, <2>2, <2>3 DEF Client
<1> QED
  BY <1>2, <1>3, <1>4, <1>5 DEF Next

-----------------------------------------------------------------------------
(* The way to a client, and its copies *)

\* Only commands are added to the sizes.
Grown == size' = size \/ \E n \in 0 .. MaxBlocks : size' = Append(size, n)

\* The commands there were keep their files, and their frames still fit.
LEMMA GrownIs ==
  ASSUME Types, Grown
  PROVE  /\ size \in Seq(Nat) /\ size' \in Seq(Nat) /\ 1 .. Last \subseteq 1 .. Last'
         /\ \A k \in 1 .. Last : size'[k] = size[k]
         /\ \A d \in Seq(Frames), lost \in BOOLEAN : \A at :
                Chain(d, at, lost, size) => Chain(d, at, lost, size')
<1>1. size \in Seq(Nat)
  <2>1. size \in Seq(0 .. MaxBlocks) /\ 0 .. MaxBlocks \in SUBSET Nat
    BY TransferAssumption DEF Types, OperatorTypes
  <2> QED
    BY <2>1, SeqWider
<1>2. CASE size' = size
  BY <1>1, <1>2 DEF Last
<1>3. ASSUME NEW n \in 0 .. MaxBlocks, size' = Append(size, n)
      PROVE  /\ size' \in Seq(Nat) /\ 1 .. Last \subseteq 1 .. Last'
             /\ \A k \in 1 .. Last : size'[k] = size[k]
             /\ \A d \in Seq(Frames), lost \in BOOLEAN : \A at :
                    Chain(d, at, lost, size) => Chain(d, at, lost, size')
  <2>1. n \in Nat
    BY TransferAssumption
  <2>2. /\ Append(size, n) \in Seq(Nat) /\ 1 .. Len(size) \subseteq 1 .. Len(Append(size, n))
        /\ \A k \in 1 .. Len(size) : Append(size, n)[k] = size[k]
    BY <1>1, <2>1
  <2>3. \A d \in Seq(Frames), lost \in BOOLEAN : \A at :
            Chain(d, at, lost, size) => Chain(d, at, lost, Append(size, n))
    BY <1>1, <2>1, ChainGrow
  <2> QED
    BY <1>3, <2>2, <2>3 DEF Last
<1> QED
  BY <1>1, <1>2, <1>3 DEF Grown

\* The copies of client c, and what is confirmed of them, stay as they are.
CopiesKept(c) ==
    /\ cfp'[c] = cfp[c] /\ cbytes'[c] = cbytes[c] /\ disk'[c] = disk[c]
    /\ \A k \in 1 .. MaxCommands : <<"SEND", c, k>> \in acked' => <<"SEND", c, k>> \in acked

\* A client whose copies are left alone.
LEMMA CopiesAreKept ==
  ASSUME Types, Grown, NEW c \in Clients, Writing(c), CopiesKept(c)
  PROVE  /\ Writing(c)' /\ Now(c)' = Now(c)
         /\ \A k \in 1 .. MaxCommands : Sent(c, k) => Sent(c, k)' /\ k \in 1 .. Last
<1>1. 1 .. Last \subseteq 1 .. Last' /\ \A k \in 1 .. Last : size'[k] = size[k]
  BY GrownIs
<1>2. Now(c)' = Now(c)
  BY DEF Now, CopiesKept
<1>3. Writing(c)'
  BY <1>1 DEF Writing, CopiesKept
<1>4. DOMAIN size = 1 .. Last /\ DOMAIN size' = 1 .. Last'
  BY GrownIs DEF Last
<1>5. ASSUME NEW k \in 1 .. MaxCommands, Sent(c, k) PROVE Sent(c, k)' /\ k \in 1 .. Last
  <2>1. k \in 1 .. Last /\ disk[c][k] = [i \in 1 .. size[k] |-> Block(k, i)]
    BY <1>4, <1>5 DEF Sent, File
  <2>2. k \in DOMAIN size' /\ disk'[c][k] = [i \in 1 .. size'[k] |-> Block(k, i)]
    BY <1>1, <1>4, <2>1 DEF CopiesKept
  <2> QED
    BY <2>1, <2>2 DEF Sent, File
<1> QED
  BY <1>2, <1>3, <1>5

\* Nothing comes to the client.
LEMMA NothingComes ==
  ASSUME Types, Grown, NEW c \in Clients, Incoming(c), Writing(c), SendAcks(c),
         CopiesKept(c), down'[c] = down[c], c \in late' <=> c \in late
  PROVE  Incoming(c)' /\ Writing(c)' /\ SendAcks(c)' /\ Finally(c)' = Finally(c)
<1>1. Writing(c)' /\ Now(c)' = Now(c)
      /\ \A k \in 1 .. MaxCommands : Sent(c, k) => Sent(c, k)'
  BY CopiesAreKept
<1>2. Incoming(c)'
  <2>1. down[c] \in Seq(Frames)
    BY DEF Types, ChannelTypes
  <2>2. PICK lost \in BOOLEAN : lost = (c \in late)
    <3>1. (c \in late) \in BOOLEAN
      OBVIOUS
    <3> QED
      BY <3>1
  <2>3. (c \in late)' = lost
    <3>1. (c \in late') \in BOOLEAN /\ (c \in late) \in BOOLEAN
      OBVIOUS
    <3> QED
      BY <2>2, <3>1
  <2>4. Chain(down[c], Now(c), lost, size) /\ Ordered(down[c])
    BY <2>2 DEF Incoming
  <2>5. Chain(down[c], Now(c), lost, size')
    BY <2>1, <2>4, GrownIs
  <2>6. Incoming(c)' = (Chain(down'[c], Now(c)', (c \in late)', size') /\ Ordered(down'[c]))
    BY DEF Incoming, Chain, Ordered, Fits, At, After, Nowhere
  <2> QED
    BY <1>1, <2>3, <2>4, <2>5, <2>6
<1>3. SendAcks(c)'
  BY <1>1 DEF SendAcks, CopiesKept
<1>4. Finally(c)' = Finally(c)
  BY <1>1 DEF Finally, At, After, Nowhere
<1> QED
  BY <1>1, <1>2, <1>3, <1>4

\* A frame is sent to the client.
LEMMA FrameComes ==
  ASSUME Types, Grown, NEW c \in Clients, Incoming(c), Writing(c), SendAcks(c),
         CopiesKept(c), c \in late' <=> c \in late,
         NEW f \in Frames, down'[c] = Append(down[c], f),
         Fits(f, Finally(c), c \in late /\ down[c] = <<>>, size'),
         f.comm = "SEND" /\ f.sub = "OPEN" => f.k = Last + 1
  PROVE  Incoming(c)' /\ Writing(c)' /\ SendAcks(c)' /\ Finally(c)' = After(f)
<1>1. Writing(c)' /\ Now(c)' = Now(c)
      /\ \A k \in 1 .. MaxCommands : Sent(c, k) => Sent(c, k)' /\ k \in 1 .. Last
  BY CopiesAreKept
<1>2. down[c] \in Seq(Frames) /\ Last \in Nat /\ size' \in Seq(Nat)
  BY GrownIs DEF Types, ChannelTypes, OperatorTypes, Last
<1>3. PICK lost \in BOOLEAN : lost = (c \in late)
  <2>1. (c \in late) \in BOOLEAN
    OBVIOUS
  <2> QED
    BY <2>1
<1>4. (c \in late)' = lost
  <2>1. (c \in late') \in BOOLEAN /\ (c \in late) \in BOOLEAN
    OBVIOUS
  <2> QED
    BY <1>3, <2>1
<1>5. Chain(down[c], Now(c), lost, size) /\ Ordered(down[c])
  BY <1>3 DEF Incoming
<1>6. Chain(down[c], Now(c), lost, size')
  BY <1>2, <1>5, GrownIs
<1>7. Fits(f, At(down[c], Now(c), Len(down[c])), lost /\ down[c] = <<>>, size')
  BY <1>3 DEF Finally
<1>8. /\ Chain(Append(down[c], f), Now(c), lost, size')
      /\ At(Append(down[c], f), Now(c), Len(Append(down[c], f))) = After(f)
  BY <1>2, <1>6, <1>7, ChainAppend
<1>9. \A i \in 1 .. Len(down[c]) : down[c][i].k \in 1 .. Last
  BY <1>5 DEF Chain, Fits, Last
<1>10. Ordered(Append(down[c], f))
  <2>1. f.comm = "SEND" /\ f.sub = "OPEN" => \A i \in 1 .. Len(down[c]) : down[c][i].k < f.k
    BY <1>2, <1>9
  <2> QED
    BY <1>2, <1>5, <2>1, OrderedAppend
<1>11. Incoming(c)'
  <2>1. Incoming(c)' = (Chain(down'[c], Now(c)', (c \in late)', size') /\ Ordered(down'[c]))
    BY DEF Incoming, Chain, Ordered, Fits, At, After, Nowhere
  <2> QED
    BY <1>1, <1>4, <1>8, <1>10, <2>1
<1>12. SendAcks(c)'
  <2> SUFFICES ASSUME NEW k \in 1 .. MaxCommands, <<"SEND", c, k>> \in acked'
               PROVE  /\ Sent(c, k)'
                      /\ cfp'[c].mode = "w" => k # cfp'[c].k
                      /\ \A i \in 1 .. Len(down'[c]) :
                             down'[c][i].comm = "SEND" /\ down'[c][i].sub = "OPEN" =>
                                 k < down'[c][i].k
    BY DEF SendAcks
  <2>1. /\ Sent(c, k) /\ (cfp[c].mode = "w" => k # cfp[c].k)
        /\ \A i \in 1 .. Len(down[c]) :
               down[c][i].comm = "SEND" /\ down[c][i].sub = "OPEN" => k < down[c][i].k
    BY DEF SendAcks, CopiesKept
  <2>2. Sent(c, k)' /\ k \in 1 .. Last
    BY <1>1, <2>1
  <2>3. \A i \in 1 .. Len(Append(down[c], f)) :
            \/ i \in 1 .. Len(down[c]) /\ Append(down[c], f)[i] = down[c][i]
            \/ Append(down[c], f)[i] = f
    BY <1>2
  <2>4. f.comm = "SEND" /\ f.sub = "OPEN" => k < f.k
    BY <1>2, <2>2
  <2> QED
    BY <2>1, <2>2, <2>3, <2>4 DEF CopiesKept
<1>13. Finally(c)' = After(f)
  <2>1. Finally(c)' = At(down'[c], Now(c)', Len(down'[c]))
    BY DEF Finally, At, After, Nowhere
  <2> QED
    BY <1>1, <1>8, <2>1
<1> QED
  BY <1>1, <1>11, <1>12, <1>13

\* The client takes the first frame.
LEMMA FrameTaken ==
  ASSUME Types, size' = size, NEW c \in Clients, Incoming(c), SendAcks(c),
         c \in late' <=> c \in late, down[c] # <<>>, down'[c] = Tail(down[c]),
         Now(c)' = After(Head(down[c])),
         \A k \in 1 .. MaxCommands : <<"SEND", c, k>> \in acked' =>
             /\ <<"SEND", c, k>> \in acked \/ k = Head(down[c]).k
             /\ Sent(c, k)' /\ (cfp'[c].mode = "w" => k # cfp'[c].k)
  PROVE  Incoming(c)' /\ SendAcks(c)' /\ Finally(c)' = Finally(c)
<1>1. down[c] \in Seq(Frames) /\ size \in Seq(Nat)
  <2>1. Grown
    BY DEF Grown
  <2> QED
    BY <2>1, GrownIs DEF Types, ChannelTypes
<1>3. PICK lost \in BOOLEAN : lost = (c \in late)
  <2>1. (c \in late) \in BOOLEAN
    OBVIOUS
  <2> QED
    BY <2>1
<1>4. (c \in late)' = lost
  <2>1. (c \in late') \in BOOLEAN /\ (c \in late) \in BOOLEAN
    OBVIOUS
  <2> QED
    BY <1>3, <2>1
<1>5. Chain(down[c], Now(c), lost, size) /\ Ordered(down[c])
  BY <1>3 DEF Incoming
<1>6. /\ Chain(Tail(down[c]), After(Head(down[c])), lost, size)
      /\ At(Tail(down[c]), After(Head(down[c])), Len(Tail(down[c]))) = Finally(c)
  BY <1>1, <1>5, ChainTail DEF Finally
<1>7. Ordered(Tail(down[c]))
  BY <1>1, <1>5, OrderedTail
<1>8. Incoming(c)'
  <2>1. Incoming(c)' = (Chain(down'[c], Now(c)', (c \in late)', size') /\ Ordered(down'[c]))
    BY DEF Incoming, Chain, Ordered, Fits, At, After, Nowhere
  <2> QED
    BY <1>4, <1>6, <1>7, <2>1
<1>9. Finally(c)' = Finally(c)
  <2>1. Finally(c)' = At(down'[c], Now(c)', Len(down'[c]))
    BY DEF Finally, At, After, Nowhere
  <2> QED
    BY <1>6, <2>1
<1>10. SendAcks(c)'
  <2> SUFFICES ASSUME NEW k \in 1 .. MaxCommands, <<"SEND", c, k>> \in acked'
               PROVE  \A i \in 1 .. Len(Tail(down[c])) :
                          Tail(down[c])[i].comm = "SEND" /\ Tail(down[c])[i].sub = "OPEN" =>
                              k < Tail(down[c])[i].k
    BY DEF SendAcks
  <2>1. /\ \A i \in 1 .. Len(Tail(down[c])) :
               Tail(down[c])[i] = down[c][i + 1] /\ i + 1 \in 1 .. Len(down[c])
        /\ \A i \in 1 .. Len(Tail(down[c])) :
               Tail(down[c])[i].comm = "SEND" /\ Tail(down[c])[i].sub = "OPEN" =>
                   Head(down[c]).k < Tail(down[c])[i].k
    BY <1>1, <1>5, OrderedTail
  <2>2. CASE <<"SEND", c, k>> \in acked
    <3>1. \A i \in 1 .. Len(down[c]) :
              down[c][i].comm = "SEND" /\ down[c][i].sub = "OPEN" => k < down[c][i].k
      BY <2>2 DEF SendAcks
    <3> QED
      BY <2>1, <3>1
  <2>3. CASE k = Head(down[c]).k
    BY <2>1, <2>3
  <2> QED
    BY <2>2, <2>3
<1> QED
  BY <1>8, <1>9, <1>10

Mine(c) == Incoming(c) /\ Served(c) /\ Writing(c) /\ SendAcks(c)

\* What a step that only others of the clients notice leaves to client c.
LEMMA Elsewhere ==
  ASSUME Types, size' = size, NEW c \in Clients, Mine(c), CopiesKept(c), down'[c] = down[c],
         c \in late' <=> c \in late, c \in listed' => c \in listed,
         vty' = vty, vty # Prompt => fp' = fp
  PROVE  Mine(c)'
<1>1. Grown
  BY DEF Grown
<1>2. Incoming(c)' /\ Writing(c)' /\ SendAcks(c)' /\ Finally(c)' = Finally(c)
  BY <1>1, NothingComes DEF Mine
<1>3. Now(c)' = Now(c)
  BY <1>1, CopiesAreKept DEF Mine
<1>4. Served(c)'
  BY <1>2, <1>3 DEF Mine, Served, Nowhere, Prompt
<1> QED
  BY <1>2, <1>4 DEF Mine

\* The commands.
LEMMA CommandMine ==
  ASSUME Types, NEW n \in 0 .. MaxBlocks, NewCommand(n), NEW f \in Frames, NEW to \in SUBSET listed,
         Broadcast(to, f), f.k = Last + 1, UNCHANGED <<client, conns, acked>>,
         \/ f.comm = "SEND" /\ f.sub = "OPEN" /\ vty'.k = Last + 1 /\ fp'.pos = 0
            /\ listed \cap vty'.match = to
         \/ f.comm = "GET" /\ f.sub = "CLIENT" /\ vty' = vty,
         NEW c \in Clients, Mine(c)
  PROVE  Mine(c)'
<1>1. Grown
  BY DEF NewCommand, Grown
<1>2. CopiesKept(c) /\ listed' = listed /\ (c \in late' <=> c \in late)
  BY DEF CopiesKept, client, conns
<1>3. down'[c] = IF c \in to THEN Append(down[c], f) ELSE down[c]
  BY BroadcastIs DEF Types
<1>4. c \in listed => Finally(c) = Nowhere
  BY DEF Mine, Served, NewCommand
<1>5. Last \in Nat /\ Len(size') = Last + 1 /\ vty = Prompt
  BY CommandTypes
<1>6. CASE c \in to
  <2>1. Fits(f, Nowhere, c \in late /\ down[c] = <<>>, size')
    <3>1. f.k \in 1 .. Len(size')
      BY <1>5
    <3>2. CASE f.comm = "SEND" /\ f.sub = "OPEN"
      BY <3>1, <3>2, Zenon DEF Fits
    <3>3. CASE f.comm = "GET" /\ f.sub = "CLIENT"
      <4>1. f.sub \in {"CLIENT", "SUCCESS"}
        BY <3>3
      <4> QED
        BY <3>1, <3>3, <4>1, Zenon DEF Fits
    <3> QED
      BY <3>2, <3>3
  <2>2. Incoming(c)' /\ Writing(c)' /\ SendAcks(c)' /\ Finally(c)' = After(f)
    BY <1>1, <1>2, <1>3, <1>4, <1>6, <2>1, FrameComes DEF Mine
  <2>3. CASE f.comm = "SEND" /\ f.sub = "OPEN" /\ vty'.k = Last + 1 /\ fp'.pos = 0
             /\ listed \cap vty'.match = to
    <3>1. After(f) = <<vty'.k, fp'.pos>>
      BY <2>3 DEF After
    <3>2. vty' # Prompt /\ c \in vty'.match
      BY <1>5, <1>6, <2>3 DEF Prompt
    <3> QED
      BY <2>2, <3>1, <3>2 DEF Served, Prompt, Mine
  <2>4. CASE f.comm = "GET" /\ f.sub = "CLIENT" /\ vty' = vty
    <3>1. After(f) = Nowhere
      BY <2>4 DEF After
    <3> QED
      BY <1>5, <2>2, <2>4, <3>1 DEF Served, Prompt, Mine, Nowhere
  <2> QED
    BY <2>3, <2>4
<1>7. CASE c \notin to
  <2>1. Incoming(c)' /\ Writing(c)' /\ SendAcks(c)' /\ Finally(c)' = Finally(c)
    BY <1>1, <1>2, <1>3, <1>7, NothingComes DEF Mine
  <2>2. Served(c)'
    BY <1>2, <1>4, <1>5, <1>7, <2>1 DEF Served, Nowhere, Prompt
  <2> QED
    BY <2>1, <2>2 DEF Mine
<1> QED
  BY <1>6, <1>7

\* The blocks and the end of a send.
LEMMA SendMine ==
  ASSUME Types, SendOn, NEW c \in Clients, Mine(c)
  PROVE  Mine(c)'
<1>1. vty # Prompt /\ UNCHANGED <<size, client, conns, acked>>
  BY DEF SendOn, SendBlock, SendEnd
<1>2. Grown /\ CopiesKept(c) /\ listed' = listed /\ (c \in late' <=> c \in late)
  BY <1>1 DEF Grown, CopiesKept, client, conns
<1>3. /\ size \in Seq(Nat) /\ Last \in 1 .. Last /\ size[Last] \in Nat /\ Last \in 1 .. MaxCommands
      /\ vty.k = Last /\ fp.mode = "r" /\ fp.k = Last /\ fp.pos <= size[Last] /\ fp.pos \in Nat
  <2>1. size \in Seq(Nat)
    BY <1>2, GrownIs
  <2>2. vty.k = Last /\ Last > 0 /\ fp.mode = "r" /\ fp.k = Last /\ fp.pos <= size[Last]
    BY <1>1, Zenon DEF Types, OperatorTypes
  <2>3. Last \in Nat /\ Last <= MaxCommands
    BY <2>1 DEF Last, Types, OperatorTypes
  <2>4. Last \in 1 .. Last /\ Last \in 1 .. MaxCommands
    BY <2>2, <2>3, TransferAssumption
  <2>5. size[Last] \in Nat
    BY <2>1, <2>4, ElementOfSeq DEF Last
  <2>6. fp.pos \in Nat
    BY DEF Types, FileTypes, Streams
  <2> QED
    BY <2>1, <2>2, <2>4, <2>5, <2>6
<1>4. PICK p \in Nat : p = fp.pos /\ p <= size[Last]
  BY <1>3
<1>5. CASE c \notin vty.match \cap listed
  <2>1. down'[c] = down[c]
    <3>1. Frame("SEND", "DATA", Last, p + 1) \in Frames
      BY <1>3 DEF Frame, Frames
    <3>2. Frame("SEND", "END", Last, filebytes) \in Frames
      BY <1>3 DEF Frame, Frames, Types, OperatorTypes
    <3>3. CASE SendBlock
      <4>1. Broadcast(vty.match \cap listed, Frame("SEND", "DATA", Last, p + 1))
        BY <1>3, <1>4, <3>3 DEF SendBlock
      <4> QED
        BY <1>5, <3>1, <4>1, BroadcastIs DEF Types
    <3>4. CASE SendEnd
      <4>1. Broadcast(vty.match \cap listed, Frame("SEND", "END", Last, filebytes))
        BY <1>3, <3>4 DEF SendEnd
      <4> QED
        BY <1>5, <3>2, <4>1, BroadcastIs DEF Types
    <3> QED
      BY <3>3, <3>4 DEF SendOn
  <2>2. Incoming(c)' /\ Writing(c)' /\ SendAcks(c)' /\ Finally(c)' = Finally(c)
    BY <1>2, <2>1, NothingComes DEF Mine
  <2>3. vty' = vty \/ vty' = Prompt
    BY DEF SendOn, SendBlock, SendEnd
  <2>4. c \in listed => Finally(c) = Nowhere
    BY <1>5 DEF Mine, Served
  <2>5. Served(c)'
    BY <1>2, <1>5, <2>2, <2>3, <2>4 DEF Served, Prompt, Nowhere
  <2> QED
    BY <2>2, <2>5 DEF Mine
<1>6. CASE c \in vty.match \cap listed
  <2>1. \/ Finally(c) = <<Last, p>>
        \/ Finally(c) = Nowhere /\ c \in late /\ down[c] = <<>>
    <3>1. Finally(c) = <<vty.k, fp.pos>> \/ (c \in late /\ down[c] = <<>> /\ Now(c) = Nowhere)
      BY <1>1, <1>6 DEF Mine, Served
    <3>2. down[c] = <<>> => Finally(c) = Now(c)
      BY DEF Finally, At
    <3> QED
      BY <1>3, <1>4, <3>1, <3>2
  <2>2. ASSUME NEW f \in Frames, Broadcast(vty.match \cap listed, f),
               Fits(f, Finally(c), c \in late /\ down[c] = <<>>, size), f.sub # "OPEN"
        PROVE  Incoming(c)' /\ Writing(c)' /\ SendAcks(c)' /\ Finally(c)' = After(f)
    <3>1. down'[c] = Append(down[c], f)
      BY <1>6, <2>2, BroadcastIs DEF Types
    <3>2. Fits(f, Finally(c), c \in late /\ down[c] = <<>>, size')
      BY <1>1, <2>2
    <3> QED
      BY <1>2, <2>2, <3>1, <3>2, FrameComes DEF Mine
  <2>3. CASE SendBlock
    <3> DEFINE f == Frame("SEND", "DATA", Last, p + 1)
    <3>1. p < size[Last] /\ fp' = [fp EXCEPT !.pos = p + 1] /\ vty' = vty
          /\ Broadcast(vty.match \cap listed, f)
      BY <1>3, <1>4, <2>3 DEF SendBlock, Readable
    <3>2. f \in Frames /\ f.comm = "SEND" /\ f.sub = "DATA" /\ f.k = Last /\ f.n = p + 1
      BY <1>3 DEF Frame, Frames
    <3> HIDE DEF f
    <3>3. f.n \in 1 .. size[f.k] /\ f.k \in 1 .. Len(size) /\ f.n - 1 = p
      BY <1>3, <1>4, <3>1, <3>2 DEF Last
    <3>4. Fits(f, Finally(c), c \in late /\ down[c] = <<>>, size)
      <4>1. CASE Finally(c) = <<Last, p>>
        BY <3>2, <3>3, <4>1, Zenon DEF Fits
      <4>2. CASE Finally(c) = Nowhere /\ c \in late /\ down[c] = <<>>
        BY <3>2, <3>3, <4>2, Zenon DEF Fits
      <4> QED
        BY <2>1, <4>1, <4>2
    <3>5. Incoming(c)' /\ Writing(c)' /\ SendAcks(c)' /\ Finally(c)' = After(f)
      BY <2>2, <3>1, <3>2, <3>4
    <3>6. After(f) = <<vty'.k, fp'.pos>>
      <4>1. fp'.pos = p + 1
        BY <3>1 DEF Types, FileTypes, Streams
      <4>2. After(f) = <<f.k, f.n>>
        BY <3>2 DEF After
      <4> QED
        BY <1>3, <3>1, <3>2, <4>1, <4>2
    <3>7. Served(c)'
      <4>1. vty' # Prompt /\ c \in vty'.match
        BY <1>1, <1>6, <3>1
      <4> QED
        BY <3>5, <3>6, <4>1 DEF Served, Prompt
    <3> QED
      BY <3>5, <3>7 DEF Mine
  <2>4. CASE SendEnd
    <3> DEFINE f == Frame("SEND", "END", Last, filebytes)
    <3>1. ~ (p < size[Last]) /\ vty' = Prompt /\ Broadcast(vty.match \cap listed, f)
      BY <1>3, <1>4, <2>4 DEF SendEnd, Readable
    <3>2. f \in Frames /\ f.comm = "SEND" /\ f.sub = "END" /\ f.k = Last
      BY <1>3 DEF Frame, Frames, Types, OperatorTypes
    <3> HIDE DEF f
    <3>3. f.k \in 1 .. Len(size) /\ p = size[f.k]
      BY <1>3, <1>4, <3>1, <3>2 DEF Last
    <3>4. Fits(f, Finally(c), c \in late /\ down[c] = <<>>, size)
      <4>1. CASE Finally(c) = <<Last, p>>
        BY <3>2, <3>3, <4>1, Zenon DEF Fits
      <4>2. CASE Finally(c) = Nowhere /\ c \in late /\ down[c] = <<>>
        BY <3>2, <3>3, <4>2, Zenon DEF Fits
      <4> QED
        BY <2>1, <4>1, <4>2
    <3>5. f.sub # "OPEN" /\ After(f) = Nowhere
      BY <3>2 DEF After
    <3>6. Incoming(c)' /\ Writing(c)' /\ SendAcks(c)' /\ Finally(c)' = Nowhere
      BY <2>2, <3>1, <3>2, <3>4, <3>5
    <3>7. Served(c)'
      BY <3>1, <3>6 DEF Served, Prompt, Nowhere
    <3> QED
      BY <3>6, <3>7 DEF Mine
  <2> QED
    BY <2>3, <2>4 DEF SendOn
<1> QED
  BY <1>5, <1>6

\* Connections: what is on its way is lost, the copies stay.
LEMMA ConnectionMine ==
  ASSUME Types, NEW d \in Clients, Join(d) \/ Leave(d) \/ ClientCrashes(d) \/ ClientFails(d),
         NEW c \in Clients, Mine(c)
  PROVE  Mine(c)'
<1>1. UNCHANGED <<operator, server, cfp, cbytes, disk, acked>>
  BY DEF Join, Leave, ClientCrashes, ClientFails, client
<1>2. CopiesKept(c) /\ size' = size /\ vty' = vty /\ fp' = fp /\ Grown
  BY <1>1 DEF CopiesKept, operator, server, Grown
<1>3. Writing(c)' /\ Now(c)' = Now(c) /\ (\A k \in 1 .. MaxCommands : Sent(c, k) => Sent(c, k)')
  BY <1>2, CopiesAreKept DEF Mine
<1>4. CASE c # d
  <2>1. down'[c] = down[c] /\ (c \in late' <=> c \in late) /\ (c \in listed' => c \in listed)
    BY <1>4 DEF Join, Leave, ClientCrashes, ClientFails, conns, Types, ChannelTypes
  <2> QED
    BY <1>2, <2>1, Elsewhere
<1>5. CASE c = d /\ ClientFails(d)
  <2>1. down'[c] = down[c] /\ (c \in late' <=> c \in late) /\ (c \in listed' => c \in listed)
    BY <1>5 DEF ClientFails, conns
  <2> QED
    BY <1>2, <2>1, Elsewhere
<1>6. CASE c = d /\ ~ ClientFails(d)
  <2>1. down'[c] = <<>> /\ (c \in listed' => Join(c))
    <3>1. CASE Join(c)
      BY <3>1 DEF Join, Types, ConnTypes
    <3>2. CASE Leave(c) \/ ClientCrashes(c)
      BY <3>2 DEF Leave, ClientCrashes, Types, ChannelTypes
    <3> QED
      BY <1>6, <3>1, <3>2
  <2>2. \A i \in 1 .. Len(down'[c]) : FALSE
    BY <2>1
  <2>3. Incoming(c)'
    BY <2>2 DEF Incoming, Chain, Ordered
  <2>4. SendAcks(c)'
    BY <1>2, <1>3, <2>2 DEF Mine, SendAcks, CopiesKept
  <2>5. Served(c)'
    <3> SUFFICES ASSUME c \in listed' PROVE Served(c)'
      BY DEF Served
    <3>1. Join(c)
      BY <2>1
    <3>2. Now(c)' = Nowhere
      <4>1. cfp[c] = NoStream
        BY <3>1 DEF Join, Types, ConnTypes
      <4> QED
        BY <1>3, <4>1 DEF Now, NoStream, Stream
    <3>3. Finally(c)' = Nowhere
      BY <2>1, <3>2 DEF Finally, At
    <3>4. vty # Prompt => c \in late'
      BY <3>1 DEF Join
    <3> QED
      BY <1>2, <2>1, <3>2, <3>3, <3>4 DEF Served, Prompt, Nowhere
  <2> QED
    BY <1>3, <2>3, <2>4, <2>5 DEF Mine
<1> QED
  BY <1>4, <1>5, <1>6

\* The client's handlers.
LEMMA ClientMine ==
  ASSUME Types, NEW d \in Clients, Mine(d),
         ClientOpen(d) \/ ClientData(d) \/ ClientEnd(d) \/ ClientGet(d) \/ ClientIgnores(d),
         NEW c \in Clients, Mine(c)
  PROVE  Mine(c)'
<1> DEFINE f == Head(down[d])
<1> HIDE DEF f
<1>0. f = Head(down[d])
  BY DEF f
<1>1. UNCHANGED <<operator, server, failed, crashed, conns>>
  BY DEF ClientOpen, ClientData, ClientEnd, ClientGet, ClientIgnores, client
<1>2. PICK comm, sub : Takes(d, comm, sub)
  BY Zenon DEF ClientOpen, ClientData, ClientEnd, ClientGet, ClientIgnores
<1>3. /\ down[d] # <<>> /\ down'[d] = Tail(down[d]) /\ f \in Frames
      /\ \A e \in Clients \ {d} : down'[e] = down[e]
      /\ f.comm = comm /\ f.sub = sub
  BY <1>0, <1>2, TakesIs DEF Types
<1>4. size' = size /\ vty' = vty /\ fp' = fp /\ listed' = listed /\ late' = late
  BY <1>1 DEF operator, server, conns
<1>5. CASE c # d
  <2>1. CopiesKept(c)
    <3>1. /\ cfp \in [Clients -> Streams] /\ cbytes \in [Clients -> 0 .. MaxBlocks]
          /\ disk \in [Clients -> Copies]
      BY DEF Types, FileTypes
    <3>2. cfp'[c] = cfp[c]
      BY <1>5, <3>1
         DEF ClientOpen, ClientData, ClientEnd, ClientGet, ClientIgnores, client
    <3>3. cbytes'[c] = cbytes[c]
      BY <1>5, <3>1
         DEF ClientOpen, ClientData, ClientEnd, ClientGet, ClientIgnores, client
    <3>4. disk'[c] = disk[c]
      BY <1>5, <3>1
         DEF ClientOpen, ClientData, ClientEnd, ClientGet, ClientIgnores, client
    <3>5. acked' = acked \/ \E k : acked' = acked \cup {<<"SEND", d, k>>}
      BY DEF ClientOpen, ClientData, ClientEnd, ClientGet, ClientIgnores
    <3>6. \A k, l : <<"SEND", c, k>> # <<"SEND", d, l>>
      BY <1>5
    <3> QED
      BY <3>2, <3>3, <3>4, <3>5, <3>6 DEF CopiesKept
  <2> QED
    BY <1>3, <1>4, <1>5, <2>1, Elsewhere
<1>6. ASSUME Now(d)' = After(f), Writing(d)',
             \A k \in 1 .. MaxCommands : <<"SEND", d, k>> \in acked' =>
                 /\ <<"SEND", d, k>> \in acked \/ k = f.k
                 /\ Sent(d, k)' /\ (cfp'[d].mode = "w" => k # cfp'[d].k)
      PROVE  Mine(d)'
  <2>1. Incoming(d)' /\ SendAcks(d)' /\ Finally(d)' = Finally(d)
    BY <1>0, <1>3, <1>4, <1>6, FrameTaken DEF Mine
  <2>2. Served(d)'
    BY <1>3, <1>4, <2>1 DEF Mine, Served, Nowhere, Prompt
  <2> QED
    BY <1>6, <2>1, <2>2 DEF Mine
<1>7. /\ f.k \in 1 .. Last /\ f.k \in 1 .. MaxCommands
      /\ f.comm = "SEND" /\ f.sub = "OPEN" => After(f) = <<f.k, 0>>
      /\ f.comm = "SEND" /\ f.sub = "DATA" =>
             /\ f.n \in 1 .. size[f.k] /\ After(f) = <<f.k, f.n>>
             /\ cfp[d].mode = "w" => f.k = cfp[d].k /\ f.n = cbytes[d] + 1
      /\ f.comm = "SEND" /\ f.sub = "END" =>
             /\ After(f) = Nowhere
             /\ cfp[d].mode = "w" => f.k = cfp[d].k /\ cbytes[d] = size[f.k]
      /\ f.comm = "GET" => Now(d) = Nowhere /\ cfp[d].mode # "w" /\ After(f) = Nowhere
  <2>1. f.k \in 1 .. MaxCommands
    BY <1>3 DEF Frames
  <2>2. Incoming(d) /\ Writing(d)
    BY DEF Mine
  <2> QED
    BY <1>0, <1>3, <2>1, <2>2, HeadFits, Zenon
<1>8. /\ cfp \in [Clients -> Streams] /\ cbytes \in [Clients -> 0 .. MaxBlocks]
      /\ disk \in [Clients -> Copies] /\ DOMAIN size = 1 .. Last /\ size \in Seq(Nat)
  <2>1. Grown
    BY <1>4 DEF Grown
  <2>2. size \in Seq(Nat)
    BY <2>1, GrownIs
  <2>3. DOMAIN size = 1 .. Last
    BY <2>2 DEF Last
  <2> QED
    BY <2>2, <2>3 DEF Types, FileTypes
<1>9. \A k : k \in 1 .. Last => size[k] \in Nat
  BY <1>8, ElementOfSeq DEF Last
<1>10. \A k \in 1 .. MaxCommands : <<"SEND", d, k>> \in acked =>
           Sent(d, k) /\ (cfp[d].mode = "w" => k # cfp[d].k)
  BY DEF Mine, SendAcks
<1>11. \A k \in 1 .. MaxCommands : Sent(d, k) /\ disk'[d][k] = disk[d][k] => Sent(d, k)'
  BY <1>4 DEF Sent, File
<1>12. CASE ClientOpen(d)
  <2>1. cfp' = [cfp EXCEPT ![d] = Stream(f.k, "w")] /\ disk' = [disk EXCEPT ![d][f.k] = <<>>]
        /\ cbytes' = [cbytes EXCEPT ![d] = 0] /\ UNCHANGED <<up, acked>>
        /\ f.comm = "SEND" /\ f.sub = "OPEN"
    BY <1>12 DEF ClientOpen, Takes, IsNext, f
  <2>2. cfp'[d].mode = "w" /\ cfp'[d].k = f.k /\ cbytes'[d] = 0
    BY <1>8, <2>1 DEF Stream
  <2>3. disk'[d][f.k] = <<>> /\ \A k \in 1 .. MaxCommands : k # f.k => disk'[d][k] = disk[d][k]
    BY <1>7, <1>8, <2>1 DEF Copies
  <2>4. Now(d)' = After(f)
    BY <1>7, <2>1, <2>2 DEF Now
  <2>5. Writing(d)'
    <3>1. Part(f.k, 0) = <<>>
      BY PartGrows
    <3>2. 0 \in 0 .. size[f.k]
      BY <1>7, <1>9
    <3> QED
      BY <1>4, <1>7, <2>2, <2>3, <3>1, <3>2 DEF Writing, Last, Part, Block
  <2>6. \A k \in 1 .. MaxCommands : <<"SEND", d, k>> \in acked => k < f.k
    <3>1. down[d] \in Seq(Frames)
      BY DEF Types, ChannelTypes
    <3>2. 1 \in 1 .. Len(down[d]) /\ down[d][1] = f
      BY <1>0, <1>3, <3>1
    <3> QED
      BY <2>1, <3>2 DEF Mine, SendAcks
  <2>7. \A k \in 1 .. MaxCommands : <<"SEND", d, k>> \in acked => k # f.k
    BY <1>7, <2>6
  <2>8. \A k \in 1 .. MaxCommands : <<"SEND", d, k>> \in acked' =>
            /\ <<"SEND", d, k>> \in acked
            /\ Sent(d, k)' /\ (cfp'[d].mode = "w" => k # cfp'[d].k)
    BY <1>10, <1>11, <2>1, <2>2, <2>3, <2>7
  <2> QED
    BY <1>5, <1>6, <2>4, <2>5, <2>8
<1>13. CASE ClientData(d)
  <2>1. cfp[d].mode = "w" /\ f.comm = "SEND" /\ f.sub = "DATA"
        /\ disk' = [disk EXCEPT ![d][cfp[d].k] = Append(@, Block(f.k, f.n))]
        /\ cbytes' = [cbytes EXCEPT ![d] = @ + 1] /\ UNCHANGED <<up, acked, cfp>>
    BY <1>13 DEF ClientData, Takes, IsNext, f
  <2>2. f.n \in 1 .. size[f.k] /\ f.k = cfp[d].k /\ f.n = cbytes[d] + 1 /\ After(f) = <<f.k, f.n>>
    BY <1>7, <2>1
  <2>3. PICK n \in Nat : n = cbytes[d] /\ f.n = n + 1
    BY <1>8, <2>2
  <2>4. disk[d][f.k] = Part(f.k, n)
    BY <2>1, <2>2, <2>3 DEF Mine, Writing
  <2>5. disk'[d][f.k] = Append(disk[d][f.k], Block(f.k, f.n))
        /\ \A k \in 1 .. MaxCommands : k # f.k => disk'[d][k] = disk[d][k]
    BY <1>7, <1>8, <2>1, <2>2 DEF Copies
  <2>6. disk'[d][f.k] = Part(f.k, f.n)
    BY <2>3, <2>4, <2>5, PartGrows
  <2>7. cbytes'[d] = f.n /\ cfp'[d] = cfp[d]
    BY <1>8, <2>1, <2>2
  <2>8. Now(d)' = After(f)
    BY <2>1, <2>2, <2>7 DEF Now
  <2>9. Writing(d)'
    <3>1. f.n \in 0 .. size[f.k]
      BY <2>2, <2>3
    <3> QED
      BY <1>4, <1>7, <2>1, <2>2, <2>6, <2>7, <3>1 DEF Writing, Last, Part, Block
  <2>10. \A k \in 1 .. MaxCommands : <<"SEND", d, k>> \in acked' =>
            /\ <<"SEND", d, k>> \in acked
            /\ Sent(d, k)' /\ (cfp'[d].mode = "w" => k # cfp'[d].k)
    BY <1>10, <1>11, <2>1, <2>2, <2>5, <2>7
  <2> QED
    BY <1>5, <1>6, <2>8, <2>9, <2>10
<1>14. CASE ClientEnd(d) \/ ClientGet(d) \/ ClientIgnores(d)
  <2>1. /\ cfp'[d].mode # "w" /\ disk' = disk /\ After(f) = Nowhere
        /\ \A k \in 1 .. MaxCommands : <<"SEND", d, k>> \in acked' =>
               \/ <<"SEND", d, k>> \in acked
               \/ k = f.k /\ f.k = cfp[d].k /\ cbytes[d] = size[f.k] /\ cfp[d].mode = "w"
    <3>1. CASE ClientEnd(d)
      <4>1. /\ cfp' = [cfp EXCEPT ![d] = Closed(cfp[d])] /\ disk' = disk /\ cfp[d].mode = "w"
            /\ f.comm = "SEND" /\ f.sub = "END"
            /\ acked' = acked \cup {<<"SEND", d, f.k>>} \/ acked' = acked
        BY <3>1 DEF ClientEnd, Takes, IsNext, f
      <4>2. cfp'[d].mode = "closed"
        BY <1>8, <4>1 DEF Closed, Streams
      <4>3. \A k \in 1 .. MaxCommands :
                <<"SEND", d, k>> \in acked' => <<"SEND", d, k>> \in acked \/ k = f.k
        BY <4>1
      <4> QED
        BY <1>7, <4>1, <4>2, <4>3
    <3>2. CASE ClientGet(d)
      <4>1. cfp' = [cfp EXCEPT ![d] = Closed(Stream(f.k, "r"))] /\ UNCHANGED <<disk, acked>>
            /\ f.comm = "GET"
        BY <3>2 DEF ClientGet, Takes, IsNext, f
      <4>2. cfp'[d].mode = "closed"
        BY <1>8, <4>1 DEF Closed, Stream
      <4> QED
        BY <1>7, <4>1, <4>2
    <3>3. CASE ClientIgnores(d)
      <4>1. UNCHANGED <<cfp, disk, acked>> /\ f.comm = "GET"
        BY <3>3 DEF ClientIgnores, Takes, IsNext, f, client
      <4> QED
        BY <1>7, <4>1
    <3> QED
      BY <1>14, <3>1, <3>2, <3>3
  <2>2. Now(d)' = After(f)
    BY <2>1 DEF Now, Nowhere
  <2>3. Writing(d)'
    BY <2>1 DEF Writing
  <2>4. ASSUME f.k = cfp[d].k, cbytes[d] = size[f.k], cfp[d].mode = "w" PROVE Sent(d, f.k)
    <3>1. disk[d][f.k] = Part(f.k, size[f.k])
      BY <2>4 DEF Mine, Writing
    <3> QED
      BY <1>7, <1>8, <3>1 DEF Sent, Part, File
  <2>5. \A k \in 1 .. MaxCommands : <<"SEND", d, k>> \in acked' =>
            /\ <<"SEND", d, k>> \in acked \/ k = f.k
            /\ Sent(d, k)' /\ (cfp'[d].mode = "w" => k # cfp'[d].k)
    BY <1>10, <1>11, <2>1, <2>4
  <2> QED
    BY <1>5, <1>6, <2>2, <2>3, <2>5
<1> QED
  BY <1>12, <1>13, <1>14

\* The server's handlers: only the answer GET_SUCCESS comes to a client.
LEMMA ServerMine ==
  ASSUME Types, NEW d \in Clients, Outgoing(d), Getting(d), Server(d), NEW c \in Clients, Mine(c)
  PROVE  Mine(c)'
<1>1. UNCHANGED <<operator, client, conns>>
  BY DEF Server, ServerOpen, ServerData, ServerDataShort, ServerEnd, ServerIgnores
<1>2. size' = size /\ vty' = vty /\ listed' = listed /\ (c \in late' <=> c \in late) /\ Grown
  BY <1>1 DEF operator, conns, Grown
<1>3. ASSUME NEW sub, ServerTakes(d, "GET", sub) PROVE vty = Prompt /\ Head(up[d]).k \in 1 .. Last
  <2>1. up[d] # <<>> /\ Head(up[d]).comm = "GET"
    BY <1>3, ServerTakesIs DEF Types
  <2>2. vty = Prompt
    BY <2>1, HeadIsAnswer DEF Getting, Busy
  <2>3. Last > 0 /\ Head(up[d]).k = Last /\ Last \in 1 .. MaxCommands
    BY <2>1, HeadAnswers
  <2> QED
    BY <2>2, <2>3
<1>4. vty # Prompt => fp' = fp
  BY <1>3 DEF Server, ServerOpen, ServerData, ServerDataShort, ServerEnd, ServerIgnores, server
<1>5. CopiesKept(c)
  <2>1. \A k \in 1 .. MaxCommands : <<"SEND", c, k>> \in acked' => <<"SEND", c, k>> \in acked
    <3>1. acked' = acked \/ \E k : acked' = acked \cup {<<"GET", d, k>>}
      BY DEF Server, ServerOpen, ServerData, ServerDataShort, ServerEnd, ServerIgnores
    <3>2. \A k, l : <<"SEND", c, k>> # <<"GET", d, l>>
      OBVIOUS
    <3> QED
      BY <3>1, <3>2
  <2> QED
    BY <1>1, <2>1 DEF CopiesKept, client
<1>6. CASE down'[c] = down[c]
  BY <1>2, <1>4, <1>5, <1>6, Elsewhere
<1>7. CASE down'[c] # down[c]
  <2>1. ServerEnd(d)
    BY <1>7 DEF Server, ServerOpen, ServerData, ServerDataShort, ServerEnd, ServerIgnores
  <2> DEFINE f == Frame("GET", "SUCCESS", Head(up[d]).k, 0)
  <2>2. ServerTakes(d, "GET", "END") /\ (Broadcast({d}, f) \/ down' = down)
    BY <2>1 DEF ServerEnd
  <2>3. vty = Prompt /\ Head(up[d]).k \in 1 .. Last
    BY <1>3, <2>2
  <2>4. f \in Frames /\ f.comm = "GET" /\ f.sub = "SUCCESS" /\ f.k \in 1 .. Last
    <3>1. Head(up[d]) \in Frames
      BY <2>2, ServerTakesIs DEF Types
    <3> QED
      BY <2>3, <3>1 DEF Frame, Frames
  <2> HIDE DEF f
  <2>5. c = d /\ down'[c] = Append(down[c], f) /\ c \in listed
    <3>1. Broadcast({d}, f)
      BY <1>7, <2>2
    <3>2. down'[c] = IF c \in {d} THEN Append(down[c], f) ELSE down[c]
      BY <2>4, <3>1, BroadcastIs DEF Types
    <3>3. d \in listed
      BY <2>2 DEF ServerTakes
    <3> QED
      BY <1>7, <3>2, <3>3
  <2>6. Finally(c) = Nowhere
    BY <2>3, <2>5 DEF Mine, Served
  <2>7. Fits(f, Finally(c), c \in late /\ down[c] = <<>>, size')
    <3>1. f.sub \in {"CLIENT", "SUCCESS"}
      BY <2>4
    <3> QED
      BY <1>2, <2>4, <2>6, <3>1, Zenon DEF Fits, Last
  <2>8. Incoming(c)' /\ Writing(c)' /\ SendAcks(c)' /\ Finally(c)' = After(f)
    BY <1>2, <1>5, <2>4, <2>5, <2>7, FrameComes DEF Mine
  <2>9. After(f) = Nowhere
    BY <2>4 DEF After
  <2>10. Served(c)'
    BY <1>2, <2>3, <2>8, <2>9 DEF Served, Prompt, Nowhere
  <2> QED
    BY <2>8, <2>10 DEF Mine
<1> QED
  BY <1>6, <1>7

-----------------------------------------------------------------------------
(* The way from a client, and the one get *)

Ours(c) == Outgoing(c) /\ Getting(c)

\* Answer of the next state, in terms of the primed variables.
LEMMA OutgoingNext ==
  ASSUME NEW c \in Clients, NEW g \in 0 .. Len(up'[c]), Reply(up'[c], g, Last', size'[Last']),
         g > 0 => /\ Last' > 0 /\ g <= size'[Last'] + 2
                  /\ g < size'[Last'] + 2 =>
                         /\ Len(up'[c]) = g /\ fp' = Stream(Last', "w")
                         /\ fsize' = size'[Last'] + 1 - g /\ sdisk'[Last'] = Part(Last', fsize')
  PROVE  Outgoing(c)'
<1>1. Reply(up[c], g, Last, size[Last])'
  BY DEF Reply, GetFrame, Frame
<1>2. Answer(up[c], g)'
  BY <1>1 DEF Answer, Part, Block, Stream
<1> QED
  BY <1>2 DEF Outgoing

\* A client that answers nothing.
LEMMA NoAnswer ==
  ASSUME NEW c \in Clients, Types, Outgoing(c), ~ Answering(c), up'[c] = up[c]
  PROVE  Outgoing(c)' /\ ~ Answering(c)'
<1>1. PICK g \in 0 .. Len(up[c]) : Answer(up[c], g)
  BY DEF Outgoing
<1>2. Last \in Nat /\ up[c] \in Seq(Frames)
  BY DEF Types, ChannelTypes, OperatorTypes, Last
<1>3. g = 0
  <2>1. g > 0 => size[Last] \in Nat
    <3>1. g > 0 => Last \in 1 .. Last
      BY <1>1, <1>2 DEF Answer
    <3>2. size \in Seq(0 .. MaxBlocks)
      BY DEF Types, OperatorTypes
    <3>3. g > 0 => size[Last] \in 0 .. MaxBlocks
      BY <3>1, <3>2, ElementOfSeq DEF Last
    <3> QED
      BY <3>3
  <2>2. g > 0 => Reply(up[c], g, Last, size[Last])
    BY <1>1 DEF Answer
  <2>3. g > 0 => Answering(c)
    BY <1>2, <2>1, <2>2, ReplyGets DEF Answering
  <2> QED
    BY <1>1, <2>3
<1>4. Reply(up[c], 0, Last, size[Last])
  BY <1>1, <1>3 DEF Answer
<1>5. \A l, m : Reply(up[c], 0, l, m)
  BY <1>2, <1>4, ReplyNone
<1>6. Outgoing(c)'
  <2>1. 0 \in 0 .. Len(up'[c])
    BY <1>2
  <2>2. Reply(up'[c], 0, Last', size'[Last'])
    BY <1>5
  <2> QED
    BY <2>1, <2>2 DEF Outgoing, Answer, Reply, GetFrame, Frame
<1> QED
  BY <1>6 DEF Answering

\* A client that has SEND_SUCCESS on its way only.
LEMMA OnlySuccess ==
  ASSUME NEW c \in Clients, Types, Outgoing(c), ~ Answering(c),
         NEW f \in Frames, f.comm = "SEND", f.sub = "SUCCESS", up'[c] = Append(up[c], f)
  PROVE  Outgoing(c)' /\ ~ Answering(c)'
<1>1. up[c] \in Seq(Frames)
  BY DEF Types, ChannelTypes
<1>2. \A i \in 1 .. Len(up[c]) : up[c][i].comm # "GET"
  BY DEF Answering
<1>3. PICK g \in 0 .. Len(up[c]) : Answer(up[c], g)
  BY DEF Outgoing
<1>4. \A i \in 1 .. Len(up[c]) : up[c][i].comm = "SEND" /\ up[c][i].sub = "SUCCESS"
  <2>1. \A i \in 1 .. Len(up[c]) :
            \/ up[c][i] = GetFrame(Last, size[Last], i - Len(up[c]) + size[Last] + 2)
            \/ up[c][i].comm = "SEND" /\ up[c][i].sub = "SUCCESS"
    BY <1>3 DEF Answer, Reply
  <2>2. \A k, n, j : GetFrame(k, n, j).comm = "GET"
    BY DEF GetFrame, Frame
  <2> QED
    BY <1>2, <2>1, <2>2
<1>5. \A i \in 1 .. Len(Append(up[c], f)) :
          Append(up[c], f)[i].comm = "SEND" /\ Append(up[c], f)[i].sub = "SUCCESS"
  BY <1>1, <1>4
<1>6. \A i \in 1 .. Len(up'[c]) :
          ~ (i > Len(up'[c]) - 0) /\ up'[c][i].comm = "SEND" /\ up'[c][i].sub = "SUCCESS"
  <2>1. Len(Append(up[c], f)) \in Nat
    BY <1>1
  <2> QED
    BY <1>5, <2>1
<1>7. 0 \in 0 .. Len(up'[c])
  BY <1>1
<1>8. Outgoing(c)'
  BY <1>6, <1>7 DEF Outgoing, Answer, Reply
<1> QED
  BY <1>6, <1>8 DEF Answering

\* The answer on its way, and the server's copy, stay as they are.
LEMMA AnswerKept ==
  ASSUME NEW c \in Clients, Types, Outgoing(c), up'[c] = up[c], size' = size,
         Answering(c) => fp' = fp /\ fsize' = fsize /\ sdisk' = sdisk
  PROVE  Outgoing(c)' /\ (Answering(c)' <=> Answering(c))
<1>1. CASE Answering(c)
  <2>1. Outgoing(c)'
    BY <1>1 DEF Outgoing, Answer, Last, Reply, GetFrame, Frame, Part, Block, Stream
  <2> QED
    BY <2>1 DEF Answering
<1>2. CASE ~ Answering(c)
  BY <1>2, NoAnswer
<1> QED
  BY <1>1, <1>2

\* The server takes a SEND_SUCCESS.
LEMMA SuccessTaken ==
  ASSUME NEW c \in Clients, Types, Outgoing(c), up[c] # <<>>, Head(up[c]).comm = "SEND",
         up'[c] = Tail(up[c]), size' = size, fp' = fp, fsize' = fsize, sdisk' = sdisk
  PROVE  Outgoing(c)' /\ (Answering(c)' => Answering(c))
<1>1. PICK g \in 0 .. Len(up[c]) : Answer(up[c], g)
  BY DEF Outgoing
<1>2. up[c] \in Seq(Frames) /\ Len(up[c]) \in Nat \ {0} /\ Head(up[c]) = up[c][1]
      /\ Len(Tail(up[c])) = Len(up[c]) - 1
      /\ \A i \in 1 .. Len(Tail(up[c])) : Tail(up[c])[i] = up[c][i + 1]
  BY DEF Types, ChannelTypes
<1>3. g # Len(up[c])
  <2>1. ASSUME g = Len(up[c]) PROVE FALSE
    <3>1. 1 \in 1 .. Len(up[c]) /\ 1 > Len(up[c]) - g
      BY <1>2, <2>1
    <3>2. up[c][1] = GetFrame(Last, size[Last], 1 - Len(up[c]) + size[Last] + 2)
      BY <1>1, <3>1 DEF Answer, Reply
    <3> QED
      BY <1>2, <3>2 DEF GetFrame, Frame
  <2> QED
    BY <2>1
<1>4. CASE g = 0
  <2>1. \A i \in 1 .. Len(up[c]) : up[c][i].comm = "SEND" /\ up[c][i].sub = "SUCCESS"
    <3>1. \A i \in 1 .. Len(up[c]) : ~ (i > Len(up[c]) - 0)
      BY <1>2
    <3> QED
      BY <1>1, <1>4, <3>1 DEF Answer, Reply
  <2>2. \A i \in 1 .. Len(up'[c]) :
            ~ (i > Len(up'[c]) - 0) /\ up'[c][i].comm = "SEND" /\ up'[c][i].sub = "SUCCESS"
    <3>1. \A i \in 1 .. Len(Tail(up[c])) : i + 1 \in 1 .. Len(up[c])
      BY <1>2
    <3> QED
      BY <1>2, <2>1, <3>1
  <2>3. 0 \in 0 .. Len(up'[c])
    BY <1>2
  <2>4. Outgoing(c)'
    <3>1. Reply(up'[c], 0, Last', size'[Last'])
      BY <2>2 DEF Reply
    <3> QED
      BY <2>3, <3>1, OutgoingNext
  <2> QED
    BY <2>2, <2>4 DEF Answering
<1>5. CASE g > 0
  <2>1. size[Last] \in Nat
    <3>1. size \in Seq(0 .. MaxBlocks)
      BY DEF Types, OperatorTypes
    <3>2. Last \in 1 .. Last
      BY <1>1, <1>5, <3>1 DEF Answer, Last
    <3>3. size[Last] \in 0 .. MaxBlocks
      BY <3>1, <3>2, ElementOfSeq DEF Last
    <3> QED
      BY <3>3
  <2>2. Reply(up[c], g, Last, size[Last]) /\ g = size[Last] + 2 /\ Last > 0
    BY <1>1, <1>2, <1>3, <1>5, <2>1 DEF Answer
  <2>3. g \in 0 .. Len(Tail(up[c])) /\ Reply(Tail(up[c]), g, Last, size[Last])
    BY <1>2, <1>3, <2>1, <2>2, ReplyTail
  <2>4. Last' = Last /\ size'[Last'] = size[Last]
    BY DEF Last
  <2>5. Outgoing(c)'
    <3>1. g \in 0 .. Len(up'[c]) /\ Reply(up'[c], g, Last', size'[Last'])
      BY <2>3, <2>4
    <3>2. Last' > 0 /\ g <= size'[Last'] + 2 /\ ~ (g < size'[Last'] + 2)
      BY <2>1, <2>2, <2>4
    <3> QED
      BY <3>1, <3>2, OutgoingNext
  <2>6. Answering(c)
    BY <1>2, <1>5, <2>1, <2>2, ReplyGets DEF Answering
  <2> QED
    BY <2>5, <2>6
<1> QED
  BY <1>1, <1>4, <1>5

\* Where the request of a get may be in the channel of client c.
Request(c) ==
    \A i \in 1 .. Len(down[c]) :
        down[c][i].sub = "CLIENT" => i = Len(down[c]) /\ down[c][i].k = Last

\* A client that takes a frame: the request of a get is the last one.
LEMMA RequestAfterTail ==
  ASSUME Types, NEW c \in Clients, Request(c), size' = size, down[c] # <<>>,
         down'[c] = Tail(down[c])
  PROVE  /\ Request(c)' /\ (Asked(c)' => Asked(c))
         /\ Head(down[c]).sub = "CLIENT" =>
                Asked(c) /\ down'[c] = <<>> /\ ~ Asked(c)' /\ Head(down[c]).k = Last
<1>1. down[c] \in Seq(Frames) /\ Len(down[c]) \in Nat \ {0} /\ Head(down[c]) = down[c][1]
      /\ Len(Tail(down[c])) = Len(down[c]) - 1
      /\ \A i \in 1 .. Len(Tail(down[c])) : Tail(down[c])[i] = down[c][i + 1]
  BY DEF Types, ChannelTypes
<1>2. \A i \in 1 .. Len(Tail(down[c])) : i + 1 \in 1 .. Len(down[c])
                                         /\ (i + 1 = Len(down[c]) <=> i = Len(Tail(down[c])))
  BY <1>1
<1>3. Last' = Last
  BY DEF Last
<1>4. Request(c)'
  BY <1>1, <1>2, <1>3 DEF Request
<1>5. Asked(c)' => Asked(c)
  BY <1>1, <1>2 DEF Asked
<1>6. ASSUME Head(down[c]).sub = "CLIENT"
      PROVE  Asked(c) /\ down'[c] = <<>> /\ ~ Asked(c)' /\ Head(down[c]).k = Last
  <2>1. 1 \in 1 .. Len(down[c]) /\ down[c][1].sub = "CLIENT"
    BY <1>1, <1>6
  <2>2. Len(down[c]) = 1 /\ down[c][1].k = Last
    BY <2>1 DEF Request
  <2>3. Tail(down[c]) = <<>>
    <3>1. Tail(down[c]) \in Seq(Frames) /\ Len(Tail(down[c])) = 0
      BY <1>1, <2>2
    <3> QED
      BY <3>1, EmptySeq
  <2>4. \A i \in 1 .. Len(down'[c]) : FALSE
    BY <1>1, <2>2
  <2> QED
    BY <1>1, <2>1, <2>2, <2>3, <2>4 DEF Asked
<1> QED
  BY <1>4, <1>5, <1>6

\* A frame that is no request.
LEMMA NoRequestSent ==
  ASSUME Types, NEW c \in Clients, ~ Asked(c), NEW f \in Frames, f.sub # "CLIENT",
         down'[c] = Append(down[c], f)
  PROVE  ~ Asked(c)' /\ Request(c)'
<1>1. down[c] \in Seq(Frames)
  BY DEF Types, ChannelTypes
<1>2. \A i \in 1 .. Len(Append(down[c], f)) :
          Append(down[c], f)[i] = f
          \/ (i \in 1 .. Len(down[c]) /\ Append(down[c], f)[i] = down[c][i])
  BY <1>1
<1>3. \A i \in 1 .. Len(down'[c]) : down'[c][i].sub # "CLIENT"
  BY <1>2 DEF Asked
<1> QED
  BY <1>3 DEF Asked, Request

\* A channel that is unchanged, or lost with its connection.
LEMMA RequestKept ==
  ASSUME NEW c \in Clients, Request(c), size' = size, down'[c] = down[c] \/ down'[c] = <<>>
  PROVE  Request(c)' /\ (Asked(c)' => Asked(c))
<1>1. \A i \in 1 .. Len(<<>>) : FALSE
  OBVIOUS
<1>2. Last' = Last
  BY DEF Last
<1>3. CASE down'[c] = down[c]
  BY <1>2, <1>3 DEF Request, Asked
<1>4. CASE down'[c] = <<>>
  BY <1>1, <1>4, Zenon DEF Request, Asked
<1> QED
  BY <1>3, <1>4

\* No get begins, and none that is confirmed is written again.
LEMMA GettingKept ==
  ASSUME Types, NEW c \in Clients, Getting(c), size' = size,
         \A d \in Clients : Busy(d)' => Busy(d), vty = Prompt => vty' = Prompt,
         Answering(c)' => down'[c] = <<>>, Request(c)',
         \A k \in 1 .. MaxCommands : <<"GET", c, k>> \in acked' => <<"GET", c, k>> \in acked,
         \A k \in 1 .. MaxCommands : sdisk'[k] # sdisk[k] => k = Last /\ \E d \in Clients : Busy(d)
  PROVE  Getting(c)'
<1>1. Last' = Last
  BY DEF Last
<1>2. Busy(c)' => vty' = Prompt /\ \A d \in Clients : Busy(d)' => c = d
  BY DEF Getting
<1>3. ASSUME NEW k \in 1 .. MaxCommands, <<"GET", c, k>> \in acked'
      PROVE  Got(k)' /\ (k = Last => \A d \in Clients : ~ Busy(d)')
  <2>1. Got(k) /\ (k = Last => \A d \in Clients : ~ Busy(d))
    BY <1>3 DEF Getting
  <2>2. sdisk'[k] = sdisk[k]
    BY <2>1
  <2>3. Got(k)'
    BY <2>1, <2>2 DEF Got, File
  <2> QED
    BY <2>1, <2>3
<1> QED
  BY <1>1, <1>2, <1>3 DEF Getting, Request, Prompt

\* What the patient operator waits for.
LEMMA QuietIs ==
  ASSUME Types, Quiet, \A c \in Clients : Incoming(c), NEW d \in Clients
  PROVE  ~ Busy(d)
<1>1. down[d] \in Seq(Frames) /\ up[d] \in Seq(Frames)
  BY DEF Types, ChannelTypes
<1>2. DOMAIN down[d] = 1 .. Len(down[d]) /\ DOMAIN up[d] = 1 .. Len(up[d])
  BY <1>1
<1>3. ~ Answering(d)
  BY <1>2 DEF Quiet, Answering
<1>4. ASSUME NEW i \in 1 .. Len(down[d]), down[d][i].sub = "CLIENT" PROVE FALSE
  <2>1. Chain(down[d], Now(d), d \in late, size)
    BY DEF Incoming
  <2>2. Fits(down[d][i], At(down[d], Now(d), i - 1), d \in late /\ i = 1, size)
    BY <2>1, Zenon DEF Chain
  <2>3. down[d][i].comm = "GET"
    BY <1>4, <2>2 DEF Fits
  <2> QED
    BY <1>2, <1>4, <2>3 DEF Quiet
<1> QED
  BY <1>3, <1>4 DEF Busy, Asked

\* The commands: no get is on its way, and the confirmed ones are of commands before.
LEMMA CommandOurs ==
  ASSUME Types, Patient, \A d \in Clients : Incoming(d) /\ Ours(d),
         NEW n \in 0 .. MaxBlocks, NewCommand(n), NEW f \in Frames, NEW to \in SUBSET listed,
         Broadcast(to, f), f.k = Last + 1, UNCHANGED <<sdisk, up, acked>>,
         f.sub # "CLIENT" \/ (vty' = Prompt /\ \E d \in Clients : to = {d}),
         NEW c \in Clients
  PROVE  Ours(c)'
<1>1. \A d \in Clients : ~ Busy(d) /\ ~ Asked(d) /\ ~ Answering(d)
  BY QuietIs DEF NewCommand, Busy
<1>2. \A d \in Clients : Outgoing(d)' /\ ~ Answering(d)'
  BY <1>1, NoAnswer DEF Ours
<1>3. /\ Last \in Nat /\ Last' = Last + 1 /\ size' \in Seq(0 .. MaxBlocks) /\ size \in Seq(Nat)
      /\ \A k \in 1 .. Last : size'[k] = size[k]
  BY CommandTypes DEF Last
<1>4. \A d \in Clients : down'[d] = IF d \in to THEN Append(down[d], f) ELSE down[d]
  BY BroadcastIs DEF Types
<1>5. ASSUME NEW d \in Clients, f.sub # "CLIENT" \/ d \notin to
      PROVE  ~ Asked(d)'
  <2>1. CASE d \in to
    BY <1>1, <1>4, <1>5, <2>1, NoRequestSent
  <2>2. CASE d \notin to
    BY <1>1, <1>4, <2>2 DEF Asked
  <2> QED
    BY <2>1, <2>2
<1>6. Busy(c)' => vty' = Prompt /\ \A d \in Clients : Busy(d)' => c = d
  BY <1>2, <1>5 DEF Busy
<1>7. \A i \in 1 .. Len(down'[c]) : down'[c][i].sub = "CLIENT" =>
                                        i = Len(down'[c]) /\ down'[c][i].k = Last'
  <2>1. CASE f.sub # "CLIENT" \/ c \notin to
    BY <1>5, <2>1 DEF Asked
  <2>2. CASE f.sub = "CLIENT" /\ c \in to
    <3>1. down'[c] = Append(down[c], f)
      BY <1>4, <2>2
    <3>2. down[c] \in Seq(Frames)
      BY DEF Types, ChannelTypes
    <3>3. Len(down'[c]) = Len(down[c]) + 1 /\ down'[c][Len(down[c]) + 1] = f
          /\ \A i \in 1 .. Len(down'[c]) : i = Len(down[c]) + 1
                 \/ (i \in 1 .. Len(down[c]) /\ down'[c][i] = down[c][i])
      BY <3>1, <3>2
    <3>4. \A i \in 1 .. Len(down[c]) : down[c][i].sub # "CLIENT"
      BY <1>1 DEF Asked
    <3> QED
      BY <1>3, <3>3, <3>4
  <2> QED
    BY <2>1, <2>2
<1>8. ASSUME NEW k \in 1 .. MaxCommands, <<"GET", c, k>> \in acked'
      PROVE  Got(k)' /\ k # Last'
  <2>1. Got(k)
    BY <1>8 DEF Ours, Getting
  <2>2. k \in 1 .. Last /\ DOMAIN size = 1 .. Last /\ DOMAIN size' = 1 .. Last'
    BY <1>3, <2>1 DEF Got, Last
  <2>3. sdisk'[k] = [i \in 1 .. size'[k] |-> Block(k, i)] /\ k \in DOMAIN size'
    BY <1>3, <2>1, <2>2 DEF Got, File
  <2>4. k # Last'
    BY <1>3, <2>2
  <2> QED
    BY <2>3, <2>4 DEF Got, File, Block
<1>9. Getting(c)'
  BY <1>2, <1>6, <1>7, <1>8 DEF Getting, Prompt
<1> QED
  BY <1>2, <1>9 DEF Ours

\* send_netmt goes on: no get is under way, and none begins.
LEMMA SendOurs ==
  ASSUME Types, SendOn, \A d \in Clients : Ours(d), NEW c \in Clients
  PROVE  Ours(c)'
<1>1. vty # Prompt /\ UNCHANGED <<size, fsize, sdisk, up, acked>>
  BY DEF SendOn, SendBlock, SendEnd
<1>2. \A d \in Clients : ~ Busy(d) /\ ~ Asked(d) /\ ~ Answering(d)
  BY <1>1 DEF Ours, Getting, Busy
<1>3. \A d \in Clients : Outgoing(d)' /\ ~ Answering(d)'
  BY <1>1, <1>2, NoAnswer DEF Ours
<1>4. \A d \in Clients : ~ Asked(d)' /\ Request(d)'
  <2>1. PICK f \in Frames : f.sub # "CLIENT" /\ Broadcast(vty.match \cap listed, f)
    <3>1. Last \in 1 .. MaxCommands /\ vty.k = Last
      BY <1>1, TransferAssumption DEF Types, OperatorTypes, Last
    <3>2. fp.pos + 1 \in Nat /\ filebytes \in Nat
      BY DEF Types, FileTypes, OperatorTypes, Streams
    <3>3. CASE SendBlock
      <4>1. Frame("SEND", "DATA", vty.k, fp.pos + 1) \in Frames
            /\ Frame("SEND", "DATA", vty.k, fp.pos + 1).sub # "CLIENT"
        BY <3>1, <3>2 DEF Frame, Frames
      <4> QED
        BY <3>3, <4>1 DEF SendBlock
    <3>4. CASE SendEnd
      <4>1. Frame("SEND", "END", vty.k, filebytes) \in Frames
            /\ Frame("SEND", "END", vty.k, filebytes).sub # "CLIENT"
        BY <3>1, <3>2 DEF Frame, Frames
      <4> QED
        BY <3>4, <4>1 DEF SendEnd
    <3> QED
      BY <3>3, <3>4 DEF SendOn
  <2>2. ASSUME NEW d \in Clients PROVE ~ Asked(d)' /\ Request(d)'
    <3>1. down'[d] = IF d \in vty.match \cap listed THEN Append(down[d], f) ELSE down[d]
      BY <2>1, BroadcastIs DEF Types
    <3>2. CASE down'[d] = Append(down[d], f)
      BY <1>2, <2>1, <3>2, NoRequestSent
    <3>3. CASE down'[d] = down[d]
      BY <1>1, <1>2, <3>3, RequestKept DEF Ours, Getting, Request
    <3> QED
      BY <3>1, <3>2, <3>3
  <2> QED
    BY <2>2
<1>5. \A d \in Clients : Busy(d)' => Busy(d)
  BY <1>3, <1>4 DEF Busy
<1>6. Getting(c)'
  BY <1>1, <1>3, <1>4, <1>5, GettingKept DEF Ours
<1> QED
  BY <1>3, <1>6 DEF Ours

\* A connection comes or goes, and takes its frames with it.
LEMMA ConnectionOurs ==
  ASSUME Types, \A d \in Clients : Ours(d),
         NEW d \in Clients, Join(d) \/ Leave(d) \/ ClientCrashes(d) \/ ClientFails(d),
         NEW c \in Clients
  PROVE  Ours(c)'
<1>1. UNCHANGED <<operator, server, acked>>
  BY DEF Join, Leave, ClientCrashes, ClientFails
<1>2. size' = size /\ vty' = vty /\ fp' = fp /\ fsize' = fsize /\ sdisk' = sdisk /\ acked' = acked
  BY <1>1 DEF operator, server
<1>3. ASSUME NEW e \in Clients
      PROVE  \/ down'[e] = down[e] /\ up'[e] = up[e]
             \/ down'[e] = <<>> /\ up'[e] = <<>>
  <2>1. CASE Join(d) \/ ClientFails(d)
    BY <2>1 DEF Join, ClientFails
  <2>2. CASE Leave(d) \/ ClientCrashes(d)
    <3>1. down' = [down EXCEPT ![d] = <<>>] /\ up' = [up EXCEPT ![d] = <<>>]
      BY <2>2 DEF Leave, ClientCrashes
    <3> QED
      BY <3>1 DEF Types, ChannelTypes
  <2> QED
    BY <2>1, <2>2
<1>4. ASSUME NEW e \in Clients
      PROVE  /\ Outgoing(e)' /\ (Answering(e)' => Answering(e) /\ down'[e] = <<>>)
             /\ Request(e)' /\ (Asked(e)' => Asked(e))
  <2>1. Request(e)' /\ (Asked(e)' => Asked(e))
    BY <1>2, <1>3, RequestKept DEF Ours, Getting, Request
  <2>2. CASE up'[e] = up[e] /\ down'[e] = down[e]
    <3>1. Outgoing(e)' /\ (Answering(e)' <=> Answering(e))
      BY <1>2, <2>2, AnswerKept DEF Ours
    <3> QED
      BY <2>1, <2>2, <3>1 DEF Ours, Getting
  <2>3. CASE up'[e] = <<>> /\ down'[e] = <<>>
    <3>1. \A i \in 1 .. Len(up'[e]) : FALSE
      BY <2>3
    <3>2. Outgoing(e)'
      <4>1. 0 \in 0 .. Len(up'[e]) /\ Reply(up'[e], 0, Last', size'[Last'])
        BY <2>3, <3>1 DEF Reply
      <4> QED
        BY <4>1, OutgoingNext
    <3>3. ~ Answering(e)'
      BY <3>1, Zenon DEF Answering
    <3> QED
      BY <2>1, <3>2, <3>3
  <2> QED
    BY <1>3, <2>2, <2>3
<1>5. \A e \in Clients : Busy(e)' => Busy(e)
  BY <1>4 DEF Busy
<1>6. Getting(c)'
  BY <1>2, <1>4, <1>5, GettingKept DEF Ours
<1> QED
  BY <1>4, <1>6 DEF Ours

\* A client that takes a frame: FILE_OPEN, DATA, SEND_END and GET_SUCCESS are no
\* part of a get under way; NETMT_CLIENT turns the request into the answer.
LEMMA ClientOurs ==
  ASSUME Types, \A e \in Clients : Incoming(e) /\ Ours(e), NEW d \in Clients,
         ClientOpen(d) \/ ClientData(d) \/ ClientEnd(d) \/ ClientGet(d) \/ ClientIgnores(d),
         NEW c \in Clients
  PROVE  Ours(c)'
<1> DEFINE f == Head(down[d])
<1> HIDE DEF f
<1>0. f = Head(down[d])
  BY DEF f
<1>1. UNCHANGED <<operator, server, conns>>
  BY DEF ClientOpen, ClientData, ClientEnd, ClientGet, ClientIgnores
<1>2. size' = size /\ vty' = vty /\ fp' = fp /\ fsize' = fsize /\ sdisk' = sdisk
  BY <1>1 DEF operator, server
<1>3. PICK comm, sub : Takes(d, comm, sub)
  BY Zenon DEF ClientOpen, ClientData, ClientEnd, ClientGet, ClientIgnores
<1>4. /\ down[d] \in Seq(Frames) /\ down[d] # <<>> /\ down'[d] = Tail(down[d]) /\ f \in Frames
      /\ \A e \in Clients \ {d} : down'[e] = down[e]
  BY <1>0, <1>3, TakesIs DEF Types
<1>5. ~ Answering(d)
  BY <1>4 DEF Ours, Getting
<1>6. \A e \in Clients : Request(e)' /\ (Asked(e)' => Asked(e))
  <2>1. \A e \in Clients : Request(e)
    BY DEF Ours, Getting, Request
  <2>2. Request(d)' /\ (Asked(d)' => Asked(d))
    BY <1>2, <1>4, <2>1, RequestAfterTail
  <2>3. \A e \in Clients \ {d} : Request(e)' /\ (Asked(e)' => Asked(e))
    BY <1>2, <1>4, <2>1, RequestKept
  <2> QED
    BY <2>2, <2>3
<1>7. \A e \in Clients \ {d} : up'[e] = up[e]
  BY DEF ClientOpen, ClientData, ClientEnd, ClientGet, ClientIgnores, Types, ChannelTypes
<1>8. \A e \in Clients \ {d} : Outgoing(e)' /\ (Answering(e)' <=> Answering(e))
  BY <1>2, <1>7, AnswerKept DEF Ours
<1>9. \A k \in 1 .. MaxCommands : <<"GET", c, k>> \in acked' => <<"GET", c, k>> \in acked
  <2>1. acked' = acked \/ \E k : acked' = acked \cup {<<"SEND", d, k>>}
    BY DEF ClientOpen, ClientData, ClientEnd, ClientGet, ClientIgnores
  <2>2. \A k, l : <<"GET", c, k>> # <<"SEND", d, l>>
    OBVIOUS
  <2> QED
    BY <2>1, <2>2
<1>10. ASSUME Outgoing(d)', Answering(d)' => Asked(d) /\ down'[d] = <<>>
       PROVE  Ours(c)'
  <2>1. \A e \in Clients : Busy(e)' => Busy(e)
    BY <1>6, <1>8, <1>10 DEF Busy
  <2>2. Answering(c)' => down'[c] = <<>>
    BY <1>4, <1>8, <1>10 DEF Ours, Getting
  <2>3. Getting(c)'
    BY <1>2, <1>6, <1>9, <2>1, <2>2, GettingKept DEF Ours
  <2> QED
    BY <1>8, <1>10, <2>3 DEF Ours
<1>11. CASE ClientOpen(d) \/ ClientData(d) \/ ClientIgnores(d)
  <2>1. up' = up
    BY <1>11 DEF ClientOpen, ClientData, ClientIgnores
  <2> QED
    BY <1>5, <1>10, <2>1, NoAnswer DEF Ours
<1>12. CASE ClientEnd(d)
  <2>1. up'[d] = up[d] \/ up'[d] = Append(up[d], Frame("SEND", "SUCCESS", f.k, 0))
    BY <1>12 DEF ClientEnd, Types, ChannelTypes, f
  <2>2. Frame("SEND", "SUCCESS", f.k, 0) \in Frames
        /\ Frame("SEND", "SUCCESS", f.k, 0).comm = "SEND"
        /\ Frame("SEND", "SUCCESS", f.k, 0).sub = "SUCCESS"
    BY <1>4 DEF Frame, Frames
  <2> QED
    BY <1>5, <1>10, <2>1, <2>2, NoAnswer, OnlySuccess DEF Ours
<1>13. CASE ClientGet(d)
  <2>1. f.sub = "CLIENT" /\ f.comm = "GET"
    BY <1>13 DEF ClientGet, Takes, IsNext, f
  <2>2. Asked(d) /\ down'[d] = <<>> /\ f.k = Last
    <3>1. Request(d)
      BY DEF Ours, Getting, Request
    <3> QED
      BY <1>0, <1>2, <1>4, <2>1, <3>1, RequestAfterTail
  <2>3. f.k \in 1 .. MaxCommands /\ size[f.k] \in Nat /\ Last > 0
    <3>1. f.k \in 1 .. MaxCommands
      BY <1>4 DEF Frames
    <3>2. size \in Seq(0 .. MaxBlocks)
      BY DEF Types, OperatorTypes
    <3>3. f.k \in 1 .. Last
      BY <2>2, <3>1, <3>2 DEF Last
    <3>4. size[f.k] \in 0 .. MaxBlocks
      BY <3>2, <3>3, ElementOfSeq DEF Last
    <3> QED
      BY <2>2, <3>1, <3>4
  <2>4. up[d] \in Seq(Frames)
    BY DEF Types, ChannelTypes
  <2>5. Reply(up[d], 0, f.k, size[f.k])
    <3>1. \A i \in 1 .. Len(up[d]) : up[d][i].comm # "GET"
      BY <1>5 DEF Answering
    <3>2. PICK g \in 0 .. Len(up[d]) : Answer(up[d], g)
      BY DEF Ours, Outgoing
    <3>3. \A i \in 1 .. Len(up[d]) :
              \/ up[d][i] = GetFrame(Last, size[Last], i - Len(up[d]) + size[Last] + 2)
              \/ up[d][i].comm = "SEND" /\ up[d][i].sub = "SUCCESS"
      BY <3>2 DEF Answer, Reply
    <3>4. \A k, n, j : GetFrame(k, n, j).comm = "GET"
      BY DEF GetFrame, Frame
    <3>5. \A i \in 1 .. Len(up[d]) :
              ~ (i > Len(up[d]) - 0) /\ up[d][i].comm = "SEND" /\ up[d][i].sub = "SUCCESS"
      BY <2>4, <3>1, <3>3, <3>4
    <3> QED
      BY <3>5 DEF Reply
  <2>6. Blocks(f.k) \in Seq(Frames) /\ Len(Blocks(f.k)) = size[f.k]
        /\ \A i \in 1 .. size[f.k] : Blocks(f.k)[i] = Frame("GET", "DATA", f.k, i)
    BY <2>3, BlocksAre
  <2>7. up'[d] = up[d] \o <<Frame("GET", "OPEN", f.k, 0)>> \o Blocks(f.k)
                       \o <<Frame("GET", "END", f.k, size[f.k])>>
    BY <1>13 DEF ClientGet, Types, ChannelTypes, f
  <2>8. Len(up'[d]) = Len(up[d]) + size[f.k] + 2 /\ Reply(up'[d], size[f.k] + 2, f.k, size[f.k])
    <3> DEFINE u == up[d]
               k == f.k
               n == size[f.k]
               b == Blocks(f.k)
               w == u \o <<Frame("GET", "OPEN", k, 0)>> \o b \o <<Frame("GET", "END", k, n)>>
    <3>1. u \in Seq(Frames) /\ k \in 1 .. MaxCommands /\ n \in Nat /\ b \in Seq(Frames)
          /\ Len(b) = n /\ (\A i \in 1 .. n : b[i] = Frame("GET", "DATA", k, i))
          /\ Reply(u, 0, k, n)
      BY <2>3, <2>4, <2>5, <2>6
    <3>2. up'[d] = w
      BY <2>7
    <3> HIDE DEF u, k, n, b
    <3>3. w \in Seq(Frames) /\ Len(w) = Len(u) + n + 2 /\ Reply(w, n + 2, k, n)
      BY <3>1, ReplyGroup
    <3> HIDE DEF w
    <3>4. Len(up'[d]) = Len(u) + n + 2 /\ Reply(up'[d], n + 2, k, n)
      BY <3>2, <3>3
    <3> QED
      BY <3>4 DEF u, k, n
  <2>9. Last' = Last /\ size'[Last'] = size[Last]
    BY <1>2 DEF Last
  <2>10. Outgoing(d)'
    <3>1. size[f.k] + 2 \in 0 .. Len(up'[d])
      BY <2>3, <2>4, <2>8
    <3>2. Reply(up'[d], size[f.k] + 2, Last', size'[Last'])
      BY <2>2, <2>8, <2>9
    <3>3. Last' > 0 /\ size[f.k] + 2 <= size'[Last'] + 2 /\ ~ (size[f.k] + 2 < size'[Last'] + 2)
      BY <2>2, <2>3, <2>9
    <3> QED
      BY <3>1, <3>2, <3>3, OutgoingNext
  <2> QED
    BY <1>10, <2>2, <2>10
<1> QED
  BY <1>11, <1>12, <1>13


\* The server takes a frame of the answer: it is the one get, and nobody else asks.
LEMMA AnswerTaken ==
  ASSUME Types, \A e \in Clients : Ours(e), NEW d \in Clients, NEW sub,
         ServerTakes(d, "GET", sub)
  PROVE  LET f == Head(up[d]) IN
         /\ vty = Prompt /\ Busy(d) /\ down[d] = <<>>
         /\ \A e \in Clients : ~ Asked(e)
         /\ \A e \in Clients \ {d} : up'[e] = up[e] /\ ~ Answering(e)
         /\ Last > 0 /\ Last \in 1 .. MaxCommands /\ size[Last] \in Nat /\ fsize \in Nat
         /\ f.k = Last /\ f.sub = sub
         /\ Len(up[d]) \in Nat \ {0} /\ Len(up'[d]) = Len(up[d]) - 1
         /\ Reply(up'[d], Len(up'[d]), Last, size[Last])
         /\ sub = "OPEN" => Len(up[d]) = size[Last] + 2
         /\ sub \in {"DATA", "END"} => fp = Stream(Last, "w") /\ sdisk[Last] = Part(Last, fsize)
         /\ sub = "DATA" => /\ f.n = fsize + 1 /\ fsize < size[Last]
                            /\ Len(up[d]) = size[Last] + 1 - fsize
         /\ sub = "END" => f.n = size[Last] /\ fsize = size[Last] /\ Len(up[d]) = 1
<1> DEFINE f == Head(up[d])
<1> HIDE DEF f
<1>0. f = Head(up[d])
  BY DEF f
<1>1. /\ up[d] \in Seq(Frames) /\ up[d] # <<>> /\ f.comm = "GET" /\ f.sub = sub
      /\ up'[d] = Tail(up[d]) /\ \A e \in Clients \ {d} : up'[e] = up[e]
  BY <1>0, ServerTakesIs DEF Types
<1>2. Answering(d) /\ Busy(d)
  BY <1>0, <1>1, HeadIsAnswer DEF Busy
<1>3. vty = Prompt /\ down[d] = <<>> /\ \A e \in Clients : Busy(e) => d = e
  BY <1>2 DEF Ours, Getting
<1>4. ~ Asked(d)
  <2>1. \A i \in 1 .. Len(<<>>) : FALSE
    OBVIOUS
  <2> QED
    BY <1>3, <2>1, Zenon DEF Asked
<1>5. \A e \in Clients \ {d} : ~ Asked(e) /\ ~ Answering(e)
  BY <1>3 DEF Busy
<1>6. /\ Last > 0 /\ Last \in 1 .. MaxCommands /\ size[Last] \in 0 .. MaxBlocks
      /\ f.k = Last /\ Answer(up[d], Len(up[d]))
      /\ f.sub = "OPEN" => Len(up[d]) = size[Last] + 2
      /\ f.sub \in {"DATA", "END"} => fp = Stream(Last, "w") /\ sdisk[Last] = Part(Last, fsize)
      /\ f.sub = "DATA" => /\ f.n = fsize + 1 /\ fsize < size[Last]
                           /\ Len(up[d]) = size[Last] + 1 - fsize
      /\ f.sub = "END" => f.n = size[Last] /\ fsize = size[Last] /\ Len(up[d]) = 1
  BY <1>0, <1>1, HeadAnswers DEF Ours
<1>7. size[Last] \in Nat /\ fsize \in Nat
  BY <1>6 DEF Types, FileTypes
<1>8. Len(up[d]) \in Nat \ {0} /\ Len(Tail(up[d])) = Len(up[d]) - 1
  BY <1>1
<1>9. Reply(up'[d], Len(up'[d]), Last, size[Last])
  <2>1. Reply(up[d], Len(up[d]), Last, size[Last])
    BY <1>6 DEF Answer
  <2>2. Len(up[d]) \in 0 .. Len(up[d])
    BY <1>8
  <2>3. Reply(Tail(up[d]), Len(up[d]) - 1, Last, size[Last])
    BY <1>1, <1>7, <2>1, <2>2, ReplyTail
  <2> QED
    BY <1>1, <1>8, <2>3
<1>10. /\ \A e \in Clients : ~ Asked(e)
       /\ \A e \in Clients \ {d} : up'[e] = up[e] /\ ~ Answering(e)
  BY <1>1, <1>4, <1>5
<1>11. Len(up'[d]) = Len(up[d]) - 1
  BY <1>1, <1>8
<1> QED
  BY <1>0, <1>1, <1>2, <1>3, <1>6, <1>7, <1>8, <1>9, <1>10, <1>11

\* The rest of the answer is still on its way: the copy has grown by what was taken.
LEMMA AnswerGoesOn ==
  ASSUME Types, \A e \in Clients : Ours(e), NEW d \in Clients, NEW sub,
         ServerTakes(d, "GET", sub), UNCHANGED <<operator, down, acked>>,
         fp' = Stream(Last, "w"), Len(up'[d]) = size[Last] + 1 - fsize',
         fsize' \in Nat, sdisk'[Last] = Part(Last, fsize'),
         \A k \in 1 .. MaxCommands : k # Last => sdisk'[k] = sdisk[k],
         NEW c \in Clients
  PROVE  Ours(c)'
<1>1. /\ vty = Prompt /\ Busy(d) /\ down[d] = <<>>
      /\ \A e \in Clients : ~ Asked(e)
      /\ \A e \in Clients \ {d} : up'[e] = up[e] /\ ~ Answering(e)
      /\ Last > 0 /\ Last \in 1 .. MaxCommands /\ size[Last] \in Nat
      /\ Len(up[d]) \in Nat \ {0} /\ Len(up'[d]) = Len(up[d]) - 1
      /\ Reply(up'[d], Len(up'[d]), Last, size[Last])
  BY AnswerTaken
<1>2. size' = size /\ vty' = vty /\ down' = down /\ Last' = Last /\ size'[Last'] = size[Last]
  BY DEF operator, Last
<1>3. \A e \in Clients : Request(e)' /\ ~ Asked(e)'
  <2>1. \A e \in Clients : Request(e)
    BY DEF Ours, Getting, Request
  <2> QED
    BY <1>1, <1>2, <2>1, RequestKept
<1>4. \A e \in Clients \ {d} : Outgoing(e)' /\ ~ Answering(e)'
  BY <1>1, <1>2, AnswerKept DEF Ours
<1>5. Outgoing(d)'
  <2>1. Len(up'[d]) \in 0 .. Len(up'[d])
    BY <1>1
  <2>2. Reply(up'[d], Len(up'[d]), Last', size'[Last'])
    BY <1>1, <1>2
  <2>3. Last' > 0 /\ Len(up'[d]) <= size'[Last'] + 2
    BY <1>1, <1>2
  <2>4. /\ fp' = Stream(Last', "w") /\ fsize' = size'[Last'] + 1 - Len(up'[d])
        /\ sdisk'[Last'] = Part(Last', fsize')
    <3>1. fsize' = size[Last] + 1 - Len(up'[d])
      BY <1>1
    <3> QED
      BY <1>2, <3>1
  <2> QED
    BY <2>1, <2>2, <2>3, <2>4, OutgoingNext
<1>6. \A e \in Clients : Busy(e)' => Busy(e)
  BY <1>1, <1>3, <1>4 DEF Busy
<1>7. Answering(c)' => down'[c] = <<>>
  BY <1>1, <1>2, <1>4
<1>8. Getting(c)'
  BY <1>1, <1>2, <1>3, <1>6, <1>7, GettingKept DEF Ours
<1> QED
  BY <1>4, <1>5, <1>8 DEF Ours


\* GET_END: the answer is over, and GET_SUCCESS goes out for a complete copy.
LEMMA AnswerEnds ==
  ASSUME Types, \A e \in Clients : Ours(e), NEW d \in Clients, ServerEnd(d), NEW c \in Clients
  PROVE  Ours(c)'
<1> DEFINE f == Head(up[d])
           answer == Frame("GET", "SUCCESS", f.k, 0)
<1> HIDE DEF f
<1>0. f = Head(up[d])
  BY DEF f
<1>1. /\ ServerTakes(d, "GET", "END") /\ UNCHANGED <<fsize, sdisk, operator>>
      /\ \/ Broadcast({d}, answer) /\ acked' = acked \cup {<<"GET", d, f.k>>}
         \/ UNCHANGED <<down, acked>>
  BY DEF ServerEnd, f
<1>2. /\ down[d] = <<>> /\ \A e \in Clients : ~ Asked(e)
      /\ \A e \in Clients \ {d} : up'[e] = up[e] /\ ~ Answering(e)
      /\ Last \in 1 .. MaxCommands /\ size[Last] \in Nat /\ f.k = Last
      /\ Len(up[d]) \in Nat \ {0} /\ Len(up'[d]) = Len(up[d]) - 1 /\ Len(up[d]) = 1
      /\ sdisk[Last] = Part(Last, fsize) /\ fsize = size[Last]
  BY <1>0, <1>1, AnswerTaken
<1>3. size' = size /\ vty' = vty /\ sdisk' = sdisk /\ Last' = Last /\ size'[Last'] = size[Last]
  BY <1>1 DEF operator, Last
<1>4. \A e \in Clients \ {d} : Outgoing(e)' /\ ~ Answering(e)'
  BY <1>2, <1>3, AnswerKept DEF Ours
<1>5. Outgoing(d)' /\ ~ Answering(d)'
  <2>1. Len(up'[d]) = 0 /\ \A i \in 1 .. Len(up'[d]) : FALSE
    BY <1>2
  <2>2. 0 \in 0 .. Len(up'[d]) /\ Reply(up'[d], 0, Last', size'[Last'])
    BY <2>1 DEF Reply
  <2>3. Outgoing(d)'
    BY <2>2, OutgoingNext
  <2>4. ~ Answering(d)'
    BY <2>1, Zenon DEF Answering
  <2> QED
    BY <2>3, <2>4
<1>6. answer \in Frames /\ answer.sub # "CLIENT"
  BY <1>2 DEF Frame, Frames
<1> HIDE DEF answer
<1>7. ASSUME NEW e \in Clients PROVE ~ Asked(e)' /\ Request(e)'
  <2>1. Request(e)
    BY DEF Ours, Getting, Request
  <2>2. CASE down'[e] = down[e]
    BY <1>2, <1>3, <2>1, <2>2, RequestKept
  <2>3. CASE Broadcast({d}, answer)
    <3>1. down'[e] = IF e \in {d} THEN Append(down[e], answer) ELSE down[e]
      BY <1>6, <2>3, BroadcastIs DEF Types
    <3>2. CASE down'[e] = Append(down[e], answer)
      BY <1>2, <1>6, <3>2, NoRequestSent
    <3> QED
      BY <2>2, <3>1, <3>2
  <2> QED
    BY <1>1, <2>2, <2>3
<1>8. \A e \in Clients : ~ Busy(e)' /\ ~ Answering(e)'
  BY <1>4, <1>5, <1>7 DEF Busy
<1>9. ASSUME NEW k \in 1 .. MaxCommands, <<"GET", c, k>> \in acked' PROVE Got(k)'
  <2>1. <<"GET", c, k>> \in acked \/ k = Last
    BY <1>1, <1>2, <1>9
  <2>2. Got(k)
    <3>1. CASE <<"GET", c, k>> \in acked
      BY <3>1 DEF Ours, Getting
    <3>2. CASE k = Last
      <4>1. size \in Seq(0 .. MaxBlocks)
        BY DEF Types, OperatorTypes
      <4>2. Last \in DOMAIN size
        BY <1>2, <4>1 DEF Last
      <4> QED
        BY <1>2, <3>2, <4>2 DEF Got, File, Part
    <3> QED
      BY <2>1, <3>1, <3>2
  <2> QED
    BY <1>3, <2>2 DEF Got, File
<1>10. Getting(c)'
  <2>1. /\ ~ Busy(c)' /\ ~ Answering(c)' /\ \A e \in Clients : ~ Busy(e)'
        /\ Request(c)'
    BY <1>7, <1>8
  <2> QED
    BY <1>9, <2>1 DEF Getting, Request
<1> QED
  BY <1>4, <1>5, <1>10 DEF Ours

\* The server takes a frame of the answer, or a SEND_SUCCESS.
LEMMA ServerOurs ==
  ASSUME Types, \A e \in Clients : Ours(e), NEW d \in Clients, Server(d), NEW c \in Clients
  PROVE  Ours(c)'
<1> DEFINE f == Head(up[d])
<1> HIDE DEF f
<1>0. f = Head(up[d])
  BY DEF f
<1>1. sdisk \in Copies
  BY DEF Types, FileTypes
<1>2. CASE ServerOpen(d)
  <2>1. /\ ServerTakes(d, "GET", "OPEN") /\ fp' = Stream(f.k, "w") /\ fsize' = 0
        /\ sdisk' = [sdisk EXCEPT ![f.k] = <<>>] /\ UNCHANGED <<operator, down, acked>>
    BY <1>2 DEF ServerOpen, f
  <2>2. /\ f.k = Last /\ Last \in 1 .. MaxCommands /\ size[Last] \in Nat
        /\ Len(up[d]) = size[Last] + 2 /\ Len(up'[d]) = Len(up[d]) - 1
    BY <1>0, <2>1, AnswerTaken
  <2>3. fp' = Stream(Last, "w") /\ Len(up'[d]) = size[Last] + 1 - fsize' /\ fsize' \in Nat
    BY <2>1, <2>2
  <2>4. /\ sdisk'[Last] = <<>>
        /\ \A k \in 1 .. MaxCommands : k # Last => sdisk'[k] = sdisk[k]
    BY <1>1, <2>1, <2>2 DEF Copies
  <2>5. sdisk'[Last] = Part(Last, fsize')
    <3>1. Part(Last, 0) = <<>>
      BY PartGrows
    <3> QED
      BY <2>1, <2>4, <3>1
  <2> QED
    BY <2>1, <2>3, <2>4, <2>5, AnswerGoesOn
<1>3. CASE ServerData(d)
  <2>1. ServerTakes(d, "GET", "DATA") /\ UNCHANGED <<operator, fp, down, acked>>
    BY <1>3 DEF ServerData
  <2>2. /\ fp = Stream(Last, "w") /\ sdisk[Last] = Part(Last, fsize)
        /\ f.k = Last /\ Last \in 1 .. MaxCommands /\ size[Last] \in Nat /\ fsize \in Nat
        /\ f.n = fsize + 1 /\ Len(up[d]) = size[Last] + 1 - fsize
        /\ Len(up'[d]) = Len(up[d]) - 1
    BY <1>0, <2>1, AnswerTaken
  <2>3. fp.mode = "w" /\ fp.k = Last
    BY <2>2 DEF Stream
  <2>4. sdisk' = [sdisk EXCEPT ![Last] = Append(@, Block(Last, fsize + 1))] /\ fsize' = fsize + 1
    BY <1>3, <2>2, <2>3 DEF ServerData, f
  <2>5. /\ sdisk'[Last] = Append(sdisk[Last], Block(Last, fsize + 1))
        /\ \A k \in 1 .. MaxCommands : k # Last => sdisk'[k] = sdisk[k]
    BY <1>1, <2>2, <2>4 DEF Copies
  <2>6. sdisk'[Last] = Part(Last, fsize')
    BY <2>2, <2>4, <2>5, PartGrows
  <2>7. fp' = Stream(Last, "w") /\ Len(up'[d]) = size[Last] + 1 - fsize' /\ fsize' \in Nat
    BY <2>1, <2>2, <2>4
  <2> QED
    BY <2>1, <2>5, <2>6, <2>7, AnswerGoesOn
<1>4. ASSUME UNCHANGED <<operator, fp, fsize, sdisk, down, acked>>,
             \A e \in Clients : Outgoing(e)' /\ (Answering(e)' => Answering(e))
      PROVE  Ours(c)'
  <2>1. size' = size /\ vty' = vty /\ down' = down
    BY <1>4 DEF operator
  <2>2. \A e \in Clients : Request(e)' /\ (Asked(e)' => Asked(e))
    <3>1. \A e \in Clients : Request(e)
      BY DEF Ours, Getting, Request
    <3> QED
      BY <2>1, <3>1, RequestKept
  <2>3. \A e \in Clients : Busy(e)' => Busy(e)
    BY <1>4, <2>2 DEF Busy
  <2>4. Answering(c)' => down'[c] = <<>>
    BY <1>4, <2>1 DEF Ours, Getting
  <2>5. Getting(c)'
    BY <1>4, <2>1, <2>2, <2>3, <2>4, GettingKept DEF Ours
  <2> QED
    BY <1>4, <2>5 DEF Ours
<1>5. CASE ServerDataShort(d)
  <2>1. UNCHANGED <<operator, fp, fsize, sdisk, down, up, acked>>
    BY <1>5 DEF ServerDataShort
  <2>2. size' = size
    BY <2>1 DEF operator
  <2>3. \A e \in Clients : Outgoing(e)' /\ (Answering(e)' => Answering(e))
    BY <2>1, <2>2, AnswerKept DEF Ours
  <2> QED
    BY <1>4, <2>1, <2>3
<1>6. CASE ServerIgnores(d)
  <2>1. ServerTakes(d, "SEND", "SUCCESS") /\ UNCHANGED <<operator, fp, fsize, sdisk, down, acked>>
    BY <1>6 DEF ServerIgnores, server
  <2>2. size' = size
    BY <2>1 DEF operator
  <2>3. /\ up[d] # <<>> /\ Head(up[d]).comm = "SEND" /\ up'[d] = Tail(up[d])
        /\ \A e \in Clients \ {d} : up'[e] = up[e]
    BY <2>1, ServerTakesIs DEF Types
  <2>4. Outgoing(d)' /\ (Answering(d)' => Answering(d))
    BY <2>1, <2>2, <2>3, SuccessTaken DEF Ours
  <2>5. \A e \in Clients \ {d} : Outgoing(e)' /\ (Answering(e)' => Answering(e))
    BY <2>1, <2>2, <2>3, AnswerKept DEF Ours
  <2> QED
    BY <1>4, <2>1, <2>4, <2>5
<1> QED
  BY <1>2, <1>3, <1>5, <1>6, AnswerEnds DEF Server


-----------------------------------------------------------------------------
(* The theorems *)

\* A step that changes nothing.
LEMMA StutterInv == Inv /\ UNCHANGED vars => Inv'
<1> SUFFICES ASSUME Inv, UNCHANGED vars PROVE Inv'
  OBVIOUS
<1>1. /\ UNCHANGED <<size, vty, filebytes>> /\ UNCHANGED <<fp, fsize, sdisk, wedged, undefined>>
      /\ UNCHANGED <<cfp, cbytes, disk, failed, crashed>> /\ UNCHANGED <<waiting, listed, late>>
      /\ UNCHANGED <<down, up, acked>>
  BY DEF vars, operator, server, client, conns
<1>2. Types /\ \A c \in Clients : Mine(c) /\ Ours(c)
  BY DEF Inv, Mine, Ours
<1>3. Types'
  <2>1. ConnTypes'
    BY <1>1, <1>2 DEF Types, ConnTypes, NoStream, Stream
  <2>2. OperatorTypes' /\ FileTypes'
    BY <1>1, <1>2, OperatorKept, FilesKept DEF Types
  <2> QED
    BY <1>1, <1>2, <2>1, <2>2 DEF Types, ChannelTypes
<1>4. ASSUME NEW c \in Clients PROVE Mine(c)' /\ Outgoing(c)' /\ Getting(c)'
  <2>1. CopiesKept(c)
    BY <1>1 DEF CopiesKept
  <2>2. Mine(c)'
    BY <1>1, <1>2, <2>1, Elsewhere
  <2>3. \A e \in Clients : Outgoing(e)' /\ (Answering(e)' <=> Answering(e))
    BY <1>1, <1>2, AnswerKept DEF Ours
  <2>4. \A e \in Clients : Request(e)' /\ (Asked(e)' => Asked(e))
    <3>1. \A e \in Clients : Request(e)
      BY <1>2 DEF Ours, Getting, Request
    <3> QED
      BY <1>1, <3>1, RequestKept
  <2>5. \A e \in Clients : Busy(e)' => Busy(e)
    BY <2>3, <2>4 DEF Busy
  <2>6. Answering(c)' => down'[c] = <<>>
    BY <1>1, <1>2, <2>3 DEF Ours, Getting
  <2>7. Getting(c)'
    BY <1>1, <1>2, <2>4, <2>5, <2>6, GettingKept DEF Ours
  <2> QED
    BY <2>2, <2>3, <2>7
<1> QED
  BY <1>3, <1>4 DEF Inv, Mine

\* Every step, one case for each kind of handler.
LEMMA NextInv ==
  ASSUME Patient, Inv, Next
  PROVE  Inv'
<1>1. Types /\ \A c \in Clients : Mine(c) /\ Ours(c) /\ Incoming(c)
  BY DEF Inv, Mine, Ours
<1>2. \A c \in Clients : Outgoing(c) /\ Getting(c)
  BY <1>1 DEF Ours
<1> SUFFICES ASSUME NEW c \in Clients PROVE Mine(c)' /\ Ours(c)'
  BY TypesStep DEF Inv, Mine, Ours
<1>4. ASSUME NEW n \in 0 .. MaxBlocks, NEW match \in SUBSET Clients, SendOpen(match, n)
      PROVE  Mine(c)' /\ Ours(c)'
  <2> DEFINE f == Frame("SEND", "OPEN", Last + 1, 0)
             to == match \cap listed
  <2>1. /\ NewCommand(n) /\ Broadcast(to, f) /\ fp' = Stream(Last + 1, "r")
        /\ vty' = [k |-> Last + 1, match |-> match]
        /\ UNCHANGED <<sdisk, client, conns, up, acked>>
    BY <1>4 DEF SendOpen, Last
  <2>2. Last < MaxCommands /\ Last \in Nat
    BY <1>1, <2>1, CommandTypes
  <2>3. f \in Frames /\ f.comm = "SEND" /\ f.sub = "OPEN" /\ f.sub # "CLIENT" /\ f.k = Last + 1
    BY <2>2, TransferAssumption DEF Frame, Frames
  <2>4. to \in SUBSET listed /\ listed \cap vty'.match = to /\ vty'.k = Last + 1 /\ fp'.pos = 0
    BY <2>1 DEF Stream
  <2> HIDE DEF f, to
  <2>5. Mine(c)'
    BY <1>1, <2>1, <2>3, <2>4, CommandMine
  <2>6. Ours(c)'
    BY <1>1, <2>1, <2>3, <2>4, CommandOurs
  <2> QED
    BY <2>5, <2>6
<1>5. ASSUME NEW n \in 0 .. MaxBlocks, NEW d \in Clients, Get(d, n)
      PROVE  Mine(c)' /\ Ours(c)'
  <2> DEFINE f == Frame("GET", "CLIENT", Last + 1, 0)
             to == {d}
  <2>1. /\ NewCommand(n) /\ Broadcast(to, f) /\ vty' = vty /\ d \in listed
        /\ UNCHANGED <<sdisk, client, conns, up, acked>>
    BY <1>5 DEF Get, Last, server
  <2>2. Last < MaxCommands /\ Last \in Nat /\ vty = Prompt
    BY <1>1, <2>1, CommandTypes
  <2>3. f \in Frames /\ f.comm = "GET" /\ f.sub = "CLIENT" /\ f.k = Last + 1
    BY <2>2, TransferAssumption DEF Frame, Frames
  <2>4. to \in SUBSET listed /\ vty' = Prompt /\ \E e \in Clients : to = {e}
    BY <2>1, <2>2 DEF Prompt
  <2> HIDE DEF f, to
  <2>5. Mine(c)'
    BY <1>1, <2>1, <2>3, <2>4, CommandMine
  <2>6. Ours(c)'
    BY <1>1, <2>1, <2>3, <2>4, CommandOurs
  <2> QED
    BY <2>5, <2>6
<1>6. CASE SendOn
  BY <1>1, <1>6, SendMine, SendOurs
<1>7. ASSUME NEW d \in Clients, Join(d) \/ Leave(d) \/ Client(d) \/ Server(d)
      PROVE  Mine(c)' /\ Ours(c)'
  <2>1. CASE Join(d) \/ Leave(d) \/ ClientCrashes(d) \/ ClientFails(d)
    BY <1>1, <2>1, ConnectionMine, ConnectionOurs
  <2>2. CASE ClientOpen(d) \/ ClientData(d) \/ ClientEnd(d) \/ ClientGet(d) \/ ClientIgnores(d)
    BY <1>1, <2>2, ClientMine, ClientOurs
  <2>3. CASE Server(d)
    BY <1>1, <1>2, <2>3, ServerMine, ServerOurs
  <2> QED
    BY <1>7, <2>1, <2>2, <2>3 DEF Client
<1> QED
  BY <1>4, <1>5, <1>6, <1>7 DEF Next

\* The inductive invariant: what is on its way to and from every client continues
\* what its copy, or the server's, has so far, while the operator gives one command
\* at a time and waits for a get to end (send_netmt and get_netmt).
THEOREM TransferInvariant ==
  ASSUME Patient
  PROVE  Spec => []Inv
<1>1. Init => Inv
  BY InitInv
<1>2. Inv /\ [Next]_vars => Inv'
  BY NextInv, StutterInv
<1> QED
  BY <1>1, <1>2, PTL DEF Spec

\* What is sent and stored has its type: tcp_recv of both sides, send_netmt, get_netmt.
THEOREM TransferTypes ==
  ASSUME Patient
  PROVE  Spec => []TypeOK
<1>1. Inv => TypeOK
  <2> SUFFICES ASSUME Types PROVE TypeOK
    BY DEF Inv
  <2>1. undefined \in BOOLEAN /\ crashed \subseteq Clients \ listed
    BY DEF Types, FileTypes, ConnTypes
  <2> QED
    BY <2>1 DEF TypeOK, Types, ConnTypes, ChannelTypes, OperatorTypes, FileTypes, Last
<1> QED
  BY <1>1, TransferInvariant, PTL

\* SEND_SUCCESS and GET_SUCCESS go out only for a copy that is complete, block by
\* block, though SEND_END and GET_END compare nothing but numbers of bytes.
THEOREM ConfirmedCopiesAreComplete ==
  ASSUME Patient
  PROVE  Spec => []ConfirmedIsComplete
<1>1. Inv => ConfirmedIsComplete
  <2> SUFFICES ASSUME Inv, NEW ack \in acked
               PROVE  IF ack[1] = "SEND" THEN Sent(ack[2], ack[3]) ELSE Got(ack[3])
    BY DEF ConfirmedIsComplete
  <2>1. ack \in {"SEND", "GET"} \X Clients \X (1 .. MaxCommands)
    BY DEF Inv, Types, FileTypes
  <2>2. PICK comm \in {"SEND", "GET"}, c \in Clients, k \in 1 .. MaxCommands : ack = <<comm, c, k>>
    BY <2>1
  <2>3. CASE comm = "SEND"
    <3>1. Sent(c, k)
      BY <2>2, <2>3 DEF Inv, SendAcks
    <3> QED
      BY <2>2, <2>3, <3>1
  <2>4. CASE comm = "GET"
    <3>1. Got(k)
      BY <2>2, <2>4 DEF Inv, Getting
    <3> QED
      BY <2>2, <2>4, <3>1
  <2> QED
    BY <2>3, <2>4
<1> QED
  BY <1>1, TransferInvariant, PTL

\* DATA or SEND_END before a FILE_OPEN (fwrite to a NULL fp) reaches only a client
\* that netmt_accept added while send_netmt was in its fread loop.
THEOREM CrashesAreLateClients ==
  ASSUME Patient
  PROVE  Spec => []OnlyLateClientsCrash
<1>1. Inv => OnlyLateClientsCrash
  BY DEF Inv, Types, ConnTypes, OnlyLateClientsCrash
<1> QED
  BY <1>1, TransferInvariant, PTL

\* The fp that send_netmt and the GET handlers of the server share is written and
\* closed only while it is open.
THEOREM ServerUsesOpenFiles ==
  ASSUME Patient
  PROVE  Spec => []ServerFileIsOpen
<1>1. Inv => ServerFileIsOpen
  BY DEF Inv, Types, FileTypes, ServerFileIsOpen
<1> QED
  BY <1>1, TransferInvariant, PTL
=============================================================================
