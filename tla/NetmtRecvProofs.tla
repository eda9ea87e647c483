-------------------------- MODULE NetmtRecvProofs --------------------------
(***************************************************************************)
(* tcp_recv is right when its loop thread has ONE connection: for every    *)
(* frame length, read size, buffer size and number of frames that satisfy  *)
(* the assumptions of NetmtRecv, and however TCP cuts the stream.  (With   *)
(* two connections it is not: the run recv_shared_buffer.)                 *)
(*                                                                         *)
(* The argument: all that was received and not consumed are the bytes of   *)
(* the stream that follow the frames delivered, and they lie at tembuf     *)
(* (Pending).  So `len' is read from the first two bytes of a frame, or    *)
(* from its first byte and a stale one -- and then it is at least LenLo,   *)
(* more than the one byte there is --, or from stale bytes only, when      *)
(* nothing is left, and then any value is good.                            *)
(***************************************************************************)
EXTENDS NetmtRecv, TLAPS

(***************************************************************************)
(* Arithmetic of frames.                                                   *)
(***************************************************************************)

\* The length of a frame is a number greater than its first byte.
LEMMA FrameLenNat == FrameLen \in Nat /\ FrameLen >= 2 /\ FrameLen = LenLo + Base * LenHi
<1>1. Base * LenHi \in Nat
  BY LenAssumption
<1> QED
  BY <1>1, LenAssumption DEF FrameLen

\* Where frames begin: one FrameLen after the other, in order.
LEMMA StartsGrow ==
  ASSUME NEW m \in Nat, NEW n \in Nat
  PROVE  /\ m * FrameLen \in Nat
         /\ (m + 1) * FrameLen = m * FrameLen + FrameLen
         /\ m <= n => m * FrameLen <= n * FrameLen
         /\ m < n => m * FrameLen + FrameLen <= n * FrameLen
<1> DEFINE F == FrameLen
<1>1. F \in Nat
  BY FrameLenNat
<1> HIDE DEF F
<1>2. m * F \in Nat /\ n * F \in Nat
  BY <1>1
<1>3. (m + 1) * F = m * F + F
  BY <1>1
<1>4. ASSUME m <= n PROVE m * F <= n * F
  <2>1. PICK d \in Nat : n = m + d
    BY <1>4
  <2>2. n * F = m * F + d * F
    BY <2>1, <1>1
  <2>3. d * F \in Nat
    BY <1>1
  <2> QED
    BY <2>2, <2>3, <1>2
<1>5. ASSUME m < n PROVE m * F + F <= n * F
  <2>1. PICK d \in Nat : n = m + 1 + d
    <3>1. n - m - 1 \in Nat /\ n = m + 1 + (n - m - 1)
      BY <1>5
    <3> QED
      BY <3>1
  <2>2. n * F = (m * F + F) + d * F
    BY <2>1, <1>1
  <2>3. d * F \in Nat
    BY <1>1
  <2> QED
    BY <2>2, <2>3, <1>1, <1>2
<1> QED
  BY <1>2, <1>3, <1>4, <1>5 DEF F

\* Two frames that begin at the same place are the same.
LEMMA StartsDiffer ==
  ASSUME NEW m \in Nat, NEW n \in Nat
  PROVE  /\ m * FrameLen + 1 # n * FrameLen
         /\ m * FrameLen = n * FrameLen => m = n
<1>1. CASE m < n
  <2>1. m * FrameLen + FrameLen <= n * FrameLen /\ n * FrameLen \in Nat /\ m * FrameLen \in Nat
    BY <1>1, StartsGrow
  <2> QED
    BY <2>1, <1>1, FrameLenNat
<1>2. CASE n < m
  <2>1. n * FrameLen + FrameLen <= m * FrameLen /\ n * FrameLen \in Nat /\ m * FrameLen \in Nat
    BY <1>2, StartsGrow
  <2> QED
    BY <2>1, <1>2, FrameLenNat
<1>3. CASE m = n
  BY <1>3, StartsGrow
<1> QED
  BY <1>1, <1>2, <1>3

(***************************************************************************)
(* Reading `len'.                                                          *)
(***************************************************************************)

\* What a cell of the buffer contributes to `len' is never negative.
LEMMA DigitNat == ASSUME NEW b PROVE Digit(b) \in Nat
  BY LenAssumption DEF Digit

\* Memory read at any place is a cell.
LEMMA CellType ==
  ASSUME NEW buf \in [Places -> Cells], NEW p
  PROVE  Cell(buf, p) \in Cells
  BY DEF Cell, Cells

\* The two bytes `len' is read from, at the start of the n-th frame.
LEMMA HeaderDigits ==
  ASSUME NEW c \in Conns, NEW n \in 0 .. MaxFrames
  PROVE  /\ Digit(Byte(c, n * FrameLen)) = LenLo
         /\ Digit(Byte(c, n * FrameLen + 1)) = LenHi
<1> DEFINE s == n * FrameLen
<1>1. n \in Nat /\ MaxFrames \in Nat
  BY BufAssumption
<1>2. s \in Nat
  BY <1>1, StartsGrow
<1>3. s \in FrameStarts
  BY DEF FrameStarts
<1>4. s + 1 \notin FrameStarts
  <2>1. SUFFICES ASSUME NEW m \in 0 .. MaxFrames, s + 1 = m * FrameLen PROVE FALSE
    BY DEF FrameStarts
  <2>2. m \in Nat
    BY <1>1
  <2> QED
    BY <2>1, <2>2, <1>1, StartsDiffer
<1>5. \A i : Byte(c, i) # Zero /\ Byte(c, i).pos = i
  BY ConnAssumption DEF Byte, Zero
<1> HIDE DEF s
<1>6. Digit(Byte(c, s)) = LenLo
  BY <1>3, <1>5 DEF Digit
<1>7. Digit(Byte(c, s + 1)) = LenHi
  <2>1. (s + 1) - 1 = s
    BY <1>2
  <2> QED
    BY <1>3, <1>4, <1>5, <2>1 DEF Digit
<1> QED
  BY <1>6, <1>7 DEF s

\* `len', read where only the b bytes after the first n frames are valid: the
\* check of the code tells exactly whether a whole frame is there, whatever
\* stale bytes follow.
LEMMA IncompleteMeans ==
  ASSUME NEW c \in Conns, NEW n \in 0 .. MaxFrames,
         NEW buf \in [Places -> Cells], NEW p \in Nat, NEW b \in Nat,
         p + b + 1 < DataBuf,
         \A j \in 0 .. b - 1 : buf[p + j] = Byte(c, n * FrameLen + j)
  PROVE  /\ LenAt(buf, p) \in Nat
         /\ b >= FrameLen => LenAt(buf, p) = FrameLen
         /\ b > 0 => (Incomplete(buf, p, b) <=> b < FrameLen)
<1>1. /\ p \in Places /\ p + 1 \in Places
  BY BufAssumption DEF Places
<1>2. LenAt(buf, p) = Digit(buf[p]) + Base * Digit(buf[p + 1])
  BY <1>1 DEF LenAt, Cell
<1>3. /\ Digit(buf[p]) \in Nat /\ Digit(buf[p + 1]) \in Nat
      /\ Base * Digit(buf[p + 1]) \in Nat
  BY DigitNat, LenAssumption
<1>4. LenAt(buf, p) \in Nat
  BY <1>2, <1>3
<1>5. n * FrameLen \in Nat /\ n \in Nat
  BY StartsGrow, BufAssumption
<1>6. b > 0 => Digit(buf[p]) = LenLo
  <2>1. SUFFICES ASSUME b > 0 PROVE Digit(buf[p]) = LenLo
    OBVIOUS
  <2>2. 0 \in 0 .. b - 1 /\ p + 0 = p /\ n * FrameLen + 0 = n * FrameLen
    BY <2>1, <1>5
  <2>3. buf[p] = Byte(c, n * FrameLen)
    BY <2>2
  <2> QED
    BY <2>3, HeaderDigits
<1>7. b > 1 => LenAt(buf, p) = FrameLen
  <2>1. SUFFICES ASSUME b > 1 PROVE Digit(buf[p + 1]) = LenHi
    BY <1>2, <1>6 DEF FrameLen
  <2>2. 1 \in 0 .. b - 1
    BY <2>1
  <2>3. buf[p + 1] = Byte(c, n * FrameLen + 1)
    BY <2>2
  <2> QED
    BY <2>3, HeaderDigits
<1>8. b = 1 => LenAt(buf, p) > 1
  BY <1>2, <1>3, <1>6, LenAssumption
<1> QED
  BY <1>4, <1>7, <1>8, FrameLenNat DEF Incomplete

(***************************************************************************)
(* The inductive invariant.                                                *)
(***************************************************************************)

\* Nothing was received: the invariant holds at the start.
LEMMA InitInv == ASSUME NEW c, Conns = {c} PROVE Init => Inv
<1>1. SUFFICES ASSUME Init PROVE Inv
  OBVIOUS
<1>2. StreamLen \in Nat /\ 0 * FrameLen = 0
  <2>1. MaxFrames * FrameLen \in Nat
    BY StartsGrow, BufAssumption
  <2>2. 0 * FrameLen = 0
    BY FrameLenNat
  <2> QED
    BY <2>1, <2>2 DEF StreamLen
<1>3. TypeOK
  BY <1>1, <1>2, BufAssumption, FrameLenNat DEF Init, TypeOK, Cells, Places
<1>4. Control
  BY <1>1, BufAssumption, FrameLenNat DEF Init, Control
<1>5. Pending
  BY <1>1, <1>2 DEF Init, Pending
<1>6. FramesIntact
  BY <1>1 DEF Init, FramesIntact
<1> QED
  BY <1>3, <1>4, <1>5, <1>6 DEF Inv

\* How many frames were delivered, and where the next one begins.
LEMMA FramesSoFar ==
  ASSUME NEW c, Conns = {c}, Inv
  PROVE  /\ Len(delivered[c]) \in 0 .. MaxFrames
         /\ Len(delivered[c]) * FrameLen \in Nat
         /\ bytelen >= FrameLen => Len(delivered[c]) < MaxFrames
<1> DEFINE n == Len(delivered[c])
<1>1. n \in Nat /\ MaxFrames \in Nat
  BY BufAssumption DEF Inv, TypeOK
<1>2. n * FrameLen \in Nat
  BY <1>1, StartsGrow
<1>3. n * FrameLen + bytelen <= MaxFrames * FrameLen
  <2>1. rcvd[c] <= MaxFrames * FrameLen
    BY <1>1, StartsGrow DEF Inv, TypeOK, StreamLen
  <2> QED
    BY <2>1 DEF Inv, Pending
<1>4. bytelen \in Nat
  BY DEF Inv, TypeOK
<1>5. MaxFrames * FrameLen \in Nat
  BY <1>1, StartsGrow
<1> HIDE DEF n
<1>6. n <= MaxFrames
  <2>1. SUFFICES ASSUME MaxFrames < n PROVE FALSE
    BY <1>1
  <2>2. MaxFrames * FrameLen + FrameLen <= n * FrameLen
    BY <1>1, <2>1, StartsGrow
  <2> QED
    BY <2>2, <1>2, <1>3, <1>4, <1>5, FrameLenNat
<1>7. bytelen >= FrameLen => n # MaxFrames
  BY <1>2, <1>3, <1>4, <1>5, FrameLenNat
<1> QED
  BY <1>1, <1>2, <1>6, <1>7 DEF n

\* A read event: the bytes of the stream that follow the pending ones are
\* appended to them, and the length check tells whether a frame is whole.
LEMMA ReadInv ==
  ASSUME NEW c, Conns = {c}, Inv, NEW k \in 1 .. ReadSize, Read(c, k)
  PROVE  Inv'
<1> DEFINE n == Len(delivered[c])
<1>1. /\ pc = "idle" /\ tem = 0 /\ bytelen \in Nat /\ bytelen < FrameLen
      /\ k \in Nat /\ k >= 1 /\ k <= ReadSize /\ ReadSize \in Nat /\ DataBuf \in Nat
      /\ FrameLen + ReadSize < DataBuf /\ FrameLen \in Nat
  BY BufAssumption, FrameLenNat DEF Inv, TypeOK, Control, Read
<1>2. /\ databuf' = Appended(c, k) /\ bytelen' = bytelen + k
      /\ rcvd' = [rcvd EXCEPT ![c] = @ + k] /\ tem' = 0
      /\ delivered' = delivered /\ io' = c
      /\ rcvd[c] + k <= StreamLen
      /\ pc' = IF Incomplete(databuf', 0, bytelen') THEN "idle" ELSE "loop"
  BY <1>1 DEF Read
<1>3. rcvd[c] \in Nat /\ rcvd[c] = n * FrameLen + bytelen /\ StreamLen \in Nat
  BY StartsGrow, BufAssumption DEF Inv, Pending, TypeOK, StreamLen
<1>4. n * FrameLen \in Nat /\ n \in 0 .. MaxFrames
  BY FramesSoFar
<1>5. databuf' \in [Places -> Cells]
  <2>1. databuf \in [Places -> Cells]
    BY DEF Inv, TypeOK
  <2>2. ASSUME NEW p \in Places, bytelen <= p
        PROVE  Byte(c, rcvd[c] + (p - bytelen)) \in Cells
    <3>1. rcvd[c] + (p - bytelen) \in Nat
      BY <1>1, <1>3, <2>2 DEF Places
    <3> QED
      BY <3>1 DEF Byte, Bytes, Cells
  <2> QED
    BY <1>2, <2>1, <2>2 DEF Appended
<1>6. \A j \in 0 .. bytelen' - 1 : databuf'[tem' + j] = Byte(c, n * FrameLen + j)
  <2>1. TAKE j \in 0 .. bytelen' - 1
  <2>2. j \in Places /\ tem' + j = j
    BY <1>1, <1>2 DEF Places
  <2>3. CASE j < bytelen
    <3>1. databuf'[j] = databuf[j]
      BY <1>1, <1>2, <2>2, <2>3 DEF Appended, Places
    <3>2. databuf[j] = Byte(c, n * FrameLen + j)
      <4>1. j \in 0 .. bytelen - 1 /\ tem + j = j
        BY <1>1, <2>2, <2>3 DEF Places
      <4> QED
        BY <4>1 DEF Inv, Pending
    <3> QED
      BY <2>2, <3>1, <3>2
  <2>4. CASE ~ (j < bytelen)
    <3>1. databuf'[j] = Byte(c, rcvd[c] + (j - bytelen))
      BY <1>1, <1>2, <2>2, <2>4 DEF Appended, Places
    <3>2. rcvd[c] + (j - bytelen) = n * FrameLen + j
      BY <1>1, <1>3, <1>4, <2>2 DEF Places
    <3> QED
      BY <2>2, <3>1, <3>2
  <2> QED
    BY <2>3, <2>4
<1>7. Incomplete(databuf', 0, bytelen') <=> bytelen' < FrameLen
  <2>1. \A j \in 0 .. bytelen' - 1 : databuf'[0 + j] = Byte(c, n * FrameLen + j)
    BY <1>2, <1>6
  <2>2. bytelen' \in Nat /\ 0 + bytelen' + 1 < DataBuf /\ bytelen' > 0
    BY <1>1, <1>2
  <2> QED
    BY <2>1, <2>2, <1>4, <1>5, IncompleteMeans
<1>8. TypeOK'
  BY <1>1, <1>2, <1>3, <1>5 DEF Inv, TypeOK, Places
<1>9. Control'
  BY <1>1, <1>2, <1>7 DEF Control
<1>10. Pending'
  BY <1>1, <1>2, <1>3, <1>4, <1>6 DEF Pending, Inv, TypeOK
<1>11. FramesIntact'
  BY <1>2 DEF Inv, FramesIntact
<1> QED
  BY <1>8, <1>9, <1>10, <1>11 DEF Inv

\* What every execution of a frame does, whichever way the loop goes on: the
\* frame at tembuf is the next of the stream, and what is left are the bytes
\* that follow it.
LEMMA ExecuteFrame ==
  ASSUME NEW c, Conns = {c}, Inv, Execute
  PROVE  LET n == Len(delivered[c]) IN
         /\ LenAt(databuf, tem) = FrameLen
         /\ bytelen' = bytelen - FrameLen /\ bytelen' \in Nat
         /\ tem + FrameLen + bytelen' < FrameLen + ReadSize
         /\ n < MaxFrames
         /\ delivered' = [delivered EXCEPT ![c] = Append(@, Frame(c, n))]
         /\ Len(delivered'[c]) = n + 1
         /\ rcvd[c] = (n + 1) * FrameLen + bytelen'
         /\ \A j \in 0 .. bytelen' - 1 :
               databuf[tem + FrameLen + j] = Byte(c, (n + 1) * FrameLen + j)
         /\ bytelen' > 0 => (Incomplete(databuf, tem + FrameLen, bytelen')
                               <=> bytelen' < FrameLen)
<1> DEFINE n == Len(delivered[c])
<1>1. /\ pc = "loop" /\ tem \in Nat /\ bytelen \in Nat /\ bytelen >= FrameLen
      /\ FrameLen \in Nat /\ FrameLen >= 2 /\ ReadSize \in Nat /\ DataBuf \in Nat
      /\ tem + bytelen < FrameLen + ReadSize /\ FrameLen + ReadSize < DataBuf
      /\ io = c
  BY BufAssumption, FrameLenNat DEF Inv, TypeOK, Control, Execute, Places
<1>2. /\ n \in 0 .. MaxFrames /\ n < MaxFrames /\ n * FrameLen \in Nat
      /\ n + 1 \in 0 .. MaxFrames /\ (n + 1) * FrameLen = n * FrameLen + FrameLen
  BY <1>1, FramesSoFar, StartsGrow, BufAssumption
<1>3. /\ databuf \in [Places -> Cells]
      /\ \A j \in 0 .. bytelen - 1 : databuf[tem + j] = Byte(c, n * FrameLen + j)
      /\ rcvd[c] = n * FrameLen + bytelen
  BY DEF Inv, TypeOK, Pending
<1> HIDE DEF n
<1>4. LenAt(databuf, tem) = FrameLen
  <2>1. tem + bytelen + 1 < DataBuf /\ c \in Conns
    BY <1>1
  <2> QED
    BY <1>1, <1>2, <1>3, <2>1, IncompleteMeans
<1>5. /\ bytelen' = bytelen - FrameLen /\ bytelen' \in Nat
      /\ tem + FrameLen + bytelen' < FrameLen + ReadSize
  BY <1>1, <1>4 DEF Execute
<1>6. FrameAt(tem) = Frame(c, n)
  <2>1. ASSUME NEW j \in 0 .. FrameLen - 1
        PROVE  Cell(databuf, tem + j) = Byte(c, n * FrameLen + j)
    <3>1. j \in 0 .. bytelen - 1 /\ tem + j \in Places
      BY <1>1 DEF Places
    <3> QED
      BY <1>3, <3>1 DEF Cell
  <2> QED
    BY <2>1 DEF FrameAt, Frame
<1>7. delivered' = [delivered EXCEPT ![c] = Append(@, Frame(c, n))]
  BY <1>1, <1>6 DEF Execute
<1>8. Len(delivered'[c]) = n + 1
  BY <1>7 DEF Inv, TypeOK, n
<1>9. rcvd[c] = (n + 1) * FrameLen + bytelen'
  BY <1>1, <1>2, <1>3, <1>5
<1>10. ASSUME NEW j \in 0 .. bytelen' - 1
       PROVE  databuf[tem + FrameLen + j] = Byte(c, (n + 1) * FrameLen + j)
  <2>1. /\ FrameLen + j \in 0 .. bytelen - 1 /\ tem + (FrameLen + j) = tem + FrameLen + j
        /\ n * FrameLen + (FrameLen + j) = (n + 1) * FrameLen + j
    BY <1>1, <1>2, <1>5
  <2>2. databuf[tem + (FrameLen + j)] = Byte(c, n * FrameLen + (FrameLen + j))
    BY <1>3, <2>1
  <2> QED
    BY <2>1, <2>2
<1>11. bytelen' > 0 => (Incomplete(databuf, tem + FrameLen, bytelen')
                          <=> bytelen' < FrameLen)
  <2>1. tem + FrameLen \in Nat /\ tem + FrameLen + bytelen' + 1 < DataBuf
    BY <1>1, <1>5
  <2> QED
    BY <1>2, <1>3, <1>5, <1>10, <2>1, IncompleteMeans
<1> QED
  BY <1>2, <1>4, <1>5, <1>7, <1>8, <1>9, <1>10, <1>11 DEF n

\* The delivered commands stay the commands that were sent, in order.
LEMMA ExecuteIntact ==
  ASSUME NEW c, Conns = {c}, Inv, Execute
  PROVE  /\ FramesIntact'
         /\ delivered' \in [Conns -> Seq([0 .. FrameLen - 1 -> Cells])]
<1> DEFINE n == Len(delivered[c])
<1>1. /\ delivered' = [delivered EXCEPT ![c] = Append(@, Frame(c, n))]
      /\ n \in Nat /\ n * FrameLen \in Nat
  BY ExecuteFrame, FramesSoFar
<1>2. delivered \in [Conns -> Seq([0 .. FrameLen - 1 -> Cells])]
  BY DEF Inv, TypeOK
<1>3. Frame(c, n) \in [0 .. FrameLen - 1 -> Cells]
  <2>1. \A j \in 0 .. FrameLen - 1 : n * FrameLen + j \in Nat
    BY <1>1, FrameLenNat
  <2> QED
    BY <2>1 DEF Frame, Byte, Bytes, Cells
<1>4. \A i \in DOMAIN delivered[c] : delivered[c][i] = Frame(c, i - 1)
  BY DEF Inv, FramesIntact
<1> HIDE DEF n
<1>5. delivered'[c] = Append(delivered[c], Frame(c, n)) /\ n = Len(delivered[c])
  BY <1>1, <1>2 DEF n
<1>6. ASSUME NEW i \in DOMAIN delivered'[c] PROVE delivered'[c][i] = Frame(c, i - 1)
  <2>1. i \in 1 .. n + 1
    BY <1>1, <1>2, <1>5, <1>6
  <2>2. CASE i \in 1 .. n
    BY <1>2, <1>4, <1>5, <2>2
  <2>3. CASE i = n + 1
    <3>1. i - 1 = n
      BY <1>1, <2>3
    <3> QED
      BY <1>1, <1>2, <1>5, <2>3, <3>1
  <2> QED
    BY <1>1, <2>1, <2>2, <2>3
<1>7. FramesIntact'
  BY <1>6 DEF FramesIntact
<1> QED
  BY <1>1, <1>2, <1>3, <1>7

\* The memmove brings the rest of the stream to the front of the buffer.
LEMMA HandleLastInv == ASSUME NEW c, Conns = {c}, Inv, HandleLast PROVE Inv'
<1> DEFINE n == Len(delivered[c])
<1>1. Execute
  BY DEF HandleLast
<1>2. /\ LenAt(databuf, tem) = FrameLen
      /\ bytelen' = bytelen - FrameLen /\ bytelen' \in Nat
      /\ tem + FrameLen + bytelen' < FrameLen + ReadSize
      /\ Len(delivered'[c]) = n + 1 /\ rcvd[c] = (n + 1) * FrameLen + bytelen'
      /\ \A j \in 0 .. bytelen' - 1 :
            databuf[tem + FrameLen + j] = Byte(c, (n + 1) * FrameLen + j)
      /\ bytelen' > 0 => (Incomplete(databuf, tem + FrameLen, bytelen')
                            <=> bytelen' < FrameLen)
  BY <1>1, ExecuteFrame
<1>3. /\ pc' = "idle" /\ tem' = 0 /\ rcvd' = rcvd /\ io' = io
      /\ databuf' = Moved(tem + FrameLen, bytelen')
      /\ Incomplete(databuf, tem + FrameLen, bytelen')
  BY <1>2 DEF HandleLast
<1>4. /\ FrameLen \in Nat /\ FrameLen >= 2 /\ tem \in Nat /\ DataBuf \in Nat
      /\ ReadSize \in Nat /\ FrameLen + ReadSize < DataBuf
  BY FrameLenNat, BufAssumption DEF Inv, TypeOK, Places
<1>5. /\ bytelen \in Nat /\ bytelen' = bytelen - FrameLen
      /\ bytelen - FrameLen >= 0 /\ bytelen - FrameLen < FrameLen
      /\ tem + bytelen < DataBuf
  <2>1. bytelen \in Nat /\ bytelen >= FrameLen /\ tem + bytelen < FrameLen + ReadSize
    BY <1>1 DEF Inv, TypeOK, Control, Execute
  <2>2. bytelen' = bytelen - FrameLen
    BY <1>2
  <2>3. bytelen - FrameLen < FrameLen
    BY <1>2, <1>3, <1>4, <2>1, <2>2
  <2> QED
    BY <1>4, <2>1, <2>2, <2>3
<1>6. databuf' \in [Places -> Cells]
  <2>1. databuf \in [Places -> Cells]
    BY DEF Inv, TypeOK
  <2>2. \A p : Cell(databuf, p) \in Cells
    BY <2>1, CellType
  <2> QED
    BY <1>3, <2>1, <2>2 DEF Moved
<1>7. ASSUME NEW j \in 0 .. bytelen' - 1
      PROVE  databuf'[tem' + j] = Byte(c, (n + 1) * FrameLen + j)
  <2>1. /\ j \in Places /\ j < bytelen' /\ tem' + j = j
        /\ (tem + FrameLen) + j \in Places
    BY <1>3, <1>4, <1>5 DEF Places
  <2>2. databuf'[j] = databuf[(tem + FrameLen) + j]
    BY <1>3, <2>1 DEF Moved, Cell
  <2> QED
    BY <1>2, <2>1, <2>2
<1>8. TypeOK'
  <2>1. 0 \in Places
    BY <1>4 DEF Places
  <2> QED
    BY <1>1, <1>2, <1>3, <1>6, <2>1, ExecuteIntact DEF Inv, TypeOK
<1>9. Control'
  BY <1>3, <1>4, <1>5 DEF Control
<1>10. Pending'
  BY <1>2, <1>3, <1>7 DEF Pending
<1> QED
  BY <1>1, <1>8, <1>9, <1>10, ExecuteIntact DEF Inv

\* The loop ends because nothing is left.
LEMMA HandleDrainedInv == ASSUME NEW c, Conns = {c}, Inv, HandleDrained PROVE Inv'
<1> DEFINE n == Len(delivered[c])
<1>1. Execute
  BY DEF HandleDrained
<1>2. Len(delivered'[c]) = n + 1 /\ rcvd[c] = (n + 1) * FrameLen + bytelen'
  BY <1>1, ExecuteFrame
<1>3. /\ pc' = "idle" /\ tem' = 0 /\ rcvd' = rcvd /\ io' = io
      /\ databuf' = databuf /\ bytelen' = 0
  BY DEF HandleDrained
<1>4. /\ FrameLen \in Nat /\ FrameLen >= 2 /\ DataBuf \in Nat /\ ReadSize \in Nat
      /\ FrameLen + ReadSize < DataBuf
  BY FrameLenNat, BufAssumption
<1>5. TypeOK'
  <2>1. 0 \in Places
    BY <1>4 DEF Places
  <2> QED
    BY <1>1, <1>3, <2>1, ExecuteIntact DEF Inv, TypeOK
<1>6. Control'
  BY <1>3, <1>4 DEF Control
<1>7. Pending'
  <2>1. 0 .. bytelen' - 1 = {}
    BY <1>3
  <2> QED
    BY <1>2, <1>3, <2>1 DEF Pending
<1> QED
  BY <1>1, <1>5, <1>6, <1>7, ExecuteIntact DEF Inv

\* The loop goes on with the next whole frame.
LEMMA HandleMoreInv == ASSUME NEW c, Conns = {c}, Inv, HandleMore PROVE Inv'
<1> DEFINE n == Len(delivered[c])
<1>1. Execute
  BY DEF HandleMore
<1>2. /\ LenAt(databuf, tem) = FrameLen /\ bytelen' = bytelen - FrameLen
      /\ bytelen' \in Nat /\ tem + FrameLen + bytelen' < FrameLen + ReadSize
      /\ Len(delivered'[c]) = n + 1 /\ rcvd[c] = (n + 1) * FrameLen + bytelen'
      /\ \A j \in 0 .. bytelen' - 1 :
            databuf[tem + FrameLen + j] = Byte(c, (n + 1) * FrameLen + j)
      /\ bytelen' > 0 => (Incomplete(databuf, tem + FrameLen, bytelen')
                            <=> bytelen' < FrameLen)
  BY <1>1, ExecuteFrame
<1>3. /\ pc' = pc /\ tem' = tem + FrameLen /\ rcvd' = rcvd /\ io' = io
      /\ databuf' = databuf /\ bytelen' # 0 /\ pc = "loop"
      /\ ~ Incomplete(databuf, tem + FrameLen, bytelen')
  BY <1>1, <1>2 DEF HandleMore, Execute
<1>4. /\ FrameLen \in Nat /\ FrameLen >= 2 /\ tem \in Nat /\ DataBuf \in Nat
      /\ ReadSize \in Nat /\ FrameLen + ReadSize < DataBuf
  BY FrameLenNat, BufAssumption DEF Inv, TypeOK, Places
<1>5. bytelen' >= FrameLen
  BY <1>2, <1>3, <1>4
<1>6. TypeOK'
  <2>1. tem' \in Places
    BY <1>2, <1>3, <1>4 DEF Places
  <2> QED
    BY <1>1, <1>2, <1>3, <2>1, ExecuteIntact DEF Inv, TypeOK
<1>7. Control'
  BY <1>2, <1>3, <1>4, <1>5 DEF Control
<1>8. Pending'
  BY <1>2, <1>3 DEF Pending
<1> QED
  BY <1>1, <1>6, <1>7, <1>8, ExecuteIntact DEF Inv

\* Every step of the program keeps the invariant.
LEMMA NextInv == ASSUME NEW c, Conns = {c}, Inv, [Next]_vars PROVE Inv'
<1>1. CASE \E k \in 1 .. ReadSize : Read(c, k)
  BY <1>1, ReadInv
<1>2. CASE HandleLast
  BY <1>2, HandleLastInv
<1>3. CASE HandleDrained
  BY <1>3, HandleDrainedInv
<1>4. CASE HandleMore
  BY <1>4, HandleMoreInv
<1>5. CASE UNCHANGED vars
  BY <1>5 DEF vars, Inv, TypeOK, Control, Pending, FramesIntact
<1> QED
  BY <1>1, <1>2, <1>3, <1>4, <1>5 DEF Next, ReadFrom, Handle

\* With one connection the invariant holds for ever, whatever the constants.
THEOREM Invariance == ASSUME NEW CONSTANT c, Conns = {c} PROVE Spec => []Inv
<1>1. Init => Inv
  BY InitInv
<1>2. Inv /\ [Next]_vars => Inv'
  BY NextInv
<1> QED
  BY <1>1, <1>2, PTL DEF Spec

\* tcp_recv keeps its variables in their ranges; tembuf stays inside databuf.
THEOREM TypeCorrect ==
  ASSUME NEW CONSTANT c, Conns = {c} PROVE Spec => []TypeOK
<1>1. Inv => TypeOK
  BY DEF Inv
<1> QED
  BY <1>1, Invariance, PTL

\* tcp_recv never writes behind databuf.
THEOREM BufferNeverOverrun ==
  ASSUME NEW CONSTANT c, Conns = {c} PROVE Spec => []BufferFits
<1>1. Inv => BufferFits
  <2>1. SUFFICES ASSUME Inv PROVE BufferFits
    OBVIOUS
  <2>2. /\ bytelen \in Nat /\ tem \in Nat /\ tem + bytelen < FrameLen + ReadSize
        /\ FrameLen + ReadSize < DataBuf /\ FrameLen \in Nat /\ ReadSize \in Nat
        /\ DataBuf \in Nat
    BY <2>1, BufAssumption, FrameLenNat DEF Inv, TypeOK, Control, Places
  <2> QED
    BY <2>2 DEF BufferFits
<1> QED
  BY <1>1, Invariance, PTL

\* A whole command never waits in the buffer for the next one to arrive.
THEOREM NoFrameEverLeftBehind ==
  ASSUME NEW CONSTANT c, Conns = {c} PROVE Spec => []NoFrameLeftBehind
<1>1. Inv => NoFrameLeftBehind
  BY DEF Inv, Control, NoFrameLeftBehind
<1> QED
  BY <1>1, Invariance, PTL

\* Handlers execute the commands that were sent, whole and in order.
THEOREM FramesAlwaysIntact ==
  ASSUME NEW CONSTANT c, Conns = {c} PROVE Spec => []FramesIntact
<1>1. Inv => FramesIntact
  BY DEF Inv
<1> QED
  BY <1>1, Invariance, PTL

(***************************************************************************)
(* The implementation of the stream of commands.                           *)
(***************************************************************************)

\* A frame that was sent has one number.
LEMMA NumberOfFrame ==
  ASSUME NEW c \in Conns, NEW m \in 0 .. MaxFrames - 1
  PROVE  NumberOf(c, Frame(c, m)) = m
<1>1. m \in Nat /\ MaxFrames \in Nat /\ 0 \in 0 .. FrameLen - 1
  BY BufAssumption, FrameLenNat
<1>2. ASSUME NEW k \in 0 .. MaxFrames - 1, Frame(c, m) = Frame(c, k) PROVE m = k
  <2>1. Frame(c, m)[0] = Byte(c, m * FrameLen + 0) /\ Frame(c, k)[0] = Byte(c, k * FrameLen + 0)
    BY <1>1 DEF Frame
  <2>2. m * FrameLen + 0 = k * FrameLen + 0
    BY <1>2, <2>1 DEF Byte
  <2>3. k \in Nat /\ m * FrameLen \in Nat /\ k * FrameLen \in Nat
    BY <1>1, StartsGrow
  <2>4. m * FrameLen = k * FrameLen
    BY <2>2, <2>3
  <2> QED
    BY <1>1, <2>3, <2>4, StartsDiffer
<1> QED
  BY <1>2 DEF NumberOf

\* What was delivered are the commands 0, 1, ... of the connection.
LEMMA LogIs ==
  ASSUME NEW c, Conns = {c}, Inv
  PROVE  Log = [d \in Conns |-> [i \in 1 .. Len(delivered[c]) |-> i - 1]]
<1>1. Len(delivered[c]) \in 0 .. MaxFrames /\ MaxFrames \in Nat
  BY FramesSoFar, BufAssumption
<1>2. ASSUME NEW i \in 1 .. Len(delivered[c])
      PROVE  NumberOf(c, delivered[c][i]) = i - 1
  <2>1. delivered[c][i] = Frame(c, i - 1)
    BY DEF Inv, FramesIntact, TypeOK
  <2>2. i - 1 \in 0 .. MaxFrames - 1
    BY <1>1
  <2> QED
    BY <2>1, <2>2, NumberOfFrame
<1> QED
  BY <1>2 DEF Log

\* To execute a frame is to deliver the next command.
LEMMA ExecuteDelivers ==
  ASSUME NEW c, Conns = {c}, Inv, Execute, Inv'
  PROVE  Stream!Deliver(c)
<1> DEFINE n == Len(delivered[c])
<1>1. n \in Nat /\ n < MaxFrames /\ Len(delivered'[c]) = n + 1
  BY ExecuteFrame, FramesSoFar
<1>2. Log = [d \in Conns |-> [i \in 1 .. n |-> i - 1]]
  BY LogIs
<1>3. Log' = [d \in Conns |-> [i \in 1 .. n + 1 |-> i - 1]]
  <2>1. ASSUME NEW i \in 1 .. Len(delivered'[c])
        PROVE  NumberOf(c, delivered'[c][i]) = i - 1
    <3>1. delivered'[c][i] = Frame(c, i - 1)
      BY DEF Inv, FramesIntact, TypeOK
    <3>2. i - 1 \in 0 .. MaxFrames - 1
      BY <1>1, BufAssumption
    <3> QED
      BY <3>1, <3>2, NumberOfFrame
  <2> QED
    BY <1>1, <2>1 DEF Log
<1> HIDE DEF n
<1>4. Log[c] = [i \in 1 .. n |-> i - 1] /\ Log[c] \in Seq(Nat) /\ Len(Log[c]) = n
  BY <1>1, <1>2
<1>5. Append(Log[c], n) = [i \in 1 .. n + 1 |-> i - 1]
  BY <1>1, <1>4
<1>6. Log' = [Log EXCEPT ![c] = Append(@, Len(@))]
  BY <1>2, <1>3, <1>4, <1>5
<1> QED
  BY <1>1, <1>4, <1>6 DEF Stream!Deliver

\* tcp_recv implements the stream of commands, liveness apart.
THEOREM StreamImplemented ==
  ASSUME NEW CONSTANT c, Conns = {c} PROVE Spec => ImplementsStreamSafety
<1>1. Init => Stream!Init
  BY DEF Init, Stream!Init, Log
<1>2. Inv /\ Inv' /\ [Next]_vars => [Stream!Next]_Log
  <2>1. SUFFICES ASSUME Inv, Inv', [Next]_vars PROVE Stream!Next \/ Log' = Log
    BY DEF Stream!Next
  <2>2. CASE Execute
    BY <2>1, <2>2, ExecuteDelivers DEF Stream!Next
  <2>3. CASE delivered' = delivered
    BY <2>3 DEF Log, NumberOf
  <2> QED
    BY <2>1, <2>2, <2>3
       DEF Next, ReadFrom, Read, Handle, HandleLast, HandleDrained, HandleMore, vars
<1> QED
  BY <1>1, <1>2, Invariance, PTL DEF Spec, ImplementsStreamSafety, Stream!Safety
=============================================================================
