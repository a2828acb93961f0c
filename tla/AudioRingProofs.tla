---------------------------- MODULE AudioRingProofs ----------------------------
(***************************************************************************)
(* Theorems about AudioRing, for every capacity, hop, window and length of *)
(* frame.  That the ring holds the latest audio is inductive by itself;    *)
(* what a slice holds follows from it and from the total never falling.    *)
(***************************************************************************)
EXTENDS AudioRing, SequenceTheorems, TLAPS

\* The processor works with totals that were reached.
Bounds ==
  /\ last <= total /\ end <= total /\ seen <= total
  /\ reader = "begun" => end = last + Hop
  /\ reader = "locking" => end <= seen /\ end = last + Hop /\ want >= Hop

IInv == TypeOK /\ RingHoldsLatest /\ Bounds /\ SliceIsAudio

LEMMA CapIsPositive == Cap \in Nat \ {0}
BY ConstantsAssumption

LEMMA InitIInv == Init => IInv
<1> SUFFICES ASSUME Init PROVE IInv
  OBVIOUS
<1> USE ConstantsAssumption, CapIsPositive
<1>1. 0 \in Positions /\ 0 \in 0..MaxTotal /\ 0 \in 0..Cap
  BY DEF Positions
<1>2. slice \in [start : 0..MaxTotal, bytes : Seq(0..MaxTotal)]
  BY <1>1 DEF Init
<1>3. buf \in [Positions -> 0..MaxTotal]
  BY <1>1 DEF Init
<1>4. TypeOK
  BY <1>1, <1>2, <1>3 DEF Init, TypeOK
<1>5. RingHoldsLatest
  BY DEF Init, RingHoldsLatest, AtMost
<1>6. Bounds /\ SliceIsAudio
  BY DEF Init, Bounds, SliceIsAudio
<1>7. QED
  BY <1>4, <1>5, <1>6 DEF IInv

-----------------------------------------------------------------------------
(* The ring                                                                 *)

LEMMA WrapInt ==
  ASSUME NEW i \in Int
  PROVE  Wrap(i) \in Int
BY CapIsPositive DEF Wrap

LEMMA AtLeastInt ==
  ASSUME NEW i \in Int, NEW j \in Int
  PROVE  AtLeast(i, j) \in Int
BY DEF AtLeast

\* RingHoldsLatest of any ring, to state it of the next one.
Holds(b, start, n, t) ==
  /\ n = AtMost(t, Cap)
  /\ \A k \in 0..(n - 1) : b[Wrap(start + k)] = t - n + k + 1

LEMMA HoldsNow == RingHoldsLatest <=> Holds(buf, StartPos, len, total)
BY DEF RingHoldsLatest, Holds

LEMMA HoldsNext == RingHoldsLatest' <=> Holds(buf', (StartPos)', len', total')
BY DEF RingHoldsLatest, Holds

\* A frame shorter than the ring keeps it right.  Position k of the new contents
\* is byte k - (newLen - n) of the frame, or comes from the old contents.
LEMMA ShortFrame ==
  ASSUME TypeOK, RingHoldsLatest, NEW n \in Nat \ {0}, n < Cap,
         NEW newLen \in Int, newLen = AtMost(len + n, Cap),
         NEW newPos \in Int, newPos = Wrap(writePos + n),
         NEW newStart \in Int, newStart = Wrap(newPos + Cap - newLen),
         NEW newBuf,
         newBuf = [i \in Positions |-> IF Ahead(i) < n THEN total + 1 + Ahead(i) ELSE buf[i]]
  PROVE  /\ newLen \in 0..Cap /\ newPos \in Positions
         /\ Holds(newBuf, newStart, newLen, total + n)
<1> USE CapIsPositive
<1>1. /\ writePos \in Int /\ 0 <= writePos /\ writePos < Cap
      /\ len \in Int /\ 0 <= len /\ len <= Cap /\ total \in Nat
      /\ n \in Int /\ 0 < n
  BY DEF TypeOK, Positions
<1>2. newLen \in 0..Cap /\ newLen = AtMost(total + n, Cap)
  BY <1>1 DEF RingHoldsLatest, AtMost
<1>3. newPos \in Positions
  BY <1>1 DEF Wrap, Positions
<1>4. ASSUME NEW k \in 0..(newLen - 1)
      PROVE  newBuf[Wrap(newStart + k)] = (total + n) - newLen + k + 1
  <2>0. k \in Int /\ 0 <= k /\ k < newLen
    OBVIOUS
  <2>1. PICK start \in Int : start = Wrap(writePos + Cap - len)
    BY <1>1, WrapInt
  <2>2. PICK pos \in Int : pos = Wrap(newStart + k)
    BY <1>1, WrapInt
  <2>3. PICK ahead \in Int : ahead = Wrap(pos + Cap - writePos)
    BY <1>1, WrapInt
  <2>4. 0 <= pos /\ pos < Cap
    BY <1>1, <2>0, <2>2 DEF Wrap, AtMost
  <2>5. newBuf[pos] = IF ahead < n THEN total + 1 + ahead ELSE buf[pos]
    BY <2>3, <2>4 DEF Ahead, Positions
  <2>6. CASE k >= newLen - n
    <3>1. ahead = k - (newLen - n)
      BY <1>1, <2>0, <2>2, <2>3, <2>6 DEF Wrap, AtMost
    <3>2. QED
      BY <1>1, <2>0, <2>2, <2>5, <2>6, <3>1
  <2>7. CASE k < newLen - n
    <3>1. PICK j \in Int : j = k + len - (newLen - n)
      BY <1>1
    <3>2. ahead >= n
      BY <1>1, <2>0, <2>2, <2>3, <2>7 DEF Wrap, AtMost
    <3>3. pos = Wrap(start + j) /\ 0 <= j /\ j < len
      BY <1>1, <2>0, <2>1, <2>2, <2>7, <3>1 DEF Wrap, AtMost
    <3>4. buf[pos] = total - len + j + 1
      BY <1>1, <2>1, <3>3 DEF RingHoldsLatest, StartPos
    <3>5. QED
      BY <1>1, <2>0, <2>2, <2>5, <3>1, <3>2, <3>4
  <2>8. QED
    BY <1>1, <2>0, <2>6, <2>7
<1>5. QED
  BY <1>2, <1>3, <1>4, Zenon DEF Holds

LEMMA WriteKeeps ==
  ASSUME TypeOK, RingHoldsLatest, NEW n \in Nat \ {0}, n < Cap,
         total + n <= MaxTotal, total' = total + n, Write(n)
  PROVE  /\ RingHoldsLatest'
         /\ buf' \in [Positions -> 0..MaxTotal]
         /\ writePos' \in Positions /\ len' \in 0..Cap
<1> USE CapIsPositive, ConstantsAssumption
<1>1. PICK newLen \in Int : newLen = AtMost(len + n, Cap)
  BY DEF TypeOK, AtMost
<1>2. PICK newPos \in Int : newPos = Wrap(writePos + n)
  BY WrapInt DEF TypeOK, Positions
<1>3. PICK newStart \in Int : newStart = Wrap(newPos + Cap - newLen)
  BY WrapInt
<1>4. PICK newBuf : newBuf = [i \in Positions |-> IF Ahead(i) < n THEN total + 1 + Ahead(i) ELSE buf[i]]
  OBVIOUS
<1>5. len' = newLen /\ writePos' = newPos /\ buf' = newBuf
  BY <1>1, <1>2, <1>4 DEF Write
<1>6. /\ newLen \in 0..Cap /\ newPos \in Positions
      /\ Holds(newBuf, newStart, newLen, total + n)
  BY <1>1, <1>2, <1>3, <1>4, ShortFrame
<1>7. (StartPos)' = newStart
  BY <1>3, <1>5 DEF StartPos, Wrap
<1>8. newBuf \in [Positions -> 0..MaxTotal]
  BY <1>4 DEF TypeOK, Positions, Wrap, Ahead
<1>9. RingHoldsLatest'
  BY <1>5, <1>6, <1>7, HoldsNext
<1>10. QED
  BY <1>5, <1>6, <1>8, <1>9

\* A longer one replaces it.
LEMMA OverwriteKeeps ==
  ASSUME TypeOK, NEW n \in Nat \ {0}, n >= Cap,
         total + n <= MaxTotal, total' = total + n, Overwrite(n)
  PROVE  /\ RingHoldsLatest'
         /\ buf' \in [Positions -> 0..MaxTotal]
         /\ writePos' \in Positions /\ len' \in 0..Cap
<1> USE CapIsPositive, ConstantsAssumption
<1> DEFINE newBuf == [i \in Positions |-> total + n - Cap + i + 1]
<1>1. buf' \in [Positions -> 0..MaxTotal] /\ writePos' \in Positions /\ len' \in 0..Cap
  BY DEF Overwrite, TypeOK, Positions
<1>2. len' = Cap /\ (StartPos)' = 0 /\ buf' = newBuf
  BY DEF Overwrite, StartPos, Wrap
<1>3. Cap = AtMost(total + n, Cap)
  BY DEF TypeOK, AtMost
<1>4. Holds(newBuf, 0, Cap, total + n)
  <2>1. total \in Int /\ n \in Int
    BY DEF TypeOK
  <2>2. ASSUME NEW k \in 0..(Cap - 1)
        PROVE  newBuf[Wrap(0 + k)] = (total + n) - Cap + k + 1
    <3>1. k \in Int /\ 0 <= k /\ k < Cap
      OBVIOUS
    <3>2. Wrap(0 + k) = k /\ k \in Positions
      BY <3>1 DEF Wrap, Positions
    <3>3. QED
      BY <2>1, <3>1, <3>2
  <2>3. QED
    BY <1>3, <2>2, Zenon DEF Holds
<1>5. RingHoldsLatest'
  <2> HIDE DEF newBuf
  <2>1. QED
    BY <1>2, <1>4, HoldsNext
<1>6. QED
  BY <1>1, <1>5

\* What copy_range returns: the bytes from offset on, as many as there are.
LEMMA CopyRangeReads ==
  ASSUME TypeOK, RingHoldsLatest, NEW offset \in 0..len, NEW n \in Nat
  PROVE  /\ CopyRange(offset, n) \in Seq(0..MaxTotal)
         /\ Len(CopyRange(offset, n)) = AtMost(n, len - offset)
         /\ \A k \in 1..AtMost(n, len - offset) :
              CopyRange(offset, n)[k] = (total - len) + offset + k
<1> USE CapIsPositive, ConstantsAssumption
<1> DEFINE m == AtMost(n, len - offset)
           pos == Wrap(StartPos + offset)
<1>1. m \in Nat /\ m <= len - offset
  BY DEF AtMost, TypeOK
<1>2. CopyRange(offset, n) = [k \in 1..m |-> buf[Wrap(pos + k - 1)]]
  <2>1. AtMost(offset, len) = offset
    BY DEF AtMost, TypeOK
  <2>2. QED
    BY <2>1 DEF CopyRange
<1>3. ASSUME NEW k \in 1..m
      PROVE  buf[Wrap(pos + k - 1)] = (total - len) + offset + k
  <2>1. offset + k - 1 \in 0..(len - 1)
    BY <1>1 DEF TypeOK
  <2>2. Wrap(pos + k - 1) = Wrap(StartPos + (offset + k - 1))
    BY <1>1, <2>1 DEF TypeOK, StartPos, Wrap, Positions
  <2>3. QED
    BY <2>1, <2>2 DEF RingHoldsLatest, TypeOK
<1>4. \A k \in 1..m : total - len + offset + k \in 0..MaxTotal
  BY <1>1 DEF TypeOK, RingHoldsLatest, AtMost
<1>5. QED
  BY <1>1, <1>2, <1>3, <1>4

-----------------------------------------------------------------------------
(* The steps                                                                *)

\* When the ring is right, the oldest byte it keeps is total - len + 1.
LEMMA Types ==
  ASSUME IInv
  PROVE  /\ total \in Nat /\ total <= MaxTotal /\ last \in Nat /\ end \in Nat /\ seen \in Nat
         /\ len \in Nat /\ len <= Cap /\ len <= total
         /\ want \in Nat /\ MaxTotal \in Nat /\ Hop \in Nat \ {0}
BY ConstantsAssumption, CapIsPositive DEF IInv, TypeOK, RingHoldsLatest, AtMost

LEMMA PushStep ==
  ASSUME IInv, NEW n \in Frames, Push(n)
  PROVE  IInv'
<1> USE ConstantsAssumption, Types
<1>1. n \in Nat \ {0}
  OBVIOUS
<1>2. /\ total + n <= MaxTotal /\ total' = total + n
      /\ UNCHANGED <<last, reader, end, want, seen, slice>>
  BY DEF Push
<1>3. /\ RingHoldsLatest' /\ buf' \in [Positions -> 0..MaxTotal]
      /\ writePos' \in Positions /\ len' \in 0..Cap
  <2>1. CASE n >= Cap
    BY <1>1, <1>2, <2>1, OverwriteKeeps DEF Push, IInv
  <2>2. CASE n < Cap
    BY <1>1, <1>2, <2>2, CapIsPositive, WriteKeeps DEF Push, IInv
  <2>3. QED
    BY <1>1, <2>1, <2>2, CapIsPositive
<1>4. total + n \in 0..MaxTotal
  BY <1>1, <1>2
<1>5. TypeOK'
  BY <1>2, <1>3, <1>4 DEF IInv, TypeOK
<1>6. Bounds'
  <2>1. last <= total + n /\ end <= total + n /\ seen <= total + n
    BY <1>1 DEF IInv, Bounds
  <2>2. QED
    BY <1>2, <2>1 DEF IInv, Bounds
<1>7. SliceIsAudio'
  <2>1. \A k \in DOMAIN slice.bytes :
          slice.bytes[k] \in 1..(total + n) /\ slice.bytes[k] = slice.bytes[1] + k - 1
    BY <1>1 DEF IInv, SliceIsAudio
  <2>2. QED
    BY <1>2, <2>1, Zenon DEF SliceIsAudio
<1>8. QED
  BY <1>3, <1>5, <1>6, <1>7 DEF IInv

LEMMA ProcessorSteps ==
  ASSUME IInv, SkipSilentHop \/ Begin \/ ReadTotal \/ Advance
  PROVE  IInv'
<1> USE ConstantsAssumption, Types DEF ring
<1>1. last + Hop <= total => last + Hop \in 0..MaxTotal
  OBVIOUS
<1>2. UNCHANGED <<ring, len, total>> => (RingHoldsLatest' <=> RingHoldsLatest)
  BY DEF RingHoldsLatest, StartPos
<1>3. CASE SkipSilentHop
  BY <1>1, <1>2, <1>3 DEF SkipSilentHop, EnoughToProcess, IInv, TypeOK, Bounds, SliceIsAudio
<1>4. CASE Begin
  BY <1>1, <1>2, <1>4 DEF Begin, EnoughToProcess, IInv, TypeOK, Bounds, SliceIsAudio
<1>5. CASE ReadTotal
  BY <1>1, <1>2, <1>5 DEF ReadTotal, AtMost, IInv, TypeOK, Bounds, SliceIsAudio
<1>6. CASE Advance
  BY <1>1, <1>2, <1>6 DEF Advance, IInv, TypeOK, Bounds, SliceIsAudio
<1>7. QED
  BY <1>3, <1>4, <1>5, <1>6

\* What the processor gets under the lock: size consecutive bytes, off bytes
\* after the oldest one kept, labelled off bytes after where it believes that one
\* to be (rs).  One byte of the n it asked for may be missing.
Copied(rs, off, n, size) ==
  /\ rs = AtLeast(seen - len, 0)
  /\ rs + off + n = AtLeast(end, rs)
  /\ rs + off = AtLeast(AtLeast((rs + off + n) - want, 0), rs)
  /\ off + n <= len /\ size <= n /\ n \in {size, size + 1}
  /\ slice'.start = rs + off
  /\ slice'.bytes \in Seq(0..MaxTotal) /\ Len(slice'.bytes) = size
  /\ \A k \in 1..size : slice'.bytes[k] = (total - len) + off + k

LEMMA CopyStep ==
  ASSUME IInv, Copy
  PROVE  \E rs, off, n, size \in Nat : Copied(rs, off, n, size)
<1>0. /\ total \in Int /\ len \in Int /\ 0 <= len /\ len <= Cap /\ len <= total
      /\ end \in Int /\ 0 <= end /\ seen \in Int /\ 0 <= seen /\ want \in Int /\ 0 <= want
      /\ end <= seen /\ seen <= total /\ Cap \in Int
  BY Types, CapIsPositive DEF Copy, IInv, Bounds
<1>1. PICK rs \in Int : rs = RingStart
  BY <1>0, AtLeastInt DEF RingStart
<1>2. PICK eb \in Int : eb = EndByte
  BY <1>0, <1>1, AtLeastInt DEF EndByte
<1>3. PICK sb \in Int : sb = StartByte
  <2>1. AtLeast(eb - want, 0) \in Int
    BY <1>0, AtLeastInt
  <2>2. QED
    BY <1>1, <1>2, <2>1, AtLeastInt DEF StartByte
<1>4. 0 <= rs /\ rs = AtLeast(seen - len, 0)
  BY <1>0, <1>1 DEF RingStart, AtLeast
<1>5. rs <= sb /\ sb <= eb /\ eb - rs <= len
  BY <1>0, <1>1, <1>2, <1>3, <1>4 DEF RingStart, EndByte, StartByte, AtLeast
<1>6. PICK n \in Nat : n = eb - sb
  BY <1>5
<1>7. PICK off \in Nat : off = sb - rs /\ off + n <= len
  BY <1>5, <1>6
<1>8. PICK size \in Nat : size = n - (n % 2) /\ size <= n /\ n \in {size, size + 1}
  BY <1>6
<1>9. PICK s : s = CopyRange(off, n)
  OBVIOUS
<1>10. /\ s \in Seq(0..MaxTotal) /\ Len(s) = n
       /\ \A k \in 1..n : s[k] = (total - len) + off + k
  <2>1. off \in 0..len /\ AtMost(n, len - off) = n
    BY <1>0, <1>7 DEF AtMost
  <2>2. TypeOK /\ RingHoldsLatest
    BY DEF IInv
  <2>3. /\ s \in Seq(0..MaxTotal) /\ Len(s) = n
        /\ \A k \in 1..n : s[k] = total - len + off + k
    BY <1>9, <2>1, <2>2, CopyRangeReads
  <2>4. \A k \in 1..n : total - len + off + k = (total - len) + off + k
    BY <1>0
  <2>5. QED
    BY <2>3, <2>4
<1>11. PICK w : w = SubSeq(s, 1, size)
  OBVIOUS
<1>12. w = WholeSamples(s)
  BY <1>8, <1>10, <1>11 DEF WholeSamples
<1>13. w \in Seq(0..MaxTotal) /\ Len(w) = size /\ \A k \in 1..size : w[k] = s[k]
  <2>1. ASSUME NEW i \in 1..size
        PROVE  s[i] \in 0..MaxTotal
    <3>1. i \in 1..Len(s)
      BY <1>8, <1>10
    <3>2. QED
      BY <1>10, <3>1, ElementOfSeq
  <2>2. /\ w \in Seq(0..MaxTotal)
        /\ Len(w) = IF 1 <= size THEN size - 1 + 1 ELSE 0
        /\ \A i \in 1..(size - 1 + 1) : w[i] = s[1 + i - 1]
    BY <1>11, <2>1, SubSeqProperties
  <2>3. Len(w) = size
    BY <2>2
  <2>4. ASSUME NEW k \in 1..size
        PROVE  w[k] = s[k]
    <3>1. k \in Int /\ k \in 1..(size - 1 + 1) /\ 1 + k - 1 = k
      OBVIOUS
    <3>2. QED
      BY <2>2, <3>1
  <2>5. QED
    BY <2>2, <2>3, <2>4
<1>14. slice' = [start |-> sb, bytes |-> w]
  BY <1>1, <1>2, <1>3, <1>5, <1>6, <1>7, <1>9, <1>12 DEF Copy, AtLeast
<1>15. \A k \in 1..size : w[k] = (total - len) + off + k
  BY <1>8, <1>10, <1>13
<1>16. /\ rs + off + n = AtLeast(end, rs)
       /\ rs + off = AtLeast(AtLeast((rs + off + n) - want, 0), rs)
  <2>1. rs + off + n = eb /\ rs + off = sb
    BY <1>6, <1>7
  <2>2. QED
    BY <1>1, <1>2, <1>3, <2>1 DEF EndByte, StartByte
<1>17. rs \in Nat /\ sb = rs + off
  BY <1>4, <1>7
<1>18. Copied(rs, off, n, size)
  <2>1. slice'.start = sb /\ slice'.bytes = w
    BY <1>14
  <2>2. QED
    BY <1>4, <1>7, <1>8, <1>13, <1>15, <1>16, <1>17, <2>1 DEF Copied
<1>19. QED
  BY <1>17, <1>18

LEMMA CopyKeeps ==
  ASSUME IInv, Copy
  PROVE  IInv'
<1> USE DEF ring
<1>0. /\ total \in Int /\ len \in Int /\ 0 <= len /\ len <= total /\ total <= MaxTotal
      /\ seen \in Int /\ seen <= total /\ MaxTotal \in Int
  BY Types DEF IInv, Bounds
<1>1. PICK rs, off, n, size \in Nat : Copied(rs, off, n, size)
  BY CopyStep
<1>2. slice' \in [start : 0..MaxTotal, bytes : Seq(0..MaxTotal)]
  <2>1. rs + off \in 0..MaxTotal
    BY <1>0, <1>1 DEF AtLeast, Copied
  <2>2. slice' = [start |-> slice'.start, bytes |-> slice'.bytes]
    BY DEF Copy
  <2>3. QED
    BY <1>1, <2>1, <2>2 DEF Copied
<1>3. UNCHANGED <<ring, last, end, want, seen>> /\ reader' = "slice"
  BY DEF Copy
<1>4. TypeOK' /\ Bounds'
  BY <1>2, <1>3 DEF IInv, TypeOK, Bounds
<1>5. RingHoldsLatest'
  BY <1>3 DEF IInv, RingHoldsLatest, StartPos
<1>6. PICK s : s = slice'.bytes
  OBVIOUS
<1>7. \A k \in DOMAIN s : s[k] \in 1..total /\ s[k] = s[1] + k - 1
  <2>1. s \in Seq(0..MaxTotal) /\ DOMAIN s = 1..size
    BY <1>1, <1>6 DEF Copied
  <2>2. ASSUME NEW k \in 1..size
        PROVE  s[k] \in 1..total /\ s[k] = s[1] + k - 1
    <3>1. s[k] = (total - len) + off + k /\ s[1] = (total - len) + off + 1
      BY <1>1, <1>6 DEF Copied
    <3>2. off + k <= len /\ k \in Int /\ 1 <= k
      BY <1>0, <1>1 DEF Copied
    <3>3. QED
      BY <1>0, <1>1, <3>1, <3>2
  <2>3. QED
    BY <2>1, <2>2
<1>8. SliceIsAudio'
  BY <1>3, <1>6, <1>7, Zenon DEF SliceIsAudio, Copy, ring
<1>9. QED
  BY <1>4, <1>5, <1>8 DEF IInv

LEMMA NextIInv == IInv /\ [Next]_vars => IInv'
<1> SUFFICES ASSUME IInv, [Next]_vars PROVE IInv'
  OBVIOUS
<1>1. CASE UNCHANGED vars
  BY <1>1 DEF vars, IInv, TypeOK, RingHoldsLatest, StartPos, Bounds, SliceIsAudio
<1>2. QED
  BY <1>1, PushStep, ProcessorSteps, CopyKeeps DEF Next

LEMMA IInvHolds == Spec => []IInv
BY InitIInv, NextIInv, PTL DEF Spec

-----------------------------------------------------------------------------
(* The theorems                                                             *)

\* Every variable keeps its range.
THEOREM TypesHold == Spec => []TypeOK
BY IInvHolds, PTL DEF IInv

\* RingBuf keeps the latest audio, for every capacity and every frame length.
THEOREM RingIsRight == Spec => []RingHoldsLatest
BY IInvHolds, PTL DEF IInv

\* extract_pcm_range returns one stretch of received audio, however pushes and
\* slices interleave.
THEOREM SlicesAreAudio == Spec => []SliceIsAudio
BY IInvHolds, PTL DEF IInv

\* The label of a slice is off by at most what was pushed between the reading of
\* the total and the lock.
THEOREM LabelsStayClose == Spec => LabelsAreClose
<1> DEFINE Close ==
      reader # "slice" /\ reader' = "slice" /\ slice'.bytes # << >> =>
        /\ TrueStart(slice') - slice'.start \in 0..(total - seen)
        /\ total <= Cap => TrueStart(slice') = slice'.start
<1>1. ASSUME IInv, Next, reader # "slice", reader' = "slice", slice'.bytes # << >>
      PROVE  /\ TrueStart(slice') - slice'.start \in 0..(total - seen)
             /\ total <= Cap => TrueStart(slice') = slice'.start
  <2>0. /\ total \in Int /\ len \in Int /\ 0 <= len /\ len <= total /\ seen \in Int
        /\ seen <= total /\ (total <= Cap => len = total) /\ Cap \in Int
    BY <1>1, Types, CapIsPositive DEF IInv, Bounds, RingHoldsLatest, AtMost
  <2>1. Copy
    BY <1>1 DEF Next, Push, SkipSilentHop, Begin, ReadTotal, Advance
  <2>2. PICK rs, off, n, size \in Nat : Copied(rs, off, n, size)
    BY <1>1, <2>1, CopyStep
  <2>3. size > 0
    BY <1>1, <2>2 DEF Copied
  <2>4. slice'.bytes[1] = (total - len) + off + 1
    BY <2>2, <2>3 DEF Copied
  <2>5. PICK start \in Int : start = TrueStart(slice') /\ start = (total - len) + off
    BY <2>0, <2>2, <2>4 DEF TrueStart
  <2>6. PICK label \in Int : label = slice'.start /\ label = rs + off
    BY <2>2 DEF Copied
  <2>7. start - label \in 0..(total - seen) /\ (total <= Cap => start = label)
    <3>1. rs = AtLeast(seen - len, 0)
      BY <2>2 DEF Copied
    <3>2. start - label = (total - len) - rs
      BY <2>0, <2>5, <2>6
    <3>3. (total - len) - rs \in 0..(total - seen)
      BY <2>0, <3>1 DEF AtLeast
    <3>4. total <= Cap => (total - len) - rs = 0
      BY <2>0, <3>1 DEF AtLeast
    <3>5. QED
      BY <2>5, <2>6, <3>2, <3>3, <3>4
  <2>8. QED
    BY <2>5, <2>6, <2>7
<1>2. IInv /\ [Next]_vars => [Close]_vars
  BY <1>1
<1>3. QED
  BY <1>2, IInvHolds, PTL DEF Spec, LabelsAreClose

\* A hop that is still in the ring is transcribed whole, unless audio was pushed
\* between the reading of the total and the lock.
THEOREM HopsAreHeard == Spec => HopIsInSlice
<1> DEFINE Heard ==
      reader # "slice" /\ reader' = "slice" /\ seen = total /\ last >= total - len =>
        \A b \in (last + 1)..(end - 1) :
          \E k \in DOMAIN slice'.bytes : slice'.bytes[k] = b
<1>1. ASSUME IInv, Next, reader # "slice", reader' = "slice", seen = total,
             last >= total - len, NEW b \in (last + 1)..(end - 1)
      PROVE  \E k \in DOMAIN slice'.bytes : slice'.bytes[k] = b
  <2>0. /\ total \in Int /\ len \in Int /\ 0 <= len /\ len <= total /\ seen \in Int
        /\ last \in Int /\ 0 <= last /\ end \in Int /\ want \in Int /\ Hop \in Int
    BY <1>1, Types
  <2>1. Copy
    BY <1>1 DEF Next, Push, SkipSilentHop, Begin, ReadTotal, Advance
  <2>2. PICK rs, off, n, size \in Nat : Copied(rs, off, n, size)
    BY <1>1, <2>1, CopyStep
  <2>3. end = last + Hop /\ want >= Hop /\ Hop > 0
    BY <1>1, <2>1, ConstantsAssumption DEF Copy, IInv, Bounds
  <2>4. rs = total - len
    BY <1>1, <2>0, <2>2 DEF AtLeast, Copied
  <2>5. rs + off + n = end /\ rs + off <= last
    BY <1>1, <2>0, <2>2, <2>3, <2>4 DEF AtLeast, Copied
  <2>6. b \in Int /\ last + 1 <= b /\ b <= end - 1
    BY <2>0
  <2>7. PICK k \in Int : k = b - (rs + off)
    BY <2>6
  <2>8. k \in 1..size
    <3>1. n <= size + 1
      BY <2>2 DEF Copied
    <3>2. QED
      BY <2>0, <2>5, <2>6, <2>7, <3>1
  <2>9. slice'.bytes[k] = (total - len) + off + k
    BY <2>2, <2>8 DEF Copied
  <2>10. (total - len) + off + k = b
    BY <2>0, <2>4, <2>6, <2>7
  <2>11. k \in DOMAIN slice'.bytes
    BY <2>2, <2>8 DEF Copied
  <2>12. QED
    BY <2>9, <2>10, <2>11
<1>2. IInv /\ [Next]_vars => [Heard]_vars
  BY <1>1
<1>3. QED
  BY <1>2, IInvHolds, PTL DEF Spec, HopIsInSlice
=============================================================================
