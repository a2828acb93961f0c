------------------------------- MODULE AudioRing -------------------------------
(***************************************************************************)
(* The audio of one streaming session: WebSocket handlers push 16-bit      *)
(* frames into a ring of bytes, the processor cuts slices out of it and    *)
(* labels them with their place in the session.                            *)
(*                                                                         *)
(* The bytes a session receives are numbered 1, 2, 3, ...; the ring holds  *)
(* these numbers, 0 being a byte never written.  A slice is right when it  *)
(* holds the numbers its label says.  Pushes happen under the lock of the  *)
(* ring; the processor reads the total BEFORE it takes that lock.          *)
(*                                                                         *)
(* A definition whose name ends in _bug is a faulty variant of the one     *)
(* that follows it: the code does not do this.                             *)
(***************************************************************************)
EXTENDS Integers, Sequences

CONSTANTS Cap,       \* ring_max_bytes
          Hop,       \* hop_bytes
          MinBytes,  \* min_process_bytes
          TailBytes, \* tail_bytes: a hop and its context
          Window,    \* window_bytes: a full refresh
          Frames,    \* the frame lengths clients send, in bytes
          MaxTotal   \* bound on the bytes received

ASSUME ConstantsAssumption ==
  /\ Hop \in Nat \ {0} /\ MinBytes \in Nat
  /\ TailBytes \in Nat /\ Window \in Nat /\ Cap \in Nat
  /\ Hop <= TailBytes /\ TailBytes <= Window /\ Window <= Cap
  /\ Frames \subseteq Nat \ {0}
  /\ MaxTotal \in Nat

VARIABLES
  buf,       \* the bytes of the ring
  writePos,  \* where the next byte goes
  len,       \* bytes kept
  total,     \* total_pcm_bytes
  last,      \* last_processed_pcm_bytes
  reader,    \* where the processor is
  end,       \* the end of its window, process_end_byte
  want,      \* the bytes it wants up to there
  seen,      \* the total it read before the lock
  slice      \* the slice it got: the label of its first byte, and its bytes

ring == <<buf, writePos, len, total>>
vars == <<buf, writePos, len, total, last, reader, end, want, seen, slice>>

Positions == 0..(Cap - 1)

Init ==
  /\ buf = [i \in Positions |-> 0]
  /\ writePos = 0 /\ len = 0 /\ total = 0 /\ last = 0
  /\ reader = "idle"
  /\ end = 0 /\ want = 0 /\ seen = 0
  /\ slice = [start |-> 0, bytes |-> << >>]

AtMost(a, b)  == IF a <= b THEN a ELSE b
AtLeast(a, b) == IF a >= b THEN a ELSE b

\* i % cap, for 0 <= i < 2 * cap
Wrap(i) == IF i < Cap THEN i ELSE i - Cap

\* How far position i lies behind writePos, going round.
Ahead(i) == Wrap(i + Cap - writePos)

-----------------------------------------------------------------------------
(* RingBuf                                                                  *)

\* The length is not held to the capacity.
Write_bug(n) ==
  /\ buf' = [i \in Positions |-> IF Ahead(i) < n THEN total + 1 + Ahead(i) ELSE buf[i]]
  /\ writePos' = Wrap(writePos + n)
  /\ len' = len + n

\* A frame shorter than the ring is written from writePos on, going round.
Write(n) ==
  /\ buf' = [i \in Positions |-> IF Ahead(i) < n THEN total + 1 + Ahead(i) ELSE buf[i]]
  /\ writePos' = Wrap(writePos + n)
  /\ len' = AtMost(len + n, Cap)

\* The position to write at is left where it was.
Overwrite_bug(n) ==
  /\ buf' = [i \in Positions |-> total + n - Cap + i + 1]
  /\ writePos' = writePos
  /\ len' = Cap

\* Of a longer frame only the last bytes are kept.
Overwrite(n) ==
  /\ buf' = [i \in Positions |-> total + n - Cap + i + 1]
  /\ writePos' = 0
  /\ len' = Cap

\* Where the oldest byte is: at the start, as long as nothing was overwritten.
StartPos_bug == 0

StartPos == Wrap(writePos + Cap - len)

\* copy_range
CopyRange(offset, n) ==
  LET from == AtMost(offset, len)
      pos  == Wrap(StartPos + from)
  IN  [k \in 1..AtMost(n, len - from) |-> buf[Wrap(pos + k - 1)]]

-----------------------------------------------------------------------------
(* The handlers: push_pcm16le under the lock of the ring                    *)

Push(n) ==
  /\ total + n <= MaxTotal
  /\ IF n >= Cap THEN Overwrite(n) ELSE Write(n)
  /\ total' = total + n
  /\ UNCHANGED <<last, reader, end, want, seen, slice>>

-----------------------------------------------------------------------------
(* The processor: processor_loop, extract_transcribe_pcm, extract_pcm_range *)

EnoughToProcess == total - last >= Hop /\ total >= MinBytes

\* The client has been silent for long: a hop is passed over.
SkipSilentHop ==
  /\ reader = "idle" /\ EnoughToProcess
  /\ last' = last + Hop
  /\ UNCHANGED <<ring, reader, end, want, seen, slice>>

\* A hop is there: its end is fixed.
Begin ==
  /\ reader = "idle" /\ reader' = "begun"
  /\ EnoughToProcess
  /\ end' = last + Hop
  /\ UNCHANGED <<ring, last, want, seen, slice>>

\* A tail or a refresh is wanted and the total read again, still unlocked.
ReadTotal ==
  /\ reader = "begun" /\ reader' = "locking"
  /\ want' \in {TailBytes, Window}
  /\ seen' = total
  /\ end' = AtMost(end, total)
  /\ UNCHANGED <<ring, last, slice>>

\* ring_start_byte, from the total seen and the length now
RingStart == AtLeast(seen - len, 0)

\* The newest audio instead of the window.
EndByte_bug == seen

EndByte == AtLeast(end, RingStart)

\* The label is where the window should start.
StartByte_bug == AtLeast(EndByte - want, 0)

StartByte == AtLeast(AtLeast(EndByte - want, 0), RingStart)

\* A slice of odd length loses its last byte.
WholeSamples(s) == SubSeq(s, 1, Len(s) - (Len(s) % 2))

\* Under the lock: the slice is copied.
Copy ==
  /\ reader = "locking" /\ reader' = "slice"
  /\ slice' = [start |-> StartByte,
               bytes |-> WholeSamples(CopyRange(AtLeast(StartByte - RingStart, 0),
                                                AtLeast(EndByte - StartByte, 0)))]
  /\ UNCHANGED <<ring, last, end, want, seen>>

\* Transcribed or failed, the window is over.
Advance ==
  /\ reader = "slice" /\ reader' = "idle"
  /\ last' = end
  /\ slice' = [start |-> 0, bytes |-> << >>]
  /\ UNCHANGED <<ring, end, want, seen>>

Next == (\E n \in Frames : Push(n)) \/ SkipSilentHop \/ Begin \/ ReadTotal \/ Copy \/ Advance

Spec == Init /\ [][Next]_vars

-----------------------------------------------------------------------------
(* Properties                                                               *)

\* Every variable is in its range.
TypeOK ==
  /\ buf \in [Positions -> 0..MaxTotal]
  /\ writePos \in Positions /\ len \in 0..Cap
  /\ total \in 0..MaxTotal /\ last \in 0..MaxTotal
  /\ reader \in {"idle", "begun", "locking", "slice"}
  /\ end \in 0..MaxTotal /\ want \in {0, TailBytes, Window} /\ seen \in 0..MaxTotal
  /\ slice \in [start : 0..MaxTotal, bytes : Seq(0..MaxTotal)]

\* However frames wrap, overwrite or fill it exactly, the ring holds the last
\* bytes received, oldest first from where RingBuf starts to read.
RingHoldsLatest ==
  /\ len = AtMost(total, Cap)
  /\ \A k \in 0..(len - 1) : buf[Wrap(StartPos + k)] = total - len + k + 1

\* A slice is one stretch of received audio, whatever was pushed between the
\* reading of the total and the lock: no byte twice, none left out, none of
\* the zeros the ring was made with.
SliceIsAudio ==
  \A k \in DOMAIN slice.bytes :
    slice.bytes[k] \in 1..total /\ slice.bytes[k] = slice.bytes[1] + k - 1

\* The byte of the session a slice really starts after.
TrueStart(s) == s.bytes[1] - 1

\* A label is late by no more than was pushed between the reading of the total
\* and the lock, and exact while the ring has never been full.
LabelsAreClose ==
  [][reader # "slice" /\ reader' = "slice" /\ slice'.bytes # << >> =>
       /\ TrueStart(slice') - slice'.start \in 0..(total - seen)
       /\ total <= Cap => TrueStart(slice') = slice'.start]_vars

\* When nothing was pushed meanwhile, a hop that is still in the ring is in its
\* slice from the first byte on (an odd one may lack the last).
HopIsInSlice ==
  [][reader # "slice" /\ reader' = "slice" /\ seen = total /\ last >= total - len =>
       \A b \in (last + 1)..(end - 1) :
         \E k \in DOMAIN slice'.bytes : slice'.bytes[k] = b]_vars
=============================================================================
