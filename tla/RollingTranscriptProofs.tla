----------------------- MODULE RollingTranscriptProofs -----------------------
(***************************************************************************)
(* Theorems about RollingTranscript, for every recitation whose words fit  *)
(* the context before a hop, and every length of hop, tail and window.     *)
(*                                                                         *)
(* The inductive invariant is that of the types, the clock of the full     *)
(* refreshes and what a prune leaves owed.  For what becomes of a word a   *)
(* second one says of every word of the transcript where it was heard.     *)
(***************************************************************************)
EXTENDS RollingTranscript, WellFoundedInduction, TLAPS

\* A window under way lies within the audio.
Clock ==
  /\ pc # "idle" => ProcessEnd \in Ticks

\* A prune resets the clock of the refreshes and forces one.  When its attempt
\* fails only the clock is left to ask for the next.
Owed ==
  /\ owed \in {"no", "due", "failed"}
  /\ pc = "aligning" => owed = "no"
  /\ owed # "no" => lastRefresh = 0
  /\ owed = "due" => IF pc = "idle" THEN force ELSE mode = "refresh"
  /\ owed = "failed" /\ pc = "transcribing" =>
       mode = "refresh" \/ RefreshEvery = 0 \/ ProcessEnd < RefreshEvery

IInv == TypeOK /\ Clock /\ Owed

\* A time is moved into the slice.
LEMMA WithinTheSlice ==
  ASSUME NEW s \in Nat, NEW e \in Nat, s <= e, NEW t \in Int
  PROVE  Within(s, e, t) \in s..e
BY DEF Within, Larger, Smaller

LEMMA SliceIsBehind ==
  ASSUME at \in Nat, NEW md \in {"tail", "refresh"}
  PROVE  /\ SliceStart(md) \in Nat /\ SliceStart(md) <= ProcessEnd
         /\ KeepStart \in Nat
         /\ SliceStart(md) = 0 \/ SliceStart(md) <= ProcessEnd - TailLen
BY ConstantsAssumption DEF SliceStart, KeepStart, ProcessEnd, Less

\* The words the transcriber hears have times within the audio.
LEMMA HeardTypes ==
  ASSUME NEW s \in Nat, NEW e \in Ticks, s <= e, NEW new \in Hears(s, e)
  PROVE  new \subseteq [said : Nat, start : Ticks, end : Ticks]
<1> USE ConstantsAssumption
<1>1. PICK cut \in SUBSET Cut(s, e), shift \in -Jitter..Jitter :
        new = {Timed(w, s, e, shift) : w \in Whole(s, e) \union cut}
  BY DEF Hears
<1>2. Jitter \in Nat /\ shift \in Int
  OBVIOUS
<1>3. ASSUME NEW w \in Whole(s, e) \union cut
      PROVE  Timed(w, s, e, shift) \in [said : Nat, start : Ticks, end : Ticks]
  <2>0. e \in Nat
    BY DEF Ticks
  <2>1. w \in Words /\ w.said \in Nat /\ w.from + shift \in Int /\ w.to + shift \in Int
    BY <1>2 DEF Cut, Whole
  <2>2. Within(s, e, w.from + shift) \in s..e /\ Within(s, e, w.to + shift) \in s..e
    BY <2>0, <2>1, WithinTheSlice
  <2> QED
    BY <2>1, <2>2 DEF Timed, Ticks
<1> QED
  BY <1>1, <1>3

\* A set of times has a latest one.
LEMMA LatestExists ==
  ASSUME NEW N \in Nat, NEW T, T \subseteq 0..N, T # {}
  PROVE  \E x \in T : \A y \in T : y <= x
<1> DEFINE R == OpToRel(<, Nat)
           U == {N - x : x \in T}
<1>1. IsWellFoundedOn(R, Nat)
  BY NatLessThanWellFounded
<1>2. U \subseteq Nat /\ U # {}
  <2>1. \A x \in T : N - x \in Nat
    OBVIOUS
  <2>2. PICK x \in T : TRUE
    OBVIOUS
  <2>3. N - x \in U
    BY <2>2
  <2> QED
    BY <2>1, <2>3
<1>3. \A x, y \in Nat : <<y, x>> \in R <=> y < x
  BY DEF OpToRel
<1> HIDE DEF R
<1>4. PICK u \in U : \A v \in U : <<v, u>> \notin R
  BY <1>1, <1>2, WFMin
<1>5. \A v \in U : ~(v < u)
  BY <1>2, <1>3, <1>4
<1>6. PICK x \in T : u = N - x
  OBVIOUS
<1>7. \A y \in T : y <= x
  <2> SUFFICES ASSUME NEW y \in T PROVE y <= x
    OBVIOUS
  <2>1. ~(N - y < N - x)
    BY <1>5, <1>6
  <2>2. x \in Int /\ y \in Int
    OBVIOUS
  <2> QED
    BY <2>1, <2>2
<1> QED
  BY <1>7

\* Merging the copies of a word keeps the types.
LEMMA DedupedTypes ==
  ASSUME NEW S, S \subseteq [said : Nat, start : Ticks, end : Ticks]
  PROVE  Deduped(S) \subseteq [said : Nat, start : Ticks, end : Ticks]
<1> USE ConstantsAssumption
<1>1. ASSUME NEW w \in S
      PROVE  Max({v.end : v \in Copies(S, w)}) \in Ticks
  <2> DEFINE T == {v.end : v \in Copies(S, w)}
  <2>1. w \in Copies(S, w)
    BY DEF Copies, Ticks
  <2>2. T \subseteq 0..MaxTime /\ T # {}
    BY <2>1 DEF Copies, Ticks
  <2> HIDE DEF T
  <2>3. PICK x \in T : \A y \in T : y <= x
    BY <2>2, LatestExists
  <2>4. \A y \in T : x >= y
    BY <2>2, <2>3
  <2>5. Max(T) \in T
    BY <2>4 DEF Max
  <2> QED
    BY <2>2, <2>5 DEF T, Ticks
<1>2. ASSUME NEW w \in S, NEW t \in Ticks
      PROVE  [w EXCEPT !.end = t] \in [said : Nat, start : Ticks, end : Ticks]
  OBVIOUS
<1> QED
  BY <1>1, <1>2 DEF Deduped

LEMMA InitHolds == Init => IInv
<1> SUFFICES ASSUME Init PROVE IInv
  OBVIOUS
<1>1. 0 \in Ticks
  BY ConstantsAssumption DEF Ticks
<1>2. TypeOK
  BY <1>1 DEF Init, TypeOK
<1> QED
  BY <1>2 DEF Init, IInv, Clock, Owed

LEMMA NextHolds == IInv /\ [Next]_vars => IInv'
<1> SUFFICES ASSUME IInv, [Next]_vars PROVE IInv'
  OBVIOUS
<1> USE ConstantsAssumption DEF IInv, TypeOK
<1>1. CASE SkipSilentHop
  BY <1>1 DEF SkipSilentHop, HopArrives, Clock, Owed, ProcessEnd, Ticks
<1>2. CASE StartWindow
  <2>1. lastRefresh = 0 => (RefreshIsDue <=> RefreshEvery > 0 /\ ProcessEnd >= RefreshEvery)
    BY DEF RefreshIsDue, ProcessEnd, Ticks
  <2>2. ProcessEnd' = ProcessEnd /\ ProcessEnd \in Ticks
    BY <1>2 DEF StartWindow, HopArrives, ProcessEnd, Ticks
  <2>3. Owed'
    BY <1>2, <2>1, <2>2 DEF StartWindow, HopArrives, Owed, Ticks
  <2> QED
    BY <1>2, <2>2, <2>3 DEF StartWindow, Clock
<1>3. CASE TranscribeFails
  BY <1>3 DEF TranscribeFails, transcript, Clock, Owed, ProcessEnd, Ticks
<1>4. CASE Ingest
  <2>1. ProcessEnd' = ProcessEnd /\ ProcessEnd \in Ticks
    BY <1>4 DEF Ingest, Clock, ProcessEnd
  <2>2. SliceStart(mode) \in Nat /\ SliceStart(mode) <= ProcessEnd
    BY SliceIsBehind DEF Ticks
  <2>3. PICK new \in Hears(SliceStart(mode), ProcessEnd) :
          IF mode = "refresh"
          THEN words' = new /\ lastRefresh' = ProcessEnd
          ELSE words' = Ingested(new, SliceStart(mode)) /\ UNCHANGED lastRefresh
    BY <1>4 DEF Ingest
  <2>4. new \subseteq [said : Nat, start : Ticks, end : Ticks]
    BY <2>1, <2>2, HeardTypes
  <2>5. words' \subseteq [said : Nat, start : Ticks, end : Ticks] /\ lastRefresh' \in Ticks
    BY <2>1, <2>3, <2>4, DedupedTypes DEF Ingested
  <2> QED
    BY <1>4, <2>1, <2>5 DEF Ingest, Clock, Owed
<1>5. CASE Prune
  BY <1>5 DEF Prune, EndWindow, Clock, Owed, ProcessEnd, Ticks
<1>6. CASE LowConfidence
  BY <1>6 DEF LowConfidence, EndWindow, Clock, Owed, MayRefresh, ProcessEnd, Ticks
<1>7. CASE Update
  BY <1>7 DEF Update, EndWindow, transcript, Clock, Owed, ProcessEnd, Ticks
<1>8. CASE UNCHANGED vars
  BY <1>8 DEF vars, Clock, Owed, ProcessEnd
<1> QED
  BY <1>1, <1>2, <1>3, <1>4, <1>5, <1>6, <1>7, <1>8 DEF Next

LEMMA IInvHolds == Spec => []IInv
BY InitHolds, NextHolds, PTL DEF Spec

\* The rolling transcript keeps its types, its times within the audio.
THEOREM TypesHold == Spec => []TypeOK
<1>1. IInv => TypeOK
  BY DEF IInv
<1> QED
  BY <1>1, IInvHolds, PTL

\* However attempts fail, the first words after a prune come from a full
\* refresh, if the session is old enough for refreshes on time.
THEOREM PrunesRefresh == Spec => PruneRefreshes
<1>1. IInv /\ [Next]_vars =>
        [owed # "no" /\ owed' = "no" =>
           \/ mode = "refresh"
           \/ owed = "failed" /\ (RefreshEvery = 0 \/ ProcessEnd < RefreshEvery)]_vars
  <2> SUFFICES ASSUME IInv, Next, owed # "no", owed' = "no"
               PROVE  \/ mode = "refresh"
                      \/ owed = "failed" /\ (RefreshEvery = 0 \/ ProcessEnd < RefreshEvery)
    OBVIOUS
  <2>1. pc = "transcribing"
    BY DEF Next, SkipSilentHop, StartWindow, TranscribeFails, Ingest, Prune, LowConfidence, Update
  <2> QED
    BY <2>1 DEF IInv, Owed
<1> QED
  BY <1>1, IInvHolds, PTL DEF Spec, PruneRefreshes

-----------------------------------------------------------------------------
(* What a window hears                                                      *)

\* Of the copies of a word one is left: that which starts first is.
LEMMA DedupedKeeps ==
  ASSUME NEW S, S \subseteq [said : Nat, start : Ticks, end : Ticks], NEW w \in S
  PROVE  \E v \in Deduped(S) : v.said = w.said
<1> DEFINE T == {MaxTime - v.start : v \in {v \in S : v.said = w.said}}
<1>1. MaxTime \in Nat /\ \A v \in S : v.start \in 0..MaxTime
  BY ConstantsAssumption DEF Ticks
<1>2. T \subseteq 0..MaxTime /\ T # {}
  <2>1. MaxTime - w.start \in T
    OBVIOUS
  <2>2. \A v \in S : MaxTime - v.start \in 0..MaxTime
    BY <1>1
  <2> QED
    BY <2>1, <2>2
<1>3. PICK x \in T : \A y \in T : y <= x
  <2> HIDE DEF T
  <2> QED
    BY <1>1, <1>2, LatestExists
<1>4. PICK v \in S : v.said = w.said /\ x = MaxTime - v.start
  OBVIOUS
<1>5. ASSUME NEW u \in Copies(S, v)
      PROVE  v.start <= u.start
  <2>1. u \in S /\ u.said = w.said
    BY <1>4 DEF Copies
  <2>2. MaxTime - u.start <= MaxTime - v.start
    BY <2>1, <1>3, <1>4
  <2> QED
    BY <2>1, <2>2, <1>1
<1> DEFINE t == [v EXCEPT !.end = Max({u.end : u \in Copies(S, v)})]
<1>6. t \in Deduped(S)
  BY <1>5 DEF Deduped
<1>7. t.said = v.said
  OBVIOUS
<1> QED
  BY <1>4, <1>6, <1>7

\* Where no two copies of a word are near each other, nothing is merged.
LEMMA NothingToMerge ==
  ASSUME NEW S, S \subseteq [said : Nat, start : Ticks, end : Ticks],
         \A v, w \in S :
           v.said = w.said => v = w \/ v.start + Near <= w.start \/ w.start + Near <= v.start
  PROVE  Deduped(S) = S
<1> USE ConstantsAssumption
<1>1. ASSUME NEW w \in S PROVE Copies(S, w) = {w}
  <2>1. w.start \in Int /\ Near \in Nat /\ Near # 0
    BY DEF Ticks
  <2>2. w \in Copies(S, w)
    BY <2>1 DEF Copies
  <2>3. ASSUME NEW v \in Copies(S, w) PROVE v = w
    <3>1. v \in S /\ v.said = w.said /\ w.start - v.start < Near /\ v.start - w.start < Near
      BY DEF Copies
    <3>2. v.start \in Int
      BY <3>1 DEF Ticks
    <3>3. ~(v.start + Near <= w.start) /\ ~(w.start + Near <= v.start)
      BY <2>1, <3>1, <3>2
    <3> QED
      BY <3>1, <3>3
  <2> QED
    BY <2>2, <2>3
<1>2. ASSUME NEW w \in S
      PROVE  /\ w \in {x \in S : \A v \in Copies(S, x) : x.start <= v.start}
             /\ [w EXCEPT !.end = Max({v.end : v \in Copies(S, w)})] = w
  <2>1. w.start \in Int /\ w.end \in Int
    BY DEF Ticks
  <2>2. {v.end : v \in Copies(S, w)} = {w.end}
    BY <1>1
  <2>3. Max({w.end}) = w.end
    BY <2>1 DEF Max
  <2>4. [w EXCEPT !.end = w.end] = w
    OBVIOUS
  <2>5. \A v \in Copies(S, w) : w.start <= v.start
    BY <1>1, <2>1
  <2>6. [w EXCEPT !.end = Max({v.end : v \in Copies(S, w)})] = w
    BY ONLY <2>2, <2>3, <2>4, Zenon
  <2> QED
    BY <2>5, <2>6
<1> DEFINE first == {x \in S : \A v \in Copies(S, x) : x.start <= v.start}
           m(w) == [w EXCEPT !.end = Max({v.end : v \in Copies(S, w)})]
<1>3. first = S
  BY <1>2
<1>4. \A w \in S : m(w) = w
  BY <1>2
<1>5. Deduped(S) = {m(w) : w \in first}
  BY DEF Deduped
<1> HIDE DEF first, m
<1> QED
  BY <1>3, <1>4, <1>5

\* A window that was transcribed leaves the words that ended in its hop in the
\* transcript: the context before the hop holds any word that ends in it, and
\* merging keeps what is new.
THEOREM HopsAreHeard == Spec => HopIsHeard
<1>1. IInv /\ [Next]_vars =>
        [pc = "transcribing" /\ pc' = "aligning" =>
           \A w \in Words : at < w.to /\ w.to <= ProcessEnd => InTranscript(w)']_vars
  <2> SUFFICES ASSUME IInv, Next, pc = "transcribing", pc' = "aligning", NEW w \in Words,
                      at < w.to, w.to <= ProcessEnd
               PROVE  \E v \in words' : v.said = w.said
    BY DEF InTranscript
  <2> USE ConstantsAssumption
  <2>1. Ingest
    BY DEF Next, SkipSilentHop, StartWindow, TranscribeFails, Prune, LowConfidence, Update,
           HopArrives, EndWindow
  <2> DEFINE s == SliceStart(mode)
  <2>2. /\ at \in Nat /\ mode \in {"tail", "refresh"} /\ ProcessEnd \in Ticks
        /\ ProcessEnd = at + Hop
        /\ words \subseteq [said : Nat, start : Ticks, end : Ticks]
    BY DEF IInv, TypeOK, Clock, ProcessEnd, Ticks
  <2>3. s \in Nat /\ s <= ProcessEnd /\ (s = 0 \/ s <= ProcessEnd - TailLen)
    BY <2>2, SliceIsBehind
  <2>4. PICK new \in Hears(s, ProcessEnd) :
          words' = new \/ words' = Ingested(new, s)
    BY <2>1 DEF Ingest
  <2> HIDE DEF s
  <2>5. w \in Whole(s, ProcessEnd)
    BY <2>2, <2>3 DEF Whole
  <2>6. PICK cut, shift :
          new = {Timed(v, s, ProcessEnd, shift) : v \in Whole(s, ProcessEnd) \union cut}
    BY <2>4 DEF Hears
  <2>7. PICK t \in new : t.said = w.said
    <3>1. Timed(w, s, ProcessEnd, shift) \in new
      BY <2>5, <2>6
    <3> QED
      BY <3>1 DEF Timed
  <2>8. new \subseteq [said : Nat, start : Ticks, end : Ticks]
    BY <2>2, <2>3, HeardTypes
  <2>9. CASE words' = new
    BY <2>7, <2>9
  <2>10. CASE words' = Ingested(new, s)
    <3> DEFINE S == {v \in words : Current(v) /\ ~Overlaps(v, s, ProcessEnd)} \union new
    <3>1. S \subseteq [said : Nat, start : Ticks, end : Ticks] /\ t \in S
      BY <2>2, <2>7, <2>8
    <3>2. words' = Deduped(S)
      BY <2>10 DEF Ingested
    <3> HIDE DEF S
    <3> QED
      BY <3>1, <3>2, <2>7, DedupedKeeps
  <2> QED
    BY <2>4, <2>9, <2>10
<1> QED
  BY <1>1, IInvHolds, PTL DEF Spec, HopIsHeard

-----------------------------------------------------------------------------
(* Where the words of the transcript come from                              *)

\* Up to where the audio was transcribed.
Horizon == IF pc = "aligning" THEN ProcessEnd ELSE at

\* The transcriber heard w in the slice s..e and gave it the times of v.
HeardIn(v, w, s, e, shift) ==
  /\ s <= e /\ e <= Horizon /\ w.from < e /\ s < w.to
  /\ v = Timed(w, s, e, shift)

\* Every word of the transcript was heard in some slice.
AllHeard ==
  \A v \in words : \E w \in Words, s, e \in Nat, shift \in -Jitter..Jitter :
    HeardIn(v, w, s, e, shift)

\* Inductive with the invariant above.
WInv == AllHeard /\ WordsOnceInOrder

\* A word cut off by a slice is in it as well.
LEMMA NewIsHeard ==
  ASSUME NEW s \in Nat, NEW e \in Nat, s <= e, NEW new \in Hears(s, e)
  PROVE  \E shift \in -Jitter..Jitter :
           \A v \in new : \E w \in Words :
             w.from < e /\ s < w.to /\ v = Timed(w, s, e, shift)
<1>1. PICK cut \in SUBSET Cut(s, e), shift \in -Jitter..Jitter :
        new = {Timed(w, s, e, shift) : w \in Whole(s, e) \union cut}
  BY DEF Hears
<1>2. ASSUME NEW v \in new
      PROVE  \E w \in Words : w.from < e /\ s < w.to /\ v = Timed(w, s, e, shift)
  <2>1. PICK w \in Whole(s, e) \union cut : v = Timed(w, s, e, shift)
    BY <1>1
  <2>2. w \in Words /\ w.from \in Nat /\ w.to \in Nat /\ w.from < w.to
    BY ConstantsAssumption DEF Whole, Cut
  <2>3. w.from < e /\ s < w.to
    BY <2>2 DEF Whole, Cut
  <2> QED
    BY <2>1, <2>2, <2>3
<1> QED
  BY <1>2

\* What is known of a word heard in a slice: its times lie in the slice, and away
\* from the ends of the slice they are right up to the error.
LEMMA HeardTimes ==
  ASSUME NEW w \in Words, NEW s \in Nat, NEW e \in Nat, s <= e, w.from < e, s < w.to,
         NEW shift \in -Jitter..Jitter, NEW v, v = Timed(w, s, e, shift)
  PROVE  /\ v.said = w.said
         /\ v.start \in s..e /\ v.end \in s..e /\ v.start <= v.end
         /\ v.start >= w.from + shift \/ v.start = e
         /\ v.end >= w.to + shift \/ v.end = e
         /\ v.end <= w.to + Jitter
<1>1. /\ w.said \in Nat /\ w.from \in Nat /\ w.to \in Nat /\ w.from < w.to
      /\ Jitter \in Nat /\ shift \in Int /\ -Jitter <= shift /\ shift <= Jitter
  BY ConstantsAssumption
<1>2. /\ v.said = w.said /\ v.start = Within(s, e, w.from + shift)
      /\ v.end = Within(s, e, w.to + shift)
  BY DEF Timed
<1> QED
  BY <1>1, <1>2 DEF Within, Larger, Smaller

\* The words of one slice are there once, and in order.
LEMMA NewInOrder ==
  ASSUME NEW s \in Nat, NEW e \in Nat, s <= e, NEW shift \in -Jitter..Jitter,
         NEW x \in Words, NEW y \in Words,
         NEW v, v = Timed(x, s, e, shift), NEW w, w = Timed(y, s, e, shift)
  PROVE  /\ v.said = w.said => v = w
         /\ v.said < w.said => v.start <= w.start
<1>1. /\ x.said \in Nat /\ x.from \in Nat /\ x.to \in Nat /\ x.from < x.to
      /\ y.said \in Nat /\ y.from \in Nat /\ y.to \in Nat /\ y.from < y.to
      /\ shift \in Int
      /\ x.said = y.said => x = y
      /\ x.said < y.said => x.to <= y.from
  BY ConstantsAssumption
<1>2. /\ v.said = x.said /\ v.start = Within(s, e, x.from + shift)
      /\ w.said = y.said /\ w.start = Within(s, e, y.from + shift)
  BY DEF Timed
<1>3. v.said = w.said => v = w
  BY <1>1, <1>2
<1>4. v.said < w.said => v.start <= w.start
  BY <1>1, <1>2 DEF Within, Larger, Smaller
<1> QED
  BY <1>3, <1>4

\* A word v kept from earlier slices ended well before this one began.
LEMMA OldBeforeNew ==
  ASSUME NEW x \in Words, NEW a \in Nat, NEW b \in Nat, a <= b, x.from < b, a < x.to,
         NEW shift \in -Jitter..Jitter, NEW v, v = Timed(x, a, b, shift),
         NEW y \in Words, NEW s \in Nat, NEW e \in Nat, s <= e, y.from < e, s < y.to,
         NEW other \in -Jitter..Jitter, NEW w, w = Timed(y, s, e, other),
         b <= e, ~Overlaps(v, s, e)
  PROVE  /\ v.start < w.start
         /\ v.said = w.said => Halves(v, w)
         /\ ~(w.said < v.said)
<1>1. /\ x.said \in Nat /\ x.from \in Nat /\ x.to \in Nat /\ x.from < x.to
      /\ y.said \in Nat /\ y.from \in Nat /\ y.to \in Nat /\ y.from < y.to
      /\ Overlap \in Nat /\ Jitter \in Nat /\ Jitter <= Overlap
      /\ shift \in Int /\ -Jitter <= shift /\ other \in Int /\ other <= Jitter
      /\ x.said = y.said => x = y
      /\ y.said < x.said => y.to <= x.from
  BY ConstantsAssumption
<1>2. /\ v.said = x.said /\ v.start \in a..b /\ v.end \in a..b /\ v.start <= v.end
      /\ v.start >= x.from + shift \/ v.start = b
      /\ v.end >= x.to + shift \/ v.end = b
  BY HeardTimes
<1>3. w.said = y.said /\ w.start \in s..e /\ w.start = Within(s, e, y.from + other)
  BY HeardTimes DEF Timed
<1>4. v.end + Overlap < s
  <2>1. v.start <= e + Overlap
    BY <1>1, <1>2
  <2>2. Less(s, Overlap) \in Nat /\ (s > Overlap => Less(s, Overlap) = s - Overlap)
        /\ (s <= Overlap => Less(s, Overlap) = 0)
    BY <1>1 DEF Less
  <2>3. v.end < Less(s, Overlap)
    BY <1>2, <2>1, <2>2 DEF Overlaps
  <2> QED
    BY <1>1, <1>2, <2>2, <2>3
<1>5. v.start < w.start
  BY <1>1, <1>2, <1>3, <1>4
<1>6. ~(w.said < v.said)
  BY <1>1, <1>2, <1>3, <1>4
<1>7. ASSUME v.said = w.said PROVE Halves(v, w)
  <2>1. x = y
    BY <1>1, <1>2, <1>3, <1>7
  <2>2. v.end = b
    BY <1>1, <1>2, <1>4, <2>1
  <2>3. x.from + other < s
    BY <1>1, <1>2, <1>4, <2>2
  <2>4. w.start = s
    BY <1>1, <1>3, <2>1, <2>3 DEF Within, Larger, Smaller
  <2> QED
    BY <1>2, <1>4, <2>1, <2>2, <2>4 DEF Halves
<1> QED
  BY <1>5, <1>6, <1>7

LEMMA InitWInv == Init => WInv
BY DEF Init, WInv, AllHeard, WordsOnceInOrder

\* A transcript of fewer words.
LEMMA FewerWords ==
  ASSUME WInv, words' \subseteq words, Horizon <= Horizon', Horizon \in Nat, Horizon' \in Nat
  PROVE  WInv'
<1>1. AllHeard'
  <2> SUFFICES ASSUME NEW v \in words'
               PROVE  \E w \in Words, s, e \in Nat, shift \in -Jitter..Jitter :
                        HeardIn(v, w, s, e, shift)'
    BY DEF AllHeard
  <2>1. PICK w \in Words, s \in Nat, e \in Nat, shift \in -Jitter..Jitter :
          HeardIn(v, w, s, e, shift)
    BY DEF WInv, AllHeard
  <2>2. HeardIn(v, w, s, e, shift)'
    BY <2>1 DEF HeardIn
  <2> QED
    BY <2>2
<1>2. WordsOnceInOrder'
  BY DEF WInv, WordsOnceInOrder, Halves
<1> QED
  BY <1>1, <1>2 DEF WInv

LEMMA IngestWInv ==
  ASSUME IInv, WInv, Ingest
  PROVE  WInv'
<1> PICK e \in Nat : e = ProcessEnd /\ e \in Ticks
  BY DEF IInv, Clock, Ingest, Ticks
<1>1. /\ at \in Nat /\ mode \in {"tail", "refresh"} /\ at <= e
      /\ pc = "transcribing" /\ pc' = "aligning" /\ at' = at
  BY ConstantsAssumption DEF IInv, TypeOK, Ingest, ProcessEnd, Ticks
<1> PICK s \in Nat : s = SliceStart(mode) /\ s <= e
  BY <1>1, SliceIsBehind
<1>3. Horizon = at /\ Horizon' = e
  BY <1>1 DEF Horizon, ProcessEnd
<1>4. PICK new \in Hears(s, e) : words' = new \/ words' = Ingested(new, s)
  BY DEF Ingest
<1>5. PICK other \in -Jitter..Jitter :
        \A v \in new : \E w \in Words :
          w.from < e /\ s < w.to /\ v = Timed(w, s, e, other)
  BY <1>1, NewIsHeard
<1>6. ASSUME NEW v \in words, ~Overlaps(v, s, e), NEW w \in new
      PROVE  v.start < w.start /\ (v.said = w.said => Halves(v, w)) /\ ~(w.said < v.said)
  <2>1. PICK x \in Words, a \in Nat, b \in Nat, shift \in -Jitter..Jitter :
          HeardIn(v, x, a, b, shift)
    BY <1>6 DEF WInv, AllHeard
  <2>2. PICK y \in Words : y.from < e /\ s < y.to /\ w = Timed(y, s, e, other)
    BY <1>5, <1>6
  <2>3. a <= b /\ b <= e /\ x.from < b /\ a < x.to /\ v = Timed(x, a, b, shift)
    BY <1>1, <1>3, <2>1 DEF HeardIn
  <2> QED
    BY <1>1, <1>6, <2>1, <2>2, <2>3, OldBeforeNew
<1>7. ASSUME NEW v \in new, NEW w \in new
      PROVE  (v.said = w.said => v = w) /\ (v.said < w.said => v.start <= w.start)
  <2>1. PICK x \in Words : v = Timed(x, s, e, other)
    BY <1>5, <1>7
  <2>2. PICK y \in Words : w = Timed(y, s, e, other)
    BY <1>5, <1>7
  <2> QED
    BY <1>1, <2>1, <2>2, NewInOrder
<1>8. /\ new \subseteq [said : Nat, start : Ticks, end : Ticks]
       /\ words \subseteq [said : Nat, start : Ticks, end : Ticks]
  BY HeardTypes DEF IInv, TypeOK
<1>9. \A v \in words' : v \in new \/ (v \in words /\ ~Overlaps(v, s, e))
  <2> DEFINE S == {v \in words : Current(v) /\ ~Overlaps(v, s, e)} \union new
  <2>1. S \subseteq [said : Nat, start : Ticks, end : Ticks]
    BY <1>8
  <2>2. ASSUME NEW v \in S, NEW w \in S, v.said = w.said
        PROVE  v = w \/ Halves(v, w) \/ Halves(w, v)
    BY <1>6, <1>7, <2>2 DEF WInv, WordsOnceInOrder
  <2>3. ASSUME NEW v \in S, NEW w \in S, Halves(v, w)
        PROVE  v.start + Near <= w.start
    <3>1. v.start <= v.end
      <4>1. CASE v \in new
        <5>1. PICK x \in Words : x.from < e /\ s < x.to /\ v = Timed(x, s, e, other)
          BY <1>5, <4>1
        <5> QED
          BY <1>1, <5>1, HeardTimes
      <4>2. CASE v \in words
        <5>1. PICK x \in Words, a \in Nat, b \in Nat, shift \in -Jitter..Jitter :
                HeardIn(v, x, a, b, shift)
          BY <4>2 DEF WInv, AllHeard
        <5> QED
          BY <5>1, HeardTimes DEF HeardIn
      <4> QED
        BY <4>1, <4>2
    <3>2. v.start \in Nat /\ v.end \in Nat /\ w.start \in Nat
      BY <2>1, <2>3 DEF Ticks
    <3>3. v.end + Overlap < w.start /\ Overlap \in Nat /\ Near \in Nat /\ Near <= Overlap
      BY <2>3, ConstantsAssumption DEF Halves
    <3> QED
      BY <3>1, <3>2, <3>3
  <2> HIDE DEF S
  <2>4. Deduped(S) = S
    BY <2>1, <2>2, <2>3, NothingToMerge
  <2>5. words' = new \/ words' = S
    BY <1>4, <2>4 DEF Ingested, S
  <2> QED
    BY <2>5 DEF S
<1>10. AllHeard'
  <2> SUFFICES ASSUME NEW v \in words'
               PROVE  \E w \in Words, a, b \in Nat, shift \in -Jitter..Jitter :
                        HeardIn(v, w, a, b, shift)'
    BY DEF AllHeard
  <2>1. CASE v \in new
    <3>1. PICK w \in Words : w.from < e /\ s < w.to /\ v = Timed(w, s, e, other)
      BY <1>5, <2>1
    <3>2. HeardIn(v, w, s, e, other)'
      BY <1>1, <1>3, <3>1 DEF HeardIn
    <3> QED
      BY <1>1, <3>2
  <2>2. CASE v \in words
    <3>1. PICK w \in Words, a \in Nat, b \in Nat, shift \in -Jitter..Jitter :
            HeardIn(v, w, a, b, shift)
      BY <2>2 DEF WInv, AllHeard
    <3>2. HeardIn(v, w, a, b, shift)'
      BY <1>1, <1>3, <3>1 DEF HeardIn
    <3> QED
      BY <3>2
  <2> QED
    BY <1>9, <2>1, <2>2
<1>11. WordsOnceInOrder'
  <2> SUFFICES ASSUME NEW v \in words', NEW w \in words'
               PROVE  /\ v.said = w.said => v = w \/ Halves(v, w) \/ Halves(w, v)
                      /\ v.said < w.said => v.start <= w.start
    BY DEF WordsOnceInOrder, Halves
  <2>1. /\ v.said \in Nat /\ v.start \in Nat /\ w.said \in Nat /\ w.start \in Nat
    BY <1>9, <1>8 DEF Ticks
  <2>2. CASE v \in new /\ w \in new
    BY <1>7, <2>2
  <2>3. CASE v \in words /\ ~Overlaps(v, s, e) /\ w \in new
    BY <1>6, <2>1, <2>3
  <2>4. CASE v \in new /\ w \in words /\ ~Overlaps(w, s, e)
    <3>1. w.start < v.start /\ (v.said = w.said => Halves(w, v)) /\ ~(v.said < w.said)
      BY <1>6, <2>4
    <3> QED
      BY <2>1, <3>1
  <2>5. CASE v \in words /\ w \in words
    BY <2>5 DEF WInv, WordsOnceInOrder
  <2> QED
    BY <1>9, <2>2, <2>3, <2>4, <2>5
<1> QED
  BY <1>10, <1>11 DEF WInv

LEMMA NextWInv == IInv /\ WInv /\ [Next]_vars => WInv'
<1> SUFFICES ASSUME IInv, WInv, [Next]_vars PROVE WInv'
  OBVIOUS
<1>1. at \in Nat /\ ProcessEnd = at + Hop /\ Hop \in Nat /\ Horizon \in Nat
  BY ConstantsAssumption DEF IInv, TypeOK, Ticks, Horizon, ProcessEnd
<1>2. CASE SkipSilentHop
  <2>1. words' \subseteq words /\ at' = ProcessEnd /\ pc = "idle" /\ pc' = pc
    BY <1>2 DEF SkipSilentHop, HopArrives
  <2> QED
    BY <1>1, <2>1, FewerWords DEF Horizon
<1>3. CASE StartWindow
  <2>1. words' = words /\ at' = at /\ pc = "idle" /\ pc' = "transcribing"
    BY <1>3 DEF StartWindow, HopArrives
  <2> QED
    BY <1>1, <2>1, FewerWords DEF Horizon
<1>4. CASE TranscribeFails
  <2>1. words' = words /\ at' = ProcessEnd /\ pc = "transcribing" /\ pc' = "idle"
    BY <1>4 DEF TranscribeFails, transcript
  <2> QED
    BY <1>1, <2>1, FewerWords DEF Horizon
<1>5. CASE Prune \/ LowConfidence \/ Update
  <2>1. words' \subseteq words /\ at' = ProcessEnd /\ pc = "aligning" /\ pc' = "idle"
    BY <1>5 DEF Prune, LowConfidence, Update, EndWindow, transcript
  <2> QED
    BY <1>1, <2>1, FewerWords DEF Horizon
<1>6. CASE UNCHANGED vars
  <2>1. words' = words /\ Horizon' = Horizon
    BY <1>6 DEF vars, Horizon, ProcessEnd
  <2> QED
    BY <1>1, <2>1, FewerWords
<1> QED
  BY <1>2, <1>3, <1>4, <1>5, <1>6, IngestWInv DEF Next

LEMMA WInvHolds == Spec => []WInv
<1>1. Spec => [](IInv /\ WInv)
  BY InitHolds, InitWInv, NextHolds, NextWInv, PTL DEF Spec
<1> QED
  BY <1>1, PTL

\* However slices overlap and times are off, merging leaves no word twice, but for
\* the two halves of one that went on through more than the overlap of audio no
\* slice had, and the words are in the order they were said.
THEOREM WordsAreOnceInOrder == Spec => []WordsOnceInOrder
<1>1. WInv => WordsOnceInOrder
  BY DEF WInv
<1> QED
  BY <1>1, WInvHolds, PTL

\* Of a whole word of the slice, and of a word that merging keeps, a copy is in
\* the transcript.
LEMMA MergedStays ==
  ASSUME IInv, Ingest, NEW s \in Nat, NEW e \in Ticks, s <= e, NEW w, NEW new \in Hears(s, e),
         \/ words' = new /\ w \in Whole(s, e)
         \/ /\ words' = Ingested(new, s) /\ e = ProcessEnd
            /\ \/ w \in Whole(s, e)
               \/ \E v \in words : v.said = w.said /\ Current(v) /\ ~Overlaps(v, s, e)
  PROVE  InTranscript(w)'
<1>1. ASSUME w \in Whole(s, e)
      PROVE  \E v \in new : v.said = w.said
  <2>1. PICK cut, shift :
          new = {Timed(v, s, e, shift) : v \in Whole(s, e) \union cut}
    BY DEF Hears
  <2>2. Timed(w, s, e, shift) \in new
    BY <1>1, <2>1
  <2> QED
    BY <2>2 DEF Timed
<1>2. new \subseteq [said : Nat, start : Ticks, end : Ticks]
  BY HeardTypes
<1>3. CASE words' = new /\ w \in Whole(s, e)
  BY <1>1, <1>3 DEF InTranscript
<1>4. CASE /\ words' = Ingested(new, s) /\ e = ProcessEnd
           /\ \/ w \in Whole(s, e)
              \/ \E v \in words : v.said = w.said /\ Current(v) /\ ~Overlaps(v, s, e)
  <2> DEFINE S == {v \in words : Current(v) /\ ~Overlaps(v, s, e)} \union new
  <2>1. S \subseteq [said : Nat, start : Ticks, end : Ticks]
    BY <1>2 DEF IInv, TypeOK
  <2>2. PICK v \in S : v.said = w.said
    BY <1>1, <1>4
  <2>3. words' = Deduped(S)
    BY <1>4 DEF Ingested
  <2> HIDE DEF S
  <2> QED
    BY <2>1, <2>2, <2>3, DedupedKeeps DEF InTranscript
<1> QED
  BY <1>3, <1>4

\* No window forgets a word it could hear whole: a word that was heard to its end
\* leaves with a prune, with the old end of the window, or cut off by the slice.
THEOREM WordsLeaveWithReason == Spec => WordsLeaveForAReason
<1>1. IInv /\ WInv /\ [Next]_vars =>
        [\A w \in Words : Kept(w) /\ ~InTranscript(w)' =>
           \/ owed' = "due"
           \/ w.to < KeepStart + Jitter
           \/ w.to > ProcessEnd
           \/ /\ pc = "transcribing"
              /\ w.from < SliceStart(mode)
              /\ mode = "refresh" \/ w.to + Overlap + Jitter >= SliceStart(mode)]_vars
  <2> SUFFICES ASSUME IInv, WInv, Next, NEW w \in Words, Kept(w), ~InTranscript(w)'
               PROVE  \/ owed' = "due"
                      \/ w.to < KeepStart + Jitter
                      \/ w.to > ProcessEnd
                      \/ /\ pc = "transcribing"
                         /\ w.from < SliceStart(mode)
                         /\ mode = "refresh" \/ w.to + Overlap + Jitter >= SliceStart(mode)
    OBVIOUS
  <2>1. /\ at \in Nat /\ mode \in {"tail", "refresh"} /\ KeepStart \in Nat /\ ProcessEnd \in Nat
        /\ w.from \in Nat /\ w.to \in Nat /\ w.said \in Nat /\ Jitter \in Nat
    BY ConstantsAssumption, SliceIsBehind DEF IInv, TypeOK, Ticks, ProcessEnd
  <2>2. PICK v \in words : v.said = w.said /\ v.end >= w.to - Jitter
    BY DEF Kept
  <2>3. v.end \in Nat /\ v.start \in Nat
    BY DEF IInv, TypeOK, Ticks
  <2>4. v.end <= w.to + Jitter
    <3>1. PICK x \in Words, a \in Nat, b \in Nat, shift \in -Jitter..Jitter :
            HeardIn(v, x, a, b, shift)
      BY DEF WInv, AllHeard
    <3>2. v.said = x.said /\ v.end <= x.to + Jitter
      BY <3>1, HeardTimes DEF HeardIn
    <3>3. x = w
      BY <2>2, <3>2, ConstantsAssumption
    <3> QED
      BY <3>2, <3>3
  <2>5. CASE SkipSilentHop
    <3>1. ~(v.end >= KeepStart)
      BY <2>2, <2>5 DEF SkipSilentHop, InTranscript
    <3> QED
      BY <2>1, <2>2, <2>3, <3>1
  <2>6. CASE Prune
    BY <2>6 DEF Prune
  <2>7. CASE Ingest
    <3> PICK e \in Nat : e = ProcessEnd /\ e \in Ticks
      BY <2>1, <2>7 DEF IInv, Clock, Ingest
    <3> PICK s \in Nat : s = SliceStart(mode) /\ s <= e
      BY <2>1, SliceIsBehind
    <3>1. /\ pc = "transcribing"
          /\ \E new \in Hears(s, e) :
               IF mode = "refresh" THEN words' = new ELSE words' = Ingested(new, s)
      BY <2>7 DEF Ingest
    <3>2. ~(w \in Whole(s, e))
      BY <2>7, <3>1, MergedStays
    <3>3. w.from < s \/ w.to > e
      BY <2>1, <3>2 DEF Whole
    <3>4. CASE mode = "refresh"
      BY <3>1, <3>3, <3>4
    <3>5. CASE mode # "refresh"
      <4>1. ~(Current(v) /\ ~Overlaps(v, s, e))
        BY <2>2, <2>7, <3>1, <3>5, MergedStays
      <4>2. CASE ~Current(v)
        BY <2>1, <2>2, <2>3, <4>2 DEF Current
      <4>3. CASE Overlaps(v, s, e)
        <5>1. Overlap \in Nat
          BY ConstantsAssumption
        <5>2. v.end >= s - Overlap
          BY <2>3, <4>3, <5>1 DEF Overlaps, Less
        <5>3. w.to + Overlap + Jitter >= s
          BY <2>1, <2>3, <2>4, <5>1, <5>2
        <5> QED
          BY <3>1, <3>3, <5>3
      <4> QED
        BY <4>1, <4>2, <4>3
    <3> QED
      BY <3>4, <3>5
  <2>8. CASE StartWindow \/ TranscribeFails \/ LowConfidence \/ Update
    <3>1. words' = words
      BY <2>8 DEF StartWindow, TranscribeFails, LowConfidence, Update, transcript
    <3> QED
      BY <2>2, <3>1 DEF InTranscript
  <2> QED
    BY <2>5, <2>6, <2>7, <2>8 DEF Next
<1> QED
  BY <1>1, IInvHolds, WInvHolds, PTL DEF Spec, WordsLeaveForAReason
=============================================================================
