---------------------------- MODULE AyahAlignment ----------------------------
(***************************************************************************)
(* guess_ayah_alignment_v2_from_transcription of alignment_v2.rs, with one *)
(* candidate window: the words are aligned (BandedAlignment), those that   *)
(* were not mapped are given to an ayah next to them, every ayah of the    *)
(* span gets its times from its words, and missing or crossing times are   *)
(* repaired.                                                               *)
(*                                                                         *)
(* A time is a number of ticks, and NoTime is None.  A word has both of    *)
(* its times or neither.  The times of the words are read only after the   *)
(* alignment, and chosen there, with word_time_upgrade, the setting        *)
(* AYAH_WORD_TIME_UPGRADE: only a setting that is an error ends the call   *)
(* before the alignment.  The time base is "absolute", as in the only call *)
(* (multispan.rs).                                                         *)
(* A definition whose name ends in _bug is a faulty variant of the one     *)
(* that follows it: the code does not do this.                             *)
(***************************************************************************)
EXTENDS BandedAlignment

CONSTANTS Heard,    \* what a word may come with: [timed, start, end, est]
          NextGap   \* gap_assign_next_s

NoTime == -1

NoAyah == 0

ASSUME AyahAssumption ==
  /\ Heard \subseteq [timed : BOOLEAN, start : Nat, end : Nat, est : BOOLEAN]
  /\ NextGap \in Nat
  /\ \A r \in References : r.ayah \in [1..Len(r.ids) -> Nat \ {NoAyah}]
  \* A reference is a stretch of the Quran, and its ayahs are in order.
  /\ \A r \in References : \A x, y \in 1..Len(r.ids) :
       x <= y => r.ayah[x] <= r.ayah[y]

VARIABLES
  words,   \* timed_tokens
  segs,    \* segments: start_s and end_s of each ayah of the span
  at,      \* idx, the next ayah
  upgrade, \* word_time_upgrade: "unread", "smooth", "off" or "refused"
  stage    \* "aligning", "filling", "clipping", "done" or "error"

timeVars == <<words, segs, at, upgrade, stage>>
vars == <<alignVars, timeVars>>

Init ==
  /\ AlignInit
  /\ words = <<>> /\ segs = <<>> /\ at = 0
  /\ upgrade = "unread" /\ stage = "aligning"

Align == stage = "aligning" /\ AlignNext /\ UNCHANGED timeVars

-----------------------------------------------------------------------------
(* The times of the words                                                   *)

EndsUpTo(raw, k) == UNION {{raw[l].start, raw[l].end} : l \in {l \in 1..k : raw[l].timed}}

\* upgrade_word_timestamps: a word starts no earlier than the timed words before
\* it end, and ends no earlier than it starts.
Smooth(raw) ==
  [k \in DOMAIN raw |->
     IF raw[k].timed
     THEN [raw[k] EXCEPT !.start = Max({@} \union EndsUpTo(raw, k - 1)),
                         !.end = Max(EndsUpTo(raw, k))]
     ELSE raw[k]]

Upgraded(mode, raw) == IF mode = "smooth" THEN Smooth(raw) ELSE raw

\* "word_time_upgrade failed": "whisperx", "forced" and any unknown mode.
UpgradeFails ==
  /\ stage = "aligning" /\ pc = "row" /\ i = 1
  /\ upgrade' = "refused"
  /\ stage' = "error"
  /\ UNCHANGED <<alignVars, words, segs, at>>

-----------------------------------------------------------------------------
(* The span, and the ayah of every word                                     *)

Ayah(r) == refr.ayah[r]

Mapped == {map[k] : k \in 1..m} \ {0}

Matched == {map[k] : k \in {k \in 1..m : map[k] # 0 /\ Matches(k, map[k])}}

Anchors == IF Matched # {} THEN Matched ELSE Mapped

First == Ayah(Min(Anchors))

Final == Ayah(Max(Anchors))

InSpan(r) == r \in Min(Anchors)..Max(Anchors)

TokenAyah(k) == IF map[k] # 0 /\ InSpan(map[k]) THEN Ayah(map[k]) ELSE NoAyah

Before(k) == {l \in 1..k : TokenAyah(l) # NoAyah}

After(k) == {l \in k..m : TokenAyah(l) # NoAyah}

\* ayah_contains_token_id
Holds(a, k) == \E r \in 1..n : Ayah(r) = a /\ ref[r] = obs[k] /\ obs[k] # 0

\* The next word with an ayah starts well after this one ends.
CloserToPrev(w, k) ==
  LET next == w[Min(After(k))]
  IN  ~(next.timed /\ w[k].timed /\ next.start - w[k].end > NextGap)

\* A word on a border goes to that of the two ayahs which has it, or else to the
\* one it is closer to.
ToPrev(w, k, p, f) ==
  IF Holds(p, k) # Holds(f, k) THEN Holds(p, k) ELSE CloserToPrev(w, k)

\* A word with no ayah of its own goes to the ayah around it.  At the ends it goes
\* to the ayah next to it, if that has it.  At the ends and on a border a word with
\* an estimated time goes nowhere.
Assigned(w, k) ==
  LET p == TokenAyah(Max(Before(k)))
      f == TokenAyah(Min(After(k)))
  IN  IF TokenAyah(k) # NoAyah THEN TokenAyah(k)
      ELSE IF Before(k) = {} THEN IF ~w[k].est /\ Holds(f, k) THEN f ELSE NoAyah
      ELSE IF After(k) = {} THEN IF ~w[k].est /\ Holds(p, k) THEN p ELSE NoAyah
      ELSE IF p = f THEN p
      ELSE IF w[k].est THEN NoAyah
      ELSE IF ToPrev(w, k, p, f) THEN p ELSE f

-----------------------------------------------------------------------------
(* The times of the ayahs                                                   *)

Least(S) == IF S = {} THEN NoTime ELSE Min(S)

Greatest(S) == IF S = {} THEN NoTime ELSE Max(S)

\* The times of its words, and the estimated ones only if there are no others.
AyahTime(w, a) ==
  LET timed == {k \in 1..m : Assigned(w, k) = a /\ w[k].timed}
      real == {k \in timed : ~w[k].est}
      used == IF real # {} THEN real ELSE timed
  IN  [start |-> Least({w[k].start : k \in used}),
       end |-> Greatest({w[k].end : k \in used})]

\* "alignment produced no mapped tokens"
NothingMapped ==
  /\ stage = "aligning" /\ pc = "returned"
  /\ Mapped = {}
  /\ stage' = "error"
  /\ UNCHANGED <<alignVars, words, segs, at, upgrade>>

TimeAyahs ==
  /\ stage = "aligning" /\ pc = "returned"
  /\ Mapped # {}
  /\ \E mode \in {"smooth", "off"}, raw \in [1..m -> Heard] :
       LET w == Upgraded(mode, raw)
       IN  /\ upgrade' = mode
           /\ words' = w
           /\ segs' = [a \in First..Final |-> AyahTime(w, a)]
  /\ at' = First
  /\ stage' = "filling"
  /\ UNCHANGED alignVars

Or(a, b) == IF a # NoTime THEN a ELSE b

PrevEnd == IF at = First THEN NoTime ELSE segs[at - 1].end

NextStart_bug == IF at = Final THEN NoTime ELSE segs[at + 1].start

\* The start of the first later ayah that has one.
NextStart ==
  LET later == {a \in at + 1..Final : segs[a].start # NoTime}
  IN  IF later = {} THEN NoTime ELSE segs[Min(later)].start

Filled(seg) ==
  LET start == Or(seg.start, Or(PrevEnd, NextStart))
  IN  [start |-> start, end |-> Or(seg.end, Or(NextStart, start))]

Step(nextStage) ==
  /\ IF at < Final THEN at' = at + 1 /\ UNCHANGED stage
                   ELSE at' = First /\ stage' = nextStage
  /\ UNCHANGED <<alignVars, words, upgrade>>

FillNext ==
  /\ stage = "filling"
  /\ segs' = [segs EXCEPT ![at] = Filled(@)]
  /\ Step("clipping")

LastEnd ==
  LET earlier == {a \in First..at - 1 : segs[a].end # NoTime}
  IN  IF earlier = {} THEN NoTime ELSE segs[Max(earlier)].end

ClippedStart(seg) ==
  IF seg.start # NoTime /\ seg.start < LastEnd THEN LastEnd ELSE seg.start

Clipped_bug(seg) == [start |-> ClippedStart(seg), end |-> seg.end]

\* An ayah starts no earlier than those before it end.
Clipped(seg) ==
  LET start == ClippedStart(seg)
  IN  [start |-> start,
       end |-> IF seg.end # NoTime /\ seg.end < start THEN start ELSE seg.end]

ClipNext ==
  /\ stage = "clipping"
  /\ segs' = [segs EXCEPT ![at] = Clipped(@)]
  /\ Step("done")

Next ==
  \/ UpgradeFails \/ Align \/ NothingMapped \/ TimeAyahs \/ FillNext \/ ClipNext

Spec == Init /\ [][Next]_vars

-----------------------------------------------------------------------------
(* Properties                                                               *)

Ordered(a) ==
  /\ segs[a].start # NoTime
  /\ segs[a].start <= segs[a].end
  /\ a > First => segs[a - 1].end <= segs[a].start

\* Every timed word starts after those before it end.
InTime(w) ==
  /\ \A k \in 1..m : w[k].timed => w[k].start <= w[k].end
  /\ \A k, l \in 1..m :
       k < l /\ w[k].timed /\ w[l].timed => w[k].end <= w[l].start

\* If a word of the span has times, every ayah of it gets times, in the order of
\* the ayahs, however the times of the words overlap and cross.  If they do not,
\* and whatever they are if they are smoothed, then also the real times of every
\* mapped word lie in those of its ayah, whatever the words around it were given to.
SegmentsFitTheWords ==
  stage = "done" =>
    \A k \in 1..m : TokenAyah(k) # NoAyah /\ words[k].timed =>
      /\ \A a \in First..Final : Ordered(a)
      /\ ~words[k].est /\ (upgrade = "smooth" \/ InTime(words)) =>
           /\ segs[TokenAyah(k)].start <= words[k].start
           /\ words[k].end <= segs[TokenAyah(k)].end
=============================================================================
