------------------------------ MODULE MultiSpan ------------------------------
(***************************************************************************)
(* How a recording is cut into spans of the Quran: align_multi_span.  The  *)
(* segments of the transcript are aligned one by one; a segment far away   *)
(* from the last one that was trusted starts a new span at once when it is *)
(* very confident, and otherwise when the next good segment agrees with it *)
(* or when it is the last of the recording.  Then each span is aligned as  *)
(* a whole, a bogus intro is dropped, and one span is made the active one. *)
(*                                                                         *)
(* Segments, spans and jumps are counted from 1.  The position, surah and  *)
(* confidence that the code copies from a segment are looked up in it, so  *)
(* a position is remembered as the index of its segment.                   *)
(* A definition whose name ends in _bug is a faulty variant of the one     *)
(* that follows it: the code does not do this.                             *)
(***************************************************************************)
EXTENDS Integers, Sequences, FiniteSets

CONSTANTS Aligned,   \* the alignments a segment can have
          NoAlign,   \* a segment without one: too short, or an error
          FarDist,   \* new_span_dist_ayahs and pending_cluster_dist_ayahs (80)
          MaxSegs    \* bound on the segments of a recording

\* Below 0.30, up to 0.93, and from there.
Confidences == {"low", "good", "very"}

\* pos is center_global, surah start_surah_id.
ASSUME ConstantsAssumption ==
  /\ Aligned \subseteq [pos : Nat, surah : Nat, conf : Confidences]
  /\ NoAlign \notin Aligned
  /\ FarDist \in Nat /\ MaxSegs \in Nat

VARIABLES
  segs,      \* the segments seen so far, each with its alignment
  spans,     \* spans, of first and last segment
  jumps,     \* jumps: segment whose start is reported, first segment, spans
  cur,       \* cur_span
  last,      \* the segment of last_good_pos and last_good_surah, or 0
  pending,   \* the pending jump: its segment (0: none), its count, its span
  phase,     \* where align_multi_span is
  refined,   \* span_alignments
  active,    \* active_span_index, or 0
  trusted    \* history: the segments that were last_good_pos

scanVars == <<segs, spans, jumps, cur, last, pending, trusted>>
vars == <<segs, spans, jumps, cur, last, pending, phase, refined, active, trusted>>

NoPending == [start |-> 0, count |-> 0, from |-> 0]

\* Of the alignment of a span: error, confidence below 0.75, from 0.85, and
\* at least 8 aligned and 5 matching words.  An error has none of the latter.
Refinements ==
  {[error |-> TRUE, conf |-> "low", evidence |-> FALSE]} \union
    [error : {FALSE}, conf : {"low", "mid", "high"}, evidence : BOOLEAN]

Init ==
  /\ segs = <<>>
  /\ spans = <<[first |-> 1, last |-> 1]>> /\ jumps = <<>>
  /\ cur = 1 /\ last = 0 /\ pending = NoPending
  /\ phase = "scan" /\ refined = <<>> /\ active = 0
  /\ trusted = {}

-----------------------------------------------------------------------------
(* Distances                                                                *)

Distance(a, b) == IF a.pos >= b.pos THEN a.pos - b.pos ELSE b.pos - a.pos

SurahGap(a, b) == IF a.surah >= b.surah THEN a.surah - b.surah ELSE b.surah - a.surah

Far(a, b) == Distance(a, b) >= FarDist \/ SurahGap(a, b) >= 2

Cluster(a, b) == Distance(a, b) <= FarDist

IsGood(seg) == seg # NoAlign /\ seg.conf \in {"good", "very"}

-----------------------------------------------------------------------------
(* The scan                                                                 *)

\* saturating_sub(1) of an index that the code counts from 0.
Before(i) == IF i > 1 THEN i - 1 ELSE 1

\* The segments up to i belong to the current span.
Extended(i) == [spans EXCEPT ![cur].last = i]

Trust(i) == last' = i /\ trusted' = trusted \union {i} /\ pending' = NoPending

StayInSpan(i) == spans' = Extended(i) /\ UNCHANGED <<jumps, cur>>

Split_bug(from, first, i, at) ==
  /\ spans' = Append(Extended(i), [first |-> first, last |-> i])
  /\ jumps' = Append(jumps, [at |-> at, segment |-> first,
                             from |-> from, to |-> Len(spans) + 1])

\* A new span `first .. i` ends the span `from` before it.
Split(from, first, i, at) ==
  /\ spans' = Append([Extended(i) EXCEPT ![from].last = Before(first)],
                     [first |-> first, last |-> i])
  /\ jumps' = Append(jumps, [at |-> at, segment |-> first,
                             from |-> from, to |-> Len(spans) + 1])

GoToNewSpan == cur' = Len(spans) + 1

Skip_bug(seg, i) ==
  /\ ~IsGood(seg)
  /\ StayInSpan(i)
  /\ pending' = NoPending
  /\ UNCHANGED <<last, trusted>>

\* No alignment, or too little confidence.  A pending jump stays pending.
Skip(seg, i) ==
  /\ ~IsGood(seg)
  /\ StayInSpan(i)
  /\ UNCHANGED <<last, pending, trusted>>

\* The first good segment, or one near the last trusted one.
Follow(seg, i) ==
  /\ IsGood(seg)
  /\ last # 0 => ~Far(seg, segs[last])
  /\ StayInSpan(i)
  /\ Trust(i)

FarAway(seg) == IsGood(seg) /\ last # 0 /\ Far(seg, segs[last])

\* A confident jump.
JumpAtOnce(seg, i) ==
  /\ FarAway(seg) /\ seg.conf = "very"
  /\ Split(cur, i, i, i) /\ GoToNewSpan
  /\ Trust(i)

Confirms(seg) == pending.start # 0 /\ Cluster(seg, segs[pending.start])

Suspect_bug(seg, i) ==
  /\ FarAway(seg) /\ seg.conf # "very"
  /\ ~Confirms(seg)
  /\ StayInSpan(i)
  /\ IF pending.start = 0 THEN pending' = [start |-> i, count |-> 1, from |-> cur]
                          ELSE UNCHANGED pending
  /\ UNCHANGED <<last, trusted>>

\* A jump that has to be seen again; it replaces one that was not confirmed.
Suspect(seg, i) ==
  /\ FarAway(seg) /\ seg.conf # "very"
  /\ ~Confirms(seg)
  /\ StayInSpan(i)
  /\ pending' = [start |-> i, count |-> 1, from |-> cur]
  /\ UNCHANGED <<last, trusted>>

\* A second far segment near the first one: the span starts at the first, the
\* jump is reported at the start of the second.
Confirm(seg, i) ==
  /\ FarAway(seg) /\ seg.conf # "very"
  /\ Confirms(seg)
  /\ IF pending.count + 1 >= 2
     THEN Split(pending.from, pending.start, i, i) /\ GoToNewSpan /\ Trust(i)
     ELSE /\ StayInSpan(i)
          /\ pending' = [pending EXCEPT !.count = @ + 1]
          /\ UNCHANGED <<last, trusted>>

\* One turn of the loop over the segments.
Scan(seg) ==
  LET i == Len(segs) + 1 IN
  /\ phase = "scan" /\ Len(segs) < MaxSegs
  /\ segs' = Append(segs, seg)
  /\ \/ Skip(seg, i) \/ Follow(seg, i) \/ JumpAtOnce(seg, i)
     \/ Suspect(seg, i) \/ Confirm(seg, i)
  /\ UNCHANGED <<phase, refined, active>>

\* The jump at the end of the recording that nothing can confirm.
TailJump ==
  /\ pending.start # 0 /\ last # 0
  /\ pending.start >= Len(segs)
  /\ Far(segs[pending.start], segs[last])
  /\ pending.start > spans[pending.from].first

\* The end of the scan.  Without segments the code does not get here.
EndScan ==
  /\ phase = "scan" /\ segs # <<>>
  /\ IF TailJump
     THEN Split(pending.from, pending.start, Len(segs), pending.start)
     ELSE UNCHANGED <<spans, jumps>>
  /\ phase' = "compact"
  /\ UNCHANGED <<segs, cur, last, pending, refined, active, trusted>>

-----------------------------------------------------------------------------
(* The spans                                                                *)

\* The elements of s with an index in K, in order.
Kept(s, K) ==
  [k \in 1..Cardinality(K) |-> s[CHOOSE j \in K : Cardinality({i \in K : i <= j}) = k]]

Nonempty == {k \in DOMAIN spans : spans[k].last >= spans[k].first}

NewIndex(k) == Cardinality({j \in Nonempty : j <= k})

\* Empty spans are dropped and the jumps renumbered.
Compact ==
  /\ phase = "compact"
  /\ spans' = Kept(spans, Nonempty)
  /\ jumps' = LET renumbered == [k \in DOMAIN jumps |->
                    [jumps[k] EXCEPT !.from = NewIndex(@), !.to = NewIndex(@)]]
              IN Kept(renumbered, {k \in DOMAIN jumps :
                                     jumps[k].from \in Nonempty /\ jumps[k].to \in Nonempty})
  /\ phase' = "refine"
  /\ UNCHANGED <<segs, cur, last, pending, refined, active, trusted>>

\* Each span is aligned as a whole.  `over` says which span an entry is about.
Refine ==
  /\ phase = "refine"
  /\ \E r \in [DOMAIN spans -> Refinements] :
       refined' = [k \in DOMAIN spans |-> [over |-> spans[k], result |-> r[k]]]
  /\ phase' = "drop"
  /\ UNCHANGED <<scanVars, active>>

DropIntro_bug ==
  /\ phase = "drop"
  /\ Len(spans) >= 2
  /\ spans[1].last <= spans[1].first
  /\ refined[1].result.conf = "low"
  /\ spans' = Tail(spans) /\ refined' = Tail(refined)
  /\ jumps' = LET K == {k \in DOMAIN jumps : jumps[k].from # 1 /\ jumps[k].to # 1}
              IN Kept(jumps, K)
  /\ UNCHANGED <<segs, cur, last, pending, phase, active, trusted>>

\* A leading span of one segment, low confidence and little time against the
\* rest is an intro: the jump out of it goes with it.  Whether the times are so
\* is left open.
DropIntro ==
  /\ phase = "drop"
  /\ Len(spans) >= 2
  /\ spans[1].last <= spans[1].first
  /\ refined[1].result.conf = "low"
  /\ spans' = Tail(spans) /\ refined' = Tail(refined)
  /\ jumps' = LET K == {k \in DOMAIN jumps : jumps[k].from # 1 /\ jumps[k].to # 1}
                  shifted == [k \in DOMAIN jumps |->
                    [jumps[k] EXCEPT !.from = Before(@), !.to = Before(@)]]
              IN Kept(shifted, K)
  /\ UNCHANGED <<segs, cur, last, pending, phase, active, trusted>>

Valid == {k \in DOMAIN refined : ~refined[k].result.error}

\* The last span with an alignment, or none.
LastValid ==
  IF Valid = {} THEN 0 ELSE CHOOSE k \in Valid : \A j \in Valid : j <= k

\* The last span has little evidence and the one before it has more.
TailIsWeak(k) ==
  /\ k > 1
  /\ ~refined[k].result.evidence /\ refined[k].result.conf # "high"
  /\ refined[k - 1].result.evidence

Activate ==
  /\ phase = "drop"
  /\ active' = IF TailIsWeak(LastValid) THEN LastValid - 1 ELSE LastValid
  /\ phase' = "done"
  /\ UNCHANGED <<scanVars, refined>>

Next ==
  \/ \E seg \in Aligned \union {NoAlign} : Scan(seg)
  \/ EndScan \/ Compact \/ Refine \/ DropIntro \/ Activate

Spec == Init /\ [][Next]_vars

-----------------------------------------------------------------------------
(* Properties                                                               *)

Phases == {"scan", "compact", "refine", "drop", "done"}

\* The spans are never empty and follow each other without gap or overlap up to
\* the last segment, and from the first one unless an intro was dropped: every
\* segment is in exactly one span, however the jumps were confirmed.
SpansTile ==
  /\ \A k \in DOMAIN spans : spans[k].first <= spans[k].last
  /\ \A k \in DOMAIN spans : k > 1 => spans[k].first = spans[k - 1].last + 1
  /\ segs # <<>> => spans[Len(spans)].last = Len(segs)
  /\ phase \notin {"drop", "done"} => spans[1].first = 1

\* The reported jumps are the seams between the reported spans, in order, and
\* the alignments are those of the reported spans: dropping spans renumbers
\* everything that counts them.
JumpsAreSeams ==
  /\ Len(jumps) = Len(spans) - 1
  /\ \A k \in DOMAIN jumps :
       /\ jumps[k].from = k /\ jumps[k].to = k + 1
       /\ jumps[k].segment = spans[k + 1].first
       /\ jumps[k].at \in spans[k + 1].first .. spans[k + 1].last
  /\ phase \in {"drop", "done"} =>
       /\ Len(refined) = Len(spans)
       /\ \A k \in DOMAIN spans : refined[k].over = spans[k]

\* The trusted segment right before i.
IsTrustedBefore(t, i) ==
  t \in trusted /\ t < i /\ \A u \in trusted : u < i => u <= t

\* Nothing good strictly between a and b.
NoneGoodBetween(a, b) == \A i \in DOMAIN segs : a < i /\ i < b => ~IsGood(segs[i])

\* A span starts only at a good segment far from the one trusted before it, and
\* that segment is very confident, or the next good one is far as well and near
\* to it, or there is no segment after it: one doubtful segment in the middle
\* of a recitation never splits it.
SplitsAreJustified ==
  \A k \in DOMAIN jumps :
    LET s == jumps[k].segment IN
    /\ IsGood(segs[s])
    /\ \E t \in trusted :
         /\ IsTrustedBefore(t, s) /\ Far(segs[s], segs[t])
         /\ \/ segs[s].conf = "very"
            \/ \E c \in s + 1 .. Len(segs) :
                 /\ IsGood(segs[c]) /\ NoneGoodBetween(s, c)
                 /\ Far(segs[c], segs[t]) /\ Cluster(segs[c], segs[s])
            \/ phase # "scan" /\ s = Len(segs)

IsFirst(i) == \E k \in DOMAIN spans : spans[k].first = i

\* No jump is missed: a trusted segment far from the one trusted before it is in
\* a later span, a very confident segment is always trusted, and of two good
\* segments in a row that agree with each other one is trusted.
NoJumpMissed ==
  /\ \A i \in DOMAIN segs : IsGood(segs[i]) /\ segs[i].conf = "very" => i \in trusted
  /\ \A a, b \in DOMAIN segs :
       a < b /\ IsGood(segs[a]) /\ IsGood(segs[b]) /\ NoneGoodBetween(a, b)
         /\ Cluster(segs[a], segs[b]) => a \in trusted \/ b \in trusted
  /\ phase = "scan" =>
       \A t, i \in trusted :
         IsTrustedBefore(t, i) /\ Far(segs[i], segs[t]) =>
           \E j \in t + 1 .. i : IsFirst(j)
=============================================================================
