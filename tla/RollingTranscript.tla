-------------------------- MODULE RollingTranscript --------------------------
(***************************************************************************)
(* The rolling transcript of a streaming session: the part of              *)
(* processor_loop that decides how much audio to transcribe again, merges  *)
(* the words it hears into those of the last windows, and, after the       *)
(* alignment, prunes them or asks for a full refresh.                      *)
(*                                                                         *)
(* Time goes in ticks as short as one likes: every length is a constant,   *)
(* the overlap of the merge and the distance of the deduplication too.  A  *)
(* word is known by what was said and has the times the transcriber gave   *)
(* it; the vector, which the code keeps sorted by start, is the set of its *)
(* elements.  The audio of a window is at hand: that is what AudioRing is  *)
(* about.                                                                  *)
(* A definition whose name ends in _bug is a faulty variant of the one     *)
(* that follows it: the code does not do this.                             *)
(***************************************************************************)
EXTENDS Integers, FiniteSetsExt

CONSTANTS Words,         \* the recitation
          Hop, TailLen,  \* hop_s; tail_s: the hop and its context
          Window,        \* window_s
          Overlap,       \* overlap_s (0.25 s)
          Near,          \* copies of a word that start nearer are one (0.03 s)
          Jitter,        \* how far the times of the transcriber may be off
          RefreshEvery,  \* full_refresh_every_s, 0 for never
          RefreshGap,    \* least time before a low-confidence refresh (8 s)
          MaxTime        \* bound on the audio

Ticks == 0..MaxTime

\* said identifies a word and counts in the order of the recitation.
ASSUME ConstantsAssumption ==
  /\ Hop \in Nat \ {0} /\ TailLen \in Nat /\ Window \in Nat
  /\ Hop <= TailLen /\ TailLen <= Window
  /\ Overlap \in Nat /\ Near \in 1..Overlap
  /\ Jitter \in 0..Overlap
  /\ RefreshEvery \in Nat /\ RefreshGap \in Nat /\ MaxTime \in Nat
  /\ Words \subseteq [said : Nat, from : Nat, to : Nat]
  /\ \A w \in Words : w.from < w.to /\ w.to - w.from <= TailLen - Hop
  /\ \A v, w \in Words : v.said < w.said => v.to <= w.from
  /\ \A v, w \in Words : v.said = w.said => v = w

VARIABLES
  at,           \* last_processed_pcm_bytes, in ticks
  words,        \* transcript.words
  lastRefresh,  \* last_full_refresh_end_s
  force,        \* force_refresh_next
  pc,           \* "idle", "transcribing" or "aligning"
  mode,         \* of the window under way, or the last one
  owed          \* history: since a prune nothing was transcribed ("due"), or
                \* only attempts that failed ("failed"); else "no"

transcript == <<words, lastRefresh, force>>
vars == <<at, words, lastRefresh, force, pc, mode, owed>>

Init ==
  /\ at = 0 /\ words = {} /\ lastRefresh = 0 /\ force = FALSE
  /\ pc = "idle" /\ mode = "tail" /\ owed = "no"

-----------------------------------------------------------------------------
(* The slice                                                                *)

ProcessEnd == at + Hop

Less(a, b) == IF a >= b THEN a - b ELSE 0

Larger(a, b) == IF a >= b THEN a ELSE b

Smaller(a, b) == IF a <= b THEN a ELSE b

KeepStart == Less(ProcessEnd, Window)

SliceStart_bug(m) == Less(ProcessEnd, IF m = "refresh" THEN Window ELSE Hop)

SliceStart(m) == Less(ProcessEnd, IF m = "refresh" THEN Window ELSE TailLen)

RefreshIsDue == RefreshEvery > 0 /\ ProcessEnd - lastRefresh >= RefreshEvery

HopArrives == pc = "idle" /\ ProcessEnd <= MaxTime

\* Long silence: the hop is passed over, the transcript only loses its old end.
SkipSilentHop ==
  /\ HopArrives
  /\ words' = {w \in words : w.end >= KeepStart}
  /\ at' = ProcessEnd
  /\ UNCHANGED <<lastRefresh, force, pc, mode, owed>>

\* extract_transcribe_pcm: a forced refresh is forgotten once it is decided on.
StartWindow ==
  /\ HopArrives
  /\ mode' = IF force \/ RefreshIsDue THEN "refresh" ELSE "tail"
  /\ force' = FALSE
  /\ pc' = "transcribing"
  /\ UNCHANGED <<at, words, lastRefresh, owed>>

\* The hop is passed over.
TranscribeFails ==
  /\ pc = "transcribing"
  /\ at' = ProcessEnd
  /\ pc' = "idle"
  /\ owed' = IF owed = "no" THEN "no" ELSE "failed"
  /\ UNCHANGED <<transcript, mode>>

-----------------------------------------------------------------------------
(* What the transcriber hears                                               *)

Whole(s, e) == {w \in Words : s <= w.from /\ w.to <= e}

\* Cut off by the start or the end of the slice.
Cut(s, e) == {w \in Words : w.from < e /\ s < w.to} \ Whole(s, e)

Within(s, e, t) == Larger(s, Smaller(e, t))

\* Every whole word, and any of those cut off, with times inside of the slice
\* that are off by the same `shift`.
Timed(w, s, e, shift) ==
  [said |-> w.said, start |-> Within(s, e, w.from + shift),
   end |-> Within(s, e, w.to + shift)]

Hears(s, e) ==
  {{Timed(w, s, e, shift) : w \in Whole(s, e) \union cut} :
     cut \in SUBSET Cut(s, e), shift \in -Jitter..Jitter}

-----------------------------------------------------------------------------
(* ingest_words_into_rolling                                                *)

Overlaps_bug(w, s, e) == w.start >= s /\ w.end <= e

Overlaps_open_bug(w, s, e) == w.start <= e + Overlap

\* The slice says what was said here, give or take the overlap.
Overlaps(w, s, e) == w.end >= Less(s, Overlap) /\ w.start <= e + Overlap

Current(w) == w.end >= KeepStart

Copies(S, w) ==
  {v \in S : v.said = w.said /\ w.start - v.start < Near /\ v.start - w.start < Near}

\* The first of near copies stays, with the last of their ends.
Deduped(S) ==
  {[w EXCEPT !.end = Max({v.end : v \in Copies(S, w)})] :
     w \in {w \in S : \A v \in Copies(S, w) : w.start <= v.start}}

Ingested(new, s) ==
  Deduped({w \in words : Current(w) /\ ~Overlaps(w, s, ProcessEnd)} \union new)

\* The answer of the transcriber.
Ingest ==
  /\ pc = "transcribing"
  /\ \E new \in Hears(SliceStart(mode), ProcessEnd) :
       IF mode = "refresh"
       THEN words' = new /\ lastRefresh' = ProcessEnd
       ELSE words' = Ingested(new, SliceStart(mode)) /\ UNCHANGED lastRefresh
  /\ pc' = "aligning"
  /\ owed' = "no"
  /\ UNCHANGED <<at, force, mode>>

-----------------------------------------------------------------------------
(* After the alignment                                                      *)

EndWindow == pc = "aligning" /\ at' = ProcessEnd /\ pc' = "idle" /\ UNCHANGED mode

Prune_bug ==
  /\ EndWindow
  /\ words' = {} /\ force' = TRUE
  /\ owed' = "due"
  /\ UNCHANGED lastRefresh

\* A reset or a skip of 20 ayahs was committed.
Prune ==
  /\ EndWindow
  /\ words' = {} /\ lastRefresh' = 0 /\ force' = TRUE
  /\ owed' = "due"

MayRefresh ==
  /\ mode # "refresh" /\ ProcessEnd >= Window
  /\ ProcessEnd - lastRefresh >= RefreshGap

\* The third update in a row with low confidence asks for a refresh.
LowConfidence ==
  /\ EndWindow
  /\ force' = (force \/ MayRefresh)
  /\ UNCHANGED <<words, lastRefresh, owed>>

Update ==
  /\ EndWindow
  /\ UNCHANGED <<transcript, owed>>

Next ==
  \/ SkipSilentHop \/ StartWindow \/ TranscribeFails \/ Ingest
  \/ Prune \/ LowConfidence \/ Update

Spec == Init /\ [][Next]_vars

-----------------------------------------------------------------------------
(* Properties                                                               *)

\* Every variable is in its range.
TypeOK ==
  /\ at \in Ticks /\ lastRefresh \in Ticks
  /\ words \subseteq [said : Nat, start : Ticks, end : Ticks]
  /\ force \in BOOLEAN
  /\ pc \in {"idle", "transcribing", "aligning"} /\ mode \in {"tail", "refresh"}
  /\ owed \in {"no", "due", "failed"}

\* The copy v breaks off in a word, and w begins in it more than the overlap later.
Halves(v, w) ==
  /\ v.end + Overlap < w.start
  /\ \E x \in Words : x.said = v.said /\ x.from < v.end /\ w.start < x.to

\* However the slices overlap and the times are off, sorting by start gives the
\* words in the order they were said, and none is there twice, but for the two
\* halves of one that went on through more than the overlap of audio that no
\* slice had, as when attempts fail or silence is skipped.
WordsOnceInOrder ==
  \A v, w \in words :
    /\ v.said = w.said => v = w \/ Halves(v, w) \/ Halves(w, v)
    /\ v.said < w.said => v.start <= w.start

InTranscript(w) == \E v \in words : v.said = w.said

\* A window that was transcribed has in the transcript, from their first to their
\* last sound, the words that ended in its hop: the context before it is
\* long enough and merging keeps what is new.
HopIsHeard ==
  [][pc = "transcribing" /\ pc' = "aligning" =>
       \A w \in Words :
         at < w.to /\ w.to <= ProcessEnd => InTranscript(w)']_vars

\* Some copy of the word reaches its end.
Kept(w) == \E v \in words : v.said = w.said /\ v.end >= w.to - Jitter

\* No window forgets a word that it could hear whole: once heard to its end, a
\* word goes with a prune, with the old end of the window, or when it is cut off
\* by the slice: it still went on at the end of it, or it began before the
\* slice and ended at most the overlap and the error of its times before it.
WordsLeaveForAReason ==
  [][\A w \in Words : Kept(w) /\ ~InTranscript(w)' =>
       \/ owed' = "due"
       \/ w.to < KeepStart + Jitter
       \/ w.to > ProcessEnd
       \/ /\ pc = "transcribing"
          /\ w.from < SliceStart(mode)
          /\ mode = "refresh" \/ w.to + Overlap + Jitter >= SliceStart(mode)]_vars

\* The first words after a prune come from a full refresh, also when attempts
\* failed in between, if the session is old enough for refreshes on time.
PruneRefreshes ==
  [][owed # "no" /\ owed' = "no" =>
       \/ mode = "refresh"
       \/ owed = "failed" /\ (RefreshEvery = 0 \/ ProcessEnd < RefreshEvery)]_vars
=============================================================================
