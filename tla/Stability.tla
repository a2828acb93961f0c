------------------------------ MODULE Stability ------------------------------
(***************************************************************************)
(* How a streaming session decides, window after window, which surah it    *)
(* shows and up to which ayah the recitation is committed: StabilityState  *)
(* and the part of processor_loop that holds its lock.  Each window brings *)
(* a hypothesis of the aligner: the surah it starts in, the ayah it ends   *)
(* at (by its global number, 1 .. MaxAyah) and the evidence for it.        *)
(*                                                                         *)
(* An ayah's (surah, number) key and its global number determine each      *)
(* other, so one number stands for both; a key without a global number is  *)
(* treated by the code like no end at all.  Fractions are in percent.      *)
(* A definition whose name ends in _bug is a faulty variant of the one     *)
(* that follows it: the code does not do this.                             *)
(***************************************************************************)
EXTENDS Naturals

CONSTANTS MaxAyah,    \* global number of the last ayah
          MaxSurah,   \* number of surahs
          Evidence,   \* the evidence that can come with a hypothesis
          BigJump,    \* a forward step this long is a big jump (8)
          StreakCap   \* where the streak counters saturate (usize::MAX)

Confidence == 0..100
Ratio      == 0..100

ASSUME ConstantsAssumption ==
  /\ MaxAyah \in Nat /\ MaxSurah \in Nat
  /\ Evidence \subseteq [conf : Confidence, subs : Nat, ratio : Ratio]
  /\ BigJump \in Nat
  /\ StreakCap \in Nat /\ StreakCap >= 2

VARIABLES
  stable,      \* stable_surah_id
  streak,      \* streak_surah_id
  streakLen,
  committed,   \* committed_end_global (and committed_end)
  pending,     \* pending_end_global (and pending_end)
  pendingLen,  \* pending_streak_len
  lowConf,     \* low_conf_streak_len
  event        \* what the last ayah_update reports

surahVars == <<stable, streak, streakLen>>
ayahVars  == <<committed, pending, pendingLen>>
vars == <<stable, streak, streakLen, committed, pending, pendingLen, lowConf, event>>

None   == 0
Ayahs  == 1..MaxAyah
Surahs == 1..MaxSurah

Hypothesis ==
  [surah : Surahs \union {None}, end : Ayahs \union {None}, evidence : Evidence]

Actions == {"hold", "ignore_backward", "commit", "commit_skip", "reset_committed"}

\* progress.action, hypothesis_end and skipped_ayahs of the update, and whether
\* it wants a low-confidence refresh.  `hyp` is a set of at most one hypothesis.
NoEvent == [hyp |-> {}, action |-> "hold", skipped |-> 0, wantRefresh |-> FALSE]

Init ==
  /\ stable = None /\ streak = None /\ streakLen = 0
  /\ committed = None /\ pending = None /\ pendingLen = 0
  /\ lowConf = 0
  /\ event = NoEvent

-----------------------------------------------------------------------------
(* Evidence                                                                 *)

CommitStreak == 2

Strong(e) == e.conf >= 65 /\ e.subs >= 10 /\ e.ratio >= 55
Ok(e)     == e.conf >= 32 /\ e.subs >= 6 /\ e.ratio >= 40
JumpOk(e) == e.conf >= 45 /\ e.subs >= 6 /\ e.ratio >= 55

Saturated(n) == IF n < StreakCap THEN n + 1 ELSE StreakCap

-----------------------------------------------------------------------------
(* The surah lock                                                           *)

\* A streak of any surahs.
StreakAfter_bug(h) == Saturated(streakLen)

StreakAfter(h) == IF streak = h.surah THEN Saturated(streakLen) ELSE 1

\* The first lock needs 10 % confidence, a switch 25 %; both a streak of two.
LockConf == IF stable = None THEN 10 ELSE 25

LockedAfter(h) ==
  IF h.surah # None /\ h.evidence.conf >= LockConf /\ StreakAfter(h) >= CommitStreak
  THEN h.surah ELSE stable

LockSurah(h) ==
  /\ streak' = h.surah
  /\ streakLen' = StreakAfter(h)
  /\ stable' = LockedAfter(h)

\* After a reset or a big jump the lock follows at once.
RelockSurah(h) ==
  IF h.surah = None THEN LockSurah(h)
  ELSE /\ streak' = h.surah
       /\ streakLen' = IF StreakAfter(h) > CommitStreak THEN StreakAfter(h) ELSE CommitStreak
       /\ stable' = h.surah

-----------------------------------------------------------------------------
(* Low confidence                                                           *)

LowAfter(h) == IF h.evidence.conf < 22 THEN lowConf + 1 ELSE 0

WantRefresh(h) == LowAfter(h) >= 3

CountLow(h) == lowConf' = IF WantRefresh(h) THEN 0 ELSE LowAfter(h)

Report(h, action, skipped) ==
  event' = [hyp |-> {h}, action |-> action, skipped |-> skipped,
            wantRefresh |-> WantRefresh(h)]

-----------------------------------------------------------------------------
(* The committed ayah                                                       *)

ClearPending_bug == UNCHANGED <<pending, pendingLen>>

ClearPending == pending' = None /\ pendingLen' = 0

\* A streak of any ayahs.
PendingAfter_bug(h) == Saturated(pendingLen)

PendingAfter(h) == IF pending = h.end THEN Saturated(pendingLen) ELSE 1

\* The hypothesis is remembered and has to be seen again.
KeepPending(h) ==
  /\ pending' = h.end /\ pendingLen' = PendingAfter(h)
  /\ UNCHANGED committed

Commit(h) == committed' = h.end /\ ClearPending

Agreed_bug(h) == Ok(h.evidence) /\ PendingAfter(h) > CommitStreak

Agreed(h) == Ok(h.evidence) /\ PendingAfter(h) >= CommitStreak

\* No end, or one without a global number.
NoEnd(h) ==
  /\ h.end = None
  /\ ClearPending /\ UNCHANGED committed
  /\ LockSurah(h)
  /\ Report(h, "hold", 0)

\* Nothing committed yet.
FirstEnd(h) ==
  /\ h.end # None /\ committed = None
  /\ LockSurah(h)
  /\ IF Strong(h.evidence) \/ Agreed(h)
     THEN Commit(h) /\ Report(h, "commit", 0)
     ELSE KeepPending(h) /\ Report(h, "hold", 0)

\* More than two ayahs back: a restart, or a wrong guess.
Backward(h) ==
  /\ h.end # None /\ committed # None
  /\ h.end + 2 < committed
  /\ IF Strong(h.evidence)
     THEN Commit(h) /\ RelockSurah(h) /\ Report(h, "reset_committed", 0)
     ELSE /\ ClearPending /\ UNCHANGED committed
          /\ LockSurah(h) /\ Report(h, "ignore_backward", 0)

\* Jitter moves the committed ayah along.
NotAdvancing_bug(h) ==
  /\ h.end # None /\ committed # None
  /\ h.end + 2 >= committed /\ h.end <= committed
  /\ Commit(h)
  /\ LockSurah(h)
  /\ Report(h, "hold", 0)

\* The same ayah, or jitter.
NotAdvancing(h) ==
  /\ h.end # None /\ committed # None
  /\ h.end + 2 >= committed /\ h.end <= committed
  /\ ClearPending /\ UNCHANGED committed
  /\ LockSurah(h)
  /\ Report(h, "hold", 0)

IsBigJump(h) == h.end - committed >= BigJump

ForwardCommits(h) ==
  Strong(h.evidence) \/ (Agreed(h) /\ (IsBigJump(h) => JumpOk(h.evidence)))

Forward(h) ==
  /\ h.end # None /\ committed # None
  /\ h.end > committed
  /\ IF ForwardCommits(h)
     THEN /\ Commit(h)
          /\ IF IsBigJump(h) THEN RelockSurah(h) ELSE LockSurah(h)
          /\ IF h.end > committed + 1
             THEN Report(h, "commit_skip", h.end - committed - 1)
             ELSE Report(h, "commit", 0)
     ELSE KeepPending(h) /\ LockSurah(h) /\ Report(h, "hold", 0)

\* One aligned window.
Update(h) ==
  /\ CountLow(h)
  /\ NoEnd(h) \/ FirstEnd(h) \/ Backward(h) \/ NotAdvancing(h) \/ Forward(h)

Next == \E h \in Hypothesis : Update(h)

Spec == Init /\ [][Next]_vars

-----------------------------------------------------------------------------
(* Properties                                                               *)

\* Every variable is in its range.
TypeOK ==
  /\ stable \in Surahs \union {None} /\ streak \in Surahs \union {None}
  /\ streakLen \in 0..StreakCap
  /\ committed \in Ayahs \union {None} /\ pending \in Ayahs \union {None}
  /\ pendingLen \in 0..StreakCap
  /\ lowConf \in 0..2
  /\ event \in [hyp : {{h} : h \in Hypothesis} \union {{}}, action : Actions,
                skipped : 0..MaxAyah, wantRefresh : BOOLEAN]

Ahead(ayah) == ayah # None /\ (committed = None \/ ayah > committed)

\* The streaks are about the last update: the pending ayah is the end it saw
\* when that lies ahead of the committed one, the surah of the streak is the
\* one it predicted, and low updates are counted only after a low one.  None
\* of them outlives an update that saw something else.
LastSeen ==
  /\ event.hyp = {} => pending = None /\ streak = None
  /\ \A g \in event.hyp :
       /\ pending = IF Ahead(g.end) THEN g.end ELSE None
       /\ streak = g.surah
  /\ pending = None <=> pendingLen = 0
  /\ lowConf > 0 => \E g \in event.hyp : g.evidence.conf < 22 /\ ~event.wantRefresh

\* An update commits another ayah without strong evidence only when the update
\* right before it saw the same one: a single weak guess never commits.
CommitNeedsAgreement ==
  [][committed' # committed =>
       \A h \in event'.hyp :
         /\ h.end = committed'
         /\ Strong(h.evidence) \/ \E g \in event.hyp : g.end = h.end]_vars

\* What is committed is given up only for a later ayah, or, on strong evidence,
\* for one more than two ayahs back.
CommittedMovesBackOnlyByReset ==
  [][committed' < committed =>
       /\ event'.action = "reset_committed"
       /\ committed' + 2 < committed /\ committed' # None
       /\ \A h \in event'.hyp : Strong(h.evidence)]_vars

\* Two updates in a row that agree on an ayah ahead, the second with evidence
\* good enough for a jump, do commit it: no hypothesis is overlooked.
AgreementCommits ==
  [][\A g \in event.hyp, h \in event'.hyp :
       (/\ g.end = h.end /\ Ahead(h.end)
        /\ Ok(h.evidence) /\ JumpOk(h.evidence))
         => committed' = h.end]_vars

\* The shown surah changes only to one that the last two updates predicted, or
\* with the commit of a reset or a big jump; once shown, some surah stays shown.
StableNeedsStreak ==
  [][stable' # stable =>
       /\ stable' # None
       /\ \A h \in event'.hyp : h.surah = stable'
       /\ \/ \E g \in event.hyp : g.surah = stable'
          \/ event'.action = "reset_committed"
          \/ event'.action \in {"commit", "commit_skip"} /\ committed' - committed >= BigJump]_vars

\* A low-confidence refresh is asked for only after another low update that did
\* not ask for one: the requests are one-off, never two in a row.
RefreshIsSpaced ==
  [][event'.wantRefresh =>
       \E g \in event.hyp : g.evidence.conf < 22 /\ ~event.wantRefresh]_vars
=============================================================================
