--------------------------- MODULE StabilityProofs ---------------------------
(***************************************************************************)
(* Theorems about Stability, for every number of ayahs and surahs, every   *)
(* set of evidence and every length of a big jump.  TypeOK /\ LastSeen is  *)
(* inductive; the action properties follow from it.                        *)
(***************************************************************************)
EXTENDS Stability, TLAPS

Inv == TypeOK /\ LastSeen

LEMMA InitInv == Init => Inv
BY ConstantsAssumption DEF Init, Inv, TypeOK, LastSeen, NoEvent, None, Actions, Surahs, Ayahs

\* What every way through an update has in common.
LEMMA UpdateTypes ==
  ASSUME Inv, NEW h \in Hypothesis, Update(h)
  PROVE  TypeOK'
<1> USE ConstantsAssumption DEF Inv
<1>1. /\ h.surah \in Surahs \union {None} /\ h.end \in Ayahs \union {None}
      /\ h.evidence.conf \in Nat /\ h.evidence.subs \in Nat /\ h.evidence.ratio \in Nat
  BY DEF Hypothesis, Confidence, Ratio
<1>2. StreakAfter(h) \in 0..StreakCap /\ PendingAfter(h) \in 0..StreakCap
  BY DEF StreakAfter, PendingAfter, Saturated, TypeOK
<1>3. lowConf' \in 0..2
  BY <1>1 DEF Update, CountLow, WantRefresh, LowAfter, TypeOK
<1>4. ASSUME LockSurah(h) \/ RelockSurah(h)
      PROVE  /\ stable' \in Surahs \union {None} /\ streak' \in Surahs \union {None}
             /\ streakLen' \in 0..StreakCap
  BY <1>1, <1>2, <1>4
     DEF LockSurah, RelockSurah, LockedAfter, CommitStreak, TypeOK
<1>5. ASSUME Commit(h) \/ KeepPending(h) \/ (ClearPending /\ UNCHANGED committed)
      PROVE  /\ committed' \in Ayahs \union {None} /\ pending' \in Ayahs \union {None}
             /\ pendingLen' \in 0..StreakCap
  BY <1>1, <1>2, <1>5 DEF Commit, KeepPending, ClearPending, None, TypeOK
<1>6. ASSUME NEW action \in Actions, NEW n \in 0..MaxAyah, Report(h, action, n)
      PROVE  event' \in [hyp : {{g} : g \in Hypothesis} \union {{}}, action : Actions,
                         skipped : 0..MaxAyah, wantRefresh : BOOLEAN]
  BY <1>6 DEF Report, WantRefresh
<1>7. QED
  <2> SUFFICES /\ LockSurah(h) \/ RelockSurah(h)
               /\ Commit(h) \/ KeepPending(h) \/ (ClearPending /\ UNCHANGED committed)
               /\ \E action \in Actions, n \in 0..MaxAyah : Report(h, action, n)
    BY <1>3, <1>4, <1>5, <1>6 DEF TypeOK
  <2>1. CASE NoEnd(h)
    BY <2>1 DEF NoEnd, Actions
  <2>2. CASE FirstEnd(h)
    BY <2>2 DEF FirstEnd, Actions
  <2>3. CASE Backward(h)
    BY <2>3 DEF Backward, Actions
  <2>4. CASE NotAdvancing(h)
    BY <2>4 DEF NotAdvancing, Actions
  <2>5. CASE Forward(h)
    <3>1. h.end - committed - 1 \in 0..MaxAyah
      BY <1>1, <2>5 DEF Forward, TypeOK, Ayahs, None
    <3>2. QED
      BY <2>5, <3>1 DEF Forward, Actions
  <2>6. QED
    BY <2>1, <2>2, <2>3, <2>4, <2>5 DEF Update

\* After an update the pending ayah and the streak are about its hypothesis.
LEMMA UpdateLastSeen ==
  ASSUME Inv, NEW h \in Hypothesis, Update(h)
  PROVE  LastSeen' /\ event'.hyp = {h}
<1> USE ConstantsAssumption DEF Inv
<1>1. /\ h.surah \in Surahs \union {None} /\ h.end \in Ayahs \union {None}
      /\ PendingAfter(h) # 0 /\ PendingAfter(h) \in Nat
  BY DEF Hypothesis, PendingAfter, Saturated, TypeOK
<1>2. event'.hyp = {h}
  BY DEF Update, NoEnd, FirstEnd, Backward, NotAdvancing, Forward, Report
<1>3. streak' = h.surah
  BY DEF Update, NoEnd, FirstEnd, Backward, NotAdvancing, Forward, LockSurah, RelockSurah
<1>4. /\ pending' = IF Ahead(h.end)' THEN h.end ELSE None
      /\ pending' = None <=> pendingLen' = 0
  <2> USE <1>1 DEF Ahead, ClearPending, KeepPending, Commit, TypeOK, Ayahs, None
  <2>1. CASE NoEnd(h)
    BY <2>1 DEF NoEnd
  <2>2. CASE FirstEnd(h)
    BY <2>2 DEF FirstEnd
  <2>3. CASE Backward(h)
    BY <2>3 DEF Backward
  <2>4. CASE NotAdvancing(h)
    BY <2>4 DEF NotAdvancing
  <2>5. CASE Forward(h)
    BY <2>5 DEF Forward
  <2>6. QED
    BY <2>1, <2>2, <2>3, <2>4, <2>5 DEF Update
<1>5. lowConf' > 0 => h.evidence.conf < 22 /\ ~event'.wantRefresh
  <2>1. h.evidence.conf \in Nat
    BY DEF Hypothesis, Confidence
  <2>2. event'.wantRefresh = WantRefresh(h)
    BY DEF Update, NoEnd, FirstEnd, Backward, NotAdvancing, Forward, Report
  <2>3. lowConf' > 0 => h.evidence.conf < 22 /\ ~WantRefresh(h)
    BY <2>1 DEF Update, CountLow, WantRefresh, LowAfter, TypeOK
  <2>4. QED
    BY <2>2, <2>3, Zenon
<1>6. QED
  BY <1>2, <1>3, <1>4, <1>5 DEF LastSeen, Ahead

\* Types and LastSeen hold in every state: the pending ayah and the streak of
\* StabilityState never outlive the window they come from.
THEOREM LastSeenHolds == Spec => [](TypeOK /\ LastSeen)
<1>1. Init => Inv
  BY InitInv
<1>2. Inv /\ [Next]_vars => Inv'
  <2> SUFFICES ASSUME Inv, [Next]_vars PROVE Inv'
    OBVIOUS
  <2>1. CASE Next
    BY <2>1, UpdateTypes, UpdateLastSeen DEF Next, Inv
  <2>2. CASE UNCHANGED vars
    BY <2>2 DEF vars, Inv, TypeOK, LastSeen, Ahead
  <2>3. QED
    BY <2>1, <2>2
<1>3. Inv => TypeOK /\ LastSeen
  BY DEF Inv
<1>4. QED
  BY <1>1, <1>2, <1>3, PTL DEF Spec

\* What an update may commit: its own end, strongly or agreed and ahead.
LEMMA WhatCommits ==
  ASSUME Inv, NEW h \in Hypothesis, Update(h), committed' # committed
  PROVE  /\ committed' = h.end /\ h.end # None
         /\ \/ committed = None \/ h.end > committed
            \/ /\ h.end + 2 < committed /\ Strong(h.evidence)
               /\ event'.action = "reset_committed"
         /\ Strong(h.evidence) \/ pending = h.end
<1> USE ConstantsAssumption DEF Inv, Commit, KeepPending
<1>1. h.end \in Ayahs \union {None}
  BY DEF Hypothesis
<1>2. Agreed(h) => pending = h.end
  BY DEF Agreed, PendingAfter, CommitStreak
<1>3. CASE NoEnd(h)
  BY <1>3 DEF NoEnd
<1>4. CASE FirstEnd(h)
  BY <1>2, <1>4 DEF FirstEnd
<1>5. CASE Backward(h)
  BY <1>5 DEF Backward, Report
<1>6. CASE NotAdvancing(h)
  BY <1>6 DEF NotAdvancing
<1>7. CASE Forward(h)
  BY <1>2, <1>7 DEF Forward, ForwardCommits
<1>8. QED
  BY <1>3, <1>4, <1>5, <1>6, <1>7 DEF Update

\* A single weak guess never commits an ayah (processor_loop's commit logic).
THEOREM WeakGuessesNeverCommit == Spec => CommitNeedsAgreement
<1> DEFINE Good ==
      committed' # committed =>
        \A h \in event'.hyp :
          /\ h.end = committed'
          /\ Strong(h.evidence) \/ \E g \in event.hyp : g.end = h.end
<1>1. Inv /\ [Next]_vars => [Good]_vars
  <2> SUFFICES ASSUME Inv, NEW h \in Hypothesis, Update(h) PROVE Good
    BY DEF Next
  <2> SUFFICES ASSUME committed' # committed
               PROVE  /\ h.end = committed'
                      /\ Strong(h.evidence) \/ \E g \in event.hyp : g.end = h.end
    BY UpdateLastSeen
  <2>1. pending = h.end /\ h.end # None => \E g \in event.hyp : g.end = h.end
    <3> SUFFICES ASSUME pending = h.end, h.end # None
                 PROVE  \E g \in event.hyp : g.end = h.end
      OBVIOUS
    <3>1. PICK g \in event.hyp : TRUE
      BY DEF Inv, LastSeen
    <3>2. g.end = pending
      BY DEF Inv, LastSeen
    <3>3. QED
      BY <3>2
  <2>2. QED
    BY <2>1, WhatCommits
<1>2. QED
  BY <1>1, LastSeenHolds, PTL DEF Spec, CommitNeedsAgreement, Inv

\* Committed ayahs are given up only by a reset (the backward branch).
THEOREM OnlyResetsMoveBack == Spec => CommittedMovesBackOnlyByReset
<1> DEFINE Good ==
      committed' < committed =>
        /\ event'.action = "reset_committed"
        /\ committed' + 2 < committed /\ committed' # None
        /\ \A h \in event'.hyp : Strong(h.evidence)
<1>1. Inv /\ [Next]_vars => [Good]_vars
  <2> SUFFICES ASSUME Inv, NEW h \in Hypothesis, Update(h), committed' < committed
               PROVE  /\ event'.action = "reset_committed"
                      /\ committed' + 2 < committed /\ committed' # None
                      /\ Strong(h.evidence)
    BY UpdateLastSeen DEF Next
  <2>1. committed \in Nat /\ committed' \in Nat
    BY UpdateTypes DEF Inv, TypeOK, Ayahs, None
  <2>2. committed' # committed
    BY <2>1
  <2>3. /\ committed' = h.end /\ h.end # None
        /\ \/ committed = None \/ h.end > committed
           \/ /\ h.end + 2 < committed /\ Strong(h.evidence)
              /\ event'.action = "reset_committed"
    BY <2>2, WhatCommits
  <2>4. ~(committed = None \/ h.end > committed)
    BY <2>1, <2>3 DEF None
  <2>5. QED
    BY <2>3, <2>4
<1>2. QED
  BY <1>1, LastSeenHolds, PTL DEF Spec, CommittedMovesBackOnlyByReset, Inv

\* Two agreeing windows with evidence for a jump always commit.
THEOREM AgreementAlwaysCommits == Spec => AgreementCommits
<1> DEFINE Good ==
      \A g \in event.hyp, h \in event'.hyp :
        (/\ g.end = h.end /\ Ahead(h.end)
         /\ Ok(h.evidence) /\ JumpOk(h.evidence))
          => committed' = h.end
<1>1. Inv /\ [Next]_vars => [Good]_vars
  <2> SUFFICES ASSUME Inv, NEW h \in Hypothesis, Update(h), NEW g \in event.hyp,
                      g.end = h.end, Ahead(h.end), Ok(h.evidence), JumpOk(h.evidence)
               PROVE  committed' = h.end
    BY UpdateLastSeen DEF Next
  <2>1. pending = h.end /\ pendingLen # 0 /\ pendingLen \in Nat
    BY DEF Inv, LastSeen, TypeOK, Ahead
  <2>2. PendingAfter(h) >= CommitStreak
    BY <2>1, ConstantsAssumption DEF PendingAfter, Saturated, CommitStreak
  <2>3. FirstEnd(h) \/ Forward(h)
    <3>1. h.end \in Nat /\ committed \in Nat
      BY DEF Hypothesis, Inv, TypeOK, Ayahs, None
    <3>2. QED
      BY <3>1 DEF Update, NoEnd, Backward, NotAdvancing, Ahead
  <2>4. QED
    BY <2>2, <2>3 DEF FirstEnd, Forward, ForwardCommits, Agreed, Commit
<1>2. QED
  BY <1>1, LastSeenHolds, PTL DEF Spec, AgreementCommits, Inv

\* The surah lock follows two predictions in a row, a reset or a big jump.
THEOREM LockNeedsStreak == Spec => StableNeedsStreak
<1> DEFINE Jumped ==
      \/ event'.action = "reset_committed"
      \/ event'.action \in {"commit", "commit_skip"} /\ committed' - committed >= BigJump
    Good ==
      stable' # stable =>
        /\ stable' # None
        /\ \A h \in event'.hyp : h.surah = stable'
        /\ \/ \E g \in event.hyp : g.surah = stable'
           \/ event'.action = "reset_committed"
           \/ event'.action \in {"commit", "commit_skip"} /\ committed' - committed >= BigJump
<1>1. Inv /\ [Next]_vars => [Good]_vars
  <2> SUFFICES ASSUME Inv, NEW h \in Hypothesis, Update(h), stable' # stable
               PROVE  /\ stable' # None /\ h.surah = stable'
                      /\ (\E g \in event.hyp : g.surah = stable') \/ Jumped
    BY UpdateLastSeen DEF Next
  <2>1. ASSUME LockSurah(h)
        PROVE  /\ stable' # None /\ h.surah = stable'
               /\ \E g \in event.hyp : g.surah = stable'
    <3>1. stable' = h.surah /\ h.surah # None /\ StreakAfter(h) >= CommitStreak
      BY <2>1 DEF LockSurah, LockedAfter
    <3>2. streak = h.surah
      BY <3>1 DEF StreakAfter, CommitStreak
    <3>3. event.hyp # {}
      BY <3>1, <3>2 DEF Inv, LastSeen
    <3>4. QED
      BY <3>1, <3>2, <3>3 DEF Inv, LastSeen
  <2>2. ASSUME RelockSurah(h), ~LockSurah(h)
        PROVE  stable' # None /\ h.surah = stable' /\ Jumped
    <3>1. h.surah # None /\ stable' = h.surah
      BY <2>2 DEF RelockSurah
    <3>2. CASE Backward(h)
      BY <2>2, <3>1, <3>2 DEF Backward, Report
    <3>3. CASE Forward(h)
      <4>1. committed' = h.end /\ h.end - committed >= BigJump
        BY <2>2, <3>3 DEF Forward, Commit, IsBigJump
      <4>2. event'.action \in {"commit", "commit_skip"}
        BY <2>2, <3>3 DEF Forward, Report
      <4>3. QED
        BY <3>1, <4>1, <4>2
    <3>4. QED
      BY <2>2, <3>2, <3>3 DEF Update, NoEnd, FirstEnd, NotAdvancing
  <2>3. LockSurah(h) \/ RelockSurah(h)
    BY DEF Update, NoEnd, FirstEnd, Backward, NotAdvancing, Forward
  <2>4. QED
    BY <2>1, <2>2, <2>3
<1>2. QED
  BY <1>1, LastSeenHolds, PTL DEF Spec, StableNeedsStreak, Inv

\* The low-confidence refresh is one-off.
THEOREM RefreshesAreSpaced == Spec => RefreshIsSpaced
<1> DEFINE Good ==
      event'.wantRefresh =>
        \E g \in event.hyp : g.evidence.conf < 22 /\ ~event.wantRefresh
<1>1. Inv /\ [Next]_vars => [Good]_vars
  <2> SUFFICES ASSUME Inv, NEW h \in Hypothesis, Update(h), event'.wantRefresh
               PROVE  \E g \in event.hyp : g.evidence.conf < 22 /\ ~event.wantRefresh
    BY DEF Next
  <2>1. WantRefresh(h)
    BY DEF Update, NoEnd, FirstEnd, Backward, NotAdvancing, Forward, Report
  <2>2. lowConf > 0
    BY <2>1 DEF WantRefresh, LowAfter, Inv, TypeOK
  <2>3. QED
    BY <2>2 DEF Inv, LastSeen
<1>2. QED
  BY <1>1, LastSeenHolds, PTL DEF Spec, RefreshIsSpaced, Inv
=============================================================================
