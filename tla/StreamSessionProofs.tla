------------------------- MODULE StreamSessionProofs -------------------------
(***************************************************************************)
(* Theorems about StreamSession, for every finite set of clients, every    *)
(* hop, minimum and limit, and every failure.                              *)
(*                                                                         *)
(* The type invariant says that the total the processor works with was     *)
(* received.  The inductive invariant adds what the task relies on: that   *)
(* a window is under way only when it has a whole hop, and that a stop it  *)
(* has seen was requested.                                                 *)
(***************************************************************************)
EXTENDS StreamSession, FiniteSetTheorems, TLAPS

WholeHop == proc = "transcribe" => EnoughToProcess

StopsSeen ==
  /\ snapStop => stopReq
  /\ proc = "done" => stopReq
  /\ wd \in {"notify", "done"} => stopReq

IInv ==
  /\ TypeOK
  /\ total + Cardinality(Pushing) <= MaxTotal
  /\ WholeHop /\ StopsSeen

Clock == {"off", "running", "elapsed"}

LEMMA PushingFinite == IsFiniteSet(Pushing) /\ Cardinality(Pushing) \in Nat
BY ConstantsAssumption, FS_Subset, FS_CardinalityType DEF Pushing

LEMMA InitIInv == Init => IInv
<1> SUFFICES ASSUME Init PROVE IInv
  OBVIOUS
<1> USE ConstantsAssumption
<1>1. Pushing = {}
  BY DEF Init, Pushing
<1>2. Cardinality(Pushing) = 0
  BY <1>1, FS_EmptySet
<1>3. TypeOK
  <2>1. \A t \in Timers : Started(t) \in Clock
    BY DEF Started, Clock
  <2>2. timer \in [Timers -> {"off", "running", "elapsed"}]
    BY <2>1 DEF Init, Clock
  <2>3. conn \in [Clients -> Points]
    BY DEF Init, Points
  <2>4. total \in 0..MaxTotal /\ last \in 0..total /\ snapTotal \in 0..total
    BY DEF Init
  <2>5. stopReq \in BOOLEAN /\ wsConnected \in BOOLEAN /\ registered \in BOOLEAN /\ snapStop \in BOOLEAN
    BY DEF Init
  <2>6. /\ silence \in 0..3 /\ proc = "idle"
        /\ http = "none" /\ wd = "watching"
    BY DEF Init
  <2>7. QED
    BY <2>2, <2>3, <2>4, <2>5, <2>6 DEF TypeOK
<1>4. QED
  BY <1>2, <1>3 DEF Init, IInv, WholeHop, StopsSeen

\* A handler moves on, but not to the lock of the ring.
LEMMA FewerPushing ==
  ASSUME IInv, Pushing' \subseteq Pushing, total' = total
  PROVE  total' + Cardinality(Pushing') <= MaxTotal
<1>1. Cardinality(Pushing') <= Cardinality(Pushing) /\ Cardinality(Pushing') \in Nat
  BY PushingFinite, FS_Subset, FS_CardinalityType
<1>2. QED
  BY <1>1, PushingFinite, ConstantsAssumption DEF IInv, TypeOK

-----------------------------------------------------------------------------
(* The handlers                                                             *)

\* A step that touches neither the audio nor what the processor has read: it may
\* move a client anywhere but to the lock of the ring, wake the processor and
\* request a stop.
LEMMA OtherStep ==
  ASSUME IInv, UNCHANGED <<total, last, snapTotal, snapStop>>,
         \/ conn' = conn
         \/ \E c \in Clients, from \in Points, to \in Points \ {"pushing"} : Goto(c, from, to),
         timer' \in [Timers -> Clock], silence' \in 0..3,
         wsConnected' \in BOOLEAN, registered' \in BOOLEAN,
         http' \in {"none", "notify"},
         stopReq' \in {stopReq, TRUE},
         wd' = wd \/ wd' = "stopping" \/ (wd' \in {"notify", "done"} /\ stopReq'),
         proc' = proc \/ NotifyWaiters
  PROVE  IInv'
<1>1. TypeOK'
  BY DEF IInv, TypeOK, Goto, NotifyWaiters, Clock
<1>2. Pushing' \subseteq Pushing
  BY DEF IInv, TypeOK, Goto, Pushing
<1>3. proc' = proc \/ proc' = "load"
  BY DEF NotifyWaiters
<1>4. WholeHop' /\ StopsSeen'
  BY <1>3 DEF IInv, TypeOK, WholeHop, EnoughToProcess, StopsSeen
<1>5. QED
  BY <1>1, <1>2, <1>4, FewerPushing DEF IInv

\* A clock that is started or restarted.
LEMMA StartedClock ==
  ASSUME IInv, NEW t \in Timers
  PROVE  [timer EXCEPT ![t] = Started(t)] \in [Timers -> Clock]
<1>1. Started(t) \in Clock
  BY DEF Started, Clock
<1>2. QED
  BY <1>1 DEF IInv, TypeOK, Clock

\* What every step may rely on of the variables it leaves alone.
LEMMA Types ==
  ASSUME IInv
  PROVE  /\ timer \in [Timers -> Clock] /\ silence \in 0..3
         /\ wsConnected \in BOOLEAN /\ registered \in BOOLEAN /\ stopReq \in BOOLEAN
         /\ http \in {"none", "notify"}
         /\ Timers = {"connect", "noaudio", "auth"}
BY DEF IInv, TypeOK, Clock, Timers

LEMMA HandlerSteps ==
  ASSUME IInv, NEW c \in Clients,
         \/ Upgrade(c) \/ Open(c) \/ NotifyPush(c) \/ AuthRefresh(c) \/ RecvStop(c)
         \/ NotifyStop(c) \/ Disconnect(c) \/ LeaveStop(c) \/ NotifyLeave(c)
  PROVE  IInv'
<1> USE Types DEF Points, procVars, timeVars, audioVars
<1>1. CASE Upgrade(c)
  <2>1. timer' \in [Timers -> Clock]
    BY <1>1, StartedClock DEF Upgrade
  <2>2. QED
    BY <1>1, <2>1, OtherStep DEF Upgrade
<1>2. CASE Open(c)
  BY <1>2, OtherStep DEF Open
<1>3. CASE NotifyPush(c)
  BY <1>3, OtherStep DEF NotifyPush
<1>4. CASE AuthRefresh(c)
  <2>1. timer' \in [Timers -> Clock]
    BY <1>4, StartedClock DEF AuthRefresh
  <2>2. QED
    BY <1>4, <2>1, OtherStep DEF AuthRefresh
<1>5. CASE RecvStop(c)
  BY <1>5, OtherStep DEF RecvStop
<1>6. CASE NotifyStop(c)
  BY <1>6, OtherStep DEF NotifyStop
<1>7. CASE Disconnect(c)
  BY <1>7, OtherStep DEF Disconnect
<1>8. CASE LeaveStop(c)
  BY <1>8, OtherStep DEF LeaveStop
<1>9. CASE NotifyLeave(c)
  BY <1>9, OtherStep DEF NotifyLeave
<1>10. QED
  BY <1>1, <1>2, <1>3, <1>4, <1>5, <1>6, <1>7, <1>8, <1>9

LEMMA FrameStep ==
  ASSUME IInv, NEW c \in Clients, NEW silent \in BOOLEAN, Frame(c, silent)
  PROVE  IInv'
<1> USE DEF procVars, audioVars
<1>1. Pushing' = Pushing \union {c} /\ c \notin Pushing
  BY DEF Frame, Goto, Pushing, IInv, TypeOK
<1>2. Cardinality(Pushing') = Cardinality(Pushing) + 1
  BY <1>1, PushingFinite, FS_AddElement
<1>3. total' + Cardinality(Pushing') <= MaxTotal
  BY <1>2, PushingFinite, ConstantsAssumption DEF Frame, IInv, TypeOK
<1>4. TypeOK'
  <2>1. timer' \in [Timers -> Clock]
    BY StartedClock, Types DEF Frame
  <2>2. silence' \in 0..3 /\ conn' \in [Clients -> Points]
    BY Types DEF Frame, Goto, IInv, TypeOK, Points
  <2>3. QED
    BY <2>1, <2>2 DEF Frame, IInv, TypeOK, Clock
<1>5. WholeHop' /\ StopsSeen'
  BY DEF Frame, IInv, WholeHop, EnoughToProcess, StopsSeen
<1>6. QED
  BY <1>3, <1>4, <1>5 DEF IInv

LEMMA AppendStep ==
  ASSUME IInv, NEW c \in Clients, Append(c)
  PROVE  IInv'
<1> USE DEF procVars, timeVars
<1>1. Pushing' = Pushing \ {c} /\ c \in Pushing
  BY DEF Append, Goto, Pushing, IInv, TypeOK
<1>2. Cardinality(Pushing') = Cardinality(Pushing) - 1 /\ Cardinality(Pushing) > 0
  BY <1>1, PushingFinite, FS_RemoveElement, FS_EmptySet
<1>3. total' + Cardinality(Pushing') <= MaxTotal /\ total' \in 0..MaxTotal
  BY <1>2, PushingFinite, ConstantsAssumption DEF Append, IInv, TypeOK
<1>4. TypeOK'
  BY <1>3 DEF Append, Goto, IInv, TypeOK, Points
<1>5. WholeHop' /\ StopsSeen'
  BY DEF Append, IInv, TypeOK, WholeHop, EnoughToProcess, StopsSeen
<1>6. QED
  BY <1>3, <1>4, <1>5 DEF IInv

-----------------------------------------------------------------------------
(* The processor                                                            *)

\* With a whole hop the end of the window is exactly one hop further.
LEMMA EndOfHop ==
  ASSUME IInv, EnoughToProcess
  PROVE  ProcessEnd = last + Hop /\ ProcessEnd \in 0..total
BY ConstantsAssumption DEF IInv, TypeOK, EnoughToProcess, ProcessEnd

LEMMA ProcessorSteps ==
  ASSUME IInv, ProcessorStep
  PROVE  IInv'
<1> USE DEF audioVars, timeVars
<1>1. CASE Wait
  BY <1>1 DEF Wait, IInv, TypeOK, Pushing, WholeHop, StopsSeen
<1>2. CASE LoadTotal
  BY <1>2 DEF LoadTotal, IInv, TypeOK, Pushing, WholeHop, StopsSeen
<1>3. CASE LoadStop
  BY <1>3 DEF LoadStop, IInv, TypeOK, Pushing, WholeHop, StopsSeen
<1>4. ASSUME DecideExit \/ DecideIdle
      PROVE  IInv'
  <2>1. /\ proc' \in {"idle", "done"} /\ (proc' = "done" => snapStop)
        /\ UNCHANGED <<audioVars, stopReq, wsConnected, registered, timeVars,
                       snapTotal, snapStop, conn, http, wd>>
    BY <1>4 DEF DecideExit, DecideIdle, Decide
  <2>2. TypeOK' /\ Pushing' = Pushing
    BY <2>1 DEF IInv, TypeOK, Pushing
  <2>3. WholeHop' /\ StopsSeen'
    BY <2>1 DEF IInv, WholeHop, StopsSeen
  <2>4. QED
    BY <2>1, <2>2, <2>3 DEF IInv
<1>5. ASSUME SkipSilentHop \/ FinishWindow \/ FailWindow
      PROVE  IInv'
  <2>1. ProcessEnd \in 0..total
    BY <1>5, EndOfHop DEF SkipSilentHop, FinishWindow, FailWindow, IInv, WholeHop
  <2>2. /\ proc' \in {"load", "idle", "done"} /\ (proc' = "done" => snapStop)
        /\ last' = ProcessEnd
        /\ UNCHANGED <<total, stopReq, wsConnected, registered, timer, silence,
                       snapTotal, snapStop, conn, http, wd>>
    BY <1>5 DEF SkipSilentHop, Decide, FinishWindow, FailWindow
  <2>3. TypeOK'
    BY <2>1, <2>2 DEF IInv, TypeOK
  <2>4. Pushing' = Pushing
    BY <2>2 DEF Pushing
  <2>5. WholeHop' /\ StopsSeen'
    BY <2>1, <2>2 DEF IInv, WholeHop, StopsSeen
  <2>6. QED
    BY <2>2, <2>3, <2>4, <2>5 DEF IInv
<1>6. CASE StartWindow
  BY <1>6 DEF StartWindow, Decide, IInv, TypeOK, Pushing, WholeHop, EnoughToProcess,
              StopsSeen
<1>7. CASE FailAlign
  BY <1>7 DEF FailAlign, IInv, TypeOK, Pushing, WholeHop, StopsSeen
<1>8. QED
  BY <1>1, <1>2, <1>3, <1>4, <1>5, <1>6, <1>7 DEF ProcessorStep

-----------------------------------------------------------------------------
(* The watchdog, the stop endpoint, the reaper and time                     *)

LEMMA OutsideSteps ==
  ASSUME IInv, WatchdogStep \/ HttpStop \/ HttpNotify \/ Reap \/ TimePasses
  PROVE  IInv'
<1> USE Types DEF procVars, timeVars, audioVars
<1>1. CASE WatchdogStep
  BY <1>1, OtherStep DEF WatchdogStep, WatchdogExit, WatchdogFire, WatchdogStop, WatchdogNotify,
                         IInv, StopsSeen
<1>2. CASE HttpStop \/ HttpNotify
  BY <1>2, OtherStep DEF HttpStop, HttpNotify
<1>3. CASE Reap
  BY <1>3, OtherStep DEF Reap
<1>4. CASE SilenceGrows
  <2>1. silence' \in 0..3
    BY <1>4 DEF SilenceGrows
  <2>2. QED
    BY <1>4, <2>1, OtherStep DEF SilenceGrows
<1>5. ASSUME NEW t \in Timers, Elapse(t)
      PROVE  IInv'
  <2>1. timer' \in [Timers -> Clock]
    BY <1>5 DEF Elapse, Clock
  <2>2. QED
    BY <1>5, <2>1, OtherStep DEF Elapse
<1>6. QED
  BY <1>1, <1>2, <1>3, <1>4, <1>5 DEF TimePasses

LEMMA NextIInv == IInv /\ [Next]_vars => IInv'
<1> SUFFICES ASSUME IInv, [Next]_vars PROVE IInv'
  OBVIOUS
<1>1. ASSUME NEW c \in Clients, ClientStep(c)
      PROVE  IInv'
  BY <1>1, HandlerSteps, FrameStep, AppendStep DEF ClientStep
<1>2. CASE UNCHANGED vars
  BY <1>2 DEF vars, IInv, TypeOK, Pushing, WholeHop, EnoughToProcess, StopsSeen
<1>3. QED
  BY <1>1, <1>2, ProcessorSteps, OutsideSteps DEF Next

LEMMA IInvHolds == Spec => []IInv
BY InitIInv, NextIInv, PTL DEF Spec

-----------------------------------------------------------------------------
(* The theorems                                                             *)

\* Every variable keeps its range.
THEOREM TypesHold == Spec => []TypeOK
BY IInvHolds, PTL DEF IInv

\* A live session keeps its processor and its watchdog (StreamSession::spawn).
THEOREM TasksAreKept == Spec => []TasksOutliveStop
<1>1. IInv => TasksOutliveStop
  BY DEF IInv, StopsSeen, TasksOutliveStop
<1>2. QED
  BY <1>1, IInvHolds, PTL

\* The windows of processor_loop neither overlap nor leave a gap.
THEOREM WindowsTile == Spec => HopsTile
<1> DEFINE Good == last' # last => last' = last + Hop /\ last' <= total
<1>1. IInv /\ [Next]_vars => [Good]_vars
  <2> SUFFICES ASSUME IInv, Next, last' # last
               PROVE  last' = last + Hop /\ last' <= total
    OBVIOUS
  <2>1. ProcessorStep
    BY DEF Next, ClientStep, Upgrade, Open, Frame, Append, NotifyPush, AuthRefresh, RecvStop,
           NotifyStop, Disconnect, LeaveStop, NotifyLeave, WatchdogStep, WatchdogExit,
           WatchdogFire, WatchdogStop, WatchdogNotify, HttpStop, HttpNotify, Reap,
           TimePasses, SilenceGrows, Elapse, audioVars
  <2>2. SkipSilentHop \/ FinishWindow \/ FailWindow
    BY <2>1 DEF ProcessorStep, Wait, LoadTotal, LoadStop, DecideExit, DecideIdle, StartWindow,
                FailAlign, audioVars
  <2>3. EnoughToProcess /\ last' = ProcessEnd
    BY <2>2 DEF SkipSilentHop, FinishWindow, FailWindow, IInv, WholeHop
  <2>4. QED
    BY <2>3, EndOfHop
<1>2. QED
  BY <1>1, IInvHolds, PTL DEF Spec, HopsTile
=============================================================================
