---------------------------- MODULE StreamSession ----------------------------
(***************************************************************************)
(* The life of one streaming session of the Rust API: the WebSocket        *)
(* handlers that push audio, the processor task that turns pending audio   *)
(* into windows for the transcriber, the watchdog task that enforces the   *)
(* time-outs, the stop endpoints and the reaper that drops the session     *)
(* from the session map.  The tasks share only atomics and a tokio Notify, *)
(* whose notify_waiters wakes the tasks that wait NOW and remembers        *)
(* nothing.                                                                *)
(*                                                                         *)
(* Audio is counted in frames of one unit; every step between two awaits   *)
(* that touches shared state is an action of its own.  A definition whose  *)
(* name ends in _bug is a faulty variant of the one that follows it: the   *)
(* code does not do this, and some property must notice if it did.         *)
(***************************************************************************)
EXTENDS Naturals, FiniteSets

CONSTANTS Clients,          \* WebSocket connections that may be opened
          Hop,              \* hop_bytes: what one window advances by
          MinProcess,       \* min_process_bytes: audio before the first window
          MaxAudio,         \* max_audio_s of a demo session, 0 for none
          Limits,           \* the time-outs that are configured
          MaxTotal,         \* bound on the audio received
          Faults            \* what may fail: "transcribe", "align"

ASSUME ConstantsAssumption ==
  /\ IsFiniteSet(Clients)
  /\ Hop \in Nat \ {0}
  /\ MinProcess \in Nat \ {0}
  /\ MaxAudio \in Nat
  /\ Limits \subseteq {"connect", "noaudio", "auth", "silence"}
  /\ MaxTotal \in Nat
  /\ Faults \subseteq {"transcribe", "align"}

VARIABLES
  total,        \* total_pcm_bytes
  last,         \* last_processed_pcm_bytes
  stopReq,      \* stop_requested
  wsConnected,  \* ws_connected
  registered,   \* the session is in stream_sessions
  timer,        \* connect / noaudio / auth clocks against their limits
  silence,      \* 0 loud, 1 silent, 2 for silence_skip_after_s, 3 for silence_stop_after_s
  proc,         \* where the processor task is
  snapTotal,    \* its local `total`
  snapStop,     \* its local `should_stop`
  conn,         \* where each WebSocket handler is
  http,         \* where the stop endpoint is
  wd            \* where the watchdog task is

audioVars == <<total, last>>
procVars  == <<proc, snapTotal, snapStop>>
timeVars  == <<timer, silence>>
vars == <<total, last, stopReq, wsConnected, registered, timer, silence,
          proc, snapTotal, snapStop, conn, http, wd>>

Timers == {"connect", "noaudio", "auth"}

\* A clock starts only when its limit is configured; a silence is followed
\* only when silence_skip_after_s and silence_stop_after_s are.
Started(t) == IF t \in Limits THEN "running" ELSE "off"

Init ==
  /\ total = 0 /\ last = 0
  /\ stopReq = FALSE
  /\ wsConnected = FALSE
  /\ registered = TRUE
  /\ timer = [t \in Timers |-> IF t = "connect" THEN Started(t) ELSE "off"]
  /\ silence = 0
  /\ proc = "idle" /\ snapTotal = 0 /\ snapStop = FALSE
  /\ conn = [c \in Clients |-> "none"]
  /\ http = "none"
  /\ wd = "watching"

-----------------------------------------------------------------------------
(* tokio::sync::Notify and request_stop                                     *)

NotifyWaiters_bug == UNCHANGED proc

\* notify_waiters: a task that is waiting is woken, no permit is stored.
NotifyWaiters == proc' = IF proc = "waiting" THEN "load" ELSE proc

Goto(c, from, to) ==
  /\ conn[c] = from
  /\ conn' = [conn EXCEPT ![c] = to]

-----------------------------------------------------------------------------
(* The WebSocket handler: handle_ws and push_pcm16le                         *)

\* stream_session_ws finds the session in the map, records a token's expiry
\* (when there is a token) and answers with the upgrade.
Upgrade(c) ==
  /\ registered
  /\ Goto(c, "none", "upgrading")
  /\ timer' \in {timer, [timer EXCEPT !["auth"] = Started("auth")]}
  /\ UNCHANGED <<audioVars, stopReq, wsConnected, registered, silence,
                 procVars, http, wd>>

\* The upgraded socket reaches handle_ws, or the client is already gone.
Open(c) ==
  /\ \/ Goto(c, "upgrading", "open") /\ wsConnected' = TRUE
     \/ Goto(c, "upgrading", "closed") /\ UNCHANGED wsConnected
  /\ UNCHANGED <<audioVars, stopReq, registered, timeVars, procVars, http, wd>>

\* The handlers that wait for the lock of the ring.
Pushing == {c \in Clients : conn[c] = "pushing"}

\* push_pcm16le up to the ring lock: the clocks of the watchdog.
Frame(c, silent) ==
  /\ total + Cardinality(Pushing) < MaxTotal
  /\ Goto(c, "open", "pushing")
  /\ timer' = [timer EXCEPT !["noaudio"] = Started("noaudio")]
  /\ silence' = IF silent /\ "silence" \in Limits
                THEN IF silence = 0 THEN 1 ELSE silence
                ELSE 0
  /\ UNCHANGED <<audioVars, stopReq, wsConnected, registered, procVars, http, wd>>

\* ... under the lock: the ring takes the frame and the total grows ...
Append(c) ==
  /\ Goto(c, "pushing", "pushed")
  /\ total' = total + 1
  /\ UNCHANGED <<last, stopReq, wsConnected, registered, timeVars, procVars,
                 http, wd>>

\* ... and after it: the waiting processor is woken.
NotifyPush(c) ==
  /\ Goto(c, "pushed", "open")
  /\ NotifyWaiters
  /\ UNCHANGED <<audioVars, stopReq, wsConnected, registered, timeVars,
                 snapTotal, snapStop, http, wd>>

\* A valid {"type":"auth_refresh"} moves the expiry.
AuthRefresh(c) ==
  /\ conn[c] = "open"
  /\ timer' = [timer EXCEPT !["auth"] = Started("auth")]
  /\ UNCHANGED <<audioVars, stopReq, wsConnected, registered, silence,
                 procVars, conn, http, wd>>

\* {"type":"stop"}: request_stop, then out of the receive loop.
RecvStop(c) ==
  /\ Goto(c, "open", "stopping")
  /\ stopReq' = TRUE
  /\ UNCHANGED <<audioVars, wsConnected, registered, timeVars, procVars, http, wd>>

NotifyStop(c) ==
  /\ Goto(c, "stopping", "leaving")
  /\ NotifyWaiters
  /\ UNCHANGED <<audioVars, stopReq, wsConnected, registered, timeVars,
                 snapTotal, snapStop, http, wd>>

\* A close frame or the end of the socket also leaves the loop.
Disconnect(c) ==
  /\ Goto(c, "open", "leaving")
  /\ UNCHANGED <<audioVars, stopReq, wsConnected, registered, timeVars,
                 procVars, http, wd>>

\* Every way out of the loop ends in request_stop.
LeaveStop(c) ==
  /\ Goto(c, "leaving", "left")
  /\ stopReq' = TRUE
  /\ UNCHANGED <<audioVars, wsConnected, registered, timeVars, procVars, http, wd>>

NotifyLeave(c) ==
  /\ Goto(c, "left", "closed")
  /\ NotifyWaiters
  /\ UNCHANGED <<audioVars, stopReq, wsConnected, registered, timeVars,
                 snapTotal, snapStop, http, wd>>

-----------------------------------------------------------------------------
(* The processor task: processor_loop                                        *)

\* The outer loop: a Notified future is created, from now on a wake-up counts.
Wait ==
  /\ proc = "idle" /\ proc' = "waiting"
  /\ UNCHANGED <<audioVars, stopReq, wsConnected, registered, timeVars,
                 snapTotal, snapStop, conn, http, wd>>

\* The inner loop reads the total ...
LoadTotal ==
  /\ proc = "load" /\ proc' = "check"
  /\ snapTotal' = total
  /\ UNCHANGED <<audioVars, stopReq, wsConnected, registered, timeVars,
                 snapStop, conn, http, wd>>

\* ... and then the stop flag.
LoadStop ==
  /\ proc = "check" /\ proc' = "decide"
  /\ snapStop' = stopReq
  /\ UNCHANGED <<audioVars, stopReq, wsConnected, registered, timeVars,
                 snapTotal, conn, http, wd>>

\* Any new audio is enough.
EnoughToProcess_bug == snapTotal > last /\ snapTotal >= MinProcess

EnoughToProcess == snapTotal - last >= Hop /\ snapTotal >= MinProcess

\* process_end_byte; EnoughToProcess makes it last + Hop.
ProcessEnd == IF last + Hop <= snapTotal THEN last + Hop ELSE snapTotal

Decide(to) ==
  /\ proc = "decide" /\ proc' = to
  /\ UNCHANGED <<total, stopReq, wsConnected, registered, timeVars,
                 snapTotal, snapStop, conn, http, wd>>

\* Nothing to process and a stop seen: return;
DecideExit == ~EnoughToProcess /\ snapStop /\ Decide("done") /\ UNCHANGED last

\* nothing to process and no stop seen: back to the outer loop;
DecideIdle == ~EnoughToProcess /\ ~snapStop /\ Decide("idle") /\ UNCHANGED last

\* a hop to process, but the newest frames have been silent for long: skip it;
SkipSilentHop == EnoughToProcess /\ silence >= 2 /\ Decide("load") /\ last' = ProcessEnd

\* a hop to process: off to the transcriber.
StartWindow == EnoughToProcess /\ silence < 2 /\ Decide("transcribe") /\ UNCHANGED last

\* The inner loop is left after every window.
FinishWindow_bug ==
  /\ proc = "transcribe"
  /\ last' = ProcessEnd
  /\ proc' = IF snapStop /\ snapTotal - last' < Hop THEN "done" ELSE "idle"
  /\ UNCHANGED <<total, stopReq, wsConnected, registered, timeVars,
                 snapTotal, snapStop, conn, http, wd>>

\* The end of the window is added to the mark instead of stored.
FinishWindow_add_bug ==
  /\ proc = "transcribe"
  /\ last' = last + ProcessEnd
  /\ proc' = IF snapStop /\ snapTotal - ProcessEnd < Hop THEN "done" ELSE "load"
  /\ UNCHANGED <<total, stopReq, wsConnected, registered, timeVars,
                 snapTotal, snapStop, conn, http, wd>>

\* The window was transcribed and aligned, its update is sent.  The task ends
\* here only on the stop flag and the total it read before the window.
FinishWindow ==
  /\ proc = "transcribe"
  /\ last' = ProcessEnd
  /\ proc' = IF snapStop /\ snapTotal - last' < Hop THEN "done" ELSE "load"
  /\ UNCHANGED <<total, stopReq, wsConnected, registered, timeVars,
                 snapTotal, snapStop, conn, http, wd>>

\* The transcriber failed: the hop is given up and the inner loop left.
FailWindow ==
  /\ "transcribe" \in Faults
  /\ proc = "transcribe"
  /\ last' = ProcessEnd
  /\ proc' = "idle"
  /\ UNCHANGED <<total, stopReq, wsConnected, registered, timeVars,
                 snapTotal, snapStop, conn, http, wd>>

\* The alignment task panicked: the processor returns the join error and ends,
\* nothing stops the session.
FailAlign ==
  /\ "align" \in Faults
  /\ proc = "transcribe"
  /\ proc' = "dead"
  /\ UNCHANGED <<audioVars, stopReq, wsConnected, registered, timeVars,
                 snapTotal, snapStop, conn, http, wd>>

-----------------------------------------------------------------------------
(* The watchdog task, the stop endpoints, the reaper and time                *)

\* A tick that sees the stop flag ends the task.
WatchdogExit ==
  /\ wd = "watching" /\ stopReq
  /\ wd' = "done"
  /\ UNCHANGED <<audioVars, stopReq, wsConnected, registered, timeVars,
                 procVars, conn, http>>

\* A connected client is trusted to go on sending.
WatchdogReason_noaudio_bug == ~wsConnected /\ timer["connect"] = "elapsed"

WatchdogReason ==
  \/ ~wsConnected /\ timer["connect"] = "elapsed"
  \/ MaxAudio > 0 /\ total >= MaxAudio
  \/ timer["auth"] = "elapsed"
  \/ timer["noaudio"] = "elapsed"
  \/ silence = 3

\* The session end is sent, the stop forgotten.
WatchdogFire_bug ==
  /\ wd = "watching" /\ ~stopReq /\ WatchdogReason
  /\ wd' = "done"
  /\ UNCHANGED <<audioVars, stopReq, wsConnected, registered, timeVars,
                 procVars, conn, http>>

\* A tick that finds a limit passed sends session_end ...
WatchdogFire ==
  /\ wd = "watching" /\ ~stopReq /\ WatchdogReason
  /\ wd' = "stopping"
  /\ UNCHANGED <<audioVars, stopReq, wsConnected, registered, timeVars,
                 procVars, conn, http>>

\* ... and calls request_stop.
WatchdogStop ==
  /\ wd = "stopping" /\ wd' = "notify"
  /\ stopReq' = TRUE
  /\ UNCHANGED <<audioVars, wsConnected, registered, timeVars, procVars,
                 conn, http>>

WatchdogNotify ==
  /\ wd = "notify" /\ wd' = "done"
  /\ NotifyWaiters
  /\ UNCHANGED <<audioVars, stopReq, wsConnected, registered, timeVars,
                 snapTotal, snapStop, conn, http>>

\* POST .../stop on a session that is still in the map.
HttpStop ==
  /\ http = "none" /\ registered
  /\ http' = "notify"
  /\ stopReq' = TRUE
  /\ UNCHANGED <<audioVars, wsConnected, registered, timeVars, procVars, conn, wd>>

HttpNotify ==
  /\ http = "notify" /\ http' = "none"
  /\ NotifyWaiters
  /\ UNCHANGED <<audioVars, stopReq, wsConnected, registered, timeVars,
                 snapTotal, snapStop, conn, wd>>

\* spawn_session_reaper keeps only the sessions that were not stopped.
Reap ==
  /\ registered /\ stopReq
  /\ registered' = FALSE
  /\ UNCHANGED <<audioVars, stopReq, wsConnected, timeVars, procVars, conn,
                 http, wd>>

\* Time passes: a running clock reaches its limit, a silence gets longer.
Elapse(t) ==
  /\ timer[t] = "running"
  /\ timer' = [timer EXCEPT ![t] = "elapsed"]
  /\ UNCHANGED <<audioVars, stopReq, wsConnected, registered, silence,
                 procVars, conn, http, wd>>

SilenceGrows ==
  /\ silence \in 1..2
  /\ silence' = silence + 1
  /\ UNCHANGED <<audioVars, stopReq, wsConnected, registered, timer,
                 procVars, conn, http, wd>>

-----------------------------------------------------------------------------
ClientStep(c) ==
  \/ Upgrade(c) \/ Open(c)
  \/ \E silent \in BOOLEAN : Frame(c, silent)
  \/ Append(c) \/ NotifyPush(c) \/ AuthRefresh(c)
  \/ RecvStop(c) \/ NotifyStop(c) \/ Disconnect(c) \/ LeaveStop(c) \/ NotifyLeave(c)

ProcessorStep ==
  \/ Wait \/ LoadTotal \/ LoadStop \/ DecideExit \/ DecideIdle \/ SkipSilentHop
  \/ StartWindow \/ FinishWindow \/ FailWindow \/ FailAlign

WatchdogStep == WatchdogExit \/ WatchdogFire \/ WatchdogStop \/ WatchdogNotify

TimePasses == SilenceGrows \/ \E t \in Timers : Elapse(t)

Next ==
  \/ \E c \in Clients : ClientStep(c)
  \/ ProcessorStep \/ WatchdogStep
  \/ HttpStop \/ HttpNotify \/ Reap \/ TimePasses

\* What a handler does without waiting for its client.
ServerStep(c) ==
  Open(c) \/ Append(c) \/ NotifyPush(c) \/ NotifyStop(c) \/ LeaveStop(c) \/ NotifyLeave(c)

(***************************************************************************)
(* Tokio runs every ready task, sleeps end, requests to the transcriber    *)
(* return (the client has a one-hour time-out) and time passes.  Nothing   *)
(* is assumed of the clients: they need not connect, send or leave.        *)
(***************************************************************************)
Fairness ==
  /\ \A c \in Clients : WF_vars(ServerStep(c))
  /\ WF_vars(ProcessorStep)
  /\ WF_vars(WatchdogStep)
  /\ WF_vars(HttpNotify)
  /\ WF_vars(Reap)
  /\ WF_vars(SilenceGrows)
  /\ \A t \in Timers : WF_vars(Elapse(t))

Spec == Init /\ [][Next]_vars
FairSpec == Spec /\ Fairness

-----------------------------------------------------------------------------
(* Properties                                                               *)

Points == {"none", "upgrading", "open", "pushing", "pushed",
           "stopping", "leaving", "left", "closed"}

\* Every variable is in its range: every task is at one of the points of its
\* code, and neither the processor's mark nor its copy of the total is ever ahead
\* of the audio received.
TypeOK ==
  /\ total \in 0..MaxTotal /\ last \in 0..total /\ snapTotal \in 0..total
  /\ stopReq \in BOOLEAN /\ wsConnected \in BOOLEAN
  /\ registered \in BOOLEAN /\ snapStop \in BOOLEAN
  /\ timer \in [Timers -> {"off", "running", "elapsed"}]
  /\ silence \in 0..3
  /\ proc \in {"idle", "waiting", "load", "check", "decide", "transcribe", "done", "dead"}
  /\ conn \in [Clients -> Points]
  /\ http \in {"none", "notify"}
  /\ wd \in {"watching", "stopping", "notify", "done"}

\* The processor task and the watchdog task return only after a stop was
\* requested: a live session never loses them (a panic of the aligner aside),
\* however the wake-ups, the time-outs and the handlers interleave.
TasksOutliveStop == proc = "done" \/ wd = "done" => stopReq

\* The windows tile the audio: each one, processed, skipped as silent or given
\* up, advances by exactly one hop and never past what was received, although
\* it is decided on a total read earlier.
HopsTile == [][last' # last => last' = last + Hop /\ last' <= total]_vars

\* Audio is not left waiting: once the processor is awake, or sleeps while the
\* notification of a frame is still to come, it works off every full hop received
\* by then, also when a stop arrives meanwhile.
BacklogDrains ==
  \A n \in MinProcess..MaxTotal :
    (/\ total >= n
     /\ proc = "load" \/ (proc = "waiting" /\ \E c \in Clients : conn[c] = "pushed"))
       ~> n - last < Hop

\* A stop whose notification finds the processor asleep ends the processor,
\* after the hops still to be processed.
SleepingProcessorStops ==
  (/\ proc = "waiting" /\ stopReq
   /\ wd = "notify" \/ \E c \in Clients : conn[c] \in {"stopping", "left"})
     ~> proc = "done"

\* A session whose client never connects, or falls silent, hangs or goes away
\* after it sent audio, is stopped in the end, and every stopped session leaves
\* the session map.
AbandonedGoesAway ==
  /\ "connect" \in Limits => <>(wsConnected \/ stopReq)
  /\ "noaudio" \in Limits => (total > 0 ~> stopReq)
  /\ stopReq ~> ~registered

\* What the comment on the disconnect says of the loops: a stop request winds
\* them down.
StopEndsProcessor == stopReq ~> proc = "done"
=============================================================================
