----------------------------- MODULE JobService -----------------------------
(***************************************************************************)
(* What the batch API promises its clients, who create a job, poll its     *)
(* status and fetch its result: a job that was queued is worked on once,   *)
(* its result is there from the moment it is done until the retention has  *)
(* passed, and a job that is gone never comes back.  How handlers,         *)
(* workers, cleanup and restarts keep this is in JobPipeline.              *)
(***************************************************************************)
EXTENDS Naturals

CONSTANT Jobs

VARIABLES
  state,    \* "new", the status a poll answers, or "gone" for not found
  results,  \* the jobs whose result can be fetched
  old       \* the finished jobs that the retention protects no more

vars == <<state, results, old>>

Init ==
  /\ state = [j \in Jobs |-> "new"]
  /\ results = {} /\ old = {}

Become(j, from, to) ==
  /\ state[j] \in from
  /\ state' = [state EXCEPT ![j] = to]

Accept(j) == Become(j, {"new"}, "queued") /\ UNCHANGED <<results, old>>

\* The upload fails, or the client goes away.
GiveUp(j) == Become(j, {"new"}, "gone") /\ UNCHANGED <<results, old>>

\* No slot of the queue is left.
Refuse(j) == Become(j, {"queued"}, "gone") /\ UNCHANGED <<results, old>>

Start(j) == Become(j, {"queued"}, "running") /\ UNCHANGED <<results, old>>

Succeed(j) ==
  /\ Become(j, {"running"}, "done")
  /\ results' = results \union {j}
  /\ UNCHANGED old

Fail(j) == Become(j, {"running"}, "error") /\ UNCHANGED <<results, old>>

Age(j) ==
  /\ state[j] \in {"done", "error"}
  /\ old' = old \union {j}
  /\ UNCHANGED <<state, results>>

Expire(j) ==
  /\ j \in old
  /\ results' = results \ {j}
  /\ UNCHANGED <<state, old>>

Forget(j) ==
  /\ j \in old
  /\ Become(j, {"done", "error"}, "gone")
  /\ results' = results \ {j} /\ old' = old \ {j}

\* A restart forgets every job it has heard of.
Crash ==
  /\ \E unheard \in SUBSET {j \in Jobs : state[j] = "new"} :
       state' = [j \in Jobs |-> IF j \in unheard THEN "new" ELSE "gone"]
  /\ results' = {} /\ old' = {}

Next ==
  \/ \E j \in Jobs :
       \/ Accept(j) \/ GiveUp(j) \/ Refuse(j) \/ Start(j) \/ Succeed(j) \/ Fail(j)
       \/ Age(j) \/ Expire(j) \/ Forget(j)
  \/ Crash

Spec == Init /\ [][Next]_vars
=============================================================================
