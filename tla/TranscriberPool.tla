--------------------------- MODULE TranscriberPool ---------------------------
(***************************************************************************)
(* How the API shares its transcribers.  Every caller, a batch worker or   *)
(* the processor of a streaming session, waits for a permit of one fair    *)
(* semaphore, picks the least busy transcriber, sends its request and then *)
(* drops its lease and its permit, in this order on every way out.  A pick *)
(* reads the counters one after the other, without a lock.                 *)
(*                                                                         *)
(* A definition whose name ends in _bug is a faulty variant of the one     *)
(* that follows it: the code does not do this.                             *)
(***************************************************************************)
EXTENDS Integers, FiniteSets, Sequences

CONSTANTS Callers,  \* tasks that send requests
          N,        \* transcribers configured, 0 for the default URL
          Permits   \* rust_transcribe_max_inflight

ASSUME ConstantsAssumption ==
  /\ IsFiniteSet(Callers)
  /\ N \in Nat
  /\ Permits \in Nat \ {0}

VARIABLES
  waiting,   \* callers in the semaphore's queue, first come, first served
  pc,        \* where each caller is
  rr,        \* the rotating counter, modulo N
  inflight,  \* the counter of each transcriber
  scan,      \* the picking caller's start, offset, best and best_idx
  lease,     \* the transcriber a caller holds a lease of
  noise      \* history: the counters' changes since a caller started to pick

vars == <<waiting, pc, rr, inflight, scan, lease, noise>>

Servers == 0..(N - 1)
None    == -1
NoScan  == [start |-> 0, offset |-> 0, best |-> 0, idx |-> None]

Init ==
  /\ waiting = << >>
  /\ pc = [c \in Callers |-> "idle"]
  /\ rr = 0
  /\ inflight = [s \in Servers |-> 0]
  /\ scan = [c \in Callers |-> NoScan]
  /\ lease = [c \in Callers |-> None]
  /\ noise = [c \in Callers |-> 0]

Move(c, from, to) ==
  /\ pc[c] = from
  /\ pc' = [pc EXCEPT ![c] = to]

\* A counter changes; `noise` is followed up to Permits.
Disturb == noise' = [c \in Callers |-> IF noise[c] < Permits THEN noise[c] + 1 ELSE Permits]

\* The callers that hold a permit.
Holders == {c \in Callers : pc[c] \notin {"idle", "waiting"}}

-----------------------------------------------------------------------------
(* The semaphore                                                            *)

Ask(c) ==
  /\ Move(c, "idle", "waiting")
  /\ waiting' = Append(waiting, c)
  /\ UNCHANGED <<rr, inflight, scan, lease, noise>>

\* Anyone who finds a permit free takes it, queue or not.
Grant_bug(c) ==
  /\ Cardinality(Holders) < Permits
  /\ Move(c, "waiting", "start")
  /\ waiting' = SelectSeq(waiting, LAMBDA d : d # c)
  /\ UNCHANGED <<rr, inflight, scan, lease, noise>>

Grant(c) ==
  /\ waiting # << >> /\ c = Head(waiting)
  /\ Cardinality(Holders) < Permits
  /\ Move(c, "waiting", "start")
  /\ waiting' = Tail(waiting)
  /\ UNCHANGED <<rr, inflight, scan, lease, noise>>

-----------------------------------------------------------------------------
(* TranscriberPool::pick                                                    *)

\* i % n, for i < 2n
Wrap(i) == IF i < N THEN i ELSE i - N

\* Without configured URLs: a lease of the default one, which nobody counts.
PickDefault(c) ==
  /\ Move(c, "start", "sending")
  /\ UNCHANGED <<rr, scan, noise>>

\* rr.fetch_add(1) % n
StartScan(c) ==
  /\ Move(c, "start", "scan")
  /\ scan' = [scan EXCEPT ![c] = [start |-> rr, offset |-> 0, best |-> 0, idx |-> None]]
  /\ rr' = Wrap(rr + 1)
  /\ noise' = [noise EXCEPT ![c] = 0]

Start(c) ==
  /\ IF N = 0 THEN PickDefault(c) ELSE StartScan(c)
  /\ UNCHANGED <<waiting, inflight, lease>>

Candidate(c) == Wrap(scan[c].start + scan[c].offset)

\* The last of the least busy wins.
Better_bug(c) == scan[c].idx = None \/ inflight[Candidate(c)] >= scan[c].best

\* The first counter read is the best so far, a later one only if it is less.
Better(c) == scan[c].idx = None \/ inflight[Candidate(c)] < scan[c].best

\* One transcriber too many is looked at.
Load_bug(c) ==
  /\ pc[c] = "scan" /\ scan[c].offset <= N
  /\ scan' = [scan EXCEPT ![c].offset = @ + 1]
  /\ UNCHANGED <<waiting, pc, rr, inflight, lease, noise>>

Load(c) ==
  /\ pc[c] = "scan" /\ scan[c].offset < N
  /\ scan' = [scan EXCEPT ![c] =
                [start  |-> scan[c].start,
                 offset |-> scan[c].offset + 1,
                 best   |-> IF Better(c) THEN inflight[Candidate(c)] ELSE scan[c].best,
                 idx    |-> IF Better(c) THEN Candidate(c) ELSE scan[c].idx]]
  /\ UNCHANGED <<waiting, pc, rr, inflight, lease, noise>>

\* inflight[best_idx].fetch_add(1)
Take(c) ==
  /\ scan[c].offset = N
  /\ Move(c, "scan", "sending")
  /\ inflight' = [inflight EXCEPT ![scan[c].idx] = @ + 1]
  /\ lease' = [lease EXCEPT ![c] = scan[c].idx]
  /\ scan' = [scan EXCEPT ![c] = NoScan]
  /\ Disturb
  /\ UNCHANGED <<waiting, rr>>

-----------------------------------------------------------------------------
(* The request                                                              *)

\* The counter is left as it is.
DropLease_bug(c) ==
  /\ Move(c, "sending", "release")
  /\ lease' = [lease EXCEPT ![c] = None]
  /\ UNCHANGED <<waiting, rr, inflight, scan, noise>>

\* The answer, or an error: the lease is dropped ...
DropLease(c) ==
  /\ Move(c, "sending", "release")
  /\ lease' = [lease EXCEPT ![c] = None]
  /\ inflight' = IF lease[c] = None THEN inflight
                 ELSE [inflight EXCEPT ![lease[c]] = @ - 1]
  /\ Disturb
  /\ UNCHANGED <<waiting, rr, scan>>

\* ... and then the permit.
Release(c) ==
  /\ Move(c, "release", "idle")
  /\ UNCHANGED <<waiting, rr, inflight, scan, lease, noise>>

-----------------------------------------------------------------------------
Proceed(c) ==
  \/ Grant(c) \/ Start(c) \/ Load(c) \/ Take(c)
  \/ DropLease(c) \/ Release(c)

Next == \E c \in Callers : Ask(c) \/ Proceed(c)

\* Tokio runs ready tasks and hands a free permit to the head of the queue;
\* every request ends (the HTTP client has a one-hour time-out).
Fairness == \A c \in Callers : WF_vars(Proceed(c))

Spec == Init /\ [][Next]_vars
FairSpec == Spec /\ Fairness

-----------------------------------------------------------------------------
(* Properties                                                               *)

\* Every variable is in its range.
TypeOK ==
  /\ waiting \in Seq(Callers)
  /\ pc \in [Callers -> {"idle", "waiting", "start", "scan", "sending", "release"}]
  /\ rr \in Servers \union {0}
  /\ inflight \in [Servers -> Int]
  /\ scan \in [Callers -> [start : Servers \union {0}, offset : 0..N, best : Int,
                           idx : Servers \union {None}]]
  /\ lease \in [Callers -> Servers \union {None}]
  /\ noise \in [Callers -> 0..Permits]

Leases(s) == {c \in Callers : lease[c] = s}

\* Each counter is the number of live leases of its transcriber: it never
\* drifts, and never wraps below zero, however picks and drops interleave.
InflightCountsLeases == \A s \in Servers : inflight[s] = Cardinality(Leases(s))

\* A pick takes a transcriber that is busier than the least busy one by at most
\* the number of leases taken and dropped while it picked; a pick nothing came
\* between takes a least busy one.
PickIsLeastBusy ==
  [][\A c \in Callers, s, t \in Servers :
       lease[c] = None /\ lease'[c] = s /\ noise[c] < Permits
         => inflight[s] <= inflight[t] + noise[c]]_vars

\* A caller that asks for a permit sends its request in the end.
EveryoneIsServed == \A c \in Callers : pc[c] = "waiting" ~> pc[c] = "sending"
=============================================================================
