------------------------ MODULE TranscriberPoolProofs ------------------------
(***************************************************************************)
(* Theorems about TranscriberPool, for every finite set of callers and     *)
(* every number of transcribers and permits.                               *)
(*                                                                         *)
(* The inductive invariant adds to the properties what a caller knows      *)
(* while it picks: how far the best counter it has read and the counters   *)
(* themselves can be apart, given the changes since it started.            *)
(***************************************************************************)
EXTENDS TranscriberPool, FiniteSetTheorems, TLAPS

\* The transcribers a picking caller has looked at.
Seen(c) == {Wrap(scan[c].start + o) : o \in 0..(scan[c].offset - 1)}

\* Only a caller whose request is under way has a lease.
LeaseWhileSending == \A c \in Callers : lease[c] # None => pc[c] = "sending"

ScanKnows(c) ==
  LET best == scan[c].best
      idx  == scan[c].idx
  IN  /\ scan[c].offset > 0 => idx \in Servers
      /\ noise[c] < Permits /\ idx \in Servers =>
           /\ inflight[idx] <= best + noise[c]
           /\ \A t \in Seen(c) : /\ best <= inflight[t] + noise[c]
                                 /\ inflight[idx] <= inflight[t] + noise[c]

Scans == \A c \in Callers : pc[c] = "scan" => N > 0 /\ ScanKnows(c)

IInv ==
  /\ TypeOK
  /\ LeaseWhileSending
  /\ InflightCountsLeases
  /\ Scans

-----------------------------------------------------------------------------
(* The rotation                                                             *)

LEMMA WrapType ==
  ASSUME NEW i \in Nat, i < 2 * N
  PROVE  Wrap(i) \in Servers
BY ConstantsAssumption DEF Wrap, Servers

\* A whole turn sees every transcriber.
LEMMA TurnSeesAll ==
  ASSUME NEW start \in Servers, NEW t \in Servers
  PROVE  \E o \in 0..(N - 1) : Wrap(start + o) = t
<1> DEFINE o == IF t >= start THEN t - start ELSE t - start + N
<1>1. o \in 0..(N - 1) /\ Wrap(start + o) = t
  BY ConstantsAssumption DEF Servers, Wrap
<1>2. QED
  BY <1>1

LEMMA SeenServers ==
  ASSUME TypeOK, N > 0, NEW c \in Callers
  PROVE  Seen(c) \subseteq Servers
<1>1. N \in Nat /\ scan[c].start \in 0..(N - 1) /\ scan[c].offset \in 0..N
  BY ConstantsAssumption DEF TypeOK, Servers
<1>2. ASSUME NEW o \in 0..(scan[c].offset - 1)
      PROVE  Wrap(scan[c].start + o) \in Servers
  <2>1. scan[c].start + o \in Nat /\ scan[c].start + o < 2 * N
    BY <1>1
  <2>2. QED
    BY <2>1, WrapType
<1>3. QED
  BY <1>2 DEF Seen

-----------------------------------------------------------------------------
(* Cardinalities                                                            *)

LEMMA FiniteParts ==
  \A s \in Servers : IsFiniteSet(Leases(s)) /\ Cardinality(Leases(s)) \in Nat
<1>1. ASSUME NEW S, S \subseteq Callers
      PROVE  IsFiniteSet(S) /\ Cardinality(S) \in Nat
  BY <1>1, ConstantsAssumption, FS_Subset, FS_CardinalityType
<1>3. \A s \in Servers : Leases(s) \subseteq Callers
  BY DEF Leases
<1>4. QED
  BY <1>1, <1>3

-----------------------------------------------------------------------------
(* The steps                                                                *)

LEMMA InitIInv == Init => IInv
<1> SUFFICES ASSUME Init PROVE IInv
  OBVIOUS
<1> USE ConstantsAssumption
<1>1. TypeOK
  BY DEF Init, TypeOK, NoScan, None, Servers
<1>2. LeaseWhileSending
  BY DEF Init, LeaseWhileSending
<1>3. InflightCountsLeases
  <2>1. \A s \in Servers : Leases(s) = {}
    BY DEF Init, Leases, Servers, None
  <2>2. QED
    BY <2>1, FS_EmptySet DEF InflightCountsLeases, Init
<1>5. Scans
  BY DEF Init, Scans
<1>6. QED
  BY <1>1, <1>2, <1>3, <1>5 DEF IInv

\* A step that only moves a caller and the queue.
LEMMA QuietStep ==
  ASSUME IInv, UNCHANGED <<rr, inflight, scan, lease, noise>>, waiting' \in Seq(Callers),
         NEW c \in Callers, NEW from, NEW to \in {"idle", "waiting", "start", "sending"},
         Move(c, from, to), from # "sending"
  PROVE  IInv'
<1>1. TypeOK'
  BY DEF IInv, TypeOK, Move
<1>2. LeaseWhileSending'
  BY DEF IInv, TypeOK, Move, LeaseWhileSending
<1>3. InflightCountsLeases'
  BY DEF IInv, InflightCountsLeases, Leases
<1>4. Scans'
  BY DEF IInv, TypeOK, Move, Scans, ScanKnows, Seen
<1>5. QED
  BY <1>1, <1>2, <1>3, <1>4 DEF IInv

LEMMA AskStep ==
  ASSUME IInv, NEW c \in Callers, Ask(c)
  PROVE  IInv'
<1>1. waiting' \in Seq(Callers)
  BY DEF Ask, IInv, TypeOK
<1>3. QED
  BY <1>1, QuietStep DEF Ask

LEMMA GrantStep ==
  ASSUME IInv, NEW c \in Callers, Grant(c)
  PROVE  IInv'
<1>1. waiting' \in Seq(Callers)
  BY DEF Grant, IInv, TypeOK
<1>3. QED
  BY <1>1, QuietStep DEF Grant

LEMMA PickDefaultStep ==
  ASSUME IInv, NEW c \in Callers, N = 0, Start(c)
  PROVE  IInv'
BY QuietStep DEF Start, PickDefault, IInv, TypeOK

LEMMA ReleaseStep ==
  ASSUME IInv, NEW c \in Callers, Release(c)
  PROVE  IInv'
BY QuietStep DEF Release, IInv, TypeOK

LEMMA StartScanStep ==
  ASSUME IInv, NEW c \in Callers, N # 0, Start(c)
  PROVE  IInv'
<1> USE ConstantsAssumption DEF IInv
<1>0. StartScan(c) /\ UNCHANGED <<waiting, inflight, lease>>
  BY DEF Start
<1>1. TypeOK'
  <2>a. N > 0 /\ N \in Nat /\ rr \in 0..(N - 1)
    BY <1>0 DEF StartScan, TypeOK, Servers
  <2>1. Wrap(rr + 1) \in Servers
    BY <2>a DEF Wrap, Servers
  <2>2. scan' \in [Callers -> [start : Servers \union {0}, offset : 0..N, best : Int,
                              idx : Servers \union {None}]]
    BY <1>0, <2>a DEF StartScan, TypeOK, None
  <2>3. noise' \in [Callers -> 0..Permits] /\ pc' \in [Callers -> {"idle", "waiting", "start", "scan", "sending", "release"}]
    BY <1>0, <2>a DEF StartScan, TypeOK, Move
  <2>4. QED
    BY <2>a, <2>1, <2>2, <2>3, <1>0 DEF StartScan, TypeOK
<1>2. LeaseWhileSending'
  BY <1>0 DEF StartScan, Move, TypeOK, LeaseWhileSending
<1>3. InflightCountsLeases'
  BY <1>0 DEF StartScan, InflightCountsLeases, Leases
<1>5. Scans'
  <2> SUFFICES ASSUME NEW d \in Callers, pc'[d] = "scan"
               PROVE  N > 0 /\ ScanKnows(d)'
    BY DEF Scans
  <2>1. CASE d = c
    BY <1>0, <2>1 DEF StartScan, TypeOK, ScanKnows, Servers, None
  <2>2. CASE d # c
    <3>1. pc[d] = "scan" /\ scan'[d] = scan[d] /\ noise'[d] = noise[d] /\ inflight' = inflight
      BY <1>0, <2>2 DEF StartScan, Move, TypeOK
    <3>2. QED
      BY <3>1 DEF Scans, ScanKnows, Seen
  <2>3. QED
    BY <2>1, <2>2
<1>6. QED
  BY <1>1, <1>2, <1>3, <1>5

LEMMA LoadStep ==
  ASSUME IInv, NEW c \in Callers, Load(c)
  PROVE  IInv'
<1> USE ConstantsAssumption DEF IInv
<1>0. /\ N \in Nat /\ N > 0 /\ Candidate(c) \in Servers
      /\ inflight[Candidate(c)] \in Int /\ scan[c].offset \in 0..(N - 1)
      /\ scan[c].best \in Int /\ noise[c] \in Nat
  <2>a. N > 0
    BY DEF Load, Scans
  <2>b. /\ scan[c].start \in Servers \union {0} /\ scan[c].offset \in 0..N
        /\ scan[c].offset < N
    BY DEF Load, TypeOK
  <2>1. N > 0 /\ scan[c].start \in 0..(N - 1) /\ scan[c].offset \in 0..(N - 1)
    BY <2>a, <2>b DEF Servers
  <2>2. Candidate(c) \in Servers
    BY <2>1 DEF Candidate, Wrap, Servers
  <2>3. QED
    BY <2>1, <2>2 DEF TypeOK
<1>1. TypeOK'
  <2>1. scan'[c] \in [start : Servers \union {0}, offset : 0..N, best : Int,
                      idx : Servers \union {None}]
    BY <1>0 DEF Load, TypeOK
  <2>2. QED
    BY <2>1 DEF Load, TypeOK
<1>2. LeaseWhileSending'
  BY DEF Load, LeaseWhileSending
<1>3. InflightCountsLeases'
  BY DEF Load, InflightCountsLeases, Leases
<1>5. Scans'
  <2> SUFFICES ASSUME NEW d \in Callers, pc[d] = "scan"
               PROVE  N > 0 /\ ScanKnows(d)'
    BY DEF Scans, Load
  <2>1. CASE d = c
    <3>1. /\ scan'[c].start = scan[c].start /\ scan'[c].offset = scan[c].offset + 1
          /\ scan'[c].idx = IF Better(c) THEN Candidate(c) ELSE scan[c].idx
          /\ scan'[c].best = IF Better(c) THEN inflight[Candidate(c)] ELSE scan[c].best
      BY DEF Load, TypeOK
    <3>2. Seen(c)' = Seen(c) \union {Candidate(c)}
      <4>1. 0..(scan'[c].offset - 1) = 0..(scan[c].offset - 1) \union {scan[c].offset}
        BY <3>1, <1>0
      <4>2. QED
        BY <3>1, <4>1 DEF Seen, Candidate, Wrap
    <3>3. scan[c].offset > 0 => scan[c].idx \in Servers
      BY <2>1 DEF Scans, ScanKnows
    <3>4. ~Better(c) => scan[c].idx \in Servers /\ inflight[Candidate(c)] >= scan[c].best
      BY <1>0 DEF Better, TypeOK
    <3>5. Better(c) => scan[c].idx = None \/ inflight[Candidate(c)] < scan[c].best
      BY DEF Better
    <3>6. scan[c].idx = None => Seen(c) = {}
      BY <1>0, <3>3 DEF Seen, None, Servers
    <3>7. Seen(c) \subseteq Servers
      BY <1>0, SeenServers
    <3>8. inflight' = inflight /\ noise' = noise
      BY DEF Load
    <3>9. ASSUME noise[c] < Permits
          PROVE  /\ inflight[scan'[c].idx] <= scan'[c].best + noise[c]
                 /\ \A t \in Seen(c)' : /\ scan'[c].best <= inflight[t] + noise[c]
                                        /\ inflight[scan'[c].idx] <= inflight[t] + noise[c]
      <4>1. scan[c].idx \in Servers =>
              /\ inflight[scan[c].idx] <= scan[c].best + noise[c]
              /\ \A t \in Seen(c) : /\ scan[c].best <= inflight[t] + noise[c]
                                    /\ inflight[scan[c].idx] <= inflight[t] + noise[c]
        BY <2>1, <3>9 DEF Scans, ScanKnows
      <4>2. \A t \in Servers : inflight[t] \in Int
        BY DEF TypeOK
      <4>3. CASE Better(c)
        BY <1>0, <3>1, <3>2, <3>5, <3>6, <3>7, <4>1, <4>2, <4>3 DEF TypeOK
      <4>4. CASE ~Better(c)
        BY <1>0, <3>1, <3>2, <3>4, <3>7, <4>1, <4>2, <4>4
      <4>5. QED
        BY <4>3, <4>4
    <3>10. scan'[c].idx \in Servers
      BY <1>0, <3>1, <3>4
    <3>11. QED
      BY <1>0, <2>1, <3>8, <3>9, <3>10 DEF ScanKnows
  <2>2. CASE d # c
    <3>1. scan'[d] = scan[d] /\ noise' = noise /\ inflight' = inflight
      BY <2>2 DEF Load, TypeOK
    <3>2. QED
      BY <3>1 DEF Scans, ScanKnows, Seen
  <2>3. QED
    BY <2>1, <2>2
<1>6. QED
  BY <1>1, <1>2, <1>3, <1>5

\* What the others know while one counter changes by one.
LEMMA DisturbedScans ==
  ASSUME IInv, NEW c \in Callers, Disturb, NEW s \in Servers,
         NEW delta \in {1, -1}, inflight' = [inflight EXCEPT ![s] = @ + delta],
         \A d \in Callers : pc'[d] = "scan" => pc[d] = "scan" /\ scan'[d] = scan[d]
  PROVE  Scans'
<1> SUFFICES ASSUME NEW d \in Callers, pc'[d] = "scan"
             PROVE  N > 0 /\ ScanKnows(d)'
  BY DEF Scans
<1> USE ConstantsAssumption
<1>1. pc[d] = "scan" /\ scan'[d] = scan[d] /\ N > 0 /\ ScanKnows(d)
  BY DEF IInv, Scans
<1>2. /\ noise[d] \in 0..Permits /\ scan[d].best \in Int /\ scan[d].offset \in 0..N
      /\ \A t \in Servers : inflight[t] \in Int
  BY DEF IInv, TypeOK
<1>3. noise'[d] < Permits => noise[d] < Permits /\ noise'[d] = noise[d] + 1
  BY <1>2 DEF Disturb
<1>4. \A t \in Servers : inflight[t] - 1 <= inflight'[t] /\ inflight'[t] <= inflight[t] + 1
  BY <1>2 DEF IInv, TypeOK
<1>5. \A t \in Servers : inflight'[t] \in Int
  BY <1>2 DEF IInv, TypeOK
<1>6. Seen(d)' = Seen(d) /\ Seen(d) \subseteq Servers
  <2>1. Seen(d) \subseteq Servers
    BY <1>1, SeenServers DEF IInv
  <2>2. Seen(d)' = Seen(d)
    BY <1>1 DEF Seen
  <2>3. QED
    BY <2>1, <2>2
<1>7. ASSUME noise'[d] < Permits, scan[d].idx \in Servers
      PROVE  /\ inflight'[scan[d].idx] <= scan[d].best + noise'[d]
             /\ \A t \in Seen(d) : /\ scan[d].best <= inflight'[t] + noise'[d]
                                   /\ inflight'[scan[d].idx] <= inflight'[t] + noise'[d]
  <2>1. /\ inflight[scan[d].idx] <= scan[d].best + noise[d]
        /\ \A t \in Seen(d) : /\ scan[d].best <= inflight[t] + noise[d]
                              /\ inflight[scan[d].idx] <= inflight[t] + noise[d]
    BY <1>1, <1>3, <1>7 DEF ScanKnows
  <2>2. inflight'[scan[d].idx] <= scan[d].best + noise'[d]
    BY <1>2, <1>3, <1>4, <1>5, <1>7, <2>1
  <2>3. ASSUME NEW t \in Seen(d)
        PROVE  /\ scan[d].best <= inflight'[t] + noise'[d]
               /\ inflight'[scan[d].idx] <= inflight'[t] + noise'[d]
    <3>1. t = scan[d].idx \/ inflight'[t] = inflight[t] \/ inflight'[scan[d].idx] = inflight[scan[d].idx]
      BY <1>6, <1>7 DEF IInv, TypeOK
    <3>2. QED
      BY <1>2, <1>3, <1>4, <1>5, <1>6, <1>7, <2>1, <3>1
  <2>4. QED
    BY <2>2, <2>3
<1>8. QED
  BY <1>1, <1>6, <1>7 DEF ScanKnows

LEMMA TakeStep ==
  ASSUME IInv, NEW c \in Callers, Take(c)
  PROVE  IInv'
<1> USE ConstantsAssumption
<1> DEFINE s == scan[c].idx
<1>0. /\ s \in Servers /\ s # None /\ inflight[s] \in Int
      /\ pc[c] = "scan" /\ lease[c] = None
  <2>1. pc[c] = "scan" /\ N > 0 /\ scan[c].offset = N
    BY DEF Take, Move, IInv, Scans
  <2>2. s \in Servers
    BY <2>1 DEF IInv, Scans, ScanKnows
  <2>3. QED
    BY <2>1, <2>2 DEF IInv, TypeOK, LeaseWhileSending, Servers, None
<1>1. TypeOK'
  <2>1. noise' \in [Callers -> 0..Permits]
    BY DEF Take, Disturb, IInv, TypeOK
  <2>2. NoScan \in [start : Servers \union {0}, offset : 0..N, best : Int,
                    idx : Servers \union {None}]
    BY DEF NoScan
  <2>3. scan' = [scan EXCEPT ![c] = NoScan] /\ scan \in [Callers -> [start : Servers \union {0},
                   offset : 0..N, best : Int, idx : Servers \union {None}]]
    BY DEF Take, IInv, TypeOK
  <2>4. scan' \in [Callers -> [start : Servers \union {0}, offset : 0..N, best : Int,
                              idx : Servers \union {None}]]
    BY <2>2, <2>3, Zenon
  <2>5. inflight' \in [Servers -> Int] /\ lease' \in [Callers -> Servers \union {None}]
    BY <1>0 DEF Take, IInv, TypeOK
  <2>6. QED
    BY <2>1, <2>4, <2>5 DEF Take, Move, IInv, TypeOK
<1>2. LeaseWhileSending'
  BY <1>0 DEF Take, Move, IInv, TypeOK, LeaseWhileSending
<1>3. InflightCountsLeases'
  <2> SUFFICES ASSUME NEW t \in Servers
               PROVE  inflight'[t] = Cardinality(Leases(t)')
    BY DEF InflightCountsLeases, Leases
  <2>1. inflight[t] = Cardinality(Leases(t)) /\ IsFiniteSet(Leases(t))
    BY FiniteParts DEF IInv, InflightCountsLeases
  <2>2. CASE t = s
    <3>1. Leases(t)' = Leases(t) \union {c} /\ c \notin Leases(t)
      BY <1>0, <2>2 DEF Take, Leases, IInv, TypeOK
    <3>2. Cardinality(Leases(t)') = Cardinality(Leases(t)) + 1
      BY <2>1, <3>1, FS_AddElement
    <3>3. inflight'[t] = inflight[t] + 1
      BY <1>0, <2>2 DEF Take, IInv, TypeOK
    <3>4. QED
      BY <2>1, <3>2, <3>3
  <2>3. CASE t # s
    <3>1. Leases(t)' = Leases(t)
      BY <1>0, <2>3 DEF Take, Leases, IInv, TypeOK, None, Servers
    <3>2. inflight'[t] = inflight[t]
      BY <1>0, <2>3 DEF Take, IInv, TypeOK
    <3>3. QED
      BY <2>1, <3>1, <3>2
  <2>4. QED
    BY <2>2, <2>3
<1>5. Scans'
  <2>1. \A d \in Callers : pc'[d] = "scan" => pc[d] = "scan" /\ scan'[d] = scan[d]
    BY <1>0 DEF Take, Move, IInv, TypeOK
  <2>2. Disturb /\ inflight' = [inflight EXCEPT ![s] = @ + 1]
    BY DEF Take
  <2>3. QED
    BY <1>0, <2>1, <2>2, DisturbedScans
<1>6. QED
  BY <1>1, <1>2, <1>3, <1>5 DEF IInv

LEMMA DropLeaseStep ==
  ASSUME IInv, NEW c \in Callers, DropLease(c)
  PROVE  IInv'
<1> USE ConstantsAssumption
<1> DEFINE s == lease[c]
<1>0. s \in Servers \union {None} /\ pc[c] = "sending"
  BY DEF DropLease, Move, IInv, TypeOK
<1>1. TypeOK'
  <2>1. noise' \in [Callers -> 0..Permits]
    BY DEF DropLease, Disturb, IInv, TypeOK
  <2>2. inflight' \in [Servers -> Int]
    BY <1>0 DEF DropLease, IInv, TypeOK
  <2>3. QED
    BY <2>1, <2>2 DEF DropLease, Move, IInv, TypeOK
<1>2. LeaseWhileSending'
  BY DEF DropLease, Move, IInv, TypeOK, LeaseWhileSending
<1>3. InflightCountsLeases'
  <2> SUFFICES ASSUME NEW t \in Servers
               PROVE  inflight'[t] = Cardinality(Leases(t)')
    BY DEF InflightCountsLeases, Leases
  <2>1. inflight[t] = Cardinality(Leases(t)) /\ IsFiniteSet(Leases(t))
    BY FiniteParts DEF IInv, InflightCountsLeases
  <2>2. t # None
    BY DEF None, Servers
  <2>3. CASE t = s
    <3>1. Leases(t)' = Leases(t) \ {c} /\ c \in Leases(t)
      BY <2>2, <2>3 DEF DropLease, Leases, IInv, TypeOK
    <3>2. Cardinality(Leases(t)') = Cardinality(Leases(t)) - 1
      BY <2>1, <3>1, FS_RemoveElement
    <3>3. inflight'[t] = inflight[t] - 1
      BY <2>2, <2>3 DEF DropLease, IInv, TypeOK
    <3>4. QED
      BY <2>1, <3>2, <3>3
  <2>4. CASE t # s
    <3>1. Leases(t)' = Leases(t)
      BY <2>2, <2>4 DEF DropLease, Leases, IInv, TypeOK
    <3>2. inflight'[t] = inflight[t]
      BY <2>4 DEF DropLease, IInv, TypeOK
    <3>3. QED
      BY <2>1, <3>1, <3>2
  <2>5. QED
    BY <2>3, <2>4
<1>5. Scans'
  <2>1. \A d \in Callers : pc'[d] = "scan" => pc[d] = "scan" /\ scan'[d] = scan[d]
    BY DEF DropLease, Move, IInv, TypeOK
  <2>2. CASE s = None
    <3>1. /\ inflight' = inflight
          /\ \A d \in Callers : noise'[d] < Permits => noise[d] < Permits /\ noise'[d] = noise[d] + 1
      BY <2>2 DEF DropLease, Disturb, IInv, TypeOK
    <3> SUFFICES ASSUME NEW d \in Callers, pc'[d] = "scan"
                 PROVE  N > 0 /\ ScanKnows(d)'
      BY DEF Scans
    <3>2. pc[d] = "scan" /\ scan'[d] = scan[d] /\ N > 0 /\ ScanKnows(d)
      BY <2>1 DEF IInv, Scans
    <3>3. Seen(d) \subseteq Servers /\ Seen(d)' = Seen(d)
      BY <3>2, SeenServers DEF IInv, Seen
    <3>4. /\ scan[d].best \in Int /\ noise[d] \in Nat
          /\ \A t \in Servers : inflight[t] \in Int
      BY DEF IInv, TypeOK
    <3>5. QED
      BY <3>1, <3>2, <3>3, <3>4 DEF ScanKnows
  <2>3. CASE s # None
    <3>1. Disturb /\ s \in Servers
      BY <1>0, <2>3 DEF DropLease
    <3>2. inflight' = [inflight EXCEPT ![s] = @ + (-1)]
      <4>1. inflight' = [inflight EXCEPT ![s] = @ - 1]
        BY <2>3 DEF DropLease
      <4>2. inflight[s] \in Int
        BY <3>1 DEF IInv, TypeOK
      <4>3. QED
        BY <4>1, <4>2
    <3>3. QED
      BY <2>1, <3>1, <3>2, DisturbedScans
  <2>4. QED
    BY <2>2, <2>3
<1>6. QED
  BY <1>1, <1>2, <1>3, <1>5 DEF IInv

LEMMA NextIInv == IInv /\ [Next]_vars => IInv'
<1> SUFFICES ASSUME IInv, [Next]_vars PROVE IInv'
  OBVIOUS
<1>1. ASSUME NEW c \in Callers, Ask(c) \/ Proceed(c)
      PROVE  IInv'
  BY <1>1, AskStep, GrantStep, PickDefaultStep, StartScanStep, LoadStep, TakeStep,
     DropLeaseStep, ReleaseStep DEF Proceed
<1>2. CASE UNCHANGED vars
  <2>1. TypeOK' /\ LeaseWhileSending'
    BY <1>2 DEF vars, IInv, TypeOK, LeaseWhileSending
  <2>2. InflightCountsLeases' /\ Scans'
    BY <1>2 DEF vars, IInv, InflightCountsLeases, Leases, Scans, ScanKnows, Seen
  <2>3. QED
    BY <2>1, <2>2 DEF IInv
<1>3. QED
  BY <1>1, <1>2 DEF Next

LEMMA IInvHolds == Spec => []IInv
BY InitIInv, NextIInv, PTL DEF Spec

-----------------------------------------------------------------------------
(* The theorems                                                             *)

\* Every variable keeps its range.
THEOREM TypesHold == Spec => []TypeOK
BY IInvHolds, PTL DEF IInv

\* The counters of TranscriberPool never drift from the live leases.
THEOREM CountersAreExact == Spec => []InflightCountsLeases
BY IInvHolds, PTL DEF IInv

\* A pick errs by no more than what happened while it picked.
THEOREM PicksAreLeastBusy == Spec => PickIsLeastBusy
<1> DEFINE Good ==
      \A c \in Callers, s, t \in Servers :
        lease[c] = None /\ lease'[c] = s /\ noise[c] < Permits
          => inflight[s] <= inflight[t] + noise[c]
<1>1. IInv /\ [Next]_vars => [Good]_vars
  <2> SUFFICES ASSUME IInv, NEW d \in Callers, Ask(d) \/ Proceed(d),
                      NEW c \in Callers, NEW s \in Servers, NEW t \in Servers,
                      lease[c] = None, lease'[c] = s, noise[c] < Permits
               PROVE  inflight[s] <= inflight[t] + noise[c]
    BY DEF Next
  <2>1. s # None /\ lease'[c] # lease[c]
    BY DEF None, Servers
  <2>2. Take(c)
    BY <2>1 DEF Proceed, Ask, Grant, Start, PickDefault, StartScan, Load, Take, DropLease, Release,
                IInv, TypeOK
  <2>3. pc[c] = "scan" /\ scan[c].offset = N /\ scan[c].idx = s
    BY <2>2 DEF Take, Move, IInv, TypeOK
  <2>4. scan[c].start \in Servers
    BY ConstantsAssumption DEF IInv, TypeOK, Servers
  <2>5. t \in Seen(c)
    BY <2>3, <2>4, TurnSeesAll DEF Seen
  <2>6. QED
    BY <2>3, <2>5 DEF IInv, Scans, ScanKnows
<1>2. QED
  BY <1>1, IInvHolds, PTL DEF Spec, PickIsLeastBusy
=============================================================================
