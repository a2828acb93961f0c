--------------------------- MODULE JobPipelineProofs ---------------------------
(***************************************************************************)
(* Theorems about JobPipeline, for every set of jobs and workers, every    *)
(* queue and number of permits and every failure, as long as no upload     *)
(* outlasts the retention (SlowUploads = FALSE).                           *)
(*                                                                         *)
(* The inductive invariant has three parts besides the types: who has a    *)
(* job in its hands, what that says of the job's status, and that the      *)
(* cleanup only ever goes for jobs that are over.                          *)
(***************************************************************************)
EXTENDS JobPipeline, FiniteSetTheorems, TLAPS

CreatePoints  == {"none", "uploading", "saving", "inserting", "sending",
                  "accepted", "removing", "refused", "dropped"}
WorkerPoints  == {"idle", "begin", "acquire", "opening",
                  "transcribing", "saving", "finishing", "failed"}
CleanerPoints == {"idle", "scan", "stat", "remove", "forget"}

Inside == {"uploading", "saving", "inserting", "sending"}
Over   == {"accepted", "removing", "refused", "dropped"}

\* No job is in two places of the queue, with two workers, or in both.
OnePlace ==
  /\ \A w \in Workers : worker[w].pc = "idle" <=> Job(w) = NoJob
  /\ \A w, v \in Workers : Job(w) = Job(v) /\ Job(w) # NoJob => w = v
  /\ \A i, k \in 1..Len(queue) : queue[i] = queue[k] => i = k
  /\ \A i \in 1..Len(queue), w \in Workers : queue[i] # Job(w)

\* What the place of a job says of its status ...
PlaceStatus ==
  /\ \A j \in Jobs : create[j] \notin {"sending", "accepted"} => status[j] = "none"
  /\ \A j \in Jobs : create[j] = "sending" => status[j] = "queued"
  /\ \A i \in 1..Len(queue) :
       create[queue[i]] = "accepted" /\ status[queue[i]] = "queued"
  /\ \A w \in Workers : Job(w) # NoJob =>
       /\ create[Job(w)] = "accepted"
       /\ status[Job(w)] = IF At(w, "begin") THEN "queued" ELSE "running"

\* ... and the status of its place.
StatusPlace ==
  \A j \in Jobs :
    /\ status[j] = "queued" /\ create[j] # "sending" =>
         \/ \E i \in 1..Len(queue) : queue[i] = j
         \/ \E w \in Workers : Job(w) = j /\ At(w, "begin")
    /\ status[j] = "running" => \E w \in Workers : Job(w) = j /\ ~At(w, "begin")

\* A job no handler and no worker will touch again.
Gone(j) ==
  /\ create[j] \in Over
  /\ status[j] = "none" \/ (status[j] \in Finished /\ j \in expired)

\* The cleanup is about to delete nothing but what is gone.
CleansGone ==
  /\ cleaner.pc \in {"stat", "remove", "forget"} => cleaner.job \in Jobs /\ deleted < MaxDelete
  /\ cleaner.pc = "stat" => dir[cleaner.job] = "fresh" \/ Gone(cleaner.job)
  /\ cleaner.pc \in {"remove", "forget"} => Gone(cleaner.job)
  /\ \A j \in todo : create[j] # "none"

\* What is on the disk.
OnDisk ==
  \A j \in Jobs :
    /\ create[j] = "none" => dir[j] = "absent"
    /\ create[j] \in Inside => dir[j] = "fresh"
    /\ create[j] \in Inside \/ status[j] \in Active => dir[j] # "absent" /\ "input" \in files[j]
    /\ status[j] = "done" /\ j \notin expired => "result" \in files[j]
    /\ \A w \in Workers : At(w, "finishing") /\ Job(w) = j => "result" \in files[j]

IInv == TypeOK /\ OnePlace /\ PlaceStatus /\ StatusPlace /\ CleansGone /\ OnDisk

-----------------------------------------------------------------------------
LEMMA InitIInv == Init => IInv
<1> SUFFICES ASSUME Init PROVE IInv
  OBVIOUS
<1> USE ConstantsAssumption DEF Init, Idle, Job, At
<1>1. TypeOK
  BY DEF TypeOK, Statuses
<1>2. OnePlace /\ PlaceStatus /\ StatusPlace
  BY DEF OnePlace, PlaceStatus, StatusPlace
<1>3. CleansGone /\ OnDisk
  BY DEF CleansGone, OnDisk, Inside, Active
<1> QED
  BY <1>1, <1>2, <1>3 DEF IInv

\* The types the steps below rely on, one fact to cite.
LEMMA Types ==
  ASSUME IInv
  PROVE  /\ status \in [Jobs -> Statuses] /\ create \in [Jobs -> CreatePoints]
         /\ queue \in Seq(Jobs) /\ Len(queue) \in Nat
         /\ dir \in [Jobs -> {"absent", "fresh", "stale"}]
         /\ files \in [Jobs -> SUBSET {"input", "request", "result"}]
         /\ worker \in [Workers -> [pc : WorkerPoints, job : Jobs \union {NoJob}]]
         /\ cleaner \in [pc : CleanerPoints, job : Jobs \union {NoJob}]
         /\ \A i \in 1..Len(queue) : queue[i] \in Jobs
BY DEF IInv, TypeOK, CreatePoints, WorkerPoints, CleanerPoints

-----------------------------------------------------------------------------
(* Who has a job                                                            *)

Hands == OnePlace /\ PlaceStatus /\ StatusPlace

\* Steps of the cleanup short of the map, and time, touch nobody's hands.
LEMMA SameHands ==
  ASSUME IInv, UNCHANGED <<status, queue, create, worker>>
  PROVE  Hands'
BY DEF IInv, Hands, OnePlace, PlaceStatus, StatusPlace, Job, At

\* A handler before or after the time its job is in the map.
LEMMA HandlerHands ==
  ASSUME IInv, NEW j \in Jobs,
         create[j] \notin {"sending", "accepted"},
         \E to \in CreatePoints \ {"sending", "accepted"} : create' = [create EXCEPT ![j] = to],
         UNCHANGED <<status, queue, worker>>
  PROVE  Hands'
<1> PICK to \in CreatePoints \ {"sending", "accepted"} : create' = [create EXCEPT ![j] = to]
  OBVIOUS
<1>1. OnePlace'
  BY DEF IInv, OnePlace, Job
<1>2. PlaceStatus'
  BY Types DEF IInv, PlaceStatus, Job, At
<1>3. StatusPlace'
  BY Types DEF IInv, PlaceStatus, StatusPlace, Job, At
<1> QED
  BY <1>1, <1>2, <1>3 DEF Hands

LEMMA InsertHands ==
  ASSUME IInv, NEW j \in Jobs, InsertQueued(j)
  PROVE  Hands'
<1> USE DEF InsertQueued, Handler
<1>1. OnePlace'
  BY DEF IInv, OnePlace, Job
<1>2. PlaceStatus'
  BY Types DEF IInv, PlaceStatus, Job, At
<1>3. StatusPlace'
  BY Types DEF IInv, PlaceStatus, StatusPlace, Job, At
<1> QED
  BY <1>1, <1>2, <1>3 DEF Hands

\* The job that is sent is nowhere yet.
LEMMA SendHands ==
  ASSUME IInv, NEW j \in Jobs, Send(j)
  PROVE  Hands'
<1> USE DEF Handler
<1>1. create[j] = "sending" /\ status[j] = "queued"
  BY DEF IInv, Send, PlaceStatus
<1>2. /\ \A i \in 1..Len(queue) : queue[i] # j
      /\ \A w \in Workers : Job(w) # j
  BY <1>1, Types, ConstantsAssumption DEF IInv, PlaceStatus
<1>3. CASE Len(queue) < QueueCap /\ queue' = Append(queue, j) /\ UNCHANGED status
           /\ create' = [create EXCEPT ![j] = "accepted"]
  <2> worker' = worker
    BY DEF Send
  <2>1. /\ Len(queue') = Len(queue) + 1
        /\ \A i \in 1..Len(queue') : queue'[i] = IF i <= Len(queue) THEN queue[i] ELSE j
    BY <1>3, Types
  <2>2. OnePlace'
    BY <1>2, <2>1, Types DEF IInv, OnePlace, Job
  <2>3. PlaceStatus'
    BY <1>1, <1>2, <1>3, <2>1, Types DEF IInv, PlaceStatus, Job, At
  <2>4. StatusPlace'
    BY <1>1, <1>2, <1>3, <2>1, Types DEF IInv, StatusPlace, Job, At
  <2> QED
    BY <2>2, <2>3, <2>4 DEF Hands
<1>4. CASE /\ status' = [status EXCEPT ![j] = "none"] /\ UNCHANGED queue
           /\ create' = [create EXCEPT ![j] = "removing"]
  <2> worker' = worker
    BY DEF Send
  <2>1. OnePlace'
    BY <1>4 DEF IInv, OnePlace, Job
  <2>2. PlaceStatus'
    BY <1>1, <1>2, <1>4, Types DEF IInv, PlaceStatus, Job, At
  <2>3. StatusPlace'
    BY <1>1, <1>2, <1>4, Types DEF IInv, StatusPlace, Job, At
  <2> QED
    BY <2>1, <2>2, <2>3 DEF Hands
<1> QED
  BY <1>3, <1>4 DEF Send

\* The head of the queue changes hands.
LEMMA ReceiveHands ==
  ASSUME IInv, NEW w \in Workers, Receive(w)
  PROVE  Hands'
<1> DEFINE j == queue[1]
<1> USE DEF Job, At
<1>1. /\ worker' = [worker EXCEPT ![w] = [pc |-> "begin", job |-> j]]
      /\ status' = status /\ create' = create
      /\ worker[w].pc = "idle" /\ queue' = Tail(queue) /\ queue # << >>
  BY DEF Receive, mapVars
<1>2. /\ Len(queue) >= 1 /\ j \in Jobs /\ j # NoJob
      /\ Len(queue') = Len(queue) - 1
      /\ \A i \in 1..Len(queue') : i + 1 \in 1..Len(queue) /\ queue'[i] = queue[i + 1]
  BY <1>1, Types, ConstantsAssumption
<1>3. /\ create[j] = "accepted" /\ status[j] = "queued"
      /\ \A v \in Workers : worker[v].job # j
      /\ \A i \in 2..Len(queue) : queue[i] # j
  BY <1>2, Types DEF IInv, OnePlace, PlaceStatus
<1>4. \A v \in Workers : worker'[v] = IF v = w THEN [pc |-> "begin", job |-> j] ELSE worker[v]
  BY <1>1, Types
<1>5. OnePlace'
  <2>1. \A v \in Workers : worker'[v].pc = "idle" <=> worker'[v].job = NoJob
    BY <1>2, <1>4 DEF IInv, OnePlace
  <2>2. \A v, u \in Workers : worker'[v].job = worker'[u].job /\ worker'[v].job # NoJob => v = u
    BY <1>3, <1>4 DEF IInv, OnePlace
  <2>3. \A i, k \in 1..Len(queue') : queue'[i] = queue'[k] => i = k
    BY <1>2, Types DEF IInv, OnePlace
  <2>4. \A i \in 1..Len(queue'), v \in Workers : queue'[i] # worker'[v].job
    <3> SUFFICES ASSUME NEW i \in 1..Len(queue'), NEW v \in Workers
                 PROVE  queue'[i] # worker'[v].job
      OBVIOUS
    <3>1. i + 1 \in 2..Len(queue) /\ i + 1 \in 1..Len(queue) /\ queue'[i] = queue[i + 1]
      BY <1>2, Types
    <3> QED
      BY <3>1, <1>3, <1>4 DEF IInv, OnePlace
  <2> QED
    BY <2>1, <2>2, <2>3, <2>4 DEF OnePlace
<1>6. PlaceStatus'
  BY <1>1, <1>2, <1>3, <1>4 DEF IInv, PlaceStatus
<1>7. StatusPlace'
  <2> SUFFICES ASSUME NEW k \in Jobs
               PROVE  /\ status[k] = "queued" /\ create[k] # "sending" =>
                           \/ \E i \in 1..Len(queue') : queue'[i] = k
                           \/ \E v \in Workers : worker'[v].job = k /\ worker'[v].pc = "begin"
                      /\ status[k] = "running" =>
                           \E v \in Workers : worker'[v].job = k /\ worker'[v].pc # "begin"
    BY <1>1 DEF StatusPlace
  <2>1. ASSUME status[k] = "running"
        PROVE  \E v \in Workers : worker'[v].job = k /\ worker'[v].pc # "begin"
    BY <2>1, <1>1, <1>4, ConstantsAssumption DEF IInv, StatusPlace, OnePlace
  <2>2. ASSUME status[k] = "queued", create[k] # "sending", k # j
        PROVE  \/ \E i \in 1..Len(queue') : queue'[i] = k
               \/ \E v \in Workers : worker'[v].job = k /\ worker'[v].pc = "begin"
    <3>1. CASE \E v \in Workers : worker[v].job = k /\ worker[v].pc = "begin"
      BY <3>1, <1>1, <1>4
    <3>2. CASE \E i \in 1..Len(queue) : queue[i] = k
      <4> PICK i \in 1..Len(queue) : queue[i] = k
        BY <3>2
      <4>1. i # 1
        BY <2>2
      <4>2. i - 1 \in 1..Len(queue') /\ (i - 1) + 1 = i
        BY <4>1, <1>2, Types
      <4>3. queue'[i - 1] = k
        BY <4>2, <1>2
      <4> QED
        BY <4>2, <4>3
    <3> QED
      BY <2>2, <3>1, <3>2 DEF IInv, StatusPlace
  <2> QED
    BY <2>1, <2>2, <1>4
<1> QED
  BY <1>5, <1>6, <1>7 DEF Hands

\* A worker goes on with its job and the job's status follows, or nothing does.
LEMMA MoveHands ==
  ASSUME IInv, NEW w \in Workers, NEW to \in WorkerPoints \ {"idle", "begin"},
         Job(w) # NoJob, Move(w, to),
         status' = [status EXCEPT ![Job(w)] = "running"], UNCHANGED <<queue, create>>
  PROVE  Hands'
<1> USE DEF Job, At, Move
<1>1. \A v \in Workers :
        /\ worker'[v].job = worker[v].job
        /\ worker'[v].pc = IF v = w THEN to ELSE worker[v].pc
  BY Types
<1>2. worker[w].job \in Jobs
  BY Types
<1>3. OnePlace'
  BY <1>1 DEF IInv, OnePlace
<1>4. PlaceStatus'
  BY <1>1, <1>2, Types DEF IInv, PlaceStatus, OnePlace
<1>5. StatusPlace'
  BY <1>1, <1>2, Types DEF IInv, PlaceStatus, StatusPlace, OnePlace
<1> QED
  BY <1>3, <1>4, <1>5 DEF Hands

\* A worker is through with its job.
LEMMA EndHands ==
  ASSUME IInv, NEW w \in Workers, Job(w) # NoJob, ~At(w, "begin"),
         worker' = [worker EXCEPT ![w] = Idle],
         NEW to \in Finished, status' = [status EXCEPT ![Job(w)] = to],
         UNCHANGED <<queue, create>>
  PROVE  Hands'
<1> USE DEF Job, At
<1>1. \A v \in Workers : worker'[v] = IF v = w THEN Idle ELSE worker[v]
  BY Types
<1>2. /\ worker[w].job \in Jobs
      /\ \A v \in Workers \ {w} : worker[v].job # worker[w].job
      /\ \A i \in 1..Len(queue) : queue[i] # worker[w].job
      /\ create[worker[w].job] = "accepted"
      /\ worker[w].pc # "begin"
  BY Types DEF IInv, OnePlace, PlaceStatus
<1>3. Idle.pc = "idle" /\ Idle.job = NoJob
  BY DEF Idle
<1>4. OnePlace'
  BY <1>1, <1>3, Types, ConstantsAssumption DEF IInv, OnePlace
<1>5. PlaceStatus'
  BY <1>1, <1>2, <1>3, Types DEF IInv, PlaceStatus
<1>6. StatusPlace'
  BY <1>1, <1>2, <1>3, Types DEF IInv, StatusPlace, Finished
<1> QED
  BY <1>4, <1>5, <1>6 DEF Hands

-----------------------------------------------------------------------------
(* What is on the disk, and what the cleanup goes for                       *)

Disk == CleansGone /\ OnDisk

\* A deletion, complete or not, touches one directory and adds nothing to it.
LEMMA Removal ==
  ASSUME IInv, NEW j \in Jobs, RemoveDir(j) \/ RemovePart(j)
  PROVE  /\ \A k \in Jobs \ {j} : dir'[k] = dir[k] /\ files'[k] = files[k]
         /\ files'[j] \subseteq files[j]
         /\ dir' \in [Jobs -> {"absent", "fresh", "stale"}]
         /\ files' \in [Jobs -> SUBSET {"input", "request", "result"}]
<1>1. CASE RemoveDir(j)
  BY <1>1, Types DEF RemoveDir
<1>2. CASE RemovePart(j)
  <2> PICK rest \in SUBSET files[j] :
         /\ files' = [files EXCEPT ![j] = rest]
         /\ dir' = [dir EXCEPT ![j] = IF rest = files[j] THEN @ ELSE "fresh"]
    BY <1>2 DEF RemovePart
  <2> QED
    BY Types
<1> QED
  BY <1>1, <1>2

\* The handlers write into the directory of a job that is not over, and remove
\* one that is.
LEMMA HandlerDisk ==
  ASSUME IInv, NEW j \in Jobs,
         StartUpload(j) \/ HandlerStep(j) \/ DropHandler(j)
  PROVE  Disk'
<1> USE DEF Inside, Over, Active, Finished, Handler, WriteFile, RemoveDir,
            mapVars, diskVars, cleanerVars, CreatePoints, Job, At
<1>1. create[j] # "accepted" /\ (create[j] # "sending" => status[j] = "none")
  BY DEF IInv, PlaceStatus, StartUpload, HandlerStep, FinishUpload, FailUpload,
         SaveRequest, InsertQueued, Send, RemoveRefused, DropHandler
<1>2. \A w \in Workers : worker[w].job # j
  BY <1>1, ConstantsAssumption DEF IInv, PlaceStatus
<1>3. CASE StartUpload(j)
  BY <1>1, <1>2, <1>3, Types DEF IInv, StartUpload, Disk, CleansGone, OnDisk, Gone
<1>4. CASE FinishUpload(j)
  BY <1>1, <1>2, <1>4, Types DEF IInv, FinishUpload, Disk, CleansGone, OnDisk, Gone
<1>5. CASE FailUpload(j)
  BY <1>1, <1>2, <1>5, Types DEF IInv, FailUpload, Disk, CleansGone, OnDisk, Gone
<1>6. CASE SaveRequest(j)
  BY <1>1, <1>2, <1>6, Types DEF IInv, SaveRequest, Disk, CleansGone, OnDisk, Gone
<1>7. CASE InsertQueued(j)
  BY <1>1, <1>2, <1>7, Types DEF IInv, InsertQueued, Disk, CleansGone, OnDisk, Gone
<1>8. CASE Send(j)
  <2>1. create[j] = "sending" /\ status[j] = "queued"
    BY <1>8 DEF IInv, PlaceStatus, Send
  <2>2. /\ create' \in {[create EXCEPT ![j] = "accepted"], [create EXCEPT ![j] = "removing"]}
        /\ status' \in {status, [status EXCEPT ![j] = "none"]}
        /\ UNCHANGED <<expired, dir, files, worker, cleaner, todo, deleted>>
    BY <1>8 DEF Send
  <2>3. /\ create'[j] \in {"accepted", "removing"} /\ status'[j] \in {"queued", "none"}
        /\ \A k \in Jobs \ {j} : create'[k] = create[k] /\ status'[k] = status[k]
    BY <2>1, <2>2, Types
  <2>4. CleansGone'
    <3>1. ~Gone(j) /\ \A k \in Jobs \ {j} : Gone(k)' <=> Gone(k)
      BY <2>1, <2>2, <2>3 DEF Gone
    <3>2. \A k \in todo : create'[k] # "none"
      BY <2>2, <2>3, Types DEF IInv, CleansGone, TypeOK
    <3> QED
      BY <2>2, <3>1, <3>2 DEF IInv, CleansGone
  <2>5. OnDisk'
    BY <1>2, <2>1, <2>2, <2>3, Types DEF IInv, OnDisk
  <2> QED
    BY <2>4, <2>5 DEF Disk
<1>9. CASE RemoveRefused(j)
  <2>1. /\ create[j] = "removing" /\ create' = [create EXCEPT ![j] = "refused"]
        /\ UNCHANGED <<status, expired, worker, cleaner, todo, deleted>>
        /\ RemoveDir(j) \/ RemovePart(j)
    BY <1>9 DEF RemoveRefused
  <2>2. /\ \A k \in Jobs \ {j} : dir'[k] = dir[k] /\ files'[k] = files[k] /\ create'[k] = create[k]
        /\ create'[j] = "refused" /\ status[j] = "none"
    BY <2>1, Removal, Types DEF IInv, PlaceStatus
  <2>3. CleansGone'
    <3>1. \A k \in Jobs : Gone(k)' <=> Gone(k)
      BY <2>1, <2>2 DEF Gone
    <3>2. Gone(j)
      BY <2>1, <2>2 DEF Gone
    <3>3. \A k \in todo : create'[k] # "none"
      BY <2>1, <2>2, Types DEF IInv, CleansGone, TypeOK
    <3>4. cleaner.pc = "stat" => dir'[cleaner.job] = "fresh" \/ Gone(cleaner.job)
      BY <2>2, <3>2 DEF IInv, CleansGone
    <3> QED
      BY <2>1, <3>1, <3>3, <3>4 DEF IInv, CleansGone
  <2>4. OnDisk'
    BY <1>2, <2>1, <2>2 DEF IInv, OnDisk
  <2> QED
    BY <2>3, <2>4 DEF Disk
<1>10. CASE DropHandler(j)
  BY <1>1, <1>2, <1>10, Types DEF IInv, DropHandler, Disk, CleansGone, OnDisk, Gone
<1> QED
  BY <1>3, <1>4, <1>5, <1>6, <1>7, <1>8, <1>9, <1>10 DEF HandlerStep

\* A worker's job is not gone, and the worker only adds to its directory.
LEMMA WorkerDisk ==
  ASSUME IInv, NEW w \in Workers, WorkerStep(w)
  PROVE  Disk'
<1> USE DEF Inside, Over, Active, Finished, WriteFile, Move, Idle,
            mapVars, diskVars, cleanerVars, WorkerPoints, Job, At
<1>1. CASE Receive(w) \/ AcquirePermit(w) \/ OpenInput(w)
  <2>1. /\ UNCHANGED <<status, expired, dir, files, create, cleaner, todo, deleted>>
        /\ \A v \in Workers : At(v, "finishing")' => worker'[v] = worker[v]
    BY <1>1, Types DEF Receive, AcquirePermit, OpenInput
  <2> QED
    BY <2>1 DEF IInv, Disk, CleansGone, OnDisk, Gone
<1>2. CASE Begin(w)
  <2>1. worker[w].job \in Jobs /\ status[worker[w].job] = "queued"
    BY <1>2, Types DEF IInv, Begin, OnePlace, PlaceStatus
  <2>2. /\ status' = [status EXCEPT ![worker[w].job] = "running"]
        /\ worker' = [worker EXCEPT ![w].pc = "acquire"]
        /\ UNCHANGED <<expired, dir, files, create, cleaner, todo, deleted>>
    BY <1>2, <2>1 DEF Begin
  <2>3. /\ status'[worker[w].job] = "running"
        /\ \A k \in Jobs \ {worker[w].job} : status'[k] = status[k]
        /\ \A v \in Workers : At(v, "finishing")' => worker'[v] = worker[v]
    BY <2>1, <2>2, Types
  <2>4. CleansGone'
    BY <2>1, <2>2, <2>3, Types DEF IInv, CleansGone, Gone
  <2>5. OnDisk'
    BY <2>1, <2>2, <2>3, Types DEF IInv, OnDisk
  <2> QED
    BY <2>4, <2>5 DEF Disk
<1>3. CASE Transcribed(w)
  <2>1. /\ UNCHANGED <<status, expired, dir, files, create, cleaner, todo, deleted>>
        /\ \A v \in Workers : At(v, "finishing")' => worker'[v] = worker[v]
    BY <1>3, Types DEF Transcribed
  <2> QED
    BY <2>1 DEF IInv, Disk, CleansGone, OnDisk, Gone
<1>4. CASE SaveResult(w)
  <2> DEFINE k == worker[w].job
  <2>1. k \in Jobs /\ create[k] = "accepted" /\ status[k] = "running"
    BY <1>4, Types DEF IInv, SaveResult, OnePlace, PlaceStatus
  <2>2. UNCHANGED <<status, expired, create, cleaner, todo, deleted>>
    BY <1>4 DEF SaveResult
  <2>3. CASE worker' = [worker EXCEPT ![w].pc = "finishing"] /\ WriteFile(k, "result")
    <3>1. /\ dir'[k] = "fresh" /\ files'[k] = files[k] \union {"result"}
          /\ \A j \in Jobs \ {k} : dir'[j] = dir[j] /\ files'[j] = files[j]
          /\ \A v \in Workers : worker'[v].job = worker[v].job
          /\ \A v \in Workers \ {w} : worker'[v] = worker[v]
      BY <2>1, <2>3, Types
    <3>2. CleansGone'
      BY <2>1, <2>2, <3>1, Types DEF IInv, CleansGone, Gone
    <3>3. OnDisk'
      BY <2>1, <2>2, <3>1, Types DEF IInv, OnDisk
    <3> QED
      BY <3>2, <3>3 DEF Disk
  <2>4. CASE worker' = [worker EXCEPT ![w].pc = "failed"] /\ UNCHANGED <<dir, files>>
    <3>1. \A v \in Workers : At(v, "finishing")' => worker'[v] = worker[v]
      BY <2>4, Types
    <3> QED
      BY <3>1, <2>2, <2>4 DEF IInv, Disk, CleansGone, OnDisk, Gone
  <2> QED
    BY <1>4, <2>3, <2>4 DEF SaveResult
<1>5. CASE MarkDone(w) \/ MarkError(w)
  <2> DEFINE k == worker[w].job
  <2>1. k \in Jobs /\ status[k] = "running"
    BY <1>5, Types DEF IInv, MarkDone, MarkError, OnePlace, PlaceStatus
  <2>2. /\ worker' = [worker EXCEPT ![w] = Idle]
        /\ \/ At(w, "finishing") /\ status' = [status EXCEPT ![k] = "done"]
           \/ status' = [status EXCEPT ![k] = "error"]
        /\ UNCHANGED <<expired, dir, files, create, cleaner, todo, deleted>>
    BY <1>5, <2>1 DEF MarkDone, MarkError
  <2>3. /\ status'[k] \in Finished /\ (status'[k] = "done" => At(w, "finishing"))
        /\ \A j \in Jobs \ {k} : status'[j] = status[j]
        /\ \A v \in Workers : At(v, "finishing")' => worker'[v] = worker[v]
    BY <2>1, <2>2, Types
  <2>4. CleansGone'
    BY <2>1, <2>2, <2>3, Types DEF IInv, CleansGone, Gone
  <2>5. OnDisk'
    BY <2>1, <2>2, <2>3, Types DEF IInv, OnDisk
  <2> QED
    BY <2>4, <2>5 DEF Disk
<1> QED
  BY <1>1, <1>2, <1>3, <1>4, <1>5 DEF WorkerStep

\* The cleanup takes aim only at what is gone, and what it removes was gone.
LEMMA CleanerDisk ==
  ASSUME IInv, CleanerStep
  PROVE  Disk'
<1> USE DEF Clean, mapVars, diskVars, CleanerPoints
<1>1. CASE StartPass
  <2>1. /\ UNCHANGED <<status, expired, dir, files, create, worker>>
        /\ cleaner' = [pc |-> "scan", job |-> NoJob]
        /\ todo' = {j \in Jobs : dir[j] # "absent"}
    BY <1>1 DEF StartPass
  <2> QED
    BY <2>1 DEF IInv, Disk, CleansGone, OnDisk, Gone, Job, At
<1>2. CASE EndPass
  <2>1. UNCHANGED <<status, expired, dir, files, create, worker>> /\ cleaner' = Idle /\ todo' = {}
    BY <1>2 DEF EndPass
  <2> QED
    BY <2>1 DEF IInv, Disk, CleansGone, OnDisk, Gone, Job, At, Idle
<1>3. ASSUME NEW j \in Jobs, CheckEntry(j)
      PROVE  Disk'
  <2>1. /\ UNCHANGED <<status, expired, dir, files, create, worker, deleted>>
        /\ todo' = todo \ {j} /\ deleted < MaxDelete /\ j \in todo /\ cleaner.pc = "scan"
        /\ \/ status[j] = "none" /\ cleaner' = [pc |-> "stat", job |-> j]
           \/ /\ status[j] \in Finished /\ j \in expired
              /\ cleaner' = [pc |-> "remove", job |-> j]
           \/ cleaner' = cleaner
    BY <1>3 DEF CheckEntry
  <2>2. create[j] \in CreatePoints /\ create[j] # "none"
    BY <2>1, Types DEF IInv, CleansGone
  <2>3. status[j] = "none" => Gone(j) \/ dir[j] = "fresh"
    BY <2>2 DEF IInv, OnDisk, Gone, Inside, Over, CreatePoints
  <2>4. status[j] \in Finished /\ j \in expired => Gone(j)
    BY <2>2 DEF IInv, PlaceStatus, Gone, Over, Finished
  <2>5. Gone(j)' <=> Gone(j)
    BY <2>1 DEF Gone
  <2>6. CleansGone'
    BY <2>1, <2>3, <2>4, <2>5 DEF IInv, CleansGone
  <2> QED
    BY <2>1, <2>6 DEF IInv, Disk, OnDisk, Job, At
<1>4. CASE StatEntry
  <2>1. /\ UNCHANGED <<status, expired, dir, files, create, worker, todo, deleted>>
        /\ cleaner.pc = "stat"
        /\ \/ dir[cleaner.job] = "stale" /\ cleaner' = [pc |-> "remove", job |-> cleaner.job]
           \/ cleaner' = [pc |-> "scan", job |-> NoJob]
    BY <1>4 DEF StatEntry
  <2> QED
    BY <2>1 DEF IInv, Disk, CleansGone, OnDisk, Gone, Job, At
<1>5. CASE RemoveEntry
  <2> PICK k \in Jobs : k = cleaner.job
    BY <1>5 DEF RemoveEntry, IInv, CleansGone
  <2>1. /\ UNCHANGED <<status, expired, create, worker, todo, deleted>>
        /\ cleaner.pc = "remove" /\ deleted < MaxDelete
        /\ cleaner' \in {[pc |-> "forget", job |-> k], [pc |-> "scan", job |-> NoJob]}
        /\ RemoveDir(k) \/ (dir[k] # "absent" /\ RemovePart(k)) \/ UNCHANGED <<dir, files>>
    BY <1>5 DEF RemoveEntry, IInv, CleansGone
  <2>2. Gone(k) /\ Gone(k)'
    BY <2>1 DEF IInv, CleansGone, Gone
  <2>3. CleansGone'
    BY <2>1, <2>2 DEF IInv, CleansGone
  <2>4. \A j \in Jobs \ {k} : dir'[j] = dir[j] /\ files'[j] = files[j]
    BY <2>1, Types DEF RemoveDir, RemovePart
  <2>5. dir[k] = "absent" => dir'[k] = "absent"
    BY <2>1, Types DEF RemoveDir, RemovePart
  <2>6. /\ create[k] \notin Inside /\ status[k] \notin Active
        /\ status[k] = "done" => k \in expired
        /\ \A w \in Workers : Job(w) # k
    BY <2>1, <2>2, ConstantsAssumption
       DEF IInv, PlaceStatus, Gone, Over, Inside, Active, Finished
  <2>7. OnDisk'
    BY <2>1, <2>4, <2>5, <2>6 DEF IInv, OnDisk, Job, At
  <2> QED
    BY <2>3, <2>7 DEF Disk
<1>6. CASE ForgetEntry
  <2> DEFINE k == cleaner.job
  <2>1. /\ UNCHANGED <<dir, files, create, worker, todo>>
        /\ status' = [status EXCEPT ![k] = "none"] /\ expired' = expired \ {k}
        /\ cleaner' = [pc |-> "scan", job |-> NoJob] /\ k \in Jobs
    BY <1>6 DEF ForgetEntry, IInv, CleansGone
  <2>2. \A j \in Jobs : status'[j] = IF j = k THEN "none" ELSE status[j]
    BY <2>1, Types
  <2>3. CleansGone'
    BY <2>1 DEF IInv, CleansGone
  <2>4. OnDisk'
    BY <2>1, <2>2 DEF IInv, OnDisk, Active, Job, At
  <2> QED
    BY <2>3, <2>4 DEF Disk
<1> QED
  BY <1>1, <1>2, <1>3, <1>4, <1>5, <1>6 DEF CleanerStep

\* A job that is gone is in nobody's hands when the map forgets it.
LEMMA ForgetHands ==
  ASSUME IInv, ForgetEntry
  PROVE  Hands'
<1> DEFINE k == cleaner.job
<1>1. /\ UNCHANGED <<queue, create, worker>> /\ k \in Jobs /\ Gone(k)
      /\ status' = [status EXCEPT ![k] = "none"]
  BY DEF ForgetEntry, IInv, CleansGone
<1>2. \A j \in Jobs : status'[j] = IF j = k THEN "none" ELSE status[j]
  BY <1>1, Types
<1>3. /\ create[k] # "sending" /\ status[k] \notin Active
      /\ \A w \in Workers : Job(w) # k
      /\ \A i \in 1..Len(queue) : queue[i] # k
  BY <1>1, ConstantsAssumption DEF IInv, PlaceStatus, Gone, Over, Active, Finished
<1>4. OnePlace'
  BY <1>1 DEF IInv, OnePlace, Job
<1>5. PlaceStatus'
  BY <1>1, <1>2, <1>3, Types DEF IInv, PlaceStatus, Job, At
<1>6. StatusPlace'
  BY <1>1, <1>2, <1>3 DEF IInv, StatusPlace, Job, At
<1> QED
  BY <1>4, <1>5, <1>6 DEF Hands

-----------------------------------------------------------------------------
(* Types                                                                    *)

LEMMA HandlerTypes ==
  ASSUME IInv, NEW j \in Jobs,
         StartUpload(j) \/ HandlerStep(j) \/ DropHandler(j)
  PROVE  TypeOK'
<1> USE DEF Handler, WriteFile, RemoveDir, mapVars, diskVars, cleanerVars
<1>1. CASE Send(j)
  <2>1. status' \in [Jobs -> Statuses] /\ create' \in [Jobs -> CreatePoints]
    BY <1>1, Types DEF Send, Statuses, CreatePoints
  <2>2. queue' \in Seq(Jobs) /\ Len(queue') <= QueueCap
    <3>1. QueueCap \in Nat /\ Len(queue) <= QueueCap
      BY ConstantsAssumption DEF IInv, TypeOK
    <3>2. CASE Len(queue) < QueueCap /\ queue' = Append(queue, j)
      BY <3>1, <3>2, Types
    <3>3. CASE queue' = queue
      BY <3>1, <3>3, Types
    <3> QED
      BY <1>1, <3>2, <3>3 DEF Send
  <2> QED
    BY <1>1, <2>1, <2>2 DEF Send, IInv, TypeOK, CreatePoints
<1>2. CASE StartUpload(j) \/ SaveRequest(j) \/ RemoveRefused(j)
  <2>1. create' \in [Jobs -> CreatePoints]
    BY <1>2, Types DEF StartUpload, SaveRequest, RemoveRefused, CreatePoints
  <2>2. /\ dir' \in [Jobs -> {"absent", "fresh", "stale"}]
        /\ files' \in [Jobs -> SUBSET {"input", "request", "result"}]
    BY <1>2, Types, Removal DEF StartUpload, SaveRequest, RemoveRefused
  <2> QED
    BY <1>2, <2>1, <2>2 DEF StartUpload, SaveRequest, RemoveRefused, IInv, TypeOK, CreatePoints
<1>3. CASE FinishUpload(j) \/ FailUpload(j) \/ InsertQueued(j) \/ DropHandler(j)
  <2>1. status' \in [Jobs -> Statuses] /\ create' \in [Jobs -> CreatePoints]
    BY <1>3, Types DEF FinishUpload, FailUpload, InsertQueued, DropHandler, Statuses, CreatePoints
  <2> QED
    BY <1>3, <2>1 DEF FinishUpload, FailUpload, InsertQueued, DropHandler,
                     IInv, TypeOK, CreatePoints
<1> QED
  BY <1>1, <1>2, <1>3 DEF HandlerStep

LEMMA WorkerTypes ==
  ASSUME IInv, NEW w \in Workers, WorkerStep(w)
  PROVE  TypeOK'
<1> USE DEF Move, WriteFile, mapVars, diskVars, cleanerVars
<1> USE DEF WorkerPoints, Statuses
<1>1. CASE Receive(w)
  <2>1. queue' \in Seq(Jobs) /\ Len(queue') <= QueueCap /\ Head(queue) \in Jobs
    BY <1>1, Types, ConstantsAssumption DEF Receive, IInv, TypeOK
  <2>2. worker' \in [Workers -> [pc : WorkerPoints, job : Jobs \union {NoJob}]]
    BY <1>1, <2>1, Types DEF Receive
  <2> QED
    BY <1>1, <2>1, <2>2 DEF Receive, IInv, TypeOK
<1>2. CASE Begin(w)
  <2>1. /\ worker' \in [Workers -> [pc : WorkerPoints, job : Jobs \union {NoJob}]]
        /\ status' \in [Jobs -> Statuses]
    BY <1>2, Types DEF Begin
  <2> QED
    BY <1>2, <2>1 DEF Begin, IInv, TypeOK
<1>3. CASE AcquirePermit(w) \/ OpenInput(w) \/ Transcribed(w)
  <2>1. worker' \in [Workers -> [pc : WorkerPoints, job : Jobs \union {NoJob}]]
    BY <1>3, Types DEF AcquirePermit, OpenInput, Transcribed
  <2> QED
    BY <1>3, <2>1 DEF AcquirePermit, OpenInput, Transcribed, IInv, TypeOK
<1>4. CASE SaveResult(w)
  <2>1. worker' \in [Workers -> [pc : WorkerPoints, job : Jobs \union {NoJob}]]
    <3>1. \/ worker' = [worker EXCEPT ![w].pc = "finishing"]
          \/ worker' = [worker EXCEPT ![w].pc = "failed"]
      BY <1>4 DEF SaveResult
    <3> QED
      BY <3>1, Types
  <2>2. /\ dir' \in [Jobs -> {"absent", "fresh", "stale"}]
        /\ files' \in [Jobs -> SUBSET {"input", "request", "result"}]
    BY <1>4, Types DEF SaveResult
  <2> QED
    BY <1>4, <2>1, <2>2 DEF SaveResult, IInv, TypeOK
<1>5. CASE MarkDone(w) \/ MarkError(w)
  <2>1. worker' \in [Workers -> [pc : WorkerPoints, job : Jobs \union {NoJob}]]
    <3>1. worker' = [worker EXCEPT ![w] = Idle]
      BY <1>5 DEF MarkDone, MarkError
    <3> QED
      BY <3>1, Types DEF Idle
  <2>2. status' \in [Jobs -> Statuses]
    BY <1>5, Types DEF MarkDone, MarkError
  <2> QED
    BY <1>5, <2>1, <2>2 DEF MarkDone, MarkError, IInv, TypeOK
<1> QED
  BY <1>1, <1>2, <1>3, <1>4, <1>5 DEF WorkerStep

LEMMA CleanerTypes ==
  ASSUME IInv, CleanerStep
  PROVE  TypeOK'
<1> USE ConstantsAssumption DEF Clean, Idle, mapVars, diskVars, cleanerVars
<1>1. CASE StartPass
  BY <1>1 DEF StartPass, IInv, TypeOK
<1>2. CASE EndPass
  BY <1>2 DEF EndPass, IInv, TypeOK
<1>3. ASSUME NEW j \in Jobs, CheckEntry(j)
      PROVE  TypeOK'
  BY <1>3 DEF CheckEntry, IInv, TypeOK
<1>4. CASE StatEntry
  BY <1>4 DEF StatEntry, IInv, TypeOK
<1>5. CASE RemoveEntry
  <2>1. /\ dir' \in [Jobs -> {"absent", "fresh", "stale"}]
        /\ files' \in [Jobs -> SUBSET {"input", "request", "result"}]
    BY <1>5, Types DEF RemoveEntry, RemoveDir, RemovePart, IInv, CleansGone
  <2> QED
    BY <1>5, <2>1 DEF RemoveEntry, IInv, TypeOK
<1>6. CASE ForgetEntry
  <2>1. deleted + 1 \in 0..MaxDelete
    BY <1>6 DEF ForgetEntry, IInv, TypeOK, CleansGone
  <2>2. status' \in [Jobs -> Statuses]
    BY <1>6, Types DEF ForgetEntry, Statuses
  <2> QED
    BY <1>6, <2>1, <2>2 DEF ForgetEntry, IInv, TypeOK
<1> QED
  BY <1>1, <1>2, <1>3, <1>4, <1>5, <1>6 DEF CleanerStep

-----------------------------------------------------------------------------
(* Every step                                                               *)

LEMMA HandlerKeeps ==
  ASSUME IInv, NEW j \in Jobs,
         StartUpload(j) \/ HandlerStep(j) \/ DropHandler(j)
  PROVE  IInv'
<1>1. ASSUME InsertQueued(j) PROVE Hands'
  BY <1>1, InsertHands DEF Hands
<1>2. ASSUME Send(j) PROVE Hands'
  BY <1>2, SendHands DEF Hands
<1>3. ASSUME \/ StartUpload(j) \/ FinishUpload(j) \/ FailUpload(j) \/ SaveRequest(j)
             \/ RemoveRefused(j) \/ DropHandler(j)
      PROVE  Hands'
  <2>1. /\ create[j] \notin {"sending", "accepted"}
        /\ \E to \in CreatePoints \ {"sending", "accepted"} : create' = [create EXCEPT ![j] = to]
        /\ UNCHANGED <<status, queue, worker>>
    BY <1>3 DEF StartUpload, FinishUpload, FailUpload, SaveRequest, RemoveRefused,
                DropHandler, Handler, CreatePoints, mapVars
  <2> QED
    BY <2>1, HandlerHands DEF Hands
<1>4. Hands'
  BY <1>1, <1>2, <1>3 DEF HandlerStep, Hands
<1> QED
  BY <1>4, HandlerTypes, HandlerDisk DEF IInv, Hands, Disk

LEMMA WorkerKeeps ==
  ASSUME IInv, NEW w \in Workers, WorkerStep(w)
  PROVE  IInv'
<1> USE DEF mapVars
<1>1. ASSUME Receive(w) PROVE Hands'
  BY <1>1, ReceiveHands
<1>2. ASSUME Begin(w) PROVE Hands'
  <2>1. Job(w) # NoJob /\ status[Job(w)] = "queued"
    BY <1>2 DEF IInv, Begin, OnePlace, PlaceStatus, At, Job
  <2>2. /\ Move(w, "acquire") /\ status' = [status EXCEPT ![Job(w)] = "running"]
        /\ UNCHANGED <<queue, create>>
    BY <1>2, <2>1 DEF Begin
  <2> QED
    BY <2>1, <2>2, MoveHands DEF WorkerPoints
<1>3. ASSUME AcquirePermit(w) \/ OpenInput(w) \/ Transcribed(w) \/ SaveResult(w) PROVE Hands'
  <2>1. /\ Job(w) # NoJob /\ status[Job(w)] = "running"
        /\ status' = status /\ UNCHANGED <<queue, create>>
        /\ \E to \in WorkerPoints \ {"idle", "begin"} : Move(w, to)
    BY <1>3 DEF IInv, AcquirePermit, OpenInput, Transcribed, SaveResult,
                OnePlace, PlaceStatus, At, Job, WorkerPoints
  <2>2. status' = [status EXCEPT ![Job(w)] = "running"]
    BY <2>1, Types
  <2> QED
    BY <2>1, <2>2, MoveHands
<1>4. ASSUME MarkDone(w) \/ MarkError(w) PROVE Hands'
  <2>1. Job(w) # NoJob /\ ~At(w, "begin") /\ status[Job(w)] = "running"
    BY <1>4 DEF IInv, MarkDone, MarkError, OnePlace, PlaceStatus, At, Job
  <2>2. /\ worker' = [worker EXCEPT ![w] = Idle] /\ UNCHANGED <<queue, create>>
        /\ \E to \in Finished : status' = [status EXCEPT ![Job(w)] = to]
    BY <1>4, <2>1 DEF MarkDone, MarkError, Finished
  <2> QED
    BY <2>1, <2>2, EndHands
<1>5. Hands'
  BY <1>1, <1>2, <1>3, <1>4 DEF WorkerStep
<1> QED
  BY <1>5, WorkerTypes, WorkerDisk DEF IInv, Hands, Disk

LEMMA CleanerKeeps ==
  ASSUME IInv, CleanerStep
  PROVE  IInv'
<1>1. ASSUME ForgetEntry PROVE Hands'
  BY <1>1, ForgetHands
<1>2. ASSUME ~ForgetEntry PROVE Hands'
  <2>1. UNCHANGED <<status, queue, create, worker>>
    BY <1>2 DEF CleanerStep, StartPass, EndPass, CheckEntry, StatEntry, RemoveEntry, mapVars
  <2> QED
    BY <2>1, SameHands
<1>3. Hands'
  BY <1>1, <1>2
<1> QED
  BY <1>3, CleanerTypes, CleanerDisk DEF IInv, Hands, Disk

\* A directory does not turn old while its handler writes it.
LEMMA TimeKeeps ==
  ASSUME IInv, ~SlowUploads, NEW j \in Jobs, AgeDir(j) \/ AgeJob(j)
  PROVE  IInv'
<1>1. UNCHANGED <<status, queue, files, create, worker, cleaner, todo, deleted, restarts>>
  BY DEF AgeDir, AgeJob, mapVars, diskVars, cleanerVars
<1>2. Hands'
  BY <1>1, SameHands
<1>3. CASE AgeDir(j)
  <2>1. /\ dir' = [dir EXCEPT ![j] = "stale"] /\ dir[j] = "fresh" /\ expired' = expired
        /\ cleaner.pc = "idle" /\ create[j] \notin Inside
    BY <1>3 DEF AgeDir, InHandler, Inside, mapVars
  <2>2. \A k \in Jobs : dir'[k] = IF k = j THEN "stale" ELSE dir[k]
    BY <2>1, Types
  <2>3. TypeOK'
    BY <1>1, <2>1, Types DEF IInv, TypeOK
  <2>4. CleansGone'
    BY <1>1, <2>1 DEF IInv, CleansGone
  <2>5. OnDisk'
    BY <1>1, <2>1, <2>2 DEF IInv, OnDisk, Job, At
  <2> QED
    BY <1>2, <2>3, <2>4, <2>5 DEF IInv, Hands
<1>4. CASE AgeJob(j)
  <2>1. dir' = dir /\ expired' = expired \union {j}
    BY <1>4 DEF AgeJob, diskVars
  <2>2. TypeOK' /\ CleansGone' /\ OnDisk'
    BY <1>1, <2>1 DEF IInv, TypeOK, CleansGone, Gone, OnDisk, Job, At
  <2> QED
    BY <1>2, <2>2 DEF IInv, Hands
<1> QED
  BY <1>3, <1>4

\* After a restart nobody has a job, and the directories are those of jobs
\* whose handlers died.
LEMMA RestartKeeps ==
  ASSUME IInv, Restart
  PROVE  IInv'
<1>1. /\ status' = [j \in Jobs |-> "none"] /\ expired' = {} /\ queue' = << >>
      /\ create' = [j \in Jobs |-> IF create[j] = "none" THEN "none" ELSE "dropped"]
      /\ worker' = [w \in Workers |-> Idle]
      /\ cleaner' = Idle /\ todo' = {} /\ deleted' = 0
      /\ restarts' = restarts + 1 /\ restarts < MaxRestarts
      /\ UNCHANGED <<dir, files>>
  BY DEF Restart, diskVars
<1>2. TypeOK'
  BY <1>1, ConstantsAssumption DEF IInv, TypeOK, Idle, Statuses
<1>3. OnePlace' /\ PlaceStatus' /\ StatusPlace'
  BY <1>1 DEF OnePlace, PlaceStatus, StatusPlace, Idle, Job, At
<1>4. CleansGone' /\ OnDisk'
  BY <1>1 DEF IInv, CleansGone, OnDisk, Idle, Inside, Active, Job, At
<1> QED
  BY <1>2, <1>3, <1>4 DEF IInv

LEMMA NextIInv ==
  ASSUME ~SlowUploads
  PROVE  IInv /\ [Next]_vars => IInv'
<1> SUFFICES ASSUME IInv, [Next]_vars PROVE IInv'
  OBVIOUS
<1>1. CASE UNCHANGED vars
  BY <1>1 DEF vars, IInv, TypeOK, OnePlace, PlaceStatus, StatusPlace, CleansGone,
              OnDisk, Gone, Job, At
<1>2. CASE Next
  BY <1>2, HandlerKeeps, WorkerKeeps, CleanerKeeps, TimeKeeps, RestartKeeps DEF Next
<1> QED
  BY <1>1, <1>2

LEMMA IInvHolds ==
  ASSUME ~SlowUploads
  PROVE  Spec => []IInv
BY InitIInv, NextIInv, PTL DEF Spec

-----------------------------------------------------------------------------
(* The theorems                                                             *)

\* Every variable of the job pipeline stays in its range, and the queue within
\* the channel's capacity.
THEOREM TypesHold ==
  ASSUME ~SlowUploads
  PROVE  Spec => []TypeOK
<1>1. IInv => TypeOK
  BY DEF IInv
<1> QED
  BY <1>1, IInvHolds, PTL

\* No step of a handler, a worker, the cleanup or a restart ever leaves a job
\* in two hands or an active job in none: process_job runs once for each job.
THEOREM JobsHaveOneHolder ==
  ASSUME ~SlowUploads
  PROVE  Spec => []OneHolder
<1>1. ASSUME IInv PROVE OneHolder
  <2> SUFFICES ASSUME NEW j \in Jobs
               PROVE  /\ status[j] = "queued" =>
                           (IF create[j] = "sending" THEN 1 ELSE 0)
                             + Cardinality(Waiting(j)) + Cardinality(On(j, {"begin"})) = 1
                      /\ status[j] = "running" =>
                           Cardinality(On(j, Processing \union {"failed"})) = 1
                      /\ status[j] \in Finished \union {"none"} => On(j, Processing) = {}
    BY DEF OneHolder
  <2> USE <1>1, ConstantsAssumption DEF IInv, Job, At, On, Waiting
  <2>1. ASSUME status[j] = "queued", create[j] = "sending"
        PROVE  Waiting(j) = {} /\ On(j, {"begin"}) = {}
    BY <2>1 DEF PlaceStatus
  <2>2. ASSUME status[j] = "queued", create[j] # "sending"
        PROVE  \/ \E i : Waiting(j) = {i} /\ On(j, {"begin"}) = {}
               \/ \E w : Waiting(j) = {} /\ On(j, {"begin"}) = {w}
    <3>1. ASSUME NEW i \in 1..Len(queue), queue[i] = j
          PROVE  Waiting(j) = {i} /\ On(j, {"begin"}) = {}
      BY <3>1 DEF OnePlace
    <3>2. ASSUME NEW w \in Workers, Job(w) = j, At(w, "begin")
          PROVE  Waiting(j) = {} /\ On(j, {"begin"}) = {w}
      BY <3>2 DEF OnePlace
    <3>3. \/ \E i \in 1..Len(queue) : queue[i] = j
          \/ \E w \in Workers : Job(w) = j /\ At(w, "begin")
      BY <2>2 DEF StatusPlace
    <3>4. CASE \E i \in 1..Len(queue) : queue[i] = j
      BY <3>1, <3>4
    <3>5. CASE \E w \in Workers : Job(w) = j /\ At(w, "begin")
      BY <3>2, <3>5
    <3> QED
      BY <3>3, <3>4, <3>5
  <2>3. ASSUME status[j] = "running"
        PROVE  \E w : On(j, Processing \union {"failed"}) = {w}
    <3>1. PICK w \in Workers : Job(w) = j /\ ~At(w, "begin")
      BY <2>3 DEF StatusPlace
    <3>2. worker[w].pc \in Processing \union {"failed"}
      BY <3>1, Types DEF OnePlace, Processing, WorkerPoints
    <3>3. On(j, Processing \union {"failed"}) = {w}
      BY <3>1, <3>2 DEF OnePlace
    <3> QED
      BY <3>3
  <2>4. ASSUME status[j] \in Finished \union {"none"}
        PROVE  On(j, Processing) = {}
    BY <2>4 DEF PlaceStatus, Finished
  <2>5. Cardinality({}) = 0 /\ \A x : Cardinality({x}) = 1
    BY FS_EmptySet, FS_Singleton
  <2> HIDE DEF On, Waiting
  <2>6. ASSUME status[j] = "queued"
        PROVE  (IF create[j] = "sending" THEN 1 ELSE 0)
                 + Cardinality(Waiting(j)) + Cardinality(On(j, {"begin"})) = 1
    <3>1. CASE create[j] = "sending"
      BY <2>1, <2>5, <2>6, <3>1
    <3>2. CASE create[j] # "sending"
      <4>1. \/ Cardinality(Waiting(j)) = 1 /\ Cardinality(On(j, {"begin"})) = 0
            \/ Cardinality(Waiting(j)) = 0 /\ Cardinality(On(j, {"begin"})) = 1
        BY <2>2, <2>5, <2>6, <3>2
      <4> QED
        BY <3>2, <4>1
    <3> QED
      BY <3>1, <3>2
  <2> QED
    BY <2>3, <2>4, <2>5, <2>6
<1> QED
  BY <1>1, IInvHolds, PTL

\* A queued or running job has its directory and the uploaded input in it,
\* whatever the cleanup does.
THEOREM ActiveJobsKeepInput ==
  ASSUME ~SlowUploads
  PROVE  Spec => []ActiveKeepsInput
<1>1. IInv => ActiveKeepsInput
  BY DEF IInv, OnDisk, ActiveKeepsInput
<1> QED
  BY <1>1, IInvHolds, PTL

\* A done job has its result.json until the retention has passed.
THEOREM DoneJobsHaveResults ==
  ASSUME ~SlowUploads
  PROVE  Spec => []DoneHasResult
<1>1. IInv => DoneHasResult
  BY DEF IInv, OnDisk, DoneHasResult
<1> QED
  BY <1>1, IInvHolds, PTL

\* The statuses the next step may give a job; one the map has forgotten is not
\* followed any further.
Successors ==
  [none |-> {"queued"}, queued |-> {"running", "none"}, running |-> {"done", "error"},
   done |-> {"none"}, error |-> {"none"}]

\* How each step that writes the map changes the status of a job.
LEMMA StatusSteps ==
  ASSUME IInv, Next, NEW j \in Jobs, status'[j] # status[j]
  PROVE  \/ /\ status'[j] \in Successors[status[j]]
            /\ status[j] \in Active /\ status'[j] = "none" => create[j] = "sending"
         \/ restarts' # restarts
<1> USE DEF Successors, mapVars, Active
<1>1. ASSUME NEW k \in Jobs, InsertQueued(k)
      PROVE  status[j] = "none" /\ status'[j] = "queued"
  BY <1>1, Types DEF InsertQueued, Handler, IInv, PlaceStatus
<1>2. ASSUME NEW k \in Jobs, Send(k)
      PROVE  status[j] = "queued" /\ status'[j] = "none" /\ create[j] = "sending"
  BY <1>2, Types DEF Send, Handler, IInv, PlaceStatus
<1>3. ASSUME NEW w \in Workers, Begin(w)
      PROVE  status[j] = "queued" /\ status'[j] = "running"
  BY <1>3, Types DEF Begin, IInv, OnePlace, PlaceStatus, At, Job
<1>4. ASSUME NEW w \in Workers, MarkDone(w) \/ MarkError(w)
      PROVE  status[j] = "running" /\ status'[j] \in {"done", "error"}
  BY <1>4, Types DEF MarkDone, MarkError, IInv, OnePlace, PlaceStatus, At, Job
<1>5. ASSUME ForgetEntry
      PROVE  status[j] \in Finished /\ status'[j] = "none"
  BY <1>5, Types DEF ForgetEntry, IInv, CleansGone, Gone
<1>6. ASSUME Restart
      PROVE  restarts' # restarts
  BY <1>6 DEF Restart, IInv, TypeOK
<1>7. \/ \E k \in Jobs : InsertQueued(k) \/ Send(k)
      \/ \E w \in Workers : Begin(w) \/ MarkDone(w) \/ MarkError(w)
      \/ ForgetEntry \/ Restart
  BY DEF Next, StartUpload, HandlerStep, FinishUpload, FailUpload, SaveRequest, RemoveRefused,
         DropHandler, WorkerStep, Receive, AcquirePermit, OpenInput, Transcribed, SaveResult,
         CleanerStep, StartPass, EndPass, CheckEntry, StatEntry, RemoveEntry, AgeDir, AgeJob
<1> QED
  BY <1>1, <1>2, <1>3, <1>4, <1>5, <1>6, <1>7 DEF Finished

\* The steps that delete a directory.
LEMMA DirSteps ==
  ASSUME IInv, Next, NEW j \in Jobs, dir[j] # "absent", dir'[j] = "absent"
  PROVE  status[j] \notin Active
<1> USE DEF diskVars, Active
<1>1. ASSUME NEW k \in Jobs, RemoveRefused(k)
      PROVE  status[j] = "none"
  <2>1. j = k
    BY <1>1, Removal DEF RemoveRefused
  <2> QED
    BY <1>1, <2>1 DEF RemoveRefused, Handler, IInv, PlaceStatus
<1>2. ASSUME RemoveEntry
      PROVE  Gone(j)
  BY <1>2, Types DEF RemoveEntry, RemoveDir, RemovePart, IInv, CleansGone
<1>3. ASSUME NEW k \in Jobs, NEW f, WriteFile(k, f)
      PROVE  FALSE
  BY <1>3, Types DEF WriteFile
<1>4. ASSUME NEW k \in Jobs, AgeDir(k)
      PROVE  FALSE
  BY <1>4, Types DEF AgeDir
<1>5. ASSUME NEW w \in Workers, SaveResult(w)
      PROVE  FALSE
  BY <1>5, Types DEF SaveResult, WriteFile
<1>6. \/ \E k \in Jobs : RemoveRefused(k) \/ StartUpload(k) \/ SaveRequest(k) \/ AgeDir(k)
      \/ \E w \in Workers : SaveResult(w)
      \/ RemoveEntry
  BY DEF Next, HandlerStep, FinishUpload, FailUpload, InsertQueued, Send, DropHandler,
         WorkerStep, Receive, Begin, AcquirePermit, OpenInput, Transcribed, MarkDone, MarkError,
         CleanerStep, StartPass, EndPass, CheckEntry, StatEntry, ForgetEntry, AgeJob, Restart
<1> QED
  BY <1>1, <1>2, <1>3, <1>4, <1>5, <1>6 DEF StartUpload, SaveRequest, Gone, Finished

\* README, Job Cleanup: queued and running jobs are never deleted, neither
\* from the disk nor, short of a refusal, from the map.  Uploads that outlast
\* the retention are the only way this can fail.
THEOREM ActiveJobsAreNeverDeleted ==
  ASSUME ~SlowUploads
  PROVE  Spec => ActiveIsNeverDeleted
<1>1. IInv /\ [Next]_vars =>
        [\A j \in Jobs : status[j] \in Active =>
           /\ dir[j] # "absent" => dir'[j] # "absent"
           /\ status'[j] = "none" => create[j] = "sending" \/ restarts' # restarts]_vars
  <2> SUFFICES ASSUME IInv, Next, NEW j \in Jobs, status[j] \in Active
               PROVE  /\ dir[j] # "absent" => dir'[j] # "absent"
                      /\ status'[j] = "none" => create[j] = "sending" \/ restarts' # restarts
    OBVIOUS
  <2>1. dir[j] # "absent" => dir'[j] # "absent"
    BY DirSteps
  <2>2. status'[j] = "none" => create[j] = "sending" \/ restarts' # restarts
    BY StatusSteps DEF Active
  <2> QED
    BY <2>1, <2>2
<1> QED
  BY <1>1, IInvHolds, PTL DEF Spec, ActiveIsNeverDeleted

-----------------------------------------------------------------------------
(* What a client sees: the refinement of JobService                         *)

\* The retention is counted for finished jobs only.
OldIsFinished == \A j \in expired : status[j] \in Finished

\* The steps that the map's status does not follow leave expired alone.
LEMMA OldKeeps ==
  ASSUME IInv, OldIsFinished, [Next]_vars
  PROVE  OldIsFinished'
<1> USE DEF OldIsFinished, mapVars, Finished
<1>1. CASE expired' = expired \ {cleaner.job} /\ ForgetEntry
  BY <1>1, Types DEF ForgetEntry, IInv, TypeOK
<1>2. CASE Restart
  BY <1>2 DEF Restart
<1>3. ASSUME NEW k \in Jobs, AgeJob(k) PROVE OldIsFinished'
  BY <1>3 DEF AgeJob
<1>4. CASE expired' = expired
  <2> SUFFICES ASSUME NEW j \in expired PROVE status'[j] \in Finished
    BY <1>4
  <2> j \in Jobs
    BY DEF IInv, TypeOK
  <2>1. CASE status'[j] = status[j]
    BY <2>1
  <2>2. CASE status'[j] # status[j] /\ ~Restart /\ ~ForgetEntry
    <3>1. Next
      BY <2>2 DEF vars
    <3>2. \/ \E k \in Jobs : InsertQueued(k) \/ Send(k)
          \/ \E w \in Workers : Begin(w) \/ MarkDone(w) \/ MarkError(w)
      BY <2>2, <3>1 DEF Next, StartUpload, HandlerStep, FinishUpload, FailUpload, SaveRequest,
         RemoveRefused, DropHandler, WorkerStep, Receive, AcquirePermit, OpenInput, Transcribed,
         SaveResult, CleanerStep, StartPass, EndPass, CheckEntry, StatEntry, RemoveEntry, AgeDir,
         AgeJob
    <3>3. ASSUME NEW k \in Jobs, InsertQueued(k) \/ Send(k) PROVE FALSE
      BY <2>2, <3>3, Types DEF InsertQueued, Send, Handler, IInv, PlaceStatus
    <3>4. ASSUME NEW w \in Workers, Begin(w) \/ MarkDone(w) \/ MarkError(w) PROVE FALSE
      <4>1. Job(w) # NoJob
        BY <3>4 DEF Begin, MarkDone, MarkError, IInv, OnePlace, At
      <4>2. status[Job(w)] \notin Finished
        BY <4>1 DEF IInv, PlaceStatus
      <4>3. \A k \in Jobs \ {Job(w)} : status'[k] = status[k]
        BY <3>4, Types DEF Begin, MarkDone, MarkError
      <4> QED
        BY <2>2, <4>2, <4>3
    <3> QED
      BY <3>2, <3>3, <3>4
  <2>3. CASE ForgetEntry
    <3>1. expired' = expired \ {cleaner.job}
      BY <2>3 DEF ForgetEntry
    <3> QED
      BY <3>1, <2>3, <1>1, <1>4
  <2> QED
    BY <2>1, <2>2, <2>3, <1>2, <1>4
<1> QED
  <2>1. ForgetEntry => expired' = expired \ {cleaner.job}
    BY DEF ForgetEntry
  <2>2. \/ ForgetEntry \/ Restart \/ expired' = expired \/ \E k \in Jobs : AgeJob(k)
    BY DEF vars, Next, StartUpload, HandlerStep, FinishUpload, FailUpload, SaveRequest,
       InsertQueued, Send, RemoveRefused, DropHandler, WorkerStep, Receive, Begin, AcquirePermit,
       OpenInput, Transcribed, SaveResult, MarkDone, MarkError, CleanerStep, StartPass, EndPass,
       CheckEntry, StatEntry, RemoveEntry, AgeDir
  <2> QED
    BY <2>1, <2>2, <1>1, <1>2, <1>3, <1>4

\* What a client sees of one job, and when it can fetch the result.
Seen(j) ==
  IF status[j] # "none" THEN status[j]
  ELSE IF create[j] \in {"none", "uploading", "saving", "inserting"} THEN "new"
  ELSE "gone"

CanFetch(j) == status[j] = "done" /\ "result" \in files[j]

\* A step that concerns one job concerns a client of that job only.
LEMMA OneIsSeen ==
  ASSUME NEW j \in Jobs,
         \A k \in Jobs \ {j} : status'[k] = status[k] /\ create'[k] = create[k] /\ files'[k] = files[k]
  PROVE  /\ ServiceState' = [ServiceState EXCEPT ![j] = Seen(j)']
         /\ Fetchable' = IF CanFetch(j)' THEN Fetchable \union {j} ELSE Fetchable \ {j}
<1>1. \A k \in Jobs \ {j} : Seen(k)' = Seen(k) /\ (CanFetch(k)' <=> CanFetch(k))
  BY DEF Seen, CanFetch
<1>2. ServiceState = [k \in Jobs |-> Seen(k)] /\ ServiceState' = [k \in Jobs |-> Seen(k)']
  BY DEF ServiceState, Seen
<1>3. Fetchable = {k \in Jobs : CanFetch(k)} /\ Fetchable' = {k \in Jobs : CanFetch(k)'}
  BY DEF Fetchable, CanFetch
<1> QED
  BY <1>1, <1>2, <1>3

LEMMA NothingIsSeen ==
  ASSUME \A k \in Jobs : Seen(k)' = Seen(k) /\ (CanFetch(k)' <=> CanFetch(k)),
         expired' = expired
  PROVE  UNCHANGED Service!vars
<1>1. ServiceState = [k \in Jobs |-> Seen(k)] /\ ServiceState' = [k \in Jobs |-> Seen(k)']
  BY DEF ServiceState, Seen
<1>2. Fetchable = {k \in Jobs : CanFetch(k)} /\ Fetchable' = {k \in Jobs : CanFetch(k)'}
  BY DEF Fetchable, CanFetch
<1> QED
  BY <1>1, <1>2 DEF Service!vars

LEMMA SeenState ==
  ASSUME NEW j \in Jobs
  PROVE  ServiceState[j] = Seen(j) /\ (j \in Fetchable <=> CanFetch(j))
BY DEF ServiceState, Seen, Fetchable, CanFetch

\* A result that cannot be fetched either before or after changes nothing.
LEMMA NothingToFetch ==
  ASSUME NEW j \in Jobs,
         \A k \in Jobs \ {j} : status'[k] = status[k] /\ create'[k] = create[k] /\ files'[k] = files[k],
         ~CanFetch(j), ~CanFetch(j)'
  PROVE  Fetchable' = Fetchable
<1>1. Fetchable' = Fetchable \ {j}
  BY OneIsSeen
<1>2. j \notin Fetchable
  BY SeenState
<1> QED
  BY <1>1, <1>2

\* A handler's step: the job is accepted, given up, refused or not seen to move.
LEMMA HandlerServes ==
  ASSUME IInv, OldIsFinished, NEW j \in Jobs,
         StartUpload(j) \/ HandlerStep(j) \/ DropHandler(j)
  PROVE  [Service!Next]_Service!vars
<1> DEFINE Others == \A k \in Jobs \ {j} : status'[k] = status[k] /\ create'[k] = create[k]
                                           /\ files'[k] = files[k]
<1> USE DEF Handler, WriteFile, mapVars, diskVars
<1>1. Others /\ expired' = expired
  BY Types, Removal
     DEF StartUpload, HandlerStep, FinishUpload, FailUpload, SaveRequest, InsertQueued,
         Send, RemoveRefused, DropHandler
<1>2. ServiceState' = [ServiceState EXCEPT ![j] = Seen(j)']
  BY <1>1, OneIsSeen
<1>3. /\ create[j] # "sending" /\ create[j] # "accepted" => status[j] = "none"
      /\ create[j] = "sending" => status[j] = "queued"
  BY DEF IInv, PlaceStatus
<1>4. CASE InsertQueued(j)
  <2>1. Seen(j) = "new" /\ Seen(j)' = "queued" /\ ~CanFetch(j) /\ ~CanFetch(j)'
    BY <1>3, <1>4, Types DEF InsertQueued, Seen, CanFetch
  <2>2. Fetchable' = Fetchable
    BY <1>1, <2>1, NothingToFetch
  <2>3. Service!Accept(j)
    BY <1>1, <1>2, <2>1, <2>2, SeenState DEF Service!Accept, Service!Become
  <2> QED
    BY <2>3 DEF Service!Next
<1>5. CASE Send(j)
  <2>1. /\ Seen(j) = "queued" /\ ~CanFetch(j) /\ ~CanFetch(j)'
        /\ Seen(j)' \in {"queued", "gone"}
    BY <1>3, <1>5, Types DEF Send, Seen, CanFetch
  <2>2. Fetchable' = Fetchable
    BY <1>1, <2>1, NothingToFetch
  <2>3. CASE Seen(j)' = "gone"
    <3>1. Service!Refuse(j)
      BY <1>1, <1>2, <2>1, <2>2, <2>3, SeenState DEF Service!Refuse, Service!Become
    <3> QED
      BY <3>1 DEF Service!Next
  <2>4. CASE Seen(j)' = "queued"
    <3>0. Seen(j)' = Seen(j)
      BY <2>1, <2>4
    <3>1. ServiceState' = ServiceState
      BY <1>2, <3>0, SeenState DEF ServiceState
    <3> QED
      BY <3>1, <1>1, <2>2 DEF Service!vars
  <2> QED
    BY <2>1, <2>3, <2>4
<1>6. CASE ~InsertQueued(j) /\ ~Send(j)
  <2>1. /\ status[j] = "none" /\ status'[j] = "none" /\ create[j] \in CreatePoints
        /\ Seen(j)' = Seen(j) \/ (Seen(j) = "new" /\ Seen(j)' = "gone")
    BY <1>3, <1>6, Types DEF StartUpload, HandlerStep, FinishUpload, FailUpload, SaveRequest,
                             RemoveRefused, DropHandler, Seen, CreatePoints
  <2>2. ~CanFetch(j) /\ ~CanFetch(j)'
    BY <2>1 DEF CanFetch
  <2>3. Fetchable' = Fetchable
    BY <1>1, <2>2, NothingToFetch
  <2>4. CASE Seen(j)' = Seen(j)
    <3>1. ServiceState' = ServiceState
      BY <1>2, <2>4, SeenState DEF ServiceState
    <3> QED
      BY <3>1, <1>1, <2>3 DEF Service!vars
  <2>5. CASE Seen(j) = "new" /\ Seen(j)' = "gone"
    <3>1. Service!GiveUp(j)
      BY <1>1, <1>2, <2>3, <2>5, SeenState DEF Service!GiveUp, Service!Become
    <3> QED
      BY <3>1 DEF Service!Next
  <2> QED
    BY <2>1, <2>4, <2>5
<1> QED
  BY <1>4, <1>5, <1>6

\* A worker's step: the job is started, done, failed or not seen to move.
LEMMA WorkerServes ==
  ASSUME IInv, NEW w \in Workers, WorkerStep(w)
  PROVE  [Service!Next]_Service!vars
<1> PICK j \in Jobs \union {NoJob} : j = worker[w].job
  BY Types
<1> USE DEF Job, At, Move, WriteFile, mapVars, diskVars
<1>1. expired' = expired /\ create' = create
  BY DEF WorkerStep, Receive, Begin, AcquirePermit, OpenInput, Transcribed, SaveResult,
         MarkDone, MarkError
<1>2. CASE Receive(w) \/ AcquirePermit(w) \/ OpenInput(w) \/ Transcribed(w)
  <2>1. status' = status /\ files' = files
    BY <1>2 DEF Receive, AcquirePermit, OpenInput, Transcribed
  <2>2. \A k \in Jobs : Seen(k)' = Seen(k) /\ (CanFetch(k)' <=> CanFetch(k))
    BY <1>1, <2>1 DEF Seen, CanFetch
  <2> QED
    BY <1>1, <2>2, NothingIsSeen
<1>3. CASE Begin(w) \/ SaveResult(w) \/ MarkDone(w) \/ MarkError(w)
  <2>1. j \in Jobs /\ status[j] = IF At(w, "begin") THEN "queued" ELSE "running"
    BY <1>3, Types DEF IInv, OnePlace, PlaceStatus, Begin, SaveResult, MarkDone, MarkError
  <2>2. \A k \in Jobs \ {j} : status'[k] = status[k] /\ create'[k] = create[k] /\ files'[k] = files[k]
    BY <1>1, <1>3, <2>1, Types DEF Begin, SaveResult, MarkDone, MarkError
  <2>3. ServiceState' = [ServiceState EXCEPT ![j] = Seen(j)']
    BY <2>1, <2>2, OneIsSeen
  <2>4. Seen(j) = status[j] /\ ~CanFetch(j)
    BY <2>1 DEF Seen, CanFetch
  <2>5. CASE Begin(w)
    <3>1. status[j] = "queued" /\ Seen(j)' = "running" /\ ~CanFetch(j)'
      BY <2>1, <2>5, Types DEF Begin, Seen, CanFetch
    <3>2. Fetchable' = Fetchable
      BY <2>1, <2>2, <2>4, <3>1, NothingToFetch
    <3>3. Service!Start(j)
      BY <1>1, <2>1, <2>3, <2>4, <3>1, <3>2, SeenState DEF Service!Start, Service!Become
    <3> QED
      BY <2>1, <3>3 DEF Service!Next
  <2>6. CASE SaveResult(w)
    <3>1. status[j] = "running" /\ status' = status
      BY <2>1, <2>6 DEF SaveResult
    <3>2. \A k \in Jobs : Seen(k)' = Seen(k) /\ (CanFetch(k)' <=> CanFetch(k))
      BY <1>1, <2>2, <3>1 DEF Seen, CanFetch
    <3> QED
      BY <1>1, <3>2, NothingIsSeen
  <2>7. CASE MarkDone(w)
    <3>1. status[j] = "running" /\ Seen(j)' = "done" /\ CanFetch(j)'
      BY <2>1, <2>7, Types DEF MarkDone, Seen, CanFetch, IInv, OnDisk
    <3>2. Fetchable' = Fetchable \union {j}
      BY <2>1, <2>2, <3>1, OneIsSeen
    <3>3. Service!Succeed(j)
      BY <1>1, <2>1, <2>3, <2>4, <3>1, <3>2, SeenState DEF Service!Succeed, Service!Become
    <3> QED
      BY <2>1, <3>3 DEF Service!Next
  <2>8. CASE MarkError(w)
    <3>1. status[j] = "running" /\ Seen(j)' = "error" /\ ~CanFetch(j)'
      BY <2>1, <2>8, Types DEF MarkError, Seen, CanFetch
    <3>2. Fetchable' = Fetchable
      BY <2>1, <2>2, <2>4, <3>1, NothingToFetch
    <3>3. Service!Fail(j)
      BY <1>1, <2>1, <2>3, <2>4, <3>1, <3>2, SeenState DEF Service!Fail, Service!Become
    <3> QED
      BY <2>1, <3>3 DEF Service!Next
  <2> QED
    BY <1>3, <2>5, <2>6, <2>7, <2>8
<1> QED
  BY <1>2, <1>3 DEF WorkerStep

\* The cleanup's step: a result whose retention has passed expires, a job is
\* forgotten, or nothing is seen.
LEMMA CleanerServes ==
  ASSUME IInv, OldIsFinished, CleanerStep
  PROVE  [Service!Next]_Service!vars
<1> USE DEF mapVars, diskVars
<1>1. create' = create
  BY DEF CleanerStep, StartPass, EndPass, CheckEntry, StatEntry, RemoveEntry, ForgetEntry
<1>2. CASE status' = status /\ files' = files /\ expired' = expired
  <2>1. \A k \in Jobs : Seen(k)' = Seen(k) /\ (CanFetch(k)' <=> CanFetch(k))
    BY <1>1, <1>2 DEF Seen, CanFetch
  <2> QED
    BY <1>2, <2>1, NothingIsSeen
<1>3. CASE RemoveEntry
  <2> PICK j \in Jobs : j = cleaner.job
    BY <1>3 DEF RemoveEntry, IInv, CleansGone
  <2>1. status' = status /\ expired' = expired
    BY <1>3 DEF RemoveEntry
  <2>2. /\ \A k \in Jobs \ {j} : files'[k] = files[k]
        /\ files'[j] \subseteq files[j]
    BY <1>3, Types DEF RemoveEntry, RemoveDir, RemovePart
  <2>3. Gone(j)
    BY <1>3 DEF RemoveEntry, IInv, CleansGone
  <2>4. \A k \in Jobs : Seen(k)' = Seen(k)
    BY <1>1, <2>1 DEF Seen
  <2>5. CASE CanFetch(j)' <=> CanFetch(j)
    <3>1. \A k \in Jobs : CanFetch(k)' <=> CanFetch(k)
      BY <2>1, <2>2, <2>5 DEF CanFetch
    <3> QED
      BY <2>1, <2>4, <3>1, NothingIsSeen
  <2>6. CASE ~(CanFetch(j)' <=> CanFetch(j))
    <3>1. CanFetch(j) /\ ~CanFetch(j)'
      BY <2>1, <2>2, <2>6 DEF CanFetch
    <3>2. j \in expired
      BY <2>3, <3>1 DEF Gone, CanFetch
    <3>3. ServiceState' = ServiceState
      BY <2>4 DEF ServiceState, Seen
    <3>4. Fetchable' = Fetchable \ {j}
      BY <1>1, <2>1, <2>2, <3>1, OneIsSeen
    <3>5. Service!Expire(j)
      BY <2>1, <3>2, <3>3, <3>4 DEF Service!Expire
    <3> QED
      BY <3>5 DEF Service!Next
  <2> QED
    BY <2>5, <2>6
<1>4. CASE ForgetEntry
  <2> PICK j \in Jobs : j = cleaner.job
    BY <1>4 DEF ForgetEntry, IInv, CleansGone
  <2>1. /\ status' = [status EXCEPT ![j] = "none"] /\ expired' = expired \ {j}
        /\ files' = files
    BY <1>4 DEF ForgetEntry
  <2>2. Gone(j)
    BY <1>4 DEF ForgetEntry, IInv, CleansGone
  <2>3. \A k \in Jobs \ {j} : status'[k] = status[k] /\ create'[k] = create[k] /\ files'[k] = files[k]
    BY <1>1, <2>1, Types
  <2>4. Seen(j)' = "gone" /\ ~CanFetch(j)'
    BY <1>1, <2>1, <2>2, Types DEF Seen, CanFetch, Gone, Over
  <2>5. /\ ServiceState' = [ServiceState EXCEPT ![j] = "gone"]
        /\ Fetchable' = Fetchable \ {j}
    BY <2>3, <2>4, OneIsSeen
  <2>6. CASE status[j] = "none"
    <3>1. Seen(j)' = Seen(j) /\ ~CanFetch(j) /\ expired' = expired
      BY <2>1, <2>2, <2>4, <2>6 DEF Seen, CanFetch, Gone, Over, OldIsFinished, Finished
    <3>2. \A k \in Jobs : Seen(k)' = Seen(k) /\ (CanFetch(k)' <=> CanFetch(k))
      BY <2>3, <2>4, <3>1 DEF Seen, CanFetch
    <3> QED
      BY <3>1, <3>2, NothingIsSeen
  <2>7. CASE status[j] # "none"
    <3>1. j \in expired /\ Seen(j) \in {"done", "error"}
      BY <2>2, <2>7 DEF Gone, Seen, Finished
    <3>2. Service!Forget(j)
      BY <2>1, <2>5, <3>1, SeenState DEF Service!Forget, Service!Become
    <3> QED
      BY <3>2 DEF Service!Next
  <2> QED
    BY <2>6, <2>7
<1> QED
  BY <1>2, <1>3, <1>4 DEF CleanerStep, StartPass, EndPass, CheckEntry, StatEntry

LEMMA TimeServes ==
  ASSUME NEW j \in Jobs, AgeDir(j) \/ AgeJob(j)
  PROVE  [Service!Next]_Service!vars
<1>1. /\ status' = status /\ create' = create /\ files' = files
      /\ \/ expired' = expired
         \/ expired' = expired \union {j} /\ status[j] \in Finished
  BY DEF AgeDir, AgeJob, mapVars, diskVars
<1>2. \A k \in Jobs : Seen(k)' = Seen(k) /\ (CanFetch(k)' <=> CanFetch(k))
  BY <1>1 DEF Seen, CanFetch
<1>3. CASE expired' = expired
  BY <1>2, <1>3, NothingIsSeen
<1>4. CASE expired' = expired \union {j} /\ status[j] \in Finished
  <2>1. ServiceState' = ServiceState /\ Fetchable' = Fetchable
    BY <1>1 DEF ServiceState, Fetchable
  <2>2. ServiceState[j] \in {"done", "error"}
    BY <1>4, SeenState DEF Seen, Finished
  <2>3. Service!Age(j)
    BY <1>4, <2>1, <2>2 DEF Service!Age
  <2> QED
    BY <2>3 DEF Service!Next
<1> QED
  BY <1>1, <1>3, <1>4

\* After a restart a client finds none of the jobs it created.
LEMMA RestartServes ==
  ASSUME IInv, Restart
  PROVE  Service!Crash
<1>1. /\ status' = [j \in Jobs |-> "none"] /\ expired' = {} /\ files' = files
      /\ create' = [j \in Jobs |-> IF create[j] = "none" THEN "none" ELSE "dropped"]
  BY DEF Restart, diskVars
<1> DEFINE U == {j \in Jobs : create[j] = "none"}
<1>2. \A j \in Jobs : Seen(j)' = (IF create[j] = "none" THEN "new" ELSE "gone") /\ ~CanFetch(j)'
  BY <1>1 DEF Seen, CanFetch
<1>3. \A j \in U : Seen(j) = "new"
  BY DEF Seen, IInv, PlaceStatus
<1>4. U \in SUBSET {j \in Jobs : ServiceState[j] = "new"}
  BY <1>3, SeenState
<1>5. ServiceState' = [j \in Jobs |-> IF j \in U THEN "new" ELSE "gone"]
  <2>1. ServiceState' = [j \in Jobs |-> Seen(j)']
    BY DEF ServiceState, Seen
  <2> QED
    BY <1>2, <2>1
<1>6. Fetchable' = {}
  <2>1. Fetchable' = {j \in Jobs : CanFetch(j)'}
    BY DEF Fetchable, CanFetch
  <2> QED
    BY <1>2, <2>1
<1> QED
  BY <1>1, <1>4, <1>5, <1>6 DEF Service!Crash

LEMMA StepServes ==
  ASSUME IInv, OldIsFinished, [Next]_vars
  PROVE  [Service!Next]_Service!vars
<1>1. CASE UNCHANGED vars
  <2>1. UNCHANGED <<status, create, files, expired>>
    BY <1>1 DEF vars
  <2> QED
    BY <2>1 DEF Service!vars, ServiceState, Fetchable
<1>2. CASE Restart
  BY <1>2, RestartServes DEF Service!Next
<1>3. CASE Next
  BY <1>2, <1>3, HandlerServes, WorkerServes, CleanerServes, TimeServes DEF Next
<1> QED
  BY <1>1, <1>3

\* The job pipeline implements JobService for any number of jobs, workers and
\* restarts: a client never sees a job worked on twice, done without a result,
\* or back after it was gone.
THEOREM ServiceIsImplemented ==
  ASSUME ~SlowUploads
  PROVE  Spec => ServiceIsKept
<1>1. Init => Service!Init /\ OldIsFinished
  <2> SUFFICES ASSUME Init PROVE Service!Init /\ OldIsFinished
    OBVIOUS
  <2>1. ServiceState = [j \in Jobs |-> "new"] /\ Fetchable = {} /\ expired = {}
    BY DEF Init, ServiceState, Fetchable
  <2> QED
    BY <2>1 DEF Service!Init, OldIsFinished
<1>2. IInv /\ OldIsFinished /\ [Next]_vars => OldIsFinished' /\ [Service!Next]_Service!vars
  BY OldKeeps, StepServes
<1>3. Spec => []IInv
  BY IInvHolds
<1> QED
  BY <1>1, <1>2, <1>3, PTL DEF Spec, ServiceIsKept, Service!Spec
=============================================================================
