----------------------------- MODULE JobPipeline -----------------------------
(***************************************************************************)
(* The batch jobs of the Rust API: create_job handlers that store an       *)
(* upload and queue a job, the worker tasks that process the queue, the    *)
(* cleanup task that deletes old job directories, and restarts of the API, *)
(* which lose the job map and the queue and keep the directories.          *)
(*                                                                         *)
(* The handlers, the workers and the cleanup share the map `jobs`, the     *)
(* bounded channel and the directory of each job; an action ends where the *)
(* code awaits, or where another thread may observe it half done.  A       *)
(* definition whose name ends in _bug is a faulty variant of the one that  *)
(* follows it: the code does not do this.                                  *)
(***************************************************************************)
EXTENDS Naturals, FiniteSets, Sequences

CONSTANTS NoJob,        \* no job
          Jobs,         \* job ids: fresh UUIDs, each used by one create_job call
          Workers,      \* worker tasks (worker_concurrency)
          QueueCap,     \* max_queue_length
          Permits,      \* rust_transcribe_max_inflight
          MaxDelete,    \* job_cleanup_max_delete_per_run
          SlowUploads,  \* whether an upload may outlast job_retention_s
          Faults,       \* what may fail: "upload", "drop", "transcribe", "disk"
          MaxRestarts   \* bound on the restarts

ASSUME ConstantsAssumption ==
  /\ NoJob \notin Jobs
  /\ QueueCap \in Nat \ {0}
  /\ Permits \in Nat \ {0}
  /\ MaxDelete \in Nat \ {0}
  /\ SlowUploads \in BOOLEAN
  /\ Faults \subseteq {"upload", "drop", "transcribe", "disk"}
  /\ MaxRestarts \in Nat

VARIABLES
  status,    \* jobs: the status of each tracked job, "none" when untracked
  expired,   \* finished jobs whose finished_at is older than the retention
  queue,     \* the channel between create_job and the workers
  dir,       \* each job directory: absent, or modified within / before the retention
  files,     \* what the directory holds
  create,    \* where each create_job call is
  worker,    \* where each worker is and with which job
  cleaner,   \* where the cleanup task is and with which entry
  todo,      \* directory entries the pass has still to read
  deleted,   \* stats.deleted of the pass
  restarts

mapVars     == <<status, expired>>
diskVars    == <<dir, files>>
cleanerVars == <<cleaner, todo, deleted>>
vars == <<status, expired, queue, dir, files, create, worker, cleaner, todo,
          deleted, restarts>>

Statuses == {"none", "queued", "running", "done", "error"}
Active   == {"queued", "running"}
Finished == {"done", "error"}

Idle  == [pc |-> "idle", job |-> NoJob]

Init ==
  /\ status = [j \in Jobs |-> "none"]
  /\ expired = {}
  /\ queue = << >>
  /\ dir = [j \in Jobs |-> "absent"]
  /\ files = [j \in Jobs |-> {}]
  /\ create = [j \in Jobs |-> "none"]
  /\ worker = [w \in Workers |-> Idle]
  /\ cleaner = Idle /\ todo = {} /\ deleted = 0
  /\ restarts = 0

-----------------------------------------------------------------------------
(* Directories                                                              *)

\* Writing a file (re)creates the directory and refreshes its time.
WriteFile(j, f) ==
  /\ dir' = [dir EXCEPT ![j] = "fresh"]
  /\ files' = [files EXCEPT ![j] = @ \union {f}]

RemoveDir(j) ==
  /\ dir' = [dir EXCEPT ![j] = "absent"]
  /\ files' = [files EXCEPT ![j] = {}]

\* A deletion that fails midway: some of the files are gone, the directory is
\* as new as the last of these changes.
RemovePart(j) ==
  \E rest \in SUBSET files[j] :
    /\ files' = [files EXCEPT ![j] = rest]
    /\ dir' = [dir EXCEPT ![j] = IF rest = files[j] THEN @ ELSE "fresh"]

-----------------------------------------------------------------------------
(* create_job                                                               *)

Handler(j, from, to) ==
  /\ create[j] = from
  /\ create' = [create EXCEPT ![j] = to]

\* A full queue is refused at once; else the upload's file is created.
StartUpload(j) ==
  /\ Len(queue) < QueueCap
  /\ Handler(j, "none", "uploading")
  /\ WriteFile(j, "input")
  /\ UNCHANGED <<mapVars, queue, worker, cleanerVars, restarts>>

\* The last chunk: the open file is written even if its directory is gone.
FinishUpload(j) ==
  /\ Handler(j, "uploading", "saving")
  /\ UNCHANGED <<mapVars, queue, diskVars, worker, cleanerVars, restarts>>

FailUpload(j) ==
  /\ "upload" \in Faults
  /\ Handler(j, "uploading", "removing")
  /\ UNCHANGED <<mapVars, queue, diskVars, worker, cleanerVars, restarts>>

\* request.json; a failure is only logged.
SaveRequest(j) ==
  /\ Handler(j, "saving", "inserting")
  /\ \/ WriteFile(j, "request")
     \/ "disk" \in Faults /\ UNCHANGED diskVars
  /\ UNCHANGED <<mapVars, queue, worker, cleanerVars, restarts>>

InsertQueued(j) ==
  /\ Handler(j, "inserting", "sending")
  /\ status' = [status EXCEPT ![j] = "queued"]
  /\ UNCHANGED <<expired, queue, diskVars, worker, cleanerVars, restarts>>

\* The slot seen free before the upload is taken for granted.
Send_capacity_bug(j) ==
  /\ Handler(j, "sending", "accepted")
  /\ queue' = Append(queue, j)
  /\ UNCHANGED <<mapVars, diskVars, worker, cleanerVars, restarts>>

\* try_send: the slot seen free before the upload may be taken by now.
Send(j) ==
  /\ \/ /\ Len(queue) < QueueCap
        /\ Handler(j, "sending", "accepted")
        /\ queue' = Append(queue, j)
        /\ UNCHANGED status
     \/ /\ Len(queue) = QueueCap
        /\ Handler(j, "sending", "removing")
        /\ status' = [status EXCEPT ![j] = "none"]
        /\ UNCHANGED queue
  /\ UNCHANGED <<expired, diskVars, worker, cleanerVars, restarts>>

\* remove_job_dir_for_upload_failure, whose failure is ignored, then the refusal.
RemoveRefused(j) ==
  /\ Handler(j, "removing", "refused")
  /\ RemoveDir(j) \/ ("disk" \in Faults /\ RemovePart(j))
  /\ UNCHANGED <<mapVars, queue, worker, cleanerVars, restarts>>

\* The client goes away: the handler is dropped where it awaits.
DropHandler(j) ==
  /\ "drop" \in Faults
  /\ create[j] \in {"uploading", "saving", "removing"}
  /\ create' = [create EXCEPT ![j] = "dropped"]
  /\ UNCHANGED <<mapVars, queue, diskVars, worker, cleanerVars, restarts>>

-----------------------------------------------------------------------------
(* worker_loop and process_job                                              *)

At(w, pc) == worker[w].pc = pc
Job(w)    == worker[w].job
Move(w, pc) == worker' = [worker EXCEPT ![w].pc = pc]

\* The job stays in the queue while it is processed.
Receive_bug(w) ==
  /\ At(w, "idle") /\ queue # << >>
  /\ worker' = [worker EXCEPT ![w] = [pc |-> "begin", job |-> Head(queue)]]
  /\ UNCHANGED <<mapVars, queue, diskVars, create, cleanerVars, restarts>>

Receive(w) ==
  /\ At(w, "idle") /\ queue # << >>
  /\ worker' = [worker EXCEPT ![w] = [pc |-> "begin", job |-> Head(queue)]]
  /\ queue' = Tail(queue)
  /\ UNCHANGED <<mapVars, diskVars, create, cleanerVars, restarts>>

\* An untracked job is an error nobody hears of; a tracked one is running.
Begin(w) ==
  /\ At(w, "begin")
  /\ IF status[Job(w)] = "none"
     THEN Move(w, "failed") /\ UNCHANGED status
     ELSE Move(w, "acquire") /\ status' = [status EXCEPT ![Job(w)] = "running"]
  /\ UNCHANGED <<expired, queue, diskVars, create, cleanerVars, restarts>>

\* A worker that waits for a permit is counted as having one.
Holding_bug == {w \in Workers : At(w, "acquire") \/ At(w, "opening") \/ At(w, "transcribing")}

\* The permit is held until the transcriber has answered or the job failed.
Holding == {w \in Workers : At(w, "opening") \/ At(w, "transcribing")}

AcquirePermit(w) ==
  /\ At(w, "acquire") /\ Cardinality(Holding) < Permits
  /\ Move(w, "opening")
  /\ UNCHANGED <<mapVars, queue, diskVars, create, cleanerVars, restarts>>

OpenInput(w) ==
  /\ At(w, "opening")
  /\ Move(w, IF "input" \in files[Job(w)] THEN "transcribing" ELSE "failed")
  /\ UNCHANGED <<mapVars, queue, diskVars, create, cleanerVars, restarts>>

\* The transcriber's answer; guessing and alignment follow without a permit.
Transcribed(w) ==
  /\ At(w, "transcribing")
  /\ \/ Move(w, "saving")
     \/ "transcribe" \in Faults /\ Move(w, "failed")
  /\ UNCHANGED <<mapVars, queue, diskVars, create, cleanerVars, restarts>>

\* A failure to write result.json is only logged, as that of request.json.
SaveResult_bug(w) ==
  /\ At(w, "saving")
  /\ Move(w, "finishing")
  /\ \/ WriteFile(Job(w), "result")
     \/ "disk" \in Faults /\ UNCHANGED diskVars
  /\ UNCHANGED <<mapVars, queue, create, cleanerVars, restarts>>

\* result.json; a failure fails the job, as does a panic of guess or align.
SaveResult(w) ==
  /\ At(w, "saving")
  /\ \/ Move(w, "finishing") /\ WriteFile(Job(w), "result")
     \/ "disk" \in Faults /\ Move(w, "failed") /\ UNCHANGED diskVars
  /\ UNCHANGED <<mapVars, queue, create, cleanerVars, restarts>>

\* The meta cloned at the start is inserted, tracked or not.
MarkDone(w) ==
  /\ At(w, "finishing")
  /\ status' = [status EXCEPT ![Job(w)] = "done"]
  /\ worker' = [worker EXCEPT ![w] = Idle]
  /\ UNCHANGED <<expired, queue, diskVars, create, cleanerVars, restarts>>

MarkError(w) ==
  /\ At(w, "failed")
  /\ status' = IF status[Job(w)] = "none" THEN status
               ELSE [status EXCEPT ![Job(w)] = "error"]
  /\ worker' = [worker EXCEPT ![w] = Idle]
  /\ UNCHANGED <<expired, queue, diskVars, create, cleanerVars, restarts>>

-----------------------------------------------------------------------------
(* run_job_cleanup_once                                                     *)

Clean(pc, j) == cleaner' = [pc |-> pc, job |-> j]

\* A pass lists the directories.
StartPass ==
  /\ cleaner.pc = "idle"
  /\ todo' = {j \in Jobs : dir[j] # "absent"}
  /\ todo' # {}
  /\ Clean("scan", NoJob)
  /\ deleted' = 0
  /\ UNCHANGED <<mapVars, queue, diskVars, create, worker, restarts>>

\* It ends with the entries, or with the first one after max_delete deletions.
EndPass ==
  /\ cleaner.pc = "scan"
  /\ todo = {} \/ deleted >= MaxDelete
  /\ cleaner' = Idle /\ todo' = {} /\ deleted' = 0
  /\ UNCHANGED <<mapVars, queue, diskVars, create, worker, restarts>>

\* Every entry goes by its modification time.
CheckEntry_time_bug(j) ==
  /\ cleaner.pc = "scan" /\ deleted < MaxDelete /\ j \in todo
  /\ todo' = todo \ {j}
  /\ Clean("stat", j)
  /\ UNCHANGED <<mapVars, queue, diskVars, create, worker, deleted, restarts>>

\* Entries of jobs the map does not know are left alone.
CheckEntry_untracked_bug(j) ==
  /\ cleaner.pc = "scan" /\ deleted < MaxDelete /\ j \in todo
  /\ todo' = todo \ {j}
  /\ IF status[j] \in Finished /\ j \in expired THEN Clean("remove", j)
     ELSE UNCHANGED cleaner
  /\ UNCHANGED <<mapVars, queue, diskVars, create, worker, deleted, restarts>>

\* A tracked entry goes by its status and finish time, an untracked one by
\* its modification time, which is read after an await.
CheckEntry(j) ==
  /\ cleaner.pc = "scan" /\ deleted < MaxDelete /\ j \in todo
  /\ todo' = todo \ {j}
  /\ IF status[j] = "none" THEN Clean("stat", j)
     ELSE IF status[j] \in Finished /\ j \in expired THEN Clean("remove", j)
     ELSE UNCHANGED cleaner
  /\ UNCHANGED <<mapVars, queue, diskVars, create, worker, deleted, restarts>>

StatEntry ==
  /\ cleaner.pc = "stat"
  /\ \/ dir[cleaner.job] = "stale" /\ Clean("remove", cleaner.job)
     \/ (dir[cleaner.job] # "stale" \/ "disk" \in Faults) /\ Clean("scan", NoJob)
  /\ UNCHANGED <<mapVars, queue, diskVars, create, worker, todo, deleted, restarts>>

\* remove_dir_all; a failure keeps the entry.
RemoveEntry ==
  /\ cleaner.pc = "remove"
  /\ \/ /\ dir[cleaner.job] # "absent"
        /\ RemoveDir(cleaner.job)
        /\ Clean("forget", cleaner.job)
     \/ /\ dir[cleaner.job] # "absent" /\ "disk" \in Faults
        /\ RemovePart(cleaner.job)
        /\ Clean("scan", NoJob)
     \/ /\ dir[cleaner.job] = "absent"
        /\ Clean("scan", NoJob)
        /\ UNCHANGED diskVars
  /\ UNCHANGED <<mapVars, queue, create, worker, todo, deleted, restarts>>

\* jobs.remove, whatever the status is by now.
ForgetEntry ==
  /\ cleaner.pc = "forget"
  /\ status' = [status EXCEPT ![cleaner.job] = "none"]
  /\ expired' = expired \ {cleaner.job}
  /\ Clean("scan", NoJob)
  /\ deleted' = deleted + 1
  /\ UNCHANGED <<queue, diskVars, create, worker, todo, restarts>>

-----------------------------------------------------------------------------
(* Time and restarts                                                        *)

InHandler(j) ==
  create[j] \in {"saving", "inserting", "sending"}
    \union IF SlowUploads THEN {} ELSE {"uploading"}

\* The retention passes since the directory changed.  A pass compares with the
\* clock it read when it started, so a directory ages between passes only.
\* A handler takes less than the retention, its upload unless SlowUploads.
AgeDir(j) ==
  /\ dir[j] = "fresh"
  /\ cleaner.pc = "idle"
  /\ ~InHandler(j)
  /\ dir' = [dir EXCEPT ![j] = "stale"]
  /\ UNCHANGED <<mapVars, queue, files, create, worker, cleanerVars, restarts>>

\* The retention passes since the job finished.
AgeJob(j) ==
  /\ status[j] \in Finished /\ j \notin expired
  /\ expired' = expired \union {j}
  /\ UNCHANGED <<status, queue, diskVars, create, worker, cleanerVars, restarts>>

\* The API process dies and starts again.
Restart ==
  /\ restarts < MaxRestarts
  /\ restarts' = restarts + 1
  /\ status' = [j \in Jobs |-> "none"] /\ expired' = {}
  /\ queue' = << >>
  /\ create' = [j \in Jobs |-> IF create[j] = "none" THEN "none" ELSE "dropped"]
  /\ worker' = [w \in Workers |-> Idle]
  /\ cleaner' = Idle /\ todo' = {} /\ deleted' = 0
  /\ UNCHANGED diskVars

-----------------------------------------------------------------------------
HandlerStep(j) ==
  \/ FinishUpload(j) \/ FailUpload(j) \/ SaveRequest(j) \/ InsertQueued(j)
  \/ Send(j) \/ RemoveRefused(j)

WorkerStep(w) ==
  \/ Receive(w) \/ Begin(w) \/ AcquirePermit(w) \/ OpenInput(w)
  \/ Transcribed(w) \/ SaveResult(w) \/ MarkDone(w) \/ MarkError(w)

CleanerStep ==
  \/ StartPass \/ EndPass \/ StatEntry \/ RemoveEntry \/ ForgetEntry
  \/ \E j \in Jobs : CheckEntry(j)

Next ==
  \/ \E j \in Jobs : StartUpload(j) \/ HandlerStep(j) \/ DropHandler(j)
  \/ \E w \in Workers : WorkerStep(w)
  \/ CleanerStep
  \/ \E j \in Jobs : AgeDir(j) \/ AgeJob(j)
  \/ Restart

\* The two I/O calls of the cleanup without an error, time between two passes.
StatStale  == StatEntry /\ cleaner'.pc = "remove"
RemoveDone == RemoveEntry /\ \E j \in Jobs : dir[j] # "absent" /\ dir'[j] = "absent"
Retained   == \E j \in Jobs : AgeDir(j)

(***************************************************************************)
(* Tokio runs ready tasks; the transcriber answers (the HTTP client has a  *)
(* one-hour time-out); a permit that stays free is taken by a worker that  *)
(* waits for it; the interval of the cleanup and, between passes (SF), the *)
(* retention go by.  The disk may fail any number of times, but a cleanup  *)
(* that tries again in pass after pass is not refused every time (SF).     *)
(* Uploads need not end, clients may go away, and nothing makes the API    *)
(* restart.                                                                *)
(***************************************************************************)
Fairness ==
  /\ \A j \in Jobs : WF_vars(SaveRequest(j) \/ InsertQueued(j) \/ Send(j) \/ RemoveRefused(j))
  /\ \A w \in Workers : WF_vars(WorkerStep(w))
  /\ WF_vars(CleanerStep) /\ SF_vars(StatStale) /\ SF_vars(RemoveDone)
  /\ SF_vars(Retained) /\ \A j \in Jobs : WF_vars(AgeJob(j))

Spec == Init /\ [][Next]_vars
FairSpec == Spec /\ Fairness

-----------------------------------------------------------------------------
(* Properties                                                               *)

\* Every variable is in its range; the queue never exceeds the channel.
TypeOK ==
  /\ status \in [Jobs -> Statuses]
  /\ expired \subseteq Jobs
  /\ queue \in Seq(Jobs) /\ Len(queue) <= QueueCap
  /\ dir \in [Jobs -> {"absent", "fresh", "stale"}]
  /\ files \in [Jobs -> SUBSET {"input", "request", "result"}]
  /\ create \in [Jobs -> {"none", "uploading", "saving", "inserting", "sending",
                          "accepted", "removing", "refused", "dropped"}]
  /\ worker \in [Workers -> [pc : {"idle", "begin", "acquire", "opening",
                                   "transcribing", "saving", "finishing", "failed"},
                             job : Jobs \union {NoJob}]]
  /\ cleaner \in [pc : {"idle", "scan", "stat", "remove", "forget"},
                  job : Jobs \union {NoJob}]
  /\ todo \subseteq Jobs
  /\ deleted \in 0..MaxDelete
  /\ restarts \in 0..MaxRestarts

\* README, Job Cleanup: queued and running jobs tracked by the API are never
\* deleted.  Their directory and the uploaded input are there.
ActiveKeepsInput ==
  \A j \in Jobs : status[j] \in Active => dir[j] # "absent" /\ "input" \in files[j]

\* The same sentence, of each step: no step deletes the directory of a job that
\* is queued or running, or drops such a job from the map.
ActiveIsNeverDeleted ==
  [][\A j \in Jobs : status[j] \in Active =>
       /\ dir[j] # "absent" => dir'[j] # "absent"
       /\ status'[j] = "none" => create[j] = "sending" \/ restarts' # restarts]_vars

Waiting(j) == {i \in 1..Len(queue) : queue[i] = j}
On(j, pcs) == {w \in Workers : Job(w) = j /\ worker[w].pc \in pcs}
Processing == {"acquire", "opening", "transcribing", "saving", "finishing"}

\* No job is lost and none is processed twice: a queued job is in exactly one
\* of the sending handler, the queue and a worker's hands; a running job is
\* with exactly one worker.
OneHolder ==
  \A j \in Jobs :
    /\ status[j] = "queued" =>
         (IF create[j] = "sending" THEN 1 ELSE 0)
           + Cardinality(Waiting(j)) + Cardinality(On(j, {"begin"})) = 1
    /\ status[j] = "running" => Cardinality(On(j, Processing \union {"failed"})) = 1
    /\ status[j] \in Finished \union {"none"} => On(j, Processing) = {}

\* GET on a done job finds its result.json until the retention has passed.
DoneHasResult ==
  \A j \in Jobs : status[j] = "done" /\ j \notin expired => "result" \in files[j]

\* What a client sees of a job.
ServiceState ==
  [j \in Jobs |->
     IF status[j] # "none" THEN status[j]
     ELSE IF create[j] \in {"none", "uploading", "saving", "inserting"} THEN "new"
     ELSE "gone"]

Fetchable == {j \in Jobs : status[j] = "done" /\ "result" \in files[j]}

Service ==
  INSTANCE JobService WITH state <- ServiceState, results <- Fetchable, old <- expired

\* Whatever handlers, workers, cleanup and restarts do, a client sees what
\* JobService promises: a job is worked on once, a done job has its result until
\* the retention has passed, and a job that is gone never comes back.
ServiceIsKept == Service!Spec

\* Every accepted job is finished, also when others fail before it, unless a
\* restart forgets it.
AcceptedFinishes ==
  \A j \in Jobs : status[j] = "queued" ~> status[j] \notin Active

\* Every directory goes in the end: of a finished job, of an upload that was
\* dropped, of a refusal whose own deletion failed, and of a job the previous
\* process left behind.
DirectoriesAreCollected ==
  \A j \in Jobs :
    dir[j] # "absent" /\ create[j] \in {"accepted", "refused", "dropped"} ~> dir[j] = "absent"
=============================================================================
