# Verification of the Quran ASR API

TLA+ models of the Rust API in `api/` of this repository, the TLC runs that check
them on small instances, and the theorems TLAPS proves about them for every value
of their constants. Line numbers are lines of the repository; paths without a
directory are under `api/src/`, except `README.md`, which is that of the repository.

Contents: [the system](#the-system), [hard behaviours](#what-is-hard-about-it),
[modules](#modules-and-their-code), [runs](#runs), [disagreements](#where-code-and-documentation-disagree),
[bounds](#bounds), [fairness](#fairness), [proofs](#proofs),
[abstractions](#abstractions), [what is left out](#not-modelled), [plan](#plan).

## The system

The API takes audio of a Quran recitation, has it transcribed by one of several
transcriber services over HTTP, guesses the surah, aligns the words to the ayahs
and returns the aligned text: as a batch job that a client polls, or as a stream
of updates over a WebSocket.

| part | code | state it keeps | operations |
|---|---|---|---|
| streaming session | `streaming.rs`, session routes of `main.rs` and `demo.rs`, reaper in `cleanup.rs` | byte counters, stop flag, clocks, `Notify`; the map `stream_sessions` | create, WebSocket upgrade, audio frame, `stop`, `auth_refresh`, disconnect, HTTP stop, processor window, watchdog tick, reap |
| audio ring | `streaming.rs:20-111`, `951-981` | circular buffer of bytes, its write position and length | push, copy a range, cut and label a slice |
| streaming stability | `streaming.rs:605-802` | shown surah and its streak, committed and pending ayah, low-confidence streak | one update per aligned window |
| rolling transcript | `streaming.rs:485-552`, `805-821`, `922-949`, `1272-1368` | words of the window, time of the last full refresh, `force_refresh_next` | ingest, refresh, prune |
| batch jobs | `main.rs`, `state.rs`, `cleanup.rs` | the map `jobs`, the bounded channel, one directory per job | `create_job`, poll, worker, cleanup pass, restart |
| transcriber pool | `transcriber_pool.rs`, the semaphore of `state.rs` | in-flight counter of each transcriber, rotation counter, permits | acquire, pick a lease, drop it, release |
| demo endpoints | `demo.rs` | rate-limiter windows | transcribe, poll, session, stop |
| multi-span alignment | `multispan.rs` | the spans, jumps and the pending jump of one recording | `align_multi_span` |
| ayah alignment | `alignment_v2.rs` | the table of one alignment, the times of its ayahs | banded dynamic program, traceback, times of ayahs; candidate search |
| surah guessing | `guessing.rs`, `text.rs`, `npy.rs` | none | scoring |
| configuration, routes | `config.rs`, `main.rs` | none after start-up | parse the environment, check access |
| Python transcriber | `transcriber/app/main.py` | semaphore, batch-size ratchet | transcribe a file |
| Swift transcriber | `mac/transcriber-swift` | none across requests | transcribe a file |
| demo client | `demo/src` | React state | record, upload, stream |
| data tools | `tools/`, `api/src/bin` | none | one-off conversions |

How they interact:

- A session is one `Arc` shared by a processor task, a watchdog task, every
  WebSocket handler of the session, the stop endpoints and the session map. They
  communicate through atomics and a `tokio::sync::Notify`, of which only
  `notify_waiters` is used: it wakes who waits now and remembers nothing. Updates
  to clients go through a broadcast channel.
- The ring is behind a mutex; the counter that says how much it was given is an
  atomic that is also read without the mutex.
- `create_job` inserts a job in the concurrent map and sends it through a bounded
  channel to the worker tasks. The cleanup task reads the map and the job
  directories, and removes from both.
- A processor hands each transcribed slice to the rolling transcript, the words of
  it to `align_multi_span`, which aligns every segment and every span with
  `alignment_v2.rs`, and the active alignment to the stability logic, whose answer
  prunes the transcript or asks for a refresh. Batch jobs call the same alignment.
- Streaming processors and batch workers take permits of one fair semaphore and
  leases of one transcriber pool.
- A restart loses all maps, channels and sessions and keeps the job directories.

What makes each part correct: a session that was stopped, abandoned or never
used goes away, and a live one loses neither its tasks nor a hop of audio; a
slice of audio is audio that was received, in order, and near the time its label
says; the committed ayah and the shown surah follow agreement between windows and
never one weak guess; an accepted job is processed once, finishes, keeps its
files while it is active and leaves nothing behind in the end; permits and
in-flight counters come back on every way out; the transcript has every word once
and in order; the spans partition the recording and each of them has a reason; the
alignment is a path, the cheapest of its band, and the times of an ayah contain
those of its words.

## What is hard about it

Tests in the repository cover single functions. What they hardly reach, and what
the properties are aimed at (each hazard with its line is in `PROJECT.json`):

- a wake-up between a processor's check of the counters and its next wait
  (`streaming.rs:433`), and values read before two awaits and used after them
  (436, 449);
- a push between the unlocked read of the total and the lock of the ring (957);
  frames that wrap around, exactly fill or overrun the ring (46);
- time-outs each of which is gated on something a client must have done (1022);
- long sequences of weak, jumping and repeated hypotheses (650-739);
- a cleanup pass that decides on a directory before two awaits and deletes it
  after them, while a handler inserts the job (`cleanup.rs:63-75`);
- the queue slot seen free before an upload and gone after it (`main.rs:717`);
- a worker that copies a job's entry, awaits for minutes and puts the copy back
  (`main.rs:925`);
- every `?` of a long asynchronous function as a way out that must give back a
  permit, a lease, a status (`main.rs:954`, `1201`, `transcriber_pool.rs:24`);
- slices of audio that overlap, heard with slightly different times and with
  words cut off at both ends, merged by time (`streaming.rs:1349`), and a forced
  refresh whose flag is cleared before the attempt that may fail (934);
- spans confirmed by later segments, ended in retrospect and renumbered under the
  jumps that point to them (`multispan.rs:251`, `427`);
- a band that leaves the table, rows without a pointer in the traceback
  (`alignment_v2.rs:586`), and words given to one of two ayahs before crossing
  times are repaired in two passes (1408).

## Modules and their code

Every definition that models code is listed with its lines in `PROJECT.json`
(`map`). An action is the code between two awaits, or between two places where
another thread can see shared state half changed. Definitions whose name ends in
`_bug` stand before the definition they vary. No specification uses them: they
are the slips a property is expected to notice.

**`StreamSession`**: the life of one session. `total` and `last` are
`total_pcm_bytes` and `last_processed_pcm_bytes`, counted in frames; `stopReq`
and `wsConnected` the atomics; `registered` the session's place in the map;
`timer` and `silence` the clocks the watchdog compares with its limits; `conn`,
`proc`, `wd`, `http` say where each handler and task is; `snapTotal` and
`snapStop` are the processor's locals.

| actions | code |
|---|---|
| `Upgrade`, `Open` | `stream_session_ws`, start of `handle_ws` |
| `Frame`, `Append`, `NotifyPush` | `push_pcm16le` before, under and after the lock |
| `AuthRefresh`, `RecvStop`/`NotifyStop`, `Disconnect`, `LeaveStop`/`NotifyLeave` | the receive loop and its exits, the two halves of `request_stop` apart |
| `Wait`, `LoadTotal`, `LoadStop`, `Decide...`, `SkipSilentHop`, `StartWindow`, `FinishWindow`, `FailWindow`, `FailAlign` | `processor_loop` |
| `WatchdogExit`, `WatchdogFire`, `WatchdogStop`, `WatchdogNotify` | the watchdog loop |
| `HttpStop`, `HttpNotify`, `Reap` | stop endpoints, `spawn_session_reaper` |
| `Elapse`, `SilenceGrows` | time |

**`AudioRing`**: `RingBuf`, `push_pcm16le`'s critical section and the slicing of
`extract_pcm_range`. The bytes a session receives are numbered, and the ring
holds the numbers, so that "this slice is the audio its label says" is a
statement about the state. `Push` is everything done under the lock (`Write` or
`Overwrite`, then the total), `ReadTotal` the unlocked read, `Copy` the slice
under the lock, `Begin`, `SkipSilentHop` and `Advance` the processor around it.

**`Stability`**: one action per window, `Update(h)`, for a hypothesis `h` (the
predicted surah, the ayah the alignment ends at, the evidence). Its five disjuncts
`NoEnd`, `FirstEnd`, `Backward`, `NotAdvancing` and `Forward` are the branches of
the code under the stability lock. `event` is what the `ayah_update` sent to the
client reports.

**`JobPipeline`**: `status` is the map `jobs`, `queue` the channel, `dir` and
`files` the job directories with their age, `create` where each `create_job`
call is, `worker` the worker tasks, `cleaner`, `todo` and `deleted` the cleanup
pass.

| actions | code |
|---|---|
| `StartUpload`, `FinishUpload`, `FailUpload`, `SaveRequest`, `InsertQueued`, `Send`, `RemoveRefused`, `DropHandler` | `create_job` and its helpers; hyper drops the handler when the client goes away |
| `Receive`, `Begin`, `AcquirePermit`, `OpenInput`, `Transcribed`, `SaveResult`, `MarkDone`, `MarkError` | `worker_loop`, `process_job` |
| `StartPass`, `CheckEntry`, `StatEntry`, `RemoveEntry`, `ForgetEntry`, `EndPass` | `run_job_cleanup_once` |
| `AgeDir`, `AgeJob`, `Restart` | time; the process |

**`TranscriberPool`**: `Ask` and `Grant` are the semaphore, `Start`, one `Load`
for each counter and `Take` are `pick`, `DropLease` and `Release` the end of a
request. `noise` is a history variable: how many counters changed while a caller
was picking.

**`JobService`** is the abstract specification of the batch API: the state a
client polls, the results it can fetch, the finished jobs the retention protects
no more. A job moves from new over queued and running to done or error, once;
`Succeed` makes the result appear with the status, and only what is `old` is
expired or forgotten. `JobPipeline` instantiates it with a refinement mapping
(`ServiceState` reads the map and, for jobs that are not in it, whether their
handler is still before the insertion; `Fetchable` reads map and disk), and
`ServiceIsKept` is its specification under that mapping. Uploads, the channel,
permits, directories and most of a cleanup pass are stuttering steps of the
service.

**`RollingTranscript`**: `words`, `lastRefresh` and `force` are the fields of
`RollingTranscript` in `streaming.rs`, `at` the processed position in ticks, which
may be as short as one likes: the overlap of the merge and the distance at which
copies count as one are constants, in ticks. A recitation is a set of words with their true times; the
transcriber hears the words that lie in a slice, may or may not hear those the
slice cuts off, and gives times that are off by one shift per window and
confined to the slice.

| actions | code |
|---|---|
| `StartWindow` | `extract_transcribe_pcm`: refresh or tail |
| `Ingest`, `TranscribeFails` | the answer: `ingest_words_into_rolling` or a new transcript; the error branch |
| `Prune`, `LowConfidence`, `Update` | after the alignment: 805-821 |
| `SkipSilentHop` | 452-483 |

**`MultiSpan`**: one `Scan` per turn of the loop over the segments (its disjuncts
`Skip`, `Follow`, `JumpAtOnce`, `Suspect` and `Confirm` are the branches), then
`EndScan` (the jump in the last segment), `Compact`, `Refine`, `DropIntro` as often
as it applies, `Activate`. A segment has a position, a surah and one of three
levels of confidence, or no alignment.

**`BandedAlignment`** is `weighted_banded_dp` cell by cell: `StartRow` and `DeadRow`
begin a row, `FillCell` fills one cell, `ChooseEnd` picks the end, `TraceSub`,
`TraceDel` and `TraceIns` are the steps of the traceback. **`AyahAlignment`**
extends it, so that the two are composed in one state: `Align` takes the steps of
`BandedAlignment`, and once it has returned `TimeAyahs` (the times of the words,
smoothed or not, the ayah of every word, the times of every ayah), `FillNext` and
`ClipNext` (the two repair passes) or `NothingMapped` follow. `UpgradeFails` is a
setting of `AYAH_WORD_TIME_UPGRADE` that the code refuses.

`MC...` modules only give constants their values. `...Proofs` modules hold the
theorems. The modules that share a component in the code are views of it:
`StreamSession`, `AudioRing` and `RollingTranscript` have the total and the last
processed position of one session in common (tasks and wake-ups in the first,
bytes in the second, words in the third); a window of theirs is one `Update` of
`Stability`, whose `reset_committed` and long `commit_skip` are the `Prune` of
`RollingTranscript` and whose `wantRefresh` is its `LowConfidence`; a `"transcribe"`
step of `StreamSession` or a `Holding` worker of `JobPipeline` is a caller of
`TranscriberPool`; a span that `MultiSpan` refines is one behaviour of
`AyahAlignment`.

## Runs

| run | module and specification | what it checks |
|---|---|---|
| `session_tasks` | `StreamSession`, two clients, silence, auth and no-audio limits, cap, failing transcriptions and a panicking aligner | `TasksOutliveStop`: no interleaving ends a task of a session that was not stopped. `HopsTile`: windows neither overlap nor leave a gap nor run ahead of the audio |
| `session_liveness` | `StreamSession` with fairness, one client | `BacklogDrains`, `SleepingProcessorStops`: wake-ups work where the processor sleeps and the backlog is worked off, a stop in between or not. `AbandonedGoesAway`: clients that never connect or fall silent do not keep a session, and a stopped one leaves the map |
| `stability` | `Stability`, five ayahs, two surahs, nine classes of evidence | a weak guess needs agreement (`CommitNeedsAgreement`), agreement suffices (`AgreementCommits`), only a strong restart moves back (`CommittedMovesBackOnlyByReset`), the lock does not flicker (`StableNeedsStreak`), no streak outlives what it is about (`LastSeen`) |
| `jobs` | `JobPipeline`, two jobs, two workers, a queue of one, failing uploads, clients, transcribers and disks, one restart | `OneHolder`: no job is lost or processed twice. `ActiveKeepsInput`, `DoneHasResult`: map, disk and answers agree. `ServiceIsKept`: it is a `JobService` |
| `jobs_progress` | the same with fairness, dropped handlers, failing transcribers and disks, one restart | `AcceptedFinishes`: an accepted job finishes unless a restart forgets it, and no failed one keeps the permit. `DirectoriesAreCollected`: the directories of finished jobs, of dropped uploads, of refusals whose own deletion failed and of jobs a restart forgot all go in the end |
| `ring` | `AudioRing`, an odd hop, frames from one sample to more than the ring | `RingHoldsLatest`, `SliceIsAudio`, `HopIsInSlice`; `LabelsAreClose`: a label is late by at most what was pushed in the race |
| `pool` | `TranscriberPool` with fairness, four callers, three transcribers, two permits | `InflightCountsLeases`; `PickIsLeastBusy`: an unlocked pick is wrong by at most the changes during it; `EveryoneIsServed` |
| `rolling` | `RollingTranscript`, twelve words of one to five ticks, with and without pauses | `WordsOnceInOrder`, `HopIsHeard`, `WordsLeaveForAReason`: merging neither doubles, reorders, misses nor forgets words without one of the reasons the properties name; `PruneRefreshes`: a prune is followed by a full refresh, failures in between or not |
| `multi_span` | `MultiSpan`, every recording of up to five segments | `SpansTile`, `JumpsAreSeams`: the indexes agree through every split and renumbering; `SplitsAreJustified`, `NoJumpMissed`: no span without a reason and no reason without a span |
| `align` | `AyahAlignment`, transcripts of two to four words, every offset and band, times smoothed, as they came, or refused | `TraceIsPath`; `AlignmentIsCheapest`: compared with every path through the band; `SegmentsFitTheWords`: the repaired times of the ayahs are in order, and hold those of their words if these were smoothed or came in order |
| `session_lost_wakeup`, `jobs_slow_upload` | one property each | violated; see the next section |

The type invariants of `StreamSession`, `JobPipeline`, `AudioRing` and
`TranscriberPool` are checked in their safety runs; those of `Stability`,
`RollingTranscript`, `BandedAlignment` and `MultiSpan` are part of the inductive
invariants of their proofs.

Deadlock is checked in `pool`, whose callers ask again for ever, and in
`stability`, which always takes another window. In the other modules the system
does stop (the session is over, all jobs are done and collected, the audio the
bound allows was received, a recording or an alignment is finished), so the check
is off there.

## Where code and documentation disagree

- **A stop can miss the processor** (`session_lost_wakeup`). `request_stop` uses
  `notify_waiters`. A stop after the processor has read `stop_requested`
  (`streaming.rs:439`) and before its next `notified()` (433) wakes nobody; no
  audio follows, so the task, and with it the ring, stays. The comments at 413 and
  at `cleanup.rs:133` say the loops wind down and the buffers do not accumulate.
  `SleepingProcessorStops` is the part that does hold.
- **A slow upload can be deleted once queued** (`jobs_slow_upload`). If the upload
  outlasts the retention, a cleanup pass finds an old directory without a job,
  the handler then inserts the job, and the pass deletes both. `README.md:173`
  says queued jobs are never deleted. With uploads shorter than the retention
  `ActiveKeepsInput` holds (`jobs`).

Seen while modelling, and not violations of anything a run states:

- After the watchdog's stop the WebSocket of a session stays open and
  `push_pcm16le` goes on taking audio (`Frame` has no guard on `stopReq`);
  `demo.rs:288` calls the length of a demo session capped.
- A `hop_s` whose bytes are odd gives every other slice an odd start, inside of a
  sample; the code at 973 trims an odd length only.
- A push between the read of the total and the lock moves a full ring on, and the
  slice with it, but not its label; `LabelsAreClose` bounds the error.
- The comment at 805 says a prune keeps text from before the jump out; the refresh
  it forces transcribes the whole window, from before the jump as well.
- A refresh that is asked for by low confidence is lost when its window fails: the
  flag is cleared first (934). After a prune the clock of the periodic refresh is
  reset with it, so that the refresh still comes if the session is old enough;
  that is the exception in `PruneRefreshes`.
- The alert `refresh_scheduled` (848) is sent without the condition of eight seconds
  that `MayRefresh` has.
- A word that goes on through a gap between two slices longer than the overlap of
  0.25 s, after failed attempts or skipped silence, can be heard as a first half by
  the one and as a second half by the other. Both halves stay (`Halves` in
  `WordsOnceInOrder`), and the behaviours of `rolling` contain it.
- With `AYAH_WORD_TIME_UPGRADE=off` words whose times cross are not put in order, and
  the clipping (1550 of `alignment_v2.rs`) can start an ayah after its own word;
  `SegmentsFitTheWords` then says only that the ayahs are in order.
- The position reported for a confirmed jump is the start of the segment that
  confirms it, while its index is that of the first one (`multispan.rs:261`);
  `JumpsAreSeams` only has it inside of the new span.
- The comment at `multispan.rs:286` speaks of one good segment at the tail; the code
  wants it to be the very last segment, good or not.

## Bounds

| constant | value | why it is enough |
|---|---|---|
| `Clients` | 2 (safety), 1 (liveness) | two handlers already race in every pair of steps; the tasks do not count clients |
| `Hop`, `MinProcess`, `MaxTotal` of `StreamSession` | 2, 2, 4 and 1, 2, 3 | less than a hop, one hop, two hops pending, a first window larger than a hop; audio arriving before, during and after a window |
| `MaxAudio` | 3 and 2 | below `MaxTotal`, so that the cap is passed with audio still to come |
| `Limits` | auth, no-audio and silence; connect and no-audio | the clocks are independent of each other; each is in a run |
| `MaxAyah`, `BigJump` | 5, 3 | every distance the code tells apart: equal, back by 1, 2, 3 and more, forward by 1, 2 (a skip), 3 and more (a big jump; 8 in the code) |
| `Evidence` | nine | one on each side of each threshold |
| `StreakCap` | 3 | above the commit streak of two, at which the code stops looking |
| `Jobs`, `Workers`, `QueueCap`, `Permits`, `MaxDelete` | 2, 2, 1, 1, 1 | two jobs fight for one slot, one permit, and one deletion of a pass; ids are never used twice, so more jobs add only more of the same pairs |
| `MaxRestarts` | 1 | what a restart leaves behind is the same each time |
| `Cap`, `Window`, `TailBytes`, `MinBytes`, `Hop` of `AudioRing` | 8, 6, 5, 4, 3 | an odd hop and tail, so that slices begin in samples and have odd lengths; an even one is a special case of the theorems; frames shorter than, equal to and longer than the ring; a window shorter than the ring, so that pushes during a window may or may not reach it |
| `MaxTotal` of `AudioRing` | 26 | the write position goes round three times |
| `Words`, `MaxTime` of `RollingTranscript` | 12 words, 44 ticks | words of one to five ticks that lie inside of, across and at the borders of hops, slices and windows; two windows and more, so that words grow old |
| `Hop`, `TailLen`, `Window` | 4, 9, 16 | the context is as long as the longest word, two failed attempts leave out more than the overlap, and a word may go on through what they leave out |
| `Overlap`, `Near`, `Jitter` | 2, 1, 2 | an overlap finer and coarser than the parts of words slices cut; times off by as much as the overlap forgives |
| `RefreshEvery`, `RefreshGap` | 24, 6 | a periodic refresh after a prune can and cannot be due |
| `MaxSegs`, `FarDist`, `Aligned` | 5, 2, five | near, just far and far by position, far by surah only, each level of confidence; a jump back and forth, two pending jumps in a row and an intro fit in five segments |
| `Transcripts`, `References`, `Offsets`, `Bands` | up to four words, -3 to 2, 0 to 2 | repeated words, unknown words, one and two words between those of two ayahs; bands that start before the reference, leave it, or hold all of it |
| `Callers`, `N`, `Permits` of `TranscriberPool` | 4, 3, 2 | more transcribers than permits and more callers than permits; a queue of two |

The safety properties do not rest on these numbers: the theorems below hold for all of them. `N = 0`, a
pool without configured transcribers, is covered by the theorems only.

## Fairness

- Tokio runs every ready task: weak fairness for each task and handler where it
  does not wait for its client (`ServerStep`, `ProcessorStep`, `WatchdogStep`,
  `HttpNotify`, `HandlerStep` without the upload, `WorkerStep`, `CleanerStep`).
- A request to a transcriber returns: the HTTP client has a one-hour time-out
  (`main.rs`). It is part of `ProcessorStep`, `WorkerStep` and `Proceed`.
- Tokio's semaphore is first come, first served. `TranscriberPool` models the
  queue; `JobPipeline` has no queue, and only assumes that a permit that stays free
  is taken by a worker that waits for it (weak fairness of `WorkerStep`), which is
  enough for two jobs.
- Time passes: weak fairness of the clocks, the reaper and the cleanup interval;
  strong fairness of `Retained`, the ageing of directories, which waits for the gaps
  between cleanup passes.
- A disk may fail any number of times, but not at every attempt for ever: the
  cleanup's metadata call and deletion, tried again in pass after pass, succeed
  some time (strong fairness of `StatStale` and `RemoveDone`). A directory that can
  never be deleted does stay, whatever the code does. Nothing of the kind is assumed
  of the handlers' and workers' calls, each of which happens once.
- Nothing is assumed of clients: they need not connect, send, finish an upload or
  leave. Nothing is assumed of failures or restarts.

`jobs_progress` has every failure but that of an upload, which goes the way of a
refused one: its handler deletes the directory or fails to. `session_liveness` leaves out what makes its properties false: a panic of the
aligner, after which no processor is left to stop, and a failing transcriber,
after which the processor sleeps on its backlog until the next frame.

## Proofs

| theorem | statement | run of the same property |
|---|---|---|
| `StreamSessionProofs!TypesHold`, `TasksAreKept`, `WindowsTile` | `TypeOK`, `TasksOutliveStop`, `HopsTile` | `session_tasks` |
| `StabilityProofs!LastSeenHolds`, `WeakGuessesNeverCommit`, `OnlyResetsMoveBack`, `AgreementAlwaysCommits`, `LockNeedsStreak`, `RefreshesAreSpaced` | `TypeOK` with `LastSeen`, the other properties of `stability`, and `RefreshIsSpaced` | `stability` (all but the last) |
| `AudioRingProofs!TypesHold`, `RingIsRight`, `SlicesAreAudio`, `LabelsStayClose`, `HopsAreHeard` | the properties of `ring` | `ring` |
| `TranscriberPoolProofs!TypesHold`, `CountersAreExact`, `PicksAreLeastBusy` | the safety properties of `pool` | `pool` |
| `JobPipelineProofs!TypesHold`, `JobsHaveOneHolder`, `ActiveJobsKeepInput`, `DoneJobsHaveResults`, `ServiceIsImplemented` | the properties of `jobs`, the last one `Spec => Service!Spec`, for uploads shorter than the retention | `jobs` |
| `RollingTranscriptProofs!TypesHold`, `PrunesRefresh`, `HopsAreHeard`, `WordsAreOnceInOrder`, `WordsLeaveWithReason` | `TypeOK` and the properties of `rolling` | `rolling` (all but the first) |
| `MultiSpanProofs!SpansTileTheRecording`, `JumpsAreTheSeams`, `SplitsHaveReasons`, `JumpsAreFound` | the properties of `multi_span` | `multi_span` |
| `AyahAlignmentProofs!TracesArePaths`, `CheapestIsFound`, `SegmentsFit` | the properties of `align` | `align` |
| `JobPipelineProofs!ActiveJobsAreNeverDeleted` | `ActiveIsNeverDeleted`, for uploads shorter than the retention | `jobs_slow_upload` violates it for longer ones |

All of them assume only the named assumptions of their modules: a hop, a
number of permits and the like are positive, a hop is no longer than a window and
a window no longer than the ring (as `validate_stream_cfg` and the session's
constructor make them), sets of clients and callers are finite, the words of a recitation follow one
another and fit into the context of a tail slice, transcripts and references are
not empty, costs are natural numbers, and the ayahs of a reference are in order
(it is a stretch of the Quran). Clients, limits, failures, lengths, evidence, recitations, recordings,
references and costs are arbitrary. The theorems about `JobPipeline`
also assume `~SlowUploads`; `jobs_slow_upload` shows why.

The arguments, one inductive invariant for each module:

- `StreamSession`. That a window never runs ahead of the audio is not inductive:
  a window is decided on the total read earlier. `IInv` adds that a window under
  way has a whole hop before it (`WholeHop`) and that a stop the processor has seen was requested
  (`StopsSeen`), and, for the bound on the audio, that the frames waiting for
  the lock are counted.
- `Stability`. The action properties speak about the update before; `LastSeen`
  ties the pending ayah and the streaks to it and is inductive with `TypeOK`.
- `AudioRing`. `RingHoldsLatest` is stated by positions behind the write position,
  and `Write` and `Overwrite` are shown to keep it by arithmetic on the wrapped
  indices (`ShortFrame`, `WriteKeeps`, `OverwriteKeeps`); `CopyRangeReads` turns
  it into what a slice holds. `Bounds` adds the order of `last`, `end`, `seen` and
  `total`.
- `TranscriberPool`. A counter is compared with the cardinality of a set of
  callers, so each step shows which element the set gains or loses. For a pick,
  `Scans` relates every counter already read to its present value by the `noise`
  since.
- `JobPipeline`. `OneHolder` counts; its inductive form says of each job in which
  one place it is (`OnePlace`), what that place says of its status
  (`PlaceStatus`) and the other way round (`StatusPlace`). What the cleanup may
  do rests on `CleansGone`: an entry it is about to delete belongs to a job that
  no handler or worker will touch again (`Gone`), or its directory is still fresh
  and will be spared. That is where `~SlowUploads` is needed: a directory does not
  turn old while its handler writes it. `OnDisk` says what is in a directory at
  each stage.
- `ServiceIsImplemented` goes through the handlers, the worker, the cleaner, time and
  restarts (`HandlerServes`, `WorkerServes`, ...): each step is a named step of
  `JobService` on one job (`OneIsSeen`) or changes nothing a client sees
  (`NothingIsSeen`). It needs that a finished job ages before it is removed
  (`OldKeeps`) and, from `IInv`, that a done job has its result on disk and that an
  entry being deleted is nobody's any more.
- `RollingTranscript`. That a refresh follows a prune needs that the flag is set or
  the clock is reset while it is owed. That a hop is heard needs that merging keeps
  every new word (`Deduped` drops a word only for an earlier copy of the same, to
  which it gives the later end) and
  that the context is as long as a word. That words are there once and in order
  needs a history of each of them: `AllHeard` says that it was heard in some slice
  that had ended by now, with the common error of that slice, cut only at the
  slice's borders. An older copy that is kept then ended before the new slice began, by more
  than the overlap, so that a second copy of its word is the other of two `Halves`,
  and the order of the starts is the order of what was said. It follows that the
  deduplication has nothing to merge (`NothingToMerge`): copies within its distance
  are within the overlap.
- `MultiSpan`. `Tiled` and `Sewn` say of sequences of spans and jumps what `SpansTile`
  and `JumpsAreSeams` say of the state; lemmas show that they survive a new end
  (`ExtendChain`), a split of the last span (`SplitChain`) and the loss of the first
  span. `Scanning` is what makes a split safe: a pending jump lies after the last
  trusted segment, that one lies in the current span, and every reported jump
  before it. It also shows that no span is ever empty, so that the compaction and
  its renumbering change nothing (`CompactIsIdle`), whatever they are for. The
  reasons for the splits need what the scan remembers: `JInv` says that the last
  trusted segment is the last one of `trusted` (`Trusts`), that a pending jump is the
  last good segment and far from the last trusted one (`PendingIsLast`), and that
  every jump has its reason, which more segments do not undo (`JustifiedStays`).
- `AyahAlignment`, the traceback: the words after row `i` are mapped beyond column
  `j` and the counts add up to the rows and columns passed (`Traced`, `Balanced`);
  what is in the table does not matter.
- `AyahAlignment`, the cheapest path, in two halves. `Best`: no path of the band
  comes to a cell of the row filled last for less than the cell says, or for as
  little with more matches, and the same of the part of the next row that is filled.
  A path comes to a cell by one of three edges, and `BestCell` is beaten by none of
  them (`FillCellIsBest`). `Explained`: the two rows that the code keeps belong to a
  table of all rows in which every cell has what its move gives it, so that each
  step of the traceback puts behind it exactly what its cell has more than the next
  one (`TraceStep`). At the end nothing is left in the cell, and what lies behind
  is the cost of the mapping. Sums over rows are a recursive function; that it
  exists and what it does (`SumsExist`, `SumsType`, `SumsMove`) is shown by the least
  number for which it fails.
- `AyahAlignment`, the times: `Smooth` leaves the words in order (`SmoothIsInOrder`);
  for other settings their order is a hypothesis (`InTime`). The words of the span
  belong to ayahs in order (`SpanIsInOrder`). A word on a border goes to one of the
  two ayahs around it, so that the words given to an earlier ayah end before those of
  a later one begin (`WordsAreApart`). From then on no pass moves an ayah off its
  words: the ayahs before that of a word are over when the word starts (`Fitted`),
  which is why `Clipped` never cuts into them. Whatever the order of the words,
  `Reached` says how far the passes are: every ayah that the first one has left has
  times, and those that the second one has left are in order.

Every invariant and action property of a passing run is proved. Only model-checked
are the liveness properties, which are beyond TLAPS: `BacklogDrains`,
`SleepingProcessorStops`, `AbandonedGoesAway`, `AcceptedFinishes`,
`DirectoriesAreCollected` and `EveryoneIsServed`; and the runs that show a violation.

## Abstractions

- Relaxed atomics are read and written in program order, as on the platforms the
  service is built for; a handler's writes around one await are one step when
  nothing in between is visible to another task.
- A watchdog tick reads its clocks and counters in one step: each is monotone or
  reset only by a client's action, which may as well come before the tick.
- `StreamSession` counts audio in frames of one unit and takes the loudness of a
  frame as an input. What the transcriber and the aligner answer is not part of
  it, only that they answer or fail.
- The silence clock has four values: loud, silent, beyond `silence_skip_after_s`,
  beyond `silence_stop_after_s`.
- `Stability` keeps one number for an ayah's key and its global number, which
  determine each other, and fractions in percent. Every threshold is an exact
  number of percent.
- The append to the ring and the increment of the total are one step: both happen
  under the lock, and the processor's unlocked read sees the total alone.
- A job directory is absent, modified within the retention or before it. A cleanup
  pass compares with the clock it read when it started, so a directory turns old
  only between passes. A handler that is not uploading takes less than the
  retention.
- `RollingTranscript`: times are whole ticks, but of any length: overlap, distance of
  copies, errors and words are measured in them, and the theorems hold for every
  choice. The error of the times is the same for a whole window and at most the overlap. A
  word is known by what was said, so that two equal words of a recitation are told apart. The audio of a slice
  is complete, as `AudioRing` shows for a ring that is long enough. Which skipped
  hop was silent, when a window fails and what the alignment decides is open.
- `MultiSpan`: the transcript has at least one segment (without one the code aligns
  the whole text and returns). Of a span's alignment only the levels the heuristics
  compare are kept. Durations are not modelled: the two conditions of an intro
  that are about time may hold or not.
- `BandedAlignment`: costs are naturals and `Inf` absorbs what is added to it, as
  1e18 does in a double; all comparisons of the code are exact ones. Which words
  are confused at which price (`SubCost`) is a constant. The results of ten
  candidates are ranked by numbers that no property is about: one is modelled.
- `AyahAlignment`: a word has both of its times or neither; the reference consists of
  whole ayahs; the time base is `absolute`, as in the only call (`multispan.rs`).
  `word_time_upgrade` and the times are chosen where they are first used, after the
  alignment, except for a setting that is refused, which ends the call before it.
- `SlowUploads = FALSE` assumes uploads shorter than the retention (a day by
  default).

## Not modelled

- Broadcast delivery of updates: the forwarder of a socket ends on the first lag and
  is aborted at the end, nothing is promised of what arrives.
- The demo rate limiter: its windows are checked, pruned and filled under the lock of
  one map entry, without a step of another request in between.
- The Python transcriber: chunks and their seams, and the batch size after running
  out of memory, would make a module of their own.
- The demo client: the life cycle of a browser page; the server's side is modelled.
- How `alignment_v2.rs` finds, ranks and prunes candidate windows, `guessing.rs`, text
  normalisation, `npy.rs`: numeric code over large tables, without state.
- Access checks, configuration and payloads: single reads and formats.
- The Swift transcriber and the data tools: no state beyond a request or a run.

## Plan

Done: `StreamSession`, `Stability`, `JobPipeline`, `AudioRing`, `TranscriberPool`,
then `RollingTranscript`, `MultiSpan`, `BandedAlignment` with `AyahAlignment`, and
`JobService` with the refinement. What would come next, in order of importance:

1. `UpdateDelivery`: broadcast channel, forwarder and close of a socket, together with
   a specification of what a client of a stream may rely on.
2. `ChunkedTranscriber`: chunk building and the out-of-memory ratchet of the Python
   transcriber.
3. The composition of `StreamSession` and `TranscriberPool`, to show that a session's
   windows are served while batch jobs hold permits.
