# Verification of netease-music-api

TLA+ models of the parts of this repository whose behaviour depends on
interleaving, failure, resumption and shared limits; TLC configurations that
check them on small instances; and TLAPS proofs for every instance. Paths are
relative to the repository root; `engine/` stands for
`crates/infra/src/download/engine/`, `handler/` for
`crates/adapter/src/web/handler/`.

    tlc -workers 2 -config resume_job.cfg MCResumeJob.tla
    tlapm ResumeJobProofs.tla

The other seven `*Proofs` modules are checked the same way.

## 1. The system

An Axum server resolves NetEase songs to download links, downloads them with
resumption, tags and zips them, for one song at a time or in batches. It is one
process. Its only persistent state is a set of files: final files, `.part` files and
their `.part.json` sidecars, zips, statistics, runtime configuration, cookie,
password hash.

| Component | State | Operations | Talks to | What is hard | What makes it correct |
|---|---|---|---|---|---|
| Download engine (`engine/job.rs`, `ranged.rs`, `single_stream.rs`, `manifest.rs`, `wrapper.rs`) | `.part`, sidecar manifest, FSM state, refresh budget, in-memory manifests of the attempts | attempt, refresh, resume, rename | refresher, registry, retry, progress callback | crash between write, record and rename; expired links; dropped futures; chunk tasks that outlive the attempt; preallocated files; a threshold changed between two jobs | the sidecar is behind the bytes; a published file is whole until its tags are written; a job ends; the FSM agrees with the driver |
| Single-song tasks (`handler/download_async.rs`, `persistence/task_memory.rs`) | task store, `dedup`, `cancelled`, zips | start, worker, cancel, result, TTL cleanup | permits, engine, zip directory | check then act on concurrent maps; cancel against worker; two retrievals; cleanup of records and of zips, each with an age of its own | one worker per key; a key never stays bound; a task settles; a zip has an owner |
| Batch worker (`handler/download_batch.rs`) | loop state, two prefetch slots, triggers, counts | start, iterate, prefetch, cancel, pack | permits, engine, registry | slot rotation over all the exits of an iteration; polling prefetches; duplicates that only show once resolved | slots aligned; every prefetch is triggered; counts add up; terminal stage |
| Permits and gauges (`helpers/permit.rs`, `state.rs`) | three semaphores, two gauges | acquire with or without timeout, try, drop | statistics, all handlers | opposite orders of acquisition; timeouts; dropped futures | no permit lost or made; gauges exact; no deadlock |
| Run-time limits (`handler/admin.rs`, `kernel/src/runtime_config.rs`) | configuration, caps | PUT config, resize | semaphores, task store, cover cache | concurrent PUTs; shrinking while in use | semaphore follows the limit |
| Disk guard, in-flight registry, cleanup loop (`disk_guard/`, `in_flight.rs`, `src/main.rs`) | reference counts per path, files by age | register, snapshot, select, evict | engine, batch worker | snapshot used after it is stale; sidecars and published files not registered; sizes the API has wrong | nothing in use is evicted; what was promised is there, less a known amount |
| URL refresher (`helpers/refresher.rs`) | none | fetch a link of the same quality | API, engine | another size, failure | same size, or start over |
| Retry and error kinds (`infra/src/http/error.rs`, `retry/`) | backoff | classify, retry | all clients | kinds lost in conversion | retry only what may succeed |
| Rate limiter (`rate_limit/governor_limiter.rs`) | bucket per user | acquire, evict | API decorator, CDN | creation race, eviction of active users | rate per user; never blocks for ever |
| Cover cache (`cache/cover_cache.rs`) | map with ages | fetch, update limits | engine, batch | concurrent misses at capacity | bounded, fresh |
| Statistics (`persistence/stats_file.rs`) | gauges, totals, dirty flag, file | increment, decrement, flush, load | permits, SSE | clamp, flag cleared before write, crash | gauges exact, totals reach the file |
| Administration: password, token (`handler/admin.rs`, `infra/src/auth/`) | hash in memory and file, secret | setup, login, validate | all admin handlers | two setups | one password, same in memory and on disk |
| Song information, quality ladder (`domain/src/service/`, `model/quality.rs`) | none | resolve with fallback | API | what falls back, what does not | highest available quality at or above the floor |
| NetEase client, id extraction, pages, router, SSE, build tool | none that matters | | | | |

Interactions: handlers share `AppState`: `DashMap`s (one access is atomic, two
are not), `ArcSwap` configuration, tokio semaphores. Workers are spawned tasks.
The engine calls back for progress. The engine's chunk tasks are spawned, so
dropping the job does not stop them. The cleanup loop and the disk guard remove
files under all of them.

`PROJECT.json` lists the hazards, each at its line, and the properties aimed at it.

## 2. Modules

### ResumeJob

One destination path: `.part`, sidecar, final file; one job at a time on it, one
job after another, and the chunk tasks and tag writes earlier ones left running.

* **Data.** A file is a sequence of *units*, one chunk of the ranged grid each;
  a unit holds the size of the resource its bytes came from, 0 for a hole. That
  is what the properties tell apart: written or not, and from which resource.
  `sidecar` and `mem[s]` are manifests: a size and a set of chunks (the interval
  list of `manifest.rs` as the set it denotes). `laid` tells a `.part` a ranged
  attempt has laid out at its full length; `tags` is the state of a file's tags,
  which are not bytes here.
* **Threshold.** `ranged_threshold` is an administrator's setting that each job reads
  once: `StartJob` picks `threshold` from `Thresholds`. So a song may be ranged in
  one job and streamed in the next, over the same `.part` and sidecar.
* **Control.** `st` and `Advance` are `ResumeState` and its table (`job.rs:79`).
  `pc` is the await the driver is at. `StartJob` is `run_resumable_download` to
  its first attempt; `RefreshSame`, `RefreshMismatch` and `RefreshError` the three
  results of the refresher; `AttemptOk`, `AttemptUrlExpired` and `AttemptFatal`
  what the driver makes of an attempt. `Probe*`, `OpenPart`, `First*`, `Join*`
  are `ranged.rs` in order; `ChunkWrite`, `ChunkFail`, `ChunkRecord` a spawned
  chunk task; `AcceptByLength`, `Request*`, `Stream*` are `single_stream.rs`;
  `Rename`, `RenameError`, `UnlinkSidecar` the publication; `TagBegin`, `TagSkip`,
  `TagEnd`, `TagReturn` the tags a blocking thread writes into the published file,
  in place; `TagCached` those of a request that finds the file usable. `AcceptByLength`
  ends a job with `how = "preallocated"` when the file it accepts was laid out, with
  `"length"` when it was not.
* **Environment.** `Crash` at any step; `Abandon` when
  `download_timeout_per_song_secs` drops the job (a rename or a tag write already with
  the blocking pool goes on); `EvictPart`, `EvictSidecar` and `EvictFinal`
  for the cleanup loop and the disk guard. `EvictPart` may come in the middle of a
  job: the cleanup loop tests the semaphore and the disk guard the registry before
  they remove anything, and some downloads hold no permit. What is then written
  through a handle to the removed file is lost.
* **History variables** (`detached`, `overtaken`, `reported`, `fellBack`, `how`) are
  read by properties only. `overtaken` is set when a stream writes where there is a
  sidecar with chunks: the `.part` they spoke of was evicted without it, or a raised
  threshold has made a stream of a ranged job's song.
* **Left out.** The progress callback, durations, buffering below `write_all`
  (a chunk's write and flush are one step), a write error's message. A song of
  unknown size (content length 0) is outside `Sizes`: it is streamed whole, without
  resumption or length test. The retries of a batch's tag write are one write. A tag
  write that is queued acts on the file its own job has published.

### Download

What a reader of a path may rely on, in four variables: nothing, or one file
published in one step, whole as long as the job is `trusted`. From then on only its
tags are written (`Tag`, `TagEnd`): while that lasts, or once it broke off, a reader may
find anything. A published file may go at any time (`Evict`). `ResumeJob` defines
the refinement mapping (`Promise`, an `INSTANCE` with `job`, `path`, `tags` and
`trusted` as expressions over its own state) and the property `ImplementsDownload`.
`trusted` is lost where a finding begins: an orphan, a second size, a
job that accepts a laid-out file by its length; and when a stream takes over beside a
sidecar.

### Tasks

`download_async.rs` over the shared maps. Every access to a map is one action:
`StartLookup` then `StartCreate`; `CancelMark` then `CancelStage`; `ResultRead`,
`ResultMark`, `ResultServe`; `CleanupCollect` then `CleanupRemove` one by one.
A worker's program is `worker[t]`: queue for a permit, `BeginFetch`,
`FetchInfo`, cancel check, `BeginDownload`, `Download`, second check,
`BeginPackaging`, `BuildZip`, `Finish`, or `ReportError`; then `Undedup`. The
download job itself is one step with its outcomes: its own module is ResumeJob.
`QueueTimeout` needs `free = 0`, as a worker that waits while a permit is free
gets it. Ages are abstracted: whatever a TTL permits may happen at any time, and
as `zip_max_age_secs` and `task_ttl_secs` are set independently, `OrphanZip` removes any
zip whatever its task is at; `aged` remembers which. `BuildZip` may fail
before it creates the file or after: what it then leaves is no record's (`partial`).

### Permits

A request is the program of its permits (`AsyncProgram` ... `ParseProgram`), as
the handlers take and drop them. A semaphore is tokio's: a FIFO queue, a
released permit goes to the head. `Take` is `PermitGuard::from_permit`,
`GiveBack` its `Drop`. A request holds a set of guards; unwinding drops them
youngest first (`Youngest`, the reverse order of the program). `Leave` and `Disconnect` begin the unwinding an early
return, a panic or a dropped connection causes. `Put`, `Store`, `Swap`,
`AddPermits` and `Forget` are `apply_runtime_config` and `resize_semaphore`, at
the grain of their atomic accesses. A wait with a timeout may end at any time.

### Batch

`batch_download_worker`: `pc` is the place in the loop, `n1`, `n2` the prefetch
slots (the index of the song a slot's task is for), `trigger[j]` the atomic that
task polls, named by the iteration that created it, `fired` the atomics that are
set. The exits of an iteration are actions (`ParseFails`, `PermitTimeout`,
`Cached`, `NoSpace`, `Downloaded`, `DownloadFails`, and the duplicate branch of
`Resolved`). `UsePrefetch` needs a finished prefetch; `ResolveId` stands for
every other result of the 60 s wait, which detaches the task. Cancel handlers
are those of Tasks; the batch reads `cancelled` only at the head of an
iteration. The permits a batch takes are in Permits.

### DiskGuard

The downloads directory and all that deletes from it. A job takes one of three
routes (`Route[j]`): `music` holds a permit and registers before it calls the guard, `meta` does the same
without a permit, and `batch` calls the guard before anything is registered. `Measure`, the scan, the plan and each eviction are separate
steps, between which other downloads and the sweep run; a snapshot of the registry and
the list of files are used after they are stale. The sweep of `main.rs` tests the permits, then
walks the directory. Age is one bit; the guards
(`holds`) and the registry's counts (`paths`) are kept apart, as the code does.

What the guard asks for is what the API reports (`Report[j]`, 0 when it has no size);
what a download writes is up to `FileSize`, whatever was reported. Tags make the
published file longer (`Tag`, up to `TagSize`). A file removed while a download has it open moves
to `Removed(p)` and keeps its space until the last of its writers closes it.
Simplifications: `Complete` takes a `.part` of any length (ResumeJob is about which ones
are complete); a job closes each file it has open in one step; the space of a removed file
comes back at some later time. Units are what is written: a laid-out
`.part` may be listed longer than it is, which only the guard's estimate of what an
eviction frees would see. Zips and temporary files, which share the disk, are not in it.
The downloads of `download_async.rs` differ from `meta` in holding more (a permit): what
holds of `meta` holds of them.

### PartManifest

The interval list of `manifest.rs` as a sequence of closed byte intervals and the
operators that compute with it (`RecordedIn` with its merge and its sort, which is
some list sorted by start, as `sort_unstable_by_key` promises no more;
`NextMissing`, `IsRangeComplete`, `CompletedBytes`), driven by a ranged attempt
that starts again with another number of threads. Its tasks are interleaved: `RecordChunk` takes the lock and
records, `Save` or `SaveFails` follows under it, `Count` adds the chunk to the
progress after the lock is released. A chunk whose save fails stays recorded and is
not counted. It justifies the sets of chunks of ResumeJob.

### SongLinks

One request for song data, of thirteen kinds (the song handlers, their pages, the
refresher, search, album, playlist, metadata). `leg` is the API calls it makes,
some of them concurrently (`tokio::join!`); `tries` their retries; `rungs` what is left
of the quality ladder. The service's answer is any member of `Answers` at any
attempt, among them those whose risk code the client does not see because it
peeks at 200 bytes of an error's body only (`Unread`); `FailureKind` and `Classified` are what the client makes of it, `Results`
what each call returns, `InfoReply`, `JsonReply` and `PlainReply` what the handler answers.

### Administration

Password and configuration in memory and on disk. A setup is check, write in
place (truncate, then write), store; a change of the configuration is store, write of
the shared temporary, rename. `Crash` may fall between any two of these, and
`Start` is what `main.rs` loads. `fd` says what a caller's open temporary has
become when another caller has renamed it.

### Statistics, RateBuckets, CoverCache

`Statistics`: counting under the lock, flag, notification and broadcast of each
request; the flush loop that takes the flag before the lock and writes in place;
a page that subscribes before it reads. `RateBuckets` and `CoverCache`: a
concurrent map with a lookup, a test of its size, an eviction in two steps (find the
oldest, remove it) and an insertion, and no lock around them.

### MC modules

`MCResumeJob`, `MCTasks` and `MCBatch` extend the component's module and define
the constants a `.cfg` cannot express. Three others let one run check several
instances that share no state: the first state chooses and the others
keep theirs. `MCPermits` chooses between the scenes "traffic" (requests of every
kind) and "resize" (parse requests against administrators); `MCStorage` between
DiskGuard and PartManifest; `MCServices` between SongLinks, Administration,
Statistics, RateBuckets and CoverCache. Definitions introduced by a
comment `Mutant` are plausible bugs of the definition that follows; no
specification uses them. They show that each property can fail.

## 3. Runs

| Run | Module | Bounds | Shows |
|---|---|---|---|
| `resume_job` | MCResumeJob | sizes {2, 3}, thresholds {2, 3}: one size always streamed, one ranged or streamed by the job; 1 refresh, 1 retry, 2 jobs, 2 attempts with live tasks | `TypeOK`, `FsmFollowsDriver`, `ManifestNeverAhead`, `HolesOnlyByLength`, `LengthIsProgress`, `ResumeWithinWritten`; `JobsTerminate`; refinement `ImplementsDownload` |
| `resume_fallback` | MCResumeJob | one ranged size, 2 jobs | finding: `FallbackRedownloads` fails |
| `resume_orphans` | MCResumeJob | one ranged size of 3 chunks, 2 jobs | finding: `ManifestBehindBytes` fails |
| `resume_mismatch` | MCResumeJob | two ranged sizes, 1 job | finding: `MismatchRestartsWhole` fails |
| `tasks` | MCTasks | 1 key, 2 tasks, 1 permit, 2 start handlers, 1 result handler | `TypeOK`, `DedupNamesRunning`, `OneWorkerPerKey`, `DoneKeepsZip`, `ZipHasOwner`, `TerminalIsFinal`; `WorkersEnd`, `TasksSettle` |
| `tasks_dedup` | MCTasks | 2 start handlers | finding: `OneActivePerKey` fails |
| `tasks_cancel` | MCTasks | 1 task | finding: `CancelSettles` fails, under fairness |
| `permits` | MCPermits | traffic: 4 kinds of requests, 1 permit per semaphore; resize: 2 parse requests, 2 administrators, limits 1 and 3 | `TypeOK`, `GaugeCountsGuards`, `PermitsMatchCap`; `RequestsEnd` |
| `permits_shrink` | MCPermits | resize: 2 parse requests, 1 administrator, limits 1 and 2 | finding: `DrainedWithinConfig` fails |
| `batch` | MCBatch | all duplicate patterns up to 3 songs, four of 4 songs | `TypeOK`, `SlotsAligned`, `PrefetchesTriggered`, `CountsAddUp`, `TracksDistinct`; `WorkerEnds`, `PrefetchesEnd` |
| `storage` | MCStorage | any 2 of 3 jobs, `music` and `meta` on one path, `batch` on another; songs of up to 2 units, tags of 1, reported sizes 2, 3 and 0, disk of 4, reserve of 1. 11 bytes, 1 to 4 threads | `StorageTypeOK`, `InFlightKept`, `SpaceReserved`; `IntervalsDenote`, `ProgressExact` |
| `services` | MCServices | 2 attempts, 2 playlist chunks; 2 callers, 2 passwords, 1 configuration beside the default; 2 handlers, 3 requests counted; 2 callers of 3 users, 1 bucket; 2 fetches of 3 covers, sizes and lifetimes 1 and 2 | `ServicesTypeOK`, `BestAvailable`, `RiskCodesKept`, `PasswordAgrees`, `ConfigLoadable`, `DirtyOrSaved`, `WatcherCatchesUp`, `CachesBounded` |

**Why the bounds are enough.** *ResumeJob*: with two chunks something can be done and
something missing, and a second job is what meets the leavings of a first (its
files, its orphans); the sizes and thresholds let a path be
fetched both ways by two jobs of one size and let a refresh disagree. One refresh shows the budget's
boundary: one that is used, one that is exhausted. *Tasks*: two tasks of one key and
one permit is the smallest instance with a queue, an overwritten `dedup` entry
and a worker that removes another's entry. *Permits*: with one permit per semaphore
every opposite order can meet; two administrators are the least that can
disagree and limits that differ by two permits make a shrink several steps. *Batch*: a slot is
used two iterations after it is armed, so four songs let a rotated slot meet a
newly armed one. *DiskGuard*: two jobs of one path are the least that can release a
path another still holds, and two of different paths evict each other's files; all
three at once are out of TLC's reach and left to the proofs. A disk of
four units with a reserve of one has room for one song with its tags, so what is
left over has to go; a job is let in on a size that is right, one that is too large and one
that is unknown. *PartManifest*: 11 has a remainder for 2, 3 and 4 threads, and
the grids of 3 and 4 cut each other's chunks. *SongLinks*: two
attempts show one that is retried and one that is final (the code has three).
*Administration*: two callers are the least that race; with one configuration
beside the default and an invalid one every file may hold the wrong one.
*RateBuckets*, *CoverCache*: one bucket and one or two covers put every miss at
capacity; three users or covers leave a third to be evicted or kept. `MaxLive`,
`MaxJobs`, `MaxTasks`, `MaxSongs`, `MaxTotal`, `MaxClock`, `MaxMeetings`, `MaxEpoch` and
`MaxOverlaps` are the bounds in the guards; all others are parameters of
the system. TLC visits 1,080,438 distinct states in `resume_job`, 704,912 in
`tasks`, 152,795 in `permits`, 1,141,997 in `storage` and 1,259,956 in `services`.

**Deadlock.** In ResumeJob a crash is always possible, so the deadlock test says
nothing; `JobsTerminate` is what shows that no job is stuck. The other modules
may stop (all tasks ended, every client idle): their cfgs turn the test off, and
`WorkersEnd`, `RequestsEnd` and `WorkerEnds` show that nobody waits for ever. In
DiskGuard and the services nobody waits for anybody: each step is one of a
handler that runs, and the model stops when the bounded number of requests is
served. No liveness is stated of them.

### Fairness

* *ResumeJob*: weak fairness of the driver as a whole, of each chunk task and of
  `TagEnd`. The first two are spawned futures the runtime polls, and each await in
  them ends: requests by the client's timeouts, streams by the stall watchdog
  (`stall_secs` is bounded to 5..600). The last is a thread of the
  blocking pool that writes one file. Not of crashes, evictions or new jobs.
* *Tasks*: weak fairness of each worker (the download has a timeout, a permit is
  waited for 60 s) and of a cancel that has begun. Not of the other handlers, the
  clients, a zip's timer or the ages.
* *Permits*: weak fairness of each request's own steps. What a request does while
  it holds permits has a timeout everywhere, so it goes on. Nothing is
  assumed of timeouts beyond that: a request that waits either gets its permit
  or gives up, and `RequestsEnd` holds although the unlimited wait of
  `download_async.rs:372` can only be ended by others giving up.
* *Batch*: weak fairness of the worker and each prefetch. Not of the progress
  callback: a download need not report progress, which is why every exit must set
  the triggers.

## 4. Findings

Each is a run that TLC must find violated; `PROJECT.json` quotes the claim.

1. A ranged attempt that falls back to a single stream accepts the preallocated
   `.part` by its length and publishes holes (`resume_fallback`).
2. Chunk tasks that outlive their attempt persist their manifest over a `.part` that
   does not hold those bytes (`resume_orphans`).
3. After a refresh of another size the job keeps the old content length
   (`resume_mismatch`).
4. Two concurrent starts of one song both create a task (`tasks_dedup`).
5. A cancel can leave a task in a stage that is not terminal for ever
   (`tasks_cancel`).
6. A limit lowered while permits are in use is never reached (`permits_shrink`).

The passing properties state what holds in spite of them, with the hypothesis
that excludes the finding: `Clean` (no orphan, one size, no sidecar
`overtaken`) in `ManifestNeverAhead` and its companions; `how = "preallocated"` in
`HolesOnlyByLength`; a `.part` that was `laid` out in `LengthIsProgress`; `overwritten` in
`OneWorkerPerKey`; `everCancelled` in `TasksSettle` and `ZipHasOwner`; `missed`
in `PermitsMatchCap`. Two hypotheses name more than the run of a finding shows.
Without `~overtaken`, TLC violates `ManifestNeverAhead`: a `.part` is evicted, its
sidecar stays, and a job streams the song because the threshold was raised (the size
test of the sidecar does not help, as the size is the same); a
later ranged job would trust the sidecar. And `how = "preallocated"` is finding 1 by
another way: a raised threshold sends a ranged job's laid-out `.part` to the length
test of the stream. `DoneKeepsZip` excludes zips
`aged` away and `ZipHasOwner` those a failed build left (`partial`): the first is a
configuration with `zip_max_age_secs` below `task_ttl_secs`, the second is swept up by
age. Others exclude what nothing in the repository promises: two
setups or two saves at once (`races`) and a failed save (`unsaved`) in
`PasswordAgrees` and `ConfigLoadable`, a failed write of the statistics
(`failed`), a resumption along another grid (`gridKept` in `ProgressExact`:
progress is then counted twice, the bytes are not). `ProgressExact` is less the chunks
recorded and not counted, or not yet. `RiskCodesKept` speaks of the
calls that decide a reply (`Deciding`): `handle_json` turns a warning to its link or
lyric into an answer without them (`song_service.rs:126-127`), and a warning the client
cannot read may become an unspecific error, but not an `ok`. `CachesBounded` and
`SpaceReserved` state by how much the code may exceed a limit: by the misses that met
another one (`meetings`, `overlaps`); by a song for each download ever
let in and a tag for each that wrote tags (`admitted`, `tagged`), counting the files that have a
name. A wrong size of the API costs no more than that.

## 5. Proofs

For every value of the constants, under the assumptions each component's module names.

| Module | Theorem | States |
|---|---|---|
| ResumeJobProofs | `TypeCorrect` | `Spec => []TypeOK`: the refresh count keeps its budget, no chunk outside the grid is recorded |
| | `FsmAgrees` | `FsmFollowsDriver` |
| | `ManifestStaysBehind` | `ManifestNeverAhead` |
| | `PublishedIsWhole` | `HolesOnlyByLength` |
| | `LengthTellsProgress`, `ResumesWithinWritten` | `LengthIsProgress`, `ResumeWithinWritten` |
| | `JobImplementsDownload` | `ImplementsDownload`: every step is a step of Download or leaves it alone |
| TasksProofs | `TasksTypeCorrect` | `TypeOK` |
| | `KeysNameRunning`, `OneWorker` | `DedupNamesRunning`, `OneWorkerPerKey` |
| | `ZipsKept`, `ZipsAreOwned` | `DoneKeepsZip`, `ZipHasOwner` |
| | `TerminalStays` | `TerminalIsFinal` |
| PermitsProofs | `PermitsTypeCorrect` | `TypeOK` |
| | `GaugesExact` | `GaugeCountsGuards` and `Conserved`, the first half of `PermitsMatchCap` |
| | `PermitsMatch` | `PermitsMatchCap`, the resized semaphore included |
| BatchProofs | `BatchTypeCorrect` | `TypeOK` |
| | `SlotsStayAligned`, `PrefetchesGetTriggered` | `SlotsAligned`, `PrefetchesTriggered` |
| | `BatchAccounts`, `ZipsHoldNoTwice` | `CountsAddUp`, `TracksDistinct` |
| DiskGuardProofs | `GuardInvariant` | the registry's counts are the guards alive, each taken once |
| | `InFlightSurvives` | `InFlightKept` |
| | `SpaceStaysReserved` | `SpaceReserved` |
| StorageProofs | `ListsDenote`, `ProgressIsExact` | `IntervalsDenote`, `ProgressExact` |
| | `StorageTypeCorrect` | `StorageTypeOK`, of the two components side by side |
| StoresProofs | `PasswordInForce`, `ConfigSurvives` | `PasswordAgrees`, `ConfigLoadable` |
| | `TotalsSaved`, `PagesCatchUp` | `DirtyOrSaved`, `WatcherCatchesUp` |
| | `BucketsStayBounded`, `CoversStayBounded` | the two halves of `CachesBounded` |
| ServicesProofs | `BestIsServed`, `WarningsReachCallers` | `BestAvailable`, `RiskCodesKept` |
| | `ServicesTypeCorrect`, `CachesStayBounded` | `ServicesTypeOK`, `CachesBounded`, of the five services side by side |

**ResumeJob.** Assumptions: sizes are positive (`SizesAssumption`), the bounds are
natural numbers (`BoundsAssumption`). `ManifestNeverAhead` is not inductive: it
says nothing of the manifest in memory that the next `ChunkRecord` writes out, of
the attempt that is about to truncate `.part`, or of the stream that is about to
rewrite it. `IInv` adds, as named parts, what an attempt works with (`AttemptInv`:
the manifest in memory is for the job's size) and, under `Clean`, `ManifestSound`:
only the running attempt has live tasks; the sidecar, the manifest in memory and
the chunks waiting to be recorded all lie within the bytes of `.part`, if it is
there; a sidecar is empty before a truncation and during a stream; a sidecar with
chunks belongs to a ranged size the API has reported. The last part is what makes
a resumption after a crash sound: with one reported size the sidecar that is found
is the job's. The step is split as `NextTypeOK`, `NextAttemptInv` and
`NextManifestSound`, one case per action; `OutcomesTypeOK` and `OutcomesSound`
treat the end of an attempt once for the seven actions that may end one.
`NextIInv` combines them. `TagSteps` does the tag writes once for all of these: they
touch `final.tags` and the place of the driver. `Clean` itself can only become false
(a step that leaves it needs no further argument), which is why it may stand as a
hypothesis; `LeavingGrows` and `TakingOverGrows` are the two ways it goes.

`PublishedIsWhole` and its companions need to know what `.part` holds, not only what
is recorded of it. `ContentInv` adds where the job is and what it then has at hand
(`Placed`), that every byte is of a resource the API has reported (`Sourced`), and,
under `Clean`, `ContentSound`: `.part` has a hole only where a ranged attempt
laid it out (`PartSound`); an attempt that resumes works on a file that is laid out at the
job's length, and when it comes to join its tasks a chunk is recorded or a task answers for
it (`Grid`), none of which depends on the threshold staying what it was; a stream counts what is there from the first byte on (`StreamSound`);
what is about to be renamed is whole (`ReadyToPublish`). `HolesOnlyByLength` and
`ResumeWithinWritten` are conjuncts: the bytes of a published file change only with its tags or its
removal (`Retagged`), and the step that publishes is covered by `ReadyToPublish`. `HistoryGrows` says once that
nobody takes back what spoils `Clean`.

*Refinement.* `StepKinds` sorts the job's steps into kinds by what they may do
to the path: `Begins`, `Publishes`, `Ends`, `Works`, `Leaves`, `Tags` and `Evicts`. `StepRefines` maps
each kind to a step of Download or to none, with `ContentInv` for the one that
publishes; a step that loses `Clean` is a step that may lose `trusted`.

**Tasks.** `TasksInv` adds to the type that the free permits and the workers that
hold one are all the permits (`PermitsKept`), that nothing is known of tasks not yet
created (`NotYet`), that until an entry is overwritten a running task is the one its
key names (`OwnsKey`), that a running worker's task is where the worker put it
unless a cancel came in between (`Unsettled`), that a zip on disk or aged
away, the record of it, the leavings of a failed build and the stage agree at each place
of the worker (`ZipSound`), and that who retrieves
a result does so of a worker that is over (`ReadSound`). The last two are what two
retrievals, a cancel and the cleanup could break: each acts on what an earlier
access to a map has shown.

**Permits.** `PermitInv`: the gauge of a semaphore is the number of its guards, free
and held permits add up to the limit, and a request holds only what its program has
asked for before the place it is at (`GuardsFollow`). As each program asks for each
semaphore once (`AskedOnce`), a grant always adds a guard, so the set of guards
loses no permit; and as a guard that is dropped was counted, the gauge is never
clamped. `TakeCounts` and `GiveBackCounts` are the two steps that change a count;
administrators touch only the semaphore they resize (`ResizeElsewhere`). `QueueInv`
adds that who waits stands in the queue of the semaphore it waits for, so that
leaving it shortens a queue and `Grant` never finds one that is no request's; with
`free` a natural number it gives `TypeOK`. The resized semaphore is `Balance`: what
circulates plus what administrators have still to add is the cap plus what they have
still to forget, or more once a shrink has met a permit in use. The two sums are
cardinalities of sets of tokens (`Tokens`), one for each permit an administrator has
promised; `Swap` changes the cap and one administrator's tokens by the same amount
(`TotalChanges`), `AddPermits` and `Forget` redeem them. Nothing is assumed of the
number of administrators: those with tokens are finitely many in every state.

**Batch.** `BatchInv` adds to the type where the worker can be and what it then has
at hand: the index is in range where the loop uses it (`Position`), the song at hand
is the one the request asks for there (`SongAtHand`), an armed prefetch waits for a
trigger the worker sets (`Armed`), the songs seen are those dealt with and the one
at hand (`Counted`), and the packed tracks are among them, none twice and not yet
the one at hand (`Distinct`). Alignment is preserved because the slots rotate at the
one place every iteration passes; triggers, because every exit sets both of its own.

**DiskGuard.** `GuardInv`: a path's count is the number of guards on it
(`CountsGuards`), a guard is there exactly between the places of its job that take
and drop it (`GuardsFollow`), and a guard not yet taken is in nobody's `before`
(`NotYet`). So a guard held when a plan was made and held now was held all the
while, and its path, whose count was positive at the snapshot, is not in the plan.
The counts are cardinalities: `FiniteSetTheorems` gives the steps. `SpaceReserved`
is about a sum over the files of the directory. `SumIsTally` shows that the model's
fold is the number of *units* on the disk, pairs of a file and a number up to its
size, so the steps become steps between finite sets; this is where `PathsAssumption`
is needed. `SpaceInv` is the argument. Of the files that have a name, a `.part` or a
published file is claimed by an admitted download of its path, its tags by one that
wrote tags; the others (`Idle`) fitted beside the reported size and the reserve when the
last download was let in (`Room`), and have only become fewer since, as nobody
writes where no admitted download has a claim (`Owned`). `ClaimedUnits` bounds the
claimed ones: a song for each admitted download, a tag for each that tagged. `AdmitStep` is
the step that measures; it counts removed files too, which is why they may give their space
back late. `RenameStep` moves a claim from the `.part` to the published file,
`QuietStep` is all others, `LessStep` those that only free space.

**PartManifest.** The list is rebuilt by a sort and a fold at each recording, and
neither can be reasoned about by induction over lists here. Instead, `LeastNumber`
(any set of naturals has a least member) turns each induction into the search for a
least counterexample. `MergingExists` shows so that the recursive function a fold is
defined by exists (its definition is a `CHOOSE`), `FoldMerge` and `SizesAddUp` then
what the two folds compute; `SortExists` constructs the sorted list by counting, for
each interval, those before it. `MergeKeeps` is the heart: merging one more
interval, no earlier than those before it, keeps the list normal (ascending, neither
touching nor overlapping) and adds exactly its bytes; `RecordKeeps` carries that
through the whole of `record_chunk`. For a normal list `RangeQuery`, `PrefixQuery`,
`CompleteQuery`, `MissingQuery` and `SizesAddUp` say that each query answers what
the set would. `ManifestInv` adds that the saved list is normal too, that along
one grid a chunk is there whole or not at all (`Aligned`, from `ChunksApart`), so a
chunk the list does not cover is progress with its full size, and that the chunk being
saved, those to be counted and those whose save failed are apart, and all recorded: `Counted` is
what is left, and it is saved. `StorageSideBySide`
lifts the invariants of the two components to the run's specification, which chooses
between them.

**Statistics** (in StoresProofs, like the next two). `DirtyOrSaved` is inductive
with the type: what is counted between the taking of the flag and the write raises
it again. `WatcherCatchesUp` rests on `OnItsWay`: the current total has been seen,
or some handler has still to read it or has read it and has still to send it; and on
`NoGhosts`, that nobody watches a process that is down.

**Administration.** `SetupSound` and `ApplySound` say what memory, file and temporary
hold at each place of the only caller that can be between check and store (a second
one sets `races`), with `Brought` and `Idle` for what callers carry. A crash keeps
the files, and the next start establishes the invariant from them.

**Caches.** Bounded by a slack argument: a task past its size test has room made
(`RoomMade`) or is counted as meeting another one; `Within` keeps the size of the
map plus the tasks about to insert below the limit plus the meetings.

**SongLinks.** `LinkInv` says which calls a request has made (`CallsInv`), where it
is on the quality ladder (`ClimbInv`: there is a rung down to which every quality
was asked for and had no link, and below which none was asked for), and that no call
that decides the reply has let a warning, read or not (`Clear`), pass for a result or
one that is read (`Quiet`) for an unspecific error (`WarningsKept`). `Climbed` gets `BestAvailable` from the ladder's order;
`RiskCodesKept` is kept because a reply is made of the results of its calls, where
`WarningsKept` has the warning still. `SideBySide` lifts the five services'
invariants to `MCServices`.

**Only model-checked:** liveness (fairness and `ENABLED` are beyond the prover):
`JobsTerminate`, `WorkersEnd`, `TasksSettle`, `RequestsEnd`, `WorkerEnds` and
`PrefetchesEnd`. Every other property of a passing run is a theorem. The findings are
counterexamples and stay with TLC too.

## 6. Not modelled

* Encryption, parsing, id extraction, the decoding of an answer's fields: one call
  with a result to a third-party service (SongLinks has the results).
* HTML rendering, router, assets, logging, the asset build tool: no state. The views
  appear where their data may not fit them (SongLinks).
* The progress callback, percentages and their SSE stream.
* What tags and covers are, the contents of zips: data of a third-party format. That
  tags are written in place, may fail midway and take space is modelled (ResumeJob,
  Download, DiskGuard).
* Songs of unknown size in ResumeJob (they are streamed whole every time); DiskGuard
  has them.
* The space of zips and temporary files.
* The cookie file: one read, one write.
* Tokens of the rate limiter, durations of a backoff, contents of a session token:
  time and cryptography. A caller that gets no token in time goes on all the same.
* Durability below a successful write: `flush` of a tokio file is not `fsync`,
  and the single stream's buffered file is dropped without a flush on an error.
* The panic of a worker between two steps of Tasks or Batch (Permits has it).
* Two jobs at one time on one path, which finding 4 makes possible: DiskGuard has
  them for what concerns the directory, ResumeJob does not.
* The form of the admin page reads the configuration, overwrites the fields it
  was sent and applies the whole: two of them may lose an update, which
  Administration shows only as the last change that stays.

## 7. Plan

Done: ResumeJob, Tasks, Permits, Batch, DiskGuard, PartManifest, SongLinks,
Administration, Statistics, RateBuckets, CoverCache, the abstract Download and its
refinement; proofs of all safety properties the passing runs check, and of the
refinement.

Left, in this order:

1. A composition of Tasks and Permits, in which the wait for a permit is Permits'
   queue, and a theorem that it implements the atomic permit of Tasks.
2. Two jobs at one time on one path in ResumeJob, which finding 4 makes possible.
