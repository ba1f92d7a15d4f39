------------------------------- MODULE Tasks -------------------------------
(***************************************************************************)
(* The single-song download task: the request handlers and the background  *)
(* worker of crates/adapter/src/web/handler/download_async.rs over the     *)
(* shared maps of AppState -- the task store                               *)
(* (crates/infra/src/persistence/task_memory.rs), dedup, cancelled -- the  *)
(* download semaphore and the zip directory.                               *)
(*                                                                         *)
(* Each access to a map is atomic; between two accesses any other task of  *)
(* the runtime may run, which is where the actions are cut.  What a worker *)
(* does between them (the API calls, the download job, the zip) is one     *)
(* step with each result it may have.  Ages are not modelled: whatever a   *)
(* TTL allows may happen at any time.                                      *)
(***************************************************************************)
EXTENDS Naturals, FiniteSets

CONSTANTS
  Keys,       \* dedup keys: (music_id, quality)
  Starters,   \* concurrent POST /download/start handlers
  Readers,    \* concurrent GET /download/result handlers
  Permits,    \* download_concurrent
  MaxTasks    \* bound: tasks created

ASSUME PermitsAssumption == Permits \in Nat \ {0} /\ MaxTasks \in Nat

Ids == 1..MaxTasks
NoTask == 0
NoKey == "no key"
ASSUME KeysAssumption == NoKey \notin Keys

VARIABLES
  stage,      \* TaskStage of each task in the store ("absent": not there)
  key,        \* dedup key the worker of each task was given
  worker,     \* where the worker of each task is
  free,       \* permits of download_semaphore
  dedup,      \* state.dedup
  cancelled,  \* state.cancelled
  starting,   \* the key each start handler has found no task to reuse for
  cancelling, \* tasks a cancel handler has marked and not yet updated
  reading,    \* the task each result handler saw as Done, and what it does
  paths,      \* tasks in the store with a zip_path
  zips,       \* tasks whose zip is on disk
  timers,     \* pending removals of each zip
  expired,    \* tasks the cleanup pass is about to remove
  partial,    \* tasks whose zip is on disk, begun and not finished
  aged,       \* history: tasks in the store whose zip went for its age
  created,    \* tasks created so far
  everCancelled,  \* history: tasks a client cancelled
  overwritten     \* history: a start replaced an entry of dedup

workerVars == <<worker, free>>
startVars  == <<key, starting, created, overwritten>>
zipVars    == <<paths, zips, timers, reading>>
cancelVars == <<cancelled, cancelling, everCancelled>>
cleanupVars == <<expired, partial, aged>>
vars == <<stage, dedup, workerVars, startVars, zipVars, cancelVars, cleanupVars>>

Terminal == {"Done", "Retrieved", "Error"}
Stages == {"Starting", "FetchingUrl", "Downloading", "Packaging"} \cup Terminal

(* TaskStore::update: nothing happens when the task is gone.               *)
Update(t, s) == stage' = [stage EXCEPT ![t] = IF @ = "absent" THEN @ ELSE s]

Running(t) == worker[t] \notin {"none", "ended"}

-----------------------------------------------------------------------------
(* download_start: look the key up, then create the task, register it and  *)
(* spawn its worker.                                                       *)

Reusable(k) == dedup[k] # NoTask /\ stage[dedup[k]] \notin {"absent", "Error", "Retrieved"}

StartLookup(h, k) ==
  /\ starting[h] = NoKey /\ ~Reusable(k)
  /\ starting' = [starting EXCEPT ![h] = k]
  /\ UNCHANGED <<stage, dedup, cleanupVars, workerVars, key, created, overwritten, zipVars, cancelVars>>

StartCreate(h) ==
  /\ starting[h] # NoKey /\ created < MaxTasks
  /\ LET t == created + 1
         k == starting[h] IN
       /\ created' = t
       /\ stage' = [stage EXCEPT ![t] = "Starting"]
       /\ key' = [key EXCEPT ![t] = k]
       /\ dedup' = [dedup EXCEPT ![k] = t]
       /\ overwritten' = (overwritten \/ dedup[k] # NoTask)
       /\ worker' = [worker EXCEPT ![t] = "queued"]
  /\ starting' = [starting EXCEPT ![h] = NoKey]
  /\ UNCHANGED <<free, cleanupVars, zipVars, cancelVars>>

-----------------------------------------------------------------------------
(* single_download_worker and do_single_download.                          *)

Goto(t, from, to) == worker[t] = from /\ worker' = [worker EXCEPT ![t] = to]

AcquirePermit(t) ==
  /\ free > 0 /\ free' = free - 1
  /\ Goto(t, "queued", "begin")
  /\ UNCHANGED <<stage, dedup, cleanupVars, startVars, zipVars, cancelVars>>

(* Mutants of QueueTimeout: the worker goes on without a permit; it returns *)
(* without writing the error.                                              *)
QueueTimeoutGoesOn(t) ==
  /\ free = 0
  /\ Goto(t, "queued", "begin")
  /\ Update(t, "Error")
  /\ UNCHANGED <<free, dedup, cleanupVars, startVars, zipVars, cancelVars>>
QueueTimeoutSilent(t) ==
  /\ free = 0
  /\ Goto(t, "queued", "busy")
  /\ UNCHANGED <<stage, free, dedup, cleanupVars, startVars, zipVars, cancelVars>>

(* No permit for 60 seconds.                                               *)
QueueTimeout(t) ==
  /\ free = 0
  /\ Goto(t, "queued", "busy")
  /\ Update(t, "Error")
  /\ UNCHANGED <<free, dedup, cleanupVars, startVars, zipVars, cancelVars>>

(* Mutant: the key is released as soon as the worker has its permit.       *)
BeginFetchUndedups(t) ==
  /\ Goto(t, "begin", "fetch")
  /\ Update(t, "FetchingUrl")
  /\ dedup' = [dedup EXCEPT ![key[t]] = NoTask]
  /\ UNCHANGED <<free, cleanupVars, startVars, zipVars, cancelVars>>

BeginFetch(t) ==
  /\ Goto(t, "begin", "fetch")
  /\ Update(t, "FetchingUrl")
  /\ UNCHANGED <<free, dedup, cleanupVars, startVars, zipVars, cancelVars>>

(* The song's link and metadata, or an error (no link, API, semaphore).    *)
FetchInfo(t) ==
  /\ Goto(t, "fetch", "check") \/ Goto(t, "fetch", "report")
  /\ UNCHANGED <<stage, free, dedup, cleanupVars, startVars, zipVars, cancelVars>>

(* cancelled.remove(task_id): a cancelled worker returns Ok at once.       *)
CheckCancelled(t, from, to) ==
  /\ IF t \in cancelled THEN Goto(t, from, "undedup") ELSE Goto(t, from, to)
  /\ cancelled' = cancelled \ {t}
  /\ UNCHANGED <<stage, free, dedup, cleanupVars, startVars, zipVars, cancelling, everCancelled>>

BeginDownload(t) ==
  /\ Goto(t, "start", "download")
  /\ Update(t, "Downloading")
  /\ UNCHANGED <<free, dedup, cleanupVars, startVars, zipVars, cancelVars>>

(* The job ends; fails; or is dropped by download_timeout_per_song_secs.   *)
Download(t) ==
  /\ Goto(t, "download", "check again") \/ Goto(t, "download", "report")
  /\ UNCHANGED <<stage, free, dedup, cleanupVars, startVars, zipVars, cancelVars>>

BeginPackaging(t) ==
  /\ Goto(t, "package", "zip")
  /\ Update(t, "Packaging")
  /\ UNCHANGED <<free, dedup, cleanupVars, startVars, zipVars, cancelVars>>

(* The zip is created before its first track is read: an error then, or    *)
(* later, returns without removing it.                                     *)
BuildZip(t) ==
  /\ \/ Goto(t, "zip", "finish") /\ zips' = zips \cup {t} /\ UNCHANGED partial
     \/ Goto(t, "zip", "report") /\ zips' = zips \cup {t} /\ partial' = partial \cup {t}
     \/ Goto(t, "zip", "report") /\ UNCHANGED <<zips, partial>>
  /\ UNCHANGED <<stage, free, dedup, expired, aged, startVars, paths, timers, reading, cancelVars>>

(* Mutant: the five minutes of the zip start when it is ready.             *)
FinishStartsTimer(t) ==
  /\ Goto(t, "finish", "undedup")
  /\ Update(t, "Done")
  /\ paths' = IF stage[t] = "absent" THEN paths ELSE paths \cup {t}
  /\ timers' = [timers EXCEPT ![t] = @ + 1]
  /\ UNCHANGED <<free, dedup, cleanupVars, startVars, zips, reading, cancelVars>>

Finish(t) ==
  /\ Goto(t, "finish", "undedup")
  /\ Update(t, "Done")
  /\ paths' = IF stage[t] = "absent" THEN paths ELSE paths \cup {t}
  /\ UNCHANGED <<free, dedup, cleanupVars, startVars, zips, timers, reading, cancelVars>>

(* Mutant: a failed worker starts over, as often as it fails.              *)
ReportErrorRetries(t) ==
  /\ Goto(t, "report", "fetch")
  /\ Update(t, "FetchingUrl")
  /\ UNCHANGED <<free, dedup, cleanupVars, startVars, zipVars, cancelVars>>

ReportError(t) ==
  /\ Goto(t, "report", "undedup")
  /\ Update(t, "Error")
  /\ UNCHANGED <<free, dedup, cleanupVars, startVars, zipVars, cancelVars>>

(* Mutants of Undedup: a worker that never had a permit returns one; it    *)
(* returns before dedup.remove.                                            *)
UndedupAlwaysReleases(t) ==
  /\ Goto(t, "undedup", "ended") \/ Goto(t, "busy", "ended")
  /\ free' = free + 1
  /\ dedup' = [dedup EXCEPT ![key[t]] = NoTask]
  /\ UNCHANGED <<stage, cleanupVars, startVars, zipVars, cancelVars>>
UndedupForgetsBusy(t) ==
  /\ \/ /\ Goto(t, "undedup", "ended") /\ free' = free + 1
        /\ dedup' = [dedup EXCEPT ![key[t]] = NoTask]
     \/ Goto(t, "busy", "ended") /\ UNCHANGED <<free, dedup>>
  /\ UNCHANGED <<stage, cleanupVars, startVars, zipVars, cancelVars>>

(* dedup.remove(key), whichever task the key now names; the permit returns *)
(* when the worker has one.                                                *)
Undedup(t) ==
  /\ \/ Goto(t, "undedup", "ended") /\ free' = free + 1
     \/ Goto(t, "busy", "ended")    /\ UNCHANGED free
  /\ dedup' = [dedup EXCEPT ![key[t]] = NoTask]
  /\ UNCHANGED <<stage, cleanupVars, startVars, zipVars, cancelVars>>

WorkerStep(t) ==
  \/ AcquirePermit(t) \/ QueueTimeout(t) \/ BeginFetch(t) \/ FetchInfo(t)
  \/ CheckCancelled(t, "check", "start") \/ BeginDownload(t) \/ Download(t)
  \/ CheckCancelled(t, "check again", "package") \/ BeginPackaging(t) \/ BuildZip(t)
  \/ Finish(t) \/ ReportError(t) \/ Undedup(t)

-----------------------------------------------------------------------------
(* download_cancel, for any task a client knows, whatever its stage.       *)

CancelMark(t) ==
  /\ t <= created /\ t \notin cancelling
  /\ cancelled' = cancelled \cup {t}
  /\ cancelling' = cancelling \cup {t}
  /\ everCancelled' = everCancelled \cup {t}
  /\ UNCHANGED <<stage, dedup, cleanupVars, workerVars, startVars, zipVars>>

CancelStage(t) ==
  /\ t \in cancelling
  /\ cancelling' = cancelling \ {t}
  /\ Update(t, "Error")
  /\ UNCHANGED <<dedup, cleanupVars, workerVars, startVars, zipVars, cancelled, everCancelled>>

-----------------------------------------------------------------------------
(* download_result: a snapshot of the task decides whether this is the     *)
(* first access; the first access marks the task and, once the zip has     *)
(* been opened, starts the five-minute removal.                            *)

Idle == [task |-> NoTask, at |-> "idle"]

ResultRead(r, t) ==
  /\ reading[r] = Idle /\ stage[t] = "Done"
  /\ reading' = [reading EXCEPT ![r] = [task |-> t, at |-> "mark"]]
  /\ UNCHANGED <<stage, dedup, cleanupVars, workerVars, startVars, paths, zips, timers, cancelVars>>

ResultMark(r) ==
  /\ reading[r].at = "mark"
  /\ Update(reading[r].task, "Retrieved")
  /\ reading' = [reading EXCEPT ![r].at = "serve"]
  /\ UNCHANGED <<dedup, cleanupVars, workerVars, startVars, paths, zips, timers, cancelVars>>

ResultServe(r) ==
  /\ reading[r].at = "serve"
  /\ LET t == reading[r].task IN
       timers' = IF t \in zips THEN [timers EXCEPT ![t] = @ + 1] ELSE timers
  /\ reading' = [reading EXCEPT ![r] = Idle]
  /\ UNCHANGED <<stage, dedup, cleanupVars, workerVars, startVars, paths, zips, cancelVars>>

ZipTimer(t) ==
  /\ timers[t] > 0
  /\ timers' = [timers EXCEPT ![t] = @ - 1]
  /\ zips' = zips \ {t}
  /\ UNCHANGED <<stage, dedup, cleanupVars, workerVars, startVars, paths, reading, cancelVars>>

-----------------------------------------------------------------------------
(* TaskStore::cleanup collects the terminal tasks older than the TTL, then *)
(* removes them one by one; cleanup_orphan_zips then removes the old zips, *)
(* by their age alone: zip_max_age_secs is set apart from the TTL.         *)

CleanupCollect ==
  /\ expired = {}
  /\ \E old \in SUBSET {t \in Ids : stage[t] \in Terminal} : old # {} /\ expired' = old
  /\ UNCHANGED <<stage, dedup, partial, aged, workerVars, startVars, zipVars, cancelVars>>

(* Mutant: the record goes, its zip stays.                                 *)
CleanupKeepsZip(t) ==
  /\ t \in expired
  /\ expired' = expired \ {t}
  /\ stage' = [stage EXCEPT ![t] = "absent"]
  /\ paths' = paths \ {t} /\ aged' = aged \ {t}
  /\ UNCHANGED <<dedup, partial, workerVars, startVars, zips, timers, reading, cancelVars>>

CleanupRemove(t) ==
  /\ t \in expired
  /\ expired' = expired \ {t}
  /\ stage' = [stage EXCEPT ![t] = "absent"]
  /\ zips' = zips \ (paths \cap {t})
  /\ paths' = paths \ {t} /\ aged' = aged \ {t}
  /\ UNCHANGED <<dedup, partial, workerVars, startVars, timers, reading, cancelVars>>

OrphanZip(t) ==
  /\ t \in zips
  /\ zips' = zips \ {t} /\ partial' = partial \ {t}
  /\ aged' = IF stage[t] = "absent" THEN aged ELSE aged \cup {t}
  /\ UNCHANGED <<stage, dedup, expired, workerVars, startVars, paths, timers, reading, cancelVars>>

-----------------------------------------------------------------------------

Init ==
  /\ stage = [t \in Ids |-> "absent"] /\ key = [t \in Ids |-> NoKey]
  /\ worker = [t \in Ids |-> "none"] /\ free = Permits
  /\ dedup = [k \in Keys |-> NoTask]
  /\ starting = [h \in Starters |-> NoKey]
  /\ reading = [r \in Readers |-> Idle]
  /\ timers = [t \in Ids |-> 0]
  /\ cancelled = {} /\ cancelling = {} /\ everCancelled = {}
  /\ paths = {} /\ zips = {} /\ expired = {} /\ partial = {} /\ aged = {}
  /\ created = 0 /\ overwritten = FALSE

Next ==
  \/ \E h \in Starters : StartCreate(h) \/ \E k \in Keys : StartLookup(h, k)
  \/ \E t \in Ids : WorkerStep(t) \/ CancelMark(t) \/ CancelStage(t)
                      \/ ZipTimer(t) \/ CleanupRemove(t) \/ OrphanZip(t)
  \/ \E r \in Readers : ResultMark(r) \/ ResultServe(r) \/ \E t \in Ids : ResultRead(r, t)
  \/ CleanupCollect

Spec == Init /\ [][Next]_vars

(* A worker that has begun is polled to its end: a permit is waited for 60 *)
(* seconds, a download download_timeout_per_song_secs, an API call its     *)
(* client's timeout.  So is a cancel.  Of the other handlers, the clients, *)
(* the timers and the ages nothing is asked.                               *)
Fairness == \A t \in Ids : WF_vars(WorkerStep(t)) /\ WF_vars(CancelStage(t))

FairSpec == Spec /\ Fairness

-----------------------------------------------------------------------------
(* Properties.                                                             *)

Places == {"none", "queued", "begin", "fetch", "check", "start", "download", "check again",
           "package", "zip", "finish", "report", "busy", "undedup", "ended"}

TypeOK ==
  /\ stage \in [Ids -> Stages \cup {"absent"}] /\ key \in [Ids -> Keys \cup {NoKey}]
  /\ worker \in [Ids -> Places] /\ free \in 0..Permits
  /\ dedup \in [Keys -> {NoTask} \cup Ids]
  /\ starting \in [Starters -> Keys \cup {NoKey}] /\ created \in 0..MaxTasks
  /\ cancelled \subseteq Ids /\ cancelling \subseteq Ids /\ everCancelled \subseteq Ids
  /\ reading \in [Readers -> [task : {NoTask} \cup Ids, at : {"idle", "mark", "serve"}]]
  /\ paths \subseteq Ids /\ zips \subseteq Ids /\ expired \subseteq Ids
  /\ partial \subseteq Ids /\ aged \subseteq Ids
  /\ timers \in [Ids -> Nat] /\ overwritten \in BOOLEAN

(* download_async.rs:69, 314: an entry of dedup names a task whose worker  *)
(* is still running, so no key stays bound to a task that will never       *)
(* finish it, whatever overwrites and removes the entry in between.        *)
DedupNamesRunning ==
  \A k \in Keys : dedup[k] # NoTask => key[dedup[k]] = k /\ Running(dedup[k])

(* Contract C-5, where it holds: two workers download the same key only    *)
(* after a start has replaced another task's entry.                        *)
OneWorkerPerKey ==
  ~overwritten => \A t, u \in Ids : Running(t) /\ Running(u) /\ key[t] = key[u] => t = u

(* A finished task names a complete zip, and until its first retrieval     *)
(* only the pass that goes by age removes it: no timer of an earlier       *)
(* retrieval, no cancel and no TTL of the record.                          *)
DoneKeepsZip ==
  \A t \in Ids : stage[t] = "Done" => t \in paths \ partial /\ t \in zips \cup aged

(* task_memory.rs:90: the records of the store name every zip on disk,     *)
(* but those of cancelled tasks and those whose build broke off.           *)
ZipHasOwner ==
  \A t \in zips :
    worker[t] = "ended" /\ t \notin everCancelled \cup partial => t \in paths

(* A task nobody cancelled leaves a terminal stage only for Retrieved or   *)
(* for the TTL.                                                            *)
TerminalIsFinal ==
  [][\A t \in Ids : stage[t] \in Terminal /\ t \notin everCancelled /\ stage'[t] # stage[t]
       => stage'[t] = "absent" \/ (stage[t] = "Done" /\ stage'[t] = "Retrieved")]_vars

(* Every worker ends for good, having given its permit and its key back.   *)
WorkersEnd == \A t \in Ids : <>[]~Running(t)

(* A task the client starts and does not cancel gets a result or an error. *)
TasksSettle ==
  \A t \in Ids : stage[t] = "Starting"
                   ~> stage[t] \in Terminal \cup {"absent"} \/ t \in everCancelled

-----------------------------------------------------------------------------
(* What the documentation says and the code does not do.                   *)

(* download-link.contract.md C-5: one active task per (music_id, quality). *)
OneActivePerKey ==
  \A t, u \in Ids :
    stage[t] \in Stages \ Terminal /\ stage[u] \in Stages \ Terminal /\ key[t] = key[u] => t = u

(* download-link-state-machine.md: a cancelled task becomes error, and     *)
(* error is cleared by the TTL.                                            *)
CancelSettles ==
  \A t \in Ids : t \in cancelling ~> [](stage[t] \in Terminal \cup {"absent"})
=============================================================================
