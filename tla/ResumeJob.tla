----------------------------- MODULE ResumeJob -----------------------------
(***************************************************************************)
(* The resumable download job of crates/infra/src/download/engine: the     *)
(* FSM driver (job.rs), the two ways an attempt fetches bytes (ranged.rs,  *)
(* single_stream.rs), the sidecar manifest (manifest.rs), the atomic       *)
(* publication (wrapper.rs) and the tags then written into the published   *)
(* file (tags.rs), over one destination path and its two files             *)
(* `<final>.part` and `<final>.part.json`.                                 *)
(*                                                                         *)
(* Data are abstracted to chunks: a file is a sequence of units 1..len,    *)
(* one chunk of the ranged grid per unit, and a unit holds the size of the *)
(* resource its bytes came from (0 is a hole).  The sizes stand for the    *)
(* encodings the API may report for the song.  Tags are not bytes here: a  *)
(* file has a state of its own for them.                                   *)
(*                                                                         *)
(* One job at a time runs on the path, but the chunk tasks it spawned may  *)
(* outlive it, and so may its tag writing.  The process may crash between  *)
(* any two steps; the worker's timeout may drop the job's future at any of *)
(* its awaits; the threshold may be changed between two jobs.              *)
(***************************************************************************)
EXTENDS Naturals

CONSTANTS
  Sizes,        \* file sizes, in chunks, the API may report for the path
  Thresholds,   \* values ranged_threshold is given while the system runs
  Budget,       \* url_refresh_budget (0 also stands for resume disabled)
  MaxRetries,   \* backoffs of with_retry on the single-stream path
  MaxLive,      \* bound: ranged attempts with live chunk tasks at one time
  MaxJobs       \* bound: jobs started on the path

ASSUME SizesAssumption == Sizes \subseteq Nat \ {0}
ASSUME BoundsAssumption ==
  Thresholds \subseteq Nat /\ Budget \in Nat /\ MaxRetries \in Nat /\ MaxLive \in Nat /\ MaxJobs \in Nat

Units == UNION {1..z : z \in Sizes}
Slots == 1..MaxLive

VARIABLES
  st,         \* ResumeState of the job, or of the last one
  pc,         \* the await the job is at
  refreshes,  \* refreshes_used
  written,    \* payload of Refreshing: .part's length when the link expired
  want,       \* content_length of the job
  threshold,  \* ranged_threshold as the job read it
  src,        \* size of the resource behind the URL in use
  tries,      \* retries with_retry has spent on the single-stream path
  trunc,      \* needs_truncate
  first,      \* the chunk the probe asked for
  pos,        \* what this stream counts as downloaded
  append,     \* this stream writes at the end of .part
  slot,       \* the ranged attempt in progress (0: none yet)
  mem,        \* in-memory manifest of each ranged attempt, and its URL's source
  task,       \* chunk tasks of each ranged attempt
  part,       \* <final>.part
  sidecar,    \* <final>.part.json
  final,      \* the published file, its bytes as they were published
  how,        \* how the job's last attempt ended well
  jobs,       \* counts jobs up to MaxJobs
  detached,   \* history: some chunk task has outlived its attempt
  overtaken,  \* history: a stream wrote .part beside a sidecar of chunks
  reported,   \* history: the sizes the API has reported
  fellBack    \* history: this job's probe gave way to single_stream

fsmVars    == <<st, refreshes, written, how>>
confVars   == <<want, threshold, src, jobs, reported, fellBack>>
streamVars == <<tries, pos, append>>
probeVars  == <<trunc, first, slot>>
historyVars == <<detached, overtaken>>
vars == <<fsmVars, pc, confVars, streamVars, probeVars, mem, task,
          part, sidecar, final, historyVars>>

-----------------------------------------------------------------------------
(* Files.                                                                  *)

(* laid: a ranged attempt has laid the file out at its full length.  tags: *)
(* what has become of the file's tags, which are written in place.         *)
File(exists, len, laid) ==
  [exists |-> exists, len |-> len, laid |-> laid, tags |-> "none",
   bytes  |-> [i \in Units |-> 0]]
NoFile == File(FALSE, 0, FALSE)
EmptyFile == File(TRUE, 0, FALSE)

(* A write of z's bytes at unit i; a write past the end leaves holes.      *)
Put(p, i, z) ==
  [exists |-> p.exists, laid |-> p.laid, tags |-> p.tags,
   len    |-> IF i > p.len THEN i ELSE p.len,
   bytes  |-> [k \in Units |-> IF k = i THEN z ELSE p.bytes[k]]]

(* Size 0: absent, corrupt or of an unknown version.                       *)
NoSidecar == [size |-> 0, done |-> {}]

Filled(p) == {i \in Units : p.bytes[i] # 0}

(* Every byte is there and all come from one resource.                     *)
Whole(f) == \E z \in Sizes : f.len = z /\ \A i \in 1..z : f.bytes[i] = z

-----------------------------------------------------------------------------
(* The resume FSM and what the driver makes of an attempt's result.        *)

(* Mutant: the table loses the row SizeMismatch.                           *)
AdvanceNoMismatch(s, ev) ==
  CASE s = "Init"        /\ ev = "UrlObtained"            -> "Ready"
    [] s = "Ready"       /\ ev = "EnterDownload"          -> "Downloading"
    [] s = "Downloading" /\ ev = "AttemptCompleted"       -> "Assembled"
    [] s = "Downloading" /\ ev = "AttemptUrlExpired"      -> "Refreshing"
    [] s = "Downloading" /\ ev = "AttemptFatal"           -> "Failed"
    [] s = "Refreshing"  /\ ev = "RefreshSucceeded"       -> "Downloading"
    [] s = "Refreshing"  /\ ev = "RefreshBudgetExhausted" -> "Failed"
    [] OTHER                                              -> "InvalidTransition"

Advance(s, ev) ==
  CASE s = "Init"        /\ ev = "UrlObtained"            -> "Ready"
    [] s = "Ready"       /\ ev = "EnterDownload"          -> "Downloading"
    [] s = "Downloading" /\ ev = "AttemptCompleted"       -> "Assembled"
    [] s = "Downloading" /\ ev = "AttemptUrlExpired"      -> "Refreshing"
    [] s = "Downloading" /\ ev = "AttemptFatal"           -> "Failed"
    [] s = "Refreshing"  /\ ev = "RefreshSucceeded"       -> "Downloading"
    [] s = "Refreshing"  /\ ev = "RefreshBudgetExhausted" -> "Failed"
    [] s = "Refreshing"  /\ ev = "SizeMismatch"           -> "Ready"
    [] OTHER                                              -> "InvalidTransition"

Live(s) == \E i \in Units : task[s][i] \in {"fetch", "record"}

(* The attempt's locals are gone; chunk tasks still running are detached.  *)
LeaveAttempt ==
  /\ tries' = 0 /\ pos' = 0 /\ append' = FALSE
  /\ trunc' = FALSE /\ first' = 0 /\ slot' = 0
  /\ detached' = (detached \/ (slot # 0 /\ Live(slot)))
  /\ UNCHANGED overtaken

AttemptOk(h) ==
  /\ st' = Advance(st, "AttemptCompleted")
  /\ pc' = "rename"
  /\ how' = h
  /\ LeaveAttempt
  /\ UNCHANGED <<refreshes, written>>

AttemptFatal ==
  /\ st' = Advance(st, "AttemptFatal")
  /\ pc' = "idle"
  /\ LeaveAttempt
  /\ UNCHANGED <<refreshes, written, how>>

(* Mutants: the budget is compared after the fact; a refresh is not        *)
(* counted; the offset is this attempt's own count.                        *)
ExpiredRefreshing(n, w, more) ==
  /\ written' = w
  /\ IF more
     THEN st' = Advance(st, "AttemptUrlExpired") /\ pc' = "refresh" /\ refreshes' = n
     ELSE /\ st' = Advance(Advance(st, "AttemptUrlExpired"), "RefreshBudgetExhausted")
          /\ pc' = "idle" /\ UNCHANGED refreshes
  /\ LeaveAttempt
  /\ UNCHANGED how
ExpiredOneTooMany == ExpiredRefreshing(refreshes + 1, part.len, refreshes <= Budget)
ExpiredUncounted  == ExpiredRefreshing(refreshes, part.len, refreshes < Budget)
ExpiredOwnOffset  == ExpiredRefreshing(refreshes + 1, pos, refreshes < Budget)

(* A link-level failure (401, 403, 404, 410, stall): refresh while the     *)
(* budget lasts.                                                           *)
AttemptUrlExpired ==
  /\ written' = part.len
  /\ IF refreshes < Budget
     THEN /\ st' = Advance(st, "AttemptUrlExpired")
          /\ pc' = "refresh"
          /\ refreshes' = refreshes + 1
     ELSE /\ st' = Advance(Advance(st, "AttemptUrlExpired"), "RefreshBudgetExhausted")
          /\ pc' = "idle"
          /\ UNCHANGED refreshes
  /\ LeaveAttempt
  /\ UNCHANGED how

-----------------------------------------------------------------------------
(* Starting a job.  The wrapper has found no usable cached file and has    *)
(* removed a final file of another size.                                   *)

StartJob ==
  /\ pc = "idle" /\ jobs < MaxJobs
  /\ jobs' = jobs + 1
  /\ \E z \in Sizes : want' = z /\ src' = z /\ reported' = reported \cup {z}
  /\ threshold' \in Thresholds
  /\ st' = Advance(Advance("Init", "UrlObtained"), "EnterDownload")
  /\ pc' = "attempt"
  /\ refreshes' = 0 /\ written' = 0 /\ how' = "none" /\ fellBack' = FALSE
  /\ final' = NoFile
  /\ UNCHANGED <<streamVars, probeVars, mem, task, part, sidecar, historyVars>>

-----------------------------------------------------------------------------
(* A ranged attempt: download_adaptive.                                    *)

(* attempt_once fetches large files by ranges, the others as one stream;   *)
(* what is large is a run-time setting, read once for each job.            *)
Ranged == want > threshold

(* The manifest the attempt starts from: the sidecar if it describes a     *)
(* file of this size, an empty one otherwise.                              *)
ResumeManifest ==
  [size |-> want, src |-> src, done |-> IF sidecar.size = want THEN sidecar.done ELSE {}]

ProbeFirstGap ==
  /\ pc = "attempt" /\ Ranged
  /\ LET missing == (1..want) \ ResumeManifest.done IN
       \E f \in missing : (\A g \in missing : f <= g) /\ first' = f
  /\ \E s \in Slots :
       /\ ~Live(s) /\ \A r \in 1..(s - 1) : Live(r)
       /\ slot' = s
       /\ mem' = [mem EXCEPT ![s] = ResumeManifest]
       /\ task' = [task EXCEPT ![s] = [i \in Units |-> "none"]]
  /\ trunc' = (sidecar.size # want)
  /\ pc' = "probe"
  /\ UNCHANGED <<fsmVars, confVars, streamVars, part, sidecar, final, historyVars>>

(* The manifest is complete: no request, only the length is verified.      *)
ManifestComplete ==
  /\ pc = "attempt" /\ Ranged
  /\ 1..want \subseteq ResumeManifest.done
  /\ IF part.len = want THEN AttemptOk("manifest") ELSE AttemptFatal
  /\ UNCHANGED <<confVars, mem, task, part, sidecar, final>>

(* 206 and the whole body of the first missing chunk.                      *)
ProbePartial ==
  /\ pc = "probe" /\ first <= src
  /\ pc' = "open"
  /\ UNCHANGED <<fsmVars, confVars, streamVars, probeVars, mem, task,
                 part, sidecar, final, historyVars>>

(* A 4xx of the link, or a 206 whose body stalls.                          *)
ProbeExpired ==
  /\ pc = "probe"
  /\ AttemptUrlExpired
  /\ UNCHANGED <<confVars, mem, task, part, sidecar, final>>

(* Another 4xx, or a body cut off (not retried here).                      *)
ProbeFatal ==
  /\ pc = "probe"
  /\ AttemptFatal
  /\ UNCHANGED <<confVars, mem, task, part, sidecar, final>>

(* Mutants of the next two: the sidecar is left behind.                    *)
ProbeFullKeepsSidecar ==
  /\ pc = "probe"
  /\ part' = EmptyFile
  /\ pc' = "stream" /\ tries' = MaxRetries /\ pos' = 0 /\ append' = FALSE
  /\ UNCHANGED <<fsmVars, confVars, probeVars, mem, task, sidecar, final, historyVars>>
FallbackKeepsSidecar ==
  /\ pc = "probe"
  /\ fellBack' = TRUE
  /\ pc' = "request" /\ tries' = 0
  /\ UNCHANGED <<fsmVars, want, threshold, src, jobs, reported, pos, append, probeVars,
                 mem, task, part, sidecar, final, historyVars>>

(* 200 or 203: no Range support, so this response is streamed from 0,      *)
(* outside any with_retry.                                                 *)
ProbeFull ==
  /\ pc = "probe"
  /\ sidecar' = NoSidecar
  /\ part' = EmptyFile
  /\ pc' = "stream" /\ tries' = MaxRetries /\ pos' = 0 /\ append' = FALSE
  /\ UNCHANGED <<fsmVars, confVars, probeVars, mem, task, final, historyVars>>

(* Transient failures outlast with_retry (or another 2xx status): drop the *)
(* sidecar and fall back to download_single_stream.                        *)
ProbeFallback ==
  /\ pc = "probe"
  /\ sidecar' = NoSidecar
  /\ fellBack' = TRUE
  /\ pc' = "request" /\ tries' = 0
  /\ UNCHANGED <<fsmVars, want, threshold, src, jobs, reported, pos, append, probeVars,
                 mem, task, part, final, historyVars>>

(* Open .part: created at full length only when nothing is to be resumed.  *)
OpenPart ==
  /\ pc = "open"
  /\ IF trunc \/ part.exists
     THEN /\ part' = IF trunc THEN File(TRUE, want, TRUE) ELSE part
          /\ pc' = "first"
          /\ UNCHANGED <<fsmVars, streamVars, probeVars, historyVars>>
     ELSE AttemptFatal /\ UNCHANGED part
  /\ UNCHANGED <<confVars, mem, task, sidecar, final>>

(* The probe's body is short, or its pwrite or persist fails.              *)
FirstError ==
  /\ pc \in {"first", "record"}
  /\ AttemptFatal
  /\ UNCHANGED <<confVars, mem, task, part, sidecar, final>>

FirstWrite ==
  /\ pc = "first" /\ part.exists
  /\ part' = Put(part, first, src)
  /\ pc' = "record"
  /\ UNCHANGED <<fsmVars, confVars, streamVars, probeVars, mem, task,
                 sidecar, final, historyVars>>

(* record_chunk and persist of attempt s's manifest.                       *)
Recorded(s, i) == [mem EXCEPT ![s].done = @ \cup {i}]
Persisted(m) == [size |-> m.size, done |-> m.done]

(* Record the first chunk and spawn a task for every chunk still missing.  *)
FirstRecord ==
  /\ pc = "record"
  /\ mem' = Recorded(slot, first)
  /\ sidecar' = Persisted(mem'[slot])
  /\ task' = [task EXCEPT ![slot] =
       [i \in Units |-> IF i \in (1..want) \ mem'[slot].done THEN "fetch" ELSE "none"]]
  /\ pc' = "join"
  /\ UNCHANGED <<fsmVars, confVars, streamVars, probeVars, part, final, historyVars>>

(* A chunk task, of the running attempt or of one that left it behind.     *)
ChunkWrite(s, i) ==
  /\ task[s][i] = "fetch" /\ i <= mem[s].src /\ part.exists
  /\ part' = Put(part, i, mem[s].src)
  /\ task' = [task EXCEPT ![s][i] = "record"]
  /\ UNCHANGED <<fsmVars, pc, confVars, streamVars, probeVars, mem, sidecar, final, historyVars>>

(* The fetch failed for good, or .part is not there to be opened.          *)
ChunkFail(s, i) ==
  /\ task[s][i] = "fetch"
  /\ task' = [task EXCEPT ![s][i] = "err"]
  /\ UNCHANGED <<fsmVars, pc, confVars, streamVars, probeVars, mem, part,
                 sidecar, final, historyVars>>

(* Under the manifest's lock: record, then persist (which may fail).       *)
ChunkRecord(s, i) ==
  /\ task[s][i] = "record"
  /\ mem' = Recorded(s, i)
  /\ \/ sidecar' = Persisted(mem'[s]) /\ task' = [task EXCEPT ![s][i] = "ok"]
     \/ sidecar' = sidecar            /\ task' = [task EXCEPT ![s][i] = "err"]
  /\ UNCHANGED <<fsmVars, pc, confVars, streamVars, probeVars, part, final, historyVars>>

ChunkTask(s, i) == ChunkWrite(s, i) \/ ChunkFail(s, i) \/ ChunkRecord(s, i)

(* Mutant: the results of the tasks are not looked at.                     *)
JoinIgnoresErrors ==
  /\ pc = "join"
  /\ \A i \in Units : task[slot][i] \in {"none", "ok", "err"}
  /\ IF part.len = want THEN AttemptOk("joined") ELSE AttemptFatal
  /\ UNCHANGED <<confVars, mem, task, part, sidecar, final>>

(* All tasks joined: only the length of the assembled file is verified.    *)
JoinAll ==
  /\ pc = "join"
  /\ \A i \in Units : task[slot][i] \in {"none", "ok"}
  /\ IF part.len = want THEN AttemptOk("joined") ELSE AttemptFatal
  /\ UNCHANGED <<confVars, mem, task, part, sidecar, final>>

(* Handles are awaited in chunk order; the first error returns, the tasks  *)
(* after it run on.                                                        *)
JoinError ==
  /\ pc = "join"
  /\ \E i \in Units : /\ task[slot][i] = "err"
                      /\ \A k \in 1..(i - 1) : task[slot][k] \in {"none", "ok"}
  /\ AttemptFatal
  /\ UNCHANGED <<confVars, mem, task, part, sidecar, final>>

-----------------------------------------------------------------------------
(* The single stream: download_stream_once under with_retry.               *)

EnterSingleStream ==
  /\ pc = "attempt" /\ ~Ranged
  /\ pc' = "request" /\ tries' = 0
  /\ UNCHANGED <<fsmVars, confVars, pos, append, probeVars, mem, task,
                 part, sidecar, final, historyVars>>

(* .part is as long as the file: taken as complete, no request is made,    *)
(* though a ranged attempt may have laid it out at that length.            *)
AcceptByLength ==
  /\ pc = "request" /\ part.len >= want
  /\ AttemptOk(IF part.laid THEN "preallocated" ELSE "length")
  /\ UNCHANGED <<confVars, mem, task, part, sidecar, final>>

(* A stream takes .part over and leaves the sidecar as it is: that of a    *)
(* ranged job, if the threshold has been raised and its .part removed.     *)
TakeOver == overtaken' = (overtaken \/ sidecar.done # {})

(* Range: bytes=len- answered 206, so the stream appends.                  *)
RequestResumed ==
  /\ pc = "request" /\ 0 < part.len /\ part.len < want /\ part.len < src
  /\ pc' = "stream" /\ pos' = part.len /\ append' = TRUE
  /\ TakeOver
  /\ UNCHANGED <<fsmVars, confVars, tries, probeVars, mem, task,
                 part, sidecar, final, detached>>

(* Mutant: the stream preallocates .part, as the ranged path does.         *)
RequestPreallocates ==
  /\ pc = "request" /\ part.len < want
  /\ part' = File(TRUE, want, FALSE)
  /\ pc' = "stream" /\ pos' = 0 /\ append' = FALSE
  /\ TakeOver
  /\ UNCHANGED <<fsmVars, confVars, tries, probeVars, mem, task, sidecar, final, detached>>

(* A plain request, or a server that ignores Range: start over from 0.     *)
RequestFromZero ==
  /\ pc = "request" /\ part.len < want
  /\ part' = EmptyFile
  /\ pc' = "stream" /\ pos' = 0 /\ append' = FALSE
  /\ TakeOver
  /\ UNCHANGED <<fsmVars, confVars, tries, probeVars, mem, task, sidecar, final, detached>>

(* A 4xx of the link; while streaming, no byte for stall_secs.             *)
StreamExpired ==
  /\ \/ pc = "request" /\ part.len < want
     \/ pc = "stream"
  /\ AttemptUrlExpired
  /\ UNCHANGED <<confVars, mem, task, part, sidecar, final>>

(* A 4xx that is not of the link (416 among them).                         *)
RequestFatal ==
  /\ pc = "request" /\ part.len < want
  /\ AttemptFatal
  /\ UNCHANGED <<confVars, mem, task, part, sidecar, final>>

(* Append mode writes at the end of the file, whatever its length is now;  *)
(* what is written to a .part that has been removed is lost.               *)
StreamUnit ==
  /\ pc = "stream" /\ pos < src
  /\ LET at == IF append THEN part.len + 1 ELSE pos + 1 IN
       part' = IF part.exists THEN Put(part, at, IF at = pos + 1 THEN src ELSE 0) ELSE part
  /\ pos' = pos + 1
  /\ UNCHANGED <<fsmVars, pc, confVars, tries, append, probeVars, mem, task,
                 sidecar, final, historyVars>>

StreamComplete ==
  /\ pc = "stream" /\ pos = src /\ pos = want
  /\ AttemptOk("streamed")
  /\ UNCHANGED <<confVars, mem, task, part, sidecar, final>>

(* 5xx, a broken connection or a short read: with_retry asks again, each   *)
(* time from .part's length, until its backoffs are spent.                 *)
StreamTransient ==
  /\ \/ pc = "request" /\ part.len < want
     \/ pc = "stream" /\ ~(pos = src /\ pos = want)
  /\ IF tries < MaxRetries
     THEN /\ tries' = tries + 1 /\ pc' = "request"
          /\ pos' = 0 /\ append' = FALSE
          /\ UNCHANGED <<fsmVars, probeVars, historyVars>>
     ELSE AttemptFatal
  /\ UNCHANGED <<confVars, mem, task, part, sidecar, final>>

-----------------------------------------------------------------------------
(* The refresh: UrlRefresher::refresh returned.                            *)

RefreshSame ==
  /\ pc = "refresh"
  /\ st' = Advance(st, "RefreshSucceeded")
  /\ src' = want
  /\ pc' = "attempt"
  /\ UNCHANGED <<refreshes, written, how, want, threshold, jobs, reported, fellBack,
                 streamVars, probeVars, mem, task, part, sidecar, final, historyVars>>

(* Another size: discard_part and restart on the new URL, for the old size. *)
RefreshMismatch ==
  /\ pc = "refresh"
  /\ \E z \in Sizes \ {want} : src' = z /\ reported' = reported \cup {z}
  /\ part' = NoFile /\ sidecar' = NoSidecar
  /\ st' = Advance(Advance(st, "SizeMismatch"), "EnterDownload")
  /\ pc' = "attempt"
  /\ UNCHANGED <<refreshes, written, how, want, threshold, jobs, fellBack,
                 streamVars, probeVars, mem, task, final, historyVars>>

RefreshError ==
  /\ pc = "refresh"
  /\ st' = Advance(st, "AttemptFatal")
  /\ pc' = "idle"
  /\ UNCHANGED <<refreshes, written, how, confVars, streamVars, probeVars, mem, task,
                 part, sidecar, final, historyVars>>

-----------------------------------------------------------------------------
(* Publication: download_file_ranged after the job returned Ok.            *)

(* Mutant: .part is copied in place, not renamed.                          *)
RenameByCopy ==
  /\ pc = "rename" /\ part.exists
  /\ IF final.exists
     THEN final' = part /\ part' = NoFile /\ pc' = "unlink"
     ELSE final' = File(TRUE, part.len, FALSE) /\ UNCHANGED <<part, pc>>
  /\ UNCHANGED <<fsmVars, confVars, streamVars, probeVars, mem, task, sidecar, historyVars>>

Rename ==
  /\ pc = "rename" /\ part.exists
  /\ final' = part /\ part' = NoFile
  /\ pc' = "unlink"
  /\ UNCHANGED <<fsmVars, confVars, streamVars, probeVars, mem, task, sidecar, historyVars>>

(* The rename fails; .part and sidecar stay for a later job.               *)
RenameError ==
  /\ pc = "rename"
  /\ pc' = "idle"
  /\ UNCHANGED <<fsmVars, confVars, streamVars, probeVars, mem, task,
                 part, sidecar, final, historyVars>>

UnlinkSidecar ==
  /\ pc = "unlink"
  /\ sidecar' = NoSidecar
  /\ pc' = "tag"
  /\ UNCHANGED <<fsmVars, confVars, streamVars, probeVars, mem, task, part, final, historyVars>>

(* The caller of the download has a blocking thread write the tags into    *)
(* the published file, which is rewritten in place; the retries of a batch *)
(* are part of the same write.                                             *)
TagBegin ==
  /\ pc = "tag" /\ final.exists
  /\ final' = [final EXCEPT !.tags = "writing"]
  /\ pc' = "tagging"
  /\ UNCHANGED <<fsmVars, confVars, streamVars, probeVars, mem, task, part, sidecar, historyVars>>

(* No tags for this kind of file, or an error before anything is written.  *)
TagSkip ==
  /\ pc = "tag"
  /\ pc' = "idle"
  /\ UNCHANGED <<fsmVars, confVars, streamVars, probeVars, mem, task,
                 part, sidecar, final, historyVars>>

(* The write is done, or fails midway; its error is only logged.           *)
TagEnd ==
  /\ final.tags = "writing"
  /\ \E t \in {"tagged", "torn"} : final' = [final EXCEPT !.tags = t]
  /\ UNCHANGED <<fsmVars, pc, confVars, streamVars, probeVars, mem, task,
                 part, sidecar, historyVars>>

(* The thread has ended, be it that the file was removed under it.         *)
TagReturn ==
  /\ pc = "tagging" /\ final.tags # "writing"
  /\ pc' = "idle"
  /\ UNCHANGED <<fsmVars, confVars, streamVars, probeVars, mem, task,
                 part, sidecar, final, historyVars>>

(* A request that finds the published file usable writes its tags again.   *)
TagCached ==
  /\ pc = "idle" /\ final.exists
  /\ final' = [final EXCEPT !.tags = "writing"]
  /\ UNCHANGED <<fsmVars, pc, confVars, streamVars, probeVars, mem, task,
                 part, sidecar, historyVars>>

-----------------------------------------------------------------------------
(* What interrupts a job.                                                  *)

(* The worker's timeout drops the job at an await: its chunk tasks run on, *)
(* as does a tag write, and a rename handed to the blocking pool still     *)
(* happens.                                                                *)
Abandon ==
  /\ pc \notin {"idle", "unlink"}
  /\ pc' = "idle"
  /\ \/ UNCHANGED <<part, final>>
     \/ pc = "rename" /\ part.exists /\ final' = part /\ part' = NoFile
  /\ LeaveAttempt
  /\ UNCHANGED <<fsmVars, confVars, mem, task, sidecar>>

(* The process dies; the files are what is left, tags half written too.    *)
Crash ==
  /\ pc' = "idle"
  /\ tries' = 0 /\ pos' = 0 /\ append' = FALSE
  /\ trunc' = FALSE /\ first' = 0 /\ slot' = 0
  /\ task' = [s \in Slots |-> [i \in Units |-> "none"]]
  /\ mem' = [s \in Slots |-> [size |-> 0, src |-> 0, done |-> {}]]
  /\ final' = [final EXCEPT !.tags = IF @ = "writing" THEN "torn" ELSE @]
  /\ UNCHANGED <<fsmVars, confVars, part, sidecar, historyVars>>

(* The cleanup loop removes an old .part, the disk guard one it does not   *)
(* find registered: both have looked before a job took .part up, or look   *)
(* nowhere for it (no permit is held).  The sidecar is never registered,   *)
(* nor is a published file, whose age alone decides.                       *)
EvictPart ==
  /\ part.exists
  /\ part' = NoFile
  /\ UNCHANGED <<fsmVars, pc, confVars, streamVars, probeVars, mem, task,
                 sidecar, final, historyVars>>

EvictSidecar ==
  /\ sidecar # NoSidecar
  /\ sidecar' = NoSidecar
  /\ UNCHANGED <<fsmVars, pc, confVars, streamVars, probeVars, mem, task,
                 part, final, historyVars>>

EvictFinal ==
  /\ final.exists
  /\ final' = NoFile
  /\ UNCHANGED <<fsmVars, pc, confVars, streamVars, probeVars, mem, task,
                 part, sidecar, historyVars>>

-----------------------------------------------------------------------------

Init ==
  /\ st = "Init" /\ pc = "idle" /\ refreshes = 0 /\ written = 0 /\ how = "none"
  /\ want = 0 /\ threshold = 0 /\ src = 0 /\ jobs = 0 /\ reported = {} /\ fellBack = FALSE
  /\ tries = 0 /\ pos = 0 /\ append = FALSE
  /\ trunc = FALSE /\ first = 0 /\ slot = 0
  /\ mem = [s \in Slots |-> [size |-> 0, src |-> 0, done |-> {}]]
  /\ task = [s \in Slots |-> [i \in Units |-> "none"]]
  /\ part = NoFile /\ sidecar = NoSidecar /\ final = NoFile
  /\ detached = FALSE /\ overtaken = FALSE

RangedStep ==
  \/ ProbeFirstGap \/ ManifestComplete \/ ProbePartial \/ ProbeExpired \/ ProbeFatal
  \/ ProbeFull \/ ProbeFallback \/ OpenPart \/ FirstError \/ FirstWrite \/ FirstRecord
  \/ JoinAll \/ JoinError

StreamStep ==
  \/ EnterSingleStream \/ AcceptByLength \/ RequestResumed \/ RequestFromZero
  \/ StreamExpired \/ RequestFatal \/ StreamUnit \/ StreamComplete \/ StreamTransient

DriverStep ==
  \/ RangedStep \/ StreamStep
  \/ RefreshSame \/ RefreshMismatch \/ RefreshError
  \/ Rename \/ RenameError \/ UnlinkSidecar
  \/ TagBegin \/ TagSkip \/ TagReturn

Next ==
  \/ StartJob \/ DriverStep
  \/ \E s \in Slots, i \in Units : ChunkTask(s, i)
  \/ TagEnd \/ TagCached
  \/ Abandon \/ Crash \/ EvictPart \/ EvictSidecar \/ EvictFinal

Spec == Init /\ [][Next]_vars

(* A job that runs is polled until it ends, every await of it ends (client *)
(* timeouts, the stall watchdog), and so does every spawned task and every *)
(* blocking write of tags.                                                 *)
Fairness ==
  /\ WF_vars(DriverStep)
  /\ WF_vars(TagEnd)
  /\ \A s \in Slots, i \in Units : WF_vars(ChunkTask(s, i))

FairSpec == Spec /\ Fairness

-----------------------------------------------------------------------------
(* Properties.                                                             *)

FsmStates == {"Init", "Ready", "Downloading", "Refreshing", "Assembled", "Failed",
              "InvalidTransition"}
TaskStates == {"none", "fetch", "record", "ok", "err"}
TagStates == {"none", "writing", "torn", "tagged"}
Files == [exists : BOOLEAN, len : Nat, laid : BOOLEAN, tags : TagStates,
          bytes : [Units -> {0} \cup Sizes]]
Manifests == [size : {0} \cup Sizes, done : SUBSET Units]
Mems == [size : {0} \cup Sizes, src : {0} \cup Sizes, done : SUBSET Units]

(* What the job's own task holds.                                          *)
DriverTypeOK ==
  /\ st \in FsmStates
  /\ pc \in {"idle", "attempt", "probe", "open", "first", "record", "join", "request",
             "stream", "refresh", "rename", "unlink", "tag", "tagging"}
  /\ refreshes \in 0..Budget /\ written \in Nat
  /\ how \in {"none", "manifest", "joined", "length", "preallocated", "streamed"}
  /\ tries \in 0..MaxRetries /\ pos \in Nat /\ append \in BOOLEAN
  /\ trunc \in BOOLEAN /\ first \in {0} \cup Units /\ slot \in {0} \cup Slots
  /\ detached \in BOOLEAN /\ overtaken \in BOOLEAN

(* The sizes involved, the chunk tasks and the files.                      *)
DataTypeOK ==
  /\ want \in {0} \cup Sizes /\ threshold \in {0} \cup Thresholds /\ src \in {0} \cup Sizes
  /\ jobs \in 0..MaxJobs /\ reported \subseteq Sizes /\ fellBack \in BOOLEAN
  /\ mem \in [Slots -> Mems]
  /\ task \in [Slots -> [Units -> TaskStates]]
  /\ part \in Files /\ final \in Files
  /\ sidecar \in Manifests

(* Every variable keeps its type: the FSM state is one of ResumeState's    *)
(* variants or the InvalidTransition error, the refresh count stays within *)
(* the budget, and no chunk outside the grid is ever recorded.             *)
TypeOK == DriverTypeOK /\ DataTypeOK

(* No chunk task has outlived its attempt, no stream has written .part     *)
(* beside a sidecar that claims chunks, and the API has always reported    *)
(* one size for the path.                                                  *)
Clean == ~detached /\ ~overtaken /\ \A y, z \in reported : y = z

(* manifest.rs:11: while a .part is there, the sidecar on disk never       *)
(* claims a chunk whose bytes are missing from it -- across crashes,       *)
(* abandoned jobs, evictions, fallbacks, restarts and changes of the       *)
(* threshold -- provided no chunk task of an attempt that ended is still   *)
(* at work and no stream took over the place of an evicted .part while its *)
(* sidecar stayed.                                                         *)
ManifestNeverAhead == Clean /\ part.exists => sidecar.done \subseteq Filled(part)

(* A file is published with holes only through the length test of          *)
(* single_stream.rs:102 on a .part that a ranged attempt, of this job or   *)
(* of one before the threshold was raised, has laid out: every other way   *)
(* an attempt can succeed publishes a whole file.  Tags may then rewrite   *)
(* it: what their write leaves when it fails or dies is not covered.       *)
HolesOnlyByLength ==
  (/\ Clean /\ how # "preallocated"
   /\ final.exists /\ final.tags \in {"none", "tagged"}) => Whole(final)

(* single_stream.rs:9: the length of .part is the number of bytes written, *)
(* whatever interrupted the earlier jobs -- as long as no ranged attempt   *)
(* has laid it out, be the job that reads the length ranged or streamed.   *)
LengthIsProgress ==
  (Clean /\ ~part.laid) => \A i \in 1..part.len : part.bytes[i] # 0

(* job.rs:164-305: the FSM's state tells where the driver is -- an attempt *)
(* runs in Downloading only, a refresh is awaited in Refreshing only, and  *)
(* what is published was Assembled -- and the one illegal transition the   *)
(* driver can take is that of a refresh that failed.                       *)
FsmFollowsDriver ==
  /\ pc \in {"attempt", "probe", "open", "first", "record", "join", "request", "stream"}
       => st = "Downloading"
  /\ pc = "refresh" => st = "Refreshing" /\ refreshes > 0
  /\ pc \in {"rename", "unlink", "tag", "tagging"} \/ final.exists => st = "Assembled"
  /\ st = "InvalidTransition" => pc = "idle" /\ refreshes > 0

(* job.rs:95: the offset a refreshed URL resumes from is never beyond what *)
(* was written when the old one expired.                                   *)
ResumeWithinWritten == (Clean /\ pc = "refresh") => part.len <= written

(* Every job ends, however its links expire, its streams break or its      *)
(* refreshes disagree (job.rs:149: a bounded loop).                        *)
JobsTerminate == pc # "idle" ~> pc = "idle"

(* What readers of the path are promised (wrapper.rs:66-88): see Download. *)
(* The promise does not cover chunk tasks that outlive their attempt, a    *)
(* stream beside a sidecar, a song whose size changes, and the length test *)
(* on a .part that was laid out.                                           *)
Promise == INSTANCE Download WITH
  job     <- IF pc = "idle" THEN "idle"
             ELSE IF pc \in {"unlink", "tag", "tagging"} THEN "published" ELSE "busy",
  path    <- IF ~final.exists THEN "none" ELSE IF Whole(final) THEN "whole" ELSE "broken",
  tags    <- final.tags,
  trusted <- Clean /\ how # "preallocated"

ImplementsDownload == Promise!Spec

-----------------------------------------------------------------------------
(* The inductive strengthening of ManifestNeverAhead.                      *)

InRanged == pc \in {"probe", "open", "first", "record", "join"}

(* What a ranged attempt works with: a chunk of the grid, a manifest of    *)
(* its own for the job's size, and sizes the API did report.               *)
AttemptInv ==
  /\ pc # "idle" => {want, src} \subseteq reported
  /\ InRanged => slot \in Slots /\ first \in Units /\ Ranged
  /\ InRanged => mem[slot].size = want

(* Only the running attempt has live tasks; a sidecar that claims chunks   *)
(* is that of a job of this size, is not there while a stream rewrites     *)
(* .part, and was empty before an attempt truncates it; the in-memory      *)
(* manifest, the chunks about to be recorded and the sidecar all speak of  *)
(* bytes that are in .part, if it is there.                                *)
ManifestSound ==
  /\ \A s \in Slots : Live(s) => s = slot /\ pc = "join"
  /\ sidecar.done # {} => sidecar.size \in reported
  /\ pc = "stream" => sidecar.done = {}
  /\ pc \in {"probe", "open"} /\ trunc => sidecar.done = {} /\ mem[slot].done = {}
  /\ part.exists =>
       /\ InRanged => mem[slot].done \subseteq Filled(part)
       /\ pc = "record" => first \in Filled(part)
       /\ pc = "join" => {i \in Units : task[slot][i] = "record"} \subseteq Filled(part)
       /\ sidecar.done \subseteq Filled(part)

IInv == TypeOK /\ AttemptInv /\ (Clean => ManifestSound)

-----------------------------------------------------------------------------
(* What the source says and the code does not do.                          *)

(* ranged.rs:182: the fallback to single_stream downloads the whole file   *)
(* again.  (It does not: .part is already as long as the file.)            *)
FallbackRedownloads == (Clean /\ fellBack /\ final.exists) => Whole(final)

(* manifest.rs:11: the manifest is always behind the bytes, never ahead.   *)
(* (Chunk tasks that outlive their attempt break it.)                      *)
ManifestBehindBytes == part.exists => sidecar.done \subseteq Filled(part)

(* job.rs:139, 251: after a refresh that reports another size, .part is     *)
(* discarded and the file downloaded whole.  (It is downloaded for the old *)
(* size: the driver keeps content_length.)                                 *)
MismatchRestartsWhole == (~detached /\ ~fellBack /\ final.exists) => Whole(final)

=============================================================================
