----------------------------- MODULE Statistics -----------------------------
(***************************************************************************)
(* The totals of stats_file.rs: counted under a lock, flushed every five   *)
(* seconds when dirty, loaded at start, and broadcast to the pages that    *)
(* watch them (handler/stats.rs).  One total stands for the buckets, which *)
(* change together.  The gauges are Permits' subject.  A page that lags    *)
(* more than the 128 messages of the channel is left out.                  *)
(***************************************************************************)
EXTENDS Integers, Sequences

CONSTANTS
  Handlers,  \* requests that count or discount at the same time
  MaxTotal   \* requests counted: a bound of the model

ASSUME TotalAssumption == MaxTotal \in Nat

VARIABLES
  up,       \* the process runs
  total,    \* data
  dirty,    \* the flag
  flusher,  \* "idle", "taken" the flag, or "writing" with the lock held
  file,     \* the total in the file, or Torn: not JSON
  counter,  \* per handler: "idle", "adding" with the lock held, "notify", "send"
  snapshot, \* per handler: the total get_all gave it
  watcher,  \* steps the page's stream has taken
  seen,     \* the totals the page has been sent
  failed    \* history: the last write of the file failed

statVars == <<up, total, dirty, flusher, file, counter, snapshot, watcher, seen, failed>>

Torn == -1
LockFree == flusher # "writing" /\ \A h \in Handlers : counter[h] # "adding"

(* load_from_file: what is no JSON counts as nothing.                      *)
Load(f) == IF f = Torn THEN 0 ELSE f

(* Mutant: the totals are read before the page subscribes.                 *)
ReadsFirst == <<"initial", "subscribe">>

StreamSteps == <<"subscribe", "initial">>
Listening == \E i \in 1..watcher : StreamSteps[i] = "subscribe"

-----------------------------------------------------------------------------
(* increment; decrement only changes a gauge and notifies.                 *)

Add(h) ==
  /\ up /\ counter[h] = "idle" /\ LockFree /\ total < MaxTotal
  /\ total' = total + 1
  /\ counter' = [counter EXCEPT ![h] = "adding"]
  /\ UNCHANGED <<up, dirty, flusher, file, snapshot, watcher, seen, failed>>

(* Mutant: the flag is left as it was.                                     *)
Unmarked == dirty

Marked == TRUE

Mark(h) ==
  /\ counter[h] = "adding"
  /\ dirty' = Marked
  /\ counter' = [counter EXCEPT ![h] = "notify"]
  /\ UNCHANGED <<up, total, flusher, file, snapshot, watcher, seen, failed>>

Discount(h) ==
  /\ up /\ counter[h] = "idle"
  /\ counter' = [counter EXCEPT ![h] = "notify"]
  /\ UNCHANGED <<up, total, dirty, flusher, file, snapshot, watcher, seen, failed>>

(* notify_sse: get_all takes the lock, the message is sent without it.     *)
TakeSnapshot(h) ==
  /\ counter[h] = "notify" /\ LockFree
  /\ snapshot' = [snapshot EXCEPT ![h] = total]
  /\ counter' = [counter EXCEPT ![h] = "send"]
  /\ UNCHANGED <<up, total, dirty, flusher, file, watcher, seen, failed>>

Send(h) ==
  /\ counter[h] = "send"
  /\ seen' = IF Listening THEN seen \cup {snapshot[h]} ELSE seen
  /\ counter' = [counter EXCEPT ![h] = "idle"]
  /\ snapshot' = [snapshot EXCEPT ![h] = 0]
  /\ UNCHANGED <<up, total, dirty, flusher, file, watcher, failed>>

-----------------------------------------------------------------------------
(* flush_if_dirty.                                                         *)

TakeFlag ==
  /\ up /\ flusher = "idle" /\ dirty
  /\ dirty' = FALSE /\ flusher' = "taken"
  /\ UNCHANGED <<up, total, file, counter, snapshot, watcher, seen, failed>>

(* The file is opened and truncated in place, or cannot be.                *)
OpenFile ==
  /\ flusher = "taken" /\ LockFree
  /\ \/ file' = Torn /\ flusher' = "writing" /\ UNCHANGED failed
     \/ UNCHANGED file /\ flusher' = "idle" /\ failed' = TRUE
  /\ UNCHANGED <<up, total, dirty, counter, snapshot, watcher, seen>>

WriteFile ==
  /\ flusher = "writing" /\ flusher' = "idle"
  /\ \/ file' = total /\ failed' = FALSE
     \/ file' = Torn /\ failed' = TRUE
  /\ UNCHANGED <<up, total, dirty, counter, snapshot, watcher, seen>>

-----------------------------------------------------------------------------
(* parse_stats_stream: the page subscribes, then is sent the totals.       *)

WatchStep ==
  /\ up /\ watcher < Len(StreamSteps) /\ watcher' = watcher + 1
  /\ StreamSteps[watcher'] = "initial" => LockFree
  /\ seen' = IF StreamSteps[watcher'] = "initial" THEN seen \cup {total} ELSE seen
  /\ UNCHANGED <<up, total, dirty, flusher, file, counter, snapshot, failed>>

-----------------------------------------------------------------------------
StatCrash ==
  /\ up /\ up' = FALSE
  /\ total' = 0 /\ dirty' = FALSE /\ flusher' = "idle"
  /\ counter' = [h \in Handlers |-> "idle"] /\ snapshot' = [h \in Handlers |-> 0]
  /\ watcher' = 0 /\ seen' = {}
  /\ UNCHANGED <<file, failed>>

(* FileStatsStore::new; a file that is not there counts as nothing too.    *)
Restart ==
  /\ ~up /\ up' = TRUE
  /\ total' = Load(file)
  /\ failed' = FALSE
  /\ UNCHANGED <<dirty, flusher, file, counter, snapshot, watcher, seen>>
StatInit ==
  /\ up = FALSE /\ total = 0 /\ dirty = FALSE /\ flusher = "idle"
  /\ file \in {Torn, 0} /\ failed = FALSE
  /\ counter = [h \in Handlers |-> "idle"] /\ snapshot = [h \in Handlers |-> 0]
  /\ watcher = 0 /\ seen = {}

StatNext ==
  \/ TakeFlag \/ OpenFile \/ WriteFile \/ WatchStep \/ StatCrash \/ Restart
  \/ \E h \in Handlers : Add(h) \/ Mark(h) \/ Discount(h) \/ TakeSnapshot(h) \/ Send(h)

StatSpec == StatInit /\ [][StatNext]_statVars

-----------------------------------------------------------------------------
(* Properties.                                                             *)

StatTypeOK ==
  /\ up \in BOOLEAN /\ dirty \in BOOLEAN /\ failed \in BOOLEAN
  /\ total \in Nat /\ file \in Nat \cup {Torn}
  /\ flusher \in {"idle", "taken", "writing"}
  /\ counter \in [Handlers -> {"idle", "adding", "notify", "send"}]
  /\ snapshot \in [Handlers -> Nat]
  /\ watcher \in 0..Len(StreamSteps) /\ seen \subseteq Nat

(* With the flag down and nobody at work the file holds what is counted,   *)
(* unless the last write failed: the flag is taken before the lock, so     *)
(* what is counted in between must raise it again (stats_file.rs:88-98,    *)
(* 126-135).                                                               *)
DirtyOrSaved ==
  up /\ ~dirty /\ flusher = "idle" /\ (\A h \in Handlers : counter[h] # "adding") /\ ~failed =>
    Load(file) = total

(* Once no message is under way a live page has been sent the current      *)
(* total, in whatever order the messages of concurrent requests went out   *)
(* (handler/stats.rs:24-45, stats_file.rs:79-86).                          *)
WatcherCatchesUp ==
  watcher = Len(StreamSteps) /\ (\A h \in Handlers : counter[h] = "idle") => total \in seen
=============================================================================
