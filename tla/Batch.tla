------------------------------- MODULE Batch -------------------------------
(***************************************************************************)
(* The batch download worker of                                            *)
(* crates/adapter/src/web/handler/download_batch.rs: its loop over the     *)
(* songs, the two prefetch slots that parse the next two songs while one   *)
(* downloads, the triggers that arm them, the cancel check and the end of  *)
(* the task.                                                               *)
(*                                                                         *)
(* A prefetch is named after the index of the song it is for; its trigger  *)
(* is the iteration that spawned it and how much of that song must have    *)
(* been downloaded.  What the calls of an iteration return is chosen.      *)
(***************************************************************************)
EXTENDS Naturals, Sequences, FiniteSets, SequencesExt

CONSTANTS
  MaxSongs,   \* length of a request (batch_max_songs)
  Requests    \* what the ids of a request resolve to, song by song

ASSUME MaxSongsAssumption == MaxSongs \in Nat
ASSUME RequestsAssumption == \A r \in Requests : r \in Seq(1..MaxSongs) /\ Len(r) \in 1..MaxSongs

VARIABLES
  ids,         \* the request
  i,           \* the iteration
  pc,          \* where the worker is
  music,       \* music_id of this iteration
  n1, n2,      \* prefetch_n_plus_1, prefetch_n_plus_2 (0: None)
  prefetch,    \* the prefetch task of each song
  trigger,     \* what each prefetch task waits for
  fired,       \* triggers that are set
  seen,        \* seen_ids
  tracks,      \* track_data
  completed, failed, skipped,
  stage,       \* TaskStage of the batch's task
  cancelled,   \* the task is in state.cancelled
  cancelling   \* a cancel handler has marked it and not yet updated it

slotVars   == <<n1, n2, prefetch, trigger>>
countVars  == <<seen, tracks, completed, failed, skipped>>
cancelVars == <<cancelled, cancelling>>
vars == <<ids, i, pc, music, slotVars, fired, countVars, stage, cancelVars>>

Indices == 1..MaxSongs
Music == Indices   \* music ids
Terminal == {"Done", "Error"}
None == "none"
NoMusic == 0

(* The end of an iteration, however it is left.                            *)
Continue == i' = i + 1 /\ pc' = "check"

(* Both triggers of the iteration, so that no prefetch waits for a         *)
(* download that is over.                                                  *)
FireBoth == fired' = fired \cup {<<i, "half">>, <<i, "quarter">>}

-----------------------------------------------------------------------------

Busy ==
  /\ pc = "begin"
  /\ stage' = "Error" /\ pc' = "end"
  /\ UNCHANGED <<ids, i, music, slotVars, fired, countVars, cancelVars>>

Begin ==
  /\ pc = "begin"
  /\ i' = 1 /\ pc' = "check"
  /\ UNCHANGED <<ids, music, slotVars, fired, countVars, stage, cancelVars>>

Check ==
  /\ pc = "check" /\ (i <= Len(ids) => ~cancelled)
  /\ pc' = IF i <= Len(ids) THEN "resolve" ELSE "wrap"
  /\ UNCHANGED <<ids, i, music, slotVars, fired, countVars, stage, cancelVars>>

(* A cancelled batch aborts its prefetches and packs what it has.          *)
Break ==
  /\ pc = "check" /\ i <= Len(ids) /\ cancelled
  /\ cancelled' = FALSE
  /\ n1' = 0 /\ n2' = 0
  /\ prefetch' = [j \in Indices |-> IF j \in {n1, n2} THEN "ended" ELSE prefetch[j]]
  /\ pc' = "wrap"
  /\ UNCHANGED <<ids, i, music, trigger, fired, countVars, stage, cancelling>>

(* Await the prefetch of this song, at most 60 seconds (a task that is     *)
(* given up runs on); without one, or without its result, resolve the id.  *)
(* Then rotate the slots and skip a song already seen.                     *)
Resolved(mid, next) ==
  /\ n1' = n2 /\ n2' = 0
  /\ music' = mid
  /\ IF mid \in seen
     THEN skipped' = skipped + 1 /\ Continue /\ UNCHANGED <<seen, stage>>
     ELSE seen' = seen \cup {mid} /\ stage' = "Downloading" /\ pc' = next /\ UNCHANGED <<i, skipped>>
  /\ UNCHANGED <<ids, trigger, fired, tracks, completed, failed, cancelVars>>

(* Mutant: only an id resolved in the loop is looked up in seen_ids.       *)
UsePrefetchUnchecked ==
  /\ pc = "resolve" /\ n1 # 0 /\ prefetch[n1] = "info"
  /\ prefetch' = [prefetch EXCEPT ![n1] = "ended"]
  /\ n1' = n2 /\ n2' = 0 /\ music' = ids[n1] /\ seen' = seen \cup {ids[n1]}
  /\ stage' = "Downloading" /\ pc' = "spawn"
  /\ UNCHANGED <<ids, i, trigger, fired, tracks, completed, failed, skipped, cancelVars>>

UsePrefetch ==
  /\ pc = "resolve" /\ n1 # 0 /\ prefetch[n1] = "info"
  /\ prefetch' = [prefetch EXCEPT ![n1] = "ended"]
  /\ Resolved(ids[n1], "spawn")

(* Mutant: the slots rotate only when a prefetch has been used.            *)
ResolveIdUnrotated ==
  /\ pc = "resolve" /\ (n1 # 0 => prefetch[n1] # "info")
  /\ music' = ids[i] /\ n1' = 0
  /\ IF ids[i] \in seen
     THEN skipped' = skipped + 1 /\ Continue /\ UNCHANGED <<seen, stage>>
     ELSE seen' = seen \cup {ids[i]} /\ stage' = "Downloading" /\ pc' = "parse" /\ UNCHANGED <<i, skipped>>
  /\ UNCHANGED <<ids, n2, prefetch, trigger, fired, tracks, completed, failed, cancelVars>>

ResolveId ==
  /\ pc = "resolve" /\ (n1 # 0 => prefetch[n1] # "info")
  /\ Resolved(ids[i], "parse") /\ UNCHANGED prefetch

(* Mutant: a song whose parse fails is tried again.                        *)
ParseFailsRetries ==
  /\ pc = "parse"
  /\ failed' = failed + 1
  /\ UNCHANGED <<ids, i, pc, music, slotVars, fired, seen, tracks, completed, skipped, stage, cancelVars>>

ParseFails ==
  /\ pc = "parse"
  /\ failed' = failed + 1 /\ Continue
  /\ UNCHANGED <<ids, music, slotVars, fired, seen, tracks, completed, skipped, stage, cancelVars>>

Parse ==
  /\ pc = "parse" /\ pc' = "spawn"
  /\ UNCHANGED <<ids, i, music, slotVars, fired, countVars, stage, cancelVars>>

(* Arm the empty slots.                                                    *)
Spawn ==
  /\ pc = "spawn" /\ pc' = "permit"
  /\ LET half    == IF n1 = 0 /\ i + 1 <= Len(ids) THEN {i + 1} ELSE {}
         quarter == IF n2 = 0 /\ i + 2 <= Len(ids) THEN {i + 2} ELSE {} IN
       /\ n1' = IF half # {} THEN i + 1 ELSE n1
       /\ n2' = IF quarter # {} THEN i + 2 ELSE n2
       /\ prefetch' = [j \in Indices |-> IF j \in half \cup quarter THEN "armed" ELSE prefetch[j]]
       /\ trigger' = [j \in Indices |-> CASE j \in half -> <<i, "half">>
                                          [] j \in quarter -> <<i, "quarter">>
                                          [] OTHER -> trigger[j]]
  /\ UNCHANGED <<ids, i, music, fired, countVars, stage, cancelVars>>

(* Mutant: a song that gets no permit is not counted.                      *)
PermitTimeoutUncounted ==
  /\ pc = "permit"
  /\ FireBoth /\ Continue
  /\ UNCHANGED <<ids, music, slotVars, countVars, stage, cancelVars>>

(* No download permit for 120 seconds.                                     *)
PermitTimeout ==
  /\ pc = "permit"
  /\ failed' = failed + 1 /\ FireBoth /\ Continue
  /\ UNCHANGED <<ids, music, slotVars, seen, tracks, completed, skipped, stage, cancelVars>>

Append1 ==
  /\ tracks' = Append(tracks, music) /\ completed' = completed + 1
  /\ FireBoth /\ Continue

(* A file of this name is there, whatever its size.                        *)
Cached ==
  /\ pc = "permit" /\ Append1
  /\ UNCHANGED <<ids, music, slotVars, seen, failed, skipped, stage, cancelVars>>

(* Mutant: this exit does not set the triggers.                            *)
NoSpaceUntriggered ==
  /\ pc = "permit"
  /\ failed' = failed + 1 /\ Continue
  /\ UNCHANGED <<ids, music, slotVars, fired, seen, tracks, completed, skipped, stage, cancelVars>>

(* disk_guard finds no room.                                               *)
NoSpace ==
  /\ pc = "permit"
  /\ failed' = failed + 1 /\ FireBoth /\ Continue
  /\ UNCHANGED <<ids, music, slotVars, seen, tracks, completed, skipped, stage, cancelVars>>

Download ==
  /\ pc = "permit" /\ pc' = "download"
  /\ UNCHANGED <<ids, i, music, slotVars, fired, countVars, stage, cancelVars>>

(* The progress callback, at 25% and at 50%.                               *)
Progress ==
  /\ pc = "download"
  /\ \/ fired' = fired \cup {<<i, "quarter">>}
     \/ fired' = fired \cup {<<i, "quarter">>, <<i, "half">>}
  /\ UNCHANGED <<ids, i, pc, music, slotVars, countVars, stage, cancelVars>>

Downloaded ==
  /\ pc = "download" /\ Append1
  /\ UNCHANGED <<ids, music, slotVars, seen, failed, skipped, stage, cancelVars>>

(* Mutant: a song whose download fails is tried again.                     *)
DownloadFailsRetries ==
  /\ pc = "download"
  /\ FireBoth /\ pc' = "permit"
  /\ UNCHANGED <<ids, i, music, slotVars, countVars, stage, cancelVars>>

(* An error, or download_timeout_per_song_secs.                            *)
DownloadFails ==
  /\ pc = "download"
  /\ failed' = failed + 1 /\ FireBoth /\ Continue
  /\ UNCHANGED <<ids, music, slotVars, seen, tracks, completed, skipped, stage, cancelVars>>

(* Mutant: a batch without tracks just returns.                            *)
WrapSilent ==
  /\ pc = "wrap"
  /\ IF tracks = <<>> THEN pc' = "end" /\ UNCHANGED stage ELSE stage' = "Packaging" /\ pc' = "zip"
  /\ UNCHANGED <<ids, i, music, slotVars, fired, countVars, cancelVars>>

Wrap ==
  /\ pc = "wrap"
  /\ IF tracks = <<>> THEN stage' = "Error" /\ pc' = "end" ELSE stage' = "Packaging" /\ pc' = "zip"
  /\ UNCHANGED <<ids, i, music, slotVars, fired, countVars, cancelVars>>

BuildZip ==
  /\ pc = "zip" /\ pc' = "end"
  /\ stage' = "Done" \/ stage' = "Error"
  /\ UNCHANGED <<ids, i, music, slotVars, fired, countVars, cancelVars>>

WorkerStep ==
  \/ Busy \/ Begin \/ Check \/ Break \/ UsePrefetch \/ ResolveId \/ ParseFails \/ Parse
  \/ Spawn \/ PermitTimeout \/ Cached \/ NoSpace \/ Download \/ Downloaded \/ DownloadFails
  \/ Wrap \/ BuildZip

-----------------------------------------------------------------------------
(* A prefetch task polls its trigger every 100 ms, then resolves and       *)
(* parses the song (or gets no parse permit, or an error).                 *)

PrefetchStarts(j) ==
  /\ prefetch[j] = "armed" /\ trigger[j] \in fired
  /\ prefetch' = [prefetch EXCEPT ![j] = "running"]
  /\ UNCHANGED <<ids, i, pc, music, n1, n2, trigger, fired, countVars, stage, cancelVars>>

PrefetchEnds(j) ==
  /\ prefetch[j] = "running"
  /\ \E result \in {"info", "ended"} : prefetch' = [prefetch EXCEPT ![j] = result]
  /\ UNCHANGED <<ids, i, pc, music, n1, n2, trigger, fired, countVars, stage, cancelVars>>

(* download_cancel, one at a time, any number of times.                    *)
CancelMark ==
  /\ ~cancelling
  /\ cancelled' = TRUE /\ cancelling' = TRUE
  /\ UNCHANGED <<ids, i, pc, music, slotVars, fired, countVars, stage>>

CancelStage ==
  /\ cancelling /\ cancelling' = FALSE
  /\ stage' = "Error"
  /\ UNCHANGED <<ids, i, pc, music, slotVars, fired, countVars, cancelled>>

Init ==
  /\ ids \in Requests
  /\ i = 0 /\ pc = "begin" /\ music = NoMusic /\ n1 = 0 /\ n2 = 0
  /\ prefetch = [j \in Indices |-> None] /\ trigger = [j \in Indices |-> <<0, None>>]
  /\ fired = {} /\ seen = {} /\ tracks = <<>>
  /\ completed = 0 /\ failed = 0 /\ skipped = 0
  /\ stage = "Starting" /\ cancelled = FALSE /\ cancelling = FALSE

Next ==
  \/ WorkerStep \/ Progress
  \/ \E j \in Indices : PrefetchStarts(j) \/ PrefetchEnds(j)
  \/ CancelMark \/ CancelStage

Spec == Init /\ [][Next]_vars

(* Spawned tasks are polled, every call of theirs has a timeout.  A        *)
(* download need not report progress.                                      *)
Fairness ==
  /\ WF_vars(WorkerStep) /\ WF_vars(CancelStage)
  /\ \A j \in Indices : WF_vars(PrefetchStarts(j)) /\ WF_vars(PrefetchEnds(j))

FairSpec == Spec /\ Fairness

-----------------------------------------------------------------------------
(* Properties.                                                             *)

TypeOK ==
  /\ Len(ids) \in Indices /\ i \in 0..(MaxSongs + 1) /\ music \in Music \cup {NoMusic}
  /\ pc \in {"begin", "check", "resolve", "parse", "spawn", "permit", "download", "wrap", "zip", "end"}
  /\ n1 \in 0..MaxSongs /\ n2 \in 0..MaxSongs
  /\ prefetch \in [Indices -> {None, "armed", "running", "info", "ended"}]
  /\ fired \subseteq Indices \X {"half", "quarter"} /\ seen \subseteq Music
  /\ {completed, failed, skipped} \subseteq 0..MaxSongs
  /\ stage \in {"Starting", "Downloading", "Packaging", "Done", "Error"}
  /\ cancelled \in BOOLEAN /\ cancelling \in BOOLEAN

(* download_batch.rs:304, 336: whatever exits the iterations took, a slot  *)
(* holds the prefetch of the song it will be used for, so no song is       *)
(* downloaded under another one's information.                             *)
SlotsAligned ==
  /\ pc \in {"check", "resolve"} => n1 \in {0, i} /\ n2 \in {0, i + 1}
  /\ pc \in {"parse", "spawn", "permit", "download"} => n1 \in {0, i + 1} /\ n2 \in {0, i + 2}
  /\ {n1, n2} \subseteq 0..Len(ids)

(* download_batch.rs:474, 489, 559, 587: every exit of the download sets   *)
(* both triggers, so a prefetch waits only for a song that is still being  *)
(* downloaded, and the worker never waits for one that has not begun.      *)
PrefetchesTriggered ==
  \A j \in Indices : prefetch[j] = "armed" =>
    trigger[j] \in fired \/ (trigger[j][1] = i /\ pc \in {"permit", "download"})

(* The numbers the user is shown: every song dealt with is counted once,   *)
(* as downloaded, failed or a duplicate, and exactly the downloaded ones   *)
(* are packed.                                                             *)
CountsAddUp ==
  /\ completed = Len(tracks)
  /\ pc \in {"check", "resolve"} =>
       /\ completed + failed + skipped = i - 1
       /\ completed + failed = Cardinality(seen)
       /\ seen = {ids[k] : k \in 1..(i - 1)}

(* A zip never holds one song twice, though two requested ids may resolve  *)
(* to one song and either may come from a prefetch.                        *)
TracksDistinct == IsInjective(tracks) /\ ToSet(tracks) \subseteq seen

(* The worker ends, whatever its prefetches do, and leaves a terminal      *)
(* stage, wherever it was cancelled: unlike the single-song worker.        *)
WorkerEnds == <>(pc = "end" /\ (cancelling \/ stage \in Terminal))

(* No prefetch polls its trigger for ever.                                 *)
PrefetchesEnd == \A j \in Indices : prefetch[j] = "armed" ~> prefetch[j] \in {"info", "ended"}
=============================================================================
