---------------------------- MODULE PartManifest ----------------------------
(***************************************************************************)
(* The interval list a ranged download keeps in its sidecar                *)
(* (engine/manifest.rs) and the chunk grid it is filled along (ranged.rs), *)
(* byte by byte: what ResumeJob takes for a set of chunks.  The number of  *)
(* chunks is a run-time setting, so a download may be resumed along        *)
(* another grid than the one its sidecar was written with.                 *)
(***************************************************************************)
EXTENDS Integers, FiniteSets, SequencesExt

CONSTANTS
  ContentLength,  \* bytes of the resource
  ThreadCounts    \* values ranged_threads may take

ASSUME GridAssumption ==
  ContentLength \in Nat /\ ThreadCounts \subseteq 1..ContentLength

VARIABLES
  running,     \* a ranged attempt is at work
  threads,     \* its ranged_threads
  completed,   \* its PartManifest.completed
  spawned,     \* its first chunk is done, the tasks of the others are at work
  pending,     \* the chunk recorded and not saved, by who holds the lock, or <<>>
  uncounted,   \* the bytes saved whose task has yet to count them
  downloaded,  \* its downloaded_total
  sidecar,     \* the list in the sidecar, or why load finds none
  recorded,    \* history: the bytes it has recorded, or found recorded
  unsaved,     \* history: the bytes of its chunks whose save failed
  saved,       \* history: the bytes recorded when the sidecar was written
  gridKept     \* history: the sidecar was written along this same grid

manifestVars ==
  <<running, threads, completed, spawned, pending, uncounted, downloaded, sidecar,
    recorded, unsaved, saved, gridKept>>

Bytes == 0..(ContentLength - 1)
Interval(c) == c[1]..c[2]
Denotes(list) == UNION {Interval(list[k]) : k \in DOMAIN list}

-----------------------------------------------------------------------------
(* chunk_grid: equal closed intervals, the last takes the remainder.       *)

(* Mutant: the last chunk ends with the length, as a half-open one would.  *)
ChunkPastEnd(i, n) ==
  LET size == ContentLength \div n IN
  <<i * size, IF i = n - 1 THEN ContentLength ELSE (i + 1) * size - 1>>

Chunk(i, n) ==
  LET size == ContentLength \div n IN
  <<i * size, IF i = n - 1 THEN ContentLength - 1 ELSE (i + 1) * size - 1>>

Grid(n) == {Chunk(i, n) : i \in 0..(n - 1)}

(* record_chunk: insert, sort by start, merge what overlaps or touches.    *)

(* Mutant: closed intervals that touch are not merged.                     *)
TouchesOverlap(last, c) == c[1] <= last[2]

Touches(last, c) == c[1] <= last[2] + 1

Join(list, c) ==
  Append(Front(list), <<Last(list)[1], IF c[2] > Last(list)[2] THEN c[2] ELSE Last(list)[2]>>)

Merge(list, c) ==
  IF list # <<>> /\ Touches(Last(list), c) THEN Join(list, c) ELSE Append(list, c)

(* sort_unstable_by_key: intervals of one start may come in any order.     *)
SortedByStart(S) ==
  CHOOSE q \in SetToSeqs(S) : \A i, j \in DOMAIN q : i < j => q[i][1] <= q[j][1]

RecordedIn(list, c) == FoldLeft(Merge, <<>>, SortedByStart(ToSet(list) \cup {c}))

(* The queries.                                                            *)
AtMostAll(n) == IF n < ContentLength THEN n ELSE ContentLength

ContiguousPrefix(list) ==
  IF list # <<>> /\ Head(list)[1] = 0 THEN AtMostAll(Head(list)[2] + 1) ELSE 0

(* Mutant: chunks beyond the first gap are not progress.                   *)
PrefixBytes(list) == ContiguousPrefix(list)

AddSize(n, c) == n + c[2] - c[1] + 1
CompletedBytes(list) == AtMostAll(FoldLeft(AddSize, 0, list))

IsComplete(list) == ContiguousPrefix(list) >= ContentLength

IsRangeComplete(list, c) == \E k \in DOMAIN list : list[k][1] <= c[1] /\ c[2] <= list[k][2]

(* next_missing_range, of a list that is not complete.                     *)
NextMissing(list) ==
  LET start == ContiguousPrefix(list)
      later == SelectInSeq(list, LAMBDA c : c[1] > start)
  IN <<start, (IF later = 0 THEN ContentLength ELSE list[later][1]) - 1>>

-----------------------------------------------------------------------------
(* resolve_resume: what load returns, or an empty list and a truncated     *)
(* `.part`; the progress starts from completed_bytes.                      *)
Unusable == {"missing", "corrupt", "newer"}

Resume ==
  /\ ~running
  /\ running' = TRUE
  /\ threads' \in ThreadCounts
  /\ LET found == sidecar \notin Unusable IN
     /\ completed' = IF found THEN sidecar ELSE <<>>
     /\ recorded' = IF found THEN saved ELSE {}
     /\ gridKept' = (~found \/ (gridKept /\ threads' = threads))
  /\ downloaded' = CompletedBytes(completed')
  /\ spawned' = FALSE /\ uncounted' = {} /\ unsaved' = {}
  /\ UNCHANGED <<pending, sidecar, saved>>

Missing == {c \in Grid(threads) : ~IsRangeComplete(completed, c)}

(* A chunk the manifest does not cover has been written and is recorded,   *)
(* under the lock.  The attempt itself does the first missing one, and     *)
(* spawns the tasks of the others once that one is counted.                *)
RecordChunk ==
  /\ running /\ pending = <<>>
  /\ \E c \in Missing :
       /\ spawned \/ (uncounted = {} /\ \A d \in Missing : c[1] <= d[1])
       /\ completed' = RecordedIn(completed, c)
       /\ recorded' = recorded \cup Interval(c)
       /\ pending' = c
  /\ UNCHANGED <<running, threads, spawned, uncounted, downloaded, sidecar, unsaved, saved, gridKept>>

(* persist, by temporary file and rename, still under the lock.            *)
Save ==
  /\ pending # <<>>
  /\ sidecar' = completed /\ saved' = recorded
  /\ uncounted' = uncounted \cup Interval(pending)
  /\ pending' = <<>>
  /\ UNCHANGED <<running, threads, completed, spawned, downloaded, recorded, unsaved, gridKept>>

(* It fails: the chunk stays recorded, so the next save has it too, but    *)
(* its task is over and nobody counts it; nor does the attempt go on when  *)
(* it was the first chunk.                                                 *)
SaveFails ==
  /\ pending # <<>>
  /\ unsaved' = unsaved \cup Interval(pending)
  /\ pending' = <<>> /\ running' = spawned
  /\ UNCHANGED <<threads, completed, spawned, uncounted, downloaded, sidecar, recorded, saved, gridKept>>

(* fetch_add, when the lock has been let go.                               *)
Count ==
  /\ running
  /\ \E c \in Grid(threads) :
       /\ Interval(c) \subseteq uncounted
       /\ downloaded' = downloaded + c[2] - c[1] + 1
       /\ uncounted' = uncounted \ Interval(c)
  /\ spawned' = TRUE
  /\ UNCHANGED <<running, threads, completed, pending, sidecar, recorded, unsaved, saved, gridKept>>

(* The attempt ends or the process dies: only the sidecar is left.  (What  *)
(* the tasks that outlive an attempt still write is ResumeJob's subject.)  *)
Stop ==
  /\ running
  /\ running' = FALSE /\ pending' = <<>> /\ uncounted' = {}
  /\ UNCHANGED <<threads, completed, spawned, downloaded, sidecar, recorded, unsaved, saved, gridKept>>

(* The sidecar is deleted, damaged, or of a version this build ignores.    *)
Spoil ==
  /\ ~running
  /\ sidecar' \in Unusable
  /\ UNCHANGED <<running, threads, completed, spawned, pending, uncounted, downloaded,
                 recorded, unsaved, saved, gridKept>>

ManifestInit ==
  /\ running = FALSE /\ threads \in ThreadCounts /\ spawned = FALSE
  /\ completed = <<>> /\ pending = <<>> /\ uncounted = {} /\ downloaded = 0
  /\ sidecar = "missing" /\ recorded = {} /\ unsaved = {} /\ saved = {} /\ gridKept = TRUE

ManifestNext == Resume \/ RecordChunk \/ Save \/ SaveFails \/ Count \/ Stop \/ Spoil
ManifestSpec == ManifestInit /\ [][ManifestNext]_manifestVars

-----------------------------------------------------------------------------
(* Properties.                                                             *)

Lists == Seq(Bytes \X Bytes)

ManifestTypeOK ==
  /\ running \in BOOLEAN /\ threads \in ThreadCounts
  /\ completed \in Lists /\ pending \in Grid(threads) \cup {<<>>} /\ downloaded \in Nat
  /\ sidecar \in Lists \cup Unusable /\ spawned \in BOOLEAN /\ uncounted \subseteq Bytes
  /\ recorded \subseteq Bytes /\ unsaved \subseteq Bytes /\ saved \subseteq Bytes
  /\ gridKept \in BOOLEAN

(* The list is the set of bytes recorded, in its one normal form, and each *)
(* query answers what the set says, for any range and whatever grids the   *)
(* chunks came from (manifest.rs:93-179).                                  *)
IntervalsDenote ==
  running =>
    /\ Denotes(completed) = recorded
    /\ \A k \in 1..(Len(completed) - 1) : completed[k][2] + 1 < completed[k + 1][1]
    /\ CompletedBytes(completed) = Cardinality(recorded)
    /\ \A s, e \in Bytes : s <= e =>
         (IsRangeComplete(completed, <<s, e>>) <=> s..e \subseteq recorded)
    /\ IsComplete(completed) <=> recorded = Bytes
    /\ recorded # Bytes =>
         LET gap == NextMissing(completed) IN
         /\ 0..(gap[1] - 1) \subseteq recorded
         /\ Interval(gap) # {} /\ Interval(gap) \cap recorded = {}
         /\ gap[2] + 1 \in recorded \cup {ContentLength}

(* The bytes an attempt has recorded and done with: not those of a chunk   *)
(* being saved, one saved and still to be counted, or one whose save       *)
(* failed.                                                                 *)
Held == IF pending = <<>> THEN {} ELSE Interval(pending)
Counted == recorded \ (uncounted \cup unsaved \cup Held)

(* As long as the sidecar was written along the same grid, the progress    *)
(* reported is that of the chunks done with, each once, whichever tasks    *)
(* record and save between one's save and its fetch_add; and it is never   *)
(* ahead of what a crash would leave in the sidecar (ranged.rs:303-327,    *)
(* 390-398,461-470).  Along another grid a chunk that is partly there is   *)
(* counted twice.                                                          *)
ProgressExact ==
  running /\ gridKept => downloaded = Cardinality(Counted) /\ Counted \subseteq saved
=============================================================================
