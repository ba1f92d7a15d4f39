----------------------------- MODULE DiskGuard -----------------------------
(***************************************************************************)
(* The downloads directory and everything that deletes from it: the disk   *)
(* guard a download calls before it writes (disk_guard/mod.rs, select.rs), *)
(* the registry of `.part` files in flight (in_flight.rs), the background  *)
(* sweep (main.rs) and the high-level downloads that call them             *)
(* (wrapper.rs, download_meta.rs, download_batch.rs).                      *)
(*                                                                         *)
(* Space is counted in units.  What a file really takes and what the API   *)
(* reports of it are two things, and tags make a published file longer.    *)
(* A file removed while a download writes to it keeps its space until the  *)
(* last of its writers closes it; a chunk task can have it open after its  *)
(* attempt, and its download, have ended.  Age is one bit: a file is cold  *)
(* once its mtime is behind both the grace period and the sweep's maximum  *)
(* age.  Which bytes a `.part` has, what it is taken for, and sidecars, a  *)
(* few bytes, are ResumeJob's subject.                                     *)
(***************************************************************************)
EXTENDS Integers, FiniteSets, FiniteSetsExt

CONSTANTS
  Jobs,      \* download requests, one run each
  Paths,     \* destinations, all in one quality directory
  Dest,      \* Dest[j]: the destination of job j
  Route,     \* Route[j]: "music", "meta" or "batch", the code path of job j
  Report,    \* Report[j]: the size the API reports for job j's song, 0 when it has none
  FileSize,  \* the most units a song takes
  TagSize,   \* the most units tags and cover add to it
  Capacity,  \* units the disk holds
  MinFree    \* min_free_disk

Routes == {"music", "meta", "batch"}
ASSUME DestAssumption == Dest \in [Jobs -> Paths] /\ Route \in [Jobs -> Routes]
ASSUME ReportAssumption == Report \in [Jobs -> Nat]
ASSUME SpaceAssumption ==
  FileSize \in Nat \ {0} /\ TagSize \in Nat /\ Capacity \in Nat /\ MinFree \in Nat

(* A disk holds finitely many files.                                       *)
ASSUME PathsAssumption == IsFiniteSet(Paths)

VARIABLES
  at,        \* where each job is
  size,      \* units each file takes
  writers,   \* the downloads that have it open for writing
  cold,      \* the files whose mtime has aged
  dir,       \* the quality directory exists
  paths,     \* InFlightRegistry.paths: guards held on each `.part`
  holds,     \* the guards themselves, <<job, "job" or "attempt">>
  deficit,   \* what each job's ensure_disk_space has to free
  listed,    \* its FileEntry list: the cold files it has seen, with sizes
  plan,      \* what is left of its plan.to_evict
  sweeping,  \* cleanup_old_files is walking the directory
  published, \* the jobs whose rename has published a file
  before,    \* history: the guards held when the job's plan was made
  admitted,  \* history: jobs ensure_disk_space has let through
  last,      \* history: the size reported for the one it let through last
  tagged     \* history: jobs that have written tags

diskVars  == <<size, writers, cold, dir>>
guardVars == <<paths, holds>>
planVars  == <<deficit, listed, plan, before>>
pastVars  == <<admitted, last, tagged>>
guardAll  == <<at, diskVars, guardVars, planVars, sweeping, published, pastVars>>

Steps == {"start", "register", "measure", "scan", "select", "evict", "recheck",
          "open", "write", "rename", "unlock", "tag", "leave", "done"}

(* A path has a published file, what tags have added to it, a `.part`, and *)
(* the files removed from it that somebody still has open.                 *)
Files == Paths \X {"final", "tags", "part", "removed"}
Entries == Paths \X {"final", "part"}
TagsOn(p) == <<p, "tags">>
Removed(p) == <<p, "removed">>

(* Its length, as the directory lists it.                                  *)
SizeOf(f) == IF f[2] = "final" THEN size[f] + size[TagsOn(f[1])] ELSE size[f]
Present == {f \in Entries : SizeOf(f) > 0}
DirEmpty == \A f \in Entries : SizeOf(f) = 0 /\ writers[f] = {}

Space(f) == size[f]
Taken(S) == MapThenSumSet(Space, S)
Free == Capacity - Taken(Files)
Required(j) == MinFree + Report[j]

Goto(j, s) == at' = [at EXCEPT ![j] = s]
PartOf(j) == <<Dest[j], "part">>
FinalOf(j) == <<Dest[j], "final">>

(* What stays on the disk when the file is removed.                        *)
Kept(f) == IF writers[f] = {} THEN 0 ELSE SizeOf(f)

(* The file is unlinked, and lives on for those who have it open; removing *)
(* one that is gone changes nothing.                                       *)
Unlink(f) ==
  LET p == f[1] IN
  /\ size' = [size EXCEPT ![f] = 0, ![Removed(p)] = @ + Kept(f),
                          ![TagsOn(p)] = IF f[2] = "final" THEN 0 ELSE @]
  /\ writers' = [writers EXCEPT ![f] = {}, ![Removed(p)] = @ \cup writers[f]]
  /\ cold' = cold \ {f}

-----------------------------------------------------------------------------
(* InFlightRegistry.                                                       *)

Register(j, level) ==
  /\ holds' = holds \cup {<<j, level>>}
  /\ paths' = [paths EXCEPT ![Dest[j]] = @ + 1]

(* Mutant: dropping any guard forgets the path.                            *)
DroppedWhole(n) == 0

(* Drop: the entry loses one count, and goes when that was the last.       *)
Dropped(n) == IF n <= 1 THEN 0 ELSE n - 1

DropGuard(j, level) ==
  /\ holds' = holds \ {<<j, level>>}
  /\ paths' = [paths EXCEPT ![Dest[j]] = Dropped(@)]

(* snapshot *)
Snapshot == {<<p, "part">> : p \in {q \in Paths : paths[q] > 0}}

-----------------------------------------------------------------------------
(* ensure_disk_space, called at "measure".                                 *)

(* Where the caller goes when it is admitted or refused.                   *)
Admit(j) ==
  /\ Goto(j, "open")
  /\ admitted' = admitted \cup {j} /\ last' = Report[j] /\ UNCHANGED tagged
Refuse(j) == Goto(j, IF Route[j] = "batch" THEN "done" ELSE "leave") /\ UNCHANGED pastVars

(* Mutant: the file about to be written is left out of the sum.            *)
EnoughForNow(j) == Free >= MinFree

Enough(j) == Free >= Required(j)

(* The disk cannot be asked, or there is enough, or files have to go.      *)
Measure(j) ==
  /\ at[j] = "measure"
  /\ \/ Refuse(j) /\ UNCHANGED deficit
     \/ Enough(j) /\ Admit(j) /\ UNCHANGED deficit
     \/ ~Enough(j) /\ Goto(j, "scan") /\ UNCHANGED pastVars
        /\ deficit' = [deficit EXCEPT ![j] = Required(j) - Free]
  /\ UNCHANGED <<diskVars, guardVars, listed, plan, before, sweeping, published>>

(* collect_files_by_age.  Only cold entries can be chosen later, so only   *)
(* they are kept.                                                          *)
Scan(j) ==
  /\ at[j] = "scan"
  /\ Goto(j, "select")
  /\ listed' = [listed EXCEPT ![j] = {<<f, SizeOf(f)>> : f \in Present \cap cold}]
  /\ UNCHANGED <<diskVars, guardVars, deficit, plan, before, sweeping, published, pastVars>>

Listed(entries) == {e[1] : e \in entries}
Sum(entries) == MapThenSumSet(LAMBDA e : e[2], entries)

(* select_evictions: oldest first until the deficit is covered.  Ages      *)
(* among cold files are not kept, so any order is possible.                *)
Plans(entries, short) ==
  {P \in SUBSET entries :
     /\ Sum(P) >= short \/ P = entries
     /\ P = {} \/ \E e \in P : Sum(P \ {e}) < short}

Candidates(entries) == {e \in entries : e[1] \notin Snapshot}

Select(j) ==
  /\ at[j] = "select"
  /\ Goto(j, "evict")
  /\ \E P \in Plans(Candidates(listed[j]), deficit[j]) :
       plan' = [plan EXCEPT ![j] = Listed(P)]
  /\ before' = [before EXCEPT ![j] = holds]
  /\ listed' = [listed EXCEPT ![j] = {}]
  /\ UNCHANGED <<diskVars, guardVars, deficit, sweeping, published, pastVars>>

Evict(j) ==
  /\ at[j] = "evict"
  /\ \E f \in plan[j] : Unlink(f) /\ plan' = [plan EXCEPT ![j] = @ \ {f}]
  /\ UNCHANGED <<at, dir, guardVars, deficit, listed, before, sweeping, published, pastVars>>

(* cleanup_empty_dirs, then the second measurement in a step of its own.   *)
Evicted(j) ==
  /\ at[j] = "evict" /\ plan[j] = {}
  /\ Goto(j, "recheck")
  /\ dir' = (dir /\ ~DirEmpty)
  /\ before' = [before EXCEPT ![j] = {}]
  /\ deficit' = [deficit EXCEPT ![j] = 0]
  /\ UNCHANGED <<size, writers, cold, guardVars, listed, plan, sweeping, published, pastVars>>

Recheck(j) ==
  /\ at[j] = "recheck"
  /\ \/ Enough(j) /\ Admit(j)
     \/ Refuse(j)
  /\ UNCHANGED <<diskVars, guardVars, planVars, sweeping, published>>

EnsureDiskSpace(j) ==
  Measure(j) \/ Scan(j) \/ Select(j) \/ Evict(j) \/ Evicted(j) \/ Recheck(j)

-----------------------------------------------------------------------------
(* The downloads: download_music_file, download_music_with_metadata        *)
(* ("music", "meta"), and the batch handler, which asks for space before   *)
(* it registers anything and takes any published file for a cached one.    *)

Cached(j) ==
  LET length == SizeOf(FinalOf(j)) IN
  length > 0 /\ (Route[j] = "batch" \/ length = Report[j])

(* The parent directory is made, the published file looked at, and one of  *)
(* another size than reported removed.  A cached song is returned as it    *)
(* is, except that download_meta's handler tags it again.                  *)
Start(j) ==
  /\ at[j] = "start"
  /\ dir' = TRUE
  /\ IF Cached(j)
     THEN Goto(j, IF Route[j] = "meta" THEN "tag" ELSE "done") /\ UNCHANGED <<size, writers, cold>>
     ELSE /\ Goto(j, IF Route[j] = "batch" THEN "measure" ELSE "register")
          /\ IF SizeOf(FinalOf(j)) > 0 THEN Unlink(FinalOf(j)) ELSE UNCHANGED <<size, writers, cold>>
  /\ UNCHANGED <<guardVars, planVars, sweeping, published, pastVars>>

RegisterJob(j) ==
  /\ at[j] = "register"
  /\ Goto(j, "measure")
  /\ Register(j, "job")
  /\ UNCHANGED <<diskVars, planVars, sweeping, published, pastVars>>

(* download_file_ranged: the directory once more, and the attempt's guard. *)
Open(j) ==
  /\ at[j] = "open"
  /\ Goto(j, "write")
  /\ dir' = TRUE
  /\ Register(j, "attempt")
  /\ UNCHANGED <<size, writers, cold, planVars, sweeping, published, pastVars>>

(* One unit more of file f.  The song's own size is the bound, whatever    *)
(* was reported; removed files together only stop at the end of the disk.  *)
Grow(f) ==
  /\ f[2] = "removed" \/ size[f] < FileSize
  /\ Free > 0
  /\ size' = [size EXCEPT ![f] = @ + 1]
  /\ cold' = cold \ {f}

(* The transfer opens the `.part`, or creates it if its directory is still *)
(* there, and writes.                                                      *)
Write(j) ==
  /\ at[j] = "write"
  /\ size[PartOf(j)] > 0 \/ writers[PartOf(j)] # {} \/ dir
  /\ Grow(PartOf(j))
  /\ writers' = [writers EXCEPT ![PartOf(j)] = @ \cup {j}]
  /\ UNCHANGED <<at, dir, guardVars, planVars, sweeping, published, pastVars>>

(* A task that has a file open writes on, wherever its name is by now:     *)
(* still the `.part`, published, or gone.                                  *)
WriteOn(j) ==
  /\ \E f \in Files : j \in writers[f] /\ Grow(f)
  /\ UNCHANGED <<at, dir, writers, guardVars, planVars, sweeping, published, pastVars>>

(* A new attempt that does not resume truncates what is at the path.       *)
Truncate(j) ==
  /\ at[j] = "write"
  /\ size' = [size EXCEPT ![PartOf(j)] = 0]
  /\ cold' = cold \ {PartOf(j)}
  /\ UNCHANGED <<at, writers, dir, guardVars, planVars, sweeping, published, pastVars>>

(* A removed file goes when nobody has it open any more: with j the last   *)
(* of them do all of a path's, with others left some of them may.          *)
Left(f, j) ==
  IF f[2] # "removed" THEN {size[f]} ELSE IF writers[f] = {j} THEN {0} ELSE 0..size[f]

(* What j has open it closes, when it likes.                               *)
Close(j) ==
  /\ \E f \in Files :
       /\ j \in writers[f]
       /\ writers' = [writers EXCEPT ![f] = @ \ {j}]
       /\ \E left \in Left(f, j) : size' = [size EXCEPT ![f] = left]
  /\ UNCHANGED <<at, cold, dir, guardVars, planVars, sweeping, published, pastVars>>

(* The transfer takes what is at the path for the whole file.              *)
Complete(j) ==
  /\ at[j] = "write"
  /\ Goto(j, "rename")
  /\ UNCHANGED <<diskVars, guardVars, planVars, sweeping, published, pastVars>>

(* The transfer fails, is timed out, or finds its file or directory gone.  *)
Fail(j) ==
  /\ at[j] = "write"
  /\ Goto(j, "unlock")
  /\ UNCHANGED <<diskVars, guardVars, planVars, sweeping, published, pastVars>>

(* Whatever is at the `.part` path replaces the published file, which goes *)
(* the way of a removed one; with nothing there the job has failed.        *)
Rename(j) ==
  LET p == Dest[j] IN
  /\ at[j] = "rename"
  /\ Goto(j, "unlock")
  /\ IF size[PartOf(j)] > 0
     THEN /\ size' = [size EXCEPT ![FinalOf(j)] = size[PartOf(j)], ![PartOf(j)] = 0,
                                  ![TagsOn(p)] = 0, ![Removed(p)] = @ + Kept(FinalOf(j))]
          /\ writers' = [writers EXCEPT ![FinalOf(j)] = writers[PartOf(j)], ![PartOf(j)] = {},
                                        ![Removed(p)] = @ \cup writers[FinalOf(j)]]
          /\ cold' = (cold \ {FinalOf(j), PartOf(j)})
                       \cup (IF PartOf(j) \in cold THEN {FinalOf(j)} ELSE {})
          /\ published' = published \cup {j}
     ELSE UNCHANGED <<size, writers, cold, published>>
  /\ UNCHANGED <<dir, guardVars, planVars, sweeping, pastVars>>

(* The song is tagged while the job's guard is held, except by             *)
(* download_meta, whose handler writes the tags when it has the file.      *)
Unlock(j) ==
  /\ at[j] = "unlock"
  /\ DropGuard(j, "attempt")
  /\ Goto(j, CASE j \in published /\ Route[j] # "meta" -> "tag"
               [] Route[j] = "batch" -> "done"
               [] OTHER -> "leave")
  /\ UNCHANGED <<diskVars, planVars, sweeping, published, pastVars>>

Leave(j) ==
  /\ at[j] = "leave"
  /\ DropGuard(j, "job")
  /\ Goto(j, IF j \in published /\ Route[j] = "meta" THEN "tag" ELSE "done")
  /\ UNCHANGED <<diskVars, planVars, sweeping, published, pastVars>>

(* The published file, if it is still there, is rewritten with its tags.   *)
Tag(j) ==
  LET f == TagsOn(Dest[j]) IN
  /\ at[j] = "tag"
  /\ Goto(j, IF Route[j] = "music" THEN "leave" ELSE "done")
  /\ \/ /\ SizeOf(FinalOf(j)) > 0
        /\ \E n \in 0..TagSize :
             n - size[f] <= Free /\ size' = [size EXCEPT ![f] = n]
        /\ cold' = cold \ {FinalOf(j)} /\ tagged' = tagged \cup {j}
     \/ UNCHANGED <<size, cold, tagged>>
  /\ UNCHANGED <<writers, dir, guardVars, planVars, sweeping, published, admitted, last>>

JobStep(j) ==
  \/ Start(j) \/ RegisterJob(j) \/ EnsureDiskSpace(j)
  \/ Open(j) \/ Write(j) \/ WriteOn(j) \/ Truncate(j) \/ Close(j)
  \/ Complete(j) \/ Fail(j) \/ Rename(j) \/ Unlock(j) \/ Leave(j) \/ Tag(j)

-----------------------------------------------------------------------------
(* The background sweep.  It starts when no download permit is out, and    *)
(* then looks at the files' ages only.  download_meta holds none, and a    *)
(* batch gives its own back before it writes the tags.                     *)

Permitted(j) ==
  /\ Route[j] # "meta" /\ at[j] \notin {"start", "done"}
  /\ ~(Route[j] = "batch" /\ at[j] = "tag")

SweepStart ==
  /\ ~sweeping /\ dir /\ \A j \in Jobs : ~Permitted(j)
  /\ sweeping' = TRUE
  /\ UNCHANGED <<at, diskVars, guardVars, planVars, published, pastVars>>

SweepFile ==
  /\ sweeping
  /\ \E f \in Present \cap cold : Unlink(f)
  /\ UNCHANGED <<at, dir, guardVars, planVars, sweeping, published, pastVars>>

SweepEnd ==
  /\ sweeping
  /\ sweeping' = FALSE
  /\ dir' = (dir /\ ~DirEmpty)
  /\ UNCHANGED <<at, size, writers, cold, guardVars, planVars, published, pastVars>>

(* Time passes without a write to the file: a stalled transfer as well.    *)
Age ==
  /\ \E f \in Present \ cold : cold' = cold \cup {f}
  /\ UNCHANGED <<at, size, writers, dir, guardVars, planVars, sweeping, published, pastVars>>

(* A job nobody asks for is done from the start.                           *)
GuardInit ==
  /\ at \in [Jobs -> {"start", "done"}]
  /\ size \in [Files -> 0..(FileSize + TagSize)]
  /\ \A f \in Entries : size[f] <= FileSize
  /\ \A p \in Paths : /\ size[Removed(p)] = 0
                      /\ size[TagsOn(p)] <= IF size[<<p, "final">>] = 0 THEN 0 ELSE TagSize
  /\ Free >= 0
  /\ writers = [f \in Files |-> {}]
  /\ cold \in SUBSET Present
  /\ dir = (Present # {})
  /\ paths = [p \in Paths |-> 0] /\ holds = {}
  /\ deficit = [j \in Jobs |-> 0]
  /\ listed = [j \in Jobs |-> {}] /\ plan = [j \in Jobs |-> {}]
  /\ sweeping = FALSE
  /\ published = {}
  /\ before = [j \in Jobs |-> {}]
  /\ admitted = {} /\ last = 0 /\ tagged = {}

GuardNext == (\E j \in Jobs : JobStep(j)) \/ SweepStart \/ SweepFile \/ SweepEnd \/ Age
GuardSpec == GuardInit /\ [][GuardNext]_guardAll

-----------------------------------------------------------------------------
(* Properties.                                                             *)

Guards == Jobs \X {"job", "attempt"}

GuardTypeOK ==
  /\ at \in [Jobs -> Steps]
  /\ size \in [Files -> Nat] /\ writers \in [Files -> SUBSET Jobs]
  /\ \A f \in Entries : size[f] <= FileSize
  /\ \A p \in Paths : size[TagsOn(p)] <= TagSize
  /\ cold \in SUBSET Present /\ dir \in BOOLEAN
  /\ paths \in [Paths -> Nat] /\ holds \in SUBSET Guards
  /\ deficit \in [Jobs -> Nat]
  /\ listed \in [Jobs -> SUBSET (Entries \X (0..(FileSize + TagSize)))]
  /\ plan \in [Jobs -> SUBSET Entries] /\ sweeping \in BOOLEAN
  /\ published \in SUBSET admitted /\ admitted \in SUBSET Jobs
  /\ before \in [Jobs -> SUBSET Guards] /\ last \in Nat /\ tagged \in SUBSET Jobs

(* A `.part` some download has held ever since a plan was made is not in   *)
(* that plan, whatever other downloads of the same path have let go of     *)
(* theirs in between (in_flight.rs:46-56, select.rs:51-55).  A download    *)
(* that registers after the snapshot has no such protection.               *)
InFlightKept ==
  \A j \in Jobs : \A g \in before[j] \cap holds : PartOf(g[1]) \notin plan[j]

(* Measuring and writing are not one step, so downloads admitted side by   *)
(* side eat into min_free_disk, and so do a reported size below the real   *)
(* one and tags; files removed under their writers give their space back   *)
(* only later.  But beside the files that have a name there is room for    *)
(* what the last download let in was promised, less at most a song for     *)
(* each download ever let in and a tag for each that wrote tags            *)
(* (disk_guard/mod.rs:77-84,133-137).                                      *)
Named == Paths \X {"final", "tags", "part"}

SpaceReserved ==
  admitted # {} =>
    Taken(Named) + MinFree + last
      <= Capacity + Cardinality(admitted) * FileSize + Cardinality(tagged) * TagSize
=============================================================================
