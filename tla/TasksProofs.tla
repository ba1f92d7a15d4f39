---------------------------- MODULE TasksProofs ----------------------------
(***************************************************************************)
(* The safety properties of Tasks for any number of keys, handlers,        *)
(* permits and tasks.  The strengthening ties each worker's place to what  *)
(* the shared maps hold of its task.                                       *)
(***************************************************************************)
EXTENDS Tasks, FiniteSetTheorems, TLAPS

Holding == Places \ {"none", "queued", "busy", "ended"}
Ongoing == Places \ {"none", "busy", "undedup", "ended"}
Over    == {"undedup", "ended"}

(* The permits that are out are those of the workers past the queue.       *)
Holders == {t \in Ids : worker[t] \in Holding}
PermitsKept == free + Cardinality(Holders) = Permits

(* TypeOK but for the range of free, which is the argument's own result.   *)
TaskShape ==
  /\ stage \in [Ids -> Stages \cup {"absent"}] /\ key \in [Ids -> Keys \cup {NoKey}]
  /\ worker \in [Ids -> Places] /\ free \in Nat
  /\ dedup \in [Keys -> {NoTask} \cup Ids]
  /\ starting \in [Starters -> Keys \cup {NoKey}] /\ created \in 0..MaxTasks
  /\ cancelled \subseteq Ids /\ cancelling \subseteq Ids /\ everCancelled \subseteq Ids
  /\ reading \in [Readers -> [task : {NoTask} \cup Ids, at : {"idle", "mark", "serve"}]]
  /\ paths \subseteq Ids /\ zips \subseteq Ids /\ expired \subseteq Ids
  /\ partial \subseteq Ids /\ aged \subseteq Ids
  /\ timers \in [Ids -> Nat] /\ overwritten \in BOOLEAN

(* Of a task that is not created yet there is nothing.                     *)
NotYet ==
  \A t \in Ids : t > created => worker[t] = "none" /\ stage[t] = "absent" /\ t \notin expired

(* Until an entry is replaced, a running worker's key names its task.      *)
OwnsKey ==
  /\ \A t \in Ids : Running(t) => key[t] \in Keys
  /\ ~overwritten => \A t \in Ids : Running(t) => dedup[key[t]] = t

(* Nothing but a cancel ends the task of a worker that has not ended it.   *)
Unsettled ==
  /\ cancelling \subseteq everCancelled
  /\ \A t \in Ids : worker[t] \in Ongoing /\ t \notin everCancelled =>
       stage[t] \notin Terminal \cup {"absent"} /\ t \notin expired

(* A zip is there from the moment it is built until its age takes it; who  *)
(* else removes it finds the worker over and the task no longer Done.  One *)
(* whose build broke off is that of a worker on its way to report it.      *)
ZipSound ==
  /\ \A t \in Ids : worker[t] = "finish" =>
       t \notin partial /\ (stage[t] # "absent" => t \in zips \cup aged)
  /\ \A t \in zips \ partial : worker[t] \in Over \cup {"finish"}
  /\ \A t \in partial : worker[t] \in Over \cup {"report"}
  /\ \A t \in zips \ partial : worker[t] \in Over /\ t \notin everCancelled => t \in paths
  /\ \A t \in paths : worker[t] \in Over /\ t \notin partial
  /\ \A t \in Ids : stage[t] = "Done" => t \in zips \cup aged /\ t \in paths /\ timers[t] = 0
  /\ \A t \in Ids : timers[t] > 0 => worker[t] \in Over

(* A retrieval that has begun is of a task whose worker is over.           *)
ReadSound ==
  \A r \in Readers :
    /\ reading[r].at # "idle" => reading[r].task \in Ids /\ worker[reading[r].task] \in Over
    /\ reading[r].at = "mark" =>
         \/ stage[reading[r].task] \in {"Done", "Retrieved", "absent"}
         \/ reading[r].task \in everCancelled
    /\ reading[r].at = "serve" => stage[reading[r].task] # "Done"

TasksInv ==
  /\ TaskShape /\ PermitsKept /\ NotYet /\ DedupNamesRunning /\ OwnsKey
  /\ Unsettled /\ ZipSound /\ ReadSound

-----------------------------------------------------------------------------
LEMMA IdsAreNat == Ids \subseteq Nat /\ NoTask \notin Ids /\ IsFiniteSet(Ids) /\ MaxTasks \in Nat
BY PermitsAssumption, FS_Interval DEF Ids, NoTask

LEMMA GotoFacts ==
  ASSUME TaskShape, NEW t \in Ids, NEW from, NEW to \in Places, Goto(t, from, to)
  PROVE  /\ worker[t] = from /\ worker'[t] = to /\ worker' \in [Ids -> Places]
         /\ \A u \in Ids \ {t} : worker'[u] = worker[u]
BY DEF TaskShape, Goto

LEMMA UpdateFacts ==
  ASSUME TaskShape, NEW t \in Ids, NEW s \in Stages, Update(t, s)
  PROVE  /\ stage' \in [Ids -> Stages \cup {"absent"}]
         /\ stage'[t] = IF stage[t] = "absent" THEN "absent" ELSE s
         /\ \A u \in Ids \ {t} : stage'[u] = stage[u]
BY DEF TaskShape, Update

(* A worker's steps by what they touch besides its place and its stage:    *)
(* nothing, its permit, a zip, dedup.                                      *)
Plain(t) ==
  \/ QueueTimeout(t) \/ BeginFetch(t) \/ FetchInfo(t) \/ CheckCancelled(t, "check", "start")
  \/ BeginDownload(t) \/ Download(t) \/ CheckCancelled(t, "check again", "package")
  \/ BeginPackaging(t) \/ ReportError(t)

(* Where a plain step leads, and what it writes into the store.            *)
LEMMA PlainFacts ==
  ASSUME TaskShape, NEW t \in Ids, Plain(t)
  PROVE  /\ worker[t] \in Ongoing \ {"finish"}
         /\ worker' \in [Ids -> Places] /\ stage' \in [Ids -> Stages \cup {"absent"}]
         /\ \A u \in Ids \ {t} : worker'[u] = worker[u] /\ stage'[u] = stage[u]
         /\ worker'[t] \in Places \ {"none", "queued", "begin", "finish", "ended"}
         /\ worker[t] = "queued" <=> worker'[t] = "busy"
         /\ worker'[t] \in Ongoing => stage'[t] \in {stage[t], "FetchingUrl", "Downloading", "Packaging"}
         /\ stage'[t] \in {stage[t], "FetchingUrl", "Downloading", "Packaging", "Error"}
         /\ stage[t] = "absent" => stage'[t] = "absent"
         /\ worker[t] = "report" => worker'[t] = "undedup"
<1>0. /\ {"begin", "fetch", "check", "start", "download", "check again", "package", "zip",
           "report", "busy", "undedup"} \subseteq Places
      /\ {"FetchingUrl", "Downloading", "Packaging", "Error"} \subseteq Stages
  BY DEF Places, Stages, Terminal
<1>1. CASE QueueTimeout(t)
  <2>1. Goto(t, "queued", "busy") /\ Update(t, "Error")
    BY <1>1 DEF QueueTimeout
  <2>2. worker[t] = "queued" /\ worker'[t] = "busy" /\ stage'[t] \in {stage[t], "Error"}
    BY <2>1, <1>0, GotoFacts, UpdateFacts
  <2>3. /\ worker' \in [Ids -> Places] /\ stage' \in [Ids -> Stages \cup {"absent"}]
        /\ \A u \in Ids \ {t} : worker'[u] = worker[u] /\ stage'[u] = stage[u]
        /\ stage[t] = "absent" => stage'[t] = "absent"
    BY <2>1, <1>0, GotoFacts, UpdateFacts
  <2>4. QED
    BY <2>2, <2>3 DEF Ongoing, Places
<1>2. CASE BeginFetch(t)
  <2>1. Goto(t, "begin", "fetch") /\ Update(t, "FetchingUrl")
    BY <1>2 DEF BeginFetch
  <2>2. worker[t] = "begin" /\ worker'[t] = "fetch" /\ stage'[t] \in {stage[t], "FetchingUrl"}
    BY <2>1, <1>0, GotoFacts, UpdateFacts
  <2>3. /\ worker' \in [Ids -> Places] /\ stage' \in [Ids -> Stages \cup {"absent"}]
        /\ \A u \in Ids \ {t} : worker'[u] = worker[u] /\ stage'[u] = stage[u]
        /\ stage[t] = "absent" => stage'[t] = "absent"
    BY <2>1, <1>0, GotoFacts, UpdateFacts
  <2>4. QED
    BY <2>2, <2>3 DEF Ongoing, Places
<1>3. CASE ReportError(t)
  <2>1. Goto(t, "report", "undedup") /\ Update(t, "Error")
    BY <1>3 DEF ReportError
  <2>2. worker[t] = "report" /\ worker'[t] = "undedup" /\ stage'[t] \in {stage[t], "Error"}
    BY <2>1, <1>0, GotoFacts, UpdateFacts
  <2>3. /\ worker' \in [Ids -> Places] /\ stage' \in [Ids -> Stages \cup {"absent"}]
        /\ \A u \in Ids \ {t} : worker'[u] = worker[u] /\ stage'[u] = stage[u]
        /\ stage[t] = "absent" => stage'[t] = "absent"
    BY <2>1, <1>0, GotoFacts, UpdateFacts
  <2>4. QED
    BY <2>2, <2>3 DEF Ongoing, Places
<1>4. CASE BeginDownload(t)
  <2>1. Goto(t, "start", "download") /\ Update(t, "Downloading")
    BY <1>4 DEF BeginDownload
  <2>2. worker[t] = "start" /\ worker'[t] = "download" /\ stage'[t] \in {stage[t], "Downloading"}
    BY <2>1, <1>0, GotoFacts, UpdateFacts
  <2>3. /\ worker' \in [Ids -> Places] /\ stage' \in [Ids -> Stages \cup {"absent"}]
        /\ \A u \in Ids \ {t} : worker'[u] = worker[u] /\ stage'[u] = stage[u]
        /\ stage[t] = "absent" => stage'[t] = "absent"
    BY <2>1, <1>0, GotoFacts, UpdateFacts
  <2>4. QED
    BY <2>2, <2>3 DEF Ongoing, Places
<1>5. CASE BeginPackaging(t)
  <2>1. Goto(t, "package", "zip") /\ Update(t, "Packaging")
    BY <1>5 DEF BeginPackaging
  <2>2. worker[t] = "package" /\ worker'[t] = "zip" /\ stage'[t] \in {stage[t], "Packaging"}
    BY <2>1, <1>0, GotoFacts, UpdateFacts
  <2>3. /\ worker' \in [Ids -> Places] /\ stage' \in [Ids -> Stages \cup {"absent"}]
        /\ \A u \in Ids \ {t} : worker'[u] = worker[u] /\ stage'[u] = stage[u]
        /\ stage[t] = "absent" => stage'[t] = "absent"
    BY <2>1, <1>0, GotoFacts, UpdateFacts
  <2>4. QED
    BY <2>2, <2>3 DEF Ongoing, Places
<1>6. CASE FetchInfo(t) \/ Download(t)
  BY <1>6 DEF TaskShape, FetchInfo, Download, Goto, Ongoing, Places
<1>7. CASE CheckCancelled(t, "check", "start") \/ CheckCancelled(t, "check again", "package")
  BY <1>7 DEF TaskShape, CheckCancelled, Goto, Ongoing, Places
<1>8. QED
  BY <1>1, <1>2, <1>3, <1>4, <1>5, <1>6, <1>7 DEF Plain

(* What a plain step leaves alone.                                         *)
LEMMA PlainFrame ==
  ASSUME TaskShape, NEW t \in Ids, Plain(t)
  PROVE  /\ UNCHANGED <<free, dedup, cleanupVars, startVars, zipVars, cancelling, everCancelled>>
         /\ cancelled' \subseteq Ids
BY DEF TaskShape, Plain, QueueTimeout, BeginFetch, FetchInfo, CheckCancelled, BeginDownload,
       Download, BeginPackaging, ReportError, cancelVars

(* The other steps of a worker.                                            *)
LEMMA AcquireFacts ==
  ASSUME TaskShape, NEW t \in Ids, AcquirePermit(t)
  PROVE  /\ worker[t] = "queued" /\ worker'[t] = "begin"
         /\ \A u \in Ids \ {t} : worker'[u] = worker[u]
         /\ UNCHANGED <<stage, dedup, cleanupVars, startVars, zipVars, cancelVars>>
<1>1. Goto(t, "queued", "begin") /\ "begin" \in Places
  BY DEF AcquirePermit, Places
<1>2. QED
  BY <1>1, GotoFacts DEF AcquirePermit

LEMMA UndedupFacts ==
  ASSUME TaskShape, NEW t \in Ids, Undedup(t)
  PROVE  /\ worker[t] \in {"undedup", "busy"} /\ worker'[t] = "ended"
         /\ \A u \in Ids \ {t} : worker'[u] = worker[u]
         /\ \A k \in Keys : dedup'[k] = IF k = key[t] THEN NoTask ELSE dedup[k]
         /\ UNCHANGED <<stage, cleanupVars, startVars, zipVars, cancelVars>>
<1>1. Goto(t, "undedup", "ended") \/ Goto(t, "busy", "ended")
  BY DEF Undedup
<1>2. "ended" \in Places
  BY DEF Places
<1>3. \A k \in Keys : dedup'[k] = IF k = key[t] THEN NoTask ELSE dedup[k]
  BY DEF Undedup, TaskShape
<1>4. UNCHANGED <<stage, cleanupVars, startVars, zipVars, cancelVars>>
  BY DEF Undedup
<1>5. QED
  BY <1>1, <1>2, <1>3, <1>4, GotoFacts

LEMMA BuildZipFacts ==
  ASSUME TaskShape, NEW t \in Ids, BuildZip(t)
  PROVE  /\ worker[t] = "zip"
         /\ \/ worker'[t] = "finish" /\ zips' = zips \cup {t} /\ partial' = partial
            \/ worker'[t] = "report" /\ zips' = zips \cup {t} /\ partial' = partial \cup {t}
            \/ worker'[t] = "report" /\ zips' = zips /\ partial' = partial
         /\ \A u \in Ids \ {t} : worker'[u] = worker[u]
         /\ UNCHANGED <<stage, dedup, expired, aged, startVars, paths, timers, reading, cancelVars>>
<1>1. \/ Goto(t, "zip", "finish") /\ zips' = zips \cup {t} /\ partial' = partial
      \/ Goto(t, "zip", "report") /\ zips' = zips \cup {t} /\ partial' = partial \cup {t}
      \/ Goto(t, "zip", "report") /\ zips' = zips /\ partial' = partial
  BY DEF BuildZip
<1>2. "finish" \in Places /\ "report" \in Places
  BY DEF Places
<1>3. QED
  BY <1>1, <1>2, GotoFacts DEF BuildZip

LEMMA FinishFacts ==
  ASSUME TaskShape, NEW t \in Ids, Finish(t)
  PROVE  /\ worker[t] = "finish" /\ worker'[t] = "undedup"
         /\ \A u \in Ids \ {t} : worker'[u] = worker[u] /\ stage'[u] = stage[u]
         /\ stage'[t] = IF stage[t] = "absent" THEN "absent" ELSE "Done"
         /\ paths' = IF stage[t] = "absent" THEN paths ELSE paths \cup {t}
         /\ UNCHANGED <<dedup, cleanupVars, startVars, zips, timers, reading, cancelVars>>
<1>1. Goto(t, "finish", "undedup") /\ Update(t, "Done")
  BY DEF Finish
<1>2. "undedup" \in Places /\ "Done" \in Stages
  BY DEF Places, Stages, Terminal
<1>3. QED
  BY <1>1, <1>2, GotoFacts, UpdateFacts DEF Finish

(* A new task is one nothing is known of.                                  *)
LEMMA CreateFacts ==
  ASSUME TaskShape, NotYet, NEW h \in Starters, StartCreate(h)
  PROVE  LET t == created + 1
             k == starting[h] IN
         /\ t \in Ids /\ k \in Keys /\ created' = t
         /\ worker[t] = "none" /\ stage[t] = "absent" /\ t \notin expired
         /\ worker'[t] = "queued" /\ stage'[t] = "Starting" /\ key'[t] = k
         /\ \A u \in Ids \ {t} :
              worker'[u] = worker[u] /\ stage'[u] = stage[u] /\ key'[u] = key[u]
         /\ \A l \in Keys : dedup'[l] = IF l = k THEN t ELSE dedup[l]
         /\ ~overwritten' => ~overwritten /\ dedup[k] = NoTask
         /\ UNCHANGED <<cleanupVars, zipVars, cancelVars>>
<1>1. created + 1 \in Ids /\ starting[h] \in Keys /\ created + 1 > created
  BY IdsAreNat DEF StartCreate, Ids, TaskShape
<1>2. /\ created' = created + 1
      /\ stage' = [stage EXCEPT ![created + 1] = "Starting"]
      /\ key' = [key EXCEPT ![created + 1] = starting[h]]
      /\ dedup' = [dedup EXCEPT ![starting[h]] = created + 1]
      /\ worker' = [worker EXCEPT ![created + 1] = "queued"]
      /\ UNCHANGED <<cleanupVars, zipVars, cancelVars>>
  BY DEF StartCreate
<1>3. ~overwritten' => ~overwritten /\ dedup[starting[h]] = NoTask
  BY DEF StartCreate
<1>4. worker[created + 1] = "none" /\ stage[created + 1] = "absent" /\ created + 1 \notin expired
  BY <1>1 DEF NotYet
<1>5. QED
  BY <1>1, <1>2, <1>3, <1>4 DEF TaskShape

(* The steps of the specification, for a proof by cases.                   *)
LEMMA Kinds ==
  ASSUME [Next]_vars
  PROVE  \/ \E h \in Starters : StartCreate(h) \/ \E k \in Keys : StartLookup(h, k)
         \/ \E t \in Ids : Plain(t)
         \/ \E t \in Ids : AcquirePermit(t) \/ BuildZip(t) \/ Finish(t) \/ Undedup(t)
         \/ \E t \in Ids : CancelMark(t) \/ CancelStage(t)
         \/ \E t \in Ids : ZipTimer(t) \/ CleanupRemove(t) \/ OrphanZip(t)
         \/ \E r \in Readers : ResultMark(r) \/ ResultServe(r) \/ \E t \in Ids : ResultRead(r, t)
         \/ CleanupCollect \/ UNCHANGED vars
BY DEF Next, WorkerStep, Plain

-----------------------------------------------------------------------------
LEMMA NextShape ==
  ASSUME TaskShape, PermitsKept, ReadSound, [Next]_vars
  PROVE  TaskShape'
<1> USE DEF TaskShape, cleanupVars
<1>1. CASE \E h \in Starters : StartCreate(h)
  <2>1. PICK h \in Starters : StartCreate(h)
    BY <1>1
  <2>2. created + 1 \in Ids /\ starting[h] \in Keys /\ created + 1 \in 0..MaxTasks
    BY <2>1, IdsAreNat DEF StartCreate, Ids
  <2>3. /\ stage' = [stage EXCEPT ![created + 1] = "Starting"] /\ created' = created + 1
        /\ key' = [key EXCEPT ![created + 1] = starting[h]]
        /\ dedup' = [dedup EXCEPT ![starting[h]] = created + 1]
        /\ worker' = [worker EXCEPT ![created + 1] = "queued"]
        /\ starting' = [starting EXCEPT ![h] = NoKey]
        /\ UNCHANGED <<free, cleanupVars, zipVars, cancelVars>>
    BY <2>1 DEF StartCreate
  <2>4. overwritten' \in BOOLEAN
    BY <2>1 DEF StartCreate
  <2>5. /\ stage' \in [Ids -> Stages \cup {"absent"}] /\ key' \in [Ids -> Keys \cup {NoKey}]
        /\ worker' \in [Ids -> Places] /\ dedup' \in [Keys -> {NoTask} \cup Ids]
        /\ starting' \in [Starters -> Keys \cup {NoKey}]
    BY <2>2, <2>3 DEF Stages, Places
  <2>6. QED
    BY <2>2, <2>3, <2>4, <2>5 DEF zipVars, cancelVars
<1>2. CASE \E h \in Starters, k \in Keys : StartLookup(h, k)
  BY <1>2 DEF StartLookup, workerVars, zipVars, cancelVars
<1>3. CASE \E t \in Ids : Plain(t)
  <2>1. PICK t \in Ids : Plain(t)
    BY <1>3
  <2>2. worker' \in [Ids -> Places] /\ stage' \in [Ids -> Stages \cup {"absent"}]
    BY <2>1, PlainFacts
  <2>3. QED
    BY <2>1, <2>2, PlainFrame DEF startVars, zipVars
<1>4. CASE \E t \in Ids : AcquirePermit(t) \/ Undedup(t)
  <2>1. worker' \in [Ids -> Places]
    <3>1. PICK t \in Ids : AcquirePermit(t) \/ Undedup(t)
      BY <1>4
    <3>2. {"begin", "ended"} \subseteq Places
      BY DEF Places
    <3>3. worker' \in {[worker EXCEPT ![t] = "begin"], [worker EXCEPT ![t] = "ended"]}
      BY <3>1 DEF AcquirePermit, Undedup, Goto
    <3>4. QED
      BY <3>2, <3>3
  <2>2. free' \in Nat /\ dedup' \in [Keys -> {NoTask} \cup Ids]
    BY <1>4 DEF AcquirePermit, Undedup
  <2>3. QED
    BY <1>4, <2>1, <2>2 DEF AcquirePermit, Undedup, startVars, zipVars, cancelVars
<1>5. CASE \E t \in Ids : BuildZip(t) \/ Finish(t)
  <2>1. worker' \in [Ids -> Places]
    BY <1>5 DEF BuildZip, Finish, Goto, Places
  <2>2. stage' \in [Ids -> Stages \cup {"absent"}] /\ zips' \subseteq Ids /\ paths' \subseteq Ids
        /\ partial' \subseteq Ids
    BY <1>5 DEF BuildZip, Finish, Update, Stages, Terminal
  <2>3. QED
    BY <1>5, <2>1, <2>2 DEF BuildZip, Finish, startVars, cancelVars
<1>6. CASE \E t \in Ids : CancelMark(t) \/ CancelStage(t)
  <2>1. stage' \in [Ids -> Stages \cup {"absent"}]
    BY <1>6 DEF CancelMark, CancelStage, Update, Stages, Terminal
  <2>2. QED
    BY <1>6, <2>1 DEF CancelMark, CancelStage, workerVars, startVars, zipVars
<1>7. CASE \E t \in Ids : ZipTimer(t) \/ CleanupRemove(t) \/ OrphanZip(t)
  <2>1. stage' \in [Ids -> Stages \cup {"absent"}] /\ timers' \in [Ids -> Nat]
    BY <1>7 DEF ZipTimer, CleanupRemove, OrphanZip
  <2>2. QED
    BY <1>7, <2>1 DEF ZipTimer, CleanupRemove, OrphanZip, workerVars, startVars, cancelVars
<1>8. CASE \E r \in Readers : ResultMark(r) \/ ResultServe(r) \/ \E t \in Ids : ResultRead(r, t)
  <2>1. PICK r \in Readers : ResultMark(r) \/ ResultServe(r) \/ \E t \in Ids : ResultRead(r, t)
    BY <1>8
  <2>2. stage' \in [Ids -> Stages \cup {"absent"}]
    BY <2>1 DEF ResultMark, ResultServe, ResultRead, Update, Stages, Terminal
  <2>3. timers' \in [Ids -> Nat]
    BY <2>1 DEF ResultMark, ResultServe, ResultRead
  <2>4. reading' \in [Readers -> [task : {NoTask} \cup Ids, at : {"idle", "mark", "serve"}]]
    BY <2>1 DEF ResultMark, ResultServe, ResultRead, Idle
  <2>5. QED
    BY <2>1, <2>2, <2>3, <2>4
       DEF ResultMark, ResultServe, ResultRead, workerVars, startVars, cancelVars
<1>9. CASE CleanupCollect \/ UNCHANGED vars
  BY <1>9 DEF CleanupCollect, workerVars, startVars, zipVars, cancelVars, vars
<1>10. QED
  BY <1>1, <1>2, <1>3, <1>4, <1>5, <1>6, <1>7, <1>8, <1>9, Kinds

(* A permit is taken and returned with its holder.                         *)
LEMMA NextPermits ==
  ASSUME TaskShape, PermitsKept, NotYet, [Next]_vars, TaskShape'
  PROVE  PermitsKept'
<1>0. IsFiniteSet(Holders) /\ Cardinality(Holders) \in Nat
  <2>1. Holders \subseteq Ids
    BY DEF Holders
  <2>2. QED
    BY <2>1, IdsAreNat, FS_Subset, FS_CardinalityType
<1>1. CASE UNCHANGED free /\ Holders' = Holders
  BY <1>1 DEF PermitsKept
<1>2. CASE \E t \in Ids : AcquirePermit(t)
  <2>1. PICK t \in Ids : AcquirePermit(t)
    BY <1>2
  <2>2. t \notin Holders /\ Holders' = Holders \cup {t} /\ free' = free - 1
    <3>1. free' = free - 1 /\ Goto(t, "queued", "begin")
      BY <2>1 DEF AcquirePermit
    <3>2. "begin" \in Holding /\ "queued" \notin Holding /\ "begin" \in Places
      BY DEF Holding, Places
    <3>3. QED
      BY <3>1, <3>2, GotoFacts DEF Holders
  <2>3. Cardinality(Holders') = Cardinality(Holders) + 1
    BY <1>0, <2>2, FS_AddElement
  <2>4. QED
    BY <1>0, <2>2, <2>3 DEF PermitsKept, TaskShape
<1>3. CASE \E t \in Ids : Undedup(t) /\ worker[t] = "undedup"
  <2>1. PICK t \in Ids : Undedup(t) /\ worker[t] = "undedup"
    BY <1>3
  <2>2. t \in Holders /\ Holders' = Holders \ {t} /\ free' = free + 1
    <3>1. free' = free + 1 /\ Goto(t, "undedup", "ended")
      BY <2>1 DEF Undedup, Goto
    <3>2. "undedup" \in Holding /\ "ended" \notin Holding /\ "ended" \in Places
      BY DEF Holding, Places
    <3>3. QED
      BY <3>1, <3>2, GotoFacts DEF Holders
  <2>3. Cardinality(Holders') = Cardinality(Holders) - 1
    BY <1>0, <2>2, FS_RemoveElement
  <2>4. QED
    BY <1>0, <2>2, <2>3 DEF PermitsKept, TaskShape
<1>4. CASE \E t \in Ids : Undedup(t) /\ worker[t] # "undedup"
  <2>1. UNCHANGED free /\ Holders' = Holders
    BY <1>4 DEF Holders, Holding, Undedup, Goto, TaskShape
  <2>2. QED
    BY <1>1, <2>1
<1>5. CASE \E t \in Ids : Plain(t)
  <2>1. PICK t \in Ids : Plain(t)
    BY <1>5
  <2>2. UNCHANGED free
    BY <2>1, PlainFrame
  <2>3. worker[t] \in Holding <=> worker'[t] \in Holding
    BY <2>1, PlainFacts DEF Holding, Ongoing, Places
  <2>4. \A u \in Ids : worker[u] \in Holding <=> worker'[u] \in Holding
    BY <2>1, <2>3, PlainFacts
  <2>5. Holders' = Holders
    BY <2>4 DEF Holders
  <2>6. QED
    BY <1>1, <2>2, <2>5
<1>6. CASE \E t \in Ids : BuildZip(t) \/ Finish(t)
  <2>1. UNCHANGED free /\ Holders' = Holders
    <3>1. PICK t \in Ids : BuildZip(t) \/ Finish(t)
      BY <1>6
    <3>2. /\ UNCHANGED free
          /\ \/ Goto(t, "zip", "finish") \/ Goto(t, "zip", "report") \/ Goto(t, "finish", "undedup")
      BY <3>1 DEF BuildZip, Finish
    <3>3. {"zip", "finish", "report", "undedup"} \subseteq Holding \cap Places
      BY DEF Holding, Places
    <3>4. QED
      BY <3>2, <3>3, GotoFacts DEF Holders
  <2>2. QED
    BY <1>1, <2>1
<1>7. CASE \E h \in Starters : StartCreate(h)
  <2>1. created + 1 \in Ids /\ worker[created + 1] = "none"
    BY <1>7, IdsAreNat DEF StartCreate, TaskShape, Ids, NotYet
  <2>2. UNCHANGED free /\ worker' = [worker EXCEPT ![created + 1] = "queued"]
    BY <1>7 DEF StartCreate
  <2>3. Holders' = Holders
    BY <2>1, <2>2 DEF Holders, Holding, TaskShape
  <2>4. QED
    BY <1>1, <2>2, <2>3
<1>8. CASE UNCHANGED workerVars
  BY <1>1, <1>8 DEF workerVars, Holders
<1>9. QED
  <2>1. \/ UNCHANGED workerVars \/ \E h \in Starters : StartCreate(h)
        \/ \E t \in Ids : Plain(t) \/ AcquirePermit(t) \/ BuildZip(t) \/ Finish(t) \/ Undedup(t)
    BY Kinds DEF StartLookup, CancelMark, CancelStage, ZipTimer, CleanupRemove, OrphanZip,
                 ResultMark, ResultServe, ResultRead, CleanupCollect, vars
  <2>2. QED
    BY <2>1, <1>2, <1>3, <1>4, <1>5, <1>6, <1>7, <1>8

(* Only StartCreate begins a task, the next in order.                      *)
LEMMA NextNotYet ==
  ASSUME TaskShape, NotYet, ReadSound, [Next]_vars
  PROVE  NotYet'
<1> USE DEF cleanupVars
<1>0. created \in Nat /\ Ids \subseteq Nat
  BY IdsAreNat DEF TaskShape
<1>1. CASE \E h \in Starters : StartCreate(h)
  <2>1. PICK h \in Starters : StartCreate(h)
    BY <1>1
  <2>2. QED
    BY <1>0, <2>1, CreateFacts DEF NotYet
<1>2. CASE \E t \in Ids : Plain(t)
  <2>1. PICK t \in Ids : Plain(t)
    BY <1>2
  <2>2. worker[t] # "none" /\ UNCHANGED <<created, expired>>
    BY <2>1, PlainFacts, PlainFrame DEF startVars, Ongoing
  <2>3. QED
    BY <2>1, <2>2, PlainFacts DEF NotYet
<1>3. CASE \E t \in Ids : AcquirePermit(t) \/ BuildZip(t) \/ Finish(t) \/ Undedup(t)
  <2>1. PICK t \in Ids : AcquirePermit(t) \/ BuildZip(t) \/ Finish(t) \/ Undedup(t)
    BY <1>3
  <2>2. worker[t] # "none" /\ UNCHANGED <<created, expired>>
    BY <2>1, AcquireFacts, BuildZipFacts, FinishFacts, UndedupFacts DEF startVars
  <2>3. \A u \in Ids \ {t} : worker'[u] = worker[u] /\ stage'[u] = stage[u]
    BY <2>1, AcquireFacts, BuildZipFacts, FinishFacts, UndedupFacts
  <2>4. QED
    BY <2>2, <2>3 DEF NotYet
<1>4. CASE \E t \in Ids : CancelMark(t) \/ CancelStage(t)
  BY <1>4 DEF CancelMark, CancelStage, Update, NotYet, TaskShape, workerVars, startVars
<1>5. CASE \E t \in Ids : ZipTimer(t) \/ CleanupRemove(t) \/ OrphanZip(t)
  BY <1>5 DEF ZipTimer, CleanupRemove, OrphanZip, NotYet, TaskShape, workerVars, startVars
<1>6. CASE \E r \in Readers : ResultMark(r) \/ ResultServe(r) \/ \E t \in Ids : ResultRead(r, t)
  BY <1>6 DEF ResultMark, ResultServe, ResultRead, Update, NotYet, TaskShape, workerVars, startVars
<1>7. CASE \/ CleanupCollect \/ UNCHANGED vars
           \/ \E h \in Starters, k \in Keys : StartLookup(h, k)
  BY <1>7 DEF CleanupCollect, StartLookup, NotYet, Terminal, workerVars, startVars, vars
<1>8. QED
  BY <1>1, <1>2, <1>3, <1>4, <1>5, <1>6, <1>7, Kinds

(* What leaves workers, keys and dedup alone.                              *)
LEMMA Aside ==
  ASSUME [Next]_vars
  PROVE  \/ \E h \in Starters : StartCreate(h)
         \/ \E t \in Ids : Plain(t) \/ AcquirePermit(t) \/ BuildZip(t) \/ Finish(t) \/ Undedup(t)
         \/ UNCHANGED <<worker, key, dedup, overwritten>>
BY Kinds DEF StartLookup, CancelMark, CancelStage, ZipTimer, CleanupRemove, OrphanZip,
             ResultMark, ResultServe, ResultRead, CleanupCollect, vars, workerVars, startVars

LEMMA NextDedup ==
  ASSUME TaskShape, NotYet, DedupNamesRunning, OwnsKey, [Next]_vars
  PROVE  DedupNamesRunning' /\ OwnsKey'
<1>0. dedup \in [Keys -> {NoTask} \cup Ids] /\ NoTask \notin Ids
  BY IdsAreNat DEF TaskShape
<1>1. CASE \E h \in Starters : StartCreate(h)
  <2>1. PICK h \in Starters : StartCreate(h)
    BY <1>1
  <2>2. PICK n \in Ids, k \in Keys :
          /\ worker[n] = "none" /\ worker'[n] = "queued" /\ key'[n] = k
          /\ \A u \in Ids \ {n} : worker'[u] = worker[u] /\ key'[u] = key[u]
          /\ \A l \in Keys : dedup'[l] = IF l = k THEN n ELSE dedup[l]
          /\ ~overwritten' => ~overwritten /\ dedup[k] = NoTask
    BY <2>1, CreateFacts
  <2>3. DedupNamesRunning'
    BY <1>0, <2>2 DEF DedupNamesRunning, Running
  <2>4. OwnsKey'
    BY <1>0, <2>2 DEF OwnsKey, Running
  <2>5. QED
    BY <2>3, <2>4
<1>2. CASE \E t \in Ids : Undedup(t)
  <2>1. PICK t \in Ids : Undedup(t)
    BY <1>2
  <2>2. /\ Running(t) /\ ~Running(t)' /\ UNCHANGED <<key, overwritten>>
        /\ \A u \in Ids \ {t} : Running(u)' <=> Running(u)
        /\ \A k \in Keys : dedup'[k] = IF k = key[t] THEN NoTask ELSE dedup[k]
    BY <2>1, UndedupFacts DEF Running, startVars
  <2>3. DedupNamesRunning'
    BY <1>0, <2>2 DEF DedupNamesRunning
  <2>4. OwnsKey'
    BY <1>0, <2>2 DEF OwnsKey
  <2>5. QED
    BY <2>3, <2>4
<1>3. CASE \E t \in Ids : Plain(t) \/ AcquirePermit(t) \/ BuildZip(t) \/ Finish(t)
  <2>1. PICK t \in Ids : Plain(t) \/ AcquirePermit(t) \/ BuildZip(t) \/ Finish(t)
    BY <1>3
  <2>2. UNCHANGED <<key, dedup, overwritten>>
    BY <2>1, PlainFrame, AcquireFacts, BuildZipFacts, FinishFacts DEF startVars
  <2>3. Running(t) /\ Running(t)' /\ \A u \in Ids \ {t} : Running(u)' <=> Running(u)
    BY <2>1, PlainFacts, AcquireFacts, BuildZipFacts, FinishFacts DEF Running, Ongoing, Places
  <2>4. \A u \in Ids : Running(u)' <=> Running(u)
    BY <2>3
  <2>5. QED
    BY <1>0, <2>2, <2>4 DEF DedupNamesRunning, OwnsKey
<1>4. CASE UNCHANGED <<worker, key, dedup, overwritten>>
  BY <1>4 DEF DedupNamesRunning, OwnsKey, Running
<1>5. QED
  BY <1>1, <1>2, <1>3, <1>4, Aside

(* Workers write Terminal stages only where they end.                      *)
LEMMA NextUnsettled ==
  ASSUME TaskShape, NotYet, Unsettled, ReadSound, [Next]_vars
  PROVE  Unsettled'
<1> USE DEF Unsettled, cleanupVars
<1>1. CASE \E h \in Starters : StartCreate(h)
  <2>1. PICK h \in Starters : StartCreate(h)
    BY <1>1
  <2>2. PICK n \in Ids :
          /\ n \notin expired /\ stage'[n] = "Starting"
          /\ \A u \in Ids \ {n} : worker'[u] = worker[u] /\ stage'[u] = stage[u]
          /\ UNCHANGED <<expired, zipVars, cancelVars>>
    BY <2>1, CreateFacts
  <2>3. QED
    BY <2>2 DEF cancelVars, Terminal
<1>2. CASE \E t \in Ids : Plain(t)
  <2>1. PICK t \in Ids : Plain(t)
    BY <1>2
  <2>2. worker[t] \in Ongoing /\ UNCHANGED <<expired, cancelling, everCancelled>>
    BY <2>1, PlainFacts, PlainFrame
  <2>3. /\ \A u \in Ids \ {t} : worker'[u] = worker[u] /\ stage'[u] = stage[u]
        /\ worker'[t] \in Ongoing => stage'[t] \in {stage[t], "FetchingUrl", "Downloading", "Packaging"}
    BY <2>1, PlainFacts
  <2>4. QED
    BY <2>2, <2>3 DEF Terminal
<1>3. CASE \E t \in Ids : AcquirePermit(t) \/ BuildZip(t) \/ Finish(t) \/ Undedup(t)
  <2>1. PICK t \in Ids : AcquirePermit(t) \/ BuildZip(t) \/ Finish(t) \/ Undedup(t)
    BY <1>3
  <2>2. UNCHANGED <<expired, cancelling, everCancelled>>
    BY <2>1, AcquireFacts, BuildZipFacts, FinishFacts, UndedupFacts DEF cancelVars
  <2>3. /\ \A u \in Ids \ {t} : worker'[u] = worker[u] /\ stage'[u] = stage[u]
        /\ worker'[t] \in Ongoing => worker[t] \in Ongoing /\ stage'[t] = stage[t]
    BY <2>1, AcquireFacts, BuildZipFacts, FinishFacts, UndedupFacts DEF Ongoing, Places
  <2>4. QED
    BY <2>2, <2>3
<1>4. CASE \E t \in Ids : CancelMark(t) \/ CancelStage(t)
  <2>1. UNCHANGED <<worker, expired>> /\ everCancelled \subseteq everCancelled'
        /\ cancelling' \subseteq everCancelled'
    BY <1>4 DEF CancelMark, CancelStage, workerVars
  <2>2. \A u \in Ids \ everCancelled' : stage'[u] = stage[u]
    BY <1>4 DEF CancelMark, CancelStage, Update, TaskShape
  <2>3. QED
    BY <2>1, <2>2
<1>5. CASE \E t \in Ids : CleanupRemove(t)
  <2>1. PICK t \in Ids : CleanupRemove(t)
    BY <1>5
  <2>2. /\ t \in expired /\ expired' \subseteq expired /\ UNCHANGED <<worker, cancelling, everCancelled>>
        /\ \A u \in Ids \ {t} : stage'[u] = stage[u]
    BY <2>1 DEF CleanupRemove, TaskShape, workerVars, cancelVars
  <2>3. QED
    BY <2>2
<1>6. CASE \E r \in Readers : ResultMark(r)
  <2>1. PICK r \in Readers : ResultMark(r)
    BY <1>6
  <2>2. /\ reading[r].task \in Ids /\ worker[reading[r].task] \notin Ongoing
        /\ UNCHANGED <<worker, expired, cancelling, everCancelled>>
    BY <2>1 DEF ResultMark, ReadSound, Ongoing, Over, workerVars, cancelVars
  <2>3. \A u \in Ids \ {reading[r].task} : stage'[u] = stage[u]
    BY <2>1 DEF ResultMark, Update, TaskShape
  <2>4. QED
    BY <2>2, <2>3
<1>7. CASE CleanupCollect
  BY <1>7 DEF CleanupCollect, workerVars, cancelVars
<1>8. CASE UNCHANGED <<worker, stage, expired, cancelling, everCancelled>>
  BY <1>8
<1>9. QED
  <2>1. \/ \E t \in Ids : ZipTimer(t) \/ OrphanZip(t)
        \/ \E r \in Readers : ResultServe(r) \/ \E t \in Ids : ResultRead(r, t)
        \/ \E h \in Starters, k \in Keys : StartLookup(h, k)
        \/ UNCHANGED vars
        => UNCHANGED <<worker, stage, expired, cancelling, everCancelled>>
    BY DEF ZipTimer, OrphanZip, ResultServe, ResultRead, StartLookup, vars, workerVars, cancelVars
  <2>2. QED
    BY <2>1, <1>1, <1>2, <1>3, <1>4, <1>5, <1>6, <1>7, <1>8, Kinds

(* Who reads has found the task Done, and its worker is over for good.     *)
LEMMA OverStays ==
  ASSUME TaskShape, NotYet, [Next]_vars, NEW t \in Ids, worker[t] \in Over
  PROVE  /\ worker'[t] \in Over
         /\ stage'[t] \in {stage[t], "absent"} \/ (stage'[t] = "Error" /\ t \in cancelling)
            \/ \E r \in Readers : ResultMark(r) /\ reading[r].task = t /\ stage'[t] = "Retrieved"
<1> USE DEF Over
<1>1. CASE \E h \in Starters : StartCreate(h)
  BY <1>1, CreateFacts
<1>2. CASE \E u \in Ids : Plain(u)
  BY <1>2, PlainFacts DEF Ongoing
<1>3. CASE \E u \in Ids : AcquirePermit(u) \/ BuildZip(u) \/ Finish(u) \/ Undedup(u)
  BY <1>3, AcquireFacts, BuildZipFacts, FinishFacts, UndedupFacts
<1>4. CASE \E u \in Ids : CancelMark(u) \/ CancelStage(u) \/ CleanupRemove(u)
  BY <1>4 DEF CancelMark, CancelStage, CleanupRemove, Update, TaskShape, workerVars
<1>5. CASE \E r \in Readers : ResultMark(r)
  <2>1. PICK r \in Readers : ResultMark(r)
    BY <1>5
  <2>2. worker' = worker
        /\ stage' = [stage EXCEPT ![reading[r].task] = IF @ = "absent" THEN @ ELSE "Retrieved"]
    BY <2>1 DEF ResultMark, Update, workerVars
  <2>3. QED
    BY <2>1, <2>2 DEF TaskShape
<1>6. CASE UNCHANGED <<worker, stage>>
  BY <1>6
<1>7. QED
  <2>1. \/ \E u \in Ids : ZipTimer(u) \/ OrphanZip(u)
        \/ \E r \in Readers : ResultServe(r) \/ \E u \in Ids : ResultRead(r, u)
        \/ \E h \in Starters, k \in Keys : StartLookup(h, k)
        \/ CleanupCollect \/ UNCHANGED vars
        => UNCHANGED <<worker, stage>>
    BY DEF ZipTimer, OrphanZip, ResultServe, ResultRead, StartLookup, CleanupCollect, vars, workerVars
  <2>2. QED
    BY <2>1, <1>1, <1>2, <1>3, <1>4, <1>5, <1>6, Kinds

LEMMA NextZip ==
  ASSUME TaskShape, NotYet, Unsettled, ZipSound, ReadSound, [Next]_vars
  PROVE  ZipSound'
<1> USE DEF ZipSound, Over
<1>1. CASE \E h \in Starters : StartCreate(h)
  <2>1. PICK h \in Starters : StartCreate(h)
    BY <1>1
  <2>2. PICK n \in Ids :
          /\ worker[n] = "none" /\ worker'[n] = "queued" /\ stage'[n] = "Starting"
          /\ \A u \in Ids \ {n} : worker'[u] = worker[u] /\ stage'[u] = stage[u]
          /\ UNCHANGED <<zipVars, cancelVars, cleanupVars>>
    BY <2>1, CreateFacts
  <2>3. QED
    BY <2>2 DEF zipVars, cancelVars, cleanupVars, TaskShape
<1>2. CASE \E t \in Ids : Plain(t)
  <2>1. PICK t \in Ids : Plain(t)
    BY <1>2
  <2>2. /\ worker[t] \notin Over \cup {"finish"} /\ worker'[t] # "finish"
        /\ worker[t] = "report" => worker'[t] = "undedup"
        /\ UNCHANGED <<zips, paths, timers, everCancelled, partial, aged>>
    BY <2>1, PlainFacts, PlainFrame DEF Ongoing, zipVars, cleanupVars
  <2>3. /\ \A u \in Ids \ {t} : worker'[u] = worker[u] /\ stage'[u] = stage[u]
        /\ stage'[t] = "Done" => stage[t] = "Done"
    BY <2>1, PlainFacts
  <2>4. QED
    BY <2>2, <2>3 DEF TaskShape
<1>3. CASE \E t \in Ids : AcquirePermit(t) \/ Undedup(t)
  <2>1. PICK t \in Ids : AcquirePermit(t) \/ Undedup(t)
    BY <1>3
  <2>2. /\ UNCHANGED <<stage, zipVars, cancelVars, cleanupVars>>
        /\ \A u \in Ids \ {t} : worker'[u] = worker[u]
        /\ \/ worker[t] = "queued" /\ worker'[t] = "begin"
           \/ worker[t] \in {"undedup", "busy"} /\ worker'[t] = "ended"
    BY <2>1, AcquireFacts, UndedupFacts
  <2>3. QED
    BY <2>2 DEF zipVars, cancelVars, cleanupVars, TaskShape
<1>4. CASE \E t \in Ids : BuildZip(t)
  <2>1. PICK t \in Ids : BuildZip(t)
    BY <1>4
  <2>2. UNCHANGED <<stage, paths, timers, everCancelled, aged>>
    BY <2>1, BuildZipFacts DEF cancelVars
  <2>3. /\ worker[t] = "zip" /\ \A u \in Ids \ {t} : worker'[u] = worker[u]
        /\ \/ worker'[t] = "finish" /\ zips' = zips \cup {t} /\ partial' = partial
           \/ worker'[t] = "report" /\ zips' = zips \cup {t} /\ partial' = partial \cup {t}
           \/ worker'[t] = "report" /\ zips' = zips /\ partial' = partial
    BY <2>1, BuildZipFacts
  <2>4. QED
    BY <2>2, <2>3 DEF TaskShape
<1>5. CASE \E t \in Ids : Finish(t)
  <2>1. PICK t \in Ids : Finish(t)
    BY <1>5
  <2>2. /\ worker[t] = "finish" /\ worker'[t] = "undedup"
        /\ \A u \in Ids \ {t} : worker'[u] = worker[u] /\ stage'[u] = stage[u]
        /\ UNCHANGED <<zips, timers, everCancelled, partial, aged>>
    BY <2>1, FinishFacts DEF cancelVars, cleanupVars
  <2>3. /\ stage'[t] = IF stage[t] = "absent" THEN "absent" ELSE "Done"
        /\ paths' = IF stage[t] = "absent" THEN paths ELSE paths \cup {t}
    BY <2>1, FinishFacts
  <2>4. stage[t] = "absent" => t \in everCancelled
    BY <2>2 DEF Unsettled, Ongoing, Places
  <2>5. (stage[t] # "absent" => t \in zips \cup aged) /\ t \notin partial /\ timers[t] = 0
    BY <2>2 DEF TaskShape
  <2>6. QED
    BY <2>2, <2>3, <2>4, <2>5 DEF TaskShape
<1>6. CASE \E t \in Ids : CancelMark(t) \/ CancelStage(t)
  <2>1. UNCHANGED <<worker, zips, paths, timers, partial, aged>> /\ everCancelled \subseteq everCancelled'
    BY <1>6 DEF CancelMark, CancelStage, workerVars, zipVars, cleanupVars
  <2>2. \A u \in Ids : /\ stage'[u] = "Done" => stage[u] = "Done"
                       /\ stage[u] = "absent" => stage'[u] = "absent"
    BY <1>6 DEF CancelMark, CancelStage, Update, TaskShape
  <2>3. QED
    BY <2>1, <2>2 DEF TaskShape
<1>7. CASE \E t \in Ids : ZipTimer(t)
  <2>1. PICK t \in Ids : ZipTimer(t)
    BY <1>7
  <2>2. /\ timers[t] > 0 /\ timers' = [timers EXCEPT ![t] = @ - 1] /\ zips' = zips \ {t}
        /\ UNCHANGED <<worker, stage, paths, everCancelled, partial, aged>>
    BY <2>1 DEF ZipTimer, workerVars, cancelVars, cleanupVars
  <2>3. worker[t] \in Over /\ stage[t] # "Done"
    BY <2>2 DEF TaskShape
  <2>4. QED
    BY <2>2, <2>3 DEF TaskShape
<1>8. CASE \E t \in Ids : CleanupRemove(t)
  <2>1. PICK t \in Ids : CleanupRemove(t)
    BY <1>8
  <2>2. UNCHANGED <<worker, timers, everCancelled, partial>> /\ aged' = aged \ {t}
    BY <2>1 DEF CleanupRemove, workerVars, cancelVars
  <2>3. /\ zips' = zips \ (paths \cap {t}) /\ paths' = paths \ {t}
        /\ stage' = [stage EXCEPT ![t] = "absent"]
    BY <2>1 DEF CleanupRemove
  <2>4. stage'[t] = "absent" /\ \A u \in Ids \ {t} : stage'[u] = stage[u]
    BY <2>3 DEF TaskShape
  <2>5. zips' \subseteq zips /\ paths' \subseteq paths /\ t \notin paths' /\ aged' \subseteq aged
    BY <2>2, <2>3
  <2>6. /\ \A u \in zips : u # t => u \in zips'
        /\ \A u \in paths : u # t => u \in paths'
        /\ \A u \in aged : u # t => u \in aged'
    BY <2>2, <2>3
  <2>7. t \in zips' => t \in zips /\ t \notin paths
    BY <2>3
  <2> HIDE DEF Over
  <2>8. \A u \in Ids : worker'[u] = "finish" =>
          u \notin partial' /\ (stage'[u] # "absent" => u \in zips' \cup aged')
    BY <2>2, <2>4, <2>6 DEF TaskShape
  <2>9. \A u \in zips' \ partial' : worker'[u] \in Over \cup {"finish"}
    BY <2>2, <2>5
  <2>10. \A u \in partial' : worker'[u] \in Over \cup {"report"}
    BY <2>2
  <2>11. \A u \in zips' \ partial' : worker'[u] \in Over /\ u \notin everCancelled' => u \in paths'
    <3>1. ASSUME NEW u \in zips' \ partial', worker[u] \in Over, u \notin everCancelled
          PROVE  u \in paths'
      <4>1. u \in zips \ partial /\ u \in paths /\ u \in Ids
        BY <2>2, <2>5, <3>1 DEF TaskShape
      <4>2. u # t
        BY <2>7, <3>1, <4>1
      <4>3. QED
        BY <2>6, <4>1, <4>2
    <3>2. QED
      BY <2>2, <3>1
  <2>12. \A u \in paths' : worker'[u] \in Over /\ u \notin partial'
    BY <2>2, <2>5
  <2>13. \A u \in Ids : stage'[u] = "Done" => u \in zips' \cup aged' /\ u \in paths' /\ timers'[u] = 0
    BY <2>2, <2>4, <2>6 DEF TaskShape
  <2>14. QED
    BY <2>2, <2>8, <2>9, <2>10, <2>11, <2>12, <2>13
<1>13. CASE \E t \in Ids : OrphanZip(t)
  <2>1. PICK t \in Ids : OrphanZip(t)
    BY <1>13
  <2>2. /\ UNCHANGED <<worker, stage, paths, timers, everCancelled>>
        /\ zips' = zips \ {t} /\ partial' = partial \ {t}
        /\ aged' = IF stage[t] = "absent" THEN aged ELSE aged \cup {t}
    BY <2>1 DEF OrphanZip, workerVars, cancelVars
  <2>3. \A u \in Ids : stage[u] # "absent" /\ u \in zips \cup aged => u \in zips' \cup aged'
    BY <2>2
  <2> HIDE DEF Over
  <2>4. QED
    BY <2>2, <2>3 DEF TaskShape
<1>9. CASE \E r \in Readers : ResultMark(r) \/ \E t \in Ids : ResultRead(r, t)
  <2>1. UNCHANGED <<worker, zips, paths, timers, everCancelled, partial, aged>>
    BY <1>9 DEF ResultMark, ResultRead, workerVars, cancelVars, cleanupVars
  <2>2. \A u \in Ids : /\ stage'[u] = "Done" => stage[u] = "Done"
                       /\ stage[u] = "absent" => stage'[u] = "absent"
    BY <1>9 DEF ResultMark, ResultRead, Update, TaskShape
  <2>3. QED
    BY <2>1, <2>2 DEF TaskShape
<1>10. CASE \E r \in Readers : ResultServe(r)
  <2>1. PICK r \in Readers : ResultServe(r)
    BY <1>10
  <2>2. UNCHANGED <<worker, stage, zips, paths, everCancelled, partial, aged>>
    BY <2>1 DEF ResultServe, workerVars, cancelVars, cleanupVars
  <2>3. /\ worker[reading[r].task] \in Over /\ stage[reading[r].task] # "Done"
        /\ reading[r].task \in Ids
    BY <2>1 DEF ResultServe, ReadSound
  <2>4. timers' \in {timers, [timers EXCEPT ![reading[r].task] = @ + 1]}
    BY <2>1 DEF ResultServe
  <2>5. QED
    BY <2>2, <2>3, <2>4 DEF TaskShape
<1>11. CASE UNCHANGED <<worker, stage, zips, paths, timers, everCancelled, partial, aged>>
  BY <1>11
<1>12. QED
  <2>1. \/ \E h \in Starters, k \in Keys : StartLookup(h, k)
        \/ CleanupCollect \/ UNCHANGED vars
        => UNCHANGED <<worker, stage, zips, paths, timers, everCancelled, partial, aged>>
    BY DEF StartLookup, CleanupCollect, vars, workerVars, zipVars, cancelVars, cleanupVars
  <2>2. QED
    BY <2>1, <1>1, <1>2, <1>3, <1>4, <1>5, <1>6, <1>7, <1>8, <1>9, <1>10, <1>11, <1>13, Kinds

LEMMA NextRead ==
  ASSUME TaskShape, NotYet, Unsettled, ZipSound, ReadSound, [Next]_vars
  PROVE  ReadSound'
<1> USE DEF ReadSound
<1>1. CASE \E r \in Readers : ResultMark(r) \/ ResultServe(r) \/ \E t \in Ids : ResultRead(r, t)
  <2>1. PICK r \in Readers : ResultMark(r) \/ ResultServe(r) \/ \E t \in Ids : ResultRead(r, t)
    BY <1>1
  <2>2. CASE \E t \in Ids : ResultRead(r, t)
    <3>1. PICK t \in Ids : ResultRead(r, t)
      BY <2>2
    <3>2. /\ stage[t] = "Done" /\ reading' = [reading EXCEPT ![r] = [task |-> t, at |-> "mark"]]
          /\ UNCHANGED <<stage, worker, everCancelled>>
      BY <3>1 DEF ResultRead, workerVars, cancelVars
    <3>3. worker[t] \in Over
      BY <3>2 DEF ZipSound
    <3>4. QED
      BY <3>2, <3>3 DEF TaskShape
  <2>3. CASE ResultMark(r)
    <3> DEFINE t == reading[r].task
    <3>1. /\ reading[r].at = "mark" /\ t \in Ids /\ worker[t] \in Over
          /\ UNCHANGED <<worker, everCancelled>>
          /\ reading' = [reading EXCEPT ![r].at = "serve"]
      BY <2>3 DEF ResultMark, workerVars, cancelVars
    <3>2. stage' = [stage EXCEPT ![t] = IF @ = "absent" THEN @ ELSE "Retrieved"]
      BY <2>3 DEF ResultMark, Update
    <3>3. stage'[t] \in {"absent", "Retrieved"} /\ \A u \in Ids \ {t} : stage'[u] = stage[u]
      BY <3>1, <3>2 DEF TaskShape
    <3>4. /\ reading'[r] = [task |-> t, at |-> "serve"]
          /\ \A q \in Readers \ {r} : reading'[q] = reading[q]
      BY <3>1 DEF TaskShape
    <3> HIDE DEF t
    <3>5. QED
      BY <3>1, <3>3, <3>4
  <2>4. CASE ResultServe(r)
    BY <2>4 DEF ResultServe, Idle, TaskShape, workerVars, cancelVars
  <2>5. QED
    BY <2>1, <2>2, <2>3, <2>4
<1>2. CASE ~\E r \in Readers : ResultMark(r) \/ ResultServe(r) \/ \E t \in Ids : ResultRead(r, t)
  <2>1. reading' = reading
    BY <1>2, Kinds, PlainFrame, AcquireFacts, BuildZipFacts, FinishFacts, UndedupFacts, CreateFacts
       DEF StartLookup, CancelMark, CancelStage, ZipTimer, CleanupRemove, OrphanZip,
           CleanupCollect, vars, zipVars
  <2>2. everCancelled \subseteq everCancelled' /\ cancelling \subseteq everCancelled
    <3>1. everCancelled' = everCancelled \/ \E t \in Ids : CancelMark(t)
      BY <1>2, Kinds, PlainFrame, AcquireFacts, BuildZipFacts, FinishFacts, UndedupFacts, CreateFacts
         DEF StartLookup, CancelStage, ZipTimer, CleanupRemove, OrphanZip,
             CleanupCollect, vars, cancelVars
    <3>2. QED
      BY <3>1 DEF CancelMark, Unsettled
  <2>3. \A t \in Ids : worker[t] \in Over =>
          /\ worker'[t] \in Over
          /\ stage'[t] \in {stage[t], "absent"} \/ (stage'[t] = "Error" /\ t \in cancelling)
    BY <1>2, OverStays
  <2>4. QED
    BY <2>1, <2>2, <2>3
<1>3. QED
  BY <1>1, <1>2

-----------------------------------------------------------------------------
LEMMA InitTasksInv == Init => TasksInv
<1> SUFFICES ASSUME Init PROVE TasksInv
  OBVIOUS
<1>1. TaskShape
  <2>1. /\ stage \in [Ids -> Stages \cup {"absent"}] /\ key \in [Ids -> Keys \cup {NoKey}]
        /\ worker \in [Ids -> Places] /\ timers \in [Ids -> Nat]
        /\ dedup \in [Keys -> {NoTask} \cup Ids] /\ starting \in [Starters -> Keys \cup {NoKey}]
    BY DEF Init, Places
  <2>2. free \in Nat /\ created \in 0..MaxTasks
    BY PermitsAssumption DEF Init
  <2>3. reading \in [Readers -> [task : {NoTask} \cup Ids, at : {"idle", "mark", "serve"}]]
    BY DEF Init, Idle
  <2>4. /\ cancelled \subseteq Ids /\ cancelling \subseteq Ids /\ everCancelled \subseteq Ids
        /\ paths \subseteq Ids /\ zips \subseteq Ids /\ expired \subseteq Ids
        /\ partial \subseteq Ids /\ aged \subseteq Ids
        /\ overwritten \in BOOLEAN
    BY DEF Init
  <2>5. QED
    BY <2>1, <2>2, <2>3, <2>4 DEF TaskShape
<1>2. PermitsKept
  <2>1. Holders = {}
    BY DEF Init, Holders, Holding
  <2>2. QED
    BY <2>1, FS_EmptySet, PermitsAssumption DEF Init, PermitsKept
<1>3. NotYet /\ DedupNamesRunning /\ OwnsKey /\ Unsettled
  BY DEF Init, NotYet, DedupNamesRunning, OwnsKey, Unsettled, Running, Ongoing
<1>4. ZipSound /\ ReadSound
  BY DEF Init, ZipSound, ReadSound, Idle
<1>5. QED
  BY <1>1, <1>2, <1>3, <1>4 DEF TasksInv

LEMMA NextTasksInv == TasksInv /\ [Next]_vars => TasksInv'
BY NextShape, NextPermits, NextNotYet, NextDedup, NextUnsettled, NextZip, NextRead DEF TasksInv

LEMMA InvariantTasks == Spec => []TasksInv
BY InitTasksInv, NextTasksInv, PTL DEF Spec

(* Every variable keeps its type; in particular no permit is returned that *)
(* was not taken (download_async.rs:280).                                  *)
THEOREM TasksTypeCorrect == Spec => []TypeOK
<1>1. TasksInv => TypeOK
  <2>1. SUFFICES ASSUME TasksInv PROVE TypeOK
    OBVIOUS
  <2>2. Holders \subseteq Ids
    BY DEF Holders
  <2>3. Cardinality(Holders) \in Nat
    BY <2>2, IdsAreNat, FS_Subset, FS_CardinalityType
  <2>4. free \in 0..Permits
    BY <2>1, <2>3, PermitsAssumption DEF TasksInv, TaskShape, PermitsKept
  <2>5. QED
    BY <2>1, <2>4 DEF TasksInv, TaskShape, TypeOK
<1>2. QED
  BY <1>1, InvariantTasks, PTL

(* No key stays bound to a task whose worker has ended, for any number of  *)
(* concurrent starts of any keys (download_async.rs:69, 314).              *)
THEOREM KeysNameRunning == Spec => []DedupNamesRunning
<1>1. TasksInv => DedupNamesRunning
  BY DEF TasksInv
<1>2. QED
  BY <1>1, InvariantTasks, PTL

(* Two workers of one key need a start that replaced an entry of dedup.    *)
THEOREM OneWorker == Spec => []OneWorkerPerKey
<1>1. TasksInv => OneWorkerPerKey
  BY DEF TasksInv, OwnsKey, OneWorkerPerKey
<1>2. QED
  BY <1>1, InvariantTasks, PTL

(* A finished task names a complete zip, which until the first retrieval   *)
(* nothing removes but the pass that goes by the age of the zips.          *)
THEOREM ZipsKept == Spec => []DoneKeepsZip
<1>1. TasksInv => DoneKeepsZip
  BY DEF TasksInv, TaskShape, ZipSound, Over, DoneKeepsZip
<1>2. QED
  BY <1>1, InvariantTasks, PTL

(* A zip that no record of the store names is that of a cancelled task or  *)
(* of a build that broke off (task_memory.rs:90, zip.rs:96).               *)
THEOREM ZipsAreOwned == Spec => []ZipHasOwner
<1>1. TasksInv => ZipHasOwner
  BY DEF TasksInv, TaskShape, ZipSound, Over, ZipHasOwner
<1>2. QED
  BY <1>1, InvariantTasks, PTL

(* A task nobody cancelled leaves a terminal stage only for Retrieved or   *)
(* for the cleanup.                                                        *)
THEOREM TerminalStays == Spec => TerminalIsFinal
<1> DEFINE Kept == \A t \in Ids :
      stage[t] \in Terminal /\ t \notin everCancelled /\ stage'[t] # stage[t]
        => stage'[t] = "absent" \/ (stage[t] = "Done" /\ stage'[t] = "Retrieved")
<1>1. TasksInv /\ [Next]_vars => Kept
  <2> SUFFICES ASSUME TasksInv, [Next]_vars, NEW t \in Ids,
                      stage[t] \in Terminal, t \notin everCancelled, stage'[t] # stage[t]
               PROVE  stage'[t] = "absent" \/ (stage[t] = "Done" /\ stage'[t] = "Retrieved")
    OBVIOUS
  <2>1. TaskShape /\ NotYet /\ Unsettled /\ ReadSound
    BY DEF TasksInv
  <2>2. worker[t] \in Over \cup {"none", "busy"}
    BY <2>1 DEF Unsettled, TaskShape, Ongoing, Places, Over
  <2>3. CASE worker[t] \in Over
    <3>1. CASE \E r \in Readers : ResultMark(r) /\ reading[r].task = t /\ stage'[t] = "Retrieved"
      BY <2>1, <3>1 DEF ReadSound, ResultMark, Terminal
    <3>2. CASE stage'[t] \in {stage[t], "absent"} \/ (stage'[t] = "Error" /\ t \in cancelling)
      BY <2>1, <3>2 DEF Unsettled
    <3>3. QED
      BY <2>1, <2>3, <3>1, <3>2, OverStays
  <2>4. CASE worker[t] \in {"none", "busy"}
    <3>1. ~\E u \in Ids : Plain(u) /\ u = t
      BY <2>1, <2>4, PlainFacts DEF Ongoing
    <3>2. CASE \E h \in Starters : StartCreate(h)
      BY <2>1, <3>2, CreateFacts DEF Terminal
    <3>3. CASE \E u \in Ids : Plain(u)
      BY <2>1, <3>1, <3>3, PlainFacts
    <3>4. CASE \E u \in Ids : AcquirePermit(u) \/ BuildZip(u) \/ Finish(u) \/ Undedup(u)
      BY <2>1, <2>4, <3>4, AcquireFacts, BuildZipFacts, FinishFacts, UndedupFacts
    <3>5. CASE \E u \in Ids : CancelStage(u)
      BY <2>1, <3>5 DEF CancelStage, Update, TaskShape, Unsettled
    <3>6. CASE \E u \in Ids : CleanupRemove(u)
      BY <2>1, <3>6 DEF CleanupRemove, TaskShape
    <3>7. CASE \E r \in Readers : ResultMark(r)
      BY <2>1, <2>4, <3>7 DEF ResultMark, Update, TaskShape, ReadSound, Over
    <3>8. QED
      BY <3>2, <3>3, <3>4, <3>5, <3>6, <3>7, Kinds
         DEF StartLookup, CancelMark, ZipTimer, OrphanZip, ResultServe, ResultRead, CleanupCollect, vars
  <2>5. QED
    BY <2>2, <2>3, <2>4
<1>2. QED
  BY <1>1, InvariantTasks, PTL DEF Spec, TerminalIsFinal
=============================================================================
