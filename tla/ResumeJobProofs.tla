-------------------------- MODULE ResumeJobProofs --------------------------
(***************************************************************************)
(* Proofs about ResumeJob, for every set of sizes and of thresholds, every *)
(* budget and bound: type correctness, the agreement of the FSM with the   *)
(* driver, that the manifest is never ahead of the bytes, that what is     *)
(* published is whole, and that a job implements Download.                 *)
(***************************************************************************)
EXTENDS ResumeJob, TLAPS

USE SizesAssumption, BoundsAssumption DEF SizesAssumption, BoundsAssumption

-----------------------------------------------------------------------------
(* Lemmas about the operators.                                             *)

(* Chunks are numbered from 1.                                             *)
LEMMA UnitsArePositive == Units \subseteq Nat \ {0}
  BY DEF Units

(* The grid of a file of any of the sizes is made of units.                *)
LEMMA GridInUnits == \A z \in Sizes : 1..z \subseteq Units
  BY DEF Units

(* Whatever the state and the event, the table names a state of the FSM or *)
(* the InvalidTransition error.                                            *)
LEMMA AdvanceIsTotal ==
  ASSUME NEW s, NEW ev
  PROVE  Advance(s, ev) \in FsmStates
  BY DEF Advance, FsmStates

(* A file of any length is well typed, and empty.                          *)
LEMMA FreshFile ==
  ASSUME NEW b \in BOOLEAN, NEW n \in Nat, NEW l \in BOOLEAN
  PROVE  /\ File(b, n, l) \in Files
         /\ File(b, n, l).exists = b
         /\ Filled(File(b, n, l)) = {}
  BY DEF File, Files, Filled, TagStates

(* In particular a file that is not there holds nothing.                   *)
LEMMA NoFileIsFresh == NoFile \in Files /\ NoFile.exists = FALSE /\ Filled(NoFile) = {}
<1>1. {FALSE} \subseteq BOOLEAN
  BY Zenon
<1> QED
  BY <1>1, FreshFile DEF NoFile

LEMMA EmptyFileIsFresh == EmptyFile \in Files /\ EmptyFile.exists = TRUE /\ Filled(EmptyFile) = {}
<1>1. {TRUE, FALSE} \subseteq BOOLEAN
  BY Zenon
<1> QED
  BY <1>1, FreshFile DEF EmptyFile

(* Writing tags leaves the rest of a file as it was published.             *)
LEMMA Retagged ==
  ASSUME NEW f \in Files, NEW t \in TagStates
  PROVE  LET g == [f EXCEPT !.tags = t] IN
         /\ g \in Files /\ g.tags = t
         /\ g.exists = f.exists /\ g.len = f.len /\ g.bytes = f.bytes
  BY DEF Files

(* Put keeps the type, and what it writes at a unit of the file is there   *)
(* beside what was.                                                        *)
LEMMA PutFile ==
  ASSUME NEW p \in Files, NEW i \in Nat, NEW z \in {0} \cup Sizes
  PROVE  /\ Put(p, i, z) \in Files
         /\ Put(p, i, z).exists = p.exists
         /\ z # 0 /\ i \in Units => Filled(Put(p, i, z)) = Filled(p) \cup {i}
  BY DEF Put, Files, Filled

(* The steps that concern the published file alone.                        *)
TagStep == TagBegin \/ TagSkip \/ TagEnd \/ TagReturn \/ TagCached \/ EvictFinal

(* What they leave alone, and what they may do to the file.                *)
LEMMA TagSteps ==
  ASSUME TypeOK, TagStep
  PROVE  /\ UNCHANGED <<fsmVars, confVars, streamVars, probeVars, historyVars, mem, task, part, sidecar, historyVars>>
         /\ pc' = pc \/ (pc \in {"tag", "tagging"} /\ pc' \in {"idle", "tagging"})
         /\ final' = NoFile \/ \E t \in TagStates : final' = [final EXCEPT !.tags = t]
<1>1. {"writing", "tagged", "torn"} \subseteq TagStates /\ final = [final EXCEPT !.tags = final.tags]
      /\ final.tags \in TagStates
  BY DEF TypeOK, DataTypeOK, Files, TagStates
<1>2. CASE TagBegin \/ TagCached \/ TagEnd
  BY <1>1, <1>2 DEF TagBegin, TagCached, TagEnd
<1>3. CASE TagSkip \/ TagReturn \/ EvictFinal
  BY <1>1, <1>3 DEF TagSkip, TagReturn, EvictFinal
<1> QED
  BY <1>2, <1>3 DEF TagStep
-----------------------------------------------------------------------------
(* Type correctness.                                                       *)

(* The type invariant holds initially.                                     *)
LEMMA InitTypeOK == Init => TypeOK
<1> SUFFICES ASSUME Init PROVE TypeOK
  OBVIOUS
<1>1. {append, trunc, detached, overtaken, fellBack} \subseteq BOOLEAN
  BY Zenon DEF Init
<1>2. DriverTypeOK
  BY <1>1 DEF Init, DriverTypeOK, FsmStates
<1>3. DataTypeOK
  BY <1>1, NoFileIsFresh DEF Init, DataTypeOK, NoSidecar, TaskStates, Manifests, Mems
<1> QED
  BY <1>2, <1>3 DEF TypeOK

(* However an attempt ends, the driver's variables keep their types.       *)
LEMMA OutcomesTypeOK ==
  ASSUME TypeOK,
         AttemptFatal \/ AttemptUrlExpired
           \/ \E h \in {"manifest", "joined", "length", "preallocated", "streamed"} : AttemptOk(h)
  PROVE  DriverTypeOK'
<1>1. LeaveAttempt
  BY DEF AttemptFatal, AttemptUrlExpired, AttemptOk
<1>2. {append', trunc', detached', overtaken'} \subseteq BOOLEAN
  BY <1>1, Zenon DEF TypeOK, DriverTypeOK, LeaveAttempt
<1>3. /\ tries' \in 0..MaxRetries /\ pos' \in Nat /\ append' \in BOOLEAN
      /\ trunc' \in BOOLEAN /\ first' \in {0} \cup Units /\ slot' \in {0} \cup Slots
  BY <1>1, <1>2 DEF LeaveAttempt
<1>4. CASE AttemptFatal
  BY <1>2, <1>3, <1>4, AdvanceIsTotal DEF TypeOK, DriverTypeOK, AttemptFatal
<1>5. CASE AttemptUrlExpired
  BY <1>2, <1>3, <1>5, AdvanceIsTotal DEF TypeOK, DriverTypeOK, DataTypeOK, Files, AttemptUrlExpired
<1>6. CASE \E h \in {"manifest", "joined", "length", "preallocated", "streamed"} : AttemptOk(h)
  BY <1>2, <1>3, <1>6, AdvanceIsTotal DEF TypeOK, DriverTypeOK, AttemptOk
<1> QED
  BY <1>4, <1>5, <1>6

(* Every action keeps the types.  What an attempt works with is needed: a  *)
(* chunk task is started for the chunks of the job's own grid.             *)
LEMMA NextTypeOK == TypeOK /\ AttemptInv /\ [Next]_vars => TypeOK'
<1> SUFFICES ASSUME TypeOK, AttemptInv, [Next]_vars PROVE TypeOK'
  OBVIOUS
<1> USE DEF TypeOK
<1>1. CASE StartJob
  <2>1. fellBack' \in BOOLEAN
    BY <1>1, Zenon DEF StartJob
  <2>2. DriverTypeOK'
    BY <1>1, AdvanceIsTotal DEF StartJob, DriverTypeOK, streamVars, probeVars, historyVars
  <2>3. DataTypeOK'
    BY <1>1, <2>1, NoFileIsFresh DEF StartJob, DataTypeOK
  <2> QED
    BY <2>2, <2>3
<1>2. CASE ProbeFirstGap
  <2>1. DriverTypeOK'
    BY <1>2, GridInUnits DEF ProbeFirstGap, DriverTypeOK, DataTypeOK, fsmVars, streamVars, historyVars
  <2>2. DataTypeOK'
    BY <1>2 DEF ProbeFirstGap, DataTypeOK, ResumeManifest, Manifests, Mems, TaskStates, confVars
  <2> QED
    BY <2>1, <2>2
<1>3. CASE ManifestComplete
  <2>1. DriverTypeOK'
    BY <1>3, OutcomesTypeOK DEF ManifestComplete
  <2>2. DataTypeOK'
    BY <1>3 DEF ManifestComplete, DataTypeOK, confVars
  <2> QED
    BY <2>1, <2>2
<1>4. CASE JoinAll
  <2>1. DriverTypeOK'
    BY <1>4, OutcomesTypeOK DEF JoinAll
  <2>2. DataTypeOK'
    BY <1>4 DEF JoinAll, DataTypeOK, confVars
  <2> QED
    BY <2>1, <2>2
<1>5. CASE AcceptByLength
  <2>1. DriverTypeOK'
    BY <1>5, OutcomesTypeOK DEF AcceptByLength
  <2>2. DataTypeOK'
    BY <1>5 DEF AcceptByLength, DataTypeOK, confVars
  <2> QED
    BY <2>1, <2>2
<1>6. CASE StreamComplete
  <2>1. DriverTypeOK'
    BY <1>6, OutcomesTypeOK DEF StreamComplete
  <2>2. DataTypeOK'
    BY <1>6 DEF StreamComplete, DataTypeOK, confVars
  <2> QED
    BY <2>1, <2>2
<1>7. CASE ProbeExpired
  <2>1. DriverTypeOK'
    BY <1>7, OutcomesTypeOK DEF ProbeExpired
  <2>2. DataTypeOK'
    BY <1>7 DEF ProbeExpired, DataTypeOK, confVars
  <2> QED
    BY <2>1, <2>2
<1>8. CASE ProbeFatal
  <2>1. DriverTypeOK'
    BY <1>8, OutcomesTypeOK DEF ProbeFatal
  <2>2. DataTypeOK'
    BY <1>8 DEF ProbeFatal, DataTypeOK, confVars
  <2> QED
    BY <2>1, <2>2
<1>9. CASE FirstError
  <2>1. DriverTypeOK'
    BY <1>9, OutcomesTypeOK DEF FirstError
  <2>2. DataTypeOK'
    BY <1>9 DEF FirstError, DataTypeOK, confVars
  <2> QED
    BY <2>1, <2>2
<1>10. CASE JoinError
  <2>1. DriverTypeOK'
    BY <1>10, OutcomesTypeOK DEF JoinError
  <2>2. DataTypeOK'
    BY <1>10 DEF JoinError, DataTypeOK, confVars
  <2> QED
    BY <2>1, <2>2
<1>11. CASE RequestFatal
  <2>1. DriverTypeOK'
    BY <1>11, OutcomesTypeOK DEF RequestFatal
  <2>2. DataTypeOK'
    BY <1>11 DEF RequestFatal, DataTypeOK, confVars
  <2> QED
    BY <2>1, <2>2
<1>12. CASE StreamExpired
  <2>1. DriverTypeOK'
    BY <1>12, OutcomesTypeOK DEF StreamExpired
  <2>2. DataTypeOK'
    BY <1>12 DEF StreamExpired, DataTypeOK, confVars
  <2> QED
    BY <2>1, <2>2
<1>13. CASE ProbePartial
  BY <1>13 DEF ProbePartial, DriverTypeOK, DataTypeOK, fsmVars, confVars, streamVars, probeVars, historyVars
<1>14. CASE EnterSingleStream
  BY <1>14 DEF EnterSingleStream, DriverTypeOK, DataTypeOK, fsmVars, confVars, streamVars, probeVars, historyVars
<1>15. CASE RenameError
  BY <1>15 DEF RenameError, DriverTypeOK, DataTypeOK, fsmVars, confVars, streamVars, probeVars, historyVars
<1>16. CASE ProbeFull
  <2>1. append' \in BOOLEAN
    BY <1>16, Zenon DEF ProbeFull
  <2>2. DriverTypeOK'
    BY <1>16, <2>1 DEF ProbeFull, DriverTypeOK, fsmVars, probeVars, historyVars
  <2>3. DataTypeOK'
    BY <1>16, EmptyFileIsFresh DEF ProbeFull, DataTypeOK, NoSidecar, Manifests, confVars
  <2> QED
    BY <2>2, <2>3
<1>17. CASE ProbeFallback
  <2>1. DriverTypeOK'
    BY <1>17 DEF ProbeFallback, DriverTypeOK, fsmVars, probeVars, historyVars
  <2>2. DataTypeOK'
    BY <1>17 DEF ProbeFallback, DataTypeOK, NoSidecar, Manifests
  <2> QED
    BY <2>1, <2>2
<1>18. CASE OpenPart
  <2>1. DriverTypeOK'
    BY <1>18, OutcomesTypeOK DEF OpenPart, DriverTypeOK, fsmVars, streamVars, probeVars, historyVars
  <2>2. {TRUE, FALSE} \subseteq BOOLEAN
    BY Zenon
  <2>3. DataTypeOK'
    BY <1>18, <2>2, FreshFile DEF OpenPart, DataTypeOK, confVars
  <2> QED
    BY <2>1, <2>3
<1>19. CASE FirstWrite
  <2>1. DriverTypeOK'
    BY <1>19 DEF FirstWrite, DriverTypeOK, fsmVars, streamVars, probeVars, historyVars
  <2>2. DataTypeOK'
    BY <1>19, PutFile, UnitsArePositive DEF FirstWrite, DriverTypeOK, DataTypeOK, confVars
  <2> QED
    BY <2>1, <2>2
<1>20. CASE FirstRecord
  <2>1. DriverTypeOK'
    BY <1>20 DEF FirstRecord, DriverTypeOK, fsmVars, streamVars, probeVars, historyVars
  <2>2. DataTypeOK'
    BY <1>20 DEF FirstRecord, AttemptInv, InRanged, DataTypeOK, Recorded, Persisted, Manifests, Mems,
         TaskStates, confVars
  <2> QED
    BY <2>1, <2>2
<1>21. CASE RequestResumed
  <2>1. {append', overtaken'} \subseteq BOOLEAN
    BY <1>21, Zenon DEF RequestResumed, TakeOver, DriverTypeOK
  <2> QED
    BY <1>21, <2>1 DEF RequestResumed, DriverTypeOK, DataTypeOK, Files, fsmVars, confVars, probeVars
<1>22. CASE RequestFromZero
  <2>1. overtaken' \in BOOLEAN
    BY <1>22, Zenon DEF RequestFromZero, TakeOver, DriverTypeOK
  <2>2. DriverTypeOK'
    BY <1>22, <2>1 DEF RequestFromZero, DriverTypeOK, fsmVars, probeVars, historyVars
  <2>3. DataTypeOK'
    BY <1>22, EmptyFileIsFresh DEF RequestFromZero, DataTypeOK, confVars
  <2> QED
    BY <2>2, <2>3
<1>23. CASE StreamUnit
  <2> DEFINE at == IF append THEN part.len + 1 ELSE pos + 1
             z  == IF at = pos + 1 THEN src ELSE 0
  <2>1. DriverTypeOK'
    BY <1>23 DEF StreamUnit, DriverTypeOK, fsmVars, probeVars, historyVars
  <2>2. at \in Nat /\ z \in {0} \cup Sizes
    BY DEF DriverTypeOK, DataTypeOK, Files
  <2>3. part' \in Files
    BY <1>23, <2>2, PutFile DEF StreamUnit, DataTypeOK
  <2>4. DataTypeOK'
    BY <1>23, <2>3 DEF StreamUnit, DataTypeOK, confVars
  <2> QED
    BY <2>1, <2>4
<1>24. CASE StreamTransient
  <2>1. CASE AttemptFatal
    BY <1>24, <2>1, OutcomesTypeOK DEF StreamTransient, DataTypeOK, confVars
  <2>2. CASE ~AttemptFatal
    <3>1. append' \in BOOLEAN
      BY <1>24, <2>2, Zenon DEF StreamTransient
    <3>2. DriverTypeOK'
      BY <1>24, <2>2, <3>1 DEF StreamTransient, DriverTypeOK, fsmVars, probeVars, historyVars
    <3> QED
      BY <1>24, <3>2 DEF StreamTransient, DataTypeOK, confVars
  <2> QED
    BY <2>1, <2>2
<1>25. CASE RefreshSame
  <2>1. DriverTypeOK'
    BY <1>25, AdvanceIsTotal DEF RefreshSame, DriverTypeOK, streamVars, probeVars, historyVars
  <2>2. DataTypeOK'
    BY <1>25 DEF RefreshSame, DataTypeOK
  <2> QED
    BY <2>1, <2>2
<1>26. CASE RefreshMismatch
  <2>1. DriverTypeOK'
    BY <1>26, AdvanceIsTotal DEF RefreshMismatch, DriverTypeOK, streamVars, probeVars, historyVars
  <2>2. DataTypeOK'
    BY <1>26, NoFileIsFresh DEF RefreshMismatch, DataTypeOK, NoSidecar, Manifests
  <2> QED
    BY <2>1, <2>2
<1>27. CASE RefreshError
  <2>1. DriverTypeOK'
    BY <1>27, AdvanceIsTotal DEF RefreshError, DriverTypeOK, streamVars, probeVars, historyVars
  <2>2. DataTypeOK'
    BY <1>27 DEF RefreshError, DataTypeOK, confVars
  <2> QED
    BY <2>1, <2>2
<1>28. CASE Rename
  <2>1. DriverTypeOK'
    BY <1>28 DEF Rename, DriverTypeOK, fsmVars, streamVars, probeVars, historyVars
  <2>2. DataTypeOK'
    BY <1>28, NoFileIsFresh DEF Rename, DataTypeOK, confVars
  <2> QED
    BY <2>1, <2>2
<1>29. CASE UnlinkSidecar
  <2>1. DriverTypeOK'
    BY <1>29 DEF UnlinkSidecar, DriverTypeOK, fsmVars, streamVars, probeVars, historyVars
  <2>2. DataTypeOK'
    BY <1>29 DEF UnlinkSidecar, DataTypeOK, NoSidecar, Manifests, confVars
  <2> QED
    BY <2>1, <2>2
<1>30. CASE \E s \in Slots, i \in Units : ChunkTask(s, i)
  <2> SUFFICES ASSUME NEW s \in Slots, NEW i \in Units, ChunkTask(s, i) PROVE TypeOK'
    BY <1>30
  <2>1. DriverTypeOK'
    BY DEF ChunkTask, ChunkWrite, ChunkFail, ChunkRecord, DriverTypeOK, fsmVars, streamVars, probeVars, historyVars
  <2>2. CASE ChunkWrite(s, i)
    BY <2>1, <2>2, PutFile, UnitsArePositive DEF ChunkWrite, DataTypeOK, Mems, TaskStates, confVars
  <2>3. CASE ChunkFail(s, i)
    BY <2>1, <2>3 DEF ChunkFail, DataTypeOK, TaskStates, confVars
  <2>4. CASE ChunkRecord(s, i)
    <3>1. mem' \in [Slots -> Mems] /\ Persisted(mem'[s]) \in Manifests
      BY <2>4 DEF ChunkRecord, DataTypeOK, Recorded, Persisted, Manifests, Mems
    <3>2. task' \in [Slots -> [Units -> TaskStates]]
      BY <2>4 DEF ChunkRecord, DataTypeOK, TaskStates
    <3> QED
      BY <2>1, <2>4, <3>1, <3>2 DEF ChunkRecord, DataTypeOK, confVars
  <2> QED
    BY <2>2, <2>3, <2>4 DEF ChunkTask
<1>31. CASE Abandon
  <2>1. {append', trunc', detached', overtaken'} \subseteq BOOLEAN
    BY <1>31, Zenon DEF Abandon, LeaveAttempt, DriverTypeOK
  <2>2. DriverTypeOK'
    BY <1>31, <2>1 DEF Abandon, LeaveAttempt, DriverTypeOK, fsmVars
  <2>3. DataTypeOK'
    BY <1>31, NoFileIsFresh DEF Abandon, DataTypeOK, confVars
  <2> QED
    BY <2>1, <2>2, <2>3
<1>32. CASE Crash
  <2>1. {append', trunc'} \subseteq BOOLEAN
    BY <1>32, Zenon DEF Crash
  <2>2. DriverTypeOK'
    BY <1>32, <2>1 DEF Crash, DriverTypeOK, fsmVars, historyVars
  <2>3. final' \in Files
    BY <1>32, Retagged DEF Crash, DataTypeOK, Files, TagStates
  <2>4. DataTypeOK'
    BY <1>32, <2>3 DEF Crash, DataTypeOK, TaskStates, Mems, confVars
  <2> QED
    BY <2>2, <2>4
<1>33. CASE EvictPart
  <2>1. DriverTypeOK'
    BY <1>33 DEF EvictPart, DriverTypeOK, fsmVars, streamVars, probeVars, historyVars
  <2>2. DataTypeOK'
    BY <1>33, NoFileIsFresh DEF EvictPart, DataTypeOK, confVars
  <2> QED
    BY <2>1, <2>2
<1>34. CASE EvictSidecar
  <2>1. DriverTypeOK'
    BY <1>34 DEF EvictSidecar, DriverTypeOK, fsmVars, streamVars, probeVars, historyVars
  <2>2. DataTypeOK'
    BY <1>34 DEF EvictSidecar, DataTypeOK, NoSidecar, Manifests, confVars
  <2> QED
    BY <2>1, <2>2
<1>40. CASE TagStep
  <2>1. DriverTypeOK'
    BY <1>40, TagSteps DEF DriverTypeOK, fsmVars, streamVars, probeVars, historyVars
  <2>2. DataTypeOK'
    BY <1>40, TagSteps, NoFileIsFresh, Retagged DEF DataTypeOK, confVars
  <2> QED
    BY <2>1, <2>2
<1>35. CASE UNCHANGED vars
  BY <1>35 DEF vars, DriverTypeOK, DataTypeOK, fsmVars, confVars, streamVars, probeVars, historyVars
<1> QED
  BY <1>1, <1>2, <1>3, <1>4, <1>5, <1>6, <1>7, <1>8, <1>9, <1>10, <1>11, <1>12, <1>13, <1>14, <1>15, <1>16, <1>17, <1>18, <1>19, <1>20, <1>21, <1>22, <1>23, <1>24, <1>25, <1>26, <1>27, <1>28, <1>29, <1>30, <1>31, <1>32, <1>33, <1>34, <1>35, <1>40 DEF Next, DriverStep, TagStep, RangedStep, StreamStep
-----------------------------------------------------------------------------
(* What an attempt works with.                                             *)

(* Every action keeps it; the types are those of the state before.         *)
LEMMA NextAttemptInv == TypeOK /\ AttemptInv /\ [Next]_vars => AttemptInv'
<1> SUFFICES ASSUME TypeOK, AttemptInv, [Next]_vars PROVE AttemptInv'
  OBVIOUS
<1> USE DEF AttemptInv, InRanged, Ranged
<1>1. CASE StartJob
  BY <1>1 DEF StartJob
<1>2. CASE ProbeFirstGap
  <2>1. PICK s \in Slots : slot' = s /\ mem' = [mem EXCEPT ![s] = ResumeManifest]
    BY <1>2 DEF ProbeFirstGap
  <2>2. mem'[slot'].size = want
    BY <2>1 DEF TypeOK, DataTypeOK, ResumeManifest
  <2>3. first' \in Units
    BY <1>2, GridInUnits DEF ProbeFirstGap, TypeOK, DataTypeOK
  <2> QED
    BY <1>2, <2>1, <2>2, <2>3 DEF ProbeFirstGap, confVars
<1>3. CASE ManifestComplete
  BY <1>3 DEF ManifestComplete, AttemptOk, AttemptFatal, LeaveAttempt, confVars
<1>4. CASE JoinAll
  BY <1>4 DEF JoinAll, AttemptOk, AttemptFatal, LeaveAttempt, confVars
<1>5. CASE AcceptByLength
  BY <1>5 DEF AcceptByLength, AttemptOk, LeaveAttempt, confVars
<1>6. CASE StreamComplete
  BY <1>6 DEF StreamComplete, AttemptOk, LeaveAttempt, confVars
<1>7. CASE ProbeExpired
  BY <1>7 DEF ProbeExpired, AttemptUrlExpired, LeaveAttempt, confVars
<1>8. CASE StreamExpired
  BY <1>8 DEF StreamExpired, AttemptUrlExpired, LeaveAttempt, confVars
<1>9. CASE ProbeFatal
  BY <1>9 DEF ProbeFatal, AttemptFatal, LeaveAttempt, confVars
<1>10. CASE FirstError
  BY <1>10 DEF FirstError, AttemptFatal, LeaveAttempt, confVars
<1>11. CASE JoinError
  BY <1>11 DEF JoinError, AttemptFatal, LeaveAttempt, confVars
<1>12. CASE RequestFatal
  BY <1>12 DEF RequestFatal, AttemptFatal, LeaveAttempt, confVars
<1>13. CASE ProbePartial
  BY <1>13 DEF ProbePartial, fsmVars, confVars, streamVars, probeVars, historyVars
<1>14. CASE ProbeFull
  BY <1>14 DEF ProbeFull, fsmVars, confVars, streamVars, probeVars, historyVars
<1>15. CASE EnterSingleStream
  BY <1>15 DEF EnterSingleStream, fsmVars, confVars, streamVars, probeVars, historyVars
<1>16. CASE FirstWrite
  BY <1>16 DEF FirstWrite, fsmVars, confVars, streamVars, probeVars, historyVars
<1>17. CASE RequestResumed
  BY <1>17 DEF RequestResumed, fsmVars, confVars, streamVars, probeVars, historyVars
<1>18. CASE RequestFromZero
  BY <1>18 DEF RequestFromZero, fsmVars, confVars, streamVars, probeVars, historyVars
<1>19. CASE StreamUnit
  BY <1>19 DEF StreamUnit, fsmVars, confVars, streamVars, probeVars, historyVars
<1>20. CASE Rename
  BY <1>20 DEF Rename, fsmVars, confVars, streamVars, probeVars, historyVars
<1>21. CASE RenameError
  BY <1>21 DEF RenameError, fsmVars, confVars, streamVars, probeVars, historyVars
<1>22. CASE UnlinkSidecar
  BY <1>22 DEF UnlinkSidecar, fsmVars, confVars, streamVars, probeVars, historyVars
<1>23. CASE EvictPart
  BY <1>23 DEF EvictPart, fsmVars, confVars, streamVars, probeVars, historyVars
<1>24. CASE EvictSidecar
  BY <1>24 DEF EvictSidecar, fsmVars, confVars, streamVars, probeVars, historyVars
<1>25. CASE ProbeFallback
  BY <1>25 DEF ProbeFallback, fsmVars, probeVars
<1>26. CASE OpenPart
  BY <1>26 DEF OpenPart, AttemptFatal, LeaveAttempt, fsmVars, confVars, streamVars, probeVars, historyVars
<1>27. CASE FirstRecord
  BY <1>27 DEF FirstRecord, Recorded, TypeOK, DataTypeOK, Mems, fsmVars, confVars, streamVars, probeVars, historyVars
<1>28. CASE StreamTransient
  BY <1>28 DEF StreamTransient, AttemptFatal, LeaveAttempt, fsmVars, confVars, streamVars, probeVars, historyVars
<1>29. CASE RefreshSame
  BY <1>29 DEF RefreshSame, fsmVars, confVars, streamVars, probeVars, historyVars
<1>30. CASE RefreshMismatch
  BY <1>30 DEF RefreshMismatch, fsmVars, confVars, streamVars, probeVars, historyVars
<1>31. CASE RefreshError
  BY <1>31 DEF RefreshError, fsmVars, confVars, streamVars, probeVars, historyVars
<1>32. CASE \E s \in Slots, i \in Units : ChunkTask(s, i)
  <2> SUFFICES ASSUME NEW s \in Slots, NEW i \in Units, ChunkTask(s, i) PROVE AttemptInv'
    BY <1>32
  <2>1. \A r \in Slots : mem'[r].size = mem[r].size
    BY DEF ChunkTask, ChunkWrite, ChunkFail, ChunkRecord, Recorded, TypeOK, DataTypeOK, Mems
  <2> QED
    BY <2>1 DEF ChunkTask, ChunkWrite, ChunkFail, ChunkRecord, fsmVars, confVars, streamVars, probeVars, historyVars
<1>33. CASE Abandon
  BY <1>33 DEF Abandon, LeaveAttempt, confVars
<1>34. CASE Crash
  BY <1>34 DEF Crash, confVars
<1>40. CASE TagStep
  BY <1>40, TagSteps DEF fsmVars, confVars, streamVars, probeVars
<1>35. CASE UNCHANGED vars
  BY <1>35 DEF vars, fsmVars, confVars, streamVars, probeVars, historyVars
<1> QED
  BY <1>1, <1>2, <1>3, <1>4, <1>5, <1>6, <1>7, <1>8, <1>9, <1>10, <1>11, <1>12, <1>13, <1>14, <1>15, <1>16, <1>17, <1>18, <1>19, <1>20, <1>21, <1>22, <1>23, <1>24, <1>25, <1>26, <1>27, <1>28, <1>29, <1>30, <1>31, <1>32, <1>33, <1>34, <1>35, <1>40 DEF Next, DriverStep, TagStep, RangedStep, StreamStep
-----------------------------------------------------------------------------
(* The manifest stays behind the bytes.                                    *)

(* When the attempt leaves nothing running behind, nothing changes but the *)
(* place of the driver.                                                    *)
LEMMA OutcomesSound ==
  ASSUME TypeOK, ManifestSound, LeaveAttempt, ~detached',
         pc' \in {"idle", "refresh", "rename"},
         UNCHANGED <<mem, task, sidecar, reported>>,
         part' = part \/ ~part'.exists
  PROVE  ManifestSound'
<1>1. \A s \in Slots : ~Live(s)
  <2>1. 0 \notin Slots
    BY DEF Slots
  <2> QED
    BY <2>1, Zenon DEF ManifestSound, LeaveAttempt
<1> QED
  BY <1>1 DEF ManifestSound, LeaveAttempt, Live, InRanged, Filled

(* Every action keeps the manifests behind the bytes when no chunk task    *)
(* has outlived its attempt, before and after, and one size is reported.   *)
LEMMA NextManifestSound ==
  ASSUME TypeOK, AttemptInv, ManifestSound, Clean, [Next]_vars, TypeOK', AttemptInv', Clean'
  PROVE  ManifestSound'
<1> USE DEF ManifestSound, InRanged, Live, Filled
<1>1. CASE StartJob
  BY <1>1 DEF StartJob, fsmVars, confVars, streamVars, probeVars, historyVars
<1>2. CASE ProbeFirstGap
  <2>1. PICK s \in Slots : /\ ~Live(s) /\ slot' = s
                          /\ mem' = [mem EXCEPT ![s] = ResumeManifest]
                          /\ task' = [task EXCEPT ![s] = [i \in Units |-> "none"]]
    BY <1>2 DEF ProbeFirstGap
  <2>2. /\ UNCHANGED <<want, part, sidecar, reported>>
        /\ trunc' = (sidecar.size # want) /\ pc = "attempt" /\ pc' = "probe"
    BY <1>2 DEF ProbeFirstGap, confVars
  <2>3. \A r \in Slots : ~Live(r)
    BY <2>2
  <2>4. \A r \in Slots : ~Live(r)'
    BY <2>1, <2>3 DEF TypeOK, DriverTypeOK, DataTypeOK
  <2>5. mem'[slot'].done = IF sidecar.size = want THEN sidecar.done ELSE {}
    BY <2>1 DEF ResumeManifest, TypeOK, DriverTypeOK, DataTypeOK
  <2>6. sidecar.done # {} => sidecar.size = want
    BY <2>2 DEF AttemptInv, Clean
  <2> QED
    BY <2>2, <2>4, <2>5, <2>6
<1>3. CASE ManifestComplete
  BY <1>3, OutcomesSound DEF ManifestComplete, AttemptOk, AttemptFatal, Clean, confVars
<1>4. CASE JoinAll
  BY <1>4, OutcomesSound DEF JoinAll, AttemptOk, AttemptFatal, Clean, confVars
<1>5. CASE AcceptByLength
  BY <1>5, OutcomesSound DEF AcceptByLength, AttemptOk, Clean, confVars
<1>6. CASE StreamComplete
  BY <1>6, OutcomesSound DEF StreamComplete, AttemptOk, Clean, confVars
<1>7. CASE ProbeExpired
  BY <1>7, OutcomesSound DEF ProbeExpired, AttemptUrlExpired, Clean, confVars
<1>8. CASE StreamExpired
  BY <1>8, OutcomesSound DEF StreamExpired, AttemptUrlExpired, Clean, confVars
<1>9. CASE ProbeFatal
  BY <1>9, OutcomesSound DEF ProbeFatal, AttemptFatal, Clean, confVars
<1>10. CASE FirstError
  BY <1>10, OutcomesSound DEF FirstError, AttemptFatal, Clean, confVars
<1>11. CASE JoinError
  BY <1>11, OutcomesSound DEF JoinError, AttemptFatal, Clean, confVars
<1>12. CASE RequestFatal
  BY <1>12, OutcomesSound DEF RequestFatal, AttemptFatal, Clean, confVars
<1>13. CASE ProbePartial
  BY <1>13 DEF ProbePartial, fsmVars, confVars, streamVars, probeVars, historyVars
<1>14. CASE RenameError
  BY <1>14 DEF RenameError, fsmVars, confVars, streamVars, probeVars, historyVars
<1>15. CASE ProbeFull
  BY <1>15, EmptyFileIsFresh DEF ProbeFull, NoSidecar, fsmVars, confVars, streamVars, probeVars, historyVars
<1>16. CASE ProbeFallback
  BY <1>16 DEF ProbeFallback, NoSidecar, fsmVars, confVars, streamVars, probeVars, historyVars
<1>17. CASE OpenPart
  <2>1. CASE AttemptFatal
    BY <1>17, <2>1, OutcomesSound DEF OpenPart, AttemptFatal, Clean, confVars
  <2>2. CASE trunc /\ part' = File(TRUE, want, TRUE) /\ pc' = "first"
    <3>1. part'.exists /\ sidecar'.done = {} /\ mem'[slot'].done = {}
      BY <1>17, <2>2 DEF File, OpenPart, TypeOK, DataTypeOK, probeVars
    <3> QED
      BY <1>17, <2>2, <3>1 DEF OpenPart, confVars, probeVars
  <2>3. CASE part.exists /\ part' = part /\ pc' = "first"
    BY <1>17, <2>3 DEF OpenPart, confVars, probeVars
  <2> QED
    BY <1>17, <2>1, <2>2, <2>3 DEF OpenPart
<1>18. CASE FirstWrite
  <2>1. src \in Sizes /\ first \in Units
    BY <1>18 DEF FirstWrite, AttemptInv, DataTypeOK, TypeOK
  <2> HIDE DEF Filled
  <2>2. part'.exists /\ Filled(part') = Filled(part) \cup {first}
    BY <1>18, <2>1, PutFile, UnitsArePositive DEF FirstWrite, TypeOK, DataTypeOK
  <2> QED
    BY <1>18, <2>2 DEF FirstWrite, fsmVars, confVars, streamVars, probeVars, historyVars
<1>19. CASE FirstRecord
  <2>1. slot \in Slots /\ (part.exists => first \in Filled(part))
    BY <1>19 DEF FirstRecord, AttemptInv
  <2>2. mem'[slot].done = mem[slot].done \cup {first} /\ mem'[slot].size = mem[slot].size
    BY <1>19, <2>1 DEF FirstRecord, Recorded, TypeOK, DataTypeOK, Mems
  <2>3. sidecar'.done = mem'[slot].done /\ sidecar'.size = want
    BY <1>19, <2>2 DEF FirstRecord, Persisted, AttemptInv
  <2>4. want \in reported
    BY <1>19 DEF FirstRecord, AttemptInv
  <2>5. \A r \in Slots : ~Live(r)
    BY <1>19 DEF FirstRecord
  <2>6. \A r \in Slots : Live(r)' => r = slot
    BY <1>19, <2>5 DEF FirstRecord, TypeOK, DataTypeOK
  <2>7. \A i \in Units : task'[slot][i] # "record"
    BY <1>19, <2>1 DEF FirstRecord, TypeOK, DataTypeOK
  <2> HIDE DEF Filled
  <2> QED
    BY <1>19, <2>1, <2>2, <2>3, <2>4, <2>6, <2>7 DEF FirstRecord, fsmVars, confVars, streamVars, probeVars, historyVars
<1>20. CASE EnterSingleStream
  BY <1>20 DEF EnterSingleStream, AttemptInv, Clean, Ranged, TypeOK, DriverTypeOK, DataTypeOK, fsmVars, confVars, streamVars, probeVars, historyVars
<1>21. CASE RequestResumed
  BY <1>21 DEF RequestResumed, TakeOver, Clean, fsmVars, confVars, streamVars, probeVars, historyVars
<1>22. CASE RequestFromZero
  BY <1>22, EmptyFileIsFresh DEF RequestFromZero, TakeOver, Clean, fsmVars, confVars, streamVars, probeVars, historyVars
<1>23. CASE StreamUnit
  BY <1>23 DEF StreamUnit, fsmVars, confVars, streamVars, probeVars, historyVars
<1>24. CASE StreamTransient
  BY <1>24, OutcomesSound DEF StreamTransient, AttemptFatal, Clean, fsmVars, confVars, streamVars, probeVars, historyVars
<1>25. CASE RefreshSame
  BY <1>25 DEF RefreshSame, fsmVars, confVars, streamVars, probeVars, historyVars
<1>26. CASE RefreshMismatch
  BY <1>26, NoFileIsFresh DEF RefreshMismatch, NoSidecar, fsmVars, confVars, streamVars, probeVars, historyVars
<1>27. CASE RefreshError
  BY <1>27 DEF RefreshError, fsmVars, confVars, streamVars, probeVars, historyVars
<1>28. CASE Rename
  BY <1>28, NoFileIsFresh DEF Rename, fsmVars, confVars, streamVars, probeVars, historyVars
<1>29. CASE UnlinkSidecar
  BY <1>29 DEF UnlinkSidecar, NoSidecar, fsmVars, confVars, streamVars, probeVars, historyVars
<1>30. CASE \E s \in Slots, i \in Units : ChunkTask(s, i)
  <2> SUFFICES ASSUME NEW s \in Slots, NEW i \in Units, ChunkTask(s, i) PROVE ManifestSound'
    BY <1>30
  <2>1. s = slot /\ pc = "join"
    BY DEF ChunkTask, ChunkWrite, ChunkFail, ChunkRecord
  <2>2. CASE ChunkWrite(s, i)
    <3>1. mem[s].src \in Sizes
      BY <2>2, UnitsArePositive DEF ChunkWrite, TypeOK, DataTypeOK, Mems
    <3> HIDE DEF Filled
    <3>2. part'.exists /\ Filled(part') = Filled(part) \cup {i}
      BY <2>2, <3>1, PutFile, UnitsArePositive DEF ChunkWrite, TypeOK, DataTypeOK
    <3>3. task' = [task EXCEPT ![slot][i] = "record"] /\ slot \in Slots
      BY <2>1, <2>2 DEF ChunkWrite
    <3>4. \A r \in Slots : Live(r)' => r = slot
      BY <2>1, <3>3 DEF TypeOK, DataTypeOK
    <3>5. {k \in Units : task'[slot][k] = "record"}
            \subseteq {k \in Units : task[slot][k] = "record"} \cup {i}
      BY <3>3 DEF TypeOK, DataTypeOK
    <3> HIDE DEF Live
    <3> QED
      BY <2>1, <2>2, <3>2, <3>4, <3>5 DEF ChunkWrite, fsmVars, confVars, streamVars, probeVars, historyVars
  <2>3. CASE ChunkFail(s, i)
    BY <2>1, <2>3 DEF ChunkFail, TypeOK, DriverTypeOK, DataTypeOK, fsmVars, confVars, streamVars, probeVars, historyVars
  <2>4. CASE ChunkRecord(s, i)
    <3>1. slot \in Slots /\ (part.exists => i \in Filled(part))
      BY <2>1, <2>4 DEF ChunkRecord
    <3>2. mem'[slot].done = mem[slot].done \cup {i} /\ mem'[slot].size = want
      BY <2>1, <2>4 DEF ChunkRecord, Recorded, AttemptInv, TypeOK, DataTypeOK, Mems
    <3>3. \/ sidecar' = sidecar
          \/ sidecar'.done = mem'[slot].done /\ sidecar'.size = want
      BY <2>1, <2>4, <3>2 DEF ChunkRecord, Persisted
    <3>4. want \in reported
      BY <2>1 DEF AttemptInv
    <3>5. /\ \A r \in Slots : Live(r)' => Live(r)
          /\ \A k \in Units : task'[slot][k] = "record" => task[slot][k] = "record"
      BY <2>1, <2>4 DEF ChunkRecord, TypeOK, DataTypeOK
    <3> HIDE DEF Filled, Live
    <3> QED
      BY <2>1, <2>4, <3>1, <3>2, <3>3, <3>4, <3>5 DEF ChunkRecord, fsmVars, confVars, streamVars, probeVars, historyVars
  <2> QED
    BY <2>2, <2>3, <2>4 DEF ChunkTask
<1>31. CASE Abandon
  BY <1>31, OutcomesSound, NoFileIsFresh DEF Abandon, Clean, confVars
<1>32. CASE Crash
  BY <1>32 DEF Crash, confVars
<1>33. CASE EvictPart
  BY <1>33, NoFileIsFresh DEF EvictPart, fsmVars, confVars, streamVars, probeVars, historyVars
<1>34. CASE EvictSidecar
  BY <1>34 DEF EvictSidecar, NoSidecar, fsmVars, confVars, streamVars, probeVars, historyVars
<1>40. CASE TagStep
  BY <1>40, TagSteps DEF fsmVars, confVars, streamVars, probeVars
<1>35. CASE UNCHANGED vars
  BY <1>35 DEF vars, fsmVars, confVars, streamVars, probeVars, historyVars
<1> QED
  BY <1>1, <1>2, <1>3, <1>4, <1>5, <1>6, <1>7, <1>8, <1>9, <1>10, <1>11, <1>12, <1>13, <1>14, <1>15, <1>16, <1>17, <1>18, <1>19, <1>20, <1>21, <1>22, <1>23, <1>24, <1>25, <1>26, <1>27, <1>28, <1>29, <1>30, <1>31, <1>32, <1>33, <1>34, <1>35, <1>40 DEF Next, DriverStep, TagStep, RangedStep, StreamStep

(* The strengthened invariant holds initially, every step keeps it, and it *)
(* implies the property.                                                   *)
LEMMA InitIInv == Init => IInv
<1> SUFFICES ASSUME Init PROVE IInv
  OBVIOUS
<1>1. AttemptInv
  BY DEF Init, AttemptInv, InRanged
<1>2. ManifestSound
  BY NoFileIsFresh DEF Init, ManifestSound, InRanged, Live, NoSidecar
<1> QED
  BY <1>1, <1>2, InitTypeOK DEF IInv

(* The histories only grow: what is clean now was clean before.            *)
LEMMA LeavingGrows ==
  ASSUME LeaveAttempt
  PROVE  (detached => detached') /\ (overtaken => overtaken')
BY Zenon DEF LeaveAttempt

LEMMA TakingOverGrows ==
  ASSUME TakeOver
  PROVE  overtaken => overtaken'
BY Zenon DEF TakeOver

LEMMA HistoryGrows ==
  ASSUME [Next]_vars
  PROVE  reported \subseteq reported' /\ (detached => detached') /\ (overtaken => overtaken') /\ (Clean' => Clean)
<1> SUFFICES reported \subseteq reported' /\ (detached => detached') /\ (overtaken => overtaken')
  BY DEF Clean
<1> USE DEF fsmVars, confVars, streamVars, probeVars, historyVars
<1>1. CASE LeaveAttempt /\ UNCHANGED reported
  BY <1>1, LeavingGrows
<1>2. CASE UNCHANGED <<reported, historyVars>>
  BY <1>2
<1>3. CASE RequestResumed \/ RequestFromZero
  BY <1>3, TakingOverGrows DEF RequestResumed, RequestFromZero
<1>4. CASE StartJob \/ RefreshMismatch
  BY <1>4 DEF StartJob, RefreshMismatch
<1>5. CASE ManifestComplete \/ JoinAll \/ JoinError \/ ProbeExpired \/ ProbeFatal \/ FirstError
  BY <1>1, <1>5 DEF ManifestComplete, JoinAll, JoinError, ProbeExpired, ProbeFatal, FirstError,
     AttemptOk, AttemptFatal, AttemptUrlExpired
<1>6. CASE AcceptByLength \/ StreamComplete \/ StreamExpired \/ RequestFatal
  BY <1>1, <1>6 DEF AcceptByLength, StreamComplete, StreamExpired, RequestFatal,
     AttemptOk, AttemptFatal, AttemptUrlExpired
<1>7. CASE OpenPart \/ StreamTransient \/ Abandon
  BY <1>1, <1>2, <1>7 DEF OpenPart, StreamTransient, Abandon, AttemptFatal
<1>8. CASE ProbeFirstGap \/ ProbePartial \/ ProbeFull \/ ProbeFallback \/ FirstWrite \/ FirstRecord
  BY <1>2, <1>8 DEF ProbeFirstGap, ProbePartial, ProbeFull, ProbeFallback, FirstWrite, FirstRecord
<1>9. CASE EnterSingleStream \/ StreamUnit \/ RefreshSame \/ RefreshError
  BY <1>2, <1>9 DEF EnterSingleStream, StreamUnit, RefreshSame, RefreshError
<1>10. CASE Rename \/ RenameError \/ UnlinkSidecar \/ TagBegin \/ TagSkip \/ TagReturn
  BY <1>2, <1>10 DEF Rename, RenameError, UnlinkSidecar, TagBegin, TagSkip, TagReturn
<1>11. CASE Crash \/ EvictPart \/ EvictSidecar \/ EvictFinal \/ TagEnd \/ TagCached
  BY <1>2, <1>11 DEF Crash, EvictPart, EvictSidecar, EvictFinal, TagEnd, TagCached
<1>12. CASE \E s \in Slots, i \in Units : ChunkTask(s, i)
  BY <1>2, <1>12 DEF ChunkTask, ChunkWrite, ChunkFail, ChunkRecord
<1>13. CASE UNCHANGED vars
  BY <1>2, <1>13 DEF vars
<1> QED
  BY <1>3, <1>4, <1>5, <1>6, <1>7, <1>8, <1>9, <1>10, <1>11, <1>12, <1>13
     DEF Next, DriverStep, RangedStep, StreamStep

(* The inductive step, over every action of the job, of its chunk tasks    *)
(* and of the environment.                                                 *)
LEMMA NextIInv == IInv /\ [Next]_vars => IInv'
<1> SUFFICES ASSUME IInv, [Next]_vars PROVE IInv'
  OBVIOUS
<1>1. TypeOK' /\ AttemptInv'
  BY NextTypeOK, NextAttemptInv DEF IInv
<1>2. Clean' => Clean
  BY HistoryGrows
<1>3. ASSUME Clean' PROVE ManifestSound'
  BY <1>1, <1>2, <1>3, NextManifestSound DEF IInv
<1> QED
  BY <1>1, <1>3 DEF IInv

(* Every variable of the job keeps its type, and the refresh count stays   *)
(* within url_refresh_budget.                                              *)
THEOREM TypeCorrect == Spec => []TypeOK
<1>1. IInv => TypeOK
  BY DEF IInv
<1> QED
  BY InitIInv, NextIInv, <1>1, PTL DEF Spec

(* manifest.rs:11: without orphaned chunk tasks and size changes, the      *)
(* sidecar never claims a chunk that .part does not hold, for any number   *)
(* of chunks, attempts, retries, refreshes, restarts and crashes.          *)
THEOREM ManifestStaysBehind == Spec => []ManifestNeverAhead
<1>1. IInv => ManifestNeverAhead
  BY DEF IInv, ManifestSound, ManifestNeverAhead
<1> QED
  BY InitIInv, NextIInv, <1>1, PTL DEF Spec

-----------------------------------------------------------------------------
(* The FSM follows the driver.                                             *)

(* job.rs:164-305: an attempt runs in Downloading only, a refresh in       *)
(* Refreshing, only Assembled is published, and only a refresh that fails  *)
(* can leave the table of transitions.                                     *)
THEOREM FsmAgrees == Spec => []FsmFollowsDriver
<1>1. Init => FsmFollowsDriver
  BY NoFileIsFresh DEF Init, FsmFollowsDriver
<1>2. FsmFollowsDriver /\ TypeOK /\ [Next]_vars => FsmFollowsDriver'
  <2> SUFFICES ASSUME FsmFollowsDriver, TypeOK, [Next]_vars PROVE FsmFollowsDriver'
    OBVIOUS
  <2> USE NoFileIsFresh DEF FsmFollowsDriver, TypeOK, DriverTypeOK, Advance, LeaveAttempt,
                            fsmVars, confVars, streamVars, probeVars, historyVars
  <2>1. CASE StartJob
    BY <2>1 DEF StartJob
  <2>2. CASE ProbeFirstGap
    BY <2>2 DEF ProbeFirstGap
  <2>3. CASE ProbePartial
    BY <2>3 DEF ProbePartial
  <2>4. CASE ProbeFull
    BY <2>4 DEF ProbeFull
  <2>5. CASE ProbeFallback
    BY <2>5 DEF ProbeFallback
  <2>6. CASE FirstWrite
    BY <2>6 DEF FirstWrite
  <2>7. CASE FirstRecord
    BY <2>7 DEF FirstRecord
  <2>8. CASE EnterSingleStream
    BY <2>8 DEF EnterSingleStream
  <2>9. CASE RequestResumed
    BY <2>9 DEF RequestResumed
  <2>10. CASE RequestFromZero
    BY <2>10 DEF RequestFromZero
  <2>11. CASE StreamUnit
    BY <2>11 DEF StreamUnit
  <2>12. CASE RefreshSame
    BY <2>12 DEF RefreshSame
  <2>13. CASE RefreshMismatch
    BY <2>13 DEF RefreshMismatch
  <2>14. CASE RefreshError
    BY <2>14 DEF RefreshError
  <2>15. CASE Rename
    BY <2>15 DEF Rename
  <2>16. CASE RenameError
    BY <2>16 DEF RenameError
  <2>17. CASE UnlinkSidecar
    BY <2>17 DEF UnlinkSidecar
  <2>18. CASE Abandon
    BY <2>18 DEF Abandon
  <2>19. CASE Crash
    BY <2>19 DEF Crash
  <2>20. CASE EvictPart
    BY <2>20 DEF EvictPart
  <2>21. CASE EvictSidecar
    BY <2>21 DEF EvictSidecar
  <2>22. CASE ManifestComplete
    BY <2>22 DEF ManifestComplete, AttemptOk, AttemptFatal
  <2>23. CASE JoinAll
    BY <2>23 DEF JoinAll, AttemptOk, AttemptFatal
  <2>24. CASE AcceptByLength
    BY <2>24 DEF AcceptByLength, AttemptOk
  <2>25. CASE StreamComplete
    BY <2>25 DEF StreamComplete, AttemptOk
  <2>26. CASE ProbeExpired
    BY <2>26 DEF ProbeExpired, AttemptUrlExpired
  <2>27. CASE StreamExpired
    BY <2>27 DEF StreamExpired, AttemptUrlExpired
  <2>28. CASE ProbeFatal
    BY <2>28 DEF ProbeFatal, AttemptFatal
  <2>29. CASE FirstError
    BY <2>29 DEF FirstError, AttemptFatal
  <2>30. CASE JoinError
    BY <2>30 DEF JoinError, AttemptFatal
  <2>31. CASE RequestFatal
    BY <2>31 DEF RequestFatal, AttemptFatal
  <2>32. CASE OpenPart
    BY <2>32 DEF OpenPart, AttemptFatal
  <2>33. CASE StreamTransient
    BY <2>33 DEF StreamTransient, AttemptFatal
  <2>34. CASE \E s \in Slots, i \in Units : ChunkTask(s, i)
    BY <2>34 DEF ChunkTask, ChunkWrite, ChunkFail, ChunkRecord
  <2>36. CASE TagStep
    BY <2>36 DEF TagStep, TagBegin, TagSkip, TagEnd, TagReturn, TagCached, EvictFinal, DataTypeOK, Files
  <2>35. CASE UNCHANGED vars
    BY <2>35 DEF vars
  <2> QED
    BY <2>1, <2>2, <2>3, <2>4, <2>5, <2>6, <2>7, <2>8, <2>9, <2>10,
       <2>11, <2>12, <2>13, <2>14, <2>15, <2>16, <2>17, <2>18, <2>19,
       <2>20, <2>21, <2>22, <2>23, <2>24, <2>25, <2>26, <2>27, <2>28,
       <2>29, <2>30, <2>31, <2>32, <2>33, <2>34, <2>35, <2>36 DEF Next, DriverStep, TagStep, RangedStep, StreamStep
<1> QED
  BY <1>1, <1>2, TypeCorrect, PTL DEF Spec
-----------------------------------------------------------------------------
(* What is published is whole.                                             *)

(* Where the job is, and what it then has at hand.                         *)
Placed ==
  /\ want \in reported \/ (want = 0 /\ reported = {})
  /\ pc \in {"idle", "attempt", "refresh", "rename", "unlink", "tag", "tagging"} => slot = 0
  /\ pc \notin {"idle", "rename", "unlink", "tag", "tagging"} => how = "none"
  /\ pc \notin {"idle", "unlink", "tag", "tagging"} => ~final.exists
  /\ InRanged => first \in 1..want
  /\ part.tags = "none" /\ (~final.exists => final.tags = "none")

(* Every byte is of a resource the API has reported.                       *)
Sourced ==
  /\ \A i \in Units : part.bytes[i] \in {0} \cup reported
  /\ \A s \in Slots : mem[s].src \in {0} \cup reported
  /\ ~part.exists => part.len = 0

(* .part has a hole only where a ranged attempt has laid it out.           *)
PartSound ==
  /\ part.len <= want
  /\ 1..part.len \subseteq Filled(part) \/ (part.laid /\ part.len = want)

(* A sidecar, and an attempt that has opened .part or resumes it, speak of *)
(* a preallocated file; a chunk is recorded or a task answers for it.      *)
Grid ==
  /\ sidecar.size # 0 => sidecar.done # {}
  /\ part.exists /\ (\/ sidecar.size # 0
                     \/ pc \in {"probe", "open"} /\ ~trunc
                     \/ pc \in {"first", "record", "join"})
       => part.len = want /\ part.laid
  /\ pc = "join" =>
       \A i \in 1..want : i \in mem[slot].done \/ task[slot][i] \in {"fetch", "record", "err"}

(* A stream counts what .part holds, from the first byte on.               *)
StreamSound == pc = "stream" /\ part.exists => part.len = pos /\ 1..pos \subseteq Filled(part)

(* What is about to be renamed is whole.                                   *)
ReadyToPublish == pc = "rename" /\ part.exists /\ how # "preallocated" => Whole(part)

(* What was published was whole, whatever tags are being written into it.  *)
FinalSound == final.exists /\ how # "preallocated" => Whole(final)

ContentSound ==
  PartSound /\ Grid /\ StreamSound /\ ReadyToPublish /\ FinalSound /\ ResumeWithinWritten

ContentInv == IInv /\ Placed /\ Sourced /\ (Clean => ContentSound)

(* What a fresh file and one that has been written to hold.                *)
LEMMA FreshBytes ==
  ASSUME NEW n \in Nat
  PROVE  /\ File(TRUE, n, TRUE).exists /\ File(TRUE, n, TRUE).len = n /\ File(TRUE, n, TRUE).laid
         /\ \A i \in Units : File(TRUE, n, TRUE).bytes[i] = 0
BY DEF File

LEMMA EmptyBytes == EmptyFile.exists /\ EmptyFile.len = 0 /\ \A i \in Units : EmptyFile.bytes[i] = 0
BY DEF EmptyFile, File

LEMMA NoBytes == NoFile.len = 0 /\ \A i \in Units : NoFile.bytes[i] = 0
BY DEF NoFile, File

LEMMA PutBytes ==
  ASSUME NEW p \in Files, NEW i \in Nat, NEW z \in {0} \cup Sizes
  PROVE  /\ Put(p, i, z).len = IF i > p.len THEN i ELSE p.len
         /\ Put(p, i, z).laid = p.laid
         /\ \A k \in Units : Put(p, i, z).bytes[k] = IF k = i THEN z ELSE p.bytes[k]
BY DEF Put

(* Whatever is written to .part has no tags.                               *)
LEMMA Untagged ==
  /\ NoFile.tags = "none" /\ EmptyFile.tags = "none"
  /\ \A n, l : File(TRUE, n, l).tags = "none"
  /\ \A p, i, z : Put(p, i, z).tags = p.tags
BY DEF NoFile, EmptyFile, File, Put

(* What each action that opens or writes .part leaves in it.               *)
Fresh(n) == part'.exists /\ part'.len = n /\ \A i \in Units : part'.bytes[i] = 0
Writes(i, z) ==
  /\ part.exists /\ part'.exists /\ part'.laid = part.laid
  /\ part'.len = IF i > part.len THEN i ELSE part.len
  /\ \A k \in Units : part'.bytes[k] = IF k = i THEN z ELSE part.bytes[k]

LEMMA StartsFresh == ASSUME ProbeFull \/ RequestFromZero PROVE Fresh(0)
<1>1. part' = EmptyFile
  BY DEF ProbeFull, RequestFromZero
<1> QED
  BY <1>1, EmptyBytes DEF Fresh

LEMMA OpensPart ==
  ASSUME TypeOK, OpenPart
  PROVE  \/ trunc /\ Fresh(want) /\ part'.laid /\ pc' = "first"
         \/ part.exists /\ part' = part /\ pc' = "first" /\ ~trunc
         \/ part' = part /\ AttemptFatal
<1>1. CASE trunc /\ part' = File(TRUE, want, TRUE) /\ pc' = "first"
  BY <1>1, FreshBytes DEF Fresh, TypeOK, DataTypeOK
<1>2. CASE trunc
  BY <1>1, <1>2 DEF OpenPart
<1>3. CASE ~trunc /\ part.exists
  BY <1>3 DEF OpenPart
<1>4. CASE ~trunc /\ ~part.exists
  BY <1>4 DEF OpenPart
<1> QED
  BY <1>2, <1>3, <1>4 DEF TypeOK, DriverTypeOK, DataTypeOK, Files

LEMMA WritesFirst ==
  ASSUME TypeOK, AttemptInv, FirstWrite
  PROVE  Writes(first, src) /\ first \in Units /\ first \in Nat
<1>1. part.exists /\ part' = Put(part, first, src) /\ first \in Units
  BY DEF FirstWrite, AttemptInv, InRanged
<1>2. part \in Files /\ src \in {0} \cup Sizes /\ first \in Nat
  BY <1>1, UnitsArePositive DEF TypeOK, DataTypeOK
<1>3. part'.exists
  BY <1>1 DEF Put
<1> QED
  BY <1>1, <1>2, <1>3, PutBytes DEF Writes

LEMMA WritesChunk ==
  ASSUME TypeOK, NEW s \in Slots, NEW i \in Units, ChunkWrite(s, i)
  PROVE  Writes(i, mem[s].src) /\ i \in Nat
<1> DEFINE z == mem[s].src
<1>1. part.exists /\ part' = Put(part, i, z)
  BY DEF ChunkWrite
<1>2. part \in Files /\ z \in {0} \cup Sizes /\ i \in Nat
  BY UnitsArePositive DEF TypeOK, DataTypeOK, Mems
<1>3. part'.exists
  BY <1>1 DEF Put
<1>4. Writes(i, z)
  <2> HIDE DEF z
  <2> QED
    BY <1>1, <1>2, <1>3, PutBytes DEF Writes
<1> QED
  BY <1>2, <1>4

LEMMA WritesUnit ==
  ASSUME TypeOK, StreamUnit
  PROVE  \/ ~part.exists /\ part' = part
         \/ append /\ Writes(part.len + 1, IF part.len = pos THEN src ELSE 0)
         \/ ~append /\ Writes(pos + 1, src)
<1>1. part \in Files /\ pos \in Nat /\ part.len \in Nat /\ src \in {0} \cup Sizes
  BY DEF TypeOK, DriverTypeOK, DataTypeOK, Files
<1>2. CASE ~part.exists
  BY <1>2 DEF StreamUnit
<1>3. CASE part.exists /\ append
  <2>1. part' = Put(part, part.len + 1, IF part.len = pos THEN src ELSE 0)
    BY <1>1, <1>3 DEF StreamUnit
  <2>2. part'.exists
    BY <1>3, <2>1 DEF Put
  <2>3. (IF part.len = pos THEN src ELSE 0) \in {0} \cup Sizes
    BY <1>1
  <2> QED
    <3> DEFINE z == IF part.len = pos THEN src ELSE 0
    <3>1. z \in {0} \cup Sizes /\ part.len + 1 \in Nat /\ part' = Put(part, part.len + 1, z)
      BY <1>1, <2>1, <2>3
    <3> HIDE DEF z
    <3>2. Writes(part.len + 1, z)
      BY <1>1, <1>3, <2>2, <3>1, PutBytes DEF Writes
    <3> QED
      BY <1>3, <3>2 DEF z
<1>4. CASE part.exists /\ ~append
  <2>1. part' = Put(part, pos + 1, src)
    BY <1>1, <1>4 DEF StreamUnit
  <2>2. part'.exists
    BY <1>4, <2>1 DEF Put
  <2> QED
    BY <1>1, <1>4, <2>1, <2>2, PutBytes DEF Writes
<1> QED
  BY <1>2, <1>3, <1>4 DEF TypeOK, DriverTypeOK, DataTypeOK, Files

LEMMA NextPlaced == TypeOK /\ AttemptInv /\ Placed /\ [Next]_vars => Placed'
<1> SUFFICES ASSUME TypeOK, AttemptInv, Placed, [Next]_vars PROVE Placed'
  OBVIOUS
<1> USE NoFileIsFresh, Untagged DEF Placed, AttemptInv, InRanged, LeaveAttempt, fsmVars, confVars, streamVars, probeVars, historyVars
<1>1. CASE StartJob
  BY <1>1 DEF StartJob
<1>2. CASE ProbeFirstGap
  BY <1>2 DEF ProbeFirstGap
<1>3. CASE ManifestComplete
  BY <1>3 DEF ManifestComplete, AttemptOk, AttemptFatal
<1>4. CASE ProbePartial
  BY <1>4 DEF ProbePartial
<1>5. CASE ProbeExpired
  BY <1>5 DEF ProbeExpired, AttemptUrlExpired
<1>6. CASE ProbeFatal
  BY <1>6 DEF ProbeFatal, AttemptFatal
<1>7. CASE ProbeFull
  BY <1>7 DEF ProbeFull
<1>8. CASE ProbeFallback
  BY <1>8 DEF ProbeFallback
<1>9. CASE OpenPart
  <2>1. CASE trunc \/ part.exists
    <3>1. part'.tags = "none" /\ UNCHANGED <<fsmVars, streamVars, probeVars, confVars, final>> /\ pc' = "first"
      BY <1>9, <2>1 DEF OpenPart
    <3> QED
      BY <1>9, <3>1 DEF OpenPart
  <2>2. CASE ~(trunc \/ part.exists)
    BY <1>9, <2>2 DEF OpenPart, AttemptFatal
  <2> QED
    BY <2>1, <2>2
<1>10. CASE FirstError
  BY <1>10 DEF FirstError, AttemptFatal
<1>11. CASE FirstWrite
  BY <1>11 DEF FirstWrite
<1>12. CASE FirstRecord
  BY <1>12 DEF FirstRecord
<1>13. CASE JoinAll
  BY <1>13 DEF JoinAll, AttemptOk, AttemptFatal
<1>14. CASE JoinError
  BY <1>14 DEF JoinError, AttemptFatal
<1>15. CASE EnterSingleStream
  BY <1>15 DEF EnterSingleStream
<1>16. CASE AcceptByLength
  BY <1>16 DEF AcceptByLength, AttemptOk
<1>17. CASE RequestResumed
  BY <1>17 DEF RequestResumed
<1>18. CASE RequestFromZero
  BY <1>18 DEF RequestFromZero
<1>19. CASE StreamExpired
  BY <1>19 DEF StreamExpired, AttemptUrlExpired
<1>20. CASE RequestFatal
  BY <1>20 DEF RequestFatal, AttemptFatal
<1>21. CASE StreamUnit
  BY <1>21 DEF StreamUnit
<1>22. CASE StreamComplete
  BY <1>22 DEF StreamComplete, AttemptOk
<1>23. CASE StreamTransient
  BY <1>23 DEF StreamTransient, AttemptFatal
<1>24. CASE RefreshSame
  BY <1>24 DEF RefreshSame
<1>25. CASE RefreshMismatch
  BY <1>25 DEF RefreshMismatch
<1>26. CASE RefreshError
  BY <1>26 DEF RefreshError
<1>27. CASE Rename
  BY <1>27 DEF Rename
<1>28. CASE RenameError
  BY <1>28 DEF RenameError
<1>29. CASE UnlinkSidecar
  BY <1>29 DEF UnlinkSidecar
<1>30. CASE Abandon
  BY <1>30 DEF Abandon
<1>31. CASE Crash
  BY <1>31, Retagged DEF Crash, TypeOK, DataTypeOK, Files, TagStates
<1>32. CASE EvictPart
  BY <1>32 DEF EvictPart
<1>33. CASE EvictSidecar
  BY <1>33 DEF EvictSidecar
<1>34. CASE \E s \in Slots, i \in Units : ChunkTask(s, i)
  BY <1>34 DEF ChunkTask, ChunkWrite, ChunkFail, ChunkRecord
<1>40. CASE TagStep
  <2>1. UNCHANGED <<want, reported, slot, how, first, part>>
        /\ (pc' = pc \/ (pc \in {"tag", "tagging"} /\ pc' \in {"idle", "tagging"}))
    BY <1>40, TagSteps
  <2>2. CASE TagSkip \/ TagReturn
    BY <2>1, <2>2 DEF TagSkip, TagReturn
  <2>3. CASE EvictFinal
    BY <2>1, <2>3 DEF EvictFinal
  <2>4. CASE TagBegin \/ TagCached \/ TagEnd
    <3>1. PICK t \in TagStates : final' = [final EXCEPT !.tags = t]
      BY <2>4 DEF TagBegin, TagCached, TagEnd, TagStates
    <3>2. final'.exists = final.exists
      BY <3>1, Retagged DEF TypeOK, DataTypeOK
    <3>3. final.exists
      BY <2>4 DEF TagBegin, TagCached, TagEnd
    <3> QED
      BY <2>1, <3>2, <3>3
  <2> QED
    BY <1>40, <2>2, <2>3, <2>4 DEF TagStep
<1>35. CASE UNCHANGED vars
  BY <1>35 DEF vars
<1> QED
  BY <1>1, <1>2, <1>3, <1>4, <1>5, <1>6, <1>7, <1>8, <1>9, <1>10, <1>11, <1>12,
     <1>13, <1>14, <1>15, <1>16, <1>17, <1>18, <1>19, <1>20, <1>21, <1>22, <1>23,
     <1>24, <1>25, <1>26, <1>27, <1>28, <1>29, <1>30, <1>31, <1>32, <1>33, <1>34,
     <1>35, <1>40
  DEF Next, DriverStep, TagStep, RangedStep, StreamStep

LEMMA NextSourced == TypeOK /\ AttemptInv /\ Sourced /\ [Next]_vars => Sourced'
<1> SUFFICES ASSUME TypeOK, AttemptInv, Sourced, [Next]_vars PROVE Sourced'
  OBVIOUS
<1> USE NoFileIsFresh, NoBytes DEF
         Sourced, AttemptInv, InRanged, TypeOK, DataTypeOK, LeaveAttempt, fsmVars, confVars, streamVars, probeVars, historyVars
<1>1. CASE StartJob
  BY <1>1 DEF StartJob
<1>2. CASE ProbeFirstGap
  <2>1. UNCHANGED <<part, reported>>
    BY <1>2 DEF ProbeFirstGap
  <2>2. PICK s \in Slots : mem' = [mem EXCEPT ![s] = ResumeManifest]
    BY <1>2 DEF ProbeFirstGap
  <2>3. ResumeManifest.src = src /\ src \in reported
    BY <1>2 DEF ProbeFirstGap, ResumeManifest
  <2> QED
    BY <2>1, <2>2, <2>3
<1>3. CASE ManifestComplete
  BY <1>3 DEF ManifestComplete, AttemptOk, AttemptFatal
<1>4. CASE ProbePartial
  BY <1>4 DEF ProbePartial
<1>5. CASE ProbeExpired
  BY <1>5 DEF ProbeExpired, AttemptUrlExpired
<1>6. CASE ProbeFatal
  BY <1>6 DEF ProbeFatal, AttemptFatal
<1>7. CASE ProbeFull
  <2>1. Fresh(0) /\ UNCHANGED <<mem, reported>>
    BY <1>7, StartsFresh DEF ProbeFull
  <2> QED
    BY <2>1 DEF Fresh
<1>8. CASE ProbeFallback
  BY <1>8 DEF ProbeFallback
<1>9. CASE OpenPart
  <2>1. UNCHANGED <<mem, reported>>
    BY <1>9 DEF OpenPart
  <2>2. part' = part \/ Fresh(want)
    BY <1>9, OpensPart DEF OpenPart
  <2> QED
    BY <2>1, <2>2 DEF Fresh
<1>10. CASE FirstError
  BY <1>10 DEF FirstError, AttemptFatal
<1>11. CASE FirstWrite
  <2>1. UNCHANGED <<mem, reported>> /\ src \in reported
    BY <1>11 DEF FirstWrite
  <2>2. Writes(first, src)
    BY <1>11, WritesFirst
  <2> QED
    BY <2>1, <2>2 DEF Writes
<1>12. CASE FirstRecord
  <2>1. UNCHANGED <<part, reported>>
    BY <1>12 DEF FirstRecord
  <2>2. \A s \in Slots : mem'[s].src = mem[s].src
    BY <1>12 DEF FirstRecord, Recorded, Mems
  <2> QED
    BY <2>1, <2>2
<1>13. CASE JoinAll
  BY <1>13 DEF JoinAll, AttemptOk, AttemptFatal
<1>14. CASE JoinError
  BY <1>14 DEF JoinError, AttemptFatal
<1>15. CASE EnterSingleStream
  BY <1>15 DEF EnterSingleStream
<1>16. CASE AcceptByLength
  BY <1>16 DEF AcceptByLength, AttemptOk
<1>17. CASE RequestResumed
  BY <1>17 DEF RequestResumed
<1>18. CASE RequestFromZero
  <2>1. Fresh(0) /\ UNCHANGED <<mem, reported>>
    BY <1>18, StartsFresh DEF RequestFromZero
  <2> QED
    BY <2>1 DEF Fresh
<1>19. CASE StreamExpired
  BY <1>19 DEF StreamExpired, AttemptUrlExpired
<1>20. CASE RequestFatal
  BY <1>20 DEF RequestFatal, AttemptFatal
<1>21. CASE StreamUnit
  <2>1. UNCHANGED <<mem, reported>> /\ src \in reported
    BY <1>21 DEF StreamUnit
  <2>2. part' = part \/ \E n, z : Writes(n, z) /\ z \in {0} \cup reported
    BY <1>21, <2>1, WritesUnit
  <2> QED
    BY <2>1, <2>2 DEF Writes
<1>22. CASE StreamComplete
  BY <1>22 DEF StreamComplete, AttemptOk
<1>23. CASE StreamTransient
  BY <1>23 DEF StreamTransient, AttemptFatal
<1>24. CASE RefreshSame
  BY <1>24 DEF RefreshSame
<1>25. CASE RefreshMismatch
  <2>1. part' = NoFile /\ mem' = mem /\ reported \subseteq reported'
    BY <1>25 DEF RefreshMismatch
  <2> QED
    BY <2>1
<1>26. CASE RefreshError
  BY <1>26 DEF RefreshError
<1>27. CASE Rename
  <2>1. part' = NoFile /\ UNCHANGED <<mem, reported>>
    BY <1>27 DEF Rename
  <2> QED
    BY <2>1
<1>28. CASE RenameError
  BY <1>28 DEF RenameError
<1>29. CASE UnlinkSidecar
  BY <1>29 DEF UnlinkSidecar
<1>30. CASE Abandon
  <2>1. part' \in {part, NoFile} /\ UNCHANGED <<mem, reported>>
    BY <1>30 DEF Abandon
  <2> QED
    BY <2>1
<1>31. CASE Crash
  BY <1>31 DEF Crash
<1>32. CASE EvictPart
  <2>1. part' = NoFile /\ UNCHANGED <<mem, reported>>
    BY <1>32 DEF EvictPart
  <2> QED
    BY <2>1
<1>33. CASE EvictSidecar
  BY <1>33 DEF EvictSidecar
<1>34. CASE \E s \in Slots, i \in Units : ChunkTask(s, i)
  <2> SUFFICES ASSUME NEW s \in Slots, NEW i \in Units, ChunkTask(s, i) PROVE Sourced'
    BY <1>34
  <2>1. CASE ChunkWrite(s, i)
    <3>1. UNCHANGED <<mem, reported>> /\ Writes(i, mem[s].src)
      BY <2>1, WritesChunk DEF ChunkWrite
    <3> QED
      BY <3>1 DEF Writes
  <2>2. CASE ChunkFail(s, i)
    BY <2>2 DEF ChunkFail
  <2>3. CASE ChunkRecord(s, i)
    <3>1. UNCHANGED <<part, reported>>
      BY <2>3 DEF ChunkRecord
    <3>2. \A r \in Slots : mem'[r].src = mem[r].src
      BY <2>3 DEF ChunkRecord, Recorded, Mems
    <3> QED
      BY <3>1, <3>2
  <2> QED
    BY <2>1, <2>2, <2>3 DEF ChunkTask
<1>40. CASE TagStep
  BY <1>40, TagSteps
<1>35. CASE UNCHANGED vars
  BY <1>35 DEF vars
<1> QED
  BY <1>1, <1>2, <1>3, <1>4, <1>5, <1>6, <1>7, <1>8, <1>9, <1>10, <1>11, <1>12,
     <1>13, <1>14, <1>15, <1>16, <1>17, <1>18, <1>19, <1>20, <1>21, <1>22, <1>23,
     <1>24, <1>25, <1>26, <1>27, <1>28, <1>29, <1>30, <1>31, <1>32, <1>33, <1>34,
     <1>35, <1>40
  DEF Next, DriverStep, TagStep, RangedStep, StreamStep

(* Under Clean the API has reported one size, and it is the job's.         *)
LEMMA OneSize ==
  ASSUME AttemptInv, Placed, Clean
  PROVE  /\ \A y \in reported : y = want
         /\ pc # "idle" => src = want /\ want \in reported
BY DEF AttemptInv, Placed, Clean

(* With one size about, a file filled up to it is whole.                   *)
LEMMA WholeIfFilled ==
  ASSUME TypeOK, AttemptInv, Placed, Sourced, Clean, want # 0,
         part.len = want, 1..want \subseteq Filled(part)
  PROVE  Whole(part)
<1>1. want \in Sizes
  BY DEF TypeOK, DataTypeOK
<1>2. \A i \in 1..want : part.bytes[i] = want
  BY <1>1, OneSize DEF Sourced, Filled
<1> QED
  BY <1>1, <1>2 DEF Whole

(* What an attempt that ends well has verified makes .part whole.          *)
LEMMA OutcomeWhole ==
  ASSUME IInv, Placed, Sourced, Clean, ContentSound, part.exists,
         ManifestComplete \/ JoinAll \/ AcceptByLength \/ StreamComplete, pc' = "rename",
         how' # "preallocated"
  PROVE  Whole(part)
<1> USE DEF IInv, ContentSound
<1>1. want \in Sizes /\ want \in Nat /\ want # 0 /\ part.len \in Nat
  BY OneSize DEF ManifestComplete, JoinAll, AcceptByLength, StreamComplete, TypeOK, DataTypeOK, Files
<1>2. CASE ManifestComplete
  <2>1. part.len = want /\ 1..want \subseteq sidecar.done
    BY <1>1, <1>2 DEF ManifestComplete, ResumeManifest, AttemptFatal
  <2>2. 1..want \subseteq Filled(part)
    BY <2>1 DEF Clean, ManifestSound
  <2> QED
    BY <1>1, <2>1, <2>2, WholeIfFilled
<1>3. CASE JoinAll
  <2>1. part.len = want /\ 1..want \subseteq mem[slot].done
    BY <1>1, <1>3, GridInUnits DEF JoinAll, AttemptFatal, Grid
  <2>2. 1..want \subseteq Filled(part)
    BY <1>3, <2>1 DEF JoinAll, ManifestSound, InRanged
  <2> QED
    BY <1>1, <2>1, <2>2, WholeIfFilled
<1>4. CASE AcceptByLength
  <2>1. part.len = want /\ ~part.laid /\ 1..want \subseteq Filled(part)
    BY <1>1, <1>4 DEF AcceptByLength, AttemptOk, PartSound
  <2> QED
    BY <1>1, <2>1, WholeIfFilled
<1>5. CASE StreamComplete
  <2>1. part.len = want /\ 1..want \subseteq Filled(part)
    BY <1>5 DEF StreamComplete, StreamSound
  <2> QED
    BY <1>1, <2>1, WholeIfFilled
<1> QED
  BY <1>2, <1>3, <1>4, <1>5

(* A write fills its chunk and leaves the others.                          *)
LEMMA WritesFill ==
  ASSUME TypeOK, NEW i \in Units, NEW z, z # 0, Writes(i, z)
  PROVE  Filled(part') = Filled(part) \cup {i}
BY DEF Writes, Filled

(* Every action keeps what .part holds sound while nothing unclean has     *)
(* happened.                                                               *)
LEMMA NextContent ==
  ASSUME IInv, Placed, Sourced, Clean, ContentSound,
         IInv', Placed', Sourced', Clean', [Next]_vars
  PROVE  ContentSound'
<1>1. /\ want \in Nat /\ written \in Nat /\ part.len \in Nat /\ pos \in Nat /\ first \in Nat /\ part'.len \in Nat
  BY UnitsArePositive DEF IInv, TypeOK, DataTypeOK, DriverTypeOK, Files
<1>2. pc # "idle" => src = want /\ want \in Sizes /\ want # 0
  BY OneSize DEF IInv, TypeOK, DataTypeOK
<1> USE <1>1, <1>2 DEF ContentSound, PartSound, Grid, StreamSound, ReadyToPublish, FinalSound,
            ResumeWithinWritten, LeaveAttempt, fsmVars, confVars, streamVars, probeVars, historyVars
<1>3. CASE StartJob
  <2>1. PICK z \in Sizes : want' = z /\ reported' = reported \cup {z}
    BY <1>3 DEF StartJob
  <2>2. want' = want \/ (want = 0 /\ reported = {})
    <3>1. z \in reported' /\ reported \subseteq reported'
      BY <2>1
    <3> QED
      BY <2>1, <3>1 DEF Placed, Clean
  <2>3. ~final'.exists /\ UNCHANGED <<part, sidecar>> /\ pc' = "attempt"
    BY <1>3, NoFileIsFresh DEF StartJob
  <2>4. CASE want' = want
    BY <2>3, <2>4
  <2>5. CASE want = 0 /\ reported = {}
    <3>1. sidecar.size = 0 /\ part.len = 0 /\ 1..part.len = {}
      BY <2>5 DEF IInv, ManifestSound
    <3> QED
      BY <2>1, <2>3, <3>1
  <2> QED
    BY <2>2, <2>4, <2>5
<1>4. CASE ProbeFirstGap
  BY <1>4 DEF ProbeFirstGap
<1>5. CASE ManifestComplete
  <2>1. pc' = "rename" /\ part.exists /\ how' # "preallocated" => Whole(part)
    BY <1>5, OutcomeWhole
  <2>2. UNCHANGED <<part, sidecar, want, final>> /\ ~final.exists /\ pc' \in {"rename", "idle"}
    BY <1>5 DEF ManifestComplete, AttemptOk, AttemptFatal, Placed
  <2> QED
    BY <2>1, <2>2
<1>6. CASE ProbePartial
  BY <1>6 DEF ProbePartial
<1>7. CASE ProbeExpired
  BY <1>7 DEF ProbeExpired, AttemptUrlExpired
<1>8. CASE ProbeFatal
  BY <1>8 DEF ProbeFatal, AttemptFatal
<1>9. CASE ProbeFull
  <2>1. part'.exists /\ part'.len = 0 /\ 1..part'.len = {}
    BY <1>9, StartsFresh DEF Fresh
  <2>2. sidecar'.size = 0 /\ pc' = "stream" /\ pos' = 0 /\ UNCHANGED <<want, final, how>>
    BY <1>9 DEF ProbeFull, NoSidecar
  <2> QED
    BY <1>9, <2>1, <2>2
<1>10. CASE ProbeFallback
  <2>1. sidecar'.size = 0 /\ pc' = "request" /\ UNCHANGED <<want, final, how, part>>
    BY <1>10 DEF ProbeFallback, NoSidecar
  <2> QED
    BY <1>10, <2>1
<1>11. CASE OpenPart
  <2>1. UNCHANGED <<want, final, sidecar, how>> /\ pc = "open"
    BY <1>11 DEF OpenPart, AttemptFatal
  <2>2. CASE Fresh(want) /\ part'.laid /\ pc' = "first"
    BY <2>1, <2>2 DEF Fresh
  <2>3. CASE part.exists /\ part' = part /\ pc' = "first" /\ ~trunc
    BY <2>1, <2>3
  <2>4. CASE part' = part /\ AttemptFatal
    BY <2>1, <2>4 DEF AttemptFatal
  <2> QED
    BY <1>11, <2>2, <2>3, <2>4, OpensPart DEF IInv
<1>12. CASE FirstError
  BY <1>12 DEF FirstError, AttemptFatal
<1>13. CASE FirstWrite
  <2>1. Writes(first, src) /\ first \in Units /\ first \in 1..want /\ part.exists /\ pc = "first"
    BY <1>13, WritesFirst DEF FirstWrite, IInv, Placed, AttemptInv, InRanged
  <2>2. part'.len = want /\ part'.laid
    BY <2>1 DEF Writes
  <2>3. UNCHANGED <<want, final, sidecar, how>> /\ pc' = "record"
    BY <1>13 DEF FirstWrite
  <2> QED
    BY <2>1, <2>2, <2>3
<1>14. CASE FirstRecord
  <2>1. UNCHANGED <<want, final, part, how, slot>> /\ pc = "record" /\ pc' = "join" /\ slot \in Slots
    BY <1>14 DEF FirstRecord, IInv, AttemptInv, InRanged
  <2>2. mem'[slot].done = mem[slot].done \cup {first}
    BY <1>14, <2>1 DEF FirstRecord, Recorded, IInv, TypeOK, DataTypeOK, Mems
  <2>3. sidecar'.done = mem'[slot].done
    BY <1>14 DEF FirstRecord, Persisted
  <2>4. \A i \in 1..want : i \in mem'[slot].done \/ task'[slot][i] = "fetch"
    BY <1>14, <2>1, GridInUnits DEF FirstRecord, IInv, TypeOK, DataTypeOK
  <2> QED
    BY <2>1, <2>2, <2>3, <2>4
<1>15. CASE JoinAll
  <2>1. pc' = "rename" /\ part.exists /\ how' # "preallocated" => Whole(part)
    BY <1>15, OutcomeWhole
  <2>2. UNCHANGED <<part, sidecar, want, final>> /\ ~final.exists /\ pc' \in {"rename", "idle"}
    BY <1>15 DEF JoinAll, AttemptOk, AttemptFatal, Placed
  <2> QED
    BY <2>1, <2>2
<1>16. CASE JoinError
  BY <1>16 DEF JoinError, AttemptFatal
<1>17. CASE EnterSingleStream
  BY <1>17 DEF EnterSingleStream
<1>18. CASE AcceptByLength
  <2>1. pc' = "rename" /\ part.exists /\ how' # "preallocated" => Whole(part)
    BY <1>18, OutcomeWhole
  <2>2. UNCHANGED <<part, sidecar, want, final>> /\ ~final.exists /\ pc' \in {"rename", "idle"}
    BY <1>18 DEF AcceptByLength, AttemptOk, Placed
  <2> QED
    BY <2>1, <2>2
<1>19. CASE RequestResumed
  BY <1>19 DEF RequestResumed
<1>20. CASE RequestFromZero
  <2>1. part'.exists /\ part'.len = 0 /\ 1..part'.len = {}
    BY <1>20, StartsFresh DEF Fresh
  <2>2. sidecar.size = 0 /\ pc' = "stream" /\ pos' = 0 /\ UNCHANGED <<want, final, how, sidecar>>
    BY <1>20 DEF RequestFromZero, TakeOver, Clean
  <2> QED
    BY <1>20, <2>1, <2>2
<1>21. CASE StreamExpired
  BY <1>21 DEF StreamExpired, AttemptUrlExpired
<1>22. CASE RequestFatal
  BY <1>22 DEF RequestFatal, AttemptFatal
<1>23. CASE StreamUnit
  <2>1. /\ sidecar.size = 0 /\ pc = "stream" /\ pc' = "stream" /\ pos' = pos + 1 /\ pos + 1 \in 1..want
        /\ UNCHANGED <<want, final, how, sidecar>>
    BY <1>23 DEF StreamUnit, IInv, ManifestSound
  <2>2. pos + 1 \in Units
    BY <2>1, GridInUnits
  <2>3. CASE ~part.exists /\ part' = part
    BY <2>1, <2>3
  <2>4. CASE part.exists /\ Writes(pos + 1, src)
    <3>1. Filled(part') = Filled(part) \cup {pos + 1}
      BY <2>1, <2>2, <2>4, WritesFill DEF IInv
    <3>2. part'.len = pos + 1 /\ 1..pos \subseteq Filled(part)
      BY <2>1, <2>4 DEF Writes
    <3>3. 1..(pos + 1) = (1..pos) \cup {pos + 1}
      OBVIOUS
    <3>4. 1..(pos + 1) \subseteq Filled(part')
      BY <3>1, <3>2, <3>3
    <3> QED
      BY <2>1, <3>2, <3>4
  <2> QED
    BY <1>23, <2>1, <2>3, <2>4, WritesUnit DEF Writes, IInv
<1>24. CASE StreamComplete
  <2>1. pc' = "rename" /\ part.exists /\ how' # "preallocated" => Whole(part)
    BY <1>24, OutcomeWhole
  <2>2. UNCHANGED <<part, sidecar, want, final>> /\ ~final.exists /\ pc' \in {"rename", "idle"}
    BY <1>24 DEF StreamComplete, AttemptOk, Placed
  <2> QED
    BY <2>1, <2>2
<1>25. CASE StreamTransient
  BY <1>25 DEF StreamTransient, AttemptFatal
<1>26. CASE RefreshSame
  BY <1>26 DEF RefreshSame
<1>27. CASE RefreshMismatch
  <2>1. want \in reported
    BY <1>27 DEF RefreshMismatch, Placed
  <2>2. PICK z \in Sizes \ {want} : reported' = reported \cup {z}
    BY <1>27 DEF RefreshMismatch
  <2> QED
    BY <2>1, <2>2 DEF Clean
<1>28. CASE RefreshError
  BY <1>28 DEF RefreshError
<1>29. CASE Rename
  <2>1. ~part'.exists /\ part'.len = 0 /\ 1..part'.len = {}
    BY <1>29, NoFileIsFresh, NoBytes DEF Rename
  <2>2. final' = part /\ pc' = "unlink" /\ pc = "rename" /\ part.exists /\ UNCHANGED <<want, how, sidecar>>
    BY <1>29 DEF Rename
  <2> QED
    BY <2>1, <2>2
<1>30. CASE RenameError
  BY <1>30 DEF RenameError
<1>31. CASE UnlinkSidecar
  <2>1. sidecar'.size = 0 /\ pc' = "tag" /\ UNCHANGED <<want, final, how, part>>
    BY <1>31 DEF UnlinkSidecar, NoSidecar
  <2> QED
    BY <2>1
<1>32. CASE Abandon
  <2>1. pc' = "idle" /\ UNCHANGED <<want, how, sidecar>>
    BY <1>32 DEF Abandon
  <2>2. CASE UNCHANGED <<part, final>>
    BY <2>1, <2>2
  <2>3. CASE pc = "rename" /\ part.exists /\ final' = part /\ part' = NoFile
    <3>1. ~part'.exists /\ part'.len = 0 /\ 1..part'.len = {}
      BY <2>3, NoFileIsFresh, NoBytes
    <3> QED
      BY <2>1, <2>3, <3>1
  <2> QED
    BY <1>32, <2>2, <2>3 DEF Abandon
<1>33. CASE Crash
  <2>1. /\ UNCHANGED <<want, how, sidecar, part>> /\ pc' = "idle"
        /\ final'.exists = final.exists /\ final'.len = final.len /\ final'.bytes = final.bytes
    BY <1>33 DEF Crash, IInv, TypeOK, DataTypeOK, Files
  <2> QED
    BY <2>1 DEF Whole
<1>34. CASE EvictPart
  <2>1. ~part'.exists /\ part'.len = 0 /\ 1..part'.len = {}
    BY <1>34, NoFileIsFresh, NoBytes DEF EvictPart
  <2> QED
    BY <1>34, <2>1 DEF EvictPart
<1>35. CASE EvictSidecar
  <2>1. sidecar'.size = 0 /\ UNCHANGED <<pc, trunc, pos, slot, mem, task, want, final, how, part, written>>
    BY <1>35 DEF EvictSidecar, NoSidecar
  <2> QED
    BY <2>1
<1>36. CASE \E s \in Slots, i \in Units : ChunkTask(s, i)
  <2> SUFFICES ASSUME NEW s \in Slots, NEW i \in Units, ChunkTask(s, i) PROVE ContentSound'
    BY <1>36
  <2>1. /\ s = slot /\ pc = "join" /\ slot \in Slots
        /\ UNCHANGED <<pc, want, final, how, trunc, slot>>
    BY DEF ChunkTask, ChunkWrite, ChunkFail, ChunkRecord, IInv, ManifestSound, Live, AttemptInv, InRanged
  <2>2. CASE ChunkWrite(s, i)
    <3>1. Writes(i, mem[s].src) /\ i \in Nat /\ UNCHANGED <<sidecar, mem>>
      BY <2>2, WritesChunk DEF ChunkWrite, IInv
    <3>2. i <= want
      BY <2>1, <2>2, <3>1, UnitsArePositive, OneSize DEF ChunkWrite, Sourced, IInv
    <3>3. part'.len = want /\ part'.laid
      BY <2>1, <3>1, <3>2 DEF Writes
    <3>4. \A k \in Units : task'[slot][k] \in {task[slot][k], "record"}
      BY <2>1, <2>2 DEF ChunkWrite, IInv, TypeOK, DataTypeOK
    <3> QED
      BY <2>1, <3>1, <3>3, <3>4, GridInUnits
  <2>3. CASE ChunkFail(s, i)
    <3>1. \A k \in Units : task'[slot][k] \in {task[slot][k], "err"}
      BY <2>1, <2>3 DEF ChunkFail, IInv, TypeOK, DataTypeOK
    <3>2. UNCHANGED <<part, sidecar, mem>>
      BY <2>3 DEF ChunkFail
    <3> QED
      BY <2>1, <3>1, <3>2, GridInUnits
  <2>4. CASE ChunkRecord(s, i)
    <3>1. mem'[slot].done = mem[slot].done \cup {i} /\ part' = part
      BY <2>1, <2>4 DEF ChunkRecord, Recorded, IInv, TypeOK, DataTypeOK, Mems
    <3>2. sidecar' = sidecar \/ sidecar'.done = mem'[slot].done
      BY <2>1, <2>4 DEF ChunkRecord, Persisted
    <3>3. \A k \in Units : k # i => task'[slot][k] = task[slot][k]
      BY <2>1, <2>4 DEF ChunkRecord, IInv, TypeOK, DataTypeOK
    <3>4. part.exists => part.len = want /\ part.laid
      BY <2>1
    <3> QED
      BY <2>1, <3>1, <3>2, <3>3, <3>4, GridInUnits
  <2> QED
    BY <2>2, <2>3, <2>4 DEF ChunkTask
<1>40. CASE TagStep
  <2>1. UNCHANGED <<want, how, sidecar, part, mem, task, slot, trunc, pos, written>>
    BY <1>40, TagSteps DEF IInv
  <2>2. pc' = pc \/ (pc \in {"tag", "tagging"} /\ pc' \in {"idle", "tagging"})
    BY <1>40, TagSteps DEF IInv
  <2>3. ~final'.exists \/ (final'.exists = final.exists /\ final'.len = final.len /\ final'.bytes = final.bytes)
    <3>1. final \in Files
      BY DEF IInv, TypeOK, DataTypeOK
    <3>2. final' = NoFile \/ \E t \in TagStates : final' = [final EXCEPT !.tags = t]
      BY <1>40, TagSteps DEF IInv
    <3>3. ASSUME NEW t \in TagStates, final' = [final EXCEPT !.tags = t]
          PROVE  final'.exists = final.exists /\ final'.len = final.len /\ final'.bytes = final.bytes
      BY <3>1, <3>3, Retagged
    <3> QED
      BY <3>2, <3>3, NoFileIsFresh
  <2>4. FinalSound'
    BY <2>1, <2>3 DEF Whole
  <2> QED
    BY <2>1, <2>2, <2>4
<1>37. CASE UNCHANGED vars
  BY <1>37 DEF vars
<1> QED
  BY <1>3, <1>4, <1>5, <1>6, <1>7, <1>8, <1>9, <1>10, <1>11, <1>12, <1>13, <1>14,
     <1>15, <1>16, <1>17, <1>18, <1>19, <1>20, <1>21, <1>22, <1>23, <1>24, <1>25,
     <1>26, <1>27, <1>28, <1>29, <1>30, <1>31, <1>32, <1>33, <1>34, <1>35, <1>36,
     <1>37, <1>40
  DEF Next, DriverStep, TagStep, RangedStep, StreamStep

LEMMA InitContent == Init => ContentInv
<1> SUFFICES ASSUME Init PROVE ContentInv
  OBVIOUS
<1>1. Placed /\ Sourced
  BY NoFileIsFresh, NoBytes, Untagged DEF Init, Placed, Sourced, InRanged
<1>2. PartSound /\ 1..part.len = {}
  BY NoFileIsFresh, NoBytes DEF Init, PartSound
<1>3. Grid /\ StreamSound /\ ReadyToPublish /\ FinalSound /\ ResumeWithinWritten
  BY NoFileIsFresh DEF Init, Grid, StreamSound, ReadyToPublish, FinalSound,
     ResumeWithinWritten, NoSidecar
<1> QED
  BY <1>1, <1>2, <1>3, InitIInv DEF ContentInv, ContentSound

LEMMA NextContentInv == ContentInv /\ [Next]_vars => ContentInv'
<1> SUFFICES ASSUME ContentInv, [Next]_vars PROVE ContentInv'
  OBVIOUS
<1>1. IInv' /\ Placed' /\ Sourced'
  BY NextIInv, NextPlaced, NextSourced DEF ContentInv, IInv
<1>2. ASSUME Clean' PROVE ContentSound'
  BY <1>1, <1>2, HistoryGrows, NextContent DEF ContentInv
<1> QED
  BY <1>1, <1>2 DEF ContentInv

LEMMA ContentIsInvariant == Spec => []ContentInv
BY InitContent, NextContentInv, PTL DEF Spec

(* ranged.rs and single_stream.rs: unless the length test passed on a      *)
(* .part that a ranged attempt had laid out, what is published is whole,   *)
(* whatever was interrupted, retried, refreshed, evicted or resumed on the *)
(* way and however the threshold was changed between the jobs.             *)
THEOREM PublishedIsWhole == Spec => []HolesOnlyByLength
<1>1. ContentInv => HolesOnlyByLength
  BY DEF ContentInv, ContentSound, FinalSound, HolesOnlyByLength
<1> QED
  BY <1>1, ContentIsInvariant, PTL

(* single_stream.rs:9: .part has no hole unless a ranged attempt has laid  *)
(* it out, so that its length tells how much of the file has been          *)
(* downloaded, for every sequence of thresholds.                           *)
THEOREM LengthTellsProgress == Spec => []LengthIsProgress
<1>1. ContentInv => LengthIsProgress
  BY DEF ContentInv, ContentSound, PartSound, LengthIsProgress, Filled
<1> QED
  BY <1>1, ContentIsInvariant, PTL

(* job.rs:95: while a refresh is awaited .part does not outgrow the offset *)
(* the job noted when the link expired.                                    *)
THEOREM ResumesWithinWritten == Spec => []ResumeWithinWritten
<1>1. ContentInv => ResumeWithinWritten
  BY DEF ContentInv, ContentSound, ResumeWithinWritten
<1> QED
  BY <1>1, ContentIsInvariant, PTL

-----------------------------------------------------------------------------
(* A job implements the download its callers are promised.                 *)

(* What a step may do to the path, by where the job is.                    *)
Begins == pc = "idle" /\ pc' = "attempt" /\ final' = NoFile
Publishes ==
  /\ pc = "rename" /\ part.exists /\ pc' \in {"idle", "unlink"}
  /\ final' = part
  /\ UNCHANGED <<how, reported, historyVars>>
Ends ==
  /\ pc # "idle" /\ pc' = "idle" /\ UNCHANGED how
  /\ \/ final' = final
     \/ final.tags = "writing" /\ final' = [final EXCEPT !.tags = "torn"]
Works ==
  /\ pc \notin {"idle", "rename", "unlink", "tag", "tagging"} /\ pc' \notin {"idle", "unlink", "tag", "tagging"}
  /\ UNCHANGED final
Stays == pc' = pc \/ (pc \in {"unlink", "tag"} /\ pc' \in {"tag", "tagging"})
Leaves == Stays /\ UNCHANGED <<final, how, reported, historyVars>>
Tags ==
  /\ Stays /\ UNCHANGED <<how, reported, historyVars>>
  /\ pc \in {"idle", "unlink", "tag", "tagging"} /\ final.exists
  /\ \/ final' = [final EXCEPT !.tags = "writing"]
     \/ final.tags = "writing" /\ \E t \in {"tagged", "torn"} : final' = [final EXCEPT !.tags = t]
Evicts == Stays /\ UNCHANGED <<how, reported, historyVars>> /\ final' = NoFile

LEMMA StepKinds ==
  ASSUME TypeOK, Placed, [Next]_vars
  PROVE  Begins \/ Publishes \/ Ends \/ Works \/ Leaves \/ Tags \/ Evicts
<1> USE NoFileIsFresh DEF Begins, Publishes, Ends, Works, Leaves, Tags, Evicts, Stays, Placed, LeaveAttempt,
        fsmVars, confVars, streamVars, probeVars, historyVars
<1>1. CASE StartJob
  BY <1>1 DEF StartJob
<1>2. CASE ProbeFirstGap
  BY <1>2 DEF ProbeFirstGap
<1>3. CASE ManifestComplete
  BY <1>3 DEF ManifestComplete, AttemptOk, AttemptFatal
<1>4. CASE ProbePartial
  BY <1>4 DEF ProbePartial
<1>5. CASE ProbeExpired
  BY <1>5 DEF ProbeExpired, AttemptUrlExpired
<1>6. CASE ProbeFatal
  BY <1>6 DEF ProbeFatal, AttemptFatal
<1>7. CASE ProbeFull
  BY <1>7 DEF ProbeFull
<1>8. CASE ProbeFallback
  BY <1>8 DEF ProbeFallback
<1>9. CASE OpenPart
  BY <1>9 DEF OpenPart, AttemptFatal
<1>10. CASE FirstError
  BY <1>10 DEF FirstError, AttemptFatal
<1>11. CASE FirstWrite
  BY <1>11 DEF FirstWrite
<1>12. CASE FirstRecord
  BY <1>12 DEF FirstRecord
<1>13. CASE JoinAll
  BY <1>13 DEF JoinAll, AttemptOk, AttemptFatal
<1>14. CASE JoinError
  BY <1>14 DEF JoinError, AttemptFatal
<1>15. CASE EnterSingleStream
  BY <1>15 DEF EnterSingleStream
<1>16. CASE AcceptByLength
  BY <1>16 DEF AcceptByLength, AttemptOk
<1>17. CASE RequestResumed
  BY <1>17 DEF RequestResumed
<1>18. CASE RequestFromZero
  BY <1>18 DEF RequestFromZero
<1>19. CASE StreamExpired
  BY <1>19 DEF StreamExpired, AttemptUrlExpired
<1>20. CASE RequestFatal
  BY <1>20 DEF RequestFatal, AttemptFatal
<1>21. CASE StreamUnit
  BY <1>21 DEF StreamUnit
<1>22. CASE StreamComplete
  BY <1>22 DEF StreamComplete, AttemptOk
<1>23. CASE StreamTransient
  BY <1>23 DEF StreamTransient, AttemptFatal
<1>24. CASE RefreshSame
  BY <1>24 DEF RefreshSame
<1>25. CASE RefreshMismatch
  BY <1>25 DEF RefreshMismatch
<1>26. CASE RefreshError
  BY <1>26 DEF RefreshError
<1>27. CASE Rename
  BY <1>27 DEF Rename
<1>28. CASE RenameError
  BY <1>28 DEF RenameError
<1>29. CASE UnlinkSidecar
  BY <1>29 DEF UnlinkSidecar
<1>30. CASE Abandon
  <2>1. CASE UNCHANGED <<part, final>>
    BY <1>30, <2>1 DEF Abandon
  <2>2. CASE pc = "rename" /\ part.exists /\ final' = part /\ part' = NoFile
    <3>1. slot = 0
      BY <2>2
    <3>2. LeaveAttempt
      BY <1>30 DEF Abandon
    <3>3. detached' = detached
      BY <3>1, <3>2, Zenon DEF TypeOK, DriverTypeOK
    <3> QED
      BY <1>30, <2>2, <3>3 DEF Abandon
  <2> QED
    BY <1>30, <2>1, <2>2 DEF Abandon
<1>31. CASE Crash
  <2>1. pc' = "idle" /\ UNCHANGED <<how, reported, historyVars>>
    BY <1>31 DEF Crash
  <2>2. CASE final.tags = "writing"
    <3>1. final' = [final EXCEPT !.tags = "torn"]
      BY <1>31, <2>2 DEF Crash, TypeOK, DataTypeOK, Files
    <3>2. final.exists
      BY <2>2
    <3> QED
      BY <2>1, <2>2, <3>1, <3>2
  <2>3. CASE final.tags # "writing"
    <3>1. final' = final
      BY <1>31, <2>3 DEF Crash, TypeOK, DataTypeOK, Files
    <3> QED
      BY <2>1, <3>1
  <2> QED
    BY <2>2, <2>3
<1>32. CASE EvictPart
  BY <1>32 DEF EvictPart
<1>33. CASE EvictSidecar
  BY <1>33 DEF EvictSidecar
<1>34. CASE \E s \in Slots, i \in Units : ChunkTask(s, i)
  BY <1>34 DEF ChunkTask, ChunkWrite, ChunkFail, ChunkRecord
<1>40. CASE TagBegin
  BY <1>40 DEF TagBegin
<1>41. CASE TagSkip \/ TagReturn
  BY <1>41 DEF TagSkip, TagReturn
<1>42. CASE TagEnd
  <2>1. final.tags = "writing" /\ final.exists
    BY <1>42 DEF TagEnd
  <2>2. pc \in {"idle", "unlink", "tag", "tagging"}
    BY <2>1, Zenon
  <2> QED
    BY <1>42, <2>1, <2>2 DEF TagEnd
<1>43. CASE TagCached
  BY <1>43 DEF TagCached
<1>44. CASE EvictFinal
  BY <1>44 DEF EvictFinal
<1>35. CASE UNCHANGED vars
  BY <1>35 DEF vars
<1> QED
  BY <1>1, <1>2, <1>3, <1>4, <1>5, <1>6, <1>7, <1>8, <1>9, <1>10, <1>11, <1>12,
     <1>13, <1>14, <1>15, <1>16, <1>17, <1>18, <1>19, <1>20, <1>21, <1>22, <1>23,
     <1>24, <1>25, <1>26, <1>27, <1>28, <1>29, <1>30, <1>31, <1>32, <1>33, <1>34,
     <1>35, <1>40, <1>41, <1>42, <1>43, <1>44
  DEF Next, DriverStep, RangedStep, StreamStep

LEMMA StepRefines == ContentInv /\ [Next]_vars => [Promise!Next]_(Promise!downloadVars)
<1> SUFFICES ASSUME ContentInv, [Next]_vars
             PROVE  Promise!Next \/ UNCHANGED Promise!downloadVars
  BY DEF Promise!downloadVars
<1> DEFINE job == IF pc = "idle" THEN "idle"
                  ELSE IF pc \in {"unlink", "tag", "tagging"} THEN "published" ELSE "busy"
           path == IF ~final.exists THEN "none" ELSE IF Whole(final) THEN "whole" ELSE "broken"
           trusted == Clean /\ how # "preallocated"
<1>1. Clean' => Clean
  BY HistoryGrows
<1>2. Placed /\ Placed' /\ (Clean => ContentSound) /\ TypeOK
  BY NextContentInv DEF ContentInv, IInv
<1>3. ASSUME NEW t \in TagStates, final' = [final EXCEPT !.tags = t]
      PROVE  path' = path /\ final'.tags = t /\ final'.exists = final.exists
  BY <1>2, <1>3, Retagged DEF TypeOK, DataTypeOK, Whole
<1>4. {"writing", "tagged", "torn"} \subseteq TagStates
  BY DEF TagStates
<1>5. CASE Begins
  <2>1. job = "idle" /\ job' = "busy" /\ path' = "none" /\ final'.tags = "none" /\ trusted' \in BOOLEAN
    BY <1>5, NoFileIsFresh, Untagged DEF Begins
  <2> QED
    BY <2>1 DEF Promise!Next, Promise!Begin
<1>6. CASE Publishes
  <2>1. job = "busy" /\ path = "none" /\ job' \in {"published", "idle"}
    BY <1>2, <1>6 DEF Publishes, Placed
  <2>2. path' = IF Whole(part) THEN "whole" ELSE "broken"
    BY <1>6 DEF Publishes
  <2>3. trusted => Whole(part)
    BY <1>2, <1>6 DEF Publishes, ContentSound, ReadyToPublish
  <2>4. trusted' = trusted
    BY <1>6 DEF Publishes, Clean, historyVars
  <2>5. path' \in IF trusted THEN {"whole"} ELSE {"whole", "broken"}
    BY <2>2, <2>3
  <2>6. final'.tags = final.tags
    BY <1>2, <1>6 DEF Publishes, Placed
  <2> QED
    BY <2>1, <2>4, <2>5, <2>6 DEF Promise!Next, Promise!Publish
<1>7. CASE Ends
  <2>1. job # "idle" /\ job' = "idle" /\ how' = how
    BY <1>7 DEF Ends
  <2>2. path' = path /\ (final'.tags = final.tags \/ (final.tags = "writing" /\ final'.tags = "torn"))
    BY <1>3, <1>4, <1>7 DEF Ends
  <2>3. trusted' = trusted \/ trusted' = FALSE
    BY <1>1, <2>1
  <2> QED
    BY <2>1, <2>2, <2>3 DEF Promise!Next, Promise!End
<1>8. CASE Works
  <2>1. job' = job /\ path' = path /\ final'.tags = final.tags
    BY <1>8 DEF Works
  <2>2. trusted' => trusted
    BY <1>1, <1>2, <1>8 DEF Works, Placed
  <2>3. trusted' = trusted \/ trusted' = FALSE
    BY <2>2
  <2> QED
    BY <2>1, <2>3 DEF Promise!Next, Promise!Distrust, Promise!downloadVars
<1>9. ASSUME Stays, UNCHANGED <<how, reported, historyVars>>
      PROVE  job' = job /\ trusted' = trusted
  BY <1>9 DEF Stays, Clean, historyVars
<1>10. CASE Leaves
  BY <1>9, <1>10 DEF Leaves, Promise!downloadVars
<1>11. CASE Tags
  <2>1. job' = job /\ trusted' = trusted /\ job # "busy" /\ path # "none"
    BY <1>9, <1>11 DEF Tags
  <2>2. path' = path /\ \/ final'.tags = "writing"
                        \/ final.tags = "writing" /\ final'.tags \in {"tagged", "torn"}
    BY <1>3, <1>4, <1>11 DEF Tags
  <2> QED
    BY <2>1, <2>2 DEF Promise!Next, Promise!Tag, Promise!TagEnd
<1>12. CASE Evicts
  <2>1. job' = job /\ trusted' = trusted /\ path' = "none" /\ final'.tags = "none"
    BY <1>9, <1>12, NoFileIsFresh, Untagged DEF Evicts
  <2> QED
    BY <2>1 DEF Promise!Next, Promise!Evict
<1> QED
  BY <1>2, <1>5, <1>6, <1>7, <1>8, <1>10, <1>11, <1>12, StepKinds

(* wrapper.rs:66-88: a path is published in one step, at most once by each *)
(* job, and then keeps its bytes until it is removed, but for its tags,    *)
(* which are written only once the job has published it; it is whole       *)
(* unless chunk tasks were orphaned, a stream overtook a sidecar, the      *)
(* song's size changed or a .part laid out was accepted by its length.     *)
THEOREM JobImplementsDownload == Spec => ImplementsDownload
<1>1. Init => Promise!Init
  BY NoFileIsFresh, Untagged DEF Init, Promise!Init, Clean
<1> QED
  BY <1>1, StepRefines, ContentIsInvariant, PTL DEF Spec, ImplementsDownload, Promise!Spec
=============================================================================
