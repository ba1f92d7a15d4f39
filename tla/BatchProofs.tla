---------------------------- MODULE BatchProofs ----------------------------
(***************************************************************************)
(* The safety of Batch for requests of any length: which song a prefetch   *)
(* slot is for, which triggers are set, how the songs are counted.         *)
(***************************************************************************)
EXTENDS Batch, FiniteSetTheorems, TLAPS

(* The places of an iteration before and after its song is known.          *)
Resolving == {"check", "resolve"}
Active == {"parse", "spawn", "permit", "download"}

(* TypeOK without the bounds on the counts, and what of the type of the    *)
(* remaining variables the argument needs.                                 *)
BatchType ==
  /\ ids \in Requests /\ i \in 0..(MaxSongs + 1) /\ music \in Music \cup {NoMusic}
  /\ pc \in {"begin", "wrap", "zip", "end"} \cup Resolving \cup Active
  /\ n1 \in 0..MaxSongs /\ n2 \in 0..MaxSongs
  /\ prefetch \in [Indices -> {None, "armed", "running", "info", "ended"}]
  /\ trigger \in [Indices -> (0..MaxSongs) \X {None, "half", "quarter"}]
  /\ fired \subseteq Indices \X {"half", "quarter"} /\ seen \subseteq Music
  /\ tracks \in Seq(Music)
  /\ completed \in Nat /\ failed \in Nat /\ skipped \in Nat
  /\ stage \in {"Starting", "Downloading", "Packaging", "Done", "Error"}
  /\ cancelled \in BOOLEAN /\ cancelling \in BOOLEAN

(* Where the loop is, and what has not happened before it.                 *)
Position ==
  /\ pc = "begin" => /\ n1 = 0 /\ n2 = 0 /\ seen = {} /\ tracks = <<>>
                     /\ completed = 0 /\ failed = 0 /\ skipped = 0
  /\ pc = "check" => i \in 1..(Len(ids) + 1)
  /\ pc \in {"resolve"} \cup Active => i \in 1..Len(ids)

(* The song at hand is the one the request asks for at this place.         *)
SongAtHand == pc \in Active => music = ids[i]

(* PrefetchesTriggered, and that an armed prefetch waits for a trigger the *)
(* worker sets.                                                            *)
Armed ==
  /\ PrefetchesTriggered
  /\ \A j \in Indices : prefetch[j] = "armed" => trigger[j][2] \in {"half", "quarter"}

(* CountsAddUp at every place: the song at hand is seen, not yet counted.  *)
Counted ==
  /\ completed = Len(tracks)
  /\ completed + failed + skipped <= MaxSongs
  /\ pc \in Resolving \cup Active => completed + failed + skipped = i - 1
  /\ pc \in Resolving => /\ completed + failed = Cardinality(seen)
                         /\ seen = {ids[k] : k \in 1..(i - 1)}
  /\ pc \in Active => /\ completed + failed + 1 = Cardinality(seen)
                      /\ seen = {ids[k] : k \in 1..i}

(* TracksDistinct, and the song at hand is not packed yet.                 *)
Distinct ==
  /\ \A a, b \in 1..Len(tracks) : tracks[a] = tracks[b] => a = b
  /\ \A a \in 1..Len(tracks) : tracks[a] \in seen
  /\ pc \in Active => music \in seen /\ \A a \in 1..Len(tracks) : tracks[a] # music

BatchInv == BatchType /\ Position /\ SlotsAligned /\ SongAtHand /\ Armed /\ Counted /\ Distinct

(* What is known of a request.                                             *)
LEMMA RequestFacts ==
  ASSUME ids \in Requests
  PROVE  /\ MaxSongs \in Nat /\ Len(ids) \in 1..MaxSongs
         /\ ids \in Seq(1..MaxSongs)
         /\ \A k \in 1..Len(ids) : ids[k] \in 1..MaxSongs
<1>1. MaxSongs \in Nat /\ Len(ids) \in 1..MaxSongs /\ ids \in Seq(1..MaxSongs)
  BY MaxSongsAssumption, RequestsAssumption
<1>2. QED
  BY <1>1

LEMMA BatchInitInv == Init => BatchInv
<1> SUFFICES ASSUME Init PROVE BatchInv
  OBVIOUS
<1>1. MaxSongs \in Nat /\ Len(ids) \in 1..MaxSongs
  BY RequestFacts DEF Init
<1>2. BatchType
  <2>1. trigger \in [Indices -> (0..MaxSongs) \X {None, "half", "quarter"}]
    BY <1>1 DEF Init
  <2>2. prefetch \in [Indices -> {None, "armed", "running", "info", "ended"}]
    BY DEF Init
  <2>3. tracks \in Seq(Music) /\ seen \subseteq Music
        /\ fired \subseteq Indices \X {"half", "quarter"}
    BY DEF Init
  <2>4. /\ ids \in Requests /\ i \in 0..(MaxSongs + 1) /\ music \in Music \cup {NoMusic}
        /\ n1 \in 0..MaxSongs /\ n2 \in 0..MaxSongs
        /\ completed \in Nat /\ failed \in Nat /\ skipped \in Nat
    BY <1>1 DEF Init
  <2>5. QED
    BY <2>1, <2>2, <2>3, <2>4 DEF Init, BatchType
<1>3. Position /\ SlotsAligned /\ SongAtHand
  BY <1>1 DEF Init, Position, SlotsAligned, SongAtHand, Resolving, Active
<1>4. Armed /\ Counted /\ Distinct
  BY <1>1, FS_EmptySet DEF Init, Armed, PrefetchesTriggered, None, Counted, Distinct, Resolving, Active
<1>5. QED
  BY <1>2, <1>3, <1>4 DEF BatchInv

-----------------------------------------------------------------------------
(* The song a slot is rotated to, wherever it comes from.                  *)
LEMMA ResolvedAligned ==
  ASSUME BatchType, Position, SlotsAligned, pc = "resolve",
         UsePrefetch \/ ResolveId
  PROVE  /\ i \in 1..Len(ids) /\ ids' = ids /\ music' = ids[i] /\ music' \in Music
         /\ n1' = n2 /\ n2' = 0 /\ n2 \in {0, i + 1}
         /\ IF music' \in seen
            THEN /\ skipped' = skipped + 1 /\ i' = i + 1 /\ pc' = "check"
                 /\ seen' = seen /\ stage' = stage
            ELSE /\ seen' = seen \cup {music'} /\ i' = i /\ skipped' = skipped
                 /\ pc' \in {"spawn", "parse"} /\ stage' = "Downloading"
         /\ UNCHANGED <<trigger, fired, tracks, completed, failed, cancelVars>>
         /\ \/ prefetch' = prefetch
            \/ \E j \in Indices : prefetch' = [prefetch EXCEPT ![j] = "ended"]
<1>1. i \in 1..Len(ids) /\ n1 \in {0, i} /\ n2 \in {0, i + 1}
  BY DEF Position, SlotsAligned, Active
<1>2. ids[i] \in Music
  BY <1>1, RequestFacts DEF BatchType, Music, Indices
<1>3. CASE UsePrefetch
  BY <1>1, <1>2, <1>3 DEF UsePrefetch, Resolved, Continue, BatchType, Indices
<1>4. CASE ResolveId
  BY <1>1, <1>2, <1>4 DEF ResolveId, Resolved, Continue, BatchType, Indices
<1>5. QED
  BY <1>3, <1>4

(* What arming the empty slots does.                                       *)
LEMMA SpawnFacts ==
  ASSUME BatchType, Position, SlotsAligned, Spawn
  PROVE  /\ pc = "spawn" /\ pc' = "permit" /\ i \in 1..Len(ids)
         /\ n1' \in {0, i + 1} /\ n1' \in 0..Len(ids)
         /\ n2' \in {0, i + 2} /\ n2' \in 0..Len(ids)
         /\ UNCHANGED <<ids, i, music, fired, countVars, stage, cancelVars>>
         /\ prefetch' \in [Indices -> {None, "armed", "running", "info", "ended"}]
         /\ trigger' \in [Indices -> (0..MaxSongs) \X {None, "half", "quarter"}]
         /\ \A j \in Indices :
              \/ prefetch'[j] = prefetch[j] /\ trigger'[j] = trigger[j]
              \/ trigger'[j][1] = i /\ trigger'[j][2] \in {"half", "quarter"}
<1> DEFINE half    == IF n1 = 0 /\ i + 1 <= Len(ids) THEN {i + 1} ELSE {}
           quarter == IF n2 = 0 /\ i + 2 <= Len(ids) THEN {i + 2} ELSE {}
<1>1. /\ pc = "spawn" /\ pc' = "permit"
      /\ UNCHANGED <<ids, i, music, fired, countVars, stage, cancelVars>>
      /\ n1' = IF half # {} THEN i + 1 ELSE n1
      /\ n2' = IF quarter # {} THEN i + 2 ELSE n2
      /\ prefetch' = [j \in Indices |-> IF j \in half \cup quarter THEN "armed" ELSE prefetch[j]]
      /\ trigger' = [j \in Indices |-> CASE j \in half -> <<i, "half">>
                                         [] j \in quarter -> <<i, "quarter">>
                                         [] OTHER -> trigger[j]]
  BY DEF Spawn
<1>2. i \in 1..Len(ids) /\ Len(ids) \in 1..MaxSongs /\ MaxSongs \in Nat
  BY <1>1, RequestFacts DEF Position, Active, BatchType
<1>3. n1 \in {0, i + 1} /\ n2 \in {0, i + 2} /\ {n1, n2} \subseteq 0..Len(ids)
  BY <1>1 DEF SlotsAligned
<1>4. half \in {{}, {i + 1}} /\ (half # {} => i + 1 <= Len(ids))
  OBVIOUS
<1>5. quarter \in {{}, {i + 2}} /\ (quarter # {} => i + 2 <= Len(ids))
  OBVIOUS
<1>6. n1' \in {0, i + 1} /\ n1' \in 0..Len(ids)
  BY <1>1, <1>2, <1>3, <1>4
<1>7. n2' \in {0, i + 2} /\ n2' \in 0..Len(ids)
  BY <1>1, <1>2, <1>3, <1>5
<1> HIDE DEF half, quarter
<1>8. prefetch' \in [Indices -> {None, "armed", "running", "info", "ended"}]
  BY <1>1 DEF BatchType
<1>9. \A j \in Indices :
        \/ j \in half /\ trigger'[j] = <<i, "half">>
        \/ j \in quarter /\ trigger'[j] = <<i, "quarter">>
        \/ prefetch'[j] = prefetch[j] /\ trigger'[j] = trigger[j]
  BY <1>1
<1>10. \A j \in Indices : trigger'[j] \in (0..MaxSongs) \X {None, "half", "quarter"}
  <2>1. i \in 0..MaxSongs
    BY <1>2
  <2>2. /\ <<i, "half">> \in (0..MaxSongs) \X {None, "half", "quarter"}
        /\ <<i, "quarter">> \in (0..MaxSongs) \X {None, "half", "quarter"}
    BY <2>1
  <2>3. \A j \in Indices : trigger[j] \in (0..MaxSongs) \X {None, "half", "quarter"}
    BY DEF BatchType
  <2>4. QED
    BY <1>9, <2>2, <2>3
<1>11. trigger' \in [Indices -> (0..MaxSongs) \X {None, "half", "quarter"}]
  BY <1>1, <1>10
<1>12. \A j \in Indices :
         \/ prefetch'[j] = prefetch[j] /\ trigger'[j] = trigger[j]
         \/ trigger'[j][1] = i /\ trigger'[j][2] \in {"half", "quarter"}
  BY <1>9
<1>13. pc = "spawn" /\ pc' = "permit" /\ i \in 1..Len(ids)
       /\ UNCHANGED <<ids, i, music, fired, countVars, stage, cancelVars>>
  BY <1>1, <1>2
<1>14. QED
  BY <1>13, <1>6, <1>7, <1>8, <1>11, <1>12

(* The song at hand, and both its triggers.                                *)
LEMMA AtHand ==
  ASSUME BatchType, Position, SongAtHand, pc \in Active
  PROVE  /\ i \in 1..Len(ids) /\ Len(ids) \in 1..MaxSongs /\ MaxSongs \in Nat
         /\ music = ids[i] /\ music \in Music
         /\ {<<i, "half">>, <<i, "quarter">>} \subseteq Indices \X {"half", "quarter"}
<1>1. i \in 1..Len(ids) /\ music = ids[i]
  BY DEF Position, SongAtHand
<1>2. Len(ids) \in 1..MaxSongs /\ MaxSongs \in Nat /\ ids[i] \in 1..MaxSongs
  BY <1>1, RequestFacts DEF BatchType
<1>3. i \in Indices
  BY <1>1, <1>2 DEF Indices
<1>4. QED
  BY <1>1, <1>2, <1>3 DEF Music, Indices

(* The exits of an iteration that fire both triggers.                      *)
Exit == PermitTimeout \/ Cached \/ NoSpace \/ Downloaded \/ DownloadFails

LEMMA ExitFacts ==
  ASSUME BatchType, Position, SongAtHand, Exit
  PROVE  /\ pc \in {"permit", "download"} /\ pc' = "check" /\ i' = i + 1
         /\ fired' = fired \cup {<<i, "half">>, <<i, "quarter">>}
         /\ UNCHANGED <<ids, music, slotVars, seen, skipped, stage, cancelVars>>
         /\ \/ /\ failed' = failed + 1 /\ completed' = completed /\ tracks' = tracks
            \/ /\ failed' = failed /\ completed' = completed + 1
               /\ tracks' = Append(tracks, music)
BY DEF Exit, PermitTimeout, Cached, NoSpace, Downloaded, DownloadFails, Append1,
       FireBoth, Continue

(* Every step is of one of these kinds.                                    *)
LEMMA Kinds ==
  ASSUME [Next]_vars
  PROVE  \/ UsePrefetch \/ ResolveId \/ Spawn \/ Exit \/ ParseFails \/ Break \/ Progress
         \/ Begin \/ Check \/ Wrap
         \/ Busy \/ Parse \/ Download \/ BuildZip
         \/ \E j \in Indices : PrefetchStarts(j) \/ PrefetchEnds(j)
         \/ CancelMark \/ CancelStage \/ UNCHANGED vars
BY DEF Next, WorkerStep, Exit

LEMMA BatchNextType ==
  ASSUME BatchType, Position, SlotsAligned, SongAtHand, [Next]_vars
  PROVE  BatchType'
<1> USE DEF BatchType, cancelVars
<1>1. CASE UsePrefetch \/ ResolveId
  <2>1. pc = "resolve"
    BY <1>1 DEF UsePrefetch, ResolveId
  <2>2. PICK f \in {prefetch} \cup {[prefetch EXCEPT ![j] = "ended"] : j \in Indices} : prefetch' = f
    BY <1>1, <2>1, ResolvedAligned
  <2>3. prefetch' \in [Indices -> {None, "armed", "running", "info", "ended"}]
    BY <2>2
  <2>4. Len(ids) \in 1..MaxSongs /\ MaxSongs \in Nat
    BY RequestFacts
  <2>5. /\ i' \in 0..(MaxSongs + 1) /\ seen' \subseteq Music /\ skipped' \in Nat
        /\ pc' \in Resolving \cup Active /\ music' \in Music
        /\ stage' \in {"Starting", "Downloading", "Packaging", "Done", "Error"}
    <3>1. /\ i \in 1..Len(ids) /\ skipped \in Nat /\ seen \subseteq Music /\ music' \in Music
          /\ stage \in {"Starting", "Downloading", "Packaging", "Done", "Error"}
          /\ \/ /\ skipped' = skipped + 1 /\ i' = i + 1 /\ pc' = "check"
                /\ seen' = seen /\ stage' = stage
             \/ /\ seen' = seen \cup {music'} /\ i' = i /\ skipped' = skipped
                /\ pc' \in {"spawn", "parse"} /\ stage' = "Downloading"
      BY <1>1, <2>1, ResolvedAligned
    <3>2. i' \in 0..(MaxSongs + 1) /\ skipped' \in Nat
      BY <2>4, <3>1
    <3>3. /\ seen' \subseteq Music /\ pc' \in Resolving \cup Active
          /\ stage' \in {"Starting", "Downloading", "Packaging", "Done", "Error"}
      BY <3>1 DEF Resolving, Active
    <3>4. QED
      BY <3>1, <3>2, <3>3
  <2>6. /\ UNCHANGED <<ids, trigger, fired, tracks, completed, failed, cancelVars>>
        /\ n1' \in 0..MaxSongs /\ n2' \in 0..MaxSongs
    BY <1>1, <2>1, <2>4, ResolvedAligned
  <2>7. QED
    BY <2>3, <2>5, <2>6
<1>2. CASE Spawn
  <2>1. Len(ids) \in 1..MaxSongs /\ MaxSongs \in Nat
    BY RequestFacts
  <2>2. QED
    BY <1>2, <2>1, SpawnFacts DEF Active, countVars
<1>3. CASE Exit
  <2>1. pc \in Active
    BY <1>3, ExitFacts DEF Active
  <2>2. i \in 1..Len(ids) /\ Len(ids) \in 1..MaxSongs /\ MaxSongs \in Nat /\ music \in Music
        /\ {<<i, "half">>, <<i, "quarter">>} \subseteq Indices \X {"half", "quarter"}
    BY <2>1, AtHand
  <2>3. /\ fired' = fired \cup {<<i, "half">>, <<i, "quarter">>} /\ i' = i + 1
        /\ pc' = "check" /\ UNCHANGED <<ids, music, slotVars, seen, skipped, stage, cancelVars>>
    BY <1>3, ExitFacts
  <2>4. fired' \subseteq Indices \X {"half", "quarter"}
    BY <2>2, <2>3
  <2>5. i' \in 0..(MaxSongs + 1)
    BY <2>2, <2>3
  <2>6. completed' \in Nat /\ failed' \in Nat /\ tracks' \in {tracks, Append(tracks, music)}
    BY <1>3, ExitFacts
  <2>7. tracks' \in Seq(Music)
    <3>1. tracks \in Seq(Music)
      OBVIOUS
    <3>2. Append(tracks, music) \in Seq(Music)
      BY <2>2, <3>1
    <3>3. QED
      BY <2>6, <3>1, <3>2
  <2>8. QED
    BY <2>3, <2>4, <2>5, <2>6, <2>7 DEF Resolving, slotVars
<1>4. CASE ParseFails
  <2>1. i' \in 0..(MaxSongs + 1)
    BY <1>4, AtHand DEF ParseFails, Continue, Active
  <2>2. QED
    BY <1>4, <2>1 DEF ParseFails, Continue, slotVars, Resolving
<1>5. CASE Break
  <2>1. prefetch' \in [Indices -> {None, "armed", "running", "info", "ended"}]
    BY <1>5 DEF Break
  <2>2. /\ n1' = 0 /\ n2' = 0 /\ pc' = "wrap" /\ cancelled' = FALSE
        /\ UNCHANGED <<ids, i, music, trigger, fired, seen, tracks, completed, failed,
                       skipped, stage, cancelling>>
    BY <1>5 DEF Break, countVars
  <2>3. n1' \in 0..MaxSongs /\ n2' \in 0..MaxSongs
    BY <2>2, MaxSongsAssumption
  <2>4. cancelled' \in BOOLEAN
    BY <2>2
  <2>5. QED
    BY <2>1, <2>2, <2>3, <2>4
<1>6. CASE Progress
  <2>1. fired' \subseteq Indices \X {"half", "quarter"}
    BY <1>6, AtHand DEF Progress, Active
  <2>2. QED
    BY <1>6, <2>1 DEF Progress, slotVars, countVars
<1>7. CASE Begin
  <2>1. i' \in 0..(MaxSongs + 1) /\ pc' \in Resolving
    BY <1>7, MaxSongsAssumption DEF Begin, Resolving
  <2>2. QED
    BY <1>7, <2>1 DEF Begin, slotVars, countVars
<1>11. CASE Check \/ Wrap
  <2>1. /\ pc' \in {"wrap", "zip", "end"} \cup Resolving
        /\ stage' \in {"Starting", "Downloading", "Packaging", "Done", "Error"}
    BY <1>11 DEF Check, Wrap, Resolving
  <2>2. QED
    BY <1>11, <2>1 DEF Check, Wrap, slotVars, countVars
<1>8. CASE Busy \/ Parse \/ Download \/ BuildZip
  BY <1>8 DEF Busy, Parse, Download, BuildZip, slotVars, countVars, Active
<1>9. CASE \E j \in Indices : PrefetchStarts(j) \/ PrefetchEnds(j)
  BY <1>9 DEF PrefetchStarts, PrefetchEnds, countVars
<1>10. CASE CancelMark \/ CancelStage \/ UNCHANGED vars
  BY <1>10 DEF CancelMark, CancelStage, vars, slotVars, countVars
<1>12. QED
  BY <1>1, <1>2, <1>3, <1>4, <1>5, <1>6, <1>7, <1>8, <1>9, <1>10, <1>11, Kinds

(* The slots rotate with the iterations.                                   *)
LEMMA BatchNextPlace ==
  ASSUME BatchType, Position, SlotsAligned, SongAtHand, [Next]_vars
  PROVE  Position' /\ SlotsAligned' /\ SongAtHand'
<1> USE DEF Position, SlotsAligned, SongAtHand, Resolving, Active
<1>0. Len(ids) \in 1..MaxSongs /\ MaxSongs \in Nat
  BY RequestFacts DEF BatchType
<1>1. CASE UsePrefetch \/ ResolveId
  <2>1. pc = "resolve"
    BY <1>1 DEF UsePrefetch, ResolveId
  <2>2. /\ i \in 1..Len(ids) /\ ids' = ids /\ music' = ids[i]
        /\ n1' = n2 /\ n2' = 0 /\ n2 \in {0, i + 1} /\ n2 \in 0..Len(ids)
        /\ \/ i' = i + 1 /\ pc' = "check"
           \/ i' = i /\ pc' \in {"spawn", "parse"}
    BY <1>1, <2>1, ResolvedAligned
  <2>3. QED
    BY <1>0, <2>2
<1>2. CASE Spawn
  BY <1>0, <1>2, SpawnFacts
<1>3. CASE Exit
  BY <1>0, <1>3, ExitFacts DEF slotVars
<1>4. CASE ParseFails
  BY <1>0, <1>4 DEF ParseFails, Continue, slotVars
<1>5. CASE Break \/ Progress
  BY <1>0, <1>5 DEF Break, Progress, slotVars
<1>6. CASE Begin \/ Check \/ Wrap
  BY <1>0, <1>6 DEF Begin, Check, Wrap, slotVars, BatchType
<1>7. CASE Busy \/ Parse \/ Download \/ BuildZip
  BY <1>7 DEF Busy, Parse, Download, BuildZip, slotVars, countVars
<1>8. CASE \E j \in Indices : PrefetchStarts(j) \/ PrefetchEnds(j)
  BY <1>8 DEF PrefetchStarts, PrefetchEnds, countVars
<1>9. CASE CancelMark \/ CancelStage \/ UNCHANGED vars
  BY <1>9 DEF CancelMark, CancelStage, vars, slotVars, countVars
<1>10. QED
  BY <1>1, <1>2, <1>3, <1>4, <1>5, <1>6, <1>7, <1>8, <1>9, Kinds

(* An iteration leaves no prefetch waiting for its triggers.               *)
LEMMA BatchNextArmed ==
  ASSUME BatchType, Position, SlotsAligned, SongAtHand, Armed, [Next]_vars
  PROVE  Armed'
<1> USE DEF Armed, PrefetchesTriggered
<1>1. CASE UsePrefetch \/ ResolveId
  <2>1. pc = "resolve"
    BY <1>1 DEF UsePrefetch, ResolveId
  <2>2. \A j \in Indices : prefetch'[j] = "armed" => prefetch[j] = "armed"
    BY <1>1, <2>1, ResolvedAligned DEF BatchType
  <2>3. trigger' = trigger /\ fired' = fired
    BY <1>1, <2>1, ResolvedAligned
  <2>4. QED
    BY <2>1, <2>2, <2>3
<1>2. CASE Spawn
  BY <1>2, SpawnFacts
<1>3. CASE Exit
  <2>1. /\ fired' = fired \cup {<<i, "half">>, <<i, "quarter">>}
        /\ prefetch' = prefetch /\ trigger' = trigger
    BY <1>3, ExitFacts DEF slotVars
  <2>2. \A j \in Indices : trigger[j] = <<trigger[j][1], trigger[j][2]>>
    BY DEF BatchType
  <2>3. QED
    BY <2>1, <2>2
<1>4. CASE ParseFails \/ Begin \/ Check \/ Wrap \/ Busy \/ Parse
  BY <1>4 DEF ParseFails, Begin, Check, Wrap, Busy, Parse, slotVars
<1>5. CASE Break
  BY <1>5 DEF Break, BatchType
<1>6. CASE Progress \/ Download \/ BuildZip
  BY <1>6 DEF Progress, Download, BuildZip, slotVars
<1>7. CASE \E j \in Indices : PrefetchStarts(j) \/ PrefetchEnds(j)
  BY <1>7 DEF PrefetchStarts, PrefetchEnds, BatchType
<1>8. CASE CancelMark \/ CancelStage \/ UNCHANGED vars
  BY <1>8 DEF CancelMark, CancelStage, vars, slotVars
<1>9. QED
  BY <1>1, <1>2, <1>3, <1>4, <1>5, <1>6, <1>7, <1>8, Kinds

(* Every song is counted once, when its iteration is left.                 *)
LEMMA BatchNextCounted ==
  ASSUME BatchType, Position, SlotsAligned, SongAtHand, Counted, Distinct, [Next]_vars
  PROVE  Counted' /\ Distinct'
<1> USE DEF Counted, Distinct, Resolving, Active
<1>0. Len(ids) \in 1..MaxSongs /\ MaxSongs \in Nat
  BY RequestFacts DEF BatchType
<1>1. CASE UsePrefetch \/ ResolveId
  <2>1. pc = "resolve"
    BY <1>1 DEF UsePrefetch, ResolveId
  <2>2. /\ i \in 1..Len(ids) /\ ids' = ids /\ music' = ids[i]
        /\ UNCHANGED <<tracks, completed, failed>>
    BY <1>1, <2>1, ResolvedAligned
  <2>3. IsFiniteSet(seen) /\ Cardinality(seen) \in Nat
    <3>1. IsFiniteSet(1..MaxSongs) /\ seen \in SUBSET (1..MaxSongs)
      BY <1>0, FS_Interval DEF BatchType, Music, Indices
    <3>2. IsFiniteSet(seen)
      BY <3>1, FS_Subset
    <3>3. QED
      BY <3>2, FS_CardinalityType
  <2>4. seen \cup {ids[i]} = {ids[k] : k \in 1..i}
    BY <2>1, <2>2
  <2>5. CASE music' \in seen
    <3>1. skipped' = skipped + 1 /\ i' = i + 1 /\ pc' = "check" /\ seen' = seen
      BY <1>1, <2>1, <2>5, ResolvedAligned
    <3>2. seen = {ids[k] : k \in 1..i}
      BY <2>2, <2>4, <2>5
    <3>3. QED
      BY <1>0, <2>1, <2>2, <3>1, <3>2 DEF BatchType
  <2>6. CASE music' \notin seen
    <3>1. seen' = seen \cup {music'} /\ i' = i /\ skipped' = skipped /\ pc' \in {"spawn", "parse"}
      BY <1>1, <2>1, <2>6, ResolvedAligned
    <3>2. Cardinality(seen') = Cardinality(seen) + 1
      BY <2>3, <2>6, <3>1, FS_AddElement
    <3>3. Counted'
      BY <1>0, <2>1, <2>2, <2>4, <3>1, <3>2 DEF BatchType
    <3>4. Distinct'
      BY <2>2, <2>6, <3>1
    <3>5. QED
      BY <3>3, <3>4
  <2>7. QED
    BY <2>5, <2>6
<1>2. CASE Spawn
  BY <1>2, SpawnFacts DEF countVars
<1>3. CASE Exit
  <2>1. pc \in Active
    BY <1>3, ExitFacts
  <2>2. /\ pc' = "check" /\ i' = i + 1
        /\ UNCHANGED <<ids, music, seen, skipped>>
        /\ \/ failed' = failed + 1 /\ completed' = completed /\ tracks' = tracks
           \/ failed' = failed /\ completed' = completed + 1 /\ tracks' = Append(tracks, music)
    BY <1>3, ExitFacts
  <2>3. i \in 1..Len(ids) /\ music \in Music
    BY <2>1, AtHand
  <2>4. tracks \in Seq(Music) /\ failed \in Nat /\ completed \in Nat /\ skipped \in Nat
    BY DEF BatchType
  <2>5. /\ completed + failed + skipped = i - 1 /\ completed + failed + 1 = Cardinality(seen)
        /\ completed = Len(tracks)
    BY <2>1
  <2>6. seen' = {ids'[k] : k \in 1..(i' - 1)}
    <3>1. seen = {ids[k] : k \in 1..i} /\ i' - 1 = i
      BY <2>1, <2>2, <2>3
    <3>2. QED
      BY <2>2, <3>1
  <2>7. CASE tracks' = tracks
    <3>1. Distinct'
      BY <2>1, <2>2, <2>7
    <3>2. failed' = failed + 1 /\ completed' = completed
      <4>1. Append(tracks, music) # tracks
        BY <2>3, <2>4
      <4>2. QED
        BY <2>2, <2>7, <4>1
    <3>3. Counted'
      BY <1>0, <2>2, <2>3, <2>4, <2>5, <2>6, <2>7, <3>2
    <3>4. QED
      BY <3>1, <3>3
  <2>8. CASE tracks' = Append(tracks, music)
    <3>1. /\ Len(tracks') = Len(tracks) + 1 /\ Len(tracks) \in Nat
          /\ \A a \in 1..Len(tracks') :
               tracks'[a] = IF a = Len(tracks) + 1 THEN music ELSE tracks[a]
      BY <2>3, <2>4, <2>8
    <3>2. Distinct'
      BY <2>1, <2>2, <3>1
    <3>3. failed' = failed /\ completed' = completed + 1
      BY <2>2, <2>4, <2>8, <3>1
    <3>4. Counted'
      BY <1>0, <2>2, <2>3, <2>4, <2>5, <2>6, <3>1, <3>3
    <3>5. QED
      BY <3>2, <3>4
  <2>9. QED
    BY <2>2, <2>7, <2>8
<1>4. CASE ParseFails
  BY <1>0, <1>4, AtHand DEF ParseFails, Continue, BatchType
<1>5. CASE Break \/ Progress \/ Wrap \/ Check
  <2>1. /\ UNCHANGED <<ids, i, music, seen, tracks, completed, failed, skipped>>
        /\ \/ pc' \in {"wrap", "zip", "end"}
           \/ pc' = pc
           \/ pc \in Resolving /\ pc' \in Resolving
    BY <1>5 DEF Break, Progress, Wrap, Check, countVars
  <2>2. QED
    BY <2>1
<1>6. CASE Begin
  <2>1. Cardinality({}) = 0 /\ {ids[k] : k \in 1..0} = {}
    BY FS_EmptySet
  <2>2. /\ i' = 1 /\ pc' = "check" /\ ids' = ids
        /\ seen' = {} /\ tracks' = <<>>
        /\ completed' = 0 /\ failed' = 0 /\ skipped' = 0
    BY <1>6 DEF Begin, countVars, Position
  <2>3. {ids'[k] : k \in 1..(i' - 1)} = {}
    BY <2>1, <2>2
  <2>4. Counted'
    BY <1>0, <2>1, <2>2, <2>3
  <2>5. Distinct'
    BY <2>2
  <2>6. QED
    BY <2>4, <2>5
<1>7. CASE Busy \/ Parse \/ Download \/ BuildZip
  BY <1>7 DEF Busy, Parse, Download, BuildZip, countVars
<1>8. CASE \E j \in Indices : PrefetchStarts(j) \/ PrefetchEnds(j)
  BY <1>8 DEF PrefetchStarts, PrefetchEnds, countVars
<1>9. CASE CancelMark \/ CancelStage \/ UNCHANGED vars
  BY <1>9 DEF CancelMark, CancelStage, vars, countVars
<1>10. QED
  BY <1>1, <1>2, <1>3, <1>4, <1>5, <1>6, <1>7, <1>8, <1>9, Kinds

-----------------------------------------------------------------------------
(* The invariants of Batch hold for requests of any length.                *)
THEOREM BatchInvariant == Spec => []BatchInv
<1>1. BatchInv /\ [Next]_vars => BatchInv'
  BY BatchNextType, BatchNextPlace, BatchNextArmed, BatchNextCounted DEF BatchInv
<1>2. QED
  BY BatchInitInv, <1>1, PTL DEF Spec

(* Every variable keeps its type and no count exceeds the request.         *)
THEOREM BatchTypeCorrect == Spec => []TypeOK
<1>1. BatchInv => TypeOK
  <2> SUFFICES ASSUME BatchInv PROVE TypeOK
    OBVIOUS
  <2>1. Len(ids) \in 1..MaxSongs /\ MaxSongs \in Nat
    BY RequestFacts DEF BatchInv, BatchType
  <2>2. {completed, failed, skipped} \subseteq 0..MaxSongs
    BY <2>1 DEF BatchInv, BatchType, Counted
  <2>3. QED
    BY <2>1, <2>2 DEF BatchInv, BatchType, TypeOK, Resolving, Active, Indices
<1>2. QED
  BY BatchInvariant, <1>1, PTL

(* No song is downloaded under another one's information                   *)
(* (download_batch.rs:304, 336).                                           *)
THEOREM SlotsStayAligned == Spec => []SlotsAligned
<1>1. BatchInv => SlotsAligned
  BY DEF BatchInv
<1>2. QED
  BY BatchInvariant, <1>1, PTL

(* A prefetch waits only for a song that is being downloaded               *)
(* (download_batch.rs:474, 489, 559, 587).                                 *)
THEOREM PrefetchesGetTriggered == Spec => []PrefetchesTriggered
<1>1. BatchInv => PrefetchesTriggered
  BY DEF BatchInv, Armed
<1>2. QED
  BY BatchInvariant, <1>1, PTL

(* Every song dealt with is counted once, as completed, failed or skipped. *)
THEOREM BatchAccounts == Spec => []CountsAddUp
<1>1. BatchInv => CountsAddUp
  BY DEF BatchInv, Counted, CountsAddUp, Resolving
<1>2. QED
  BY BatchInvariant, <1>1, PTL

(* No zip holds a song twice, whatever ids the request repeats.            *)
THEOREM ZipsHoldNoTwice == Spec => []TracksDistinct
<1>1. BatchInv => TracksDistinct
  <2> SUFFICES ASSUME BatchInv PROVE TracksDistinct
    OBVIOUS
  <2>1. DOMAIN tracks = 1..Len(tracks)
    BY DEF BatchInv, BatchType
  <2>2. QED
    BY <2>1 DEF BatchInv, Distinct, TracksDistinct, IsInjective, ToSet
<1>2. QED
  BY BatchInvariant, <1>1, PTL
=============================================================================
