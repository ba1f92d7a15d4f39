--------------------------- MODULE PermitsProofs ---------------------------
(***************************************************************************)
(* No request loses or makes a permit, the gauges count the guards, who    *)
(* waits is in the queue, and a semaphore that is resized ends at its cap, *)
(* for any number of requests of each kind and any administrators.         *)
(***************************************************************************)
EXTENDS Permits, FiniteSetTheorems, SequenceTheorems, TLAPS

(* Semaphores a request of kind k has tried to get a permit of before its  *)
(* n-th instruction.                                                       *)
Earlier(k, n) ==
  {s \in Sems : \E m \in DOMAIN Program[k] :
     m < n /\ Program[k][m].op # "drop" /\ Program[k][m].sem = s}

Shape ==
  /\ at \in [Actors -> Nat \ {0}] /\ guards \in [Actors -> SUBSET Sems]
  /\ phase \in [Actors -> {"idle", "run", "queued", "unwind"}]
  /\ free \in [Sems -> Int] /\ gauge \in [Counted -> Nat]

(* A limit an administrator asks for, and what is then to be added or      *)
(* forgotten.                                                              *)
Request == [stage : {"none", "store", "swap", "add", "forget"},
            old : Nat, to : {0} \cup Caps, take : Nat]
SoundRequest ==
  {r \in Request : /\ r.stage # "none" => r.to \in Caps
                   /\ r.stage = "add" => r.to > r.old
                   /\ r.stage = "forget" => r.take > 0}

LimitsInv ==
  /\ cap \in Caps /\ config \in Caps /\ missed \in BOOLEAN
  /\ admin \in [Admins -> SoundRequest]

(* What a request holds it has asked for earlier.                          *)
Follows(a) ==
  /\ phase[a] = "idle" => guards[a] = {} /\ at[a] = 1
  /\ phase[a] \in {"run", "queued"} => guards[a] \subseteq Earlier(Kind[a], at[a])
  /\ phase[a] = "queued" =>
       at[a] \in DOMAIN Program[Kind[a]] /\ Instr(a).op = "acquire"

GuardsFollow == \A a \in Actors : Follows(a)

PermitInv == Shape /\ GuardsFollow /\ GaugeCountsGuards /\ Conserved

-----------------------------------------------------------------------------
(* Each program asks for each semaphore once.                              *)
LEMMA AskedOnce ==
  ASSUME NEW k \in Kinds, NEW n \in DOMAIN Program[k], Program[k][n].op # "drop"
  PROVE  Program[k][n].sem \in Sems /\ Program[k][n].sem \notin Earlier(k, n)
<1>0. /\ Program["async"] = AsyncProgram /\ Program["sync"] = SyncProgram
      /\ Program["gather"] = GatherProgram /\ Program["batch"] = BatchProgram
      /\ Program["parse"] = ParseProgram
  BY DEF Program
<1>1. CASE k = "async"
  <2>1. DOMAIN Program[k] = 1..4 /\ n \in 1..4
    BY <1>0, <1>1 DEF AsyncProgram
  <2>2. /\ Program[k][1].op = "acquire" /\ Program[k][1].sem = "download"
        /\ Program[k][2].op = "acquire" /\ Program[k][2].sem = "parse"
        /\ Program[k][3].op = "drop" /\ Program[k][3].sem = "parse"
        /\ Program[k][4].op = "drop" /\ Program[k][4].sem = "download"
    BY <1>0, <1>1 DEF AsyncProgram, Acquire, TryAcquire, Drop
  <2>3. QED
    BY <2>1, <2>2 DEF Earlier, Sems
<1>2. CASE k = "sync"
  <2>1. DOMAIN Program[k] = 1..4 /\ n \in 1..4
    BY <1>0, <1>2 DEF SyncProgram
  <2>2. /\ Program[k][1].op = "acquire" /\ Program[k][1].sem = "parse"
        /\ Program[k][2].op = "acquire" /\ Program[k][2].sem = "download"
        /\ Program[k][3].op = "drop" /\ Program[k][3].sem = "parse"
        /\ Program[k][4].op = "drop" /\ Program[k][4].sem = "download"
    BY <1>0, <1>2 DEF SyncProgram, Acquire, TryAcquire, Drop
  <2>3. QED
    BY <2>1, <2>2 DEF Earlier, Sems
<1>3. CASE k = "gather"
  <2>1. DOMAIN Program[k] = 1..4 /\ n \in 1..4
    BY <1>0, <1>3 DEF GatherProgram
  <2>2. /\ Program[k][1].op = "acquire" /\ Program[k][1].sem = "parse"
        /\ Program[k][2].op = "acquire" /\ Program[k][2].sem = "download"
        /\ Program[k][3].op = "drop" /\ Program[k][3].sem = "download"
        /\ Program[k][4].op = "drop" /\ Program[k][4].sem = "parse"
    BY <1>0, <1>3 DEF GatherProgram, Acquire, TryAcquire, Drop
  <2>3. QED
    BY <2>1, <2>2 DEF Earlier, Sems
<1>4. CASE k = "batch"
  <2>1. DOMAIN Program[k] = 1..6 /\ n \in 1..6
    BY <1>0, <1>4 DEF BatchProgram
  <2>2. /\ Program[k][1].op = "try" /\ Program[k][1].sem = "batch"
        /\ Program[k][2].op = "acquire" /\ Program[k][2].sem = "parse"
        /\ Program[k][3].op = "drop" /\ Program[k][3].sem = "parse"
        /\ Program[k][4].op = "acquire" /\ Program[k][4].sem = "download"
        /\ Program[k][5].op = "drop" /\ Program[k][5].sem = "download"
        /\ Program[k][6].op = "drop" /\ Program[k][6].sem = "batch"
    BY <1>0, <1>4 DEF BatchProgram, Acquire, TryAcquire, Drop
  <2>3. QED
    BY <2>1, <2>2 DEF Earlier, Sems
<1>5. CASE k = "parse"
  <2>1. DOMAIN Program[k] = 1..2 /\ n \in 1..2
    BY <1>0, <1>5 DEF ParseProgram
  <2>2. /\ Program[k][1].op = "acquire" /\ Program[k][1].sem = "parse"
        /\ Program[k][2].op = "drop" /\ Program[k][2].sem = "parse"
    BY <1>0, <1>5 DEF ParseProgram, Acquire, TryAcquire, Drop
  <2>3. QED
    BY <2>1, <2>2 DEF Earlier, Sems
<1>6. QED
  BY <1>1, <1>2, <1>3, <1>4, <1>5 DEF Kinds

LEMMA EarlierGrows ==
  ASSUME NEW k \in Kinds, NEW n \in DOMAIN Program[k], n \in Nat
  PROVE  /\ Earlier(k, n) \subseteq Earlier(k, n + 1)
         /\ Program[k][n].op # "drop" /\ Program[k][n].sem \in Sems
              => Program[k][n].sem \in Earlier(k, n + 1)
<1>1. DOMAIN Program[k] \in {1..2, 1..4, 1..6}
  BY DEF Program, Kinds, AsyncProgram, SyncProgram, GatherProgram, BatchProgram, ParseProgram
<1>2. QED
  BY <1>1 DEF Earlier

LEMMA ProgramsAreSequences ==
  ASSUME NEW k \in Kinds
  PROVE  Len(Program[k]) \in Nat /\ DOMAIN Program[k] = 1..Len(Program[k])
BY DEF Program, Kinds, AsyncProgram, SyncProgram, GatherProgram, BatchProgram, ParseProgram

LEMMA InstructionAtHand ==
  ASSUME Shape, NEW a \in Actors, NEW op, AtOp(a, op)
  PROVE  at[a] \in DOMAIN Program[Kind[a]] /\ Kind[a] \in Kinds
BY ProgramsAreSequences, ActorsAssumption DEF Shape, AtOp

-----------------------------------------------------------------------------
(* How many hold a permit of each semaphore, after one is taken or dropped. *)
LEMMA TakenByOne ==
  ASSUME guards \in [Actors -> SUBSET Sems], NEW a \in Actors, NEW s \in Sems,
         s \notin guards[a], guards' = [guards EXCEPT ![a] = @ \cup {s}]
  PROVE  /\ guards' \in [Actors -> SUBSET Sems]
         /\ \A o \in Sems : /\ Held(o) \in Nat
                            /\ Held(o)' = IF o = s THEN Held(o) + 1 ELSE Held(o)
<1> DEFINE Holders(o) == {b \in Actors : o \in guards[b]}
<1>1. guards' \in [Actors -> SUBSET Sems]
  OBVIOUS
<1>2. ASSUME NEW o \in Sems
      PROVE  Held(o) \in Nat /\ Held(o)' = IF o = s THEN Held(o) + 1 ELSE Held(o)
  <2>1. Held(o) = Cardinality(Holders(o)) /\ Held(o)' = Cardinality(Holders(o)')
    BY DEF Held, Holds
  <2>2. IsFiniteSet(Holders(o))
    BY FS_Subset, ActorsAssumption
  <2>3. Holders(o)' = IF o = s THEN Holders(o) \cup {a} ELSE Holders(o)
    OBVIOUS
  <2>4. a \notin Holders(s)
    OBVIOUS
  <2> HIDE DEF Holders
  <2>5. Cardinality(Holders(o)) \in Nat
    BY <2>2, FS_CardinalityType
  <2>6. o = s => Cardinality(Holders(o) \cup {a}) = Cardinality(Holders(o)) + 1
    BY <2>2, <2>4, FS_AddElement
  <2>7. QED
    BY <2>1, <2>3, <2>5, <2>6
<1>3. QED
  BY <1>1, <1>2

LEMMA DroppedByOne ==
  ASSUME guards \in [Actors -> SUBSET Sems], NEW a \in Actors, NEW s \in Sems,
         s \in guards[a], guards' = [guards EXCEPT ![a] = @ \ {s}]
  PROVE  /\ guards' \in [Actors -> SUBSET Sems]
         /\ \A o \in Sems : /\ Held(o) \in Nat
                            /\ Held(o)' = IF o = s THEN Held(o) - 1 ELSE Held(o)
<1> DEFINE Holders(o) == {b \in Actors : o \in guards[b]}
<1>1. guards' \in [Actors -> SUBSET Sems]
  OBVIOUS
<1>2. ASSUME NEW o \in Sems
      PROVE  Held(o) \in Nat /\ Held(o)' = IF o = s THEN Held(o) - 1 ELSE Held(o)
  <2>1. Held(o) = Cardinality(Holders(o)) /\ Held(o)' = Cardinality(Holders(o)')
    BY DEF Held, Holds
  <2>2. IsFiniteSet(Holders(o))
    BY FS_Subset, ActorsAssumption
  <2>3. Holders(o)' = IF o = s THEN Holders(o) \ {a} ELSE Holders(o)
    OBVIOUS
  <2>4. a \in Holders(s)
    OBVIOUS
  <2> HIDE DEF Holders
  <2>5. Cardinality(Holders(o)) \in Nat
    BY <2>2, FS_CardinalityType
  <2>6. o = s => Cardinality(Holders(o) \ {a}) = Cardinality(Holders(o)) - 1
    BY <2>2, <2>4, FS_RemoveElement
  <2>7. QED
    BY <2>1, <2>3, <2>5, <2>6
<1>3. QED
  BY <1>1, <1>2

(* A guard carries its permit and its count, both ways.                    *)
LEMMA TakeCounts ==
  ASSUME PermitInv, NEW a \in Actors, NEW s \in Sems, s \notin guards[a], Take(a, s)
  PROVE  /\ at' \in [Actors -> Nat \ {0}] /\ guards' \in [Actors -> SUBSET Sems]
         /\ free' \in [Sems -> Int] /\ gauge' \in [Counted -> Nat]
         /\ GaugeCountsGuards' /\ Conserved'
<1>1. /\ guards' \in [Actors -> SUBSET Sems]
      /\ \A o \in Sems : /\ Held(o) \in Nat
                         /\ Held(o)' = IF o = s THEN Held(o) + 1 ELSE Held(o)
  BY TakenByOne DEF PermitInv, Shape, Take
<1>2. at' \in [Actors -> Nat \ {0}] /\ free' \in [Sems -> Int] /\ gauge' \in [Counted -> Nat]
  BY DEF PermitInv, Shape, Take, Counted, Sems
<1>3. GaugeCountsGuards'
  <2> SUFFICES ASSUME NEW c \in Counted PROVE gauge'[c] = Held(c)'
    BY DEF GaugeCountsGuards
  <2>1. gauge[c] = Held(c) /\ c \in Sems
    BY DEF PermitInv, GaugeCountsGuards, Counted, Sems
  <2>2. gauge'[c] = IF c = s THEN gauge[c] + 1 ELSE gauge[c]
    BY DEF PermitInv, Shape, Take
  <2>3. QED
    BY <1>1, <2>1, <2>2
<1>4. Conserved'
  <2> SUFFICES ASSUME NEW o \in Sems \ {Resized} PROVE Circulating(o)' = Limit
    BY DEF Conserved
  <2>1. free[o] + Held(o) = Limit /\ free[o] \in Int
    BY DEF PermitInv, Shape, Conserved, Circulating
  <2>2. free'[o] = IF o = s THEN free[o] - 1 ELSE free[o]
    BY DEF PermitInv, Shape, Take
  <2>3. QED
    BY <1>1, <2>1, <2>2 DEF Circulating
<1>5. QED
  BY <1>1, <1>2, <1>3, <1>4

LEMMA GiveBackCounts ==
  ASSUME PermitInv, NEW a \in Actors, NEW s \in Sems, s \in guards[a], GiveBack(a, s)
  PROVE  /\ guards' \in [Actors -> SUBSET Sems]
         /\ free' \in [Sems -> Int] /\ gauge' \in [Counted -> Nat]
         /\ GaugeCountsGuards' /\ Conserved'
<1>1. /\ guards' \in [Actors -> SUBSET Sems]
      /\ \A o \in Sems : /\ Held(o) \in Nat
                         /\ Held(o)' = IF o = s THEN Held(o) - 1 ELSE Held(o)
  BY DroppedByOne DEF PermitInv, Shape, GiveBack
<1>2. free' \in [Sems -> Int] /\ gauge' \in [Counted -> Nat]
  BY DEF PermitInv, Shape, GiveBack, Counted, Sems, Decremented
<1>3. GaugeCountsGuards'
  <2> SUFFICES ASSUME NEW c \in Counted PROVE gauge'[c] = Held(c)'
    BY DEF GaugeCountsGuards
  <2>1. gauge[c] = Held(c) /\ c \in Sems
    BY DEF PermitInv, GaugeCountsGuards, Counted, Sems
  <2>2. gauge'[c] = IF c = s THEN Decremented(gauge[c]) ELSE gauge[c]
    BY DEF PermitInv, Shape, GiveBack
  <2>3. (* Somebody holds it: the gauge is not clamped. *)
        Held(s) > 0
    <3> DEFINE Holders == {b \in Actors : s \in guards[b]}
    <3>1. IsFiniteSet(Holders) /\ a \in Holders
      BY FS_Subset, ActorsAssumption
    <3>2. Held(s) = Cardinality(Holders)
      BY DEF Held, Holds
    <3> HIDE DEF Holders
    <3>3. Cardinality(Holders) # 0 /\ Cardinality(Holders) \in Nat
      BY <3>1, FS_EmptySet, FS_CardinalityType
    <3>4. QED
      BY <3>2, <3>3
  <2>4. QED
    BY <1>1, <2>1, <2>2, <2>3 DEF Decremented
<1>4. Conserved'
  <2> SUFFICES ASSUME NEW o \in Sems \ {Resized} PROVE Circulating(o)' = Limit
    BY DEF Conserved
  <2>1. free[o] + Held(o) = Limit /\ free[o] \in Int
    BY DEF PermitInv, Shape, Conserved, Circulating
  <2>2. free'[o] = IF o = s THEN free[o] + 1 ELSE free[o]
    BY DEF PermitInv, Shape, GiveBack
  <2>3. QED
    BY <1>1, <2>1, <2>2 DEF Circulating
<1>5. QED
  BY <1>1, <1>2, <1>3, <1>4

(* What is not about guards leaves the counts alone.                       *)
LEMMA CountsStay ==
  ASSUME PermitInv, UNCHANGED <<guards, gauge>>,
         \A o \in Sems \ {Resized} : free'[o] = free[o]
  PROVE  GaugeCountsGuards' /\ Conserved'
<1>1. \A o \in Sems : Held(o)' = Held(o)
  BY DEF Held, Holds
<1>2. GaugeCountsGuards'
  BY <1>1 DEF PermitInv, GaugeCountsGuards, Counted, Sems
<1>3. Conserved'
  BY <1>1 DEF PermitInv, Conserved, Circulating
<1>4. QED
  BY <1>2, <1>3

-----------------------------------------------------------------------------
LEMMA InitPermits == Init => PermitInv
<1> SUFFICES ASSUME Init PROVE PermitInv
  OBVIOUS
<1>1. Shape
  BY CapsAssumption DEF Init, Shape, Counted, Sems
<1>2. GuardsFollow
  BY DEF Init, GuardsFollow, Follows
<1>3. \A o \in Sems : Held(o) = 0
  <2> TAKE o \in Sems
  <2>1. {a \in Actors : o \in guards[a]} = {}
    BY DEF Init
  <2>2. QED
    BY <2>1, FS_EmptySet DEF Held, Holds
<1>4. GaugeCountsGuards
  BY <1>3 DEF Init, GaugeCountsGuards, Counted, Sems
<1>5. Conserved
  BY <1>3, CapsAssumption DEF Init, Conserved, Circulating
<1>6. QED
  BY <1>1, <1>2, <1>4, <1>5 DEF PermitInv

(* What one request does leaves what the others hold where it is.          *)
LEMMA OthersFollow ==
  ASSUME PermitInv, NEW a \in Actors,
         \A b \in Actors \ {a} :
           at'[b] = at[b] /\ phase'[b] = phase[b] /\ guards'[b] = guards[b],
         Follows(a)'
  PROVE  GuardsFollow'
BY DEF PermitInv, GuardsFollow, Follows, Instr

LEMMA AcquirePermits ==
  ASSUME PermitInv, NEW a \in Actors, Enqueue(a) \/ Grant(a) \/ GiveUp(a) \/ Try(a)
  PROVE  PermitInv'
<1> USE DEF PermitInv
<1>0. Follows(a) /\ Shape /\ Kind[a] \in Kinds
  BY ActorsAssumption DEF GuardsFollow
<1>1. CASE Enqueue(a)
  <2>1. at[a] \in DOMAIN Program[Kind[a]] /\ Instr(a).op = "acquire" /\ phase[a] = "run"
    BY <1>1, InstructionAtHand DEF Enqueue, AtOp
  <2>2. /\ UNCHANGED <<at, guards, free, gauge>>
        /\ phase' = [phase EXCEPT ![a] = "queued"]
    BY <1>1 DEF Enqueue
  <2>3. Shape'
    BY <2>2 DEF Shape
  <2>4. Follows(a)'
    BY <1>0, <2>1, <2>2 DEF Follows, Instr, Shape
  <2>5. GuardsFollow'
    BY <2>2, <2>4, OthersFollow DEF Shape
  <2>6. QED
    BY <2>2, <2>3, <2>5, CountsStay
<1>2. CASE Grant(a)
  <2>1. at[a] \in DOMAIN Program[Kind[a]] /\ Instr(a).op = "acquire"
    BY <1>0, <1>2 DEF Grant, Follows
  <2>2. Instr(a).sem \in Sems /\ Instr(a).sem \notin guards[a]
    BY <1>0, <1>2, <2>1, AskedOnce DEF Grant, Follows, Instr
  <2>3. Take(a, Instr(a).sem) /\ phase' = [phase EXCEPT ![a] = "run"]
    BY <1>2 DEF Grant
  <2>4. /\ at' \in [Actors -> Nat \ {0}] /\ guards' \in [Actors -> SUBSET Sems]
        /\ free' \in [Sems -> Int] /\ gauge' \in [Counted -> Nat]
        /\ GaugeCountsGuards' /\ Conserved'
    BY <2>2, <2>3, TakeCounts
  <2>5. Shape'
    BY <2>3, <2>4 DEF Shape
  <2>6. /\ at' = [at EXCEPT ![a] = @ + 1]
        /\ guards' = [guards EXCEPT ![a] = @ \cup {Instr(a).sem}]
    BY <2>3 DEF Take
  <2>7. Follows(a)'
    <3>1. at'[a] = at[a] + 1 /\ guards'[a] = guards[a] \cup {Instr(a).sem} /\ phase'[a] = "run"
      BY <2>3, <2>6 DEF Shape
    <3>2. /\ guards[a] \subseteq Earlier(Kind[a], at[a])
          /\ Earlier(Kind[a], at[a]) \subseteq Earlier(Kind[a], at[a] + 1)
          /\ Instr(a).sem \in Earlier(Kind[a], at[a] + 1)
      BY <1>0, <1>2, <2>1, <2>2, EarlierGrows DEF Grant, Follows, Instr, Shape
    <3>3. QED
      BY <3>1, <3>2 DEF Follows
  <2>8. GuardsFollow'
    BY <2>3, <2>6, <2>7, OthersFollow DEF Shape
  <2>9. QED
    BY <2>4, <2>5, <2>8
<1>3. CASE GiveUp(a)
  <2>1. at[a] \in DOMAIN Program[Kind[a]] /\ guards[a] \subseteq Earlier(Kind[a], at[a])
    BY <1>0, <1>3 DEF GiveUp, Follows
  <2>2. /\ UNCHANGED <<guards, free, gauge>>
        /\ at' \in [Actors -> Nat \ {0}] /\ phase' \in [Actors -> {"idle", "run", "queued", "unwind"}]
        /\ \A b \in Actors \ {a} : at'[b] = at[b] /\ phase'[b] = phase[b]
    BY <1>3 DEF GiveUp, Shape
  <2>3. \/ at'[a] = at[a] + 1 /\ phase'[a] = "run"
        \/ at'[a] = at[a] /\ phase'[a] = "unwind"
    BY <1>3 DEF GiveUp, Shape
  <2>4. Earlier(Kind[a], at[a]) \subseteq Earlier(Kind[a], at[a] + 1)
    BY <1>0, <2>1, EarlierGrows DEF Shape
  <2>5. Follows(a)'
    BY <2>1, <2>2, <2>3, <2>4 DEF Follows
  <2>6. Shape'
    BY <2>2 DEF Shape
  <2>7. GuardsFollow'
    BY <2>2, <2>5, OthersFollow
  <2>8. QED
    BY <2>2, <2>6, <2>7, CountsStay
<1>4. CASE Try(a)
  <2>1. at[a] \in DOMAIN Program[Kind[a]] /\ Instr(a).op = "try" /\ phase[a] = "run"
    BY <1>4, InstructionAtHand DEF Try, AtOp
  <2>2. CASE Take(a, Instr(a).sem) /\ UNCHANGED phase
    <3>1. Instr(a).sem \in Sems /\ Instr(a).sem \notin guards[a]
      BY <1>0, <2>1, AskedOnce DEF Follows, Instr
    <3>2. /\ at' \in [Actors -> Nat \ {0}] /\ guards' \in [Actors -> SUBSET Sems]
          /\ free' \in [Sems -> Int] /\ gauge' \in [Counted -> Nat]
          /\ GaugeCountsGuards' /\ Conserved'
      BY <2>2, <3>1, TakeCounts
    <3>3. Shape'
      BY <2>2, <3>2 DEF Shape
    <3>4. /\ at' = [at EXCEPT ![a] = @ + 1]
          /\ guards' = [guards EXCEPT ![a] = @ \cup {Instr(a).sem}]
      BY <2>2 DEF Take
    <3>5. at'[a] = at[a] + 1 /\ guards'[a] = guards[a] \cup {Instr(a).sem} /\ phase'[a] = "run"
      BY <2>1, <2>2, <3>4 DEF Shape
    <3>6. /\ guards[a] \subseteq Earlier(Kind[a], at[a])
          /\ Earlier(Kind[a], at[a]) \subseteq Earlier(Kind[a], at[a] + 1)
          /\ Instr(a).sem \in Earlier(Kind[a], at[a] + 1)
      BY <1>0, <2>1, <3>1, EarlierGrows DEF Follows, Instr, Shape
    <3>7. Follows(a)'
      BY <3>5, <3>6 DEF Follows
    <3>8. GuardsFollow'
      BY <2>2, <3>4, <3>7, OthersFollow DEF Shape
    <3>9. QED
      BY <3>2, <3>3, <3>8
  <2>3. CASE phase' = [phase EXCEPT ![a] = "unwind"] /\ UNCHANGED <<free, guards, gauge, at>>
    <3>1. Shape'
      BY <2>3 DEF Shape
    <3>2. Follows(a)'
      BY <2>3 DEF Follows, Shape
    <3>3. GuardsFollow'
      BY <2>3, <3>2, OthersFollow DEF Shape
    <3>4. QED
      BY <2>3, <3>1, <3>3, CountsStay
  <2>4. QED
    BY <1>4, <2>2, <2>3 DEF Try
<1>5. QED
  BY <1>1, <1>2, <1>3, <1>4

LEMMA ReleasePermits ==
  ASSUME PermitInv, NEW a \in Actors, SkipDrop(a) \/ DropGuard(a) \/ Unwind(a)
  PROVE  PermitInv'
<1> USE DEF PermitInv
<1>0. Follows(a) /\ Shape /\ Kind[a] \in Kinds
  BY ActorsAssumption DEF GuardsFollow
<1>1. ASSUME AtOp(a, "drop")
      PROVE  /\ phase[a] = "run"
             /\ guards[a] \subseteq Earlier(Kind[a], at[a] + 1)
  <2>1. at[a] \in DOMAIN Program[Kind[a]] /\ phase[a] = "run"
    BY <1>1, InstructionAtHand DEF AtOp
  <2>2. Earlier(Kind[a], at[a]) \subseteq Earlier(Kind[a], at[a] + 1)
    BY <1>0, <2>1, EarlierGrows DEF Shape
  <2>3. QED
    BY <1>0, <2>1, <2>2 DEF Follows
<1>2. CASE SkipDrop(a)
  <2>1. at' = [at EXCEPT ![a] = @ + 1] /\ UNCHANGED <<phase, guards, free, gauge>>
    BY <1>2 DEF SkipDrop
  <2>2. Shape'
    BY <2>1 DEF Shape
  <2>3. Follows(a)'
    BY <1>1, <1>2, <2>1 DEF SkipDrop, Follows, Shape
  <2>4. GuardsFollow'
    BY <2>1, <2>3, OthersFollow DEF Shape
  <2>5. QED
    BY <2>1, <2>2, <2>4, CountsStay
<1>3. CASE DropGuard(a)
  <2>1. Instr(a).sem \in guards[a] /\ Instr(a).sem \in Sems
    BY <1>3 DEF DropGuard, Holds, Shape
  <2>2. GiveBack(a, Instr(a).sem) /\ at' = [at EXCEPT ![a] = @ + 1] /\ UNCHANGED phase
    BY <1>3 DEF DropGuard
  <2>3. /\ guards' \in [Actors -> SUBSET Sems]
        /\ free' \in [Sems -> Int] /\ gauge' \in [Counted -> Nat]
        /\ GaugeCountsGuards' /\ Conserved'
    BY <2>1, <2>2, GiveBackCounts
  <2>4. Shape'
    <3>1. at' \in [Actors -> Nat \ {0}]
      BY <2>2 DEF Shape
    <3>2. phase' \in [Actors -> {"idle", "run", "queued", "unwind"}]
      BY <2>2 DEF Shape
    <3>3. QED
      BY <2>3, <3>1, <3>2 DEF Shape
  <2>5. guards' = [guards EXCEPT ![a] = @ \ {Instr(a).sem}]
    BY <2>2 DEF GiveBack
  <2>6. Follows(a)'
    <3>1. at'[a] = at[a] + 1 /\ guards'[a] \subseteq guards[a] /\ phase'[a] = "run"
      BY <1>1, <1>3, <2>2, <2>5 DEF DropGuard, Shape
    <3>2. guards[a] \subseteq Earlier(Kind[a], at[a] + 1)
      BY <1>1, <1>3 DEF DropGuard
    <3>3. QED
      BY <3>1, <3>2 DEF Follows
  <2>7. GuardsFollow'
    BY <2>2, <2>5, <2>6, OthersFollow DEF Shape
  <2>8. QED
    BY <2>3, <2>4, <2>7
<1>4. CASE Unwind(a)
  <2>1. PICK s \in Sems : Youngest(a, s) /\ GiveBack(a, s)
    BY <1>4 DEF Unwind
  <2>2. s \in guards[a] /\ UNCHANGED <<at, phase>> /\ phase[a] = "unwind"
    BY <1>4, <2>1 DEF Unwind, Youngest
  <2>3. /\ guards' \in [Actors -> SUBSET Sems]
        /\ free' \in [Sems -> Int] /\ gauge' \in [Counted -> Nat]
        /\ GaugeCountsGuards' /\ Conserved'
    BY <2>1, <2>2, GiveBackCounts
  <2>4. Shape'
    BY <2>2, <2>3 DEF Shape
  <2>5. guards' = [guards EXCEPT ![a] = @ \ {s}]
    BY <2>1 DEF GiveBack
  <2>6. Follows(a)'
    BY <2>2 DEF Follows
  <2>7. GuardsFollow'
    BY <2>2, <2>5, <2>6, OthersFollow DEF Shape
  <2>8. QED
    BY <2>3, <2>4, <2>7
<1>5. QED
  BY <1>2, <1>3, <1>4

(* Beginning, ending and leaving early change no guard.                    *)
LEMMA ComeAndGo ==
  ASSUME PermitInv, NEW a \in Actors, Start(a) \/ End(a) \/ Leave(a) \/ Disconnect(a)
  PROVE  PermitInv'
<1> USE DEF PermitInv
<1>1. /\ UNCHANGED <<guards, free, gauge>>
      /\ at' \in [Actors -> Nat \ {0}] /\ phase' \in [Actors -> {"idle", "run", "queued", "unwind"}]
      /\ \A b \in Actors \ {a} : at'[b] = at[b] /\ phase'[b] = phase[b]
  <2>1. CASE Start(a)
    BY <2>1 DEF Start, Shape
  <2>2. CASE End(a)
    BY <2>2 DEF End, Shape
  <2>3. CASE Leave(a)
    BY <2>3 DEF Leave, Shape
  <2>4. CASE Disconnect(a)
    BY <2>4 DEF Disconnect, Shape
  <2>5. QED
    BY <2>1, <2>2, <2>3, <2>4
<1>2. Shape'
  BY <1>1 DEF Shape
<1>3. \/ phase'[a] = "unwind"
      \/ at'[a] = 1 /\ phase'[a] \in {"idle", "run"} /\ guards[a] = {}
  BY DEF Start, End, Leave, Disconnect, Shape, GuardsFollow, Follows
<1>4. Follows(a)'
  BY <1>1, <1>3 DEF Follows
<1>5. GuardsFollow'
  BY <1>1, <1>4, OthersFollow
<1>6. QED
  BY <1>1, <1>2, <1>5, CountsStay

LEMMA RequestsNever ==
  ASSUME NEW a \in Actors, Start(a) \/ Step(a) \/ Leave(a) \/ Disconnect(a)
  PROVE  UNCHANGED adminVars
BY DEF Start, Step, Leave, Disconnect, Enqueue, Grant, GiveUp, Try, SkipDrop,
       DropGuard, Unwind, End, adminVars

LEMMA SoundIsTyped ==
  ASSUME NEW x \in SoundRequest
  PROVE  /\ x \in Request
         /\ x.to \in Nat /\ x.old \in Nat /\ x.take \in Nat
         /\ x.stage # "none" => x.to \in Caps
         /\ x.stage = "add" => x.to > x.old
         /\ x.stage = "forget" => x.take > 0
<1>1. Caps \subseteq Nat \ {0}
  BY CapsAssumption
<1>2. x \in Request
  BY DEF SoundRequest
<1>3. x.to \in {0} \cup Caps /\ x.old \in Nat /\ x.take \in Nat
  BY <1>2 DEF Request
<1>4. x.to \in Nat
  <2>1. CASE x.to \in Caps
    BY <1>1, <2>1
  <2>2. CASE x.to = 0
    BY <2>2
  <2> QED
    BY <1>3, <2>1, <2>2
<1> QED
  BY <1>2, <1>3, <1>4 DEF SoundRequest

LEMMA RequestTyped ==
  ASSUME LimitsInv, NEW d \in Admins
  PROVE  /\ admin[d] \in Request
         /\ cap \in Nat /\ cap > 0 /\ admin[d].to \in Nat /\ admin[d].old \in Nat /\ admin[d].take \in Nat
         /\ admin[d].stage # "none" => admin[d].to \in Caps
         /\ admin[d].stage = "add" => admin[d].to > admin[d].old
         /\ admin[d].stage = "forget" => admin[d].take > 0
<1>1. admin[d] \in SoundRequest
  BY DEF LimitsInv
<1>2. Caps \subseteq Nat \ {0} /\ cap \in Caps
  BY CapsAssumption DEF LimitsInv
<1>3. cap \in Nat /\ cap > 0
  BY <1>2
<1> QED
  BY <1>1, <1>3, SoundIsTyped

(* What each step of an administrator makes of the request.                *)
LEMMA RequestStep ==
  ASSUME LimitsInv, NEW d \in Admins, AdminStep(d) \/ \E limit \in Caps : Put(d, limit)
  PROVE  /\ cap' \in Caps /\ config' \in Caps /\ missed' \in BOOLEAN
         /\ \E r \in SoundRequest : admin' = [admin EXCEPT ![d] = r]
<1> DEFINE q == admin[d]
<1>1. q \in Request /\ cap \in Nat /\ q.to \in Nat /\ q.take \in Nat
  BY RequestTyped
<1>2. /\ q.stage # "none" => q.to \in Caps
      /\ q.stage = "forget" => q.take > 0
      /\ cap \in Caps /\ config \in Caps /\ missed \in BOOLEAN
  BY RequestTyped DEF LimitsInv
<1>3. Quiet \in SoundRequest
  BY DEF Quiet, SoundRequest, Request
<1>4. ASSUME NEW limit \in Caps, Put(d, limit)
      PROVE  \E r \in SoundRequest : admin' = [admin EXCEPT ![d] = r]
  <2>1. [stage |-> "store", old |-> config, to |-> limit, take |-> 0] \in SoundRequest
    BY <1>2, CapsAssumption DEF SoundRequest, Request
  <2> QED
    BY <1>4, <2>1 DEF Put
<1>5. CASE Store(d)
  <2>1. [q EXCEPT !.stage = "swap"] \in SoundRequest
    BY <1>1, <1>2, <1>5 DEF Store, SoundRequest, Request
  <2>2. \E r \in {Quiet, [q EXCEPT !.stage = "swap"]} : admin' = [admin EXCEPT ![d] = r]
    BY <1>5 DEF Store
  <2>3. \E r \in SoundRequest : admin' = [admin EXCEPT ![d] = r]
    BY <1>3, <2>1, <2>2
  <2> QED
    BY <1>2, <1>5, <2>3 DEF Store
<1>6. CASE Swap(d)
  <2>1. CASE q.to > cap /\ admin' = [admin EXCEPT ![d].stage = "add", ![d].old = cap]
    <3>1. [q EXCEPT !.stage = "add", !.old = cap] \in SoundRequest
      BY <1>1, <1>2, <1>6, <2>1 DEF Swap, SoundRequest, Request
    <3>2. admin' = [admin EXCEPT ![d] = [q EXCEPT !.stage = "add", !.old = cap]]
      BY <2>1
    <3> QED
      BY <1>2, <1>6, <3>1, <3>2 DEF Swap
  <2>2. CASE q.to < cap /\ admin' = [admin EXCEPT ![d].stage = "forget", ![d].take = cap - q.to]
    <3> DEFINE surplus == cap - q.to
    <3>1. surplus \in Nat /\ surplus > 0
      BY <1>1, <2>2
    <3>2. admin' = [admin EXCEPT ![d] = [q EXCEPT !.stage = "forget", !.take = surplus]]
      BY <2>2
    <3> HIDE DEF surplus
    <3>3. [q EXCEPT !.stage = "forget", !.take = surplus] \in SoundRequest
      BY <1>1, <1>2, <1>6, <3>1 DEF Swap, SoundRequest, Request
    <3> QED
      BY <1>2, <1>6, <3>2, <3>3 DEF Swap
  <2>3. CASE admin' = [admin EXCEPT ![d] = Quiet]
    BY <1>2, <1>3, <1>6, <2>3 DEF Swap
  <2> QED
    BY <1>6, <2>1, <2>2, <2>3 DEF Swap
<1>7. CASE AddPermits(d)
  BY <1>2, <1>3, <1>7 DEF AddPermits
<1>8. CASE Forget(d)
  <2>1. CASE q.take # 1 /\ admin' = [admin EXCEPT ![d].take = @ - 1] /\ missed' = missed
    <3>1. [q EXCEPT !.take = @ - 1] \in SoundRequest
      BY <1>1, <1>2, <1>8, <2>1 DEF Forget, SoundRequest, Request
    <3>2. admin' = [admin EXCEPT ![d] = [q EXCEPT !.take = @ - 1]]
      BY <2>1
    <3> QED
      BY <1>2, <1>8, <2>1, <3>1, <3>2 DEF Forget
  <2>2. CASE admin' = [admin EXCEPT ![d] = Quiet]
    BY <1>2, <1>3, <1>8, <2>2 DEF Forget
  <2> QED
    BY <1>8, <2>1, <2>2 DEF Forget
<1> QED
  BY <1>2, <1>4, <1>5, <1>6, <1>7, <1>8 DEF AdminStep, Put

LEMMA InitLimits == Init => LimitsInv
<1>1. Quiet \in SoundRequest
  BY DEF Quiet, SoundRequest, Request
<1> QED
  BY <1>1 DEF Init, LimitsInv

LEMMA LimitsTyped == LimitsInv /\ [Next]_vars => LimitsInv'
<1> SUFFICES ASSUME LimitsInv, [Next]_vars PROVE LimitsInv'
  OBVIOUS
<1>1. CASE UNCHANGED adminVars
  BY <1>1 DEF LimitsInv, adminVars
<1>2. ASSUME NEW d \in Admins, AdminStep(d) \/ \E limit \in Caps : Put(d, limit)
      PROVE  LimitsInv'
  <2>1. PICK r \in SoundRequest : admin' = [admin EXCEPT ![d] = r]
    BY <1>2, RequestStep
  <2>2. cap' \in Caps /\ config' \in Caps /\ missed' \in BOOLEAN
    BY <1>2, RequestStep
  <2> QED
    BY <2>1, <2>2 DEF LimitsInv
<1> QED
  BY <1>1, <1>2, RequestsNever DEF Next, vars

(* An administrator changes permits of the one semaphore only.             *)
LEMMA ResizeElsewhere ==
  ASSUME PermitInv, LimitsInv, NEW d \in Admins, AdminStep(d) \/ \E limit \in Caps : Put(d, limit)
  PROVE  PermitInv'
<1> USE DEF PermitInv
<1>1. CASE UNCHANGED actorVars
  <2>1. Shape' /\ GuardsFollow'
    BY <1>1 DEF actorVars, Shape, GuardsFollow, Follows, Instr
  <2>2. QED
    BY <1>1, <2>1, CountsStay DEF actorVars
<1>2. CASE AddPermits(d) \/ Forget(d)
  <2>1. UNCHANGED <<at, phase, guards, gauge>>
    BY <1>2 DEF AddPermits, Forget
  <2>2. free' \in [Sems -> Int] /\ \A o \in Sems \ {Resized} : free'[o] = free[o]
    BY <1>2, RequestTyped DEF AddPermits, Forget, Shape
  <2>3. Shape' /\ GuardsFollow'
    BY <2>1, <2>2 DEF Shape, GuardsFollow, Follows, Instr
  <2>4. QED
    BY <2>1, <2>2, <2>3, CountsStay
<1>3. QED
  BY <1>1, <1>2 DEF AdminStep, Put, Store, Swap

LEMMA NextPermits == PermitInv /\ LimitsInv /\ [Next]_vars => PermitInv'
<1> SUFFICES ASSUME PermitInv, LimitsInv, [Next]_vars PROVE PermitInv'
  OBVIOUS
<1>1. ASSUME NEW a \in Actors, Start(a) \/ Step(a) \/ Leave(a) \/ Disconnect(a)
      PROVE  PermitInv'
  BY <1>1, AcquirePermits, ReleasePermits, ComeAndGo DEF Step
<1>2. ASSUME NEW d \in Admins, AdminStep(d) \/ \E limit \in Caps : Put(d, limit)
      PROVE  PermitInv'
  BY <1>2, ResizeElsewhere
<1>3. CASE UNCHANGED vars
  <2>1. UNCHANGED actorVars
    BY <1>3 DEF vars
  <2>2. Shape' /\ GuardsFollow'
    BY <2>1 DEF actorVars, PermitInv, Shape, GuardsFollow, Follows, Instr
  <2>3. QED
    BY <2>1, <2>2, CountsStay DEF actorVars, PermitInv
<1>4. QED
  BY <1>1, <1>2, <1>3 DEF Next

(* The gauges a page shows are the guards alive, and no early return,      *)
(* timeout or disconnect loses a permit of a semaphore nobody resizes, for *)
(* any number of requests of every kind and of administrators.             *)
THEOREM GaugesExact == Spec => [](GaugeCountsGuards /\ Conserved)
<1>1. PermitInv => GaugeCountsGuards /\ Conserved
  BY DEF PermitInv
<1>2. Init => LimitsInv
  BY InitLimits
<1>3. QED
  BY InitPermits, NextPermits, LimitsTyped, <1>1, <1>2, PTL DEF Spec
-----------------------------------------------------------------------------
(* Who waits is in the queue, and no permit is taken that is not there.    *)

In(a, q) == \E i \in DOMAIN q : q[i] = a

QueueInv ==
  /\ at \in [Actors -> 1..7] /\ free \in [Sems -> Nat] /\ queue \in [Sems -> Seq(Actors)]
  /\ \A a \in Actors : phase[a] = "queued" => In(a, queue[Instr(a).sem])

LEMMA ProgramBounds ==
  ASSUME NEW k \in Kinds
  PROVE  /\ Len(Program[k]) \in 1..6 /\ DOMAIN Program[k] = 1..Len(Program[k])
         /\ \A n \in DOMAIN Program[k] : Program[k][n].sem \in Sems
<1>1. /\ Len(Program[k]) \in {2, 4, 6} /\ DOMAIN Program[k] = 1..Len(Program[k])
  BY DEF Program, Kinds, AsyncProgram, SyncProgram, GatherProgram, BatchProgram, ParseProgram
<1>2. \A n \in DOMAIN Program[k] : Program[k][n].sem \in Sems
  BY DEF Program, Kinds, AsyncProgram, SyncProgram, GatherProgram, BatchProgram, ParseProgram,
     Acquire, TryAcquire, Drop, Sems
<1> QED
  BY <1>1, <1>2

(* A queue that grows at its end, or loses one waiter, keeps the others.   *)
LEMMA AppendKeeps ==
  ASSUME NEW q \in Seq(Actors), NEW a \in Actors
  PROVE  /\ Append(q, a) \in Seq(Actors) /\ In(a, Append(q, a))
         /\ \A b \in Actors : In(b, q) => In(b, Append(q, a))
<1>1. Append(q, a) \in Seq(Actors) /\ Len(Append(q, a)) = Len(q) + 1
  OBVIOUS
<1>2. Append(q, a)[Len(q) + 1] = a /\ \A i \in 1..Len(q) : Append(q, a)[i] = q[i]
  OBVIOUS
<1>3. DOMAIN q = 1..Len(q) /\ DOMAIN Append(q, a) = 1..(Len(q) + 1) /\ Len(q) \in Nat
  OBVIOUS
<1> QED
  BY <1>1, <1>2, <1>3 DEF In

LEMMA TailKeeps ==
  ASSUME NEW q \in Seq(Actors), NEW a \in Actors, In(a, q), Head(q) = a
  PROVE  /\ Tail(q) \in Seq(Actors)
         /\ \A b \in Actors \ {a} : In(b, q) => In(b, Tail(q))
<1>1. DOMAIN q = 1..Len(q) /\ Len(q) \in Nat /\ q # <<>>
  BY DEF In
<1>2. Tail(q) \in Seq(Actors) /\ Len(Tail(q)) = Len(q) - 1 /\ q[1] = a
  BY <1>1
<1>3. DOMAIN Tail(q) = 1..(Len(q) - 1) /\ \A i \in 1..(Len(q) - 1) : Tail(q)[i] = q[i + 1]
  BY <1>1, <1>2
<1>4. ASSUME NEW b \in Actors \ {a}, In(b, q) PROVE In(b, Tail(q))
  <2>1. PICK i \in 1..Len(q) : q[i] = b
    BY <1>1, <1>4 DEF In
  <2>2. i - 1 \in 1..(Len(q) - 1) /\ Tail(q)[i - 1] = q[i]
    BY <1>1, <1>2, <1>3, <2>1
  <2> QED
    BY <1>3, <2>1, <2>2 DEF In
<1> QED
  BY <1>2, <1>4

LEMMA RemoveAtKeeps ==
  ASSUME NEW q \in Seq(Actors), NEW a \in Actors, NEW k \in DOMAIN q, q[k] = a
  PROVE  /\ RemoveAt(q, k) \in Seq(Actors)
         /\ \A b \in Actors \ {a} : In(b, q) => In(b, RemoveAt(q, k))
<1> DEFINE l == SubSeq(q, 1, k - 1)
           r == SubSeq(q, k + 1, Len(q))
<1>1. DOMAIN q = 1..Len(q) /\ Len(q) \in Nat /\ k \in 1..Len(q)
  OBVIOUS
<1>2. /\ l \in Seq(Actors) /\ Len(l) = k - 1
      /\ \A i \in 1..(k - 1) : l[i] = q[i]
  BY <1>1
<1>3. /\ r \in Seq(Actors) /\ Len(r) = Len(q) - k
      /\ \A i \in 1..(Len(q) - k) : r[i] = q[k + i]
  BY <1>1
<1> HIDE DEF l, r
<1> DEFINE c == l \o r
<1>4. /\ c \in Seq(Actors) /\ Len(c) = Len(l) + Len(r)
      /\ \A i \in 1..(Len(l) + Len(r)) : c[i] = IF i <= Len(l) THEN l[i] ELSE r[i - Len(l)]
  BY <1>2, <1>3, ConcatProperties
<1> HIDE DEF c
<1>5. DOMAIN c = 1..(Len(q) - 1) /\ Len(l) = k - 1 /\ Len(l) + Len(r) = Len(q) - 1
  BY <1>1, <1>2, <1>3, <1>4
<1>6. ASSUME NEW b \in Actors \ {a}, In(b, q) PROVE In(b, c)
  <2>1. PICK i \in 1..Len(q) : q[i] = b
    BY <1>1, <1>6 DEF In
  <2>2. CASE i < k
    <3>1. i \in 1..(k - 1) /\ i \in 1..(Len(q) - 1)
      BY <1>1, <2>2
    <3>2. c[i] = b
      BY <1>2, <1>4, <1>5, <2>1, <3>1
    <3> QED
      BY <1>5, <3>1, <3>2 DEF In
  <2>3. CASE i > k
    <3>1. i - k \in 1..(Len(q) - k) /\ i - 1 \in 1..(Len(q) - 1) /\ k + (i - k) = i
          /\ (i - 1) - (k - 1) = i - k
      BY <1>1, <2>3
    <3>2. r[i - k] = b
      BY <1>3, <2>1, <3>1
    <3>3. c[i - 1] = b
      BY <1>1, <1>4, <1>5, <2>3, <3>1, <3>2
    <3> QED
      BY <1>5, <3>1, <3>3 DEF In
  <2> QED
    BY <1>1, <2>1, <2>2, <2>3
<1> QED
  BY <1>4, <1>6 DEF RemoveAt, l, r, c

(* Who is at an instruction has room for one more step.                    *)
LEMMA NextPlace ==
  ASSUME NEW k \in Kinds, NEW n \in DOMAIN Program[k]
  PROVE  n + 1 \in 1..7
<1>1. PICK l \in 1..6 : DOMAIN Program[k] = 1..l
  BY ProgramBounds
<1> QED
  BY <1>1

LEMMA WaitsForKnown ==
  ASSUME PermitInv, NEW a \in Actors, phase[a] = "queued"
  PROVE  /\ at[a] \in DOMAIN Program[Kind[a]] /\ Instr(a).sem \in Sems
         /\ Instr(a).op = "acquire"
BY ProgramBounds, ActorsAssumption DEF PermitInv, GuardsFollow, Follows, Instr

LEMMA AtHandKnown ==
  ASSUME Shape, NEW a \in Actors, NEW op, AtOp(a, op)
  PROVE  at[a] + 1 \in 1..7 /\ Instr(a).sem \in Sems
<1>1. at[a] \in DOMAIN Program[Kind[a]] /\ Kind[a] \in Kinds
  BY InstructionAtHand
<1>2. Instr(a).sem \in Sems
  BY <1>1, ProgramBounds DEF Instr
<1> QED
  BY <1>1, <1>2, NextPlace

(* One actor moves, and at most one queue changes.                         *)
LEMMA WaitersStay ==
  ASSUME PermitInv, QueueInv, NEW a \in Actors, NEW s \in Sems, NEW q \in Seq(Actors),
         at' \in [Actors -> 1..7], free' \in [Sems -> Nat],
         queue' = [queue EXCEPT ![s] = q],
         \A b \in Actors \ {a} : at'[b] = at[b] /\ phase'[b] = phase[b],
         \A b \in Actors \ {a} : In(b, queue[s]) => In(b, q),
         phase'[a] = "queued" => at'[a] = at[a] /\ s = Instr(a).sem /\ In(a, q)
  PROVE  QueueInv'
<1>1. queue' \in [Sems -> Seq(Actors)]
  BY DEF QueueInv
<1>2. ASSUME NEW b \in Actors, phase'[b] = "queued" PROVE In(b, queue'[Instr(b)'.sem])
  <2>1. CASE b = a
    <3>1. Instr(b)'.sem = s
      BY <1>2, <2>1 DEF Instr
    <3>2. queue'[s] = q
      BY DEF QueueInv
    <3> QED
      BY <1>2, <2>1, <3>1, <3>2
  <2>2. CASE b # a
    <3>1. phase[b] = "queued" /\ at'[b] = at[b]
      BY <1>2, <2>2
    <3>2. Instr(b)' = Instr(b) /\ Instr(b).sem \in Sems
      BY <3>1, WaitsForKnown DEF Instr
    <3>3. In(b, queue[Instr(b).sem])
      BY <3>1 DEF QueueInv
    <3>4. queue'[Instr(b).sem] = IF Instr(b).sem = s THEN q ELSE queue[Instr(b).sem]
      BY <3>2 DEF QueueInv
    <3> QED
      BY <2>2, <3>2, <3>3, <3>4
  <2> QED
    BY <2>1, <2>2
<1> QED
  BY <1>1, <1>2 DEF QueueInv

LEMMA LeavesQueue ==
  ASSUME QueueInv, NEW a \in Actors, NEW s \in Sems, LeaveQueue(a, s)
  PROVE  \E q \in Seq(Actors) :
           /\ queue' = [queue EXCEPT ![s] = q]
           /\ \A b \in Actors \ {a} : In(b, queue[s]) => In(b, q)
<1>1. PICK i \in DOMAIN queue[s] :
        queue[s][i] = a /\ queue' = [queue EXCEPT ![s] = RemoveAt(queue[s], i)]
  BY DEF LeaveQueue
<1>2. queue[s] \in Seq(Actors)
  BY DEF QueueInv
<1> QED
  BY <1>1, <1>2, RemoveAtKeeps

(* A permit in sight is one that is free.                                  *)
LEMMA AvailableIsFree ==
  ASSUME QueueInv, NEW s \in Sems, Available(s) > 0
  PROVE  free[s] > 0
<1>1. queue[s] \in Seq(Actors) /\ free[s] \in Nat
  BY DEF QueueInv
<1>2. Len(queue[s]) \in Nat
  BY <1>1
<1> QED
  BY <1>1, <1>2 DEF Available

LEMMA TakeTyped ==
  ASSUME PermitInv, QueueInv, NEW a \in Actors, NEW s \in Sems, Take(a, s), free[s] > 0,
         at[a] + 1 \in 1..7
  PROVE  at' \in [Actors -> 1..7] /\ free' \in [Sems -> Nat]
<1>1. free[s] - 1 \in Nat
  BY DEF QueueInv
<1> QED
  BY <1>1 DEF Take, QueueInv

LEMMA ActorsQueue ==
  ASSUME PermitInv, QueueInv, NEW a \in Actors, Start(a) \/ Step(a) \/ Leave(a) \/ Disconnect(a)
  PROVE  QueueInv'
<1> USE DEF QueueInv
<1>0. at \in [Actors -> 1..7] /\ free \in [Sems -> Nat] /\ queue \in [Sems -> Seq(Actors)]
      /\ phase \in [Actors -> {"idle", "run", "queued", "unwind"}]
  BY DEF PermitInv, Shape
<1> HIDE DEF QueueInv
<1>1. CASE Enqueue(a)
  <2>1. Instr(a).sem \in Sems /\ queue[Instr(a).sem] \in Seq(Actors)
    BY <1>0, <1>1, AtHandKnown DEF Enqueue, PermitInv
  <2> DEFINE q == Append(queue[Instr(a).sem], a)
  <2>2. /\ queue' = [queue EXCEPT ![Instr(a).sem] = q]
        /\ phase' = [phase EXCEPT ![a] = "queued"] /\ UNCHANGED <<at, free>>
    BY <1>1 DEF Enqueue
  <2>3. q \in Seq(Actors) /\ In(a, q) /\ \A b \in Actors : In(b, queue[Instr(a).sem]) => In(b, q)
    BY <2>1, AppendKeeps
  <2> HIDE DEF q
  <2> QED
    BY <1>0, <2>1, <2>2, <2>3, WaitersStay
<1>2. CASE Grant(a)
  <2>1. /\ Instr(a).sem \in Sems /\ queue[Instr(a).sem] \in Seq(Actors)
        /\ at[a] + 1 \in 1..7 /\ In(a, queue[Instr(a).sem])
    <3>1. Instr(a).sem \in Sems /\ at[a] \in DOMAIN Program[Kind[a]]
      BY <1>2, WaitsForKnown DEF Grant
    <3>2. at[a] + 1 \in 1..7
      BY <3>1, NextPlace, ActorsAssumption
    <3> QED
      BY <1>0, <1>2, <3>1, <3>2 DEF Grant, QueueInv
  <2> DEFINE q == Tail(queue[Instr(a).sem])
  <2>2. /\ queue' = [queue EXCEPT ![Instr(a).sem] = q] /\ Head(queue[Instr(a).sem]) = a
        /\ phase' = [phase EXCEPT ![a] = "run"] /\ Take(a, Instr(a).sem)
        /\ free[Instr(a).sem] > 0
    BY <1>2 DEF Grant
  <2>3. q \in Seq(Actors) /\ \A b \in Actors \ {a} : In(b, queue[Instr(a).sem]) => In(b, q)
    BY <2>1, <2>2, TailKeeps
  <2>4. at' \in [Actors -> 1..7] /\ free' \in [Sems -> Nat]
    BY <2>1, <2>2, TakeTyped
  <2>5. /\ \A b \in Actors \ {a} : at'[b] = at[b] /\ phase'[b] = phase[b]
        /\ phase'[a] = "run"
    BY <1>0, <2>2 DEF Take
  <2> HIDE DEF q
  <2> QED
    BY <2>1, <2>2, <2>3, <2>4, <2>5, WaitersStay
<1>3. CASE GiveUp(a) \/ Disconnect(a)
  <2>1. phase[a] = "queued" /\ LeaveQueue(a, Instr(a).sem) /\ UNCHANGED free
    BY <1>3 DEF GiveUp, Disconnect
  <2>2. Instr(a).sem \in Sems /\ at[a] \in DOMAIN Program[Kind[a]]
    BY <2>1, WaitsForKnown
  <2>3. at[a] + 1 \in 1..7
    BY <2>2, NextPlace, ActorsAssumption
  <2>4. PICK q \in Seq(Actors) :
          /\ queue' = [queue EXCEPT ![Instr(a).sem] = q]
          /\ \A b \in Actors \ {a} : In(b, queue[Instr(a).sem]) => In(b, q)
    BY <2>1, <2>2, LeavesQueue
  <2>5. /\ \A b \in Actors \ {a} : at'[b] = at[b] /\ phase'[b] = phase[b]
        /\ phase'[a] # "queued" /\ at' \in [Actors -> 1..7]
    BY <1>0, <1>3, <2>3 DEF GiveUp, Disconnect
  <2> QED
    BY <1>0, <2>1, <2>2, <2>4, <2>5, WaitersStay
<1>4. ASSUME UNCHANGED queue, at' \in [Actors -> 1..7], free' \in [Sems -> Nat],
             \A b \in Actors \ {a} : at'[b] = at[b] /\ phase'[b] = phase[b],
             phase'[a] # "queued"
      PROVE  QueueInv'
  <2>1. ASSUME NEW b \in Actors, phase'[b] = "queued" PROVE In(b, queue[Instr(b)'.sem])
    <3>1. phase[b] = "queued" /\ Instr(b)' = Instr(b)
      BY <1>4, <2>1 DEF Instr
    <3> QED
      BY <3>1 DEF QueueInv
  <2> QED
    BY <1>4, <2>1, Zenon DEF QueueInv
<1>5. CASE Start(a) \/ End(a) \/ Leave(a)
  <2>1. UNCHANGED <<queue, free>>
    BY <1>5 DEF Start, End, Leave
  <2>2. CASE Start(a)
    BY <1>0, <1>4, <2>1, <2>2 DEF Start
  <2>3. CASE End(a)
    BY <1>0, <1>4, <2>1, <2>3 DEF End
  <2>4. CASE Leave(a)
    BY <1>0, <1>4, <2>1, <2>4 DEF Leave
  <2> QED
    BY <1>5, <2>2, <2>3, <2>4
<1>6. CASE Try(a)
  <2>1. Instr(a).sem \in Sems /\ at[a] + 1 \in 1..7
    BY <1>6, AtHandKnown DEF Try, PermitInv
  <2>2. CASE Available(Instr(a).sem) > 0
    <3>1. Take(a, Instr(a).sem) /\ UNCHANGED <<queue, phase>> /\ phase[a] = "run"
      BY <1>6, <2>2 DEF Try, AtOp
    <3>2. at' \in [Actors -> 1..7] /\ free' \in [Sems -> Nat]
      BY <2>1, <2>2, <3>1, AvailableIsFree, TakeTyped
    <3> QED
      BY <1>0, <1>4, <3>1, <3>2 DEF Take
  <2>3. CASE ~(Available(Instr(a).sem) > 0)
    BY <1>0, <1>4, <1>6, <2>3 DEF Try
  <2> QED
    BY <2>2, <2>3
<1>7. CASE SkipDrop(a) \/ DropGuard(a)
  <2>1. Instr(a).sem \in Sems /\ at[a] + 1 \in 1..7 /\ phase[a] = "run"
    BY <1>7, AtHandKnown DEF SkipDrop, DropGuard, PermitInv, AtOp
  <2>2. at' = [at EXCEPT ![a] = @ + 1] /\ UNCHANGED <<queue, phase>>
    BY <1>7 DEF SkipDrop, DropGuard
  <2>3. free' = free \/ free' = [free EXCEPT ![Instr(a).sem] = @ + 1]
    BY <1>7 DEF SkipDrop, DropGuard, GiveBack
  <2>4. free' \in [Sems -> Nat]
    BY <1>0, <2>1, <2>3
  <2> QED
    BY <1>0, <1>4, <2>1, <2>2, <2>4
<1>8. CASE Unwind(a)
  BY <1>0, <1>4, <1>8 DEF Unwind, GiveBack
<1> QED
  BY <1>1, <1>2, <1>3, <1>5, <1>6, <1>7, <1>8 DEF Step

LEMMA NextQueue == PermitInv /\ LimitsInv /\ QueueInv /\ [Next]_vars => QueueInv'
<1> SUFFICES ASSUME PermitInv, LimitsInv, QueueInv, [Next]_vars PROVE QueueInv'
  OBVIOUS
<1>1. ASSUME UNCHANGED <<at, phase, queue>>, free' \in [Sems -> Nat] PROVE QueueInv'
  BY <1>1 DEF QueueInv, Instr, In
<1>2. ASSUME NEW d \in Admins, AdminStep(d) \/ \E limit \in Caps : Put(d, limit)
      PROVE  UNCHANGED <<at, phase, queue>> /\ free' \in [Sems -> Nat]
  <2>1. CASE Store(d) \/ Swap(d) \/ \E limit \in Caps : Put(d, limit)
    BY <2>1 DEF Store, Swap, Put, actorVars, QueueInv
  <2>2. CASE AddPermits(d)
    <3>1. free[Resized] + admin[d].to - admin[d].old \in Nat
      BY <2>2, RequestTyped, CapsAssumption DEF AddPermits, QueueInv
    <3> QED
      BY <2>2, <3>1 DEF AddPermits, QueueInv
  <2>3. CASE Forget(d)
    <3>1. Available(Resized) > 0 => free[Resized] - 1 \in Nat
      BY AvailableIsFree, CapsAssumption DEF QueueInv
    <3> QED
      BY <2>3, <3>1 DEF Forget, QueueInv
  <2> QED
    BY <1>2, <2>1, <2>2, <2>3 DEF AdminStep
<1>3. CASE UNCHANGED vars
  BY <1>1, <1>3 DEF vars, actorVars, QueueInv
<1> QED
  BY <1>1, <1>2, <1>3, ActorsQueue DEF Next

(* Every variable keeps its type: no semaphore is ever overdrawn, no       *)
(* request runs past its program, and every limit is one that was asked    *)
(* for.                                                                    *)
THEOREM PermitsTypeCorrect == Spec => []TypeOK
<1>1. Init => QueueInv
  BY CapsAssumption DEF Init, QueueInv, Sems
<1>2. PermitInv /\ LimitsInv /\ QueueInv => TypeOK
  <2> SUFFICES ASSUME PermitInv, LimitsInv, QueueInv PROVE TypeOK
    OBVIOUS
  <2>1. SoundRequest \subseteq Request
    BY DEF SoundRequest
  <2> QED
    BY <2>1 DEF PermitInv, Shape, LimitsInv, QueueInv, TypeOK, Request
<1> QED
  BY <1>1, <1>2, InitPermits, InitLimits, NextPermits, LimitsTyped, NextQueue, PTL DEF Spec
-----------------------------------------------------------------------------
(* What a resized semaphore has, when every administrator is done.         *)

(* Permits that have been promised one by one: <<d, 1>> .. <<d, n[d]>>.    *)
Tokens(n) == {p \in Admins \X Nat : p[2] \in 1..n[p[1]]}
Total(n) == Cardinality(Tokens(n))

(* What each administrator has still to forget and to add.                 *)
ToForget == [d \in Admins |-> IF admin[d].stage = "forget" THEN admin[d].take ELSE 0]
ToAdd == [d \in Admins |-> IF admin[d].stage = "add" THEN admin[d].to - admin[d].old ELSE 0]

(* The cap is ahead of the permits by what is to be added, and behind by   *)
(* what is to be forgotten; a shrink that finds a permit in use leaves one *)
(* too many.                                                               *)
Balance ==
  /\ IsFiniteSet(Tokens(ToForget)) /\ IsFiniteSet(Tokens(ToAdd))
  /\ Circulating(Resized) + Total(ToAdd) >= cap + Total(ToForget)
  /\ ~missed => Circulating(Resized) + Total(ToAdd) = cap + Total(ToForget)

LEMMA TotalChanges ==
  ASSUME NEW n \in [Admins -> Nat], NEW d \in Admins, NEW v \in Nat, IsFiniteSet(Tokens(n))
  PROVE  /\ IsFiniteSet(Tokens([n EXCEPT ![d] = v]))
         /\ Total([n EXCEPT ![d] = v]) = Total(n) - n[d] + v
         /\ Total(n) \in Nat
<1> DEFINE m == [n EXCEPT ![d] = v]
           rest == {p \in Tokens(n) : p[1] # d}
           col(k) == {d} \X (1..k)
<1>1. Tokens(n) = rest \cup col(n[d]) /\ Tokens(m) = rest \cup col(v)
  BY DEF Tokens
<1>2. rest \cap col(n[d]) = {} /\ rest \cap col(v) = {}
  OBVIOUS
<1>3. ASSUME NEW k \in Nat PROVE IsFiniteSet(col(k)) /\ Cardinality(col(k)) = k
  <2>1. IsFiniteSet({d}) /\ Cardinality({d}) = 1
    BY FS_Singleton
  <2>2. IsFiniteSet(1..k) /\ Cardinality(1..k) = k
    BY FS_Interval
  <2>3. /\ IsFiniteSet({d} \X (1..k))
        /\ Cardinality({d} \X (1..k)) = Cardinality({d}) * Cardinality(1..k)
    BY <2>1, <2>2, FS_Product, Zenon
  <2>4. 1 * k = k
    OBVIOUS
  <2> QED
    BY <2>1, <2>2, <2>3, <2>4, Zenon
<1>4. IsFiniteSet(rest)
  BY FS_Subset
<1>5. n[d] \in Nat
  OBVIOUS
<1> HIDE DEF m, rest, col
<1>6. Cardinality(rest) \in Nat
  BY <1>4, FS_CardinalityType
<1>7. ASSUME NEW k \in Nat, rest \cap col(k) = {}
      PROVE  IsFiniteSet(rest \cup col(k)) /\ Cardinality(rest \cup col(k)) = Cardinality(rest) + k
  <2>1. IsFiniteSet(col(k)) /\ Cardinality(col(k)) = k
    BY <1>3
  <2>2. Cardinality(rest \cap col(k)) = 0
    BY <1>7, FS_EmptySet
  <2>3. /\ IsFiniteSet(rest \cup col(k))
        /\ Cardinality(rest \cup col(k)) =
             Cardinality(rest) + Cardinality(col(k)) - Cardinality(rest \cap col(k))
    BY <1>4, <2>1, FS_Union
  <2> QED
    BY <1>6, <2>1, <2>2, <2>3
<1>8. /\ Cardinality(Tokens(n)) = Cardinality(rest) + n[d]
      /\ Cardinality(Tokens(m)) = Cardinality(rest) + v /\ IsFiniteSet(Tokens(m))
  BY <1>1, <1>2, <1>5, <1>7
<1> QED
  BY <1>5, <1>6, <1>8 DEF Total, m

LEMMA NoTokens ==
  ASSUME NEW n, \A d \in Admins : n[d] = 0
  PROVE  IsFiniteSet(Tokens(n)) /\ Total(n) = 0
<1>1. Tokens(n) = {}
  BY DEF Tokens
<1> QED
  BY <1>1, FS_EmptySet DEF Total

LEMMA HeldIsNat == Held(Resized) \in Nat
<1> DEFINE holders == {a \in Actors : Holds(a, Resized)}
<1>1. IsFiniteSet(holders)
  BY FS_Subset, ActorsAssumption
<1> QED
  BY <1>1, FS_CardinalityType DEF Held

(* No request makes or loses a permit.                                     *)
LEMMA RequestsCirculate ==
  ASSUME PermitInv, NEW a \in Actors, Start(a) \/ Step(a) \/ Leave(a) \/ Disconnect(a)
  PROVE  Circulating(Resized)' = Circulating(Resized)
<1> DEFINE s == Instr(a).sem
<1>1. Resized \in Sems /\ guards \in [Actors -> SUBSET Sems] /\ free \in [Sems -> Int]
  BY CapsAssumption DEF PermitInv, Shape
<1>2. ASSUME NEW o \in Sems, o \notin guards[a], Take(a, o)
      PROVE  Circulating(Resized)' = Circulating(Resized)
  <2>1. /\ Held(Resized) \in Nat
        /\ Held(Resized)' = IF Resized = o THEN Held(Resized) + 1 ELSE Held(Resized)
    BY <1>1, <1>2, TakenByOne DEF Take
  <2>2. free'[Resized] = IF Resized = o THEN free[Resized] - 1 ELSE free[Resized]
    BY <1>1, <1>2 DEF Take
  <2> QED
    BY <1>1, <2>1, <2>2 DEF Circulating
<1>3. ASSUME NEW o \in Sems, o \in guards[a], GiveBack(a, o)
      PROVE  Circulating(Resized)' = Circulating(Resized)
  <2>1. /\ Held(Resized) \in Nat
        /\ Held(Resized)' = IF Resized = o THEN Held(Resized) - 1 ELSE Held(Resized)
    BY <1>1, <1>3, DroppedByOne DEF GiveBack
  <2>2. free'[Resized] = IF Resized = o THEN free[Resized] + 1 ELSE free[Resized]
    BY <1>1, <1>3 DEF GiveBack
  <2> QED
    BY <1>1, <2>1, <2>2 DEF Circulating
<1>4. ASSUME UNCHANGED <<free, guards>> PROVE Circulating(Resized)' = Circulating(Resized)
  BY <1>4 DEF Circulating, Held, Holds
<1>5. ASSUME Instr(a).op # "drop", at[a] \in DOMAIN Program[Kind[a]], phase[a] \in {"run", "queued"}
      PROVE  s \in Sems /\ s \notin guards[a]
  BY <1>5, AskedOnce, ActorsAssumption DEF PermitInv, GuardsFollow, Follows, Instr
<1>6. CASE Grant(a)
  BY <1>2, <1>5, <1>6, WaitsForKnown DEF Grant
<1>7. CASE Try(a)
  <2>1. at[a] \in DOMAIN Program[Kind[a]] /\ Instr(a).op = "try" /\ phase[a] = "run"
    BY <1>7, InstructionAtHand DEF Try, AtOp, PermitInv
  <2>2. s \in Sems /\ s \notin guards[a]
    BY <1>5, <2>1
  <2>3. Take(a, s) \/ UNCHANGED <<free, guards>>
    BY <1>7 DEF Try
  <2> HIDE DEF s
  <2> QED
    BY <1>2, <1>4, <2>2, <2>3
<1>8. CASE DropGuard(a)
  BY <1>1, <1>3, <1>8 DEF DropGuard, Holds
<1>9. CASE Unwind(a)
  BY <1>3, <1>9 DEF Unwind, Youngest
<1> QED
  BY <1>4, <1>6, <1>7, <1>8, <1>9
  DEF Step, Start, Leave, Disconnect, Enqueue, GiveUp, SkipDrop, End
LEMMA PendingTyped ==
  ASSUME LimitsInv
  PROVE  ToForget \in [Admins -> Nat] /\ ToAdd \in [Admins -> Nat]
<1>1. \A d \in Admins : admin[d].stage = "forget" => admin[d].take \in Nat
  BY RequestTyped
<1>2. \A d \in Admins : admin[d].stage = "add" => admin[d].to - admin[d].old \in Nat
  BY RequestTyped
<1> QED
  BY <1>1, <1>2 DEF ToForget, ToAdd

(* One request changes what is pending of it alone.                        *)
LEMMA PendingChanges ==
  ASSUME LimitsInv, NEW d \in Admins, NEW f \in Nat, NEW g \in Nat,
         \A e \in Admins \ {d} : admin'[e] = admin[e],
         f = IF admin'[d].stage = "forget" THEN admin'[d].take ELSE 0,
         g = IF admin'[d].stage = "add" THEN admin'[d].to - admin'[d].old ELSE 0
  PROVE  ToForget' = [ToForget EXCEPT ![d] = f] /\ ToAdd' = [ToAdd EXCEPT ![d] = g]
BY DEF ToForget, ToAdd

LEMMA ResizeBalances ==
  ASSUME PermitInv, LimitsInv, QueueInv, Balance, NEW d \in Admins,
         AdminStep(d) \/ \E limit \in Caps : Put(d, limit)
  PROVE  Balance'
<1> DEFINE q == admin[d]
           r == admin'[d]
           f == IF r.stage = "forget" THEN r.take ELSE 0
           g == IF r.stage = "add" THEN r.to - r.old ELSE 0
           f0 == IF q.stage = "forget" THEN q.take ELSE 0
           g0 == IF q.stage = "add" THEN q.to - q.old ELSE 0
<1>1. PICK x \in SoundRequest : admin' = [admin EXCEPT ![d] = x]
  BY RequestStep
<1>2. LimitsInv'
  BY LimitsTyped DEF Next
<1>3. r = x /\ \A e \in Admins \ {d} : admin'[e] = admin[e]
  BY <1>1 DEF LimitsInv
<1>4. f \in Nat /\ g \in Nat
  BY <1>3, SoundIsTyped
<1>5. f0 \in Nat /\ g0 \in Nat /\ ToForget[d] = f0 /\ ToAdd[d] = g0
  BY RequestTyped DEF ToForget, ToAdd
<1>6. ToForget' = [ToForget EXCEPT ![d] = f] /\ ToAdd' = [ToAdd EXCEPT ![d] = g]
  BY <1>3, <1>4, PendingChanges
<1>7. /\ IsFiniteSet(Tokens(ToForget')) /\ IsFiniteSet(Tokens(ToAdd'))
      /\ Total(ToForget') = Total(ToForget) - f0 + f
      /\ Total(ToAdd') = Total(ToAdd) - g0 + g
      /\ Total(ToForget) \in Nat /\ Total(ToAdd) \in Nat
  <2> HIDE DEF f, g, f0, g0
  <2>1. ToForget \in [Admins -> Nat] /\ ToAdd \in [Admins -> Nat]
    BY PendingTyped
  <2>2. IsFiniteSet(Tokens(ToForget)) /\ IsFiniteSet(Tokens(ToAdd))
    BY DEF Balance
  <2>3. /\ IsFiniteSet(Tokens(ToForget'))
        /\ Total(ToForget') = Total(ToForget) - f0 + f /\ Total(ToForget) \in Nat
    BY <1>4, <1>5, <1>6, <2>1, <2>2, TotalChanges
  <2>4. /\ IsFiniteSet(Tokens(ToAdd'))
        /\ Total(ToAdd') = Total(ToAdd) - g0 + g /\ Total(ToAdd) \in Nat
    BY <1>4, <1>5, <1>6, <2>1, <2>2, TotalChanges
  <2> QED
    BY <2>3, <2>4
<1>8. free[Resized] \in Nat /\ Held(Resized) \in Nat /\ cap \in Nat /\ cap' \in Nat
  <2>1. Held(Resized) \in Nat
    BY HeldIsNat
  <2>2. Caps \subseteq Nat /\ cap \in Caps /\ cap' \in Caps /\ Resized \in Sems
    BY <1>2, CapsAssumption DEF LimitsInv
  <2>3. free[Resized] \in Nat
    BY <2>2 DEF QueueInv
  <2> QED
    BY <2>1, <2>2, <2>3
<1>9. Held(Resized)' = Held(Resized)
  BY DEF AdminStep, Put, Store, Swap, AddPermits, Forget, actorVars, Held, Holds
<1>10. q \in Request /\ Resized \in Sems /\ free \in [Sems -> Nat]
  BY RequestTyped, CapsAssumption DEF QueueInv
<1>11. \/ /\ free'[Resized] - free[Resized] + (g - g0) = (cap' - cap) + (f - f0)
          /\ missed' = missed
       \/ /\ free'[Resized] = free[Resized] /\ cap' = cap /\ g = g0 /\ f0 > 0 /\ f = 0
          /\ missed' = TRUE
  <2>1. CASE \E limit \in Caps : Put(d, limit)
    BY <2>1, <1>8 DEF Put, Quiet, actorVars, LimitsInv
  <2>2. CASE Store(d)
    BY <2>2, <1>8, <1>10 DEF Store, Quiet, actorVars, LimitsInv, Request
  <2>3. CASE Swap(d)
    BY <2>3, <1>8, <1>10 DEF Swap, Quiet, actorVars, LimitsInv, Request
  <2>4. CASE AddPermits(d)
    <3>1. q.stage = "add" /\ r = Quiet /\ cap' = cap /\ missed' = missed
      BY <2>4 DEF AddPermits, LimitsInv
    <3>2. free'[Resized] = free[Resized] + q.to - q.old
      BY <2>4, <1>10 DEF AddPermits
    <3>3. q.to \in Nat /\ q.old \in Nat
      BY RequestTyped
    <3> QED
      BY <1>8, <3>1, <3>2, <3>3 DEF Quiet
  <2>5. CASE Forget(d)
    <3>1. q.stage = "forget" /\ cap' = cap /\ q.take \in Nat /\ q.take > 0
      BY <2>5, RequestTyped DEF Forget
    <3>2. CASE Available(Resized) > 0
      <4>1. free'[Resized] = free[Resized] - 1 /\ missed' = missed
        BY <2>5, <3>2, <1>10 DEF Forget
      <4>2. CASE q.take = 1
        <5>1. r = Quiet
          BY <2>5, <3>2, <4>2 DEF Forget, LimitsInv
        <5> QED
          BY <1>8, <3>1, <4>1, <4>2, <5>1 DEF Quiet
      <4>3. CASE q.take # 1
        <5>1. r.stage = "forget" /\ r.take = q.take - 1
          BY <2>5, <3>1, <3>2, <4>3, <1>10 DEF Forget, LimitsInv, Request
        <5> QED
          BY <1>8, <3>1, <4>1, <4>3, <5>1
      <4> QED
        BY <4>2, <4>3
    <3>3. CASE ~(Available(Resized) > 0)
      <4>1. r.stage = "none" /\ missed' = TRUE /\ free' = free
        BY <2>5, <3>3 DEF Forget, LimitsInv, Quiet
      <4>2. f0 > 0 /\ f = 0 /\ g = 0 /\ g0 = 0
        BY <3>1, <4>1
      <4> QED
        BY <3>1, <4>1, <4>2
    <3> QED
      BY <3>2, <3>3
  <2> QED
    BY <2>1, <2>2, <2>3, <2>4, <2>5 DEF AdminStep
<1>12. /\ Circulating(Resized) = free[Resized] + Held(Resized)
       /\ Circulating(Resized)' = free'[Resized] + Held(Resized)
       /\ ToForget' = (ToForget)' /\ Total(ToForget)' = Total(ToForget') /\ Total(ToAdd)' = Total(ToAdd')
  BY <1>9 DEF Circulating, Total, Tokens
<1> HIDE DEF f, g, f0, g0
<1>13. free'[Resized] \in Nat
  BY <1>10, NextQueue DEF Next, QueueInv
<1> QED
  BY <1>4, <1>5, <1>7, <1>8, <1>11, <1>12, <1>13 DEF Balance

LEMMA InitBalance == Init => Balance
<1> SUFFICES ASSUME Init PROVE Balance
  OBVIOUS
<1>1. \A d \in Admins : ToForget[d] = 0 /\ ToAdd[d] = 0
  BY DEF Init, Quiet, ToForget, ToAdd
<1>2. /\ IsFiniteSet(Tokens(ToForget)) /\ IsFiniteSet(Tokens(ToAdd))
      /\ Total(ToForget) = 0 /\ Total(ToAdd) = 0
  BY <1>1, NoTokens
<1>3. Held(Resized) = 0
  <2>1. {a \in Actors : Holds(a, Resized)} = {}
    BY DEF Init, Holds
  <2> QED
    BY <2>1, FS_EmptySet DEF Held
<1>4. free[Resized] = cap /\ cap \in Nat
  BY CapsAssumption DEF Init
<1> QED
  BY <1>2, <1>3, <1>4 DEF Balance, Circulating

LEMMA NextBalance ==
  PermitInv /\ LimitsInv /\ QueueInv /\ Balance /\ [Next]_vars => Balance'
<1> SUFFICES ASSUME PermitInv, LimitsInv, QueueInv, Balance, [Next]_vars PROVE Balance'
  OBVIOUS
<1>1. ASSUME UNCHANGED adminVars, Circulating(Resized)' = Circulating(Resized) PROVE Balance'
  BY <1>1 DEF Balance, ToForget, ToAdd, Total, Tokens, adminVars
<1>2. CASE UNCHANGED vars
  <2>1. Circulating(Resized)' = Circulating(Resized)
    BY <1>2 DEF vars, actorVars, Circulating, Held, Holds
  <2> QED
    BY <1>1, <1>2, <2>1 DEF vars
<1>3. ASSUME NEW a \in Actors, Start(a) \/ Step(a) \/ Leave(a) \/ Disconnect(a)
      PROVE  Balance'
  BY <1>1, <1>3, RequestsNever, RequestsCirculate
<1>4. ASSUME NEW d \in Admins, AdminStep(d) \/ \E limit \in Caps : Put(d, limit)
      PROVE  Balance'
  BY <1>4, ResizeBalances
<1> QED
  BY <1>2, <1>3, <1>4 DEF Next

(* However many administrators change the limit at once, and whatever      *)
(* requests do meanwhile: when the last of them is done the semaphore has  *)
(* the permits its cap says, or more if a shrink found some in use.        *)
THEOREM PermitsMatch == Spec => []PermitsMatchCap
<1>1. PermitInv /\ LimitsInv /\ QueueInv /\ Balance => PermitsMatchCap
  <2> SUFFICES ASSUME PermitInv, LimitsInv, QueueInv, Balance PROVE PermitsMatchCap
    OBVIOUS
  <2>1. ASSUME \A d \in Admins : admin[d] \in [stage : {"none", "store"}, old : Nat, to : Nat, take : Nat]
        PROVE  Circulating(Resized) >= cap /\ (~missed => Circulating(Resized) = cap)
    <3>1. \A d \in Admins : ToForget[d] = 0 /\ ToAdd[d] = 0
      BY <2>1 DEF ToForget, ToAdd
    <3>2. Total(ToForget) = 0 /\ Total(ToAdd) = 0
      BY <3>1, NoTokens
    <3>3. Circulating(Resized) \in Nat /\ cap \in Nat
      BY HeldIsNat, CapsAssumption DEF Circulating, QueueInv, LimitsInv
    <3> QED
      BY <3>2, <3>3 DEF Balance
  <2> QED
    BY <2>1 DEF PermitInv, PermitsMatchCap
<1>2. Init => QueueInv
  BY CapsAssumption DEF Init, QueueInv, Sems
<1> QED
  BY <1>1, <1>2, InitPermits, InitLimits, InitBalance, NextPermits, LimitsTyped, NextQueue,
     NextBalance, PTL DEF Spec
=============================================================================
