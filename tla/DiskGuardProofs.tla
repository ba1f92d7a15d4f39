-------------------------- MODULE DiskGuardProofs --------------------------
(***************************************************************************)
(* The registry of `.part` files in flight, for any set of downloads and   *)
(* paths: its counts are the guards alive, and what was held when a plan   *)
(* was made and still is, is not in that plan.  Then the space: the files  *)
(* that have a name leave what the last download let in was promised, less *)
(* a song for each one ever let in and a tag for each that wrote tags.     *)
(***************************************************************************)
EXTENDS DiskGuard, FiniteSetTheorems, TLAPS

(* What the files take, within what a song and its tags can, and who has   *)
(* them open.                                                              *)
Sizes ==
  /\ size \in [Files -> Nat] /\ writers \in [Files -> SUBSET Jobs]
  /\ \A f \in Entries : size[f] <= FileSize
  /\ \A p \in Paths : size[TagsOn(p)] <= TagSize /\ writers[TagsOn(p)] = {}
  /\ cold \in SUBSET Present

LEMMA SizeTypes ==
  ASSUME Sizes, NEW f \in Entries
  PROVE  /\ f[1] \in Paths /\ f = <<f[1], f[2]>> /\ f[2] \in {"final", "part"}
         /\ f \in Files /\ TagsOn(f[1]) \in Files /\ Removed(f[1]) \in Files
         /\ f # TagsOn(f[1]) /\ f # Removed(f[1]) /\ TagsOn(f[1]) # Removed(f[1])
         /\ SizeOf(f) \in 0..(FileSize + TagSize) /\ Kept(f) \in Nat
<1>1. /\ f[1] \in Paths /\ f = <<f[1], f[2]>> /\ f[2] \in {"final", "part"}
      /\ f \in Files /\ TagsOn(f[1]) \in Files /\ Removed(f[1]) \in Files
      /\ f # TagsOn(f[1]) /\ f # Removed(f[1]) /\ TagsOn(f[1]) # Removed(f[1])
  BY DEF Entries, Files, TagsOn, Removed
<1>2. SizeOf(f) \in 0..(FileSize + TagSize)
  BY <1>1, SpaceAssumption DEF Sizes, SizeOf
<1>3. QED
  BY <1>1, <1>2, SpaceAssumption DEF Kept

(* Removing a file lengthens no other that has a name, and nobody comes to *)
(* have one open.                                                          *)
Lessened == \A g \in Named : size'[g] <= size[g] /\ writers'[g] \subseteq writers[g]

LEMMA UnlinkSizes ==
  ASSUME Sizes, NEW f \in Entries, Unlink(f)
  PROVE  Sizes' /\ Lessened
<1> DEFINE p == f[1]
           t == TagsOn(p)
           r == Removed(p)
<1>1. /\ p \in Paths /\ f \in Files /\ t \in Files /\ r \in Files
      /\ f # t /\ f # r /\ t # r /\ Kept(f) \in Nat
  BY SizeTypes
<1>2. /\ size' = [size EXCEPT ![f] = 0, ![r] = @ + Kept(f),
                              ![t] = IF f[2] = "final" THEN 0 ELSE @]
      /\ writers' = [writers EXCEPT ![f] = {}, ![r] = @ \cup writers[f]]
      /\ cold' = cold \ {f}
  BY DEF Unlink
<1>3. size' \in [Files -> Nat] /\ writers' \in [Files -> SUBSET Jobs]
  BY <1>1, <1>2 DEF Sizes
<1>4. \A g \in Named : g \in Files /\ g # r
  BY DEF Named, Files, Removed
<1> HIDE DEF p, t, r
<1>5. Lessened
  BY <1>1, <1>2, <1>4 DEF Sizes, Lessened
<1>6. \A g \in Entries : g \in Named
  BY DEF Entries, Named
<1>7. \A q \in Paths : TagsOn(q) \in Named
  BY DEF TagsOn, Named
<1>8. \A g \in Entries : size'[g] <= FileSize
  BY <1>3, <1>4, <1>5, <1>6, SpaceAssumption DEF Sizes, Lessened
<1>9. \A q \in Paths : size'[TagsOn(q)] <= TagSize /\ writers'[TagsOn(q)] = {}
  BY <1>3, <1>4, <1>5, <1>7, SpaceAssumption DEF Sizes, Lessened
<1>10. cold' \in SUBSET Present'
  <2>1. ASSUME NEW g \in Entries, g # f PROVE SizeOf(g)' = SizeOf(g)
    <3>1. g \in Files /\ g # r /\ g # t
      BY <1>1 DEF Entries, Files, t, r, TagsOn, Removed
    <3>2. size'[g] = size[g]
      BY <1>1, <1>2, <2>1, <3>1 DEF Sizes
    <3>3. g[2] = "final" => size'[TagsOn(g[1])] = size[TagsOn(g[1])]
      <4> SUFFICES ASSUME g[2] = "final" PROVE size'[TagsOn(g[1])] = size[TagsOn(g[1])]
        OBVIOUS
      <4>1. TagsOn(g[1]) \in Files /\ TagsOn(g[1]) # f /\ TagsOn(g[1]) # r
        BY <1>1 DEF Entries, Files, TagsOn, Removed, r
      <4>2. CASE f[2] = "final"
        <5>1. TagsOn(g[1]) # t
          BY <2>1, <4>2 DEF Entries, TagsOn, t, p
        <5>2. QED
          BY <1>1, <1>2, <4>1, <5>1 DEF Sizes
      <4>3. CASE f[2] # "final"
        BY <1>1, <1>2, <4>1, <4>3 DEF Sizes
      <4>4. QED
        BY <4>2, <4>3
    <3>4. QED
      BY <3>2, <3>3 DEF SizeOf
  <2>2. QED
    BY <1>2, <2>1 DEF Sizes, Present
<1>11. QED
  BY <1>3, <1>5, <1>8, <1>9, <1>10 DEF Sizes

(* The guards on a path.                                                   *)
On(p) == {g \in holds : Dest[g[1]] = p}

GuardShape ==
  /\ at \in [Jobs -> Steps]
  /\ paths \in [Paths -> Nat] /\ holds \in SUBSET Guards /\ IsFiniteSet(holds)
  /\ listed \in [Jobs -> SUBSET (Entries \X (0..(FileSize + TagSize)))]
  /\ plan \in [Jobs -> SUBSET Entries] /\ before \in [Jobs -> SUBSET Guards]

(* Each job takes each of its guards once, and where it is tells which it  *)
(* has by now taken and given back.                                        *)
NotYet(j) ==
  CASE at[j] \in {"start", "register"} -> {"job", "attempt"}
    [] at[j] \in {"measure", "scan", "select", "evict", "recheck", "open"} -> {"attempt"}
    [] OTHER -> {}

GuardsFollow ==
  /\ \A j \in Jobs : \A level \in NotYet(j) :
       <<j, level>> \notin holds /\ \A k \in Jobs : <<j, level>> \notin before[k]
  /\ \A j \in Jobs : <<j, "attempt">> \in holds <=> at[j] \in {"write", "rename", "unlock"}
  /\ \A j \in Jobs : at[j] = "leave" => <<j, "job">> \in holds
  /\ \A j \in Jobs : Route[j] = "batch" => at[j] \notin {"register", "leave"}
  /\ \A j \in Jobs :
       Route[j] # "batch" /\ at[j] \notin {"start", "register", "tag", "done"} =>
         <<j, "job">> \in holds
  /\ \A j \in Jobs : Route[j] = "music" /\ at[j] = "tag" => <<j, "job">> \in holds

CountsGuards == \A p \in Paths : paths[p] = Cardinality(On(p))

GuardInv == Sizes /\ GuardShape /\ GuardsFollow /\ CountsGuards /\ InFlightKept

LEMMA GuardInitInv == GuardInit => GuardInv
<1> SUFFICES ASSUME GuardInit PROVE GuardInv
  OBVIOUS
<1>1. GuardShape
  <2>2. /\ listed \in [Jobs -> SUBSET (Entries \X (0..(FileSize + TagSize)))]
        /\ plan \in [Jobs -> SUBSET Entries] /\ before \in [Jobs -> SUBSET Guards]
    BY DEF GuardInit
  <2>3. at \in [Jobs -> Steps] /\ paths \in [Paths -> Nat]
    BY DEF GuardInit, Steps
  <2>4. holds \in SUBSET Guards /\ IsFiniteSet(holds)
    BY FS_EmptySet DEF GuardInit
  <2>5. QED
    BY <2>2, <2>3, <2>4 DEF GuardShape
<1>2. GuardsFollow
  BY DEF GuardInit, GuardsFollow
<1>3. CountsGuards
  <2>1. \A p \in Paths : On(p) = {}
    BY DEF GuardInit, On
  <2>2. QED
    BY <2>1, FS_EmptySet DEF GuardInit, CountsGuards
<1>4. InFlightKept
  BY DEF GuardInit, InFlightKept
<1>5. Sizes
  <2>1. size \in [Files -> Nat] /\ writers \in [Files -> SUBSET Jobs]
    BY SpaceAssumption DEF GuardInit
  <2>2. \A p \in Paths : size[TagsOn(p)] <= TagSize /\ writers[TagsOn(p)] = {}
    <3> SUFFICES ASSUME NEW p \in Paths
                 PROVE  size[TagsOn(p)] <= TagSize /\ writers[TagsOn(p)] = {}
      OBVIOUS
    <3>1. size[TagsOn(p)] <= IF size[<<p, "final">>] = 0 THEN 0 ELSE TagSize
      BY DEF GuardInit
    <3>2. TagsOn(p) \in Files
      BY DEF TagsOn, Files
    <3>3. writers[TagsOn(p)] = {}
      BY <3>2 DEF GuardInit
    <3>4. QED
      BY <2>1, <3>1, <3>2, <3>3, SpaceAssumption
  <2>3. QED
    BY <2>1, <2>2 DEF GuardInit, Sizes
<1>6. QED
  BY <1>1, <1>2, <1>3, <1>4, <1>5 DEF GuardInv

(* A guard in hand keeps its path in the snapshot.                         *)
LEMMA HeldIsListed ==
  ASSUME GuardShape, CountsGuards, NEW g \in holds
  PROVE  paths[Dest[g[1]]] >= 1 /\ PartOf(g[1]) \in Snapshot
<1> DEFINE p == Dest[g[1]]
<1>1. p \in Paths
  BY DestAssumption DEF GuardShape, Guards
<1>2. IsFiniteSet(On(p)) /\ On(p) # {}
  <2>1. On(p) \in SUBSET holds /\ g \in On(p)
    BY DEF On
  <2>2. QED
    BY <2>1, FS_Subset DEF GuardShape
<1>3. paths[p] # 0 /\ paths[p] \in Nat
  BY <1>1, <1>2, FS_EmptySet DEF CountsGuards, GuardShape
<1>4. QED
  BY <1>1, <1>3 DEF PartOf, Snapshot

(* register counts a guard that was not held.                              *)
LEMMA RegisterCounts ==
  ASSUME GuardShape, CountsGuards, NEW j \in Jobs, NEW level \in {"job", "attempt"},
         <<j, level>> \notin holds, Register(j, level)
  PROVE  /\ holds' \in SUBSET Guards /\ IsFiniteSet(holds')
         /\ paths' \in [Paths -> Nat] /\ CountsGuards'
<1>1. holds' = holds \cup {<<j, level>>} /\ paths' = [paths EXCEPT ![Dest[j]] = @ + 1]
  BY DEF Register
<1>2. Dest[j] \in Paths
  BY DestAssumption
<1>3. holds' \in SUBSET Guards /\ IsFiniteSet(holds')
  BY <1>1, FS_AddElement DEF GuardShape, Guards
<1>4. ASSUME NEW p \in Paths PROVE paths'[p] = Cardinality(On(p)')
  <2>1. IsFiniteSet(On(p)) /\ <<j, level>> \notin On(p)
    BY FS_Subset DEF GuardShape, On
  <2>2. CASE p = Dest[j]
    <3>1. On(p)' = On(p) \cup {<<j, level>>}
      BY <1>1, <2>2 DEF On
    <3>2. Cardinality(On(p)') = paths[p] + 1
      BY <2>1, <3>1, FS_AddElement DEF CountsGuards
    <3>3. QED
      BY <1>1, <2>2, <3>2 DEF GuardShape
  <2>3. CASE p # Dest[j]
    <3>1. On(p)' = On(p)
      BY <1>1, <2>3 DEF On
    <3>2. QED
      BY <1>1, <2>3, <3>1 DEF GuardShape, CountsGuards
  <2>4. QED
    BY <2>2, <2>3
<1>5. paths' \in [Paths -> Nat]
  BY <1>1, <1>2 DEF GuardShape
<1>6. QED
  BY <1>3, <1>4, <1>5 DEF CountsGuards

(* Dropping a guard discounts it, and it alone.                            *)
LEMMA DropCounts ==
  ASSUME GuardShape, CountsGuards, NEW j \in Jobs, NEW level \in {"job", "attempt"},
         <<j, level>> \in holds, DropGuard(j, level)
  PROVE  /\ holds' \in SUBSET Guards /\ IsFiniteSet(holds')
         /\ paths' \in [Paths -> Nat] /\ CountsGuards'
<1>1. /\ holds' = holds \ {<<j, level>>}
      /\ paths' = [paths EXCEPT ![Dest[j]] = IF @ <= 1 THEN 0 ELSE @ - 1]
  BY DEF DropGuard, Dropped
<1>2. Dest[j] \in Paths /\ paths[Dest[j]] \in Nat /\ paths[Dest[j]] >= 1
  BY DestAssumption, HeldIsListed DEF GuardShape
<1>3. holds' \in SUBSET Guards /\ IsFiniteSet(holds')
  BY <1>1, FS_RemoveElement DEF GuardShape
<1>4. ASSUME NEW p \in Paths PROVE paths'[p] = Cardinality(On(p)')
  <2>1. IsFiniteSet(On(p))
    BY FS_Subset DEF GuardShape, On
  <2>2. CASE p = Dest[j]
    <3>1. On(p)' = On(p) \ {<<j, level>>} /\ <<j, level>> \in On(p)
      BY <1>1, <2>2 DEF On
    <3>2. Cardinality(On(p)') = paths[p] - 1
      BY <2>1, <3>1, FS_RemoveElement DEF CountsGuards
    <3>3. QED
      BY <1>1, <1>2, <2>2, <3>2 DEF GuardShape
  <2>3. CASE p # Dest[j]
    <3>1. On(p)' = On(p)
      BY <1>1, <2>3 DEF On
    <3>2. QED
      BY <1>1, <2>3, <3>1 DEF GuardShape, CountsGuards
  <2>4. QED
    BY <2>2, <2>3
<1>5. paths' \in [Paths -> Nat]
  BY <1>1, <1>2 DEF GuardShape
<1>6. QED
  BY <1>3, <1>4, <1>5 DEF CountsGuards

-----------------------------------------------------------------------------
(* What a step of a job does to the files.                                 *)
LEMMA GrowSizes ==
  ASSUME Sizes, NEW f \in Files, f[2] # "tags", Grow(f), writers' \in [Files -> SUBSET Jobs],
         \A p \in Paths : writers'[TagsOn(p)] = {}
  PROVE  Sizes'
<1>1. /\ size' = [size EXCEPT ![f] = @ + 1] /\ cold' = cold \ {f}
      /\ f[2] = "removed" \/ size[f] < FileSize
  BY DEF Grow
<1>2. size' \in [Files -> Nat]
  BY <1>1 DEF Sizes
<1>3. \A g \in Entries : size'[g] <= FileSize
  <2>1. \A g \in Entries : g \in Files /\ g[2] # "removed"
    BY DEF Entries, Files
  <2>2. QED
    BY <1>1, <2>1, SpaceAssumption DEF Sizes
<1>4. \A p \in Paths : size'[TagsOn(p)] = size[TagsOn(p)]
  BY <1>1 DEF Sizes, TagsOn, Files
<1>5. cold' \in SUBSET Present'
  <2>1. ASSUME NEW g \in Entries, g # f PROVE SizeOf(g)' = SizeOf(g)
    BY <1>1, <1>4, <2>1, SizeTypes DEF SizeOf, Sizes
  <2>2. QED
    BY <1>1, <2>1 DEF Sizes, Present
<1>6. QED
  BY <1>2, <1>3, <1>4, <1>5 DEF Sizes

LEMMA RenameSizes ==
  ASSUME Sizes, NEW j \in Jobs, Rename(j), size[PartOf(j)] > 0
  PROVE  Sizes'
<1> DEFINE p == Dest[j]
           f == FinalOf(j)
           g == PartOf(j)
           t == TagsOn(p)
           r == Removed(p)
<1>1. /\ p \in Paths /\ f \in Entries /\ g \in Entries
      /\ f \in Files /\ g \in Files /\ t \in Files /\ r \in Files
      /\ f # g /\ f # t /\ f # r /\ g # t /\ g # r /\ t # r
  BY DestAssumption DEF FinalOf, PartOf, Entries, Files, TagsOn, Removed
<1>2. Kept(f) \in Nat
  BY <1>1, SizeTypes
<1>3. /\ size' = [size EXCEPT ![f] = size[g], ![g] = 0, ![t] = 0, ![r] = @ + Kept(f)]
      /\ writers' = [writers EXCEPT ![f] = writers[g], ![g] = {}, ![r] = @ \cup writers[f]]
      /\ cold' = (cold \ {f, g}) \cup (IF g \in cold THEN {f} ELSE {})
  BY DEF Rename
<1>4. \A q \in Entries : q[1] # p => q # f /\ q # g
  BY DEF FinalOf, PartOf
<1>5. \A q \in Entries : q # r /\ q # t /\ (q \in {f, g} \/ q[1] # p)
  BY DEF Entries, FinalOf, PartOf, TagsOn, Removed
<1>6. \A q \in Paths : TagsOn(q) \in Files /\ TagsOn(q) \notin {f, g, r} /\ (q = p <=> TagsOn(q) = t)
  BY DEF Files, FinalOf, PartOf, TagsOn, Removed
<1> HIDE DEF f, g, t, r
<1>7. size' \in [Files -> Nat] /\ writers' \in [Files -> SUBSET Jobs]
  BY <1>1, <1>2, <1>3 DEF Sizes
<1>8. \A q \in Entries : size'[q] <= FileSize
  <2>1. \A q \in Entries : q \in Files
    BY DEF Entries, Files
  <2>2. QED
    BY <1>1, <1>3, <1>5, <2>1, SpaceAssumption DEF Sizes
<1>9. \A q \in Paths : size'[TagsOn(q)] <= TagSize /\ writers'[TagsOn(q)] = {}
  BY <1>1, <1>3, <1>6, SpaceAssumption DEF Sizes
<1>10. cold' \in SUBSET Present'
  <2>1. ASSUME NEW q \in Entries, q \notin {f, g} PROVE SizeOf(q)' = SizeOf(q)
    <3>1. q \in Files /\ q[1] \in Paths /\ q[1] # p
      BY <1>5, <2>1, SizeTypes
    <3>2. size'[q] = size[q] /\ size'[TagsOn(q[1])] = size[TagsOn(q[1])]
      BY <1>1, <1>3, <1>5, <1>6, <2>1, <3>1 DEF Sizes
    <3>3. QED
      BY <3>2 DEF SizeOf
  <2>2. SizeOf(f)' > 0
    <3>1. size'[f] > 0 /\ size'[TagsOn(f[1])] \in Nat
      BY <1>1, <1>3, <1>7, SizeTypes DEF g, Sizes
    <3>2. size'[f] \in Nat
      BY <1>1, <1>7
    <3>3. QED
      BY <3>1, <3>2 DEF SizeOf
  <2>3. QED
    BY <1>1, <1>3, <2>1, <2>2 DEF Sizes, Present
<1>11. QED
  BY <1>7, <1>8, <1>9, <1>10 DEF Sizes

LEMMA SizesKept ==
  ASSUME Sizes, NEW j \in Jobs, plan[j] \in SUBSET Entries, JobStep(j)
  PROVE  Sizes'
<1>1. PartOf(j) \in Entries /\ FinalOf(j) \in Entries /\ PartOf(j) \in Files /\ TagsOn(Dest[j]) \in Files
  BY DestAssumption DEF PartOf, FinalOf, TagsOn, Entries, Files
<1>2. CASE UNCHANGED <<size, writers, cold>>
  BY <1>2 DEF Sizes, Present, SizeOf
<1>3. CASE Measure(j) \/ Scan(j) \/ Select(j) \/ Evicted(j) \/ Recheck(j) \/ RegisterJob(j) \/ Open(j)
           \/ Complete(j) \/ Fail(j) \/ Unlock(j) \/ Leave(j)
  <2>1. UNCHANGED <<size, writers, cold>>
    BY <1>3 DEF Measure, Scan, Select, Evicted, Recheck, RegisterJob, Open, Complete, Fail,
                Unlock, Leave, diskVars
  <2>2. QED
    BY <1>2, <2>1
<1>4. CASE Start(j)
  BY <1>1, <1>2, <1>4, UnlinkSizes DEF Start
<1>5. CASE Evict(j)
  BY <1>5, UnlinkSizes DEF Evict
<1>6. CASE Write(j)
  <2>1. writers' \in [Files -> SUBSET Jobs] /\ \A p \in Paths : writers'[TagsOn(p)] = {}
    BY <1>1, <1>6 DEF Write, Sizes, PartOf, TagsOn, Files
  <2>2. Grow(PartOf(j)) /\ PartOf(j)[2] # "tags"
    BY <1>6 DEF Write, PartOf
  <2>3. QED
    BY <1>1, <2>1, <2>2, GrowSizes
<1>7. CASE WriteOn(j)
  <2>1. PICK f \in Files : j \in writers[f] /\ Grow(f)
    BY <1>7 DEF WriteOn
  <2>2. f[2] # "tags"
    BY <2>1 DEF Sizes, Files, TagsOn
  <2>3. UNCHANGED writers
    BY <1>7 DEF WriteOn
  <2>4. writers' \in [Files -> SUBSET Jobs] /\ \A p \in Paths : writers'[TagsOn(p)] = {}
    BY <2>3 DEF Sizes
  <2>5. QED
    BY <2>1, <2>2, <2>4, GrowSizes
<1>8. CASE Truncate(j)
  <2>1. size' = [size EXCEPT ![PartOf(j)] = 0] /\ writers' = writers /\ cold' = cold \ {PartOf(j)}
    BY <1>8 DEF Truncate
  <2>2. size' \in [Files -> Nat] /\ \A g \in Entries : size'[g] <= FileSize
    BY <1>1, <2>1, SpaceAssumption DEF Sizes, Entries, Files
  <2>3. \A p \in Paths : size'[TagsOn(p)] = size[TagsOn(p)]
    BY <2>1 DEF Sizes, TagsOn, PartOf, Files
  <2>4. \A g \in Entries : g # PartOf(j) => SizeOf(g)' = SizeOf(g)
    BY <2>1, <2>3, SizeTypes DEF SizeOf, Sizes
  <2>5. QED
    BY <2>1, <2>2, <2>3, <2>4 DEF Sizes, Present
<1>9. CASE Close(j)
  <2>0. PICK f \in Files :
          /\ j \in writers[f] /\ writers' = [writers EXCEPT ![f] = @ \ {j}]
          /\ \E left \in Left(f, j) : size' = [size EXCEPT ![f] = left]
    BY <1>9 DEF Close
  <2>1. PICK left \in Left(f, j) :
          /\ j \in writers[f] /\ writers' = [writers EXCEPT ![f] = @ \ {j}]
          /\ size' = [size EXCEPT ![f] = left] /\ cold' = cold
    BY <1>9, <2>0 DEF Close
  <2>2. left \in Nat /\ (f[2] # "removed" => left = size[f])
    <3>1. size[f] \in Nat
      BY DEF Sizes
    <3>2. QED
      BY <2>1, <3>1 DEF Left
  <2>3. size' \in [Files -> Nat] /\ writers' \in [Files -> SUBSET Jobs]
    BY <2>1, <2>2 DEF Sizes
  <2>4. \A g \in Files : g[2] # "removed" => size'[g] = size[g]
    BY <2>1, <2>2 DEF Sizes
  <2>5. \A g \in Entries : g \in Files /\ g[2] # "removed"
    BY DEF Entries, Files
  <2>6. \A p \in Paths : TagsOn(p) \in Files /\ TagsOn(p)[2] # "removed"
    BY DEF TagsOn, Files
  <2>7. \A p \in Paths : writers'[TagsOn(p)] = {}
    BY <2>1, <2>6 DEF Sizes
  <2>8. \A g \in Entries : SizeOf(g)' = SizeOf(g)
    BY <2>4, <2>5, <2>6, SizeTypes DEF SizeOf
  <2>9. QED
    BY <2>1, <2>3, <2>4, <2>5, <2>6, <2>7, <2>8 DEF Sizes, Present
<1>10. CASE Rename(j)
  BY <1>2, <1>10, RenameSizes DEF Rename
<1>11. CASE Tag(j)
  <2> DEFINE t == TagsOn(Dest[j])
  <2>1. CASE UNCHANGED <<size, cold, tagged>>
    BY <1>2, <1>11, <2>1 DEF Tag
  <2>2. CASE ~UNCHANGED <<size, cold, tagged>>
    <3>1. PICK n \in 0..TagSize : size' = [size EXCEPT ![t] = n]
      BY <1>11, <2>2 DEF Tag
    <3>2. writers' = writers /\ cold' = cold \ {FinalOf(j)}
      BY <1>11, <2>2 DEF Tag
    <3>3. size' \in [Files -> Nat] /\ \A g \in Entries : size'[g] = size[g]
      BY <1>1, <3>1, SpaceAssumption DEF Sizes, Entries, Files, TagsOn
    <3>4. \A p \in Paths : size'[TagsOn(p)] <= TagSize
      <4>1. \A p \in Paths : TagsOn(p) \in Files
        BY DEF TagsOn, Files
      <4> HIDE DEF t
      <4>2. QED
        BY <3>1, <4>1, SpaceAssumption DEF Sizes
    <3>5. ASSUME NEW g \in Entries, g # FinalOf(j) PROVE SizeOf(g)' = SizeOf(g)
      <4>1. g[2] = "final" => TagsOn(g[1]) \in Files /\ TagsOn(g[1]) # t
        BY <3>5 DEF Entries, FinalOf, TagsOn, Files
      <4>2. g[2] = "final" => size'[TagsOn(g[1])] = size[TagsOn(g[1])]
        BY <1>1, <3>1, <4>1 DEF Sizes
      <4>3. QED
        BY <3>3, <4>2 DEF SizeOf
    <3>6. QED
      BY <3>2, <3>3, <3>4, <3>5 DEF Sizes, Present
  <2>3. QED
    BY <2>1, <2>2
<1>12. QED
  BY <1>3, <1>4, <1>5, <1>6, <1>7, <1>8, <1>9, <1>10, <1>11 DEF JobStep, EnsureDiskSpace

-----------------------------------------------------------------------------
(* The steps that take and give back guards.                               *)
LEMMA GuardingSteps ==
  ASSUME GuardInv, Sizes', NEW j \in Jobs, RegisterJob(j) \/ Open(j) \/ Unlock(j) \/ Leave(j)
  PROVE  GuardInv'
<1> USE DEF GuardInv
<1>1. UNCHANGED <<listed, plan, before>>
  BY DEF RegisterJob, Open, Unlock, Leave, diskVars, planVars
<1>2. /\ at' \in [Jobs -> Steps] /\ \A k \in Jobs \ {j} : at'[k] = at[k]
      /\ at[j] \in {"register", "open", "unlock", "leave"}
      /\ at[j] = "register" => at'[j] = "measure" /\ Register(j, "job")
      /\ at[j] = "open" => at'[j] = "write" /\ Register(j, "attempt")
      /\ at[j] = "unlock" =>
           /\ at'[j] \in IF Route[j] = "batch" THEN {"tag", "done"}
                        ELSE IF Route[j] = "music" THEN {"tag", "leave"} ELSE {"leave"}
           /\ DropGuard(j, "attempt")
      /\ at[j] = "leave" =>
           /\ at'[j] \in IF Route[j] = "meta" THEN {"tag", "done"} ELSE {"done"}
           /\ DropGuard(j, "job")
  BY DestAssumption DEF Routes, RegisterJob, Open, Unlock, Leave, Goto, GuardShape, Steps
<1>3. CASE at[j] = "register"
  <2>1. Register(j, "job") /\ <<j, "job">> \notin holds
    BY <1>2, <1>3 DEF GuardsFollow, NotYet
  <2>2. GuardShape' /\ CountsGuards'
    BY <1>1, <1>2, <2>1, RegisterCounts DEF GuardShape
  <2>3. holds' = holds \cup {<<j, "job">>} /\ at'[j] = "measure"
    BY <1>2, <1>3 DEF Register
  <2>4. GuardsFollow'
    BY <1>1, <1>2, <1>3, <2>3 DEF GuardsFollow, NotYet
  <2>5. \A k \in Jobs : <<j, "job">> \notin before[k]
    BY <1>3 DEF GuardsFollow, NotYet
  <2>6. InFlightKept'
    BY <1>1, <2>3, <2>5 DEF InFlightKept, PartOf
  <2>7. QED
    BY <2>2, <2>4, <2>6
<1>4. CASE at[j] = "open"
  <2>1. Register(j, "attempt") /\ <<j, "attempt">> \notin holds
    BY <1>2, <1>4 DEF GuardsFollow, NotYet
  <2>2. GuardShape' /\ CountsGuards'
    BY <1>1, <1>2, <2>1, RegisterCounts DEF GuardShape
  <2>3. holds' = holds \cup {<<j, "attempt">>} /\ at'[j] = "write"
    BY <1>2, <1>4 DEF Register
  <2>4. GuardsFollow'
    BY <1>1, <1>2, <1>4, <2>3 DEF GuardsFollow, NotYet
  <2>5. \A k \in Jobs : <<j, "attempt">> \notin before[k]
    BY <1>4 DEF GuardsFollow, NotYet
  <2>6. InFlightKept'
    BY <1>1, <2>3, <2>5 DEF InFlightKept, PartOf
  <2>7. QED
    BY <2>2, <2>4, <2>6
<1>5. CASE at[j] = "unlock"
  <2>1. DropGuard(j, "attempt") /\ <<j, "attempt">> \in holds
    BY <1>2, <1>5 DEF GuardsFollow
  <2>2. GuardShape' /\ CountsGuards'
    BY <1>1, <1>2, <2>1, DropCounts DEF GuardShape
  <2>3. holds' = holds \ {<<j, "attempt">>}
        /\ at'[j] \in IF Route[j] = "batch" THEN {"tag", "done"}
                     ELSE IF Route[j] = "music" THEN {"tag", "leave"} ELSE {"leave"}
    BY <1>2, <1>5 DEF DropGuard
  <2>4. GuardsFollow'
    BY <1>1, <1>2, <1>5, <2>3 DEF GuardsFollow, NotYet
  <2>5. InFlightKept'
    BY <1>1, <2>3 DEF InFlightKept, PartOf
  <2>6. QED
    BY <2>2, <2>4, <2>5
<1>6. CASE at[j] = "leave"
  <2>1. DropGuard(j, "job") /\ <<j, "job">> \in holds
    BY <1>2, <1>6 DEF GuardsFollow
  <2>2. GuardShape' /\ CountsGuards'
    BY <1>1, <1>2, <2>1, DropCounts DEF GuardShape
  <2>3. holds' = holds \ {<<j, "job">>}
        /\ at'[j] \in IF Route[j] = "meta" THEN {"tag", "done"} ELSE {"done"}
    BY <1>2, <1>6 DEF DropGuard
  <2>4. GuardsFollow'
    BY <1>1, <1>2, <1>6, <2>3 DEF GuardsFollow, NotYet
  <2>5. InFlightKept'
    BY <1>1, <2>3 DEF InFlightKept, PartOf
  <2>6. QED
    BY <2>2, <2>4, <2>5
<1>7. QED
  BY <1>2, <1>3, <1>4, <1>5, <1>6

(* A plan is made of what no guard is on at that moment; it only shrinks.  *)
LEMMA PlanningSteps ==
  ASSUME GuardInv, Sizes', NEW j \in Jobs, Select(j) \/ Evict(j) \/ Evicted(j)
  PROVE  GuardInv'
<1> USE DEF GuardInv
<1>1. UNCHANGED guardVars
  BY DEF Select, Evict, Evicted
<1>2. CountsGuards'
  BY <1>1 DEF CountsGuards, On, guardVars
<1>3. CASE Select(j)
  <2>1. PICK P \in Plans(Candidates(listed[j]), deficit[j]) :
          plan' = [plan EXCEPT ![j] = Listed(P)]
    BY <1>3 DEF Select
  <2>2. /\ at[j] = "select" /\ at' = [at EXCEPT ![j] = "evict"]
        /\ before' = [before EXCEPT ![j] = holds]
        /\ listed' = [listed EXCEPT ![j] = {}]
    BY <1>3 DEF Select, Goto
  <2>3. P \subseteq listed[j] /\ \A e \in P : e[1] \notin Snapshot
    BY <2>1 DEF Plans, Candidates
  <2>4. Listed(P) \in SUBSET Entries /\ Listed(P) \cap Snapshot = {}
    BY <2>3 DEF Listed, GuardShape
  <2>5. GuardShape'
    BY <1>1, <2>1, <2>2, <2>4 DEF GuardShape, guardVars, Steps
  <2>6. GuardsFollow'
    BY <1>1, <2>2 DEF GuardsFollow, NotYet, GuardShape, guardVars
  <2>7. \A g \in holds : PartOf(g[1]) \notin Listed(P)
    BY <2>4, HeldIsListed
  <2>8. InFlightKept'
    BY <1>1, <2>1, <2>2, <2>7 DEF InFlightKept, PartOf, GuardShape, guardVars
  <2>9. QED
    BY <1>2, <2>5, <2>6, <2>8
<1>4. CASE Evict(j)
  <2>1. PICK f \in plan[j] : Unlink(f) /\ plan' = [plan EXCEPT ![j] = @ \ {f}]
    BY <1>4 DEF Evict
  <2>2. UNCHANGED <<at, listed, before>>
    BY <1>4 DEF Evict
  <2>5. GuardShape'
    BY <1>1, <2>1, <2>2 DEF GuardShape, guardVars
  <2>6. GuardsFollow'
    BY <1>1, <2>2 DEF GuardsFollow, NotYet, guardVars
  <2>7. InFlightKept'
    BY <1>1, <2>1, <2>2 DEF InFlightKept, PartOf, GuardShape, guardVars
  <2>8. QED
    BY <1>2, <2>5, <2>6, <2>7
<1>5. CASE Evicted(j)
  <2>1. /\ at[j] = "evict" /\ at' = [at EXCEPT ![j] = "recheck"]
        /\ before' = [before EXCEPT ![j] = {}]
        /\ UNCHANGED <<listed, plan>>
    BY <1>5 DEF Evicted, Goto
  <2>2. GuardShape'
    BY <1>1, <2>1 DEF GuardShape, guardVars, Steps
  <2>3. GuardsFollow'
    BY <1>1, <2>1 DEF GuardsFollow, NotYet, GuardShape, guardVars
  <2>4. InFlightKept'
    BY <1>1, <2>1 DEF InFlightKept, PartOf, GuardShape, guardVars
  <2>5. QED
    BY <1>2, <2>2, <2>3, <2>4
<1>6. QED
  BY <1>3, <1>4, <1>5

(* All other steps of a job leave guards, plans and what was held alone.   *)
LEMMA OtherSteps ==
  ASSUME GuardInv, Sizes', NEW j \in Jobs,
         \/ Measure(j) \/ Scan(j) \/ Recheck(j) \/ Start(j)
         \/ Write(j) \/ WriteOn(j) \/ Truncate(j) \/ Close(j)
         \/ Complete(j) \/ Fail(j) \/ Rename(j) \/ Tag(j)
  PROVE  GuardInv'
<1> USE DEF GuardInv
<1>1. UNCHANGED <<guardVars, plan, before>>
  BY DEF Measure, Scan, Recheck, Start, Write, WriteOn, Truncate, Close, Complete, Fail, Rename,
         Tag, planVars
<1>2. \/ at' = at
      \/ \E s \in Steps :
        /\ at' = [at EXCEPT ![j] = s]
        /\ \/ at[j] = "start" /\ s \in {"done", IF Route[j] = "batch" THEN "measure" ELSE "register"}
           \/ at[j] = "start" /\ Route[j] = "meta" /\ s = "tag"
           \/ /\ at[j] \in {"measure", "recheck"}
              /\ s \in {"open", "scan", IF Route[j] = "batch" THEN "done" ELSE "leave"}
           \/ at[j] = "scan" /\ s = "select"
           \/ at[j] = "write" /\ s \in {"rename", "unlock"}
           \/ at[j] = "rename" /\ s = "unlock"
           \/ at[j] = "tag" /\ s = IF Route[j] = "music" THEN "leave" ELSE "done"
  <2>1. CASE Measure(j)
    BY <2>1 DEF Measure, Admit, Refuse, Goto, Steps
  <2>2. CASE Scan(j)
    BY <2>2 DEF Scan, Goto, Steps
  <2>3. CASE Recheck(j)
    BY <2>3 DEF Recheck, Admit, Refuse, Goto, Steps
  <2>4. CASE Start(j)
    BY <2>4 DEF Start, Goto, Steps
  <2>5. CASE Write(j) \/ WriteOn(j) \/ Truncate(j) \/ Close(j)
    BY <2>5 DEF Write, WriteOn, Truncate, Close
  <2>6. CASE Complete(j) \/ Fail(j)
    BY <2>6 DEF Complete, Fail, Goto, Steps
  <2>7. CASE Rename(j) \/ Tag(j)
    BY <2>7 DEF Rename, Tag, Goto, Steps
  <2>8. QED
    BY <2>1, <2>2, <2>3, <2>4, <2>5, <2>6, <2>7
<1>3. listed' \in [Jobs -> SUBSET (Entries \X (0..(FileSize + TagSize)))]
  <2>1. CASE ~Scan(j)
    BY <2>1 DEF Measure, Recheck, Start, Write, WriteOn, Truncate, Close, Complete, Fail, Rename,
                Tag, planVars, GuardShape
  <2>2. CASE Scan(j)
    <3>1. \A f \in Entries : SizeOf(f) \in 0..(FileSize + TagSize)
      BY SizeTypes
    <3>2. {<<f, SizeOf(f)>> : f \in Present \cap cold} \in SUBSET (Entries \X (0..(FileSize + TagSize)))
      BY <3>1 DEF Present
    <3>3. QED
      BY <2>2, <3>2 DEF Scan, GuardShape
  <2>3. QED
    BY <2>1, <2>2
<1>4. GuardShape'
  BY <1>1, <1>2, <1>3 DEF GuardShape, guardVars
<1>5. GuardsFollow'
  <2>1. CASE at' = at
    BY <1>1, <2>1 DEF GuardsFollow, NotYet, guardVars
  <2>2. CASE at' # at
    BY <1>1, <1>2, <2>2 DEF GuardsFollow, NotYet, GuardShape, guardVars
  <2>3. QED
    BY <2>1, <2>2
<1>6. CountsGuards' /\ InFlightKept'
  BY <1>1 DEF CountsGuards, On, InFlightKept, PartOf, guardVars
<1>7. QED
  BY <1>4, <1>5, <1>6

LEMMA GuardNextInv == GuardInv /\ [GuardNext]_guardAll => GuardInv'
<1> SUFFICES ASSUME GuardInv, [GuardNext]_guardAll PROVE GuardInv'
  OBVIOUS
<1>1. ASSUME NEW j \in Jobs, JobStep(j) PROVE GuardInv'
  <2>1. Sizes'
    BY <1>1, SizesKept DEF GuardInv, GuardShape
  <2>2. QED
    BY <1>1, <2>1, GuardingSteps, PlanningSteps, OtherSteps DEF JobStep, EnsureDiskSpace
<1>2. CASE SweepStart \/ SweepFile \/ SweepEnd \/ Age \/ UNCHANGED guardAll
  <2>1. UNCHANGED <<at, guardVars, listed, plan, before>>
    BY <1>2 DEF SweepStart, SweepFile, SweepEnd, Age, guardAll, planVars
  <2>2. Sizes'
    <3>1. CASE SweepFile
      BY <3>1, UnlinkSizes DEF SweepFile, Present, GuardInv
    <3>2. CASE SweepStart \/ SweepEnd \/ UNCHANGED guardAll
      BY <3>2 DEF SweepStart, SweepEnd, guardAll, diskVars, GuardInv, Sizes, Present, SizeOf
    <3>3. CASE Age
      BY <3>3 DEF Age, GuardInv, Sizes, Present, SizeOf
    <3>4. QED
      BY <1>2, <3>1, <3>2, <3>3
  <2>3. QED
    BY <2>1, <2>2 DEF GuardInv, GuardShape, GuardsFollow, NotYet, CountsGuards, On,
                      InFlightKept, PartOf, guardVars
<1>3. QED
  BY <1>1, <1>2 DEF GuardNext

-----------------------------------------------------------------------------
(* The registry's counts are the guards alive on each path, and each job   *)
(* takes and gives back each of its guards once (in_flight.rs:52-92).      *)
THEOREM GuardInvariant == GuardSpec => []GuardInv
<1>1. QED
  BY GuardInitInv, GuardNextInv, PTL DEF GuardSpec

(* No `.part` held from before a plan was made is in that plan             *)
(* (in_flight.rs:46-56, select.rs:51-55).                                  *)
THEOREM InFlightSurvives == GuardSpec => []InFlightKept
<1>1. GuardInv => InFlightKept
  BY DEF GuardInv
<1>2. QED
  BY GuardInvariant, <1>1, PTL

-----------------------------------------------------------------------------
(* The space a set of files takes, as a set of units; and the sum the      *)
(* module takes over it is their number.                                   *)
UnitSet(S) == {u \in S \X Nat : 1 <= u[2] /\ u[2] <= size[u[1]]}
Tally(S) == Cardinality(UnitSet(S))

LEMMA FilesFinite == IsFiniteSet(Files)
<1>1. IsFiniteSet({"final", "tags", "part", "removed"})
  <2>1. /\ IsFiniteSet({"final"}) /\ IsFiniteSet({"tags"})
        /\ IsFiniteSet({"part"}) /\ IsFiniteSet({"removed"})
    BY FS_Singleton
  <2>2. IsFiniteSet({"final"} \cup {"tags"}) /\ IsFiniteSet({"part"} \cup {"removed"})
    BY <2>1, FS_Union, Zenon
  <2>3. IsFiniteSet(({"final"} \cup {"tags"}) \cup ({"part"} \cup {"removed"}))
    BY <2>2, FS_Union, Zenon
  <2>4. {"final", "tags", "part", "removed"} = ({"final"} \cup {"tags"}) \cup ({"part"} \cup {"removed"})
    OBVIOUS
  <2>5. QED
    BY <2>3, <2>4, Zenon
<1>2. QED
  BY <1>1, PathsAssumption, FS_Product DEF Files

LEMMA TallyAdd ==
  ASSUME Sizes, NEW S \in SUBSET Files, IsFiniteSet(UnitSet(S)), NEW x \in Files, x \notin S
  PROVE  IsFiniteSet(UnitSet(S \cup {x})) /\ Tally(S \cup {x}) = size[x] + Tally(S)
<1> DEFINE k == size[x]
           col == {x} \X (1..k)
           a == UnitSet(S \cup {x})
           b == UnitSet(S)
<1>1. k \in Nat
  BY DEF Sizes
<1>2. a = b \cup col /\ b \cap col = {}
  BY <1>1 DEF UnitSet
<1>3. IsFiniteSet(col) /\ Cardinality(col) = 1 * Cardinality(1..k)
  <2>1. IsFiniteSet({x}) /\ Cardinality({x}) = 1
    BY FS_Singleton
  <2>2. IsFiniteSet(1..k)
    BY <1>1, FS_Interval
  <2>3. QED
    BY <2>1, <2>2, FS_Product, Zenon
<1>4. Cardinality(1..k) = k
  BY <1>1, FS_Interval
<1>5. IsFiniteSet(b) /\ Cardinality(b) \in Nat
  BY FS_CardinalityType
<1> HIDE DEF col, k, a, b
<1>6. /\ IsFiniteSet(a)
      /\ Cardinality(a) = Cardinality(b) + Cardinality(col) - Cardinality(b \cap col)
  BY <1>2, <1>3, <1>5, FS_Union
<1>7. Cardinality(b \cap col) = 0
  BY <1>2, FS_EmptySet
<1>8. Cardinality(a) = k + Cardinality(b)
  <2>1. Cardinality(col) = k
    BY <1>1, <1>3, <1>4
  <2>2. Cardinality(a) = Cardinality(b) + k - 0
    BY <1>6, <1>7, <2>1, Zenon
  <2>3. QED
    BY <1>1, <1>5, <2>2
<1>9. QED
  BY <1>6, <1>8, Zenon DEF Tally, a, b, k

LEMMA TallyNone == UnitSet({}) = {} /\ Tally({}) = 0
<1>1. UnitSet({}) = {}
  BY DEF UnitSet
<1>2. QED
  BY <1>1, FS_EmptySet DEF Tally

(* There is no smallest set of files with infinitely many units.           *)
LEMMA UnitsFinite ==
  ASSUME Sizes, NEW S \in SUBSET Files
  PROVE  IsFiniteSet(UnitSet(S)) /\ Tally(S) \in Nat
<1> DEFINE bad == {s \in SUBSET S : ~IsFiniteSet(UnitSet(s))}
<1>1. bad = {}
  <2> SUFFICES ASSUME bad # {} PROVE FALSE
    OBVIOUS
  <2>1. PICK s \in bad : \A u \in bad : ~(<<u, s>> \in StrictSubsetOrdering(S))
    <3>1. IsFiniteSet(S)
      BY FilesFinite, FS_Subset
    <3>2. IsWellFoundedOn(StrictSubsetOrdering(S), SUBSET S)
      BY <3>1, FS_StrictSubsetOrderingWellFounded, FS_FiniteSubsetsOfFinite
    <3>3. bad \subseteq SUBSET S
      OBVIOUS
    <3> HIDE DEF bad
    <3>4. QED
      BY <3>2, <3>3, WFMin
  <2>2. s # {}
    BY TallyNone, FS_EmptySet
  <2>3. PICK x \in s : TRUE
    BY <2>2
  <2> DEFINE r == s \ {x}
  <2>4. <<r, s>> \in StrictSubsetOrdering(S) /\ r \in SUBSET S
    BY DEF StrictSubsetOrdering
  <2>5. IsFiniteSet(UnitSet(r))
    BY <2>1, <2>4
  <2>6. r \in SUBSET Files /\ x \in Files /\ x \notin r /\ r \cup {x} = s
    OBVIOUS
  <2> HIDE DEF r
  <2>7. IsFiniteSet(UnitSet(r \cup {x}))
    BY <2>5, <2>6, TallyAdd
  <2>8. QED
    BY <2>6, <2>7
<1>2. QED
  BY <1>1, FS_CardinalityType DEF Tally

(* MapThenSumSet calls a recursive function that CHOOSE picks; it can only *)
(* be the tally, for there is no smallest set on which they differ.        *)
Summing(g, S) == [s \in SUBSET S |-> IF s = {} THEN 0
        ELSE Space(CHOOSE x \in s : TRUE) + g[s \ {CHOOSE x \in s : TRUE}]]

LEMMA SumIsTally ==
  ASSUME Sizes, NEW S \in SUBSET Files
  PROVE  Taken(S) = Tally(S)
<1> DEFINE g == CHOOSE h : h = Summing(h, S)
           t == [s \in SUBSET S |-> Tally(s)]
<1>1. Taken(S) = g[S]
  BY DEF Taken, MapThenSumSet, MapThenFoldSet, Summing
<1>2. ASSUME NEW s \in SUBSET S, s # {}
      PROVE  LET x == CHOOSE y \in s : TRUE IN
             x \in s /\ Tally(s) = Space(x) + Tally(s \ {x})
  <2> DEFINE x == CHOOSE y \in s : TRUE
             r == s \ {x}
  <2>1. x \in s
    BY <1>2
  <2> HIDE DEF x
  <2>2. r \in SUBSET Files /\ s = r \cup {x} /\ x \in Files /\ x \notin r
    BY <2>1
  <2> HIDE DEF r
  <2>3. Tally(s) = Space(x) + Tally(r)
    BY <2>2, UnitsFinite, TallyAdd DEF Space
  <2>4. QED
    BY <2>1, <2>3 DEF x, r
<1>3. Tally({}) = 0
  BY TallyNone
<1>4. t = Summing(t, S)
  <2> SUFFICES ASSUME NEW s \in SUBSET S
               PROVE  t[s] = Summing(t, S)[s]
    BY DEF Summing
  <2>1. CASE s = {}
    BY <1>3, <2>1 DEF Summing
  <2>2. CASE s # {}
    <3> DEFINE x == CHOOSE y \in s : TRUE
    <3>1. Summing(t, S)[s] = Space(x) + t[s \ {x}]
      BY <2>2 DEF Summing
    <3>2. QED
      BY <1>2, <2>2, <3>1
  <2>3. QED
    BY <2>1, <2>2
<1>5. g = Summing(g, S)
  BY <1>4
<1> HIDE DEF g
<1>6. \A s \in SUBSET S : g[s] = t[s]
  <2> DEFINE bad == {s \in SUBSET S : g[s] # t[s]}
  <2> SUFFICES ASSUME bad # {} PROVE FALSE
    OBVIOUS
  <2>1. PICK s \in bad : \A u \in bad : ~(<<u, s>> \in StrictSubsetOrdering(S))
    <3>1. IsFiniteSet(S)
      BY FilesFinite, FS_Subset
    <3>2. IsWellFoundedOn(StrictSubsetOrdering(S), SUBSET S)
      BY <3>1, FS_StrictSubsetOrderingWellFounded, FS_FiniteSubsetsOfFinite
    <3>3. bad \subseteq SUBSET S
      OBVIOUS
    <3> HIDE DEF bad
    <3>4. QED
      BY <3>2, <3>3, WFMin
  <2>2. g[s] = Summing(g, S)[s]
    BY <1>5, Zenon
  <2>3. CASE s = {}
    BY <1>3, <2>2, <2>3 DEF Summing
  <2>4. CASE s # {}
    <3> DEFINE x == CHOOSE y \in s : TRUE
    <3>1. x \in s /\ Tally(s) = Space(x) + Tally(s \ {x})
      BY <1>2, <2>4
    <3>2. g[s] = Space(x) + g[s \ {x}]
      BY <2>2, <2>4 DEF Summing
    <3> HIDE DEF x
    <3>3. s \ {x} \in SUBSET S /\ <<s \ {x}, s>> \in StrictSubsetOrdering(S)
      BY <3>1 DEF StrictSubsetOrdering
    <3>4. g[s \ {x}] = Tally(s \ {x})
      BY <2>1, <3>3
    <3>5. QED
      BY <3>1, <3>2, <3>4
  <2>5. QED
    BY <2>3, <2>4
<1>7. QED
  BY <1>1, <1>6

LEMMA FreeIsRest == Sizes => Free = Capacity - Tally(Files) /\ Tally(Files) \in Nat
BY SumIsTally, UnitsFinite DEF Free

-----------------------------------------------------------------------------
(* The types the registry's proof did not need.                            *)
DiskShape ==
  /\ dir \in BOOLEAN /\ deficit \in [Jobs -> Nat] /\ sweeping \in BOOLEAN
  /\ published \in SUBSET admitted /\ admitted \in SUBSET Jobs
  /\ last \in Nat /\ tagged \in SUBSET Jobs

(* The reservation.  An admitted download has a claim on the file it works *)
(* on, and on the published one once it has renamed it; one that wrote     *)
(* tags has a claim on those.  All that has a name and nobody claims still *)
(* fits beside what the last one let in was promised.                      *)
Working == {"open", "write", "rename"}
Asking == {"start", "register", "measure", "scan", "select", "evict", "recheck"}
Claim(j) == IF j \in published THEN FinalOf(j) ELSE PartOf(j)
Claimed == {Claim(j) : j \in admitted}
TagsClaimed == {TagsOn(Dest[j]) : j \in tagged}
Idle == UnitSet({f \in Named : f \notin Claimed /\ f \notin TagsClaimed})

(* Who has a named file open is there by claim.                            *)
Owned ==
  /\ \A j \in Jobs : at[j] \in Working => j \in admitted /\ j \notin published
  /\ \A j \in Jobs : at[j] \in Asking => j \notin admitted
  /\ \A p \in Paths : \A j \in writers[<<p, "part">>] :
       p = Dest[j] /\ j \in admitted /\ j \notin published
  /\ \A p \in Paths : writers[<<p, "final">>] # {} => \E k \in published : Dest[k] = p

Room == admitted # {} => Cardinality(Idle) + MinFree + last <= Capacity

SpaceInv ==
  DiskShape /\ IsFiniteSet(admitted) /\ IsFiniteSet(tagged) /\ Owned /\ Room

LEMMA NamedKinds ==
  /\ Named \subseteq Files /\ Entries \subseteq Named
  /\ \A p \in Paths : TagsOn(p) \in Named /\ Removed(p) \notin Named
  /\ \A f \in Files : f \in Named \/ f[2] = "removed"
BY DEF Named, Files, Entries, TagsOn, Removed

LEMMA IdleFinite ==
  ASSUME Sizes PROVE IsFiniteSet(Idle) /\ Cardinality(Idle) \in Nat
<1>1. {f \in Named : f \notin Claimed /\ f \notin TagsClaimed} \in SUBSET Files
  BY NamedKinds
<1>2. QED
  BY <1>1, UnitsFinite DEF Idle, Tally

(* No unclaimed file may grow.                                             *)
LEMMA RoomKept ==
  ASSUME Sizes, Sizes', DiskShape, Room, admitted' = admitted, last' = last,
         \A g \in Named : \/ g \in Claimed' \/ g \in TagsClaimed' \/ size'[g] = 0
                          \/ g \notin Claimed /\ g \notin TagsClaimed /\ size'[g] <= size[g]
  PROVE  Room'
<1>1. Idle' \subseteq Idle
  <2>1. \A g \in Named : size[g] \in Nat /\ size'[g] \in Nat
    BY NamedKinds DEF Sizes
  <2> HIDE DEF Claimed, TagsClaimed
  <2>2. QED
    BY <2>1 DEF Idle, UnitSet
<1>2. Cardinality(Idle') <= Cardinality(Idle) /\ Cardinality(Idle') \in Nat /\ Cardinality(Idle) \in Nat
  BY <1>1, IdleFinite, FS_Subset, FS_CardinalityType
<1>3. QED
  BY <1>2, SpaceAssumption DEF Room, DiskShape

(* A step that lets nobody in and publishes nothing.                       *)
LEMMA QuietStep ==
  ASSUME Sizes, Sizes', SpaceInv, DiskShape',
         admitted' = admitted, last' = last, published' = published,
         tagged \subseteq tagged', IsFiniteSet(tagged'),
         \A j \in Jobs : at'[j] \in Working => at[j] \in Working,
         \A j \in Jobs : at'[j] \in Asking => at[j] \in Asking,
         \A p \in Paths : \A j \in writers'[<<p, "part">>] :
           j \in writers[<<p, "part">>] \/ (p = Dest[j] /\ j \in admitted /\ j \notin published),
         \A p \in Paths : writers'[<<p, "final">>] \subseteq writers[<<p, "final">>],
         \A g \in Named : g \in Claimed' \/ g \in TagsClaimed' \/ size'[g] <= size[g]
  PROVE  SpaceInv'
<1>1. Claimed' = Claimed /\ TagsClaimed \subseteq TagsClaimed'
  BY DEF Claimed, Claim, TagsClaimed, FinalOf, PartOf
<1>2. Room'
  BY <1>1, RoomKept DEF SpaceInv
<1>3. Owned'
  BY DEF SpaceInv, Owned
<1>4. QED
  BY <1>2, <1>3 DEF SpaceInv

(* Enough: everything on the disk fits beside what is required, whoever is *)
(* let in.                                                                 *)
LEMMA AdmitStep ==
  ASSUME Sizes, Sizes', SpaceInv, DiskShape', NEW j \in Jobs, Admit(j), Enough(j),
         at[j] \in Asking, at \in [Jobs -> Steps], UNCHANGED <<size, writers, published>>
  PROVE  SpaceInv'
<1>1. /\ at' = [at EXCEPT ![j] = "open"] /\ admitted' = admitted \cup {j}
      /\ last' = Report[j] /\ tagged' = tagged
  BY DEF Admit, Goto
<1>2. IsFiniteSet(admitted')
  BY <1>1, FS_AddElement DEF SpaceInv
<1>3. Idle' \subseteq UnitSet(Files)
  BY NamedKinds DEF Idle, UnitSet
<1>4. Cardinality(Idle') \in Nat /\ Cardinality(Idle') <= Tally(Files) /\ Tally(Files) \in Nat
  BY <1>3, UnitsFinite, IdleFinite, FS_Subset, FS_CardinalityType DEF Tally
<1>5. MinFree + Report[j] <= Capacity - Tally(Files)
  <2>1. Free = Capacity - Tally(Files)
    BY FreeIsRest
  <2> HIDE DEF Free
  <2>2. QED
    BY <1>4, <2>1, SpaceAssumption, ReportAssumption DEF Enough, Required
<1>6. Room'
  BY <1>1, <1>4, <1>5, SpaceAssumption, ReportAssumption DEF Room
<1>7. j \notin admitted /\ j \notin published
  BY DEF SpaceInv, Owned, DiskShape
<1>8. Owned'
  BY <1>1, <1>7 DEF SpaceInv, Owned, Working, Asking
<1>9. QED
  BY <1>1, <1>2, <1>6, <1>8 DEF SpaceInv

(* The `.part` becomes the published file, and its writers' with it.       *)
LEMMA RenameStep ==
  ASSUME Sizes, Sizes', SpaceInv, DiskShape', at \in [Jobs -> Steps],
         NEW j \in Jobs, Rename(j), size[PartOf(j)] > 0
  PROVE  SpaceInv'
<1> DEFINE p == Dest[j]
           f == FinalOf(j)
           g == PartOf(j)
           t == TagsOn(p)
           r == Removed(p)
<1>1. /\ p \in Paths /\ f \in Files /\ g \in Files /\ t \in Files /\ r \in Files
      /\ f # g /\ f # t /\ f # r /\ g # t /\ g # r /\ t # r /\ r \notin Named
  BY DestAssumption DEF FinalOf, PartOf, Files, TagsOn, Removed, Named
<1>2. /\ size' = [size EXCEPT ![f] = size[g], ![g] = 0, ![t] = 0, ![r] = @ + Kept(f)]
      /\ writers' = [writers EXCEPT ![f] = writers[g], ![g] = {}, ![r] = @ \cup writers[f]]
      /\ published' = published \cup {j} /\ UNCHANGED <<admitted, last, tagged>>
      /\ at[j] = "rename" /\ at' = [at EXCEPT ![j] = "unlock"]
  BY DEF Rename, Goto, pastVars
<1>3. j \in admitted
  BY <1>2 DEF SpaceInv, Owned, Working
<1>4. TagsClaimed' = TagsClaimed /\ f \in Claimed'
  BY <1>2, <1>3 DEF TagsClaimed, Claimed, Claim, FinalOf
<1>5. \A q \in Claimed : q = g \/ q \in Claimed'
  <2> SUFFICES ASSUME NEW k \in admitted, Claim(k) # g PROVE Claim(k) \in Claimed'
    BY DEF Claimed
  <2>1. CASE k = j
    <3>1. Claim(k) = f
      BY <2>1 DEF Claim
    <3>2. QED
      BY <1>4, <3>1
  <2>2. CASE k # j
    <3>1. Claim(k)' = Claim(k)
      BY <1>2, <2>2 DEF Claim, FinalOf, PartOf
    <3>2. QED
      BY <1>2, <3>1 DEF Claimed
  <2>3. QED
    BY <2>1, <2>2
<1> HIDE DEF f, g, t, r
<1>6. Room'
  <2>1. ASSUME NEW q \in Named
        PROVE  \/ q \in Claimed' \/ q \in TagsClaimed' \/ size'[q] = 0
               \/ q \notin Claimed /\ q \notin TagsClaimed /\ size'[q] <= size[q]
    <3>1. q \in Files /\ q # r /\ size[q] \in Nat
      BY <1>1, NamedKinds DEF Sizes
    <3>2. CASE q \in {f, g, t}
      BY <1>1, <1>2, <1>4, <3>2 DEF Sizes
    <3>3. CASE q \notin {f, g, t}
      <4>1. size'[q] = size[q]
        BY <1>2, <3>1, <3>3 DEF Sizes
      <4>2. QED
        BY <1>4, <1>5, <3>1, <3>3, <4>1
    <3>4. QED
      BY <3>2, <3>3
  <2>2. QED
    BY <1>2, <2>1, RoomKept DEF SpaceInv
<1>7. Owned'
  <2>1. \A k \in Jobs : /\ at'[k] \in Working => k \in admitted' /\ k \notin published'
                        /\ at'[k] \in Asking => k \notin admitted'
    BY <1>2 DEF SpaceInv, Owned, Working, Asking
  <2>2. ASSUME NEW q \in Paths, NEW k \in writers'[<<q, "part">>]
        PROVE  q = Dest[k] /\ k \in admitted' /\ k \notin published'
    <3>1. <<q, "part">> \in Files /\ <<q, "part">> # f /\ <<q, "part">> # r
      BY DEF Files, f, r, FinalOf, Removed
    <3>2. CASE q = p
      BY <1>1, <1>2, <2>2, <3>1, <3>2 DEF g, PartOf, Sizes
    <3>3. CASE q # p
      <4>1. <<q, "part">> # g
        BY <3>3 DEF g, PartOf
      <4>2. k \in writers[<<q, "part">>]
        BY <1>1, <1>2, <2>2, <3>1, <4>1 DEF Sizes
      <4>3. QED
        BY <1>2, <3>3, <4>2 DEF SpaceInv, Owned
    <3>4. QED
      BY <3>2, <3>3
  <2>3. ASSUME NEW q \in Paths, writers'[<<q, "final">>] # {}
        PROVE  \E k \in published' : Dest[k] = q
    <3>1. CASE q = p
      BY <1>2, <3>1
    <3>2. CASE q # p
      <4>1. <<q, "final">> \in Files /\ <<q, "final">> \notin {f, g, r}
        BY <3>2 DEF Files, f, g, r, FinalOf, PartOf, Removed
      <4>2. writers[<<q, "final">>] # {}
        BY <1>1, <1>2, <2>3, <4>1 DEF Sizes
      <4>3. QED
        BY <1>2, <4>2 DEF SpaceInv, Owned
    <3>3. QED
      BY <3>1, <3>2
  <2>4. QED
    BY <2>1, <2>2, <2>3 DEF Owned
<1>8. QED
  BY <1>2, <1>6, <1>7 DEF SpaceInv

(* What each job step does to the types.                                   *)
LEMMA JobShape ==
  ASSUME Sizes, DiskShape, Owned, NEW j \in Jobs, JobStep(j)
  PROVE  DiskShape'
<1>1. CASE Measure(j)
  <2>1. UNCHANGED <<dir, sweeping, published>>
    BY <1>1 DEF Measure, diskVars
  <2>2. published \in SUBSET admitted' /\ admitted' \in SUBSET Jobs /\ last' \in Nat /\ tagged' = tagged
    BY <1>1, ReportAssumption DEF Measure, Admit, Refuse, pastVars, DiskShape
  <2>3. deficit' \in [Jobs -> Nat]
    <3>1. CASE deficit' = deficit
      BY <3>1 DEF DiskShape
    <3>2. CASE ~Enough(j) /\ deficit' = [deficit EXCEPT ![j] = Required(j) - Free]
      <4>1. Required(j) - Free \in Nat
        <5>1. Free = Capacity - Tally(Files) /\ Tally(Files) \in Nat
          BY FreeIsRest
        <5>2. Required(j) \in Nat /\ ~(Free >= Required(j))
          BY <3>2, SpaceAssumption, ReportAssumption DEF Enough, Required
        <5> HIDE DEF Free, Required
        <5>3. QED
          BY <5>1, <5>2, SpaceAssumption
      <4>2. QED
        BY <3>2, <4>1 DEF DiskShape
    <3>3. QED
      BY <1>1, <3>1, <3>2 DEF Measure
  <2>4. QED
    BY <2>1, <2>2, <2>3 DEF DiskShape
<1>2. CASE Recheck(j)
  <2>1. UNCHANGED <<dir, deficit, sweeping, published>>
    BY <1>2 DEF Recheck, diskVars, planVars
  <2>2. published \in SUBSET admitted' /\ admitted' \in SUBSET Jobs /\ last' \in Nat /\ tagged' = tagged
    BY <1>2, ReportAssumption DEF Recheck, Admit, Refuse, pastVars, DiskShape
  <2>3. QED
    BY <2>1, <2>2 DEF DiskShape
<1>3. CASE Scan(j) \/ Select(j) \/ Evict(j) \/ RegisterJob(j) \/ Write(j) \/ WriteOn(j) \/ Truncate(j)
           \/ Close(j) \/ Complete(j) \/ Fail(j) \/ Unlock(j) \/ Leave(j)
  <2>1. UNCHANGED <<dir, deficit, sweeping, published, pastVars>>
    BY <1>3 DEF Scan, Select, Evict, RegisterJob, Write, WriteOn, Truncate, Close, Complete, Fail,
                Unlock, Leave, diskVars, planVars
  <2>2. QED
    BY <2>1 DEF DiskShape, pastVars
<1>4. CASE Evicted(j) \/ Start(j) \/ Open(j)
  <2>1. dir' \in BOOLEAN /\ UNCHANGED <<sweeping, published, pastVars>>
    BY <1>4 DEF Evicted, Start, Open, DiskShape
  <2>2. deficit' \in [Jobs -> Nat]
    BY <1>4 DEF Evicted, Start, Open, planVars, DiskShape
  <2>3. QED
    BY <2>1, <2>2 DEF DiskShape, pastVars
<1>5. CASE Rename(j)
  <2>1. j \in admitted
    BY <1>5 DEF Rename, Owned, Working
  <2>2. UNCHANGED <<dir, deficit, sweeping, pastVars>> /\ published' \in SUBSET admitted
    BY <1>5, <2>1 DEF Rename, planVars, DiskShape
  <2>3. QED
    BY <2>2 DEF DiskShape, pastVars
<1>6. CASE Tag(j)
  <2>1. UNCHANGED <<dir, deficit, sweeping, published, admitted, last>> /\ tagged' \in SUBSET Jobs
    BY <1>6 DEF Tag, planVars, DiskShape
  <2>2. QED
    BY <2>1 DEF DiskShape
<1>7. QED
  BY <1>1, <1>2, <1>3, <1>4, <1>5, <1>6 DEF JobStep, EnsureDiskSpace

(* Files become shorter or go, and nobody opens one.                       *)
LEMMA LessStep ==
  ASSUME Sizes, Sizes', SpaceInv, DiskShape', Lessened, UNCHANGED <<published, pastVars>>,
         \A k \in Jobs : at'[k] \in Working => at[k] \in Working,
         \A k \in Jobs : at'[k] \in Asking => at[k] \in Asking
  PROVE  SpaceInv'
<1>1. \A p \in Paths : <<p, "part">> \in Named /\ <<p, "final">> \in Named
  BY DEF Named
<1>2. UNCHANGED <<admitted, last, tagged>> /\ IsFiniteSet(tagged)
  BY DEF pastVars, SpaceInv
<1>3. QED
  BY <1>1, <1>2, QuietStep DEF Lessened

LEMMA SameLess == Sizes /\ UNCHANGED <<size, writers>> => Lessened
<1> SUFFICES ASSUME Sizes, UNCHANGED <<size, writers>> PROVE Lessened
  OBVIOUS
<1>1. \A g \in Named : size[g] \in Nat
  BY NamedKinds DEF Sizes
<1>2. QED
  BY <1>1 DEF Lessened

LEMMA SpaceJobStep ==
  ASSUME GuardInv, SpaceInv, NEW j \in Jobs, JobStep(j)
  PROVE  SpaceInv'
<1>1. Sizes /\ Sizes' /\ DiskShape'
  BY SizesKept, JobShape DEF GuardInv, GuardShape, SpaceInv
<1>2. at \in [Jobs -> Steps]
  BY DEF GuardInv, GuardShape
<1>3. PartOf(j) \in Named /\ PartOf(j) \in Files /\ Dest[j] \in Paths
  BY DestAssumption, NamedKinds DEF PartOf, Named
<1>4. CASE (Measure(j) \/ Recheck(j)) /\ Enough(j) /\ Admit(j)
  <2>1. at[j] \in Asking /\ UNCHANGED <<size, writers, published>>
    BY <1>4 DEF Measure, Recheck, Asking, diskVars
  <2>2. QED
    BY <1>1, <1>2, <1>4, <2>1, AdmitStep
<1>5. CASE (Measure(j) \/ Recheck(j)) /\ ~(Enough(j) /\ Admit(j))
  <2>1. /\ at[j] \in Asking /\ at'[j] \notin Working /\ UNCHANGED <<size, writers, published, pastVars>>
        /\ \A k \in Jobs \ {j} : at'[k] = at[k]
    BY <1>2, <1>5 DEF Measure, Recheck, Refuse, Goto, Asking, Working, diskVars
  <2>2. \A k \in Jobs : /\ at'[k] \in Working => at[k] \in Working
                        /\ at'[k] \in Asking => at[k] \in Asking
    BY <2>1
  <2>3. QED
    BY <1>1, <2>1, <2>2, SameLess, LessStep
<1>6. CASE Scan(j) \/ Select(j) \/ Evicted(j) \/ RegisterJob(j) \/ Open(j) \/ Complete(j) \/ Fail(j)
           \/ Unlock(j) \/ Leave(j)
  <2>1. UNCHANGED <<size, writers, published, pastVars>>
    BY <1>6 DEF Scan, Select, Evicted, RegisterJob, Open, Complete, Fail, Unlock, Leave, diskVars
  <2>2. \A k \in Jobs : /\ at'[k] \in Working => at[k] \in Working
                        /\ at'[k] \in Asking => at[k] \in Asking
    BY <1>2, <1>6 DEF Scan, Select, Evicted, RegisterJob, Open, Complete, Fail, Unlock, Leave, Goto,
                      Asking, Working
  <2>3. QED
    BY <1>1, <2>1, <2>2, SameLess, LessStep
<1>7. CASE Start(j) \/ Evict(j)
  <2>1. UNCHANGED <<published, pastVars>>
    BY <1>7 DEF Start, Evict
  <2>2. \A k \in Jobs : /\ at'[k] \in Working => at[k] \in Working
                        /\ at'[k] \in Asking => at[k] \in Asking
    BY <1>2, <1>7 DEF Start, Evict, Goto, Asking, Working
  <2>3. Lessened
    <3>1. CASE UNCHANGED <<size, writers>>
      BY <1>1, <3>1, SameLess
    <3>2. CASE \E f \in Entries : Unlink(f)
      BY <1>1, <3>2, UnlinkSizes
    <3>3. FinalOf(j) \in Entries /\ plan[j] \subseteq Entries
      BY DestAssumption DEF FinalOf, Entries, GuardInv, GuardShape
    <3>4. QED
      BY <1>7, <3>1, <3>2, <3>3 DEF Start, Evict
  <2>4. QED
    BY <1>1, <2>1, <2>2, <2>3, LessStep
<1>8. CASE Truncate(j) \/ Close(j)
  <2>1. UNCHANGED <<at, published, pastVars>>
    BY <1>8 DEF Truncate, Close
  <2>2. CASE Truncate(j)
    <3>1. size' = [size EXCEPT ![PartOf(j)] = 0] /\ writers' = writers
      BY <2>2 DEF Truncate
    <3>2. \A g \in Named : g \in Files /\ size[g] \in Nat
      BY <1>1, NamedKinds DEF Sizes
    <3>3. Lessened
      BY <1>1, <1>3, <3>1, <3>2 DEF Lessened, Sizes
    <3>4. QED
      BY <1>1, <2>1, <3>3, LessStep
  <2>3. CASE Close(j)
    <3>1. PICK f \in Files :
            /\ j \in writers[f] /\ writers' = [writers EXCEPT ![f] = @ \ {j}]
            /\ \E left \in Left(f, j) : size' = [size EXCEPT ![f] = left]
      BY <2>3 DEF Close
    <3>2. PICK left \in Left(f, j) : size' = [size EXCEPT ![f] = left]
      BY <3>1
    <3>3. size[f] \in Nat
      BY <1>1 DEF Sizes
    <3>4. left <= size[f] /\ left \in Nat
      BY <3>2, <3>3 DEF Left
    <3>5. \A g \in Named : g \in Files /\ size[g] \in Nat
      BY <1>1, NamedKinds DEF Sizes
    <3>6. Lessened
      BY <1>1, <3>1, <3>2, <3>3, <3>4, <3>5 DEF Lessened, Sizes
    <3>7. QED
      BY <1>1, <2>1, <3>6, LessStep
  <2>4. QED
    BY <1>8, <2>2, <2>3
<1>9. CASE Write(j)
  <2>1. /\ at[j] = "write" /\ UNCHANGED <<at, published, pastVars>>
        /\ size' = [size EXCEPT ![PartOf(j)] = @ + 1]
        /\ writers' = [writers EXCEPT ![PartOf(j)] = @ \cup {j}]
    BY <1>9 DEF Write, Grow
  <2>2. j \in admitted /\ j \notin published
    BY <2>1 DEF SpaceInv, Owned, Working
  <2>3. PartOf(j) \in Claimed'
    BY <2>1, <2>2 DEF Claimed, Claim, PartOf, pastVars
  <2>4. \A g \in Named : g \in Files /\ size[g] \in Nat
    BY <1>1, NamedKinds DEF Sizes
  <2>5. \A g \in Named : g \in Claimed' \/ size'[g] <= size[g]
    <3> HIDE DEF Claimed
    <3>1. QED
      BY <1>1, <1>3, <2>1, <2>3, <2>4 DEF Sizes
  <2>6. ASSUME NEW p \in Paths, NEW k \in writers'[<<p, "part">>]
        PROVE  k \in writers[<<p, "part">>] \/ (p = Dest[k] /\ k \in admitted /\ k \notin published)
    <3>1. <<p, "part">> \in Files
      BY DEF Files
    <3>2. CASE <<p, "part">> = PartOf(j)
      BY <1>1, <2>1, <2>2, <2>6, <3>1, <3>2 DEF Sizes, PartOf
    <3>3. CASE <<p, "part">> # PartOf(j)
      BY <1>1, <2>1, <2>6, <3>1, <3>3 DEF Sizes
    <3>4. QED
      BY <3>2, <3>3
  <2>7. \A p \in Paths : writers'[<<p, "final">>] \subseteq writers[<<p, "final">>]
    BY <1>1, <2>1 DEF Sizes, Files, PartOf
  <2>8. UNCHANGED <<admitted, last, tagged>> /\ IsFiniteSet(tagged)
    BY <2>1 DEF pastVars, SpaceInv
  <2>9. QED
    BY <1>1, <2>1, <2>5, <2>6, <2>7, <2>8, QuietStep
<1>10. CASE WriteOn(j)
  <2>1. PICK f \in Files : j \in writers[f] /\ size' = [size EXCEPT ![f] = @ + 1]
    BY <1>10 DEF WriteOn, Grow
  <2>2. UNCHANGED <<at, writers, published, pastVars>>
    BY <1>10 DEF WriteOn
  <2>3. f \in Named => f \in Claimed'
    <3> SUFFICES ASSUME f \in Named PROVE f \in Claimed'
      OBVIOUS
    <3>1. PICK p \in Paths : f = <<p, "final">> \/ f = <<p, "part">>
      BY <1>1, <2>1 DEF Named, Sizes, TagsOn
    <3>2. CASE f = <<p, "part">>
      <4>1. p = Dest[j] /\ j \in admitted /\ j \notin published
        BY <2>1, <3>2 DEF SpaceInv, Owned
      <4>2. QED
        BY <2>2, <3>2, <4>1 DEF Claimed, Claim, PartOf, pastVars
    <3>3. CASE f = <<p, "final">>
      <4>1. PICK k \in published : Dest[k] = p
        BY <2>1, <3>3 DEF SpaceInv, Owned
      <4>2. k \in admitted
        BY DEF SpaceInv, DiskShape
      <4>3. QED
        BY <2>2, <3>3, <4>1, <4>2 DEF Claimed, Claim, FinalOf, pastVars
    <3>4. QED
      BY <3>1, <3>2, <3>3
  <2>4. \A g \in Named : g \in Files /\ size[g] \in Nat
    BY <1>1, NamedKinds DEF Sizes
  <2>5. \A g \in Named : g \in Claimed' \/ size'[g] <= size[g]
    <3> HIDE DEF Claimed
    <3>1. QED
      BY <1>1, <2>1, <2>3, <2>4 DEF Sizes
  <2>6. UNCHANGED <<admitted, last, tagged>> /\ IsFiniteSet(tagged)
    BY <2>2 DEF pastVars, SpaceInv
  <2>7. QED
    BY <1>1, <2>2, <2>5, <2>6, QuietStep
<1>11. CASE Rename(j)
  <2>1. CASE size[PartOf(j)] > 0
    BY <1>1, <1>2, <1>11, <2>1, RenameStep
  <2>2. CASE ~(size[PartOf(j)] > 0)
    <3>1. UNCHANGED <<size, writers, published, pastVars>>
      BY <1>11, <2>2 DEF Rename
    <3>2. \A k \in Jobs : /\ at'[k] \in Working => at[k] \in Working
                          /\ at'[k] \in Asking => at[k] \in Asking
      BY <1>2, <1>11 DEF Rename, Goto, Asking, Working
    <3>3. QED
      BY <1>1, <3>1, <3>2, SameLess, LessStep
  <2>3. QED
    BY <2>1, <2>2
<1>12. CASE Tag(j)
  <2> DEFINE t == TagsOn(Dest[j])
  <2>1. UNCHANGED <<writers, published, admitted, last>>
    BY <1>12 DEF Tag
  <2>2. \A k \in Jobs : /\ at'[k] \in Working => at[k] \in Working
                        /\ at'[k] \in Asking => at[k] \in Asking
    BY <1>2, <1>12 DEF Tag, Goto, Asking, Working
  <2>3. tagged \subseteq tagged' /\ IsFiniteSet(tagged')
    BY <1>12, FS_AddElement DEF Tag, SpaceInv
  <2>4. ASSUME NEW g \in Named PROVE g \in TagsClaimed' \/ size'[g] <= size[g]
    <3>1. g \in Files /\ size[g] \in Nat
      BY <1>1, NamedKinds DEF Sizes
    <3>2. CASE UNCHANGED size
      BY <3>1, <3>2
    <3>3. CASE ~UNCHANGED size
      <4>1. PICK n \in 0..TagSize : size' = [size EXCEPT ![t] = n]
        BY <1>12, <3>3 DEF Tag
      <4>2. j \in tagged'
        BY <1>12, <3>3 DEF Tag
      <4>3. CASE g = t
        BY <4>2, <4>3 DEF TagsClaimed
      <4>4. CASE g # t
        BY <1>1, <3>1, <4>1, <4>4 DEF Sizes
      <4>5. QED
        BY <4>3, <4>4
    <3>4. QED
      BY <3>2, <3>3
  <2>5. QED
    BY <1>1, <2>1, <2>2, <2>3, <2>4, QuietStep
<1>13. QED
  BY <1>4, <1>5, <1>6, <1>7, <1>8, <1>9, <1>10, <1>11, <1>12 DEF JobStep, EnsureDiskSpace

LEMMA SpaceInitInv == GuardInit => SpaceInv
<1> SUFFICES ASSUME GuardInit PROVE SpaceInv
  OBVIOUS
<1>1. DiskShape
  BY DEF GuardInit, DiskShape
<1>2. IsFiniteSet(admitted) /\ IsFiniteSet(tagged)
  BY FS_EmptySet DEF GuardInit
<1>3. \A p \in Paths : writers[<<p, "part">>] = {} /\ writers[<<p, "final">>] = {}
  BY DEF GuardInit, Files
<1>4. Owned
  BY <1>3 DEF GuardInit, Owned, Working, Asking
<1>5. Room
  BY DEF GuardInit, Room
<1>6. QED
  BY <1>1, <1>2, <1>4, <1>5 DEF SpaceInv

LEMMA SpaceNextInv == GuardInv /\ SpaceInv /\ [GuardNext]_guardAll => SpaceInv'
<1> SUFFICES ASSUME GuardInv, SpaceInv, [GuardNext]_guardAll PROVE SpaceInv'
  OBVIOUS
<1>1. ASSUME NEW j \in Jobs, JobStep(j) PROVE SpaceInv'
  BY <1>1, SpaceJobStep
<1>2. CASE SweepStart \/ SweepFile \/ SweepEnd \/ Age \/ UNCHANGED guardAll
  <2>1. Sizes /\ Sizes'
    BY GuardNextInv DEF GuardInv
  <2>2. UNCHANGED <<at, published, pastVars, deficit>> /\ dir' \in BOOLEAN /\ sweeping' \in BOOLEAN
    BY <1>2 DEF SweepStart, SweepFile, SweepEnd, Age, guardAll, diskVars, planVars, SpaceInv, DiskShape
  <2>3. DiskShape'
    BY <2>2 DEF SpaceInv, DiskShape, pastVars
  <2>4. Lessened
    <3>1. CASE SweepFile
      BY <2>1, <3>1, UnlinkSizes DEF SweepFile, Present
    <3>2. CASE SweepStart \/ SweepEnd \/ Age \/ UNCHANGED guardAll
      <4>1. UNCHANGED <<size, writers>>
        BY <3>2 DEF SweepStart, SweepEnd, Age, guardAll, diskVars
      <4>2. QED
        BY <2>1, <4>1, SameLess
    <3>3. QED
      BY <1>2, <3>1, <3>2
  <2>5. QED
    BY <2>1, <2>2, <2>3, <2>4, LessStep
<1>3. QED
  BY <1>1, <1>2 DEF GuardNext

LEMMA SpaceInvariant == GuardSpec => []SpaceInv
<1>1. QED
  BY GuardInvariant, SpaceInitInv, SpaceNextInv, PTL DEF GuardSpec

(* Every state a behaviour reaches has its types.                          *)
THEOREM GuardTypeCorrect == GuardSpec => []GuardTypeOK
<1>1. GuardInv /\ SpaceInv => GuardTypeOK
  BY DEF GuardInv, GuardShape, Sizes, SpaceInv, DiskShape, GuardTypeOK
<1>2. QED
  BY GuardInvariant, SpaceInvariant, <1>1, PTL

(* What a finite set of jobs claims is a file each, of so many units.      *)
LEMMA ClaimedUnits ==
  ASSUME NEW S, IsFiniteSet(S), NEW M, NEW e \in Surjection(S, M), NEW most \in Nat
  PROVE  LET all == M \X (1..most) IN
         IsFiniteSet(all) /\ Cardinality(all) \in Nat /\ Cardinality(all) <= Cardinality(S) * most
<1> DEFINE all == M \X (1..most)
<1>2. /\ IsFiniteSet(M) /\ Cardinality(M) <= Cardinality(S)
      /\ Cardinality(M) \in Nat /\ Cardinality(S) \in Nat
  BY FS_Surjection, FS_CardinalityType
<1>3. IsFiniteSet(1..most) /\ Cardinality(1..most) = most
  BY FS_Interval
<1>4. IsFiniteSet(all) /\ Cardinality(all) = Cardinality(M) * Cardinality(1..most)
  BY <1>2, <1>3, FS_Product
<1>5. Cardinality(M) * most \in Nat /\ Cardinality(M) * most <= Cardinality(S) * most
  BY <1>2
<1>6. Cardinality(all) = Cardinality(M) * most
  BY <1>3, <1>4
<1>7. IsFiniteSet(all) /\ Cardinality(all) \in Nat /\ Cardinality(all) <= Cardinality(S) * most
  BY <1>4, <1>5, <1>6
<1>8. QED
  BY <1>7 DEF all

(* Beside the files with a name there is room for what the last download   *)
(* let in was promised, less a song for each one ever let in and a tag for *)
(* each that wrote tags (disk_guard/mod.rs:77-84,133-137): what nobody     *)
(* claims still fits, and claims are no more than the jobs that have them. *)
THEOREM SpaceStaysReserved == GuardSpec => []SpaceReserved
<1>1. ASSUME Sizes, SpaceInv, admitted # {}
      PROVE  Taken(Named) + MinFree + last
               <= Capacity + Cardinality(admitted) * FileSize + Cardinality(tagged) * TagSize
  <2> DEFINE x == Claimed \X (1..FileSize)
             y == TagsClaimed \X (1..TagSize)
             a == Cardinality(admitted) * FileSize
             b == Cardinality(tagged) * TagSize
  <2>1. IsFiniteSet(x) /\ Cardinality(x) \in Nat /\ Cardinality(x) <= a
    <3>1. [j \in admitted |-> Claim(j)] \in Surjection(admitted, Claimed)
      BY DEF Surjection, Claimed
    <3>2. QED
      BY <1>1, <3>1, SpaceAssumption, ClaimedUnits DEF SpaceInv
  <2>2. IsFiniteSet(y) /\ Cardinality(y) \in Nat /\ Cardinality(y) <= b
    <3>1. [j \in tagged |-> TagsOn(Dest[j])] \in Surjection(tagged, TagsClaimed)
      BY DEF Surjection, TagsClaimed
    <3>2. QED
      BY <1>1, <3>1, SpaceAssumption, ClaimedUnits DEF SpaceInv
  <2>3. UnitSet(Named) \subseteq (Idle \cup x) \cup y
    <3>1. \A f \in Claimed : f \in Entries
      BY <1>1, DestAssumption DEF Claimed, Claim, FinalOf, PartOf, Entries, SpaceInv, DiskShape
    <3>2. \A f \in Claimed : size[f] <= FileSize
      BY <1>1, <3>1 DEF Sizes
    <3>3. \A f \in TagsClaimed : size[f] <= TagSize
      BY <1>1, DestAssumption DEF Sizes, TagsClaimed, SpaceInv, DiskShape
    <3>4. \A f \in Named : size[f] \in Nat
      BY <1>1, NamedKinds DEF Sizes
    <3> HIDE DEF Claimed, TagsClaimed
    <3>5. QED
      BY <3>2, <3>3, <3>4, SpaceAssumption DEF UnitSet, Idle
  <2> HIDE DEF x, y
  <2>4. IsFiniteSet(Idle) /\ Cardinality(Idle) \in Nat
    BY <1>1, IdleFinite
  <2>5. IsFiniteSet(Idle \cup x) /\ Cardinality(Idle \cup x) <= Cardinality(Idle) + Cardinality(x)
        /\ Cardinality(Idle \cup x) \in Nat
    <3>1. /\ IsFiniteSet(Idle \cup x)
          /\ Cardinality(Idle \cup x) = Cardinality(Idle) + Cardinality(x) - Cardinality(Idle \cap x)
      BY <2>1, <2>4, FS_Union
    <3>2. Cardinality(Idle \cap x) \in Nat /\ Cardinality(Idle \cup x) \in Nat
      BY <2>4, <3>1, FS_Intersection, FS_CardinalityType
    <3>3. QED
      BY <2>1, <2>4, <3>1, <3>2
  <2>6. /\ IsFiniteSet((Idle \cup x) \cup y)
        /\ Cardinality((Idle \cup x) \cup y) <= Cardinality(Idle \cup x) + Cardinality(y)
    <3> DEFINE z == Idle \cup x
    <3>1. IsFiniteSet(z) /\ Cardinality(z) \in Nat
      BY <2>5
    <3> HIDE DEF z
    <3>2. /\ IsFiniteSet(z \cup y)
          /\ Cardinality(z \cup y) = Cardinality(z) + Cardinality(y) - Cardinality(z \cap y)
      BY <2>2, <3>1, FS_Union
    <3>3. Cardinality(z \cap y) \in Nat
      BY <3>1, FS_Intersection, FS_CardinalityType
    <3>4. IsFiniteSet(z \cup y) /\ Cardinality(z \cup y) <= Cardinality(z) + Cardinality(y)
      BY <2>2, <3>1, <3>2, <3>3
    <3>5. QED
      BY <3>4 DEF z
  <2>7. Tally(Named) <= Cardinality((Idle \cup x) \cup y) /\ Tally(Named) \in Nat
    BY <1>1, <2>3, <2>6, NamedKinds, UnitsFinite, FS_Subset DEF Tally
  <2>8. Cardinality((Idle \cup x) \cup y) \in Nat
    BY <2>6, FS_CardinalityType
  <2>9. Taken(Named) = Tally(Named)
    BY <1>1, NamedKinds, SumIsTally
  <2>10. Cardinality(Idle) + MinFree + last <= Capacity
    BY <1>1 DEF SpaceInv, Room
  <2>11. a \in Nat /\ b \in Nat /\ last \in Nat
    BY <1>1, FS_CardinalityType, SpaceAssumption DEF SpaceInv, DiskShape
  <2> HIDE DEF a, b
  <2>12. Taken(Named) + MinFree + last <= Capacity + a + b
    BY <2>1, <2>2, <2>4, <2>5, <2>6, <2>7, <2>8, <2>9, <2>10, <2>11, SpaceAssumption
  <2>13. QED
    BY <2>12 DEF a, b
<1>2. GuardInv /\ SpaceInv => SpaceReserved
  BY <1>1 DEF GuardInv, SpaceReserved
<1>3. QED
  BY GuardInvariant, SpaceInvariant, <1>2, PTL
=============================================================================
