------------------------------ MODULE Permits ------------------------------
(***************************************************************************)
(* Concurrency limits: the semaphores of AppState, the RAII guard that     *)
(* couples a permit with its gauge of the statistics                       *)
(* (crates/adapter/src/web/helpers/permit.rs), the order in which each     *)
(* kind of request takes and returns permits, and the administrator's      *)
(* resizing of the semaphores (handler/admin.rs).                          *)
(*                                                                         *)
(* A request is the program of its permits: what it does while it holds    *)
(* them takes any time.  Any step may be the last one before an early      *)
(* return, a panic or a client that disconnects: the guards are then       *)
(* dropped, the last one first.                                            *)
(***************************************************************************)
EXTENDS Naturals, Sequences, FiniteSets, SequencesExt

CONSTANTS
  Actors,   \* requests and workers; one starts again when it has ended
  Kind,     \* the kind of each
  Admins,   \* concurrent PUT /admin/config handlers
  Caps,     \* the limits an administrator may set
  Resized,  \* the semaphore whose limit they set
  Limit     \* the limit of the two others

Sems == {"parse", "download", "batch"}
Counted == {"parse", "download"}   \* the kinds of StatsKind

ASSUME CapsAssumption == Caps \subseteq Nat \ {0} /\ Limit \in Nat \ {0} /\ Resized \in Sems

-----------------------------------------------------------------------------
(* Programs.  late says what a wait does that lasts too long: the request  *)
(* fails, goes on without a permit, or never gives up.                     *)

Acquire(s, late) == [op |-> "acquire", sem |-> s, late |-> late]
TryAcquire(s)    == [op |-> "try", sem |-> s, late |-> "fail"]
Drop(s)          == [op |-> "drop", sem |-> s, late |-> "fail"]

(* single_download_worker (with metadata it leaves out the parse permit,   *)
(* which is what leaving early after the first grant amounts to).          *)
AsyncProgram == <<Acquire("download", "fail"), Acquire("parse", "never"),
                  Drop("parse"), Drop("download")>>

(* Mutant: the synchronous download, too, waits for ever.                  *)
SyncPatient == <<Acquire("parse", "fail"), Acquire("download", "never"),
                 Drop("parse"), Drop("download")>>

(* download_music.                                                         *)
SyncProgram == <<Acquire("parse", "fail"), Acquire("download", "fail"),
                 Drop("parse"), Drop("download")>>

(* One song of download_batch, which does without the permits it does not  *)
(* get.                                                                    *)
GatherProgram == <<Acquire("parse", "skip"), Acquire("download", "skip"),
                   Drop("download"), Drop("parse")>>

(* batch_download_worker with one song; further songs repeat the middle.   *)
BatchProgram == <<TryAcquire("batch"), Acquire("parse", "fail"), Drop("parse"),
                  Acquire("download", "fail"), Drop("download"), Drop("batch")>>

(* Song, search, playlist and album handlers, their UI counterparts,       *)
(* download_with_metadata and the prefetches of the batch worker.          *)
ParseProgram == <<Acquire("parse", "fail"), Drop("parse")>>

Program ==
  [async |-> AsyncProgram, sync |-> SyncProgram, gather |-> GatherProgram,
   batch |-> BatchProgram, parse |-> ParseProgram]

Kinds == {"async", "sync", "gather", "batch", "parse"}
ASSUME ActorsAssumption == IsFiniteSet(Actors) /\ Kind \in [Actors -> Kinds]

VARIABLES
  at,       \* the instruction each actor is at
  phase,    \* "idle", "run", "queued", or "unwind": it only drops its guards
  guards,   \* the permits each actor holds
  free,     \* permits of each semaphore that nobody holds
  queue,    \* who waits for each semaphore (tokio's is fair)
  gauge,    \* parse_current and download_current of the statistics
  cap,      \* *_semaphore_cap of Resized
  config,   \* its limit in runtime_config
  admin,    \* where each administrator's request is
  missed    \* history: a shrink found no permit to take

actorVars == <<at, phase, guards, free, queue, gauge>>
adminVars == <<cap, config, admin, missed>>
vars == <<actorVars, adminVars>>

Instr(a) == Program[Kind[a]][at[a]]
AtOp(a, op) == phase[a] = "run" /\ at[a] <= Len(Program[Kind[a]]) /\ Instr(a).op = op

(* What available_permits() returns: a released permit goes to the first   *)
(* waiter at once.                                                         *)
Available(s) == IF free[s] > Len(queue[s]) THEN free[s] - Len(queue[s]) ELSE 0

Holds(a, s) == s \in guards[a]

(* Guards are dropped in the reverse of the order they were taken in,      *)
(* which is that of the program.                                           *)
TakenAt ==
  [k \in Kinds |-> [s \in Sems |->
     {n \in DOMAIN Program[k] : Program[k][n].op # "drop" /\ Program[k][n].sem = s}]]
Youngest(a, s) ==
  /\ s \in guards[a]
  /\ \A o \in guards[a] : \A n \in TakenAt[Kind[a]][s], m \in TakenAt[Kind[a]][o] : m <= n

-----------------------------------------------------------------------------

Start(a) ==
  /\ phase[a] = "idle"
  /\ at' = [at EXCEPT ![a] = 1] /\ phase' = [phase EXCEPT ![a] = "run"]
  /\ UNCHANGED <<guards, free, queue, gauge, adminVars>>

Enqueue(a) ==
  /\ AtOp(a, "acquire")
  /\ queue' = [queue EXCEPT ![Instr(a).sem] = Append(@, a)]
  /\ phase' = [phase EXCEPT ![a] = "queued"]
  /\ UNCHANGED <<at, guards, free, gauge, adminVars>>

(* PermitGuard::from_permit: the permit and its gauge.                     *)
Take(a, s) ==
  /\ free' = [free EXCEPT ![s] = @ - 1]
  /\ guards' = [guards EXCEPT ![a] = @ \cup {s}]
  /\ gauge' = IF s \in Counted THEN [gauge EXCEPT ![s] = @ + 1] ELSE gauge
  /\ at' = [at EXCEPT ![a] = @ + 1]

(* Mutant: the first in the queue is served, permit or none.               *)
GrantUnchecked(a) ==
  /\ phase[a] = "queued"
  /\ LET s == Instr(a).sem IN
       /\ Head(queue[s]) = a
       /\ Take(a, s)
       /\ queue' = [queue EXCEPT ![s] = Tail(@)]
  /\ phase' = [phase EXCEPT ![a] = "run"]
  /\ UNCHANGED adminVars

Grant(a) ==
  /\ phase[a] = "queued"
  /\ LET s == Instr(a).sem IN
       /\ free[s] > 0 /\ Head(queue[s]) = a
       /\ Take(a, s)
       /\ queue' = [queue EXCEPT ![s] = Tail(@)]
  /\ phase' = [phase EXCEPT ![a] = "run"]
  /\ UNCHANGED adminVars

(* A wait that is dropped leaves the queue.                                *)
LeaveQueue(a, s) ==
  \E i \in DOMAIN queue[s] : queue[s][i] = a /\ queue' = [queue EXCEPT ![s] = RemoveAt(@, i)]

(* 30, 60 or 120 seconds are over.                                         *)
GiveUp(a) ==
  /\ phase[a] = "queued" /\ Instr(a).late # "never"
  /\ LeaveQueue(a, Instr(a).sem)
  /\ at' = [at EXCEPT ![a] = IF Instr(a).late = "skip" THEN @ + 1 ELSE @]
  /\ phase' = [phase EXCEPT ![a] = IF Instr(a).late = "skip" THEN "run" ELSE "unwind"]
  /\ UNCHANGED <<guards, free, gauge, adminVars>>

(* The batch worker's try_acquire: no gauge, no waiting.                   *)
Try(a) ==
  /\ AtOp(a, "try")
  /\ IF Available(Instr(a).sem) > 0
     THEN Take(a, Instr(a).sem) /\ UNCHANGED phase
     ELSE phase' = [phase EXCEPT ![a] = "unwind"] /\ UNCHANGED <<free, guards, gauge, at>>
  /\ UNCHANGED <<queue, adminVars>>

(* Nothing to drop: the acquisition had gone on without a permit.          *)
SkipDrop(a) ==
  /\ AtOp(a, "drop") /\ ~Holds(a, Instr(a).sem)
  /\ at' = [at EXCEPT ![a] = @ + 1]
  /\ UNCHANGED <<phase, guards, free, queue, gauge, adminVars>>

(* An early return, a panic or a disconnect.                               *)
Leave(a) ==
  /\ phase[a] = "run" /\ guards[a] # {}
  /\ phase' = [phase EXCEPT ![a] = "unwind"]
  /\ UNCHANGED <<at, guards, free, queue, gauge, adminVars>>

(* A handler's client disconnects while it waits.                          *)
Disconnect(a) ==
  /\ phase[a] = "queued" /\ Kind[a] \in {"sync", "gather", "parse"}
  /\ LeaveQueue(a, Instr(a).sem)
  /\ phase' = [phase EXCEPT ![a] = "unwind"]
  /\ UNCHANGED <<at, guards, free, gauge, adminVars>>

(* Dropping a guard: stats.decrement (never below 0), then the permit.     *)
Decremented(n) == IF n = 0 THEN 0 ELSE n - 1

GiveBack(a, s) ==
  /\ gauge' = IF s \in Counted THEN [gauge EXCEPT ![s] = Decremented(@)] ELSE gauge
  /\ guards' = [guards EXCEPT ![a] = @ \ {s}]
  /\ free' = [free EXCEPT ![s] = @ + 1]

DropGuard(a) ==
  /\ AtOp(a, "drop") /\ Holds(a, Instr(a).sem)
  /\ GiveBack(a, Instr(a).sem)
  /\ at' = [at EXCEPT ![a] = @ + 1]
  /\ UNCHANGED <<phase, queue, adminVars>>

(* Mutant: the decrement is left to the request, which is no longer there. *)
UnwindUncounted(a) ==
  /\ phase[a] = "unwind"
  /\ \E s \in Sems : /\ Youngest(a, s)
                      /\ guards' = [guards EXCEPT ![a] = @ \ {s}]
                      /\ free' = [free EXCEPT ![s] = @ + 1]
  /\ UNCHANGED <<at, phase, queue, gauge, adminVars>>

Unwind(a) ==
  /\ phase[a] = "unwind"
  /\ \E s \in Sems : Youngest(a, s) /\ GiveBack(a, s)
  /\ UNCHANGED <<at, phase, queue, adminVars>>

End(a) ==
  /\ guards[a] = {}
  /\ phase[a] = "unwind" \/ (phase[a] = "run" /\ at[a] > Len(Program[Kind[a]]))
  /\ phase' = [phase EXCEPT ![a] = "idle"] /\ at' = [at EXCEPT ![a] = 1]
  /\ UNCHANGED <<guards, free, queue, gauge, adminVars>>

Step(a) ==
  \/ Enqueue(a) \/ Grant(a) \/ GiveUp(a) \/ Try(a) \/ SkipDrop(a)
  \/ DropGuard(a) \/ Unwind(a) \/ End(a)

-----------------------------------------------------------------------------
(* apply_runtime_config: load the old limit, store the new one, then, if   *)
(* they differ, resize_semaphore.                                          *)

Quiet == [stage |-> "none", old |-> 0, to |-> 0, take |-> 0]

Put(d, limit) ==
  /\ admin[d] = Quiet
  /\ admin' = [admin EXCEPT ![d] = [stage |-> "store", old |-> config, to |-> limit, take |-> 0]]
  /\ UNCHANGED <<actorVars, cap, config, missed>>

Store(d) ==
  /\ admin[d].stage = "store"
  /\ config' = admin[d].to
  /\ admin' = [admin EXCEPT ![d] = IF @.to = @.old THEN Quiet ELSE [@ EXCEPT !.stage = "swap"]]
  /\ UNCHANGED <<actorVars, cap, missed>>

(* Mutant: what the semaphore has lost or gained is computed from the old  *)
(* configuration, not from the counter that is swapped.                    *)
SwapFromConfig(d) ==
  /\ admin[d].stage = "swap"
  /\ cap' = admin[d].to
  /\ admin' = [admin EXCEPT ![d] =
       IF @.to > @.old THEN [@ EXCEPT !.stage = "add"]
       ELSE [@ EXCEPT !.stage = "forget", !.take = @ + admin[d].old - admin[d].to]]
  /\ UNCHANGED <<actorVars, config, missed>>

(* cap.swap: a change another administrator has made in between counts.    *)
Swap(d) ==
  /\ admin[d].stage = "swap"
  /\ cap' = admin[d].to
  /\ \/ /\ admin[d].to > cap
        /\ admin' = [admin EXCEPT ![d].stage = "add", ![d].old = cap]
     \/ /\ admin[d].to < cap
        /\ admin' = [admin EXCEPT ![d].stage = "forget", ![d].take = cap - admin[d].to]
     \/ /\ admin[d].to = cap
        /\ admin' = [admin EXCEPT ![d] = Quiet]
  /\ UNCHANGED <<actorVars, config, missed>>

AddPermits(d) ==
  /\ admin[d].stage = "add"
  /\ free' = [free EXCEPT ![Resized] = @ + admin[d].to - admin[d].old]
  /\ admin' = [admin EXCEPT ![d] = Quiet]
  /\ UNCHANGED <<at, phase, guards, queue, gauge, cap, config, missed>>

(* try_acquire and forget, one permit at a time, until one is in use.      *)
Forget(d) ==
  /\ admin[d].stage = "forget"
  /\ IF Available(Resized) > 0
     THEN /\ free' = [free EXCEPT ![Resized] = @ - 1]
          /\ admin' = IF admin[d].take = 1 THEN [admin EXCEPT ![d] = Quiet]
                      ELSE [admin EXCEPT ![d].take = @ - 1]
          /\ UNCHANGED missed
     ELSE /\ admin' = [admin EXCEPT ![d] = Quiet]
          /\ missed' = TRUE
          /\ UNCHANGED free
  /\ UNCHANGED <<at, phase, guards, queue, gauge, cap, config>>

AdminStep(d) == Store(d) \/ Swap(d) \/ AddPermits(d) \/ Forget(d)

-----------------------------------------------------------------------------

Init ==
  /\ at = [a \in Actors |-> 1] /\ phase = [a \in Actors |-> "idle"]
  /\ guards = [a \in Actors |-> {}]
  /\ config \in Caps /\ cap = config
  /\ free = [s \in Sems |-> IF s = Resized THEN config ELSE Limit]
  /\ queue = [s \in Sems |-> <<>>] /\ gauge = [s \in Counted |-> 0]
  /\ admin = [d \in Admins |-> Quiet] /\ missed = FALSE

Next ==
  \/ \E a \in Actors : Start(a) \/ Step(a) \/ Leave(a) \/ Disconnect(a)
  \/ \E d \in Admins : AdminStep(d) \/ \E limit \in Caps : Put(d, limit)

Spec == Init /\ [][Next]_vars

(* What holds permits is a request with timeouts, polled to its end, and   *)
(* the resizing never awaits.                                              *)
Fairness ==
  /\ \A a \in Actors : WF_vars(Step(a))
  /\ \A d \in Admins : WF_vars(AdminStep(d))

FairSpec == Spec /\ Fairness

-----------------------------------------------------------------------------
(* Properties.                                                             *)

Held(s) == Cardinality({a \in Actors : Holds(a, s)})

(* Every permit there is, free or held.                                    *)
Circulating(s) == free[s] + Held(s)

TypeOK ==
  /\ at \in [Actors -> 1..7]
  /\ phase \in [Actors -> {"idle", "run", "queued", "unwind"}]
  /\ guards \in [Actors -> SUBSET Sems]
  /\ free \in [Sems -> Nat] /\ queue \in [Sems -> Seq(Actors)] /\ gauge \in [Counted -> Nat]
  /\ cap \in Caps /\ config \in Caps /\ missed \in BOOLEAN
  /\ admin \in [Admins -> [stage : {"none", "store", "swap", "add", "forget"},
                           old : Nat, to : {0} \cup Caps, take : Nat]]

(* The gauge of the statistics is the number of guards alive, whichever    *)
(* way they are taken and dropped: stats_file.rs:146 never has to clamp it. *)
GaugeCountsGuards == \A s \in Counted : gauge[s] = Held(s)

Conserved == \A s \in Sems \ {Resized} : Circulating(s) = Limit

(* No permit of a semaphore is lost or made by any request, whatever it    *)
(* returns early from; and a semaphore that was resized has the permits    *)
(* its cap says once every administrator is done, unless a shrink found    *)
(* them in use.                                                            *)
PermitsMatchCap ==
  /\ Conserved
  /\ (\A d \in Admins : admin[d] \in [stage : {"none", "store"}, old : Nat, to : Nat, take : Nat])
       => Circulating(Resized) >= cap /\ (~missed => Circulating(Resized) = cap)

(* Every request ends, though single-song workers wait for a parse permit  *)
(* with a download permit in hand (download_async.rs:280, 372) and         *)
(* download_music the other way round (download.rs:61, 72).                *)
RequestsEnd == \A a \in Actors : phase[a] # "idle" ~> phase[a] = "idle"

-----------------------------------------------------------------------------
(* What the documentation says and the code does not do.                   *)

(* README.md:54: the limits can be adjusted at runtime and the semaphores  *)
(* follow at once.  (A shrink that finds permits in use never takes them.) *)
DrainedWithinConfig ==
  (\A d \in Admins : admin[d] = Quiet) /\ (\A a \in Actors : phase[a] = "idle")
    => free[Resized] <= config
=============================================================================
