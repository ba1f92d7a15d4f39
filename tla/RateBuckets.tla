---------------------------- MODULE RateBuckets ----------------------------
(***************************************************************************)
(* GovernorLimiter (governor_limiter.rs): one token bucket per user, at    *)
(* most MaxUsers of them, as RateLimitedMusicApi (decorator.rs) asks for   *)
(* one before each call of the API.  The map is concurrent and no lock     *)
(* spans the lookup, the count, the eviction and the insertion.  A caller  *)
(* that gets no token in time goes on all the same, so tokens are left out.*)
(***************************************************************************)
EXTENDS Integers, FiniteSets

CONSTANTS
  Tasks,     \* API calls under way at the same time
  Users,     \* keys; calls without a cookie share "anon", one of them
  MaxUsers,  \* max_users
  MaxClock,  \* instants told apart, and
  MaxMeetings \* misses that meet another one: bounds of the model

ASSUME LimiterAssumption ==
  /\ MaxUsers \in Nat \ {0} /\ MaxClock \in Nat /\ MaxMeetings \in Nat
  /\ IsFiniteSet(Tasks) /\ IsFiniteSet(Users)

VARIABLES
  buckets,  \* users that have one
  access,   \* BucketEntry.last_access
  clock,    \* Instant::now()
  step,     \* per task: where in acquire it is
  user,     \* per task: its key
  victim,   \* per task: the bucket evict_oldest has found, a set of at most one
  meetings  \* history: misses that began while another was under way

bucketVars == <<buckets, access, clock, step, user, victim, meetings>>

Missing == {"missed", "evicting", "removing", "inserting"}
InMiss == {t \in Tasks : step[t] \in Missing}

Goto(t, s) == step' = [step EXCEPT ![t] = s]

(* extract_user_key, then the lookup of get_or_insert.                     *)
LookUp(t, u) ==
  /\ step[t] = "idle"
  /\ user' = [user EXCEPT ![t] = u]
  /\ Goto(t, IF u \in buckets THEN "touch" ELSE "missed")
  /\ meetings' = IF u \notin buckets /\ InMiss # {} THEN meetings + 1 ELSE meetings
  /\ meetings' <= MaxMeetings
  /\ UNCHANGED <<buckets, access, clock, victim>>

(* Mutant: one bucket more than the limit is let in.                       *)
FullAbove == Cardinality(buckets) > MaxUsers

Full == Cardinality(buckets) >= MaxUsers

CheckSize(t) ==
  /\ step[t] = "missed"
  /\ Goto(t, IF Full THEN "evicting" ELSE "inserting")
  /\ UNCHANGED <<buckets, access, clock, user, victim, meetings>>

(* evict_oldest looks at all entries, then removes one by its key: it may  *)
(* have been touched or removed meanwhile.                                 *)
FindOldest(t) ==
  /\ step[t] = "evicting"
  /\ \E found \in SUBSET buckets :
       /\ IF buckets = {} THEN found = {} ELSE Cardinality(found) = 1
       /\ \A u \in found, v \in buckets : access[u] <= access[v]
       /\ victim' = [victim EXCEPT ![t] = found]
  /\ Goto(t, "removing")
  /\ UNCHANGED <<buckets, access, clock, user, meetings>>

RemoveOldest(t) ==
  /\ step[t] = "removing"
  /\ buckets' = buckets \ victim[t]
  /\ victim' = [victim EXCEPT ![t] = {}]
  /\ Goto(t, "inserting")
  /\ UNCHANGED <<access, clock, user, meetings>>

(* A bucket another task has inserted for this user is replaced.           *)
Insert(t) ==
  /\ step[t] = "inserting"
  /\ buckets' = buckets \cup {user[t]}
  /\ access' = [access EXCEPT ![user[t]] = clock]
  /\ Goto(t, "touch")
  /\ UNCHANGED <<clock, user, victim, meetings>>

(* touch, then the token or the timeout: Ok in both cases.                 *)
Touch(t) ==
  /\ step[t] = "touch"
  /\ access' = IF user[t] \in buckets THEN [access EXCEPT ![user[t]] = clock] ELSE access
  /\ Goto(t, "idle")
  /\ UNCHANGED <<buckets, clock, user, victim, meetings>>

Tick ==
  /\ clock < MaxClock /\ clock' = clock + 1
  /\ UNCHANGED <<buckets, access, step, user, victim, meetings>>

BucketInit ==
  /\ buckets = {} /\ access = [u \in Users |-> 0] /\ clock = 0
  /\ step = [t \in Tasks |-> "idle"] /\ user \in [Tasks -> Users]
  /\ victim = [t \in Tasks |-> {}] /\ meetings = 0

BucketNext ==
  \/ Tick
  \/ \E t \in Tasks :
       \/ \E u \in Users : LookUp(t, u)
       \/ CheckSize(t) \/ FindOldest(t) \/ RemoveOldest(t) \/ Insert(t) \/ Touch(t)

BucketSpec == BucketInit /\ [][BucketNext]_bucketVars

BucketTypeOK ==
  /\ buckets \subseteq Users /\ access \in [Users -> Nat] /\ clock \in Nat
  /\ step \in [Tasks -> Missing \cup {"idle", "touch"}] /\ user \in [Tasks -> Users]
  /\ victim \in [Tasks -> SUBSET Users] /\ meetings \in 0..MaxMeetings

(* The limit holds but for misses that met: each may add one bucket, two   *)
(* that evict the same user for instance, and what it added is never taken *)
(* back, since an eviction makes room for one only                         *)
(* (governor_limiter.rs:55-85).                                            *)
BucketsBounded == Cardinality(buckets) <= MaxUsers + meetings
=============================================================================
