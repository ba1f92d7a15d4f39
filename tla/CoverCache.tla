----------------------------- MODULE CoverCache -----------------------------
(***************************************************************************)
(* The covers kept in memory (cover_cache.rs): looked up before and        *)
(* inserted after a download, with no lock from one to the other and no    *)
(* regard for a download of the same cover under way.  Administrators      *)
(* change the life time and the size while fetches run.                    *)
(***************************************************************************)
EXTENDS Integers, FiniteSets

CONSTANTS
  Fetches,   \* fetches under way at the same time
  Covers,    \* urls
  Sizes,     \* values cover_cache_max_size may take
  Ttls,      \* values cover_cache_ttl_secs may take
  MaxEpoch,  \* instants told apart, and
  MaxOverlaps \* insertions that overlap another: bounds of the model

ASSUME SizesAssumption ==
  /\ Sizes \subseteq Nat \ {0} /\ Ttls \subseteq Nat /\ MaxEpoch \in Nat /\ MaxOverlaps \in Nat
  /\ IsFiniteSet(Fetches) /\ IsFiniteSet(Covers)

VARIABLES
  cached,    \* urls in the map
  inserted,  \* CacheEntry.inserted_at
  epoch,     \* Instant::now()
  ttl,       \* ttl_secs
  maxSize,   \* max_size
  phase,     \* per fetch: where it is
  limit,     \* per fetch: the max_size it has loaded
  oldest,    \* per fetch: the entry it is about to evict, a set of at most one
  largest,   \* history: the largest max_size so far
  overlaps   \* history: insertions begun while another was under way

coverVars == <<cached, inserted, epoch, ttl, maxSize, phase, limit, oldest, largest, overlaps>>

Storing == {"full", "evict", "insert"}
At(f) == phase[f].at
Url(f) == phase[f].url
Turn(f, a, u) == phase' = [phase EXCEPT ![f] = [at |-> a, url |-> u]]

Fresh(u) == u \in cached /\ epoch - inserted[u] < ttl

(* fetch: a fresh entry is returned, a stale one is left where it is.      *)
LookUpCover(f, u) ==
  /\ At(f) = "idle" /\ ~Fresh(u)
  /\ limit' = [limit EXCEPT ![f] = maxSize]
  /\ Turn(f, "download", u)
  /\ UNCHANGED <<cached, inserted, epoch, ttl, maxSize, oldest, largest, overlaps>>

(* with_retry gives up: nothing is cached.                                 *)
FetchFails(f) ==
  /\ At(f) = "download"
  /\ Turn(f, "idle", Url(f))
  /\ UNCHANGED <<cached, inserted, epoch, ttl, maxSize, limit, oldest, largest, overlaps>>

(* Mutant: one cover more than the limit is let in.                        *)
RoomForOne(f) == Cardinality(cached) > limit[f]

NoRoom(f) == Cardinality(cached) >= limit[f]

FetchReturns(f) ==
  /\ At(f) = "download"
  /\ Turn(f, IF NoRoom(f) THEN "full" ELSE "insert", Url(f))
  /\ overlaps' = IF \E g \in Fetches : At(g) \in Storing THEN overlaps + 1 ELSE overlaps
  /\ overlaps' <= MaxOverlaps
  /\ UNCHANGED <<cached, inserted, epoch, ttl, maxSize, limit, oldest, largest>>

(* The entry inserted first, were it the stale one of this very url.       *)
FindFirst(f) ==
  /\ At(f) = "full"
  /\ \E found \in SUBSET cached :
       /\ IF cached = {} THEN found = {} ELSE Cardinality(found) = 1
       /\ \A u \in found, v \in cached : inserted[u] <= inserted[v]
       /\ oldest' = [oldest EXCEPT ![f] = found]
  /\ Turn(f, "evict", Url(f))
  /\ UNCHANGED <<cached, inserted, epoch, ttl, maxSize, limit, largest, overlaps>>

EvictFirst(f) ==
  /\ At(f) = "evict"
  /\ cached' = cached \ oldest[f]
  /\ oldest' = [oldest EXCEPT ![f] = {}]
  /\ Turn(f, "insert", Url(f))
  /\ UNCHANGED <<inserted, epoch, ttl, maxSize, limit, largest, overlaps>>

InsertCover(f) ==
  /\ At(f) = "insert"
  /\ cached' = cached \cup {Url(f)}
  /\ inserted' = [inserted EXCEPT ![Url(f)] = epoch]
  /\ Turn(f, "idle", Url(f))
  /\ UNCHANGED <<epoch, ttl, maxSize, limit, oldest, largest, overlaps>>

(* update_config changes both numbers and evicts nothing.                  *)
UpdateConfig ==
  /\ maxSize' \in Sizes /\ ttl' \in Ttls
  /\ largest' = IF maxSize' > largest THEN maxSize' ELSE largest
  /\ UNCHANGED <<cached, inserted, epoch, phase, limit, oldest, overlaps>>

Pass ==
  /\ epoch < MaxEpoch /\ epoch' = epoch + 1
  /\ UNCHANGED <<cached, inserted, ttl, maxSize, phase, limit, oldest, largest, overlaps>>

CoverInit ==
  /\ cached = {} /\ inserted = [u \in Covers |-> 0] /\ epoch = 0
  /\ ttl \in Ttls /\ maxSize \in Sizes /\ largest = maxSize
  /\ limit = [f \in Fetches |-> maxSize] /\ oldest = [f \in Fetches |-> {}]
  /\ overlaps = 0
  /\ \E u \in Covers : phase = [f \in Fetches |-> [at |-> "idle", url |-> u]]

CoverNext ==
  \/ UpdateConfig \/ Pass
  \/ \E f \in Fetches :
       \/ \E u \in Covers : LookUpCover(f, u)
       \/ FetchFails(f) \/ FetchReturns(f) \/ FindFirst(f) \/ EvictFirst(f) \/ InsertCover(f)

CoverSpec == CoverInit /\ [][CoverNext]_coverVars

CoverTypeOK ==
  /\ cached \subseteq Covers /\ inserted \in [Covers -> Nat] /\ epoch \in Nat
  /\ ttl \in Ttls /\ maxSize \in Sizes /\ largest \in Sizes /\ overlaps \in 0..MaxOverlaps
  /\ phase \in [Fetches -> [at : Storing \cup {"idle", "download"}, url : Covers]]
  /\ limit \in [Fetches -> Sizes] /\ oldest \in [Fetches -> SUBSET Covers]

(* The cache stays within the largest size it was ever given, but for      *)
(* insertions that overlap: a fetch counts before it inserts, and a        *)
(* smaller size given later is not enforced (cover_cache.rs:33-36,76-94).  *)
CoversBounded == Cardinality(cached) <= largest + overlaps
=============================================================================
