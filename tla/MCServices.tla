----------------------------- MODULE MCServices -----------------------------
(***************************************************************************)
(* The services around the downloads on small instances.  They share no    *)
(* state: a behaviour runs the one its first state has chosen, and the     *)
(* others keep theirs.                                                     *)
(***************************************************************************)
EXTENDS SongLinks, Administration, Statistics, RateBuckets, CoverCache, TLC

VARIABLE service
serviceVars == <<service, linkVars, adminVars, statVars, bucketVars, coverVars>>

(* Only get_music_info looks at the fallback's settings.                   *)
MCRequests ==
  request.kind # "info" =>
    ~request.fallback /\ request.floor = "standard" /\ request.quality = "lossless"

(* What a fetch or a call left behind is overwritten by the first one.     *)
MCCover == \A f \in Fetches : Url(f) = CHOOSE u \in Covers : TRUE
MCUser == user = [t \in Tasks |-> CHOOSE u \in Users : TRUE]

Unused(s) ==
  /\ s # "links" => request.kind = "url" /\ request.numeric
  /\ s # "admin" => ~environment /\ hashFile = Absent /\ configFile = Absent
  /\ s # "stats" => file = 0
  /\ s # "covers" => ttl = 1 /\ maxSize = 1

MCInit ==
  /\ service \in {"links", "admin", "stats", "buckets", "covers"}
  /\ LinkInit /\ AdminInit /\ StatInit /\ BucketInit /\ CoverInit
  /\ MCRequests /\ MCUser /\ MCCover
  /\ Unused(service)

MCNext ==
  /\ UNCHANGED service
  /\ \/ /\ service = "links" /\ LinkNext
        /\ UNCHANGED <<adminVars, statVars, bucketVars, coverVars>>
     \/ /\ service = "admin" /\ AdminNext
        /\ UNCHANGED <<linkVars, statVars, bucketVars, coverVars>>
     \/ /\ service = "stats" /\ StatNext
        /\ UNCHANGED <<linkVars, adminVars, bucketVars, coverVars>>
     \/ /\ service = "buckets" /\ BucketNext
        /\ UNCHANGED <<linkVars, adminVars, statVars, coverVars>>
     \/ /\ service = "covers" /\ CoverNext
        /\ UNCHANGED <<linkVars, adminVars, statVars, bucketVars>>

MCSpec == MCInit /\ [][MCNext]_serviceVars

ServicesTypeOK == LinkTypeOK /\ AdminTypeOK /\ StatTypeOK /\ BucketTypeOK /\ CoverTypeOK

(* Both caches keep their bound, see BucketsBounded and CoversBounded.     *)
CachesBounded == BucketsBounded /\ CoversBounded
=============================================================================
