----------------------------- MODULE MCStorage -----------------------------
(***************************************************************************)
(* DiskGuard and PartManifest on small instances.  They share no state:    *)
(* the first step of a behaviour has already chosen which one runs, and    *)
(* the other keeps its initial state.                                      *)
(***************************************************************************)
EXTENDS DiskGuard, PartManifest, TLC

CONSTANTS j1, j2, j3, p1, p2

(* Two downloads of one path through different routes, and a batch's       *)
(* download of another.                                                    *)
MCDest == (j1 :> p1) @@ (j2 :> p1) @@ (j3 :> p2)
MCRoute == (j1 :> "music") @@ (j2 :> "meta") @@ (j3 :> "batch")

(* A size as it is, one only the tagged file has, one the API does not     *)
(* know.                                                                   *)
MCReport == (j1 :> 2) @@ (j2 :> 3) @@ (j3 :> 0)

VARIABLE component
storageVars == <<component, guardAll, manifestVars>>

(* Any two of the three run.  On the path that can be shared there may be  *)
(* a published file, tagged or not, or a `.part`; on the batch's a         *)
(* published file.                                                         *)
MCFiles ==
  /\ Cardinality({j \in Jobs : at[j] = "start"}) = 2
  /\ size[<<p2, "part">>] = 0
  /\ size[<<p1, "part">>] = 0 \/ size[<<p1, "final">>] = 0

MCInit ==
  \/ /\ component = "guard" /\ GuardInit /\ MCFiles
     /\ ManifestInit /\ threads = 1
  \/ /\ component = "manifest" /\ ManifestInit
     /\ GuardInit /\ Present = {} /\ \A j \in Jobs : at[j] = "done"

MCNext ==
  /\ UNCHANGED component
  /\ \/ component = "guard" /\ GuardNext /\ UNCHANGED manifestVars
     \/ component = "manifest" /\ ManifestNext /\ UNCHANGED guardAll

MCSpec == MCInit /\ [][MCNext]_storageVars

StorageTypeOK == GuardTypeOK /\ ManifestTypeOK
=============================================================================
