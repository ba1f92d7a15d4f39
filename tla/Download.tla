------------------------------ MODULE Download ------------------------------
(***************************************************************************)
(* What a download of one path promises to those who read the path: the    *)
(* specification ResumeJob implements.  Readers never see a download in    *)
(* progress; a path is published in one step, at most once by each job;    *)
(* what is published is whole, as long as nothing has happened that the    *)
(* engine does not guard against.  From then on only its tags are written, *)
(* in place: while that goes on, or when it is broken off, a reader may    *)
(* find anything.  A published file may be removed at any time, for space, *)
(* for age or for the next job.                                            *)
(***************************************************************************)
VARIABLES
  job,     \* "idle", "busy", or "published" while it tidies up and tags
  path,    \* "none", "whole" or "broken", as published
  tags,    \* "none", "writing", "torn" or "tagged"
  trusted  \* nothing has happened the promise does not cover

downloadVars == <<job, path, tags, trusted>>

Init == job = "idle" /\ path = "none" /\ tags = "none" /\ trusted = TRUE

(* A published file the new job has no use for is removed.                 *)
Begin ==
  /\ job = "idle" /\ job' = "busy"
  /\ path' = "none" /\ tags' = "none"
  /\ trusted' \in BOOLEAN

(* The job may be dropped while its rename is carried out.                 *)
Publish ==
  /\ job = "busy" /\ job' \in {"published", "idle"}
  /\ path = "none"
  /\ path' \in IF trusted THEN {"whole"} ELSE {"whole", "broken"}
  /\ UNCHANGED <<tags, trusted>>

(* Nobody writes tags into a path on which a download is in progress.      *)
Tag ==
  /\ job # "busy" /\ path # "none"
  /\ tags' = "writing"
  /\ UNCHANGED <<job, path, trusted>>

TagEnd ==
  /\ tags = "writing" /\ tags' \in {"tagged", "torn"}
  /\ UNCHANGED <<job, path, trusted>>

(* The job succeeds, fails, is dropped or dies with the process, and then  *)
(* so does the write of its tags.                                          *)
End ==
  /\ job # "idle" /\ job' = "idle"
  /\ tags' = tags \/ (tags = "writing" /\ tags' = "torn")
  /\ trusted' \in {trusted, FALSE}
  /\ UNCHANGED path

Evict ==
  /\ path' = "none" /\ tags' = "none"
  /\ UNCHANGED <<job, trusted>>

Distrust ==
  /\ trusted' = FALSE
  /\ UNCHANGED <<job, path, tags>>

Next == Begin \/ Publish \/ Tag \/ TagEnd \/ End \/ Evict \/ Distrust
Spec == Init /\ [][Next]_downloadVars
=============================================================================
