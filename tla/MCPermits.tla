----------------------------- MODULE MCPermits -----------------------------
(***************************************************************************)
(* Permits on small instances: an actor has the name of its kind, or is a  *)
(* number and one of the handlers that take a parse permit only.  A        *)
(* behaviour is one of two scenes: the requests that take several permits, *)
(* on semaphores of one permit, or the numbered ones while administrators  *)
(* resize the semaphore they use.                                          *)
(***************************************************************************)
EXTENDS Permits

MCKind == [a \in Actors |-> IF a \in {"1", "2"} THEN "parse" ELSE a]

VARIABLE scene

MCInit ==
  /\ Init
  /\ scene \in {"traffic", "resize"}
  /\ scene = "traffic" => config = Limit

MCNext ==
  /\ UNCHANGED scene
  /\ Next
  /\ scene = "traffic" => UNCHANGED adminVars
  /\ \A a \in Actors : phase'[a] # "idle" => (scene = "resize" <=> Kind[a] = "parse")

MCSpec == MCInit /\ [][MCNext]_<<scene, vars>> /\ Fairness
=============================================================================
