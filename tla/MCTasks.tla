------------------------------ MODULE MCTasks ------------------------------
(* Tasks on small instances; the constants are given in the cfgs.          *)
EXTENDS Tasks
=============================================================================
