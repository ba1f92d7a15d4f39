---------------------------- MODULE MCResumeJob ----------------------------
(* ResumeJob on small instances; the constants are given in the cfgs.      *)
EXTENDS ResumeJob
=============================================================================
