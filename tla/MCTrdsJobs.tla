----------------------------- MODULE MCTrdsJobs -----------------------------
(***************************************************************************)
(* Instances of TrdsJobs for TLC.                                          *)
(***************************************************************************)
EXTENDS TrdsJobs, TLC
==============================================================================
