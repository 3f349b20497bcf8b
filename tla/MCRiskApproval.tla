----------------------------- MODULE MCRiskApproval -----------------------------
(* Instances of RiskApproval for TLC. *)
EXTENDS RiskApproval, TLC

Workers == Permutations(Threads)
================================================================================
