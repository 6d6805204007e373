-------------------------- MODULE MCApprovalStore --------------------------
(* Instances of ApprovalStore for TLC. *)
EXTENDS ApprovalStore, TLC

Symmetry == Permutations(Approvers) \cup Permutations(Requests)
=============================================================================
