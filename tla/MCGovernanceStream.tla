------------------------- MODULE MCGovernanceStream -------------------------
(* Instances of GovernanceStream for TLC: one row in each table. *)
EXTENDS GovernanceStream, TLC

CONSTANTS action, decision, divergence

MCSourceOf ==
  (action :> "governance") @@ (decision :> "decision") @@ (divergence :> "drift")
=============================================================================
