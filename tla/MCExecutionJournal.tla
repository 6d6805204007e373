------------------------ MODULE MCExecutionJournal ------------------------
(* Instances of ExecutionJournal for TLC: two ELIMINATE decisions of two
   snapshots name the same index i1, and a third decision acts on nothing. *)
EXTENDS ExecutionJournal, TLC

CONSTANTS d1, d2, d3, i1, i2

\* Two decisions for one index, and one passive decision.
MCIndexOf == (d1 :> i1) @@ (d2 :> i1) @@ (d3 :> i2)

\* The reduced instance of the liveness run: one of each.
MCIndexOfSmall == (d1 :> i1) @@ (d3 :> i2)

Symmetry == Permutations(Executors) \cup Permutations(Reconcilers)
=============================================================================
