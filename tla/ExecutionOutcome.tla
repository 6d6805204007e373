------------------------- MODULE ExecutionOutcome -------------------------
(***************************************************************************)
(* What the execution layer promises, without journal, calls, requests or  *)
(* reconciliation: a decision starts at most once, ends at most once, an   *)
(* index disappears only on behalf of a started ELIMINATE decision, and    *)
(* such a decision is EXECUTED only when its index is gone.                *)
(***************************************************************************)
CONSTANTS Decisions, Eliminate, Indexes, IndexOf

VARIABLES
  started,   \* decisions whose execution has begun
  outcome,   \* "APPROVED" until decided, then "EXECUTED" or "FAILED"
  present    \* indexes Splunk still has

avars == <<started, outcome, present>>

OutcomeInit ==
  /\ started = {}
  /\ outcome = [d \in Decisions |-> "APPROVED"]
  /\ present = Indexes

Start(d) ==
  /\ d \notin started
  /\ started' = started \cup {d}
  /\ UNCHANGED <<outcome, present>>

Disappear(i) ==
  /\ \E d \in started \cap Eliminate : IndexOf[d] = i
  /\ present' = present \ {i}
  /\ UNCHANGED <<started, outcome>>

Decide(d, status) ==
  /\ d \in started /\ outcome[d] = "APPROVED"
  /\ d \in Eliminate /\ status = "EXECUTED" => IndexOf[d] \notin present
  /\ outcome' = [outcome EXCEPT ![d] = status]
  /\ UNCHANGED <<started, present>>

Resolve(d) == Decide(d, "EXECUTED") \/ Decide(d, "FAILED")

OutcomeNext ==
  \/ \E d \in Decisions : Start(d) \/ Resolve(d)
  \/ \E i \in Indexes : Disappear(i)

\* A started ELIMINATE decision does not stay undecided.  Nothing of the kind
\* is promised for the others: reconciliation closes their row and no more.
OutcomeSpec ==
  /\ OutcomeInit /\ [][OutcomeNext]_avars
  /\ \A d \in Eliminate : WF_avars(Resolve(d))

=============================================================================
