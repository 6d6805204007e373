----------------------------- MODULE BulkActions -----------------------------
(***************************************************************************)
(* POST /api/bulk-actions: one transaction that updates the decisions of   *)
(* each named index, beside the transaction in which the worker replaces   *)
(* the decisions of a batch in the same snapshot.  A row written by an     *)
(* open transaction is locked: a statement that needs it can only go on    *)
(* when its holder has ended, or fail.                                     *)
(***************************************************************************)
EXTENDS Naturals, Sequences, SequencesExt

CONSTANTS
  BulkRequests,  \* requests for a bulk action
  DecisionRows,  \* rows of agent_decisions that the snapshot can have
  IndexOf,       \* the index of each row: one row for each of its sourcetypes
  MaxNames,      \* bound on the indexes that a request names
  Worker         \* the worker's transactions, one after the other

Actors == BulkRequests \cup {Worker}
NoDecision == "absent"

ASSUME BulkAssumption ==
  /\ Worker \notin BulkRequests
  /\ NoDecision \notin Actors
  /\ MaxNames \in Nat

Named == {IndexOf[d] : d \in DecisionRows}
Orders == BoundedSeq(Named, MaxNames) \ {<<>>}

VARIABLES
  decided,   \* agent_decisions: who wrote each committed row
  phase,     \* where each transaction stands
  names,     \* indexNames: the indexes a request goes through
  targets,   \* the rows that the UPDATE under way has still to go through
  returned,  \* updateResult: the rows it has written
  results,   \* results: for each index gone through, success or not
  written    \* the rows that each open transaction has written, and locks

bulkVars == <<decided, phase, names, targets, returned, results, written>>

BulkTypeOK ==
  /\ decided \in [DecisionRows -> Actors \cup {NoDecision}]
  /\ phase \in [Actors -> {"idle", "open", "updating", "aborted", "success", "failure"}]
  /\ names \in [BulkRequests -> Orders \cup {<<>>}]
  /\ results \in [BulkRequests -> Seq(BOOLEAN)]
  /\ targets \in [BulkRequests -> SUBSET DecisionRows]
  /\ returned \in [BulkRequests -> SUBSET DecisionRows]
  /\ written \in [Actors -> SUBSET DecisionRows]

BulkInit ==
  /\ decided \in [DecisionRows -> {Worker, NoDecision}]
  /\ phase = [a \in Actors |-> "idle"]
  /\ names = [r \in BulkRequests |-> <<>>]
  /\ targets = [r \in BulkRequests |-> {}]
  /\ returned = [r \in BulkRequests |-> {}]
  /\ results = [r \in BulkRequests |-> <<>>]
  /\ written = [a \in Actors |-> {}]

Locked(d, a) == decided[d] # NoDecision /\ \E b \in Actors \ {a} : d \in written[b]

Remaining(r) == Len(results[r]) < Len(names[r])

-----------------------------------------------------------------------------
(* The request *)

Begin(r, order) ==
  /\ phase[r] = "idle"
  /\ phase' = [phase EXCEPT ![r] = "open"]
  /\ names' = [names EXCEPT ![r] = order]
  /\ UNCHANGED <<decided, targets, returned, results, written>>

\* The UPDATE of the next index finds the rows that are committed when it starts.
StartUpdate(r) ==
  /\ phase[r] = "open" /\ Remaining(r)
  /\ phase' = [phase EXCEPT ![r] = "updating"]
  /\ targets' = [targets EXCEPT ![r] =
       {d \in DecisionRows : /\ IndexOf[d] = names[r][Len(results[r]) + 1]
                               /\ decided[d] # NoDecision}]
  /\ returned' = [returned EXCEPT ![r] = {}]
  /\ UNCHANGED <<decided, names, results, written>>

UpdateRow(r, d) ==
  /\ d \in targets[r] /\ ~Locked(d, r)
  /\ targets' = [targets EXCEPT ![r] = @ \ {d}]
  /\ returned' = [returned EXCEPT ![r] = @ \cup {d}]
  /\ written' = [written EXCEPT ![r] = @ \cup {d}]
  /\ UNCHANGED <<decided, phase, names, results>>

\* Mutant: the statement counts, not the rows it returned.
Mut_NoRowIsFine(r) == TRUE

Found(r) == returned[r] # {}

\* Without a row: "Index not found in current snapshot".
PushResult(r) ==
  /\ phase[r] = "updating" /\ targets[r] = {}
  /\ phase' = [phase EXCEPT ![r] = "open"]
  /\ results' = [results EXCEPT ![r] = Append(@, Found(r))]
  /\ returned' = [returned EXCEPT ![r] = {}]
  /\ UNCHANGED <<decided, names, targets, written>>

\* A statement fails, as the one that PostgreSQL chooses to end a deadlock.  That undoes
\* the transaction and frees its locks; every later statement of the loop fails on it,
\* and the results pushed before stay as they are.
StatementFails(r) ==
  /\ phase[r] \in {"open", "updating"} /\ Remaining(r)
  /\ phase' = [phase EXCEPT ![r] = "aborted"]
  /\ results' = [results EXCEPT ![r] =
       [k \in DOMAIN names[r] |-> k \in DOMAIN results[r] /\ results[r][k]]]
  /\ targets' = [targets EXCEPT ![r] = {}]
  /\ returned' = [returned EXCEPT ![r] = {}]
  /\ written' = [written EXCEPT ![r] = {}]
  /\ UNCHANGED <<decided, names>>

Committed(a) == [d \in DecisionRows |-> IF d \in written[a] THEN a ELSE decided[d]]

AllSuccessful(r) == FALSE \notin ToSet(results[r])

\* COMMIT and the answer.  The COMMIT of an aborted transaction rolls it back and raises
\* no error.
CommitAndAnswer(r) ==
  /\ phase[r] \in {"open", "aborted"} /\ ~Remaining(r)
  /\ decided' = Committed(r)
  /\ phase' = [phase EXCEPT ![r] = IF AllSuccessful(r) THEN "success" ELSE "failure"]
  /\ written' = [written EXCEPT ![r] = {}]
  /\ names' = [names EXCEPT ![r] = <<>>]
  /\ results' = [results EXCEPT ![r] = <<>>]
  /\ UNCHANGED <<targets, returned>>

-----------------------------------------------------------------------------
(* The worker *)

BeginBatch ==
  /\ phase[Worker] = "idle"
  /\ phase' = [phase EXCEPT ![Worker] = "open"]
  /\ UNCHANGED <<decided, names, targets, returned, results, written>>

\* writeDecisionToDb: the row of the decision is deleted, if there is one, and another
\* is inserted.
ReplaceDecision(d) ==
  /\ phase[Worker] = "open" /\ ~Locked(d, Worker)
  /\ written' = [written EXCEPT ![Worker] = @ \cup {d}]
  /\ UNCHANGED <<decided, phase, names, targets, returned, results>>

EndBatch ==
  /\ phase[Worker] = "open"
  /\ phase' = [phase EXCEPT ![Worker] = "idle"]
  /\ written' = [written EXCEPT ![Worker] = {}]
  /\ UNCHANGED <<names, returned, results>>

\* The rows that a statement has found and not reached are deleted, and it does not see
\* those that replace them.
CommitBatch ==
  /\ EndBatch
  /\ decided' = Committed(Worker)
  /\ targets' = [r \in BulkRequests |-> targets[r] \ written[Worker]]

\* transaction(): a statement that fails takes the batch back.
RollBackBatch == EndBatch /\ UNCHANGED <<decided, targets>>

BulkNext ==
  \/ \E r \in BulkRequests :
       \/ \E order \in Orders : Begin(r, order)
       \/ \E d \in DecisionRows : UpdateRow(r, d)
       \/ StartUpdate(r) \/ PushResult(r) \/ StatementFails(r) \/ CommitAndAnswer(r)
  \/ BeginBatch \/ CommitBatch \/ RollBackBatch
  \/ \E d \in DecisionRows : ReplaceDecision(d)

BulkSpec == BulkInit /\ [][BulkNext]_bulkVars

-----------------------------------------------------------------------------
(* Properties *)

\* success: true is answered only when the request's action is, at that moment, committed
\* in a row of every index it named: not after a statement that failed and took the
\* earlier ones back, and not when the worker replaced the whole index while the update
\* waited for it.  In every row of the index would be too much: a sourcetype that the
\* worker replaced meanwhile keeps the worker's decision.
SuccessIsWhole ==
  [][\A r \in BulkRequests : phase[r] # "success" /\ phase'[r] = "success" =>
       \A k \in DOMAIN names[r] :
         \E d \in DecisionRows : IndexOf[d] = names[r][k] /\ decided'[d] = r]_bulkVars
=============================================================================
