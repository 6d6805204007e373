-------------------------- MODULE ExecutionJournal --------------------------
(***************************************************************************)
(* The crash-safe execution of approved decisions: executeDecisionSafe     *)
(* (packages/core/workflow/executor-v2.ts) writes a journal row, deletes   *)
(* the Splunk index and commits audit + journal + decision in one          *)
(* transaction; reconcileExecutions (packages/infra/queue/                 *)
(* reconciliation-worker.ts) probes Splunk for every row that stays        *)
(* STARTED.  One action per step between two awaits.                       *)
(*                                                                         *)
(* Tenant and snapshot are folded into the decision: the idempotency key   *)
(* exec:<decision>:<snapshot>:<tenant> is unique per decision.             *)
(***************************************************************************)
EXTENDS Naturals, FiniteSets

CONSTANTS
  Decisions,     \* approved decision rows
  Eliminate,     \* those whose decision is ELIMINATE; the others act on nothing
  Indexes,       \* Splunk indexes
  IndexOf,       \* decision.index
  Executors,     \* calls of executeDecisionSafe
  Reconcilers,   \* concurrent runs of reconcileExecutions
  None,          \* no decision
  BatchSize,     \* config.batchSize, 100 in production
  MayStall,      \* TRUE: a live executor may be older than stuckThresholdMs
  ProbeMayFail   \* TRUE: getIndexState may end in an HTTP error or a timeout

ASSUME ConstantsAssumption ==
  /\ IsFiniteSet(Decisions)
  /\ Eliminate \subseteq Decisions
  /\ IndexOf \in [Decisions -> Indexes]
  /\ None \notin Decisions
  /\ BatchSize \in Nat \ {0}
  /\ MayStall \in BOOLEAN
  /\ ProbeMayFail \in BOOLEAN

VARIABLES
  decision,   \* decisions.status
  journal,    \* execution_journal rows: status, externalState, createdAt rank
  aged,       \* rows older than stuckThresholdMs
  audit,      \* audit_events per decision: <<eventType, evidence in the payload>>
  index,      \* the indexes Splunk still has
  request,    \* the DELETE request of a decision, as Splunk sees it
  exec,       \* the executor calls
  rec         \* the reconciliation runs

vars == <<decision, journal, aged, audit, index, request, exec, rec>>
dbVars == <<decision, journal, audit>>

-----------------------------------------------------------------------------
(* Types *)

DecisionStatus == {"APPROVED", "EXECUTED", "FAILED"}
JournalStatus  == {"NONE", "STARTED", "COMPLETED", "FAILED"}
Results        == {"success", "failed", "unknown"}
Probes         == {"gone", "exists", "error"}
ExecPc         == {"idle", "call", "waiting", "commit", "done", "crashed"}

Completed   == {<<"execution.completed", r>> : r \in Results}
Confirmed   == {<<"reconciliation.execution_confirmed", p>> : p \in {"gone", "error"}}
RecFailed   == <<"reconciliation.execution_failed", "exists">>
AuditEvents == Completed \cup Confirmed \cup {RecFailed}

TypeOK ==
  /\ decision \in [Decisions -> DecisionStatus]
  /\ journal \in [Decisions -> [status : JournalStatus,
                                ext : {"none"} \cup Results \cup Probes,
                                rank : Nat]]
  /\ aged \subseteq Decisions
  /\ audit \in [Decisions -> SUBSET AuditEvents]
  /\ index \subseteq Indexes
  /\ request \in [Decisions -> {"none", "sent", "ok", "refused"}]
  /\ exec \in [Executors -> [pc : ExecPc, d : Decisions \cup {None},
                             owns : BOOLEAN, result : {"none"} \cup Results]]
  /\ rec \in [Reconcilers -> [pc : {"idle", "probe", "repair"},
                              batch : SUBSET Decisions,
                              entry : Decisions \cup {None},
                              probe : {"none"} \cup Probes]]

-----------------------------------------------------------------------------
(* State functions *)

Gone(d) == IndexOf[d] \notin index

\* Mutant: the key carries the attempt, so a second insert never collides.
Mut_KeyPerAttempt(d) == TRUE

\* The unique constraint on idempotencyKey lets the insert through.
KeyIsFree(d) == journal[d].status = "NONE"

\* A call that holds the row of d and has not returned.
Owner(e, d) == exec[e].d = d /\ exec[e].pc \in {"call", "waiting", "commit"}

\* Mutant: the status filter of findMany is lost.
Mut_AnyAged == {d \in aged : journal[d].status # "NONE"}

Stuck == {d \in aged : journal[d].status = "STARTED"}

\* findMany ... orderBy createdAt asc, take batchSize
OldestStuck ==
  {d \in Stuck : Cardinality({x \in Stuck : journal[x].rank < journal[d].rank})
                   < BatchSize}

\* The entry the for loop over a batch handles next.
NextOf(batch) == {d \in batch : \A x \in batch : journal[d].rank <= journal[x].rank}

\* Mutant: an outcome the adapter could not determine counts as done.
Mut_UnknownIsSuccess(result) == IF result # "failed" THEN "EXECUTED" ELSE "FAILED"

\* Mutant: the adapter's result is stored as the decision's status.
Mut_RawResult(result) == result

\* Decision status the executor commits for externalResult.status.
Verdict(result) == IF result = "success" THEN "EXECUTED" ELSE "FAILED"

\* Mutant: a probe that saw the index confirms the deletion.
Mut_AnyProbe(probe) == TRUE

\* !probeResult.exists || probeResult.deleted: an error carries exists = false.
ReadsAsDeleted(probe) == probe # "exists"

IdleRun == [pc |-> "idle", batch |-> {}, entry |-> None, probe |-> "none"]

Init ==
  /\ decision = [d \in Decisions |-> "APPROVED"]
  /\ journal = [d \in Decisions |-> [status |-> "NONE", ext |-> "none", rank |-> 0]]
  /\ aged = {}
  /\ audit = [d \in Decisions |-> {}]
  /\ index = Indexes
  /\ request = [d \in Decisions |-> "none"]
  /\ exec = [e \in Executors |-> [pc |-> "idle", d |-> None, owns |-> FALSE,
                                  result |-> "none"]]
  /\ rec = [r \in Reconcilers |-> IdleRun]

-----------------------------------------------------------------------------
(* executeDecisionSafe *)

\* Step 1, the insert succeeds.
CreateJournal(e, d) ==
  /\ exec[e].pc = "idle"
  /\ KeyIsFree(d)
  /\ journal' = [journal EXCEPT ![d] =
       [status |-> "STARTED", ext |-> "none",
        rank |-> Cardinality({x \in Decisions : journal[x].status # "NONE"}) + 1]]
  /\ exec' = [exec EXCEPT ![e] = [pc |-> "call", d |-> d, owns |-> TRUE,
                                  result |-> "none"]]
  /\ UNCHANGED <<decision, aged, audit, index, request, rec>>

\* Step 1, the insert hits the unique key: "unknown"; any other error: "failed".
RejectExecution(e, d) ==
  /\ exec[e].pc = "idle"
  /\ \E result \in {"unknown", "failed"} :
       /\ result = "unknown" => ~KeyIsFree(d)
       /\ exec' = [exec EXCEPT ![e] = [pc |-> "done", d |-> d, owns |-> FALSE,
                                       result |-> result]]
  /\ UNCHANGED <<decision, journal, aged, audit, index, request, rec>>

\* The call e goes on with the row it owns.
Proceed(e, pc, result) ==
  exec' = [exec EXCEPT ![e] = [pc |-> pc, d |-> exec[e].d, owns |-> exec[e].owns,
                               result |-> result]]

\* Step 2 for RETAIN, MONITOR, REBALANCE and ESCALATE: nothing to call.
SkipExternal(e) ==
  /\ exec[e].pc = "call" /\ exec[e].d \notin Eliminate
  /\ Proceed(e, "commit", "success")
  /\ UNCHANGED <<decision, journal, aged, audit, index, request, rec>>

\* Step 2 for ELIMINATE: the DELETE leaves the process.
SendDelete(e) ==
  /\ exec[e].pc = "call" /\ exec[e].d \in Eliminate
  /\ request' = [request EXCEPT ![exec[e].d] = "sent"]
  /\ Proceed(e, "waiting", "none")
  /\ UNCHANGED <<decision, journal, aged, audit, index, rec>>

\* deleteIndex returns: 2xx or 404, an HTTP error, a network error at any time,
\* or the abort timer (the request stays wherever it is).
DeleteReturns(e) ==
  /\ exec[e].pc = "waiting"
  /\ \E result \in Results :
       /\ result = "success" => request[exec[e].d] = "ok"
       /\ Proceed(e, "commit", result)
  /\ UNCHANGED <<decision, journal, aged, audit, index, request, rec>>

\* executionJournal.update: the row keeps its createdAt.
CloseRow(d, status, ext) ==
  journal' = [journal EXCEPT ![d] = [status |-> status, ext |-> ext,
                                     rank |-> journal[d].rank]]

\* Step 3 commits: audit, journal and decision together.
Commit(e) ==
  LET d == exec[e].d IN
  /\ exec[e].pc = "commit"
  /\ audit' = [audit EXCEPT ![d] = @ \cup {<<"execution.completed", exec[e].result>>}]
  /\ CloseRow(d, "COMPLETED", exec[e].result)
  /\ decision' = [decision EXCEPT ![d] = Verdict(exec[e].result)]
  /\ Proceed(e, "done", exec[e].result)
  /\ UNCHANGED <<aged, index, request, rec>>

\* Step 3 rolls back: the caller gets "unknown" and the row stays STARTED.
CommitFails(e) ==
  /\ exec[e].pc = "commit"
  /\ Proceed(e, "done", "unknown")
  /\ UNCHANGED <<decision, journal, aged, audit, index, request, rec>>

ExecutorCrash(e) ==
  /\ exec[e].pc \in {"call", "waiting", "commit"}
  /\ Proceed(e, "crashed", exec[e].result)
  /\ UNCHANGED <<decision, journal, aged, audit, index, request, rec>>

ExecutorStep(e) ==
  SkipExternal(e) \/ SendDelete(e) \/ DeleteReturns(e) \/ Commit(e) \/ CommitFails(e)

-----------------------------------------------------------------------------
(* Splunk and the clock *)

\* The index is removed, or already was (404, which the adapter takes for success).
SplunkDeletes(d) ==
  /\ request[d] = "sent"
  /\ request' = [request EXCEPT ![d] = "ok"]
  /\ index' = index \ {IndexOf[d]}
  /\ UNCHANGED <<decision, journal, aged, audit, exec, rec>>

SplunkRefuses(d) ==
  /\ request[d] = "sent"
  /\ request' = [request EXCEPT ![d] = "refused"]
  /\ UNCHANGED <<decision, journal, aged, audit, index, exec, rec>>

\* The row passes stuckThresholdMs.
Age(d) ==
  /\ journal[d].status = "STARTED" /\ d \notin aged
  /\ MayStall \/ \A e \in Executors : ~Owner(e, d)
  /\ aged' = aged \cup {d}
  /\ UNCHANGED <<decision, journal, audit, index, request, exec, rec>>

-----------------------------------------------------------------------------
(* reconcileExecutions *)

FindStuck(r) ==
  /\ rec[r].pc = "idle" /\ OldestStuck # {}
  /\ rec' = [rec EXCEPT ![r] = [pc |-> "probe", batch |-> OldestStuck,
                                entry |-> None, probe |-> "none"]]
  /\ UNCHANGED <<decision, journal, aged, audit, index, request, exec>>

\* getIndexState for the next entry: 200, 404, or anything else (which carries
\* exists = false).
Probe(r, d) ==
  /\ rec[r].pc = "probe" /\ d \in NextOf(rec[r].batch)
  /\ \E p \in Probes :
       /\ p = "gone" => Gone(d)
       /\ p = "exists" => ~Gone(d)
       /\ p = "error" => ProbeMayFail
       /\ rec' = [rec EXCEPT ![r] = [pc |-> "repair", batch |-> rec[r].batch,
                                     entry |-> d, probe |-> p]]
  /\ UNCHANGED <<decision, journal, aged, audit, index, request, exec>>

\* The run goes to the next entry, or ends with the loop.
NextEntry(r) ==
  LET rest == rec[r].batch \ {rec[r].entry} IN
  rec' = [rec EXCEPT ![r] = [pc |-> IF rest = {} THEN "idle" ELSE "probe",
                             batch |-> rest, entry |-> None, probe |-> "none"]]

Confirm(r, d) ==
  /\ d \in Eliminate /\ ReadsAsDeleted(rec[r].probe)
  /\ audit' = [audit EXCEPT ![d] = @ \cup
                 {<<"reconciliation.execution_confirmed", rec[r].probe>>}]
  /\ CloseRow(d, "COMPLETED", rec[r].probe)
  /\ decision' = [decision EXCEPT ![d] = "EXECUTED"]

MarkFailed(r, d) ==
  /\ d \in Eliminate /\ ~ReadsAsDeleted(rec[r].probe)
  /\ audit' = [audit EXCEPT ![d] = @ \cup {RecFailed}]
  /\ CloseRow(d, "FAILED", journal[d].ext)
  /\ decision' = [decision EXCEPT ![d] = "FAILED"]

\* Mutant: the row of a decision without an external action is left as it is.
Mut_SkipPassive(r, d) == d \notin Eliminate /\ UNCHANGED dbVars

\* A decision without an external action: the journal only.
CloseJournal(r, d) ==
  /\ d \notin Eliminate
  /\ CloseRow(d, "COMPLETED", journal[d].ext)
  /\ UNCHANGED <<decision, audit>>

\* The transaction of one entry.  It does not read the row again.
Repair(r) ==
  LET d == rec[r].entry IN
  /\ rec[r].pc = "repair"
  /\ Confirm(r, d) \/ MarkFailed(r, d) \/ CloseJournal(r, d)
  /\ NextEntry(r)
  /\ UNCHANGED <<aged, index, request, exec>>

\* The transaction fails: counted, and the loop goes on.
RepairFails(r) ==
  /\ rec[r].pc = "repair"
  /\ NextEntry(r)
  /\ UNCHANGED <<decision, journal, aged, audit, index, request, exec>>

ReconcilerCrash(r) ==
  /\ rec[r].pc # "idle"
  /\ rec' = [rec EXCEPT ![r] = IdleRun]
  /\ UNCHANGED <<decision, journal, aged, audit, index, request, exec>>

-----------------------------------------------------------------------------
Next ==
  \/ \E e \in Executors, d \in Decisions : CreateJournal(e, d) \/ RejectExecution(e, d)
  \/ \E e \in Executors : ExecutorStep(e) \/ ExecutorCrash(e)
  \/ \E d \in Decisions : SplunkDeletes(d) \/ SplunkRefuses(d) \/ Age(d)
  \/ \E r \in Reconcilers : FindStuck(r) \/ Repair(r) \/ RepairFails(r) \/ ReconcilerCrash(r)
  \/ \E r \in Reconcilers, d \in Decisions : Probe(r, d)

Spec == Init /\ [][Next]_vars

\* A started call goes on unless its process dies; the row ages; the cron job
\* runs; and neither a crash nor a database error hits every run at the same step.
Fairness ==
  /\ \A e \in Executors : WF_vars(ExecutorStep(e))
  /\ \A d \in Decisions : WF_vars(Age(d))
  /\ \A r \in Reconcilers : WF_vars(FindStuck(r))
  /\ \A r \in Reconcilers : SF_vars(\E d \in Decisions : Probe(r, d))
  /\ \A r \in Reconcilers : SF_vars(Repair(r))

FairSpec == Spec /\ Fairness

-----------------------------------------------------------------------------
(* Properties *)

\* One call at most ever owns a decision's journal row, so Splunk receives one
\* DELETE per decision however many calls, crashes and repairs there are
\* (the unique idempotencyKey of executor-v2.ts step 1).
OneOwner ==
  \A e1, e2 \in Executors :
    exec[e1].owns /\ exec[e2].owns /\ exec[e1].d = exec[e2].d => e1 = e2

\* The final status of an ELIMINATE decision is backed by an audit event of the
\* same transaction, and EXECUTED means the index is gone from Splunk, except
\* where a reconciliation took a failed probe for a confirmation.
VerdictHasEvidence ==
  \A d \in Eliminate :
    /\ decision[d] = "EXECUTED" =>
         \/ Gone(d) /\ audit[d] \cap {<<"execution.completed", "success">>,
                          <<"reconciliation.execution_confirmed", "gone">>} # {}
         \/ <<"reconciliation.execution_confirmed", "error">> \in audit[d]
    /\ decision[d] = "FAILED" =>
         audit[d] \cap {<<"execution.completed", "failed">>,
                        <<"execution.completed", "unknown">>, RecFailed} # {}

\* A decision's final status is never rewritten: executor and reconciliation do
\* not both decide one journal row.  (It needs a single reconciliation run at a
\* time and executors that end before stuckThresholdMs.)
VerdictIsFinal ==
  [][\A d \in Decisions : decision[d] # "APPROVED" => decision'[d] = decision[d]]_vars

\* Every row that a crash or a failed commit leaves STARTED is closed in the end
\* ("If anything fails between 2-3, reconciliation will repair state").
EveryJournalCloses ==
  \A d \in Decisions : journal[d].status = "STARTED" ~> journal[d].status # "STARTED"

\* The journal, the calls, Splunk's late answers and the repairs together keep
\* the promises of ExecutionOutcome.  (It needs what VerdictIsFinal needs, and
\* probes that do not fail.)
Outcome == INSTANCE ExecutionOutcome WITH
  started <- {d \in Decisions : journal[d].status # "NONE"},
  outcome <- decision,
  present <- index

ImplementsOutcome == Outcome!OutcomeSpec

-----------------------------------------------------------------------------
(* What comments and tests say, and the code does not do *)

\* reconciliation-worker.ts:110: an unknown external state is escalated, so an
\* EXECUTED ELIMINATE decision has no index left in Splunk.
ExecutedOnlyIfGone ==
  \A d \in Eliminate : decision[d] = "EXECUTED" => Gone(d)

\* executor-v2.ts:105: an external outcome that is unknown is not marked FAILED
\* but left to reconciliation.
UnknownIsNotFailed ==
  \A d \in Decisions : journal[d].ext = "unknown" => decision[d] # "FAILED"

=============================================================================
