--------------------------- MODULE PipelineLedger ---------------------------
(***************************************************************************)
(* The published-run ledger: the tables pipeline_runs and                  *)
(* tenant_snapshot_pointer of one tenant, and the statements of            *)
(* pipeline-ledger-service.ts (the copies under apps/api/services and      *)
(* apps/web/lib).  Stage events are an append-only log that nothing here   *)
(* reads, and are left out.                                                *)
(***************************************************************************)
EXTENDS Naturals, FiniteSets

CONSTANTS
  Runs,     \* run ids, numbered in the order they are drawn
  Hashes,   \* idempotency hashes: tenant, window and trigger
  None

ASSUME LedgerAssumption ==
  /\ Runs \subseteq Nat
  /\ None \notin Runs \cup Hashes

VARIABLES
  run,      \* pipeline_runs; old: RUNNING for more than five minutes
  pointer   \* tenant_snapshot_pointer.active_run_id

ledgerVars == <<run, pointer>>

RunStatus == {"none", "RUNNING", "FAILED", "SUCCEEDED"}

LedgerTypeOK ==
  /\ run \in [Runs -> [status : RunStatus, hash : Hashes \cup {None},
                       published : BOOLEAN, old : BOOLEAN,
                       supersededBy : Runs \cup {None}]]
  /\ pointer \in Runs \cup {None}

Row(status, hash, published, supersededBy) ==
  [status |-> status, hash |-> hash, published |-> published, old |-> FALSE,
   supersededBy |-> supersededBy]

LedgerInit ==
  /\ run = [r \in Runs |-> Row("none", None, FALSE, None)]
  /\ pointer = None

-----------------------------------------------------------------------------
\* Mutant: a failed run keeps its idempotency hash.
Mut_KeepHash(r) == Row("FAILED", run[r].hash, FALSE, run[r].supersededBy)

\* What every statement that fails a run writes; a terminal run gives its
\* idempotency hash back.
FailedRow(r) == Row("FAILED", None, FALSE, run[r].supersededBy)

FailRuns(S) == run' = [r \in Runs |-> IF r \in S THEN FailedRow(r) ELSE run[r]]

\* markRunFailed asks for no particular status.
MarkRunFailed(r) == FailRuns({r})

\* recoverStalePipelineRuns(5): the runs its UPDATE selects.
StaleRuns == {r \in Runs : run[r].status = "RUNNING" /\ run[r].old}

\* Mutant: the column is not unique.
Mut_NoUnique(k) == TRUE

\* The unique constraint on idempotency_hash lets the insert through.
HashIsFree(k) == \A r \in Runs : run[r].hash # k

\* getActiveRunByHash, the SELECT after its UPDATEs.
ActiveRun(k) == {r \in Runs : run[r].status = "RUNNING" /\ run[r].hash = k}

\* createRunningRun
CreateRunningRun(r, k) ==
  run' = [run EXCEPT ![r] = Row("RUNNING", k, FALSE, None)]

\* Mutant: the run that was active before is not marked superseded.
Mut_NoSupersede(r, prev) ==
  /\ run' = [x \in Runs |->
       IF x = r THEN Row("SUCCEEDED", None, TRUE, run[x].supersededBy) ELSE run[x]]
  /\ pointer' = r

\* The updates of publishRunAtomic; prev is what its locking read found, None
\* when there was no pointer row (and so nothing to lock).
PublishRun(r, prev) ==
  /\ run' = [x \in Runs |->
       LET by == IF x = prev THEN r ELSE run[x].supersededBy IN
       IF x = r THEN Row("SUCCEEDED", None, TRUE, by)
                ELSE [run[x] EXCEPT !.supersededBy = by]]
  /\ pointer' = r

=============================================================================
