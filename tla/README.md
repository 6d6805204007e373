# Verification of datasensAI's execution, refresh and approval machinery

datasensAI reads telemetry statistics out of Splunk, scores every index, lets a
language model write recommendations, publishes the result as a *run*, and can
execute approved decisions, such as deleting an index. This directory holds TLA+
models of the parts of the repository in which several processes, a database and
an outside system have to agree, TLC configurations that check them on small
instances, and TLAPS proofs for instances of any size.

All paths below are relative to the repository root.

## 1. The system

### Processes and what they share

```
 browser ──> web (Next.js routes) ──> PostgreSQL <── worker (docker/worker.ts)
                 │                        ▲                  │
                 └──> Splunk REST / MCP   │                  └──> LLM (Ollama, Anthropic)
 approval routes ──> ring buffer ─upsert──┘
 executor-v2 ──> execution_journal <── reconciliation-worker ──> Splunk
 governance producer ──> BullMQ (Redis) ──> governance consumer (cache in memory)
 browser: dashboard page, session gate, EventSource ──> web
```

Processes communicate through rows only. A handler is a sequence of awaited
statements; between two of them anything else may run. Most statements are
single-row updates, a few are transactions, and many are started without an
await ("fire and forget"). One worker container runs, with `restart:
unless-stopped`.

### Inventory

| Component | State | Operations | What is hard | What makes it correct |
|---|---|---|---|---|
| **Decision execution** `packages/core/workflow/executor-v2.ts`, `packages/infra/queue/reconciliation-worker.ts`, `packages/core/adapters/splunk-http.adapter.ts` | `decisions`, `execution_journal`, `audit_events`; Splunk's indexes | execute (insert journal, DELETE, commit), reconcile (find stuck rows, probe, repair) | crash between DELETE and commit; time-outs applied late; failed probes; overlapping calls and reconciliations | one DELETE per decision; verdict backed by evidence; no row open for ever; verdict not rewritten |
| **Job queue** `apps/api/services/job-service.ts` | `job_queue`: status, lease | enqueue, claim, progress, complete, fail, recover stale | leases, late heartbeats, none of the updates reads the status it replaces | a claimed job ends, and its run with it |
| **Pipeline ledger** `apps/api/services/pipeline-ledger-service.ts`, `apps/web/lib/pipeline-ledger-service.ts` | `pipeline_runs`, `tenant_snapshot_pointer` | create, fail, recover, publish | idempotency hash, publication in one transaction, three recoveries | hashes exclusive; published runs form a chain |
| **Refresh handler, worker** `apps/web/app/api/cache/route.ts`, `docker/worker.ts`, `apps/api/services/cache-service.ts` | refresh lock, handler and worker positions | POST /api/cache, POST /api/job-stream, GET /api/cache-status, `main`, `processJob` | check-then-act on the lock, crashes at every await, errors after a commit | what the four tables say of one refresh stays consistent |
| **Approval workflow** `core/governance/governance-approval*.ts`, `apps/api/routes/governance-approval-routes.ts` | ring buffer in memory, `governance_approval_requests` | create, approve, deny, revoke, reads, lazy expiry | upserts out of order or lost; restarts; TTL | quorum; one resolution; no resolution after the TTL |
| **Governance queue** `apps/api/services/governance-queue-*.ts` | BullMQ queue, per-process cache | enqueue, handle, retry | stalled jobs run twice; retries that nobody performs | effects bounded by deliveries; no success without an effect; every envelope ends |
| **Reanalysis queue** `apps/api/services/reanalysis-*.ts` | jobs, daily budget row | enqueue, execute, retry, defer | read-modify-write of the budget; limits counted in one statement and used in another | budget respected; tier limits overshot by the racers at most |
| **Drift and recovery** `apps/api/services/{drift-detection,confidence-recovery}-service.ts`, `evaluateDriftForSnapshot` | decisions of a snapshot, stability runs | classify, mark, penalise, recover | rows keyed by a decision that lives for one snapshot; one UPDATE over a whole snapshot | larger drift weighs more; recovery by clean days |
| **Permission grants** `core/governance/governance-{ttl,revocation,scopes}.ts` | grants, revocations, audit events | grant, check, revoke | two revocations; three statements without a transaction | a revocation is backed by its record and final |
| **Status derivation** `apps/web/app/api/cache-status/route.ts`, `apps/web/lib/pipeline-lifecycle.ts` | none; reads pointer, runs, events, decisions | GET /api/cache-status | five reads between writes of three processes | READY and alarms are backed by what was written |
| **Dashboard page** `apps/web/app/page.tsx`, `apps/web/lib/use-smart-polling.ts` | its idea of the refresh, requests on their way | click, polls, stream, hydration, timer | four sources with their own delays | it comes to rest when the refresh has ended |
| **Session refresh** `apps/web/lib/api-client.ts`, `apps/web/app/api/auth/refresh/route.ts`, `packages/auth/auth.ts` | cookie, access token, `refresh_tokens`, the gate | fetch, 401, refresh, rotate, retry | many calls refused at once; rotation in two statements | one rotation at a time; the session survives it |
| **Governance stream** `apps/web/app/api/governance/stream/route.ts`, `apps/web/lib/use-governance-stream.ts` | the connection's cursor | poll three tables, reconnect | one cursor for three tables; reconnects; rows that commit late | no event missed, none out of order |
| **MCP circuit breaker** `apps/api/services/mcp-circuit-breaker.ts` | rolling window, state | execute | concurrent callers; recovery from UNAVAILABLE | the state follows the window |
| **Bulk actions** `apps/web/app/api/bulk-actions/route.ts` | `agent_decisions` of the newest snapshot | POST: update every named index in one transaction | the worker replaces the same rows; deadlocks; errors caught inside the transaction | success means that all of it is committed |
| **Operator audit chain** `apps/api/services/audit-chain-*.ts` | hash-linked rows | append, verify, detect forks | tip read without a lock | a single successor per row |
| **Scoring and savings** `packages/core/engine` | none | pure functions | boundaries of tiers | agrees with the calculation guide |
| **Governance engine, policies, replay** `core/governance` | counters | evaluate | none across requests | function of request and policies |

The rest (analytics, LLM agent, Splunk clients, web interface, tokens, envelope
signing, migrations, containers) is listed with its reason in `PROJECT.json`
under `components`.

## 2. Modules

| Module | Models | Lines it abstracts from |
|---|---|---|
| `ExecutionJournal` | execution and reconciliation | logging, metrics, tenant filter |
| `ExecutionOutcome` | abstract: what execution promises | journal, calls, requests, reconciliations |
| `MCExecutionJournal` | instances for TLC | |
| `ExecutionJournalProofs` | proofs | |
| `PipelineLedger` | `pipeline_runs`, pointer, their statements | stage events, metrics, content hashes |
| `JobQueue` (extends the ledger) | `job_queue` and its statements | progress, checkpoint number, metrics |
| `RefreshPipeline` (extends the queue) | handler, worker, recoveries, time | what aggregation, LLM and KPI rebuild compute |
| `MCRefreshPipeline`, `RefreshPipelineProofs` | instances, proofs | |
| `ApprovalStore`, `MCApprovalStore`, `ApprovalStoreProofs` | store and routes, instances, proofs | tenant filter, notes, justification |
| `GovernanceQueue`, `GovernanceQueueProofs` | producer, consumer, BullMQ's delivery (external) | trace headers, payloads, lifecycle rows |
| `ReanalysisQueue`, `ReanalysisQueueProofs` | budget row, jobs, worker, schedulers | which index is chosen, what a reanalysis computes |
| `DriftRecovery` | `evaluateDriftForSnapshot`, classification, stability runs | seasonality, fractions other than the representatives |
| `PermissionGrants`, `PermissionGrantsProofs` | grants, checks, revocations | scopes (never read), tenants, reasons |
| `RunStatus` | cache-status and every writer of the rows it reads | wording, counts beyond "any" |
| `Dashboard` (extends `RunStatus`) | the page over the route | widgets, session storage, reloads |
| `CircuitBreaker` | window, states, retries | stale cache, back-off times |
| `SessionRefresh` | gate, retry, rotation | token contents, headers but the token |
| `GovernanceStream`, `MCGovernanceStream` | stream, hook, writers; instance | payloads |
| `BulkActions`, `BulkActionsProofs` | bulk action and worker batch as transactions over the same rows | the actions themselves, messages |
| `MCServices` | the nine services above, one at a time | |
| `ServicesProofs` | proofs about session, status, page, stream, breaker and drift, and about the services side by side | |

`MCServices` checks nine services that share no row in one run: a variable names
the service, the others stand still. `Dashboard` is the composition of the page
with `RunStatus`, and so with the handler and the worker behind it.

`RefreshPipeline` is the composition of ledger, queue, lock, handlers and
workers: `EXTENDS` passes on the variables, and every action says what it leaves
unchanged. `ExecutionJournal` is related to `ExecutionOutcome` by the instance
`Outcome` and the property `ImplementsOutcome`.

### ExecutionJournal

`exec[e]` is one call of `executeDecisionSafe`, `rec[r]` one run of
`reconcileExecutions`; `request[d]` is the DELETE as Splunk sees it, so that an
aborted request may still be applied afterwards (`SplunkDeletes`). The insert
(`CreateJournal`, `RejectExecution`), the external call (`SendDelete`,
`DeleteReturns`), the transaction (`Commit`, `CommitFails`) are separate steps
with `ExecutorCrash` possible at each of them. A reconciliation reads a batch
once (`FindStuck`), then probes and repairs row by row; `Repair` does not read
the row again, as in the code. The idempotency key is one per decision, because
a decision row belongs to one snapshot and one tenant.

### PipelineLedger, JobQueue, RefreshPipeline

A run and its job share the id in the job's payload. `run[r].old` stands for
"RUNNING for more than five minutes", `job[j].lease` for `lease_expires_at`,
`lock.aged` for ten minutes. A handler walks through `RequestPc`: `Sweep`
(`getActiveRunByHash` begins with `recoverStalePipelineRuns`), `Lookup`,
`CreateRun`, `CheckLock`, `AcquireLock`, then `PrepareFails` or `Enqueue`, then
`Finish`, with `FailRequest` and `ReportError` for the catch block and
`RequestDies` anywhere. A worker walks through `WorkerPc`: `Claim`, `StartJob`
or `RejectJob`, `StartBatch`, `FinishBatch` or `FailBatch` per batch,
`LockPointer` and `Publish` (the transaction of `publishRunAtomic`: its locking
read and its commit), `RecordPublish`, `CompleteJob`, or `FailRun` and
`FailJob`. `PublishFails` and `UndoPublish` are the catch around the
publication, `WorkerThrows` an error that reaches the poll loop. The heartbeat
timer starts writes nobody waits for: `Beat`, `BeatLands`, `BeatLost`. The
recoveries are `PollRecover`, `StatusRecover` and the restart.

### ApprovalStore

No handler of the store awaits anything between reading and writing the buffer,
so one route is one action. Every change starts an upsert of the whole record
(`writes`); upserts land in any order (`WriteLands`) or are lost
(`WriteFails`). `Restart` empties the buffer; nothing reads the table back.
`getById` on an overdue pending request calls `expire`, which begins with
`getById`: the model calls this `Overflow`, an answer that changes nothing.

### GovernanceQueue

`envelope[j]` is a BullMQ job, `handler[<<j, n>>]` its n-th run of `handleJob`: BullMQ
hands a job out again (`StallDetected`, `HandOut`) while the first run may still be
going, and only the run that holds the lock decides the job's end (`HoldsLock`,
`Finish`). `IsCached` looks at the memory of the consumer, `TakeEffect` and
`ProcessorThrows` are the processor, `CacheResult` fills the memory afterwards,
`ConsumerRestarts` empties it. The idempotency key depends on the trace alone, so
envelopes of one trace share it. An error, retryable or not, ends the job, because
the producer leaves `attempts` at one.

### ReanalysisQueue

`ReadBudget` is the first statement of `enqueueReanalysisJob` in the caller's
transaction, `CommitEnqueue` its writes: the budget is written as an absolute
value, and `overlapped` remembers a commit over a row it had not read. The budget
worker takes the jobs it selected (`SelectQueued`, `WorkerStarts`, `WorkerEnds`);
schedulers take PENDING ones in three steps (`GetNext`, `StartExecution`,
`CompleteExecution` or `FailExecution`). Processes die between any two.

### DriftRecovery

`TakeSnapshot` starts a day: the decisions of the snapshot are new rows, with new
ids. Then the loop over the indexes: `EvaluateNew` for one without history,
`SkipDecision` for an error, `Evaluate` with any volume, utilisation, age and
retention of the instance, and `Recover` for the clean ones at the end. `Marked`
is the UPDATE of `persistDriftHistory`, which names the snapshot and not the
decision. Fractions are whole percents.

### PermissionGrants

`CheckGranted` starts the `UPDATE` of the usage that nobody awaits, `UsageLands`
ends it. A revocation is `CheckGrant`, `InsertRecord`, `MarkRevoked`,
`AuditEvent`, with `RevokerFails` anywhere after the check. `Expires` is the
passing of `expires_at`; the sweep writes nothing.

### RunStatus, Dashboard

Two runs: an `older` one, published or failed, and `this` one, refreshed by the
handler (`BeginRefresh`, `QueueJob`, `PostEvent`, `PostFails`) and the worker
(`ClaimJob` to `JobDone`). `ledger[r].stage` is the newest event of the stage
AI_DECISIONS, the only one the route looks at; HEARTBEAT events land late
(`HeartbeatEnds`). A request reads in the route's order (`ReadPointer`, `ReadRun`,
`ReadStage`, `ReadCount`, `Answer`) and `Derived` is `normalizeLifecycle`.

The page adds its own state: `Click`, `PostAnswered`, the polls (`PollJob`,
`PollDashboard`, `FetchSummary`), the messages of the stream, the answers on
their way (`StatusRead`, `ReadLatestJob`, `ApplyState`) and the timer of
`finalizePipelineSuccess`. `Closed` is the effect that ends a running run; React
applies it after every update, so it is part of each action.

### CircuitBreaker, SessionRefresh, GovernanceStream

`Execute`, `Succeeds`, `Fails` are one attempt of one caller; `Judged` is
`updateState`, and nothing judges when entries merely age (`Prune`).

A `fetch` is sent, answered, waits at the gate of its tab and is repeated once.
The gate follows `refreshAccessToken` and, behind it, the statements of
`rotateRefreshToken` (`SelectToken`, `RevokeOld`, `CreateNew`), the answer that
sets the cookie (`Answered`), and the timer that clears the gate (`Release`).

Time in the stream is counted in half milliseconds, because a row carries
microseconds and the cursor, a JavaScript date, does not (`Milliseconds`). A row
takes its time when its transaction begins and shows when it commits.

### BulkActions

A request is one transaction: each UPDATE finds the rows that are committed when it
starts (`StartUpdate`), goes through them one at a time as their locks allow
(`UpdateRow`) and pushes a result (`PushResult`). `ReplaceDecision` is
`writeDecisionToDb`, which deletes a row and inserts another, so that `CommitBatch`
takes the rows away from statements that were waiting for them. A wait needs no state:
it is an `UpdateRow` that is not enabled, and a deadlock ends with `StatementFails`.
Locks and the aborted state of a transaction are those of PostgreSQL at READ COMMITTED.

## 3. What the runs check

| Run | Instance | Shows |
|---|---|---|
| `EJ_safety` | 3 decisions (two ELIMINATE on one index), 2 calls, 2 reconciliation runs, stalls and failed probes | `OneOwner`: one call owns a journal row. `VerdictHasEvidence`: a verdict and its audit event come together, and EXECUTED means the index is gone unless a failed probe was taken for a confirmation |
| `EJ_outcome` | same decisions, 2 calls, 1 reconciliation run, no stalls, probes answer | `VerdictIsFinal`, `EveryJournalCloses`, and `ImplementsOutcome`, the refinement of `ExecutionOutcome` with its liveness |
| `EJ_bug_probe` | 1 call, 1 reconciliation | `ExecutedOnlyIfGone` fails: `getIndexState` answers `exists: false` for an error and `reconcileOne` reads a deletion |
| `EJ_bug_unknown` | 1 call | `UnknownIsNotFailed` fails: an aborted DELETE is committed as FAILED |
| `RP_safety` | 2 requests for one hash, 2 runs, 1 worker, 2 batches, failing statements, stalls | `HashIsExclusive`, `NoZombieRun`, `OnePublishedRun`, `PublishedStays` |
| `RP_live` | 1 request process, 2 runs, 1 worker, 1 batch, failing statements | `JobsSettle` and `HashIsReleased` |
| `RP_bug_resume` | 1 run, 1 worker | `InterruptedJobResumes` fails: no statement makes an interrupted job claimable again |
| `RP_bug_unpublish` | 2 runs, 1 worker, failing statements | `FailedRunIsNotActive` fails: an error after the publication leaves the pointer at a FAILED run |
| `AP_safety` | 3 requests, 2 approvers, quorums 1 and 2, 2 buffer entries, 2 upserts in flight | `RecordedQuorum`, `TableFollowsBuffer`, `OverdueStaysOpen` |
| `AP_bug_expire` | 1 request | `OverdueExpires` fails: an overdue request never becomes expired |
| `SV_services` | queue: 2 envelopes of a trace, 1 consumer, 1 stall; reanalysis: 3 jobs, 2 enqueuers, 1 scheduler, budget 2; drift: 2 indexes, 40 days, gaps of 5 and 31 days; grants: 2 with 2 revokers; page: 1 refresh, 1 batch; breaker: 2 callers, window 6; session: 1 tab, 3 fetches, 3 tokens; stream: a row in each table; bulk: 1 request and the worker, 3 rows of 2 indexes | the properties of section 3.1 |
| `GS_bug_missed` | a row in each of the three tables, longer time | `NoEventMissed` fails: the shared cursor passes a row that no query has returned |

Every property of a passing run has a mutant in `PROJECT.json`: an operator
beside the original (`Mut_...`) that changes it as a plausible mistake in the
code would, and under which TLC finds the property violated.

### 3.1 Properties of the services

* Governance queue: `SuccessHasEffect` (a completed job, a remembered key and a
  success event each stand for an effect), `EffectsPerDelivery` (the processor runs
  at most once per delivery: the duplicate effect exists and is bounded by stalls),
  `DeduplicatedOnceCached` (what the cache does achieve), `EveryEnvelopeSettles`.
* Reanalysis: `HonestBudget` (without overlap, what was admitted and what is left
  stay within the day's budget), `ExhaustedMeansNothingLeft`, `BoundedOvershoot`
  (racing schedulers overshoot a tier's limit by one each, at most).
* Drift: `LargerDriftWeighsMore` (the classification and its penalty are monotone),
  `SnapshotSharesSeverity` (all decisions of a snapshot carry the severity that was
  written last, whatever their index did), `NoMilestoneReached` (no sequence of
  clean snapshots ever gives confidence back). The last two state what the code
  does; section 5 says why that is not what it is for.
* Grants: `RevocationBacked`, `AuditedIsRevoked`, `RevokedForGood`.
* Status: `NoFalseAlarm` (the order of the reads is the reverse of the order of the
  writes), `ReadyIsBacked`. Page: `RefreshEndsOnPage`, under fairness.
* Breaker: `OpenForGood` (nothing reopens a circuit that no caller
  is left in).
* Session: `SessionSurvives`, `RetryIsNewer`, `OneLiveToken`.
* Stream: `SentInOrder`.
* Bulk action: `SuccessIsWhole` (an answer of success means that every named index
  has a row with the request's action, committed with that answer).

### Bounds, and why they are enough

* Ids (`Runs`, `Requests` of the approval store) are drawn once and never
  reused: two runs give every order of two overlapping refreshes, including
  supersession; `Lookup` answers "already running" when no id is left, which
  only ends the story.
* Two approval requests fill the ring buffer of the model, and the third pushes
  one out; with two upserts in flight the older can land last. `MaxInFlight`
  bounds upserts, which the program does not.
* Two batches distinguish the first, the last and a failure in between. A job
  with inputs has at least one.
* Two reconciliation runs, two calls and a batch size of one suffice for every
  overlap on one row; the third decision takes the branch without external
  action.
* One consumer suffices for a job that runs twice, since it handles ten at a time;
  a second one adds a memory of its own, which is what `ConsumerRestarts` does to
  the first. (Two consumers, 312 thousand states, hold as well.)
* Three jobs are what a worker, a scheduler and the tier limit of one need to meet;
  two schedulers with two jobs hold as well. `Enqueuers` are two because a lost
  update takes two.
* `LastDay` of 40 with gaps of 5 and 31 passes the thresholds of 7, 14 and 30
  clean days; the volumes 0, 3 and 600 and the two-valued inputs give every class
  of drift and their combinations.
* A window of six entries is one more than the breaker needs to judge, so that an
  entry may leave and the window still counts. Three tokens give two rotations,
  and a third call comes late to each of them.
* `ResumeWindow` and `LastMoment` are short: what matters is whether a row is older
  than the cursor, within its millisecond, or younger.
* Three rows of two indexes give an UPDATE of two rows, a row the worker has yet to
  insert, and two transactions, the request's and the worker's, that lock two indexes
  in opposite orders. (Two requests, 338 thousand states, hold as well.)
* The page is checked for one refresh by one click: a second click while a POST is
  on its way is excluded by the button (`page.post = "no"`).
* Time is a set of flags (`aged`, `old`, `lease`, `overdue`) raised by actions
  of their own, never before the event that starts the clock, and at any moment
  after it.
* `CHECK_DEADLOCK FALSE` stands only in the configurations of
  `ExecutionJournal`, whose finitely many calls end, and of the services, whose
  envelopes, days, tokens, moments and requests are finitely many too.
* `Symmetry` permutes identical calls, reconciliations, requests and approvers
  and is used in safety runs only.

### Fairness, and why the code justifies it

* `ExecutionJournal`: a started call goes on (weak fairness), rows grow older,
  the reconciliation is scheduled by a cron job. `Probe` and `Repair` need strong
  fairness because a crash or a failed transaction may interrupt them again and
  again without hitting every attempt: the schedule repeats, and the promise
  "reconciliation will repair state" is about such a schedule.
* `RefreshPipeline`: handlers and the worker go on; the worker includes its own
  restart, which docker-compose guarantees; runs and leases grow old; and
  refreshes keep being asked for, since `getActiveRunByHash` of a later request
  is the only thing that fails a run whose request died. Nothing is assumed of
  crashes, errors, heartbeats or `StatusRecover`.
* `GovernanceQueue`: consumers keep taking and running jobs, and BullMQ's stalled
  check, every five seconds, finds a job whose holder is gone. Weak fairness;
  restarts, stalls of a live holder and new envelopes are not assumed.
* `Dashboard`: the POST is handled, the worker or the recovery makes progress
  (the recovery is the first statement of the route that the page polls), the
  page's requests are answered, its interval and its timer fire. The stream may
  stay silent, and nobody has to click.
* `ApprovalStore` (violation run only): each request keeps being read.

## 4. What is proved

TLAPS checks the theorems for every value of the constants that satisfies the
named assumptions of the modules: finite sets (of decisions, runs, envelopes, jobs,
schedulers), functions with the domains they are used with, bounds that are natural
numbers, the special value `None` outside the sets it stands beside, Boolean
switches. They hold with the switches on (stalls, failed probes, failing
statements) and with any number of processes, unless a hypothesis is named below.
Each module first states an inductive invariant, which TLC checked on the runs'
instances before it was proved, with one lemma per group of actions that change the
same variables; the theorems then follow from it.

| Module | Inductive invariant | Theorems |
|---|---|---|
| `ExecutionJournalProofs` | `IInv`, and `SoloInv` under `Solo` | `TypeCorrect`, `OneOwnerHolds`, `EvidenceHolds`; under `Solo` `VerdictsAreFinal` and, with probes that answer, `JournalRefinesOutcome`; with probes that answer `OnlyFailedProbesMislead` |
| `RefreshPipelineProofs` | `IInv`, `PublishInv`, `ReadIsCurrent`, `ChainFormed`, `WorkersAreLeased`, `ErrorFree` | `TypeCorrectness`, `HashExclusion`, `ZombieFreedom`, `PublicationLasts`, `ChainLasts`, `JobsAreExclusive`, `JobsAreQueuedOnce`, `ClosedJobEndsRun`; with one worker `OneWorkerOneActiveRun`; without stalls `OnlyBeatsReopen`; without database errors `OnlyErrorsUnpublish` |
| `ApprovalStoreProofs` | `StoreInv`, `HistoryInv` | `StoreTypes`, `QuorumIsRecorded`, `TableNeverDiverges`, `OverdueIsNeverResolved`, `CopiesShareOneHistory`, `EntriesOnlyMoveOn` |
| `GovernanceQueueProofs` | `GovQueueInv` | `SuccessStandsForEffect`, `EffectsAreDelivered`, `CacheDeduplicates` |
| `ReanalysisQueueProofs` | `QueueInv` | `BudgetIsHonest`, `ExhaustedIsEmpty`, `OvershootIsBounded` |
| `PermissionGrantsProofs` | `GrantsInv` | `RevocationIsBacked`, `AuditFollowsRevocation`, `RevocationIsFinal` |
| `BulkActionsProofs` | `BulkInv` | `SuccessIsWholeHolds` |
| `ServicesProofs` | `SessionInv`, `StatusInv`, `StreamInv`, `DriftInv` | with one tab `OneTabSurvives`, `RotationKeepsOne`, `RetriesAreNewer`; `AlarmsAreTrue`, `ReadyIsTrue`, `PageOnlyWatches`, `PageIsToldTheTruth`; `StreamIsOrdered`, and with one table and punctual rows `PunctualTableIsComplete`; `DriftIsMonotonic`, `NothingIsRecovered`, `OneSeverity`; `OpenCircuitIsFinal`; `SessionTypes`, `DashTypes`, `StreamTypes`, `BreakerTypes`, `DriftTypes`; `ServicesAreApart`, `ServicesTypes` |

**Execution.** `VerdictHasEvidence` is not inductive: `Commit` writes what the call
learnt earlier, and `Repair` what an earlier probe saw. `IInv` adds `OwnerInv` (a
call past its insert owns an existing row), `AnswerInv` (a success that Splunk
reported, and that the call remembers, is still true) and `RunInv` (the same of a
probe). These survive because no step brings an index back. `Solo` says what the
deployment intends: calls end before `stuckThresholdMs` (`~MayStall`), and one
reconciliation runs at a time. Then a row that a call owns is not old (`OwnedIsOpen`),
so call and repair never both decide it, and a batch stays open while it is worked on
(`BatchIsOpen`). `VerdictIsFinal` follows, and so does the step simulation of
`ExecutionOutcome`: the insert begins a decision, a DELETE that Splunk applies removes
the index, `Commit` and `Repair` decide, everything else stutters. Without `Solo` both
are false, and TLC shows how (section 5). `OnlyFailedProbesMislead` is the other side of
the run `EJ_bug_probe`: if probes answer, EXECUTED means that the index is gone, without
`Solo`, in spite of crashes, stalls, failed transactions and several reconciliations. The
failed probe is the only cause.

**Refresh.** `NoZombieRun` says that a closed job has no RUNNING run. None of the
updates tests a status, so the proof has to know who may still write:
`WorkersOwnJobs` (a worker's job exists, its run exists once the worker has looked, and
has ended before the worker closes the job), `RequestsOwnRuns` (a handler's run id is
its own, unused until the insert and existing after it), `BeatsHaveJobs` (a late
heartbeat names an existing job). Every statement but the insert either leaves status
and hash of a run alone or ends the run (`RunsAge`). A job closes only when its run has
ended before or ends in the same statement (`JobsStay`). `HashIsExclusive` follows from
`RunsAge` and the guard of the one insert. `PublishInv` adds what is not yet published:
until a worker has committed, its run is neither published nor superseded nor named by
the pointer. `OnePublishedRun` needs, with it, that the pointer a worker has read is
still the pointer when it commits (`ReadIsCurrent`), which one worker guarantees and
two do not (section 5). What two do guarantee is `ChainLasts`: in any state in which the
pointer row exists, the chain is formed and no worker holds an older reading
(`ChainFormed`), the locking read has a row to lock, and the chain lasts for good.

`RunMoves` and `JobMoves` list what a step may do to a run and to a job; the theorems on
the life of a job follow from them. A job is claimed once, and by one worker
(`JobsAreExclusive`), and is never pending again (`JobsAreQueuedOnce`): `recoverStaleJobs`
fails, it does not retry. `updateJobProgress` asks for no status, so that a late heartbeat
may reopen a job that is complete or failed; if leases of live workers do not run out,
nothing else does (`OnlyBeatsReopen`), and whatever reopens it, its run is never RUNNING
again (`ClosedJobEndsRun`). `OnlyErrorsUnpublish` is the other side of the run
`RP_bug_unpublish`. Without database errors no worker gets to its `undo`, and a handler
that fails its run has not queued the job (`ErrorFree`); a run without a job was never
published (`PublishInv`), so that no published run is taken back.

**Approvals.** Buffer, upserts in flight and table hold copies of a request that were
made at different times. `StoreInv` keeps one entry for an id (`UniqueIds`) and, in
every copy, as many different people as approvals (`DistinctApprovers`), so that
counting approvals counts people. A copy may lag behind the buffer, never contradict it:
the routes move a request only forward, and a late upsert writes an older state of the
same history. `Older` orders the copies of a request by state and approvals. `HistoryInv`
says that the entry of the buffer is the newest and that of any two copies one is a version
of the other, also after the buffer has lost the entry (`CopiesShareOneHistory`); every
handler moves an entry on in this order (`EntriesOnlyMoveOn`).

**Queues.** `EffectsPerDelivery` compares two numbers that different processes raise.
`EffectsAreSpent` makes it inductive: the effects so far and the deliveries that may
still take effect are together at most the deliveries made. `BoundedOvershoot` likewise
counts, beside the running jobs of a tier, the schedulers that have chosen a job and not
started it. `HonestBudget` needs what the rows read by the enqueuing transactions are
worth (`RowsAreGood`) and that no deferred job is ever taken up again
(`WorkIsAdmitted`).

**Grants and bulk actions.** The calls of `revokePermission` leave a record behind
before they name it (`CallsAreBacked`), and a call that has written a record looks for no
other grant (`RecordsNameGrants`). A result `true` is held by a row that the transaction
has locked (`ResultsAreHeld`), and a transaction taken back has a result `false`
(`AbortedHasFailure`), so that it cannot answer success although the error was caught.

**Status, page, session, stream, drift.** `ReaderInv` says which parts of what the reader has
seen are still so: decisions stay, and an analysis that had nothing to decide stays one,
while status and stage may have moved on. The page adds no step to the refresh it watches
(`PageOnlyWatches`: `DashSpec` implies `RunStatusSpec`), so that it inherits what is proved of
the route's answers (`PageIsToldTheTruth`). With one tab, the refresh under way has found
the newest token, and its answer is newer than anything the page or its calls have
(`GateInv`); a good cookie is missing only while its successor is under way
(`CookieInv`). The cursor of the stream is at or past every row sent (`AdvancedIsLast`
shows that the greatest time of a batch exists, whatever the batch). `GS_bug_missed` shows
that events are missed; `PunctualTableIsComplete` that this takes one of four causes: several
tables under one cursor, two rows of the same time at the LIMIT, a transaction that commits
after the cursor has passed its time, or a connection that begins after an event was missed.
The last two are the hypothesis `Punctual`, about steps, because they are matters of timing
that the program does not control. A stability run is
as old as its snapshot (`FreshRun`), so that no day ever passes for it. `SessionInv`
assumes one tab because two refute the properties (section 5); the types hold for any
number of tabs (`SessionTypes`).

**The services side by side.** `MCServices` chooses one of nine services and lets it run.
`ServicesAreApart` shows that this composition loses nothing: its behaviours are those of
the chosen service, by that service's own specification, so that every theorem above
holds of the specification TLC runs. `ServicesTypes` uses it to collect the nine type
theorems.

**Checked by TLC only**: all liveness (`EveryJournalCloses`, `JobsSettle`,
`HashIsReleased`, `EveryEnvelopeSettles`, `RefreshEndsOnPage`) and the liveness part of
`ImplementsOutcome`, because liveness and ENABLED are beyond the prover; and that the counterexamples of the
violation runs exist. Every invariant and every action property of a passing run is the
property of a theorem. In a few actions the models write records out, or repeat a field
instead of `@`, where the prover does not expand several `@` in one EXCEPT.

## 5. What the models say about the code

The violation runs are disagreements between code and a comment or test of the
repository; `findings` in `PROJECT.json` quotes both sides. The models show more
behaviour that no sentence of the repository forbids clearly enough for a run:

* When Splunk answers an error the journal row ends COMPLETED with decision
  FAILED; `tests/chaos/scenarios/03-splunk-500-timeout.test.ts` expects other
  rows.
* A RETAIN or MONITOR decision whose executor crashed stays APPROVED for good:
  the repair closes its journal row only (`CloseJournal`).
* `VerdictIsFinal` needs one reconciliation run at a time and calls that end
  before the threshold: with `MayStall` or two runs a late write replaces an
  earlier verdict.
* `OnePublishedRun` needs one worker: `FOR UPDATE` on a pointer row that does
  not exist locks nothing, so two workers that publish a tenant's first runs
  leave both unsuperseded. Once the row exists, any number of workers is safe
  (`ChainLasts`).
* The five-minute recovery fails the run of a job that still waits in the queue
  or is being worked on; `publishRunAtomic` later turns such a FAILED run into
  SUCCEEDED.
* A run that started earlier but is published later moves the pointer back.
* `GET /api/cache-status` shows READY for a pointer at a FAILED run.
* Status: while the newest AI_DECISIONS event is a HEARTBEAT the route answers
  NOT_STARTED, and the page stops polling (`worker.ts:289` says the heartbeat keeps
  the timer going without polluting the status). The handler's own IN_PROGRESS event
  comes after the job was queued and can land after the worker's SUCCESS: the
  published run then shows RUNNING and, after twenty minutes, FAILED_TIMEOUT. A job
  that waits in the queue for twenty minutes is shown as timed out too.
* Page: a click while everything is READY closes the new run at once, because
  `Closed` looks at the lifecycle of the previous one; a load that finds a job
  older than five minutes shows it as complete.
* Governance queue: `governance-queue-consumer.ts:8` claims idempotency, but a
  stalled job takes effect twice; line 174 throws "for BullMQ to retry" and the
  job has one attempt. The execution id has a resolution of 10 ms, so two enqueues
  of a trace within it are one job. Producer, consumer and the reanalysis worker
  have no caller in the repository.
* Reanalysis: jobs enqueued PENDING wait for a scheduler nobody starts;
  the CHECK of `100_v1_stable__governance_ledger.sql:135` excludes the states QUEUED
  and DEFERRED that the code writes; the budget ledger exists in an archived
  migration only.
* Drift: the stability run is keyed by `agent_decisions.id`, new with every
  snapshot, and its first clean evaluation counts zero days, so recovery never
  starts; `persistDriftHistory` marks the whole snapshot as drifted with the last
  severity, even NONE; some thresholds are fractions and their inputs percentages.
  `runAggregation`, the only caller, has none itself.
* Grants: two revocations leave two immutable records, and the grant names the
  later one; `checkPermission` never looks at a scope.
* Session: the gate belongs to one tab. With two tabs `SessionSurvives` and
  `OneLiveToken` fail, although `api-client.ts:98` excludes "just a race". The
  cookie of the access token lives fifteen minutes, the token an hour: the stream
  loses its cookie first.
* Breaker: a circuit that opens with nobody in flight stays open for good; a
  window that shrinks by age is not judged again. No caller uses it.
* Stream: besides the shared cursor, events are missed at the LIMIT (rows of the same
  time), by rows that commit late, and at every reconnect after more than thirty
  seconds: the hook opens a new EventSource and never sends the last event's id. The
  dashboard passes new callbacks with every render, and each render reconnects, most
  of the time before the first poll. The newest row is sent again at every poll,
  because the cursor is cut to milliseconds.
* Bulk action: after a failed statement the results pushed before it still say success
  and the summary counts them, though the COMMIT rolls everything back. An UPDATE that
  waits for the worker misses the rows the batch replaces: of an index with several
  sourcetypes one keeps the worker's action while the answer is success. The snapshot
  is the newest of any tenant. `bulk-actions-service.ts` has no caller.
* Approval: the table is never read back although the header of the store
  announces a fallback; one overdue request makes `GET /pending` fail for its
  tenant; `getByState` still lists it as pending; a late upsert can leave the
  table at approved after a revocation; and no transition is written to the
  governance audit store, as `governance-approval.ts:15` says it is.

## 6. Plan

Modelled, the most important first: execution and its abstract specification;
ledger, job queue and refresh; approvals; the governance queue; reanalysis and
its budget; drift and recovery; permission grants; status derivation and the page
over it; circuit breaker, session refresh, governance stream; bulk actions.

Proved, in the same order: the safety properties of all of them (section 4).

What remains is outside the prover (liveness, section 4) or not modelled (section 7). The
next parts worth a model are those whose behaviour the repository has not settled yet: the
operator audit chain, once its triggers are installed, and the review workflow, once a
route calls it.

## 7. Not modelled

`PROJECT.json` gives a reason for every part. The largest share of the repository
is presentation, arithmetic and declarations:

* Pages, charts and read-only routes: they render rows and change none. The
  dashboard page is modelled as far as it decides whether a refresh has ended.
* Scores, savings, statistics and KPIs over decimals: outside TLC's strength and
  covered by contract tests. `runAggregation`, a third of the aggregation service,
  has no caller.
* Network clients, parsers and the language model appear as outcomes.
* The operator audit chain: what two bindings on one predecessor lead to is
  decided by triggers in skipped migrations.
* The governance review workflow and the overrides have no live caller.
* The event bus, the first executor, the deferral sweeper and the watermarks of
  `incremental-fetch-service.ts` are not what the deployment runs.
* Cryptography, login and tenant checks are outside the subject.
* Several tenants: every statement filters by tenant, the models describe one.
* Scripts, tests, migrations and containers: the models take from them which
  statements are atomic, which keys are unique and what is restarted.

## 8. Running

```
tlc -workers 2 -config RP_safety.cfg MCRefreshPipeline.tla
tlapm RefreshPipelineProofs.tla
```

`SV_services`, `RP_safety` and `AP_safety` take one to three minutes, the others seconds.
