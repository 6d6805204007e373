-------------------------- MODULE RefreshPipeline --------------------------
(***************************************************************************)
(* A dashboard refresh, end to end: POST /api/cache creates a run and      *)
(* queues its job (apps/web/app/api/cache/route.ts), the worker processes  *)
(* the job batch by batch and publishes the run (docker/worker.ts), and    *)
(* three recoveries fail what seems to be abandoned.  One tenant; one      *)
(* action per step between two awaits that changes the ledger, the queue,  *)
(* the refresh lock or what a process goes on to do.                       *)
(***************************************************************************)
EXTENDS JobQueue

CONSTANTS
  Requests,   \* concurrent POST /api/cache handlers
  Workers,    \* worker processes; docker-compose runs one
  Batches,    \* LLM batches of a job that has inputs
  DbErrors,   \* TRUE: a database statement may fail
  MayStall    \* TRUE: a live worker may miss its heartbeats for 25 minutes

ASSUME PipelineAssumption ==
  /\ Batches \in Nat \ {0}
  /\ DbErrors \in BOOLEAN
  /\ MayStall \in BOOLEAN
  /\ IsFiniteSet(Runs)

VARIABLES
  lock,     \* cache_metadata of index_metrics; aged: older than ten minutes
  request,  \* the handlers
  worker,   \* the workers
  beats     \* jobs with a progress write of the heartbeat timer still in flight

vars == <<run, pointer, job, lock, request, worker, beats>>

RequestPc == {"idle", "lookup", "create", "lock", "acquire", "prepare", "finish",
              "fail", "error"}
WorkerPc  == {"poll", "start", "batch", "infer", "fail", "failjob", "publish",
              "commit", "event", "undo", "complete", "down"}

TypeOK ==
  /\ LedgerTypeOK /\ QueueTypeOK
  /\ lock \in [status : {"none", "refreshing", "fresh", "stale", "error"}, aged : BOOLEAN]
  /\ request \in [Requests -> [pc : RequestPc, hash : Hashes \cup {None},
                               run : Runs \cup {None}]]
  /\ worker \in [Workers -> [pc : WorkerPc, job : Runs \cup {None}, batch : 0..Batches,
                             outcome : {"none", "decisions", "failed"},
                             prev : Runs \cup {None}]]
  /\ beats \subseteq Runs

Idle == [pc |-> "idle", hash |-> None, run |-> None]
At(pc, j) == [pc |-> pc, job |-> j, batch |-> 0, outcome |-> "none", prev |-> None]
Polling == At("poll", None)

Init ==
  /\ LedgerInit /\ QueueInit
  /\ lock = [status |-> "none", aged |-> FALSE]
  /\ request = [h \in Requests |-> Idle]
  /\ worker = [w \in Workers |-> Polling]
  /\ beats = {}

\* Run ids nothing uses yet (uuidv4), drawn in order.
Fresh == {r \in Runs : run[r].status = "none" /\ job[r].status = "none"
                         /\ \A h \in Requests : request[h].run # r}
NextId == {r \in Fresh : \A x \in Fresh : r <= x}

-----------------------------------------------------------------------------
(* POST /api/cache *)

Respond(h) == request' = [request EXCEPT ![h] = Idle]
GoTo(h, pc, k, r) == request' = [request EXCEPT ![h] = [pc |-> pc, hash |-> k, run |-> r]]
Continue(h, pc) == GoTo(h, pc, request[h].hash, request[h].run)
SetLock(status) == lock' = [status |-> status, aged |-> FALSE]

\* releaseIdempotencyHash finds nothing to do (see TerminalHoldsNoHash);
\* getActiveRunByHash first fails every run older than five minutes, whoever
\* works on it.
Sweep(h, k) ==
  /\ request[h].pc = "idle"
  /\ FailRuns(StaleRuns)
  /\ GoTo(h, "lookup", k, None)
  /\ UNCHANGED <<pointer, job, lock, worker, beats>>

\* already_running, or a new run id.
Lookup(h) ==
  /\ request[h].pc = "lookup"
  /\ \/ /\ ActiveRun(request[h].hash) # {} \/ Fresh = {}
        /\ Respond(h)
     \/ /\ ActiveRun(request[h].hash) = {}
        /\ \E r \in NextId : GoTo(h, "create", request[h].hash, r)
  /\ UNCHANGED <<run, pointer, job, lock, worker, beats>>

\* Two requests that both found no run: the unique hash rejects the second.
CreateRun(h) ==
  LET k == request[h].hash IN
  /\ request[h].pc = "create"
  /\ \/ /\ HashIsFree(k)
        /\ CreateRunningRun(request[h].run, k)
        /\ Continue(h, "lock")
     \/ /\ ~HashIsFree(k)
        /\ Respond(h)
        /\ UNCHANGED run
  /\ UNCHANGED <<pointer, job, lock, worker, beats>>

\* isRefreshing: throws with the new run in place, unless the lock is stale.
CheckLock(h) ==
  /\ request[h].pc = "lock"
  /\ \/ /\ lock.status = "refreshing" /\ ~lock.aged
        /\ Respond(h)
        /\ UNCHANGED lock
     \/ /\ lock.status = "refreshing" /\ lock.aged
        /\ SetLock("stale")
        /\ Continue(h, "acquire")
     \/ /\ lock.status # "refreshing"
        /\ Continue(h, "acquire")
        /\ UNCHANGED lock
  /\ UNCHANGED <<run, pointer, job, worker, beats>>

\* setCacheRefreshing, an await after the check.
AcquireLock(h) ==
  /\ request[h].pc = "acquire"
  /\ SetLock("refreshing")
  /\ Continue(h, "prepare")
  /\ UNCHANGED <<run, pointer, job, worker, beats>>

\* Configuration, secrets, health, LLM or the aggregation itself fail.
PrepareFails(h) ==
  /\ request[h].pc = "prepare"
  /\ Continue(h, "fail")
  /\ UNCHANGED <<run, pointer, job, lock, worker, beats>>

\* runFastAggregation has written the snapshot; its last statement queues the job.
Enqueue(h) ==
  /\ request[h].pc = "prepare"
  /\ EnqueueJob(request[h].run)
  /\ Continue(h, "finish")
  /\ UNCHANGED <<run, pointer, lock, worker, beats>>

\* A stage event after the enqueue cannot be written: the catch fails the run.
FinishFails(h) ==
  /\ request[h].pc = "finish" /\ DbErrors
  /\ Continue(h, "fail")
  /\ UNCHANGED <<run, pointer, job, lock, worker, beats>>

Finish(h) ==
  /\ request[h].pc = "finish"
  /\ SetLock("fresh")
  /\ Respond(h)
  /\ UNCHANGED <<run, pointer, job, worker, beats>>

FailRequest(h) ==
  /\ request[h].pc = "fail"
  /\ MarkRunFailed(request[h].run)
  /\ Continue(h, "error")
  /\ UNCHANGED <<pointer, job, lock, worker, beats>>

ReportError(h) ==
  /\ request[h].pc = "error"
  /\ SetLock("error")
  /\ Respond(h)
  /\ UNCHANGED <<run, pointer, job, worker, beats>>

\* The web process dies, or throws outside the try blocks.
RequestDies(h) ==
  /\ request[h].pc # "idle"
  /\ Respond(h)
  /\ UNCHANGED <<run, pointer, job, lock, worker, beats>>

RequestStep(h) ==
  Lookup(h) \/ CreateRun(h) \/ CheckLock(h) \/ AcquireLock(h) \/ PrepareFails(h)
    \/ Enqueue(h) \/ Finish(h) \/ FailRequest(h) \/ ReportError(h)

\* POST /api/job-stream queues a job whose run id no ledger row has.
StreamEnqueue ==
  /\ \E j \in NextId : EnqueueJob(j)
  /\ UNCHANGED <<run, pointer, lock, request, worker, beats>>

-----------------------------------------------------------------------------
(* The worker: main and processJob *)

Working(w) == worker[w].pc \notin {"poll", "down"}

\* The worker w goes on with its job.
Step(w, pc, batch, outcome) ==
  worker' = [worker EXCEPT ![w] =
    [pc |-> pc, job |-> worker[w].job, batch |-> batch, outcome |-> outcome,
     prev |-> worker[w].prev]]
Proceed(w, pc) == Step(w, pc, worker[w].batch, worker[w].outcome)
Leave(w) == worker' = [worker EXCEPT ![w] = Polling]

\* recoverStaleJobs by a polling worker, before it claims.
PollRecover(w) ==
  /\ worker[w].pc = "poll" /\ StaleJobs # {}
  /\ RecoverStaleJobs({})
  /\ UNCHANGED <<pointer, lock, request, worker, beats>>

\* The same by GET /api/cache-status, at any time.
StatusRecover ==
  /\ StaleJobs # {}
  /\ RecoverStaleJobs({})
  /\ UNCHANGED <<pointer, lock, request, worker, beats>>

Claim(w) ==
  /\ worker[w].pc = "poll"
  /\ \E j \in Runs :
       /\ ClaimNextJob(j)
       /\ worker' = [worker EXCEPT ![w] = At("start", j)]
  /\ UNCHANGED <<run, pointer, lock, request, beats>>

\* MISSING_PIPELINE_RUN: the exception reaches the poll loop, the job stays running.
RejectJob(w) ==
  /\ worker[w].pc = "start" /\ run[worker[w].job].status = "none"
  /\ Leave(w)
  /\ UNCHANGED <<run, pointer, job, lock, request, beats>>

\* resolveValidatedRunId found the run, in whatever status: a job without inputs
\* goes on to publish, a job with inputs to its batches, or the runtime is missing.
StartJob(w) ==
  /\ worker[w].pc = "start" /\ run[worker[w].job].status # "none"
  /\ \/ Step(w, "publish", 0, "none")
     \/ Step(w, "batch", 1, "none")
     \/ Step(w, "fail", 0, "failed")
  /\ UNCHANGED <<run, pointer, job, lock, request, beats>>

StartBatch(w) ==
  /\ worker[w].pc = "batch"
  /\ UpdateJobProgress(worker[w].job)
  /\ Proceed(w, "infer")
  /\ UNCHANGED <<run, pointer, lock, request, beats>>

\* The interval timer: a progress write nobody waits for.  (Its checkpoint write
\* changes no status.)
Beat(w) ==
  /\ worker[w].pc = "infer"
  /\ beats' = beats \cup {worker[w].job}
  /\ UNCHANGED <<run, pointer, job, lock, request, worker>>

BeatLands(j) ==
  /\ j \in beats
  /\ UpdateJobProgress(j)
  /\ beats' = beats \ {j}
  /\ UNCHANGED <<run, pointer, lock, request, worker>>

BeatLost(j) ==
  /\ j \in beats
  /\ beats' = beats \ {j}
  /\ UNCHANGED <<run, pointer, job, lock, request, worker>>

\* After the loop: one failed batch, or no decision at all, fails the job.
Decide(outcome) == IF outcome = "decisions" THEN "publish" ELSE "fail"

\* Mutant: the loop runs once too often.
Mut_OneMore(w, outcome) ==
  IF worker[w].batch > Batches THEN Step(w, Decide(outcome), Batches, outcome)
                               ELSE Step(w, "batch", worker[w].batch + 1, outcome)

AfterBatch(w, outcome) ==
  IF worker[w].batch = Batches THEN Step(w, Decide(outcome), Batches, outcome)
                               ELSE Step(w, "batch", worker[w].batch + 1, outcome)

\* The agent answered (decisions or none of them): written, checkpointed.
FinishBatch(w) ==
  /\ worker[w].pc = "infer"
  /\ UpdateJobProgress(worker[w].job)
  /\ \E found \in BOOLEAN :
       AfterBatch(w, IF found /\ worker[w].outcome = "none" THEN "decisions"
                                                            ELSE worker[w].outcome)
  /\ UNCHANGED <<run, pointer, lock, request, beats>>

\* A timeout or a missing LLM ends the loop, any other error goes to the next batch.
FailBatch(w) ==
  /\ worker[w].pc = "infer"
  /\ \/ Step(w, "fail", worker[w].batch, "failed")
     \/ AfterBatch(w, "failed")
  /\ UNCHANGED <<run, pointer, job, lock, request, beats>>

FailRun(w) ==
  /\ worker[w].pc = "fail"
  /\ MarkRunFailed(worker[w].job)
  /\ Proceed(w, "failjob")
  /\ UNCHANGED <<pointer, job, lock, request, beats>>

FailJob(w) ==
  /\ worker[w].pc = "failjob"
  /\ SetJobFailed(worker[w].job)
  /\ Leave(w)
  /\ UNCHANGED <<run, pointer, lock, request, beats>>

\* The pointer row is locked from the locking read to the end of the transaction,
\* if there is one.
PointerLocked ==
  \E w \in Workers : worker[w].pc = "commit" /\ worker[w].prev # None

LockPointer(w) ==
  /\ worker[w].pc = "publish" /\ ~PointerLocked
  /\ worker' = [worker EXCEPT ![w] = [@ EXCEPT !.pc = "commit", !.prev = pointer]]
  /\ UNCHANGED <<run, pointer, job, lock, request, beats>>

\* publishRunAtomic commits; the upsert waits for another writer of the row.
Publish(w) ==
  /\ worker[w].pc = "commit" /\ (worker[w].prev = None => ~PointerLocked)
  /\ PublishRun(worker[w].job, worker[w].prev)
  /\ Proceed(w, "event")
  /\ UNCHANGED <<job, lock, request, beats>>

\* The transaction, or the event after it, fails.  A job with batches has a catch
\* around both that fails the run; a job without inputs has none.
PublishFails(w) ==
  /\ worker[w].pc \in {"commit", "event"} /\ DbErrors
  /\ IF worker[w].batch = 0 THEN Leave(w) ELSE Proceed(w, "undo")
  /\ UNCHANGED <<run, pointer, job, lock, request, beats>>

UndoPublish(w) ==
  /\ worker[w].pc = "undo"
  /\ MarkRunFailed(worker[w].job)
  /\ Leave(w)
  /\ UNCHANGED <<pointer, job, lock, request, beats>>

RecordPublish(w) ==
  /\ worker[w].pc = "event"
  /\ Proceed(w, "complete")
  /\ UNCHANGED <<run, pointer, job, lock, request, beats>>

CompleteJob(w) ==
  /\ worker[w].pc = "complete"
  /\ SetJobComplete(worker[w].job)
  /\ Leave(w)
  /\ UNCHANGED <<run, pointer, lock, request, beats>>

\* An await outside processJob's try blocks throws: back to the poll loop.
WorkerThrows(w) ==
  /\ Working(w) /\ worker[w].pc \notin {"commit", "event"} /\ DbErrors
  /\ Leave(w)
  /\ UNCHANGED <<run, pointer, job, lock, request, beats>>

WorkerCrash(w) ==
  /\ worker[w].pc # "down"
  /\ worker' = [worker EXCEPT ![w] = At("down", None)]
  /\ UNCHANGED <<run, pointer, job, lock, request, beats>>

\* main: recoverStaleJobs, then the runs older than 30 minutes (some of the old
\* ones) are failed.
WorkerRestart(w) ==
  /\ worker[w].pc = "down"
  /\ \E cutoff \in SUBSET StaleRuns : RecoverStaleJobs(cutoff)
  /\ Leave(w)
  /\ UNCHANGED <<pointer, lock, request, beats>>

WorkerStep(w) ==
  PollRecover(w) \/ Claim(w) \/ RejectJob(w) \/ StartJob(w) \/ StartBatch(w)
    \/ FinishBatch(w) \/ FailBatch(w) \/ FailRun(w) \/ FailJob(w) \/ LockPointer(w)
    \/ Publish(w) \/ UndoPublish(w) \/ RecordPublish(w) \/ CompleteJob(w)
    \/ WorkerRestart(w)

-----------------------------------------------------------------------------
(* Time *)

AgeRun(r) ==
  /\ run[r].status = "RUNNING" /\ ~run[r].old
  /\ run' = [run EXCEPT ![r] = [@ EXCEPT !.old = TRUE]]
  /\ UNCHANGED <<pointer, job, lock, request, worker, beats>>

AgeLock ==
  /\ lock.status = "refreshing" /\ ~lock.aged
  /\ lock' = [lock EXCEPT !.aged = TRUE]
  /\ UNCHANGED <<run, pointer, job, request, worker, beats>>

\* 25 minutes without a write to the job; a live worker writes every 15 seconds.
ExpireLease(j) ==
  /\ job[j].status \in Claimed /\ job[j].lease = "valid"
  /\ MayStall \/ \A w \in Workers : worker[w].job # j
  /\ SetJob(j, job[j].status, "expired")
  /\ UNCHANGED <<run, pointer, lock, request, worker, beats>>

-----------------------------------------------------------------------------
Next ==
  \/ \E h \in Requests, k \in Hashes : Sweep(h, k)
  \/ \E h \in Requests : RequestStep(h) \/ FinishFails(h) \/ RequestDies(h)
  \/ \E w \in Workers : WorkerStep(w) \/ Beat(w) \/ PublishFails(w) \/ WorkerThrows(w)
                          \/ WorkerCrash(w)
  \/ \E r \in Runs : AgeRun(r) \/ ExpireLease(r) \/ BeatLands(r) \/ BeatLost(r)
  \/ StreamEnqueue \/ StatusRecover \/ AgeLock

Spec == Init /\ [][Next]_vars

\* Processes go on, a dead worker is restarted (restart: unless-stopped), time
\* passes, and somebody asks for a refresh again and again.
Fairness ==
  /\ \A h \in Requests : WF_vars(RequestStep(h))
  /\ WF_vars(\E h \in Requests, k \in Hashes : Sweep(h, k))
  /\ \A w \in Workers : WF_vars(WorkerStep(w))
  /\ \A r \in Runs : WF_vars(AgeRun(r)) /\ WF_vars(ExpireLease(r))

FairSpec == Spec /\ Fairness

-----------------------------------------------------------------------------
(* Properties *)

\* Two runs never hold the same idempotency hash and a run that ended holds none,
\* so the runs RUNNING at one time have different hashes (the unique column, and
\* pipeline-ledger-service.ts: "terminal runs should never retain idempotency
\* hashes").
HashIsExclusive ==
  \A r \in Runs : run[r].hash # None =>
    /\ run[r].status = "RUNNING"
    /\ \A x \in Runs : run[x].hash = run[r].hash => x = r

\* No run outlives its job: once the job is complete or failed, by the worker or
\* by a recovery, its run is not RUNNING any more, whatever dies in between.
NoZombieRun ==
  \A r \in Runs : job[r].status \in Terminal => run[r].status # "RUNNING"

\* With one worker, the published runs form a chain that ends at the pointer: the
\* active run is not superseded, every other published one is
\* (publishRunAtomic reads, marks and moves the pointer in one transaction).
OnePublishedRun ==
  \A r \in Runs : run[r].published =>
    (r = pointer <=> run[r].supersededBy = None)

\* A published run is taken back only by the handler that queued it or by the
\* worker that published it, after an error of its own: no recovery and no other
\* process ever reaches a run after its publication.
PublishedStays ==
  [][\A r \in Runs : run[r].published /\ ~run'[r].published =>
       \/ \E h \in Requests : request[h].pc = "fail" /\ request[h].run = r
       \/ \E w \in Workers : worker[w].pc = "undo" /\ worker[w].job = r]_vars

\* A claimed job ends, and its end lasts, whatever crashes, throws, or arrives
\* late: recoverStaleJobs takes what the workers leave behind.
JobsSettle == \A j \in Runs : <>[](job[j].status \notin Claimed)

\* While refreshes are asked for, no run holds its hash for ever: not the one
\* whose request died, nor the one that ran into the refresh lock.
HashIsReleased == \A r \in Runs : run[r].hash # None ~> run[r].hash = None

-----------------------------------------------------------------------------
(* What comments and tests say, and the code does not do *)

\* worker.ts:209: the batch loop resumes from the checkpoint after a worker restart.
InterruptedJobResumes ==
  \A j \in Runs :
    job[j].status = "partial" /\ (\A w \in Workers : worker[w].job # j)
      ~> \E w \in Workers : worker[w].job = j

\* pipeline-governance-failure-ledger.test.ts:24: a run that fails leaves the
\* published snapshot as it was, so the active run is never a failed one.
FailedRunIsNotActive == pointer # None => run[pointer].status # "FAILED"

=============================================================================
