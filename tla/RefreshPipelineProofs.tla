----------------------- MODULE RefreshPipelineProofs -----------------------
(***************************************************************************)
(* Proofs about RefreshPipeline, for every number of requests, workers,    *)
(* runs and batches: types, exclusive idempotency hashes, that no run      *)
(* outlives its job, who may take a published run back, that the published *)
(* runs form a chain (with one worker, or once the pointer row exists),    *)
(* what a job goes through, and that only an error of the database after   *)
(* the publication leaves the pointer at a failed run.  Two inductive      *)
(* invariants: IInv says who may still write to which run and job,         *)
(* PublishInv what the ledger shows of a run before its publication.       *)
(***************************************************************************)
EXTENDS RefreshPipeline, FiniteSetTheorems, TLAPS

Ended == {"FAILED", "SUCCEEDED"}

\* A handler holds a run id of its own: nothing has it before the run is created,
\* and the run exists from then on.
RequestsOwnRuns ==
  /\ \A h \in Requests : request[h].run = None <=> request[h].pc \in {"idle", "lookup"}
  /\ \A h, g \in Requests :
       request[h].run = request[g].run /\ request[h].run # None => h = g
  /\ \A h \in Requests : request[h].pc = "create" =>
       /\ run[request[h].run].status = "none"
       /\ job[request[h].run].status = "none"
  /\ \A h \in Requests : request[h].pc \notin {"idle", "lookup", "create"} =>
       run[request[h].run].status # "none"

\* A worker's job exists, its run too once the worker has looked, and the run has
\* ended before the worker closes the job.
WorkersOwnJobs ==
  \A w \in Workers :
    /\ Working(w) => worker[w].job \in Runs /\ job[worker[w].job].status # "none"
    /\ Working(w) /\ worker[w].pc # "start" => run[worker[w].job].status # "none"
    /\ worker[w].pc \in {"failjob", "event", "complete"} =>
         run[worker[w].job].status \in Ended

BeatsHaveJobs == \A j \in beats : job[j].status # "none"

IInv ==
  /\ TypeOK
  /\ HashIsExclusive
  /\ NoZombieRun
  /\ RequestsOwnRuns
  /\ WorkersOwnJobs
  /\ BeatsHaveJobs

-----------------------------------------------------------------------------
(* What a step may do to the runs and to the jobs *)

RunRows == [status : RunStatus, hash : Hashes \cup {None}, published : BOOLEAN,
            old : BOOLEAN, supersededBy : Runs \cup {None}]
JobRows == [status : JobStatus, lease : {"none", "valid", "expired"}, rank : Nat]

\* What every statement but the insert does: the status and the hash of a run
\* stay, or the run exists and has ended afterwards, without a hash.
RunsAge ==
  /\ run' \in [Runs -> RunRows]
  /\ \A r \in Runs :
       \/ run'[r].status = run[r].status /\ run'[r].hash = run[r].hash
       \/ run[r].status # "none" /\ run'[r].status \in Ended /\ run'[r].hash = None

LEMMA FailRunsAge ==
  ASSUME TypeOK, NEW S, \A r \in S \cap Runs : run[r].status # "none", FailRuns(S)
  PROVE  /\ RunsAge
         /\ \A r \in Runs : r \in S => run'[r].status = "FAILED"
BY DEF TypeOK, LedgerTypeOK, FailRuns, FailedRow, Row, RunsAge, RunRows, RunStatus, Ended

LEMMA PublishAges ==
  ASSUME TypeOK, NEW r \in Runs, NEW prev \in Runs \cup {None},
         run[r].status # "none", PublishRun(r, prev)
  PROVE  RunsAge /\ run'[r].status = "SUCCEEDED" /\ pointer' \in Runs \cup {None}
<1>1. run' \in [Runs -> RunRows]
  BY DEF TypeOK, LedgerTypeOK, PublishRun, Row, RunRows, RunStatus
<1>2. \A x \in Runs : IF x = r THEN run'[x].status = "SUCCEEDED" /\ run'[x].hash = None
                               ELSE run'[x].status = run[x].status /\ run'[x].hash = run[x].hash
  BY DEF TypeOK, LedgerTypeOK, PublishRun, Row
<1> QED
  BY <1>1, <1>2 DEF RunsAge, Ended, PublishRun

LEMMA SameRunsAge ==
  ASSUME TypeOK, UNCHANGED run
  PROVE  RunsAge
BY DEF TypeOK, LedgerTypeOK, RunsAge, RunRows

\* A job that exists stays.
JobsStay ==
  /\ job' \in [Runs -> JobRows]
  /\ \A j \in Runs : job[j].status # "none" => job'[j].status # "none"

LEMMA SetJobStays ==
  ASSUME TypeOK, NEW j \in Runs, NEW status \in JobStatus \ {"none"},
         NEW lease \in {"none", "valid", "expired"}, SetJob(j, status, lease)
  PROVE  /\ JobsStay
         /\ \A x \in Runs : job'[x].status = IF x = j THEN status ELSE job[x].status
BY DEF TypeOK, QueueTypeOK, SetJob, JobsStay, JobRows

LEMMA EnqueueStays ==
  ASSUME TypeOK, NEW j \in Runs, EnqueueJob(j)
  PROVE  /\ JobsStay
         /\ \A x \in Runs : job'[x].status = IF x = j THEN "pending" ELSE job[x].status
<1>1. Cardinality({x \in Runs : job[x].status # "none"}) \in Nat
  BY PipelineAssumption, FS_CardinalityType, FS_Subset
<1> QED
  BY <1>1 DEF TypeOK, QueueTypeOK, EnqueueJob, JobsStay, JobRows, JobStatus

LEMMA SameJobsStay ==
  ASSUME TypeOK, UNCHANGED job
  PROVE  JobsStay
BY DEF TypeOK, QueueTypeOK, JobsStay, JobRows

NoneStays == \A j \in Runs : job[j].status = "none" => job'[j].status = "none"

\* Failing the abandoned jobs together with their runs.
LEMMA RecoverStays ==
  ASSUME TypeOK, NoZombieRun, NEW S \in SUBSET StaleRuns, RecoverStaleJobs(S)
  PROVE  RunsAge /\ JobsStay /\ NoneStays /\ NoZombieRun'
<1>1. RunsAge /\ \A r \in Runs : r \in AffectedRuns \cup S => run'[r].status = "FAILED"
  BY FailRunsAge DEF RecoverStaleJobs, AffectedRuns, StaleRuns
<1>2. JobsStay /\ \A j \in Runs : job'[j].status = IF j \in StaleJobs THEN "failed"
                                                                      ELSE job[j].status
  BY DEF TypeOK, QueueTypeOK, RecoverStaleJobs, JobsStay, JobRows, JobStatus
<1>3. NoZombieRun'
  BY <1>1, <1>2 DEF NoZombieRun, RunsAge, AffectedRuns, Terminal, Ended
<1>4. NoneStays
  BY <1>2 DEF NoneStays, StaleJobs, Claimed
<1> QED
  BY <1>1, <1>2, <1>3, <1>4

-----------------------------------------------------------------------------
(* The steps of a worker *)

LockStates == [status : {"none", "refreshing", "fresh", "stale", "error"}, aged : BOOLEAN]
RequestStates == [pc : RequestPc, hash : Hashes \cup {None}, run : Runs \cup {None}]
WorkerStates == [pc : WorkerPc, job : Runs \cup {None}, batch : 0..Batches,
                 outcome : {"none", "decisions", "failed"}, prev : Runs \cup {None}]

\* The ledger and the queue after a step that creates no run and no job.
StoreStep == RunsAge /\ JobsStay /\ NoneStays /\ NoZombieRun'

LEMMA SameJobs ==
  ASSUME IInv, RunsAge, UNCHANGED job
  PROVE  StoreStep
BY SameJobsStay DEF StoreStep, NoneStays, IInv, NoZombieRun, RunsAge, Ended

\* A worker writes only to its own job, and never makes it terminal before its run
\* has ended.
LEMMA SameRuns ==
  ASSUME IInv, UNCHANGED run, NEW j \in Runs, job[j].status # "none",
         NEW status \in JobStatus \ {"none"}, NEW lease \in {"none", "valid", "expired"},
         SetJob(j, status, lease), status \in Terminal => run[j].status \in Ended
  PROVE  StoreStep
<1>1. RunsAge /\ JobsStay
      /\ \A x \in Runs : job'[x].status = IF x = j THEN status ELSE job[x].status
  BY SameRunsAge, SetJobStays DEF IInv
<1> QED
  BY <1>1 DEF StoreStep, NoneStays, IInv, NoZombieRun, Ended

\* What a step of the worker w moves besides.
Moves(w, pc) ==
  /\ worker' \in [Workers -> WorkerStates]
  /\ \A x \in Workers : x # w => worker'[x] = worker[x]
  /\ worker'[w].pc = pc
  /\ pc \in {"poll", "down"} \/ worker'[w].job = worker[w].job

LEMMA StepMoves ==
  ASSUME TypeOK, NEW w \in Workers, NEW pc \in WorkerPc, NEW batch \in 0..Batches,
         NEW outcome \in {"none", "decisions", "failed"}, Step(w, pc, batch, outcome)
  PROVE  Moves(w, pc)
BY DEF TypeOK, Step, Moves, WorkerStates

LEMMA ProceedMoves ==
  ASSUME TypeOK, NEW w \in Workers, NEW pc \in WorkerPc, Proceed(w, pc)
  PROVE  Moves(w, pc)
BY DEF TypeOK, Proceed, Step, Moves, WorkerStates

LEMMA LeaveMoves ==
  ASSUME TypeOK, NEW w \in Workers, Leave(w)
  PROVE  Moves(w, "poll")
BY PipelineAssumption DEF TypeOK, Leave, Polling, At, Moves, WorkerStates, WorkerPc

\* The worker goes on to pc, with its job.
LEMMA WorkersKeep ==
  ASSUME IInv, StoreStep, NEW w \in Workers, NEW pc \in WorkerPc, Moves(w, pc),
         pc \in {"poll", "down"} \/ Working(w),
         pc \in {"poll", "down", "start"} \/ run'[worker[w].job].status # "none",
         pc \in {"failjob", "event", "complete"} => run'[worker[w].job].status \in Ended
  PROVE  WorkersOwnJobs'
<1> DEFINE Owns(x) ==
      /\ Working(x) => worker[x].job \in Runs /\ job[worker[x].job].status # "none"
      /\ Working(x) /\ worker[x].pc # "start" => run[worker[x].job].status # "none"
      /\ worker[x].pc \in {"failjob", "event", "complete"} =>
           run[worker[x].job].status \in Ended
<1>1. ASSUME NEW x \in Workers, x # w  PROVE Owns(x)'
  BY <1>1 DEF IInv, WorkersOwnJobs, StoreStep, RunsAge, JobsStay, Moves, Working, Ended
<1>2. Owns(w)'
  BY DEF IInv, WorkersOwnJobs, StoreStep, JobsStay, Moves, Working
<1> QED
  BY <1>1, <1>2 DEF WorkersOwnJobs

\* The worker's own actions, and what every one of them leaves alone.
WorkerFrame ==
  /\ StoreStep /\ WorkersOwnJobs'
  /\ worker' \in [Workers -> WorkerStates]
  /\ UNCHANGED <<lock, request>>
  /\ pointer' \in Runs \cup {None}
  /\ beats' \subseteq Runs /\ BeatsHaveJobs'

LEMMA KeepsFrame ==
  ASSUME IInv, StoreStep, WorkersOwnJobs', worker' \in [Workers -> WorkerStates],
         UNCHANGED <<lock, request, beats>>, pointer' \in Runs \cup {None}
  PROVE  WorkerFrame
BY DEF IInv, TypeOK, WorkerFrame, BeatsHaveJobs, StoreStep, JobsStay

LEMMA QuietWorker ==
  ASSUME IInv, NEW w \in Workers,
         RejectJob(w) \/ StartJob(w) \/ FailBatch(w) \/ LockPointer(w)
           \/ RecordPublish(w) \/ PublishFails(w) \/ WorkerThrows(w) \/ WorkerCrash(w)
  PROVE  WorkerFrame
<1>0. TypeOK /\ UNCHANGED <<run, job, lock, request, beats, pointer>>
  BY DEF IInv, RejectJob, StartJob, FailBatch, LockPointer, RecordPublish, PublishFails,
         WorkerThrows, WorkerCrash
<1>1. StoreStep
  BY <1>0, SameJobs, SameRunsAge
<1>2. pointer' \in Runs \cup {None}
  BY <1>0 DEF TypeOK, LedgerTypeOK
<1>3. WorkersOwnJobs' /\ worker' \in [Workers -> WorkerStates]
  <2>1. CASE RejectJob(w) \/ WorkerThrows(w)
    <3>1. Moves(w, "poll")
      BY <1>0, <2>1, LeaveMoves DEF RejectJob, WorkerThrows
    <3> QED
      BY <1>1, <3>1, WorkersKeep DEF Moves, WorkerPc
  <2>2. CASE StartJob(w)
    <3>1. PICK pc \in {"publish", "batch", "fail"} : Moves(w, pc)
      BY <1>0, <2>2, StepMoves, PipelineAssumption DEF StartJob, WorkerPc
    <3> QED
      BY <1>0, <1>1, <2>2, <3>1, WorkersKeep DEF Moves, WorkerPc, StartJob, Working
  <2>3. CASE FailBatch(w)
    <3>1. PICK pc \in {"publish", "batch", "fail"} : Moves(w, pc)
      <4>1. worker[w].batch \in 0..Batches
        BY <1>0 DEF TypeOK
      <4> QED
        BY <1>0, <2>3, <4>1, StepMoves, PipelineAssumption
        DEF FailBatch, AfterBatch, Decide, WorkerPc
    <3> QED
      BY <1>0, <1>1, <2>3, <3>1, WorkersKeep
      DEF Moves, WorkerPc, FailBatch, Working, IInv, WorkersOwnJobs
  <2>4. CASE LockPointer(w)
    <3>1. Moves(w, "commit")
      BY <1>0, <2>4 DEF LockPointer, TypeOK, LedgerTypeOK, Moves, WorkerStates, WorkerPc
    <3> QED
      BY <1>0, <1>1, <2>4, <3>1, WorkersKeep
      DEF Moves, WorkerPc, LockPointer, Working, IInv, WorkersOwnJobs
  <2>5. CASE RecordPublish(w)
    <3>1. Moves(w, "complete")
      BY <1>0, <2>5, ProceedMoves DEF RecordPublish, WorkerPc
    <3> QED
      BY <1>0, <1>1, <2>5, <3>1, WorkersKeep
      DEF Moves, WorkerPc, RecordPublish, Working, IInv, WorkersOwnJobs
  <2>6. CASE PublishFails(w)
    <3>1. PICK pc \in {"poll", "undo"} : Moves(w, pc)
      BY <1>0, <2>6, ProceedMoves, LeaveMoves DEF PublishFails, WorkerPc
    <3> QED
      BY <1>0, <1>1, <2>6, <3>1, WorkersKeep
      DEF Moves, WorkerPc, PublishFails, Working, IInv, WorkersOwnJobs
  <2>7. CASE WorkerCrash(w)
    <3>1. Moves(w, "down")
      BY <1>0, <2>7, PipelineAssumption
      DEF WorkerCrash, At, TypeOK, Moves, WorkerStates, WorkerPc
    <3> QED
      BY <1>1, <3>1, WorkersKeep DEF Moves, WorkerPc
  <2> QED
    BY <2>1, <2>2, <2>3, <2>4, <2>5, <2>6, <2>7
<1> QED
  BY <1>0, <1>1, <1>2, <1>3, KeepsFrame

\* Steps that write to the job only.
LEMMA JobWriter ==
  ASSUME IInv, NEW w \in Workers,
         StartBatch(w) \/ FinishBatch(w) \/ FailJob(w) \/ CompleteJob(w)
  PROVE  WorkerFrame
<1>0. TypeOK /\ UNCHANGED <<run, lock, request, beats, pointer>>
  BY DEF IInv, StartBatch, FinishBatch, FailJob, CompleteJob
<1>1. Working(w) /\ worker[w].pc \in {"batch", "infer", "failjob", "complete"}
  BY DEF StartBatch, FinishBatch, FailJob, CompleteJob, Working
<1>2. /\ worker[w].job \in Runs /\ job[worker[w].job].status # "none"
      /\ run[worker[w].job].status # "none"
  BY <1>1 DEF IInv, WorkersOwnJobs
<1>3. pointer' \in Runs \cup {None}
  BY <1>0 DEF TypeOK, LedgerTypeOK
<1>4. CASE StartBatch(w)
  <2>1. StoreStep
    BY <1>0, <1>2, <1>4, SameRuns DEF StartBatch, UpdateJobProgress, JobStatus, Terminal
  <2>2. Moves(w, "infer")
    BY <1>0, <1>4, ProceedMoves DEF StartBatch, WorkerPc
  <2>3. WorkersOwnJobs' /\ worker' \in [Workers -> WorkerStates]
    BY <1>0, <1>1, <1>2, <2>1, <2>2, WorkersKeep DEF Moves, WorkerPc
  <2> QED
    BY <1>0, <1>3, <2>1, <2>3, KeepsFrame
<1>5. CASE FinishBatch(w)
  <2>1. StoreStep
    BY <1>0, <1>2, <1>5, SameRuns DEF FinishBatch, UpdateJobProgress, JobStatus, Terminal
  <2>2. PICK pc \in {"publish", "batch", "fail"} : Moves(w, pc)
    <3>1. worker[w].batch \in 0..Batches /\ worker[w].outcome \in {"none", "decisions", "failed"}
      BY <1>0 DEF TypeOK
    <3> QED
      BY <1>0, <1>5, <3>1, StepMoves, PipelineAssumption
      DEF FinishBatch, AfterBatch, Decide, WorkerPc
  <2>3. WorkersOwnJobs' /\ worker' \in [Workers -> WorkerStates]
    BY <1>0, <1>1, <1>2, <2>1, <2>2, WorkersKeep DEF Moves, WorkerPc
  <2> QED
    BY <1>0, <1>3, <2>1, <2>3, KeepsFrame
<1>6. CASE FailJob(w) \/ CompleteJob(w)
  <2>1. run[worker[w].job].status \in Ended
    BY <1>6 DEF FailJob, CompleteJob, IInv, WorkersOwnJobs
  <2>2. StoreStep
    BY <1>0, <1>2, <1>6, <2>1, SameRuns
    DEF FailJob, CompleteJob, SetJobFailed, SetJobComplete, JobStatus
  <2>3. Moves(w, "poll")
    BY <1>0, <1>6, LeaveMoves DEF FailJob, CompleteJob
  <2>4. WorkersOwnJobs' /\ worker' \in [Workers -> WorkerStates]
    BY <2>2, <2>3, WorkersKeep DEF Moves, WorkerPc
  <2> QED
    BY <1>0, <1>3, <2>2, <2>4, KeepsFrame
<1> QED
  BY <1>4, <1>5, <1>6

\* Steps that write to the run only.
LEMMA RunWriter ==
  ASSUME IInv, NEW w \in Workers, FailRun(w) \/ UndoPublish(w) \/ Publish(w)
  PROVE  WorkerFrame
<1>0. TypeOK /\ UNCHANGED <<job, lock, request, beats>>
  BY DEF IInv, FailRun, UndoPublish, Publish
<1>1. Working(w) /\ worker[w].pc \in {"fail", "undo", "commit"}
  BY DEF FailRun, UndoPublish, Publish, Working
<1>2. worker[w].job \in Runs /\ run[worker[w].job].status # "none"
  BY <1>1 DEF IInv, WorkersOwnJobs
<1>3. CASE FailRun(w) \/ UndoPublish(w)
  <2>1. RunsAge /\ run'[worker[w].job].status = "FAILED"
    BY <1>0, <1>2, <1>3, FailRunsAge DEF FailRun, UndoPublish, MarkRunFailed
  <2>2. StoreStep
    BY <1>0, <2>1, SameJobs
  <2>3. PICK pc \in {"failjob", "poll"} : Moves(w, pc)
    BY <1>0, <1>3, ProceedMoves, LeaveMoves DEF FailRun, UndoPublish, WorkerPc
  <2>4. WorkersOwnJobs' /\ worker' \in [Workers -> WorkerStates]
    BY <1>1, <2>1, <2>2, <2>3, WorkersKeep DEF Moves, WorkerPc, Ended
  <2>5. pointer' \in Runs \cup {None}
    BY <1>0, <1>3 DEF FailRun, UndoPublish, TypeOK, LedgerTypeOK
  <2> QED
    BY <1>0, <2>2, <2>4, <2>5, KeepsFrame
<1>4. CASE Publish(w)
  <2>1. worker[w].prev \in Runs \cup {None}
    BY <1>0 DEF TypeOK
  <2>2. RunsAge /\ run'[worker[w].job].status = "SUCCEEDED" /\ pointer' \in Runs \cup {None}
    BY <1>0, <1>2, <1>4, <2>1, PublishAges DEF Publish
  <2>3. StoreStep
    BY <1>0, <2>2, SameJobs
  <2>4. Moves(w, "event")
    BY <1>0, <1>4, ProceedMoves DEF Publish, WorkerPc
  <2>5. WorkersOwnJobs' /\ worker' \in [Workers -> WorkerStates]
    BY <1>1, <2>2, <2>3, <2>4, WorkersKeep DEF Moves, WorkerPc, Ended
  <2> QED
    BY <1>0, <2>2, <2>3, <2>5, KeepsFrame
<1> QED
  BY <1>3, <1>4

\* Recoveries before the poll and at a restart, the claim, the heartbeat.
LEMMA PollWriter ==
  ASSUME IInv, NEW w \in Workers,
         PollRecover(w) \/ WorkerRestart(w) \/ Claim(w) \/ Beat(w)
  PROVE  WorkerFrame
<1>0. TypeOK /\ NoZombieRun /\ UNCHANGED <<lock, request, pointer>>
      /\ pointer' \in Runs \cup {None}
  BY DEF IInv, PollRecover, WorkerRestart, Claim, Beat, TypeOK, LedgerTypeOK
<1>1. CASE PollRecover(w)
  <2>1. StoreStep
    BY <1>0, <1>1, RecoverStays DEF PollRecover, StoreStep
  <2>2. WorkersOwnJobs' /\ worker' \in [Workers -> WorkerStates]
    BY <1>0, <1>1, <2>1
    DEF PollRecover, IInv, WorkersOwnJobs, StoreStep, RunsAge, JobsStay, Working, Ended,
        TypeOK, WorkerStates
  <2> QED
    BY <1>0, <1>1, <2>1, <2>2, KeepsFrame DEF PollRecover
<1>2. CASE WorkerRestart(w)
  <2>1. StoreStep
    BY <1>0, <1>2, RecoverStays DEF WorkerRestart, StoreStep
  <2>2. Moves(w, "poll")
    BY <1>0, <1>2, LeaveMoves DEF WorkerRestart
  <2>3. WorkersOwnJobs' /\ worker' \in [Workers -> WorkerStates]
    BY <2>1, <2>2, WorkersKeep DEF Moves, WorkerPc
  <2> QED
    BY <1>0, <1>2, <2>1, <2>3, KeepsFrame DEF WorkerRestart
<1>3. CASE Claim(w)
  <2>1. PICK j \in Runs :
          /\ job[j].status = "pending" /\ SetJob(j, "running", "valid")
          /\ worker' = [worker EXCEPT ![w] = At("start", j)]
    BY <1>3 DEF Claim, ClaimNextJob, NextPending
  <2>2. StoreStep
    BY <1>3, <2>1, SameRuns DEF Claim, JobStatus, Terminal
  <2>3. worker' \in [Workers -> WorkerStates] /\ \A x \in Workers \ {w} : worker'[x] = worker[x]
    BY <1>0, <2>1, PipelineAssumption DEF At, TypeOK, WorkerStates, WorkerPc
  <2>4. worker'[w].pc = "start" /\ worker'[w].job = j
    BY <1>0, <2>1 DEF At, TypeOK
  <2>5. WorkersOwnJobs'
    BY <2>1, <2>2, <2>3, <2>4
    DEF IInv, WorkersOwnJobs, StoreStep, RunsAge, JobsStay, Working, Ended
  <2> QED
    BY <1>0, <1>3, <2>2, <2>3, <2>5, KeepsFrame DEF Claim
<1>4. CASE Beat(w)
  <2>1. StoreStep
    BY <1>0, <1>4, SameJobs, SameRunsAge DEF Beat
  <2>2. worker[w].job \in Runs /\ job[worker[w].job].status # "none"
    BY <1>4 DEF Beat, IInv, WorkersOwnJobs, Working
  <2> QED
    BY <1>0, <1>4, <2>1, <2>2
    DEF Beat, WorkerFrame, IInv, TypeOK, WorkersOwnJobs, WorkerStates, Working, BeatsHaveJobs
<1> QED
  BY <1>1, <1>2, <1>3, <1>4

LEMMA WorkerMoves ==
  ASSUME IInv, NEW w \in Workers,
         WorkerStep(w) \/ Beat(w) \/ PublishFails(w) \/ WorkerThrows(w) \/ WorkerCrash(w)
  PROVE  WorkerFrame
BY QuietWorker, JobWriter, RunWriter, PollWriter DEF WorkerStep

\* Requests hold their runs as before when no run and no job appears.
LEMMA RequestsKeep ==
  ASSUME IInv, StoreStep, UNCHANGED request
  PROVE  RequestsOwnRuns'
<1>1. \A h \in Requests : request[h].run \in Runs \cup {None}
  BY DEF IInv, TypeOK
<1> QED
  BY <1>1, LedgerAssumption
  DEF IInv, RequestsOwnRuns, StoreStep, RunsAge, NoneStays, Ended

LEMMA HashesKeep ==
  ASSUME IInv, RunsAge
  PROVE  HashIsExclusive'
BY DEF IInv, HashIsExclusive, RunsAge, Ended

LEMMA WorkerStepKeeps ==
  ASSUME IInv, WorkerFrame
  PROVE  IInv'
<1>1. RequestsOwnRuns' /\ HashIsExclusive'
  BY RequestsKeep, HashesKeep DEF WorkerFrame, StoreStep
<1>2. LedgerTypeOK' /\ QueueTypeOK'
  BY DEF WorkerFrame, StoreStep, RunsAge, JobsStay, RunRows, JobRows, LedgerTypeOK, QueueTypeOK
<1>3. TypeOK'
  BY <1>2 DEF WorkerFrame, IInv, TypeOK, WorkerStates
<1> QED
  BY <1>1, <1>3 DEF IInv, WorkerFrame, StoreStep

-----------------------------------------------------------------------------
(* Time, and the recovery by GET /api/cache-status *)

LEMMA OtherStepKeeps ==
  ASSUME IInv,
         \/ \E r \in Runs : AgeRun(r) \/ ExpireLease(r) \/ BeatLands(r) \/ BeatLost(r)
         \/ StatusRecover \/ AgeLock
  PROVE  IInv'
<1>0. TypeOK /\ UNCHANGED <<request, worker, pointer>> /\ beats' \subseteq beats
  BY DEF IInv, AgeRun, ExpireLease, BeatLands, BeatLost, StatusRecover, AgeLock
<1>1. StoreStep
  <2>1. CASE StatusRecover
    BY <1>0, <2>1, RecoverStays DEF IInv, StatusRecover, StoreStep
  <2>2. ASSUME NEW r \in Runs, AgeRun(r)
        PROVE  StoreStep
    <3> DEFINE row == [run[r] EXCEPT !.old = TRUE]
    <3>1. run \in [Runs -> RunRows] /\ run' = [run EXCEPT ![r] = row]
      BY <1>0, <2>2 DEF AgeRun, TypeOK, LedgerTypeOK, RunRows
    <3>2. row \in RunRows /\ row.status = run[r].status /\ row.hash = run[r].hash
      BY <3>1 DEF RunRows
    <3> HIDE DEF row
    <3>3. RunsAge
      BY <3>1, <3>2 DEF RunsAge
    <3> QED
      BY <2>2, <3>3, SameJobs DEF AgeRun
  <2>3. ASSUME NEW r \in Runs, ExpireLease(r)
        PROVE  StoreStep
    BY <1>0, <2>3, SameRuns
    DEF ExpireLease, Claimed, Terminal, JobStatus, TypeOK, QueueTypeOK
  <2>4. ASSUME NEW r \in Runs, BeatLands(r)
        PROVE  StoreStep
    BY <2>4, SameRuns DEF BeatLands, UpdateJobProgress, JobStatus, Terminal, IInv, BeatsHaveJobs
  <2>5. CASE (\E r \in Runs : BeatLost(r)) \/ AgeLock
    BY <1>0, <2>5, SameJobs, SameRunsAge DEF BeatLost, AgeLock
  <2> QED
    BY <2>1, <2>2, <2>3, <2>4, <2>5
<1>2. RequestsOwnRuns' /\ HashIsExclusive'
  BY <1>0, <1>1, RequestsKeep, HashesKeep DEF StoreStep
<1>3. WorkersOwnJobs'
  BY <1>0, <1>1 DEF IInv, WorkersOwnJobs, StoreStep, RunsAge, JobsStay, Working, Ended
<1>4. BeatsHaveJobs'
  BY <1>0, <1>1 DEF IInv, TypeOK, BeatsHaveJobs, StoreStep, JobsStay
<1>5. lock' \in LockStates
  BY DEF IInv, TypeOK, LockStates, AgeRun, ExpireLease, BeatLands, BeatLost, StatusRecover, AgeLock
<1>6. TypeOK'
  BY <1>0, <1>1, <1>5
  DEF TypeOK, LedgerTypeOK, QueueTypeOK, StoreStep, RunsAge, JobsStay, RunRows, JobRows, LockStates
<1> QED
  BY <1>1, <1>2, <1>3, <1>4, <1>6 DEF IInv, StoreStep

-----------------------------------------------------------------------------
(* The steps of a request *)

\* The handler h goes to pc with the run id r.
RequestMoves(h, pc, r) ==
  /\ request' \in [Requests -> RequestStates]
  /\ \A g \in Requests : g # h => request'[g] = request[g]
  /\ request'[h].pc = pc /\ request'[h].run = r

LEMMA GoToMoves ==
  ASSUME TypeOK, NEW h \in Requests, NEW pc \in RequestPc, NEW k \in Hashes \cup {None},
         NEW r \in Runs \cup {None}, GoTo(h, pc, k, r)
  PROVE  RequestMoves(h, pc, r)
BY DEF TypeOK, GoTo, RequestMoves, RequestStates

LEMMA ContinueMoves ==
  ASSUME TypeOK, NEW h \in Requests, NEW pc \in RequestPc, Continue(h, pc)
  PROVE  RequestMoves(h, pc, request[h].run)
BY DEF TypeOK, Continue, GoTo, RequestMoves, RequestStates

LEMMA RespondMoves ==
  ASSUME TypeOK, NEW h \in Requests, Respond(h)
  PROVE  RequestMoves(h, "idle", None)
BY DEF TypeOK, Respond, Idle, RequestMoves, RequestStates, RequestPc

\* What is left to show of a step that leaves workers and heartbeats alone.
LEMMA RequestFrame ==
  ASSUME IInv, UNCHANGED <<pointer, worker, beats>>, lock' \in LockStates,
         request' \in [Requests -> RequestStates], RequestsOwnRuns',
         run' \in [Runs -> RunRows],
         \A r \in Runs : run[r].status \in Ended => run'[r].status \in Ended,
         \A r \in Runs : run[r].status # "none" => run'[r].status # "none",
         JobsStay, HashIsExclusive', NoZombieRun'
  PROVE  IInv'
<1>1. TypeOK'
  BY DEF IInv, TypeOK, LedgerTypeOK, QueueTypeOK, RunRows, JobsStay, JobRows, LockStates,
         RequestStates
<1>2. WorkersOwnJobs'
  BY DEF IInv, WorkersOwnJobs, JobsStay, Working
<1>3. BeatsHaveJobs'
  BY DEF IInv, TypeOK, BeatsHaveJobs, JobsStay
<1> QED
  BY <1>1, <1>2, <1>3 DEF IInv

LEMMA OwnKeeps ==
  ASSUME IInv, NEW h \in Requests, NEW pc \in RequestPc, NEW r \in Runs \cup {None},
         RequestMoves(h, pc, r),
         r = None <=> pc \in {"idle", "lookup"},
         r # None => \A g \in Requests : g # h => request[g].run # r,
         pc = "create" => run'[r].status = "none" /\ job'[r].status = "none",
         pc \notin {"idle", "lookup", "create"} => run'[r].status # "none",
         \A g \in Requests : g # h /\ request[g].pc = "create" =>
            run'[request[g].run].status = "none" /\ job'[request[g].run].status = "none",
         \A x \in Runs : run[x].status # "none" => run'[x].status # "none"
  PROVE  RequestsOwnRuns'
<1>1. \A g \in Requests : request[g].run \in Runs \cup {None}
  BY DEF IInv, TypeOK
<1> QED
  BY <1>1 DEF IInv, RequestsOwnRuns, RequestMoves

\* The run ids of the requests, as RequestsOwnRuns gives them.
LEMMA OwnRun ==
  ASSUME IInv, NEW h \in Requests, request[h].pc \notin {"idle", "lookup"}
  PROVE  /\ request[h].run \in Runs
         /\ \A g \in Requests : g # h => request[g].run # request[h].run
BY DEF IInv, TypeOK, RequestsOwnRuns

LEMMA QuietRequest ==
  ASSUME IInv, NEW h \in Requests, UNCHANGED <<run, job, pointer, worker, beats>>,
         lock' \in LockStates,
         NEW pc \in RequestPc, NEW r \in Runs \cup {None}, RequestMoves(h, pc, r),
         \/ pc = "idle" /\ r = None
         \/ pc = "create" /\ r \in Fresh
         \/ /\ request[h].pc \notin {"idle", "lookup", "create"}
            /\ pc \notin {"idle", "lookup", "create"}
            /\ r = request[h].run
  PROVE  IInv'
<1>1. RequestsOwnRuns'
  BY LedgerAssumption, OwnKeeps, OwnRun DEF IInv, RequestsOwnRuns, Fresh
<1>2. RunsAge /\ StoreStep
  BY SameRunsAge, SameJobs DEF IInv
<1>3. HashIsExclusive'
  BY <1>2, HashesKeep
<1> QED
  BY <1>1, <1>2, <1>3, RequestFrame
  DEF IInv, TypeOK, LedgerTypeOK, RunRows, StoreStep, RequestMoves

LEMMA QuietRequestStep ==
  ASSUME IInv, NEW h \in Requests,
         Lookup(h) \/ CheckLock(h) \/ AcquireLock(h) \/ PrepareFails(h) \/ FinishFails(h)
           \/ Finish(h) \/ ReportError(h) \/ RequestDies(h)
  PROVE  IInv'
<1>0. TypeOK /\ UNCHANGED <<run, job, pointer, worker, beats>>
  BY DEF IInv, Lookup, CheckLock, AcquireLock, PrepareFails, FinishFails, Finish, ReportError,
         RequestDies
<1>1. lock' \in LockStates
  <2>1. CASE UNCHANGED lock
    BY <1>0, <2>1 DEF TypeOK, LockStates
  <2>2. CASE \E status \in {"stale", "refreshing", "fresh", "error"} : SetLock(status)
    BY <2>2 DEF SetLock, LockStates
  <2>3. UNCHANGED lock \/ \E status \in {"stale", "refreshing", "fresh", "error"} : SetLock(status)
    BY DEF Lookup, CheckLock, AcquireLock, PrepareFails, FinishFails, Finish, ReportError,
           RequestDies
  <2> QED
    BY <2>1, <2>2, <2>3
<1>2. CASE Respond(h)
  BY <1>0, <1>1, <1>2, RespondMoves, QuietRequest DEF RequestPc
<1>3. CASE Lookup(h) /\ ~Respond(h)
  <2>1. PICK r \in NextId : GoTo(h, "create", request[h].hash, r)
    BY <1>3 DEF Lookup
  <2>2. r \in Fresh /\ r \in Runs /\ request[h].hash \in Hashes \cup {None}
    BY <1>0, <2>1 DEF NextId, Fresh, TypeOK
  <2>3. RequestMoves(h, "create", r)
    BY <1>0, <2>1, <2>2, GoToMoves DEF RequestPc
  <2> QED
    BY <1>0, <1>1, <2>2, <2>3, QuietRequest DEF RequestPc
<1>4. CASE ~Lookup(h) /\ ~Respond(h)
  <2>1. PICK pc \in {"acquire", "prepare", "fail"} : Continue(h, pc)
    BY <1>4 DEF CheckLock, AcquireLock, PrepareFails, FinishFails, Finish, ReportError, RequestDies
  <2>2. request[h].pc \in {"lock", "acquire", "prepare", "finish"}
    BY <1>4 DEF CheckLock, AcquireLock, PrepareFails, FinishFails, Finish, ReportError, RequestDies
  <2>3. RequestMoves(h, pc, request[h].run)
    BY <1>0, <2>1, ContinueMoves DEF RequestPc
  <2> QED
    BY <1>0, <1>1, <2>2, <2>3, QuietRequest, OwnRun DEF RequestPc
<1> QED
  BY <1>2, <1>3, <1>4

\* getActiveRunByHash, and the two statements that fail the request's run.
LEMMA AgingRequest ==
  ASSUME IInv, NEW h \in Requests, (\E k \in Hashes : Sweep(h, k)) \/ FailRequest(h)
  PROVE  IInv'
<1>0. TypeOK /\ UNCHANGED <<job, pointer, lock, worker, beats>>
  BY DEF IInv, Sweep, FailRequest
<1>1. RunsAge
  <2>1. CASE \E k \in Hashes : Sweep(h, k)
    BY <1>0, <2>1, FailRunsAge DEF Sweep, StaleRuns
  <2>2. CASE FailRequest(h)
    <3>1. run[request[h].run].status # "none"
      BY <2>2 DEF FailRequest, IInv, RequestsOwnRuns
    <3> QED
      BY <1>0, <2>2, <3>1, FailRunsAge DEF FailRequest, MarkRunFailed
  <2> QED
    BY <2>1, <2>2
<1>2. StoreStep /\ HashIsExclusive'
  BY <1>0, <1>1, SameJobs, HashesKeep
<1>3. \A g \in Requests : request[g].pc = "create" =>
         run'[request[g].run].status = "none" /\ job'[request[g].run].status = "none"
  BY <1>0, <1>1, OwnRun DEF IInv, RequestsOwnRuns, RunsAge
<1>4. \A x \in Runs : run[x].status # "none" => run'[x].status # "none"
  BY <1>1 DEF RunsAge, Ended
<1>5. RequestsOwnRuns' /\ request' \in [Requests -> RequestStates]
  <2>1. CASE \E k \in Hashes : Sweep(h, k)
    <3>1. RequestMoves(h, "lookup", None)
      BY <1>0, <2>1, GoToMoves DEF Sweep, RequestPc
    <3> QED
      BY <1>3, <1>4, <3>1, OwnKeeps DEF RequestPc, RequestMoves
  <2>2. CASE FailRequest(h)
    <3>1. RequestMoves(h, "error", request[h].run)
      BY <1>0, <2>2, ContinueMoves DEF FailRequest, RequestPc
    <3>2. /\ request[h].run \in Runs /\ request[h].run # None
          /\ run'[request[h].run].status # "none"
          /\ \A g \in Requests : g # h => request[g].run # request[h].run
      BY <1>4, <2>2, OwnRun, LedgerAssumption DEF FailRequest, IInv, RequestsOwnRuns
    <3> QED
      BY <1>3, <1>4, <3>1, <3>2, OwnKeeps DEF RequestPc, RequestMoves
  <2> QED
    BY <2>1, <2>2
<1>6. \A r \in Runs : run[r].status \in Ended => run'[r].status \in Ended
  BY <1>1 DEF RunsAge
<1> QED
  BY <1>0, <1>1, <1>2, <1>4, <1>5, <1>6, RequestFrame
  DEF StoreStep, RunsAge, TypeOK, LockStates

\* The one statement that makes a run RUNNING: its hash was free, and its job does
\* not exist yet.
LEMMA CreatingRequest ==
  ASSUME IInv, NEW h \in Requests, CreateRun(h)
  PROVE  IInv'
<1>0. TypeOK /\ UNCHANGED <<job, pointer, lock, worker, beats>> /\ lock' \in LockStates
  BY DEF IInv, CreateRun, TypeOK, LockStates
<1>1. CASE UNCHANGED run /\ Respond(h)
  BY <1>0, <1>1, RespondMoves, QuietRequest DEF RequestPc
<1>2. CASE /\ HashIsFree(request[h].hash) /\ Continue(h, "lock")
           /\ CreateRunningRun(request[h].run, request[h].hash)
  <2> DEFINE r == request[h].run
             k == request[h].hash
  <2>1. /\ r \in Runs /\ k \in Hashes \cup {None}
        /\ run[r].status = "none" /\ job[r].status = "none"
        /\ \A g \in Requests : g # h => request[g].run # r
    BY OwnRun DEF IInv, TypeOK, RequestsOwnRuns, CreateRun
  <2>2. /\ run' \in [Runs -> RunRows]
        /\ run'[r].status = "RUNNING" /\ run'[r].hash = k
        /\ \A x \in Runs : x # r => run'[x] = run[x]
    BY <1>0, <1>2, <2>1
    DEF CreateRunningRun, Row, TypeOK, LedgerTypeOK, RunRows, RunStatus
  <2>3. JobsStay
    BY <1>0, SameJobsStay
  <2>4. HashIsExclusive'
    BY <1>2, <2>1, <2>2 DEF IInv, HashIsExclusive, HashIsFree
  <2>5. NoZombieRun'
    BY <1>0, <2>1, <2>2 DEF IInv, NoZombieRun, Terminal
  <2>6. RequestMoves(h, "lock", r)
    BY <1>0, <1>2, ContinueMoves DEF RequestPc
  <2>7. RequestsOwnRuns'
    <3>1. \A g \in Requests : g # h /\ request[g].pc = "create" =>
            run'[request[g].run].status = "none" /\ job'[request[g].run].status = "none"
      BY <1>0, <2>1, <2>2, OwnRun DEF IInv, RequestsOwnRuns
    <3>2. /\ run'[r].status # "none"
          /\ \A x \in Runs : run[x].status # "none" => run'[x].status # "none"
      BY <2>2
    <3> QED
      BY <2>1, <2>6, <3>1, <3>2, OwnKeeps, LedgerAssumption DEF RequestPc
  <2>8. \A x \in Runs : /\ run[x].status \in Ended => run'[x].status \in Ended
                        /\ run[x].status # "none" => run'[x].status # "none"
    BY <2>1, <2>2 DEF Ended
  <2> QED
    BY <1>0, <2>2, <2>3, <2>4, <2>5, <2>6, <2>7, <2>8, RequestFrame DEF RequestMoves
<1> QED
  BY <1>1, <1>2 DEF CreateRun

\* A job appears for a run id that no handler is about to create.
LEMMA EnqueueKeeps ==
  ASSUME IInv, NEW j \in Runs, EnqueueJob(j),
         UNCHANGED <<run, pointer, lock, worker, beats>>,
         \A g \in Requests : request[g].pc = "create" => request[g].run # j,
         RequestsOwnRuns', request' \in [Requests -> RequestStates]
  PROVE  IInv'
<1>1. JobsStay /\ \A x \in Runs : job'[x].status = IF x = j THEN "pending" ELSE job[x].status
  BY EnqueueStays DEF IInv
<1>2. HashIsExclusive' /\ RunsAge
  BY HashesKeep, SameRunsAge DEF IInv
<1>3. NoZombieRun'
  BY <1>1 DEF IInv, NoZombieRun, Terminal
<1> QED
  BY <1>1, <1>2, <1>3, RequestFrame DEF IInv, TypeOK, LockStates, RunsAge

LEMMA Enqueuing ==
  ASSUME IInv, StreamEnqueue \/ \E h \in Requests : Enqueue(h)
  PROVE  IInv'
<1>1. CASE StreamEnqueue
  <2>1. PICK j \in NextId : EnqueueJob(j)
    BY <1>1 DEF StreamEnqueue
  <2>2. j \in Runs /\ \A g \in Requests : request[g].run # j
    BY <2>1 DEF NextId, Fresh
  <2>3. \A x \in Runs : x # j => job'[x].status = job[x].status
    BY <2>1, <2>2, EnqueueStays DEF IInv
  <2>4. RequestsOwnRuns' /\ request' \in [Requests -> RequestStates]
    BY <1>1, <2>2, <2>3, OwnRun
    DEF StreamEnqueue, IInv, RequestsOwnRuns, TypeOK, RequestStates
  <2> QED
    BY <1>1, <2>1, <2>2, <2>4, EnqueueKeeps DEF StreamEnqueue
<1>2. ASSUME NEW h \in Requests, Enqueue(h)
      PROVE  IInv'
  <2> DEFINE j == request[h].run
  <2>1. /\ j \in Runs /\ j # None /\ run[j].status # "none"
        /\ \A g \in Requests : g # h => request[g].run # j
    BY <1>2, OwnRun, LedgerAssumption DEF Enqueue, IInv, RequestsOwnRuns
  <2>2. \A x \in Runs : x # j => job'[x].status = job[x].status
    BY <1>2, <2>1, EnqueueStays DEF Enqueue, IInv
  <2>3. RequestMoves(h, "finish", j)
    BY <1>2, ContinueMoves DEF Enqueue, IInv, RequestPc
  <2>4. \A g \in Requests : g # h /\ request[g].pc = "create" =>
          run'[request[g].run].status = "none" /\ job'[request[g].run].status = "none"
    BY <1>2, <2>1, <2>2, OwnRun DEF Enqueue, IInv, RequestsOwnRuns
  <2>5. RequestsOwnRuns'
    BY <1>2, <2>1, <2>3, <2>4, OwnKeeps DEF Enqueue, RequestPc
  <2> QED
    BY <1>2, <2>1, <2>3, <2>5, EnqueueKeeps DEF Enqueue, RequestMoves
<1> QED
  BY <1>1, <1>2

-----------------------------------------------------------------------------
(* The theorems *)

LEMMA InitIInv == Init => IInv
BY PipelineAssumption, LedgerAssumption
DEF Init, LedgerInit, QueueInit, Row, Idle, Polling, At, IInv, TypeOK, LedgerTypeOK,
    QueueTypeOK, RunStatus, JobStatus, RequestPc, WorkerPc, HashIsExclusive, NoZombieRun,
    RequestsOwnRuns, WorkersOwnJobs, Working, BeatsHaveJobs, Terminal

LEMMA NextIInv == IInv /\ [Next]_vars => IInv'
<1> SUFFICES ASSUME IInv, [Next]_vars
             PROVE  IInv'
  OBVIOUS
<1>1. CASE UNCHANGED vars
  BY <1>1 DEF vars, IInv, TypeOK, LedgerTypeOK, QueueTypeOK, HashIsExclusive, NoZombieRun,
              RequestsOwnRuns, WorkersOwnJobs, Working, BeatsHaveJobs
<1>2. ASSUME NEW h \in Requests, NEW k \in Hashes, Sweep(h, k)
      PROVE  IInv'
  BY <1>2, AgingRequest
<1>3. ASSUME NEW h \in Requests, RequestStep(h) \/ FinishFails(h) \/ RequestDies(h)
      PROVE  IInv'
  <2>1. CASE FailRequest(h)
    BY <2>1, AgingRequest
  <2>2. CASE CreateRun(h)
    BY <2>2, CreatingRequest
  <2>3. CASE Enqueue(h)
    BY <2>3, Enqueuing
  <2> QED
    BY <1>3, <2>1, <2>2, <2>3, QuietRequestStep DEF RequestStep
<1>4. ASSUME NEW w \in Workers, WorkerStep(w) \/ Beat(w) \/ PublishFails(w)
                                   \/ WorkerThrows(w) \/ WorkerCrash(w)
      PROVE  IInv'
  BY <1>4, WorkerMoves, WorkerStepKeeps
<1>5. CASE \/ \E r \in Runs : AgeRun(r) \/ ExpireLease(r) \/ BeatLands(r) \/ BeatLost(r)
           \/ StatusRecover \/ AgeLock
  BY <1>5, OtherStepKeeps
<1>6. CASE StreamEnqueue
  BY <1>6, Enqueuing
<1> QED
  BY <1>1, <1>2, <1>3, <1>4, <1>5, <1>6 DEF Next

\* The inductive invariant holds in every reachable state, for every number of
\* handlers, workers, hashes, runs and batches (all of route.ts, worker.ts and the
\* two services).
THEOREM Invariance == Spec => []IInv
<1> QED
  BY InitIInv, NextIInv, PTL DEF Spec

\* Every row of the ledger, of the queue and of cache_metadata, and every process,
\* stays in the states declared for it.
THEOREM TypeCorrectness == Spec => []TypeOK
<1>1. IInv => TypeOK
  BY DEF IInv
<1> QED
  BY Invariance, <1>1, PTL

\* The unique column: no two runs ever hold one idempotency hash, and a run that
\* ended holds none (createRunningRun and markRunFailed of
\* pipeline-ledger-service.ts, whatever the recoveries do in between).
THEOREM HashExclusion == Spec => []HashIsExclusive
<1>1. IInv => HashIsExclusive
  BY DEF IInv
<1> QED
  BY Invariance, <1>1, PTL

\* No run outlives its job, with any number of workers, stalled or not, and any
\* database errors: setJobFailed and recoverStaleJobs come after, or with, the end
\* of the run.
THEOREM ZombieFreedom == Spec => []NoZombieRun
<1>1. IInv => NoZombieRun
  BY DEF IInv
<1> QED
  BY Invariance, <1>1, PTL

-----------------------------------------------------------------------------
(* Publication.  A job is claimed once, so that its run is published once:  *)
(* until the worker has committed, nothing in the ledger points to the run. *)

Early == {"create", "lock", "acquire", "prepare"}
BeforePublish == {"start", "batch", "infer", "fail", "publish", "commit"}
Unclaimed == {"none", "pending"}

\* Only a run that succeeded is published.
PublishedSucceeded == \A r \in Runs : run[r].published => run[r].status = "SUCCEEDED"

\* A handler queues the job of its run once.
EarlyRunsHaveNoJob ==
  \A h \in Requests : request[h].pc \in Early => job[request[h].run].status = "none"

\* A worker's job is never pending again, and no other worker has it.
JobsAreClaimedOnce ==
  /\ \A w \in Workers : Working(w) => job[worker[w].job].status \notin Unclaimed
  /\ \A w, v \in Workers :
       Working(w) /\ Working(v) /\ worker[w].job = worker[v].job => w = v

\* The run may still be published.
MayBePublished(r) ==
  \/ job[r].status \in Unclaimed
  \/ \E w \in Workers : worker[w].pc \in BeforePublish /\ worker[w].job = r

\* Nothing in the ledger, and nothing that a worker read of it, says that the run was
\* ever published.
Untouched(r) ==
  /\ ~run[r].published /\ run[r].supersededBy = None /\ pointer # r
  /\ \A w \in Workers : worker[w].pc = "commit" => worker[w].prev # r

PublishInv ==
  /\ PublishedSucceeded /\ EarlyRunsHaveNoJob /\ JobsAreClaimedOnce
  /\ \A r \in Runs : MayBePublished(r) => Untouched(r)

\* What the ledger goes through but for a publication: no run is published or
\* superseded, some are taken back.
LedgerQuiet ==
  /\ pointer' = pointer
  /\ \A r \in Runs :
       /\ run'[r].published =>
            /\ run[r].published /\ run'[r].status = run[r].status
            /\ run'[r].supersededBy = run[r].supersededBy
       /\ run'[r].supersededBy \in {run[r].supersededBy, None}

LEMMA FailRunsIsQuiet ==
  ASSUME TypeOK, NEW S, FailRuns(S), pointer' = pointer
  PROVE  LedgerQuiet
BY DEF TypeOK, LedgerTypeOK, FailRuns, FailedRow, Row, LedgerQuiet

LEMMA LedgerIsQuiet ==
  ASSUME TypeOK, [Next]_vars, \A w \in Workers : ~Publish(w)
  PROVE  LedgerQuiet
<1>1. CASE UNCHANGED <<run, pointer>>
  BY <1>1 DEF LedgerQuiet
<1>2. CASE pointer' = pointer /\ \E S \in SUBSET Runs : FailRuns(S)
  BY <1>2, FailRunsIsQuiet
<1>3. ASSUME NEW h \in Requests, CreateRun(h)
      PROVE  LedgerQuiet
  BY <1>3, LedgerAssumption
     DEF CreateRun, CreateRunningRun, Row, LedgerQuiet, TypeOK, LedgerTypeOK
<1>4. ASSUME NEW r \in Runs, AgeRun(r)
      PROVE  LedgerQuiet
  BY <1>4 DEF AgeRun, LedgerQuiet, TypeOK, LedgerTypeOK
<1>5. ASSUME NEW h \in Requests,
             \/ \E k \in Hashes : Sweep(h, k)
             \/ RequestStep(h) \/ FinishFails(h) \/ RequestDies(h)
      PROVE  LedgerQuiet
  <2>1. CASE \E k \in Hashes : Sweep(h, k)
    BY <1>2, <2>1 DEF Sweep, StaleRuns
  <2>2. CASE FailRequest(h)
    BY <2>2, FailRunsIsQuiet DEF FailRequest, MarkRunFailed
  <2> QED
    BY <1>1, <1>3, <1>5, <2>1, <2>2
       DEF RequestStep, FinishFails, RequestDies, Lookup, CheckLock, AcquireLock, PrepareFails,
           Enqueue, Finish, ReportError
<1>6. ASSUME NEW w \in Workers,
             WorkerStep(w) \/ Beat(w) \/ PublishFails(w) \/ WorkerThrows(w) \/ WorkerCrash(w)
      PROVE  LedgerQuiet
  <2>1. CASE FailRun(w) \/ UndoPublish(w)
    BY <2>1, FailRunsIsQuiet DEF FailRun, UndoPublish, MarkRunFailed
  <2>2. CASE PollRecover(w) \/ WorkerRestart(w)
    BY <2>2, FailRunsIsQuiet DEF PollRecover, WorkerRestart, RecoverStaleJobs
  <2> QED
    BY <1>1, <1>6, <2>1, <2>2
       DEF WorkerStep, Beat, PublishFails, WorkerThrows, WorkerCrash, Claim, RejectJob, StartJob,
           StartBatch, FinishBatch, FailBatch, FailJob, LockPointer, RecordPublish, CompleteJob
<1>7. CASE StatusRecover
  BY <1>7, FailRunsIsQuiet DEF StatusRecover, RecoverStaleJobs
<1>8. CASE \/ \E r \in Runs : ExpireLease(r) \/ BeatLands(r) \/ BeatLost(r)
           \/ StreamEnqueue \/ AgeLock
  BY <1>1, <1>8 DEF ExpireLease, BeatLands, BeatLost, StreamEnqueue, AgeLock
<1> QED
  BY <1>1, <1>4, <1>5, <1>6, <1>7, <1>8 DEF Next, vars

\* The queue but for an enqueue: no job becomes pending, and none appears.
QueueQuiet ==
  /\ NoneStays
  /\ \A j \in Runs : job'[j].status \in Unclaimed => job'[j].status = job[j].status

\* The workers but for a claim: they go on with their jobs, and read the pointer.
WorkersGoOn ==
  \A w \in Workers :
    /\ worker'[w].pc \in BeforePublish => worker[w].pc \in BeforePublish
    /\ Working(w)' => Working(w) /\ worker'[w].job = worker[w].job
    /\ worker'[w].pc = "commit" =>
         \/ worker[w].pc = "commit" /\ worker'[w].prev = worker[w].prev
         \/ worker'[w].prev = pointer /\ UNCHANGED pointer

\* The handlers: who is about to queue a job was so before, or has a new run id.
RequestsGoOn ==
  \A h \in Requests : request'[h].pc \in Early =>
    /\ request'[h].run \in Runs
    /\ \/ request[h].pc \in Early /\ request'[h].run = request[h].run
       \/ job[request'[h].run].status = "none"

LEMMA QuietKeeps ==
  ASSUME IInv, PublishInv, LedgerQuiet, QueueQuiet, WorkersGoOn, RequestsGoOn
  PROVE  PublishInv'
<1> USE DEF PublishInv
<1>1. \A w \in Workers : Working(w) => worker[w].job \in Runs
  BY DEF IInv, WorkersOwnJobs
<1>2. PublishedSucceeded'
  BY DEF PublishedSucceeded, LedgerQuiet
<1>3. EarlyRunsHaveNoJob'
  BY DEF EarlyRunsHaveNoJob, RequestsGoOn, QueueQuiet, NoneStays
<1>4. JobsAreClaimedOnce'
  BY <1>1 DEF JobsAreClaimedOnce, WorkersGoOn, QueueQuiet
<1>5. ASSUME NEW r \in Runs, MayBePublished(r)'
      PROVE  Untouched(r)'
  <2>1. MayBePublished(r)
    BY <1>5 DEF MayBePublished, QueueQuiet, WorkersGoOn, Working, BeforePublish
  <2>2. Untouched(r)
    BY <2>1
  <2>3. ~run'[r].published /\ run'[r].supersededBy = None /\ pointer' # r
    BY <2>2 DEF Untouched, LedgerQuiet
  <2>4. \A w \in Workers : worker'[w].pc = "commit" => worker'[w].prev # r
    BY <2>2 DEF Untouched, WorkersGoOn
  <2> QED
    BY <2>3, <2>4 DEF Untouched
<1> QED
  BY <1>2, <1>3, <1>4, <1>5

LEMMA QueueIsQuiet ==
  ASSUME IInv, [Next]_vars, ~StreamEnqueue, \A h \in Requests : ~Enqueue(h)
  PROVE  QueueQuiet
<1>0. job \in [Runs -> JobRows]
  BY DEF IInv, TypeOK, QueueTypeOK, JobRows
<1>1. CASE UNCHANGED job
  BY <1>1 DEF QueueQuiet, NoneStays
<1>2. ASSUME NEW j \in Runs, NEW status \in JobStatus \ Unclaimed, NEW lease,
             SetJob(j, status, lease), job[j].status # "none"
      PROVE  QueueQuiet
  BY <1>0, <1>2 DEF SetJob, QueueQuiet, NoneStays, Unclaimed, JobRows
<1>3. ASSUME NEW S, RecoverStaleJobs(S)
      PROVE  QueueQuiet
  BY <1>3 DEF RecoverStaleJobs, StaleJobs, Claimed, QueueQuiet, NoneStays, Unclaimed
<1>4. ASSUME NEW w \in Workers, Working(w)
      PROVE  worker[w].job \in Runs /\ job[worker[w].job].status # "none"
  BY <1>4 DEF IInv, WorkersOwnJobs
<1>5. ASSUME NEW w \in Workers,
             WorkerStep(w) \/ Beat(w) \/ PublishFails(w) \/ WorkerThrows(w) \/ WorkerCrash(w)
      PROVE  QueueQuiet
  <2>1. CASE PollRecover(w) \/ WorkerRestart(w)
    BY <1>3, <2>1 DEF PollRecover, WorkerRestart
  <2>2. CASE StartBatch(w) \/ FinishBatch(w) \/ FailJob(w) \/ CompleteJob(w)
    BY <1>2, <1>4, <2>2
       DEF StartBatch, FinishBatch, FailJob, CompleteJob, UpdateJobProgress, SetJobFailed,
           SetJobComplete, JobStatus, Unclaimed, Working
  <2>3. CASE Claim(w)
    BY <1>2, <2>3 DEF Claim, ClaimNextJob, NextPending, JobStatus, Unclaimed
  <2> QED
    BY <1>1, <1>5, <2>1, <2>2, <2>3
       DEF WorkerStep, Beat, PublishFails, WorkerThrows, WorkerCrash, RejectJob, StartJob,
           FailBatch, FailRun, LockPointer, Publish, UndoPublish, RecordPublish
<1>6. ASSUME NEW h \in Requests,
             \/ \E k \in Hashes : Sweep(h, k)
             \/ RequestStep(h) \/ FinishFails(h) \/ RequestDies(h)
      PROVE  QueueQuiet
  BY <1>1, <1>6
     DEF Sweep, RequestStep, FinishFails, RequestDies, Lookup, CreateRun, CheckLock, AcquireLock,
         PrepareFails, Finish, FailRequest, ReportError
<1>7. ASSUME NEW j \in Runs, ExpireLease(j)
      PROVE  QueueQuiet
  BY <1>2, <1>7 DEF ExpireLease, Claimed, JobStatus, Unclaimed
<1>8. ASSUME NEW j \in Runs, BeatLands(j)
      PROVE  QueueQuiet
  BY <1>2, <1>8 DEF BeatLands, UpdateJobProgress, JobStatus, Unclaimed, IInv, BeatsHaveJobs
<1>9. CASE StatusRecover
  BY <1>3, <1>9 DEF StatusRecover
<1>10. CASE (\E r \in Runs : AgeRun(r) \/ BeatLost(r)) \/ AgeLock
  BY <1>1, <1>10 DEF AgeRun, BeatLost, AgeLock
<1> QED
  BY <1>1, <1>5, <1>6, <1>7, <1>8, <1>9, <1>10 DEF Next, vars

LEMMA WorkersAreQuiet ==
  ASSUME IInv, [Next]_vars, \A w \in Workers : ~Claim(w) /\ ~Publish(w)
  PROVE  WorkersGoOn
<1>0. worker \in [Workers -> WorkerStates]
  BY DEF IInv, TypeOK, WorkerStates
<1>1. CASE UNCHANGED worker
  BY <1>1 DEF WorkersGoOn, Working
<1>2. ASSUME NEW w \in Workers, NEW pc \in {"poll", "down"},
             worker' = [worker EXCEPT ![w] = At(pc, None)]
      PROVE  WorkersGoOn
  BY <1>0, <1>2 DEF WorkersGoOn, Working, At, BeforePublish
<1>3. ASSUME NEW w \in Workers, NEW pc \in WorkerPc \ {"commit"}, Working(w),
             pc \in BeforePublish => worker[w].pc \in BeforePublish,
             NEW batch, NEW outcome, Step(w, pc, batch, outcome)
      PROVE  WorkersGoOn
  BY <1>0, <1>3 DEF WorkersGoOn, Working, Step
<1>4. ASSUME NEW w \in Workers, LockPointer(w)
      PROVE  WorkersGoOn
  BY <1>0, <1>4 DEF LockPointer, WorkersGoOn, Working, BeforePublish, WorkerStates
<1>5. ASSUME NEW w \in Workers,
             WorkerStep(w) \/ Beat(w) \/ PublishFails(w) \/ WorkerThrows(w) \/ WorkerCrash(w)
      PROVE  WorkersGoOn
  <2>1. CASE \/ RejectJob(w) \/ FailJob(w) \/ UndoPublish(w) \/ CompleteJob(w) \/ WorkerThrows(w)
             \/ WorkerRestart(w) \/ WorkerCrash(w)
    BY <1>2, <2>1
       DEF RejectJob, FailJob, UndoPublish, CompleteJob, WorkerThrows, WorkerRestart, WorkerCrash,
           Leave, Polling
  <2>2. CASE StartJob(w) \/ StartBatch(w) \/ FailRun(w) \/ RecordPublish(w)
    BY <1>3, <2>2
       DEF StartJob, StartBatch, FailRun, RecordPublish, Proceed, Working, BeforePublish, WorkerPc
  <2>3. CASE FinishBatch(w) \/ FailBatch(w)
    <3>1. PICK pc \in {"fail", "publish", "batch"},
               batch \in {worker[w].batch, Batches, worker[w].batch + 1},
               outcome \in {"none", "decisions", "failed"} :
                 Step(w, pc, batch, outcome)
      BY <1>0, <2>3 DEF FinishBatch, FailBatch, AfterBatch, Decide, WorkerStates
    <3>2. worker[w].pc = "infer"
      BY <2>3 DEF FinishBatch, FailBatch
    <3> QED
      BY <1>3, <3>1, <3>2 DEF Working, BeforePublish, WorkerPc
  <2>4. CASE PublishFails(w)
    BY <1>2, <1>3, <2>4
       DEF PublishFails, Leave, Polling, Proceed, Working, BeforePublish, WorkerPc
  <2> QED
    BY <1>1, <1>4, <1>5, <2>1, <2>2, <2>3, <2>4 DEF WorkerStep, PollRecover, Beat
<1>6. CASE \/ \E h \in Requests, k \in Hashes : Sweep(h, k)
           \/ \E h \in Requests : RequestStep(h) \/ FinishFails(h) \/ RequestDies(h)
           \/ \E r \in Runs : AgeRun(r) \/ ExpireLease(r) \/ BeatLands(r) \/ BeatLost(r)
           \/ StreamEnqueue \/ StatusRecover \/ AgeLock
  BY <1>1, <1>6
     DEF Sweep, RequestStep, FinishFails, RequestDies, Lookup, CreateRun, CheckLock, AcquireLock,
         PrepareFails, Enqueue, Finish, FailRequest, ReportError, AgeRun, ExpireLease, BeatLands,
         BeatLost, StreamEnqueue, StatusRecover, AgeLock
<1> QED
  BY <1>1, <1>5, <1>6 DEF Next, vars

LEMMA RequestsAreQuiet ==
  ASSUME IInv, [Next]_vars
  PROVE  RequestsGoOn
<1>0. request \in [Requests -> RequestStates]
  BY DEF IInv, TypeOK, RequestStates
<1>1. CASE UNCHANGED request
  BY <1>0, <1>1, OwnRun DEF RequestsGoOn, Early
<1>2. ASSUME NEW h \in Requests, request'[h].pc \notin Early,
             \A g \in Requests : g # h => request'[g] = request[g]
      PROVE  RequestsGoOn
  BY <1>0, <1>2, OwnRun DEF RequestsGoOn, Early
<1>3. ASSUME NEW h \in Requests, NEW pc \in RequestPc, request[h].pc \in Early, Continue(h, pc)
      PROVE  RequestsGoOn
  BY <1>0, <1>3, OwnRun DEF Continue, GoTo, RequestsGoOn, Early
<1>4. ASSUME NEW h \in Requests,
             \/ \E k \in Hashes : Sweep(h, k)
             \/ RequestStep(h) \/ FinishFails(h) \/ RequestDies(h)
      PROVE  RequestsGoOn
  <2>1. CASE Respond(h)
    BY <1>0, <1>2, <2>1 DEF Respond, Idle, Early
  <2>2. CASE \E pc \in {"finish", "fail", "error"} : Continue(h, pc)
    BY <1>0, <1>2, <2>2 DEF Continue, GoTo, Early
  <2>3. CASE \E k \in Hashes : Sweep(h, k)
    BY <1>0, <1>2, <2>3 DEF Sweep, GoTo, Early
  <2>4. CASE Lookup(h) /\ ~Respond(h)
    <3>1. PICK r \in NextId : GoTo(h, "create", request[h].hash, r)
      BY <2>4 DEF Lookup
    <3>2. r \in Runs /\ job[r].status = "none"
      BY <3>1 DEF NextId, Fresh
    <3> QED
      BY <1>0, <3>1, <3>2, OwnRun DEF GoTo, RequestsGoOn, Early
  <2>5. CASE (CreateRun(h) \/ CheckLock(h) \/ AcquireLock(h)) /\ ~Respond(h)
    BY <1>3, <2>5 DEF CreateRun, CheckLock, AcquireLock, Early, RequestPc
  <2> QED
    BY <1>4, <2>1, <2>2, <2>3, <2>4, <2>5
       DEF RequestStep, FinishFails, RequestDies, PrepareFails, Enqueue, Finish, FailRequest,
           ReportError
<1>5. CASE \/ \E w \in Workers : WorkerStep(w) \/ Beat(w) \/ PublishFails(w) \/ WorkerThrows(w)
                                   \/ WorkerCrash(w)
           \/ \E r \in Runs : AgeRun(r) \/ ExpireLease(r) \/ BeatLands(r) \/ BeatLost(r)
           \/ StreamEnqueue \/ StatusRecover \/ AgeLock
  <2>1. ASSUME NEW w \in Workers, WorkerStep(w) \/ Beat(w) \/ PublishFails(w)
                                    \/ WorkerThrows(w) \/ WorkerCrash(w)
        PROVE  UNCHANGED request
    BY <2>1, WorkerMoves DEF WorkerFrame
  <2> QED
    BY <1>1, <1>5, <2>1
       DEF AgeRun, ExpireLease, BeatLands, BeatLost, StreamEnqueue, StatusRecover, AgeLock
<1> QED
  BY <1>1, <1>4, <1>5 DEF Next, vars

\* A new job belongs to no worker and to no other handler.
LEMMA EnqueuePublishes ==
  ASSUME IInv, PublishInv, StreamEnqueue \/ \E h \in Requests : Enqueue(h)
  PROVE  PublishInv'
<1> USE DEF PublishInv
<1>0. UNCHANGED <<run, pointer, worker>> /\ request \in [Requests -> RequestStates]
  BY DEF StreamEnqueue, Enqueue, IInv, TypeOK, RequestStates
<1>1. PICK j \in Runs :
        /\ EnqueueJob(j) /\ job[j].status = "none"
        /\ \A g \in Requests : request'[g].pc \in Early =>
             request'[g] = request[g] /\ request[g].run \in Runs \ {j}
  <2>1. CASE StreamEnqueue
    <3>1. PICK j \in NextId : EnqueueJob(j)
      BY <2>1 DEF StreamEnqueue
    <3>2. j \in Runs /\ job[j].status = "none" /\ \A g \in Requests : request[g].run # j
      BY <3>1 DEF NextId, Fresh
    <3> QED
      BY <2>1, <3>1, <3>2, OwnRun DEF StreamEnqueue, Early
  <2>2. ASSUME NEW h \in Requests, Enqueue(h)
        PROVE  \E j \in Runs :
                 /\ EnqueueJob(j) /\ job[j].status = "none"
                 /\ \A g \in Requests : request'[g].pc \in Early =>
                      request'[g] = request[g] /\ request[g].run \in Runs \ {j}
    <3>1. /\ request[h].run \in Runs /\ EnqueueJob(request[h].run)
          /\ job[request[h].run].status = "none"
          /\ \A g \in Requests : g # h => request[g].run # request[h].run
      BY <2>2, OwnRun DEF Enqueue, EarlyRunsHaveNoJob, Early
    <3>2. /\ \A g \in Requests : g # h => request'[g] = request[g]
          /\ request'[h].pc \notin Early
      BY <1>0, <2>2 DEF Enqueue, Continue, GoTo, Early
    <3> QED
      BY <3>1, <3>2, OwnRun DEF Early
  <2> QED
    BY <2>1, <2>2
<1>2. \A x \in Runs : job'[x].status = IF x = j THEN "pending" ELSE job[x].status
  BY <1>1, EnqueueStays DEF IInv
<1>3. PublishedSucceeded' /\ EarlyRunsHaveNoJob'
  BY <1>0, <1>1, <1>2 DEF PublishedSucceeded, EarlyRunsHaveNoJob
<1>4. JobsAreClaimedOnce'
  <2>1. \A w \in Workers : Working(w) => worker[w].job \in Runs
    BY DEF IInv, WorkersOwnJobs
  <2> QED
    BY <1>0, <1>1, <1>2, <2>1 DEF JobsAreClaimedOnce, Working, Unclaimed
<1>5. \A r \in Runs : MayBePublished(r)' => Untouched(r)'
  BY <1>0, <1>1, <1>2 DEF MayBePublished, Untouched, Unclaimed
<1> QED
  BY <1>3, <1>4, <1>5

\* The claimed job was pending: no other worker has it.
LEMMA ClaimPublishes ==
  ASSUME IInv, PublishInv, NEW w \in Workers, Claim(w)
  PROVE  PublishInv'
<1> USE DEF PublishInv
<1>0. UNCHANGED <<run, pointer, request>> /\ worker \in [Workers -> WorkerStates]
  BY DEF Claim, IInv, TypeOK, WorkerStates
<1>1. PICK j \in Runs : /\ job[j].status = "pending" /\ SetJob(j, "running", "valid")
                        /\ worker' = [worker EXCEPT ![w] = At("start", j)]
  BY DEF Claim, ClaimNextJob, NextPending
<1>2. \A x \in Runs : job'[x].status = IF x = j THEN "running" ELSE job[x].status
  BY <1>1, SetJobStays DEF IInv, JobStatus
<1>3. /\ worker'[w].pc = "start" /\ worker'[w].job = j
      /\ \A v \in Workers : v # w => worker'[v] = worker[v]
  BY <1>0, <1>1 DEF At
<1>4. \A v \in Workers : Working(v) => worker[v].job \in Runs \ {j}
  BY <1>1 DEF IInv, WorkersOwnJobs, JobsAreClaimedOnce, Unclaimed
<1>5. PublishedSucceeded' /\ EarlyRunsHaveNoJob'
  BY <1>0, <1>1, <1>2, OwnRun DEF PublishedSucceeded, EarlyRunsHaveNoJob, Early
<1>6. JobsAreClaimedOnce'
  BY <1>2, <1>3, <1>4 DEF JobsAreClaimedOnce, Working, Unclaimed
<1>7. ASSUME NEW r \in Runs, MayBePublished(r)'
      PROVE  Untouched(r)'
  <2>1. MayBePublished(r)
    BY <1>1, <1>2, <1>3, <1>7 DEF MayBePublished, Unclaimed
  <2> QED
    BY <1>0, <1>3, <2>1 DEF Untouched
<1> QED
  BY <1>5, <1>6, <1>7

\* The published run was claimed, and by this worker: no other run is touched but the
\* one the worker read in the pointer, which was published before.
LEMMA PublishPublishes ==
  ASSUME IInv, PublishInv, NEW w \in Workers, Publish(w)
  PROVE  PublishInv'
<1> USE DEF PublishInv
<1> DEFINE j == worker[w].job
<1>0. /\ UNCHANGED <<job, request>> /\ worker \in [Workers -> WorkerStates]
      /\ worker[w].pc = "commit" /\ PublishRun(j, worker[w].prev) /\ j \in Runs
  BY DEF Publish, IInv, TypeOK, WorkerStates, WorkersOwnJobs, Working
<1>1. /\ worker'[w].pc = "event" /\ worker'[w].job = j
      /\ \A v \in Workers : v # w => worker'[v] = worker[v]
  BY <1>0 DEF Publish, Proceed, Step
<1>2. /\ run'[j].status = "SUCCEEDED" /\ pointer' = j
      /\ \A x \in Runs : x # j =>
           /\ run'[x].status = run[x].status /\ run'[x].published = run[x].published
           /\ x # worker[w].prev => run'[x].supersededBy = run[x].supersededBy
  BY <1>0 DEF PublishRun, Row, IInv, TypeOK, LedgerTypeOK
<1>3. PublishedSucceeded' /\ EarlyRunsHaveNoJob'
  BY <1>0, <1>2, OwnRun DEF PublishedSucceeded, EarlyRunsHaveNoJob, Early
<1>4. JobsAreClaimedOnce'
  BY <1>0, <1>1 DEF JobsAreClaimedOnce, Working
<1>5. ASSUME NEW r \in Runs, MayBePublished(r)'
      PROVE  Untouched(r)'
  <2>1. MayBePublished(r) /\ r # j
    BY <1>0, <1>1, <1>5
       DEF MayBePublished, JobsAreClaimedOnce, Working, BeforePublish, Unclaimed
  <2> QED
    BY <1>0, <1>1, <1>2, <2>1 DEF Untouched
<1> QED
  BY <1>3, <1>4, <1>5

LEMMA InitPublishInv == Init => PublishInv
BY LedgerAssumption
DEF Init, LedgerInit, QueueInit, Row, Idle, Polling, At, PublishInv, PublishedSucceeded,
    EarlyRunsHaveNoJob, JobsAreClaimedOnce, Untouched, Working, Early

LEMMA NextPublishInv == IInv /\ PublishInv /\ [Next]_vars => PublishInv'
<1> SUFFICES ASSUME IInv, PublishInv, [Next]_vars
             PROVE  PublishInv'
  OBVIOUS
<1>1. CASE StreamEnqueue \/ \E h \in Requests : Enqueue(h)
  BY <1>1, EnqueuePublishes
<1>2. CASE \E w \in Workers : Claim(w) \/ Publish(w)
  BY <1>2, ClaimPublishes, PublishPublishes
<1>3. CASE /\ ~StreamEnqueue /\ \A h \in Requests : ~Enqueue(h)
           /\ \A w \in Workers : ~Claim(w) /\ ~Publish(w)
  <2>1. LedgerQuiet
    BY <1>3, LedgerIsQuiet DEF IInv
  <2> QED
    BY <1>3, <2>1, QueueIsQuiet, WorkersAreQuiet, RequestsAreQuiet, QuietKeeps
<1> QED
  BY <1>1, <1>2, <1>3

\* Until a job is claimed and its worker has committed, its run is neither published nor
\* superseded nor active, and a worker that is about to publish has not read it in the
\* pointer (claimNextJob, publishRunAtomic).
THEOREM PublicationInvariance == Spec => [](IInv /\ PublishInv)
<1> QED
  BY InitIInv, NextIInv, InitPublishInv, NextPublishInv, PTL DEF Spec

\* Who takes the run r back.
TakenBack(r) ==
  \/ \E h \in Requests : request[h].pc = "fail" /\ request[h].run = r
  \/ \E w \in Workers : worker[w].pc = "undo" /\ worker[w].job = r

LEMMA FailRunsTakesBack ==
  ASSUME TypeOK, PublishedSucceeded, NEW S, FailRuns(S),
         \A x \in S \cap Runs : run[x].status = "RUNNING" \/ ~run[x].published \/ TakenBack(x)
  PROVE  \A r \in Runs : run[r].published /\ ~run'[r].published => TakenBack(r)
BY DEF PublishedSucceeded, FailRuns

LEMMA StepTakesBack ==
  ASSUME IInv, PublishInv, [Next]_vars
  PROVE  \A r \in Runs : run[r].published /\ ~run'[r].published => TakenBack(r)
<1> DEFINE Kept == \A r \in Runs : run[r].published /\ ~run'[r].published => TakenBack(r)
<1>0. TypeOK /\ PublishedSucceeded
  BY DEF IInv, PublishInv
<1>1. CASE UNCHANGED run
  BY <1>1
<1>2. ASSUME NEW S \in SUBSET StaleRuns, RecoverStaleJobs(S)
      PROVE  Kept
  BY <1>0, <1>2, FailRunsTakesBack DEF RecoverStaleJobs, AffectedRuns, StaleRuns
<1>3. ASSUME NEW h \in Requests,
             \/ \E k \in Hashes : Sweep(h, k)
             \/ RequestStep(h) \/ FinishFails(h) \/ RequestDies(h)
      PROVE  Kept
  <2>1. CASE \E k \in Hashes : Sweep(h, k)
    BY <1>0, <2>1, FailRunsTakesBack DEF Sweep, StaleRuns
  <2>2. CASE CreateRun(h) /\ ~UNCHANGED run
    <3>1. request[h].run \in Runs /\ ~run[request[h].run].published
      BY <1>0, <2>2, OwnRun DEF CreateRun, IInv, RequestsOwnRuns, PublishedSucceeded
    <3> QED
      BY <1>0, <2>2, <3>1 DEF CreateRun, CreateRunningRun, TypeOK, LedgerTypeOK
  <2>3. CASE FailRequest(h)
    BY <1>0, <2>3, FailRunsTakesBack DEF FailRequest, MarkRunFailed, TakenBack
  <2> QED
    BY <1>1, <1>3, <2>1, <2>2, <2>3
       DEF RequestStep, FinishFails, RequestDies, Lookup, CheckLock, AcquireLock, PrepareFails,
           Enqueue, Finish, ReportError
<1>4. ASSUME NEW w \in Workers,
             WorkerStep(w) \/ Beat(w) \/ PublishFails(w) \/ WorkerThrows(w) \/ WorkerCrash(w)
      PROVE  Kept
  <2>1. CASE PollRecover(w) \/ WorkerRestart(w)
    BY <1>2, <2>1 DEF PollRecover, WorkerRestart
  <2>2. CASE FailRun(w)
    <3>1. worker[w].job \in Runs /\ ~run[worker[w].job].published
      BY <2>2 DEF FailRun, IInv, WorkersOwnJobs, Working, PublishInv, MayBePublished,
                  BeforePublish, Untouched
    <3> QED
      BY <1>0, <2>2, <3>1, FailRunsTakesBack DEF FailRun, MarkRunFailed
  <2>3. CASE UndoPublish(w)
    BY <1>0, <2>3, FailRunsTakesBack DEF UndoPublish, MarkRunFailed, TakenBack
  <2>4. CASE Publish(w)
    BY <1>0, <2>4 DEF Publish, PublishRun, Row, TypeOK, LedgerTypeOK
  <2> QED
    BY <1>1, <1>4, <2>1, <2>2, <2>3, <2>4
       DEF WorkerStep, Beat, PublishFails, WorkerThrows, WorkerCrash, Claim, RejectJob, StartJob,
           StartBatch, FinishBatch, FailBatch, FailJob, LockPointer, RecordPublish, CompleteJob
<1>5. CASE StatusRecover
  BY <1>2, <1>5 DEF StatusRecover
<1>6. ASSUME NEW r \in Runs, AgeRun(r)
      PROVE  Kept
  BY <1>0, <1>6 DEF AgeRun, TypeOK, LedgerTypeOK
<1>7. CASE \/ \E r \in Runs : ExpireLease(r) \/ BeatLands(r) \/ BeatLost(r)
           \/ StreamEnqueue \/ AgeLock
  BY <1>1, <1>7 DEF ExpireLease, BeatLands, BeatLost, StreamEnqueue, AgeLock
<1> QED
  BY <1>1, <1>3, <1>4, <1>5, <1>6, <1>7 DEF Next, vars

\* A published run is taken back only by the handler that queued it or by the worker that
\* published it: no recovery, no other worker and no stalled one reaches it
\* (markRunFailed of route.ts and worker.ts; recoverStaleJobs and getActiveRunByHash fail
\* RUNNING runs only).
THEOREM PublicationLasts == Spec => PublishedStays
<1>1. IInv /\ PublishInv /\ [Next]_vars =>
        [\A r \in Runs : run[r].published /\ ~run'[r].published =>
           \/ \E h \in Requests : request[h].pc = "fail" /\ request[h].run = r
           \/ \E w \in Workers : worker[w].pc = "undo" /\ worker[w].job = r]_vars
  BY StepTakesBack DEF TakenBack
<1> QED
  BY <1>1, PublicationInvariance, PTL DEF Spec, PublishedStays

\* What the worker read in the pointer still stands there when it commits.
ReadIsCurrent == \A w \in Workers : worker[w].pc = "commit" => worker[w].prev = pointer

\* One worker at a time is between the locking read and the commit.
OnePublisher ==
  \A w, v \in Workers : worker[w].pc = "commit" /\ worker[v].pc = "commit" => w = v

LEMMA ChainKeeps ==
  ASSUME OnePublisher, IInv, PublishInv, ReadIsCurrent, OnePublishedRun, [Next]_vars
  PROVE  ReadIsCurrent' /\ OnePublishedRun'
<1>1. ASSUME NEW w \in Workers, Publish(w)
      PROVE  ReadIsCurrent' /\ OnePublishedRun'
  <2> DEFINE j == worker[w].job
  <2>1. /\ worker[w].pc = "commit" /\ PublishRun(j, pointer) /\ j \in Runs
        /\ worker'[w].pc = "event"
    BY <1>1 DEF Publish, ReadIsCurrent, IInv, TypeOK, WorkersOwnJobs, Working, Proceed, Step
  <2>2. pointer # j /\ run[j].supersededBy = None
    BY <2>1 DEF PublishInv, MayBePublished, BeforePublish, Untouched
  <2>3. pointer' = j /\ run'[j].supersededBy = None
    BY <2>1, <2>2 DEF PublishRun, Row
  <2>4. ASSUME NEW x \in Runs, x # j, run'[x].published
        PROVE  run'[x].supersededBy # None
    <3>1. run[x].published
      BY <2>1, <2>4 DEF PublishRun, IInv, TypeOK, LedgerTypeOK
    <3>2. run'[x].supersededBy = IF x = pointer THEN j ELSE run[x].supersededBy
      BY <2>1, <2>4 DEF PublishRun, IInv, TypeOK, LedgerTypeOK
    <3> QED
      BY <2>1, <3>1, <3>2, LedgerAssumption DEF OnePublishedRun
  <2>5. \A v \in Workers : worker'[v].pc # "commit"
    <3>1. \A v \in Workers : v # w => worker'[v] = worker[v] /\ worker[v].pc # "commit"
      BY <1>1, <2>1 DEF Publish, Proceed, Step, IInv, TypeOK, OnePublisher
    <3> QED
      BY <2>1, <3>1
  <2> QED
    BY <2>3, <2>4, <2>5 DEF ReadIsCurrent, OnePublishedRun
<1>2. CASE \A w \in Workers : ~Publish(w)
  <2>1. LedgerQuiet
    BY <1>2, LedgerIsQuiet DEF IInv
  <2>2. OnePublishedRun'
    BY <2>1 DEF LedgerQuiet, OnePublishedRun
  <2>3. CASE \A w \in Workers : ~Claim(w)
    <3>1. WorkersGoOn
      BY <1>2, <2>3, WorkersAreQuiet
    <3> QED
      BY <2>1, <2>2, <3>1 DEF WorkersGoOn, ReadIsCurrent, LedgerQuiet
  <2>4. ASSUME NEW w \in Workers, Claim(w)
        PROVE  ReadIsCurrent'
    <3>1. /\ worker'[w].pc = "start" /\ UNCHANGED pointer
          /\ \A v \in Workers : v # w => worker'[v] = worker[v]
      BY <2>4 DEF Claim, At, IInv, TypeOK
    <3> QED
      BY <3>1 DEF ReadIsCurrent
  <2> QED
    BY <2>2, <2>3, <2>4
<1> QED
  BY <1>1, <1>2

\* With one worker (docker-compose runs one), the published runs form a chain that ends
\* at the pointer, whatever the recoveries and the handlers do between the steps of
\* publishRunAtomic.  With two workers it is false before the first publication: no
\* row of the pointer exists yet that could be locked.
THEOREM OneWorkerOneActiveRun ==
  ASSUME \A w, v \in Workers : w = v
  PROVE  Spec => []OnePublishedRun
<1>1. Init => ReadIsCurrent /\ OnePublishedRun
  BY DEF Init, LedgerInit, Row, Polling, At, ReadIsCurrent, OnePublishedRun
<1>2. IInv /\ PublishInv /\ ReadIsCurrent /\ OnePublishedRun /\ [Next]_vars =>
        ReadIsCurrent' /\ OnePublishedRun'
  BY ChainKeeps DEF OnePublisher
<1>3. Spec => [](ReadIsCurrent /\ OnePublishedRun)
  <2>1. Init /\ [][Next]_vars /\ [](IInv /\ PublishInv) => [](ReadIsCurrent /\ OnePublishedRun)
    BY <1>1, <1>2, PTL
  <2> QED
    BY <2>1, PublicationInvariance, PTL DEF Spec
<1> QED
  BY <1>3, PTL

\* The row of the pointer, once it exists, is locked by one worker at a time.
LockIsHeldOnce ==
  \A w, v \in Workers :
    /\ worker[w].pc = "commit" /\ worker[w].prev # None
    /\ worker[v].pc = "commit" /\ worker[v].prev # None
    => w = v

\* Only the locking read takes a worker to its commit.
LEMMA CommitsGoOn ==
  ASSUME IInv, [Next]_vars, \A w \in Workers : ~LockPointer(w)
  PROVE  \A w \in Workers : worker'[w].pc = "commit" => worker'[w] = worker[w]
<1> DEFINE GoesOn == \A w \in Workers : worker'[w].pc = "commit" => worker'[w] = worker[w]
<1>0. worker \in [Workers -> WorkerStates]
  BY DEF IInv, TypeOK, WorkerStates
<1>1. CASE UNCHANGED worker
  BY <1>1
<1>2. ASSUME NEW w \in Workers, NEW pc \in WorkerPc \ {"commit"}, NEW j,
             worker' = [worker EXCEPT ![w] = At(pc, j)]
      PROVE  GoesOn
  BY <1>0, <1>2 DEF At
<1>3. ASSUME NEW w \in Workers, NEW pc \in WorkerPc \ {"commit"}, NEW batch, NEW outcome,
             Step(w, pc, batch, outcome)
      PROVE  GoesOn
  BY <1>0, <1>3 DEF Step
<1>4. ASSUME NEW w \in Workers,
             WorkerStep(w) \/ Beat(w) \/ PublishFails(w) \/ WorkerThrows(w) \/ WorkerCrash(w)
      PROVE  GoesOn
  <2>1. CASE \/ RejectJob(w) \/ FailJob(w) \/ UndoPublish(w) \/ CompleteJob(w)
             \/ WorkerThrows(w) \/ WorkerRestart(w) \/ WorkerCrash(w) \/ Claim(w)
    BY <1>2, <2>1
       DEF RejectJob, FailJob, UndoPublish, CompleteJob, WorkerThrows, WorkerRestart, WorkerCrash,
           Claim, Leave, Polling, WorkerPc
  <2>2. CASE StartJob(w) \/ StartBatch(w) \/ FailRun(w) \/ RecordPublish(w) \/ Publish(w)
    BY <1>3, <2>2
       DEF StartJob, StartBatch, FailRun, RecordPublish, Publish, Proceed, WorkerPc
  <2>3. CASE FinishBatch(w) \/ FailBatch(w)
    BY <1>3, <2>3 DEF FinishBatch, FailBatch, AfterBatch, Decide, WorkerPc
  <2>4. CASE PublishFails(w)
    BY <1>2, <1>3, <2>4 DEF PublishFails, Leave, Polling, Proceed, WorkerPc
  <2> QED
    BY <1>1, <1>4, <2>1, <2>2, <2>3, <2>4 DEF WorkerStep, PollRecover, Beat
<1>5. CASE \/ \E h \in Requests, k \in Hashes : Sweep(h, k)
           \/ \E h \in Requests : RequestStep(h) \/ FinishFails(h) \/ RequestDies(h)
           \/ \E r \in Runs : AgeRun(r) \/ ExpireLease(r) \/ BeatLands(r) \/ BeatLost(r)
           \/ StreamEnqueue \/ StatusRecover \/ AgeLock
  BY <1>1, <1>5
     DEF Sweep, RequestStep, FinishFails, RequestDies, Lookup, CreateRun, CheckLock, AcquireLock,
         PrepareFails, Enqueue, Finish, FailRequest, ReportError, AgeRun, ExpireLease, BeatLands,
         BeatLost, StreamEnqueue, StatusRecover, AgeLock
<1> QED
  BY <1>1, <1>4, <1>5 DEF Next, vars

LEMMA LockKeeps ==
  ASSUME IInv, LockIsHeldOnce, [Next]_vars
  PROVE  LockIsHeldOnce'
<1>1. ASSUME NEW w \in Workers, LockPointer(w)
      PROVE  LockIsHeldOnce'
  <2>1. \A v \in Workers : worker[v].pc = "commit" => worker[v].prev = None
    BY <1>1 DEF LockPointer, PointerLocked
  <2>2. \A v \in Workers : v # w => worker'[v] = worker[v]
    BY <1>1 DEF LockPointer, IInv, TypeOK
  <2> QED
    BY <2>1, <2>2 DEF LockIsHeldOnce
<1>2. CASE \A w \in Workers : ~LockPointer(w)
  BY <1>2, CommitsGoOn DEF LockIsHeldOnce
<1> QED
  BY <1>1, <1>2

\* The pointer row exists, the published runs form a chain, and no worker is left that
\* read the pointer before it existed.
ChainFormed == pointer # None /\ ReadIsCurrent /\ OnePublishedRun

LEMMA FormedChainKeeps ==
  ASSUME IInv, PublishInv, LockIsHeldOnce, ChainFormed, [Next]_vars
  PROVE  ChainFormed'
<1>1. OnePublisher
  BY DEF ChainFormed, ReadIsCurrent, LockIsHeldOnce, OnePublisher
<1>2. ReadIsCurrent' /\ OnePublishedRun'
  BY <1>1, ChainKeeps DEF ChainFormed
<1>3. pointer' # None
  <2>1. ASSUME NEW w \in Workers, Publish(w)
        PROVE  pointer' \in Runs
    BY <2>1 DEF Publish, PublishRun, IInv, WorkersOwnJobs, Working
  <2>2. CASE \A w \in Workers : ~Publish(w)
    BY <2>2, LedgerIsQuiet DEF IInv, LedgerQuiet, ChainFormed
  <2> QED
    BY <2>1, <2>2, LedgerAssumption
<1> QED
  BY <1>2, <1>3 DEF ChainFormed

\* With any number of workers: FOR UPDATE of publishRunAtomic is enough once the pointer
\* row exists.  From any state in which the published runs form a chain and every
\* worker about to commit has read the pointer that stands, they do so for good; what
\* breaks the chain is a first publication that overlaps another one.
THEOREM ChainLasts == Spec => [](ChainFormed => []OnePublishedRun)
<1>1. Init => LockIsHeldOnce
  BY DEF Init, Polling, At, LockIsHeldOnce
<1>2. IInv /\ LockIsHeldOnce /\ [Next]_vars => LockIsHeldOnce'
  BY LockKeeps
<1>3. IInv /\ PublishInv /\ LockIsHeldOnce /\ ChainFormed /\ [Next]_vars => ChainFormed'
  BY FormedChainKeeps
<1>4. ChainFormed => OnePublishedRun
  BY DEF ChainFormed
<1> QED
  BY <1>1, <1>2, <1>3, <1>4, PublicationInvariance, PTL DEF Spec

-----------------------------------------------------------------------------
(* What a job goes through *)

\* Two workers never work on one job, and so never write to one run, even when a lease
\* expires under a worker that still runs: claimNextJob takes pending jobs, and nothing
\* makes a job pending again (FOR UPDATE SKIP LOCKED; recoverStaleJobs fails the job).
JobHasOneWorker ==
  \A w, v \in Workers :
    Working(w) /\ Working(v) /\ worker[w].job = worker[v].job => w = v

THEOREM JobsAreExclusive == Spec => []JobHasOneWorker
<1>1. PublishInv => JobHasOneWorker
  BY DEF PublishInv, JobsAreClaimedOnce, JobHasOneWorker
<1> QED
  BY <1>1, PublicationInvariance, PTL

\* What a step does to the status of a run: it stays, ends, or is the first one.
RunMoves(r) ==
  \/ run'[r].status = run[r].status
  \/ run'[r].status \in Ended
  \/ job[r].status = "none" /\ run[r].status = "none" /\ run'[r].status = "RUNNING"

LEMMA RunsMove ==
  ASSUME IInv, [Next]_vars
  PROVE  \A r \in Runs : RunMoves(r)
<1> DEFINE Moved == \A r \in Runs : RunMoves(r)
<1>0. run \in [Runs -> RunRows]
  BY DEF IInv, TypeOK, LedgerTypeOK, RunRows
<1>1. CASE UNCHANGED run
  BY <1>1 DEF RunMoves
<1>2. CASE \E S : FailRuns(S)
  BY <1>2 DEF FailRuns, FailedRow, Row, RunMoves, Ended
<1>3. ASSUME NEW h \in Requests,
             \/ \E k \in Hashes : Sweep(h, k)
             \/ RequestStep(h) \/ FinishFails(h) \/ RequestDies(h)
      PROVE  Moved
  <2>1. CASE CreateRun(h) /\ ~UNCHANGED run
    <3>1. /\ request[h].run \in Runs /\ run[request[h].run].status = "none"
          /\ job[request[h].run].status = "none"
      BY <2>1, OwnRun DEF CreateRun, IInv, RequestsOwnRuns
    <3> QED
      BY <1>0, <2>1, <3>1 DEF CreateRun, CreateRunningRun, Row, RunMoves
  <2>2. CASE FailRequest(h) \/ \E k \in Hashes : Sweep(h, k)
    BY <1>2, <2>2 DEF FailRequest, MarkRunFailed, Sweep
  <2> QED
    BY <1>1, <1>3, <2>1, <2>2
       DEF RequestStep, FinishFails, RequestDies, Lookup, CheckLock, AcquireLock, PrepareFails,
           Enqueue, Finish, ReportError, CreateRun
<1>4. ASSUME NEW w \in Workers,
             WorkerStep(w) \/ Beat(w) \/ PublishFails(w) \/ WorkerThrows(w) \/ WorkerCrash(w)
      PROVE  Moved
  <2>1. CASE FailRun(w) \/ UndoPublish(w) \/ PollRecover(w) \/ WorkerRestart(w)
    BY <1>2, <2>1
       DEF FailRun, UndoPublish, MarkRunFailed, PollRecover, WorkerRestart, RecoverStaleJobs
  <2>2. CASE Publish(w)
    BY <1>0, <2>2 DEF Publish, PublishRun, Row, RunMoves, Ended, RunRows
  <2> QED
    BY <1>1, <1>4, <2>1, <2>2
       DEF WorkerStep, Beat, PublishFails, WorkerThrows, WorkerCrash, Claim, RejectJob, StartJob,
           StartBatch, FinishBatch, FailBatch, FailJob, LockPointer, RecordPublish, CompleteJob
<1>5. CASE StatusRecover
  BY <1>2, <1>5 DEF StatusRecover, RecoverStaleJobs
<1>6. ASSUME NEW r \in Runs, AgeRun(r)
      PROVE  Moved
  BY <1>0, <1>6 DEF AgeRun, RunMoves, RunRows
<1>7. CASE \/ \E r \in Runs : ExpireLease(r) \/ BeatLands(r) \/ BeatLost(r)
           \/ StreamEnqueue \/ AgeLock
  BY <1>1, <1>7 DEF ExpireLease, BeatLands, BeatLost, StreamEnqueue, AgeLock
<1> QED
  BY <1>1, <1>3, <1>4, <1>5, <1>6, <1>7 DEF Next, vars

\* A progress write to j is on its way, or its worker is about to make one.
MayWriteProgress(j) ==
  j \in beats \/ \E w \in Workers : worker[w].pc \in {"batch", "infer"} /\ worker[w].job = j

\* What a step does to a job: nothing; it queues, claims, closes or expires it, or
\* writes progress to it, whatever its status.
JobMoves(j) ==
  \/ job'[j] = job[j]
  \/ job[j].status = "none" /\ job'[j].status = "pending"
  \/ job[j].status = "pending" /\ job'[j].status = "running" /\ job'[j].lease = "valid"
  \/ job'[j].status = "partial" /\ job'[j].lease = "valid" /\ MayWriteProgress(j)
  \/ job'[j].status = "failed" /\ job[j].status \in Claimed /\ job[j].lease = "expired"
  \/ /\ job'[j].status \in Terminal
     /\ \E w \in Workers : Working(w) /\ worker[w].job = j /\ ~Working(w)'
  \/ /\ job[j].status \in Claimed /\ job'[j].status = job[j].status
     /\ MayStall \/ \A w \in Workers : worker[w].job # j

LEMMA QueueMoves ==
  ASSUME IInv, PublishInv, [Next]_vars
  PROVE  \A j \in Runs : JobMoves(j)
<1> DEFINE Moved == \A j \in Runs : JobMoves(j)
<1>0. job \in [Runs -> JobRows] /\ worker \in [Workers -> WorkerStates]
  BY DEF IInv, TypeOK, QueueTypeOK, JobRows, WorkerStates
<1>1. CASE UNCHANGED job
  BY <1>1 DEF JobMoves
<1>2. ASSUME NEW S, RecoverStaleJobs(S)
      PROVE  Moved
  BY <1>2 DEF RecoverStaleJobs, StaleJobs, JobMoves
<1>3. ASSUME NEW j \in Runs, MayWriteProgress(j), UpdateJobProgress(j)
      PROVE  Moved
  BY <1>0, <1>3 DEF UpdateJobProgress, SetJob, JobMoves
<1>4. ASSUME StreamEnqueue \/ \E h \in Requests : Enqueue(h)
      PROVE  Moved
  <2>1. PICK j \in Runs : job[j].status = "none" /\ EnqueueJob(j)
    BY <1>4, OwnRun
       DEF StreamEnqueue, NextId, Fresh, Enqueue, PublishInv, EarlyRunsHaveNoJob, Early
  <2> QED
    BY <1>0, <2>1 DEF EnqueueJob, JobMoves
<1>5. ASSUME NEW w \in Workers,
             WorkerStep(w) \/ Beat(w) \/ PublishFails(w) \/ WorkerThrows(w) \/ WorkerCrash(w)
      PROVE  Moved
  <2>1. CASE PollRecover(w) \/ WorkerRestart(w)
    BY <1>2, <2>1 DEF PollRecover, WorkerRestart
  <2>2. CASE StartBatch(w) \/ FinishBatch(w)
    <3>1. worker[w].job \in Runs
      BY <2>2 DEF StartBatch, FinishBatch, IInv, WorkersOwnJobs, Working
    <3> QED
      BY <1>3, <2>2, <3>1 DEF StartBatch, FinishBatch, MayWriteProgress
  <2>3. CASE FailJob(w) \/ CompleteJob(w)
    <3>1. Working(w) /\ worker[w].job \in Runs
      BY <2>3 DEF FailJob, CompleteJob, IInv, WorkersOwnJobs, Working
    <3>2. ~Working(w)'
      BY <1>0, <2>3 DEF FailJob, CompleteJob, Leave, Polling, At, Working
    <3> QED
      BY <1>0, <2>3, <3>1, <3>2
         DEF FailJob, CompleteJob, SetJobFailed, SetJobComplete, SetJob, JobMoves, Terminal
  <2>4. CASE Claim(w)
    BY <1>0, <2>4 DEF Claim, ClaimNextJob, NextPending, SetJob, JobMoves
  <2> QED
    BY <1>1, <1>5, <2>1, <2>2, <2>3, <2>4
       DEF WorkerStep, Beat, PublishFails, WorkerThrows, WorkerCrash, RejectJob, StartJob,
           FailBatch, FailRun, LockPointer, Publish, UndoPublish, RecordPublish
<1>6. ASSUME NEW h \in Requests,
             \/ \E k \in Hashes : Sweep(h, k)
             \/ RequestStep(h) \/ FinishFails(h) \/ RequestDies(h)
      PROVE  Moved
  BY <1>1, <1>4, <1>6
     DEF Sweep, RequestStep, FinishFails, RequestDies, Lookup, CreateRun, CheckLock, AcquireLock,
         PrepareFails, Finish, FailRequest, ReportError
<1>7. ASSUME NEW j \in Runs, ExpireLease(j)
      PROVE  Moved
  BY <1>0, <1>7 DEF ExpireLease, SetJob, JobMoves
<1>8. ASSUME NEW j \in Runs, BeatLands(j)
      PROVE  Moved
  BY <1>3, <1>8 DEF BeatLands, MayWriteProgress
<1>9. CASE StatusRecover
  BY <1>2, <1>9 DEF StatusRecover
<1>10. CASE (\E r \in Runs : AgeRun(r) \/ BeatLost(r)) \/ AgeLock
  BY <1>1, <1>10 DEF AgeRun, BeatLost, AgeLock
<1> QED
  BY <1>1, <1>4, <1>5, <1>6, <1>7, <1>8, <1>9, <1>10 DEF Next, vars

\* The job exists and its run is not under way.
Over(r) == job[r].status # "none" /\ run[r].status # "RUNNING"

LEMMA OverKeeps ==
  ASSUME IInv, PublishInv, [Next]_vars, NEW r \in Runs, Over(r)
  PROVE  Over(r)'
<1>1. RunMoves(r) /\ JobMoves(r)
  BY RunsMove, QueueMoves
<1>2. run'[r].status # "RUNNING"
  BY <1>1 DEF Over, RunMoves, Ended
<1>3. job'[r].status # "none"
  BY <1>1 DEF Over, JobMoves, Terminal, Claimed
<1> QED
  BY <1>2, <1>3 DEF Over

\* What a late heartbeat cannot do.  The update of updateJobProgress asks for no status,
\* so that it reopens a job that is complete or failed (JobReopens below); the run of the
\* job is nevertheless over for good, and no handler, worker or recovery finds it
\* RUNNING again.
THEOREM ClosedJobEndsRun ==
  Spec => \A r \in Runs : [](job[r].status \in Terminal => [](run[r].status # "RUNNING"))
<1> SUFFICES ASSUME NEW r \in Runs
             PROVE  Spec => [](job[r].status \in Terminal => [](run[r].status # "RUNNING"))
  OBVIOUS
<1>1. IInv /\ job[r].status \in Terminal => Over(r)
  BY DEF IInv, NoZombieRun, Over, Terminal
<1>2. IInv /\ PublishInv /\ Over(r) /\ [Next]_vars => Over(r)'
  BY OverKeeps
<1>3. Over(r) => run[r].status # "RUNNING"
  BY DEF Over
<1> QED
  BY <1>1, <1>2, <1>3, PublicationInvariance, PTL DEF Spec

\* A job is queued once: after its claim it is never pending again, so that a recovered
\* job is not retried (recoverStaleJobs fails it; compare worker.ts:209 on resuming).
QueuedOnce ==
  [][\A j \in Runs : job[j].status \notin Unclaimed => job'[j].status \notin Unclaimed]_vars

THEOREM JobsAreQueuedOnce == Spec => QueuedOnce
<1>1. IInv /\ PublishInv /\ [Next]_vars =>
        [\A j \in Runs : job[j].status \notin Unclaimed => job'[j].status \notin Unclaimed]_vars
  <2> SUFFICES ASSUME IInv, PublishInv, [Next]_vars, NEW j \in Runs,
                      job[j].status \notin Unclaimed
               PROVE  job'[j].status \notin Unclaimed
    OBVIOUS
  <2>1. JobMoves(j)
    BY QueueMoves
  <2> QED
    BY <2>1 DEF JobMoves, Unclaimed, Claimed, Terminal
<1> QED
  BY <1>1, PublicationInvariance, PTL DEF Spec, QueuedOnce

\* As long as the lease of a live worker does not run out, its job is claimed and leased.
WorkersAreLeased ==
  \A w \in Workers : Working(w) =>
    job[worker[w].job].status \in Claimed /\ job[worker[w].job].lease = "valid"

\* After the step the worker has the job it had before, or one that was pending.
LEMMA WorkersGoOnWith ==
  ASSUME IInv, [Next]_vars, NEW w \in Workers, Working(w)'
  PROVE  \/ Working(w) /\ worker'[w].job = worker[w].job
         \/ /\ worker'[w].job \in Runs /\ job'[worker'[w].job].status = "running"
            /\ job'[worker'[w].job].lease = "valid"
<1>0. job \in [Runs -> JobRows] /\ worker \in [Workers -> WorkerStates]
  BY DEF IInv, TypeOK, QueueTypeOK, JobRows, WorkerStates
<1>1. ASSUME NEW v \in Workers, Claim(v)
      PROVE  \/ Working(w) /\ worker'[w].job = worker[w].job
             \/ /\ worker'[w].job \in Runs /\ job'[worker'[w].job].status = "running"
                /\ job'[worker'[w].job].lease = "valid"
  <2>1. PICK j \in Runs : /\ SetJob(j, "running", "valid")
                          /\ worker' = [worker EXCEPT ![v] = At("start", j)]
    BY <1>1 DEF Claim, ClaimNextJob
  <2> QED
    BY <1>0, <2>1 DEF SetJob, At, Working
<1>2. ASSUME NEW v \in Workers, Publish(v)
      PROVE  Working(w) /\ worker'[w].job = worker[w].job
  BY <1>0, <1>2 DEF Publish, Proceed, Step, Working
<1>3. CASE \A v \in Workers : ~Claim(v) /\ ~Publish(v)
  BY <1>3, WorkersAreQuiet DEF WorkersGoOn
<1> QED
  BY <1>1, <1>2, <1>3

LEMMA LeasesKeep ==
  ASSUME ~MayStall, IInv, PublishInv, WorkersAreLeased, [Next]_vars
  PROVE  WorkersAreLeased'
<1> SUFFICES ASSUME NEW w \in Workers, Working(w)', Working(w),
                    worker'[w].job = worker[w].job
             PROVE  /\ job'[worker[w].job].status \in Claimed
                    /\ job'[worker[w].job].lease = "valid"
  BY WorkersGoOnWith DEF WorkersAreLeased, Claimed
<1> DEFINE j == worker[w].job
<1>1. j \in Runs /\ job[j].status \in Claimed /\ job[j].lease = "valid"
  BY DEF WorkersAreLeased, IInv, WorkersOwnJobs
<1>2. \A v \in Workers : Working(v) /\ worker[v].job = j => v = w
  BY DEF PublishInv, JobsAreClaimedOnce
<1>3. JobMoves(j)
  BY <1>1, QueueMoves
<1> QED
  BY <1>1, <1>2, <1>3 DEF JobMoves, Claimed

\* What a late heartbeat can do, and nothing else: while live workers keep their leases, a
\* job that is complete or failed is reopened only by a progress write that was still in
\* flight when it closed (the interval of processJob is cleared, its last write is not
\* awaited).  It becomes partial, and recoverStaleJobs fails it after 25 minutes.
JobReopens ==
  [][\A j \in Runs : job[j].status \in Terminal /\ job'[j].status \notin Terminal =>
       j \in beats /\ job'[j].status = "partial"]_vars

THEOREM OnlyBeatsReopen ==
  ASSUME ~MayStall
  PROVE  Spec => JobReopens
<1>1. Init => WorkersAreLeased
  BY DEF Init, Polling, At, WorkersAreLeased, Working
<1>2. IInv /\ PublishInv /\ WorkersAreLeased /\ [Next]_vars => WorkersAreLeased'
  BY LeasesKeep
<1>3. IInv /\ PublishInv /\ WorkersAreLeased /\ [Next]_vars =>
        [\A j \in Runs : job[j].status \in Terminal /\ job'[j].status \notin Terminal =>
           j \in beats /\ job'[j].status = "partial"]_vars
  <2> SUFFICES ASSUME IInv, PublishInv, WorkersAreLeased, [Next]_vars, NEW j \in Runs,
                      job[j].status \in Terminal, job'[j].status \notin Terminal
               PROVE  j \in beats /\ job'[j].status = "partial"
    OBVIOUS
  <2>1. JobMoves(j)
    BY QueueMoves
  <2>2. \A w \in Workers : ~(worker[w].pc \in {"batch", "infer"} /\ worker[w].job = j)
    BY DEF WorkersAreLeased, Working, Terminal, Claimed
  <2> QED
    BY <2>1, <2>2 DEF JobMoves, MayWriteProgress, Terminal, Claimed
<1> QED
  BY <1>1, <1>2, <1>3, PublicationInvariance, PTL DEF Spec, JobReopens

-----------------------------------------------------------------------------
(* When the database answers every statement *)

\* The worker never undoes its publication, a handler fails its run before it queued the
\* job only, and the active run stays published.
ErrorFree ==
  /\ \A w \in Workers : worker[w].pc # "undo"
  /\ \A h \in Requests : request[h].pc = "fail" => job[request[h].run].status = "none"
  /\ pointer # None => run[pointer].published

LEMMA NobodyUndoes ==
  ASSUME ~DbErrors, IInv, ErrorFree, [Next]_vars, NEW w \in Workers
  PROVE  worker'[w].pc # "undo"
<1>0. worker \in [Workers -> WorkerStates] /\ worker[w].pc # "undo"
  BY DEF IInv, TypeOK, WorkerStates, ErrorFree
<1>1. CASE UNCHANGED worker
  BY <1>0, <1>1
<1>2. ASSUME NEW v \in Workers, NEW pc \in WorkerPc \ {"undo"},
             NEW batch, NEW outcome, Step(v, pc, batch, outcome)
      PROVE  worker'[w].pc # "undo"
  BY <1>0, <1>2 DEF Step
<1>3. ASSUME NEW v \in Workers, NEW pc \in {"poll", "down", "start"}, NEW j,
             worker' = [worker EXCEPT ![v] = At(pc, j)]
      PROVE  worker'[w].pc # "undo"
  BY <1>0, <1>3 DEF At
<1>4. ASSUME NEW v \in Workers,
             WorkerStep(v) \/ Beat(v) \/ PublishFails(v) \/ WorkerThrows(v) \/ WorkerCrash(v)
      PROVE  worker'[w].pc # "undo"
  <2>1. CASE \/ RejectJob(v) \/ FailJob(v) \/ UndoPublish(v) \/ CompleteJob(v) \/ WorkerRestart(v)
             \/ WorkerCrash(v) \/ Claim(v)
    BY <1>3, <2>1
       DEF RejectJob, FailJob, UndoPublish, CompleteJob, WorkerRestart, WorkerCrash, Claim, Leave,
           Polling
  <2>2. CASE StartJob(v) \/ StartBatch(v) \/ FailRun(v) \/ Publish(v) \/ RecordPublish(v)
    BY <1>2, <2>2 DEF StartJob, StartBatch, FailRun, Publish, RecordPublish, Proceed, WorkerPc
  <2>3. CASE FinishBatch(v) \/ FailBatch(v)
    <3>1. PICK pc \in {"fail", "publish", "batch"},
               batch \in {worker[v].batch, Batches, worker[v].batch + 1},
               outcome \in {"none", "decisions", "failed"} :
                 Step(v, pc, batch, outcome)
      BY <1>0, <2>3 DEF FinishBatch, FailBatch, AfterBatch, Decide, WorkerStates
    <3> QED
      BY <1>2, <3>1 DEF WorkerPc
  <2>4. CASE LockPointer(v)
    BY <1>0, <2>4 DEF LockPointer, WorkerStates
  <2> QED
    BY <1>1, <1>4, <2>1, <2>2, <2>3, <2>4
       DEF WorkerStep, PollRecover, Beat, PublishFails, WorkerThrows
<1>5. CASE \/ \E h \in Requests, k \in Hashes : Sweep(h, k)
           \/ \E h \in Requests : RequestStep(h) \/ FinishFails(h) \/ RequestDies(h)
           \/ \E r \in Runs : AgeRun(r) \/ ExpireLease(r) \/ BeatLands(r) \/ BeatLost(r)
           \/ StreamEnqueue \/ StatusRecover \/ AgeLock
  BY <1>1, <1>5
     DEF Sweep, RequestStep, FinishFails, RequestDies, Lookup, CreateRun, CheckLock, AcquireLock,
         PrepareFails, Enqueue, Finish, FailRequest, ReportError, AgeRun, ExpireLease, BeatLands,
         BeatLost, StreamEnqueue, StatusRecover, AgeLock
<1> QED
  BY <1>1, <1>4, <1>5 DEF Next, vars

\* The handler h is about to fail its run after the step: it was so before, or it gives up
\* before its enqueue.
LEMMA RequestsGiveUp ==
  ASSUME ~DbErrors, IInv, PublishInv, ErrorFree, [Next]_vars, NEW h \in Requests,
         request'[h].pc = "fail"
  PROVE  request'[h].run = request[h].run /\ job[request[h].run].status = "none"
         /\ request[h].pc \in {"prepare", "fail"}
<1>0. request \in [Requests -> RequestStates]
  BY DEF IInv, TypeOK, RequestStates
<1>1. CASE request'[h] = request[h]
  BY <1>1 DEF ErrorFree
<1>2. ASSUME NEW g \in Requests,
             \/ \E k \in Hashes : Sweep(g, k)
             \/ RequestStep(g) \/ FinishFails(g) \/ RequestDies(g)
      PROVE  PrepareFails(h) \/ request'[h] = request[h]
  <2>1. CASE Respond(g)
    BY <1>0, <2>1 DEF Respond, Idle
  <2>2. CASE \E pc \in {"lookup", "create"} : \E k, r : GoTo(g, pc, k, r)
    BY <1>0, <2>2 DEF GoTo
  <2>3. CASE \E pc \in {"lock", "acquire", "prepare", "finish", "error"} : Continue(g, pc)
    BY <1>0, <2>3 DEF Continue, GoTo
  <2>4. CASE PrepareFails(g)
    BY <1>0, <2>4 DEF PrepareFails, Continue, GoTo
  <2> QED
    BY <1>2, <2>1, <2>2, <2>3, <2>4
       DEF Sweep, RequestStep, FinishFails, RequestDies, Lookup, CreateRun, CheckLock, AcquireLock,
           Enqueue, Finish, FailRequest, ReportError
<1>3. CASE PrepareFails(h)
  BY <1>0, <1>3 DEF PrepareFails, Continue, GoTo, PublishInv, EarlyRunsHaveNoJob, Early
<1>4. CASE \/ \E w \in Workers : WorkerStep(w) \/ Beat(w) \/ PublishFails(w) \/ WorkerThrows(w)
                                   \/ WorkerCrash(w)
           \/ \E r \in Runs : AgeRun(r) \/ ExpireLease(r) \/ BeatLands(r) \/ BeatLost(r)
           \/ StreamEnqueue \/ StatusRecover \/ AgeLock
  <2>1. ASSUME NEW w \in Workers, WorkerStep(w) \/ Beat(w) \/ PublishFails(w)
                                    \/ WorkerThrows(w) \/ WorkerCrash(w)
        PROVE  UNCHANGED request
    BY <2>1, WorkerMoves DEF WorkerFrame
  <2> QED
    BY <1>1, <1>4, <2>1
       DEF AgeRun, ExpireLease, BeatLands, BeatLost, StreamEnqueue, StatusRecover, AgeLock
<1> QED
  BY <1>1, <1>2, <1>3, <1>4 DEF Next, vars

\* Its run stays without a job: only the handler itself could queue one.
LEMMA NobodyQueues ==
  ASSUME ~DbErrors, IInv, PublishInv, ErrorFree, [Next]_vars, NEW h \in Requests,
         request'[h].pc = "fail"
  PROVE  job'[request'[h].run].status = "none"
<1> DEFINE r == request[h].run
<1>1. /\ request'[h].run = r /\ r \in Runs /\ job[r].status = "none"
      /\ \A g \in Requests : g # h => request[g].run # r
  BY RequestsGiveUp, OwnRun
<1>2. CASE ~StreamEnqueue /\ \A g \in Requests : ~Enqueue(g)
  BY <1>1, <1>2, QueueIsQuiet DEF QueueQuiet, NoneStays
<1>3. ASSUME NEW j \in Runs \ {r}, EnqueueJob(j)
      PROVE  job'[r].status = "none"
  BY <1>1, <1>3, EnqueueStays DEF IInv
<1>4. CASE StreamEnqueue
  BY <1>1, <1>3, <1>4 DEF StreamEnqueue, NextId, Fresh
<1>5. ASSUME NEW g \in Requests, Enqueue(g)
      PROVE  job'[r].status = "none"
  <2>1. g # h
    BY <1>5 DEF Enqueue, Continue, GoTo, IInv, TypeOK
  <2> QED
    BY <1>1, <1>3, <1>5, <2>1, OwnRun DEF Enqueue
<1> QED
  BY <1>1, <1>2, <1>4, <1>5

\* A run that is taken back has no job, so that it was never published.
LEMMA NobodyTakesBack ==
  ASSUME IInv, PublishInv, ErrorFree, [Next]_vars, NEW r \in Runs, run[r].published
  PROVE  run'[r].published
<1>1. job[r].status # "none"
  BY DEF PublishInv, MayBePublished, Untouched, Unclaimed
<1>2. ~TakenBack(r)
  BY <1>1 DEF TakenBack, ErrorFree
<1> QED
  BY <1>2, StepTakesBack

LEMMA ErrorFreeKeeps ==
  ASSUME ~DbErrors, IInv, PublishInv, ErrorFree, [Next]_vars
  PROVE  ErrorFree'
<1>1. pointer' # None => run'[pointer'].published
  <2>1. ASSUME NEW w \in Workers, Publish(w)
        PROVE  run'[pointer'].published
    BY <2>1 DEF Publish, PublishRun, Row, IInv, WorkersOwnJobs, Working
  <2>2. CASE \A w \in Workers : ~Publish(w)
    <3>1. pointer' = pointer /\ pointer \in Runs \cup {None}
      BY <2>2, LedgerIsQuiet DEF LedgerQuiet, IInv, TypeOK, LedgerTypeOK
    <3> QED
      BY <3>1, NobodyTakesBack DEF ErrorFree
  <2> QED
    BY <2>1, <2>2
<1> QED
  BY <1>1, NobodyUndoes, NobodyQueues DEF ErrorFree

\* The active run is never a failed one as long as the database answers: crashes, restarts,
\* recoveries, expired leases, stalled and concurrent workers do not take it back.  What does
\* (the run that violates FailedRunIsNotActive) is an error after the publication, in the
\* stage event of the worker or of the handler, whose catch marks the run failed.
THEOREM OnlyErrorsUnpublish ==
  ASSUME ~DbErrors
  PROVE  Spec => []FailedRunIsNotActive
<1>1. Init => ErrorFree
  BY DEF Init, LedgerInit, Polling, At, Idle, ErrorFree
<1>2. IInv /\ PublishInv /\ ErrorFree /\ [Next]_vars => ErrorFree'
  BY ErrorFreeKeeps
<1>3. IInv /\ PublishInv /\ ErrorFree => FailedRunIsNotActive
  BY DEF IInv, TypeOK, LedgerTypeOK, PublishInv, PublishedSucceeded, ErrorFree, FailedRunIsNotActive
<1> QED
  BY <1>1, <1>2, <1>3, PublicationInvariance, PTL DEF Spec

=============================================================================
