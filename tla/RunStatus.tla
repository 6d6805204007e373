----------------------------- MODULE RunStatus -----------------------------
(***************************************************************************)
(* What GET /api/cache-status says of a refresh while it is under way.     *)
(* The rows it reads are written by POST /api/cache and by the worker; it  *)
(* reads them one after the other and derives three statuses from what it  *)
(* has seen (cache-status/route.ts, pipeline-lifecycle.ts).  One refresh,  *)
(* of a tenant that may have a published run already.                      *)
(***************************************************************************)
EXTENDS Naturals

CONSTANT LlmBatches  \* batches of a job that has inputs

ASSUME RunStatusAssumption == LlmBatches \in Nat \ {0}

VARIABLES
  ledger,   \* the rows of the published run and of the run of this refresh
  active,   \* the run tenant_snapshot_pointer names
  llmJob,   \* the refresh's row of job_queue; aged: started five minutes ago
  poster,   \* the handler of POST /api/cache
  analyst,  \* the worker's processJob
  reader,   \* the handler of GET /api/cache-status and what it has read
  answer    \* its last answer, on its way to the page

statusVars == <<ledger, active, llmJob, poster, analyst, reader, answer>>
writerVars == <<ledger, active, llmJob, poster, analyst>>

\* stage is the status of the newest AI_DECISIONS event, material its mode, idle says
\* that no event is younger than 20 minutes.
LedgerRow == [status : {"none", "RUNNING", "FAILED", "SUCCEEDED"},
              stage : {"none", "IN_PROGRESS", "HEARTBEAT", "SUCCESS", "FAILED"},
              material : BOOLEAN, decisions : BOOLEAN, idle : BOOLEAN]

NoRow == [status |-> "none", stage |-> "none", material |-> TRUE, decisions |-> FALSE,
          idle |-> FALSE]
PublishedRow == [NoRow EXCEPT !.status = "SUCCEEDED", !.stage = "SUCCESS", !.decisions = TRUE]

AnalystPc == {"idle", "start", "infer", "fail", "sum up", "publish", "complete", "dead"}
View == [run : {"none", "older", "this"}, pointed : {"none", "RUNNING", "FAILED", "SUCCEEDED"},
         row : LedgerRow]
NoView == [run |-> "none", pointed |-> "none", row |-> NoRow]
Answers == [snapshot : {"NOT_READY", "READY", "FAILED"},
            llm : {"NOT_STARTED", "RUNNING", "READY", "FAILED", "FAILED_TIMEOUT"},
            pipeline : {"PENDING", "PARTIAL", "READY", "FAILED"}, missing : BOOLEAN]

RunStatusTypeOK ==
  /\ ledger \in [{"older", "this"} -> LedgerRow]
  /\ active \in {"none", "older", "this"}
  /\ llmJob \in [status : {"absent", "pending", "running", "complete", "failed"},
                 aged : BOOLEAN]
  /\ poster \in {"idle", "working", "queued", "done", "failed"}
  /\ analyst \in [pc : AnalystPc, batch : 0..LlmBatches, failed : BOOLEAN,
                  beats : 0..LlmBatches]
  /\ reader \in [pc : {"idle", "run", "stage", "count", "derive"}, view : View]
  /\ answer \in Answers

-----------------------------------------------------------------------------
(* The derivation *)

\* A published snapshot always has its row of executive_kpis.
SnapshotStatus(v) ==
  CASE v.pointed = "SUCCEEDED" -> "READY"
    [] v.pointed # "SUCCEEDED" /\ v.row.status = "FAILED" -> "FAILED"
    [] v.pointed \notin {"none", "SUCCEEDED"} /\ v.row.status # "FAILED" -> "READY"
    [] OTHER -> "NOT_READY"

LlmStatus(v) ==
  CASE v.row.status = "FAILED" \/ v.row.stage = "FAILED" -> "FAILED"
    [] v.row.status # "FAILED" /\ v.row.stage = "SUCCESS" -> "READY"
    [] v.row.status # "FAILED" /\ v.row.stage = "IN_PROGRESS" -> "RUNNING"
    [] OTHER -> "NOT_STARTED"

\* Mutant: the analysis is not asked.
Mut_SnapshotOnly(snapshot, llm) ==
  CASE snapshot = "FAILED" -> "FAILED" [] snapshot = "READY" -> "READY" [] OTHER -> "PENDING"

derivePipelineStatus(snapshot, llm) ==
  CASE snapshot = "FAILED" -> "FAILED"
    [] snapshot = "READY" -> IF llm = "READY" THEN "READY" ELSE "PARTIAL"
    [] OTHER -> "PENDING"

\* normalizeLifecycle.  Its first rule looks for the codes TIMEOUT and
\* MISSING_DECISIONS in the newest failure, which no writer uses.
Derived(v) ==
  LET snapshot == SnapshotStatus(v)
      llm == LlmStatus(v)
      missing == llm = "READY" /\ ~v.row.decisions /\ v.row.material
      late == llm = "RUNNING" /\ v.row.idle
  IN  [snapshot |-> snapshot, missing |-> missing,
       llm |-> IF missing THEN "FAILED" ELSE IF late THEN "FAILED_TIMEOUT" ELSE llm,
       pipeline |-> IF missing \/ late THEN "FAILED" ELSE derivePipelineStatus(snapshot, llm)]

RunStatusInit ==
  /\ active \in {"none", "older"}
  /\ ledger = [r \in {"older", "this"} |->
                 IF r = active THEN PublishedRow ELSE NoRow]
  /\ llmJob = [status |-> "absent", aged |-> FALSE]
  /\ poster = "idle"
  /\ analyst = [pc |-> "idle", batch |-> 0, failed |-> FALSE, beats |-> 0]
  /\ reader = [pc |-> "idle", view |-> NoView]
  /\ answer = Derived(NoView)

-----------------------------------------------------------------------------
(* POST /api/cache *)

\* An event of the AI_DECISIONS stage of this refresh.
Stage(status) == ledger' = [ledger EXCEPT !["this"].stage = status, !["this"].idle = FALSE]
FailThisRun == [ledger EXCEPT !["this"].status = "FAILED", !["this"].idle = FALSE]

BeginRefresh ==
  /\ poster = "idle"
  /\ poster' = "working"
  /\ ledger' = [ledger EXCEPT !["this"] = [NoRow EXCEPT !.status = "RUNNING"]]
  /\ UNCHANGED <<active, llmJob, analyst, reader, answer>>

\* runFastAggregation ends with the job in the queue.
QueueJob ==
  /\ poster = "working"
  /\ poster' = "queued"
  /\ llmJob' = [llmJob EXCEPT !.status = "pending"]
  /\ UNCHANGED <<ledger, active, analyst, reader, answer>>

\* The event AI_DECISIONS IN_PROGRESS, three events after the job was queued: the
\* worker may be ahead of it.
PostEvent ==
  /\ poster = "queued"
  /\ poster' = "done"
  /\ Stage("IN_PROGRESS")
  /\ UNCHANGED <<active, llmJob, analyst, reader, answer>>

\* Anything fails, with an event of another stage and markRunFailed, or the process
\* dies.  A missing LLM, found before the job is queued, is an event of this stage.
PostFails ==
  /\ poster \in {"working", "queued"}
  /\ poster' = "failed"
  /\ \/ ledger' \in {ledger, FailThisRun}
     \/ poster = "working" /\ Stage("FAILED")
     \/ poster = "working" /\ ledger' = [FailThisRun EXCEPT !["this"].stage = "FAILED"]
  /\ UNCHANGED <<active, llmJob, analyst, reader, answer>>

-----------------------------------------------------------------------------
(* The worker; RefreshPipeline has its single statements *)

AnalystGoes(pc) == analyst' = [analyst EXCEPT !.pc = pc]

\* processJob returns or dies, and its variables are gone.
AnalystLeaves(pc) == analyst' = [analyst EXCEPT !.pc = pc, !.batch = 0, !.failed = FALSE]

ClaimJob ==
  /\ llmJob.status = "pending" /\ analyst.pc = "idle"
  /\ llmJob' = [llmJob EXCEPT !.status = "running"]
  /\ AnalystGoes("start")
  /\ UNCHANGED <<ledger, active, poster, reader, answer>>

\* No input: the snapshot is published as it is.
NoCandidates ==
  /\ analyst.pc = "start"
  /\ ledger' = [ledger EXCEPT !["this"].stage = "SUCCESS", !["this"].material = FALSE,
                              !["this"].idle = FALSE]
  /\ AnalystGoes("publish")
  /\ UNCHANGED <<active, llmJob, poster, reader, answer>>

\* The runtime is looked up after the event, and may be missing.
BeginBatches ==
  /\ analyst.pc = "start"
  /\ Stage("IN_PROGRESS")
  /\ \/ analyst' = [analyst EXCEPT !.pc = "infer", !.batch = 1]
     \/ AnalystGoes("fail")
  /\ UNCHANGED <<active, llmJob, poster, reader, answer>>

NextBatch(a) ==
  IF a.batch = LlmBatches THEN [a EXCEPT !.pc = "sum up"] ELSE [a EXCEPT !.batch = @ + 1]

\* The decisions are committed and a HEARTBEAT event sent that nobody waits for.
BatchAnswers ==
  /\ analyst.pc = "infer"
  /\ ledger' \in {ledger, [ledger EXCEPT !["this"].decisions = TRUE]}
  /\ analyst' = NextBatch([analyst EXCEPT !.beats = @ + 1])
  /\ UNCHANGED <<active, llmJob, poster, reader, answer>>

\* The event is inserted, or lost.
HeartbeatEnds ==
  /\ analyst.beats > 0
  /\ analyst' = [analyst EXCEPT !.beats = @ - 1]
  /\ \/ Stage("HEARTBEAT")
     \/ UNCHANGED ledger
  /\ UNCHANGED <<active, llmJob, poster, reader, answer>>

\* A timeout or a missing LLM ends the loop, another error the batch.
BatchBreaks ==
  /\ analyst.pc = "infer"
  /\ Stage("FAILED")
  /\ \/ AnalystGoes("fail")
     \/ analyst' = NextBatch([analyst EXCEPT !.failed = TRUE])
  /\ UNCHANGED <<active, llmJob, poster, reader, answer>>

\* Mutant: a job that produced nothing succeeds.
Mut_NothingIsSuccess ==
  /\ analyst.pc = "sum up" /\ ~analyst.failed
  /\ Stage("SUCCESS")
  /\ AnalystGoes("publish")
  /\ UNCHANGED <<active, llmJob, poster, reader, answer>>

AnalysisSucceeds ==
  /\ analyst.pc = "sum up" /\ ~analyst.failed /\ ledger["this"].decisions
  /\ Stage("SUCCESS")
  /\ AnalystGoes("publish")
  /\ UNCHANGED <<active, llmJob, poster, reader, answer>>

\* A failed batch, no decision, or no runtime: event, run and job.
AnalysisFails ==
  /\ \/ analyst.pc = "fail"
     \/ analyst.pc = "sum up" /\ (analyst.failed \/ ~ledger["this"].decisions)
  /\ ledger' = [FailThisRun EXCEPT !["this"].stage = "FAILED"]
  /\ llmJob' = [llmJob EXCEPT !.status = "failed"]
  /\ AnalystLeaves("idle")
  /\ UNCHANGED <<active, poster, reader, answer>>

PublishThisRun ==
  /\ analyst.pc = "publish"
  /\ ledger' = [ledger EXCEPT !["this"].status = "SUCCEEDED", !["this"].idle = FALSE]
  /\ active' = "this"
  /\ AnalystGoes("complete")
  /\ UNCHANGED <<llmJob, poster, reader, answer>>

\* The transaction or the event after it fails: an event of the stage PUBLISH,
\* markRunFailed, and an exception that leaves the job.  A job without inputs has no
\* catch here.
PublishBreaks ==
  /\ analyst.pc \in {"publish", "complete"} /\ analyst.batch > 0
  /\ ledger' = FailThisRun
  /\ AnalystLeaves("dead")
  /\ UNCHANGED <<active, llmJob, poster, reader, answer>>

JobDone ==
  /\ analyst.pc = "complete"
  /\ llmJob' = [llmJob EXCEPT !.status = "complete"]
  /\ AnalystLeaves("idle")
  /\ UNCHANGED <<ledger, active, poster, reader, answer>>

AnalystDies ==
  /\ analyst.pc \notin {"idle", "dead"}
  /\ AnalystLeaves("dead")
  /\ UNCHANGED <<ledger, active, llmJob, poster, reader, answer>>

\* recoverStaleJobs, once the lease is over: GET /api/cache-status begins with it.
RecoverJob ==
  /\ analyst.pc = "dead"
  /\ llmJob' = [llmJob EXCEPT !.status = "failed"]
  /\ ledger' = IF ledger["this"].status = "RUNNING"
                 THEN [ledger EXCEPT !["this"].status = "FAILED"] ELSE ledger
  /\ AnalystLeaves("idle")
  /\ UNCHANGED <<active, poster, reader, answer>>

AnalystStep ==
  ClaimJob \/ NoCandidates \/ BeginBatches \/ BatchAnswers \/ BatchBreaks
    \/ AnalysisSucceeds \/ AnalysisFails \/ PublishThisRun \/ PublishBreaks \/ JobDone

\* Twenty minutes without an event, which only an analysis in progress is asked about;
\* five minutes since the job was claimed.
TimePasses ==
  /\ \/ /\ ledger["this"].stage = "IN_PROGRESS" /\ ~ledger["this"].idle
        /\ ledger' = [ledger EXCEPT !["this"].idle = TRUE]
        /\ UNCHANGED llmJob
     \/ /\ llmJob.status = "running" /\ ~llmJob.aged
        /\ llmJob' = [llmJob EXCEPT !.aged = TRUE]
        /\ UNCHANGED ledger
  /\ UNCHANGED <<active, poster, analyst, reader, answer>>

-----------------------------------------------------------------------------
(* GET /api/cache-status *)

ReadPointer ==
  /\ reader.pc = "idle"
  /\ reader' = [pc |-> "run", view |->
       [NoView EXCEPT !.pointed = IF active = "none" THEN "none" ELSE ledger[active].status]]
  /\ UNCHANGED <<writerVars, answer>>

NewestRun ==
  CASE ledger["this"].status # "none" -> "this"
    [] ledger["this"].status = "none" /\ ledger["older"].status # "none" -> "older"
    [] OTHER -> "none"

ReadRun ==
  /\ reader.pc = "run"
  /\ reader' = [pc |-> "stage", view |->
       [reader.view EXCEPT !.run = NewestRun, !.row.status =
          IF NewestRun = "none" THEN "none" ELSE ledger[NewestRun].status]]
  /\ UNCHANGED <<writerVars, answer>>

\* The row of the run this handler reads about.
Read == IF reader.view.run = "none" THEN NoRow ELSE ledger[reader.view.run]

\* The newest event of the stage, whatever its status.
ReadStage ==
  /\ reader.pc = "stage"
  /\ reader' = [pc |-> "count", view |->
       [reader.view EXCEPT !.row.stage = Read.stage, !.row.material = Read.material]]
  /\ UNCHANGED <<writerVars, answer>>

ReadCount ==
  /\ reader.pc = "count"
  /\ reader' = [pc |-> "derive", view |-> [reader.view EXCEPT !.row.decisions = Read.decisions]]
  /\ UNCHANGED <<writerVars, answer>>

\* The time of the last event, and the answer.
Answer ==
  /\ reader.pc = "derive"
  /\ answer' = Derived([reader.view EXCEPT !.row.idle = Read.idle])
  /\ reader' = [pc |-> "idle", view |-> NoView]
  /\ UNCHANGED writerVars

ReaderStep == ReadPointer \/ ReadRun \/ ReadStage \/ ReadCount \/ Answer

RunStatusNext ==
  \/ BeginRefresh \/ QueueJob \/ PostEvent \/ PostFails
  \/ AnalystStep \/ HeartbeatEnds \/ AnalystDies \/ RecoverJob \/ TimePasses
  \/ ReaderStep

RunStatusSpec == RunStatusInit /\ [][RunStatusNext]_statusVars

-----------------------------------------------------------------------------
(* Properties *)

\* The answer the handler is about to give; only the idle time is still to be read.
AboutToSay == Derived(reader.view)

\* The dashboard is never told that decisions are missing from an analysis that
\* succeeded: the handler reads the stage first and the count afterwards, the worker
\* commits decisions first and the event afterwards.
NoFalseAlarm == reader.pc = "derive" => ~AboutToSay.missing

\* READY stands for a published snapshot, and for an analysis of the newest run that
\* has persisted decisions or had nothing to decide, however the reads and the
\* writes of three processes interleave.
ReadyIsBacked ==
  reader.pc = "derive" /\ AboutToSay.pipeline = "READY" =>
    /\ active # "none"
    /\ LET row == ledger[reader.view.run] IN row.decisions \/ ~row.material

=============================================================================
