----------------------------- MODULE Dashboard -----------------------------
(***************************************************************************)
(* The dashboard page (apps/web/app/page.tsx) over RunStatus: it learns of *)
(* a refresh from cache-status, from the poll of the job, from the stream  *)
(* behind JobStatusToast and from the latest job, each with its own delay, *)
(* and keeps its own idea of the run.  One refresh; no reload of the page. *)
(***************************************************************************)
EXTENDS RunStatus

VARIABLES
  page,   \* pipelineRun.status, activeJobId, and the requests on their way
  shown   \* cacheStatus.activeState

dashVars == <<statusVars, page, shown>>

JobSeen == {"none", "absent", "pending", "running", "complete", "failed"}

\* load: what a running load has asked for; seen: the latest job it got; timer: the
\* 350 ms before a success is shown.
DashTypeOK ==
  /\ RunStatusTypeOK
  /\ page \in [run : {"idle", "running", "complete", "failed"}, live : BOOLEAN,
               post : {"no", "sent", "answered"}, timer : BOOLEAN,
               load : {"no", "state", "summary", "job"}, seen : JobSeen]
  /\ shown \in Answers

DashInit ==
  /\ RunStatusInit
  /\ page = [run |-> "idle", live |-> FALSE, post |-> "no", timer |-> FALSE,
             load |-> "no", seen |-> "none"]
  /\ shown \in {Derived([run |-> active, row |-> ledger["older"],
                         pointed |-> IF active = "none" THEN "none" ELSE "SUCCEEDED"])}

\* The effect that closes a running pipeline when the lifecycle is READY or FAILED.
Closed(p, s) ==
  IF p.run = "running" /\ s.pipeline = "READY" /\ s.llm = "READY"
    THEN [p EXCEPT !.run = "complete", !.live = FALSE]
  ELSE IF p.run = "running" /\ s.pipeline = "FAILED"
    THEN [p EXCEPT !.run = "failed", !.live = FALSE]
  ELSE p

Page(p) == page' = Closed(p, shown) /\ UNCHANGED shown

\* handleRefresh up to its POST.
Click ==
  /\ page.post = "no"
  /\ Page([page EXCEPT !.run = "running", !.post = "sent"])
  /\ UNCHANGED statusVars

\* The POST is answered with the job's id, or fails.
PostAnswered ==
  /\ page.post = "sent" /\ page.load = "no"
  /\ \/ poster = "done" /\ Page([page EXCEPT !.post = "answered", !.live = TRUE, !.load = "state"])
     \/ poster = "failed" /\ Page([page EXCEPT !.post = "answered", !.run = "failed"])
  /\ UNCHANGED statusVars

\* Mutant: the id of the finished job is kept.
Mut_KeepActive(p) == [p EXCEPT !.timer = TRUE, !.run = "running"]

\* finalizePipelineSuccess
Finalized(p) == [p EXCEPT !.live = FALSE, !.timer = TRUE, !.run = "running"]

TimerFires ==
  /\ page.timer
  /\ Page([page EXCEPT !.timer = FALSE, !.run = "complete"])
  /\ UNCHANGED statusVars

\* The interval that reconciles with GET /api/job-status.
PollJob ==
  /\ page.live /\ page.run = "running"
  /\ \/ llmJob.status = "complete" /\ Page(Finalized(page))
     \/ llmJob.status = "failed" /\ Page([page EXCEPT !.live = FALSE, !.run = "failed"])
  /\ UNCHANGED statusVars

\* A message of the stream, as long as JobStatusToast is mounted.
StreamMessage ==
  /\ page.live
  /\ \/ llmJob.status = "running" /\ Page([page EXCEPT !.run = "running"])
     \/ llmJob.status = "complete" /\ Page(Finalized(page))
     \/ llmJob.status = "failed" /\ Page([page EXCEPT !.run = "failed"])
  /\ UNCHANGED statusVars

\* useSmartPolling while the snapshot is ready and the analysis runs: loadDashboardState.
PollDashboard ==
  /\ page.load = "no" /\ shown.snapshot = "READY" /\ shown.llm = "RUNNING"
  /\ page' = [page EXCEPT !.load = "state"]
  /\ UNCHANGED <<statusVars, shown>>

\* fetchSummary, after a success and at every governance event.
FetchSummary ==
  /\ page.load = "no" /\ page.post = "answered"
  /\ page' = [page EXCEPT !.load = "summary"]
  /\ UNCHANGED <<statusVars, shown>>

\* The steps of cache-status; its answer reaches the page, and is shown at once or
\* together with the latest job.
StatusRead ==
  /\ page.load \in {"state", "summary"}
  /\ ReaderStep
  /\ CASE reader.pc = "derive" /\ page.load = "state" ->
            page' = [page EXCEPT !.load = "job"] /\ UNCHANGED shown
       [] reader.pc = "derive" /\ page.load = "summary" ->
            page' = Closed([page EXCEPT !.load = "no"], answer') /\ shown' = answer'
       [] OTHER -> UNCHANGED <<page, shown>>

ReadLatestJob ==
  /\ page.load = "job" /\ page.seen = "none"
  /\ page' = [page EXCEPT !.seen = llmJob.status]
  /\ UNCHANGED <<statusVars, shown>>

\* A job claimed more than five minutes ago is taken for abandoned, and shown as complete.
Hydrated(p) ==
  CASE p.seen \in {"pending", "running"} /\ llmJob.aged ->
         [p EXCEPT !.live = FALSE, !.run = "complete"]
    [] p.seen \in {"pending", "running"} /\ ~llmJob.aged ->
         [p EXCEPT !.live = TRUE, !.run = "running"]
    [] p.seen \in {"complete", "failed"} -> [p EXCEPT !.run = p.seen]
    [] OTHER -> p

ApplyState ==
  /\ page.load = "job" /\ page.seen # "none"
  /\ shown' = answer
  /\ page' = Closed([Hydrated(page) EXCEPT !.load = "no", !.seen = "none"], answer)
  /\ UNCHANGED statusVars

PageStep ==
  PostAnswered \/ TimerFires \/ PollJob \/ StatusRead \/ ReadLatestJob \/ ApplyState

\* The writers of RunStatus; the POST is the page's.
Writers ==
  /\ \/ page.post = "sent" /\ BeginRefresh
     \/ QueueJob \/ PostEvent \/ PostFails
     \/ AnalystStep \/ HeartbeatEnds \/ AnalystDies \/ RecoverJob \/ TimePasses
  /\ UNCHANGED <<page, shown>>

DashNext ==
  Click \/ PageStep \/ StreamMessage \/ PollDashboard \/ FetchSummary \/ Writers

DashSpec == DashInit /\ [][DashNext]_dashVars

\* Handlers answer, the worker works and is recovered from, timers fire and requests
\* of the page are answered.  The stream may be silent.
DashFairness ==
  /\ WF_dashVars(page.post = "sent" /\ BeginRefresh /\ UNCHANGED <<page, shown>>)
  /\ WF_dashVars((QueueJob \/ PostEvent \/ PostFails) /\ UNCHANGED <<page, shown>>)
  /\ WF_dashVars((AnalystStep \/ RecoverJob) /\ UNCHANGED <<page, shown>>)
  /\ WF_dashVars(PageStep)
  /\ WF_dashVars(PollJob)
  /\ WF_dashVars(TimerFires)

DashFairSpec == DashSpec /\ DashFairness

-----------------------------------------------------------------------------
\* A page never shows a refresh as running for ever: the poll of the job, the stream,
\* the hydration by an old answer and the lifecycle effect may overtake each other,
\* but once the job has ended they all come to rest at an ended run.
RefreshEndsOnPage == <>[](page.run # "running")

=============================================================================
