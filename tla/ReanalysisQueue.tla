-------------------------- MODULE ReanalysisQueue --------------------------
(***************************************************************************)
(* The reanalysis queue and its daily budget: enqueueReanalysisJob inside  *)
(* the caller's transaction, processReanalysisQueue over the QUEUED jobs,  *)
(* and the scheduler calls (getNextJobToExecute, startJobExecution,        *)
(* completeJobExecution, failJobExecution) over the PENDING ones.  The     *)
(* model covers one budget date.                                           *)
(***************************************************************************)
EXTENDS Naturals, FiniteSets

CONSTANTS
  ReJobs,      \* rows of reanalysis_job_queue
  Enqueuers,   \* transactions that enqueue
  Schedulers,  \* callers of getNextJobToExecute
  ReTiers,     \* the priority tiers that occur
  BudgetMax,   \* budget_max_reanalyses of the day
  TierLimit    \* maxConcurrentJobs of each tier

ASSUME ReanalysisAssumption ==
  /\ IsFiniteSet(ReJobs) /\ IsFiniteSet(Schedulers)
  /\ "EMERGENCY" \in ReTiers
  /\ BudgetMax \in Nat
  /\ TierLimit \in [ReTiers -> Nat \ {0}]

VARIABLES
  reJob,     \* reanalysis_job_queue
  budget,    \* the day's row of reanalysis_budget_ledger
  enqueuer,  \* what each enqueuing transaction has read
  batch,     \* the jobs processReanalysisQueue has selected and not finished
  chosen,    \* the job each scheduler has got or is executing
  overlapped \* an enqueue has committed over a budget it had not read

reanalysisVars == <<reJob, budget, enqueuer, batch, chosen, overlapped>>

NoBudget == [status |-> "none", remaining |-> 0]
NewBudget == [status |-> "AVAILABLE", remaining |-> BudgetMax]
NotReading == [job |-> "none"]
NotChosen == [job |-> "none"]

BudgetRows == [status : {"none", "AVAILABLE", "EXHAUSTED"}, remaining : 0..BudgetMax]

MaxRetries == 3

ReanalysisTypeOK ==
  /\ reJob \in [ReJobs ->
       [state : {"absent", "PENDING", "QUEUED", "DEFERRED", "PROCESSING",
                 "COMPLETED", "FAILED"},
        tier : ReTiers, attempts : 0..MaxRetries + Cardinality(Schedulers)]]
  /\ budget \in BudgetRows
  /\ enqueuer \in [Enqueuers ->
       {NotReading} \cup [job : ReJobs, tier : ReTiers, read : BudgetRows]]
  /\ batch \subseteq ReJobs
  /\ chosen \in [Schedulers -> {NotChosen} \cup [job : ReJobs, running : BOOLEAN]]
  /\ overlapped \in BOOLEAN

ReanalysisInit ==
  /\ reJob = [j \in ReJobs |-> [state |-> "absent", tier |-> "EMERGENCY", attempts |-> 0]]
  /\ budget = NoBudget
  /\ enqueuer = [e \in Enqueuers |-> NotReading]
  /\ batch = {}
  /\ chosen = [s \in Schedulers |-> NotChosen]
  /\ overlapped = FALSE

-----------------------------------------------------------------------------
(* enqueueReanalysisJob *)

\* The budget is read, or the day's row computed.
ReadBudget(e, j, tier) ==
  /\ enqueuer[e] = NotReading
  /\ reJob[j].state = "absent" /\ \A o \in Enqueuers : enqueuer[o].job # j
  /\ enqueuer' = [enqueuer EXCEPT ![e] = [job |-> j, tier |-> tier, read |-> budget]]
  /\ UNCHANGED <<reJob, budget, batch, chosen, overlapped>>

Seen(e) == IF enqueuer[e].read = NoBudget THEN NewBudget ELSE enqueuer[e].read

\* Mutant: a job the budget has no room for is queued like the others.
Mut_NeverDeferred(tier, row) == IF tier = "EMERGENCY" THEN "QUEUED" ELSE "PENDING"

FirstState(tier, row) ==
  CASE tier = "EMERGENCY" -> "QUEUED"
    [] tier # "EMERGENCY" /\ (row.status = "EXHAUSTED" \/ row.remaining = 0) -> "DEFERRED"
    [] OTHER -> "PENDING"

\* Mutant: the status is not kept in step with what is left.
Mut_StatusForgotten(row) ==
  [row EXCEPT !.status = "EXHAUSTED", !.remaining = IF @ = 0 THEN 0 ELSE @ - 1]

\* The budget one job less, and exhausted with the last one.
Spend(row) ==
  LET left == IF row.remaining = 0 THEN 0 ELSE row.remaining - 1
  IN  [status |-> IF left = 0 THEN "EXHAUSTED" ELSE row.status, remaining |-> left]

\* The transaction commits: job and budget become visible, the budget as an absolute
\* value.  Two transactions cannot both create the row of the day.
CommitEnqueue(e) ==
  LET tier == enqueuer[e].tier
      first == FirstState(tier, Seen(e))
      creates == enqueuer[e].read = NoBudget
  IN
  /\ enqueuer[e] # NotReading
  /\ enqueuer' = [enqueuer EXCEPT ![e] = NotReading]
  /\ IF creates /\ budget # NoBudget
       THEN UNCHANGED <<reJob, budget, overlapped>>
       ELSE /\ reJob' = [reJob EXCEPT ![enqueuer[e].job] =
                 [state |-> first, tier |-> tier, attempts |-> 0]]
            /\ budget' = CASE first # "DEFERRED" -> Spend(Seen(e))
                           [] first = "DEFERRED" /\ creates -> Seen(e)
                           [] OTHER -> budget
            /\ overlapped' = (overlapped \/ budget # enqueuer[e].read)
  /\ UNCHANGED <<batch, chosen>>

\* The caller's transaction rolls back.
RollBackEnqueue(e) ==
  /\ enqueuer[e] # NotReading
  /\ enqueuer' = [enqueuer EXCEPT ![e] = NotReading]
  /\ UNCHANGED <<reJob, budget, batch, chosen, overlapped>>

-----------------------------------------------------------------------------
(* processReanalysisQueue *)

SelectQueued ==
  /\ batch = {} /\ \E j \in ReJobs : reJob[j].state = "QUEUED"
  /\ batch' = {j \in ReJobs : reJob[j].state = "QUEUED"}
  /\ UNCHANGED <<reJob, budget, enqueuer, chosen, overlapped>>

WorkerStarts(j) ==
  /\ j \in batch /\ reJob[j].state = "QUEUED"
  /\ \A k \in batch : reJob[k].state # "PROCESSING"
  /\ reJob' = [reJob EXCEPT ![j].state = "PROCESSING"]
  /\ UNCHANGED <<budget, enqueuer, batch, chosen, overlapped>>

AttemptLimit(tier) == CASE tier = "EMERGENCY" -> 3 [] tier = "CRITICAL" -> 2 [] OTHER -> 1

\* The job is done, or goes back to PENDING, or has been tried too often.
WorkerEnds(j) ==
  /\ j \in batch /\ reJob[j].state = "PROCESSING"
  /\ batch' = batch \ {j}
  /\ \/ reJob' = [reJob EXCEPT ![j].state = "COMPLETED"]
     \/ IF reJob[j].attempts < AttemptLimit(reJob[j].tier)
          THEN reJob' = [reJob EXCEPT ![j].state = "PENDING", ![j].attempts = @ + 1]
          ELSE reJob' = [reJob EXCEPT ![j].state = "FAILED"]
  /\ UNCHANGED <<budget, enqueuer, chosen, overlapped>>

\* The worker dies: nobody selects a PROCESSING job again.
WorkerDies ==
  /\ batch # {}
  /\ batch' = {}
  /\ UNCHANGED <<reJob, budget, enqueuer, chosen, overlapped>>

-----------------------------------------------------------------------------
(* The scheduler calls *)

Running(tier) == {j \in ReJobs : reJob[j].state = "PROCESSING" /\ reJob[j].tier = tier}

\* Mutant: the limit counts nothing.
Mut_NoLimit(tier) == TRUE

HasRoom(tier) == Cardinality(Running(tier)) < TierLimit[tier]

\* getNextJobToExecute.  A tier is passed over at its limit; that its hour is used up
\* or its jobs are not due yet is left open.
GetNext(s, j) ==
  /\ chosen[s] = NotChosen
  /\ reJob[j].state = "PENDING" /\ HasRoom(reJob[j].tier)
  /\ chosen' = [chosen EXCEPT ![s] = [job |-> j, running |-> FALSE]]
  /\ UNCHANGED <<reJob, budget, enqueuer, batch, overlapped>>

\* startJobExecution does not look at the state.
StartExecution(s) ==
  /\ chosen[s] # NotChosen /\ ~chosen[s].running
  /\ chosen' = [chosen EXCEPT ![s].running = TRUE]
  /\ reJob' = [reJob EXCEPT ![chosen[s].job].state = "PROCESSING",
                            ![chosen[s].job].attempts = @ + 1]
  /\ UNCHANGED <<budget, enqueuer, batch, overlapped>>

CompleteExecution(s) ==
  /\ chosen[s] # NotChosen /\ chosen[s].running
  /\ chosen' = [chosen EXCEPT ![s] = NotChosen]
  /\ reJob' = [reJob EXCEPT ![chosen[s].job].state = "COMPLETED"]
  /\ UNCHANGED <<budget, enqueuer, batch, overlapped>>

FailExecution(s) ==
  /\ chosen[s] # NotChosen /\ chosen[s].running
  /\ chosen' = [chosen EXCEPT ![s] = NotChosen]
  /\ reJob' = [reJob EXCEPT ![chosen[s].job].state =
       IF reJob[chosen[s].job].attempts >= MaxRetries THEN "FAILED" ELSE "PENDING"]
  /\ UNCHANGED <<budget, enqueuer, batch, overlapped>>

\* The process dies: the job keeps its state, and its place in the tier's limit.
SchedulerDies(s) ==
  /\ chosen[s] # NotChosen
  /\ chosen' = [chosen EXCEPT ![s] = NotChosen]
  /\ UNCHANGED <<reJob, budget, enqueuer, batch, overlapped>>

-----------------------------------------------------------------------------
ReanalysisNext ==
  \/ \E e \in Enqueuers :
       \/ \E j \in ReJobs, tier \in ReTiers : ReadBudget(e, j, tier)
       \/ CommitEnqueue(e) \/ RollBackEnqueue(e)
  \/ SelectQueued \/ WorkerDies
  \/ \E j \in ReJobs : WorkerStarts(j) \/ WorkerEnds(j)
  \/ \E s \in Schedulers :
       \/ \E j \in ReJobs : GetNext(s, j)
       \/ StartExecution(s) \/ CompleteExecution(s) \/ FailExecution(s) \/ SchedulerDies(s)

ReanalysisSpec == ReanalysisInit /\ [][ReanalysisNext]_reanalysisVars

-----------------------------------------------------------------------------
(* Properties *)

Admitted == {j \in ReJobs : reJob[j].tier # "EMERGENCY" /\
                            reJob[j].state \notin {"absent", "DEFERRED"}}

\* As long as no enqueue has overwritten a budget it had not read, the jobs let in
\* never exceed what the budget has lost: enqueueReanalysisJob loses a decrement
\* only to a concurrent enqueue, never to the order of tiers or to a rollback.
HonestBudget ==
  ~overlapped /\ budget # NoBudget =>
    Cardinality(Admitted) + budget.remaining <= BudgetMax

\* EXHAUSTED is written only with nothing left, even over lost updates: a day called
\* exhausted has no job to give, and one that lost its last job is called exhausted.
ExhaustedMeansNothingLeft ==
  budget # NoBudget /\ BudgetMax > 0 => (budget.status = "EXHAUSTED" <=> budget.remaining = 0)

\* getNextJobToExecute counts the running jobs of a tier and startJobExecution acts on
\* it later: schedulers that race overshoot the limit, by one for each other scheduler.
BoundedOvershoot ==
  \A tier \in ReTiers \ {"EMERGENCY"} :
    Cardinality(Running(tier)) < TierLimit[tier] + Cardinality(Schedulers)

=============================================================================
