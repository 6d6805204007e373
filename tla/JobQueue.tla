------------------------------ MODULE JobQueue ------------------------------
(***************************************************************************)
(* The table job_queue and the statements of job-service.ts.  A job is     *)
(* named by the run id of its payload.  None of the updates asks for the   *)
(* job's present status.                                                   *)
(***************************************************************************)
EXTENDS PipelineLedger

VARIABLE job   \* status, lease_expires_at, rank in created_at order

JobStatus == {"none", "pending", "running", "partial", "complete", "failed"}
Terminal  == {"complete", "failed"}
Claimed   == {"running", "partial"}

QueueTypeOK ==
  job \in [Runs -> [status : JobStatus, lease : {"none", "valid", "expired"},
                    rank : Nat]]

QueueInit == job = [j \in Runs |-> [status |-> "none", lease |-> "none", rank |-> 0]]

-----------------------------------------------------------------------------
SetJob(j, status, lease) ==
  job' = [job EXCEPT ![j] = [status |-> status, lease |-> lease, rank |-> job[j].rank]]

EnqueueJob(j) ==
  job' = [job EXCEPT ![j] =
    [status |-> "pending", lease |-> "none",
     rank |-> Cardinality({x \in Runs : job[x].status # "none"}) + 1]]

\* claimNextJob: the oldest pending job.  FOR UPDATE SKIP LOCKED makes the read
\* and the update one step.
NextPending ==
  {j \in Runs : /\ job[j].status = "pending"
                /\ \A x \in Runs : job[x].status = "pending" => job[j].rank <= job[x].rank}

ClaimNextJob(j) == j \in NextPending /\ SetJob(j, "running", "valid")

UpdateJobProgress(j) == SetJob(j, "partial", "valid")

SetJobComplete(j) == SetJob(j, "complete", "none")

SetJobFailed(j) == SetJob(j, "failed", "none")

\* Mutant: only running jobs are looked at.
Mut_RunningOnly == {j \in Runs : job[j].status = "running" /\ job[j].lease = "expired"}

\* The jobs recoverStaleJobs selects: claimed jobs whose lease is over (25 minutes;
\* a last heartbeat older than 30 implies it).  A pending job has no lease.
StaleJobs == {j \in Runs : job[j].status \in Claimed /\ job[j].lease = "expired"}

\* Mutant: the runs of the recovered jobs are left alone.
Mut_JobsOnly == {}

\* Mutant: a run that ended is failed as well.
Mut_AnyAffected == {r \in StaleJobs : run[r].status # "none"}

\* The runs it fails with them, in the same statement.
AffectedRuns == {r \in StaleJobs : run[r].status = "RUNNING"}

\* recoverStaleJobs; a worker restart fails the runs of cutoff as well.
RecoverStaleJobs(cutoff) ==
  /\ job' = [j \in Runs |->
       IF j \in StaleJobs
       THEN [status |-> "failed", lease |-> "none", rank |-> job[j].rank]
       ELSE job[j]]
  /\ FailRuns(AffectedRuns \cup cutoff)

=============================================================================
