------------------------ MODULE ReanalysisQueueProofs ------------------------
(***************************************************************************)
(* Proofs about ReanalysisQueue for every finite set of jobs and           *)
(* schedulers, every budget and every limit of a tier.                     *)
(*                                                                         *)
(* BoundedOvershoot needs to count the schedulers that have got a job of   *)
(* the tier and not started it: each of them takes one more place without  *)
(* looking (StartsFit).  HonestBudget needs to know what the rows that the *)
(* enqueuing transactions have read were worth (RowsAreGood), that their   *)
(* jobs are new (EnqueuersOwnJobs), and that a deferred job is never taken *)
(* up again (WorkIsAdmitted).                                              *)
(***************************************************************************)
EXTENDS ReanalysisQueue, FiniteSetTheorems, TLAPS

Left == {"absent", "DEFERRED"}

\* A transaction enqueues a job that is not there yet, and no other does.
EnqueuersOwnJobs ==
  \A e \in Enqueuers : enqueuer[e] # NotReading =>
    /\ reJob[enqueuer[e].job].state = "absent"
    /\ \A o \in Enqueuers \ {e} :
         enqueuer[o] # NotReading => enqueuer[o].job # enqueuer[e].job

\* A row is marked exhausted just when nothing is left of it.
GoodRow(row) ==
  \/ row = NoBudget
  \/ /\ row.status # "none"
     /\ BudgetMax > 0 => (row.status = "EXHAUSTED" <=> row.remaining = 0)

\* The day's row and each row read are good ones; who has read a row has seen the
\* day's, which is never taken away.
RowsAreGood ==
  /\ GoodRow(budget)
  /\ \A e \in Enqueuers : enqueuer[e] # NotReading =>
       /\ GoodRow(enqueuer[e].read)
       /\ enqueuer[e].read # NoBudget => budget # NoBudget

\* The first job makes the day's row.
NoBudgetNoJobs == budget = NoBudget => \A j \in ReJobs : reJob[j].state = "absent"

\* Worker and schedulers hold jobs that were let in.
WorkIsAdmitted ==
  /\ \A j \in batch : reJob[j].state \notin Left
  /\ \A s \in Schedulers : chosen[s] # NotChosen => reJob[chosen[s].job].state \notin Left

\* The worker's own jobs are the emergencies.
QueuedIsEmergency == \A j \in ReJobs : reJob[j].state = "QUEUED" => reJob[j].tier = "EMERGENCY"

Holding(s) == chosen[s] # NotChosen /\ ~chosen[s].running

\* The schedulers that are about to start the job.
Holders(j) == {s \in Schedulers : Holding(s) /\ chosen[s].job = j}

\* Each of them makes one more attempt.
AttemptsFit ==
  \A j \in ReJobs :
    /\ reJob[j].attempts + Cardinality(Holders(j)) <= MaxRetries + Cardinality(Schedulers)
    /\ reJob[j].state = "PENDING" => reJob[j].attempts <= MaxRetries

\* The schedulers that are about to start a job of the tier.
TierHolders(tier) == {s \in Schedulers : Holding(s) /\ reJob[chosen[s].job].tier = tier}

\* Each of them takes one more place of the tier.
StartsFit ==
  \A tier \in ReTiers \ {"EMERGENCY"} :
    Cardinality(Running(tier)) + Cardinality(TierHolders(tier))
      < TierLimit[tier] + Cardinality(Schedulers)

QueueInv ==
  /\ ReanalysisTypeOK /\ EnqueuersOwnJobs /\ RowsAreGood /\ NoBudgetNoJobs
  /\ WorkIsAdmitted /\ QueuedIsEmergency /\ AttemptsFit /\ StartsFit /\ HonestBudget

-----------------------------------------------------------------------------
(* Lemmas about counting *)

LEMMA FewerCount ==
  ASSUME NEW T, IsFiniteSet(T), NEW S, S \subseteq T
  PROVE  /\ IsFiniteSet(S) /\ Cardinality(S) \in Nat /\ Cardinality(T) \in Nat
         /\ Cardinality(S) <= Cardinality(T)
BY FS_Subset, FS_CardinalityType

LEMMA OneFewerCount ==
  ASSUME NEW T, IsFiniteSet(T), NEW x \in T, NEW S, S \subseteq T \ {x}
  PROVE  Cardinality(S) + 1 <= Cardinality(T)
<1>1. IsFiniteSet(T \ {x}) /\ Cardinality(T \ {x}) = Cardinality(T) - 1
  BY FS_RemoveElement
<1> QED
  BY <1>1, FS_CardinalityType, FewerCount

LEMMA OneMoreCount ==
  ASSUME NEW T, IsFiniteSet(T), NEW x, NEW S, S \subseteq T \cup {x}
  PROVE  IsFiniteSet(S) /\ Cardinality(S) <= Cardinality(T) + 1
<1>1. /\ IsFiniteSet(T \cup {x})
      /\ Cardinality(T \cup {x}) = Cardinality(T) \/ Cardinality(T \cup {x}) = Cardinality(T) + 1
  BY FS_AddElement
<1> QED
  BY <1>1, FS_CardinalityType, FewerCount

\* The sets that the invariant counts are finite.
LEMMA QueueCounts ==
  /\ Cardinality(Schedulers) \in Nat
  /\ IsFiniteSet(Admitted) /\ Cardinality(Admitted) \in Nat
  /\ \A tier : /\ IsFiniteSet(Running(tier)) /\ Cardinality(Running(tier)) \in Nat
               /\ IsFiniteSet(TierHolders(tier)) /\ Cardinality(TierHolders(tier)) \in Nat
               /\ Cardinality(TierHolders(tier)) <= Cardinality(Schedulers)
  /\ \A j : /\ IsFiniteSet(Holders(j)) /\ Cardinality(Holders(j)) \in Nat
            /\ Cardinality(Holders(j)) <= Cardinality(Schedulers)
<1>1. IsFiniteSet(Admitted) /\ Cardinality(Admitted) \in Nat
  BY FewerCount, ReanalysisAssumption DEF Admitted
<1>2. ASSUME NEW tier
      PROVE  /\ IsFiniteSet(Running(tier)) /\ Cardinality(Running(tier)) \in Nat
             /\ IsFiniteSet(TierHolders(tier)) /\ Cardinality(TierHolders(tier)) \in Nat
             /\ Cardinality(TierHolders(tier)) <= Cardinality(Schedulers)
  <2>1. Running(tier) \subseteq ReJobs /\ TierHolders(tier) \subseteq Schedulers
    BY DEF Running, TierHolders
  <2> QED
    BY <2>1, FewerCount, ReanalysisAssumption
<1>3. ASSUME NEW j
      PROVE  /\ IsFiniteSet(Holders(j)) /\ Cardinality(Holders(j)) \in Nat
             /\ Cardinality(Holders(j)) <= Cardinality(Schedulers)
  <2>1. Holders(j) \subseteq Schedulers
    BY DEF Holders
  <2> QED
    BY <2>1, FewerCount, ReanalysisAssumption
<1> QED
  BY <1>1, <1>2, <1>3, FS_CardinalityType, ReanalysisAssumption

-----------------------------------------------------------------------------
(* Lemmas about the steps *)

LEMMA QueueInitEstablishes == ReanalysisInit => QueueInv
<1> SUFFICES ASSUME ReanalysisInit PROVE QueueInv
  OBVIOUS
<1> USE ReanalysisAssumption
<1>1. ReanalysisTypeOK
  <2>1. budget \in BudgetRows
    BY DEF ReanalysisInit, NoBudget, BudgetRows
  <2>2. 0 \in 0..MaxRetries + Cardinality(Schedulers)
    BY QueueCounts DEF MaxRetries
  <2> QED
    BY <2>1, <2>2 DEF ReanalysisInit, ReanalysisTypeOK
<1>2. EnqueuersOwnJobs /\ RowsAreGood /\ NoBudgetNoJobs /\ WorkIsAdmitted /\ QueuedIsEmergency
  BY DEF ReanalysisInit, EnqueuersOwnJobs, RowsAreGood, GoodRow, NoBudgetNoJobs,
         WorkIsAdmitted, QueuedIsEmergency
<1>3. AttemptsFit
  BY QueueCounts DEF ReanalysisInit, AttemptsFit, MaxRetries
<1>4. StartsFit
  <2>1. ASSUME NEW tier PROVE Running(tier) = {} /\ TierHolders(tier) = {}
    BY DEF ReanalysisInit, Running, TierHolders, Holding
  <2>2. Cardinality({}) = 0
    BY FS_EmptySet
  <2> QED
    BY <2>1, <2>2, QueueCounts DEF StartsFit
<1>5. HonestBudget
  BY DEF ReanalysisInit, HonestBudget
<1> QED
  BY <1>1, <1>2, <1>3, <1>4, <1>5 DEF QueueInv

\* A job that was let in changes its state, and neither tier nor admission.
JobsMove ==
  \A j \in ReJobs :
    /\ reJob'[j].tier = reJob[j].tier
    /\ \/ reJob'[j].state = reJob[j].state
       \/ reJob[j].state \notin Left /\ reJob'[j].state \notin Left \cup {"QUEUED"}

\* What the steps of the worker and of the schedulers have in common.
LEMMA MoveKeeps ==
  ASSUME QueueInv, ReanalysisTypeOK', JobsMove, UNCHANGED <<budget, overlapped, enqueuer>>,
         \A j \in batch' : reJob[j].state \notin Left,
         \A s \in Schedulers : chosen'[s] # NotChosen => reJob[chosen'[s].job].state \notin Left
  PROVE  /\ EnqueuersOwnJobs' /\ RowsAreGood' /\ NoBudgetNoJobs'
         /\ WorkIsAdmitted' /\ QueuedIsEmergency' /\ HonestBudget'
<1> USE DEF QueueInv
<1>1. EnqueuersOwnJobs'
  BY DEF EnqueuersOwnJobs, JobsMove, Left, ReanalysisTypeOK
<1>2. RowsAreGood'
  BY DEF RowsAreGood, GoodRow
<1>3. NoBudgetNoJobs' /\ QueuedIsEmergency'
  BY DEF NoBudgetNoJobs, QueuedIsEmergency, JobsMove, Left
<1>4. WorkIsAdmitted'
  BY DEF WorkIsAdmitted, JobsMove, Left, ReanalysisTypeOK, NotChosen
<1>5. Admitted' = Admitted
  BY DEF Admitted, JobsMove, Left
<1>6. HonestBudget'
  BY <1>5 DEF HonestBudget
<1> QED
  BY <1>1, <1>2, <1>3, <1>4, <1>6

\* A step that takes no further place of a tier and makes no further attempt.
LEMMA CountsKeep ==
  ASSUME QueueInv,
         \A tier \in ReTiers \ {"EMERGENCY"} : Running(tier)' \subseteq Running(tier),
         \A tier \in ReTiers : TierHolders(tier)' \subseteq TierHolders(tier),
         \A j \in ReJobs : /\ Holders(j)' \subseteq Holders(j)
                           /\ reJob'[j].attempts = reJob[j].attempts
                           /\ reJob'[j].state = "PENDING" => reJob'[j].attempts <= MaxRetries
  PROVE  AttemptsFit' /\ StartsFit'
<1> USE DEF QueueInv
<1>1. AttemptsFit'
  <2> SUFFICES ASSUME NEW j \in ReJobs
               PROVE  reJob'[j].attempts + Cardinality(Holders(j)')
                        <= MaxRetries + Cardinality(Schedulers)
    BY DEF AttemptsFit
  <2>1. Cardinality(Holders(j)') \in Nat /\ Cardinality(Holders(j)') <= Cardinality(Holders(j))
    BY FewerCount, QueueCounts
  <2>2. reJob[j].attempts \in Nat
    BY QueueCounts DEF ReanalysisTypeOK, MaxRetries
  <2> QED
    BY <2>1, <2>2, QueueCounts DEF AttemptsFit, MaxRetries
<1>2. StartsFit'
  <2> SUFFICES ASSUME NEW tier \in ReTiers \ {"EMERGENCY"}
               PROVE  Cardinality(Running(tier)') + Cardinality(TierHolders(tier)')
                        < TierLimit[tier] + Cardinality(Schedulers)
    BY DEF StartsFit
  <2>1. /\ Cardinality(Running(tier)') \in Nat
        /\ Cardinality(Running(tier)') <= Cardinality(Running(tier))
        /\ Cardinality(TierHolders(tier)') \in Nat
        /\ Cardinality(TierHolders(tier)') <= Cardinality(TierHolders(tier))
    BY FewerCount, QueueCounts
  <2> QED
    BY <2>1, QueueCounts, ReanalysisAssumption DEF StartsFit
<1> QED
  BY <1>1, <1>2

\* The worker's steps: it takes emergencies only, so that no other tier fills up.
LEMMA WorkerKeeps ==
  ASSUME QueueInv,
         SelectQueued \/ WorkerDies \/ \E j \in ReJobs : WorkerStarts(j)
  PROVE  QueueInv'
<1> USE DEF QueueInv
<1>1. ReanalysisTypeOK'
  BY DEF SelectQueued, WorkerDies, WorkerStarts, ReanalysisTypeOK
<1>2. JobsMove /\ UNCHANGED <<budget, overlapped, enqueuer, chosen>>
  BY DEF SelectQueued, WorkerDies, WorkerStarts, JobsMove, Left, ReanalysisTypeOK
<1>3. \A j \in batch' : reJob[j].state \notin Left
  BY DEF SelectQueued, WorkerDies, WorkerStarts, WorkIsAdmitted, Left
<1>4. \A tier \in ReTiers \ {"EMERGENCY"} : Running(tier)' \subseteq Running(tier)
  BY DEF SelectQueued, WorkerDies, WorkerStarts, Running, QueuedIsEmergency, ReanalysisTypeOK
<1>5. \A tier \in ReTiers : TierHolders(tier)' \subseteq TierHolders(tier)
  BY <1>2 DEF TierHolders, Holding, JobsMove, ReanalysisTypeOK, NotChosen
<1>6. \A j \in ReJobs : /\ Holders(j)' \subseteq Holders(j)
                        /\ reJob'[j].attempts = reJob[j].attempts
                        /\ reJob'[j].state = "PENDING" => reJob'[j].attempts <= MaxRetries
  <2> SUFFICES ASSUME NEW j \in ReJobs
               PROVE  /\ Holders(j)' \subseteq Holders(j)
                      /\ reJob'[j].attempts = reJob[j].attempts
                      /\ reJob'[j].state = "PENDING" => reJob'[j].attempts <= MaxRetries
    OBVIOUS
  <2>1. Holders(j)' \subseteq Holders(j)
    BY <1>2 DEF Holders, Holding
  <2>2. /\ reJob'[j].attempts = reJob[j].attempts
        /\ reJob'[j].state = "PENDING" => reJob[j].state = "PENDING"
    BY DEF SelectQueued, WorkerDies, WorkerStarts, ReanalysisTypeOK
  <2> QED
    BY <2>1, <2>2 DEF AttemptsFit
<1>7. AttemptsFit' /\ StartsFit'
  BY <1>4, <1>5, <1>6, CountsKeep
<1> QED
  BY <1>1, <1>2, <1>3, <1>7, MoveKeeps DEF WorkIsAdmitted

\* A job that the worker gives back has tries left of its own.
LEMMA WorkerEndsKeeps ==
  ASSUME QueueInv, NEW j \in ReJobs, WorkerEnds(j)
  PROVE  QueueInv'
<1> USE DEF QueueInv
<1> DEFINE tried == reJob'[j].attempts
<1>1. /\ reJob[j].state = "PROCESSING"
      /\ reJob'[j].state \in {"COMPLETED", "PENDING", "FAILED"}
      /\ reJob'[j].tier = reJob[j].tier
      /\ \/ tried = reJob[j].attempts /\ reJob'[j].state # "PENDING"
         \/ tried \in 0..MaxRetries
      /\ \A k \in ReJobs \ {j} : reJob'[k] = reJob[k]
      /\ UNCHANGED <<budget, overlapped, enqueuer, chosen>>
      /\ batch' \subseteq batch
  BY DEF WorkerEnds, AttemptLimit, MaxRetries, ReanalysisTypeOK
<1>2. ReanalysisTypeOK'
  <2>1. reJob' \in [ReJobs ->
       [state : {"absent", "PENDING", "QUEUED", "DEFERRED", "PROCESSING",
                 "COMPLETED", "FAILED"},
        tier : ReTiers, attempts : 0..MaxRetries + Cardinality(Schedulers)]]
    <3>1. /\ reJob[j].attempts \in Nat
          /\ reJob[j].attempts < AttemptLimit(reJob[j].tier) =>
               reJob[j].attempts + 1 \in 0..MaxRetries + Cardinality(Schedulers)
      BY QueueCounts DEF AttemptLimit, MaxRetries, ReanalysisTypeOK
    <3> QED
      BY <3>1 DEF WorkerEnds, ReanalysisTypeOK
  <2> QED
    BY <1>1, <2>1 DEF ReanalysisTypeOK
<1>3. JobsMove
  BY <1>1 DEF JobsMove, Left
<1>4. AttemptsFit'
  <2> SUFFICES ASSUME NEW k \in ReJobs
               PROVE  /\ reJob'[k].attempts + Cardinality(Holders(k))
                           <= MaxRetries + Cardinality(Schedulers)
                      /\ reJob'[k].state = "PENDING" => reJob'[k].attempts <= MaxRetries
    BY <1>1 DEF AttemptsFit, Holders, Holding
  <2> QED
    BY <1>1, QueueCounts DEF AttemptsFit, MaxRetries
<1>5. StartsFit'
  <2> SUFFICES ASSUME NEW tier \in ReTiers \ {"EMERGENCY"}
               PROVE  Cardinality(Running(tier)') + Cardinality(TierHolders(tier)')
                        < TierLimit[tier] + Cardinality(Schedulers)
    BY DEF StartsFit
  <2>1. Running(tier)' \subseteq Running(tier)
    BY <1>1 DEF Running
  <2>2. TierHolders(tier)' = TierHolders(tier)
    BY <1>1 DEF TierHolders, Holding, ReanalysisTypeOK, NotChosen
  <2>3. /\ Cardinality(Running(tier)') \in Nat
        /\ Cardinality(Running(tier)') <= Cardinality(Running(tier))
    BY <2>1, FewerCount, QueueCounts
  <2> QED
    BY <2>2, <2>3, QueueCounts, ReanalysisAssumption DEF StartsFit
<1>6. \A k \in batch' : reJob[k].state \notin Left
  BY <1>1 DEF WorkIsAdmitted
<1> QED
  BY <1>1, <1>2, <1>3, <1>4, <1>5, <1>6, MoveKeeps DEF WorkIsAdmitted

\* A scheduler gets a job while its tier has room: with those that hold one, the tier
\* stays below its limit and one for each scheduler.
LEMMA GetNextKeeps ==
  ASSUME QueueInv, NEW s \in Schedulers, NEW j \in ReJobs, GetNext(s, j)
  PROVE  QueueInv'
<1> USE DEF QueueInv
<1>1. ReanalysisTypeOK'
  BY DEF GetNext, ReanalysisTypeOK
<1>2. JobsMove /\ UNCHANGED <<budget, overlapped, enqueuer, batch, reJob>>
  BY DEF GetNext, JobsMove
<1>3. \A x \in Schedulers : chosen'[x] # NotChosen => reJob[chosen'[x].job].state \notin Left
  BY DEF GetNext, WorkIsAdmitted, Left, ReanalysisTypeOK
<1>4. AttemptsFit'
  <2> SUFFICES ASSUME NEW k \in ReJobs
               PROVE  reJob[k].attempts + Cardinality(Holders(k)')
                        <= MaxRetries + Cardinality(Schedulers)
    BY <1>2 DEF AttemptsFit
  <2>1. Holders(k)' \subseteq Schedulers
    BY DEF Holders
  <2>2. Cardinality(Holders(k)') \in Nat /\ Cardinality(Holders(k)') <= Cardinality(Schedulers)
    BY <2>1, FewerCount, ReanalysisAssumption
  <2>3. CASE k = j
    BY <2>2, <2>3, QueueCounts DEF GetNext, AttemptsFit, ReanalysisTypeOK, MaxRetries
  <2>4. CASE k # j
    <3>1. Holders(k)' \subseteq Holders(k)
      BY <2>4 DEF GetNext, Holders, Holding, ReanalysisTypeOK
    <3>2. Cardinality(Holders(k)') <= Cardinality(Holders(k))
      BY <3>1, FewerCount, QueueCounts
    <3> QED
      BY <2>2, <3>2, QueueCounts DEF AttemptsFit, ReanalysisTypeOK, MaxRetries
  <2> QED
    BY <2>3, <2>4
<1>5. StartsFit'
  <2> SUFFICES ASSUME NEW tier \in ReTiers \ {"EMERGENCY"}
               PROVE  Cardinality(Running(tier)) + Cardinality(TierHolders(tier)')
                        < TierLimit[tier] + Cardinality(Schedulers)
    BY <1>2 DEF StartsFit, Running
  <2>1. TierHolders(tier)' \subseteq Schedulers
    BY DEF TierHolders
  <2>2. /\ Cardinality(TierHolders(tier)') \in Nat
        /\ Cardinality(TierHolders(tier)') <= Cardinality(Schedulers)
    BY <2>1, FewerCount, ReanalysisAssumption
  <2>3. CASE tier = reJob[j].tier
    BY <2>2, <2>3, QueueCounts, ReanalysisAssumption DEF GetNext, HasRoom
  <2>4. CASE tier # reJob[j].tier
    <3>1. TierHolders(tier)' \subseteq TierHolders(tier)
      BY <1>2, <2>4 DEF GetNext, TierHolders, Holding, ReanalysisTypeOK
    <3>2. Cardinality(TierHolders(tier)') <= Cardinality(TierHolders(tier))
      BY <3>1, FewerCount, QueueCounts
    <3> QED
      BY <2>2, <3>2, QueueCounts, ReanalysisAssumption DEF StartsFit
  <2> QED
    BY <2>3, <2>4
<1>6. \A k \in batch' : reJob[k].state \notin Left
  BY <1>2 DEF WorkIsAdmitted
<1> QED
  BY <1>1, <1>2, <1>3, <1>4, <1>5, <1>6, MoveKeeps

\* startJobExecution: one scheduler fewer holds the job, which has one more attempt and
\* at most one more place.
LEMMA StartKeeps ==
  ASSUME QueueInv, NEW s \in Schedulers, StartExecution(s)
  PROVE  QueueInv'
<1> USE DEF QueueInv
<1> DEFINE job == chosen[s].job
<1>1. /\ job \in ReJobs /\ Holding(s) /\ reJob[job].state \notin Left
      /\ reJob'[job].state = "PROCESSING" /\ reJob'[job].tier = reJob[job].tier
      /\ reJob'[job].attempts = reJob[job].attempts + 1
      /\ \A k \in ReJobs \ {job} : reJob'[k] = reJob[k]
      /\ chosen' = [chosen EXCEPT ![s] = [job |-> job, running |-> TRUE]]
      /\ UNCHANGED <<budget, overlapped, enqueuer, batch>>
  BY DEF StartExecution, Holding, WorkIsAdmitted, ReanalysisTypeOK, NotChosen
<1>2. s \in Holders(job) /\ Holders(job)' \subseteq Holders(job) \ {s}
      /\ \A k \in ReJobs : Holders(k)' \subseteq Holders(k)
  BY <1>1 DEF Holders, Holding, ReanalysisTypeOK, NotChosen
<1>3. /\ Cardinality(Holders(job)') \in Nat
      /\ Cardinality(Holders(job)') + 1 <= Cardinality(Holders(job))
  BY <1>2, OneFewerCount, FewerCount, QueueCounts
<1>4. reJob[job].attempts \in Nat
      /\ reJob[job].attempts + 1 \in 0..MaxRetries + Cardinality(Schedulers)
  BY <1>1, <1>3, QueueCounts DEF AttemptsFit, ReanalysisTypeOK, MaxRetries
<1>5. ReanalysisTypeOK'
  BY <1>1, <1>4 DEF StartExecution, ReanalysisTypeOK
<1>6. JobsMove
  BY <1>1 DEF JobsMove, Left, ReanalysisTypeOK
<1>7. AttemptsFit'
  <2> SUFFICES ASSUME NEW k \in ReJobs
               PROVE  /\ reJob'[k].attempts + Cardinality(Holders(k)')
                           <= MaxRetries + Cardinality(Schedulers)
                      /\ reJob'[k].state = "PENDING" => reJob'[k].attempts <= MaxRetries
    BY DEF AttemptsFit
  <2>1. CASE k = job
    BY <1>1, <1>3, <1>4, <2>1, QueueCounts DEF AttemptsFit, ReanalysisTypeOK, MaxRetries
  <2>2. CASE k # job
    <3>1. Cardinality(Holders(k)') \in Nat /\ Cardinality(Holders(k)') <= Cardinality(Holders(k))
      BY <1>2, FewerCount, QueueCounts
    <3> QED
      BY <1>1, <2>2, <3>1, QueueCounts DEF AttemptsFit, ReanalysisTypeOK, MaxRetries
  <2> QED
    BY <2>1, <2>2
<1>8. StartsFit'
  <2> SUFFICES ASSUME NEW tier \in ReTiers \ {"EMERGENCY"}
               PROVE  Cardinality(Running(tier)') + Cardinality(TierHolders(tier)')
                        < TierLimit[tier] + Cardinality(Schedulers)
    BY DEF StartsFit
  <2>1. TierHolders(tier)' \subseteq TierHolders(tier)
    BY <1>1, <1>6 DEF TierHolders, Holding, JobsMove, ReanalysisTypeOK, NotChosen
  <2>2. CASE tier = reJob[job].tier
    <3>1. Running(tier)' \subseteq Running(tier) \cup {job}
      BY <1>1 DEF Running
    <3>2. Cardinality(Running(tier)') \in Nat
          /\ Cardinality(Running(tier)') <= Cardinality(Running(tier)) + 1
      BY <3>1, OneMoreCount, QueueCounts, FS_CardinalityType
    <3>3. s \in TierHolders(tier) /\ TierHolders(tier)' \subseteq TierHolders(tier) \ {s}
      BY <1>1, <2>1, <2>2 DEF TierHolders, Holding, ReanalysisTypeOK
    <3>4. Cardinality(TierHolders(tier)') \in Nat
          /\ Cardinality(TierHolders(tier)') + 1 <= Cardinality(TierHolders(tier))
      BY <3>3, OneFewerCount, FewerCount, QueueCounts
    <3> QED
      BY <3>2, <3>4, QueueCounts, ReanalysisAssumption DEF StartsFit
  <2>3. CASE tier # reJob[job].tier
    <3>1. Running(tier)' \subseteq Running(tier)
      BY <1>1, <2>3 DEF Running, ReanalysisTypeOK
    <3>2. /\ Cardinality(Running(tier)') \in Nat
          /\ Cardinality(Running(tier)') <= Cardinality(Running(tier))
          /\ Cardinality(TierHolders(tier)') \in Nat
          /\ Cardinality(TierHolders(tier)') <= Cardinality(TierHolders(tier))
      BY <2>1, <3>1, FewerCount, QueueCounts
    <3> QED
      BY <3>2, QueueCounts, ReanalysisAssumption DEF StartsFit
  <2> QED
    BY <2>2, <2>3
<1>9. /\ \A k \in batch' : reJob[k].state \notin Left
      /\ \A x \in Schedulers : chosen'[x] # NotChosen => reJob[chosen'[x].job].state \notin Left
  BY <1>1 DEF WorkIsAdmitted, ReanalysisTypeOK
<1> QED
  BY <1>1, <1>5, <1>6, <1>7, <1>8, <1>9, MoveKeeps

\* A scheduler has done its job, failed it, or is gone.
LEMMA EndKeeps ==
  ASSUME QueueInv, NEW s \in Schedulers,
         CompleteExecution(s) \/ FailExecution(s) \/ SchedulerDies(s)
  PROVE  QueueInv'
<1> USE DEF QueueInv
<1>1. /\ chosen[s] # NotChosen /\ chosen[s].job \in ReJobs
      /\ reJob[chosen[s].job].state \notin Left
      /\ chosen' = [chosen EXCEPT ![s] = NotChosen]
      /\ UNCHANGED <<budget, overlapped, enqueuer, batch>>
  BY DEF CompleteExecution, FailExecution, SchedulerDies, WorkIsAdmitted, ReanalysisTypeOK,
         NotChosen
<1>2. ReanalysisTypeOK'
  BY <1>1 DEF CompleteExecution, FailExecution, SchedulerDies, ReanalysisTypeOK
<1>3. \A j \in ReJobs :
        /\ reJob'[j].attempts = reJob[j].attempts /\ reJob'[j].tier = reJob[j].tier
        /\ \/ reJob'[j].state = reJob[j].state
           \/ /\ j = chosen[s].job /\ reJob'[j].state \in {"COMPLETED", "FAILED", "PENDING"}
              /\ reJob'[j].state = "PENDING" => ~(reJob[j].attempts >= MaxRetries)
  BY <1>1 DEF CompleteExecution, FailExecution, SchedulerDies, ReanalysisTypeOK
<1>4. JobsMove
  BY <1>1, <1>3 DEF JobsMove, Left
<1>5. \A tier \in ReTiers : /\ Running(tier)' \subseteq Running(tier)
                            /\ TierHolders(tier)' \subseteq TierHolders(tier)
  BY <1>1, <1>3 DEF Running, TierHolders, Holding, ReanalysisTypeOK, NotChosen
<1>6. \A j \in ReJobs :
        /\ Holders(j)' \subseteq Holders(j)
        /\ reJob'[j].state = "PENDING" => reJob'[j].attempts <= MaxRetries
  <2>1. \A j \in ReJobs : Holders(j)' \subseteq Holders(j)
    BY <1>1 DEF Holders, Holding, ReanalysisTypeOK
  <2>2. \A j \in ReJobs : reJob[j].attempts \in Nat
    BY QueueCounts DEF ReanalysisTypeOK, MaxRetries
  <2> QED
    BY <1>3, <2>1, <2>2 DEF AttemptsFit, MaxRetries
<1>7. AttemptsFit' /\ StartsFit'
  BY <1>3, <1>5, <1>6, CountsKeep
<1>8. /\ \A k \in batch' : reJob[k].state \notin Left
      /\ \A x \in Schedulers : chosen'[x] # NotChosen => reJob[chosen'[x].job].state \notin Left
  BY <1>1 DEF WorkIsAdmitted, ReanalysisTypeOK
<1> QED
  BY <1>1, <1>2, <1>4, <1>7, <1>8, MoveKeeps

\* A transaction that reads the budget, or rolls back, leaves jobs and budget alone.
LEMMA ReadKeeps ==
  ASSUME QueueInv, NEW e \in Enqueuers,
         \/ \E j \in ReJobs, tier \in ReTiers : ReadBudget(e, j, tier)
         \/ RollBackEnqueue(e)
  PROVE  QueueInv'
<1> USE DEF QueueInv
<1>1. UNCHANGED <<reJob, budget, batch, chosen, overlapped>>
  BY DEF ReadBudget, RollBackEnqueue
<1>2. ReanalysisTypeOK' /\ EnqueuersOwnJobs' /\ RowsAreGood'
  <2>1. CASE RollBackEnqueue(e)
    BY <2>1 DEF RollBackEnqueue, ReanalysisTypeOK, EnqueuersOwnJobs, RowsAreGood, GoodRow
  <2>2. ASSUME NEW j \in ReJobs, NEW tier \in ReTiers, ReadBudget(e, j, tier)
        PROVE  ReanalysisTypeOK' /\ EnqueuersOwnJobs' /\ RowsAreGood'
    <3>1. ReanalysisTypeOK'
      BY <2>2 DEF ReadBudget, ReanalysisTypeOK
    <3>2. EnqueuersOwnJobs'
      BY <2>2 DEF ReadBudget, ReanalysisTypeOK, EnqueuersOwnJobs
    <3>3. RowsAreGood'
      BY <2>2 DEF ReadBudget, ReanalysisTypeOK, RowsAreGood, GoodRow
    <3> QED
      BY <3>1, <3>2, <3>3
  <2> QED
    BY <2>1, <2>2
<1>3. NoBudgetNoJobs' /\ WorkIsAdmitted' /\ QueuedIsEmergency'
  BY <1>1 DEF NoBudgetNoJobs, WorkIsAdmitted, QueuedIsEmergency
<1>4. Admitted' = Admitted
  BY <1>1 DEF Admitted
<1>5. HonestBudget'
  BY <1>1, <1>4 DEF HonestBudget
<1>6. AttemptsFit' /\ StartsFit'
  BY <1>1 DEF AttemptsFit, StartsFit, Running, Holders, TierHolders, Holding
<1> QED
  BY <1>2, <1>3, <1>5, <1>6

\* The budget after an enqueue, from a good row: good again, and one less unless the
\* job was deferred or an emergency found nothing left.
LEMMA SpendIsGood ==
  ASSUME NEW row \in BudgetRows, GoodRow(row), row # NoBudget
  PROVE  /\ Spend(row) \in BudgetRows /\ Spend(row) # NoBudget /\ GoodRow(Spend(row))
         /\ row.remaining > 0 => Spend(row).remaining = row.remaining - 1
         /\ row.remaining = 0 => Spend(row).remaining = 0
BY ReanalysisAssumption DEF Spend, BudgetRows, GoodRow, NoBudget

\* The commit of an enqueue: the new job is one that nobody works on, and it is
\* admitted against the budget that was read.
LEMMA CommitKeeps ==
  ASSUME QueueInv, NEW e \in Enqueuers, CommitEnqueue(e)
  PROVE  QueueInv'
<1> USE DEF QueueInv
<1> DEFINE job == enqueuer[e].job
           tier == enqueuer[e].tier
           read == enqueuer[e].read
           first == FirstState(tier, Seen(e))
           creates == read = NoBudget
<1>1. /\ enqueuer[e] # NotReading /\ job \in ReJobs /\ tier \in ReTiers /\ read \in BudgetRows
      /\ reJob[job].state = "absent"
      /\ enqueuer' = [enqueuer EXCEPT ![e] = NotReading]
      /\ UNCHANGED <<batch, chosen>>
  BY DEF CommitEnqueue, ReanalysisTypeOK, EnqueuersOwnJobs, NotReading
<1>2. Seen(e) \in BudgetRows /\ Seen(e) # NoBudget /\ GoodRow(Seen(e))
  BY <1>1, ReanalysisAssumption
     DEF Seen, NewBudget, NoBudget, BudgetRows, RowsAreGood, GoodRow
<1>3. CASE creates /\ budget # NoBudget
  <2>1. UNCHANGED <<reJob, budget, overlapped>>
    BY <1>3 DEF CommitEnqueue
  <2>2. RollBackEnqueue(e)
    BY <1>1, <2>1 DEF RollBackEnqueue
  <2> QED
    BY <2>2, ReadKeeps
<1>4. CASE ~(creates /\ budget # NoBudget)
  <2>1. /\ reJob' = [reJob EXCEPT ![job] = [state |-> first, tier |-> tier, attempts |-> 0]]
        /\ budget' = CASE first # "DEFERRED" -> Spend(Seen(e))
                       [] first = "DEFERRED" /\ creates -> Seen(e)
                       [] OTHER -> budget
        /\ overlapped' = (overlapped \/ budget # read)
    BY <1>4 DEF CommitEnqueue
  <2>2. /\ first \in {"QUEUED", "DEFERRED", "PENDING"}
        /\ first = "QUEUED" <=> tier = "EMERGENCY"
        /\ tier # "EMERGENCY" /\ first # "DEFERRED" => Seen(e).remaining # 0
    BY DEF FirstState
  <2>3. ~creates => budget # NoBudget
    BY <1>1 DEF RowsAreGood
  <2>4. budget' \in BudgetRows /\ budget' # NoBudget /\ GoodRow(budget')
    BY <1>2, <2>1, <2>3, SpendIsGood DEF RowsAreGood, ReanalysisTypeOK
  <2>5. ReanalysisTypeOK'
    <3>1. 0 \in 0..MaxRetries + Cardinality(Schedulers)
      BY QueueCounts DEF MaxRetries
    <3> QED
      BY <1>1, <2>1, <2>2, <2>4, <3>1 DEF ReanalysisTypeOK
  <2>6. EnqueuersOwnJobs'
    BY <1>1, <2>1 DEF EnqueuersOwnJobs, ReanalysisTypeOK
  <2>7. RowsAreGood' /\ NoBudgetNoJobs'
    BY <1>1, <2>4 DEF RowsAreGood, NoBudgetNoJobs, GoodRow, ReanalysisTypeOK
  <2>8. job \notin batch /\ \A s \in Schedulers : chosen[s] # NotChosen => chosen[s].job # job
    BY <1>1 DEF WorkIsAdmitted, Left
  <2>9. WorkIsAdmitted' /\ QueuedIsEmergency'
    BY <1>1, <2>1, <2>2, <2>8 DEF WorkIsAdmitted, QueuedIsEmergency, ReanalysisTypeOK
  <2>10. AttemptsFit'
    <3> SUFFICES ASSUME NEW k \in ReJobs
                 PROVE  /\ reJob'[k].attempts + Cardinality(Holders(k))
                             <= MaxRetries + Cardinality(Schedulers)
                        /\ reJob'[k].state = "PENDING" => reJob'[k].attempts <= MaxRetries
      BY <1>1 DEF AttemptsFit, Holders, Holding
    <3> QED
      BY <2>1, QueueCounts DEF AttemptsFit, ReanalysisTypeOK, MaxRetries
  <2>11. StartsFit'
    <3>1. \A t \in ReTiers : Running(t)' = Running(t)
      BY <1>1, <2>1, <2>2 DEF Running, ReanalysisTypeOK
    <3>2. \A t \in ReTiers : TierHolders(t)' = TierHolders(t)
      BY <1>1, <2>1, <2>8 DEF TierHolders, Holding, ReanalysisTypeOK, NotChosen
    <3> QED
      BY <3>1, <3>2 DEF StartsFit
  <2>12. HonestBudget'
    <3> SUFFICES ASSUME ~overlapped, budget = read
                 PROVE  Cardinality(Admitted') + budget'.remaining <= BudgetMax
      BY <1>1, <2>1 DEF HonestBudget
    <3>1. Cardinality(Admitted) + Seen(e).remaining <= BudgetMax
      <4>1. CASE creates
        <5>1. Admitted = {}
          BY <4>1 DEF NoBudgetNoJobs, Admitted
        <5> QED
          BY <4>1, <5>1, FS_EmptySet, ReanalysisAssumption DEF Seen, NewBudget
      <4>2. CASE ~creates
        BY <4>2 DEF Seen, HonestBudget
      <4> QED
        BY <4>1, <4>2
    <3>2. Seen(e).remaining \in Nat /\ budget'.remaining \in Nat
      BY <1>2, <2>4, ReanalysisAssumption DEF BudgetRows
    <3>3. budget'.remaining <= Seen(e).remaining
      BY <1>2, <2>1, <3>2, SpendIsGood DEF Seen
    <3>4. CASE tier = "EMERGENCY" \/ first = "DEFERRED"
      <4>1. Admitted' \subseteq Admitted
        BY <1>1, <2>1, <3>4 DEF Admitted, ReanalysisTypeOK
      <4>2. Cardinality(Admitted') \in Nat /\ Cardinality(Admitted') <= Cardinality(Admitted)
        BY <4>1, FewerCount, QueueCounts
      <4> QED
        BY <3>1, <3>2, <3>3, <4>2, QueueCounts, ReanalysisAssumption
    <3>5. CASE tier # "EMERGENCY" /\ first # "DEFERRED"
      <4>1. Admitted' \subseteq Admitted \cup {job}
        BY <1>1, <2>1 DEF Admitted, ReanalysisTypeOK
      <4>2. Cardinality(Admitted') \in Nat /\ Cardinality(Admitted') <= Cardinality(Admitted) + 1
        BY <4>1, OneMoreCount, QueueCounts, FS_CardinalityType
      <4>3. budget'.remaining = Seen(e).remaining - 1
        BY <1>2, <2>1, <2>2, <3>2, <3>5, SpendIsGood
      <4> QED
        BY <3>1, <3>2, <4>2, <4>3, QueueCounts, ReanalysisAssumption
    <3> QED
      BY <3>4, <3>5
  <2> QED
    BY <2>5, <2>6, <2>7, <2>9, <2>10, <2>11, <2>12
<1> QED
  BY <1>3, <1>4

LEMMA QueueStepKeeps == QueueInv /\ [ReanalysisNext]_reanalysisVars => QueueInv'
<1> SUFFICES ASSUME QueueInv, [ReanalysisNext]_reanalysisVars PROVE QueueInv'
  OBVIOUS
<1>1. CASE UNCHANGED reanalysisVars
  <2>1. Admitted' = Admitted
    BY <1>1 DEF reanalysisVars, Admitted
  <2> QED
    BY <1>1, <2>1
       DEF reanalysisVars, QueueInv, ReanalysisTypeOK, EnqueuersOwnJobs, RowsAreGood, GoodRow,
           NoBudgetNoJobs, WorkIsAdmitted, QueuedIsEmergency, AttemptsFit, StartsFit,
           Holders, TierHolders, Holding, Running, HonestBudget
<1>2. CASE ReanalysisNext
  BY <1>2, WorkerKeeps, WorkerEndsKeeps, GetNextKeeps, StartKeeps, EndKeeps, ReadKeeps,
     CommitKeeps DEF ReanalysisNext
<1> QED
  BY <1>1, <1>2

\* The inductive invariant of the budget row, the jobs, the worker and the schedulers.
THEOREM QueueInvariant == ReanalysisSpec => []QueueInv
BY QueueInitEstablishes, QueueStepKeeps, PTL DEF ReanalysisSpec

-----------------------------------------------------------------------------
(* Theorems *)

\* Every job, budget row and position has its type; in particular the attempts of a
\* job never exceed its retries by more than the number of schedulers that race for it.
THEOREM ReanalysisTypes == ReanalysisSpec => []ReanalysisTypeOK
<1>1. QueueInv => ReanalysisTypeOK
  BY DEF QueueInv
<1> QED
  BY <1>1, QueueInvariant, PTL

\* Until an enqueue overwrites a budget that it had not read, the jobs admitted and what
\* is left of the budget never exceed the day's maximum.
THEOREM BudgetIsHonest == ReanalysisSpec => []HonestBudget
<1>1. QueueInv => HonestBudget
  BY DEF QueueInv
<1> QED
  BY <1>1, QueueInvariant, PTL

\* A day is called exhausted just when nothing is left of its budget, lost updates
\* between enqueuing transactions included.
THEOREM ExhaustedIsEmpty == ReanalysisSpec => []ExhaustedMeansNothingLeft
<1>1. QueueInv => ExhaustedMeansNothingLeft
  BY DEF QueueInv, RowsAreGood, GoodRow, ExhaustedMeansNothingLeft
<1> QED
  BY <1>1, QueueInvariant, PTL

\* Schedulers that count first and start later overshoot the limit of a tier by less
\* than their own number.
THEOREM OvershootIsBounded == ReanalysisSpec => []BoundedOvershoot
<1>1. QueueInv => BoundedOvershoot
  BY QueueCounts, ReanalysisAssumption DEF QueueInv, StartsFit, BoundedOvershoot
<1> QED
  BY <1>1, QueueInvariant, PTL

=============================================================================
