----------------------- MODULE ExecutionJournalProofs -----------------------
(***************************************************************************)
(* Proofs about ExecutionJournal for every set of decisions, indexes,      *)
(* calls and reconciliation runs, with stalls and failed probes allowed.   *)
(*                                                                         *)
(* OneOwner and VerdictHasEvidence are not inductive: a step that commits  *)
(* a verdict relies on what the call or the run learnt from Splunk         *)
(* earlier, so IInv adds that knowledge (OwnerInv, AnswerInv, RunInv).     *)
(* It stays true because an index that is gone stays gone.                 *)
(*                                                                         *)
(* With one reconciliation at a time and calls that end in time, SoloInv   *)
(* adds who may close a row: no verdict is rewritten, and the journal      *)
(* implements the safety part of ExecutionOutcome.  With probes that       *)
(* answer, whatever else fails, EXECUTED means that the index is gone.     *)
(***************************************************************************)
EXTENDS ExecutionJournal, FiniteSetTheorems, TLAPS

\* A call past step 1 owns an existing row; a call that never began owns none.
OwnerInv ==
  \A e \in Executors :
    /\ exec[e].pc \in {"call", "waiting", "commit"} => exec[e].owns
    /\ exec[e].owns => /\ exec[e].d \in Decisions
                       /\ journal[exec[e].d].status # "NONE"

\* What Splunk has answered, and what a call remembers of it, is still true.
AnswerInv ==
  /\ \A d \in Decisions : request[d] = "ok" => Gone(d)
  /\ \A e \in Executors : exec[e].pc = "commit" =>
       /\ exec[e].result \in Results
       /\ exec[e].d \in Eliminate /\ exec[e].result = "success" => Gone(exec[e].d)

\* What a reconciliation run has probed is still true of a deletion.
RunInv ==
  \A r \in Reconcilers : rec[r].pc = "repair" =>
    /\ rec[r].entry \in Decisions
    /\ rec[r].probe \in Probes
    /\ rec[r].probe = "gone" => Gone(rec[r].entry)

IInv == TypeOK /\ OwnerInv /\ OneOwner /\ AnswerInv /\ RunInv /\ VerdictHasEvidence

-----------------------------------------------------------------------------
(* Lemmas *)

LEMMA InitEstablishes == Init => IInv
BY ConstantsAssumption
   DEF Init, IInv, TypeOK, OwnerInv, OneOwner, AnswerInv, RunInv,
       VerdictHasEvidence, IdleRun, DecisionStatus, JournalStatus, Results,
       Probes, ExecPc, AuditEvents, Gone

\* The rank a new row gets is a natural number.
LEMMA RankIsNat ==
  Cardinality({x \in Decisions : journal[x].status # "NONE"}) + 1 \in Nat
<1>1. IsFiniteSet({x \in Decisions : journal[x].status # "NONE"})
  BY ConstantsAssumption, FS_Subset
<1> QED
  BY <1>1, FS_CardinalityType

\* Step 1 of executeDecisionSafe.
LEMMA CreateKeeps ==
  ASSUME IInv, NEW e \in Executors, NEW d \in Decisions, CreateJournal(e, d)
  PROVE  IInv'
<1> USE ConstantsAssumption DEF IInv
<1>1. TypeOK'
  BY RankIsNat DEF CreateJournal, TypeOK, JournalStatus, ExecPc
<1>2. OwnerInv'
  BY DEF CreateJournal, TypeOK, OwnerInv
<1>3. OneOwner'
  BY DEF CreateJournal, KeyIsFree, TypeOK, OwnerInv, OneOwner
<1>4. AnswerInv' /\ RunInv' /\ VerdictHasEvidence'
  BY DEF CreateJournal, TypeOK, AnswerInv, RunInv, VerdictHasEvidence, Gone
<1> QED
  BY <1>1, <1>2, <1>3, <1>4

\* Steps of a call that write nothing to the database.
LEMMA CallKeeps ==
  ASSUME IInv, NEW e \in Executors,
         \/ \E d \in Decisions : RejectExecution(e, d)
         \/ SkipExternal(e) \/ SendDelete(e) \/ DeleteReturns(e)
         \/ CommitFails(e) \/ ExecutorCrash(e)
  PROVE  IInv'
<1> USE ConstantsAssumption DEF IInv
<1>1. CASE \E d \in Decisions : RejectExecution(e, d)
  BY <1>1 DEF RejectExecution, TypeOK, Results, ExecPc, OwnerInv, OneOwner,
              AnswerInv, RunInv, VerdictHasEvidence, Gone
<1>2. CASE SkipExternal(e)
  <2>1. TypeOK'
    BY <1>2 DEF SkipExternal, Proceed, TypeOK, Results, ExecPc
  <2>2. OwnerInv'
    BY <1>2 DEF SkipExternal, Proceed, TypeOK, OwnerInv
  <2>3. OneOwner'
    BY <1>2 DEF SkipExternal, Proceed, TypeOK, OneOwner
  <2>4. AnswerInv'
    BY <1>2 DEF SkipExternal, Proceed, TypeOK, Results, AnswerInv, Gone
  <2>5. RunInv' /\ VerdictHasEvidence'
    BY <1>2 DEF SkipExternal, Proceed, RunInv, VerdictHasEvidence, Gone
  <2> QED
    BY <2>1, <2>2, <2>3, <2>4, <2>5
<1>3. CASE DeleteReturns(e)
  <2>1. TypeOK'
    BY <1>3 DEF DeleteReturns, Proceed, TypeOK, Results, ExecPc
  <2>2. OwnerInv'
    BY <1>3 DEF DeleteReturns, Proceed, TypeOK, OwnerInv
  <2>3. OneOwner'
    BY <1>3 DEF DeleteReturns, Proceed, TypeOK, OneOwner
  <2>4. AnswerInv'
    BY <1>3 DEF DeleteReturns, Proceed, TypeOK, Results, AnswerInv, Gone
  <2>5. RunInv' /\ VerdictHasEvidence'
    BY <1>3 DEF DeleteReturns, Proceed, RunInv, VerdictHasEvidence, Gone
  <2> QED
    BY <2>1, <2>2, <2>3, <2>4, <2>5
<1>4. CASE CommitFails(e)
  <2>1. TypeOK'
    BY <1>4 DEF CommitFails, Proceed, TypeOK, Results, ExecPc
  <2>2. OwnerInv'
    BY <1>4 DEF CommitFails, Proceed, TypeOK, OwnerInv
  <2>3. OneOwner'
    BY <1>4 DEF CommitFails, Proceed, TypeOK, OneOwner
  <2>4. AnswerInv'
    BY <1>4 DEF CommitFails, Proceed, TypeOK, Results, AnswerInv, Gone
  <2>5. RunInv' /\ VerdictHasEvidence'
    BY <1>4 DEF CommitFails, Proceed, RunInv, VerdictHasEvidence, Gone
  <2> QED
    BY <2>1, <2>2, <2>3, <2>4, <2>5
<1>5. CASE ExecutorCrash(e)
  BY <1>5 DEF ExecutorCrash, Proceed, TypeOK, Results, ExecPc, OwnerInv, OneOwner,
              AnswerInv, RunInv, VerdictHasEvidence, Gone
<1>6. CASE SendDelete(e)
  BY <1>6 DEF SendDelete, Proceed, TypeOK, ExecPc, OwnerInv, OneOwner,
              AnswerInv, RunInv, VerdictHasEvidence, Gone
<1> QED
  BY <1>1, <1>2, <1>3, <1>4, <1>5, <1>6

\* Splunk handles a DELETE, or a row grows old.
LEMMA SplunkKeeps ==
  ASSUME IInv, NEW d \in Decisions,
         SplunkDeletes(d) \/ SplunkRefuses(d) \/ Age(d)
  PROVE  IInv'
<1> USE ConstantsAssumption DEF IInv
<1>1. CASE Age(d)
  BY <1>1 DEF Age, TypeOK, OwnerInv, OneOwner, AnswerInv, RunInv,
              VerdictHasEvidence, Gone
<1>2. CASE SplunkDeletes(d)
  BY <1>2 DEF SplunkDeletes, TypeOK, OwnerInv, OneOwner,
              AnswerInv, RunInv, VerdictHasEvidence, Gone
<1>3. CASE SplunkRefuses(d)
  BY <1>3 DEF SplunkRefuses, TypeOK, OwnerInv, OneOwner,
              AnswerInv, RunInv, VerdictHasEvidence, Gone
<1> QED
  BY <1>1, <1>2, <1>3

\* Step 3 of executeDecisionSafe: what the call learnt backs its verdict.
LEMMA CommitKeeps ==
  ASSUME IInv, NEW e \in Executors, Commit(e)
  PROVE  IInv'
<1> USE ConstantsAssumption DEF IInv
<1>1. exec[e].d \in Decisions /\ exec[e].result \in Results
  BY DEF Commit, OwnerInv, AnswerInv
<1>2. TypeOK'
  BY <1>1 DEF Commit, CloseRow, Proceed, TypeOK, DecisionStatus, JournalStatus, ExecPc, Verdict,
              AuditEvents, Completed
<1>3. OwnerInv' /\ OneOwner'
  <2>1. OwnerInv'
    BY <1>1 DEF Commit, CloseRow, Proceed, TypeOK, OwnerInv
  <2>2. OneOwner'
    BY <1>1 DEF Commit, CloseRow, Proceed, TypeOK, OneOwner
  <2> QED
    BY <2>1, <2>2
<1>4. AnswerInv' /\ RunInv'
  BY <1>1 DEF Commit, CloseRow, Proceed, TypeOK, AnswerInv, RunInv, Gone
<1>5. VerdictHasEvidence'
  BY <1>1 DEF Commit, CloseRow, Proceed, TypeOK, AnswerInv, VerdictHasEvidence, Gone,
              Verdict, Results,
              RecFailed
<1> QED
  BY <1>2, <1>3, <1>4, <1>5

\* The steps of a reconciliation run that write nothing.
LEMMA RunKeeps ==
  ASSUME IInv, NEW r \in Reconcilers,
         \/ FindStuck(r) \/ \E d \in Decisions : Probe(r, d)
         \/ RepairFails(r) \/ ReconcilerCrash(r)
  PROVE  IInv'
<1> USE ConstantsAssumption DEF IInv
<1>1. CASE FindStuck(r)
  <2>1. OldestStuck \subseteq Decisions
    BY DEF OldestStuck, Stuck, TypeOK
  <2> QED
    BY <1>1, <2>1 DEF FindStuck, TypeOK, OwnerInv, OneOwner, AnswerInv, RunInv,
                      VerdictHasEvidence, Gone
<1>2. CASE \E d \in Decisions : Probe(r, d)
  <2> PICK d \in Decisions : Probe(r, d)
    BY <1>2
  <2>1. TypeOK'
    BY DEF Probe, TypeOK, Probes
  <2>2. RunInv'
    BY DEF Probe, TypeOK, Probes, RunInv, Gone
  <2>3. OwnerInv' /\ OneOwner' /\ AnswerInv' /\ VerdictHasEvidence'
    BY DEF Probe, OwnerInv, OneOwner, AnswerInv, VerdictHasEvidence, Gone
  <2> QED
    BY <2>1, <2>2, <2>3
<1>3. CASE RepairFails(r)
  BY <1>3 DEF RepairFails, NextEntry, TypeOK, OwnerInv, OneOwner, AnswerInv, RunInv,
              VerdictHasEvidence, Gone
<1>4. CASE ReconcilerCrash(r)
  BY <1>4 DEF ReconcilerCrash, IdleRun, TypeOK, OwnerInv, OneOwner, AnswerInv, RunInv,
              VerdictHasEvidence, Gone
<1> QED
  BY <1>1, <1>2, <1>3, <1>4

\* The transaction of a reconciliation, in its three forms.
LEMMA RepairKeeps ==
  ASSUME IInv, NEW r \in Reconcilers, Repair(r)
  PROVE  IInv'
<1> USE ConstantsAssumption DEF IInv
<1> DEFINE d == rec[r].entry
<1>1. d \in Decisions /\ rec[r].probe \in Probes
  BY DEF Repair, RunInv
<1>2. TypeOK'
  <2>1. CASE Confirm(r, d)
    BY <1>1, <2>1 DEF Repair, Confirm, CloseRow, NextEntry, TypeOK, Probes, DecisionStatus,
                      JournalStatus, AuditEvents, Confirmed, ReadsAsDeleted
  <2>2. CASE MarkFailed(r, d)
    BY <1>1, <2>2 DEF Repair, MarkFailed, CloseRow, NextEntry, TypeOK, DecisionStatus,
                      JournalStatus, AuditEvents
  <2>3. CASE CloseJournal(r, d)
    BY <1>1, <2>3 DEF Repair, CloseJournal, CloseRow, NextEntry, TypeOK, JournalStatus
  <2> QED
    BY <2>1, <2>2, <2>3 DEF Repair
<1>3. OwnerInv' /\ OneOwner'
  <2>1. CASE Confirm(r, d)
    BY <1>1, <2>1 DEF Repair, Confirm, CloseRow, TypeOK, OwnerInv, OneOwner
  <2>2. CASE MarkFailed(r, d)
    BY <1>1, <2>2 DEF Repair, MarkFailed, CloseRow, TypeOK, OwnerInv, OneOwner
  <2>3. CASE CloseJournal(r, d)
    BY <1>1, <2>3 DEF Repair, CloseJournal, CloseRow, TypeOK, OwnerInv, OneOwner
  <2> QED
    BY <2>1, <2>2, <2>3 DEF Repair
<1>4. AnswerInv' /\ RunInv'
  BY <1>1 DEF Repair, NextEntry, TypeOK, AnswerInv, RunInv, Gone
<1>5. VerdictHasEvidence'
  <2>1. CASE Confirm(r, d)
    BY <1>1, <2>1 DEF Repair, Confirm, CloseRow, TypeOK, RunInv, VerdictHasEvidence, Gone,
                      Probes, ReadsAsDeleted, RecFailed
  <2>2. CASE MarkFailed(r, d)
    BY <1>1, <2>2 DEF Repair, MarkFailed, CloseRow, TypeOK, VerdictHasEvidence, Gone, RecFailed
  <2>3. CASE CloseJournal(r, d)
    BY <1>1, <2>3 DEF Repair, CloseJournal, CloseRow, TypeOK, VerdictHasEvidence, Gone
  <2> QED
    BY <2>1, <2>2, <2>3 DEF Repair
<1> QED
  BY <1>2, <1>3, <1>4, <1>5

LEMMA StepKeeps == IInv /\ [Next]_vars => IInv'
<1> SUFFICES ASSUME IInv, [Next]_vars PROVE IInv'
  OBVIOUS
<1>1. CASE UNCHANGED vars
  BY <1>1 DEF vars, IInv, TypeOK, OwnerInv, OneOwner, AnswerInv, RunInv,
              VerdictHasEvidence, Gone
<1>2. CASE \E e \in Executors, d \in Decisions :
             CreateJournal(e, d) \/ RejectExecution(e, d)
  BY <1>2, CreateKeeps, CallKeeps
<1>3. CASE \E e \in Executors : ExecutorStep(e) \/ ExecutorCrash(e)
  BY <1>3, CallKeeps, CommitKeeps DEF ExecutorStep
<1>4. CASE \E d \in Decisions : SplunkDeletes(d) \/ SplunkRefuses(d) \/ Age(d)
  BY <1>4, SplunkKeeps
<1>5. CASE \E r \in Reconcilers :
             FindStuck(r) \/ Repair(r) \/ RepairFails(r) \/ ReconcilerCrash(r)
  BY <1>5, RunKeeps, RepairKeeps
<1>6. CASE \E r \in Reconcilers, d \in Decisions : Probe(r, d)
  BY <1>6, RunKeeps
<1> QED
  BY <1>1, <1>2, <1>3, <1>4, <1>5, <1>6 DEF Next

-----------------------------------------------------------------------------
(* Theorems *)

\* The inductive invariant holds in every state of every behavior.
THEOREM InvariantHolds == Spec => []IInv
<1> QED
  BY InitEstablishes, StepKeeps, PTL DEF Spec

\* The model is well typed: every row, call and run stays in its state space,
\* whatever crashes, stalls and repairs occur.
THEOREM TypeCorrect == Spec => []TypeOK
<1>1. IInv => TypeOK
  BY DEF IInv
<1> QED
  BY <1>1, InvariantHolds, PTL

\* executor-v2.ts step 1: however many calls are made for a decision, one at
\* most ever owns its journal row and so sends its DELETE.
THEOREM OneOwnerHolds == Spec => []OneOwner
<1>1. IInv => OneOwner
  BY DEF IInv
<1> QED
  BY <1>1, InvariantHolds, PTL

\* Every verdict on an ELIMINATE decision is audited, and EXECUTED means that
\* Splunk no longer has the index unless a failed probe was read as deletion.
THEOREM EvidenceHolds == Spec => []VerdictHasEvidence
<1>1. IInv => VerdictHasEvidence
  BY DEF IInv
<1> QED
  BY <1>1, InvariantHolds, PTL

-----------------------------------------------------------------------------
(* Probes that are answered *)

\* No reconciliation holds a failed probe, and none has confirmed anything by one.
ProbesAnswer ==
  /\ \A r \in Reconcilers : rec[r].probe # "error"
  /\ \A d \in Decisions : <<"reconciliation.execution_confirmed", "error">> \notin audit[d]

LEMMA StepAnswers ==
  ASSUME ~ProbeMayFail, TypeOK, ProbesAnswer, [Next]_vars
  PROVE  ProbesAnswer'
<1> USE DEF TypeOK
<1> DEFINE failed == <<"reconciliation.execution_confirmed", "error">>
<1>1. ASSUME UNCHANGED <<audit, rec>>
      PROVE  ProbesAnswer'
  BY <1>1 DEF ProbesAnswer
<1>2. ASSUME NEW e \in Executors, Commit(e)
      PROVE  ProbesAnswer'
  <2>1. <<"execution.completed", exec[e].result>> # failed
    OBVIOUS
  <2>2. \A d \in Decisions : failed \in audit'[d] => failed \in audit[d]
    BY <1>2, <2>1 DEF Commit
  <2> QED
    BY <1>2, <2>2 DEF Commit, ProbesAnswer
<1>3. ASSUME NEW r \in Reconcilers,
             rec' = [rec EXCEPT ![r] = IdleRun] \/ NextEntry(r) \/ FindStuck(r)
      PROVE  \A s \in Reconcilers : rec'[s].probe # "error"
  BY <1>3 DEF ProbesAnswer, IdleRun, NextEntry, FindStuck
<1>4. ASSUME NEW r \in Reconcilers, FindStuck(r) \/ RepairFails(r) \/ ReconcilerCrash(r)
      PROVE  ProbesAnswer'
  BY <1>3, <1>4 DEF FindStuck, RepairFails, ReconcilerCrash, ProbesAnswer
<1>5. ASSUME NEW r \in Reconcilers, NEW d \in Decisions, Probe(r, d)
      PROVE  ProbesAnswer'
  BY <1>5 DEF Probe, ProbesAnswer
<1>6. ASSUME NEW r \in Reconcilers, Repair(r)
      PROVE  ProbesAnswer'
  <2>1. NextEntry(r) /\ rec[r].probe # "error"
    BY <1>6 DEF Repair, ProbesAnswer
  <2>2. <<"reconciliation.execution_confirmed", rec[r].probe>> # failed /\ RecFailed # failed
    BY <2>1 DEF RecFailed
  <2>3. \A d \in Decisions : failed \in audit'[d] => failed \in audit[d]
    BY <1>6, <2>2 DEF Repair, Confirm, MarkFailed, CloseJournal
  <2> QED
    BY <1>3, <2>1, <2>3 DEF ProbesAnswer
<1> QED
  BY <1>1, <1>2, <1>4, <1>5, <1>6
     DEF Next, vars, CreateJournal, RejectExecution, ExecutorStep, SkipExternal, SendDelete,
         DeleteReturns, CommitFails, ExecutorCrash, SplunkDeletes, SplunkRefuses, Age

\* A failed probe is the only thing that makes EXECUTED untrue: with probes that are
\* answered, no executed ELIMINATE decision has its index left in Splunk, however many
\* reconciliations overlap, calls stall, commits fail and DELETEs land late
\* (reconciliation-worker.ts reads an error as exists = false).
THEOREM OnlyFailedProbesMislead ==
  ASSUME ~ProbeMayFail
  PROVE  Spec => []ExecutedOnlyIfGone
<1>1. Init => ProbesAnswer
  BY DEF Init, ProbesAnswer, IdleRun
<1>2. IInv /\ ProbesAnswer /\ [Next]_vars => ProbesAnswer'
  BY StepAnswers DEF IInv
<1>3. IInv /\ ProbesAnswer => ExecutedOnlyIfGone
  BY ConstantsAssumption DEF IInv, VerdictHasEvidence, ProbesAnswer, ExecutedOnlyIfGone
<1> QED
  BY <1>1, <1>2, <1>3, InvariantHolds, PTL DEF Spec

-----------------------------------------------------------------------------
(* One reconciliation at a time, and calls that end before stuckThresholdMs.  *)
(* A row then belongs to the call that inserted it until it has grown old     *)
(* without an owner, and to the reconciliation from then on.                  *)

Solo == ~MayStall /\ \A r, s \in Reconcilers : r = s

\* The row of a call in progress is open, and not old.
OwnedIsOpen ==
  \A e \in Executors : exec[e].pc \in {"call", "waiting", "commit"} =>
    journal[exec[e].d].status = "STARTED" /\ exec[e].d \notin aged

\* An open row stands for a decision without a verdict; an old row exists.
OpenIsUndecided ==
  \A d \in Decisions :
    /\ journal[d].status \in {"NONE", "STARTED"} => decision[d] = "APPROVED"
    /\ d \in aged => journal[d].status # "NONE"

\* The rows a reconciliation still has before it are old, and open.
BatchIsOpen ==
  \A r \in Reconcilers : rec[r].pc # "idle" =>
    /\ \A d \in rec[r].batch : d \in aged /\ journal[d].status = "STARTED"
    /\ rec[r].pc = "repair" => rec[r].entry \in rec[r].batch

\* Only a DELETE for a decision with a row is ever on its way, and a probe that failed
\* was one that may fail.
SentHasRow ==
  /\ \A d \in Decisions : request[d] # "none" => d \in Eliminate /\ journal[d].status # "NONE"
  /\ \A r \in Reconcilers : rec[r].probe = "error" => ProbeMayFail

SoloInv == OwnedIsOpen /\ OpenIsUndecided /\ BatchIsOpen /\ SentHasRow

LEMMA InitSolo == Init => SoloInv
BY ConstantsAssumption
   DEF Init, SoloInv, OwnedIsOpen, OpenIsUndecided, BatchIsOpen, SentHasRow, IdleRun

LEMMA CreateSolo ==
  ASSUME IInv, SoloInv, NEW e \in Executors, NEW d \in Decisions, CreateJournal(e, d)
  PROVE  SoloInv'
<1> USE DEF SoloInv
<1>0. TypeOK /\ journal[d].status = "NONE"
  BY DEF CreateJournal, KeyIsFree, IInv
<1>1. OwnedIsOpen'
  BY <1>0 DEF CreateJournal, TypeOK, OwnedIsOpen, OpenIsUndecided
<1>2. OpenIsUndecided'
  BY <1>0 DEF CreateJournal, TypeOK, OpenIsUndecided
<1>3. BatchIsOpen'
  BY <1>0 DEF CreateJournal, TypeOK, BatchIsOpen
<1>4. SentHasRow'
  BY <1>0 DEF CreateJournal, TypeOK, SentHasRow
<1> QED
  BY <1>1, <1>2, <1>3, <1>4

\* The steps of calls and of Splunk that leave the rows alone.
LEMMA CallSolo ==
  ASSUME IInv, SoloInv, NEW e \in Executors,
         \/ \E d \in Decisions : RejectExecution(e, d)
         \/ SkipExternal(e) \/ SendDelete(e) \/ DeleteReturns(e)
         \/ CommitFails(e) \/ ExecutorCrash(e)
  PROVE  SoloInv'
<1> USE DEF SoloInv
<1>0. TypeOK /\ OwnerInv /\ UNCHANGED <<decision, journal, aged, rec>>
  BY DEF IInv, RejectExecution, SkipExternal, SendDelete, DeleteReturns, CommitFails,
         ExecutorCrash
<1>1. OwnedIsOpen'
  <2>1. /\ \A x \in Executors : x # e => exec'[x] = exec[x]
        /\ exec'[e].pc \in {"call", "waiting", "commit"} =>
             exec[e].pc \in {"call", "waiting", "commit"} /\ exec'[e].d = exec[e].d
    BY <1>0 DEF TypeOK, RejectExecution, SkipExternal, SendDelete, DeleteReturns, CommitFails,
                ExecutorCrash, Proceed
  <2> QED
    BY <1>0, <2>1 DEF OwnedIsOpen
<1>2. OpenIsUndecided' /\ BatchIsOpen'
  BY <1>0 DEF OpenIsUndecided, BatchIsOpen
<1>3. SentHasRow'
  BY <1>0 DEF TypeOK, OwnerInv, SentHasRow, RejectExecution, SkipExternal, SendDelete,
              DeleteReturns, CommitFails, ExecutorCrash
<1> QED
  BY <1>1, <1>2, <1>3

LEMMA SplunkSolo ==
  ASSUME Solo, IInv, SoloInv, NEW d \in Decisions,
         SplunkDeletes(d) \/ SplunkRefuses(d) \/ Age(d)
  PROVE  SoloInv'
<1> USE DEF SoloInv
<1>0. TypeOK /\ UNCHANGED <<decision, journal, exec, rec>>
  BY DEF IInv, SplunkDeletes, SplunkRefuses, Age
<1>1. OwnedIsOpen'
  BY <1>0 DEF Solo, OwnedIsOpen, SplunkDeletes, SplunkRefuses, Age, Owner
<1>2. OpenIsUndecided' /\ BatchIsOpen'
  BY <1>0 DEF OpenIsUndecided, BatchIsOpen, SplunkDeletes, SplunkRefuses, Age
<1>3. SentHasRow'
  BY <1>0 DEF TypeOK, SentHasRow, SplunkDeletes, SplunkRefuses, Age
<1> QED
  BY <1>1, <1>2, <1>3

\* A call closes its row, which is in no batch because it is not old.
LEMMA CommitSolo ==
  ASSUME IInv, SoloInv, NEW e \in Executors, Commit(e)
  PROVE  SoloInv'
<1> USE DEF SoloInv
<1> DEFINE d == exec[e].d
<1>0. /\ TypeOK /\ d \in Decisions /\ d \notin aged /\ exec[e].owns
      /\ UNCHANGED <<aged, request, rec>>
  BY DEF Commit, IInv, OwnerInv, OwnedIsOpen
<1>1. \A x \in Decisions : x # d => journal'[x] = journal[x] /\ decision'[x] = decision[x]
  BY <1>0 DEF Commit, CloseRow, TypeOK
<1>2. journal'[d].status = "COMPLETED"
  BY <1>0 DEF Commit, CloseRow, TypeOK
<1>3. OwnedIsOpen'
  <2>1. exec'[e].pc = "done" /\ \A x \in Executors : x # e => exec'[x] = exec[x]
    BY <1>0 DEF Commit, Proceed, TypeOK
  <2>2. \A x \in Executors : x # e /\ exec[x].pc \in {"call", "waiting", "commit"} =>
          exec[x].d \in Decisions /\ exec[x].d # d
    BY <1>0 DEF IInv, OwnerInv, OneOwner
  <2> QED
    BY <1>0, <1>1, <2>1, <2>2 DEF OwnedIsOpen
<1>4. OpenIsUndecided'
  BY <1>0, <1>1, <1>2 DEF OpenIsUndecided
<1>5. BatchIsOpen'
  BY <1>0, <1>1 DEF TypeOK, BatchIsOpen
<1>6. SentHasRow'
  BY <1>0, <1>1, <1>2 DEF SentHasRow
<1> QED
  BY <1>3, <1>4, <1>5, <1>6

LEMMA RunSolo ==
  ASSUME IInv, SoloInv, NEW r \in Reconcilers,
         \/ FindStuck(r) \/ \E d \in Decisions : Probe(r, d)
         \/ RepairFails(r) \/ ReconcilerCrash(r)
  PROVE  SoloInv'
<1> USE DEF SoloInv
<1>0. TypeOK /\ UNCHANGED <<decision, journal, aged, request, exec>>
  BY DEF IInv, FindStuck, Probe, RepairFails, ReconcilerCrash
<1>1. OwnedIsOpen' /\ OpenIsUndecided'
  BY <1>0 DEF OwnedIsOpen, OpenIsUndecided
<1>2. BatchIsOpen' /\ SentHasRow'
  <2>1. CASE FindStuck(r)
    BY <1>0, <2>1 DEF FindStuck, OldestStuck, Stuck, TypeOK, BatchIsOpen, SentHasRow
  <2>2. CASE \E d \in Decisions : Probe(r, d)
    BY <1>0, <2>2 DEF Probe, NextOf, TypeOK, BatchIsOpen, SentHasRow
  <2>3. CASE RepairFails(r)
    BY <1>0, <2>3 DEF RepairFails, NextEntry, TypeOK, BatchIsOpen, SentHasRow
  <2>4. CASE ReconcilerCrash(r)
    BY <1>0, <2>4 DEF ReconcilerCrash, IdleRun, TypeOK, BatchIsOpen, SentHasRow
  <2> QED
    BY <2>1, <2>2, <2>3, <2>4
<1> QED
  BY <1>1, <1>2

\* A repair writes to an old and open row, which no call owns and no other run has.
LEMMA RepairWrites ==
  ASSUME IInv, SoloInv, NEW r \in Reconcilers, Repair(r)
  PROVE  LET d == rec[r].entry IN
         /\ d \in rec[r].batch /\ d \in Decisions /\ d \in aged /\ journal[d].status = "STARTED"
         /\ journal'[d].status \in {"COMPLETED", "FAILED"}
         /\ \A x \in Decisions : x # d => journal'[x] = journal[x] /\ decision'[x] = decision[x]
<1> DEFINE d == rec[r].entry
<1>1. /\ TypeOK /\ d \in rec[r].batch /\ d \in Decisions /\ d \in aged
      /\ journal[d].status = "STARTED"
  BY DEF Repair, IInv, RunInv, SoloInv, BatchIsOpen
<1>2. \/ journal' = [journal EXCEPT ![d] = [status |-> "COMPLETED", ext |-> rec[r].probe,
                                            rank |-> journal[d].rank]]
      \/ journal' = [journal EXCEPT ![d] = [status |-> "FAILED", ext |-> journal[d].ext,
                                            rank |-> journal[d].rank]]
      \/ journal' = [journal EXCEPT ![d] = [status |-> "COMPLETED", ext |-> journal[d].ext,
                                            rank |-> journal[d].rank]]
  BY DEF Repair, Confirm, MarkFailed, CloseJournal, CloseRow
<1>3. /\ journal'[d].status \in {"COMPLETED", "FAILED"}
      /\ \A x \in Decisions : x # d => journal'[x] = journal[x]
  BY <1>1, <1>2 DEF TypeOK
<1>4. \A x \in Decisions : x # d => decision'[x] = decision[x]
  BY <1>1 DEF Repair, Confirm, MarkFailed, CloseJournal, TypeOK
<1> QED
  BY <1>1, <1>3, <1>4

LEMMA RepairSolo ==
  ASSUME Solo, IInv, SoloInv, NEW r \in Reconcilers, Repair(r)
  PROVE  SoloInv'
<1> USE DEF SoloInv
<1> DEFINE d == rec[r].entry
<1>0. TypeOK /\ UNCHANGED <<aged, request, exec>>
  BY DEF Repair, IInv
<1>1. /\ d \in rec[r].batch /\ d \in Decisions /\ d \in aged /\ journal[d].status = "STARTED"
      /\ journal'[d].status \in {"COMPLETED", "FAILED"}
      /\ \A x \in Decisions : x # d => journal'[x] = journal[x] /\ decision'[x] = decision[x]
  BY RepairWrites
<1>2. OwnedIsOpen'
  BY <1>0, <1>1 DEF OwnedIsOpen, IInv, OwnerInv
<1>3. OpenIsUndecided'
  BY <1>0, <1>1 DEF OpenIsUndecided
<1>4. BatchIsOpen'
  <2>1. rec'[r].batch = rec[r].batch \ {d} /\ rec'[r].pc # "repair"
    BY <1>0 DEF Repair, NextEntry, TypeOK
  <2>2. rec[r].batch \subseteq Decisions /\ rec[r].pc = "repair" /\ \A s \in Reconcilers : s = r
    BY <1>0 DEF Repair, TypeOK, Solo
  <2> QED
    BY <1>0, <1>1, <2>1, <2>2 DEF BatchIsOpen
<1>5. SentHasRow'
  BY <1>0, <1>1 DEF SentHasRow, Repair, NextEntry, TypeOK
<1> QED
  BY <1>2, <1>3, <1>4, <1>5

LEMMA StepSolo == Solo /\ IInv /\ SoloInv /\ [Next]_vars => SoloInv'
<1> SUFFICES ASSUME Solo, IInv, SoloInv, [Next]_vars
             PROVE  SoloInv'
  OBVIOUS
<1>1. CASE UNCHANGED vars
  BY <1>1 DEF vars, SoloInv, OwnedIsOpen, OpenIsUndecided, BatchIsOpen, SentHasRow
<1>2. CASE \E e \in Executors, d \in Decisions :
             CreateJournal(e, d) \/ RejectExecution(e, d)
  BY <1>2, CreateSolo, CallSolo
<1>3. CASE \E e \in Executors : ExecutorStep(e) \/ ExecutorCrash(e)
  BY <1>3, CallSolo, CommitSolo DEF ExecutorStep
<1>4. CASE \E d \in Decisions : SplunkDeletes(d) \/ SplunkRefuses(d) \/ Age(d)
  BY <1>4, SplunkSolo
<1>5. CASE \E r \in Reconcilers :
             FindStuck(r) \/ Repair(r) \/ RepairFails(r) \/ ReconcilerCrash(r)
  BY <1>5, RunSolo, RepairSolo
<1>6. CASE \E r \in Reconcilers, d \in Decisions : Probe(r, d)
  BY <1>6, RunSolo
<1> QED
  BY <1>1, <1>2, <1>3, <1>4, <1>5, <1>6 DEF Next

\* With one reconciliation at a time and no stalled calls, a row that a call owns is
\* still open, an open row is undecided, and so are the rows of the reconciliation's
\* batch (executeDecisionSafe, reconcileExecutions).
THEOREM SoloInvariant ==
  ASSUME Solo
  PROVE  Spec => [](IInv /\ SoloInv)
<1>1. IInv /\ SoloInv /\ [Next]_vars => SoloInv'
  BY StepSolo
<1> QED
  BY <1>1, InitEstablishes, InitSolo, StepKeeps, PTL DEF Spec

\* The two actions that decide, and what the decision was before.
LEMMA StepDecides ==
  ASSUME Solo, IInv, SoloInv, [Next]_vars
  PROVE  \A d \in Decisions : decision[d] # "APPROVED" => decision'[d] = decision[d]
<1>1. ASSUME NEW e \in Executors, Commit(e)
      PROVE  \A d \in Decisions : decision[d] # "APPROVED" => decision'[d] = decision[d]
  <2>1. decision[exec[e].d] = "APPROVED"
    BY <1>1 DEF Commit, IInv, OwnerInv, SoloInv, OwnedIsOpen, OpenIsUndecided
  <2> QED
    BY <1>1, <2>1 DEF Commit, IInv, TypeOK
<1>2. ASSUME NEW r \in Reconcilers, Repair(r)
      PROVE  \A d \in Decisions : decision[d] # "APPROVED" => decision'[d] = decision[d]
  BY <1>2, RepairWrites DEF SoloInv, OpenIsUndecided
<1>3. CASE UNCHANGED decision
  BY <1>3
<1> QED
  BY <1>1, <1>2, <1>3
     DEF Next, vars, ExecutorStep, CreateJournal, RejectExecution, SkipExternal, SendDelete,
         DeleteReturns, CommitFails, ExecutorCrash, SplunkDeletes, SplunkRefuses, Age, FindStuck,
         Probe, RepairFails, ReconcilerCrash

\* With one reconciliation at a time and calls that end before stuckThresholdMs, no
\* verdict is rewritten, for any number of calls, decisions, crashes and failed probes
\* (executor-v2.ts step 3 and the repair of reconciliation-worker.ts never both decide
\* one row).
THEOREM VerdictsAreFinal ==
  ASSUME Solo
  PROVE  Spec => VerdictIsFinal
<1>1. IInv /\ SoloInv /\ [Next]_vars =>
        [\A d \in Decisions : decision[d] # "APPROVED" => decision'[d] = decision[d]]_vars
  BY StepDecides
<1> QED
  BY <1>1, SoloInvariant, PTL DEF Spec, VerdictIsFinal

-----------------------------------------------------------------------------
(* The steps of ExecutionOutcome that the journal takes *)

LEMMA SameOutcome ==
  ASSUME UNCHANGED <<decision, index>>,
         \A d \in Decisions : journal'[d].status = "NONE" <=> journal[d].status = "NONE"
  PROVE  UNCHANGED Outcome!avars
BY DEF Outcome!avars

LEMMA CommitOutcome ==
  ASSUME IInv, SoloInv, NEW e \in Executors, Commit(e)
  PROVE  Outcome!Resolve(exec[e].d)
<1> DEFINE d == exec[e].d
<1>1. /\ TypeOK /\ d \in Decisions /\ exec[e].result \in Results
      /\ journal[d].status = "STARTED" /\ decision[d] = "APPROVED"
      /\ d \in Eliminate /\ exec[e].result = "success" => Gone(d)
  BY DEF Commit, IInv, OwnerInv, AnswerInv, SoloInv, OwnedIsOpen, OpenIsUndecided
<1>2. /\ decision' = [decision EXCEPT ![d] = Verdict(exec[e].result)]
      /\ UNCHANGED index
      /\ \A x \in Decisions : journal'[x].status = "NONE" <=> journal[x].status = "NONE"
  BY <1>1 DEF Commit, CloseRow, TypeOK
<1>3. {x \in Decisions : journal'[x].status # "NONE"}
        = {x \in Decisions : journal[x].status # "NONE"}
  BY <1>2
<1>4. Outcome!Decide(d, Verdict(exec[e].result))
  BY <1>1, <1>2, <1>3 DEF Outcome!Decide, Verdict, Gone
<1> QED
  BY <1>4 DEF Outcome!Resolve, Verdict

LEMMA RepairOutcome ==
  ASSUME ~ProbeMayFail, IInv, SoloInv, NEW r \in Reconcilers, Repair(r)
  PROVE  Outcome!Resolve(rec[r].entry) \/ UNCHANGED Outcome!avars
<1> DEFINE d == rec[r].entry
<1>1. /\ TypeOK /\ d \in Decisions /\ journal[d].status = "STARTED" /\ decision[d] = "APPROVED"
      /\ rec[r].probe \in {"gone", "exists"} /\ (rec[r].probe = "gone" => Gone(d))
  BY RepairWrites DEF Repair, IInv, RunInv, SoloInv, OpenIsUndecided, SentHasRow, Probes
<1>2. /\ UNCHANGED index
      /\ \A x \in Decisions : journal'[x].status = "NONE" <=> journal[x].status = "NONE"
  BY <1>1, RepairWrites DEF Repair
<1>3. {x \in Decisions : journal'[x].status # "NONE"}
        = {x \in Decisions : journal[x].status # "NONE"}
  BY <1>2
<1>4. CASE Confirm(r, d)
  BY <1>1, <1>2, <1>3, <1>4 DEF Confirm, ReadsAsDeleted, Outcome!Resolve, Outcome!Decide, Gone
<1>5. CASE MarkFailed(r, d)
  BY <1>1, <1>2, <1>3, <1>5 DEF MarkFailed, Outcome!Resolve, Outcome!Decide
<1>6. CASE CloseJournal(r, d)
  BY <1>2, <1>6, SameOutcome DEF CloseJournal
<1> QED
  BY <1>4, <1>5, <1>6 DEF Repair

LEMMA StepOutcome ==
  ASSUME ~ProbeMayFail, Solo, IInv, SoloInv, [Next]_vars
  PROVE  [Outcome!OutcomeNext]_(Outcome!avars)
<1>1. ASSUME NEW e \in Executors, NEW d \in Decisions, CreateJournal(e, d)
      PROVE  Outcome!Start(d)
  <2>1. /\ journal[d].status = "NONE" /\ journal'[d].status = "STARTED"
        /\ \A x \in Decisions : x # d => journal'[x] = journal[x]
    BY <1>1 DEF CreateJournal, KeyIsFree, IInv, TypeOK
  <2>2. {x \in Decisions : journal'[x].status # "NONE"}
          = {x \in Decisions : journal[x].status # "NONE"} \cup {d}
    BY <2>1
  <2> QED
    BY <1>1, <2>1, <2>2 DEF CreateJournal, Outcome!Start
<1>2. ASSUME NEW d \in Decisions, SplunkDeletes(d)
      PROVE  Outcome!Disappear(IndexOf[d])
  <2>1. d \in Eliminate /\ journal[d].status # "NONE" /\ journal' = journal
    BY <1>2 DEF SplunkDeletes, SoloInv, SentHasRow
  <2> QED
    BY <1>2, <2>1 DEF SplunkDeletes, Outcome!Disappear
<1>3. CASE UNCHANGED <<journal, decision, index>>
  BY <1>3, SameOutcome
<1>4. ASSUME NEW e \in Executors, Commit(e)
      PROVE  Outcome!OutcomeNext
  <2>1. exec[e].d \in Decisions
    BY <1>4 DEF Commit, IInv, OwnerInv
  <2> QED
    BY <1>4, <2>1, CommitOutcome DEF Outcome!OutcomeNext
<1>5. ASSUME NEW r \in Reconcilers, Repair(r)
      PROVE  [Outcome!OutcomeNext]_(Outcome!avars)
  <2>1. rec[r].entry \in Decisions
    BY <1>5, RepairWrites
  <2> QED
    BY <1>5, <2>1, RepairOutcome DEF Outcome!OutcomeNext
<1>6. \A d \in Decisions : IndexOf[d] \in Indexes
  BY ConstantsAssumption
<1> QED
  BY <1>1, <1>2, <1>3, <1>4, <1>5, <1>6
     DEF Outcome!OutcomeNext, Next, vars, ExecutorStep, RejectExecution, SkipExternal, SendDelete,
         DeleteReturns, CommitFails, ExecutorCrash, SplunkRefuses, Age, FindStuck,
         Probe, RepairFails, ReconcilerCrash

\* The journal, the calls, Splunk's late answers and the repairs keep the safety part of
\* ExecutionOutcome, under the conditions of VerdictsAreFinal and with probes that are
\* answered: no decision starts or ends twice, no index disappears without a started
\* ELIMINATE decision, and EXECUTED means gone (executor-v2.ts, reconciliation-worker.ts).
THEOREM JournalRefinesOutcome ==
  ASSUME Solo, ~ProbeMayFail
  PROVE  Spec => Outcome!OutcomeInit /\ [][Outcome!OutcomeNext]_(Outcome!avars)
<1>1. Init => Outcome!OutcomeInit
  BY DEF Init, Outcome!OutcomeInit
<1>2. IInv /\ SoloInv /\ [Next]_vars => [Outcome!OutcomeNext]_(Outcome!avars)
  BY StepOutcome
<1> QED
  BY <1>1, <1>2, SoloInvariant, PTL DEF Spec

=============================================================================
