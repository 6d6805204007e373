-------------------------- MODULE BulkActionsProofs --------------------------
(***************************************************************************)
(* Proofs about BulkActions for every number of concurrent requests, every *)
(* set of rows and every list of indexes.                                  *)
(*                                                                         *)
(* A result true is a promise about the COMMIT: the transaction holds a    *)
(* row of the index it was pushed for.  The invariant says so of every     *)
(* result of a transaction that can still commit (ResultsAreHeld), of the  *)
(* statement under way (UpdateIsOnTarget), and that a transaction taken    *)
(* back cannot answer success any more (AbortedHasFailure).                *)
(***************************************************************************)
EXTENDS BulkActions, TLAPS

\* What a request has gone through is a part of what it names, and nothing before it
\* begins.
ResultsFit(r) ==
  /\ Len(results[r]) <= Len(names[r])
  /\ phase[r] = "idle" => results[r] = <<>>
  /\ phase[r] = "updating" => Remaining(r)

\* Each result true is held by a row of its index.
ResultsAreHeld(r) ==
  phase[r] \in {"open", "updating"} =>
    \A k \in 1..Len(results[r]) : results[r][k] =>
      \E d \in written[r] : IndexOf[d] = names[r][k]

\* The statement under way goes through rows of the next index, and holds those it
\* has returned.  No other state has rows to go through.
UpdateIsOnTarget(r) ==
  /\ phase[r] = "updating" =>
       /\ \A d \in targets[r] \cup returned[r] : IndexOf[d] = names[r][Len(results[r]) + 1]
       /\ returned[r] \subseteq written[r]
  /\ phase[r] # "updating" => targets[r] = {}

\* A failed statement leaves a result false behind.
AbortedHasFailure(r) ==
  phase[r] = "aborted" => \E k \in 1..Len(results[r]) : results[r][k] = FALSE

RequestInv(r) ==
  ResultsFit(r) /\ ResultsAreHeld(r) /\ UpdateIsOnTarget(r) /\ AbortedHasFailure(r)

BulkInv == BulkTypeOK /\ \A r \in BulkRequests : RequestInv(r)

-----------------------------------------------------------------------------
(* Lemmas *)

LEMMA OrdersAreSequences == Orders \subseteq Seq(Named)
BY BulkAssumption DEF Orders, BoundedSeq, SeqOf

\* What the sequences of a request are, for the steps that take them apart.
LEMMA RequestTypes ==
  ASSUME BulkTypeOK, NEW r \in BulkRequests
  PROVE  /\ names[r] \in Seq(Named)
         /\ results[r] \in Seq(BOOLEAN)
         /\ targets[r] \subseteq DecisionRows
         /\ returned[r] \subseteq DecisionRows
         /\ written[r] \subseteq DecisionRows
         /\ r \in Actors /\ r # Worker
<1>1. names[r] \in Seq(Named)
  <2>1. <<>> \in Seq(Named)
    OBVIOUS
  <2>2. names[r] \in Orders \/ names[r] = <<>>
    BY DEF BulkTypeOK
  <2> QED
    BY <2>1, <2>2, OrdersAreSequences
<1> QED
  BY <1>1, BulkAssumption DEF BulkTypeOK, Actors

\* A request that a step leaves alone keeps its part of the invariant.
LEMMA OthersKeep ==
  ASSUME NEW q \in BulkRequests, RequestInv(q),
         UNCHANGED <<phase[q], names[q], targets[q], returned[q], results[q], written[q]>>
  PROVE  RequestInv(q)'
BY DEF RequestInv, ResultsFit, Remaining, ResultsAreHeld, UpdateIsOnTarget, AbortedHasFailure

LEMMA BulkInitEstablishes == BulkInit => BulkInv
<1> SUFFICES ASSUME BulkInit PROVE BulkInv
  OBVIOUS
<1>1. BulkTypeOK
  BY BulkAssumption DEF BulkInit, BulkTypeOK, Actors
<1>2. ASSUME NEW r \in BulkRequests
      PROVE  RequestInv(r)
  <2>1. phase[r] = "idle" /\ names[r] = <<>> /\ results[r] = <<>> /\ targets[r] = {}
    BY DEF BulkInit, Actors
  <2> QED
    BY <2>1 DEF RequestInv, ResultsFit, ResultsAreHeld, UpdateIsOnTarget, AbortedHasFailure
<1> QED
  BY <1>1, <1>2 DEF BulkInv

\* A request opens its transaction.
LEMMA BeginKeeps ==
  ASSUME BulkInv, NEW r \in BulkRequests, NEW order \in Orders, Begin(r, order)
  PROVE  BulkInv'
<1> USE BulkAssumption DEF BulkInv
<1>1. BulkTypeOK'
  BY DEF Begin, BulkTypeOK, Actors
<1>2. RequestInv(r)'
  <2>1. /\ phase'[r] = "open" /\ names'[r] = order
        /\ UNCHANGED <<targets[r], returned[r], results[r], written[r]>>
    BY DEF Begin, BulkTypeOK, Actors
  <2>2. phase[r] = "idle" /\ results[r] = <<>> /\ targets[r] = {}
    BY DEF Begin, RequestInv, ResultsFit, UpdateIsOnTarget
  <2> QED
    BY <2>1, <2>2, RequestTypes, OrdersAreSequences
       DEF RequestInv, ResultsFit, Remaining, ResultsAreHeld, UpdateIsOnTarget, AbortedHasFailure
<1>3. \A q \in BulkRequests \ {r} : RequestInv(q)'
  BY OthersKeep DEF Begin, BulkTypeOK, Actors
<1> QED
  BY <1>1, <1>2, <1>3

\* The statement for the next index starts, and goes through its rows one by one.
LEMMA BulkStartKeeps ==
  ASSUME BulkInv, NEW r \in BulkRequests, StartUpdate(r)
  PROVE  BulkInv'
<1> USE BulkAssumption DEF BulkInv
<1>1. BulkTypeOK'
  BY DEF StartUpdate, BulkTypeOK, Actors
<1>2. RequestInv(r)'
  <2>1. /\ phase[r] = "open" /\ Remaining(r) /\ phase'[r] = "updating"
        /\ \A d \in targets'[r] : IndexOf[d] = names[r][Len(results[r]) + 1]
        /\ returned'[r] = {}
        /\ UNCHANGED <<names[r], results[r], written[r]>>
    BY DEF StartUpdate, BulkTypeOK, Actors
  <2> QED
    BY <2>1
       DEF RequestInv, ResultsFit, Remaining, ResultsAreHeld, UpdateIsOnTarget, AbortedHasFailure
<1>3. \A q \in BulkRequests \ {r} : RequestInv(q)'
  BY OthersKeep DEF StartUpdate, BulkTypeOK, Actors
<1> QED
  BY <1>1, <1>2, <1>3

LEMMA UpdateKeeps ==
  ASSUME BulkInv, NEW r \in BulkRequests, NEW d \in DecisionRows, UpdateRow(r, d)
  PROVE  BulkInv'
<1> USE BulkAssumption DEF BulkInv
<1>1. BulkTypeOK'
  BY DEF UpdateRow, BulkTypeOK, Actors
<1>2. RequestInv(r)'
  <2>1. /\ d \in targets[r]
        /\ targets'[r] = targets[r] \ {d}
        /\ returned'[r] = returned[r] \cup {d}
        /\ written'[r] = written[r] \cup {d}
        /\ UNCHANGED <<phase[r], names[r], results[r]>>
    BY DEF UpdateRow, BulkTypeOK, Actors
  <2>2. phase[r] = "updating"
    BY <2>1 DEF RequestInv, UpdateIsOnTarget
  <2> QED
    BY <2>1, <2>2
       DEF RequestInv, ResultsFit, Remaining, ResultsAreHeld, UpdateIsOnTarget, AbortedHasFailure
<1>3. \A q \in BulkRequests \ {r} : RequestInv(q)'
  BY OthersKeep DEF UpdateRow, BulkTypeOK, Actors
<1> QED
  BY <1>1, <1>2, <1>3

\* The result of a statement is pushed: true only with a row in hand.
LEMMA PushKeeps ==
  ASSUME BulkInv, NEW r \in BulkRequests, PushResult(r)
  PROVE  BulkInv'
<1> USE BulkAssumption DEF BulkInv
<1>1. BulkTypeOK'
  BY DEF PushResult, Found, BulkTypeOK, Actors
<1>2. RequestInv(r)'
  <2> DEFINE n == Len(results[r])
  <2>1. /\ phase[r] = "updating" /\ phase'[r] = "open" /\ targets[r] = {}
        /\ results'[r] = Append(results[r], Found(r))
        /\ UNCHANGED <<names[r], targets[r], written[r]>>
    BY DEF PushResult, BulkTypeOK, Actors
  <2>2. /\ Len(results'[r]) = n + 1 /\ results'[r][n + 1] = Found(r)
        /\ \A k \in 1..n : results'[r][k] = results[r][k]
    BY <2>1, RequestTypes
  <2>3. n \in Nat /\ Len(names[r]) \in Nat
    BY RequestTypes
  <2>4. ResultsFit(r)'
    BY <2>1, <2>2, <2>3 DEF RequestInv, ResultsFit, Remaining
  <2>5. ResultsAreHeld(r)'
    <3> SUFFICES ASSUME NEW k \in 1..(n + 1), results'[r][k]
                 PROVE  \E d \in written[r] : IndexOf[d] = names[r][k]
      BY <2>1, <2>2 DEF ResultsAreHeld
    <3>1. CASE k \in 1..n
      BY <3>1, <2>1, <2>2 DEF RequestInv, ResultsAreHeld
    <3>2. CASE k = n + 1
      <4>1. returned[r] # {}
        BY <3>2, <2>2 DEF Found
      <4>2. /\ \A d \in returned[r] : IndexOf[d] = names[r][n + 1]
            /\ returned[r] \subseteq written[r]
        BY <2>1 DEF RequestInv, UpdateIsOnTarget
      <4> QED
        BY <3>2, <4>1, <4>2
    <3> QED
      BY <3>1, <3>2, <2>3
  <2> QED
    BY <2>1, <2>4, <2>5 DEF RequestInv, UpdateIsOnTarget, AbortedHasFailure
<1>3. \A q \in BulkRequests \ {r} : RequestInv(q)'
  BY OthersKeep DEF PushResult, BulkTypeOK, Actors
<1> QED
  BY <1>1, <1>2, <1>3

\* A failed statement takes the rows back and fails every index that is left.
LEMMA FailureKeeps ==
  ASSUME BulkInv, NEW r \in BulkRequests, StatementFails(r)
  PROVE  BulkInv'
<1> USE BulkAssumption DEF BulkInv
<1> DEFINE all == [k \in DOMAIN names[r] |-> k \in DOMAIN results[r] /\ results[r][k]]
<1>1. /\ names[r] \in Seq(Named) /\ Len(names[r]) \in Nat
      /\ DOMAIN names[r] = 1..Len(names[r])
      /\ results[r] \in Seq(BOOLEAN) /\ Len(results[r]) \in Nat
      /\ DOMAIN results[r] = 1..Len(results[r])
  BY RequestTypes
<1>2. all \in Seq(BOOLEAN) /\ Len(all) = Len(names[r])
  <2>1. all \in [1..Len(names[r]) -> BOOLEAN]
    BY <1>1
  <2> QED
    BY <2>1, <1>1
<1>3. /\ Remaining(r) /\ phase'[r] = "aborted"
      /\ results'[r] = all /\ targets'[r] = {}
      /\ UNCHANGED names
  BY DEF StatementFails, BulkTypeOK, Actors
<1>4. BulkTypeOK'
  <2>1. results' \in [BulkRequests -> Seq(BOOLEAN)]
    BY <1>2 DEF StatementFails, BulkTypeOK
  <2> QED
    BY <2>1 DEF StatementFails, BulkTypeOK, Actors
<1>5. RequestInv(r)'
  <2>1. Len(results[r]) + 1 \in 1..Len(names[r]) /\ all[Len(results[r]) + 1] = FALSE
    <3>1. Len(results[r]) + 1 \in 1..Len(names[r])
      BY <1>1, <1>3 DEF Remaining
    <3>2. Len(results[r]) + 1 \notin DOMAIN results[r]
      BY <1>1
    <3> QED
      BY <1>1, <3>1, <3>2
  <2> HIDE DEF all
  <2> QED
    BY <1>2, <1>3, <2>1
       DEF RequestInv, ResultsFit, ResultsAreHeld, UpdateIsOnTarget, AbortedHasFailure
<1>6. \A q \in BulkRequests \ {r} : RequestInv(q)'
  BY OthersKeep DEF StatementFails, BulkTypeOK, Actors
<1> QED
  BY <1>4, <1>5, <1>6

LEMMA BulkCommitKeeps ==
  ASSUME BulkInv, NEW r \in BulkRequests, CommitAndAnswer(r)
  PROVE  BulkInv'
<1> USE BulkAssumption DEF BulkInv
<1>1. BulkTypeOK'
  BY DEF CommitAndAnswer, Committed, BulkTypeOK, Actors
<1>2. RequestInv(r)'
  <2>1. /\ phase[r] \in {"open", "aborted"} /\ phase'[r] \in {"success", "failure"}
        /\ names'[r] = <<>> /\ results'[r] = <<>> /\ UNCHANGED targets
    BY DEF CommitAndAnswer, BulkTypeOK, Actors
  <2> QED
    BY <2>1
       DEF RequestInv, ResultsFit, ResultsAreHeld, UpdateIsOnTarget, AbortedHasFailure
<1>3. \A q \in BulkRequests \ {r} : RequestInv(q)'
  BY OthersKeep DEF CommitAndAnswer, BulkTypeOK, Actors
<1> QED
  BY <1>1, <1>2, <1>3

\* The worker's transactions write rows and take rows away from the statements.
LEMMA BulkWorkerKeeps ==
  ASSUME BulkInv,
         \/ BeginBatch \/ CommitBatch \/ RollBackBatch
         \/ \E d \in DecisionRows : ReplaceDecision(d)
  PROVE  BulkInv'
<1> USE BulkAssumption DEF BulkInv
<1>1. CASE BeginBatch
  <2>1. BulkTypeOK'
    BY <1>1 DEF BeginBatch, BulkTypeOK, Actors
  <2> QED
    BY <1>1, <2>1, OthersKeep DEF BeginBatch, BulkTypeOK, Actors
<1>2. CASE RollBackBatch
  <2>1. BulkTypeOK'
    BY <1>2 DEF RollBackBatch, EndBatch, BulkTypeOK, Actors
  <2> QED
    BY <1>2, <2>1, OthersKeep DEF RollBackBatch, EndBatch, BulkTypeOK, Actors
<1>3. ASSUME NEW d \in DecisionRows, ReplaceDecision(d)
      PROVE  BulkInv'
  <2>1. BulkTypeOK'
    BY <1>3 DEF ReplaceDecision, BulkTypeOK, Actors
  <2> QED
    BY <1>3, <2>1, OthersKeep DEF ReplaceDecision, BulkTypeOK, Actors
<1>4. CASE CommitBatch
  <2>1. BulkTypeOK'
    BY <1>4 DEF CommitBatch, EndBatch, Committed, BulkTypeOK, Actors
  <2>2. ASSUME NEW q \in BulkRequests
        PROVE  RequestInv(q)'
    <3>1. /\ targets'[q] \subseteq targets[q]
          /\ UNCHANGED <<phase[q], names[q], returned[q], results[q], written[q]>>
      BY <1>4 DEF CommitBatch, EndBatch, BulkTypeOK, Actors
    <3> QED
      BY <3>1
         DEF RequestInv, ResultsFit, Remaining, ResultsAreHeld, UpdateIsOnTarget, AbortedHasFailure
  <2> QED
    BY <2>1, <2>2
<1> QED
  BY <1>1, <1>2, <1>3, <1>4

LEMMA BulkStepKeeps == BulkInv /\ [BulkNext]_bulkVars => BulkInv'
<1> SUFFICES ASSUME BulkInv, [BulkNext]_bulkVars PROVE BulkInv'
  OBVIOUS
<1>1. CASE UNCHANGED bulkVars
  BY <1>1, OthersKeep DEF bulkVars, BulkInv, BulkTypeOK
<1>2. CASE BulkNext
  BY <1>2, BeginKeeps, BulkStartKeeps, UpdateKeeps, PushKeeps, FailureKeeps, BulkCommitKeeps,
     BulkWorkerKeeps DEF BulkNext
<1> QED
  BY <1>1, <1>2

-----------------------------------------------------------------------------
(* Theorems *)

\* Every row, transaction and list of results has its type.
THEOREM BulkTypes == BulkSpec => []BulkTypeOK
<1>1. BulkInv => BulkTypeOK
  BY DEF BulkInv
<1> QED
  BY <1>1, BulkInitEstablishes, BulkStepKeeps, PTL DEF BulkSpec

\* success: true means that each named index has, once the answer is given, a committed
\* row that carries the request's action, however the statements, the worker's batches
\* and other requests interleave, and whatever statement failed on the way.
THEOREM SuccessIsWholeHolds == BulkSpec => SuccessIsWhole
<1>1. ASSUME BulkInv, [BulkNext]_bulkVars
      PROVE  \A r \in BulkRequests : phase[r] # "success" /\ phase'[r] = "success" =>
               \A k \in DOMAIN names[r] :
                 \E d \in DecisionRows : IndexOf[d] = names[r][k] /\ decided'[d] = r
  <2> SUFFICES ASSUME NEW r \in BulkRequests, phase[r] # "success", phase'[r] = "success"
               PROVE  \A k \in DOMAIN names[r] :
                        \E d \in DecisionRows : IndexOf[d] = names[r][k] /\ decided'[d] = r
    OBVIOUS
  <2> USE BulkAssumption DEF BulkInv
  <2>1. CommitAndAnswer(r)
    <3>1. BulkNext
      BY <1>1 DEF bulkVars
    <3>2. ASSUME NEW q \in BulkRequests,
                 \/ \E order \in Orders : Begin(q, order)
                 \/ \E d \in DecisionRows : UpdateRow(q, d)
                 \/ StartUpdate(q) \/ PushResult(q) \/ StatementFails(q)
          PROVE  FALSE
      BY <1>1, <3>2 DEF Begin, UpdateRow, StartUpdate, PushResult, StatementFails,
                        BulkTypeOK, Actors
    <3>3. ASSUME BeginBatch \/ EndBatch \/ \E d \in DecisionRows : ReplaceDecision(d)
          PROVE  FALSE
      BY <1>1, <3>3 DEF BeginBatch, EndBatch, ReplaceDecision, BulkTypeOK, Actors
    <3>4. ASSUME NEW q \in BulkRequests, CommitAndAnswer(q)
          PROVE  q = r
      BY <1>1, <3>4 DEF CommitAndAnswer, BulkTypeOK, Actors
    <3> QED
      BY <3>1, <3>2, <3>3, <3>4 DEF BulkNext, CommitBatch, RollBackBatch
  <2>2. AllSuccessful(r) /\ phase[r] \in {"open", "aborted"} /\ ~Remaining(r)
    BY <1>1, <2>1 DEF CommitAndAnswer, BulkTypeOK, Actors
  <2>3. /\ DOMAIN names[r] = 1..Len(names[r]) /\ Len(names[r]) \in Nat
        /\ DOMAIN results[r] = 1..Len(results[r]) /\ Len(results[r]) \in Nat
        /\ \A k \in 1..Len(results[r]) : results[r][k] \in BOOLEAN
        /\ written[r] \subseteq DecisionRows
    BY <1>1, RequestTypes
  <2>4. Len(results[r]) = Len(names[r])
    BY <1>1, <2>2, <2>3 DEF RequestInv, ResultsFit, Remaining
  <2>5. \A k \in 1..Len(results[r]) : results[r][k]
    BY <2>2, <2>3 DEF AllSuccessful, ToSet
  <2>6. phase[r] = "open"
    BY <1>1, <2>2, <2>3, <2>5 DEF RequestInv, AbortedHasFailure
  <2>7. \A d \in written[r] : decided'[d] = r
    BY <2>1, <2>3 DEF CommitAndAnswer, Committed
  <2> QED
    BY <1>1, <2>3, <2>4, <2>5, <2>6, <2>7 DEF RequestInv, ResultsAreHeld
<1> QED
  BY <1>1, BulkInitEstablishes, BulkStepKeeps, PTL DEF BulkSpec, SuccessIsWhole

=============================================================================
