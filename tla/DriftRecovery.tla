--------------------------- MODULE DriftRecovery ---------------------------
(***************************************************************************)
(* evaluateDriftForSnapshot: the decisions of a new snapshot are compared  *)
(* with the snapshot before (drift-detection-service) in a loop, and each  *)
(* drift or clean decision is entered in the stability run of its decision *)
(* (confidence-recovery-service).  Percentages are in tenths, confidences  *)
(* in hundredths, time in days.                                            *)
(***************************************************************************)
EXTENDS Integers

CONSTANTS
  Indexes,  \* the indexes observed; one decision of each in a snapshot
  LastDay,  \* bound on the days observed
  Gaps,     \* days between two snapshots
  Volumes,  \* vol_drift_pct and util_delta_pct, in tenths of a percent
  Original  \* the confidence of decisions and new runs

ASSUME DriftAssumption ==
  /\ LastDay \in Nat /\ Original \in 0..100
  /\ Gaps \subseteq Nat \ {0} /\ Volumes \subseteq Nat

VARIABLES
  today,     \* the day of the snapshot
  age,       \* days since the snapshot before, 0 for the first
  mark,      \* drift_severity and drift_confidence_adjusted of its decisions
  stability, \* decision_stability_runs: the run of each of its decisions
  todo,      \* decisions the loop has not come to
  clean      \* cleanSnapshots: decisions without drift, before their recovery

driftVars == <<today, age, mark, stability, todo, clean>>

Thresholds == {7, 14, 30, 60, 90}
Severities == {"NONE", "NOISE", "METRIC", "SEMANTIC", "POLICY"}
NoRun == [state |-> "absent"]
NoMark == [severity |-> "unset", adjusted |-> 0]

DriftTypeOK ==
  /\ today \in 0..LastDay /\ age \in {0} \cup Gaps
  /\ mark \in [Indexes -> {NoMark} \cup [severity : Severities, adjusted : 0..100]]
  /\ stability \in [Indexes -> {NoRun} \cup
       [state : {"present"}, clean : Nat, lastClean : 0..LastDay, driftFree : 0..LastDay,
        penalized : 0..100, recovered : 0..100, reached : SUBSET Thresholds, drifts : Nat,
        cooldown : Nat]]
  /\ todo \subseteq Indexes /\ clean \subseteq Indexes

\* The first snapshot is under way.
DriftInit ==
  /\ today = 0 /\ age = 0
  /\ mark = [i \in Indexes |-> NoMark]
  /\ stability = [i \in Indexes |-> NoRun]
  /\ todo = Indexes /\ clean = {}

-----------------------------------------------------------------------------
(* drift-detection-service *)

\* Mutant: the weaker classes are tested first.
Mut_WeakFirst(vol, util, aged, retention) ==
  CASE retention -> "POLICY"
    [] ~retention /\ vol * 10 > 25 /\ vol * 10 <= 100 -> "METRIC"
    [] ~retention /\ (vol * 10 <= 25 \/ vol * 10 > 100) /\ vol > 0 -> "NOISE"
    [] OTHER -> "NONE"

\* classifyDriftSeverity of the drifts of volume and utilization, a snapshot older than
\* a week and a changed retention.  The thresholds, 0.25 for 25 percent and so on, are
\* compared with percentages: a quarter of one percent is above them.
Classify(vol, util, aged, retention) ==
  LET volume(hundredths) == vol * 10 > hundredths
      usage(hundredths) == util * 10 > hundredths
      semantic == volume(50) \/ usage(25) \/ (aged /\ volume(25))
      metric == volume(25) \/ usage(10)
  IN
  CASE retention -> "POLICY"
    [] ~retention /\ semantic -> "SEMANTIC"
    [] ~retention /\ ~semantic /\ metric -> "METRIC"
    [] ~retention /\ ~semantic /\ ~metric /\ (volume(5) \/ usage(5)) -> "NOISE"
    [] OTHER -> "NONE"

Least(s) == CASE s = "NONE" -> 0 [] s = "NOISE" -> 50 [] s = "METRIC" -> 250
              [] s = "SEMANTIC" -> 500 [] s = "POLICY" -> 800
Most(s) == CASE s = "NONE" -> 0 [] s = "NOISE" -> 150 [] s = "METRIC" -> 500
             [] s = "SEMANTIC" -> 800 [] s = "POLICY" -> 1000

\* confidencePenalty in thousandths: the drift as a fraction, kept within the class.
Penalty(vol, s) ==
  LET atLeast == IF vol < Least(s) THEN Least(s) ELSE vol
  IN  IF atLeast > Most(s) THEN Most(s) ELSE atLeast

-----------------------------------------------------------------------------
(* confidence-recovery-service *)

\* getOrCreateStabilityRun
RunOf(i) ==
  IF stability[i] # NoRun THEN stability[i]
  ELSE [state |-> "present", clean |-> 0, lastClean |-> today, driftFree |-> 0,
        penalized |-> Original, recovered |-> Original, reached |-> {}, drifts |-> 0,
        cooldown |-> 0]

Share(t) == CASE t = 7 -> 10 [] t = 14 -> 25 [] t = 30 -> 50 [] t = 60 -> 75 [] t = 90 -> 100

\* Confidence after the milestone of t days: a share of the original, divided by the
\* number of drifts and one, on top of the penalized confidence.
Recovered(run, t) ==
  LET new == run.penalized + (Original * Share(t)) \div (100 * (1 + run.drifts))
  IN  IF new > Original THEN Original ELSE new

\* recordCleanSnapshot.  daysSinceOriginal counts from the last clean snapshot; each
\* milestone overwrites the one before, so the last counts.
RecordClean(run) ==
  LET days == today - run.lastClean
      cooled == run.drifts = 0 \/ today > run.cooldown
      now == {t \in Thresholds : cooled /\ days >= t /\ days > run.driftFree}
      best == CHOOSE t \in now : \A u \in now : u <= t
  IN  [run EXCEPT !.clean = run.clean + 1, !.lastClean = today, !.driftFree = days,
                  !.reached = run.reached \cup now,
                  !.recovered = IF now = {} THEN run.recovered ELSE Recovered(run, best)]

Penalized(penalty) == (Original * (1000 - penalty)) \div 1000

\* recordDriftEvent: a cooldown of 7 days for each drift so far.
RecordDrift(run, penalty) ==
  [run EXCEPT !.clean = 0, !.penalized = Penalized(penalty), !.drifts = run.drifts + 1,
              !.cooldown = today + 7 * (run.drifts + 1)]

-----------------------------------------------------------------------------
(* evaluateDriftForSnapshot *)

\* Mutant: a run follows its index from snapshot to snapshot.
Mut_RunOfIndex(gap) ==
  /\ todo = {} /\ clean = {} /\ today + gap <= LastDay
  /\ today' = today + gap /\ age' = gap
  /\ mark' = [i \in Indexes |-> NoMark]
  /\ todo' = Indexes
  /\ UNCHANGED <<stability, clean>>

\* The next snapshot: its decisions are new rows, and no run has their ids.
TakeSnapshot(gap) ==
  /\ todo = {} /\ clean = {} /\ today + gap <= LastDay
  /\ today' = today + gap /\ age' = gap
  /\ mark' = [i \in Indexes |-> NoMark]
  /\ stability' = [i \in Indexes |-> NoRun]
  /\ todo' = Indexes
  /\ UNCHANGED clean

\* No snapshot before: nothing to compare with.
EvaluateNew(i) ==
  /\ i \in todo /\ age = 0
  /\ todo' = todo \ {i} /\ clean' = clean \cup {i}
  /\ UNCHANGED <<today, age, mark, stability>>

\* The index is not among the inputs, or its evaluation throws.
SkipDecision(i) ==
  /\ i \in todo
  /\ todo' = todo \ {i}
  /\ UNCHANGED <<today, age, mark, stability, clean>>

\* Mutant: the update names the decision.
Mut_MarkOne(i, new) == [mark EXCEPT ![i] = new]

\* persistDriftHistory updates agent_decisions WHERE snapshot_id = $3.
Marked(i, new) == [j \in Indexes |-> new]

\* A spike outside the seasonal envelope counts as clean, but is marked.
Evaluate(i, vol, util, retention, spike) ==
  LET s == Classify(vol, util, age > 7, retention) IN
  /\ i \in todo /\ age > 0
  /\ todo' = todo \ {i}
  /\ mark' = Marked(i, [severity |-> s, adjusted |-> Penalized(Penalty(vol, s))])
  /\ IF s = "NONE" \/ spike
       THEN clean' = clean \cup {i} /\ UNCHANGED stability
       ELSE /\ stability' = [stability EXCEPT ![i] = RecordDrift(RunOf(i), Penalty(vol, s))]
            /\ UNCHANGED clean
  /\ UNCHANGED <<today, age>>

\* After the loop, the clean decisions one by one.
Recover(i) ==
  /\ todo = {} /\ i \in clean
  /\ clean' = clean \ {i}
  /\ stability' = [stability EXCEPT ![i] = RecordClean(RunOf(i))]
  /\ UNCHANGED <<today, age, mark, todo>>

DriftNext ==
  \/ \E gap \in Gaps : TakeSnapshot(gap)
  \/ \E i \in Indexes :
       \/ EvaluateNew(i) \/ SkipDecision(i) \/ Recover(i)
       \/ \E vol \in Volumes, util \in Volumes, retention \in BOOLEAN, spike \in BOOLEAN :
            Evaluate(i, vol, util, retention, spike)

DriftSpec == DriftInit /\ [][DriftNext]_driftVars

-----------------------------------------------------------------------------
(* Properties *)

\* "Indexes with no drift can begin recovering from previous penalties"
\* (aggregation-service.ts:1841) comes to nothing, however long an index is clean: a
\* run belongs to a decision, the decision to a snapshot, and a run that is as old as
\* its snapshot reaches no milestone.
NoMilestoneReached ==
  \A i \in Indexes : stability[i] # NoRun =>
    stability[i].reached = {} /\ stability[i].recovered = Original

\* The drift of one decision becomes the drift of all: whatever is evaluated, skipped
\* or still to come, the decisions of a snapshot show one severity, that of the
\* decision the loop looked at last.
SnapshotSharesSeverity ==
  \A i, j \in Indexes : mark[i] = mark[j]

Rank(s) == CASE s = "NONE" -> 0 [] s = "NOISE" -> 1 [] s = "METRIC" -> 2
             [] s = "SEMANTIC" -> 3 [] s = "POLICY" -> 4

\* Of two decisions of a snapshot that differ in the volume drift only, the larger drift
\* never has the lower class or the smaller penalty: the cascade of thresholds has no gap.
LargerDriftWeighsMore ==
  \A v, w, util \in Volumes, retention \in BOOLEAN :
    v <= w => LET s == Classify(v, util, age > 7, retention)
                  t == Classify(w, util, age > 7, retention)
              IN  Rank(s) <= Rank(t) /\ Penalty(v, s) <= Penalty(w, t)

=============================================================================
