-------------------------- MODULE GovernanceQueue --------------------------
(***************************************************************************)
(* The governance queue: GovernanceQueueProducer and                       *)
(* GovernanceQueueConsumer around a BullMQ queue.  An envelope carries an  *)
(* idempotency key that depends on its trace alone; a consumer process     *)
(* remembers the keys it has finished in its own memory.  BullMQ may hand  *)
(* out a job again when its holder does not renew the lock.                *)
(***************************************************************************)
EXTENDS Naturals, FiniteSets

CONSTANTS
  Envelopes,    \* executionIds, the BullMQ job ids
  Traces,       \* traces, and with them idempotency keys
  TraceOf,      \* the trace an envelope belongs to
  GovConsumers, \* consumer processes
  MaxStalled    \* maxStalledCount

ASSUME GovQueueAssumption ==
  /\ IsFiniteSet(Envelopes)
  /\ TraceOf \in [Envelopes -> Traces]
  /\ MaxStalled \in Nat

VARIABLES
  envelope,   \* the BullMQ job of each envelope
  handler,    \* the n-th run of handleJob for an envelope
  keyCache,   \* idempotencyCache of each consumer
  effects,    \* how often the processor took effect for a trace
  successes   \* the envelopes with a JOB_EXECUTION_SUCCESS event

govQueueVars == <<envelope, handler, keyCache, effects, successes>>

Attempts == 0..MaxStalled

Idle == [pc |-> "idle"]
HandlerPc == {"process", "cache", "return", "throw"}

\* stalls counts how often the lock ran out.
GovQueueTypeOK ==
  /\ envelope \in [Envelopes ->
       [state : {"absent", "waiting", "active", "completed", "failed"},
        stalls : Attempts]]
  /\ handler \in [Envelopes \X Attempts ->
       {Idle} \cup [pc : HandlerPc, at : GovConsumers]]
  /\ keyCache \in [GovConsumers -> SUBSET Traces]
  /\ effects \in [Traces -> Nat]
  /\ successes \subseteq Envelopes

GovQueueInit ==
  /\ envelope = [j \in Envelopes |-> [state |-> "absent", stalls |-> 0]]
  /\ handler = [h \in Envelopes \X Attempts |-> Idle]
  /\ keyCache = [c \in GovConsumers |-> {}]
  /\ effects = [t \in Traces |-> 0]
  /\ successes = {}

-----------------------------------------------------------------------------
(* The producer *)

\* enqueueJob.  BullMQ ignores the add of a job id it already has.
Submit(j) ==
  /\ envelope[j].state = "absent"
  /\ envelope' = [envelope EXCEPT ![j].state = "waiting"]
  /\ UNCHANGED <<handler, keyCache, effects, successes>>

-----------------------------------------------------------------------------
(* BullMQ *)

\* Mutant: the limit of stalls is off by one.
Mut_OneStallMore(j) ==
  /\ envelope[j].state = "active"
  /\ envelope' = [envelope EXCEPT ![j] =
       IF @.stalls <= MaxStalled
         THEN [@ EXCEPT !.state = "waiting", !.stalls = @ + 1]
         ELSE [@ EXCEPT !.state = "failed"]]
  /\ UNCHANGED <<handler, keyCache, effects, successes>>

\* Mutant: a job that stalled too often is left alone.
Mut_NeverGiveUp(j) ==
  /\ envelope[j].state = "active" /\ envelope[j].stalls < MaxStalled
  /\ envelope' = [envelope EXCEPT ![j].state = "waiting", ![j].stalls = @ + 1]
  /\ UNCHANGED <<handler, keyCache, effects, successes>>

\* The lock was not renewed: the holder died, or its event loop was blocked.
StallDetected(j) ==
  /\ envelope[j].state = "active"
  /\ envelope' = [envelope EXCEPT ![j] =
       IF @.stalls < MaxStalled THEN [state |-> "waiting", stalls |-> @.stalls + 1]
                                ELSE [state |-> "failed", stalls |-> @.stalls]]
  /\ UNCHANGED <<handler, keyCache, effects, successes>>

\* Only the run that holds the lock may finish the job.
HoldsLock(j, n) == envelope[j].state = "active" /\ envelope[j].stalls = n

-----------------------------------------------------------------------------
(* handleJob *)

At(j, n, pc) == handler[<<j, n>>].pc = pc
GoTo(j, n, pc) == handler' = [handler EXCEPT ![<<j, n>>].pc = pc]

\* Mutant: the cache is not consulted.
Mut_NeverCached(j, c) == FALSE

IsCached(j, c) == TraceOf[j] \in keyCache[c]

\* BullMQ hands out the job, and handleJob runs up to its first await: the envelope
\* may be invalid or past its deadline, its key may be known already.
HandOut(j, c) ==
  /\ envelope[j].state = "waiting"
  /\ envelope' = [envelope EXCEPT ![j].state = "active"]
  /\ \E pc \in {"throw", IF IsCached(j, c) THEN "return" ELSE "process"} :
       handler' = [handler EXCEPT ![<<j, envelope[j].stalls>>] = [pc |-> pc, at |-> c]]
  /\ UNCHANGED <<keyCache, effects, successes>>

\* The processor changes the world ...
TakeEffect(j, n) ==
  /\ At(j, n, "process")
  /\ effects' = [effects EXCEPT ![TraceOf[j]] = @ + 1]
  /\ GoTo(j, n, "cache")
  /\ UNCHANGED <<envelope, keyCache, successes>>

\* Mutant: the processor is called again at once.
Mut_RetryInside(j, n) ==
  /\ handler[<<j, n>>].pc \in {"process", "cache"} /\ effects[TraceOf[j]] < 5
  /\ GoTo(j, n, "process")
  /\ UNCHANGED <<envelope, keyCache, effects, successes>>

\* ... and can throw before that or after.
ProcessorThrows(j, n) ==
  /\ handler[<<j, n>>].pc \in {"process", "cache"}
  /\ GoTo(j, n, "throw")
  /\ UNCHANGED <<envelope, keyCache, effects, successes>>

\* Mutant: the key is remembered before the processor has returned.
Mut_CacheEarly(j, n) ==
  /\ handler[<<j, n>>].pc \in {"process", "cache"}
  /\ keyCache' = [keyCache EXCEPT ![handler[<<j, n>>].at] = @ \cup {TraceOf[j]}]
  /\ successes' \in {successes, successes \cup {j}}
  /\ GoTo(j, n, "return")
  /\ UNCHANGED <<envelope, effects>>

\* The result is remembered and the event inserted, or not: the insert is tried once.
CacheResult(j, n) ==
  /\ At(j, n, "cache")
  /\ keyCache' = [keyCache EXCEPT ![handler[<<j, n>>].at] = @ \cup {TraceOf[j]}]
  /\ successes' \in {successes, successes \cup {j}}
  /\ GoTo(j, n, "return")
  /\ UNCHANGED <<envelope, effects>>

\* The job completes, or fails: the producer asks for one attempt only, so that a
\* retryable error ends it like any other, whatever shouldRetryJob says.
Finish(j, n) ==
  /\ handler[<<j, n>>].pc \in {"return", "throw"}
  /\ handler' = [handler EXCEPT ![<<j, n>>] = Idle]
  /\ envelope' =
       IF HoldsLock(j, n)
         THEN [envelope EXCEPT ![j].state =
                 IF At(j, n, "return") THEN "completed" ELSE "failed"]
         ELSE envelope
  /\ UNCHANGED <<keyCache, effects, successes>>

-----------------------------------------------------------------------------
(* Processes *)

\* A consumer process dies and comes back with an empty cache.
ConsumerRestarts(c) ==
  /\ \/ keyCache[c] # {}
     \/ \E h \in DOMAIN handler : handler[h] # Idle /\ handler[h].at = c
  /\ keyCache' = [keyCache EXCEPT ![c] = {}]
  /\ handler' = [h \in DOMAIN handler |->
       IF handler[h] # Idle /\ handler[h].at = c THEN Idle ELSE handler[h]]
  /\ UNCHANGED <<envelope, effects, successes>>

-----------------------------------------------------------------------------
HandlerStep(j, n) ==
  TakeEffect(j, n) \/ ProcessorThrows(j, n) \/ CacheResult(j, n) \/ Finish(j, n)

GovQueueNext ==
  \/ \E j \in Envelopes :
       \/ Submit(j) \/ StallDetected(j)
       \/ \E c \in GovConsumers : HandOut(j, c)
       \/ \E n \in Attempts : HandlerStep(j, n)
  \/ \E c \in GovConsumers : ConsumerRestarts(c)

GovQueueSpec == GovQueueInit /\ [][GovQueueNext]_govQueueVars

\* Nobody runs envelope j, though BullMQ calls it active.
Abandoned(j) == \A n \in Attempts : ~HoldsLock(j, n) \/ handler[<<j, n>>] = Idle

\* Consumers keep taking jobs and running handlers; BullMQ's stalled check finds
\* jobs whose holder is gone.
GovQueueFairness ==
  \A j \in Envelopes :
    /\ WF_govQueueVars(\E c \in GovConsumers : HandOut(j, c))
    /\ WF_govQueueVars(Abandoned(j) /\ StallDetected(j))
    /\ \A n \in Attempts : WF_govQueueVars(HandlerStep(j, n))

GovQueueFairSpec == GovQueueSpec /\ GovQueueFairness

-----------------------------------------------------------------------------
(* Properties *)

\* A trace is only called done after its processor took effect: a remembered key,
\* a completed job and a success event each stand for at least one effect, although
\* the job that claims it may have been answered from the memory of another run.
SuccessHasEffect ==
  \A j \in Envelopes :
    (\/ envelope[j].state = "completed"
     \/ j \in successes
     \/ \E c \in GovConsumers : TraceOf[j] \in keyCache[c])
      => effects[TraceOf[j]] > 0

\* The runs of a consumer that will still call the processor for a trace.
Pending(c, t) ==
  {h \in DOMAIN handler :
     /\ handler[h].pc = "process" /\ handler[h].at = c
     /\ TraceOf[h[1]] = t}

\* What the idempotency cache achieves: from the moment a process remembers a key,
\* no further delivery of that trace gets through to the processor there, until the
\* process restarts.  Runs that were past the check before are not stopped.
DeduplicatedOnceCached ==
  [][\A c \in GovConsumers : \A t \in keyCache[c] :
       Pending(c, t)' \subseteq Pending(c, t)]_govQueueVars

\* Deliveries are accounted for: the processor runs for a trace at most once per
\* delivery of one of its envelopes, so that without stalls it runs once per envelope.
EffectsPerDelivery ==
  \A t \in Traces :
    LET mine == {j \in Envelopes : TraceOf[j] = t /\ envelope[j].state # "absent"}
        deliveries == UNION {{<<j, n>> : n \in 0..envelope[j].stalls} : j \in mine}
    IN effects[t] <= Cardinality(deliveries)

\* No envelope is stuck: a job that was accepted is completed or failed in the end,
\* through crashes of its consumers and lost locks, because stalls are counted.
EveryEnvelopeSettles ==
  \A j \in Envelopes :
    envelope[j].state = "waiting" ~> envelope[j].state \in {"completed", "failed"}

=============================================================================
