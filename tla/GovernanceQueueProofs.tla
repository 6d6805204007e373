----------------------- MODULE GovernanceQueueProofs -----------------------
(***************************************************************************)
(* Proofs about GovernanceQueue, for every number of envelopes, traces,    *)
(* consumers and stalls: what a success stands for, what the idempotency   *)
(* cache achieves, and that the processor runs at most once per delivery.  *)
(* The last one is not inductive by itself: the proof counts the           *)
(* deliveries that may still take effect, beside the effects taken.        *)
(***************************************************************************)
EXTENDS GovernanceQueue, FiniteSetTheorems, TLAPS

Deliveries == Envelopes \X Attempts
HandlerRuns == [pc : HandlerPc, at : GovConsumers]

\* What the handlers that have got somewhere, the memories, the events and the
\* completed jobs stand for.
SuccessInv ==
  /\ \A h \in Deliveries : handler[h].pc \in {"cache", "return"} => effects[TraceOf[h[1]]] > 0
  /\ \A c \in GovConsumers : \A t \in keyCache[c] : effects[t] > 0
  /\ \A j \in Envelopes : j \in successes \/ envelope[j].state = "completed" =>
       effects[TraceOf[j]] > 0

\* A handler runs for a delivery that BullMQ has made, and not for one that waits.
HandlersAreDelivered ==
  \A h \in Deliveries : handler[h].pc # "idle" =>
    /\ envelope[h[1]].state # "absent"
    /\ h[2] <= envelope[h[1]].stalls
    /\ ~(envelope[h[1]].state = "waiting" /\ h[2] = envelope[h[1]].stalls)

\* The deliveries of a trace so far, and those that may still take effect: the
\* one that waits, and the handlers before the processor.
Delivered(t) ==
  {h \in Deliveries : /\ TraceOf[h[1]] = t /\ envelope[h[1]].state # "absent"
                      /\ h[2] <= envelope[h[1]].stalls}
Unspent(t) ==
  {h \in Delivered(t) : \/ handler[h].pc = "process"
                        \/ envelope[h[1]].state = "waiting" /\ h[2] = envelope[h[1]].stalls}

EffectsAreSpent ==
  \A t \in Traces : effects[t] + Cardinality(Unspent(t)) <= Cardinality(Delivered(t))

GovQueueInv == GovQueueTypeOK /\ SuccessInv /\ HandlersAreDelivered /\ EffectsAreSpent

-----------------------------------------------------------------------------
(* Counting *)

LEMMA CountsAreFinite ==
  ASSUME NEW t
  PROVE  IsFiniteSet(Delivered(t)) /\ IsFiniteSet(Unspent(t))
<1>1. IsFiniteSet(Attempts)
  BY GovQueueAssumption, FS_Interval DEF Attempts
<1>2. IsFiniteSet(Deliveries)
  BY <1>1, GovQueueAssumption, FS_Product DEF Deliveries
<1>3. Delivered(t) \subseteq Deliveries /\ Unspent(t) \subseteq Deliveries
  BY DEF Delivered, Unspent
<1> QED
  BY <1>2, <1>3, FS_Subset

LEMMA CountsAreFiniteNext ==
  ASSUME NEW t
  PROVE  IsFiniteSet(Delivered(t)') /\ IsFiniteSet(Unspent(t)')
<1>1. IsFiniteSet(Attempts)
  BY GovQueueAssumption, FS_Interval DEF Attempts
<1>2. IsFiniteSet(Deliveries)
  BY <1>1, GovQueueAssumption, FS_Product DEF Deliveries
<1>3. Delivered(t)' \subseteq Deliveries /\ Unspent(t)' \subseteq Deliveries
  BY DEF Delivered, Unspent
<1> QED
  BY <1>2, <1>3, FS_Subset

\* A step that spends a delivery, one that makes one, and all others.
LEMMA CountSpent ==
  ASSUME GovQueueTypeOK, EffectsAreSpent, NEW t \in Traces, NEW h \in Unspent(t),
         effects'[t] = effects[t] + 1,
         Unspent(t)' \subseteq Unspent(t) \ {h}, Delivered(t) \subseteq Delivered(t)'
  PROVE  effects'[t] + Cardinality(Unspent(t)') <= Cardinality(Delivered(t)')
<1>1. /\ IsFiniteSet(Unspent(t)) /\ IsFiniteSet(Unspent(t) \ {h})
      /\ Cardinality(Unspent(t) \ {h}) = Cardinality(Unspent(t)) - 1
  BY CountsAreFinite, FS_RemoveElement
<1>2. Cardinality(Unspent(t)') <= Cardinality(Unspent(t) \ {h})
  BY <1>1, FS_Subset
<1>3. Cardinality(Delivered(t)) <= Cardinality(Delivered(t)')
  BY CountsAreFiniteNext, FS_Subset
<1>4. /\ Cardinality(Unspent(t)) \in Nat /\ Cardinality(Unspent(t)') \in Nat
      /\ Cardinality(Delivered(t)) \in Nat /\ Cardinality(Delivered(t)') \in Nat
  BY CountsAreFinite, CountsAreFiniteNext, FS_CardinalityType
<1>5. effects[t] \in Nat /\ effects[t] + Cardinality(Unspent(t)) <= Cardinality(Delivered(t))
  BY DEF GovQueueTypeOK, EffectsAreSpent
<1> QED
  BY <1>1, <1>2, <1>3, <1>4, <1>5

LEMMA CountMade ==
  ASSUME GovQueueTypeOK, EffectsAreSpent, NEW t \in Traces, NEW h, h \notin Delivered(t),
         effects'[t] = effects[t],
         Unspent(t)' \subseteq Unspent(t) \cup {h}, Delivered(t) \cup {h} \subseteq Delivered(t)'
  PROVE  effects'[t] + Cardinality(Unspent(t)') <= Cardinality(Delivered(t)')
<1>1. /\ IsFiniteSet(Unspent(t) \cup {h}) /\ IsFiniteSet(Delivered(t))
      /\ Cardinality(Unspent(t) \cup {h}) = Cardinality(Unspent(t)) + 1
      /\ Cardinality(Delivered(t) \cup {h}) = Cardinality(Delivered(t)) + 1
  <2>1. IsFiniteSet(Unspent(t)) /\ IsFiniteSet(Delivered(t)) /\ h \notin Unspent(t)
    BY CountsAreFinite DEF Unspent
  <2>2. /\ IsFiniteSet(Unspent(t) \cup {h})
        /\ Cardinality(Unspent(t) \cup {h}) = Cardinality(Unspent(t)) + 1
    BY <2>1, FS_AddElement
  <2>3. Cardinality(Delivered(t) \cup {h}) = Cardinality(Delivered(t)) + 1
    BY <2>1, FS_AddElement
  <2> QED
    BY <2>1, <2>2, <2>3
<1>2. Cardinality(Unspent(t)') <= Cardinality(Unspent(t) \cup {h})
  BY <1>1, FS_Subset
<1>3. Cardinality(Delivered(t) \cup {h}) <= Cardinality(Delivered(t)')
  BY CountsAreFiniteNext, FS_Subset
<1>4. /\ Cardinality(Unspent(t)) \in Nat /\ Cardinality(Unspent(t)') \in Nat
      /\ Cardinality(Delivered(t)) \in Nat /\ Cardinality(Delivered(t)') \in Nat
      /\ Cardinality(Unspent(t) \cup {h}) \in Nat
  BY <1>1, CountsAreFinite, CountsAreFiniteNext, FS_CardinalityType
<1>5. effects[t] \in Nat /\ effects[t] + Cardinality(Unspent(t)) <= Cardinality(Delivered(t))
  BY DEF GovQueueTypeOK, EffectsAreSpent
<1> QED
  BY <1>1, <1>2, <1>3, <1>4, <1>5

LEMMA CountKept ==
  ASSUME GovQueueTypeOK, EffectsAreSpent, NEW t \in Traces,
         effects'[t] = effects[t],
         Unspent(t)' \subseteq Unspent(t), Delivered(t) \subseteq Delivered(t)'
  PROVE  effects'[t] + Cardinality(Unspent(t)') <= Cardinality(Delivered(t)')
<1>1. Cardinality(Unspent(t)') <= Cardinality(Unspent(t))
  BY CountsAreFinite, FS_Subset
<1>2. Cardinality(Delivered(t)) <= Cardinality(Delivered(t)')
  BY CountsAreFiniteNext, FS_Subset
<1>3. /\ Cardinality(Unspent(t)) \in Nat /\ Cardinality(Unspent(t)') \in Nat
      /\ Cardinality(Delivered(t)) \in Nat /\ Cardinality(Delivered(t)') \in Nat
  BY CountsAreFinite, CountsAreFiniteNext, FS_CardinalityType
<1>4. effects[t] \in Nat /\ effects[t] + Cardinality(Unspent(t)) <= Cardinality(Delivered(t))
  BY DEF GovQueueTypeOK, EffectsAreSpent
<1> QED
  BY <1>1, <1>2, <1>3, <1>4

-----------------------------------------------------------------------------
(* The steps *)

\* A handler that has begun has a consumer.
LEMMA HandlerHasConsumer ==
  ASSUME GovQueueTypeOK, NEW h \in Deliveries, handler[h].pc # "idle"
  PROVE  handler[h] \in HandlerRuns
BY DEF GovQueueTypeOK, Deliveries, HandlerRuns, Idle

LEMMA GoToMoves ==
  ASSUME GovQueueTypeOK, NEW j \in Envelopes, NEW n \in Attempts, NEW pc \in HandlerPc,
         handler[<<j, n>>].pc # "idle", GoTo(j, n, pc)
  PROVE  /\ handler' \in [Deliveries -> {Idle} \cup HandlerRuns]
         /\ handler'[<<j, n>>].pc = pc /\ handler'[<<j, n>>].at = handler[<<j, n>>].at
         /\ \A h \in Deliveries : h # <<j, n>> => handler'[h] = handler[h]
<1>1. <<j, n>> \in Deliveries /\ handler \in [Deliveries -> {Idle} \cup HandlerRuns]
  BY DEF GovQueueTypeOK, Deliveries, HandlerRuns
<1>2. handler[<<j, n>>] \in HandlerRuns
  BY <1>1, HandlerHasConsumer
<1> DEFINE moved == [handler[<<j, n>>] EXCEPT !.pc = pc]
<1>3. moved \in HandlerRuns /\ moved.pc = pc /\ moved.at = handler[<<j, n>>].at
  BY <1>2 DEF HandlerRuns
<1>4. handler' = [handler EXCEPT ![<<j, n>>] = moved]
  BY <1>1 DEF GoTo
<1> HIDE DEF moved
<1> QED
  BY <1>1, <1>3, <1>4

\* What a step does to the envelope j.
EnvelopeRows == [state : {"absent", "waiting", "active", "completed", "failed"}, stalls : Attempts]
EnvelopeMoves(j, state, stalls) ==
  /\ envelope' \in [Envelopes -> EnvelopeRows]
  /\ envelope'[j].state = state /\ envelope'[j].stalls = stalls
  /\ \A x \in Envelopes : x # j => envelope'[x] = envelope[x]

LEMMA RowMoves ==
  ASSUME GovQueueTypeOK, NEW j \in Envelopes, NEW row \in EnvelopeRows,
         envelope' = [envelope EXCEPT ![j] = row]
  PROVE  EnvelopeMoves(j, row.state, row.stalls)
BY DEF GovQueueTypeOK, EnvelopeRows, EnvelopeMoves

LEMMA StateMoves ==
  ASSUME GovQueueTypeOK, NEW j \in Envelopes,
         NEW state \in {"waiting", "active", "completed", "failed"},
         envelope' = [envelope EXCEPT ![j].state = state]
  PROVE  EnvelopeMoves(j, state, envelope[j].stalls)
<1> DEFINE row == [envelope[j] EXCEPT !.state = state]
<1>1. envelope \in [Envelopes -> EnvelopeRows]
  BY DEF GovQueueTypeOK, EnvelopeRows
<1>2. row \in EnvelopeRows /\ row.state = state /\ row.stalls = envelope[j].stalls
  BY <1>1 DEF EnvelopeRows
<1>3. envelope' = [envelope EXCEPT ![j] = row]
  BY <1>1
<1> HIDE DEF row
<1> QED
  BY <1>2, <1>3, RowMoves

LEMMA SubmitKeeps ==
  ASSUME GovQueueInv, NEW j \in Envelopes, Submit(j)
  PROVE  GovQueueInv'
<1> USE DEF GovQueueInv
<1>0. /\ EnvelopeMoves(j, "waiting", envelope[j].stalls) /\ envelope[j].state = "absent"
      /\ UNCHANGED <<handler, keyCache, effects, successes>>
  BY StateMoves DEF Submit
<1>1. GovQueueTypeOK'
  BY <1>0 DEF GovQueueTypeOK, EnvelopeMoves, EnvelopeRows
<1>2. SuccessInv'
  BY <1>0 DEF SuccessInv, EnvelopeMoves
<1>3. \A h \in Deliveries : handler[h].pc # "idle" => h[1] # j
  BY <1>0 DEF HandlersAreDelivered
<1>4. HandlersAreDelivered'
  BY <1>0, <1>3 DEF HandlersAreDelivered, EnvelopeMoves, Deliveries
<1>5. ASSUME NEW t \in Traces
      PROVE  effects'[t] + Cardinality(Unspent(t)') <= Cardinality(Delivered(t)')
  <2> DEFINE h == <<j, envelope[j].stalls>>
  <2>1. h \in Deliveries /\ envelope[j].stalls \in Nat
    BY GovQueueAssumption DEF GovQueueTypeOK, Deliveries, Attempts
  <2>2. CASE TraceOf[j] = t
    <3>1. h \notin Delivered(t)
      BY <1>0 DEF Delivered
    <3>2. Delivered(t) \cup {h} \subseteq Delivered(t)'
      BY <1>0, <2>1, <2>2 DEF Delivered, EnvelopeMoves, Deliveries
    <3>3. Unspent(t)' \subseteq Unspent(t) \cup {h}
      BY <1>0, <1>3, <2>1 DEF Unspent, Delivered, EnvelopeMoves, Deliveries
    <3> QED
      BY <1>0, <3>1, <3>2, <3>3, CountMade
  <2>3. CASE TraceOf[j] # t
    <3>1. Delivered(t) \subseteq Delivered(t)' /\ Unspent(t)' \subseteq Unspent(t)
      BY <1>0, <2>3 DEF Unspent, Delivered, EnvelopeMoves, Deliveries
    <3> QED
      BY <1>0, <3>1, CountKept
  <2> QED
    BY <2>2, <2>3
<1> QED
  BY <1>1, <1>2, <1>4, <1>5 DEF EffectsAreSpent

LEMMA StallKeeps ==
  ASSUME GovQueueInv, NEW j \in Envelopes, StallDetected(j)
  PROVE  GovQueueInv'
<1> USE DEF GovQueueInv
<1> DEFINE n == envelope[j].stalls
<1>0. /\ n \in Attempts /\ n \in Nat /\ MaxStalled \in Nat /\ envelope[j].state = "active"
      /\ UNCHANGED <<handler, keyCache, effects, successes>>
      /\ envelope[j] \in EnvelopeRows
  BY GovQueueAssumption DEF GovQueueTypeOK, StallDetected, Attempts, EnvelopeRows
<1>1. CASE n < MaxStalled
  <2> DEFINE row == [state |-> "waiting", stalls |-> n + 1]
  <2>1. row \in EnvelopeRows /\ row.state = "waiting" /\ row.stalls = n + 1
    BY <1>0, <1>1 DEF EnvelopeRows, Attempts
  <2>2. envelope' = [envelope EXCEPT ![j] = row]
    BY <1>1 DEF StallDetected, GovQueueTypeOK
  <2> HIDE DEF row
  <2>3. EnvelopeMoves(j, "waiting", n + 1)
    BY <2>1, <2>2, RowMoves
  <2>4. GovQueueTypeOK' /\ SuccessInv'
    BY <1>0, <2>3 DEF GovQueueTypeOK, SuccessInv, EnvelopeMoves, EnvelopeRows
  <2>5. \A h \in Deliveries : handler[h].pc # "idle" /\ h[1] = j => h[2] <= n /\ h[2] \in Nat
    BY <1>0 DEF HandlersAreDelivered, Deliveries, Attempts
  <2>6. HandlersAreDelivered'
    BY <1>0, <2>3, <2>5 DEF HandlersAreDelivered, EnvelopeMoves, Deliveries
  <2>7. ASSUME NEW t \in Traces
        PROVE  effects'[t] + Cardinality(Unspent(t)') <= Cardinality(Delivered(t)')
    <3> DEFINE h == <<j, n + 1>>
    <3>1. h \in Deliveries
      BY <1>0, <1>1 DEF Deliveries, Attempts
    <3>2. CASE TraceOf[j] = t
      <4>1. h \notin Delivered(t)
        BY <1>0 DEF Delivered
      <4>2. Delivered(t) \cup {h} \subseteq Delivered(t)'
        BY <1>0, <2>3, <3>1, <3>2 DEF Delivered, EnvelopeMoves, Deliveries, Attempts
      <4>3. Unspent(t)' \subseteq Unspent(t) \cup {h}
        BY <1>0, <2>3, <2>5, <3>1 DEF Unspent, Delivered, EnvelopeMoves, Deliveries
      <4> QED
        BY <1>0, <4>1, <4>2, <4>3, CountMade
    <3>3. CASE TraceOf[j] # t
      <4>1. Delivered(t) \subseteq Delivered(t)' /\ Unspent(t)' \subseteq Unspent(t)
        BY <1>0, <2>3, <3>3 DEF Unspent, Delivered, EnvelopeMoves, Deliveries
      <4> QED
        BY <1>0, <4>1, CountKept
    <3> QED
      BY <3>2, <3>3
  <2> QED
    BY <2>4, <2>6, <2>7 DEF EffectsAreSpent
<1>2. CASE ~(n < MaxStalled)
  <2> DEFINE row == [state |-> "failed", stalls |-> n]
  <2>1. row \in EnvelopeRows /\ row.state = "failed" /\ row.stalls = n
    BY <1>0 DEF EnvelopeRows
  <2>2. envelope' = [envelope EXCEPT ![j] = row]
    BY <1>2 DEF StallDetected, GovQueueTypeOK
  <2> HIDE DEF row
  <2>3. EnvelopeMoves(j, "failed", n)
    BY <2>1, <2>2, RowMoves
  <2>4. GovQueueTypeOK' /\ SuccessInv'
    BY <1>0, <2>3 DEF GovQueueTypeOK, SuccessInv, EnvelopeMoves, EnvelopeRows
  <2>5. HandlersAreDelivered'
    BY <1>0, <2>3 DEF HandlersAreDelivered, EnvelopeMoves, Deliveries
  <2>6. ASSUME NEW t \in Traces
        PROVE  Delivered(t) \subseteq Delivered(t)' /\ Unspent(t)' \subseteq Unspent(t)
    BY <1>0, <2>3 DEF Unspent, Delivered, EnvelopeMoves, Deliveries
  <2> QED
    BY <1>0, <2>4, <2>5, <2>6, CountKept DEF EffectsAreSpent
<1> QED
  BY <1>1, <1>2

LEMMA HandOutKeeps ==
  ASSUME GovQueueInv, NEW j \in Envelopes, NEW c \in GovConsumers, HandOut(j, c)
  PROVE  GovQueueInv'
<1> USE DEF GovQueueInv
<1> DEFINE g == <<j, envelope[j].stalls>>
<1>0. /\ EnvelopeMoves(j, "active", envelope[j].stalls) /\ envelope[j].state = "waiting"
      /\ UNCHANGED <<keyCache, effects, successes>>
  BY StateMoves DEF HandOut
<1>1. g \in Deliveries /\ handler \in [Deliveries -> {Idle} \cup HandlerRuns]
  BY DEF GovQueueTypeOK, Deliveries, HandlerRuns
<1>2. PICK pc \in {"throw", "return", "process"} :
        /\ handler' = [handler EXCEPT ![g] = [pc |-> pc, at |-> c]]
        /\ pc = "return" => TraceOf[j] \in keyCache[c]
  BY DEF HandOut, IsCached
<1>3. /\ handler' \in [Deliveries -> {Idle} \cup HandlerRuns]
      /\ handler'[g].pc = pc
      /\ \A h \in Deliveries : h # g => handler'[h] = handler[h]
  BY <1>1, <1>2 DEF HandlerRuns, HandlerPc
<1>4. GovQueueTypeOK'
  BY <1>0, <1>3 DEF GovQueueTypeOK, EnvelopeMoves, EnvelopeRows, Deliveries, HandlerRuns
<1>5. SuccessInv'
  BY <1>0, <1>2, <1>3 DEF SuccessInv, EnvelopeMoves
<1>6. HandlersAreDelivered'
  <2>1. \A h \in Deliveries :
          h # g /\ handler[h].pc # "idle" /\ h[1] = j => h[2] <= envelope[j].stalls
    BY DEF HandlersAreDelivered
  <2>2. envelope[j].stalls <= envelope[j].stalls
    BY GovQueueAssumption DEF GovQueueTypeOK, Attempts
  <2> QED
    BY <1>0, <1>1, <1>3, <2>1, <2>2 DEF HandlersAreDelivered, EnvelopeMoves, Deliveries
<1>7. ASSUME NEW t \in Traces
      PROVE  Delivered(t) \subseteq Delivered(t)' /\ Unspent(t)' \subseteq Unspent(t)
  BY <1>0, <1>1, <1>3 DEF Unspent, Delivered, EnvelopeMoves, Deliveries
<1> QED
  BY <1>0, <1>4, <1>5, <1>6, <1>7, CountKept DEF EffectsAreSpent

\* The steps of a handler and of a process that spend nothing: the envelopes stay, and
\* the handlers stay, end, or move past the processor.
LEMMA HandlersMove ==
  ASSUME GovQueueInv, UNCHANGED <<envelope, effects>>,
         \A h \in Deliveries : handler'[h].pc \notin {"process", "idle"} =>
            handler[h].pc # "idle",
         \A h \in Deliveries : handler'[h].pc = "process" => handler[h].pc = "process"
  PROVE  HandlersAreDelivered' /\ EffectsAreSpent'
<1> USE DEF GovQueueInv
<1>1. HandlersAreDelivered'
  BY DEF HandlersAreDelivered
<1>2. ASSUME NEW t \in Traces
      PROVE  Delivered(t) \subseteq Delivered(t)' /\ Unspent(t)' \subseteq Unspent(t)
  BY DEF Unspent, Delivered
<1> QED
  BY <1>1, <1>2, CountKept DEF EffectsAreSpent

LEMMA TakeEffectKeeps ==
  ASSUME GovQueueInv, NEW j \in Envelopes, NEW n \in Attempts, TakeEffect(j, n)
  PROVE  GovQueueInv'
<1> USE DEF GovQueueInv
<1> DEFINE g == <<j, n>>
<1>0. /\ g \in Deliveries /\ handler[g].pc = "process" /\ TraceOf[j] \in Traces
      /\ UNCHANGED <<envelope, keyCache, successes>>
      /\ effects' = [effects EXCEPT ![TraceOf[j]] = effects[TraceOf[j]] + 1]
      /\ effects \in [Traces -> Nat]
  BY GovQueueAssumption DEF TakeEffect, At, Deliveries, GovQueueTypeOK
<1>1. /\ handler' \in [Deliveries -> {Idle} \cup HandlerRuns]
      /\ handler'[g].pc = "cache"
      /\ \A h \in Deliveries : h # g => handler'[h] = handler[h]
  BY <1>0, GoToMoves DEF TakeEffect, HandlerPc
<1>2. /\ effects' \in [Traces -> Nat] /\ effects'[TraceOf[j]] = effects[TraceOf[j]] + 1
      /\ \A t \in Traces : t # TraceOf[j] => effects'[t] = effects[t]
      /\ \A t \in Traces : effects[t] > 0 => effects'[t] > 0
  BY <1>0
<1>3. GovQueueTypeOK'
  BY <1>0, <1>1, <1>2 DEF GovQueueTypeOK, Deliveries, HandlerRuns
<1>4. SuccessInv'
  <2>1. effects'[TraceOf[j]] > 0
    BY <1>0, <1>2
  <2>2. \A h \in Deliveries : handler'[h].pc \in {"cache", "return"} => effects'[TraceOf[h[1]]] > 0
    BY <1>0, <1>1, <1>2, <2>1, GovQueueAssumption DEF SuccessInv, Deliveries
  <2>3. \A c \in GovConsumers : \A t \in keyCache[c] : effects'[t] > 0
    BY <1>2 DEF SuccessInv, GovQueueTypeOK
  <2> QED
    BY <1>0, <1>2, <2>2, <2>3, GovQueueAssumption DEF SuccessInv
<1>5. HandlersAreDelivered'
  BY <1>0, <1>1 DEF HandlersAreDelivered
<1>6. ASSUME NEW t \in Traces
      PROVE  effects'[t] + Cardinality(Unspent(t)') <= Cardinality(Delivered(t)')
  <2>1. Delivered(t) \subseteq Delivered(t)'
    BY <1>0 DEF Delivered
  <2>2. CASE t = TraceOf[j]
    <3>1. g \in Unspent(t)
      BY <1>0, <2>2 DEF HandlersAreDelivered, Unspent, Delivered
    <3>2. g \notin Unspent(t)'
      BY <1>0, <1>1, <3>1 DEF HandlersAreDelivered, Unspent
    <3>3. Unspent(t)' \subseteq Unspent(t) \ {g}
      BY <1>0, <1>1, <3>2 DEF Unspent, Delivered
    <3> QED
      BY <1>2, <2>1, <2>2, <3>1, <3>3, CountSpent
  <2>3. CASE t # TraceOf[j]
    <3>1. Unspent(t)' \subseteq Unspent(t)
      BY <1>0, <1>1 DEF Unspent, Delivered
    <3> QED
      BY <1>2, <2>1, <2>3, <3>1, CountKept
  <2> QED
    BY <2>2, <2>3
<1> QED
  BY <1>3, <1>4, <1>5, <1>6 DEF EffectsAreSpent

LEMMA ThrowKeeps ==
  ASSUME GovQueueInv, NEW j \in Envelopes, NEW n \in Attempts, ProcessorThrows(j, n)
  PROVE  GovQueueInv'
<1> USE DEF GovQueueInv
<1> DEFINE g == <<j, n>>
<1>0. /\ g \in Deliveries /\ handler[g].pc \in {"process", "cache"}
      /\ UNCHANGED <<envelope, keyCache, effects, successes>>
  BY DEF ProcessorThrows, Deliveries
<1>1. /\ handler' \in [Deliveries -> {Idle} \cup HandlerRuns]
      /\ handler'[g].pc = "throw"
      /\ \A h \in Deliveries : h # g => handler'[h] = handler[h]
  BY <1>0, GoToMoves DEF ProcessorThrows, HandlerPc
<1>2. GovQueueTypeOK'
  BY <1>0, <1>1 DEF GovQueueTypeOK, Deliveries, HandlerRuns
<1>3. SuccessInv'
  BY <1>0, <1>1 DEF SuccessInv
<1> QED
  BY <1>0, <1>1, <1>2, <1>3, HandlersMove

LEMMA CacheKeeps ==
  ASSUME GovQueueInv, NEW j \in Envelopes, NEW n \in Attempts, CacheResult(j, n)
  PROVE  GovQueueInv'
<1> USE DEF GovQueueInv
<1> DEFINE g == <<j, n>>
           c == handler[g].at
<1>0. /\ g \in Deliveries /\ handler[g].pc = "cache" /\ TraceOf[j] \in Traces
      /\ UNCHANGED <<envelope, effects>> /\ effects[TraceOf[j]] > 0
      /\ keyCache' = [keyCache EXCEPT ![c] = keyCache[c] \cup {TraceOf[j]}]
      /\ successes' \in {successes, successes \cup {j}}
  BY GovQueueAssumption DEF CacheResult, At, Deliveries, SuccessInv, GovQueueTypeOK
<1>1. c \in GovConsumers
  BY <1>0, HandlerHasConsumer DEF HandlerRuns
<1>2. /\ handler' \in [Deliveries -> {Idle} \cup HandlerRuns]
      /\ handler'[g].pc = "return"
      /\ \A h \in Deliveries : h # g => handler'[h] = handler[h]
  BY <1>0, GoToMoves DEF CacheResult, HandlerPc
<1>3. GovQueueTypeOK'
  BY <1>0, <1>1, <1>2 DEF GovQueueTypeOK, Deliveries, HandlerRuns
<1>4. SuccessInv'
  <2>1. \A x \in GovConsumers : \A t \in keyCache'[x] : effects[t] > 0
    BY <1>0, <1>1 DEF SuccessInv, GovQueueTypeOK
  <2> QED
    BY <1>0, <1>2, <2>1 DEF SuccessInv
<1> QED
  BY <1>0, <1>2, <1>3, <1>4, HandlersMove

LEMMA FinishKeeps ==
  ASSUME GovQueueInv, NEW j \in Envelopes, NEW n \in Attempts, Finish(j, n)
  PROVE  GovQueueInv'
<1> USE DEF GovQueueInv
<1> DEFINE g == <<j, n>>
<1>0. /\ g \in Deliveries /\ handler[g].pc \in {"return", "throw"}
      /\ UNCHANGED <<keyCache, effects, successes>>
      /\ handler \in [Deliveries -> {Idle} \cup HandlerRuns]
  BY DEF Finish, Deliveries, GovQueueTypeOK, HandlerRuns
<1>1. /\ handler' \in [Deliveries -> {Idle} \cup HandlerRuns]
      /\ handler'[g].pc = "idle"
      /\ \A h \in Deliveries : h # g => handler'[h] = handler[h]
  BY <1>0 DEF Finish, Idle
<1>2. CASE ~HoldsLock(j, n)
  <2>1. UNCHANGED envelope
    BY <1>2 DEF Finish
  <2>2. GovQueueTypeOK' /\ SuccessInv'
    BY <1>0, <1>1, <2>1 DEF GovQueueTypeOK, Deliveries, HandlerRuns, SuccessInv
  <2> QED
    BY <1>0, <1>1, <2>1, <2>2, HandlersMove
<1>3. CASE HoldsLock(j, n)
  <2>1. PICK state \in {"completed", "failed"} :
          /\ envelope' = [envelope EXCEPT ![j].state = state]
          /\ state = "completed" => handler[g].pc = "return"
    BY <1>3 DEF Finish, At
  <2>2. EnvelopeMoves(j, state, envelope[j].stalls) /\ envelope[j].state = "active"
    BY <1>3, <2>1, StateMoves DEF HoldsLock
  <2>3. GovQueueTypeOK'
    BY <1>0, <1>1, <2>2 DEF GovQueueTypeOK, EnvelopeMoves, EnvelopeRows, Deliveries, HandlerRuns
  <2>4. SuccessInv'
    <3>1. state = "completed" => effects[TraceOf[j]] > 0
      BY <1>0, <2>1 DEF SuccessInv
    <3> QED
      BY <1>0, <1>1, <2>2, <3>1 DEF SuccessInv, EnvelopeMoves
  <2>5. HandlersAreDelivered'
    BY <1>0, <1>1, <2>2 DEF HandlersAreDelivered, EnvelopeMoves, Deliveries
  <2>6. ASSUME NEW t \in Traces
        PROVE  Delivered(t) \subseteq Delivered(t)' /\ Unspent(t)' \subseteq Unspent(t)
    BY <1>0, <1>1, <2>2 DEF Unspent, Delivered, EnvelopeMoves, Deliveries
  <2> QED
    BY <1>0, <2>3, <2>4, <2>5, <2>6, CountKept DEF EffectsAreSpent
<1> QED
  BY <1>2, <1>3

LEMMA RestartKeeps ==
  ASSUME GovQueueInv, NEW c \in GovConsumers, ConsumerRestarts(c)
  PROVE  GovQueueInv'
<1> USE DEF GovQueueInv
<1>0. /\ UNCHANGED <<envelope, effects, successes>>
      /\ handler \in [Deliveries -> {Idle} \cup HandlerRuns] /\ DOMAIN handler = Deliveries
      /\ keyCache' = [keyCache EXCEPT ![c] = {}]
  BY DEF ConsumerRestarts, GovQueueTypeOK, Deliveries, HandlerRuns
<1>1. /\ handler' \in [Deliveries -> {Idle} \cup HandlerRuns]
      /\ \A h \in Deliveries : handler'[h] = handler[h] \/ handler'[h].pc = "idle"
  BY <1>0 DEF ConsumerRestarts, Idle
<1>2. GovQueueTypeOK'
  BY <1>0, <1>1 DEF GovQueueTypeOK, Deliveries, HandlerRuns
<1>3. SuccessInv'
  BY <1>0, <1>1 DEF SuccessInv, GovQueueTypeOK
<1> QED
  BY <1>0, <1>1, <1>2, <1>3, HandlersMove

LEMMA GovQueueInitInv == GovQueueInit => GovQueueInv
<1> SUFFICES ASSUME GovQueueInit
             PROVE  GovQueueInv
  OBVIOUS
<1>1. GovQueueTypeOK /\ SuccessInv /\ HandlersAreDelivered
  BY GovQueueAssumption
     DEF GovQueueInit, GovQueueTypeOK, SuccessInv, HandlersAreDelivered, Idle, Attempts, Deliveries
<1>2. ASSUME NEW t \in Traces
      PROVE  effects[t] + Cardinality(Unspent(t)) <= Cardinality(Delivered(t))
  <2>1. Delivered(t) = {} /\ Unspent(t) = {}
    BY DEF GovQueueInit, Delivered, Unspent, Deliveries
  <2> QED
    BY <2>1, FS_EmptySet DEF GovQueueInit
<1> QED
  BY <1>1, <1>2 DEF GovQueueInv, EffectsAreSpent

LEMMA GovQueueStepInv == GovQueueInv /\ [GovQueueNext]_govQueueVars => GovQueueInv'
<1> SUFFICES ASSUME GovQueueInv, [GovQueueNext]_govQueueVars
             PROVE  GovQueueInv'
  OBVIOUS
<1>1. CASE UNCHANGED govQueueVars
  BY <1>1 DEF govQueueVars, GovQueueInv, GovQueueTypeOK, SuccessInv, HandlersAreDelivered,
              EffectsAreSpent, Unspent, Delivered
<1>2. ASSUME NEW j \in Envelopes,
             \/ Submit(j) \/ StallDetected(j)
             \/ \E c \in GovConsumers : HandOut(j, c)
      PROVE  GovQueueInv'
  BY <1>2, SubmitKeeps, StallKeeps, HandOutKeeps
<1>3. ASSUME NEW j \in Envelopes, NEW n \in Attempts, HandlerStep(j, n)
      PROVE  GovQueueInv'
  BY <1>3, TakeEffectKeeps, ThrowKeeps, CacheKeeps, FinishKeeps DEF HandlerStep
<1>4. CASE \E c \in GovConsumers : ConsumerRestarts(c)
  BY <1>4, RestartKeeps
<1> QED
  BY <1>1, <1>2, <1>3, <1>4 DEF GovQueueNext

\* No step lets a handler through to the processor of a trace whose key its consumer
\* remembers.
LEMMA StepDeduplicates ==
  ASSUME GovQueueInv, [GovQueueNext]_govQueueVars, NEW c \in GovConsumers, NEW t \in keyCache[c]
  PROVE  Pending(c, t)' \subseteq Pending(c, t)
<1>0. /\ GovQueueTypeOK /\ handler \in [Deliveries -> {Idle} \cup HandlerRuns]
      /\ DOMAIN handler = Deliveries
  BY DEF GovQueueInv, GovQueueTypeOK, Deliveries, HandlerRuns
<1>1. CASE UNCHANGED handler
  BY <1>1 DEF Pending
<1>2. ASSUME NEW g \in Deliveries, handler'[g].pc # "process",
             handler' \in [Deliveries -> {Idle} \cup HandlerRuns],
             \A h \in Deliveries : h # g => handler'[h] = handler[h]
      PROVE  Pending(c, t)' \subseteq Pending(c, t)
  BY <1>0, <1>2 DEF Pending
<1>3. ASSUME NEW j \in Envelopes, NEW x \in GovConsumers, HandOut(j, x)
      PROVE  Pending(c, t)' \subseteq Pending(c, t)
  <2> DEFINE g == <<j, envelope[j].stalls>>
  <2>1. PICK pc \in {"throw", "return", "process"} :
          /\ handler' = [handler EXCEPT ![g] = [pc |-> pc, at |-> x]]
          /\ pc = "process" => TraceOf[j] \notin keyCache[x]
    BY <1>3 DEF HandOut, IsCached
  <2>2. g \in Deliveries
    BY <1>0 DEF GovQueueTypeOK, Deliveries
  <2>3. /\ handler'[g] = [pc |-> pc, at |-> x] /\ DOMAIN handler' = Deliveries
        /\ \A h \in Deliveries : h # g => handler'[h] = handler[h]
    BY <1>0, <2>1, <2>2
  <2> QED
    BY <1>0, <2>1, <2>2, <2>3 DEF Pending
<1>4. ASSUME NEW j \in Envelopes, NEW n \in Attempts, HandlerStep(j, n)
      PROVE  Pending(c, t)' \subseteq Pending(c, t)
  <2> DEFINE g == <<j, n>>
  <2>1. g \in Deliveries
    BY DEF Deliveries
  <2>2. CASE TakeEffect(j, n) \/ ProcessorThrows(j, n) \/ CacheResult(j, n)
    <3>1. PICK pc \in {"cache", "throw", "return"} : GoTo(j, n, pc)
      BY <2>2 DEF TakeEffect, ProcessorThrows, CacheResult
    <3>2. handler[<<j, n>>].pc # "idle"
      BY <2>2 DEF TakeEffect, ProcessorThrows, CacheResult, At
    <3>3. /\ handler' \in [Deliveries -> {Idle} \cup HandlerRuns]
          /\ handler'[g].pc = pc
          /\ \A h \in Deliveries : h # g => handler'[h] = handler[h]
      BY <1>0, <3>1, <3>2, GoToMoves DEF HandlerPc
    <3> QED
      BY <1>2, <2>1, <3>3
  <2>3. CASE Finish(j, n)
    <3>1. /\ handler' \in [Deliveries -> {Idle} \cup HandlerRuns]
          /\ handler'[g].pc = "idle"
          /\ \A h \in Deliveries : h # g => handler'[h] = handler[h]
      BY <1>0, <2>1, <2>3 DEF Finish, Idle
    <3> QED
      BY <1>2, <2>1, <3>1
  <2> QED
    BY <1>4, <2>2, <2>3 DEF HandlerStep
<1>5. ASSUME NEW x \in GovConsumers, ConsumerRestarts(x)
      PROVE  Pending(c, t)' \subseteq Pending(c, t)
  <2>1. /\ DOMAIN handler' = Deliveries
        /\ \A h \in Deliveries : handler'[h] = handler[h] \/ handler'[h].pc = "idle"
    BY <1>0, <1>5 DEF ConsumerRestarts, Idle
  <2> QED
    BY <1>0, <2>1 DEF Pending
<1> QED
  BY <1>1, <1>3, <1>4, <1>5 DEF GovQueueNext, govQueueVars, Submit, StallDetected

-----------------------------------------------------------------------------
(* The theorems *)

\* The inductive invariant holds in every reachable state, for every number of
\* envelopes, traces, consumers and stalls (GovernanceQueueProducer,
\* GovernanceQueueConsumer and the queue between them).
THEOREM GovQueueInvariant == GovQueueSpec => []GovQueueInv
<1> QED
  BY GovQueueInitInv, GovQueueStepInv, PTL DEF GovQueueSpec

\* Jobs, handlers, memories and counters stay within their types: no stall is counted
\* beyond maxStalledCount.
THEOREM GovQueueTypes == GovQueueSpec => []GovQueueTypeOK
<1>1. GovQueueInv => GovQueueTypeOK
  BY DEF GovQueueInv
<1> QED
  BY <1>1, GovQueueInvariant, PTL

\* A completed job, a success event and a remembered key each stand for an effect of the
\* processor on their trace, whichever run of handleJob claims it and whatever restarts
\* and stalls come between.
THEOREM SuccessStandsForEffect == GovQueueSpec => []SuccessHasEffect
<1>1. GovQueueInv => SuccessHasEffect
  BY DEF GovQueueInv, SuccessInv, SuccessHasEffect
<1> QED
  BY <1>1, GovQueueInvariant, PTL

\* The processor takes effect at most once for each delivery of an envelope of the trace:
\* 1 + maxStalledCount times per envelope at the worst.
THEOREM EffectsAreDelivered == GovQueueSpec => []EffectsPerDelivery
<1>1. GovQueueInv => EffectsPerDelivery
  <2> SUFFICES ASSUME GovQueueInv, NEW t \in Traces
               PROVE  effects[t] <= Cardinality(
                        UNION {{<<j, n>> : n \in 0..envelope[j].stalls} :
                               j \in {x \in Envelopes : TraceOf[x] = t /\ envelope[x].state # "absent"}})
    BY DEF EffectsPerDelivery
  <2> DEFINE mine == {x \in Envelopes : TraceOf[x] = t /\ envelope[x].state # "absent"}
             deliveries == UNION {{<<j, n>> : n \in 0..envelope[j].stalls} : j \in mine}
  <2>1. \A j \in Envelopes : envelope[j].stalls \in 0..MaxStalled /\ MaxStalled \in Nat
    BY GovQueueAssumption DEF GovQueueInv, GovQueueTypeOK, Attempts
  <2>2. Delivered(t) = deliveries
    <3>1. ASSUME NEW h \in Delivered(t)
          PROVE  h \in deliveries
      <4>1. PICK j \in Envelopes, n \in Attempts : h = <<j, n>>
        BY DEF Delivered, Deliveries
      <4>2. j \in mine /\ n \in 0..envelope[j].stalls
        BY <2>1, <4>1 DEF Delivered, Attempts
      <4> QED
        BY <4>1, <4>2
    <3>2. ASSUME NEW h \in deliveries
          PROVE  h \in Delivered(t)
      <4>1. PICK j \in mine : h \in {<<j, n>> : n \in 0..envelope[j].stalls}
        OBVIOUS
      <4>2. PICK n \in 0..envelope[j].stalls : h = <<j, n>>
        BY <4>1
      <4>3. n \in Attempts /\ n <= envelope[j].stalls
        BY <2>1, <4>1, <4>2 DEF Attempts
      <4> QED
        BY <4>1, <4>2, <4>3 DEF Delivered, Deliveries
    <3> QED
      BY <3>1, <3>2
  <2>3. effects[t] + Cardinality(Unspent(t)) <= Cardinality(Delivered(t)) /\ effects[t] \in Nat
    BY DEF GovQueueInv, EffectsAreSpent, GovQueueTypeOK
  <2>4. Cardinality(Unspent(t)) \in Nat /\ Cardinality(Delivered(t)) \in Nat
    BY CountsAreFinite, FS_CardinalityType
  <2> QED
    BY <2>2, <2>3, <2>4
<1> QED
  BY <1>1, GovQueueInvariant, PTL

\* Once a consumer remembers a key, no further delivery of that trace reaches the
\* processor there until it restarts (handleJob asks idempotencyCache before the processor).
THEOREM CacheDeduplicates == GovQueueSpec => DeduplicatedOnceCached
<1>1. GovQueueInv /\ [GovQueueNext]_govQueueVars =>
        [\A c \in GovConsumers : \A t \in keyCache[c] :
           Pending(c, t)' \subseteq Pending(c, t)]_govQueueVars
  BY StepDeduplicates
<1> QED
  BY <1>1, GovQueueInvariant, PTL DEF GovQueueSpec, DeduplicatedOnceCached

=============================================================================
