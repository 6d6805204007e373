--------------------------- MODULE CircuitBreaker ---------------------------
(***************************************************************************)
(* MCPCircuitBreaker.execute: calls with retries that share one circuit.   *)
(* The outcome of every attempt goes into a rolling window, and the state  *)
(* of the circuit is recomputed from it.  A call looks at the circuit once,*)
(* before its first attempt.                                               *)
(***************************************************************************)
EXTENDS Naturals, Sequences

CONSTANTS
  Callers,   \* calls of execute that can be under way together
  MaxWindow  \* bound on the entries of the rolling window

ASSUME BreakerAssumption == MaxWindow \in Nat

VARIABLES
  circuit,  \* state
  recent,   \* window: for each attempt of the last minute, whether it succeeded
  attempt   \* the attempt each call is in, 0 when there is no call

breakerVars == <<circuit, recent, attempt>>

maxRetries == 3
Attempting == 1..maxRetries + 1

BreakerTypeOK ==
  /\ circuit \in {"HEALTHY", "DEGRADED", "TIMEOUT", "UNAVAILABLE"}
  /\ recent \in Seq(BOOLEAN) /\ Len(recent) <= MaxWindow
  /\ attempt \in [Callers -> {0} \cup Attempting]

BreakerInit ==
  /\ circuit = "HEALTHY"
  /\ recent = <<>>
  /\ attempt = [c \in Callers |-> 0]

Errors(w) == Len(SelectSeq(w, LAMBDA ok : ~ok))

Enough(w) == Len(w) >= 5

\* updateState: half of the attempts failed, or a fifth, or fewer.
Judged(w, state) ==
  CASE ~Enough(w) -> state
    [] Enough(w) /\ Errors(w) * 100 >= Len(w) * 50 -> "UNAVAILABLE"
    [] Enough(w) /\ Errors(w) * 100 < Len(w) * 50 /\ Errors(w) * 100 >= Len(w) * 20 -> "DEGRADED"
    [] OTHER -> "HEALTHY"

\* Mutant: calls are let through whatever the state.
Mut_AlwaysTry(c) ==
  /\ attempt[c] = 0
  /\ attempt' = [attempt EXCEPT ![c] = 1]
  /\ UNCHANGED <<circuit, recent>>

\* execute.  An open circuit answers at once, from the cache or with an error.
Execute(c) ==
  /\ attempt[c] = 0 /\ circuit # "UNAVAILABLE"
  /\ attempt' = [attempt EXCEPT ![c] = 1]
  /\ UNCHANGED <<circuit, recent>>

\* recordSuccess and updateState.
Succeeds(c) ==
  /\ attempt[c] > 0 /\ Len(recent) < MaxWindow
  /\ recent' = Append(recent, TRUE)
  /\ circuit' = Judged(recent', circuit)
  /\ attempt' = [attempt EXCEPT ![c] = 0]

\* recordFailure and updateState.  The last attempt ends the call.
Fails(c, timeout) ==
  /\ attempt[c] > 0 /\ Len(recent) < MaxWindow
  /\ recent' = Append(recent, FALSE)
  /\ circuit' = Judged(recent', IF timeout /\ circuit # "UNAVAILABLE" THEN "TIMEOUT" ELSE circuit)
  /\ attempt' = [attempt EXCEPT ![c] = IF @ > maxRetries THEN 0 ELSE @ + 1]

\* A minute passes for the oldest entry.  No state follows from it.
Prune ==
  /\ recent # <<>>
  /\ recent' = Tail(recent)
  /\ UNCHANGED <<circuit, attempt>>

BreakerNext ==
  \/ \E c \in Callers :
       Execute(c) \/ Succeeds(c) \/ \E timeout \in BOOLEAN : Fails(c, timeout)
  \/ Prune

BreakerSpec == BreakerInit /\ [][BreakerNext]_breakerVars

-----------------------------------------------------------------------------
(* Properties *)

NobodyTries == \A c \in Callers : attempt[c] = 0

\* An open circuit that no call is left in stays open for good, however long its window
\* has been empty: there is no half-open state, and only a call that was already
\* retrying when it opened can close it.
OpenForGood ==
  [][circuit = "UNAVAILABLE" /\ NobodyTries =>
       circuit' = "UNAVAILABLE" /\ NobodyTries']_breakerVars

=============================================================================
