----------------------------- MODULE MCServices -----------------------------
(* The services that share no state, each on its own instance for TLC: a behaviour
   is one of one service, chosen at the start. *)
EXTENDS GovernanceQueue, ReanalysisQueue, DriftRecovery, PermissionGrants, Dashboard,
        CircuitBreaker, SessionRefresh, BulkActions, MCGovernanceStream

VARIABLE service

servicesVars == <<service, govQueueVars, reanalysisVars, driftVars, grantVars, dashVars,
                  breakerVars, sessionVars, streamVars, bulkVars>>

ServicesInit ==
  /\ service \in {"queue", "reanalysis", "drift", "grants", "dashboard", "breaker",
                  "session", "stream", "bulk"}
  /\ GovQueueInit /\ ReanalysisInit /\ DriftInit /\ GrantsInit /\ DashInit
  /\ BreakerInit /\ SessionInit /\ StreamInit /\ BulkInit
  /\ service # "dashboard" => active = "none"
  /\ \A d \in DecisionRows : service # "bulk" \/ d # "row1" => decided[d] = Worker

Queues ==
  \/ /\ service = "queue" /\ GovQueueNext
     /\ UNCHANGED reanalysisVars
  \/ /\ service = "reanalysis" /\ ReanalysisNext
     /\ UNCHANGED govQueueVars

Governance ==
  \/ /\ service = "drift" /\ DriftNext
     /\ UNCHANGED <<grantVars, streamVars>>
  \/ /\ service = "grants" /\ GrantsNext
     /\ UNCHANGED <<driftVars, streamVars>>
  \/ /\ service = "stream" /\ StreamNext
     /\ UNCHANGED <<driftVars, grantVars>>

Clients ==
  \/ /\ service = "dashboard" /\ DashNext
     /\ UNCHANGED <<breakerVars, sessionVars, bulkVars>>
  \/ /\ service = "breaker" /\ BreakerNext
     /\ UNCHANGED <<dashVars, sessionVars, bulkVars>>
  \/ /\ service = "session" /\ SessionNext
     /\ UNCHANGED <<dashVars, breakerVars, bulkVars>>
  \/ /\ service = "bulk" /\ BulkNext
     /\ UNCHANGED <<dashVars, breakerVars, sessionVars>>

queuesVars == <<govQueueVars, reanalysisVars>>
governanceVars == <<driftVars, grantVars, streamVars>>
clientsVars == <<dashVars, breakerVars, sessionVars, bulkVars>>

ServicesNext ==
  \/ Queues /\ UNCHANGED <<service, governanceVars, clientsVars>>
  \/ Governance /\ UNCHANGED <<service, queuesVars, clientsVars>>
  \/ Clients /\ UNCHANGED <<service, queuesVars, governanceVars>>

\* A service that is not chosen stays where none of its fair actions is enabled.
ServicesSpec ==
  /\ ServicesInit /\ [][ServicesNext]_servicesVars
  /\ GovQueueFairness /\ DashFairness

\* The service chosen keeps its rows, counters and positions within their types.
ServicesTypeOK ==
  CASE service = "queue" -> GovQueueTypeOK
    [] service = "reanalysis" -> ReanalysisTypeOK
    [] service = "drift" -> DriftTypeOK
    [] service = "grants" -> GrantsTypeOK
    [] service = "dashboard" -> DashTypeOK
    [] service = "breaker" -> BreakerTypeOK
    [] service = "session" -> SessionTypeOK
    [] service = "stream" -> StreamTypeOK
    [] service = "bulk" -> BulkTypeOK

-----------------------------------------------------------------------------
\* One trace, a limit of one for all tiers but the first, one tab, two rows of one index.
MCTraceOf == [j \in Envelopes |-> CHOOSE t \in Traces : TRUE]
MCTierLimit == [tier \in ReTiers |-> IF tier = "EMERGENCY" THEN 10 ELSE 1]
MCTabOf == [f \in Fetches |-> CHOOSE t \in Tabs : TRUE]
MCIndexOf == [d \in DecisionRows |-> IF d = "row3" THEN "index2" ELSE "index1"]
=============================================================================
