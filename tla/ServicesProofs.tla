--------------------------- MODULE ServicesProofs ---------------------------
(***************************************************************************)
(* Proofs about the small services of the API and its clients: the browser *)
(* session (SessionRefresh), the status of a refresh (RunStatus) and the   *)
(* page that shows it (Dashboard), the event stream (GovernanceStream),    *)
(* the circuit breaker (CircuitBreaker), drift and recovery                *)
(* (DriftRecovery); and, at the end, that the nine services of MCServices  *)
(* share nothing, so that what is proved of one holds beside the others.   *)
(***************************************************************************)
EXTENDS MCServices, GovernanceQueueProofs, ReanalysisQueueProofs, PermissionGrantsProofs,
        BulkActionsProofs, FiniteSetTheorems, WellFoundedInduction, SequenceTheorems, TLAPS

-----------------------------------------------------------------------------
(* SessionRefresh: one tab, any number of calls and tokens *)

OneTab == \A t, u \in Tabs : t = u

\* How far the refresh of a tab has come: the token it found is the newest, the row is
\* gone once it is revoked, and its answer is newer than all the page has.
GateInv ==
  /\ refreshTokens \subseteq {newest}
  /\ newest > 0 /\ accessToken <= newest /\ elapsed <= newest
  /\ \A t \in Tabs :
       /\ gate[t].pc = "found" => gate[t].token = newest
       /\ gate[t].pc = "revoked" => refreshTokens = {}
       /\ gate[t].pc = "answered" => gate[t].result > accessToken /\ gate[t].result <= newest
       /\ gate[t].pc \in {"answered", "settled"} =>
            gate[t].result > elapsed \/ (gate[t].pc = "settled" /\ gate[t].result = 0)

\* Without trouble, the cookie is good but while its successor is under way.
CookieInv ==
  ~trouble =>
    /\ accessToken > 0
    /\ \A t \in Tabs :
         /\ gate[t].pc \in {"open", "sent", "found", "settled"} => cookie \in refreshTokens
         /\ gate[t].pc \in {"sent", "found"} => gate[t].token = cookie
         /\ gate[t].pc = "answered" => gate[t].result \in refreshTokens
         /\ gate[t].pc = "settled" => gate[t].result > 0

\* A call is refused for a token that has expired.
RefusedInv ==
  \A f \in Fetches : fetch[f].pc \in {"refused", "waiting"} => fetch[f].token <= elapsed

SessionInv == SessionTypeOK /\ GateInv /\ CookieInv /\ RefusedInv

FetchRows == [pc : {"idle", "sent", "refused", "waiting", "retried"}, token : Token]
GateRows == [pc : {"open", "sent", "found", "revoked", "answered", "settled"},
             token : Token, result : Token]

LEMMA SessionInitTypes == SessionInit => SessionTypeOK
<1> SUFFICES ASSUME SessionInit
             PROVE  SessionTypeOK
  OBVIOUS
<1>0. 0 \in Token /\ 1 \in Token
  BY SessionAssumption DEF Token
<1>1. fetch \in [Fetches -> FetchRows] /\ gate \in [Tabs -> GateRows]
  BY <1>0 DEF SessionInit, NoGate, NoFetch, FetchRows, GateRows
<1>2. trouble \in BOOLEAN
  BY ZenonT(20) DEF SessionInit
<1>3. /\ refreshTokens \subseteq Token \ {0}
      /\ newest \in Token /\ cookie \in Token /\ accessToken \in Token /\ elapsed \in Token
  BY <1>0 DEF SessionInit
<1> QED
  BY <1>1, <1>2, <1>3 DEF SessionTypeOK, FetchRows, GateRows

LEMMA SessionInitInv == OneTab /\ SessionInit => SessionInv
<1> SUFFICES ASSUME SessionInit
             PROVE  SessionInv
  OBVIOUS
<1>1. /\ \A t \in Tabs : gate[t] = [pc |-> "open", token |-> 0, result |-> 0]
      /\ \A f \in Fetches : fetch[f] = [pc |-> "idle", token |-> 0]
  BY DEF SessionInit, NoGate, NoFetch
<1>2. GateInv
  BY <1>1 DEF SessionInit, GateInv
<1>3. CookieInv /\ RefusedInv
  BY <1>1 DEF SessionInit, CookieInv, RefusedInv
<1> QED
  BY <1>2, <1>3, SessionInitTypes DEF SessionInv

LEMMA FetchKeeps ==
  ASSUME OneTab, SessionInv, NEW f \in Fetches, FetchStep(f)
  PROVE  SessionInv'
<1> USE DEF SessionInv
<1>0. /\ fetch \in [Fetches -> FetchRows] /\ gate \in [Tabs -> GateRows]
      /\ TabOf[f] \in Tabs /\ UNCHANGED <<refreshTokens, newest, cookie, elapsed, trouble>>
      /\ cookie \in Token /\ accessToken \in Token /\ elapsed \in Token /\ 0 \in Token
  BY SessionAssumption
     DEF SessionTypeOK, FetchRows, GateRows, FetchStep, Send, Reply, Refresh, Resume, Token
<1>1. CASE Send(f)
  BY <1>0, <1>1 DEF Send, SetFetch, FetchRows, SessionTypeOK, GateInv, CookieInv, RefusedInv
<1>2. CASE Reply(f)
  <2>1. fetch' \in [Fetches -> FetchRows]
    BY <1>0, <1>2 DEF Reply, FetchRows, NoFetch
  <2>2. RefusedInv'
    BY <1>0, <1>2 DEF Reply, FetchRows, NoFetch, RefusedInv
  <2> QED
    BY <1>0, <1>2, <2>1, <2>2 DEF Reply, FetchRows, SessionTypeOK, GateInv, CookieInv
<1>3. CASE Refresh(f)
  <2>1. fetch' \in [Fetches -> FetchRows] /\ RefusedInv'
    BY <1>0, <1>3 DEF Refresh, SetFetch, FetchRows, RefusedInv
  <2>2. gate' \in [Tabs -> GateRows] /\ UNCHANGED accessToken
    BY <1>0, <1>3 DEF Refresh, GateRows
  <2>3. \/ UNCHANGED gate
        \/ \A t \in Tabs : /\ gate[t].pc = "open" /\ gate'[t].pc = "sent"
                           /\ gate'[t].token = cookie
    BY <1>0, <1>3 DEF Refresh, GateOpen, OneTab
  <2>4. GateInv' /\ CookieInv'
    BY <1>0, <2>2, <2>3 DEF GateInv, CookieInv
  <2> QED
    BY <1>0, <2>1, <2>2, <2>4 DEF SessionTypeOK, FetchRows, GateRows
<1>4. CASE Resume(f)
  <2>1. fetch' \in [Fetches -> FetchRows] /\ RefusedInv'
    BY <1>0, <1>4 DEF Resume, SetFetch, FetchRows, GateRows, NoFetch, RefusedInv
  <2>2. UNCHANGED gate /\ accessToken' \in {0, accessToken}
        /\ (accessToken' # accessToken => trouble)
    BY <1>0, <1>4 DEF Resume, GateRows, CookieInv, Token
  <2>3. CookieInv'
    BY <1>0, <2>2 DEF CookieInv
  <2>4. /\ newest \in Nat /\ accessToken \in Nat
        /\ \A t \in Tabs : gate[t].result \in Nat
    BY <1>0, SessionAssumption DEF SessionTypeOK, GateRows, Token
  <2>5. GateInv'
    <3>1. accessToken' \in Nat /\ accessToken' <= accessToken
      BY <2>2, <2>4
    <3> QED
      BY <1>0, <2>2, <2>4, <3>1 DEF GateInv
  <2> QED
    BY <1>0, <2>1, <2>2, <2>3, <2>5 DEF SessionTypeOK, FetchRows, GateRows
<1> QED
  BY <1>1, <1>2, <1>3, <1>4 DEF FetchStep

LEMMA GateKeeps ==
  ASSUME OneTab, SessionInv, NEW t \in Tabs, GateStep(t)
  PROVE  SessionInv'
<1> USE DEF SessionInv
<1>0. /\ gate \in [Tabs -> GateRows] /\ UNCHANGED <<elapsed, fetch>>
      /\ refreshTokens \subseteq Token \ {0} /\ newest \in Token /\ cookie \in Token
      /\ accessToken \in Token /\ elapsed \in Token /\ 0 \in Token /\ Token \subseteq Nat
      /\ \A u \in Tabs : u = t
  BY SessionAssumption
     DEF SessionTypeOK, GateRows, GateStep, SelectToken, RevokeOld, CreateNew, Answered,
         RefreshFails, Release, Token, OneTab
<1>1. RefusedInv'
  BY <1>0 DEF RefusedInv
<1>2. CASE SelectToken(t)
  <2>1. /\ gate' \in [Tabs -> GateRows] /\ gate'[t].token = gate[t].token /\ gate'[t].result = 0
        /\ gate'[t].pc = IF gate[t].token \in refreshTokens THEN "found" ELSE "settled"
    BY <1>0, <1>2 DEF SelectToken, SetGate, GateRows
  <2>2. GateInv' /\ CookieInv'
    BY <1>0, <1>2, <2>1 DEF SelectToken, GateInv, CookieInv
  <2> QED
    BY <1>0, <1>1, <1>2, <2>1, <2>2 DEF SelectToken, SessionTypeOK, GateRows
<1>3. CASE RevokeOld(t)
  <2>1. /\ gate' \in [Tabs -> GateRows] /\ gate'[t].pc = "revoked"
    BY <1>0, <1>3 DEF RevokeOld, SetGate, GateRows
  <2>2. refreshTokens' = {}
    BY <1>3 DEF RevokeOld, GateInv
  <2>3. GateInv' /\ CookieInv'
    BY <1>0, <1>3, <2>1, <2>2 DEF RevokeOld, GateInv, CookieInv
  <2> QED
    BY <1>0, <1>1, <1>3, <2>1, <2>2, <2>3 DEF RevokeOld, SessionTypeOK, GateRows
<1>4. CASE CreateNew(t)
  <2>1. newest + 1 \in Token \ {0} /\ refreshTokens' = {newest + 1} /\ newest' = newest + 1
    <3>1. refreshTokens = {} /\ newest \in Nat /\ newest < LastToken
      BY <1>0, <1>4 DEF CreateNew, GateInv
    <3>2. newest + 1 \in Token \ {0}
      BY <3>1, SessionAssumption DEF Token
    <3> QED
      BY <1>4, <3>1, <3>2 DEF CreateNew
  <2>2. /\ gate' \in [Tabs -> GateRows] /\ gate'[t].pc = "answered"
        /\ gate'[t].result = newest + 1
    BY <1>0, <1>4, <2>1 DEF CreateNew, SetGate, GateRows
  <2>3. GateInv' /\ CookieInv'
    BY <1>0, <1>4, <2>1, <2>2 DEF CreateNew, GateInv, CookieInv
  <2> QED
    BY <1>0, <1>1, <1>4, <2>1, <2>2, <2>3 DEF CreateNew, SessionTypeOK, GateRows
<1>5. CASE Answered(t)
  <2>1. /\ gate' \in [Tabs -> GateRows] /\ gate'[t].pc = "settled"
        /\ gate'[t].result = gate[t].result /\ gate[t].result \in Token
    BY <1>0, <1>5 DEF Answered, SetGate, GateRows
  <2>2. GateInv' /\ CookieInv'
    BY <1>0, <1>5, <2>1 DEF Answered, GateInv, CookieInv
  <2> QED
    BY <1>0, <1>1, <1>5, <2>1, <2>2 DEF Answered, SessionTypeOK, GateRows
<1>6. CASE RefreshFails(t)
  <2>1. gate' \in [Tabs -> GateRows] /\ gate'[t].pc = "settled" /\ gate'[t].result = 0
    BY <1>0, <1>6 DEF RefreshFails, SetGate, GateRows
  <2>2. GateInv' /\ CookieInv'
    BY <1>0, <1>6, <2>1 DEF RefreshFails, GateInv, CookieInv
  <2> QED
    BY <1>0, <1>1, <1>6, <2>1, <2>2 DEF RefreshFails, SessionTypeOK, GateRows
<1>7. CASE Release(t)
  <2>1. gate' \in [Tabs -> GateRows] /\ gate'[t].pc = "open"
    BY <1>0, <1>7 DEF Release, NoGate, GateRows
  <2>2. GateInv' /\ CookieInv'
    BY <1>0, <1>7, <2>1 DEF Release, GateInv, CookieInv
  <2> QED
    BY <1>0, <1>1, <1>7, <2>1, <2>2 DEF Release, SessionTypeOK, GateRows
<1> QED
  BY <1>2, <1>3, <1>4, <1>5, <1>6, <1>7 DEF GateStep

LEMMA ExpiryKeeps ==
  ASSUME SessionInv, AccessExpires \/ RefreshExpires
  PROVE  SessionInv'
<1> USE DEF SessionInv
<1>1. CASE AccessExpires
  <2>1. \A f \in Fetches : fetch[f].token \in Nat
    BY DEF SessionTypeOK, Token
  <2>2. accessToken \in Nat /\ elapsed \in Nat /\ elapsed < accessToken /\ elapsed' = accessToken
    BY <1>1 DEF AccessExpires, SessionTypeOK, Token
  <2>3. RefusedInv'
    BY <1>1, <2>1, <2>2 DEF AccessExpires, RefusedInv
  <2>4. GateInv' /\ CookieInv'
    BY <1>1, <2>2 DEF AccessExpires, GateInv, CookieInv
  <2> QED
    BY <1>1, <2>3, <2>4 DEF AccessExpires, SessionTypeOK
<1>2. CASE RefreshExpires
  BY <1>2 DEF RefreshExpires, SessionTypeOK, GateInv, CookieInv, RefusedInv
<1> QED
  BY <1>1, <1>2

LEMMA SessionStepInv == OneTab /\ SessionInv /\ [SessionNext]_sessionVars => SessionInv'
<1> SUFFICES ASSUME OneTab, SessionInv, [SessionNext]_sessionVars
             PROVE  SessionInv'
  OBVIOUS
<1>1. CASE UNCHANGED sessionVars
  BY <1>1 DEF sessionVars, SessionInv, SessionTypeOK, GateInv, CookieInv, RefusedInv
<1> QED
  BY <1>1, FetchKeeps, GateKeeps, ExpiryKeeps DEF SessionNext

\* The tokens, calls and gates keep within their types for any number of tabs, which
\* share the cookie and the access token of the browser.
THEOREM SessionTypes == SessionSpec => []SessionTypeOK
<1>1. SessionInit => SessionTypeOK
  BY SessionInitTypes
<1>2. SessionTypeOK /\ [SessionNext]_sessionVars => SessionTypeOK'
  <2> SUFFICES ASSUME SessionTypeOK, [SessionNext]_sessionVars
               PROVE  SessionTypeOK'
    OBVIOUS
  <2>0. /\ fetch \in [Fetches -> FetchRows] /\ gate \in [Tabs -> GateRows]
        /\ cookie \in Token /\ accessToken \in Token /\ newest \in Token /\ 0 \in Token
        /\ \A f \in Fetches : TabOf[f] \in Tabs
    BY SessionAssumption DEF SessionTypeOK, FetchRows, GateRows, Token
  <2>1. CASE UNCHANGED sessionVars
    BY <2>1 DEF sessionVars, SessionTypeOK
  <2>2. CASE AccessExpires \/ RefreshExpires
    BY <2>2 DEF AccessExpires, RefreshExpires, SessionTypeOK
  <2>3. ASSUME NEW f \in Fetches, FetchStep(f)
        PROVE  SessionTypeOK'
    <3>1. fetch' \in [Fetches -> FetchRows] /\ accessToken' \in Token
      BY <2>0, <2>3
         DEF FetchStep, Send, Reply, Refresh, Resume, SetFetch, NoFetch, FetchRows, GateRows
    <3>2. gate' \in [Tabs -> GateRows]
      BY <2>0, <2>3 DEF FetchStep, Send, Reply, Refresh, Resume, GateRows
    <3> QED
      BY <2>3, <3>1, <3>2
         DEF FetchStep, Send, Reply, Refresh, Resume, SessionTypeOK, FetchRows, GateRows
  <2>4. ASSUME NEW t \in Tabs, GateStep(t)
        PROVE  SessionTypeOK'
    <3>1. newest < LastToken => newest + 1 \in Token \ {0}
      BY <2>0, SessionAssumption DEF Token
    <3>2. gate' \in [Tabs -> GateRows]
      BY <2>0, <2>4, <3>1
         DEF GateStep, SelectToken, RevokeOld, CreateNew, Answered, RefreshFails, Release,
             SetGate, NoGate, GateRows
    <3>3. /\ refreshTokens' \subseteq Token \ {0} /\ newest' \in Token
          /\ cookie' \in Token /\ accessToken' \in Token /\ trouble' \in BOOLEAN
      BY <2>0, <2>4, <3>1
         DEF GateStep, SelectToken, RevokeOld, CreateNew, Answered, RefreshFails, Release,
             GateRows, SessionTypeOK
    <3> QED
      BY <2>4, <3>2, <3>3
         DEF GateStep, SelectToken, RevokeOld, CreateNew, Answered, RefreshFails, Release,
             SessionTypeOK, FetchRows, GateRows
  <2> QED
    BY <2>1, <2>2, <2>3, <2>4 DEF SessionNext
<1> QED
  BY <1>1, <1>2, PTL DEF SessionSpec

\* The inductive invariant holds for any number of calls of apiFetch in one tab.
THEOREM SessionInvariant ==
  ASSUME OneTab
  PROVE  SessionSpec => []SessionInv
<1>1. SessionInit => SessionInv
  BY SessionInitInv
<1>2. SessionInv /\ [SessionNext]_sessionVars => SessionInv'
  BY SessionStepInv
<1> QED
  BY <1>1, <1>2, PTL DEF SessionSpec

\* One tab never clears its session but after a refresh that failed for a reason of its
\* own, however its calls are refused, joined and repeated (refreshAccessToken of
\* api-client.ts).
THEOREM OneTabSurvives ==
  ASSUME OneTab
  PROVE  SessionSpec => []SessionSurvives
<1>1. SessionInv => SessionSurvives
  BY DEF SessionInv, CookieInv, SessionSurvives
<1> QED
  BY <1>1, SessionInvariant, PTL

\* The rotation of one tab never leaves two live rows, whatever statement of
\* rotateRefreshToken fails.
THEOREM RotationKeepsOne ==
  ASSUME OneTab
  PROVE  SessionSpec => []OneLiveToken
<1>1. SessionInv => OneLiveToken
  <2> SUFFICES ASSUME SessionInv
               PROVE  OneLiveToken
    OBVIOUS
  <2>1. refreshTokens = {} \/ refreshTokens = {newest}
    BY DEF SessionInv, GateInv
  <2>2. Cardinality({}) = 0 /\ Cardinality({newest}) = 1
    BY FS_EmptySet, FS_Singleton
  <2>3. Cardinality(refreshTokens) = 0 \/ Cardinality(refreshTokens) = 1
    BY <2>1, <2>2
  <2> QED
    BY <2>3 DEF OneLiveToken
<1> QED
  BY <1>1, SessionInvariant, PTL

\* A call of one tab is repeated with a token newer than the one it was refused with,
\* although it may join a refresh that began long before.
THEOREM RetriesAreNewer ==
  ASSUME OneTab
  PROVE  SessionSpec => RetryIsNewer
<1>1. SessionInv /\ [SessionNext]_sessionVars =>
        [\A f \in Fetches : fetch[f].pc = "waiting" /\ fetch'[f].pc = "retried" =>
           fetch'[f].token > fetch[f].token]_sessionVars
  <2> SUFFICES ASSUME SessionInv, [SessionNext]_sessionVars, NEW f \in Fetches,
                      fetch[f].pc = "waiting", fetch'[f].pc = "retried"
               PROVE  fetch'[f].token > fetch[f].token
    OBVIOUS
  <2>0. /\ fetch \in [Fetches -> FetchRows] /\ gate \in [Tabs -> GateRows]
        /\ elapsed \in Nat /\ Token \subseteq Nat
    BY DEF SessionInv, SessionTypeOK, FetchRows, GateRows, Token
  <2>1. PICK g \in Fetches : FetchStep(g)
    BY DEF SessionNext, sessionVars, GateStep, SelectToken, RevokeOld, CreateNew, Answered,
           RefreshFails, Release, AccessExpires, RefreshExpires
  <2>2. Resume(g)
    BY <2>0, <2>1 DEF FetchStep, Send, Reply, Refresh, SetFetch, NoFetch
  <2>3. g = f /\ gate[TabOf[f]].pc = "settled" /\ gate[TabOf[f]].result > 0
        /\ fetch'[f].token = gate[TabOf[f]].result
    BY <2>0, <2>2 DEF Resume, SetFetch, NoFetch
  <2>4. gate[TabOf[f]].result > elapsed /\ TabOf[f] \in Tabs
    BY <2>3, SessionAssumption DEF SessionInv, GateInv
  <2>5. fetch[f].token <= elapsed
    BY DEF SessionInv, RefusedInv
  <2> QED
    <3>1. /\ gate[TabOf[f]].result \in Nat /\ fetch[f].token \in Nat
      BY <2>0, <2>4 DEF GateRows, FetchRows
    <3> QED
      BY <2>0, <2>3, <2>4, <2>5, <3>1
<1> QED
  BY <1>1, SessionInvariant, PTL DEF SessionSpec, RetryIsNewer

-----------------------------------------------------------------------------
(* RunStatus: any number of batches *)

Rows == {"older", "this"}

\* An analysis that succeeded has persisted decisions or had nothing to decide.
Backed(r) == ledger[r].decisions \/ ~ledger[r].material

LedgerInv ==
  /\ \A r \in Rows : ledger[r].stage = "SUCCESS" => Backed(r)
  /\ poster = "idle" => ledger["this"] = NoRow

\* What the reader has seen of its run is still so, where the answer depends on it.
ReaderInv ==
  LET view == reader.view IN
  /\ view.pointed # "none" => active # "none"
  /\ view.run = "this" => poster # "idle"
  /\ reader.pc \in {"idle", "run", "stage"} => view.row.stage = "none"
  /\ view.row.stage = "SUCCESS" =>
       /\ view.run # "none" /\ Backed(view.run)
       /\ reader.pc = "count" /\ view.row.material => ledger[view.run].decisions
       /\ reader.pc = "derive" /\ view.row.material => view.row.decisions

\* A job is claimed once, and has one heartbeat for each batch behind it.
AnalystInv ==
  /\ poster \in {"idle", "working"} => llmJob.status = "absent"
  /\ llmJob.status \in {"absent", "pending"} => analyst.pc = "idle" /\ analyst.beats = 0
  /\ analyst.pc = "start" => analyst.beats = 0
  /\ analyst.pc = "infer" => analyst.beats < analyst.batch

StatusInv == RunStatusTypeOK /\ LedgerInv /\ ReaderInv /\ AnalystInv

LedgerTypes == ledger \in [Rows -> LedgerRow]
AnalystRows ==
  [pc : AnalystPc, batch : 0..LlmBatches, failed : BOOLEAN, beats : 0..LlmBatches]
AnalystTypes == analyst \in AnalystRows

\* What a step of the writers does to the rows: the older one stays, and the one of this
\* refresh keeps what a reader may have seen of it.
Steady ==
  /\ ledger' \in [Rows -> LedgerRow] /\ ledger'["older"] = ledger["older"]
  /\ ledger["this"].decisions => ledger'["this"].decisions
  /\ ~ledger["this"].material => ~ledger'["this"].material
  /\ ledger'["this"].stage = "SUCCESS" => ledger'["this"].decisions \/ ~ledger'["this"].material

LEMMA StageSteady ==
  ASSUME LedgerTypes, LedgerInv, NEW s \in {"IN_PROGRESS", "HEARTBEAT", "SUCCESS", "FAILED"},
         s = "SUCCESS" => ledger["this"].decisions, Stage(s)
  PROVE  Steady
<1>1. /\ ledger'["older"] = ledger["older"]
      /\ ledger'["this"] = [ledger["this"] EXCEPT !.stage = s, !.idle = FALSE]
      /\ DOMAIN ledger' = Rows /\ ledger' = [r \in Rows |-> ledger'[r]]
  BY DEF Stage, LedgerTypes, Rows
<1>2. /\ ledger'["this"] \in LedgerRow /\ ledger'["this"].stage = s
      /\ ledger'["this"].decisions = ledger["this"].decisions
      /\ ledger'["this"].material = ledger["this"].material
  BY <1>1 DEF LedgerTypes, Rows, LedgerRow
<1> QED
  BY <1>1, <1>2 DEF Steady, LedgerTypes, Rows

LEMMA FailSteady ==
  ASSUME LedgerTypes, LedgerInv,
         \/ ledger' = FailThisRun
         \/ ledger' = [FailThisRun EXCEPT !["this"].stage = "FAILED"]
  PROVE  Steady
<1>1. /\ ledger'["older"] = ledger["older"]
      /\ \/ ledger'["this"] = [ledger["this"] EXCEPT !.status = "FAILED", !.idle = FALSE]
         \/ ledger'["this"] =
              [ledger["this"] EXCEPT !.status = "FAILED", !.idle = FALSE, !.stage = "FAILED"]
      /\ ledger' = [r \in Rows |-> ledger'[r]]
  BY DEF FailThisRun, LedgerTypes, Rows
<1>2. /\ ledger'["this"] \in LedgerRow /\ ledger'["this"].stage \in {"FAILED", ledger["this"].stage}
      /\ ledger'["this"].decisions = ledger["this"].decisions
      /\ ledger'["this"].material = ledger["this"].material
  BY <1>1 DEF LedgerTypes, Rows, LedgerRow
<1> QED
  BY <1>1, <1>2 DEF Steady, LedgerTypes, Rows, LedgerInv, Backed

LEMMA SameIsSteady ==
  ASSUME LedgerTypes, LedgerInv, UNCHANGED ledger
  PROVE  Steady
BY DEF Steady, LedgerTypes, LedgerInv, Backed, Rows

\* Only what names another row, or one of the fields above, can disturb the reader.
LEMMA SteadyKeeps ==
  ASSUME StatusInv, Steady, UNCHANGED reader, active' \in {active, "this"},
         poster' = poster \/ poster' # "idle", poster' = "idle" => UNCHANGED ledger
  PROVE  LedgerInv' /\ ReaderInv'
<1>1. LedgerInv'
  BY DEF StatusInv, LedgerInv, Backed, Steady, Rows
<1>2. reader.view.run \in {"none", "older", "this"}
  BY DEF StatusInv, RunStatusTypeOK, View
<1>3. reader.view.run # "none" =>
        /\ ledger[reader.view.run].decisions => ledger'[reader.view.run].decisions
        /\ ~ledger[reader.view.run].material => ~ledger'[reader.view.run].material
  BY <1>2 DEF Steady
<1> QED
  BY <1>1, <1>3 DEF StatusInv, ReaderInv, Backed

LEMMA PosterKeeps ==
  ASSUME StatusInv, BeginRefresh \/ QueueJob \/ PostEvent \/ PostFails
  PROVE  StatusInv'
<1> USE DEF StatusInv
<1>0. LedgerTypes /\ AnalystTypes
  BY DEF RunStatusTypeOK, LedgerTypes, AnalystTypes, AnalystRows, Rows
<1>1. CASE BeginRefresh
  <2>1. /\ ledger' = [ledger EXCEPT !["this"] = [NoRow EXCEPT !.status = "RUNNING"]]
        /\ poster = "idle" /\ poster' = "working"
        /\ UNCHANGED <<active, llmJob, analyst, reader, answer>>
    BY <1>1 DEF BeginRefresh
  <2>2. NoRow \in LedgerRow /\ NoRow.stage = "none"
    BY DEF NoRow, LedgerRow
  <2>3. /\ ledger' \in [Rows -> LedgerRow] /\ ledger'["this"].stage = "none"
        /\ ledger'["older"] = ledger["older"]
    BY <1>0, <2>1, <2>2 DEF LedgerTypes, LedgerRow, Rows
  <2>4. LedgerInv' /\ ReaderInv'
    BY <2>1, <2>3 DEF LedgerInv, ReaderInv, Backed, Rows, RunStatusTypeOK, View
  <2>5. RunStatusTypeOK' /\ AnalystInv'
    BY <2>1, <2>3 DEF RunStatusTypeOK, AnalystInv, Rows
  <2> QED
    BY <2>4, <2>5
<1>2. CASE QueueJob
  <2>1. LedgerInv' /\ ReaderInv'
    BY <1>0, <1>2, SameIsSteady, SteadyKeeps DEF QueueJob
  <2>2. RunStatusTypeOK' /\ AnalystInv'
    BY <1>2 DEF QueueJob, RunStatusTypeOK, AnalystInv
  <2> QED
    BY <2>1, <2>2
<1>3. CASE PostEvent
  <2>1. Steady
    BY <1>0, <1>3, StageSteady DEF PostEvent
  <2>2. LedgerInv' /\ ReaderInv'
    BY <1>3, <2>1, SteadyKeeps DEF PostEvent
  <2>3. RunStatusTypeOK' /\ AnalystInv'
    BY <1>3, <2>1 DEF PostEvent, RunStatusTypeOK, AnalystInv, Steady, Rows
  <2> QED
    BY <2>2, <2>3
<1>4. CASE PostFails
  <2>1. Steady
    BY <1>0, <1>4, StageSteady, FailSteady, SameIsSteady DEF PostFails
  <2>2. LedgerInv' /\ ReaderInv'
    BY <1>4, <2>1, SteadyKeeps DEF PostFails
  <2>3. RunStatusTypeOK' /\ AnalystInv'
    BY <1>4, <2>1 DEF PostFails, RunStatusTypeOK, AnalystInv, Steady, Rows
  <2> QED
    BY <2>2, <2>3
<1> QED
  BY <1>1, <1>2, <1>3, <1>4

\* The steps of the worker, and the time, write the row or leave it alone.
LEMMA AnalystSteady ==
  ASSUME StatusInv, AnalystStep \/ HeartbeatEnds \/ AnalystDies \/ RecoverJob \/ TimePasses
  PROVE  /\ Steady /\ UNCHANGED <<reader, poster, answer>> /\ active' \in {active, "this"}
         /\ poster = "idle" => UNCHANGED ledger
<1> USE DEF StatusInv
<1>0. LedgerTypes /\ AnalystTypes
  BY DEF RunStatusTypeOK, LedgerTypes, AnalystTypes, AnalystRows, Rows
<1>1. CASE TimePasses
  <2>1. \/ UNCHANGED ledger
        \/ ledger["this"].stage = "IN_PROGRESS" /\ ledger' = [ledger EXCEPT !["this"].idle = TRUE]
    BY <1>1 DEF TimePasses
  <2>2. poster = "idle" => UNCHANGED ledger
    BY <2>1 DEF LedgerInv, NoRow
  <2>3. ASSUME ledger["this"].stage = "IN_PROGRESS", ledger' = [ledger EXCEPT !["this"].idle = TRUE]
        PROVE  Steady
    BY <1>0, <2>3 DEF LedgerTypes, LedgerRow, Rows, Steady
  <2> QED
    BY <1>0, <1>1, <2>1, <2>2, <2>3, SameIsSteady DEF TimePasses
<1>2. CASE ~TimePasses
  <2>1. poster # "idle"
    <3>1. SUFFICES ASSUME llmJob.status = "absent", analyst.pc = "idle", analyst.beats = 0
                   PROVE  FALSE
      BY DEF AnalystInv
    <3>2. ~HeartbeatEnds /\ ~AnalystDies /\ ~RecoverJob
      BY <3>1 DEF HeartbeatEnds, AnalystDies, RecoverJob
    <3>3. ~AnalystStep
      BY <3>1 DEF AnalystStep, ClaimJob, NoCandidates, BeginBatches, BatchAnswers, BatchBreaks,
         AnalysisSucceeds, AnalysisFails, PublishThisRun, PublishBreaks, JobDone
    <3> QED
      BY <1>2, <3>2, <3>3
  <2>2. /\ UNCHANGED <<reader, poster, answer>> /\ active' \in {active, "this"}
    BY <1>2 DEF AnalystStep, HeartbeatEnds, AnalystDies, RecoverJob,
       ClaimJob, NoCandidates, BeginBatches, BatchAnswers, BatchBreaks, AnalysisSucceeds,
       AnalysisFails, PublishThisRun, PublishBreaks, JobDone
  <2>3. CASE ClaimJob \/ JobDone \/ AnalystDies
    BY <1>0, <2>1, <2>2, <2>3, SameIsSteady DEF ClaimJob, JobDone, AnalystDies
  <2>4. CASE BeginBatches \/ BatchBreaks \/ AnalysisSucceeds \/ HeartbeatEnds
    BY <1>0, <2>1, <2>2, <2>4, StageSteady, SameIsSteady
       DEF BeginBatches, BatchBreaks, AnalysisSucceeds, HeartbeatEnds
  <2>5. CASE AnalysisFails \/ PublishBreaks
    BY <1>0, <2>1, <2>2, <2>5, FailSteady DEF AnalysisFails, PublishBreaks
  <2>6. CASE NoCandidates
    <3>1. ledger' = [ledger EXCEPT !["this"].stage = "SUCCESS", !["this"].material = FALSE,
                                   !["this"].idle = FALSE]
      BY <2>6 DEF NoCandidates
    <3>2. Steady
      BY <1>0, <3>1 DEF LedgerTypes, LedgerRow, Rows, Steady
    <3> QED
      BY <2>1, <2>2, <3>2
  <2>7. CASE BatchAnswers
    <3>1. UNCHANGED ledger \/ ledger' = [ledger EXCEPT !["this"].decisions = TRUE]
      BY <2>7 DEF BatchAnswers
    <3>2. ASSUME ledger' = [ledger EXCEPT !["this"].decisions = TRUE]
          PROVE  Steady
      BY <1>0, <3>2 DEF LedgerTypes, LedgerRow, Rows, Steady
    <3> QED
      BY <1>0, <2>1, <2>2, <3>1, <3>2, SameIsSteady
  <2>8. CASE PublishThisRun
    <3>1. ledger' = [ledger EXCEPT !["this"].status = "SUCCEEDED", !["this"].idle = FALSE]
      BY <2>8 DEF PublishThisRun
    <3>2. Steady
      BY <1>0, <3>1 DEF LedgerTypes, LedgerRow, Rows, Steady, LedgerInv, Backed
    <3> QED
      BY <2>1, <2>2, <3>2
  <2>9. CASE RecoverJob
    <3>1. ledger' \in {ledger, [ledger EXCEPT !["this"].status = "FAILED"]}
      BY <2>9 DEF RecoverJob
    <3>2. Steady
      BY <1>0, <3>1 DEF LedgerTypes, LedgerRow, Rows, Steady, LedgerInv, Backed
    <3> QED
      BY <2>1, <2>2, <3>2
  <2> QED
    BY <1>2, <2>3, <2>4, <2>5, <2>6, <2>7, <2>8, <2>9 DEF AnalystStep
<1> QED
  BY <1>1, <1>2

LEMMA AnalystUpdates ==
  ASSUME NEW a \in AnalystRows, NEW pc \in AnalystPc, NEW n \in 0..LlmBatches
  PROVE  /\ [a EXCEPT !.pc = pc] \in AnalystRows
         /\ [a EXCEPT !.pc = pc, !.batch = n] \in AnalystRows
         /\ [a EXCEPT !.pc = pc, !.batch = n, !.failed = FALSE] \in AnalystRows
         /\ [a EXCEPT !.batch = n] \in AnalystRows
         /\ [a EXCEPT !.beats = n] \in AnalystRows
         /\ [a EXCEPT !.failed = TRUE] \in AnalystRows
BY DEF AnalystRows

LEMMA NextBatchRows ==
  ASSUME NEW a \in AnalystRows, NEW h \in Nat, h <= a.batch
  PROVE  /\ NextBatch(a) \in AnalystRows
         /\ NextBatch(a).pc # "start" \/ NextBatch(a).pc = a.pc
         /\ NextBatch(a).beats = a.beats
         /\ NextBatch(a).pc = "infer" => NextBatch(a).batch = a.batch + 1
<1>0. "sum up" \in AnalystPc
  BY DEF AnalystPc
<1>1. a.batch \in 0..LlmBatches /\ LlmBatches \in Nat
  BY RunStatusAssumption DEF AnalystRows
<1>2. CASE a.batch = LlmBatches
  <2>1. NextBatch(a) = [a EXCEPT !.pc = "sum up"]
    BY <1>2 DEF NextBatch
  <2>2. NextBatch(a) \in AnalystRows
    BY <1>0, <1>1, <2>1, AnalystUpdates
  <2>3. NextBatch(a).pc = "sum up" /\ NextBatch(a).beats = a.beats
    BY <2>1 DEF AnalystRows
  <2> QED
    BY <2>2, <2>3
<1>3. CASE a.batch # LlmBatches
  <2>1. a.batch + 1 \in 0..LlmBatches
    BY <1>1, <1>3
  <2>2. NextBatch(a) = [a EXCEPT !.batch = a.batch + 1]
    BY <1>3 DEF NextBatch
  <2> QED
    <3>1. NextBatch(a) \in AnalystRows
      BY <1>0, <2>1, <2>2, AnalystUpdates
    <3>2. /\ NextBatch(a).pc = a.pc /\ NextBatch(a).beats = a.beats
          /\ NextBatch(a).batch = a.batch + 1
      BY <2>2 DEF AnalystRows
    <3> QED
      BY <3>1, <3>2
<1> QED
  BY <1>2, <1>3

LEMMA AnalystKeeps ==
  ASSUME StatusInv, AnalystStep \/ HeartbeatEnds \/ AnalystDies \/ RecoverJob \/ TimePasses
  PROVE  StatusInv'
<1> USE DEF StatusInv
<1>1. /\ Steady /\ UNCHANGED <<reader, poster, answer>> /\ active' \in {active, "this"}
      /\ poster = "idle" => UNCHANGED ledger
  BY AnalystSteady
<1>2. LedgerInv' /\ ReaderInv'
  BY <1>1, SteadyKeeps
<1> DEFINE JobRows == [status : {"absent", "pending", "running", "complete", "failed"},
                       aged : BOOLEAN]
<1>3. llmJob \in JobRows /\ analyst \in AnalystRows
  BY DEF RunStatusTypeOK, AnalystRows
<1>p. \A pc \in {"idle", "start", "infer", "fail", "sum up", "publish", "complete", "dead"} :
        pc \in AnalystPc
  BY DEF AnalystPc
<1>n. LlmBatches \in Nat /\ 0 \in 0..LlmBatches /\ 1 \in 0..LlmBatches
  BY RunStatusAssumption
<1>4. /\ analyst.batch \in Nat /\ analyst.beats \in Nat /\ analyst.batch <= LlmBatches
      /\ analyst.beats <= LlmBatches
  BY <1>3, <1>n DEF AnalystRows
<1>g. ASSUME NEW pc \in {"idle", "start", "infer", "fail", "sum up", "publish", "complete", "dead"},
             AnalystGoes(pc)
      PROVE  analyst' \in AnalystRows /\ analyst'.pc = pc /\ analyst'.beats = analyst.beats
  <2>1. analyst' = [analyst EXCEPT !.pc = pc]
    BY <1>g DEF AnalystGoes
  <2>2. analyst' \in AnalystRows
    BY <1>3, <1>p, <1>n, <2>1, AnalystUpdates
  <2>3. analyst'.pc = pc /\ analyst'.beats = analyst.beats
    BY <1>3, <2>1 DEF AnalystRows
  <2> QED
    BY <2>2, <2>3
<1>5. /\ llmJob' \in JobRows
      /\ llmJob.status = "absent" => UNCHANGED llmJob
      /\ UNCHANGED llmJob \/ llmJob'.status \notin {"absent", "pending"}
         \/ llmJob'.status = llmJob.status
  <2>1. CASE UNCHANGED llmJob
    BY <1>3, <2>1
  <2>2. CASE TimePasses
    BY <1>3, <2>2 DEF TimePasses
  <2>3. CASE ClaimJob
    BY <1>3, <2>3 DEF ClaimJob
  <2>4. CASE AnalysisFails \/ JobDone \/ RecoverJob
    BY <1>3, <2>4 DEF AnalysisFails, JobDone, RecoverJob, AnalystInv
  <2> QED
    BY <2>1, <2>2, <2>3, <2>4 DEF AnalystStep, HeartbeatEnds, AnalystDies, NoCandidates,
       BeginBatches, BatchAnswers, BatchBreaks, AnalysisSucceeds, PublishThisRun, PublishBreaks
<1>6. /\ analyst' \in AnalystRows
      /\ analyst'.pc = "start" => analyst'.beats = 0
      /\ analyst'.pc = "infer" => analyst'.beats < analyst'.batch
  <2>1. CASE ClaimJob
    BY <1>g, <2>1 DEF ClaimJob, AnalystInv
  <2>2. CASE NoCandidates \/ AnalysisSucceeds \/ PublishThisRun
    BY <1>g, <2>2 DEF NoCandidates, AnalysisSucceeds, PublishThisRun
  <2>3. CASE AnalysisFails \/ PublishBreaks \/ JobDone \/ AnalystDies \/ RecoverJob
    <3>1. PICK pc \in {"idle", "dead"} : AnalystLeaves(pc)
      BY <2>3 DEF AnalysisFails, PublishBreaks, JobDone, AnalystDies, RecoverJob
    <3>2. analyst' = [analyst EXCEPT !.pc = pc, !.batch = 0, !.failed = FALSE]
      BY <3>1 DEF AnalystLeaves
    <3>3. analyst' \in AnalystRows
      BY <1>3, <1>p, <1>n, <3>2, AnalystUpdates
    <3>4. analyst'.pc = pc
      BY <1>3, <3>2 DEF AnalystRows
    <3> QED
      BY <3>3, <3>4
  <2>4. CASE BeginBatches
    <3>1. analyst.pc = "start" /\ analyst.beats = 0
      BY <2>4 DEF BeginBatches, AnalystInv
    <3>2. CASE analyst' = [analyst EXCEPT !.pc = "infer", !.batch = 1]
      <4>1. analyst' \in AnalystRows
        BY <1>3, <1>p, <1>n, <3>2, AnalystUpdates
      <4>2. analyst'.pc = "infer" /\ analyst'.batch = 1 /\ analyst'.beats = analyst.beats
        BY <1>3, <3>2 DEF AnalystRows
      <4> QED
        BY <3>1, <4>1, <4>2
    <3>3. CASE AnalystGoes("fail")
      BY <1>g, <3>3
    <3> QED
      BY <2>4, <3>2, <3>3 DEF BeginBatches
  <2>5. CASE BatchAnswers
    <3>1. analyst.pc = "infer" /\ analyst.beats < analyst.batch
      BY <2>5 DEF BatchAnswers, AnalystInv
    <3> DEFINE a == [analyst EXCEPT !.beats = analyst.beats + 1]
    <3>2. a \in AnalystRows
      <4>1. analyst.beats + 1 \in 0..LlmBatches
        BY <1>n, <1>4, <3>1
      <4> QED
        BY <1>3, <1>p, <1>n, <4>1, AnalystUpdates
    <3>3. a.pc = "infer" /\ a.batch = analyst.batch /\ a.beats = analyst.beats + 1
      BY <1>3, <3>1 DEF AnalystRows
    <3>4. analyst' = NextBatch(a)
      BY <2>5 DEF BatchAnswers
    <3> HIDE DEF a
    <3> QED
      BY <1>4, <3>1, <3>2, <3>3, <3>4, NextBatchRows
  <2>6. CASE BatchBreaks
    <3>1. analyst.pc = "infer" /\ analyst.beats < analyst.batch
      BY <2>6 DEF BatchBreaks, AnalystInv
    <3>2. CASE AnalystGoes("fail")
      BY <1>g, <3>2
    <3> DEFINE a == [analyst EXCEPT !.failed = TRUE]
    <3>3. CASE analyst' = NextBatch(a)
      <4>1. a \in AnalystRows
        BY <1>3, <1>p, <1>n, AnalystUpdates
      <4>2. a.pc = "infer" /\ a.batch = analyst.batch /\ a.beats = analyst.beats
        BY <1>3, <3>1 DEF AnalystRows
      <4> HIDE DEF a
      <4> QED
        BY <1>4, <3>1, <3>3, <4>1, <4>2, NextBatchRows
    <3> QED
      BY <2>6, <3>2, <3>3 DEF BatchBreaks
  <2>7. CASE HeartbeatEnds
    <3>1. analyst.beats > 0 /\ analyst' = [analyst EXCEPT !.beats = analyst.beats - 1]
      BY <2>7 DEF HeartbeatEnds
    <3>2. analyst.beats - 1 \in 0..LlmBatches
      BY <1>n, <1>4, <3>1
    <3>3. analyst' \in AnalystRows
      BY <1>3, <1>p, <3>1, <3>2, AnalystUpdates
    <3>4. /\ analyst'.pc = analyst.pc /\ analyst'.batch = analyst.batch
          /\ analyst'.beats = analyst.beats - 1
      BY <1>3, <3>1 DEF AnalystRows
    <3> QED
      BY <1>4, <3>1, <3>3, <3>4 DEF AnalystInv
  <2>8. CASE TimePasses
    BY <1>3, <2>8 DEF TimePasses, AnalystInv
  <2> QED
    BY <2>1, <2>2, <2>3, <2>4, <2>5, <2>6, <2>7, <2>8 DEF AnalystStep
<1>7. AnalystInv'
  <2>1. poster' \in {"idle", "working"} => llmJob'.status = "absent"
    BY <1>1, <1>5 DEF AnalystInv
  <2>2. llmJob'.status \in {"absent", "pending"} => analyst'.pc = "idle" /\ analyst'.beats = 0
    <3>1. ASSUME llmJob'.status \in {"absent", "pending"}
          PROVE  llmJob.status \in {"absent", "pending"} /\ ~ClaimJob
      BY <1>3, <1>5, <3>1 DEF ClaimJob
    <3>2. ASSUME analyst.pc = "idle", analyst.beats = 0, ~ClaimJob
          PROVE  UNCHANGED analyst
      BY <3>2 DEF AnalystStep, HeartbeatEnds, AnalystDies, RecoverJob, TimePasses, NoCandidates,
         BeginBatches, BatchAnswers, BatchBreaks, AnalysisSucceeds, AnalysisFails,
         PublishThisRun, PublishBreaks, JobDone
    <3> QED
      BY <3>1, <3>2 DEF AnalystInv
  <2> QED
    BY <1>6, <2>1, <2>2 DEF AnalystInv
<1>8. RunStatusTypeOK'
  BY <1>1, <1>5, <1>6 DEF RunStatusTypeOK, AnalystRows, Steady, Rows
<1> QED
  BY <1>2, <1>7, <1>8

LEMMA DerivedTypes == \A v \in View : Derived(v) \in Answers
<1> SUFFICES ASSUME NEW v \in View PROVE Derived(v) \in Answers
  OBVIOUS
<1>1. SnapshotStatus(v) \in {"NOT_READY", "READY", "FAILED"}
  BY DEF SnapshotStatus, View
<1>2. LlmStatus(v) \in {"NOT_STARTED", "RUNNING", "READY", "FAILED"}
  BY DEF LlmStatus, View, LedgerRow
<1>3. \A s \in {"NOT_READY", "READY", "FAILED"},
         l \in {"NOT_STARTED", "RUNNING", "READY", "FAILED"} :
        derivePipelineStatus(s, l) \in {"PENDING", "PARTIAL", "READY", "FAILED"}
  BY DEF derivePipelineStatus
<1>4. v.row.decisions \in BOOLEAN /\ v.row.material \in BOOLEAN /\ v.row.idle \in BOOLEAN
  BY DEF View, LedgerRow
<1> DEFINE missing == LlmStatus(v) = "READY" /\ ~v.row.decisions /\ v.row.material
           late == LlmStatus(v) = "RUNNING" /\ v.row.idle
<1>5. missing \in BOOLEAN /\ late \in BOOLEAN
  OBVIOUS
<1> HIDE DEF missing, late
<1>6. Derived(v) = [snapshot |-> SnapshotStatus(v), missing |-> missing,
       llm |-> IF missing THEN "FAILED" ELSE IF late THEN "FAILED_TIMEOUT" ELSE LlmStatus(v),
       pipeline |-> IF missing \/ late THEN "FAILED"
                    ELSE derivePipelineStatus(SnapshotStatus(v), LlmStatus(v))]
  BY DEF Derived, missing, late
<1> QED
  BY <1>1, <1>2, <1>3, <1>5, <1>6 DEF Answers

LEMMA ReaderKeeps ==
  ASSUME StatusInv, ReaderStep
  PROVE  StatusInv'
<1> USE DEF StatusInv
<1>0. /\ ledger \in [Rows -> LedgerRow] /\ active \in {"none", "older", "this"}
      /\ reader.pc \in {"idle", "run", "stage", "count", "derive"} /\ reader.view \in View
      /\ NoRow \in LedgerRow /\ NoView \in View
  BY DEF RunStatusTypeOK, Rows, NoRow, NoView, LedgerRow, View
<1>1. UNCHANGED writerVars
  BY DEF ReaderStep, ReadPointer, ReadRun, ReadStage, ReadCount, Answer
<1>2. LedgerInv' /\ AnalystInv'
  BY <1>1 DEF writerVars, LedgerInv, AnalystInv, Backed, Rows
<1>3. Read \in LedgerRow
  BY <1>0 DEF Read, Rows, View
<1>4. NewestRun \in {"none", "older", "this"} /\ (NewestRun = "this" => poster # "idle")
  BY DEF NewestRun, LedgerInv, NoRow
<1> DEFINE view == reader.view
<1>5. CASE ReadPointer
  <2> DEFINE p == IF active = "none" THEN "none" ELSE ledger[active].status
  <2>1. reader' = [pc |-> "run", view |-> [NoView EXCEPT !.pointed = p]]
    BY <1>5 DEF ReadPointer
  <2>2. p \in {"none", "RUNNING", "FAILED", "SUCCEEDED"} /\ (p # "none" => active # "none")
    BY <1>0 DEF Rows, LedgerRow
  <2> HIDE DEF p
  <2>3. /\ reader'.pc = "run" /\ reader'.view \in View
        /\ reader'.view.pointed = p /\ reader'.view.run = "none"
        /\ reader'.view.row.stage = "none"
    BY <2>1, <2>2 DEF NoView, NoRow, View, LedgerRow
  <2> QED
    BY <1>1, <1>2, <2>1, <2>2, <2>3, <1>5 DEF ReadPointer, RunStatusTypeOK, ReaderInv, writerVars
<1>6. CASE ReadRun
  <2> DEFINE st == IF NewestRun = "none" THEN "none" ELSE ledger[NewestRun].status
  <2>1. reader' = [pc |-> "stage", view |-> [view EXCEPT !.run = NewestRun, !.row.status = st]]
    BY <1>6 DEF ReadRun
  <2>2. st \in {"none", "RUNNING", "FAILED", "SUCCEEDED"}
    BY <1>0, <1>4 DEF Rows, LedgerRow
  <2> HIDE DEF st
  <2>3. /\ reader'.pc = "stage" /\ reader'.view \in View
        /\ reader'.view.pointed = view.pointed /\ reader'.view.run = NewestRun
        /\ reader'.view.row.stage = view.row.stage
    BY <1>0, <1>4, <2>1, <2>2 DEF View, LedgerRow
  <2>4. view.row.stage = "none"
    BY <1>6 DEF ReadRun, ReaderInv
  <2> QED
    BY <1>1, <1>2, <1>4, <2>1, <2>3, <2>4, <1>6
    DEF ReadRun, RunStatusTypeOK, ReaderInv, writerVars
<1>7. CASE ReadStage
  <2>1. reader' = [pc |-> "count", view |->
                    [view EXCEPT !.row.stage = Read.stage, !.row.material = Read.material]]
    BY <1>7 DEF ReadStage
  <2>2. /\ reader'.pc = "count" /\ reader'.view \in View
        /\ reader'.view.pointed = view.pointed /\ reader'.view.run = view.run
        /\ reader'.view.row.stage = Read.stage /\ reader'.view.row.material = Read.material
    BY <1>0, <1>3, <2>1 DEF View, LedgerRow
  <2>3. Read.stage = "SUCCESS" =>
          /\ view.run # "none" /\ Backed(view.run)
          /\ Read.material => ledger[view.run].decisions
    BY <1>0 DEF Read, NoRow, View, Rows, LedgerInv, Backed
  <2>4. ReaderInv'
    BY <1>1, <2>2, <2>3 DEF ReaderInv, Backed, writerVars
  <2> QED
    BY <1>1, <1>2, <2>1, <2>2, <2>4, <1>7 DEF ReadStage, RunStatusTypeOK, writerVars
<1>8. CASE ReadCount
  <2>1. reader' = [pc |-> "derive", view |-> [view EXCEPT !.row.decisions = Read.decisions]]
    BY <1>8 DEF ReadCount
  <2>2. /\ reader'.pc = "derive" /\ reader'.view \in View
        /\ reader'.view.pointed = view.pointed /\ reader'.view.run = view.run
        /\ reader'.view.row.stage = view.row.stage
        /\ reader'.view.row.material = view.row.material
        /\ reader'.view.row.decisions = Read.decisions
    BY <1>0, <1>3, <2>1 DEF View, LedgerRow
  <2>3. ReaderInv'
    BY <1>1, <1>8, <2>2 DEF ReadCount, Read, ReaderInv, Backed, writerVars
  <2> QED
    BY <1>1, <1>2, <2>1, <2>2, <2>3, <1>8 DEF ReadCount, RunStatusTypeOK, writerVars
<1>9. CASE Answer
  <2>1. reader' = [pc |-> "idle", view |-> NoView]
    BY <1>9 DEF Answer
  <2>2. answer' \in Answers
    <3>1. [view EXCEPT !.row.idle = Read.idle] \in View
      BY <1>0, <1>3 DEF View, LedgerRow
    <3> QED
      BY <1>9, <3>1, DerivedTypes DEF Answer
  <2>3. /\ reader'.pc = "idle" /\ reader'.view \in View
        /\ reader'.view.pointed = "none" /\ reader'.view.run = "none"
        /\ reader'.view.row.stage = "none"
    BY <1>0, <2>1 DEF NoView, NoRow
  <2> QED
    BY <1>1, <1>2, <2>1, <2>2, <2>3 DEF RunStatusTypeOK, ReaderInv, writerVars
<1> QED
  BY <1>5, <1>6, <1>7, <1>8, <1>9 DEF ReaderStep

LEMMA StatusInitInv == RunStatusInit => StatusInv
<1> SUFFICES ASSUME RunStatusInit
             PROVE  StatusInv
  OBVIOUS
<1>1. /\ NoRow \in LedgerRow /\ NoView \in View /\ NoView.pointed = "none"
      /\ NoView.run = "none" /\ NoView.row.stage = "none"
      /\ NoRow.stage = "none" /\ NoRow.status = "none"
  BY DEF NoRow, NoView, LedgerRow, View
<1>2. /\ PublishedRow \in LedgerRow /\ PublishedRow.decisions
  BY DEF PublishedRow, NoRow, LedgerRow
<1>3. /\ ledger \in [Rows -> LedgerRow] /\ ledger["this"] = NoRow
      /\ ledger["older"] \in {NoRow, PublishedRow}
  BY <1>1, <1>2 DEF RunStatusInit, Rows
<1>4. analyst \in AnalystRows /\ analyst.pc = "idle" /\ analyst.beats = 0
  <2>1. 0 \in 0..LlmBatches
    BY RunStatusAssumption
  <2> QED
    BY <2>1 DEF RunStatusInit, AnalystRows, AnalystPc
<1>5. /\ reader \in [pc : {"idle", "run", "stage", "count", "derive"}, view : View]
      /\ reader.pc = "idle" /\ reader.view = NoView
  BY <1>1 DEF RunStatusInit
<1>6. answer \in Answers
  BY <1>1, DerivedTypes DEF RunStatusInit
<1>7. RunStatusTypeOK
  BY <1>3, <1>4, <1>5, <1>6 DEF RunStatusInit, RunStatusTypeOK, AnalystRows, Rows
<1>8. LedgerInv
  BY <1>1, <1>2, <1>3 DEF LedgerInv, Backed, Rows
<1>9. ReaderInv /\ AnalystInv
  BY <1>1, <1>4, <1>5 DEF RunStatusInit, ReaderInv, AnalystInv
<1> QED
  BY <1>7, <1>8, <1>9 DEF StatusInv

LEMMA StatusStepInv == StatusInv /\ [RunStatusNext]_statusVars => StatusInv'
<1> SUFFICES ASSUME StatusInv, [RunStatusNext]_statusVars
             PROVE  StatusInv'
  OBVIOUS
<1>1. CASE UNCHANGED statusVars
  BY <1>1 DEF statusVars, StatusInv, RunStatusTypeOK, LedgerInv, ReaderInv, AnalystInv, Backed
<1> QED
  BY <1>1, PosterKeeps, AnalystKeeps, ReaderKeeps DEF RunStatusNext

\* The inductive invariant of one refresh and its readers, for any number of batches:
\* with the types, an analysis that succeeded is backed by decisions, and what the
\* reader has seen is still so.
THEOREM StatusInvariant == RunStatusSpec => []StatusInv
<1> QED
  BY StatusInitInv, StatusStepInv, PTL DEF RunStatusSpec

\* GET /api/cache-status never reports missing decisions of an analysis that succeeded,
\* however its four reads interleave with the request and the worker.
THEOREM AlarmsAreTrue == RunStatusSpec => []NoFalseAlarm
<1>1. StatusInv => NoFalseAlarm
  <2> SUFFICES ASSUME StatusInv, reader.pc = "derive"
               PROVE  ~AboutToSay.missing
    BY DEF NoFalseAlarm
  <2> DEFINE seen == reader.view.row
  <2>1. seen.stage = "SUCCESS" => seen.decisions \/ ~seen.material
    BY DEF StatusInv, ReaderInv
  <2>2. LlmStatus(reader.view) = "READY" => seen.stage = "SUCCESS"
    BY DEF LlmStatus
  <2>3. AboutToSay.missing <=>
          LlmStatus(reader.view) = "READY" /\ ~seen.decisions /\ seen.material
    BY DEF AboutToSay, Derived
  <2> QED
    BY <2>1, <2>2, <2>3
<1> QED
  BY <1>1, StatusInvariant, PTL

\* When it answers READY a snapshot is published, and the newest run has decisions or
\* nothing to decide.
THEOREM ReadyIsTrue == RunStatusSpec => []ReadyIsBacked
<1>1. StatusInv => ReadyIsBacked
  <2> SUFFICES ASSUME StatusInv, reader.pc = "derive", AboutToSay.pipeline = "READY"
               PROVE  active # "none" /\ Backed(reader.view.run)
    BY DEF ReadyIsBacked, Backed
  <2> DEFINE v == reader.view
             missing == LlmStatus(v) = "READY" /\ ~v.row.decisions /\ v.row.material
             late == LlmStatus(v) = "RUNNING" /\ v.row.idle
  <2>1. AboutToSay.pipeline = IF missing \/ late THEN "FAILED"
                              ELSE derivePipelineStatus(SnapshotStatus(v), LlmStatus(v))
    BY DEF AboutToSay, Derived
  <2>2. derivePipelineStatus(SnapshotStatus(v), LlmStatus(v)) = "READY"
    BY <2>1
  <2>3. SnapshotStatus(v) = "READY" /\ LlmStatus(v) = "READY"
    BY <2>2 DEF derivePipelineStatus
  <2>4. v.pointed # "none"
    BY <2>3 DEF SnapshotStatus
  <2>5. v.row.stage = "SUCCESS"
    BY <2>3 DEF LlmStatus
  <2> QED
    BY <2>4, <2>5 DEF StatusInv, ReaderInv
<1> QED
  BY <1>1, StatusInvariant, PTL

-----------------------------------------------------------------------------
(* Dashboard: the page over RunStatus *)

PageRows == [run : {"idle", "running", "complete", "failed"}, live : BOOLEAN,
             post : {"no", "sent", "answered"}, timer : BOOLEAN,
             load : {"no", "state", "summary", "job"}, seen : JobSeen]

LEMMA ClosedRows ==
  ASSUME NEW p \in PageRows, NEW s \in Answers
  PROVE  Closed(p, s) \in PageRows
BY DEF Closed, PageRows

\* What a poll, a message, a timer or an answer makes of the page is a page.
LEMMA PageMoves ==
  ASSUME page \in PageRows, llmJob.status \in JobSeen
  PROVE  /\ Finalized(page) \in PageRows
         /\ [Hydrated(page) EXCEPT !.load = "no", !.seen = "none"] \in PageRows
         /\ [page EXCEPT !.timer = FALSE, !.run = "complete"] \in PageRows
         /\ [page EXCEPT !.live = FALSE, !.run = "failed"] \in PageRows
         /\ \A r \in {"running", "failed"} : [page EXCEPT !.run = r] \in PageRows
         /\ \A l \in {"no", "state", "summary", "job"} : [page EXCEPT !.load = l] \in PageRows
         /\ [page EXCEPT !.seen = llmJob.status] \in PageRows
<1>1. Finalized(page) \in PageRows
  BY DEF Finalized, PageRows
<1>2. Hydrated(page) \in PageRows
  <2>1. CASE page.seen \in {"pending", "running"}
    <3>1. CASE llmJob.aged
      BY <2>1, <3>1 DEF Hydrated, PageRows
    <3>2. CASE ~llmJob.aged
      BY <2>1, <3>2 DEF Hydrated, PageRows
    <3> QED
      BY <3>1, <3>2
  <2>2. CASE page.seen \in {"complete", "failed"}
    <3>1. Hydrated(page) = [page EXCEPT !.run = page.seen]
      BY <2>2 DEF Hydrated
    <3> QED
      BY <2>2, <3>1 DEF PageRows
  <2>3. CASE page.seen \in {"none", "absent"}
    <3>1. Hydrated(page) = page
      BY <2>3 DEF Hydrated
    <3> QED
      BY <3>1
  <2> QED
    BY <2>1, <2>2, <2>3 DEF PageRows, JobSeen
<1>3. [Hydrated(page) EXCEPT !.load = "no", !.seen = "none"] \in PageRows
  <2> DEFINE h == Hydrated(page)
  <2> HIDE DEF h
  <2>1. h \in PageRows => [h EXCEPT !.load = "no", !.seen = "none"] \in PageRows
    BY DEF PageRows, JobSeen
  <2> QED
    BY <1>2, <2>1 DEF h
<1> QED
  BY <1>1, <1>3 DEF PageRows

\* The page only watches the refresh it has asked for: what it polls, hydrates, closes or
\* finalizes is its own idea of the run, and every step of it is a step of the request,
\* the worker or the status handler, or none of theirs.
THEOREM PageOnlyWatches == DashSpec => RunStatusSpec
<1>1. DashInit => RunStatusInit
  BY DEF DashInit
<1>2. [DashNext]_dashVars => [RunStatusNext]_statusVars
  <2>1. UNCHANGED dashVars => UNCHANGED statusVars
    BY DEF dashVars
  <2>2. Click \/ StreamMessage \/ PollDashboard \/ FetchSummary => UNCHANGED statusVars
    BY DEF Click, StreamMessage, PollDashboard, FetchSummary
  <2>3. PageStep => UNCHANGED statusVars \/ ReaderStep
    BY DEF PageStep, PostAnswered, TimerFires, PollJob, StatusRead, ReadLatestJob, ApplyState
  <2>4. Writers \/ ReaderStep => RunStatusNext
    BY DEF Writers, RunStatusNext
  <2> QED
    BY <2>1, <2>2, <2>3, <2>4 DEF DashNext
<1> QED
  BY <1>1, <1>2, PTL DEF DashSpec, RunStatusSpec

\* What the page shows and believes keeps within its types, whatever answer overtakes
\* which.
THEOREM DashTypes == DashSpec => []DashTypeOK
<1> DEFINE PageTypes == page \in PageRows /\ shown \in Answers
<1>1. StatusInv /\ DashInit => PageTypes
  <2> SUFFICES ASSUME StatusInv, DashInit
               PROVE  PageTypes
    OBVIOUS
  <2> DEFINE v == [run |-> active, row |-> ledger["older"],
                   pointed |-> IF active = "none" THEN "none" ELSE "SUCCEEDED"]
  <2>1. v \in View
    <3>1. ledger["older"] \in LedgerRow /\ active \in {"none", "older", "this"}
      BY DEF StatusInv, RunStatusTypeOK
    <3> QED
      BY <3>1 DEF View
  <2>2. shown = Derived(v)
    BY DEF DashInit
  <2>3. shown \in Answers
    BY <2>1, <2>2, DerivedTypes
  <2> QED
    BY <2>3 DEF DashInit, PageRows, JobSeen
<1>2. StatusInv /\ StatusInv' /\ PageTypes /\ [DashNext]_dashVars => PageTypes'
  <2> SUFFICES ASSUME StatusInv, StatusInv', PageTypes, [DashNext]_dashVars
               PROVE  PageTypes'
    OBVIOUS
  <2>1. answer \in Answers /\ answer' \in Answers /\ llmJob.status \in JobSeen
    BY DEF StatusInv, RunStatusTypeOK, JobSeen
  <2>2. ASSUME NEW p \in PageRows, Page(p)
        PROVE  PageTypes'
    BY <2>2, ClosedRows DEF Page
  <2>3. CASE Click
    BY <2>2, <2>3 DEF Click, PageRows
  <2>4. CASE StreamMessage
    BY <2>1, <2>2, <2>4, PageMoves DEF StreamMessage
  <2>5. CASE PollDashboard \/ FetchSummary
    BY <2>1, <2>5, PageMoves DEF PollDashboard, FetchSummary
  <2>6. CASE Writers \/ UNCHANGED dashVars
    BY <2>6 DEF Writers, dashVars
  <2>7. CASE PostAnswered
    BY <2>2, <2>7 DEF PostAnswered, PageRows
  <2>8. CASE TimerFires
    BY <2>1, <2>2, <2>8, PageMoves DEF TimerFires
  <2>9. CASE PollJob
    BY <2>1, <2>2, <2>9, PageMoves DEF PollJob
  <2>10. CASE StatusRead
    <3>1. Closed([page EXCEPT !.load = "no"], answer') \in PageRows
      BY <2>1, PageMoves, ClosedRows
    <3>2. [page EXCEPT !.load = "job"] \in PageRows
      BY <2>1, PageMoves
    <3> QED
      BY <2>1, <2>10, <3>1, <3>2 DEF StatusRead
  <2>11. CASE ReadLatestJob
    BY <2>1, <2>11, PageMoves DEF ReadLatestJob
  <2>12. CASE ApplyState
    <3> DEFINE h == [Hydrated(page) EXCEPT !.load = "no", !.seen = "none"]
    <3>1. h \in PageRows
      BY <2>1, PageMoves
    <3> HIDE DEF h
    <3>2. Closed(h, answer) \in PageRows
      BY <2>1, <3>1, ClosedRows
    <3> QED
      BY <2>1, <2>12, <3>2 DEF ApplyState, h
  <2> QED
    BY <2>3, <2>4, <2>5, <2>6, <2>7, <2>8, <2>9, <2>10, <2>11, <2>12 DEF DashNext, PageStep
<1>3. StatusInv /\ PageTypes => DashTypeOK
  BY DEF StatusInv, DashTypeOK, PageRows
<1>4. DashSpec => []StatusInv
  BY PageOnlyWatches, StatusInvariant, PTL
<1> HIDE DEF PageTypes
<1> QED
  BY <1>1, <1>2, <1>3, <1>4, PTL DEF DashSpec

\* Whatever the page polls and however its requests overtake each other, it is never told
\* that decisions are missing, nor READY without a published snapshot and decisions.
THEOREM PageIsToldTheTruth == DashSpec => [](NoFalseAlarm /\ ReadyIsBacked)
BY PageOnlyWatches, AlarmsAreTrue, ReadyIsTrue, PTL

-----------------------------------------------------------------------------
(* GovernanceStream: any rows, limit and window *)

\* A set of bounded numbers has a greatest one.
LEMMA GreatestExists ==
  ASSUME NEW n \in Nat, NEW S \in SUBSET (0..n), S # {}
  PROVE  \E m \in S : \A x \in S : x <= m
<1> DEFINE T == {n - x : x \in S}
           Less == {ss \in Nat \X Nat : ss[1] < ss[2]}
<1>1. IsWellFoundedOn(Less, Nat)
  BY NatLessThanWellFounded DEF OpToRel
<1>2. T \subseteq Nat /\ T # {}
  <2>1. T \subseteq Nat
    <3>1. \A x \in S : n - x \in Nat
      OBVIOUS
    <3> QED
      BY <3>1
  <2>2. PICK x \in S : TRUE
    OBVIOUS
  <2>3. n - x \in T
    BY <2>2
  <2> QED
    BY <2>1, <2>3
<1>3. PICK y \in T : \A z \in T : ~(<<z, y>> \in Less)
  BY <1>1, <1>2, WFMin
<1>4. PICK m \in S : y = n - m
  OBVIOUS
<1>5. ASSUME NEW x \in S
      PROVE  x <= m
  <2>1. n - x \in T /\ n - x \in Nat /\ y \in Nat
    BY <1>2
  <2>2. ~(n - x < y)
    BY <1>3, <2>1
  <2> QED
    BY <1>4, <2>1, <2>2
<1> QED
  BY <1>5

\* What a connection has sent is not ahead of its cursor.
StreamInv ==
  /\ StreamTypeOK
  /\ \A r \in stream.sent : row[r].state = "visible" /\ Milliseconds(row[r].at) <= stream.cursor

RowTimes == [state : {"absent", "open", "visible"}, at : Moments]
Streams == [next : Sources \cup {"closed", "blocked"}, cursor : Moments, sent : SUBSET StreamRows]

LEMMA MillisecondsBound == \A t \in Moments : Milliseconds(t) \in Moments /\ Milliseconds(t) <= t
<1> SUFFICES ASSUME NEW t \in Moments
             PROVE  Milliseconds(t) \in Moments /\ Milliseconds(t) <= t
  OBVIOUS
<1>1. t \in Nat /\ t <= LastMoment /\ LastMoment \in Nat
  BY StreamAssumption DEF Moments
<1>2. t % 2 \in 0..1 /\ t % 2 <= t
  BY <1>1
<1> QED
  BY <1>1, <1>2 DEF Milliseconds, Moments

\* The cursor after a query is at or past all its rows, and never goes back.
LEMMA AdvancedIsLast ==
  ASSUME NEW cursor \in Moments, NEW answered \in SUBSET StreamRows,
         \A r \in answered : row[r].at \in Moments
  PROVE  /\ Advanced(cursor, answered) \in Moments
         /\ Advanced(cursor, answered) >= cursor
         /\ \A r \in answered : Advanced(cursor, answered) >= Milliseconds(row[r].at)
         /\ \/ Advanced(cursor, answered) = cursor
            \/ \E r \in answered : Advanced(cursor, answered) = Milliseconds(row[r].at)
<1> DEFINE S == {cursor} \cup {Milliseconds(row[r].at) : r \in answered}
<1>1. S \in SUBSET (0..LastMoment) /\ S # {} /\ LastMoment \in Nat
  BY MillisecondsBound, StreamAssumption DEF Moments
<1>2. PICK m \in S : \A x \in S : x <= m
  BY <1>1, GreatestExists
<1>3. \E t \in S : t >= cursor /\ \A r \in answered : t >= Milliseconds(row[r].at)
  <2>1. m >= cursor /\ \A r \in answered : m >= Milliseconds(row[r].at)
    BY <1>1, <1>2
  <2> QED
    BY <2>1
<1> QED
  BY <1>1, <1>3 DEF Advanced, Moments

LEMMA NewStreamFits == \A now \in Moments : NewStream(now) \in Streams /\ NewStream(now).sent = {}
<1> SUFFICES ASSUME NEW now \in Moments
             PROVE  NewStream(now) \in Streams /\ NewStream(now).sent = {}
  OBVIOUS
<1>1. (IF now < ResumeWindow THEN 0 ELSE now - ResumeWindow) \in Moments
  BY StreamAssumption DEF Moments
<1> QED
  BY <1>1 DEF NewStream, Streams, Sources

LEMMA StreamStepInv ==
  ASSUME StreamInv, [StreamNext]_streamVars
  PROVE  StreamInv'
<1>0. /\ moment \in Moments /\ row \in [StreamRows -> RowTimes] /\ stream \in Streams
      /\ received \subseteq StreamRows
  BY DEF StreamInv, StreamTypeOK, RowTimes, Streams
<1>1. CASE UNCHANGED streamVars
  BY <1>1 DEF streamVars, StreamInv, StreamTypeOK
<1>2. CASE TimeGoesOn
  <2>1. moment + 1 \in Moments
    BY <1>0, <1>2, StreamAssumption DEF TimeGoesOn, Moments
  <2> QED
    BY <1>2, <2>1 DEF TimeGoesOn, StreamInv, StreamTypeOK
<1>3. ASSUME NEW r \in StreamRows, WriteRow(r) \/ CommitRow(r)
      PROVE  StreamInv'
  <2>1. row' \in [StreamRows -> RowTimes]
    BY <1>0, <1>3 DEF WriteRow, CommitRow, RowTimes
  <2>2. r \notin stream.sent \/ (row'[r].state = "visible" /\ row'[r].at = row[r].at)
    BY <1>0, <1>3 DEF StreamInv, WriteRow, CommitRow, RowTimes
  <2>3. /\ UNCHANGED <<moment, stream, received>>
        /\ \A q \in StreamRows : q # r => row'[q] = row[q]
    BY <1>0, <1>3 DEF WriteRow, CommitRow
  <2>4. \A q \in stream.sent : q \in StreamRows
    BY <1>0 DEF Streams
  <2> QED
    BY <1>0, <2>1, <2>2, <2>3, <2>4 DEF StreamInv, StreamTypeOK, RowTimes
<1>4. ASSUME NEW s \in Sources, Query(s)
      PROVE  StreamInv'
  <2>1. PICK answered \in Batches(Newer(s)) :
          /\ stream' = [next |-> NextQuery(s), cursor |-> Advanced(stream.cursor, answered),
                        sent |-> stream.sent \cup answered]
          /\ received' = received \cup answered
    BY <1>4 DEF Query
  <2>2. answered \in SUBSET StreamRows /\ \A r \in answered : row[r].state = "visible"
    BY DEF Batches, Newer
  <2>3. /\ stream.cursor \in Moments /\ stream.sent \subseteq StreamRows
        /\ \A r \in StreamRows : row[r].at \in Moments
    BY <1>0 DEF Streams, RowTimes
  <2>4. /\ Advanced(stream.cursor, answered) \in Moments
        /\ Advanced(stream.cursor, answered) >= stream.cursor
        /\ \A r \in answered : Advanced(stream.cursor, answered) >= Milliseconds(row[r].at)
    BY <2>2, <2>3, AdvancedIsLast
  <2>5. NextQuery(s) \in Sources
    BY DEF NextQuery, Sources
  <2>6. stream' \in Streams
    BY <2>1, <2>2, <2>3, <2>4, <2>5 DEF Streams
  <2>7. UNCHANGED <<moment, row>>
    BY <1>4 DEF Query
  <2>8. \A r \in stream'.sent :
          row[r].state = "visible" /\ Milliseconds(row[r].at) <= stream'.cursor
    <3> SUFFICES ASSUME NEW r \in stream'.sent
                 PROVE  row[r].state = "visible" /\ Milliseconds(row[r].at) <= stream'.cursor
      OBVIOUS
    <3>1. stream'.cursor = Advanced(stream.cursor, answered) /\ r \in stream.sent \cup answered
      BY <2>1
    <3>2. Milliseconds(row[r].at) \in Nat /\ stream.cursor \in Nat /\ stream'.cursor \in Nat
      BY <2>2, <2>3, <2>4, <3>1, MillisecondsBound, StreamAssumption DEF Moments
    <3>3. CASE r \in stream.sent
      BY <2>4, <3>1, <3>2, <3>3 DEF StreamInv
    <3>4. CASE r \in answered
      BY <2>2, <2>4, <3>1, <3>2, <3>4
    <3> QED
      BY <3>1, <3>3, <3>4
  <2> QED
    BY <1>0, <2>1, <2>2, <2>6, <2>7, <2>8 DEF StreamInv, StreamTypeOK, RowTimes, Streams,
                                                   Milliseconds
<1>5. CASE Disconnect \/ StopTrying
  <2>1. stream' \in Streams /\ stream'.sent = stream.sent /\ stream'.cursor = stream.cursor
    BY <1>0, <1>5 DEF Disconnect, StopTrying, Streams, Sources
  <2>2. UNCHANGED <<moment, row, received>>
    BY <1>5 DEF Disconnect, StopTrying
  <2> QED
    BY <1>0, <2>1, <2>2 DEF StreamInv, StreamTypeOK, RowTimes, Streams, Milliseconds
<1>6. CASE Reconnect \/ Rerender
  <2>1. stream' \in Streams /\ stream'.sent = {}
    BY <1>0, <1>6, NewStreamFits DEF Reconnect, Rerender
  <2>2. UNCHANGED <<moment, row, received>>
    BY <1>6 DEF Reconnect, Rerender
  <2> QED
    BY <1>0, <2>1, <2>2 DEF StreamInv, StreamTypeOK, RowTimes, Streams
<1> QED
  BY <1>1, <1>2, <1>3, <1>4, <1>5, <1>6 DEF StreamNext

\* The inductive invariant of the stream, with its types.
THEOREM StreamInvariant == StreamSpec => []StreamInv
<1>1. StreamInit => StreamInv
  <2> SUFFICES ASSUME StreamInit
               PROVE  StreamInv
    OBVIOUS
  <2>1. ResumeWindow \in Moments /\ 0 \in Moments
    BY StreamAssumption DEF Moments
  <2>2. NewStream(moment) \in Streams /\ NewStream(moment).sent = {}
    BY <2>1, NewStreamFits DEF StreamInit
  <2>3. row \in [StreamRows -> RowTimes]
    BY <2>1 DEF StreamInit, RowTimes
  <2> QED
    BY <2>1, <2>2, <2>3 DEF StreamInit, StreamInv, StreamTypeOK, RowTimes, Streams
<1>2. StreamInv /\ [StreamNext]_streamVars => StreamInv'
  BY StreamStepInv
<1> QED
  BY <1>1, <1>2, PTL DEF StreamSpec

\* Whatever is committed late, tied or cut off by the limit, a connection never sends a
\* row for the first time that is older, to the millisecond, than one it has sent.
THEOREM StreamIsOrdered == StreamSpec => SentInOrder
<1>1. StreamInv /\ [StreamNext]_streamVars =>
        [\A r \in (stream'.sent \ stream.sent), q \in stream.sent :
           Milliseconds(row[q].at) <= row[r].at]_streamVars
  <2> SUFFICES ASSUME StreamInv, [StreamNext]_streamVars,
                      NEW r \in stream'.sent \ stream.sent, NEW q \in stream.sent
               PROVE  Milliseconds(row[q].at) <= row[r].at
    OBVIOUS
  <2>0. /\ row \in [StreamRows -> RowTimes] /\ stream \in Streams /\ moment \in Moments
    BY DEF StreamInv, StreamTypeOK, RowTimes, Streams
  <2>1. PICK s \in Sources : Query(s)
    <3>1. stream'.sent # stream.sent /\ stream'.sent # {}
      OBVIOUS
    <3>2. /\ ~(UNCHANGED streamVars) /\ ~TimeGoesOn
          /\ \A p \in StreamRows : ~WriteRow(p) /\ ~CommitRow(p)
      BY <3>1 DEF streamVars, TimeGoesOn, WriteRow, CommitRow
    <3>3. ~Disconnect /\ ~StopTrying
      BY <2>0, <3>1 DEF Disconnect, StopTrying, Streams
    <3>4. ~Reconnect /\ ~Rerender
      BY <2>0, <3>1, NewStreamFits DEF Reconnect, Rerender
    <3> QED
      BY <3>2, <3>3, <3>4 DEF StreamNext
  <2>2. PICK answered \in Batches(Newer(s)) : stream'.sent = stream.sent \cup answered
    BY <2>1 DEF Query
  <2>3. r \in Newer(s)
    BY <2>2 DEF Batches
  <2>4. r \in StreamRows /\ row[r].at > stream.cursor
    BY <2>3 DEF Newer
  <2>5. Milliseconds(row[q].at) <= stream.cursor
    BY DEF StreamInv
  <2>6. /\ q \in StreamRows /\ stream.cursor \in Moments
        /\ row[q].at \in Moments /\ row[r].at \in Moments
    BY <2>0, <2>4 DEF Streams, RowTimes
  <2>7. Milliseconds(row[q].at) \in Nat /\ stream.cursor \in Nat /\ row[r].at \in Nat
    BY <2>6, MillisecondsBound, StreamAssumption DEF Moments
  <2> QED
    BY <2>4, <2>5, <2>7
<1> QED
  BY <1>1, StreamInvariant, PTL DEF StreamSpec, SentInOrder

\* What it takes for no event to be missed.  One table only: the three queries share a
\* cursor.
OneTable == \A r, q \in StreamRows : SourceOf[r] = SourceOf[q]

\* No two transactions write at the same time: a tie may be cut by the limit.
TimesDiffer ==
  \A r, q \in StreamRows :
    row[r].state # "absent" /\ row[q].state # "absent" /\ row[r].at = row[q].at => r = q

\* A transaction commits before the cursor has passed the time it began at, and a
\* connection that is opened again begins before every row the page has no event for.
Punctual ==
  /\ \A r \in StreamRows : Connected /\ row[r].state = "open" /\ row'[r].state = "visible" =>
       row[r].at > stream.cursor
  /\ Reconnect \/ Rerender =>
       \A r \in StreamRows : row[r].state = "visible" /\ r \notin received =>
         row[r].at > stream'.cursor

\* A query that sends the oldest rows of the table leaves none of the others behind.
LEMMA QueryMissesNothing ==
  ASSUME OneTable, StreamInv, TimesDiffer, NoEventMissed, NEW s \in Sources, Query(s)
  PROVE  NoEventMissed'
<1>0. row \in [StreamRows -> RowTimes] /\ stream \in Streams
  BY DEF StreamInv, StreamTypeOK, RowTimes, Streams
<1>1. PICK answered \in Batches(Newer(s)) :
        /\ stream'.cursor = Advanced(stream.cursor, answered)
        /\ received' = received \cup answered
  BY DEF Query
<1>2. /\ UNCHANGED row /\ Connected
      /\ answered \in SUBSET Newer(s)
      /\ \A r \in answered, q \in Newer(s) \ answered : row[r].at <= row[q].at
  BY DEF Query, Batches, Connected
<1>3. /\ answered \in SUBSET StreamRows /\ stream.cursor \in Moments
      /\ \A r \in answered : row[r].at \in Moments
  BY <1>0, <1>2 DEF Newer, Streams, RowTimes
<1> SUFFICES ASSUME NEW r \in StreamRows, row[r].state = "visible", r \notin received,
                    r \notin answered
             PROVE  row[r].at > Advanced(stream.cursor, answered)
  BY <1>1, <1>2 DEF NoEventMissed
<1>4. row[r].at > stream.cursor
  BY <1>2 DEF NoEventMissed
<1>5. ASSUME NEW b \in answered
      PROVE  row[r].at > Milliseconds(row[b].at)
  <2>1. b \in Newer(s)
    BY <1>2, <1>5
  <2>2. r \in Newer(s)
    BY <1>4, <2>1 DEF Newer, OneTable
  <2>3. row[b].at <= row[r].at /\ row[b].at # row[r].at
    BY <1>2, <2>1, <2>2 DEF TimesDiffer, Newer
  <2>4. Milliseconds(row[b].at) \in Nat /\ row[b].at \in Nat /\ row[r].at \in Nat
        /\ Milliseconds(row[b].at) <= row[b].at
    BY <1>0, <1>3, MillisecondsBound, StreamAssumption DEF Moments, RowTimes
  <2> QED
    BY <2>3, <2>4
<1> QED
  BY <1>3, <1>4, <1>5, AdvancedIsLast

LEMMA StreamStepMissesNothing ==
  ASSUME OneTable, StreamInv, TimesDiffer, NoEventMissed,
         [StreamNext]_streamVars, [Punctual]_streamVars
  PROVE  NoEventMissed'
<1>0. row \in [StreamRows -> RowTimes] /\ stream \in Streams
  BY DEF StreamInv, StreamTypeOK, RowTimes, Streams
<1>1. CASE UNCHANGED <<row, stream, received>>
  BY <1>1 DEF NoEventMissed, Connected
<1>2. ASSUME NEW r \in StreamRows, WriteRow(r)
      PROVE  NoEventMissed'
  <2>1. \A q \in StreamRows : row'[q].state = "visible" => row'[q] = row[q]
    BY <1>0, <1>2 DEF WriteRow
  <2> QED
    BY <1>2, <2>1 DEF WriteRow, NoEventMissed, Connected
<1>3. ASSUME NEW r \in StreamRows, CommitRow(r)
      PROVE  NoEventMissed'
  <2>1. /\ row[r].state = "open" /\ row'[r].state = "visible" /\ row'[r].at = row[r].at
        /\ \A q \in StreamRows : q # r => row'[q] = row[q]
    BY <1>0, <1>3 DEF CommitRow, RowTimes
  <2>2. Connected => row[r].at > stream.cursor
    BY <2>1 DEF Punctual, streamVars
  <2> QED
    BY <1>3, <2>1, <2>2 DEF CommitRow, NoEventMissed, Connected
<1>4. ASSUME NEW s \in Sources, Query(s)
      PROVE  NoEventMissed'
  BY <1>4, QueryMissesNothing
<1>5. CASE Disconnect \/ StopTrying
  <2>1. stream'.next \in {"closed", "blocked"}
    BY <1>0, <1>5 DEF Disconnect, StopTrying, Streams
  <2> QED
    BY <2>1 DEF NoEventMissed, Connected, Sources
<1>6. CASE Reconnect \/ Rerender
  <2>1. UNCHANGED <<row, received>>
    BY <1>6 DEF Reconnect, Rerender
  <2>2. CASE UNCHANGED streamVars
    BY <1>1, <2>2 DEF streamVars
  <2>3. CASE Punctual
    BY <1>6, <2>1, <2>3 DEF Punctual, NoEventMissed
  <2> QED
    BY <2>2, <2>3
<1> QED
  BY <1>1, <1>2, <1>3, <1>4, <1>5, <1>6 DEF StreamNext, TimeGoesOn, streamVars

\* The claim of stream/route.ts:25, which GS_bug_missed refutes, and all that is wrong with
\* it: with one table instead of three, times that differ, commits that are not late and
\* reconnects within the window, a connected page misses no event, whatever the limit.
THEOREM PunctualTableIsComplete ==
  ASSUME OneTable
  PROVE  StreamSpec /\ []TimesDiffer /\ [][Punctual]_streamVars => []NoEventMissed
<1>1. StreamInit => NoEventMissed
  BY DEF StreamInit, NoEventMissed
<1>2. StreamInv /\ TimesDiffer /\ NoEventMissed /\ [StreamNext]_streamVars
        /\ [Punctual]_streamVars => NoEventMissed'
  BY StreamStepMissesNothing
<1> QED
  BY <1>1, <1>2, StreamInvariant, PTL DEF StreamSpec

-----------------------------------------------------------------------------
(* CircuitBreaker: any callers and window *)

\* The circuit keeps to its four states, its window to its bound, and a call to four
\* attempts.
THEOREM BreakerTypes == BreakerSpec => []BreakerTypeOK
<1>1. BreakerInit => BreakerTypeOK
  BY BreakerAssumption DEF BreakerInit, BreakerTypeOK
<1>2. BreakerTypeOK /\ [BreakerNext]_breakerVars => BreakerTypeOK'
  <2> SUFFICES ASSUME BreakerTypeOK, [BreakerNext]_breakerVars
               PROVE  BreakerTypeOK'
    OBVIOUS
  <2> USE DEF BreakerTypeOK
  <2>1. \A w, state : Judged(w, state) \in {state, "UNAVAILABLE", "DEGRADED", "HEALTHY"}
    BY DEF Judged
  <2>2. CASE UNCHANGED breakerVars
    BY <2>2 DEF breakerVars
  <2>3. ASSUME NEW c \in Callers, Execute(c)
        PROVE  BreakerTypeOK'
    BY <2>3 DEF Execute, Attempting, maxRetries
  <2>4. ASSUME NEW c \in Callers, Succeeds(c)
        PROVE  BreakerTypeOK'
    <3>1. circuit' = Judged(recent', circuit)
      BY <2>4 DEF Succeeds
    <3>2. circuit' \in {circuit, "UNAVAILABLE", "DEGRADED", "HEALTHY"}
      BY <2>1, <3>1
    <3>3. recent' \in Seq(BOOLEAN) /\ Len(recent') <= MaxWindow
      BY <2>4, BreakerAssumption DEF Succeeds
    <3> QED
      BY <2>4, <3>2, <3>3 DEF Succeeds
  <2>5. ASSUME NEW c \in Callers, NEW timeout \in BOOLEAN, Fails(c, timeout)
        PROVE  BreakerTypeOK'
    <3> DEFINE before == IF timeout /\ circuit # "UNAVAILABLE" THEN "TIMEOUT" ELSE circuit
    <3>1. circuit' = Judged(recent', before)
      BY <2>5 DEF Fails
    <3>2. circuit' \in {before, "UNAVAILABLE", "DEGRADED", "HEALTHY"}
      BY <2>1, <3>1
    <3>3. recent' \in Seq(BOOLEAN) /\ Len(recent') <= MaxWindow
      BY <2>5, BreakerAssumption DEF Fails
    <3>4. attempt' \in [Callers -> {0} \cup Attempting]
      BY <2>5 DEF Fails, Attempting, maxRetries
    <3> QED
      BY <3>2, <3>3, <3>4
  <2>6. CASE Prune
    BY <2>6, BreakerAssumption DEF Prune
  <2> QED
    BY <2>2, <2>3, <2>4, <2>5, <2>6 DEF BreakerNext
<1> QED
  BY <1>1, <1>2, PTL DEF BreakerSpec

\* A circuit that has opened, with no call left in it, is never tried again, whatever
\* the window and the number of callers.
THEOREM OpenCircuitIsFinal == BreakerSpec => OpenForGood
<1>1. ASSUME BreakerNext \/ UNCHANGED breakerVars, circuit = "UNAVAILABLE", NobodyTries
      PROVE  circuit' = "UNAVAILABLE" /\ NobodyTries'
  <2>1. ASSUME NEW c \in Callers
        PROVE  ~Execute(c) /\ ~Succeeds(c) /\ \A timeout \in BOOLEAN : ~Fails(c, timeout)
    <3>1. attempt[c] = 0 /\ ~(attempt[c] > 0)
      BY <1>1 DEF NobodyTries
    <3>2. ~Execute(c)
      BY <1>1 DEF Execute
    <3>3. ~Succeeds(c)
      BY <3>1 DEF Succeeds
    <3>4. \A timeout \in BOOLEAN : ~Fails(c, timeout)
      BY <3>1 DEF Fails
    <3> QED
      BY <3>2, <3>3, <3>4
  <2> QED
    BY <1>1, <2>1 DEF BreakerNext, Prune, breakerVars, NobodyTries
<1> QED
  BY <1>1, PTL DEF BreakerSpec, OpenForGood

-----------------------------------------------------------------------------
(* DriftRecovery: any indexes, gaps and volumes *)

\* Each loop marks all decisions of the snapshot alike.
THEOREM OneSeverity == DriftSpec => []SnapshotSharesSeverity
<1>1. DriftInit => SnapshotSharesSeverity
  BY DEF DriftInit, SnapshotSharesSeverity
<1>2. SnapshotSharesSeverity /\ [DriftNext]_driftVars => SnapshotSharesSeverity'
  BY DEF SnapshotSharesSeverity, DriftNext, driftVars, TakeSnapshot, EvaluateNew, SkipDecision,
     Recover, Evaluate, Marked
<1> QED
  BY <1>1, <1>2, PTL DEF DriftSpec

LEMMA ClassGrows ==
  ASSUME NEW v \in Nat, NEW w \in Nat, NEW util \in Nat,
         NEW aged \in BOOLEAN, NEW retention \in BOOLEAN,
         v <= w
  PROVE  Rank(Classify(v, util, aged, retention)) <= Rank(Classify(w, util, aged, retention))
BY DEF Rank, Classify

LEMMA PenaltyGrows ==
  ASSUME NEW v \in Nat, NEW w \in Nat, NEW s \in Severities, NEW t \in Severities,
         v <= w, Rank(s) <= Rank(t)
  PROVE  Penalty(v, s) <= Penalty(w, t)
BY DEF Rank, Penalty, Least, Most, Severities

LEMMA ClassTyped ==
  ASSUME NEW v \in Nat, NEW util \in Nat, NEW aged \in BOOLEAN, NEW retention \in BOOLEAN
  PROVE  Classify(v, util, aged, retention) \in Severities
BY DEF Classify, Severities

\* Of two decisions of one snapshot the one with the larger drift of volume never has the
\* lower class or the smaller penalty, whatever the volumes.
THEOREM DriftIsMonotonic == DriftSpec => []LargerDriftWeighsMore
<1>1. LargerDriftWeighsMore
  <2> SUFFICES ASSUME NEW v \in Volumes, NEW w \in Volumes, NEW util \in Volumes,
                      NEW retention \in BOOLEAN, v <= w
               PROVE  LET s == Classify(v, util, age > 7, retention)
                          t == Classify(w, util, age > 7, retention)
                      IN  Rank(s) <= Rank(t) /\ Penalty(v, s) <= Penalty(w, t)
    BY DEF LargerDriftWeighsMore
  <2>1. v \in Nat /\ w \in Nat /\ util \in Nat
    BY DriftAssumption
  <2> DEFINE aged == age > 7
  <2>2. aged \in BOOLEAN
    OBVIOUS
  <2> HIDE DEF aged
  <2>3. Rank(Classify(v, util, aged, retention)) <= Rank(Classify(w, util, aged, retention))
    BY <2>1, <2>2, ClassGrows
  <2>4. Penalty(v, Classify(v, util, aged, retention))
          <= Penalty(w, Classify(w, util, aged, retention))
    BY <2>1, <2>2, <2>3, ClassTyped, PenaltyGrows
  <2> QED
    BY <2>3, <2>4 DEF aged
<1> QED
  BY <1>1, PTL

RunRows ==
  [state : {"present"}, clean : Nat, lastClean : 0..LastDay, driftFree : 0..LastDay,
   penalized : 0..100, recovered : 0..100, reached : SUBSET Thresholds, drifts : Nat,
   cooldown : Nat]
MarkRows == {NoMark} \cup [severity : Severities, adjusted : 0..100]

\* A run begins with its snapshot, and no day has passed for it since.
FreshRun(run) ==
  run.lastClean = today /\ run.driftFree = 0 /\ run.reached = {} /\ run.recovered = Original

DriftInv ==
  /\ DriftTypeOK
  /\ \A i \in Indexes : stability[i] # NoRun => FreshRun(stability[i])

LEMMA PenaltyTyped == ASSUME NEW v \in Nat, NEW s \in Severities PROVE Penalty(v, s) \in 0..1000
BY DEF Penalty, Least, Most, Severities

LEMMA PenalizedTyped == ASSUME NEW p \in 0..1000 PROVE Penalized(p) \in 0..100
<1>1. Original \in Nat /\ Original <= 100
  BY DriftAssumption
<1> DEFINE k == Original * (1000 - p)
<1>2. k \in Nat /\ k <= 100000
  <2>1. 1000 - p \in Nat /\ 1000 - p <= 1000
    OBVIOUS
  <2>2. \A a, b \in Nat : a <= 100 /\ b <= 1000 => a * b \in Nat /\ a * b <= 100000
    OBVIOUS
  <2> QED
    BY <1>1, <2>1, <2>2
<1> HIDE DEF k
<1>3. k \div 1000 \in 0..100
  BY <1>2
<1> QED
  BY <1>3 DEF Penalized, k

LEMMA FreshRunOf ==
  ASSUME DriftInv, NEW i \in Indexes
  PROVE  RunOf(i) \in RunRows /\ FreshRun(RunOf(i))
<1>1. CASE stability[i] # NoRun
  BY <1>1 DEF RunOf, DriftInv, DriftTypeOK, RunRows
<1>2. CASE stability[i] = NoRun
  <2>1. RunOf(i) = [state |-> "present", clean |-> 0, lastClean |-> today, driftFree |-> 0,
                    penalized |-> Original, recovered |-> Original, reached |-> {}, drifts |-> 0,
                    cooldown |-> 0]
    BY <1>2 DEF RunOf
  <2>2. today \in 0..LastDay /\ 0 \in 0..LastDay /\ Original \in 0..100
    BY DriftAssumption DEF DriftInv, DriftTypeOK
  <2> QED
    BY <2>1, <2>2 DEF RunRows, FreshRun
<1> QED
  BY <1>1, <1>2

\* What the two services write is again a run that is as old as the snapshot.
LEMMA CleanStaysFresh ==
  ASSUME NEW run \in RunRows, FreshRun(run), today \in 0..LastDay
  PROVE  RecordClean(run) \in RunRows /\ FreshRun(RecordClean(run))
<1> DEFINE days == today - run.lastClean
           cooled == run.drifts = 0 \/ today > run.cooldown
           now == {t \in Thresholds : cooled /\ days >= t /\ days > run.driftFree}
<1>1. days = 0
  BY DriftAssumption DEF FreshRun
<1>2. now = {}
  BY <1>1 DEF Thresholds
<1>3. RecordClean(run) =
        [run EXCEPT !.clean = run.clean + 1, !.lastClean = today, !.driftFree = 0,
                    !.reached = run.reached \cup {}, !.recovered = run.recovered]
  BY <1>1, <1>2 DEF RecordClean
<1>4. run.reached = {} /\ run.recovered = Original /\ run.clean + 1 \in Nat /\ 0 \in 0..LastDay
      /\ Original \in 0..100
  BY DriftAssumption DEF FreshRun, RunRows
<1>5. RecordClean(run) \in RunRows
  <2> DEFINE k == run.clean + 1
             s == run.reached \cup {}
             q == run.recovered
  <2>1. k \in Nat /\ s \in SUBSET Thresholds /\ q \in 0..100 /\ 0 \in 0..LastDay
    BY <1>4 DEF RunRows
  <2>2. RecordClean(run) =
          [run EXCEPT !.clean = k, !.lastClean = today, !.driftFree = 0, !.reached = s,
                      !.recovered = q]
    BY <1>3
  <2> HIDE DEF k, s, q
  <2> QED
    BY <2>1, <2>2 DEF RunRows
<1>6. FreshRun(RecordClean(run))
  BY <1>3, <1>4 DEF RunRows, FreshRun
<1> QED
  BY <1>5, <1>6

LEMMA DriftStaysFresh ==
  ASSUME NEW run \in RunRows, FreshRun(run), today \in 0..LastDay, NEW p \in 0..1000
  PROVE  RecordDrift(run, p) \in RunRows /\ FreshRun(RecordDrift(run, p))
<1>1. Penalized(p) \in 0..100
  BY PenalizedTyped
<1>2. run.drifts + 1 \in Nat /\ today + 7 * (run.drifts + 1) \in Nat
  BY DriftAssumption DEF RunRows
<1> DEFINE q == Penalized(p)
           n == run.drifts + 1
           c == today + 7 * (run.drifts + 1)
           z == 0
<1>3. RecordDrift(run, p) = [run EXCEPT !.clean = z, !.penalized = q, !.drifts = n, !.cooldown = c]
  BY DEF RecordDrift
<1> HIDE DEF q, n, c, z
<1>4. q \in 0..100 /\ n \in Nat /\ c \in Nat /\ z \in Nat
  BY <1>1, <1>2 DEF q, n, c, z
<1>5. RecordDrift(run, p) \in RunRows
  <2>1. [run EXCEPT !.clean = z, !.penalized = q, !.drifts = n, !.cooldown = c] \in RunRows
    BY <1>4 DEF RunRows
  <2> QED
    BY <1>3, <2>1, Zenon
<1>6. FreshRun(RecordDrift(run, p))
  BY <1>3 DEF RunRows, FreshRun
<1> QED
  BY <1>5, <1>6

LEMMA DriftStepInv ==
  ASSUME DriftInv, [DriftNext]_driftVars
  PROVE  DriftInv'
<1>0. /\ today \in 0..LastDay /\ age \in {0} \cup Gaps /\ LastDay \in Nat
      /\ mark \in [Indexes -> MarkRows] /\ stability \in [Indexes -> {NoRun} \cup RunRows]
      /\ todo \subseteq Indexes /\ clean \subseteq Indexes
  BY DriftAssumption DEF DriftInv, DriftTypeOK, MarkRows, RunRows
<1>1. CASE UNCHANGED driftVars
  BY <1>1 DEF driftVars, DriftInv, DriftTypeOK, FreshRun
<1>2. ASSUME NEW gap \in Gaps, TakeSnapshot(gap)
      PROVE  DriftInv'
  <2>1. today + gap \in 0..LastDay
    BY <1>0, <1>2, DriftAssumption DEF TakeSnapshot
  <2>2. /\ mark' \in [Indexes -> MarkRows] /\ stability' \in [Indexes -> {NoRun} \cup RunRows]
        /\ \A i \in Indexes : stability'[i] = NoRun
    BY <1>2 DEF TakeSnapshot, MarkRows
  <2> QED
    BY <1>0, <1>2, <2>1, <2>2 DEF TakeSnapshot, DriftInv, DriftTypeOK, MarkRows, RunRows
<1>3. ASSUME NEW i \in Indexes, EvaluateNew(i) \/ SkipDecision(i)
      PROVE  DriftInv'
  BY <1>0, <1>3 DEF EvaluateNew, SkipDecision, DriftInv, DriftTypeOK, FreshRun
<1>4. ASSUME NEW i \in Indexes, NEW run \in RunRows, FreshRun(run), UNCHANGED today,
             stability' = [stability EXCEPT ![i] = run]
      PROVE  /\ stability' \in [Indexes -> {NoRun} \cup RunRows]
             /\ \A j \in Indexes : stability'[j] # NoRun => FreshRun(stability[j])'
  <2>1. \A j \in Indexes : stability'[j] = IF j = i THEN run ELSE stability[j]
    BY <1>0, <1>4
  <2> QED
    BY <1>0, <1>4, <2>1 DEF DriftInv, FreshRun
<1>5. ASSUME NEW i \in Indexes, Recover(i)
      PROVE  DriftInv'
  <2>1. RecordClean(RunOf(i)) \in RunRows /\ FreshRun(RecordClean(RunOf(i)))
    BY <1>0, FreshRunOf, CleanStaysFresh
  <2>2. /\ stability' \in [Indexes -> {NoRun} \cup RunRows]
        /\ \A j \in Indexes : stability'[j] # NoRun => FreshRun(stability[j])'
    BY <1>4, <1>5, <2>1 DEF Recover
  <2> QED
    BY <1>0, <1>5, <2>2 DEF Recover, DriftInv, DriftTypeOK, MarkRows, RunRows
<1>6. ASSUME NEW i \in Indexes, NEW vol \in Volumes, NEW util \in Volumes,
             NEW retention \in BOOLEAN, NEW spike \in BOOLEAN,
             Evaluate(i, vol, util, retention, spike)
      PROVE  DriftInv'
  <2> DEFINE aged == age > 7
             s == Classify(vol, util, aged, retention)
             p == Penalty(vol, s)
  <2>1. s \in Severities /\ p \in 0..1000
    <3>1. vol \in Nat /\ util \in Nat /\ aged \in BOOLEAN
      BY DriftAssumption
    <3> HIDE DEF aged
    <3>2. s \in Severities
      BY <3>1, ClassTyped
    <3> HIDE DEF s
    <3> QED
      BY <3>1, <3>2, PenaltyTyped
  <2>2. /\ mark' = Marked(i, [severity |-> s, adjusted |-> Penalized(p)])
        /\ \/ UNCHANGED stability
           \/ stability' = [stability EXCEPT ![i] = RecordDrift(RunOf(i), p)]
        /\ clean' \subseteq Indexes /\ todo' \subseteq Indexes /\ UNCHANGED <<today, age>>
    BY <1>0, <1>6 DEF Evaluate
  <2> HIDE DEF s, p
  <2>3. mark' \in [Indexes -> MarkRows]
    <3>1. Penalized(p) \in 0..100
      BY <2>1, PenalizedTyped
    <3> QED
      BY <2>1, <2>2, <3>1 DEF Marked, MarkRows
  <2>4. /\ stability' \in [Indexes -> {NoRun} \cup RunRows]
        /\ \A j \in Indexes : stability'[j] # NoRun => FreshRun(stability[j])'
    <3>1. RecordDrift(RunOf(i), p) \in RunRows /\ FreshRun(RecordDrift(RunOf(i), p))
      BY <1>0, <2>1, FreshRunOf, DriftStaysFresh
    <3>2. CASE UNCHANGED stability
      BY <1>0, <2>2, <3>2 DEF DriftInv, FreshRun
    <3>3. CASE stability' = [stability EXCEPT ![i] = RecordDrift(RunOf(i), p)]
      BY <1>4, <2>2, <3>1, <3>3
    <3> QED
      BY <2>2, <3>2, <3>3
  <2> QED
    BY <1>0, <2>2, <2>3, <2>4 DEF DriftInv, DriftTypeOK, MarkRows, RunRows
<1> QED
  BY <1>1, <1>2, <1>3, <1>5, <1>6 DEF DriftNext

\* The inductive invariant of drift and recovery: the types, and that every stability run
\* is as old as the snapshot of its decision.
THEOREM DriftInvariant == DriftSpec => []DriftInv
<1>1. DriftInit => DriftInv
  BY DriftAssumption DEF DriftInit, DriftInv, DriftTypeOK
<1>2. DriftInv /\ [DriftNext]_driftVars => DriftInv'
  BY DriftStepInv
<1> QED
  BY <1>1, <1>2, PTL DEF DriftSpec

\* No run ever reaches a milestone or recovers anything, for any indexes, gaps between
\* the snapshots and volumes: confidence-recovery-service.ts looks runs up by the id of
\* a decision that lives as long as its snapshot.
THEOREM NothingIsRecovered == DriftSpec => []NoMilestoneReached
<1>1. DriftInv => NoMilestoneReached
  BY DEF DriftInv, FreshRun, NoMilestoneReached
<1> QED
  BY <1>1, DriftInvariant, PTL

\* Whole rows of drift and recovery.
THEOREM DriftTypes == DriftSpec => []DriftTypeOK
<1>1. DriftInv => DriftTypeOK
  BY DEF DriftInv
<1> QED
  BY <1>1, DriftInvariant, PTL

\* Connections, cursors and rows of the governance stream.
THEOREM StreamTypes == StreamSpec => []StreamTypeOK
<1>1. StreamInv => StreamTypeOK
  BY DEF StreamInv
<1> QED
  BY <1>1, StreamInvariant, PTL

-----------------------------------------------------------------------------
(* MCServices: the services side by side *)

ServiceNames == {"queue", "reanalysis", "drift", "grants", "dashboard", "breaker",
                 "session", "stream", "bulk"}

\* The service chosen never changes, and a step of the whole is a step of it.
LEMMA ServicesStep ==
  ASSUME [ServicesNext]_servicesVars
  PROVE  /\ UNCHANGED service
         /\ service = "queue" => [GovQueueNext]_govQueueVars
         /\ service = "reanalysis" => [ReanalysisNext]_reanalysisVars
         /\ service = "drift" => [DriftNext]_driftVars
         /\ service = "grants" => [GrantsNext]_grantVars
         /\ service = "dashboard" => [DashNext]_dashVars
         /\ service = "breaker" => [BreakerNext]_breakerVars
         /\ service = "session" => [SessionNext]_sessionVars
         /\ service = "stream" => [StreamNext]_streamVars
         /\ service = "bulk" => [BulkNext]_bulkVars
<1>1. CASE UNCHANGED servicesVars
  BY <1>1 DEF servicesVars
<1>2. CASE Queues /\ UNCHANGED <<service, governanceVars, clientsVars>>
  BY <1>2 DEF Queues, governanceVars, clientsVars
<1>3. CASE Governance /\ UNCHANGED <<service, queuesVars, clientsVars>>
  BY <1>3 DEF Governance, queuesVars, clientsVars
<1>4. CASE Clients /\ UNCHANGED <<service, queuesVars, governanceVars>>
  BY <1>4 DEF Clients, queuesVars, governanceVars
<1> QED
  BY <1>1, <1>2, <1>3, <1>4 DEF ServicesNext

\* The nine services share nothing: a behaviour of the whole is one of the service that
\* was chosen, by its own specification and nothing less, so what a run of the whole
\* shows of a service holds of that service, and what is proved of it there holds here.
THEOREM ServicesAreApart ==
  ServicesSpec =>
    /\ service = "queue" => GovQueueSpec
    /\ service = "reanalysis" => ReanalysisSpec
    /\ service = "drift" => DriftSpec
    /\ service = "grants" => GrantsSpec
    /\ service = "dashboard" => DashSpec
    /\ service = "breaker" => BreakerSpec
    /\ service = "session" => SessionSpec
    /\ service = "stream" => StreamSpec
    /\ service = "bulk" => BulkSpec
<1>1. ServicesInit =>
        /\ GovQueueInit /\ ReanalysisInit /\ DriftInit /\ GrantsInit /\ DashInit
        /\ BreakerInit /\ SessionInit /\ StreamInit /\ BulkInit
  BY DEF ServicesInit
<1>2. [ServicesNext]_servicesVars /\ service = "queue" =>
        [GovQueueNext]_govQueueVars /\ (service = "queue")'
  BY ServicesStep
<1>3. [ServicesNext]_servicesVars /\ service = "reanalysis" =>
        [ReanalysisNext]_reanalysisVars /\ (service = "reanalysis")'
  BY ServicesStep
<1>4. [ServicesNext]_servicesVars /\ service = "drift" =>
        [DriftNext]_driftVars /\ (service = "drift")'
  BY ServicesStep
<1>5. [ServicesNext]_servicesVars /\ service = "grants" =>
        [GrantsNext]_grantVars /\ (service = "grants")'
  BY ServicesStep
<1>6. [ServicesNext]_servicesVars /\ service = "dashboard" =>
        [DashNext]_dashVars /\ (service = "dashboard")'
  BY ServicesStep
<1>7. [ServicesNext]_servicesVars /\ service = "breaker" =>
        [BreakerNext]_breakerVars /\ (service = "breaker")'
  BY ServicesStep
<1>8. [ServicesNext]_servicesVars /\ service = "session" =>
        [SessionNext]_sessionVars /\ (service = "session")'
  BY ServicesStep
<1>9. [ServicesNext]_servicesVars /\ service = "stream" =>
        [StreamNext]_streamVars /\ (service = "stream")'
  BY ServicesStep
<1>10. [ServicesNext]_servicesVars /\ service = "bulk" =>
        [BulkNext]_bulkVars /\ (service = "bulk")'
  BY ServicesStep
<1>q. ServicesSpec => (service = "queue" => GovQueueSpec)
  BY <1>1, <1>2, PTL DEF ServicesSpec, GovQueueSpec
<1>r. ServicesSpec => (service = "reanalysis" => ReanalysisSpec)
  BY <1>1, <1>3, PTL DEF ServicesSpec, ReanalysisSpec
<1>d. ServicesSpec => (service = "drift" => DriftSpec)
  BY <1>1, <1>4, PTL DEF ServicesSpec, DriftSpec
<1>g. ServicesSpec => (service = "grants" => GrantsSpec)
  BY <1>1, <1>5, PTL DEF ServicesSpec, GrantsSpec
<1>p. ServicesSpec => (service = "dashboard" => DashSpec)
  BY <1>1, <1>6, PTL DEF ServicesSpec, DashSpec
<1>b. ServicesSpec => (service = "breaker" => BreakerSpec)
  BY <1>1, <1>7, PTL DEF ServicesSpec, BreakerSpec
<1>t. ServicesSpec => (service = "session" => SessionSpec)
  BY <1>1, <1>8, PTL DEF ServicesSpec, SessionSpec
<1>s. ServicesSpec => (service = "stream" => StreamSpec)
  BY <1>1, <1>9, PTL DEF ServicesSpec, StreamSpec
<1>k. ServicesSpec => (service = "bulk" => BulkSpec)
  BY <1>1, <1>10, PTL DEF ServicesSpec, BulkSpec
<1> QED
  BY <1>q, <1>r, <1>d, <1>g, <1>p, <1>b, <1>t, <1>s, <1>k, PTL

\* Every service keeps its rows, counters and positions within their types, for all
\* values of its constants.
THEOREM ServicesTypes == ServicesSpec => []ServicesTypeOK
<1> DEFINE Known == service \in ServiceNames
<1>1. ServicesSpec => []Known
  <2>1. ServicesInit => Known
    BY DEF ServicesInit, ServiceNames
  <2>2. Known /\ [ServicesNext]_servicesVars => Known'
    BY ServicesStep
  <2> QED
    BY <2>1, <2>2, PTL DEF ServicesSpec
<1>3. ServicesSpec => [](service = "queue" => GovQueueTypeOK)
  <2>1. ~(service = "queue") /\ [ServicesNext]_servicesVars => ~(service = "queue")'
    BY ServicesStep
  <2> QED
    BY <2>1, ServicesAreApart, GovQueueTypes, PTL DEF ServicesSpec
<1>4. ServicesSpec => [](service = "reanalysis" => ReanalysisTypeOK)
  <2>1. ~(service = "reanalysis") /\ [ServicesNext]_servicesVars => ~(service = "reanalysis")'
    BY ServicesStep
  <2> QED
    BY <2>1, ServicesAreApart, ReanalysisTypes, PTL DEF ServicesSpec
<1>5. ServicesSpec => [](service = "drift" => DriftTypeOK)
  <2>1. ~(service = "drift") /\ [ServicesNext]_servicesVars => ~(service = "drift")'
    BY ServicesStep
  <2> QED
    BY <2>1, ServicesAreApart, DriftTypes, PTL DEF ServicesSpec
<1>6. ServicesSpec => [](service = "grants" => GrantsTypeOK)
  <2>1. ~(service = "grants") /\ [ServicesNext]_servicesVars => ~(service = "grants")'
    BY ServicesStep
  <2> QED
    BY <2>1, ServicesAreApart, GrantsTypes, PTL DEF ServicesSpec
<1>7. ServicesSpec => [](service = "dashboard" => DashTypeOK)
  <2>1. ~(service = "dashboard") /\ [ServicesNext]_servicesVars => ~(service = "dashboard")'
    BY ServicesStep
  <2> QED
    BY <2>1, ServicesAreApart, DashTypes, PTL DEF ServicesSpec
<1>8. ServicesSpec => [](service = "breaker" => BreakerTypeOK)
  <2>1. ~(service = "breaker") /\ [ServicesNext]_servicesVars => ~(service = "breaker")'
    BY ServicesStep
  <2> QED
    BY <2>1, ServicesAreApart, BreakerTypes, PTL DEF ServicesSpec
<1>9. ServicesSpec => [](service = "session" => SessionTypeOK)
  <2>1. ~(service = "session") /\ [ServicesNext]_servicesVars => ~(service = "session")'
    BY ServicesStep
  <2> QED
    BY <2>1, ServicesAreApart, SessionTypes, PTL DEF ServicesSpec
<1>10. ServicesSpec => [](service = "stream" => StreamTypeOK)
  <2>1. ~(service = "stream") /\ [ServicesNext]_servicesVars => ~(service = "stream")'
    BY ServicesStep
  <2> QED
    BY <2>1, ServicesAreApart, StreamTypes, PTL DEF ServicesSpec
<1>11. ServicesSpec => [](service = "bulk" => BulkTypeOK)
  <2>1. ~(service = "bulk") /\ [ServicesNext]_servicesVars => ~(service = "bulk")'
    BY ServicesStep
  <2> QED
    BY <2>1, ServicesAreApart, BulkTypes, PTL DEF ServicesSpec
<1>12. /\ Known
       /\ service = "queue" => GovQueueTypeOK
       /\ service = "reanalysis" => ReanalysisTypeOK
       /\ service = "drift" => DriftTypeOK
       /\ service = "grants" => GrantsTypeOK
       /\ service = "dashboard" => DashTypeOK
       /\ service = "breaker" => BreakerTypeOK
       /\ service = "session" => SessionTypeOK
       /\ service = "stream" => StreamTypeOK
       /\ service = "bulk" => BulkTypeOK
       => ServicesTypeOK
  BY DEF ServicesTypeOK, ServiceNames
<1> QED
  BY <1>1, <1>3, <1>4, <1>5, <1>6, <1>7, <1>8, <1>9, <1>10, <1>11, <1>12, PTL

=============================================================================
