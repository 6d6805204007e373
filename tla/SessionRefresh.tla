--------------------------- MODULE SessionRefresh ---------------------------
(***************************************************************************)
(* The browser session: apiFetch answers a 401 with a refresh that all     *)
(* calls of a tab share (api-client.ts), and POST /api/auth/refresh        *)
(* rotates the refresh token of the cookie (auth.ts).  Tokens are numbered *)
(* in the order of their creation; access and refresh token of one login   *)
(* or rotation have one number.                                            *)
(***************************************************************************)
EXTENDS Naturals, FiniteSets

CONSTANTS
  Tabs,     \* pages of the browser; cookies and localStorage are shared
  Fetches,  \* calls of apiFetch
  TabOf,    \* the tab that makes a call
  LastToken \* bound on the tokens that are created

ASSUME SessionAssumption ==
  /\ TabOf \in [Fetches -> Tabs]
  /\ LastToken \in Nat \ {0}

VARIABLES
  refreshTokens, \* the rows of refresh_tokens that are not revoked
  newest,        \* the last token created
  cookie,        \* the refreshToken cookie
  accessToken,   \* access_token in localStorage, 0 after a logout
  elapsed,       \* access tokens up to this one are over an hour old
  fetch,         \* each call of apiFetch
  gate,          \* refreshInFlight of each tab
  trouble        \* a refresh has failed for a reason of its own

sessionVars == <<refreshTokens, newest, cookie, accessToken, elapsed, fetch, gate, trouble>>

Token == 0..LastToken
NoFetch == [pc |-> "idle", token |-> 0]
NoGate == [pc |-> "open", token |-> 0, result |-> 0]

\* A gate is closed from the start of a refresh until a timer clears it: "settled" is a
\* promise with its result, 0 for null.
SessionTypeOK ==
  /\ refreshTokens \subseteq Token \ {0}
  /\ newest \in Token /\ cookie \in Token /\ accessToken \in Token /\ elapsed \in Token
  /\ fetch \in [Fetches -> [pc : {"idle", "sent", "refused", "waiting", "retried"},
                            token : Token]]
  /\ gate \in [Tabs -> [pc : {"open", "sent", "found", "revoked", "answered", "settled"},
                        token : Token, result : Token]]
  /\ trouble \in BOOLEAN

\* After the login.
SessionInit ==
  /\ refreshTokens = {1} /\ newest = 1 /\ cookie = 1 /\ accessToken = 1
  /\ elapsed = 0 /\ trouble = FALSE
  /\ fetch = [f \in Fetches |-> NoFetch]
  /\ gate = [t \in Tabs |-> NoGate]

-----------------------------------------------------------------------------
(* apiFetch *)

SetFetch(f, pc, token) == fetch' = [fetch EXCEPT ![f] = [pc |-> pc, token |-> token]]

Send(f) ==
  /\ fetch[f].pc = "idle" /\ accessToken > 0
  /\ SetFetch(f, "sent", accessToken)
  /\ UNCHANGED <<refreshTokens, newest, cookie, accessToken, elapsed, gate, trouble>>

\* The server refuses a token that has expired and takes any other.
Reply(f) ==
  /\ fetch[f].pc \in {"sent", "retried"}
  /\ fetch' = [fetch EXCEPT ![f] =
       IF fetch[f].pc = "sent" /\ fetch[f].token <= elapsed
         THEN [pc |-> "refused", token |-> fetch[f].token] ELSE NoFetch]
  /\ UNCHANGED <<refreshTokens, newest, cookie, accessToken, elapsed, gate, trouble>>

\* Mutant: every call refreshes for itself.
Mut_NoGate(t) == TRUE

GateOpen(t) == gate[t].pc = "open"

\* refreshAccessToken: the first call sends the cookie off, the others join it.
Refresh(f) ==
  LET t == TabOf[f] IN
  /\ fetch[f].pc = "refused"
  /\ SetFetch(f, "waiting", fetch[f].token)
  /\ gate' = IF GateOpen(t)
               THEN [gate EXCEPT ![t] = [pc |-> "sent", token |-> cookie, result |-> 0]]
               ELSE gate
  /\ UNCHANGED <<refreshTokens, newest, cookie, accessToken, elapsed, trouble>>

\* Mutant: the call is repeated with the headers it had.
Mut_OldHeaders(f) ==
  /\ fetch[f].pc = "waiting" /\ gate[TabOf[f]].pc = "settled" /\ gate[TabOf[f]].result > 0
  /\ SetFetch(f, "retried", fetch[f].token)
  /\ UNCHANGED <<refreshTokens, newest, cookie, accessToken, elapsed, gate, trouble>>

\* The shared promise has its result: the call is repeated with the new token, or the
\* session is cleared and the tab goes to the login page, which ends its calls.
Resume(f) ==
  LET t == TabOf[f] IN
  /\ fetch[f].pc = "waiting" /\ gate[t].pc = "settled"
  /\ IF gate[t].result > 0
       THEN SetFetch(f, "retried", gate[t].result) /\ UNCHANGED accessToken
       ELSE /\ accessToken' = 0
            /\ fetch' = [g \in Fetches |-> IF TabOf[g] = t THEN NoFetch ELSE fetch[g]]
  /\ UNCHANGED <<refreshTokens, newest, cookie, elapsed, gate, trouble>>

\* The timer after the promise: its waiters have run before it.
Release(t) ==
  /\ gate[t].pc = "settled"
  /\ \A f \in Fetches : TabOf[f] = t => fetch[f].pc # "waiting"
  /\ gate' = [gate EXCEPT ![t] = NoGate]
  /\ UNCHANGED <<refreshTokens, newest, cookie, accessToken, elapsed, fetch, trouble>>

-----------------------------------------------------------------------------
(* POST /api/auth/refresh: rotateRefreshToken is three statements *)

SetGate(t, pc, result) ==
  gate' = [gate EXCEPT ![t] = [pc |-> pc, token |-> gate[t].token, result |-> result]]

\* The token must have a row that is neither revoked nor expired.
SelectToken(t) ==
  /\ gate[t].pc = "sent"
  /\ SetGate(t, IF gate[t].token \in refreshTokens THEN "found" ELSE "settled", 0)
  /\ UNCHANGED <<refreshTokens, newest, cookie, accessToken, elapsed, fetch, trouble>>

\* Mutant: the token's predecessor is revoked.
Mut_RevokeBefore(t) ==
  /\ gate[t].pc = "found"
  /\ refreshTokens' = refreshTokens \ {gate[t].token - 1}
  /\ SetGate(t, "revoked", 0)
  /\ UNCHANGED <<newest, cookie, accessToken, elapsed, fetch, trouble>>

RevokeOld(t) ==
  /\ gate[t].pc = "found"
  /\ refreshTokens' = refreshTokens \ {gate[t].token}
  /\ SetGate(t, "revoked", 0)
  /\ UNCHANGED <<newest, cookie, accessToken, elapsed, fetch, trouble>>

CreateNew(t) ==
  /\ gate[t].pc = "revoked" /\ newest < LastToken
  /\ newest' = newest + 1
  /\ refreshTokens' = refreshTokens \cup {newest + 1}
  /\ SetGate(t, "answered", newest + 1)
  /\ UNCHANGED <<cookie, accessToken, elapsed, fetch, trouble>>

\* The answer sets the cookie, then the client stores the access token.
Answered(t) ==
  /\ gate[t].pc = "answered"
  /\ cookie' = gate[t].result /\ accessToken' = gate[t].result
  /\ SetGate(t, "settled", gate[t].result)
  /\ UNCHANGED <<refreshTokens, newest, elapsed, fetch, trouble>>

\* A statement fails, or an answer is lost: null, whatever has been written.
RefreshFails(t) ==
  /\ gate[t].pc \in {"sent", "found", "revoked", "answered"}
  /\ SetGate(t, "settled", 0)
  /\ trouble' = TRUE
  /\ UNCHANGED <<refreshTokens, newest, cookie, accessToken, elapsed, fetch>>

-----------------------------------------------------------------------------
(* Time *)

\* An hour after its creation an access token expires; timers take less.
AccessExpires ==
  /\ elapsed < accessToken
  /\ \A t \in Tabs : gate[t].pc # "settled"
  /\ elapsed' = accessToken
  /\ UNCHANGED <<refreshTokens, newest, cookie, accessToken, fetch, gate, trouble>>

\* Seven days after its creation a refresh token does, if it was not rotated.
RefreshExpires ==
  /\ cookie \in refreshTokens
  /\ refreshTokens' = refreshTokens \ {cookie}
  /\ trouble' = TRUE
  /\ UNCHANGED <<newest, cookie, accessToken, elapsed, fetch, gate>>

-----------------------------------------------------------------------------
FetchStep(f) == Send(f) \/ Reply(f) \/ Refresh(f) \/ Resume(f)

GateStep(t) ==
  SelectToken(t) \/ RevokeOld(t) \/ CreateNew(t) \/ Answered(t) \/ RefreshFails(t) \/ Release(t)

SessionNext ==
  \/ \E f \in Fetches : FetchStep(f)
  \/ \E t \in Tabs : GateStep(t)
  \/ AccessExpires \/ RefreshExpires

SessionSpec == SessionInit /\ [][SessionNext]_sessionVars

-----------------------------------------------------------------------------
(* Properties *)

\* What the gate is for (api-client.ts:38): calls of one tab that are refused together,
\* or late, never cost the session.  It is cleared only after a refresh that failed for
\* a reason of its own.
SessionSurvives == accessToken = 0 => trouble

\* A call is repeated with a token newer than the one it was refused with, although it
\* may join a refresh that another call began long before.
RetryIsNewer ==
  [][\A f \in Fetches :
       fetch[f].pc = "waiting" /\ fetch'[f].pc = "retried" =>
         fetch'[f].token > fetch[f].token]_sessionVars

\* The session never branches: whatever statement of a rotation fails, at most one row
\* of refresh_tokens is live, so that a refresh is answered from the newest one or not.
OneLiveToken == Cardinality(refreshTokens) <= 1

=============================================================================
