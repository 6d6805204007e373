-------------------------- MODULE GovernanceStream --------------------------
(***************************************************************************)
(* GET /api/governance/stream and the hook that listens to it.  The server *)
(* polls three tables in turn for rows newer than one cursor; the hook     *)
(* opens a new EventSource after every loss and whenever the page renders. *)
(* Time is counted in half milliseconds: rows carry the full time of their *)
(* transaction, a cursor whole milliseconds.                               *)
(***************************************************************************)
EXTENDS Naturals, FiniteSets

CONSTANTS
  StreamRows,   \* rows with a status change, a decision or a divergence
  SourceOf,     \* the table of a row
  PollLimit,    \* LIMIT of a query
  ResumeWindow, \* how far back a new connection begins: 30 seconds
  LastMoment    \* bound on the time

Sources == {"governance", "decision", "drift"}

ASSUME StreamAssumption ==
  /\ SourceOf \in [StreamRows -> Sources]
  /\ PollLimit \in Nat \ {0} /\ LastMoment \in Nat /\ ResumeWindow \in 0..LastMoment

VARIABLES
  moment,   \* the time
  row,      \* the rows: updated_at, created_at or recorded_at, and when they show
  stream,   \* the connection: the query that is next, lastSeenTimestamp, rows sent
  received  \* the rows the page has had an event for

streamVars == <<moment, row, stream, received>>

Moments == 0..LastMoment

StreamTypeOK ==
  /\ moment \in Moments
  /\ row \in [StreamRows -> [state : {"absent", "open", "visible"}, at : Moments]]
  /\ stream \in [next : Sources \cup {"closed", "blocked"}, cursor : Moments,
                 sent : SUBSET StreamRows]
  /\ received \subseteq StreamRows

NewStream(now) ==
  [next |-> "governance", sent |-> {},
   cursor |-> IF now < ResumeWindow THEN 0 ELSE now - ResumeWindow]

\* The page is loaded, and connects.
StreamInit ==
  /\ moment = ResumeWindow
  /\ row = [r \in StreamRows |-> [state |-> "absent", at |-> 0]]
  /\ stream = NewStream(moment)
  /\ received = {}

-----------------------------------------------------------------------------
(* Writers *)

TimeGoesOn ==
  /\ moment < LastMoment
  /\ moment' = moment + 1
  /\ UNCHANGED <<row, stream, received>>

\* NOW() is the time the transaction began.
WriteRow(r) ==
  /\ row[r].state = "absent"
  /\ row' = [row EXCEPT ![r] = [state |-> "open", at |-> moment]]
  /\ UNCHANGED <<moment, stream, received>>

CommitRow(r) ==
  /\ row[r].state = "open"
  /\ row' = [row EXCEPT ![r].state = "visible"]
  /\ UNCHANGED <<moment, stream, received>>

-----------------------------------------------------------------------------
(* The server *)

\* new Date() of a timestamp.
Milliseconds(t) == t - (t % 2)

\* Mutant: each query begins where the connection began.
Mut_CursorOfStart(cursor, batch) == cursor

\* lastSeenTimestamp after a query's rows.
Advanced(cursor, batch) ==
  CHOOSE t \in {cursor} \cup {Milliseconds(row[r].at) : r \in batch} :
    t >= cursor /\ \A r \in batch : t >= Milliseconds(row[r].at)

NextQuery(s) ==
  CASE s = "governance" -> "decision" [] s = "decision" -> "drift" [] s = "drift" -> "governance"

Newer(s) ==
  {r \in StreamRows : SourceOf[r] = s /\ row[r].state = "visible" /\ row[r].at > stream.cursor}

\* The oldest rows, up to the limit; ties at the limit are broken either way.
Batches(rows) ==
  {b \in SUBSET rows :
     /\ Cardinality(b) = IF Cardinality(rows) < PollLimit THEN Cardinality(rows) ELSE PollLimit
     /\ \A r \in b, q \in rows \ b : row[r].at <= row[q].at}

Query(s) ==
  /\ stream.next = s
  /\ \E batch \in Batches(Newer(s)) :
       /\ stream' = [next |-> NextQuery(s), cursor |-> Advanced(stream.cursor, batch),
                     sent |-> stream.sent \cup batch]
       /\ received' = received \cup batch
  /\ UNCHANGED <<moment, row>>

-----------------------------------------------------------------------------
(* useGovernanceStream *)

Connected == stream.next \in Sources

\* Five minutes are over, the network fails, or a query does: the event of a failed
\* query is named error, and takes the hook to es.onerror.
Disconnect ==
  /\ Connected
  /\ stream' = [stream EXCEPT !.next = "closed"]
  /\ UNCHANGED <<moment, row, received>>

\* The timer of scheduleReconnect.  The id of the last event is kept and not used: only
\* the browser's own reconnect would send it, and the hook closes the source first.
Reconnect ==
  /\ stream.next = "closed"
  /\ stream' = NewStream(moment)
  /\ UNCHANGED <<moment, row, received>>

\* The probe finds the session over, or the attempts are used up.
StopTrying ==
  /\ stream.next = "closed"
  /\ stream' = [stream EXCEPT !.next = "blocked"]
  /\ UNCHANGED <<moment, row, received>>

\* The page renders, at the latest for the event connected: the callbacks it passes are
\* new, so the effect closes the source and connects again.
Rerender ==
  /\ Connected
  /\ stream' = NewStream(moment)
  /\ UNCHANGED <<moment, row, received>>

-----------------------------------------------------------------------------
StreamNext ==
  \/ TimeGoesOn
  \/ \E r \in StreamRows : WriteRow(r) \/ CommitRow(r)
  \/ \E s \in Sources : Query(s)
  \/ Disconnect \/ Reconnect \/ StopTrying \/ Rerender

StreamSpec == StreamInit /\ [][StreamNext]_streamVars

-----------------------------------------------------------------------------
(* Properties *)

\* stream/route.ts:25: "new events since the last event ID seen, ensuring no events are
\* missed across reconnects".  A row that a connected page has no event for is still
\* ahead of the cursor.
NoEventMissed ==
  \A r \in StreamRows :
    Connected /\ row[r].state = "visible" /\ r \notin received => row[r].at > stream.cursor

\* A connection never goes back: what a query sends for the first time is no older, to
\* the millisecond, than anything the three queries have sent before.
SentInOrder ==
  [][\A r \in (stream'.sent \ stream.sent), q \in stream.sent :
       Milliseconds(row[q].at) <= row[r].at]_streamVars

=============================================================================
