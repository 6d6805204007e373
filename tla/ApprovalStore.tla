--------------------------- MODULE ApprovalStore ---------------------------
(***************************************************************************)
(* The approval workflow: the routes of governance-approval-routes.ts over *)
(* governance-approval-store.ts.  The store is a ring buffer in the memory *)
(* of one process; every change also starts an upsert that nobody waits    *)
(* for.  A handler has no await, so it is one action.                      *)
(***************************************************************************)
EXTENDS Naturals, Sequences, FiniteSets

CONSTANTS
  Requests,    \* request ids
  Approvers,   \* who may approve
  Quorums,     \* values of required_approvals
  Capacity,    \* RING_BUFFER_MAX
  MaxInFlight  \* bound of the model: upserts in flight at one time

ASSUME StoreAssumption ==
  /\ Quorums \subseteq Nat
  /\ Capacity \in Nat \ {0}
  /\ MaxInFlight \in Nat \ {0}

VARIABLES
  buffer,   \* ringBuffer
  writes,   \* upserts in flight
  table,    \* governance_approval_requests
  reply     \* what the last handler answered

vars == <<buffer, writes, table, reply>>

States == {"pending", "approved", "denied", "revoked", "expired"}

\* approvals: the approver_ids of received_approvals; overdue: past expires_at.
Records == [id : Requests, state : States, required : Quorums,
            approvals : Seq(Approvers), overdue : BOOLEAN]

None == [state |-> "none"]

Ids == {buffer[i].id : i \in DOMAIN buffer}

TypeOK ==
  /\ buffer \in Seq(Records) /\ Len(buffer) <= Capacity
  /\ writes \subseteq Records
  /\ table \in [Requests -> Records \cup {None}]
  /\ reply \in {"none", "ok", "not found", "refused", "overflow"}

Init ==
  /\ buffer = <<>>
  /\ writes = {}
  /\ table = [id \in Requests |-> None]
  /\ reply = "none"

-----------------------------------------------------------------------------
(* The store *)

\* The entry find() and findIndex() return.
Index(id) ==
  CHOOSE i \in DOMAIN buffer :
    buffer[i].id = id /\ \A j \in 1..(i - 1) : buffer[j].id # id
Entry(id) == buffer[Index(id)]

\* Mutant: the buffer is never shifted.
Mut_NoShift(r) ==
  IF r.id \in Ids THEN [buffer EXCEPT ![Index(r.id)] = r] ELSE Append(buffer, r)

\* appendToBuffer: an entry is replaced in place, a new one may push out the oldest.
AppendToBuffer(r) ==
  IF r.id \in Ids THEN [buffer EXCEPT ![Index(r.id)] = r]
  ELSE IF Len(buffer) = Capacity THEN Append(Tail(buffer), r)
  ELSE Append(buffer, r)

\* appendToBuffer and persistToDB.
Save(r) ==
  /\ Cardinality(writes) < MaxInFlight
  /\ buffer' = AppendToBuffer(r)
  /\ writes' = writes \cup {r}
  /\ reply' = "ok"
  /\ UNCHANGED table

Answer(what) == reply' = what /\ UNCHANGED <<buffer, writes, table>>

IsExpired(r) == r.state = "pending" /\ r.overdue

\* Mutant: nobody looks at the time.
Mut_AnyEntry(id) == id \in Ids

\* getById returns an entry.  For an expired one it calls expire, which begins
\* with getById, which calls expire again: a RangeError, before anything is written.
Found(id) == id \in Ids /\ ~IsExpired(Entry(id))
Overflows(id) == id \in Ids /\ IsExpired(Entry(id))

\* Mutant: an approved request can still be denied.
Mut_DenyApproved(from, to) ==
  <<from, to>> \in {<<"pending", "approved">>, <<"pending", "denied">>,
                    <<"pending", "expired">>, <<"approved", "revoked">>,
                    <<"approved", "denied">>}

\* ALLOWED_TRANSITIONS
CanTransition(from, to) ==
  <<from, to>> \in {<<"pending", "approved">>, <<"pending", "denied">>,
                    <<"pending", "expired">>, <<"approved", "revoked">>}

\* Mutant: the same approver counts twice.
Mut_Anyone(r, who) == TRUE

\* addApproval accepts the approver.
IsNewApprover(r, who) == \A k \in DOMAIN r.approvals : r.approvals[k] # who

-----------------------------------------------------------------------------
(* The routes *)

\* A drawn id is one nothing uses (randomBytes).
IsNewId(id) == id \notin Ids /\ table[id] = None /\ \A w \in writes : w.id # id

Create(id, required) ==
  /\ IsNewId(id)
  /\ Save([id |-> id, state |-> "pending", required |-> required,
           approvals |-> <<>>, overdue |-> FALSE])

Approve(id, who) ==
  LET r == Entry(id)
      approvals == Append(r.approvals, who)
      reached == Len(approvals) >= r.required
  IN  /\ Found(id) /\ CanTransition(r.state, "approved") /\ IsNewApprover(r, who)
      /\ Save([r EXCEPT !.approvals = approvals,
                        !.state = IF reached THEN "approved" ELSE "pending"])

Deny(id) ==
  /\ Found(id) /\ CanTransition(Entry(id).state, "denied")
  /\ Save([Entry(id) EXCEPT !.state = "denied"])

Revoke(id) ==
  /\ Found(id) /\ CanTransition(Entry(id).state, "revoked")
  /\ Save([Entry(id) EXCEPT !.state = "revoked"])

\* Invalid transition, or a second approval of one approver.
Refuse(id) ==
  /\ Found(id)
  /\ \/ Entry(id).state # "pending"
     \/ \E who \in Approvers : ~IsNewApprover(Entry(id), who)
  /\ Answer("refused")

\* Any route with the id of an entry; GET leaves the entry alone.
Get(id) ==
  /\ Found(id)
  /\ Answer("ok")

Overflow(id) ==
  /\ Overflows(id)
  /\ Answer("overflow")

NotFound(id) ==
  /\ id \notin Ids /\ table[id] # None
  /\ Answer("not found")

\* GET /pending: expire is called for every overdue entry of the list.
GetPending ==
  Answer(IF \E id \in Ids : Overflows(id) THEN "overflow" ELSE "ok")

-----------------------------------------------------------------------------
(* The database, the process, time *)

\* Upserts run on any connection of the pool: they land in any order, or fail.
WriteLands(w) ==
  /\ w \in writes
  /\ table' = [table EXCEPT ![w.id] = w]
  /\ writes' = writes \ {w}
  /\ UNCHANGED <<buffer, reply>>

WriteFails(w) ==
  /\ w \in writes
  /\ writes' = writes \ {w}
  /\ UNCHANGED <<buffer, table, reply>>

\* Nothing reads the table back into the buffer.
Restart ==
  /\ buffer # <<>>
  /\ buffer' = <<>>
  /\ UNCHANGED <<writes, table, reply>>

TtlElapses(id) ==
  /\ id \in Ids /\ Entry(id).state = "pending" /\ ~Entry(id).overdue
  /\ buffer' = [buffer EXCEPT ![Index(id)].overdue = TRUE]
  /\ UNCHANGED <<writes, table, reply>>

-----------------------------------------------------------------------------
Next ==
  \/ \E id \in Requests, q \in Quorums : Create(id, q)
  \/ \E id \in Requests, who \in Approvers : Approve(id, who)
  \/ \E id \in Requests : \/ Deny(id) \/ Revoke(id) \/ Refuse(id) \/ Get(id)
                          \/ Overflow(id) \/ NotFound(id) \/ TtlElapses(id)
  \/ \E w \in writes : WriteLands(w) \/ WriteFails(w)
  \/ GetPending \/ Restart

Spec == Init /\ [][Next]_vars

\* Operators keep looking at every request.
FairSpec == Spec /\ \A id \in Requests : WF_vars(Get(id) \/ Overflow(id))

-----------------------------------------------------------------------------
(* Properties *)

Rows == {table[id] : id \in Requests} \ {None}
Copies == {buffer[i] : i \in DOMAIN buffer} \cup writes \cup Rows

\* Wherever a copy of an approved or revoked request is, in the buffer, in flight
\* or in the table, it carries the approvals of as many different people as its
\* risk level asks for (governance-approval.ts: two-person rule for critical).
RecordedQuorum ==
  \A r \in Copies : r.state \in {"approved", "revoked"} =>
    Cardinality({r.approvals[k] : k \in DOMAIN r.approvals}) >= r.required

\* The state the table shows, however late or out of order its upserts land, is
\* one the request in the buffer has been in: never a second, different
\* resolution.
TableFollowsBuffer ==
  \A i \in DOMAIN buffer : \A r \in writes \cup Rows :
    r.id = buffer[i].id =>
      CASE r.state = "pending"  -> TRUE
        [] r.state = "approved" -> buffer[i].state \in {"approved", "revoked"}
        [] OTHER                -> buffer[i].state = r.state

\* Once the TTL of a pending request is over nobody resolves it any more, and no
\* upsert says so.
OverdueStaysOpen ==
  \A i \in DOMAIN buffer : buffer[i].overdue =>
    \A r \in Copies : r.id = buffer[i].id => r.state \in {"pending", "expired"}

-----------------------------------------------------------------------------
\* What governance-approval.ts:10 and :18 say: pending becomes expired when the
\* TTL has elapsed and somebody reads the request.
OverdueExpires ==
  \A id \in Requests :
    (id \in Ids /\ IsExpired(Entry(id))) ~> (id \in Ids => ~IsExpired(Entry(id)))

=============================================================================
