-------------------------- MODULE PermissionGrants --------------------------
(***************************************************************************)
(* Time-bounded permission grants (governance-ttl) and their revocation    *)
(* (governance-revocation).  A revocation is four statements on pool       *)
(* connections, outside any transaction: the check of the grant, the       *)
(* immutable record, the update of the grant, and an audit event nobody    *)
(* waits for.                                                              *)
(***************************************************************************)
EXTENDS Naturals, FiniteSets

CONSTANTS
  Grants,   \* ids of governance_permissions_ttl
  Revokers, \* calls of revokePermission; each makes one revocation id
  MaxUses   \* bound on use_count

NoRevocation == "none"

ASSUME GrantsAssumption ==
  /\ MaxUses \in Nat
  /\ NoRevocation \notin Revokers

VARIABLES
  grant,     \* governance_permissions_ttl
  records,   \* governance_revocations: the calls that have inserted theirs
  audited,   \* the calls whose audit event is in governance_audit_events
  revoker,   \* what each call is doing
  usesSent   \* usage updates of checkPermission on their way

grantVars == <<grant, records, audited, revoker, usesSent>>

RevokerPc == {"ready", "insert", "update", "audit", "done", "refused", "failed"}

GrantsTypeOK ==
  /\ grant \in [Grants -> [state : {"absent", "live", "expired"},
                           revocation : Revokers \cup {NoRevocation},
                           uses : 0..MaxUses]]
  /\ records \subseteq Revokers
  /\ audited \subseteq Revokers
  /\ revoker \in [Revokers -> [pc : RevokerPc, grant : Grants \cup {"none"}]]
  /\ usesSent \in [Grants -> 0..MaxUses]

GrantsInit ==
  /\ grant = [g \in Grants |-> [state |-> "absent", revocation |-> NoRevocation, uses |-> 0]]
  /\ records = {} /\ audited = {}
  /\ revoker = [r \in Revokers |-> [pc |-> "ready", grant |-> "none"]]
  /\ usesSent = [g \in Grants |-> 0]

Revoked(g) == grant[g].revocation # NoRevocation

-----------------------------------------------------------------------------
(* governance-ttl *)

GrantPermission(g) ==
  /\ grant[g].state = "absent"
  /\ grant' = [grant EXCEPT ![g].state = "live"]
  /\ UNCHANGED <<records, audited, revoker, usesSent>>

\* expires_at passes.  No statement writes it: it is compared with NOW().
Expires(g) ==
  /\ grant[g].state = "live"
  /\ grant' = [grant EXCEPT ![g].state = "expired"]
  /\ UNCHANGED <<records, audited, revoker, usesSent>>

\* The row checkPermission selects: neither revoked nor past its expiry.
Active(g) == grant[g].state = "live" /\ ~Revoked(g)

\* checkPermission says granted and sends the usage update off.
CheckGranted(g) ==
  /\ Active(g)
  /\ grant[g].uses + usesSent[g] < MaxUses
  /\ usesSent' = [usesSent EXCEPT ![g] = @ + 1]
  /\ UNCHANGED <<grant, records, audited, revoker>>

\* The update lands, or fails without anyone noticing.
UsageLands(g) ==
  /\ usesSent[g] > 0
  /\ usesSent' = [usesSent EXCEPT ![g] = @ - 1]
  /\ \/ grant' = [grant EXCEPT ![g].uses = @ + 1]
     \/ UNCHANGED grant
  /\ UNCHANGED <<records, audited, revoker>>

-----------------------------------------------------------------------------
(* revokePermission *)

Step(r, from, to) ==
  revoker[r].pc = from /\ revoker' = [revoker EXCEPT ![r].pc = to]

\* The grant must exist and be neither revoked nor expired.
CheckGrant(r, g) ==
  /\ revoker[r].pc = "ready"
  /\ revoker' = [revoker EXCEPT ![r] =
       [pc |-> IF Active(g) THEN "insert" ELSE "refused", grant |-> g]]
  /\ UNCHANGED <<grant, records, audited, usesSent>>

InsertRecord(r) ==
  /\ Step(r, "insert", "update")
  /\ records' = records \cup {r}
  /\ UNCHANGED <<grant, audited, usesSent>>

\* Mutant: the grant is marked before the record is inserted.
Mut_MarkFirst(r) ==
  /\ revoker[r].pc \in {"insert", "update"}
  /\ revoker' = [revoker EXCEPT ![r].pc = "audit"]
  /\ grant' = [grant EXCEPT ![revoker[r].grant].revocation = r]
  /\ UNCHANGED <<records, audited, usesSent>>

\* Mutant: a row that is revoked already is cleared, as for a renewal.
Mut_Toggle(r) ==
  /\ Step(r, "update", "audit")
  /\ grant' = [grant EXCEPT ![revoker[r].grant].revocation =
                 IF @ = NoRevocation THEN r ELSE NoRevocation]
  /\ UNCHANGED <<records, audited, usesSent>>

\* The update has no condition on revoked_at: the last of two calls keeps its id.
MarkRevoked(r) ==
  /\ Step(r, "update", "audit")
  /\ grant' = [grant EXCEPT ![revoker[r].grant].revocation = r]
  /\ UNCHANGED <<records, audited, usesSent>>

\* Mutant: the event is written with the check of the grant.
Mut_AuditEarly(r) ==
  /\ revoker[r].pc \in {"insert", "update", "audit"}
  /\ revoker' = [revoker EXCEPT ![r].pc = IF @ = "audit" THEN "done" ELSE @]
  /\ audited' = audited \cup {r}
  /\ UNCHANGED <<grant, records, usesSent>>

\* The audit event is inserted, or its failure swallowed; the caller has its answer.
AuditEvent(r) ==
  /\ Step(r, "audit", "done")
  /\ audited' \in {audited, audited \cup {r}}
  /\ UNCHANGED <<grant, records, usesSent>>

\* A statement fails or the process dies: what has been written stays.
RevokerFails(r) ==
  /\ revoker[r].pc \in {"insert", "update", "audit"}
  /\ revoker' = [revoker EXCEPT ![r].pc = "failed"]
  /\ UNCHANGED <<grant, records, audited, usesSent>>

-----------------------------------------------------------------------------
GrantsNext ==
  \/ \E g \in Grants :
       \/ GrantPermission(g) \/ Expires(g) \/ CheckGranted(g) \/ UsageLands(g)
       \/ \E r \in Revokers : CheckGrant(r, g)
  \/ \E r \in Revokers :
       InsertRecord(r) \/ MarkRevoked(r) \/ AuditEvent(r) \/ RevokerFails(r)

GrantsSpec == GrantsInit /\ [][GrantsNext]_grantVars

-----------------------------------------------------------------------------
(* Properties *)

\* The revocation_id of a grant always names a record of governance_revocations for
\* that very grant, whichever of two concurrent revocations wrote last and whatever
\* failed in between: a foreign key the schema does not declare.
RevocationBacked ==
  \A g \in Grants : Revoked(g) =>
    grant[g].revocation \in records /\ revoker[grant[g].revocation].grant = g

\* A permission_revoked event is never ahead of the revocation it reports, though
\* its insert is not awaited: the record exists and the grant is revoked.
AuditedIsRevoked ==
  \A r \in audited : r \in records /\ Revoked(revoker[r].grant)

\* A revoked grant stays revoked, and no permission check that starts later counts as
\* a use, however many revocations of it are still running.
RevokedForGood ==
  [][\A g \in Grants : Revoked(g) => Revoked(g)' /\ usesSent'[g] <= usesSent[g]]_grantVars

=============================================================================
