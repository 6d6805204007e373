----------------------- MODULE PermissionGrantsProofs -----------------------
(***************************************************************************)
(* Proofs about PermissionGrants for every set of grants, every number of  *)
(* concurrent revocations of one grant and any of their statements failing *)
(*                                                                         *)
(* What the four statements of revokePermission leave behind depends on    *)
(* how far each call has come, so the invariant ties a call's position to  *)
(* the two tables (CallsAreBacked), and a record to the call that wrote it *)
(* (RecordsNameGrants): a call that has a record never picks another grant.*)
(***************************************************************************)
EXTENDS PermissionGrants, TLAPS

\* Usage updates on their way fit under the bound on use_count.
UsesFit == \A g \in Grants : grant[g].uses + usesSent[g] \in 0..MaxUses

\* A call past its check has a grant; past the insert it has a record; past the
\* update its grant is revoked.
CallsAreBacked ==
  \A r \in Revokers :
    /\ revoker[r].pc \in {"insert", "update", "audit", "done"} => revoker[r].grant \in Grants
    /\ revoker[r].pc \in {"update", "audit", "done"} => r \in records
    /\ revoker[r].pc \in {"audit", "done"} => Revoked(revoker[r].grant)

\* The call of a record has a grant and looks for no other one.
RecordsNameGrants ==
  \A r \in records : revoker[r].pc # "ready" /\ revoker[r].grant \in Grants

GrantsInv ==
  /\ GrantsTypeOK
  /\ UsesFit
  /\ CallsAreBacked
  /\ RecordsNameGrants
  /\ RevocationBacked
  /\ AuditedIsRevoked

-----------------------------------------------------------------------------
(* Lemmas *)

LEMMA GrantsInitEstablishes == GrantsInit => GrantsInv
BY GrantsAssumption
   DEF GrantsInit, GrantsInv, GrantsTypeOK, UsesFit, CallsAreBacked, RecordsNameGrants,
       RevocationBacked, AuditedIsRevoked, Revoked, RevokerPc

\* Grants being given, running out and being used leave the revocations alone.
LEMMA GrantKeeps ==
  ASSUME GrantsInv, NEW g \in Grants,
         GrantPermission(g) \/ Expires(g) \/ CheckGranted(g) \/ UsageLands(g)
  PROVE  GrantsInv'
<1> USE GrantsAssumption DEF GrantsInv
<1>1. GrantsTypeOK' /\ UsesFit'
  BY DEF GrantsTypeOK, UsesFit, GrantPermission, Expires, CheckGranted, UsageLands
<1>2. \A x \in Grants : grant'[x].revocation = grant[x].revocation
  BY DEF GrantsTypeOK, GrantPermission, Expires, CheckGranted, UsageLands
<1>3. UNCHANGED <<records, audited, revoker>>
  BY DEF GrantPermission, Expires, CheckGranted, UsageLands
<1>4. CallsAreBacked' /\ RecordsNameGrants'
  BY <1>2, <1>3 DEF CallsAreBacked, RecordsNameGrants, Revoked
<1>5. RevocationBacked' /\ AuditedIsRevoked'
  BY <1>2, <1>3 DEF RevocationBacked, AuditedIsRevoked, RecordsNameGrants, Revoked
<1> QED
  BY <1>1, <1>4, <1>5

\* The check, the record, the audit event or the failure of a call.
LEMMA CallKeeps ==
  ASSUME GrantsInv, NEW r \in Revokers,
         \/ \E g \in Grants : CheckGrant(r, g)
         \/ InsertRecord(r) \/ AuditEvent(r) \/ RevokerFails(r)
  PROVE  GrantsInv'
<1> USE GrantsAssumption DEF GrantsInv
<1>1. CASE \E g \in Grants : CheckGrant(r, g)
  BY <1>1 DEF CheckGrant, GrantsTypeOK, UsesFit, RevokerPc, CallsAreBacked,
              RecordsNameGrants, RevocationBacked, AuditedIsRevoked, Revoked
<1>2. CASE InsertRecord(r)
  BY <1>2 DEF InsertRecord, Step, GrantsTypeOK, UsesFit, RevokerPc, CallsAreBacked,
              RecordsNameGrants, RevocationBacked, AuditedIsRevoked, Revoked
<1>3. CASE AuditEvent(r)
  BY <1>3 DEF AuditEvent, Step, GrantsTypeOK, UsesFit, RevokerPc, CallsAreBacked,
              RecordsNameGrants, RevocationBacked, AuditedIsRevoked, Revoked
<1>4. CASE RevokerFails(r)
  BY <1>4 DEF RevokerFails, GrantsTypeOK, UsesFit, RevokerPc, CallsAreBacked,
              RecordsNameGrants, RevocationBacked, AuditedIsRevoked, Revoked
<1> QED
  BY <1>1, <1>2, <1>3, <1>4

\* The update of the grant, whichever id it overwrites.
LEMMA MarkKeeps ==
  ASSUME GrantsInv, NEW r \in Revokers, MarkRevoked(r)
  PROVE  GrantsInv'
<1> USE GrantsAssumption DEF GrantsInv
<1>1. GrantsTypeOK' /\ UsesFit'
  BY DEF GrantsTypeOK, UsesFit, RevokerPc, CallsAreBacked, MarkRevoked, Step
<1>2. CallsAreBacked' /\ RecordsNameGrants'
  BY DEF GrantsTypeOK, RevokerPc, CallsAreBacked, RecordsNameGrants, MarkRevoked, Step, Revoked
<1>3. RevocationBacked'
  BY DEF GrantsTypeOK, RevocationBacked, CallsAreBacked, MarkRevoked, Step, Revoked
<1>4. AuditedIsRevoked'
  BY DEF GrantsTypeOK, AuditedIsRevoked, RecordsNameGrants, CallsAreBacked, MarkRevoked, Step,
         Revoked
<1> QED
  BY <1>1, <1>2, <1>3, <1>4

LEMMA GrantsStepKeeps == GrantsInv /\ [GrantsNext]_grantVars => GrantsInv'
<1> SUFFICES ASSUME GrantsInv, [GrantsNext]_grantVars PROVE GrantsInv'
  OBVIOUS
<1>1. CASE UNCHANGED grantVars
  BY <1>1 DEF grantVars, GrantsInv, GrantsTypeOK, UsesFit, CallsAreBacked, RecordsNameGrants,
              RevocationBacked, AuditedIsRevoked, Revoked
<1>2. CASE GrantsNext
  BY <1>2, GrantKeeps, CallKeeps, MarkKeeps DEF GrantsNext
<1> QED
  BY <1>1, <1>2

\* The inductive invariant of grants, usage updates and revocations, for every number of
\* calls of revokePermission.
THEOREM GrantsInvariant == GrantsSpec => []GrantsInv
BY GrantsInitEstablishes, GrantsStepKeeps, PTL DEF GrantsSpec

-----------------------------------------------------------------------------
(* Theorems *)

\* Every table and call has its type, and use_count stays under its bound.
THEOREM GrantsTypes == GrantsSpec => []GrantsTypeOK
BY GrantsInvariant, PTL DEF GrantsInv

\* Two revocations of one grant may overwrite each other's id, and any statement may
\* fail: revocation_id names a record of the same grant nevertheless, with no
\* foreign key and no transaction.
THEOREM RevocationIsBacked == GrantsSpec => []RevocationBacked
BY GrantsInvariant, PTL DEF GrantsInv

\* The audit event, though nobody waits for it, never runs ahead of the revocation.
THEOREM AuditFollowsRevocation == GrantsSpec => []AuditedIsRevoked
BY GrantsInvariant, PTL DEF GrantsInv

\* No step takes a revocation back or starts a use of a revoked grant.
THEOREM RevocationIsFinal == GrantsSpec => RevokedForGood
<1>1. ASSUME GrantsInv, [GrantsNext]_grantVars
      PROVE  \A g \in Grants : Revoked(g) => Revoked(g)' /\ usesSent'[g] <= usesSent[g]
  <2> SUFFICES ASSUME NEW g \in Grants, Revoked(g)
               PROVE  Revoked(g)' /\ usesSent'[g] <= usesSent[g]
    OBVIOUS
  <2> USE GrantsAssumption DEF GrantsInv, GrantsTypeOK, Revoked
  <2>1. CASE UNCHANGED grantVars
    BY <1>1, <2>1 DEF grantVars
  <2>2. ASSUME NEW x \in Grants,
               GrantPermission(x) \/ Expires(x) \/ CheckGranted(x) \/ UsageLands(x)
        PROVE  Revoked(g)' /\ usesSent'[g] <= usesSent[g]
    BY <1>1, <2>2 DEF GrantPermission, Expires, CheckGranted, Active, UsageLands
  <2>3. ASSUME NEW r \in Revokers,
               \/ \E x \in Grants : CheckGrant(r, x)
               \/ InsertRecord(r) \/ MarkRevoked(r) \/ AuditEvent(r) \/ RevokerFails(r)
        PROVE  Revoked(g)' /\ usesSent'[g] <= usesSent[g]
    BY <1>1, <2>3 DEF CheckGrant, InsertRecord, MarkRevoked, AuditEvent, RevokerFails
  <2> QED
    BY <1>1, <2>1, <2>2, <2>3 DEF GrantsNext
<1> QED
  BY <1>1, GrantsInvariant, PTL DEF GrantsSpec, RevokedForGood

=============================================================================
