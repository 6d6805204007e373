------------------------- MODULE ApprovalStoreProofs -------------------------
(***************************************************************************)
(* Proofs about ApprovalStore for every set of requests and approvers,     *)
(* every capacity of the ring buffer and any number of upserts in flight.  *)
(*                                                                         *)
(* The three safety properties hold of the buffer, of the upserts in       *)
(* flight and of the table together, because an upsert that lands late is  *)
(* a copy that was made early.  What makes them inductive: an id has one   *)
(* entry (UniqueIds), and the approvals of a copy are of different people  *)
(* (DistinctApprovers), so that a count of approvals is a count of people. *)
(*                                                                         *)
(* The last section orders the copies of a request (Older): the entry of   *)
(* the buffer is the newest, and the others are its past.                  *)
(***************************************************************************)
EXTENDS ApprovalStore, FiniteSetTheorems, SequenceTheorems, TLAPS

UniqueIds == \A i, j \in DOMAIN buffer : buffer[i].id = buffer[j].id => i = j

People(r) == {r.approvals[k] : k \in DOMAIN r.approvals}

\* As many people as approvals, and enough of them once approved.
GoodApprovals(r) ==
  /\ IsFiniteSet(People(r)) /\ Cardinality(People(r)) = Len(r.approvals)
  /\ r.state \in {"approved", "revoked"} => Len(r.approvals) >= r.required

DistinctApprovers == \A r \in Copies : GoodApprovals(r)

\* The table has one row for each id.
RowsAreKeyed == \A id \in Requests : table[id] # None => table[id].id = id

StoreInv ==
  /\ TypeOK /\ UniqueIds /\ RowsAreKeyed
  /\ DistinctApprovers /\ TableFollowsBuffer /\ OverdueStaysOpen

\* An older copy in this state may stand beside an entry in that one.
Follows(old, new) ==
  CASE old = "pending"  -> TRUE
    [] old = "approved" -> new \in {"approved", "revoked"}
    [] OTHER            -> new = old

-----------------------------------------------------------------------------
(* Lemmas about the buffer *)

LEMMA BufferIsASequence ==
  ASSUME TypeOK
  PROVE  /\ buffer \in Seq(Records) /\ Len(buffer) \in Nat /\ DOMAIN buffer = 1..Len(buffer)
         /\ \A i \in DOMAIN buffer : buffer[i] \in Records
         /\ Len(buffer) <= Capacity /\ Capacity \in Nat \ {0}
<1>1. buffer \in Seq(Records) /\ Len(buffer) <= Capacity /\ Capacity \in Nat \ {0}
  BY StoreAssumption DEF TypeOK
<1> QED
  BY <1>1, LenProperties, ElementOfSeq

\* find() finds the entry of an id.
LEMMA EntryIsThere ==
  ASSUME TypeOK, UniqueIds, NEW id \in Ids
  PROVE  Index(id) \in DOMAIN buffer /\ Entry(id) \in Records /\ Entry(id).id = id
<1>1. PICK i \in DOMAIN buffer : buffer[i].id = id
  BY DEF Ids
<1>2. i \in 1..Len(buffer) /\ Len(buffer) \in Nat /\ DOMAIN buffer = 1..Len(buffer)
  BY <1>1, BufferIsASequence
<1>3. \A j \in 1..(i - 1) : buffer[j].id # id
  BY <1>1, <1>2 DEF UniqueIds
<1>4. Index(id) \in DOMAIN buffer /\ buffer[Index(id)].id = id
  BY <1>1, <1>3 DEF Index
<1> QED
  BY <1>4, BufferIsASequence DEF Entry

\* appendToBuffer leaves the new entry, and of the old ones none with its id.
LEMMA AppendIsFresh ==
  ASSUME TypeOK, UniqueIds, NEW r \in Records, buffer' = AppendToBuffer(r)
  PROVE  /\ buffer' \in Seq(Records) /\ Len(buffer') <= Capacity
         /\ UniqueIds'
         /\ \A i \in DOMAIN buffer' :
              \/ buffer'[i] = r
              \/ buffer'[i].id # r.id /\ \E j \in DOMAIN buffer : buffer'[i] = buffer[j]
<1>1. /\ buffer \in Seq(Records) /\ Len(buffer) \in Nat /\ DOMAIN buffer = 1..Len(buffer)
      /\ Len(buffer) <= Capacity /\ Capacity \in Nat \ {0}
  BY BufferIsASequence
<1>2. CASE r.id \in Ids
  <2> DEFINE i == Index(r.id)
  <2>1. i \in 1..Len(buffer) /\ buffer[i].id = r.id
    BY <1>1, <1>2, EntryIsThere DEF Entry
  <2>2. buffer' = [buffer EXCEPT ![i] = r]
    BY <1>2 DEF AppendToBuffer
  <2> HIDE DEF i
  <2>3. /\ buffer' \in Seq(Records) /\ Len(buffer') = Len(buffer)
        /\ DOMAIN buffer' = DOMAIN buffer
        /\ \A j \in DOMAIN buffer : buffer'[j] = IF j = i THEN r ELSE buffer[j]
    BY <1>1, <2>1, <2>2, ExceptSeq
  <2> QED
    BY <1>1, <2>1, <2>3 DEF UniqueIds
<1>3. CASE r.id \notin Ids
  <2>1. \A j \in DOMAIN buffer : buffer[j].id # r.id
    BY <1>3 DEF Ids
  <2> DEFINE n == Len(buffer)
  <2>2. n \in Nat /\ DOMAIN buffer = 1..n /\ n <= Capacity /\ Capacity \in Nat \ {0}
    BY <1>1
  <2>3. CASE n = Capacity
    <3>1. buffer' = Append(Tail(buffer), r)
      BY <1>3, <2>3 DEF AppendToBuffer
    <3>2. /\ Tail(buffer) \in Seq(Records) /\ Len(Tail(buffer)) = n - 1
          /\ \A j \in 1..(n - 1) : Tail(buffer)[j] = buffer[j + 1]
      BY <1>1, <2>3
    <3>3. /\ buffer' \in Seq(Records) /\ Len(buffer') = n /\ DOMAIN buffer' = 1..n
          /\ \A j \in 1..(n - 1) : buffer'[j] = buffer[j + 1]
          /\ buffer'[n] = r
      BY <1>1, <2>3, <3>1, <3>2
    <3> HIDE DEF n
    <3>4. \A j \in 1..n : j = n \/ (j \in 1..(n - 1) /\ j + 1 \in 1..n)
      BY <2>2
    <3>5. UniqueIds'
      <4> SUFFICES ASSUME NEW i \in 1..n, NEW j \in 1..n, buffer'[i].id = buffer'[j].id
                   PROVE  i = j
        BY <3>3 DEF UniqueIds
      <4>1. i = n <=> j = n
        BY <2>1, <2>2, <3>3, <3>4
      <4>2. CASE i # n /\ j # n
        <5>1. buffer[i + 1].id = buffer[j + 1].id /\ i + 1 \in 1..n /\ j + 1 \in 1..n
          BY <3>3, <3>4, <4>2
        <5>2. i + 1 = j + 1
          BY <2>2, <5>1 DEF UniqueIds
        <5> QED
          BY <2>2, <5>2
      <4> QED
        BY <4>1, <4>2
    <3>6. \A i \in DOMAIN buffer' :
            \/ buffer'[i] = r
            \/ buffer'[i].id # r.id /\ \E j \in DOMAIN buffer : buffer'[i] = buffer[j]
      BY <2>1, <2>2, <3>3, <3>4
    <3> QED
      BY <2>2, <3>3, <3>5, <3>6
  <2>4. CASE n # Capacity
    <3>1. buffer' = Append(buffer, r)
      BY <1>3, <2>4 DEF AppendToBuffer
    <3>2. /\ buffer' \in Seq(Records) /\ Len(buffer') = n + 1 /\ DOMAIN buffer' = 1..(n + 1)
          /\ \A j \in 1..n : buffer'[j] = buffer[j]
          /\ buffer'[n + 1] = r
      BY <1>1, <3>1
    <3> HIDE DEF n
    <3>3. \A j \in 1..(n + 1) : j = n + 1 \/ j \in 1..n
      BY <2>2
    <3>4. UniqueIds'
      <4> SUFFICES ASSUME NEW i \in 1..(n + 1), NEW j \in 1..(n + 1),
                          buffer'[i].id = buffer'[j].id
                   PROVE  i = j
        BY <3>2 DEF UniqueIds
      <4>1. i = n + 1 <=> j = n + 1
        BY <2>1, <2>2, <3>2, <3>3
      <4>2. CASE i # n + 1 /\ j # n + 1
        BY <2>2, <3>2, <3>3, <4>2 DEF UniqueIds
      <4> QED
        BY <4>1, <4>2
    <3>5. \A i \in DOMAIN buffer' :
            \/ buffer'[i] = r
            \/ buffer'[i].id # r.id /\ \E j \in DOMAIN buffer : buffer'[i] = buffer[j]
      BY <2>1, <2>2, <3>2, <3>3
    <3> QED
      BY <2>2, <2>4, <3>2, <3>4, <3>5
  <2> QED
    BY <2>3, <2>4
<1> QED
  BY <1>2, <1>3

-----------------------------------------------------------------------------
(* Lemmas about the steps *)

LEMMA StoreInitEstablishes == Init => StoreInv
BY StoreAssumption
   DEF Init, StoreInv, TypeOK, UniqueIds, RowsAreKeyed, DistinctApprovers, TableFollowsBuffer,
       OverdueStaysOpen, Copies, Rows, None

\* A record that follows the copies of its request may be saved.
LEMMA SaveKeeps ==
  ASSUME StoreInv, NEW r \in Records, Save(r), ~r.overdue, GoodApprovals(r),
         \A c \in writes \cup Rows : c.id = r.id => Follows(c.state, r.state)
  PROVE  StoreInv'
<1> USE DEF StoreInv
<1>1. /\ buffer' \in Seq(Records) /\ Len(buffer') <= Capacity
      /\ UniqueIds'
      /\ \A i \in DOMAIN buffer' :
           \/ buffer'[i] = r
           \/ buffer'[i].id # r.id /\ \E j \in DOMAIN buffer : buffer'[i] = buffer[j]
  BY AppendIsFresh DEF Save
<1>2. writes' = writes \cup {r} /\ table' = table /\ reply' = "ok" /\ Rows' = Rows
  BY DEF Save, Rows
<1>3. TypeOK'
  BY <1>1, <1>2 DEF TypeOK
<1>4. Copies' \subseteq Copies \cup {r}
  BY <1>1, <1>2 DEF Copies
<1>5. DistinctApprovers'
  BY <1>4 DEF DistinctApprovers
<1>6. TableFollowsBuffer'
  BY <1>1, <1>2 DEF TableFollowsBuffer, Follows
<1>7. OverdueStaysOpen'
  BY <1>1, <1>2, <1>4 DEF OverdueStaysOpen
<1> QED
  BY <1>1, <1>2, <1>3, <1>5, <1>6, <1>7 DEF RowsAreKeyed

\* What the invariant says of an entry and of the copies of its request.
LEMMA EntryIsFollowed ==
  ASSUME StoreInv, NEW id \in Ids
  PROVE  /\ Entry(id) \in Records /\ Entry(id).id = id /\ GoodApprovals(Entry(id))
         /\ Entry(id).overdue => Entry(id).state \in {"pending", "expired"}
         /\ \A c \in writes \cup Rows :
              c \in Records /\ (c.id = id => Follows(c.state, Entry(id).state))
<1> USE DEF StoreInv
<1>1. /\ Index(id) \in DOMAIN buffer /\ Entry(id) = buffer[Index(id)]
      /\ Entry(id) \in Records /\ Entry(id).id = id
  BY EntryIsThere DEF Entry
<1>2. Entry(id) \in Copies
  BY <1>1 DEF Copies
<1>3. writes \cup Rows \subseteq Records
  BY DEF TypeOK, Rows
<1>4. \A c \in writes \cup Rows : c.id = id => Follows(c.state, Entry(id).state)
  BY <1>1 DEF TableFollowsBuffer, Follows
<1>5. Entry(id).overdue => Entry(id).state \in {"pending", "expired"}
  BY <1>1, <1>2 DEF OverdueStaysOpen
<1> QED
  BY <1>1, <1>2, <1>3, <1>4, <1>5 DEF DistinctApprovers

LEMMA CreateKeeps ==
  ASSUME StoreInv, NEW id \in Requests, NEW required \in Quorums, Create(id, required)
  PROVE  StoreInv'
<1> USE DEF StoreInv
<1> DEFINE r == [id |-> id, state |-> "pending", required |-> required,
                 approvals |-> <<>>, overdue |-> FALSE]
<1>1. Save(r) /\ IsNewId(id)
  BY DEF Create
<1>2. r \in Records
  BY DEF Records, States
<1>3. GoodApprovals(r)
  <2>1. People(r) = {} /\ Len(r.approvals) = 0
    BY DEF People
  <2> QED
    BY <2>1, FS_EmptySet DEF GoodApprovals
<1>4. \A c \in writes \cup Rows : c.id # id
  BY <1>1 DEF IsNewId, Rows, RowsAreKeyed
<1>5. ~r.overdue /\ r.id = id
  OBVIOUS
<1> HIDE DEF r
<1> QED
  BY <1>1, <1>2, <1>3, <1>4, <1>5, SaveKeeps

\* Another approver, and the resolution once there are enough.
LEMMA ApproveKeeps ==
  ASSUME StoreInv, NEW id \in Requests, NEW who \in Approvers, Approve(id, who)
  PROVE  StoreInv'
<1> DEFINE old == Entry(id)
           approvals == Append(old.approvals, who)
           new == [old EXCEPT !.approvals = approvals,
                              !.state = IF Len(approvals) >= old.required
                                          THEN "approved" ELSE "pending"]
<1>1. /\ id \in Ids /\ Save(new) /\ old.state = "pending" /\ ~old.overdue
      /\ IsNewApprover(old, who)
  BY DEF Approve, Found, IsExpired, CanTransition
<1>2. /\ old \in Records /\ old.id = id /\ GoodApprovals(old)
      /\ \A c \in writes \cup Rows :
           c \in Records /\ (c.id = id => Follows(c.state, "pending"))
  BY <1>1, EntryIsFollowed
<1>3. old.approvals \in Seq(Approvers) /\ Len(old.approvals) \in Nat
  BY <1>2 DEF Records
<1>4. /\ approvals \in Seq(Approvers) /\ Len(approvals) = Len(old.approvals) + 1
      /\ DOMAIN approvals = 1..(Len(old.approvals) + 1)
      /\ \A k \in 1..Len(old.approvals) : approvals[k] = old.approvals[k]
      /\ approvals[Len(old.approvals) + 1] = who
      /\ DOMAIN old.approvals = 1..Len(old.approvals)
  BY <1>3
<1> HIDE DEF old, approvals
<1>5. /\ new \in Records /\ new.id = id /\ new.overdue = old.overdue
      /\ new.approvals = approvals /\ new.required = old.required
      /\ new.state = IF Len(approvals) >= old.required THEN "approved" ELSE "pending"
  BY <1>2, <1>4 DEF Records, States
<1> HIDE DEF new
<1>6. GoodApprovals(new)
  <2>1. People(new) = People(old) \cup {who} /\ who \notin People(old)
    BY <1>1, <1>3, <1>4, <1>5 DEF People, IsNewApprover
  <2>2. IsFiniteSet(People(new)) /\ Cardinality(People(new)) = Cardinality(People(old)) + 1
    BY <1>2, <2>1, FS_AddElement DEF GoodApprovals
  <2> QED
    BY <1>2, <1>4, <1>5, <2>2 DEF GoodApprovals
<1>7. \A c \in writes \cup Rows : c.id = new.id => Follows(c.state, new.state)
  BY <1>2, <1>5 DEF Follows, Records, States
<1> QED
  BY <1>1, <1>5, <1>6, <1>7, SaveKeeps

\* Denying and revoking leave the approvals as they are.
LEMMA ResolveKeeps ==
  ASSUME StoreInv, NEW id \in Requests, Deny(id) \/ Revoke(id)
  PROVE  StoreInv'
<1> DEFINE old == Entry(id)
<1>1. PICK state \in {"denied", "revoked"} :
        /\ id \in Ids /\ Found(id) /\ Save([old EXCEPT !.state = state])
        /\ CanTransition(old.state, state)
  BY DEF Deny, Revoke, Found
<1>2. /\ old \in Records /\ old.id = id /\ GoodApprovals(old)
      /\ old.overdue => old.state \in {"pending", "expired"}
      /\ \A c \in writes \cup Rows :
           c \in Records /\ (c.id = id => Follows(c.state, old.state))
  BY <1>1, EntryIsFollowed
<1>3. ~old.overdue
  BY <1>1, <1>2 DEF Found, IsExpired, CanTransition, Records
<1> DEFINE new == [old EXCEPT !.state = state]
<1> HIDE DEF old
<1>4. /\ new \in Records /\ new.id = id /\ ~new.overdue /\ new.state = state
      /\ new.approvals = old.approvals /\ new.required = old.required
  BY <1>2, <1>3 DEF Records, States
<1>5. Save(new)
  BY <1>1 DEF old
<1> HIDE DEF new
<1>6. GoodApprovals(new)
  BY <1>1, <1>2, <1>4 DEF GoodApprovals, People, CanTransition
<1>7. \A c \in writes \cup Rows : c.id = new.id => Follows(c.state, new.state)
  BY <1>1, <1>2, <1>4 DEF Follows, CanTransition, Records, States
<1> QED
  BY <1>4, <1>5, <1>6, <1>7, SaveKeeps

\* An upsert lands or fails: a copy moves or is gone.
LEMMA WriteKeeps ==
  ASSUME StoreInv, NEW w \in writes, WriteLands(w) \/ WriteFails(w)
  PROVE  StoreInv'
<1> USE DEF StoreInv
<1>1. w \in Records /\ w # None /\ w.id \in Requests
  <2>1. w \in Records
    BY DEF TypeOK
  <2>2. w.state \in States /\ w.id \in Requests
    BY <2>1 DEF Records
  <2>3. None.state = "none" /\ "none" \notin States
    BY DEF None, States
  <2> QED
    BY <2>1, <2>2, <2>3
<1>2. writes' \subseteq writes /\ UNCHANGED <<buffer, reply>>
  BY DEF WriteLands, WriteFails
<1>3. TypeOK' /\ RowsAreKeyed'
  BY <1>1 DEF WriteLands, WriteFails, TypeOK, RowsAreKeyed
<1>4. Rows' \subseteq Rows \cup writes
  BY <1>1 DEF WriteLands, WriteFails, TypeOK, Rows
<1>5. Copies' \subseteq Copies
  BY <1>2, <1>4 DEF Copies
<1>6. UniqueIds' /\ DistinctApprovers' /\ OverdueStaysOpen'
  BY <1>2, <1>5 DEF UniqueIds, DistinctApprovers, OverdueStaysOpen
<1>7. TableFollowsBuffer'
  BY <1>2, <1>4 DEF TableFollowsBuffer
<1> QED
  BY <1>3, <1>6, <1>7

\* A restart forgets the buffer, and only the buffer.
LEMMA RestartKeeps ==
  ASSUME StoreInv, Restart
  PROVE  StoreInv'
<1> USE DEF StoreInv
<1>1. buffer' = <<>> /\ UNCHANGED <<writes, table, reply>> /\ Rows' = Rows
  BY DEF Restart, Rows
<1>2. TypeOK' /\ UniqueIds' /\ RowsAreKeyed'
  <2>1. buffer' \in Seq(Records) /\ Len(buffer') = 0
    BY <1>1, EmptySeq
  <2>2. DOMAIN buffer' = {}
    BY <1>1
  <2>3. 0 <= Capacity /\ UNCHANGED <<writes, table, reply>>
    BY <1>1, StoreAssumption
  <2>4. TypeOK'
    BY <2>1, <2>3 DEF TypeOK
  <2> QED
    BY <1>1, <2>2, <2>4 DEF UniqueIds, RowsAreKeyed
<1>3. Copies' \subseteq Copies
  BY <1>1 DEF Copies
<1>4. DistinctApprovers' /\ TableFollowsBuffer' /\ OverdueStaysOpen'
  BY <1>1, <1>3 DEF DistinctApprovers, TableFollowsBuffer, OverdueStaysOpen
<1> QED
  BY <1>2, <1>4

\* The TTL of a pending entry runs out: all its copies are pending.
LEMMA TtlKeeps ==
  ASSUME StoreInv, NEW id \in Requests, TtlElapses(id)
  PROVE  StoreInv'
<1> USE DEF StoreInv
<1> DEFINE n == Index(id)
           old == buffer[n]
           new == [old EXCEPT !.overdue = TRUE]
<1>1. id \in Ids /\ old.state = "pending" /\ buffer' = [buffer EXCEPT ![n] = new]
      /\ UNCHANGED <<writes, table, reply>> /\ Rows' = Rows
  BY DEF TtlElapses, Entry, Rows
<1>2. /\ n \in DOMAIN buffer /\ old \in Records /\ old.id = id /\ GoodApprovals(old)
      /\ \A c \in writes \cup Rows :
           c \in Records /\ (c.id = id => Follows(c.state, "pending"))
  BY <1>1, EntryIsThere, EntryIsFollowed DEF Entry
<1>3. /\ new \in Records /\ new.id = id /\ new.state = "pending"
      /\ new.approvals = old.approvals
  BY <1>1, <1>2 DEF Records
<1> HIDE DEF new
<1>4. /\ buffer' \in Seq(Records) /\ Len(buffer') = Len(buffer)
      /\ DOMAIN buffer' = DOMAIN buffer
      /\ \A j \in DOMAIN buffer : buffer'[j] = IF j = n THEN new ELSE buffer[j]
  BY <1>1, <1>2, <1>3, BufferIsASequence, ExceptSeq
<1> HIDE DEF n
<1>5. TypeOK' /\ UniqueIds' /\ RowsAreKeyed'
  <2>1. TypeOK' /\ RowsAreKeyed'
    BY <1>1, <1>4 DEF TypeOK, RowsAreKeyed
  <2>2. UniqueIds'
    BY <1>2, <1>3, <1>4 DEF UniqueIds
  <2> QED
    BY <2>1, <2>2
<1>6. Copies' \subseteq Copies \cup {new}
  BY <1>1, <1>4 DEF Copies
<1>7. DistinctApprovers'
  BY <1>2, <1>3, <1>6 DEF DistinctApprovers, GoodApprovals, People
<1>8. TableFollowsBuffer'
  BY <1>1, <1>2, <1>3, <1>4 DEF TableFollowsBuffer
<1>9. OverdueStaysOpen'
  <2> SUFFICES ASSUME NEW i \in DOMAIN buffer', buffer'[i].overdue,
                      NEW c \in Copies', c.id = buffer'[i].id
               PROVE  c.state \in {"pending", "expired"}
    BY DEF OverdueStaysOpen
  <2>1. CASE i # n
    <3>1. c # new
      BY <1>2, <1>3, <1>4, <2>1 DEF UniqueIds
    <3> QED
      BY <1>4, <1>6, <2>1, <3>1 DEF OverdueStaysOpen
  <2>2. CASE i = n
    <3>1. c.id = id
      BY <1>3, <1>4, <2>2
    <3>2. CASE c \in writes \cup Rows
      BY <1>2, <3>1, <3>2 DEF Follows, Records, States
    <3>3. ASSUME NEW j \in DOMAIN buffer', c = buffer'[j]
          PROVE  c.state = "pending"
      BY <1>3, <1>4, <1>5, <2>2, <3>1, <3>3 DEF UniqueIds
    <3> QED
      BY <1>1, <3>2, <3>3 DEF Copies
  <2> QED
    BY <2>1, <2>2
<1> QED
  BY <1>5, <1>7, <1>8, <1>9

LEMMA StoreStepKeeps == StoreInv /\ [Next]_vars => StoreInv'
<1> SUFFICES ASSUME StoreInv, [Next]_vars PROVE StoreInv'
  OBVIOUS
<1>1. ASSUME UNCHANGED <<buffer, writes, table>>,
             reply' \in {"ok", "not found", "refused", "overflow", reply}
      PROVE  StoreInv'
  <2>1. Copies' = Copies /\ Rows' = Rows
    BY <1>1 DEF Copies, Rows
  <2> QED
    BY <1>1, <2>1 DEF StoreInv, TypeOK, UniqueIds, RowsAreKeyed, DistinctApprovers,
                      TableFollowsBuffer, OverdueStaysOpen
<1>2. CASE UNCHANGED vars
  BY <1>1, <1>2 DEF vars
<1>3. CASE Next
  BY <1>1, <1>3, CreateKeeps, ApproveKeeps, ResolveKeeps, WriteKeeps, RestartKeeps, TtlKeeps
     DEF Next, Answer, Refuse, Get, Overflow, NotFound, GetPending
<1> QED
  BY <1>2, <1>3

\* The inductive invariant of the store: types, one entry for an id, one approval for a
\* person in every copy of a record, and the order of buffer, upserts and table.
THEOREM StoreInvariant == Spec => []StoreInv
BY StoreInitEstablishes, StoreStepKeeps, PTL DEF Spec

-----------------------------------------------------------------------------
(* Theorems *)

\* Buffer, upserts and table hold records of requests, and the buffer never grows over
\* RING_BUFFER_MAX.
THEOREM StoreTypes == Spec => []TypeOK
<1>1. StoreInv => TypeOK
  BY DEF StoreInv
<1> QED
  BY <1>1, StoreInvariant, PTL

\* Every copy of an approved or revoked request carries the approvals of as many
\* different people as required, for every number required and however late it lands.
THEOREM QuorumIsRecorded == Spec => []RecordedQuorum
<1>1. StoreInv => RecordedQuorum
  <2> SUFFICES ASSUME StoreInv, NEW r \in Copies, r.state \in {"approved", "revoked"}
               PROVE  Cardinality(People(r)) >= r.required
    BY DEF RecordedQuorum, People
  <2> QED
    BY DEF StoreInv, DistinctApprovers, GoodApprovals
<1> QED
  BY <1>1, StoreInvariant, PTL

\* Upserts in any order: the table never shows another resolution than the buffer.
THEOREM TableNeverDiverges == Spec => []TableFollowsBuffer
<1>1. StoreInv => TableFollowsBuffer
  BY DEF StoreInv
<1> QED
  BY <1>1, StoreInvariant, PTL

\* Nobody resolves a request after its TTL, and no copy says that somebody has.
THEOREM OverdueIsNeverResolved == Spec => []OverdueStaysOpen
<1>1. StoreInv => OverdueStaysOpen
  BY DEF StoreInv
<1> QED
  BY <1>1, StoreInvariant, PTL

-----------------------------------------------------------------------------
(* One history for every request *)

\* d is c or a later version of it: the same request, further on, with the approvals of
\* c and perhaps more; a resolution is given on the approvals there are.
Older(c, d) ==
  /\ c.required = d.required /\ Follows(c.state, d.state)
  /\ Len(c.approvals) <= Len(d.approvals)
  /\ \A k \in 1..Len(c.approvals) : c.approvals[k] = d.approvals[k]
  /\ c.state # "pending" => Len(c.approvals) = Len(d.approvals)

EntryIsNewest ==
  \A i \in DOMAIN buffer : \A c \in Copies : c.id = buffer[i].id => Older(c, buffer[i])

\* Of two copies of a request, wherever they are and even after the buffer has lost the
\* entry, one is a version of the other.
OneHistory == \A c, d \in Copies : c.id = d.id => Older(c, d) \/ Older(d, c)

HistoryInv == EntryIsNewest /\ OneHistory

\* What a step makes of an entry that stays in the buffer is a version of it.
EntriesMoveOn ==
  \A i \in DOMAIN buffer : \A j \in DOMAIN buffer' :
    buffer'[j].id = buffer[i].id => Older(buffer[i], buffer'[j])

LEMMA CopiesAreRecords ==
  ASSUME TypeOK
  PROVE  Copies \subseteq Records /\ \A i \in DOMAIN buffer : buffer[i] \in Copies
BY BufferIsASequence DEF TypeOK, Copies, Rows

LEMMA OlderIsReflexive ==
  ASSUME NEW c \in Records
  PROVE  Older(c, c)
<1>1. c.approvals \in Seq(Approvers) /\ c.state \in States
  BY DEF Records
<1>2. Len(c.approvals) \in Nat
  BY <1>1
<1> QED
  BY <1>1, <1>2 DEF Older, Follows, States

LEMMA OlderIsTransitive ==
  ASSUME NEW c \in Records, NEW d \in Records, NEW e \in Records, Older(c, d), Older(d, e)
  PROVE  Older(c, e)
<1>1. /\ Len(c.approvals) \in Nat /\ Len(d.approvals) \in Nat /\ Len(e.approvals) \in Nat
      /\ c.state \in States /\ d.state \in States /\ e.state \in States
  <2>1. \A r \in Records : r.approvals \in Seq(Approvers) /\ r.state \in States
    BY DEF Records
  <2>2. \A r \in Records : Len(r.approvals) \in Nat
    BY <2>1
  <2> QED
    BY <2>1, <2>2
<1>2. Follows(c.state, e.state) /\ (c.state # "pending" => d.state # "pending")
  BY <1>1 DEF Older, Follows, States
<1>3. ASSUME NEW k \in 1..Len(c.approvals)
      PROVE  c.approvals[k] = e.approvals[k]
  <2>1. k \in 1..Len(d.approvals)
    BY <1>1 DEF Older
  <2> QED
    BY <2>1 DEF Older
<1> QED
  BY <1>1, <1>2, <1>3 DEF Older

\* Nothing new: copies are gone, entries are gone or as they were.
LEMMA HistoryShrinks ==
  ASSUME StoreInv, HistoryInv, Copies' \subseteq Copies,
         \A i \in DOMAIN buffer' : \E j \in DOMAIN buffer : buffer'[i] = buffer[j]
  PROVE  HistoryInv' /\ EntriesMoveOn
<1>1. HistoryInv'
  BY DEF HistoryInv, EntryIsNewest, OneHistory
<1>2. EntriesMoveOn
  <2> SUFFICES ASSUME NEW i \in DOMAIN buffer, NEW j \in DOMAIN buffer',
                      buffer'[j].id = buffer[i].id
               PROVE  Older(buffer[i], buffer'[j])
    BY DEF EntriesMoveOn
  <2>1. buffer'[j] = buffer[i]
    BY DEF StoreInv, UniqueIds
  <2>2. buffer[i] \in Records
    BY BufferIsASequence DEF StoreInv
  <2> QED
    BY <2>1, <2>2, OlderIsReflexive
<1> QED
  BY <1>1, <1>2

\* A version of a request that is newer than all its copies takes the entry's place.
LEMMA HistoryGrows ==
  ASSUME StoreInv, HistoryInv, NEW r \in Records, Copies' \subseteq Copies \cup {r},
         \A c \in Copies : c.id = r.id => Older(c, r),
         \A i \in DOMAIN buffer' :
           \/ buffer'[i] = r
           \/ buffer'[i].id # r.id /\ \E j \in DOMAIN buffer : buffer'[i] = buffer[j]
  PROVE  HistoryInv' /\ EntriesMoveOn
<1>1. Older(r, r)
  BY OlderIsReflexive
<1>2. EntryIsNewest'
  <2> SUFFICES ASSUME NEW i \in DOMAIN buffer', NEW c \in Copies', c.id = buffer'[i].id
               PROVE  Older(c, buffer'[i])
    BY DEF EntryIsNewest
  <2>1. CASE buffer'[i] = r
    BY <1>1, <2>1
  <2>2. CASE buffer'[i].id # r.id /\ \E j \in DOMAIN buffer : buffer'[i] = buffer[j]
    BY <2>2 DEF HistoryInv, EntryIsNewest
  <2> QED
    BY <2>1, <2>2
<1>3. OneHistory'
  BY <1>1 DEF HistoryInv, OneHistory
<1>4. EntriesMoveOn
  <2> SUFFICES ASSUME NEW i \in DOMAIN buffer, NEW j \in DOMAIN buffer',
                      buffer'[j].id = buffer[i].id
               PROVE  Older(buffer[i], buffer'[j])
    BY DEF EntriesMoveOn
  <2>1. buffer[i] \in Copies /\ buffer[i] \in Records
    BY CopiesAreRecords DEF StoreInv
  <2>2. CASE buffer'[j] = r
    BY <2>1, <2>2
  <2>3. CASE \E k \in DOMAIN buffer : buffer'[j] = buffer[k]
    BY <2>1, <2>3, OlderIsReflexive DEF StoreInv, UniqueIds
  <2> QED
    BY <2>2, <2>3
<1> QED
  BY <1>2, <1>3, <1>4 DEF HistoryInv

LEMMA SaveGrows ==
  ASSUME StoreInv, HistoryInv, NEW r \in Records, Save(r),
         \A c \in Copies : c.id = r.id => Older(c, r)
  PROVE  HistoryInv' /\ EntriesMoveOn
<1>1. \A i \in DOMAIN buffer' :
        \/ buffer'[i] = r
        \/ buffer'[i].id # r.id /\ \E j \in DOMAIN buffer : buffer'[i] = buffer[j]
  BY AppendIsFresh DEF Save, StoreInv
<1>2. Copies' \subseteq Copies \cup {r}
  BY <1>1 DEF Save, Copies, Rows
<1> QED
  BY <1>1, <1>2, HistoryGrows

\* A version of the entry is one of all its copies.
LEMMA EntryLeads ==
  ASSUME StoreInv, HistoryInv, NEW id \in Ids, NEW r \in Records, r.id = id,
         Older(Entry(id), r)
  PROVE  \A c \in Copies : c.id = r.id => Older(c, r)
<1>1. Index(id) \in DOMAIN buffer /\ Entry(id) = buffer[Index(id)] /\ Entry(id) \in Records
      /\ Entry(id).id = id
  BY EntryIsThere DEF StoreInv, Entry
<1>2. \A c \in Copies : c \in Records /\ (c.id = id => Older(c, Entry(id)))
  BY <1>1, CopiesAreRecords DEF StoreInv, HistoryInv, EntryIsNewest
<1> QED
  BY <1>1, <1>2, OlderIsTransitive

LEMMA ApproveMovesOn ==
  ASSUME StoreInv, HistoryInv, NEW id \in Requests, NEW who \in Approvers, Approve(id, who)
  PROVE  HistoryInv' /\ EntriesMoveOn
<1> DEFINE old == Entry(id)
           approvals == Append(old.approvals, who)
           new == [old EXCEPT !.approvals = approvals,
                              !.state = IF Len(approvals) >= old.required
                                          THEN "approved" ELSE "pending"]
<1>1. id \in Ids /\ Save(new) /\ old.state = "pending"
  BY DEF Approve, Found, CanTransition
<1>2. old \in Records /\ old.id = id
  BY <1>1, EntryIsThere DEF StoreInv
<1>3. old.approvals \in Seq(Approvers) /\ Len(old.approvals) \in Nat
  BY <1>2 DEF Records
<1>4. /\ approvals \in Seq(Approvers) /\ Len(approvals) = Len(old.approvals) + 1
      /\ \A k \in 1..Len(old.approvals) : approvals[k] = old.approvals[k]
  BY <1>3
<1> HIDE DEF approvals
<1>5. Older(old, new) /\ new \in Records /\ new.id = id
  <2> HIDE DEF old
  <2>1. /\ new \in Records /\ new.id = id /\ new.approvals = approvals
        /\ new.required = old.required /\ new.state \in {"approved", "pending"}
    BY <1>2, <1>4 DEF Records, States
  <2> QED
    BY <1>1, <1>3, <1>4, <2>1 DEF Older, Follows
<1> QED
  BY <1>1, <1>5, EntryLeads, SaveGrows

LEMMA ResolveMovesOn ==
  ASSUME StoreInv, HistoryInv, NEW id \in Requests, Deny(id) \/ Revoke(id)
  PROVE  HistoryInv' /\ EntriesMoveOn
<1> DEFINE old == Entry(id)
<1>1. PICK state \in {"denied", "revoked"} :
        /\ id \in Ids /\ Save([old EXCEPT !.state = state]) /\ CanTransition(old.state, state)
  BY DEF Deny, Revoke, Found
<1> DEFINE new == [old EXCEPT !.state = state]
<1>2. old \in Records /\ old.id = id
  BY <1>1, EntryIsThere DEF StoreInv
<1>3. old.approvals \in Seq(Approvers) /\ Len(old.approvals) \in Nat
  BY <1>2 DEF Records
<1>4. Older(old, new) /\ new \in Records /\ new.id = id
  <2> HIDE DEF old
  <2>1. /\ new \in Records /\ new.id = id /\ new.approvals = old.approvals
        /\ new.required = old.required /\ new.state = state
    BY <1>2 DEF Records, States
  <2> QED
    BY <1>1, <1>3, <2>1 DEF Older, Follows, CanTransition
<1> QED
  BY <1>1, <1>4, EntryLeads, SaveGrows

LEMMA CreateBeginsHistory ==
  ASSUME StoreInv, HistoryInv, NEW id \in Requests, NEW required \in Quorums,
         Create(id, required)
  PROVE  HistoryInv' /\ EntriesMoveOn
<1> DEFINE r == [id |-> id, state |-> "pending", required |-> required,
                 approvals |-> <<>>, overdue |-> FALSE]
<1>1. Save(r) /\ IsNewId(id)
  BY DEF Create
<1>2. r \in Records /\ r.id = id
  BY DEF Records, States
<1>3. \A c \in Copies : c.id # id
  BY <1>1 DEF IsNewId, Ids, Copies, Rows, StoreInv, RowsAreKeyed
<1> HIDE DEF r
<1> QED
  BY <1>1, <1>2, <1>3, SaveGrows

LEMMA TtlMovesOn ==
  ASSUME StoreInv, HistoryInv, NEW id \in Requests, TtlElapses(id)
  PROVE  HistoryInv' /\ EntriesMoveOn
<1> DEFINE n == Index(id)
           old == buffer[n]
           new == [old EXCEPT !.overdue = TRUE]
<1>1. id \in Ids /\ buffer' = [buffer EXCEPT ![n] = new] /\ UNCHANGED <<writes, table>>
  BY DEF TtlElapses, Entry
<1>2. n \in DOMAIN buffer /\ old \in Records /\ old.id = id /\ old = Entry(id)
  BY <1>1, EntryIsThere DEF StoreInv, Entry
<1>3. new \in Records /\ new.id = id /\ Older(old, new)
  <2> HIDE DEF old
  <2>1. /\ new \in Records /\ new.id = id /\ new.approvals = old.approvals
        /\ new.required = old.required /\ new.state = old.state
    BY <1>2 DEF Records
  <2>2. Older(old, old)
    BY <1>2, OlderIsReflexive
  <2> QED
    BY <2>1, <2>2 DEF Older
<1> HIDE DEF new
<1>4. /\ DOMAIN buffer' = DOMAIN buffer
      /\ \A j \in DOMAIN buffer : buffer'[j] = IF j = n THEN new ELSE buffer[j]
  BY <1>1, <1>2, <1>3, BufferIsASequence, ExceptSeq DEF StoreInv
<1> HIDE DEF n
<1>5. \A i \in DOMAIN buffer' :
        \/ buffer'[i] = new
        \/ buffer'[i].id # new.id /\ \E j \in DOMAIN buffer : buffer'[i] = buffer[j]
  BY <1>2, <1>3, <1>4 DEF StoreInv, UniqueIds
<1>6. Copies' \subseteq Copies \cup {new}
  BY <1>1, <1>4 DEF Copies, Rows
<1> QED
  BY <1>1, <1>2, <1>3, <1>5, <1>6, EntryLeads, HistoryGrows

LEMMA HistoryStep == StoreInv /\ HistoryInv /\ [Next]_vars => HistoryInv' /\ [EntriesMoveOn]_vars
<1> SUFFICES ASSUME StoreInv, HistoryInv, [Next]_vars
             PROVE  HistoryInv' /\ EntriesMoveOn
  OBVIOUS
<1>1. ASSUME UNCHANGED <<buffer, writes, table>>
      PROVE  HistoryInv' /\ EntriesMoveOn
  <2>1. Copies' = Copies
    BY <1>1 DEF Copies, Rows
  <2> QED
    BY <1>1, <2>1, HistoryShrinks
<1>2. ASSUME NEW w \in writes, WriteLands(w) \/ WriteFails(w)
      PROVE  HistoryInv' /\ EntriesMoveOn
  <2>1. w \in Records
    BY DEF StoreInv, TypeOK
  <2>2. Copies' \subseteq Copies /\ UNCHANGED buffer
    BY <1>2, <2>1 DEF WriteLands, WriteFails, StoreInv, TypeOK, Copies, Rows
  <2> QED
    BY <2>2, HistoryShrinks
<1>3. CASE Restart
  <2>1. buffer' = <<>> /\ UNCHANGED <<writes, table>>
    BY <1>3 DEF Restart
  <2>2. Copies' \subseteq Copies /\ DOMAIN buffer' = {}
    BY <2>1 DEF Copies, Rows
  <2> QED
    BY <2>2, HistoryShrinks
<1> QED
  BY <1>1, <1>2, <1>3, CreateBeginsHistory, ApproveMovesOn, ResolveMovesOn, TtlMovesOn
     DEF Next, vars, Answer, Refuse, Get, Overflow, NotFound, GetPending

\* Every request has one history: its copies in the buffer, in flight and in the table,
\* also those that outlive the entry (the ring buffer overwrites the oldest, a restart
\* loses all), are versions of each other.  No two of them show different resolutions or
\* approvals given by different people, and none gives an approval after the resolution.
THEOREM CopiesShareOneHistory == Spec => []OneHistory
<1>1. Init => HistoryInv
  BY DEF Init, HistoryInv, EntryIsNewest, OneHistory, Copies, Rows
<1>2. Spec => []HistoryInv
  BY <1>1, HistoryStep, StoreInvariant, PTL DEF Spec
<1> QED
  BY <1>2, PTL DEF HistoryInv

\* ALLOWED_TRANSITIONS, over whole behaviours and with the approvals: a handler leaves an
\* entry alone, adds approvals to a pending one, or moves it forward.
THEOREM EntriesOnlyMoveOn == Spec => [][EntriesMoveOn]_vars
<1>1. Init => HistoryInv
  BY DEF Init, HistoryInv, EntryIsNewest, OneHistory, Copies, Rows
<1> QED
  BY <1>1, HistoryStep, StoreInvariant, PTL DEF Spec

=============================================================================
