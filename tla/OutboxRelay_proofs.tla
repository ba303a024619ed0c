-------------------------- MODULE OutboxRelay_proofs --------------------------
(***************************************************************************)
(* Proofs about the outbox relay, for any number of rows, relays, retries  *)
(* and faults and for any batch size.                                      *)
(***************************************************************************)
EXTENDS OutboxRelay, TLAPS

(***************************************************************************)
(* What the relays remember is true.  A claimed row was inserted; the head *)
(* of a confirmed batch is with the broker, the head of an invalid one has *)
(* an invalid payload; and the retry count read at the claim is still the  *)
(* row's count as long as the relay owns the row, however often the lease  *)
(* has changed hands in between.  A row starts with no failures.           *)
(***************************************************************************)
IsHead(r, e) == \A f \in batch[r] : e.id <= f.id
ClaimedExists == \A r \in Relays : \A e \in batch[r] : rows[e.id].status # "absent"
ConfirmedIsAccepted ==
    \A r \in Relays : \A e \in batch[r] : phase[r] = "confirmed" /\ IsHead(r, e) => e.id \in accepted
InvalidIsInvalid ==
    \A r \in Relays : \A e \in batch[r] : phase[r] = "invalid" /\ IsHead(r, e) => e.id \in Invalid
CountIsFresh ==
    \A r \in Relays : \A e \in batch[r] :
      rows[e.id].status = "pending" /\ rows[e.id].owner = r => rows[e.id].retryCount = e.retryCount

AbsentIsFresh == \A o \in OutboxIds : rows[o].status = "absent" => rows[o].retryCount = 0

Memory == AbsentIsFresh /\ ClaimedExists /\ ConfirmedIsAccepted /\ InvalidIsInvalid /\ CountIsFresh
RelayInv == RelayTypeOK /\ Memory /\ PublishedIsAccepted /\ DeadIsExhausted

-----------------------------------------------------------------------------
(* A claimed event names a row and carries a count. *)
LEMMA ClaimedType ==
    ASSUME RelayTypeOK, NEW r \in Relays, NEW e \in batch[r]
    PROVE  e.id \in OutboxIds /\ e.retryCount \in Nat /\ rows[e.id] \in RelayRow
BY DEF RelayTypeOK, Claimed

(* Finishing an event with a well-formed row keeps everything well formed. *)
LEMMA FinishType ==
    ASSUME RelayTypeOK, NEW r \in Relays, NEW e \in batch[r], NEW row \in RelayRow, Finish(r, e, row)
    PROVE  RelayTypeOK'
<1>1. rows' \in [OutboxIds -> RelayRow]
  BY ClaimedType DEF RelayTypeOK, Finish
<1>2. batch' \in [Relays -> SUBSET Claimed]
  BY DEF RelayTypeOK, Finish
<1>3. phase' \in [Relays -> Phases] /\ accepted' \subseteq OutboxIds /\ faults' \in Nat
  BY DEF RelayTypeOK, Finish, Phases
<1> QED
  BY <1>1, <1>2, <1>3 DEF RelayTypeOK

(* The rows MarkOutboxPublished and MarkOutboxFailure write. *)
LEMMA FinishedRows ==
    ASSUME NEW row \in RelayRow, NEW status \in {"pending", "dead"}
    PROVE  PublishedRow(row) \in RelayRow /\ FailedRow(row, status) \in RelayRow
<1>1. Released(row) \in RelayRow
  BY DEF Released, RelayRow
<1>2. PublishedRow(row) \in RelayRow
  BY <1>1 DEF PublishedRow, RelayRow
<1>3. row.retryCount + 1 \in Nat
  BY DEF RelayRow
<1>4. FailedRow(row, status) \in RelayRow
  BY <1>1, <1>3 DEF FailedRow, RelayRow
<1> QED
  BY <1>2, <1>4

(* Every step of the relays keeps the tables and the relays' memory well formed. *)
LEMMA RelayTypeStep == RelayTypeOK /\ [RelayNext]_relayVars => RelayTypeOK'
<1> SUFFICES ASSUME RelayTypeOK, [RelayNext]_relayVars PROVE RelayTypeOK'
  OBVIOUS
<1> USE RelayIds, RelayOwners, RelayBounds DEF RelayTypeOK, RelayRow, Claimed, Phases
<1>1. ASSUME NEW r \in Relays, ClaimOutbox(r) PROVE RelayTypeOK'
  <2> USE <1>1
  <2>1. PICK B \in SUBSET Claimable :
          /\ rows' = [o \in OutboxIds |-> IF o \in B THEN [rows[o] EXCEPT !.owner = r, !.leased = TRUE]
                                                     ELSE rows[o]]
          /\ batch' = [batch EXCEPT ![r] = {[id |-> o, retryCount |-> rows[o].retryCount] : o \in B}]
    BY DEF ClaimOutbox
  <2>2. rows' \in [OutboxIds -> RelayRow]
    BY <2>1
  <2>3. {[id |-> o, retryCount |-> rows[o].retryCount] : o \in B} \subseteq Claimed
    BY DEF Claimable
  <2> QED
    BY <2>1, <2>2, <2>3 DEF ClaimOutbox
<1>2. ASSUME NEW r \in Relays, NEW e \in batch[r], BuildFails(r, e) PROVE RelayTypeOK'
  BY <1>2 DEF BuildFails
<1>3. ASSUME NEW r \in Relays, NEW e \in batch[r], Publish(r, e) PROVE RelayTypeOK'
  BY <1>3, ClaimedType DEF Publish
<1>4. ASSUME NEW r \in Relays, NEW e \in batch[r], PublishFails(r, e) PROVE RelayTypeOK'
  BY <1>4, ClaimedType DEF PublishFails
<1>5. ASSUME NEW r \in Relays, NEW e \in batch[r], MarkOutboxPublished(r, e) PROVE RelayTypeOK'
  BY <1>5, ClaimedType, FinishedRows, FinishType DEF MarkOutboxPublished
<1>6. ASSUME NEW r \in Relays, NEW e \in batch[r], MarkOutboxFailure(r, e) PROVE RelayTypeOK'
  <2>1. rows[e.id] \in RelayRow
    BY ClaimedType
  <2>2. PICK status \in {"pending", "dead"} : Finish(r, e, FailedRow(rows[e.id], status))
    BY <1>6 DEF MarkOutboxFailure
  <2> QED
    BY <2>1, <2>2, FinishedRows, FinishType
<1>7. ASSUME NEW r \in Relays, RelayCrash(r) PROVE RelayTypeOK'
  BY <1>7 DEF RelayCrash
<1>8. ASSUME NEW o \in OutboxIds, LeaseLapses(o) PROVE RelayTypeOK'
  <2>1. rows' \in [OutboxIds -> RelayRow]
    BY <1>8 DEF LeaseLapses
  <2>2. faults' \in Nat
    BY <1>8 DEF LeaseLapses
  <2> QED
    BY <1>8, <2>1, <2>2 DEF LeaseLapses
<1>9. ASSUME NEW o \in OutboxIds, RetryDue(o) PROVE RelayTypeOK'
  BY <1>9 DEF RetryDue
<1>10. ASSUME NEW o \in OutboxIds, InsertOutbox({o}) PROVE RelayTypeOK'
  BY <1>10 DEF InsertOutbox, FreshRow, AbsentRelayRow
<1>11. CASE UNCHANGED relayVars
  BY <1>11 DEF relayVars
<1> QED
  BY <1>1, <1>2, <1>3, <1>4, <1>5, <1>6, <1>7, <1>8, <1>9, <1>10, <1>11
     DEF RelayNext, RelayStep, Work, ClockStep

(* The memory and the safety invariants hold initially. *)
LEMMA RelayInitInv == RelayInit => RelayInv
BY RelayIds, RelayOwners, RelayBounds
   DEF RelayInit, RelayInv, RelayTypeOK, Memory, AbsentIsFresh, ClaimedExists, ConfirmedIsAccepted,
       InvalidIsInvalid, CountIsFresh, PublishedIsAccepted, DeadIsExhausted, RelayRow, Phases, AbsentRelayRow

(* Marking a row: it was pending, owned by r and is released by the update. *)
LEMMA FinishStep ==
    ASSUME RelayInv, RelayTypeOK', NEW r \in Relays, NEW e \in batch[r], NEW row \in RelayRow,
           Finish(r, e, row), row.owner = NoOwner, row.status # "absent",
           row.status = "published" => e.id \in accepted,
           Owns(r, e.id) => /\ row.status = "dead" => e.id \in Invalid \/ row.retryCount = MaxRetries
                            /\ row.status = "pending" => row.retryCount < MaxRetries
    PROVE  RelayInv'
<1> USE RelayOwners DEF RelayInv
<1>0. e.id \in OutboxIds
  BY ClaimedType
<1>1. \A q \in Relays : batch'[q] \subseteq batch[q]
  BY DEF Finish, RelayTypeOK
<1>2. \A q \in Relays : phase'[q] = "publish" \/ (phase'[q] = phase[q] /\ batch'[q] = batch[q])
  BY DEF Finish, RelayTypeOK
<1>3. \A o \in OutboxIds : rows'[o] = rows[o] \/ (o = e.id /\ rows'[o] = row /\ Owns(r, o))
  BY <1>0 DEF Finish, RelayTypeOK
<1>4. accepted' = accepted
  BY DEF Finish
<1>5. ClaimedExists'
  BY <1>1, <1>3, ClaimedType DEF Memory, ClaimedExists
<1>6. ConfirmedIsAccepted' /\ InvalidIsInvalid'
  BY <1>2, <1>4 DEF Memory, ConfirmedIsAccepted, InvalidIsInvalid, IsHead
<1>7. CountIsFresh'
  BY <1>1, <1>3, ClaimedType DEF Memory, CountIsFresh
<1>8. PublishedIsAccepted'
  BY <1>3, <1>4 DEF PublishedIsAccepted
<1>9. DeadIsExhausted'
  BY <1>3 DEF DeadIsExhausted
<1>10. AbsentIsFresh'
  BY <1>3 DEF Memory, AbsentIsFresh
<1> QED
  BY <1>5, <1>6, <1>7, <1>8, <1>9, <1>10 DEF Memory

(* Every step of the relays preserves the inductive invariant. *)
LEMMA RelayInvStep == RelayInv /\ [RelayNext]_relayVars => RelayInv'
<1> SUFFICES ASSUME RelayInv, [RelayNext]_relayVars PROVE RelayInv'
  OBVIOUS
<1> USE RelayIds, RelayOwners, RelayBounds DEF RelayInv
<1>0. RelayTypeOK'
  BY RelayTypeStep
<1>1. ASSUME NEW r \in Relays, ClaimOutbox(r) PROVE RelayInv'
  <2>1. PICK B \in SUBSET Claimable :
          /\ rows' = [o \in OutboxIds |-> IF o \in B THEN [rows[o] EXCEPT !.owner = r, !.leased = TRUE]
                                                     ELSE rows[o]]
          /\ batch' = [batch EXCEPT ![r] = {[id |-> o, retryCount |-> rows[o].retryCount] : o \in B}]
    BY <1>1 DEF ClaimOutbox
  <2>2. /\ phase' = [phase EXCEPT ![r] = "publish"]
        /\ accepted' = accepted
    BY <1>1 DEF ClaimOutbox
  <2>3. \A o \in OutboxIds : /\ rows'[o].status = rows[o].status
                             /\ rows'[o].retryCount = rows[o].retryCount
                             /\ rows'[o].owner = IF o \in B THEN r ELSE rows[o].owner
    BY <2>1 DEF RelayTypeOK, RelayRow
  <2>4. \A e \in batch'[r] : e.id \in B /\ e.retryCount = rows[e.id].retryCount
    <3>1. batch'[r] = {[id |-> o, retryCount |-> rows[o].retryCount] : o \in B}
      BY <2>1 DEF RelayTypeOK
    <3>2. TAKE e \in batch'[r]
    <3>3. PICK o \in B : e = [id |-> o, retryCount |-> rows[o].retryCount]
      BY <3>1, <3>2
    <3> QED
      BY <3>3
  <2>5. \A q \in Relays \ {r} : batch'[q] = batch[q] /\ phase'[q] = phase[q]
    BY <2>1, <2>2 DEF RelayTypeOK
  <2>6. phase'[r] = "publish"
    BY <2>2 DEF RelayTypeOK
  <2>7. \A o \in B : o \in OutboxIds /\ rows[o].status = "pending"
    BY DEF Claimable
  <2>8. ClaimedExists'
    BY <2>3, <2>4, <2>5, <2>7, ClaimedType DEF Memory, ClaimedExists
  <2>9. ConfirmedIsAccepted' /\ InvalidIsInvalid'
    BY <2>2, <2>5, <2>6 DEF Memory, ConfirmedIsAccepted, InvalidIsInvalid, IsHead
  <2>10. CountIsFresh'
    <3>1. ASSUME NEW q \in Relays, NEW e \in batch'[q], rows'[e.id].status = "pending", rows'[e.id].owner = q
          PROVE  rows'[e.id].retryCount = e.retryCount
      <4>1. CASE q = r
        BY <2>3, <2>4, <2>7, <4>1
      <4>2. CASE q # r
        <5>1. e \in batch[q] /\ e.id \in OutboxIds
          BY <2>5, <4>2, ClaimedType
        <5>2. e.id \in B => rows'[e.id].owner = r
          BY <2>3, <5>1
        <5>3. rows[e.id].status = "pending" /\ rows[e.id].owner = q
          BY <2>3, <3>1, <4>2, <5>1, <5>2
        <5>4. rows'[e.id].retryCount = rows[e.id].retryCount
          BY <2>3, <5>1
        <5> QED
          BY <5>1, <5>3, <5>4 DEF Memory, CountIsFresh
      <4> QED
        BY <4>1, <4>2
    <3> QED
      BY <3>1 DEF CountIsFresh
  <2> QED
    BY <1>0, <2>2, <2>3, <2>8, <2>9, <2>10 DEF Memory, AbsentIsFresh, PublishedIsAccepted, DeadIsExhausted
<1>2. ASSUME NEW r \in Relays, NEW e \in batch[r], BuildFails(r, e) \/ Publish(r, e) \/ PublishFails(r, e)
      PROVE RelayInv'
  <2>1. rows' = rows /\ batch' = batch /\ accepted \subseteq accepted'
    BY <1>2 DEF BuildFails, Publish, PublishFails
  <2>2. \A q \in Relays : q # r => phase'[q] = phase[q]
    BY <1>2 DEF BuildFails, Publish, PublishFails, RelayTypeOK
  <2>3. phase'[r] = "confirmed" => IsHead(r, e) /\ e.id \in accepted'
    BY <1>2 DEF BuildFails, Publish, PublishFails, RelayTypeOK, InFlight, IsHead
  <2>4. phase'[r] = "invalid" => IsHead(r, e) /\ e.id \in Invalid
    BY <1>2 DEF BuildFails, Publish, PublishFails, RelayTypeOK, InFlight, IsHead
  <2>5. \A f \in batch[r] : IsHead(r, e) /\ IsHead(r, f) => f.id = e.id
    <3>1. \A f \in batch[r] : f.id \in Nat
      BY ClaimedType
    <3> QED
      BY <3>1 DEF IsHead
  <2>6. ConfirmedIsAccepted'
    BY <2>1, <2>2, <2>3, <2>5 DEF Memory, ConfirmedIsAccepted, IsHead
  <2>7. InvalidIsInvalid'
    BY <2>1, <2>2, <2>4, <2>5 DEF Memory, InvalidIsInvalid, IsHead
  <2> QED
    BY <1>0, <2>1, <2>6, <2>7 DEF Memory, AbsentIsFresh, ClaimedExists, CountIsFresh, PublishedIsAccepted,
                                  DeadIsExhausted
<1>3. ASSUME NEW r \in Relays, NEW e \in batch[r], MarkOutboxPublished(r, e) PROVE RelayInv'
  <2>1. e.id \in accepted
    BY <1>3 DEF MarkOutboxPublished, InFlight, Memory, ConfirmedIsAccepted, IsHead
  <2>2. PublishedRow(rows[e.id]) \in RelayRow
    BY ClaimedType, FinishedRows
  <2>3. PublishedRow(rows[e.id]).owner = NoOwner /\ PublishedRow(rows[e.id]).status = "published"
    BY ClaimedType DEF PublishedRow, Released, RelayRow
  <2> QED
    BY <1>0, <1>3, <2>1, <2>2, <2>3, FinishStep DEF MarkOutboxPublished
<1>4. ASSUME NEW r \in Relays, NEW e \in batch[r], MarkOutboxFailure(r, e) PROVE RelayInv'
  <2>1. PICK status \in {"pending", "dead"} :
          /\ Finish(r, e, FailedRow(rows[e.id], status))
          /\ status = "dead" => e.id \in Invalid \/ Exhausted(e)
          /\ status = "pending" => ~Exhausted(e)
    BY <1>4 DEF MarkOutboxFailure, InFlight, Memory, InvalidIsInvalid, IsHead
  <2> DEFINE row == FailedRow(rows[e.id], status)
  <2>2. row \in RelayRow
    BY ClaimedType, FinishedRows
  <2>3. /\ row.owner = NoOwner /\ row.status = status
        /\ row.retryCount = rows[e.id].retryCount + 1
    BY ClaimedType DEF FailedRow, Released, RelayRow
  <2>4. Owns(r, e.id) => rows[e.id].retryCount = e.retryCount /\ e.retryCount < MaxRetries
    BY ClaimedType DEF Owns, Memory, CountIsFresh, DeadIsExhausted
  <2>5. Owns(r, e.id) => /\ row.status = "dead" => e.id \in Invalid \/ row.retryCount = MaxRetries
                         /\ row.status = "pending" => row.retryCount < MaxRetries
    BY <2>1, <2>3, <2>4, ClaimedType DEF Exhausted
  <2> HIDE DEF row
  <2> QED
    BY <1>0, <2>1, <2>2, <2>3, <2>5, FinishStep DEF row
<1>5. ASSUME NEW r \in Relays, RelayCrash(r) PROVE RelayInv'
  <2>1. rows' = rows /\ accepted' = accepted /\ batch'[r] = {}
    BY <1>5 DEF RelayCrash, RelayTypeOK
  <2>2. \A q \in Relays : q # r => batch'[q] = batch[q] /\ phase'[q] = phase[q]
    BY <1>5 DEF RelayCrash, RelayTypeOK
  <2> QED
    BY <1>0, <2>1, <2>2 DEF Memory, AbsentIsFresh, ClaimedExists, ConfirmedIsAccepted, InvalidIsInvalid, CountIsFresh,
                            IsHead, PublishedIsAccepted, DeadIsExhausted
<1>6. ASSUME NEW o \in OutboxIds, ClockStep(o) \/ InsertOutbox({o}) PROVE RelayInv'
  <2>1. batch' = batch /\ phase' = phase /\ accepted' = accepted
    BY <1>6 DEF ClockStep, LeaseLapses, RetryDue, InsertOutbox
  <2>2. \A p \in OutboxIds :
          \/ /\ rows'[p].status = rows[p].status /\ rows'[p].owner = rows[p].owner
             /\ rows'[p].retryCount = rows[p].retryCount
          \/ rows[p].status = "absent" /\ rows'[p] = FreshRow
    BY <1>6 DEF ClockStep, LeaseLapses, RetryDue, InsertOutbox, RelayTypeOK, RelayRow
  <2>3. FreshRow.status = "pending" /\ FreshRow.owner = NoOwner /\ FreshRow.retryCount = 0
    BY DEF FreshRow, AbsentRelayRow
  <2>4. ClaimedExists' /\ CountIsFresh'
    <3>1. ASSUME NEW q \in Relays, NEW e \in batch'[q]
          PROVE  /\ rows'[e.id].status # "absent"
                 /\ rows'[e.id].status = "pending" /\ rows'[e.id].owner = q
                      => rows'[e.id].retryCount = e.retryCount
      <4>1. e \in batch[q] /\ e.id \in OutboxIds
        BY <2>1, ClaimedType
      <4> QED
        BY <2>2, <2>3, <4>1 DEF Memory, ClaimedExists, CountIsFresh
    <3> QED
      BY <3>1 DEF ClaimedExists, CountIsFresh
  <2>5. ConfirmedIsAccepted' /\ InvalidIsInvalid'
    BY <2>1 DEF Memory, ConfirmedIsAccepted, InvalidIsInvalid, IsHead
  <2> QED
    BY <1>0, <2>1, <2>2, <2>3, <2>4, <2>5 DEF Memory, AbsentIsFresh, PublishedIsAccepted, DeadIsExhausted
<1>7. CASE UNCHANGED relayVars
  BY <1>0, <1>7 DEF relayVars, Memory, AbsentIsFresh, ClaimedExists, ConfirmedIsAccepted, InvalidIsInvalid, CountIsFresh,
                    IsHead, PublishedIsAccepted, DeadIsExhausted
<1> QED
  BY <1>1, <1>2, <1>3, <1>4, <1>5, <1>6, <1>7 DEF RelayNext, RelayStep, Work

(* The relays' tables and memory stay well formed and truthful (see RelayInv). *)
THEOREM RelayInvariant == RelaySpec => []RelayInv
BY RelayInitInv, RelayInvStep, PTL DEF RelaySpec

(* Rows and relay memory are always of their types. *)
THEOREM RelayTypeCorrect == RelaySpec => []RelayTypeOK
<1>1. RelayInv => RelayTypeOK
  BY DEF RelayInv
<1> QED
  BY <1>1, RelayInvariant, PTL

(* A row is marked published only if the broker has its message, for any   *)
(* number of relays, crashes, lost confirms and overtaken leases.          *)
THEOREM PublishedRowsAreAccepted == RelaySpec => []PublishedIsAccepted
<1>1. RelayInv => PublishedIsAccepted
  BY DEF RelayInv
<1> QED
  BY <1>1, RelayInvariant, PTL

(* A valid event is given up only after exactly MaxRetries failures.       *)
THEOREM DeadRowsAreExhausted == RelaySpec => []DeadIsExhausted
<1>1. RelayInv => DeadIsExhausted
  BY DEF RelayInv
<1> QED
  BY <1>1, RelayInvariant, PTL

-----------------------------------------------------------------------------
(* What a step does to one row: its delivery state stays, or it is         *)
(* inserted, or it was pending and is marked.                              *)
RowStays(o)    == rows'[o].status = rows[o].status /\ rows'[o].retryCount = rows[o].retryCount
                  /\ (rows[o].status \in {"published", "dead"} => rows'[o] = rows[o])
RowInserted(o) == rows[o].status = "absent" /\ rows'[o] = FreshRow
RowMarked(o)   == /\ rows[o].status = "pending"
                  /\ \/ rows'[o].status = "published" /\ o \in accepted
                     \/ rows'[o].status \in {"pending", "dead"}
                  /\ rows[o].retryCount <= rows'[o].retryCount

(* A step of the relays leaves all rows alone, or changes one row only, or *)
(* hands one message to the broker and leaves all rows alone.              *)
LEMMA OneRowAtATime ==
    ASSUME RelayInv, [RelayNext]_relayVars
    PROVE  \/ accepted' = accepted /\ \A o \in OutboxIds : RowStays(o)
           \/ \E o \in OutboxIds : /\ accepted' = accepted /\ (RowInserted(o) \/ RowMarked(o))
                                   /\ \A p \in OutboxIds \ {o} : rows'[p] = rows[p]
           \/ \E o \in OutboxIds : accepted' = accepted \cup {o} /\ rows[o].status # "absent" /\ rows' = rows
<1> USE RelayIds, RelayOwners, RelayBounds DEF RelayInv
<1> DEFINE Quiet   == accepted' = accepted /\ \A o \in OutboxIds : RowStays(o)
           Touches(o) == /\ accepted' = accepted /\ (RowInserted(o) \/ RowMarked(o))
                         /\ \A p \in OutboxIds \ {o} : rows'[p] = rows[p]
           Hands(o) == accepted' = accepted \cup {o} /\ rows[o].status # "absent" /\ rows' = rows
           Goal == Quiet \/ (\E o \in OutboxIds : Touches(o)) \/ (\E o \in OutboxIds : Hands(o))
<1>1. ASSUME NEW r \in Relays, ClaimOutbox(r) PROVE Quiet
  <2>1. PICK B \in SUBSET Claimable :
          rows' = [o \in OutboxIds |-> IF o \in B THEN [rows[o] EXCEPT !.owner = r, !.leased = TRUE]
                                                  ELSE rows[o]]
    BY <1>1 DEF ClaimOutbox
  <2>2. \A o \in OutboxIds : rows'[o].status = rows[o].status /\ rows'[o].retryCount = rows[o].retryCount
    BY <2>1 DEF RelayTypeOK, RelayRow
  <2>3. \A o \in OutboxIds : rows[o].status \in {"published", "dead"} => rows'[o] = rows[o]
    BY <2>1 DEF RelayTypeOK, RelayRow, Claimable
  <2> QED
    BY <1>1, <2>2, <2>3 DEF ClaimOutbox, RowStays
<1>2. ASSUME rows' = rows, accepted' = accepted PROVE Quiet
  BY <1>2 DEF RowStays
<1>3. ASSUME NEW r \in Relays, NEW e \in batch[r], Publish(r, e) \/ PublishFails(r, e) PROVE Goal
  <2>1. e.id \in OutboxIds /\ rows[e.id].status # "absent"
    BY ClaimedType DEF Memory, ClaimedExists
  <2>2. rows' = rows /\ accepted' \in {accepted, accepted \cup {e.id}}
    BY <1>3 DEF Publish, PublishFails
  <2> QED
    BY <1>2, <2>1, <2>2
<1>4. ASSUME NEW r \in Relays, NEW e \in batch[r], NEW row, Finish(r, e, row),
             Owns(r, e.id) => \/ row.status = "published" /\ e.id \in accepted
                              \/ row.status \in {"pending", "dead"},
             rows[e.id].retryCount <= row.retryCount
      PROVE  Goal
  <2>1. e.id \in OutboxIds
    BY ClaimedType
  <2>2. accepted' = accepted
    BY <1>4 DEF Finish
  <2>3. CASE Owns(r, e.id)
    <3>1. rows' = [rows EXCEPT ![e.id] = row]
      BY <1>4, <2>3 DEF Finish
    <3>2. rows'[e.id] = row /\ \A p \in OutboxIds \ {e.id} : rows'[p] = rows[p]
      BY <2>1, <3>1 DEF RelayTypeOK
    <3>3. RowMarked(e.id)
      BY <1>4, <2>3, <3>2 DEF RowMarked, Owns
    <3> QED
      BY <2>1, <2>2, <3>2, <3>3
  <2>4. CASE ~Owns(r, e.id)
    <3>1. rows' = rows
      BY <1>4, <2>4 DEF Finish
    <3> QED
      BY <1>2, <2>2, <3>1
  <2> QED
    BY <2>3, <2>4
<1>5. ASSUME NEW r \in Relays, NEW e \in batch[r], MarkOutboxPublished(r, e) PROVE Goal
  <2>1. e.id \in accepted
    BY <1>5 DEF MarkOutboxPublished, InFlight, Memory, ConfirmedIsAccepted, IsHead
  <2>2. PublishedRow(rows[e.id]).status = "published" /\ PublishedRow(rows[e.id]).retryCount = rows[e.id].retryCount
    BY ClaimedType DEF PublishedRow, Released, RelayRow
  <2>3. rows[e.id].retryCount \in Nat
    BY ClaimedType DEF RelayRow
  <2> HIDE DEF Goal
  <2> QED
    BY <1>4, <1>5, <2>1, <2>2, <2>3 DEF MarkOutboxPublished
<1>6. ASSUME NEW r \in Relays, NEW e \in batch[r], MarkOutboxFailure(r, e) PROVE Goal
  <2>1. PICK status \in {"pending", "dead"} : Finish(r, e, FailedRow(rows[e.id], status))
    BY <1>6 DEF MarkOutboxFailure
  <2>2. /\ FailedRow(rows[e.id], status).status = status
        /\ FailedRow(rows[e.id], status).retryCount = rows[e.id].retryCount + 1
    BY ClaimedType DEF FailedRow, Released, RelayRow
  <2>3. rows[e.id].retryCount \in Nat
    BY ClaimedType DEF RelayRow
  <2> HIDE DEF Goal
  <2> QED
    BY <1>4, <2>1, <2>2, <2>3
<1>7. ASSUME NEW o \in OutboxIds, ClockStep(o) PROVE Quiet
  BY <1>7 DEF ClockStep, LeaseLapses, RetryDue, RowStays, RelayTypeOK, RelayRow
<1>8. ASSUME NEW o \in OutboxIds, InsertOutbox({o}) PROVE Touches(o)
  BY <1>8 DEF InsertOutbox, RowInserted
<1>9. ASSUME NEW r \in Relays, RelayCrash(r) \/ \E e \in batch[r] : BuildFails(r, e) PROVE Quiet
  BY <1>2, <1>9 DEF RelayCrash, BuildFails
<1>10. CASE UNCHANGED relayVars
  BY <1>2, <1>10 DEF relayVars
<1> QED
  BY <1>1, <1>3, <1>5, <1>6, <1>7, <1>8, <1>9, <1>10 DEF RelayNext, RelayStep, Work

(* A relay whose lease was taken over cannot undo a published or dead row  *)
(* or a recorded failure, whatever it does late.                           *)
THEOREM RowsOnlyAdvance == RelaySpec => OutboxOnlyAdvances
<1>1. RelayInv /\ [RelayNext]_relayVars => \A o \in OutboxIds : FinalRow(rows[o], rows'[o])
  <2> SUFFICES ASSUME RelayInv, [RelayNext]_relayVars, NEW o \in OutboxIds PROVE FinalRow(rows[o], rows'[o])
    OBVIOUS
  <2>1. rows[o].retryCount \in Nat
    BY DEF RelayInv, RelayTypeOK, RelayRow
  <2>2. RowStays(o) \/ RowInserted(o) \/ RowMarked(o) \/ rows'[o] = rows[o]
    BY OneRowAtATime
  <2>3. RowInserted(o) => rows[o].retryCount <= rows'[o].retryCount
    BY DEF RowInserted, FreshRow, AbsentRelayRow, RelayInv, Memory, AbsentIsFresh
  <2> QED
    BY <2>1, <2>2, <2>3 DEF FinalRow, RowStays, RowInserted, RowMarked
<1> QED
  BY <1>1, RelayInvariant, PTL DEF RelaySpec, OutboxOnlyAdvances

(* Claims, leases, batches and retries refine to at-least-once delivery.   *)
THEOREM RelayImplementsAtLeastOnce == RelaySpec => ImplementsAtLeastOnce
<1> DEFINE st == [o \in OutboxIds |-> rows[o].status]
<1>1. RelayInit => Delivery!DeliveryInit
  BY DEF RelayInit, AbsentRelayRow, Delivery!DeliveryInit
<1>2. RelayInv /\ [RelayNext]_relayVars => [Delivery!DeliveryNext]_Delivery!deliveryVars
  <2> SUFFICES ASSUME RelayInv, [RelayNext]_relayVars
               PROVE  [Delivery!DeliveryNext]_Delivery!deliveryVars
    OBVIOUS
  <2>1. CASE accepted' = accepted /\ \A o \in OutboxIds : RowStays(o)
    <3>1. st' = st
      BY <2>1 DEF RowStays
    <3> QED
      BY <2>1, <3>1 DEF Delivery!deliveryVars
  <2>2. ASSUME NEW o \in OutboxIds, accepted' = accepted, RowInserted(o) \/ RowMarked(o),
               \A p \in OutboxIds \ {o} : rows'[p] = rows[p]
        PROVE  [Delivery!DeliveryNext]_Delivery!deliveryVars
    <3>1. st' = [st EXCEPT ![o] = rows'[o].status]
      BY <2>2
    <3>2. CASE RowInserted(o)
      <4>1. st' = [p \in OutboxIds |-> IF p \in {o} THEN "pending" ELSE st[p]]
        BY <3>1, <3>2 DEF RowInserted, FreshRow, AbsentRelayRow
      <4>2. Delivery!Emit({o})
        BY <2>2, <3>2, <4>1 DEF Delivery!Emit, RowInserted
      <4>3. {o} \in SUBSET OutboxIds
        OBVIOUS
      <4> QED
        BY <4>2, <4>3 DEF Delivery!DeliveryNext
    <3>3. CASE RowMarked(o) /\ rows'[o].status = "published"
      <4>1. Delivery!Settle(o)
        BY <2>2, <3>1, <3>3 DEF Delivery!Settle, RowMarked
      <4> QED
        BY <4>1 DEF Delivery!DeliveryNext
    <3>4. CASE RowMarked(o) /\ rows'[o].status = "dead"
      <4>1. Delivery!GiveUp(o)
        BY <2>2, <3>1, <3>4 DEF Delivery!GiveUp, RowMarked
      <4> QED
        BY <4>1 DEF Delivery!DeliveryNext
    <3>5. CASE RowMarked(o) /\ rows'[o].status = "pending"
      <4>1. st' = st
        BY <2>2, <3>5 DEF RowMarked
      <4> QED
        BY <2>2, <4>1 DEF Delivery!deliveryVars
    <3> QED
      BY <2>2, <3>2, <3>3, <3>4, <3>5 DEF RowMarked
  <2>3. ASSUME NEW o \in OutboxIds, accepted' = accepted \cup {o}, rows[o].status # "absent", rows' = rows
        PROVE  [Delivery!DeliveryNext]_Delivery!deliveryVars
    <3>1. Delivery!Take(o)
      BY <2>3 DEF Delivery!Take
    <3> QED
      BY <3>1 DEF Delivery!DeliveryNext
  <2> QED
    BY <2>1, <2>2, <2>3, OneRowAtATime
<1> QED
  BY <1>1, <1>2, RelayInvariant, PTL DEF RelaySpec, ImplementsAtLeastOnce, Delivery!DeliverySpec
=============================================================================
