----------------------------- MODULE OutboxRelay -----------------------------
(***************************************************************************)
(* The transactional outbox of the judge service: rows of outbox_events    *)
(* are claimed under a lease by relay processes, published to RabbitMQ     *)
(* with publisher confirms, and marked published, retried or dead.         *)
(*                                                                         *)
(* Time is abstracted to what the queries compare: whether a row's lease   *)
(* has run out and whether its next_retry_at has passed.  Every relay      *)
(* compares the stored times with its own clock, and a batch of 32 events  *)
(* with 5 s confirms can outlive a 30 s lease, so a lease may lapse while  *)
(* its holder is still working.                                            *)
(***************************************************************************)
EXTENDS Naturals, FiniteSets

CONSTANTS
    OutboxIds,      \* outbox_events.id
    Relays,         \* relay processes, each with its own owner string
    Invalid,        \* rows whose payload buildPublishedMessage refuses
    MaxRetries,     \* OutboxRelayConfig.MaxRetries
    BatchSize,      \* OutboxRelayConfig.BatchSize
    MaxFaults       \* bound on crashes and on leases lapsing under their holder

NoOwner == "none"

ASSUME RelayIds == OutboxIds \subseteq Nat /\ IsFiniteSet(OutboxIds) /\ Invalid \subseteq OutboxIds
ASSUME RelayOwners == NoOwner \notin Relays
ASSUME RelayBounds == MaxRetries \in Nat \ {0} /\ BatchSize \in Nat \ {0} /\ MaxFaults \in Nat

VARIABLES
    rows,       \* delivery columns of outbox_events
    batch,      \* per relay: the claimed events RunOnce has still to process
    phase,      \* per relay: where RunOnce is with the head of its batch
    accepted,   \* rows whose message the broker has at least once
    faults      \* faults so far

relayVars == <<rows, batch, phase, accepted, faults>>

RelayRow == [status : {"absent", "pending", "published", "dead"}, retryCount : Nat,
             due : BOOLEAN, owner : Relays \cup {NoOwner}, leased : BOOLEAN]

AbsentRelayRow == [status |-> "absent", retryCount |-> 0, due |-> TRUE, owner |-> NoOwner, leased |-> FALSE]
FreshRow == [AbsentRelayRow EXCEPT !.status = "pending"]

Claimed == [id : OutboxIds, retryCount : Nat]
Phases == {"publish", "confirmed", "failed", "invalid"}

RelayInit ==
    /\ rows = [o \in OutboxIds |-> AbsentRelayRow]
    /\ batch = [r \in Relays |-> {}]
    /\ phase = [r \in Relays |-> "publish"]
    /\ accepted = {}
    /\ faults = 0

\* insertOutbox: a transaction of the store adds the rows in O.
InsertOutbox(O) ==
    /\ \A o \in O : rows[o].status = "absent"
    /\ rows' = [o \in OutboxIds |-> IF o \in O THEN FreshRow ELSE rows[o]]
    /\ UNCHANGED <<batch, phase, accepted, faults>>

-----------------------------------------------------------------------------
(***************************************************************************)
(* ClaimOutbox: the lowest BatchSize rows that are pending, due and not    *)
(* under a live lease become leased by r.                                  *)
(***************************************************************************)
Claimable == {o \in OutboxIds : rows[o].status = "pending" /\ rows[o].due /\ ~rows[o].leased}

ClaimOutbox(r) ==
    /\ batch[r] = {}
    /\ \E B \in SUBSET Claimable :
         /\ B # {} /\ Cardinality(B) <= BatchSize
         /\ Cardinality(B) < BatchSize => B = Claimable
         /\ \A o \in B, p \in Claimable \ B : o < p
         /\ rows' = [o \in OutboxIds |-> IF o \in B THEN [rows[o] EXCEPT !.owner = r, !.leased = TRUE]
                                                    ELSE rows[o]]
         /\ batch' = [batch EXCEPT ![r] = {[id |-> o, retryCount |-> rows[o].retryCount] : o \in B}]
    /\ phase' = [phase EXCEPT ![r] = "publish"]
    /\ UNCHANGED <<accepted, faults>>

\* r is in phase p with e, the first of the claimed events it has not finished.
InFlight(r, e, p) == phase[r] = p /\ \A f \in batch[r] : e.id <= f.id

\* buildPublishedMessage refuses the payload: the row will be marked dead.
BuildFails(r, e) ==
    /\ InFlight(r, e, "publish") /\ e.id \in Invalid
    /\ phase' = [phase EXCEPT ![r] = "invalid"]
    /\ UNCHANGED <<rows, batch, accepted, faults>>

\* Publish confirmed by the broker.
Publish(r, e) ==
    /\ InFlight(r, e, "publish") /\ e.id \notin Invalid
    /\ accepted' = accepted \cup {e.id}
    /\ phase' = [phase EXCEPT ![r] = "confirmed"]
    /\ UNCHANGED <<rows, batch, faults>>

\* Publish returns an error: connection refused, confirm timed out or nacked.
\* The broker may have the message all the same.
PublishFails(r, e) ==
    /\ InFlight(r, e, "publish") /\ e.id \notin Invalid
    /\ accepted' \in {accepted, accepted \cup {e.id}}
    /\ phase' = [phase EXCEPT ![r] = "failed"]
    /\ UNCHANGED <<rows, batch, faults>>

(***************************************************************************)
(* MarkOutboxPublished and MarkOutboxFailure update the row only while it  *)
(* is pending and owned by r.  An update that hits no row is an error that *)
(* ends RunOnce; the rest of the batch stays leased until it lapses.       *)
(***************************************************************************)
Owns_AnyOwner(r, o) == rows[o].status = "pending"            \* seeded defect
Owns_AnyStatus(r, o) == rows[o].owner \in {r, NoOwner}       \* seeded defect
Owns(r, o) == rows[o].status = "pending" /\ rows[o].owner = r

Released(row) == [row EXCEPT !.owner = NoOwner, !.leased = FALSE]
PublishedRow(row) == [Released(row) EXCEPT !.status = "published"]
FailedRow(row, status) ==
    [Released(row) EXCEPT !.status = status, !.retryCount = row.retryCount + 1, !.due = FALSE]

Finish(r, e, row) ==
    /\ IF Owns(r, e.id)
       THEN /\ rows' = [rows EXCEPT ![e.id] = row]
            /\ batch' = [batch EXCEPT ![r] = @ \ {e}]
       ELSE /\ batch' = [batch EXCEPT ![r] = {}]
            /\ UNCHANGED rows
    /\ phase' = [phase EXCEPT ![r] = "publish"]
    /\ UNCHANGED <<accepted, faults>>

MarkOutboxPublished_Unconfirmed(r, e) ==     \* seeded defect: any publish counts
    InFlight(r, e, phase[r]) /\ phase[r] \in {"confirmed", "failed"} /\ Finish(r, e, PublishedRow(rows[e.id]))
MarkOutboxPublished(r, e) ==
    InFlight(r, e, "confirmed") /\ Finish(r, e, PublishedRow(rows[e.id]))

\* attempt >= config.MaxRetries, with the count read when the row was claimed.
Exhausted(e) == e.retryCount + 1 >= MaxRetries

MarkOutboxFailure_KeepsLease(r, e) ==        \* seeded defect: the row never leaves its owner
    /\ InFlight(r, e, "failed") \/ InFlight(r, e, "invalid")
    /\ Finish(r, e, [rows[e.id] EXCEPT !.due = FALSE])
MarkOutboxFailure(r, e) ==
    \/ /\ InFlight(r, e, "failed")
       /\ Finish(r, e, FailedRow(rows[e.id], IF Exhausted(e) THEN "dead" ELSE "pending"))
    \/ /\ InFlight(r, e, "invalid")
       /\ Finish(r, e, FailedRow(rows[e.id], "dead"))

\* The process dies, is shut down or gets a storage error: RunOnce ends.
RelayCrash(r) ==
    /\ batch[r] # {} /\ faults < MaxFaults
    /\ faults' = faults + 1
    /\ batch' = [batch EXCEPT ![r] = {}]
    /\ phase' = [phase EXCEPT ![r] = "publish"]
    /\ UNCHANGED <<rows, accepted>>

-----------------------------------------------------------------------------
\* lease_until passes, freely when the holder has given the row up and as a
\* fault while it is still working on it.
Holding(r, o) == \E e \in batch[r] : e.id = o

LeaseLapses(o) ==
    /\ rows[o].status = "pending" /\ rows[o].leased
    /\ IF rows[o].owner \in Relays /\ Holding(rows[o].owner, o)
       THEN faults < MaxFaults /\ faults' = faults + 1
       ELSE UNCHANGED faults
    /\ rows' = [rows EXCEPT ![o].leased = FALSE]
    /\ UNCHANGED <<batch, phase, accepted>>

\* next_retry_at passes.
RetryDue(o) ==
    /\ rows[o].status = "pending" /\ ~rows[o].due
    /\ rows' = [rows EXCEPT ![o].due = TRUE]
    /\ UNCHANGED <<batch, phase, accepted, faults>>

\* RunOnce's progress with the batch r holds, whatever the broker answers.
Work(r) ==
    \E e \in batch[r] :
      \/ BuildFails(r, e)
      \/ Publish(r, e)
      \/ PublishFails(r, e)
      \/ MarkOutboxPublished(r, e)
      \/ MarkOutboxFailure(r, e)

RelayStep(r) == ClaimOutbox(r) \/ Work(r) \/ RelayCrash(r)
ClockStep(o) == LeaseLapses(o) \/ RetryDue(o)

\* In isolation the store inserts one row at a time.
RelayNext ==
    \/ \E r \in Relays : RelayStep(r)
    \/ \E o \in OutboxIds : ClockStep(o)
    \/ \E o \in OutboxIds : InsertOutbox({o})

RelaySpec == RelayInit /\ [][RelayNext]_relayVars

(***************************************************************************)
(* server/relay.go runs RunOnce in an endless loop, so a relay keeps       *)
(* claiming and keeps working on what it claimed; time passes.             *)
(***************************************************************************)
RelayFairness ==
    /\ \A r \in Relays : WF_relayVars(ClaimOutbox(r)) /\ WF_relayVars(Work(r))
    /\ \A o \in OutboxIds : WF_relayVars(ClockStep(o))

FairRelaySpec == RelaySpec /\ RelayFairness

-----------------------------------------------------------------------------
(* The columns and the relays' memory are well formed. *)
RelayTypeOK ==
    /\ rows \in [OutboxIds -> RelayRow]
    /\ batch \in [Relays -> SUBSET Claimed]
    /\ phase \in [Relays -> Phases]
    /\ accepted \subseteq OutboxIds
    /\ faults \in Nat

(***************************************************************************)
(* No event is lost: a row is marked published only if the broker has the  *)
(* message, even when several relays work on the row at once, a confirm is *)
(* lost or a relay dies between publishing and marking.                    *)
(***************************************************************************)
PublishedIsAccepted == \A o \in OutboxIds : rows[o].status = "published" => o \in accepted

(***************************************************************************)
(* An event is given up only after MaxRetries recorded failures: leases    *)
(* that change hands never make a relay decide on a stale retry count.     *)
(* A pending row always has a retry left.                                  *)
(***************************************************************************)
DeadIsExhausted ==
    \A o \in OutboxIds :
      /\ rows[o].status = "dead" => o \in Invalid \/ rows[o].retryCount = MaxRetries
      /\ rows[o].status = "pending" => rows[o].retryCount < MaxRetries

(***************************************************************************)
(* A relay whose lease was taken over cannot undo what its successor       *)
(* wrote: published and dead are final, and a retry count never falls.     *)
(***************************************************************************)
FinalRow(row, next) ==
    /\ row.status \in {"published", "dead"} => next = row
    /\ row.retryCount <= next.retryCount
OutboxOnlyAdvances == [][\A o \in OutboxIds : FinalRow(rows[o], rows'[o])]_relayVars

(***************************************************************************)
(* Every event is eventually published or given up, although relays crash  *)
(* and leases lapse under their holders (finitely often).                  *)
(***************************************************************************)
EveryRowSettles ==
    \A o \in OutboxIds : rows[o].status = "pending" ~> rows[o].status \in {"published", "dead"}

(***************************************************************************)
(* Leases, batches and retries are invisible from outside: the relays      *)
(* implement the at-least-once outbox of module AtLeastOnce.               *)
(***************************************************************************)
Delivery == INSTANCE AtLeastOnce WITH Ids <- OutboxIds, taken <- accepted,
                                      state <- [o \in OutboxIds |-> rows[o].status]
ImplementsAtLeastOnce == Delivery!DeliverySpec
=============================================================================
