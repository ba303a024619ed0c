-------------------------- MODULE ContestProjection --------------------------
(***************************************************************************)
(* The contest service's projection of judged submissions: a consumer      *)
(* applies submission.judged and submission.invalidated events to the      *)
(* tables contest_submission_results, contest_problem_results and          *)
(* contest_user_results, and adds one row per new user version to          *)
(* contest_cache_outbox, all in one READ COMMITTED transaction.            *)
(*                                                                         *)
(* One contest is modelled.  Its row is locked FOR SHARE, so its interval  *)
(* and problems are constants here.  Several service instances consume at  *)
(* once; a transaction is split where another one may commit in between.   *)
(* Its writes become visible at the commit.  A transaction that fails is   *)
(* rolled back as a whole and its event is delivered again.                *)
(***************************************************************************)
EXTENDS AcmScoring

CONSTANTS
    Consumers,          \* instances of the result consumer
    Participants,       \* contest_participants
    Problems,           \* contest_problems
    SubIds,             \* submissions, numbered as in the judge service
    EndAt,              \* contests.end_at
    Events,             \* events on the wire, delivered in any order and repeatedly
    MaxRollbacks        \* bound on rolled back transactions

\* What ParseProjectionEvent yields; an event id names one event.
ASSUME ProjectionEvents ==
    /\ IsFiniteSet(Problems) /\ SubIds \subseteq Nat \ {0} /\ EndAt \in Nat /\ MaxRollbacks \in Nat
    /\ \A e \in Events :
         /\ DOMAIN e = {"id", "sub", "user", "problem", "verdict", "submittedAt", "judgedAt", "invalidated"}
         /\ e.sub \in SubIds /\ e.submittedAt \in Nat /\ e.judgedAt \in Nat /\ e.invalidated \in BOOLEAN
    /\ \A e, f \in Events : e.id = f.id => e = f

VARIABLES
    processed,      \* contest_processed_events
    facts,          \* contest_submission_results: the event each row was last written from
    scores,         \* contest_problem_results
    totals,         \* contest_user_results; version 0 is "no row"
    cacheOutbox,    \* contest_cache_outbox, per user in insertion order
    tx,             \* the open transaction of every consumer
    rollbacks

projectionVars == <<processed, facts, scores, totals, cacheOutbox, tx, rollbacks>>

NoFact == [id |-> 0]
NoTx == [pc |-> "idle"]
NoTotal == [solved |-> 0, penalty |-> 0, version |-> 0]

ProjectionInit ==
    /\ processed = {}
    /\ facts = [s \in SubIds |-> NoFact]
    /\ scores = [u \in Participants |-> [p \in Problems |-> Unsolved]]
    /\ totals = [u \in Participants |-> NoTotal]
    /\ cacheOutbox = [u \in Participants |-> <<>>]
    /\ tx = [c \in Consumers |-> NoTx]
    /\ rollbacks = 0

Open(c, pc) == tx[c].pc = pc
Others(c) == {d \in Consumers \ {c} : tx[d].pc # "idle"}

-----------------------------------------------------------------------------
\* An event delivered again: its id is there, the transaction has no effect.
IgnoreDuplicate(c, e) == Open(c, "idle") /\ e.id \in processed /\ UNCHANGED projectionVars

\* The contest is share-locked and the event id inserted; INSERT IGNORE waits
\* for an open transaction with the same id.
BeginProjection(c, e) ==
    /\ Open(c, "idle") /\ e.id \notin processed
    /\ \A d \in Others(c) : tx[d].event # e
    /\ tx' = [tx EXCEPT ![c] = [pc |-> "begun", event |-> e]]
    /\ UNCHANGED <<processed, facts, scores, totals, cacheOutbox, rollbacks>>

\* SELECT ... FROM contest_participants ... FOR UPDATE serialises one user's events.
ParticipantFree_NotLocked(c, user) == TRUE       \* seeded defect: read without FOR UPDATE
ParticipantFree_Upgraded(c, user) ==             \* seeded defect: FOR SHARE first, upgraded later
    \A d \in Others(c) : tx[d].event.user # user
ParticipantFree(c, user) ==
    \A d \in Others(c) : tx[d].event.user = user => tx[d].pc = "begun"

Admissible(e) ==
    /\ e.user \in Participants /\ e.problem \in Problems
    /\ StartAt <= e.submittedAt /\ e.submittedAt < EndAt

LockParticipant(c) ==
    /\ Open(c, "begun") /\ ParticipantFree(c, tx[c].event.user)
    /\ tx' = [tx EXCEPT ![c].pc = "locked"]
    /\ UNCHANGED <<processed, facts, scores, totals, cacheOutbox, rollbacks>>

\* A submission keeps its identity; the row of another one is not overwritten.
SameIdentity(e, old) ==
    old # NoFact => old.user = e.user /\ old.problem = e.problem /\ old.submittedAt = e.submittedAt
RowFree(c, s) == \A d \in Others(c) : tx[d].pc = "stored" => tx[d].event.sub # s

\* The checks fail: the transaction is rolled back and the event requeued, for ever.
RefuseEvent(c) ==
    LET e == tx[c].event IN
    /\ Open(c, "locked") /\ RowFree(c, e.sub)
    /\ ~Admissible(e) \/ ~SameIdentity(e, facts[e.sub])
    /\ tx' = [tx EXCEPT ![c] = NoTx]
    /\ UNCHANGED <<processed, facts, scores, totals, cacheOutbox, rollbacks>>

Welcome(c) ==
    LET e == tx[c].event IN
    Open(c, "locked") /\ RowFree(c, e.sub) /\ Admissible(e) /\ SameIdentity(e, facts[e.sub])

\* An invalidated fact is final; a judgement has to be newer than the stored one.
Supersedes_AnyOrder(e, old) == ~old.invalidated      \* seeded defect: times not compared
Supersedes(e, old) == ~old.invalidated /\ (e.invalidated \/ e.judgedAt > old.judgedAt)

\* The fact is out of date: the transaction commits the event id only.
SkipFact(c) ==
    LET e == tx[c].event IN
    /\ Welcome(c)
    /\ facts[e.sub] # NoFact /\ ~Supersedes(e, facts[e.sub])
    /\ processed' = processed \cup {e.id}
    /\ tx' = [tx EXCEPT ![c] = NoTx]
    /\ UNCHANGED <<facts, scores, totals, cacheOutbox, rollbacks>>

\* The user's facts on the problem as this transaction sees them after its upsert.
VisibleFacts(e) ==
    {e} \cup {facts[s] : s \in {t \in SubIds \ {e.sub} :
                                  facts[t] # NoFact /\ facts[t].user = e.user /\ facts[t].problem = e.problem}}

StoreFact(c) ==
    LET e == tx[c].event IN
    /\ Welcome(c)
    /\ facts[e.sub] # NoFact => Supersedes(e, facts[e.sub])
    /\ tx' = [tx EXCEPT ![c] = [pc |-> "stored", event |-> e, score |-> Rebuild(VisibleFacts(e))]]
    /\ UNCHANGED <<processed, facts, scores, totals, cacheOutbox, rollbacks>>

(***************************************************************************)
(* enqueueLeaderboard and the commit: the user's totals are summed anew,   *)
(* the version grows by one and a complete snapshot goes to the outbox.    *)
(***************************************************************************)
Summed(row, version) ==
    [solved  |-> Cardinality({p \in Problems : row[p].solved}),
     penalty |-> MapThenSumSet(LAMBDA p : row[p].penalty, Problems),
     version |-> version]

Snapshot_OldScores(u, total, row) == [total |-> total, problems |-> scores[u]]   \* seeded defect
Snapshot(u, total, row) == [total |-> total, problems |-> row]

enqueueLeaderboard(c) ==
    LET e == tx[c].event
        row == [scores[e.user] EXCEPT ![e.problem] = tx[c].score]
        total == Summed(row, totals[e.user].version + 1)
    IN
    /\ Open(c, "stored")
    /\ processed' = processed \cup {e.id}
    /\ facts' = [facts EXCEPT ![e.sub] = e]
    /\ scores' = [scores EXCEPT ![e.user] = row]
    /\ totals' = [totals EXCEPT ![e.user] = total]
    /\ cacheOutbox' = [cacheOutbox EXCEPT ![e.user] = Append(@, Snapshot(e.user, total, row))]
    /\ tx' = [tx EXCEPT ![c] = NoTx]
    /\ UNCHANGED rollbacks

\* Deadlock, timeout, crash or a failed check: nothing of the transaction stays.
RollBack(c) ==
    /\ tx[c].pc # "idle" /\ rollbacks < MaxRollbacks
    /\ rollbacks' = rollbacks + 1
    /\ tx' = [tx EXCEPT ![c] = NoTx]
    /\ UNCHANGED <<processed, facts, scores, totals, cacheOutbox>>

Continue(c) == LockParticipant(c) \/ RefuseEvent(c) \/ SkipFact(c) \/ StoreFact(c) \/ enqueueLeaderboard(c)

ProjectionNext ==
    \E c \in Consumers :
      \/ \E e \in Events : BeginProjection(c, e) \/ IgnoreDuplicate(c, e)
      \/ Continue(c)
      \/ RollBack(c)

ProjectionSpec == ProjectionInit /\ [][ProjectionNext]_projectionVars

(***************************************************************************)
(* ResultConsumerServer loops over its deliveries; the database grants a   *)
(* lock to those who wait for it in turn.  The broker delivers a requeued  *)
(* event again; sixteen events are in flight, so the others get their turn *)
(* beside one that is always refused.                                      *)
(***************************************************************************)
FairProjectionSpec ==
    /\ ProjectionSpec
    /\ \A c \in Consumers : WF_projectionVars(Continue(c)) /\ SF_projectionVars(LockParticipant(c))
    /\ \A e \in Events : SF_projectionVars(\E c \in Consumers : BeginProjection(c, e))

-----------------------------------------------------------------------------
(***************************************************************************)
(* The order of delivery does not matter: a stored fact is an invalidation *)
(* if any was processed for the submission and the newest judgement        *)
(* processed otherwise.  So a judgement that arrives after its submission  *)
(* was invalidated never counts.                                           *)
(***************************************************************************)
ProcessedOf(s) == {e \in Events : e.sub = s /\ e.id \in processed}
FactsFollowEvents ==
    \A s \in SubIds :
      IF ProcessedOf(s) = {} THEN facts[s] = NoFact
      ELSE /\ facts[s] \in ProcessedOf(s)
           /\ facts[s].invalidated <=> \E e \in ProcessedOf(s) : e.invalidated
           /\ ~facts[s].invalidated => \A e \in ProcessedOf(s) : e.judgedAt <= facts[s].judgedAt

(***************************************************************************)
(* Every stored problem result is what the contest rules say of all the    *)
(* facts committed for that user and problem and submitted during the      *)
(* contest: concurrent transactions of one user never overwrite each       *)
(* other's recomputation, and nothing from outside the contest scores.     *)
(***************************************************************************)
InTime(f) == StartAt <= f.submittedAt /\ f.submittedAt < EndAt
FactsOf(u, p) ==
    {facts[s] : s \in {t \in SubIds : facts[t] # NoFact /\ facts[t].user = u /\ facts[t].problem = p /\ InTime(facts[t])}}
ScoresFollowRules == \A u \in Participants, p \in Problems : scores[u][p] = ScoreByRules(FactsOf(u, p))

(***************************************************************************)
(* A user's totals are the sums of the problem results, the outbox has one *)
(* snapshot for every version in order, and the newest one carries exactly *)
(* what the tables hold: the cache can be brought up to date from the      *)
(* outbox alone.                                                           *)
(***************************************************************************)
SummaryIsCurrent ==
    \A u \in Participants :
      LET rows == cacheOutbox[u] IN
      /\ Len(rows) = totals[u].version
      /\ \A i \in DOMAIN rows : rows[i].total.version = i
      /\ totals[u] = Summed(scores[u], totals[u].version)
      /\ rows # <<>> => rows[Len(rows)] = [total |-> totals[u], problems |-> scores[u]]

(***************************************************************************)
(* Every event that can be accepted ends up counted, although transactions *)
(* wait for each other and are rolled back, and although other events are  *)
(* refused and come back for ever.                                         *)
(***************************************************************************)
Acceptable == {e \in Events : Admissible(e) /\ \A f \in Events : f.sub = e.sub => SameIdentity(e, f)}
EveryEventCounts == \A e \in Acceptable : <>(e.id \in processed)
=============================================================================
