--------------------------- MODULE SubmissionStore ---------------------------
(***************************************************************************)
(* The judge service's system of record: the tables submissions,           *)
(* idempotency_requests, processed_events and outbox_events, and the three *)
(* transactions that write them (submit, rejudge, apply a judge result).   *)
(*                                                                         *)
(* Submit and rejudge are two-step calls: an unlocked look-up of the       *)
(* idempotency record, then (after the problem service and the object      *)
(* store have answered) one transaction.  Any number of callers interleave *)
(* between the two steps, and a judge result may be applied in between.    *)
(*                                                                         *)
(* Judge results are taken from ResultEvents in any order and any number   *)
(* of times: the store must cope with whatever an at-least-once broker     *)
(* delivers, so nothing is assumed of the deliveries here.                 *)
(***************************************************************************)
EXTENDS Naturals

CONSTANTS
    SubIds,         \* submissions.id
    OutboxIds,      \* outbox_events.id
    Callers,        \* gRPC handlers running CreateSubmission or RejudgeSubmission
    Keys,           \* (actor, idempotency_key) pairs
    Bodies,         \* (problem, language, source): what createRequestHash digests
    Contests,       \* contest ids, all > 0
    Revisions,      \* judge revisions (ULIDs) the problem service publishes
    Verdicts,       \* verdicts a worker reports
    ResultEvents,   \* judge.completed and judge.failed events on the wire
    ContestStart, ContestEnd,   \* the half-open contest interval
    MaxTime         \* bound on the clock, for model checking only

NoContest == 0      \* contest_id IS NULL
NoSub     == 0      \* no stored response yet
NoVerdict == ""     \* verdict IS NULL
SystemError == "SYSTEM_ERROR"
MaxRetryCount == 3

ASSUME IdAssumption == SubIds \subseteq Nat \ {0} /\ OutboxIds \subseteq Nat \ {0}
ASSUME ContestAssumption == Contests \subseteq Nat \ {0}
ASSUME TimeAssumption ==
    ContestStart \in Nat /\ ContestEnd \in Nat /\ MaxTime \in Nat /\ ContestStart < ContestEnd
ASSUME VerdictAssumption == NoVerdict \notin Verdicts /\ SystemError \notin Verdicts

(***************************************************************************)
(* An event as ParseJudgeResultEvent yields it.  A failed event carries no *)
(* verdict, a completed one is not retryable.                              *)
(***************************************************************************)
JudgeResultEvent ==
    [id : Nat, sub : SubIds, rev : Revisions, type : {"judge.completed", "judge.failed"},
     verdict : Verdicts \cup {NoVerdict}, retryable : BOOLEAN]

ASSUME EventAssumption ==
    /\ ResultEvents \subseteq JudgeResultEvent
    /\ \A e, f \in ResultEvents : e.id = f.id => e = f
    /\ \A e \in ResultEvents : IF e.type = "judge.completed"
                               THEN e.verdict \in Verdicts /\ ~e.retryable
                               ELSE e.verdict = NoVerdict

VARIABLES
    submissions,    \* the table, one row per id; status ABSENT is "no such row"
    outbox,         \* payloads of outbox_events; type "none" is "no such row"
    creates,        \* idempotency_requests with operation create
    rejudges,       \* idempotency_requests with operation rejudge
    processed,      \* processed_events of the result consumer
    calls,          \* the handlers between look-up and transaction
    answers,        \* the successful responses sent so far
    now             \* MySQL's UTC_TIMESTAMP

vars == <<submissions, outbox, creates, rejudges, processed, calls, answers, now>>

-----------------------------------------------------------------------------
(***************************************************************************)
(* Statuses and the transition table of state_machine.go.                  *)
(***************************************************************************)
Status == {"QUEUED", "COMPILING", "RUNNING", "RETRY_WAIT", "DONE", "CANCELLED", "INVALIDATED"}

allowedTransitions ==
    [QUEUED      |-> {"COMPILING", "CANCELLED", "INVALIDATED"},
     COMPILING   |-> {"RUNNING", "DONE", "RETRY_WAIT", "CANCELLED", "INVALIDATED"},
     RUNNING     |-> {"DONE", "RETRY_WAIT", "CANCELLED", "INVALIDATED"},
     RETRY_WAIT  |-> {"QUEUED", "CANCELLED", "INVALIDATED"},
     DONE        |-> {"INVALIDATED"},
     CANCELLED   |-> {},
     INVALIDATED |-> {}]

CanTransition(from, to) == from \in DOMAIN allowedTransitions /\ to \in allowedTransitions[from]
CanInvalidate(status)   == CanTransition(status, "INVALIDATED")

Row == [status : Status \cup {"ABSENT"}, verdict : Verdicts \cup {NoVerdict, SystemError},
        rev : Revisions \cup {NoVerdict}, body : Bodies \cup {NoVerdict},
        contest : Contests \cup {NoContest}, createdAt : Nat, retryCount : 0..MaxRetryCount]

AbsentRow == [status |-> "ABSENT", verdict |-> NoVerdict, rev |-> NoVerdict, body |-> NoVerdict,
              contest |-> NoContest, createdAt |-> 0, retryCount |-> 0]

\* insertSubmission and insertContestSubmission: every new row waits for its judgement.
QueuedRow(rev, body, contest, createdAt) ==
    [status |-> "QUEUED", verdict |-> NoVerdict, rev |-> rev, body |-> body,
     contest |-> contest, createdAt |-> createdAt, retryCount |-> 0]

Exists(s) == submissions[s].status # "ABSENT"

\* AUTO_INCREMENT: the lowest id of the table that holds no row.
NextSub(s) == ~Exists(s) /\ \A t \in SubIds : t < s => Exists(t)

(***************************************************************************)
(* Outbox payloads.  submittedAt is set where the payload carries it.      *)
(***************************************************************************)
OutboxRow == [type : {"none", "judge.requested", "submission.invalidated", "submission.judged"},
              sub : SubIds \cup {NoSub}, rev : Revisions \cup {NoVerdict},
              contest : Contests \cup {NoContest},
              verdict : Verdicts \cup {NoVerdict, SystemError}, submittedAt : Nat]

NoEvent == [type |-> "none", sub |-> NoSub, rev |-> NoVerdict, contest |-> NoContest,
            verdict |-> NoVerdict, submittedAt |-> 0]

NextOutbox(table, o) == table[o].type = "none" /\ \A p \in OutboxIds : p < o => table[p].type # "none"

JudgeRequested_NoRevision(s, row) ==     \* seeded defect
    [NoEvent EXCEPT !.type = "judge.requested", !.sub = s]
JudgeRequested(s, row) ==
    [NoEvent EXCEPT !.type = "judge.requested", !.sub = s, !.rev = row.rev]
SubmissionInvalidated(s, row) ==
    [NoEvent EXCEPT !.type = "submission.invalidated", !.sub = s, !.contest = row.contest,
                    !.verdict = row.verdict, !.submittedAt = row.createdAt]
SubmissionJudged(s, row, verdict) ==
    [NoEvent EXCEPT !.type = "submission.judged", !.sub = s, !.contest = row.contest,
                    !.verdict = verdict, !.submittedAt = row.createdAt]

(***************************************************************************)
(* Request hashes.  createRequestHash does not cover the contest; a        *)
(* contest request digests it together with the contest id.                *)
(***************************************************************************)
Hash(body, contest) == <<body, contest>>
createRequestHash(body) == Hash(body, NoContest)
NoHash == <<NoVerdict, NoContest>>

NoCreate  == [hash |-> NoHash, id |-> NoSub]
NoRejudge == [target |-> NoSub, id |-> NoSub]
Idle == [op |-> "idle"]

-----------------------------------------------------------------------------
Init ==
    /\ submissions = [s \in SubIds |-> AbsentRow]
    /\ outbox = [o \in OutboxIds |-> NoEvent]
    /\ creates = [k \in Keys |-> NoCreate]
    /\ rejudges = [k \in Keys |-> NoRejudge]
    /\ processed = {}
    /\ calls = [c \in Callers |-> Idle]
    /\ answers = {}
    /\ now = 0

\* A response reaches the caller or is lost with the connection; the effects stay.
Reply(a) == answers' \in {answers, answers \cup {a}}

CreateAnswer(k, body, contest, s) ==
    [op |-> "create", key |-> k, body |-> body, contest |-> contest, id |-> s]
RejudgeAnswer(k, target, s) == [op |-> "rejudge", key |-> k, target |-> target, id |-> s]

(***************************************************************************)
(* findCreateReplay on a record that exists: the stored hash is the        *)
(* request's own or the contest-less one, and whenever the hash does not   *)
(* pin the contest the stored submission's contest has to be the request's.*)
(***************************************************************************)
CreateReplays_AnyContest(k, body, contest) ==   \* seeded defect: line 423 left out
    creates[k].id # NoSub /\ creates[k].hash \in {Hash(body, contest), createRequestHash(body)}

CreateReplays(k, body, contest) ==
    LET rec == creates[k]
        own == Hash(body, contest)
    IN  /\ rec.id # NoSub
        /\ rec.hash \in {own, createRequestHash(body)}
        /\ contest = NoContest \/ rec.hash # own => submissions[rec.id].contest = contest

\* Create up to the replay check: answer from the record, or go on to the
\* problem service when there is no record.  Any other outcome is an error
\* response that changes nothing.
BeginCreate(c, k, body, contest) ==
    /\ calls[c] = Idle
    /\ \/ /\ creates[k].id = NoSub
          /\ calls' = [calls EXCEPT ![c] = [op |-> "create", key |-> k, body |-> body, contest |-> contest]]
          /\ UNCHANGED answers
       \/ /\ CreateReplays(k, body, contest)
          /\ Reply(CreateAnswer(k, body, contest, creates[k].id))
          /\ UNCHANGED calls
    /\ UNCHANGED <<submissions, outbox, creates, rejudges, processed, now>>

(***************************************************************************)
(* CreateWithOutboxAndIdempotency, with the revision that GetJudgeProfile  *)
(* returned.  A contest row is inserted only if the database clock is      *)
(* inside the interval at that very statement.                             *)
(***************************************************************************)
InContest(t) == ContestStart <= t /\ t < ContestEnd

\* reserveIdempotency: the unique key (actor, operation, key) admits the insert.
CreateKeyFree(k) == creates[k].id = NoSub

CreateWithOutboxAndIdempotency(c, rev) ==
    LET call == calls[c] IN
    /\ call.op = "create"
    /\ \/ /\ CreateKeyFree(call.key)
          /\ call.contest # NoContest => InContest(now)
          /\ \E s \in SubIds, o \in OutboxIds :
               LET row == QueuedRow(rev, call.body, call.contest, now)
               IN  /\ NextSub(s) /\ NextOutbox(outbox, o)
                   /\ submissions' = [submissions EXCEPT ![s] = row]
                   /\ outbox' = [outbox EXCEPT ![o] = JudgeRequested(s, row)]
                   /\ creates' = [creates EXCEPT ![call.key] =
                                    [hash |-> Hash(call.body, call.contest), id |-> s]]
                   /\ Reply(CreateAnswer(call.key, call.body, call.contest, s))
       \/ /\ ~CreateKeyFree(call.key)
          /\ creates[call.key].hash = Hash(call.body, call.contest)
          /\ Reply(CreateAnswer(call.key, call.body, call.contest, creates[call.key].id))
          /\ UNCHANGED <<submissions, outbox, creates>>
    /\ calls' = [calls EXCEPT ![c] = Idle]
    /\ UNCHANGED <<rejudges, processed, now>>

\* Rejudge up to the transaction: replay, or check the (unlocked) row.
BeginRejudge(c, k, target) ==
    /\ calls[c] = Idle
    /\ \/ /\ rejudges[k].id = NoSub
          /\ Exists(target) /\ CanInvalidate(submissions[target].status)
          /\ calls' = [calls EXCEPT ![c] = [op |-> "rejudge", key |-> k, target |-> target]]
          /\ UNCHANGED answers
       \/ /\ rejudges[k].id # NoSub /\ rejudges[k].target = target
          /\ Reply(RejudgeAnswer(k, target, rejudges[k].id))
          /\ UNCHANGED calls
    /\ UNCHANGED <<submissions, outbox, creates, rejudges, processed, now>>

(***************************************************************************)
(* InvalidateAndRequeueWithOutboxAndIdempotency: invalidate the old row,   *)
(* announce it, insert a replacement row and request its judgement.  A     *)
(* contest replacement keeps the original submission time.                 *)
(***************************************************************************)
\* The check repeated on the row read FOR UPDATE.
LockedRowInvalidatable_Unchecked(s) == TRUE      \* seeded defect
ReplacementTime_Now(old) == now                  \* seeded defect
LockedRowInvalidatable(s) == CanInvalidate(submissions[s].status)
ReplacementTime(old) == IF old.contest # NoContest THEN old.createdAt ELSE now

InvalidateAndRequeue(c, rev) ==
    LET call == calls[c]
        old  == submissions[call.target]
    IN
    /\ call.op = "rejudge"
    /\ \/ /\ rejudges[call.key].id = NoSub
          /\ LockedRowInvalidatable(call.target)
          /\ \E s \in SubIds, o1, o2 \in OutboxIds :
               LET row == QueuedRow(rev, old.body, old.contest, ReplacementTime(old))
                   announced == [outbox EXCEPT ![o1] = SubmissionInvalidated(call.target, old)]
               IN  /\ NextSub(s) /\ NextOutbox(outbox, o1) /\ NextOutbox(announced, o2)
                   /\ submissions' = [submissions EXCEPT ![call.target].status = "INVALIDATED", ![s] = row]
                   /\ outbox' = [announced EXCEPT ![o2] = JudgeRequested(s, row)]
                   /\ rejudges' = [rejudges EXCEPT ![call.key] = [target |-> call.target, id |-> s]]
                   /\ Reply(RejudgeAnswer(call.key, call.target, s))
       \/ /\ rejudges[call.key].id # NoSub
          /\ rejudges[call.key].target = call.target
          /\ Reply(RejudgeAnswer(call.key, call.target, rejudges[call.key].id))
          /\ UNCHANGED <<submissions, outbox, rejudges>>
    /\ calls' = [calls EXCEPT ![c] = Idle]
    /\ UNCHANGED <<creates, processed, now>>

(***************************************************************************)
(* A call ends without an effect: the problem service or the object store  *)
(* failed, the key conflicts, the contest is closed, the row can no longer *)
(* be invalidated, the transaction was rolled back or the process died.    *)
(***************************************************************************)
CallFails(c) ==
    /\ calls[c] # Idle
    /\ calls' = [calls EXCEPT ![c] = Idle]
    /\ UNCHANGED <<submissions, outbox, creates, rejudges, processed, answers, now>>

(***************************************************************************)
(* ApplyJudgeResult.  Disposition is what the consumer does with the       *)
(* delivery afterwards: a nil error is acknowledged, an invalid argument   *)
(* rejected, any other error requeued.                                     *)
(***************************************************************************)
Disposition(e) ==
    IF e.id \in processed THEN "ack"
    ELSE IF ~Exists(e.sub) THEN "requeue"
    ELSE IF submissions[e.sub].rev # e.rev THEN "reject"
    ELSE "ack"

TerminalStatus_NoInvalidated == {"DONE", "CANCELLED"}   \* seeded defect
TerminalStatus == {"DONE", "INVALIDATED", "CANCELLED"}

\* retry_count saturates at its CHECK bound.
OneMore(n) == IF n < MaxRetryCount THEN n + 1 ELSE MaxRetryCount

\* The row after an event that found it in a non-terminal status.
Judged(row, e) ==
    IF e.type = "judge.completed" THEN [row EXCEPT !.status = "DONE", !.verdict = e.verdict]
    ELSE IF e.retryable THEN [row EXCEPT !.status = "RETRY_WAIT", !.retryCount = OneMore(row.retryCount)]
    ELSE [row EXCEPT !.status = "DONE", !.verdict = SystemError]

\* Only a final result of a contest submission is announced.
Announces_AnyStatus(row) == row.contest # NoContest   \* seeded defect
Announces(row) == row.status = "DONE" /\ row.contest # NoContest

ApplyJudgeResult(e) ==
    /\ Disposition(e) = "ack"
    /\ e.id \notin processed
    /\ processed' = processed \cup {e.id}
    /\ IF submissions[e.sub].status \in TerminalStatus
       THEN UNCHANGED <<submissions, outbox>>
       ELSE LET row == Judged(submissions[e.sub], e) IN
            /\ submissions' = [submissions EXCEPT ![e.sub] = row]
            /\ IF Announces(row)
               THEN \E o \in OutboxIds :
                      /\ NextOutbox(outbox, o)
                      /\ outbox' = [outbox EXCEPT ![o] = SubmissionJudged(e.sub, row, row.verdict)]
               ELSE UNCHANGED outbox
    /\ UNCHANGED <<creates, rejudges, calls, answers, now>>

Tick ==
    /\ now < MaxTime
    /\ now' = now + 1
    /\ UNCHANGED <<submissions, outbox, creates, rejudges, processed, calls, answers>>

CallStep(c) ==
    \/ \E k \in Keys, body \in Bodies, contest \in Contests \cup {NoContest} : BeginCreate(c, k, body, contest)
    \/ \E rev \in Revisions : CreateWithOutboxAndIdempotency(c, rev)
    \/ \E k \in Keys, s \in SubIds : BeginRejudge(c, k, s)
    \/ \E rev \in Revisions : InvalidateAndRequeue(c, rev)
    \/ CallFails(c)

Next == (\E c \in Callers : CallStep(c)) \/ (\E e \in ResultEvents : ApplyJudgeResult(e)) \/ Tick

Spec == Init /\ [][Next]_vars

-----------------------------------------------------------------------------
Call == {Idle}
        \cup [op : {"create"}, key : Keys, body : Bodies, contest : Contests \cup {NoContest}]
        \cup [op : {"rejudge"}, key : Keys, target : SubIds]
Answer == [op : {"create"}, key : Keys, body : Bodies, contest : Contests \cup {NoContest}, id : SubIds]
          \cup [op : {"rejudge"}, key : Keys, target : SubIds, id : SubIds]
CreateRecord == {NoCreate} \cup [hash : Bodies \X (Contests \cup {NoContest}), id : SubIds]
RejudgeRecord == {NoRejudge} \cup [target : SubIds, id : SubIds]

(* Every table holds rows of its schema. *)
TypeOK ==
    /\ submissions \in [SubIds -> Row]
    /\ outbox \in [OutboxIds -> OutboxRow]
    /\ creates \in [Keys -> CreateRecord]
    /\ rejudges \in [Keys -> RejudgeRecord]
    /\ processed \subseteq Nat
    /\ calls \in [Callers -> Call]
    /\ answers \subseteq Answer
    /\ now \in Nat

(***************************************************************************)
(* Retrying a request is harmless: whatever the interleaving of handlers   *)
(* with the same key, all answers given for one key are the same answer,   *)
(* and a create answer names a row that holds the very body and contest    *)
(* the client sent.                                                        *)
(***************************************************************************)
AnswersAgree ==
    /\ \A a, b \in answers : a.op = b.op /\ a.key = b.key => a = b
    /\ \A a \in answers : a.op = "create" =>
          /\ submissions[a.id].body = a.body
          /\ submissions[a.id].contest = a.contest

(***************************************************************************)
(* Rows and idempotency records tell one story: a row is the outcome of    *)
(* exactly one create or rejudge record, and it is INVALIDATED exactly if  *)
(* one rejudge record (and never two) names it as the row it replaced.  So *)
(* concurrent rejudges never leave two live replacements of a submission.  *)
(***************************************************************************)
OneOrigin ==
    /\ \A s \in SubIds :
         /\ Exists(s) <=> (\E k \in Keys : creates[k].id = s) \/ (\E k \in Keys : rejudges[k].id = s)
         /\ submissions[s].status = "INVALIDATED" <=> \E k \in Keys : rejudges[k].target = s
    /\ \A j, k \in Keys : creates[j].id # NoSub => creates[j].id # rejudges[k].id
    /\ \A j, k \in Keys : j # k =>
         /\ creates[j].id # NoSub => creates[j].id # creates[k].id
         /\ rejudges[j].id # NoSub => /\ rejudges[j].id # rejudges[k].id
                                      /\ rejudges[j].target # rejudges[k].target

(***************************************************************************)
(* The outbox announces a contest verdict exactly once, however many       *)
(* results arrive for the row: there is one submission.judged event if     *)
(* the row carries a verdict and none otherwise, and it repeats the row's  *)
(* verdict and submission time.                                            *)
(***************************************************************************)
JudgedOnce ==
    /\ \A o \in OutboxIds : outbox[o].type = "submission.judged" =>
         LET row == submissions[outbox[o].sub] IN
         /\ row.verdict = outbox[o].verdict /\ row.verdict # NoVerdict
         /\ row.contest = outbox[o].contest /\ row.contest # NoContest
         /\ row.createdAt = outbox[o].submittedAt
    /\ \A o, p \in OutboxIds :
         outbox[o].type = "submission.judged" /\ outbox[p].type = "submission.judged"
           /\ outbox[o].sub = outbox[p].sub => o = p
    /\ \A s \in SubIds : submissions[s].verdict # NoVerdict /\ submissions[s].contest # NoContest =>
         \E o \in OutboxIds : outbox[o].type = "submission.judged" /\ outbox[o].sub = s

(***************************************************************************)
(* Every row was requested to be judged, exactly once and at its own judge *)
(* revision: neither a replay nor a rejudge loses or repeats a request.    *)
(***************************************************************************)
RequestedOnce ==
    \A s \in SubIds : Exists(s) =>
      \E o \in OutboxIds :
        /\ outbox[o].type = "judge.requested" /\ outbox[o].sub = s /\ outbox[o].rev = submissions[s].rev
        /\ \A p \in OutboxIds : outbox[p].type = "judge.requested" /\ outbox[p].sub = s => p = o

(***************************************************************************)
(* Every contest row, a replacement made after the contest ended included, *)
(* carries a submission time inside the contest interval: the contest      *)
(* service refuses to project any other.                                   *)
(***************************************************************************)
ContestRowsInInterval ==
    \A s \in SubIds : submissions[s].contest # NoContest => InContest(submissions[s].createdAt)

(***************************************************************************)
(* A late, duplicated or retried result never overwrites a final state: a  *)
(* DONE row keeps its verdict and can only be invalidated, an INVALIDATED  *)
(* row never changes again, and no row ever disappears.                    *)
(***************************************************************************)
TerminalRow(row, next) ==
    /\ row.status = "DONE" => next = row \/ next = [row EXCEPT !.status = "INVALIDATED"]
    /\ row.status = "INVALIDATED" => next = row
    /\ row.status # "ABSENT" => next.status # "ABSENT"
TerminalIsStable == [][\A s \in SubIds : TerminalRow(submissions[s], submissions'[s])]_vars
=============================================================================
