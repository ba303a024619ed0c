------------------------ MODULE SubmissionStore_proofs ------------------------
(***************************************************************************)
(* Proofs about the submission store, for any number of submissions, keys, *)
(* concurrent handlers and result events and for any clock.                *)
(***************************************************************************)
EXTENDS SubmissionStore, TLAPS

(* A call that carries an operation carries the arguments of that operation. *)
LEMMA CallTypes ==
    ASSUME TypeOK, NEW c \in Callers
    PROVE  /\ calls[c].op = "create" => /\ calls[c].key \in Keys /\ calls[c].body \in Bodies
                                        /\ calls[c].contest \in Contests \cup {NoContest}
           /\ calls[c].op = "rejudge" => calls[c].key \in Keys /\ calls[c].target \in SubIds
BY DEF TypeOK, Call, Idle

(* A new row, and the payloads made of a row, are of their types. *)
LEMMA QueuedRowType ==
    ASSUME NEW rev \in Revisions, NEW body \in Bodies \cup {NoVerdict},
           NEW contest \in Contests \cup {NoContest}, NEW t \in Nat
    PROVE  QueuedRow(rev, body, contest, t) \in Row
BY DEF QueuedRow, Row, Status, MaxRetryCount

(* The outbox payloads made of a row are of their types. *)
LEMMA PayloadTypes ==
    ASSUME NEW s \in SubIds, NEW row \in Row
    PROVE  /\ JudgeRequested(s, row) \in OutboxRow
           /\ SubmissionInvalidated(s, row) \in OutboxRow
           /\ SubmissionJudged(s, row, row.verdict) \in OutboxRow
BY DEF JudgeRequested, SubmissionInvalidated, SubmissionJudged, NoEvent, OutboxRow, Row

(* A result event as the store may count on it; where it comes from does    *)
(* not matter.                                                              *)
WellFormed(e) ==
    e.id \in Nat /\ e.sub \in SubIds /\ (e.type = "judge.completed" => e.verdict \in Verdicts)

(* The events the store is checked with on its own are well formed. *)
LEMMA EventsWellFormed == \A e \in ResultEvents : WellFormed(e)
  BY EventAssumption DEF WellFormed, JudgeResultEvent

(* A step of the store, whichever well-formed result event arrives, and the *)
(* store on its own among such steps.                                       *)
StoreStep ==
    \/ \E c \in Callers : CallStep(c)
    \/ \E e : WellFormed(e) /\ ApplyJudgeResult(e)
    \/ Tick
OpenSpec == Init /\ [][StoreStep]_vars

(* The store with the events it is checked with is a store whose events are *)
(* well formed.                                                             *)
LEMMA SpecIsOpen == Spec => OpenSpec
<1>1. Next => StoreStep
  BY EventsWellFormed DEF Next, StoreStep
<1> QED
  BY <1>1, PTL DEF Spec, OpenSpec

(* A result event turns a row into a row. *)
LEMMA JudgedRowType ==
    ASSUME NEW row \in Row, NEW e, WellFormed(e)
    PROVE  Judged(row, e) \in Row
<1>1. e.type = "judge.completed" => e.verdict \in Verdicts
  BY DEF WellFormed
<1>2. OneMore(row.retryCount) \in 0..MaxRetryCount
  BY DEF OneMore, Row, MaxRetryCount
<1>3. [row EXCEPT !.status = "RETRY_WAIT", !.retryCount = OneMore(row.retryCount)] \in Row
  BY <1>2 DEF Row, Status
<1>4. ASSUME NEW v \in Verdicts \cup {SystemError} PROVE [row EXCEPT !.status = "DONE", !.verdict = v] \in Row
  BY DEF Row, Status
<1> QED
  BY <1>1, <1>3, <1>4 DEF Judged

(* The rows a rejudge may replace. *)
LEMMA InvalidatableRows ==
    ASSUME NEW st, CanInvalidate(st)
    PROVE  st \in {"QUEUED", "COMPILING", "RUNNING", "RETRY_WAIT", "DONE"}
BY DEF CanInvalidate, CanTransition, allowedTransitions

Replacement(old, rev) == QueuedRow(rev, old.body, old.contest, ReplacementTime(old))

(* What InvalidateAndRequeue does when it does not replay an answer. *)
Requeues(call, rev, s, o1, o2) ==
    LET old == submissions[call.target]
        row == Replacement(old, rev)
        announced == [outbox EXCEPT ![o1] = SubmissionInvalidated(call.target, old)]
    IN  /\ rejudges[call.key].id = NoSub /\ CanInvalidate(old.status)
        /\ NextSub(s) /\ NextOutbox(outbox, o1) /\ NextOutbox(announced, o2)
        /\ submissions' = [submissions EXCEPT ![call.target].status = "INVALIDATED", ![s] = row]
        /\ outbox' = [announced EXCEPT ![o2] = JudgeRequested(s, row)]
        /\ rejudges' = [rejudges EXCEPT ![call.key] = [target |-> call.target, id |-> s]]
        /\ Reply(RejudgeAnswer(call.key, call.target, s))

(* A rejudge transaction replaces the row or repeats the stored answer. *)
LEMMA RequeueCases ==
    ASSUME NEW c \in Callers, NEW rev, InvalidateAndRequeue(c, rev)
    PROVE  \/ \E s \in SubIds, o1, o2 \in OutboxIds : Requeues(calls[c], rev, s, o1, o2)
           \/ /\ rejudges[calls[c].key].id # NoSub
              /\ Reply(RejudgeAnswer(calls[c].key, calls[c].target, rejudges[calls[c].key].id))
              /\ UNCHANGED <<submissions, outbox, rejudges>>
BY DEF InvalidateAndRequeue, Requeues, Replacement, LockedRowInvalidatable

(* The two rows a rejudge writes; every other row stays as it is. *)
RowsRequeued(target, s, rev) ==
    /\ s # target /\ submissions[s].status = "ABSENT"
    /\ submissions[target].status \in {"QUEUED", "COMPILING", "RUNNING", "RETRY_WAIT", "DONE"}
    /\ submissions'[target] = [submissions[target] EXCEPT !.status = "INVALIDATED"]
    /\ submissions'[s] = Replacement(submissions[target], rev)
    /\ \A t \in SubIds \ {s, target} : submissions'[t] = submissions[t]
    /\ submissions' \in [SubIds -> Row]

(* A rejudge that replaces writes exactly the old row and a new one. *)
LEMMA RequeuedRows ==
    ASSUME TypeOK, NEW c \in Callers, calls[c].target \in SubIds, NEW rev \in Revisions,
           NEW s \in SubIds, NEW o1 \in OutboxIds, NEW o2 \in OutboxIds, Requeues(calls[c], rev, s, o1, o2)
    PROVE  RowsRequeued(calls[c].target, s, rev)
<1> DEFINE old == submissions[calls[c].target]
           row == Replacement(old, rev)
<1>1. old \in Row /\ submissions \in [SubIds -> Row]
  BY DEF TypeOK
<1>2. old.status \in {"QUEUED", "COMPILING", "RUNNING", "RETRY_WAIT", "DONE"}
  BY InvalidatableRows DEF Requeues
<1>3. submissions[s].status = "ABSENT"
  BY DEF Requeues, NextSub, Exists
<1>4. s # calls[c].target
  BY <1>2, <1>3
<1>5. ReplacementTime(old) \in Nat
  BY <1>1 DEF ReplacementTime, TypeOK, Row
<1>6. row \in Row
  BY <1>1, <1>5, QueuedRowType DEF Row, Replacement
<1>7. [old EXCEPT !.status = "INVALIDATED"] \in Row
  BY <1>1 DEF Row, Status
<1>8. submissions' = [submissions EXCEPT ![calls[c].target] = [old EXCEPT !.status = "INVALIDATED"], ![s] = row]
  BY <1>1, <1>4 DEF Requeues
<1> HIDE DEF row
<1>9. /\ submissions'[calls[c].target] = [old EXCEPT !.status = "INVALIDATED"]
      /\ submissions'[s] = row
      /\ \A t \in SubIds \ {s, calls[c].target} : submissions'[t] = submissions[t]
  BY <1>1, <1>4, <1>8
<1>10. submissions' \in [SubIds -> Row]
  BY <1>1, <1>6, <1>7, <1>8
<1> QED
  BY <1>2, <1>3, <1>4, <1>9, <1>10 DEF row, RowsRequeued

(* What CreateWithOutboxAndIdempotency does when it does not replay an answer. *)
Creates(call, rev, s, o) ==
    LET row == QueuedRow(rev, call.body, call.contest, now)
    IN  /\ CreateKeyFree(call.key)
        /\ call.contest # NoContest => InContest(now)
        /\ NextSub(s) /\ NextOutbox(outbox, o)
        /\ submissions' = [submissions EXCEPT ![s] = row]
        /\ outbox' = [outbox EXCEPT ![o] = JudgeRequested(s, row)]
        /\ creates' = [creates EXCEPT ![call.key] = [hash |-> Hash(call.body, call.contest), id |-> s]]
        /\ Reply(CreateAnswer(call.key, call.body, call.contest, s))

(* A submit transaction inserts a row or repeats the stored answer. *)
LEMMA CreateCases ==
    ASSUME NEW c \in Callers, NEW rev, CreateWithOutboxAndIdempotency(c, rev)
    PROVE  \/ \E s \in SubIds, o \in OutboxIds : Creates(calls[c], rev, s, o)
           \/ /\ creates[calls[c].key].id # NoSub
              /\ Reply(CreateAnswer(calls[c].key, calls[c].body, calls[c].contest, creates[calls[c].key].id))
              /\ UNCHANGED <<submissions, outbox, creates>>
BY DEF CreateWithOutboxAndIdempotency, Creates, CreateKeyFree

(* An event that is applied names a row that exists. *)
LEMMA AppliedRow ==
    ASSUME TypeOK, NEW e, WellFormed(e), ApplyJudgeResult(e)
    PROVE  /\ e.sub \in SubIds /\ e.id \in Nat /\ Exists(e.sub)
           /\ submissions[e.sub] \in Row /\ Judged(submissions[e.sub], e) \in Row
<1>1. e.sub \in SubIds /\ e.id \in Nat
  BY DEF WellFormed
<1>2. Exists(e.sub)
  BY DEF ApplyJudgeResult, Disposition
<1>3. submissions[e.sub] \in Row
  BY <1>1 DEF TypeOK
<1> QED
  BY <1>1, <1>2, <1>3, JudgedRowType

(* Replies and records are of their types. *)
LEMMA AnswerTypes ==
    ASSUME NEW k \in Keys, NEW s \in SubIds
    PROVE  /\ \A body \in Bodies, contest \in Contests \cup {NoContest} :
                /\ CreateAnswer(k, body, contest, s) \in Answer
                /\ [hash |-> Hash(body, contest), id |-> s] \in CreateRecord
           /\ \A target \in SubIds :
                /\ RejudgeAnswer(k, target, s) \in Answer
                /\ [target |-> target, id |-> s] \in RejudgeRecord
BY DEF CreateAnswer, RejudgeAnswer, Answer, CreateRecord, RejudgeRecord, Hash

(* Sending or losing a reply keeps the set of replies well formed. *)
LEMMA ReplyType ==
    ASSUME TypeOK, NEW a \in Answer, Reply(a)
    PROVE  answers' \subseteq Answer
BY DEF TypeOK, Reply

(* A completed idempotency record names a submission. *)
LEMMA RecordIds ==
    ASSUME TypeOK, NEW k \in Keys
    PROVE  /\ creates[k].id # NoSub => creates[k].id \in SubIds
           /\ rejudges[k].id # NoSub => rejudges[k].id \in SubIds
BY DEF TypeOK, CreateRecord, RejudgeRecord, NoCreate, NoRejudge

(* Applying a result keeps the tables well formed. *)
LEMMA AppliedTypes == ASSUME TypeOK, NEW e, WellFormed(e), ApplyJudgeResult(e) PROVE TypeOK'
<1> DEFINE row == Judged(submissions[e.sub], e)
<1>1. e.sub \in SubIds /\ e.id \in Nat /\ row \in Row
  BY AppliedRow
<1>2. SubmissionJudged(e.sub, row, row.verdict) \in OutboxRow
  BY <1>1, PayloadTypes
<1> HIDE DEF row
<1>3. submissions' \in [SubIds -> Row] /\ processed' \subseteq Nat
  BY <1>1 DEF ApplyJudgeResult, TypeOK, row
<1>4. outbox' \in [OutboxIds -> OutboxRow]
  BY <1>1, <1>2 DEF ApplyJudgeResult, TypeOK, row
<1> QED
  BY <1>3, <1>4 DEF ApplyJudgeResult, TypeOK

(* Every step of the store keeps the tables well formed. *)
LEMMA StoreTypeStep == TypeOK /\ [StoreStep]_vars => TypeOK'
<1> SUFFICES ASSUME TypeOK, [StoreStep]_vars PROVE TypeOK'
  OBVIOUS
<1>1. ASSUME NEW c \in Callers, NEW k \in Keys, NEW body \in Bodies,
             NEW contest \in Contests \cup {NoContest}, BeginCreate(c, k, body, contest)
      PROVE  TypeOK'
  <2>1. UNCHANGED <<submissions, outbox, creates, rejudges, processed, now>>
    BY <1>1 DEF BeginCreate
  <2>2. calls' \in [Callers -> Call]
    BY <1>1 DEF BeginCreate, TypeOK, Call
  <2>3. answers' \subseteq Answer
    <3>1. CASE UNCHANGED answers
      BY <3>1 DEF TypeOK
    <3>2. CASE creates[k].id # NoSub /\ Reply(CreateAnswer(k, body, contest, creates[k].id))
      <4>1. creates[k].id \in SubIds
        BY <3>2, RecordIds
      <4> QED
        BY <3>2, <4>1, AnswerTypes, ReplyType
    <3> QED
      BY <1>1, <3>1, <3>2 DEF BeginCreate, CreateReplays
  <2> QED
    BY <2>1, <2>2, <2>3 DEF TypeOK
<1>2. ASSUME NEW c \in Callers, NEW rev \in Revisions, CreateWithOutboxAndIdempotency(c, rev)
      PROVE  TypeOK'
  <2>1. /\ calls[c].key \in Keys /\ calls[c].body \in Bodies
        /\ calls[c].contest \in Contests \cup {NoContest}
    BY <1>2, CallTypes DEF CreateWithOutboxAndIdempotency
  <2>2. UNCHANGED <<rejudges, processed, now>> /\ calls' \in [Callers -> Call]
    BY <1>2 DEF CreateWithOutboxAndIdempotency, TypeOK, Call
  <2>3. ASSUME NEW s \in SubIds, NEW o \in OutboxIds, Creates(calls[c], rev, s, o)
        PROVE  TypeOK'
    <3> DEFINE row == QueuedRow(rev, calls[c].body, calls[c].contest, now)
    <3>1. row \in Row
      BY <2>1, QueuedRowType DEF TypeOK
    <3>2. JudgeRequested(s, row) \in OutboxRow
      BY <3>1, PayloadTypes
    <3>3. submissions' \in [SubIds -> Row] /\ outbox' \in [OutboxIds -> OutboxRow]
      BY <2>3, <3>1, <3>2 DEF Creates, TypeOK
    <3>4. creates' \in [Keys -> CreateRecord]
      BY <2>1, <2>3, AnswerTypes DEF Creates, TypeOK
    <3>5. answers' \subseteq Answer
      BY <2>1, <2>3, AnswerTypes DEF Creates, Reply, TypeOK
    <3> QED
      BY <2>2, <3>3, <3>4, <3>5 DEF TypeOK
  <2>4. ASSUME creates[calls[c].key].id # NoSub, UNCHANGED <<submissions, outbox, creates>>,
               Reply(CreateAnswer(calls[c].key, calls[c].body, calls[c].contest, creates[calls[c].key].id))
        PROVE  TypeOK'
    <3>1. creates[calls[c].key].id \in SubIds
      BY <2>1, <2>4, RecordIds
    <3>2. answers' \subseteq Answer
      BY <2>1, <2>4, <3>1, AnswerTypes, ReplyType
    <3> QED
      BY <2>2, <2>4, <3>2 DEF TypeOK
  <2> QED
    BY <1>2, <2>3, <2>4, CreateCases
<1>3. ASSUME NEW c \in Callers, NEW k \in Keys, NEW s \in SubIds, BeginRejudge(c, k, s) PROVE TypeOK'
  <2>1. UNCHANGED <<submissions, outbox, creates, rejudges, processed, now>>
    BY <1>3 DEF BeginRejudge
  <2>2. calls' \in [Callers -> Call]
    BY <1>3 DEF BeginRejudge, TypeOK, Call
  <2>3. answers' \subseteq Answer
    <3>1. CASE UNCHANGED answers
      BY <3>1 DEF TypeOK
    <3>2. CASE rejudges[k].id # NoSub /\ Reply(RejudgeAnswer(k, s, rejudges[k].id))
      <4>1. rejudges[k].id \in SubIds
        BY <3>2, RecordIds
      <4> QED
        BY <3>2, <4>1, AnswerTypes, ReplyType
    <3> QED
      BY <1>3, <3>1, <3>2 DEF BeginRejudge
  <2> QED
    BY <2>1, <2>2, <2>3 DEF TypeOK
<1>4. ASSUME NEW c \in Callers, NEW rev \in Revisions, InvalidateAndRequeue(c, rev) PROVE TypeOK'
  <2>1. calls[c].key \in Keys /\ calls[c].target \in SubIds
    BY <1>4, CallTypes DEF InvalidateAndRequeue
  <2>2. UNCHANGED <<creates, processed, now>> /\ calls' \in [Callers -> Call]
    BY <1>4 DEF InvalidateAndRequeue, TypeOK, Call
  <2>3. ASSUME NEW s \in SubIds, NEW o1 \in OutboxIds, NEW o2 \in OutboxIds, Requeues(calls[c], rev, s, o1, o2)
        PROVE  TypeOK'
    <3> DEFINE old == submissions[calls[c].target]
               row == Replacement(old, rev)
               first == SubmissionInvalidated(calls[c].target, old)
               second == JudgeRequested(s, row)
    <3>1. submissions' \in [SubIds -> Row] /\ submissions'[s] = row
      <4>1. RowsRequeued(calls[c].target, s, rev)
        BY <2>1, <2>3, RequeuedRows
      <4> QED
        BY <4>1 DEF RowsRequeued
    <3>2. old \in Row /\ row \in Row
      BY <2>1, <3>1 DEF TypeOK
    <3>3. first \in OutboxRow /\ second \in OutboxRow
      BY <2>1, <3>2, PayloadTypes
    <3>4. outbox' = [[outbox EXCEPT ![o1] = first] EXCEPT ![o2] = second]
      BY <2>3 DEF Requeues
    <3>5. outbox' \in [OutboxIds -> OutboxRow]
      BY <3>3, <3>4 DEF TypeOK
    <3>6. rejudges' \in [Keys -> RejudgeRecord]
      BY <2>1, <2>3, AnswerTypes DEF Requeues, TypeOK
    <3>7. answers' \subseteq Answer
      BY <2>1, <2>3, AnswerTypes DEF Requeues, Reply, TypeOK
    <3> QED
      BY <2>2, <3>1, <3>5, <3>6, <3>7 DEF TypeOK
  <2>4. ASSUME rejudges[calls[c].key].id # NoSub, UNCHANGED <<submissions, outbox, rejudges>>,
               Reply(RejudgeAnswer(calls[c].key, calls[c].target, rejudges[calls[c].key].id))
        PROVE  TypeOK'
    <3>1. rejudges[calls[c].key].id \in SubIds
      BY <2>1, <2>4, RecordIds
    <3>2. answers' \subseteq Answer
      BY <2>1, <2>4, <3>1, AnswerTypes, ReplyType
    <3> QED
      BY <2>2, <2>4, <3>2 DEF TypeOK
  <2> QED
    BY <1>4, <2>3, <2>4, RequeueCases
<1>5. ASSUME NEW c \in Callers, CallFails(c) PROVE TypeOK'
  BY <1>5 DEF CallFails, TypeOK, Call
<1>6. ASSUME NEW e, WellFormed(e), ApplyJudgeResult(e) PROVE TypeOK'
  BY <1>6, AppliedTypes
<1>7. CASE Tick
  BY <1>7 DEF Tick, TypeOK
<1>8. CASE UNCHANGED vars
  BY <1>8 DEF vars, TypeOK
<1> QED
  BY <1>1, <1>2, <1>3, <1>4, <1>5, <1>6, <1>7, <1>8 DEF StoreStep, CallStep

(* The initial tables are well formed. *)
LEMMA StoreTypeInit == Init => TypeOK
BY DEF Init, TypeOK, Row, AbsentRow, OutboxRow, NoEvent, CreateRecord, RejudgeRecord, Call, MaxRetryCount

(* The tables stay well formed whatever well-formed results arrive. *)
LEMMA OpenTypes == OpenSpec => []TypeOK
BY StoreTypeInit, StoreTypeStep, PTL DEF OpenSpec

(* The tables are always well formed. *)
THEOREM StoreTypeCorrect == Spec => []TypeOK
BY OpenTypes, SpecIsOpen

-----------------------------------------------------------------------------
(* Everything a step can do to one row of submissions. *)
RowStays(s)       == submissions'[s] = submissions[s]
RowCreated(s)     == /\ submissions[s].status = "ABSENT"
                     /\ \E rev \in Revisions, body \in Bodies, contest \in Contests \cup {NoContest} :
                          /\ submissions'[s] = QueuedRow(rev, body, contest, now)
                          /\ contest # NoContest => InContest(now)
RowReplaces(s)    == /\ submissions[s].status = "ABSENT"
                     /\ \E t \in SubIds, rev \in Revisions : submissions'[s] = Replacement(submissions[t], rev)
RowInvalidated(s) == /\ submissions[s].status \in {"QUEUED", "COMPILING", "RUNNING", "RETRY_WAIT", "DONE"}
                     /\ submissions'[s] = [submissions[s] EXCEPT !.status = "INVALIDATED"]
RowJudged(s)      == /\ submissions[s].status \notin TerminalStatus \cup {"ABSENT"}
                     /\ \E e : WellFormed(e) /\ submissions'[s] = Judged(submissions[s], e)

RowStep(s) == RowStays(s) \/ RowCreated(s) \/ RowReplaces(s) \/ RowInvalidated(s) \/ RowJudged(s)

(* The only ways in which a step of the store changes a row. *)
LEMMA RowSteps ==
    ASSUME TypeOK, [StoreStep]_vars, NEW t \in SubIds
    PROVE  RowStep(t)
<1> USE DEF RowStep
<1>1. ASSUME UNCHANGED submissions PROVE RowStep(t)
  BY <1>1 DEF RowStays
<1>2. ASSUME NEW c \in Callers, NEW rev \in Revisions, CreateWithOutboxAndIdempotency(c, rev) PROVE RowStep(t)
  <2>1. calls[c].body \in Bodies /\ calls[c].contest \in Contests \cup {NoContest}
    BY <1>2, CallTypes DEF CreateWithOutboxAndIdempotency
  <2>2. ASSUME NEW s \in SubIds, NEW o \in OutboxIds, Creates(calls[c], rev, s, o) PROVE RowStep(t)
    <3>1. submissions[s].status = "ABSENT"
      BY <2>2 DEF Creates, NextSub, Exists
    <3>2. submissions' = [submissions EXCEPT ![s] = QueuedRow(rev, calls[c].body, calls[c].contest, now)]
      BY <2>2 DEF Creates
    <3>3. CASE t = s
      <4>1. submissions'[s] = QueuedRow(rev, calls[c].body, calls[c].contest, now)
        BY <3>2 DEF TypeOK
      <4>2. calls[c].contest # NoContest => InContest(now)
        BY <2>2 DEF Creates
      <4>3. RowCreated(s)
        BY <2>1, <3>1, <4>1, <4>2 DEF RowCreated
      <4> QED
        BY <3>3, <4>3
    <3>4. CASE t # s
      BY <3>2, <3>4 DEF RowStays, TypeOK
    <3> QED
      BY <3>3, <3>4
  <2> QED
    BY <1>1, <1>2, <2>2, CreateCases
<1>3. ASSUME NEW c \in Callers, NEW rev \in Revisions, InvalidateAndRequeue(c, rev) PROVE RowStep(t)
  <2>1. calls[c].target \in SubIds
    BY <1>3, CallTypes DEF InvalidateAndRequeue
  <2>2. ASSUME NEW s \in SubIds, NEW o1 \in OutboxIds, NEW o2 \in OutboxIds, Requeues(calls[c], rev, s, o1, o2)
        PROVE  RowStep(t)
    <3>1. RowsRequeued(calls[c].target, s, rev)
      BY <2>1, <2>2, RequeuedRows
    <3>2. CASE t = s
      BY <2>1, <3>1, <3>2 DEF RowsRequeued, RowReplaces
    <3>3. CASE t = calls[c].target
      BY <3>1, <3>3 DEF RowsRequeued, RowInvalidated
    <3>4. CASE t \notin {s, calls[c].target}
      BY <3>1, <3>4 DEF RowsRequeued, RowStays
    <3> QED
      BY <3>2, <3>3, <3>4
  <2> QED
    BY <1>1, <1>3, <2>2, RequeueCases
<1>4. ASSUME NEW e, WellFormed(e), ApplyJudgeResult(e) PROVE RowStep(t)
  <2>1. e.sub \in SubIds /\ submissions[e.sub].status # "ABSENT"
    BY <1>4, AppliedRow DEF Exists
  <2>2. CASE submissions[e.sub].status \in TerminalStatus
    BY <1>1, <1>4, <2>2 DEF ApplyJudgeResult
  <2>3. CASE submissions[e.sub].status \notin TerminalStatus
    <3>1. submissions' = [submissions EXCEPT ![e.sub] = Judged(submissions[e.sub], e)]
      BY <1>4, <2>3 DEF ApplyJudgeResult
    <3>2. CASE t = e.sub
      BY <1>4, <2>1, <2>3, <3>1, <3>2 DEF RowJudged, TypeOK
    <3>3. CASE t # e.sub
      BY <3>1, <3>3 DEF RowStays, TypeOK
    <3> QED
      BY <3>2, <3>3
  <2> QED
    BY <2>2, <2>3
<1>5. ASSUME NEW c \in Callers, NEW k \in Keys, NEW body \in Bodies,
             NEW contest \in Contests \cup {NoContest}, BeginCreate(c, k, body, contest)
      PROVE  RowStep(t)
  BY <1>1, <1>5 DEF BeginCreate
<1>6. ASSUME NEW c \in Callers, NEW k \in Keys, NEW s \in SubIds, BeginRejudge(c, k, s) PROVE RowStep(t)
  BY <1>1, <1>6 DEF BeginRejudge
<1>7. ASSUME NEW c \in Callers, CallFails(c) PROVE RowStep(t)
  BY <1>1, <1>7 DEF CallFails
<1>8. CASE Tick
  BY <1>1, <1>8 DEF Tick
<1>9. CASE UNCHANGED vars
  BY <1>1, <1>9 DEF vars
<1> QED
  BY <1>2, <1>3, <1>4, <1>5, <1>6, <1>7, <1>8, <1>9 DEF StoreStep, CallStep

(* Final rows are final whatever well-formed results arrive. *)
LEMMA OpenTerminal == OpenSpec => TerminalIsStable
<1>1. TypeOK /\ [StoreStep]_vars => \A s \in SubIds : TerminalRow(submissions[s], submissions'[s])
  <2> SUFFICES ASSUME TypeOK, [StoreStep]_vars, NEW s \in SubIds PROVE TerminalRow(submissions[s], submissions'[s])
    OBVIOUS
  <2>1. submissions[s] \in Row
    BY DEF TypeOK
  <2>2. CASE RowStays(s)
    BY <2>2 DEF RowStays, TerminalRow
  <2>3. CASE RowCreated(s) \/ RowReplaces(s)
    BY <2>3 DEF RowCreated, RowReplaces, TerminalRow
  <2>4. CASE RowInvalidated(s)
    BY <2>1, <2>4 DEF RowInvalidated, TerminalRow, Row
  <2>5. CASE RowJudged(s)
    <3>1. PICK e : WellFormed(e) /\ submissions'[s] = Judged(submissions[s], e)
      BY <2>5 DEF RowJudged
    <3>2. submissions'[s].status # "ABSENT"
      BY <2>1, <3>1 DEF Judged, Row
    <3> QED
      BY <2>5, <3>2 DEF RowJudged, TerminalStatus, TerminalRow
  <2> QED
    BY <2>2, <2>3, <2>4, <2>5, RowSteps DEF RowStep
<1> QED
  BY <1>1, OpenTypes, PTL DEF OpenSpec, TerminalIsStable

(* A result that is late, duplicated or retried never overwrites a verdict *)
(* or revives an invalidated row, and no row disappears, in whatever order *)
(* results, submits and rejudges are committed.                            *)
THEOREM TerminalRowsAreStable == Spec => TerminalIsStable
BY OpenTerminal, SpecIsOpen

(* Every row was created at a judge revision. *)
RowsHaveRevisions == \A s \in SubIds : Exists(s) => submissions[s].rev \in Revisions

LEMMA OpenRevisions == OpenSpec => []RowsHaveRevisions
<1>1. Init => RowsHaveRevisions
  BY DEF Init, RowsHaveRevisions, Exists, AbsentRow
<1>2. TypeOK /\ RowsHaveRevisions /\ [StoreStep]_vars => RowsHaveRevisions'
  <2> SUFFICES ASSUME TypeOK, RowsHaveRevisions, [StoreStep]_vars, NEW s \in SubIds,
                      submissions'[s].status # "ABSENT"
               PROVE  submissions'[s].rev \in Revisions
    BY DEF RowsHaveRevisions, Exists
  <2>1. submissions[s] \in Row
    BY DEF TypeOK
  <2>2. CASE RowStays(s)
    BY <2>2 DEF RowStays, RowsHaveRevisions, Exists
  <2>3. CASE RowCreated(s) \/ RowReplaces(s)
    <3>1. \A rev, body, contest, time : QueuedRow(rev, body, contest, time).rev = rev
      BY DEF QueuedRow
    <3> QED
      BY <2>3, <3>1 DEF RowCreated, RowReplaces, Replacement
  <2>4. CASE RowInvalidated(s) \/ RowJudged(s)
    <3>1. submissions[s].status # "ABSENT" /\ submissions'[s].rev = submissions[s].rev
      BY <2>1, <2>4 DEF RowInvalidated, RowJudged, Judged, Row
    <3> QED
      BY <3>1 DEF RowsHaveRevisions, Exists
  <2> QED
    BY <2>2, <2>3, <2>4, RowSteps DEF RowStep
<1> QED
  BY <1>1, <1>2, OpenTypes, PTL DEF OpenSpec

(* Contest rows are inside the interval whatever results arrive. *)
LEMMA OpenInterval == OpenSpec => []ContestRowsInInterval
<1>1. Init => ContestRowsInInterval
  BY DEF Init, ContestRowsInInterval, AbsentRow
<1>2. TypeOK /\ ContestRowsInInterval /\ [StoreStep]_vars => ContestRowsInInterval'
  <2> SUFFICES ASSUME TypeOK, ContestRowsInInterval, [StoreStep]_vars, NEW s \in SubIds,
                      submissions'[s].contest # NoContest
               PROVE  InContest(submissions'[s].createdAt)
    BY DEF ContestRowsInInterval, InContest
  <2>1. submissions[s] \in Row
    BY DEF TypeOK
  <2>2. CASE RowStays(s)
    BY <2>2 DEF RowStays, ContestRowsInInterval
  <2>3. CASE RowCreated(s)
    BY <2>3 DEF RowCreated, QueuedRow
  <2>4. CASE RowReplaces(s)
    <3>1. PICK t \in SubIds, rev \in Revisions : submissions'[s] = Replacement(submissions[t], rev)
      BY <2>4 DEF RowReplaces
    <3>2. submissions[t].contest # NoContest /\ submissions'[s].createdAt = submissions[t].createdAt
      BY <3>1 DEF Replacement, QueuedRow, ReplacementTime
    <3> QED
      BY <3>2 DEF ContestRowsInInterval
  <2>5. CASE RowInvalidated(s) \/ RowJudged(s)
    <3>1. submissions'[s].contest = submissions[s].contest /\ submissions'[s].createdAt = submissions[s].createdAt
      BY <2>1, <2>5 DEF RowInvalidated, RowJudged, Judged, Row
    <3> QED
      BY <3>1 DEF ContestRowsInInterval
  <2> QED
    BY <2>2, <2>3, <2>4, <2>5, RowSteps DEF RowStep
<1> QED
  BY <1>1, <1>2, OpenTypes, PTL DEF OpenSpec

(* Every contest row was submitted inside the contest interval, a row that *)
(* a rejudge created after the end included.                               *)
THEOREM ContestRowsAreInInterval == Spec => []ContestRowsInInterval
BY OpenInterval, SpecIsOpen

-----------------------------------------------------------------------------
(* The commits of the store.  Every other step leaves its tables alone. *)
CreateCommits(c, rev, s, o) ==
    calls[c].op = "create" /\ Creates(calls[c], rev, s, o) /\ UNCHANGED rejudges
RejudgeCommits(c, rev, s, o1, o2) ==
    calls[c].op = "rejudge" /\ Requeues(calls[c], rev, s, o1, o2) /\ UNCHANGED creates
ResultCommits(e) ==
    /\ submissions[e.sub].status \notin TerminalStatus
    /\ ApplyJudgeResult(e)
TablesStay == UNCHANGED <<submissions, outbox, creates, rejudges>>

(* A step of a handler commits one transaction or changes no table. *)
LEMMA CallCases ==
    ASSUME TypeOK, NEW c \in Callers, CallStep(c)
    PROVE  \/ TablesStay
           \/ \E rev \in Revisions, s \in SubIds, o \in OutboxIds : CreateCommits(c, rev, s, o)
           \/ \E rev \in Revisions, s \in SubIds, o1, o2 \in OutboxIds : RejudgeCommits(c, rev, s, o1, o2)
<1>1. ASSUME NEW rev \in Revisions, CreateWithOutboxAndIdempotency(c, rev)
      PROVE  TablesStay \/ \E s \in SubIds, o \in OutboxIds : CreateCommits(c, rev, s, o)
  <2>1. calls[c].op = "create" /\ UNCHANGED rejudges
    BY <1>1 DEF CreateWithOutboxAndIdempotency
  <2> QED
    BY <1>1, <2>1, CreateCases DEF CreateCommits, TablesStay
<1>2. ASSUME NEW rev \in Revisions, InvalidateAndRequeue(c, rev)
      PROVE  TablesStay \/ \E s \in SubIds, o1, o2 \in OutboxIds : RejudgeCommits(c, rev, s, o1, o2)
  <2>1. calls[c].op = "rejudge" /\ UNCHANGED creates
    BY <1>2 DEF InvalidateAndRequeue
  <2> QED
    BY <1>2, <2>1, RequeueCases DEF RejudgeCommits, TablesStay
<1>3. ASSUME NEW k \in Keys, NEW body \in Bodies, NEW contest \in Contests \cup {NoContest},
             BeginCreate(c, k, body, contest)
      PROVE  TablesStay
  BY <1>3 DEF BeginCreate, TablesStay
<1>4. ASSUME NEW k \in Keys, NEW s \in SubIds, BeginRejudge(c, k, s) PROVE TablesStay
  BY <1>4 DEF BeginRejudge, TablesStay
<1>5. CASE CallFails(c)
  BY <1>5 DEF CallFails, TablesStay
<1> QED
  BY <1>1, <1>2, <1>3, <1>4, <1>5 DEF CallStep

(* A step of the store commits one transaction or changes no table. *)
LEMMA CommitCases ==
    ASSUME TypeOK, [StoreStep]_vars
    PROVE  \/ TablesStay
           \/ \E c \in Callers, rev \in Revisions, s \in SubIds, o \in OutboxIds : CreateCommits(c, rev, s, o)
           \/ \E c \in Callers, rev \in Revisions, s \in SubIds, o1, o2 \in OutboxIds :
                RejudgeCommits(c, rev, s, o1, o2)
           \/ \E e : WellFormed(e) /\ ResultCommits(e)
<1>1. ASSUME NEW e, WellFormed(e), ApplyJudgeResult(e) PROVE TablesStay \/ ResultCommits(e)
  BY <1>1 DEF ApplyJudgeResult, TablesStay, ResultCommits
<1>2. CASE Tick
  BY <1>2 DEF Tick, TablesStay
<1>3. CASE UNCHANGED vars
  BY <1>3 DEF vars, TablesStay
<1> QED
  BY <1>1, <1>2, <1>3, CallCases DEF StoreStep

(* What the commit of a submit changes. *)
CreateWrites(call, rev, s, o) ==
    LET row == QueuedRow(rev, call.body, call.contest, now)
    IN  /\ call.key \in Keys /\ call.body \in Bodies
        /\ submissions[s].status = "ABSENT"
        /\ submissions'[s] = row /\ \A t \in SubIds \ {s} : submissions'[t] = submissions[t]
        /\ outbox[o].type = "none"
        /\ outbox'[o] = JudgeRequested(s, row) /\ \A p \in OutboxIds \ {o} : outbox'[p] = outbox[p]
        /\ creates[call.key].id = NoSub
        /\ creates'[call.key] = [hash |-> Hash(call.body, call.contest), id |-> s]
        /\ \A k \in Keys \ {call.key} : creates'[k] = creates[k]
        /\ rejudges' = rejudges

(* The commit of a submit has exactly these effects. *)
LEMMA CreateEffect ==
    ASSUME TypeOK, NEW c \in Callers, NEW rev \in Revisions, NEW s \in SubIds, NEW o \in OutboxIds,
           CreateCommits(c, rev, s, o)
    PROVE  CreateWrites(calls[c], rev, s, o)
<1> DEFINE row == QueuedRow(rev, calls[c].body, calls[c].contest, now)
           request == JudgeRequested(s, row)
           record == [hash |-> Hash(calls[c].body, calls[c].contest), id |-> s]
<1>1. calls[c].key \in Keys /\ calls[c].body \in Bodies
  BY CallTypes DEF CreateCommits
<1>2. /\ submissions' = [submissions EXCEPT ![s] = row] /\ outbox' = [outbox EXCEPT ![o] = request]
      /\ creates' = [creates EXCEPT ![calls[c].key] = record] /\ rejudges' = rejudges
  BY DEF CreateCommits, Creates
<1>3. submissions[s].status = "ABSENT" /\ outbox[o].type = "none" /\ creates[calls[c].key].id = NoSub
  BY DEF CreateCommits, Creates, NextSub, Exists, NextOutbox, CreateKeyFree
<1> HIDE DEF row, request, record
<1>4. submissions'[s] = row /\ \A t \in SubIds \ {s} : submissions'[t] = submissions[t]
  BY <1>2 DEF TypeOK
<1>5. outbox'[o] = request /\ \A p \in OutboxIds \ {o} : outbox'[p] = outbox[p]
  BY <1>2 DEF TypeOK
<1>6. creates'[calls[c].key] = record /\ \A k \in Keys \ {calls[c].key} : creates'[k] = creates[k]
  BY <1>1, <1>2 DEF TypeOK
<1> QED
  BY <1>1, <1>2, <1>3, <1>4, <1>5, <1>6 DEF CreateWrites, row, request, record

(* What the commit of a rejudge changes. *)
RejudgeWrites(call, rev, s, o1, o2) ==
    /\ call.key \in Keys /\ call.target \in SubIds
    /\ RowsRequeued(call.target, s, rev)
    /\ o1 # o2 /\ outbox[o1].type = "none" /\ outbox[o2].type = "none"
    /\ outbox'[o1] = SubmissionInvalidated(call.target, submissions[call.target])
    /\ outbox'[o2] = JudgeRequested(s, Replacement(submissions[call.target], rev))
    /\ \A p \in OutboxIds \ {o1, o2} : outbox'[p] = outbox[p]
    /\ rejudges[call.key].id = NoSub
    /\ rejudges'[call.key] = [target |-> call.target, id |-> s]
    /\ \A k \in Keys \ {call.key} : rejudges'[k] = rejudges[k]
    /\ creates' = creates

(* The commit of a rejudge has exactly these effects. *)
LEMMA RejudgeEffect ==
    ASSUME TypeOK, NEW c \in Callers, NEW rev \in Revisions, NEW s \in SubIds,
           NEW o1 \in OutboxIds, NEW o2 \in OutboxIds, RejudgeCommits(c, rev, s, o1, o2)
    PROVE  RejudgeWrites(calls[c], rev, s, o1, o2)
<1> DEFINE first == SubmissionInvalidated(calls[c].target, submissions[calls[c].target])
           second == JudgeRequested(s, Replacement(submissions[calls[c].target], rev))
           record == [target |-> calls[c].target, id |-> s]
<1>1. calls[c].key \in Keys /\ calls[c].target \in SubIds
  BY CallTypes DEF RejudgeCommits
<1>2. RowsRequeued(calls[c].target, s, rev)
  BY <1>1, RequeuedRows DEF RejudgeCommits
<1>3. /\ NextOutbox(outbox, o1) /\ NextOutbox([outbox EXCEPT ![o1] = first], o2)
      /\ outbox' = [[outbox EXCEPT ![o1] = first] EXCEPT ![o2] = second]
      /\ rejudges[calls[c].key].id = NoSub
      /\ rejudges' = [rejudges EXCEPT ![calls[c].key] = record] /\ creates' = creates
  BY DEF RejudgeCommits, Requeues
<1>4. first.type = "submission.invalidated"
  BY DEF SubmissionInvalidated, NoEvent
<1> HIDE DEF first, second, record
<1>5. o1 # o2 /\ outbox[o1].type = "none" /\ outbox[o2].type = "none"
  BY <1>3, <1>4 DEF NextOutbox, TypeOK
<1>6. outbox'[o1] = first /\ outbox'[o2] = second /\ \A p \in OutboxIds \ {o1, o2} : outbox'[p] = outbox[p]
  BY <1>3, <1>5 DEF TypeOK
<1>7. rejudges'[calls[c].key] = record /\ \A k \in Keys \ {calls[c].key} : rejudges'[k] = rejudges[k]
  BY <1>1, <1>3 DEF TypeOK
<1> QED
  BY <1>1, <1>2, <1>3, <1>5, <1>6, <1>7 DEF RejudgeWrites, first, second, record

(* What the commit of a result changes. *)
ResultWrites(e) ==
    /\ e.sub \in SubIds /\ submissions[e.sub].status \notin TerminalStatus \cup {"ABSENT"}
    /\ submissions'[e.sub] = Judged(submissions[e.sub], e)
    /\ \A t \in SubIds \ {e.sub} : submissions'[t] = submissions[t]
    /\ creates' = creates /\ rejudges' = rejudges
    /\ IF Announces(submissions'[e.sub])
       THEN \E o \in OutboxIds :
              /\ outbox[o].type = "none"
              /\ outbox'[o] = SubmissionJudged(e.sub, submissions'[e.sub], submissions'[e.sub].verdict)
              /\ \A p \in OutboxIds \ {o} : outbox'[p] = outbox[p]
       ELSE outbox' = outbox

(* The commit of a result has exactly these effects. *)
LEMMA ResultEffect ==
    ASSUME TypeOK, NEW e, WellFormed(e), ResultCommits(e)
    PROVE  ResultWrites(e)
<1> DEFINE row == Judged(submissions[e.sub], e)
<1>1. e.sub \in SubIds /\ submissions[e.sub].status \notin TerminalStatus \cup {"ABSENT"}
  BY AppliedRow DEF ResultCommits, Exists
<1>2. submissions' = [submissions EXCEPT ![e.sub] = row] /\ creates' = creates /\ rejudges' = rejudges
  BY DEF ResultCommits, ApplyJudgeResult
<1> HIDE DEF row
<1>3. submissions'[e.sub] = row /\ \A t \in SubIds \ {e.sub} : submissions'[t] = submissions[t]
  BY <1>1, <1>2 DEF TypeOK
<1>4. CASE Announces(row)
  <2>1. PICK o \in OutboxIds : /\ NextOutbox(outbox, o)
                               /\ outbox' = [outbox EXCEPT ![o] = SubmissionJudged(e.sub, row, row.verdict)]
    BY <1>4 DEF ResultCommits, ApplyJudgeResult, row
  <2>2. outbox[o].type = "none"
    BY <2>1 DEF NextOutbox
  <2>3. /\ outbox'[o] = SubmissionJudged(e.sub, row, row.verdict)
        /\ \A p \in OutboxIds \ {o} : outbox'[p] = outbox[p]
    BY <2>1 DEF TypeOK
  <2> QED
    BY <1>1, <1>2, <1>3, <1>4, <2>2, <2>3 DEF ResultWrites, row
<1>5. CASE ~Announces(row)
  <2>1. outbox' = outbox
    BY <1>5 DEF ResultCommits, ApplyJudgeResult, row
  <2> QED
    BY <1>1, <1>2, <1>3, <1>5, <2>1 DEF ResultWrites, row
<1> QED
  BY <1>4, <1>5

(* A result leaves alone what the row was created with. *)
LEMMA JudgedRow ==
    ASSUME NEW row \in Row, NEW e, WellFormed(e)
    PROVE  LET next == Judged(row, e)
           IN  /\ next.rev = row.rev /\ next.body = row.body
               /\ next.contest = row.contest /\ next.createdAt = row.createdAt
               /\ next.status \in {"DONE", "RETRY_WAIT"}
               /\ next.status = "DONE" => next.verdict \in Verdicts \cup {SystemError}
               /\ next.status = "RETRY_WAIT" => next.verdict = row.verdict
<1>1. e.type = "judge.completed" => e.verdict \in Verdicts
  BY DEF WellFormed
<1> QED
  BY <1>1 DEF Judged, Row

-----------------------------------------------------------------------------
(* Rows have one origin whatever well-formed results arrive. *)
LEMMA OpenOrigin == OpenSpec => []OneOrigin
<1>1. Init => OneOrigin
  BY IdAssumption DEF Init, OneOrigin, AbsentRow, NoCreate, NoRejudge, Exists, NoSub
<1>2. TypeOK /\ OneOrigin /\ [StoreStep]_vars => OneOrigin'
  <2> SUFFICES ASSUME TypeOK, OneOrigin, [StoreStep]_vars PROVE OneOrigin'
    OBVIOUS
  <2>1. CASE TablesStay
    BY <2>1 DEF TablesStay, OneOrigin, Exists
  <2>2. ASSUME NEW c \in Callers, NEW rev \in Revisions, NEW s \in SubIds, NEW o \in OutboxIds,
               CreateCommits(c, rev, s, o)
        PROVE  OneOrigin'
    <3>0. CreateWrites(calls[c], rev, s, o)
      BY <2>2, CreateEffect
    <3> DEFINE key == calls[c].key
    <3>1. /\ key \in Keys /\ submissions[s].status = "ABSENT" /\ submissions'[s].status = "QUEUED"
          /\ \A t \in SubIds \ {s} : submissions'[t] = submissions[t]
          /\ creates[key].id = NoSub /\ creates'[key].id = s
          /\ \A k \in Keys \ {key} : creates'[k] = creates[k]
          /\ rejudges' = rejudges
      <4>1. QueuedRow(rev, calls[c].body, calls[c].contest, now).status = "QUEUED"
        BY DEF QueuedRow
      <4>2. [hash |-> Hash(calls[c].body, calls[c].contest), id |-> s].id = s
        OBVIOUS
      <4>3. /\ key \in Keys /\ submissions[s].status = "ABSENT" /\ creates[key].id = NoSub
            /\ submissions'[s] = QueuedRow(rev, calls[c].body, calls[c].contest, now)
            /\ creates'[key] = [hash |-> Hash(calls[c].body, calls[c].contest), id |-> s]
        BY <3>0 DEF CreateWrites
      <4> QED
        BY <3>0, <4>1, <4>2, <4>3 DEF CreateWrites
    <3>2. \A k \in Keys : creates[k].id # s /\ rejudges[k].id # s /\ rejudges[k].target # s
      BY <3>1 DEF OneOrigin, Exists
    <3>3. s # NoSub
      BY IdAssumption DEF NoSub
    <3> HIDE DEF key
    <3>4. ASSUME NEW t \in SubIds
          PROVE  /\ submissions'[t].status # "ABSENT"
                      <=> (\E k \in Keys : creates'[k].id = t) \/ (\E k \in Keys : rejudges'[k].id = t)
                 /\ submissions'[t].status = "INVALIDATED" <=> \E k \in Keys : rejudges'[k].target = t
      <4>1. CASE t = s
        BY <3>1, <3>2, <4>1
      <4>2. CASE t # s
        <5>1. (\E k \in Keys : creates'[k].id = t) <=> (\E k \in Keys : creates[k].id = t)
          BY <3>1, <4>2, IdAssumption DEF NoSub
        <5> QED
          BY <3>1, <4>2, <5>1 DEF OneOrigin, Exists
      <4> QED
        BY <4>1, <4>2
    <3>5. \A j, k \in Keys : /\ creates'[j].id # NoSub => creates'[j].id # rejudges'[k].id
                             /\ j # k /\ creates'[j].id # NoSub => creates'[j].id # creates'[k].id
      BY <3>1, <3>2, <3>3 DEF OneOrigin
    <3>6. \A j, k \in Keys : j # k /\ rejudges'[j].id # NoSub => /\ rejudges'[j].id # rejudges'[k].id
                                                                 /\ rejudges'[j].target # rejudges'[k].target
      BY <3>1 DEF OneOrigin
    <3> QED
      BY <3>4, <3>5, <3>6 DEF OneOrigin, Exists
  <2>3. ASSUME NEW c \in Callers, NEW rev \in Revisions, NEW s \in SubIds,
               NEW o1 \in OutboxIds, NEW o2 \in OutboxIds, RejudgeCommits(c, rev, s, o1, o2)
        PROVE  OneOrigin'
    <3>0. RejudgeWrites(calls[c], rev, s, o1, o2)
      BY <2>3, RejudgeEffect
    <3> DEFINE key == calls[c].key
               target == calls[c].target
    <3>1. /\ key \in Keys /\ target \in SubIds /\ s # target
          /\ submissions[s].status = "ABSENT" /\ submissions'[s].status = "QUEUED"
          /\ submissions[target].status \notin {"ABSENT", "INVALIDATED"}
          /\ submissions'[target].status = "INVALIDATED"
          /\ \A t \in SubIds \ {s, target} : submissions'[t] = submissions[t]
          /\ rejudges[key].id = NoSub /\ rejudges'[key] = [target |-> target, id |-> s]
          /\ \A k \in Keys \ {key} : rejudges'[k] = rejudges[k]
          /\ creates' = creates
      <4>1. submissions[target] \in Row /\ RowsRequeued(target, s, rev)
        BY <3>0 DEF RejudgeWrites, TypeOK
      <4>2. submissions'[target].status = "INVALIDATED" /\ submissions'[s].status = "QUEUED"
        BY <4>1 DEF RowsRequeued, Row, Replacement, QueuedRow
      <4> QED
        BY <3>0, <4>1, <4>2 DEF RejudgeWrites, RowsRequeued
    <3>2. \A k \in Keys : creates[k].id # s /\ rejudges[k].id # s /\ rejudges[k].target # s
      BY <3>1 DEF OneOrigin, Exists
    <3>3. \A k \in Keys : rejudges[k].target # target
      BY <3>1 DEF OneOrigin
    <3>4. rejudges[key] = NoRejudge
      BY <3>1, IdAssumption DEF TypeOK, RejudgeRecord, NoSub
    <3>5. s # NoSub /\ target # NoSub
      BY <3>1, IdAssumption DEF NoSub
    <3> HIDE DEF key, target
    <3>6. rejudges'[key].id = s /\ rejudges'[key].target = target
      BY <3>1
    <3>7. ASSUME NEW t \in SubIds
          PROVE  /\ submissions'[t].status # "ABSENT"
                      <=> (\E k \in Keys : creates'[k].id = t) \/ (\E k \in Keys : rejudges'[k].id = t)
                 /\ submissions'[t].status = "INVALIDATED" <=> \E k \in Keys : rejudges'[k].target = t
      <4>0. t # NoSub
        BY IdAssumption DEF NoSub
      <4>1. CASE t = s
        BY <3>1, <3>2, <3>6, <4>1
      <4>2. CASE t = target
        <5>1. (\E k \in Keys : creates[k].id = t) \/ (\E k \in Keys : rejudges[k].id = t)
          BY <3>1, <4>2 DEF OneOrigin, Exists
        <5>2. (\E k \in Keys : creates'[k].id = t) \/ (\E k \in Keys : rejudges'[k].id = t)
          BY <3>1, <4>0, <5>1
        <5> QED
          BY <3>1, <3>6, <4>2, <5>2
      <4>3. CASE t \notin {s, target}
        <5>1. (\E k \in Keys : rejudges'[k].id = t) <=> (\E k \in Keys : rejudges[k].id = t)
          BY <3>1, <3>6, <4>0, <4>3
        <5>2. (\E k \in Keys : rejudges'[k].target = t) <=> (\E k \in Keys : rejudges[k].target = t)
          BY <3>1, <3>4, <3>6, <4>0, <4>3 DEF NoRejudge
        <5> QED
          BY <3>1, <4>3, <5>1, <5>2 DEF OneOrigin, Exists
      <4> QED
        BY <4>1, <4>2, <4>3
    <3>8. ASSUME NEW j \in Keys, NEW k \in Keys
          PROVE  /\ creates'[j].id # NoSub => creates'[j].id # rejudges'[k].id
                 /\ j # k /\ creates'[j].id # NoSub => creates'[j].id # creates'[k].id
      BY <3>1, <3>2, <3>6 DEF OneOrigin
    <3>9. ASSUME NEW j \in Keys, NEW k \in Keys, j # k, rejudges'[j].id # NoSub
          PROVE  rejudges'[j].id # rejudges'[k].id /\ rejudges'[j].target # rejudges'[k].target
      <4>1. CASE j = key
        BY <3>1, <3>2, <3>3, <3>6, <3>9, <4>1
      <4>2. CASE k = key
        BY <3>1, <3>2, <3>3, <3>6, <3>9, <4>2
      <4>3. CASE key \notin {j, k}
        BY <3>1, <3>9, <4>3 DEF OneOrigin
      <4> QED
        BY <4>1, <4>2, <4>3
    <3> QED
      BY <3>7, <3>8, <3>9 DEF OneOrigin, Exists
  <2>4. ASSUME NEW e, WellFormed(e), ResultCommits(e) PROVE OneOrigin'
    <3>0. ResultWrites(e)
      BY <2>4, ResultEffect
    <3>1. submissions[e.sub] \in Row
      BY <3>0 DEF ResultWrites, TypeOK
    <3>2. submissions'[e.sub].status \in {"DONE", "RETRY_WAIT"}
      BY <2>4, <3>0, <3>1, JudgedRow DEF ResultWrites
    <3>3. /\ e.sub \in SubIds /\ submissions[e.sub].status \notin {"ABSENT", "INVALIDATED"}
          /\ \A t \in SubIds \ {e.sub} : submissions'[t] = submissions[t]
          /\ creates' = creates /\ rejudges' = rejudges
      BY <3>0 DEF ResultWrites, TerminalStatus
    <3>4. \A t \in SubIds : /\ submissions'[t].status = "ABSENT" <=> submissions[t].status = "ABSENT"
                            /\ submissions'[t].status = "INVALIDATED" <=> submissions[t].status = "INVALIDATED"
      BY <3>2, <3>3
    <3> QED
      BY <3>3, <3>4 DEF OneOrigin, Exists
  <2> QED
    BY <2>1, <2>2, <2>3, <2>4, CommitCases
<1> QED
  BY <1>1, <1>2, OpenTypes, PTL DEF OpenSpec

(* A row is the outcome of one request, and a row is replaced at most once, *)
(* for any number of handlers that submit and rejudge at the same time with *)
(* equal or different keys.                                                 *)
THEOREM RowsHaveOneOrigin == Spec => []OneOrigin
BY OpenOrigin, SpecIsOpen

-----------------------------------------------------------------------------
(* A request in the outbox is the request of a row that exists.  This keeps *)
(* a new row from meeting a request that is already there.                  *)
RequestsHaveRows ==
    \A o \in OutboxIds : outbox[o].type = "judge.requested" =>
      outbox[o].sub \in SubIds /\ Exists(outbox[o].sub)

RequestInv == RequestsHaveRows /\ RequestedOnce

(* Inserting one request together with its row preserves RequestInv. *)
LEMMA RequestInserted ==
    ASSUME TypeOK, RequestInv, NEW s \in SubIds, NEW o \in OutboxIds,
           submissions[s].status = "ABSENT", submissions'[s].status # "ABSENT",
           \A t \in SubIds \ {s} : /\ submissions'[t].rev = submissions[t].rev
                                   /\ submissions'[t].status = "ABSENT" <=> submissions[t].status = "ABSENT",
           outbox[o].type = "none", outbox'[o].type = "judge.requested",
           outbox'[o].sub = s, outbox'[o].rev = submissions'[s].rev,
           \A p \in OutboxIds \ {o} : \/ outbox'[p] = outbox[p]
                                      \/ outbox[p].type = "none" /\ outbox'[p].type # "judge.requested"
    PROVE  RequestInv'
<1>1. \A p \in OutboxIds : outbox[p].type = "judge.requested" => outbox[p].sub # s
  BY DEF RequestInv, RequestsHaveRows, Exists
<1>2. RequestsHaveRows'
  BY <1>1 DEF RequestInv, RequestsHaveRows, Exists
<1>3. ASSUME NEW t \in SubIds, submissions'[t].status # "ABSENT"
      PROVE  \E q \in OutboxIds :
               /\ outbox'[q].type = "judge.requested" /\ outbox'[q].sub = t /\ outbox'[q].rev = submissions'[t].rev
               /\ \A p \in OutboxIds : outbox'[p].type = "judge.requested" /\ outbox'[p].sub = t => p = q
  <2>1. CASE t = s
    <3>1. \A p \in OutboxIds : outbox'[p].type = "judge.requested" /\ outbox'[p].sub = t => p = o
      BY <1>1, <2>1
    <3> QED
      BY <2>1, <3>1
  <2>2. CASE t # s
    <3>1. PICK q \in OutboxIds :
            /\ outbox[q].type = "judge.requested" /\ outbox[q].sub = t /\ outbox[q].rev = submissions[t].rev
            /\ \A p \in OutboxIds : outbox[p].type = "judge.requested" /\ outbox[p].sub = t => p = q
      BY <1>3, <2>2 DEF RequestInv, RequestedOnce, Exists
    <3>2. outbox'[q] = outbox[q]
      BY <3>1
    <3>3. \A p \in OutboxIds : outbox'[p].type = "judge.requested" /\ outbox'[p].sub = t => p = q
      BY <2>2, <3>1
    <3> QED
      BY <2>2, <3>1, <3>2, <3>3
  <2> QED
    BY <2>1, <2>2
<1> QED
  BY <1>2, <1>3 DEF RequestInv, RequestedOnce, Exists

(* A result neither requests anything nor takes a request back. *)
LEMMA ResultKeepsRequests == ASSUME TypeOK, RequestInv, NEW e, WellFormed(e), ResultCommits(e) PROVE RequestInv'
<1>0. ResultWrites(e)
  BY ResultEffect
<1>1. submissions[e.sub] \in Row
  BY <1>0 DEF ResultWrites, TypeOK
<1>2. \A t \in SubIds : /\ submissions'[t].rev = submissions[t].rev
                        /\ submissions'[t].status = "ABSENT" <=> submissions[t].status = "ABSENT"
  BY <1>0, <1>1, JudgedRow DEF ResultWrites
<1>3. ASSUME NEW row \in Row PROVE SubmissionJudged(e.sub, row, row.verdict).type = "submission.judged"
  BY DEF SubmissionJudged, NoEvent
<1>4. submissions'[e.sub] \in Row
  BY <1>0, <1>1, JudgedRowType DEF ResultWrites
<1>5. \A p \in OutboxIds : \/ outbox'[p] = outbox[p]
                           \/ outbox[p].type = "none" /\ outbox'[p].type = "submission.judged"
  BY <1>0, <1>3, <1>4 DEF ResultWrites
<1>6. \A p \in OutboxIds : /\ outbox'[p].type = "judge.requested" <=> outbox[p].type = "judge.requested"
                           /\ outbox[p].type = "judge.requested" => outbox'[p] = outbox[p]
  BY <1>5
<1>7. RequestsHaveRows'
  BY <1>2, <1>6 DEF RequestInv, RequestsHaveRows, Exists
<1>8. RequestedOnce'
  BY <1>2, <1>6 DEF RequestInv, RequestedOnce, Exists
<1> QED
  BY <1>7, <1>8 DEF RequestInv

(* Every step of the store keeps the requests and the rows together. *)
LEMMA RequestStep == TypeOK /\ RequestInv /\ [StoreStep]_vars => RequestInv'
<1> SUFFICES ASSUME TypeOK, RequestInv, [StoreStep]_vars PROVE RequestInv'
  OBVIOUS
<1>1. CASE TablesStay
  BY <1>1 DEF TablesStay, RequestInv, RequestsHaveRows, RequestedOnce, Exists
<1>2. ASSUME NEW c \in Callers, NEW rev \in Revisions, NEW s \in SubIds, NEW o \in OutboxIds,
             CreateCommits(c, rev, s, o)
      PROVE  RequestInv'
  <2>0. CreateWrites(calls[c], rev, s, o)
    BY <1>2, CreateEffect
  <2> DEFINE row == QueuedRow(rev, calls[c].body, calls[c].contest, now)
  <2>1. row.status = "QUEUED" /\ row.rev = rev
    BY DEF QueuedRow
  <2>2. /\ JudgeRequested(s, row).type = "judge.requested"
        /\ JudgeRequested(s, row).sub = s /\ JudgeRequested(s, row).rev = row.rev
    BY DEF JudgeRequested, NoEvent
  <2>3. submissions'[s] = row /\ outbox'[o] = JudgeRequested(s, row)
    BY <2>0 DEF CreateWrites
  <2> HIDE DEF row
  <2>4. /\ submissions[s].status = "ABSENT" /\ outbox[o].type = "none"
        /\ \A t \in SubIds \ {s} : submissions'[t] = submissions[t]
        /\ \A p \in OutboxIds \ {o} : outbox'[p] = outbox[p]
    BY <2>0 DEF CreateWrites
  <2> QED
    BY <2>1, <2>2, <2>3, <2>4, RequestInserted
<1>3. ASSUME NEW c \in Callers, NEW rev \in Revisions, NEW s \in SubIds,
             NEW o1 \in OutboxIds, NEW o2 \in OutboxIds, RejudgeCommits(c, rev, s, o1, o2)
      PROVE  RequestInv'
  <2>0. RejudgeWrites(calls[c], rev, s, o1, o2)
    BY <1>3, RejudgeEffect
  <2> DEFINE target == calls[c].target
             row == Replacement(submissions[target], rev)
  <2>1. row.status = "QUEUED" /\ row.rev = rev
    BY DEF Replacement, QueuedRow
  <2>2. /\ JudgeRequested(s, row).type = "judge.requested"
        /\ JudgeRequested(s, row).sub = s /\ JudgeRequested(s, row).rev = row.rev
        /\ SubmissionInvalidated(target, submissions[target]).type = "submission.invalidated"
    BY DEF JudgeRequested, SubmissionInvalidated, NoEvent
  <2>3. target \in SubIds /\ RowsRequeued(target, s, rev)
    BY <2>0 DEF RejudgeWrites
  <2>4. /\ o1 # o2 /\ outbox[o1].type = "none" /\ outbox[o2].type = "none"
        /\ outbox'[o1] = SubmissionInvalidated(target, submissions[target])
        /\ outbox'[o2] = JudgeRequested(s, row)
        /\ \A p \in OutboxIds \ {o1, o2} : outbox'[p] = outbox[p]
    BY <2>0 DEF RejudgeWrites
  <2>5. submissions[target] \in Row
    BY <2>3 DEF TypeOK
  <2>6. submissions'[target].rev = submissions[target].rev /\ submissions'[target].status = "INVALIDATED"
    BY <2>3, <2>5 DEF RowsRequeued, Row
  <2>7. /\ submissions[s].status = "ABSENT" /\ submissions'[s] = row /\ submissions[target].status # "ABSENT"
        /\ \A t \in SubIds \ {s, target} : submissions'[t] = submissions[t]
    BY <2>3 DEF RowsRequeued
  <2> HIDE DEF row, target
  <2>8. \A t \in SubIds \ {s} : /\ submissions'[t].rev = submissions[t].rev
                                /\ submissions'[t].status = "ABSENT" <=> submissions[t].status = "ABSENT"
    BY <2>6, <2>7
  <2>9. \A p \in OutboxIds \ {o2} : \/ outbox'[p] = outbox[p]
                                    \/ outbox[p].type = "none" /\ outbox'[p].type # "judge.requested"
    BY <2>2, <2>4
  <2> QED
    BY <2>1, <2>2, <2>4, <2>7, <2>8, <2>9, RequestInserted
<1>4. ASSUME NEW e, WellFormed(e), ResultCommits(e) PROVE RequestInv'
  BY <1>4, ResultKeepsRequests
<1> QED
  BY <1>1, <1>2, <1>3, <1>4, CommitCases

(* At the start there is neither a row nor a request. *)
LEMMA RequestInit == Init => RequestInv
BY DEF Init, RequestInv, RequestsHaveRows, RequestedOnce, AbsentRow, NoEvent, Exists

(* Rows are requested once whatever well-formed results arrive. *)
LEMMA OpenRequests == OpenSpec => []RequestedOnce
<1>1. RequestInv => RequestedOnce
  BY DEF RequestInv
<1> QED
  BY <1>1, RequestInit, RequestStep, OpenTypes, PTL DEF OpenSpec

(* Every submission is sent to be judged once, at the revision its row was *)
(* created with, however submits, rejudges and results interleave.         *)
THEOREM RowsAreRequestedOnce == Spec => []RequestedOnce
BY OpenRequests, SpecIsOpen

-----------------------------------------------------------------------------
(* A verdict is there only in a row that results no longer change, and an   *)
(* announcement names a row: a row that is still judged has none.           *)
VerdictsAreFinal ==
    /\ \A s \in SubIds : submissions[s].verdict # NoVerdict => submissions[s].status \in {"DONE", "INVALIDATED"}
    /\ \A o \in OutboxIds : outbox[o].type = "submission.judged" => outbox[o].sub \in SubIds

JudgedInv == VerdictsAreFinal /\ JudgedOnce

(* Steps that change no verdict, keep the rows that have one and announce   *)
(* nothing preserve JudgedInv.                                              *)
LEMMA VerdictsKept ==
    ASSUME TypeOK, JudgedInv,
           \A t \in SubIds :
             /\ submissions'[t].verdict = submissions[t].verdict
             /\ submissions[t].verdict # NoVerdict =>
                  /\ submissions'[t].status \in {"DONE", "INVALIDATED"}
                  /\ submissions'[t].contest = submissions[t].contest
                  /\ submissions'[t].createdAt = submissions[t].createdAt,
           \A p \in OutboxIds :
             \/ outbox'[p] = outbox[p]
             \/ outbox[p].type # "submission.judged" /\ outbox'[p].type # "submission.judged"
    PROVE  JudgedInv'
<1>1. \A p \in OutboxIds :
        /\ outbox'[p].type = "submission.judged" <=> outbox[p].type = "submission.judged"
        /\ outbox'[p].type = "submission.judged" => outbox'[p] = outbox[p]
  OBVIOUS
<1>2. VerdictsAreFinal'
  BY <1>1 DEF JudgedInv, VerdictsAreFinal
<1>3. ASSUME NEW o \in OutboxIds, outbox'[o].type = "submission.judged"
      PROVE  LET row == submissions'[outbox'[o].sub] IN
             /\ row.verdict = outbox'[o].verdict /\ row.verdict # NoVerdict
             /\ row.contest = outbox'[o].contest /\ row.contest # NoContest
             /\ row.createdAt = outbox'[o].submittedAt
  <2>1. outbox'[o] = outbox[o] /\ outbox[o].type = "submission.judged" /\ outbox[o].sub \in SubIds
    BY <1>1, <1>3 DEF JudgedInv, VerdictsAreFinal
  <2> QED
    BY <2>1 DEF JudgedInv, JudgedOnce
<1>4. \A o, p \in OutboxIds :
        outbox'[o].type = "submission.judged" /\ outbox'[p].type = "submission.judged"
          /\ outbox'[o].sub = outbox'[p].sub => o = p
  BY <1>1 DEF JudgedInv, JudgedOnce
<1>5. ASSUME NEW s \in SubIds, submissions'[s].verdict # NoVerdict, submissions'[s].contest # NoContest
      PROVE  \E o \in OutboxIds : outbox'[o].type = "submission.judged" /\ outbox'[o].sub = s
  <2>1. submissions[s].verdict # NoVerdict /\ submissions[s].contest # NoContest
    BY <1>5
  <2> QED
    BY <1>1, <2>1 DEF JudgedInv, JudgedOnce
<1> QED
  BY <1>2, <1>3, <1>4, <1>5 DEF JudgedInv, JudgedOnce

(* A row whose verdict is NULL has not been announced. *)
LEMMA NotYetAnnounced ==
    ASSUME JudgedInv, NEW s \in SubIds, submissions[s].verdict = NoVerdict, NEW o \in OutboxIds,
           outbox[o].type = "submission.judged"
    PROVE  outbox[o].sub # s
BY DEF JudgedInv, JudgedOnce

(* Verdicts are announced once whatever well-formed results arrive. *)
LEMMA OpenJudged == OpenSpec => []JudgedOnce
<1>1. Init => JudgedInv
  BY DEF Init, JudgedInv, VerdictsAreFinal, JudgedOnce, AbsentRow, NoEvent
<1>2. TypeOK /\ JudgedInv /\ [StoreStep]_vars => JudgedInv'
  <2> SUFFICES ASSUME TypeOK, JudgedInv, [StoreStep]_vars PROVE JudgedInv'
    OBVIOUS
  <2>1. CASE TablesStay
    BY <2>1, VerdictsKept DEF TablesStay, JudgedInv, VerdictsAreFinal
  <2>2. ASSUME NEW c \in Callers, NEW rev \in Revisions, NEW s \in SubIds, NEW o \in OutboxIds,
               CreateCommits(c, rev, s, o)
        PROVE  JudgedInv'
    <3>0. CreateWrites(calls[c], rev, s, o)
      BY <2>2, CreateEffect
    <3> DEFINE row == QueuedRow(rev, calls[c].body, calls[c].contest, now)
    <3>1. row.verdict = NoVerdict /\ JudgeRequested(s, row).type = "judge.requested"
      BY DEF QueuedRow, JudgeRequested, NoEvent
    <3>2. submissions[s].verdict = NoVerdict
      BY <3>0 DEF CreateWrites, JudgedInv, VerdictsAreFinal
    <3> HIDE DEF row
    <3>3. \A t \in SubIds : /\ submissions'[t].verdict = submissions[t].verdict
                            /\ submissions[t].verdict # NoVerdict => submissions'[t] = submissions[t]
      BY <3>0, <3>1, <3>2 DEF CreateWrites, row
    <3>4. \A p \in OutboxIds : \/ outbox'[p] = outbox[p]
                               \/ outbox[p].type # "submission.judged" /\ outbox'[p].type # "submission.judged"
      BY <3>0, <3>1 DEF CreateWrites, row
    <3> QED
      BY <3>3, <3>4, VerdictsKept DEF JudgedInv, VerdictsAreFinal
  <2>3. ASSUME NEW c \in Callers, NEW rev \in Revisions, NEW s \in SubIds,
               NEW o1 \in OutboxIds, NEW o2 \in OutboxIds, RejudgeCommits(c, rev, s, o1, o2)
        PROVE  JudgedInv'
    <3>0. RejudgeWrites(calls[c], rev, s, o1, o2)
      BY <2>3, RejudgeEffect
    <3> DEFINE target == calls[c].target
               row == Replacement(submissions[target], rev)
    <3>1. /\ row.verdict = NoVerdict /\ JudgeRequested(s, row).type = "judge.requested"
          /\ SubmissionInvalidated(target, submissions[target]).type = "submission.invalidated"
      BY DEF Replacement, QueuedRow, JudgeRequested, SubmissionInvalidated, NoEvent
    <3>2. target \in SubIds /\ RowsRequeued(target, s, rev) /\ submissions[target] \in Row
      BY <3>0 DEF RejudgeWrites, TypeOK
    <3>3. /\ submissions'[target].verdict = submissions[target].verdict
          /\ submissions'[target].contest = submissions[target].contest
          /\ submissions'[target].createdAt = submissions[target].createdAt
          /\ submissions'[target].status = "INVALIDATED"
      BY <3>2 DEF RowsRequeued, Row
    <3>4. submissions[s].verdict = NoVerdict /\ submissions'[s] = row
      BY <3>2 DEF RowsRequeued, JudgedInv, VerdictsAreFinal
    <3> HIDE DEF row
    <3>5. \A t \in SubIds \ {s, target} : submissions'[t] = submissions[t]
      BY <3>2 DEF RowsRequeued
    <3>6. \A t \in SubIds : /\ submissions'[t].verdict = submissions[t].verdict
                            /\ submissions[t].verdict # NoVerdict =>
                                 /\ submissions'[t].status \in {"DONE", "INVALIDATED"}
                                 /\ submissions'[t].contest = submissions[t].contest
                                 /\ submissions'[t].createdAt = submissions[t].createdAt
      BY <3>1, <3>3, <3>4, <3>5 DEF JudgedInv, VerdictsAreFinal
    <3>7. \A p \in OutboxIds : \/ outbox'[p] = outbox[p]
                               \/ outbox[p].type # "submission.judged" /\ outbox'[p].type # "submission.judged"
      BY <3>0, <3>1 DEF RejudgeWrites, row
    <3> QED
      BY <3>6, <3>7, VerdictsKept
  <2>4. ASSUME NEW e, WellFormed(e), ResultCommits(e) PROVE JudgedInv'
    <3>0. ResultWrites(e)
      BY <2>4, ResultEffect
    <3> DEFINE old == submissions[e.sub]
               row == submissions'[e.sub]
    <3>1. e.sub \in SubIds /\ old \in Row /\ old.status \notin {"DONE", "INVALIDATED"} /\ row = Judged(old, e)
      BY <3>0 DEF ResultWrites, TerminalStatus, TypeOK
    <3>2. old.verdict = NoVerdict
      BY <3>1 DEF JudgedInv, VerdictsAreFinal
    <3>3. /\ row.contest = old.contest /\ row.createdAt = old.createdAt /\ row.status \in {"DONE", "RETRY_WAIT"}
          /\ row.status = "DONE" => row.verdict \in Verdicts \cup {SystemError}
          /\ row.status = "RETRY_WAIT" => row.verdict = old.verdict
      BY <2>4, <3>1, JudgedRow
    <3>4. \A t \in SubIds \ {e.sub} : submissions'[t] = submissions[t]
      BY <3>0 DEF ResultWrites
    <3>5. SystemError # NoVerdict /\ NoVerdict \notin Verdicts
      BY VerdictAssumption DEF SystemError, NoVerdict
    <3>6. CASE row.status = "RETRY_WAIT"
      <4>1. outbox' = outbox
        BY <3>0, <3>6 DEF ResultWrites, Announces
      <4>2. \A t \in SubIds : /\ submissions'[t].verdict = submissions[t].verdict
                              /\ submissions[t].verdict # NoVerdict => submissions'[t] = submissions[t]
        BY <3>2, <3>3, <3>4, <3>6
      <4> QED
        BY <4>1, <4>2, VerdictsKept DEF JudgedInv, VerdictsAreFinal
    <3>7. CASE row.status = "DONE" /\ row.contest = NoContest
      <4>1. outbox' = outbox
        BY <3>0, <3>7 DEF ResultWrites, Announces
      <4>2. \A o \in OutboxIds : outbox[o].type = "submission.judged" => outbox[o].sub \in SubIds \ {e.sub}
        BY <3>1, <3>2, NotYetAnnounced DEF JudgedInv, VerdictsAreFinal
      <4>3. VerdictsAreFinal'
        BY <3>4, <3>7, <4>1 DEF JudgedInv, VerdictsAreFinal
      <4>4. JudgedOnce'
        BY <3>4, <3>7, <4>1, <4>2 DEF JudgedInv, JudgedOnce
      <4> QED
        BY <4>3, <4>4 DEF JudgedInv
    <3>8. CASE row.status = "DONE" /\ row.contest # NoContest
      <4>1. PICK o \in OutboxIds : /\ outbox[o].type = "none"
                                   /\ outbox'[o] = SubmissionJudged(e.sub, row, row.verdict)
                                   /\ \A p \in OutboxIds \ {o} : outbox'[p] = outbox[p]
        BY <3>0, <3>8 DEF ResultWrites, Announces
      <4>2. /\ outbox'[o].type = "submission.judged" /\ outbox'[o].sub = e.sub /\ outbox'[o].contest = row.contest
            /\ outbox'[o].verdict = row.verdict /\ outbox'[o].submittedAt = row.createdAt
        BY <4>1 DEF SubmissionJudged, NoEvent
      <4>3. \A p \in OutboxIds : outbox[p].type = "submission.judged" => outbox[p].sub \in SubIds \ {e.sub}
        BY <3>1, <3>2, NotYetAnnounced DEF JudgedInv, VerdictsAreFinal
      <4>4. \A p \in OutboxIds \ {o} : outbox'[p] = outbox[p]
        BY <4>1
      <4>5. row.verdict # NoVerdict
        BY <3>3, <3>5, <3>8
      <4> HIDE DEF row, old
      <4>6. VerdictsAreFinal'
        BY <3>1, <3>4, <3>8, <4>2, <4>4 DEF JudgedInv, VerdictsAreFinal, row
      <4>7. \A p \in OutboxIds : outbox'[p].type = "submission.judged" =>
              LET r == submissions'[outbox'[p].sub] IN
              /\ r.verdict = outbox'[p].verdict /\ r.verdict # NoVerdict
              /\ r.contest = outbox'[p].contest /\ r.contest # NoContest
              /\ r.createdAt = outbox'[p].submittedAt
        BY <3>4, <3>8, <4>2, <4>3, <4>4, <4>5 DEF JudgedInv, JudgedOnce, row
      <4>8. \A p, q \in OutboxIds :
              outbox'[p].type = "submission.judged" /\ outbox'[q].type = "submission.judged"
                /\ outbox'[p].sub = outbox'[q].sub => p = q
        BY <4>2, <4>3, <4>4 DEF JudgedInv, JudgedOnce
      <4>9. ASSUME NEW s \in SubIds, submissions'[s].verdict # NoVerdict, submissions'[s].contest # NoContest
            PROVE  \E p \in OutboxIds : outbox'[p].type = "submission.judged" /\ outbox'[p].sub = s
        <5>1. CASE s = e.sub
          BY <4>2, <5>1
        <5>2. CASE s # e.sub
          <6>1. PICK p \in OutboxIds : outbox[p].type = "submission.judged" /\ outbox[p].sub = s
            BY <3>4, <4>9, <5>2 DEF JudgedInv, JudgedOnce
          <6> QED
            BY <4>1, <4>4, <6>1
        <5> QED
          BY <5>1, <5>2
      <4> QED
        BY <4>6, <4>7, <4>8, <4>9 DEF JudgedInv, JudgedOnce
    <3> QED
      BY <3>3, <3>6, <3>7, <3>8
  <2> QED
    BY <2>1, <2>2, <2>3, <2>4, CommitCases
<1>3. JudgedInv => JudgedOnce
  BY DEF JudgedInv
<1> QED
  BY <1>1, <1>2, <1>3, OpenTypes, PTL DEF OpenSpec

(* The contest service hears of a contest verdict exactly once, and hears   *)
(* the row's own verdict and submission time, whatever results arrive twice,*)
(* late or for a row that was replaced.                                     *)
THEOREM VerdictsAreAnnouncedOnce == Spec => []JudgedOnce
BY OpenJudged, SpecIsOpen

-----------------------------------------------------------------------------
(* A completed record is never rewritten. *)
LEMMA RecordsKept ==
    ASSUME TypeOK, [StoreStep]_vars, NEW k \in Keys
    PROVE  /\ creates[k].id # NoSub => creates'[k] = creates[k]
           /\ rejudges[k].id # NoSub => rejudges'[k] = rejudges[k]
<1>1. CASE TablesStay
  BY <1>1 DEF TablesStay
<1>2. ASSUME NEW c \in Callers, NEW rev \in Revisions, NEW s \in SubIds, NEW o \in OutboxIds,
             CreateCommits(c, rev, s, o)
      PROVE  /\ creates[k].id # NoSub => creates'[k] = creates[k]
             /\ rejudges'[k] = rejudges[k]
  <2>1. CreateWrites(calls[c], rev, s, o)
    BY <1>2, CreateEffect
  <2> QED
    BY <2>1 DEF CreateWrites
<1>3. ASSUME NEW c \in Callers, NEW rev \in Revisions, NEW s \in SubIds,
             NEW o1 \in OutboxIds, NEW o2 \in OutboxIds, RejudgeCommits(c, rev, s, o1, o2)
      PROVE  /\ creates'[k] = creates[k]
             /\ rejudges[k].id # NoSub => rejudges'[k] = rejudges[k]
  <2>1. RejudgeWrites(calls[c], rev, s, o1, o2)
    BY <1>3, RejudgeEffect
  <2> QED
    BY <2>1 DEF RejudgeWrites
<1>4. ASSUME NEW e, WellFormed(e), ResultCommits(e) PROVE creates'[k] = creates[k] /\ rejudges'[k] = rejudges[k]
  BY <1>4, ResultEffect DEF ResultWrites
<1> QED
  BY <1>1, <1>2, <1>3, <1>4, CommitCases

(* A row that exists goes on existing, with the body and contest it has. *)
LEMMA RowsKept ==
    ASSUME TypeOK, [StoreStep]_vars, NEW s \in SubIds, submissions[s].status # "ABSENT"
    PROVE  /\ submissions'[s].status # "ABSENT"
           /\ submissions'[s].body = submissions[s].body /\ submissions'[s].contest = submissions[s].contest
<1>1. submissions[s] \in Row
  BY DEF TypeOK
<1>2. CASE RowStays(s)
  BY <1>2 DEF RowStays
<1>3. CASE RowCreated(s) \/ RowReplaces(s)
  BY <1>3 DEF RowCreated, RowReplaces
<1>4. CASE RowInvalidated(s)
  BY <1>1, <1>4 DEF RowInvalidated, Row
<1>5. CASE RowJudged(s)
  BY <1>1, <1>5, JudgedRow DEF RowJudged
<1> QED
  BY <1>2, <1>3, <1>4, <1>5, RowSteps DEF RowStep

(* The stored hash of a submit is the hash of the row it led to, and every  *)
(* answer sent repeats its record.                                          *)
RecordsMatchRows ==
    \A k \in Keys : creates[k].id # NoSub =>
      LET row == submissions[creates[k].id] IN
      row.status # "ABSENT" /\ creates[k].hash = Hash(row.body, row.contest)
AnswerMatches(a) ==
    /\ a.op = "create" => /\ creates[a.key].id = a.id /\ submissions[a.id].status # "ABSENT"
                          /\ submissions[a.id].body = a.body /\ submissions[a.id].contest = a.contest
    /\ a.op = "rejudge" => rejudges[a.key].id = a.id /\ rejudges[a.key].target = a.target
AnswersMatch == \A a \in answers : AnswerMatches(a)

AnswerInv == RecordsMatchRows /\ AnswersMatch

(* An answer that is right stays right. *)
LEMMA AnswerStaysRight ==
    ASSUME TypeOK, [StoreStep]_vars, NEW a \in Answer, AnswerMatches(a)
    PROVE  AnswerMatches(a)'
<1>1. CASE a.op = "create"
  <2>1. a.key \in Keys /\ a.id \in SubIds /\ a.id # NoSub
    BY <1>1, IdAssumption DEF Answer, NoSub
  <2> QED
    BY <1>1, <2>1, RecordsKept, RowsKept DEF AnswerMatches
<1>2. CASE a.op = "rejudge"
  <2>1. a.key \in Keys /\ a.id \in SubIds /\ a.id # NoSub
    BY <1>2, IdAssumption DEF Answer, NoSub
  <2> QED
    BY <1>2, <2>1, RecordsKept DEF AnswerMatches
<1> QED
  BY <1>1, <1>2 DEF Answer

(* A submit that is answered from its record is answered with its own row. *)
LEMMA ReplayIsRight ==
    ASSUME TypeOK, RecordsMatchRows, NEW k \in Keys, NEW body \in Bodies,
           NEW contest \in Contests \cup {NoContest}, creates[k].id # NoSub,
           CreateReplays(k, body, contest) \/ creates[k].hash = Hash(body, contest)
    PROVE  /\ CreateAnswer(k, body, contest, creates[k].id) \in Answer
           /\ AnswerMatches(CreateAnswer(k, body, contest, creates[k].id))
<1> DEFINE row == submissions[creates[k].id]
<1>1. row.status # "ABSENT" /\ creates[k].hash = <<row.body, row.contest>>
  BY DEF RecordsMatchRows, Hash
<1>2. row.body = body /\ row.contest = contest
  BY <1>1 DEF CreateReplays, Hash, createRequestHash
<1>3. creates[k].id \in SubIds
  BY RecordIds
<1> QED
  BY <1>1, <1>2, <1>3, AnswerTypes DEF AnswerMatches, CreateAnswer

(* Answers are only added, and only by these calls. *)
NewAnswer(a) == answers' \subseteq answers \cup {a}

(* Adding a right answer, or none, preserves AnswersMatch. *)
LEMMA RightAnswerAdded ==
    ASSUME TypeOK, AnswersMatch, [StoreStep]_vars,
           answers' = answers \/ \E a : AnswerMatches(a)' /\ NewAnswer(a)
    PROVE  AnswersMatch'
<1>1. \A a \in answers : AnswerMatches(a)'
  BY AnswerStaysRight DEF AnswersMatch, TypeOK
<1> QED
  BY <1>1 DEF AnswersMatch, NewAnswer

(* Every step keeps the hashes of records and rows together. *)
LEMMA HashesKept ==
    ASSUME TypeOK, RecordsMatchRows, [StoreStep]_vars
    PROVE  RecordsMatchRows'
<1> SUFFICES ASSUME NEW k \in Keys, creates'[k].id # NoSub
             PROVE  LET row == submissions'[creates'[k].id] IN
                    row.status # "ABSENT" /\ creates'[k].hash = Hash(row.body, row.contest)
  BY DEF RecordsMatchRows
<1>1. CASE creates[k].id # NoSub
  BY <1>1, RecordsKept, RecordIds, RowsKept DEF RecordsMatchRows
<1>2. ASSUME creates[k].id = NoSub, NEW c \in Callers, NEW rev \in Revisions, NEW s \in SubIds,
             NEW o \in OutboxIds, CreateCommits(c, rev, s, o)
      PROVE  LET row == submissions'[creates'[k].id] IN
             row.status # "ABSENT" /\ creates'[k].hash = Hash(row.body, row.contest)
  <2>1. CreateWrites(calls[c], rev, s, o)
    BY <1>2, CreateEffect
  <2>2. k = calls[c].key
    BY <1>2, <2>1 DEF CreateWrites
  <2>3. creates'[k].id = s /\ creates'[k].hash = Hash(calls[c].body, calls[c].contest)
    BY <2>1, <2>2 DEF CreateWrites
  <2>4. /\ submissions'[s].status = "QUEUED"
        /\ submissions'[s].body = calls[c].body /\ submissions'[s].contest = calls[c].contest
    BY <2>1 DEF CreateWrites, QueuedRow
  <2> QED
    BY <2>3, <2>4
<1>3. ASSUME creates[k].id = NoSub, creates' = creates PROVE FALSE
  BY <1>3
<1>4. CASE TablesStay
  BY <1>1, <1>3, <1>4 DEF TablesStay
<1>5. ASSUME NEW c \in Callers, NEW rev \in Revisions, NEW s \in SubIds,
             NEW o1 \in OutboxIds, NEW o2 \in OutboxIds, RejudgeCommits(c, rev, s, o1, o2)
      PROVE  creates' = creates
  BY <1>5 DEF RejudgeCommits
<1>6. ASSUME NEW e, WellFormed(e), ResultCommits(e) PROVE creates' = creates
  BY <1>6 DEF ResultCommits, ApplyJudgeResult
<1> QED
  BY <1>1, <1>2, <1>3, <1>4, <1>5, <1>6, CommitCases

(* Every step of the store answers rightly or not at all. *)
LEMMA AnswersStep == TypeOK /\ AnswerInv /\ [StoreStep]_vars => AnswersMatch'
<1> SUFFICES ASSUME TypeOK, RecordsMatchRows, AnswersMatch, [StoreStep]_vars PROVE AnswersMatch'
  BY DEF AnswerInv
<1> USE DEF NewAnswer
<1>1. ASSUME NEW c \in Callers, NEW k \in Keys, NEW body \in Bodies,
             NEW contest \in Contests \cup {NoContest}, BeginCreate(c, k, body, contest)
      PROVE  AnswersMatch'
  <2>1. CASE answers' = answers
    BY <2>1, RightAnswerAdded
  <2>2. CASE CreateReplays(k, body, contest) /\ Reply(CreateAnswer(k, body, contest, creates[k].id))
    <3>0. PICK a : a = CreateAnswer(k, body, contest, creates[k].id)
      OBVIOUS
    <3>1. creates[k].id # NoSub
      BY <2>2 DEF CreateReplays
    <3>2. AnswerMatches(a)
      BY <2>2, <3>0, <3>1, ReplayIsRight
    <3>3. AnswerMatches(a)'
      <4>1. submissions' = submissions /\ creates' = creates /\ rejudges' = rejudges
        BY <1>1 DEF BeginCreate
      <4> QED
        BY <3>2, <4>1 DEF AnswerMatches
    <3>4. answers' \subseteq answers \cup {a}
      BY <2>2, <3>0 DEF Reply
    <3> QED
      BY <3>3, <3>4, RightAnswerAdded
  <2> QED
    BY <1>1, <2>1, <2>2 DEF BeginCreate
<1>2. ASSUME NEW c \in Callers, NEW rev \in Revisions, CreateWithOutboxAndIdempotency(c, rev)
      PROVE  AnswersMatch'
  <2> DEFINE key == calls[c].key
             body == calls[c].body
             contest == calls[c].contest
  <2>1. key \in Keys /\ body \in Bodies /\ contest \in Contests \cup {NoContest} /\ calls[c].op = "create"
    BY <1>2, CallTypes DEF CreateWithOutboxAndIdempotency
  <2>2. ASSUME NEW s \in SubIds, NEW o \in OutboxIds, Creates(calls[c], rev, s, o) PROVE AnswersMatch'
    <3>1. CreateWrites(calls[c], rev, s, o)
      <4>1. UNCHANGED rejudges
        BY <1>2 DEF CreateWithOutboxAndIdempotency
      <4> QED
        BY <2>1, <2>2, <4>1, CreateEffect DEF CreateCommits
    <3>2. creates'[key].id = s /\ submissions'[s] = QueuedRow(rev, body, contest, now)
      BY <3>1 DEF CreateWrites
    <3>3. submissions'[s].status = "QUEUED" /\ submissions'[s].body = body /\ submissions'[s].contest = contest
      BY <3>2 DEF QueuedRow
    <3>4. \E a : AnswerMatches(a)' /\ NewAnswer(a)
      <4>1. AnswerMatches(CreateAnswer(key, body, contest, s)) <=>
              /\ creates[key].id = s /\ submissions[s].status # "ABSENT"
              /\ submissions[s].body = body /\ submissions[s].contest = contest
        BY DEF AnswerMatches, CreateAnswer
      <4>2. PICK a : a = CreateAnswer(key, body, contest, s)
        OBVIOUS
      <4>3. a.op = "create" /\ a.key = key /\ a.body = body /\ a.contest = contest /\ a.id = s
        BY <4>2 DEF CreateAnswer
      <4>4. AnswerMatches(a)'
        BY <3>2, <3>3, <4>3 DEF AnswerMatches
      <4>5. answers' \subseteq answers \cup {a}
        BY <2>2, <4>2 DEF Creates, Reply
      <4> QED
        BY <4>4, <4>5
    <3> QED
      BY <3>4, RightAnswerAdded
  <2>3. CASE /\ creates[key].id # NoSub /\ creates[key].hash = Hash(body, contest)
             /\ Reply(CreateAnswer(key, body, contest, creates[key].id))
             /\ UNCHANGED <<submissions, outbox, creates>>
    <3>1. PICK a : a = CreateAnswer(key, body, contest, creates[key].id)
      OBVIOUS
    <3>2. AnswerMatches(a)
      BY <2>1, <2>3, <3>1, ReplayIsRight
    <3>3. UNCHANGED rejudges
      BY <1>2 DEF CreateWithOutboxAndIdempotency
    <3>4. AnswerMatches(a)'
      BY <2>3, <3>2, <3>3 DEF AnswerMatches
    <3>5. answers' \subseteq answers \cup {a}
      BY <2>3, <3>1 DEF Reply
    <3> QED
      BY <3>4, <3>5, RightAnswerAdded
  <2> QED
    BY <1>2, <2>2, <2>3 DEF CreateWithOutboxAndIdempotency, Creates, CreateKeyFree
<1>3. ASSUME NEW c \in Callers, NEW k \in Keys, NEW t \in SubIds, BeginRejudge(c, k, t) PROVE AnswersMatch'
  <2>1. CASE answers' = answers
    BY <2>1, RightAnswerAdded
  <2>2. CASE rejudges[k].target = t /\ Reply(RejudgeAnswer(k, t, rejudges[k].id))
    <3>1. PICK a : a = RejudgeAnswer(k, t, rejudges[k].id)
      OBVIOUS
    <3>2. a.op = "rejudge" /\ a.key = k /\ a.target = t /\ a.id = rejudges[k].id
      BY <3>1 DEF RejudgeAnswer
    <3>3. UNCHANGED rejudges
      BY <1>3 DEF BeginRejudge
    <3>4. AnswerMatches(a)'
      BY <2>2, <3>2, <3>3 DEF AnswerMatches
    <3>5. answers' \subseteq answers \cup {a}
      BY <2>2, <3>1 DEF Reply
    <3> QED
      BY <3>4, <3>5, RightAnswerAdded
  <2> QED
    BY <1>3, <2>1, <2>2 DEF BeginRejudge
<1>4. ASSUME NEW c \in Callers, NEW rev \in Revisions, InvalidateAndRequeue(c, rev) PROVE AnswersMatch'
  <2> DEFINE key == calls[c].key
             target == calls[c].target
  <2>1. key \in Keys /\ target \in SubIds /\ calls[c].op = "rejudge"
    BY <1>4, CallTypes DEF InvalidateAndRequeue
  <2>2. \E s : /\ rejudges'[key].id = s /\ rejudges'[key].target = target
               /\ Reply(RejudgeAnswer(key, target, s))
    <3>1. ASSUME NEW s \in SubIds, NEW o1 \in OutboxIds, NEW o2 \in OutboxIds, Requeues(calls[c], rev, s, o1, o2)
          PROVE  /\ rejudges'[key].id = s /\ rejudges'[key].target = target
                 /\ Reply(RejudgeAnswer(key, target, s))
      BY <2>1, <3>1 DEF Requeues, TypeOK
    <3>2. ASSUME rejudges[key].target = target, UNCHANGED rejudges, Reply(RejudgeAnswer(key, target, rejudges[key].id))
          PROVE  /\ rejudges'[key].id = rejudges[key].id /\ rejudges'[key].target = target
                 /\ Reply(RejudgeAnswer(key, target, rejudges[key].id))
      BY <3>2
    <3>3. \/ \E s \in SubIds, o1, o2 \in OutboxIds : Requeues(calls[c], rev, s, o1, o2)
          \/ /\ rejudges[key].target = target /\ UNCHANGED rejudges
             /\ Reply(RejudgeAnswer(key, target, rejudges[key].id))
      BY <1>4 DEF InvalidateAndRequeue, Requeues, Replacement, LockedRowInvalidatable
    <3> QED
      BY <3>1, <3>2, <3>3
  <2>3. PICK s : /\ rejudges'[key].id = s /\ rejudges'[key].target = target
                 /\ Reply(RejudgeAnswer(key, target, s))
    BY <2>2
  <2>4. PICK a : a = RejudgeAnswer(key, target, s)
    OBVIOUS
  <2>5. a.op = "rejudge" /\ a.key = key /\ a.target = target /\ a.id = s
    BY <2>4 DEF RejudgeAnswer
  <2>6. AnswerMatches(a)'
    BY <2>3, <2>5 DEF AnswerMatches
  <2>7. answers' \subseteq answers \cup {a}
    BY <2>3, <2>4 DEF Reply
  <2> QED
    BY <2>6, <2>7, RightAnswerAdded
<1>5. ASSUME answers' = answers PROVE AnswersMatch'
  BY <1>5, RightAnswerAdded
<1>6. ASSUME NEW c \in Callers, CallFails(c) PROVE answers' = answers
  BY <1>6 DEF CallFails
<1>7. ASSUME NEW e, WellFormed(e), ApplyJudgeResult(e) PROVE answers' = answers
  BY <1>7 DEF ApplyJudgeResult
<1>8. Tick \/ UNCHANGED vars => answers' = answers
  BY DEF Tick, vars
<1> QED
  BY <1>1, <1>2, <1>3, <1>4, <1>5, <1>6, <1>7, <1>8 DEF StoreStep, CallStep

(* Answers agree whatever well-formed results arrive. *)
LEMMA OpenAnswers == OpenSpec => []AnswersAgree
<1>1. Init => AnswerInv
  BY DEF Init, AnswerInv, RecordsMatchRows, AnswersMatch, NoCreate
<1>2. TypeOK /\ AnswerInv /\ [StoreStep]_vars => AnswerInv'
  BY HashesKept, AnswersStep DEF AnswerInv
<1>3. TypeOK /\ AnswerInv => AnswersAgree
  <2> SUFFICES ASSUME TypeOK, AnswersMatch PROVE AnswersAgree
    BY DEF AnswerInv
  <2>1. ASSUME NEW a \in answers, NEW b \in answers, a.op = b.op, a.key = b.key PROVE a = b
    <3>1. a \in Answer /\ b \in Answer /\ AnswerMatches(a) /\ AnswerMatches(b)
      BY DEF TypeOK, AnswersMatch
    <3>2. CASE a.op = "create"
      <4>1. a.id = b.id /\ a.body = b.body /\ a.contest = b.contest
        BY <2>1, <3>1, <3>2 DEF AnswerMatches
      <4>2. a = CreateAnswer(a.key, a.body, a.contest, a.id)
        BY <3>1, <3>2 DEF Answer, CreateAnswer
      <4>3. b = CreateAnswer(b.key, b.body, b.contest, b.id)
        BY <2>1, <3>1, <3>2 DEF Answer, CreateAnswer
      <4> QED
        BY <2>1, <4>1, <4>2, <4>3
    <3>3. CASE a.op = "rejudge"
      <4>1. a.id = b.id /\ a.target = b.target
        BY <2>1, <3>1, <3>3 DEF AnswerMatches
      <4>2. a = RejudgeAnswer(a.key, a.target, a.id)
        BY <3>1, <3>3 DEF Answer, RejudgeAnswer
      <4>3. b = RejudgeAnswer(b.key, b.target, b.id)
        BY <2>1, <3>1, <3>3 DEF Answer, RejudgeAnswer
      <4> QED
        BY <2>1, <4>1, <4>2, <4>3
    <3> QED
      BY <3>1, <3>2, <3>3 DEF Answer
  <2>2. ASSUME NEW a \in answers, a.op = "create"
        PROVE  submissions[a.id].body = a.body /\ submissions[a.id].contest = a.contest
    BY <2>2 DEF AnswersMatch, AnswerMatches
  <2> QED
    BY <2>1, <2>2 DEF AnswersAgree
<1> QED
  BY <1>1, <1>2, <1>3, OpenTypes, PTL DEF OpenSpec

(* Repeating a request is harmless: all answers given for a key agree, and  *)
(* a submit is answered with a row that holds what its client sent, for     *)
(* any number of handlers, keys and lost replies.                           *)
THEOREM RepeatedAnswersAgree == Spec => []AnswersAgree
BY OpenAnswers, SpecIsOpen
=============================================================================
