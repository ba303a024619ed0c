----------------------------- MODULE JudgeWorker -----------------------------
(***************************************************************************)
(* The judge worker and the RabbitMQ queues around it: the task queue, the *)
(* delayed retry queue, the dead-letter queue and the result queue.        *)
(*                                                                         *)
(* Every message is followed by its place.  A delivery is handled by one   *)
(* of the worker's slots (its bounded concurrency equals its prefetch); a  *)
(* slot that dies, or whose channel closes, leaves the message             *)
(* unacknowledged and the broker delivers it again.                        *)
(*                                                                         *)
(* Time is abstracted to what Handle asks of the task's judge deadline:    *)
(* "open" while now + RetryDelay is before it, "closing" after that and    *)
(* "past" once the deadline has been reached.                              *)
(***************************************************************************)
EXTENDS Naturals

CONSTANTS
    SubIds,         \* submissions a task can name
    Revisions,      \* judge revisions
    Verdicts,       \* verdicts of an execution
    TaskMsgs,       \* messages the outbox relay can publish
    RetryMsgs,      \* messages the worker itself can publish as retries
    Malformed,      \* messages decodeTask refuses
    Slots,          \* the worker's delivery goroutines
    MaxRetries,     \* Consumer.MaxRetries
    MaxFaults       \* bound on crashes, lost acknowledgements and failed publishes

MsgIds == TaskMsgs \cup RetryMsgs

ASSUME WorkerMsgs ==
    MsgIds \subseteq Nat \ {0} /\ Malformed \subseteq TaskMsgs /\ TaskMsgs \cap RetryMsgs = {}
ASSUME WorkerBounds == MaxRetries \in Nat /\ MaxFaults \in Nat

VARIABLES
    msgs,           \* every task message: its place and its content
    slots,          \* what each slot is doing
    deadline,       \* the judge deadline of every submission, relative to now
    resultQueue,    \* result events waiting for the judge service
    reported,       \* how many result events were ever published
    workerFaults

workerVars == <<msgs, slots, deadline, resultQueue, reported, workerFaults>>

NoMsg == 0
NoResult == ""

Places == {"none", "task", "retry", "worker", "acked", "dlq"}
Msg == [at : Places, sub : SubIds \cup {NoMsg}, rev : Revisions \cup {NoResult}, attempt : Nat]
NoTask == [at |-> "none", sub |-> NoMsg, rev |-> NoResult, attempt |-> 0]

\* What a slot has to publish before it may acknowledge its delivery.  A failure
\* to be retried may quote up to 4096 bytes of the sandbox's diagnostic, and then
\* it is not valid as a result event, whose message has at most 1024.
Outcomes == [type : {"judge.completed"}, verdict : Verdicts, retryable : {FALSE}, valid : {TRUE}]
            \cup {f \in [type : {"judge.failed"}, verdict : {NoResult}, retryable : BOOLEAN, valid : BOOLEAN] :
                    f.retryable \/ f.valid}
NoOutcome == [type |-> NoResult, verdict |-> NoResult, retryable |-> FALSE, valid |-> FALSE]
FailedOutcome(r) == [type |-> "judge.failed", verdict |-> NoResult, retryable |-> r, valid |-> TRUE]

FinalOutcomes == {[o EXCEPT !.retryable = FALSE] : o \in Outcomes}
Slot == [pc : {"idle", "received", "report", "retry", "ack"}, msg : MsgIds \cup {NoMsg},
         outcome : Outcomes \cup FinalOutcomes \cup {NoOutcome}]
IdleSlot == [pc |-> "idle", msg |-> NoMsg, outcome |-> NoOutcome]

ResultEvent == [id : Nat, sub : SubIds, rev : Revisions, type : {"judge.completed", "judge.failed"},
                verdict : Verdicts \cup {NoResult}, retryable : BOOLEAN]

WorkerInit ==
    /\ msgs = [m \in MsgIds |-> NoTask]
    /\ slots = [w \in Slots |-> IdleSlot]
    /\ deadline = [s \in SubIds |-> "open"]
    /\ resultQueue = {}
    /\ reported = 0
    /\ workerFaults = 0

Task(w) == msgs[slots[w].msg]
FreeMsg(m, M) == m \in M /\ msgs[m].at = "none" /\ \A n \in M : n < m => msgs[n].at # "none"
Fault == workerFaults < MaxFaults /\ workerFaults' = workerFaults + 1

-----------------------------------------------------------------------------
\* The broker routes a judge.task message to its task queue.
Enqueue(m, s, rev) ==
    /\ FreeMsg(m, TaskMsgs)
    /\ msgs' = [msgs EXCEPT ![m] = [at |-> "task", sub |-> s, rev |-> rev, attempt |-> 0]]
    /\ UNCHANGED <<slots, deadline, resultQueue, reported, workerFaults>>

\* Handle begins: a malformed body is rejected to the dead-letter queue.
Deliver(w, m) ==
    /\ slots[w].pc = "idle" /\ msgs[m].at = "task" /\ m \notin Malformed
    /\ msgs' = [msgs EXCEPT ![m].at = "worker"]
    /\ slots' = [slots EXCEPT ![w] = [IdleSlot EXCEPT !.pc = "received", !.msg = m]]
    /\ UNCHANGED <<deadline, resultQueue, reported, workerFaults>>

RejectMalformed(w, m) ==
    /\ slots[w].pc = "idle" /\ msgs[m].at = "task" /\ m \in Malformed
    /\ msgs' = [msgs EXCEPT ![m].at = "dlq"]
    /\ UNCHANGED <<slots, deadline, resultQueue, reported, workerFaults>>

\* The task expired while it was queued: report a final failure, do not run it.
Expired_Dropped(w) ==       \* seeded defect: acknowledged without a report
    /\ slots[w].pc = "received" /\ deadline[Task(w).sub] = "past"
    /\ slots' = [slots EXCEPT ![w].pc = "ack"]
    /\ UNCHANGED <<msgs, deadline, resultQueue, reported, workerFaults>>
Expired(w) ==
    /\ slots[w].pc = "received" /\ deadline[Task(w).sub] = "past"
    /\ slots' = [slots EXCEPT ![w].pc = "report", ![w].outcome = FailedOutcome(FALSE)]
    /\ UNCHANGED <<msgs, deadline, resultQueue, reported, workerFaults>>

retryAllowed(task) == task.attempt < MaxRetries /\ deadline[task.sub] = "open"

(***************************************************************************)
(* Engine.Execute returns a verdict or a failure.  A retryable failure is  *)
(* retried while budget and deadline allow; otherwise it becomes final.    *)
(***************************************************************************)
Execute(w, outcome) ==
    /\ slots[w].pc = "received" /\ deadline[Task(w).sub] # "past"
    /\ slots' = [slots EXCEPT ![w] =
                   IF outcome.retryable /\ retryAllowed(Task(w))
                   THEN [@ EXCEPT !.pc = "retry", !.outcome = outcome]
                   ELSE [@ EXCEPT !.pc = "report", !.outcome = [outcome EXCEPT !.retryable = FALSE]]]
    /\ UNCHANGED <<msgs, deadline, resultQueue, reported, workerFaults>>

\* The broker has the result event, under a fresh event id.
ResultPublished(w) ==
    /\ reported' = reported + 1
    /\ resultQueue' = resultQueue \cup
         {[id |-> reported + 1, sub |-> Task(w).sub, rev |-> Task(w).rev, type |-> slots[w].outcome.type,
           verdict |-> slots[w].outcome.verdict, retryable |-> slots[w].outcome.retryable]}

\* The broker has the retry message, under a fresh event id.
RetryPublished(w, table) ==
    \E m \in RetryMsgs :
      FreeMsg(m, RetryMsgs) /\ msgs' = [table EXCEPT ![m] = [Task(w) EXCEPT !.at = "retry", !.attempt = @ + 1]]

Requeued(w) == [msgs EXCEPT ![slots[w].msg].at = "task"]

ReportResult(w) ==
    /\ slots[w].pc = "report" /\ slots[w].outcome.valid
    /\ ResultPublished(w)
    /\ slots' = [slots EXCEPT ![w].pc = "ack"]
    /\ UNCHANGED <<msgs, deadline, workerFaults>>

\* ReportFailed refuses the event before it publishes anything: the delivery is
\* nacked, and the task is executed again at once, with the same attempt.
ReportRefused(w) ==
    /\ slots[w].pc = "report" /\ ~slots[w].outcome.valid
    /\ msgs' = Requeued(w)
    /\ slots' = [slots EXCEPT ![w] = IdleSlot]
    /\ UNCHANGED <<deadline, resultQueue, reported, workerFaults>>

ReportRetry(w) ==
    /\ slots[w].pc = "retry"
    /\ RetryPublished(w, msgs)
    /\ slots' = [slots EXCEPT ![w].pc = "ack"]
    /\ UNCHANGED <<deadline, resultQueue, reported, workerFaults>>

\* The publish fails or its confirm is lost, although the broker may have the
\* message: the delivery is nacked and goes back to its queue.
ReportFails_Acks(w) ==      \* seeded defect: acknowledged although nothing was published
    /\ slots[w].pc = "report" /\ Fault
    /\ msgs' = [msgs EXCEPT ![slots[w].msg].at = "acked"]
    /\ slots' = [slots EXCEPT ![w] = IdleSlot]
    /\ UNCHANGED <<deadline, resultQueue, reported>>
ReportFails(w) ==
    /\ Fault
    /\ \/ /\ slots[w].pc = "report" /\ slots[w].outcome.valid
          /\ ResultPublished(w) \/ UNCHANGED <<resultQueue, reported>>
          /\ msgs' = Requeued(w)
       \/ /\ slots[w].pc = "retry"
          /\ RetryPublished(w, Requeued(w)) \/ msgs' = Requeued(w)
          /\ UNCHANGED <<resultQueue, reported>>
    /\ slots' = [slots EXCEPT ![w] = IdleSlot]
    /\ UNCHANGED deadline

Ack(w) ==
    /\ slots[w].pc = "ack"
    /\ msgs' = [msgs EXCEPT ![slots[w].msg].at = "acked"]
    /\ slots' = [slots EXCEPT ![w] = IdleSlot]
    /\ UNCHANGED <<deadline, resultQueue, reported, workerFaults>>

\* The worker dies, the channel closes (shutdown timeout included) or the
\* acknowledgement is lost: the broker redelivers what was not acknowledged.
WorkerLost(w) ==
    /\ slots[w].pc # "idle" /\ Fault
    /\ msgs' = Requeued(w)
    /\ slots' = [slots EXCEPT ![w] = IdleSlot]
    /\ UNCHANGED <<deadline, resultQueue, reported>>

\* x-message-ttl of the retry queue dead-letters the message to its task queue.
RetryDelayOver_Discards(m) ==       \* seeded defect: a retry queue without a dead-letter route
    /\ msgs[m].at = "retry"
    /\ msgs' = [msgs EXCEPT ![m].at = "dlq"]
    /\ UNCHANGED <<slots, deadline, resultQueue, reported, workerFaults>>
RetryDelayOver(m) ==
    /\ msgs[m].at = "retry"
    /\ msgs' = [msgs EXCEPT ![m].at = "task"]
    /\ UNCHANGED <<slots, deadline, resultQueue, reported, workerFaults>>

TimePasses(s) ==
    /\ deadline[s] # "past"
    /\ deadline' = [deadline EXCEPT ![s] = IF @ = "open" THEN "closing" ELSE "past"]
    /\ UNCHANGED <<msgs, slots, resultQueue, reported, workerFaults>>

\* Handle, from a delivered message to its acknowledgement.
Handle(w) ==
    \/ Expired(w)
    \/ \E outcome \in Outcomes : Execute(w, outcome)
    \/ ReportResult(w)
    \/ ReportRefused(w)
    \/ ReportRetry(w)
    \/ Ack(w)

Receive(w) == \E m \in MsgIds : Deliver(w, m) \/ RejectMalformed(w, m)

WorkerStep(w) == Receive(w) \/ Handle(w) \/ ReportFails(w) \/ WorkerLost(w)

WorkerNext ==
    \/ \E w \in Slots : WorkerStep(w)
    \/ \E m \in MsgIds : RetryDelayOver(m)
    \/ \E s \in SubIds : TimePasses(s)
    \/ \E m \in MsgIds, s \in SubIds, rev \in Revisions : Enqueue(m, s, rev)

WorkerSpec == WorkerInit /\ [][WorkerNext]_workerVars

(***************************************************************************)
(* Slots run forever (runDeliveryWorkers), queues deliver and expire, and  *)
(* time passes: the deadline alone ends the re-execution of a task whose   *)
(* final failure cannot be reported.                                       *)
(***************************************************************************)
WorkerFairness ==
    /\ \A w \in Slots : WF_workerVars(Receive(w)) /\ WF_workerVars(Handle(w))
    /\ \A m \in MsgIds : WF_workerVars(RetryDelayOver(m))
    /\ \A s \in SubIds : WF_workerVars(TimePasses(s))

FairWorkerSpec == WorkerSpec /\ WorkerFairness

-----------------------------------------------------------------------------
Queued(m) == msgs[m].at \in {"task", "retry", "worker"}
SameTask(m, x) == msgs[m].sub = x.sub /\ msgs[m].rev = x.rev

(***************************************************************************)
(* A task is never dropped: until a result of the task was published, a    *)
(* copy of it is in a queue or in a worker's hands, whatever crash, lost   *)
(* acknowledgement or failed publish happens in between.                   *)
(***************************************************************************)
NoTaskLost ==
    \A m \in MsgIds \ Malformed : msgs[m].at # "none" =>
      \/ \E n \in MsgIds : Queued(n) /\ SameTask(n, msgs[m])
      \/ \E e \in resultQueue : SameTask(m, e)

(***************************************************************************)
(* Every task is answered: once a well-formed task is in the queue a       *)
(* result for it is eventually published.                                  *)
(***************************************************************************)
EveryTaskAnswered ==
    \A m \in MsgIds \ Malformed :
      msgs[m].at = "task" ~> \E e \in resultQueue : SameTask(m, e)
=============================================================================
