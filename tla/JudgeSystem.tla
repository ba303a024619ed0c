----------------------------- MODULE JudgeSystem -----------------------------
(***************************************************************************)
(* The judging loop end to end: the submission store commits requests into *)
(* its outbox, the outbox delivers judge.task messages at least once, the  *)
(* worker answers with result events, and the result consumer applies them *)
(* to the store.                                                           *)
(*                                                                         *)
(* The outbox appears through the specification it implements (module      *)
(* AtLeastOnce, see OutboxRelay); store and worker are the detailed        *)
(* modules.  submission.judged and submission.invalidated events leave for *)
(* the contest service and are followed up to the outbox only.             *)
(***************************************************************************)
EXTENDS SubmissionStore

CONSTANTS
    TaskMsgs, RetryMsgs, Slots, MaxRetries, MaxFaults,  \* see JudgeWorker
    MaxGiveUps      \* how many outbox rows may exhaust their publish attempts

VARIABLES
    state, taken,   \* see AtLeastOnce
    msgs, slots, deadline, resultQueue, reported, workerFaults, \* see JudgeWorker
    giveUps

Worker == INSTANCE JudgeWorker WITH Malformed <- {}
Outbox == INSTANCE AtLeastOnce WITH Ids <- OutboxIds

deliveryVars == <<state, taken>>
workerVars   == <<msgs, slots, deadline, resultQueue, reported, workerFaults>>
systemVars   == <<vars, deliveryVars, workerVars, giveUps>>

SystemInit == Init /\ Outbox!DeliveryInit /\ Worker!WorkerInit /\ giveUps = 0

Inserted == {o \in OutboxIds : outbox[o].type = "none" /\ outbox'[o].type # "none"}

\* A handler of the judge service; the outbox rows of its transaction become
\* visible to the relay at the commit.
SubmitStep(c) ==
    /\ CallStep(c)
    /\ IF Inserted = {} THEN UNCHANGED deliveryVars ELSE Outbox!Emit(Inserted)
    /\ UNCHANGED <<workerVars, giveUps>>

\* The broker takes the message of row o; a judge.requested row becomes a
\* judge.task message.
PublishStep(o) ==
    /\ Outbox!Take(o)
    /\ IF outbox[o].type = "judge.requested"
       THEN \E m \in TaskMsgs : Worker!Enqueue(m, outbox[o].sub, outbox[o].rev)
       ELSE UNCHANGED workerVars
    /\ UNCHANGED <<vars, giveUps>>

SettleStep(o) == Outbox!Settle(o) /\ UNCHANGED <<vars, workerVars, giveUps>>

GiveUpStep(o) ==
    /\ giveUps < MaxGiveUps
    /\ Outbox!GiveUp(o)
    /\ giveUps' = giveUps + 1
    /\ UNCHANGED <<vars, workerVars>>

WorkerStep(w)    == Worker!WorkerStep(w) /\ UNCHANGED <<vars, deliveryVars, giveUps>>
RetryDelayOver(m) == Worker!RetryDelayOver(m) /\ UNCHANGED <<vars, deliveryVars, giveUps>>
DeadlineStep(s)  == Exists(s) /\ Worker!TimePasses(s) /\ UNCHANGED <<vars, deliveryVars, giveUps>>

(***************************************************************************)
(* RabbitResultConsumer: apply the event, then acknowledge, reject or      *)
(* requeue it.  An acknowledgement may be lost, and the event comes again. *)
(***************************************************************************)
Acknowledge(e) ==
    \/ resultQueue' = resultQueue \ {e} /\ UNCHANGED workerFaults
    \/ workerFaults < MaxFaults /\ workerFaults' = workerFaults + 1 /\ UNCHANGED resultQueue

ConsumeResult(e) ==
    /\ e \in resultQueue /\ Disposition(e) # "requeue"
    /\ IF Disposition(e) = "ack" /\ e.id \notin processed
       THEN /\ ApplyJudgeResult(e)
            /\ IF Inserted = {} THEN UNCHANGED deliveryVars ELSE Outbox!Emit(Inserted)
       ELSE UNCHANGED <<vars, deliveryVars>>
    /\ Acknowledge(e)
    /\ UNCHANGED <<msgs, slots, deadline, reported, giveUps>>

SystemNext ==
    \/ \E c \in Callers : SubmitStep(c)
    \/ \E o \in OutboxIds : PublishStep(o) \/ SettleStep(o) \/ GiveUpStep(o)
    \/ \E w \in Slots : WorkerStep(w)
    \/ \E m \in RetryMsgs : RetryDelayOver(m)
    \/ \E s \in SubIds : DeadlineStep(s)
    \/ \E e \in resultQueue : ConsumeResult(e)

SystemSpec == SystemInit /\ [][SystemNext]_systemVars

(***************************************************************************)
(* The relay keeps publishing pending rows until they settle (checked of   *)
(* OutboxRelay as EveryRowSettles), slots and queues keep moving, time     *)
(* passes, and the consumer keeps consuming.  A publish attempt that the   *)
(* broker refuses forever is what GiveUpStep stands for.                   *)
(***************************************************************************)
SettleSoon(o) == state[o] = "pending" /\ o \notin taken /\ PublishStep(o)

SystemFairness ==
    /\ \A o \in OutboxIds : WF_systemVars(SettleSoon(o)) /\ WF_systemVars(SettleStep(o))
    /\ \A w \in Slots : WF_systemVars(Worker!Receive(w) /\ UNCHANGED <<vars, deliveryVars, giveUps>>)
                        /\ WF_systemVars(Worker!Handle(w) /\ UNCHANGED <<vars, deliveryVars, giveUps>>)
    /\ \A m \in RetryMsgs : WF_systemVars(RetryDelayOver(m))
    /\ \A s \in SubIds : WF_systemVars(DeadlineStep(s))
    /\ WF_systemVars(\E e \in resultQueue : ConsumeResult(e))

FairSystemSpec == SystemSpec /\ SystemFairness

-----------------------------------------------------------------------------
Waiting(s) == submissions[s].status \in {"QUEUED", "RETRY_WAIT"}

(***************************************************************************)
(* Nothing is lost between the components: while a submission waits for    *)
(* its verdict, its request is still in the outbox (given up rows          *)
(* included), or a task message for it is on the way, or a result the      *)
(* store will accept is in the result queue.                               *)
(***************************************************************************)
RequestOnItsWay(s) ==
    \E o \in OutboxIds :
      /\ outbox[o].type = "judge.requested" /\ outbox[o].sub = s
      /\ state[o] = "pending" \/ (state[o] = "dead" /\ o \notin taken)
TaskOnItsWay(s) ==
    \E m \in Worker!MsgIds : Worker!Queued(m) /\ msgs[m].sub = s /\ msgs[m].rev = submissions[s].rev
ResultOnItsWay(s) ==
    \E e \in resultQueue : e.sub = s /\ e.rev = submissions[s].rev /\ e.id \notin processed

NoSubmissionLost == \A s \in SubIds : Waiting(s) => RequestOnItsWay(s) \/ TaskOnItsWay(s) \/ ResultOnItsWay(s)

(***************************************************************************)
(* What the worker reports fits what the store holds: no event of the      *)
(* result queue is rejected for its revision or requeued for an unknown    *)
(* submission, although rejudges replace rows while results are in flight. *)
(***************************************************************************)
ResultsAreAcceptable == \A e \in resultQueue : Disposition(e) = "ack"

(***************************************************************************)
(* Every submission is judged (or replaced by a rejudge) unless its        *)
(* request was given up by the relay.                                      *)
(***************************************************************************)
GivenUp(s) == \E o \in OutboxIds : outbox[o].type = "judge.requested" /\ outbox[o].sub = s /\ state[o] = "dead"
EventuallyJudged ==
    \A s \in SubIds : Exists(s) ~> submissions[s].status \in TerminalStatus \/ GivenUp(s)

(***************************************************************************)
(* docs/architecture.md and docs/api.md: a submission without a result     *)
(* converges to DONE/SYSTEM_ERROR after its deadline (a reconciler and a   *)
(* DLQ consumer in the judge service).  Neither exists in the code, and a  *)
(* submission whose request the relay gave up stays QUEUED for ever.       *)
(***************************************************************************)
ConvergesAfterDeadline ==
    \A s \in SubIds : Exists(s) ~> submissions[s].status \in TerminalStatus
=============================================================================
