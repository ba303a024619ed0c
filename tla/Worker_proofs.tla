--------------------------- MODULE Worker_proofs ----------------------------
(***************************************************************************)
(* The judge worker: no task is lost by the delivery loop, and what an     *)
(* execution reports and what it leaves in the sandbox, for any number of  *)
(* messages, slots, tasks, code runs and testcases, and any program.       *)
(***************************************************************************)
EXTENDS JudgeWorker, WorkerExecution, TLAPS

-----------------------------------------------------------------------------
(***************************************************************************)
(* No task is lost by the judge worker, for any number of submissions,     *)
(* messages, slots, retries and faults.                                    *)
(*                                                                         *)
(* The point of the inductive invariant is the moment before an            *)
(* acknowledgement (AckIsCovered): the message a slot is about to          *)
(* acknowledge is answered, or a copy of its task with a later attempt is  *)
(* still queued.  The copy may be in another slot that is itself about to  *)
(* acknowledge; that the attempts grow is what keeps the two from covering *)
(* each other.                                                             *)
(***************************************************************************)

(* The messages and slots are of their types. *)
WorkerType ==
    /\ msgs \in [MsgIds -> Msg]
    /\ slots \in [Slots -> Slot]

Busy(w) == slots[w].pc # "idle"

(* A busy slot has a well-formed message in its hands, and nobody else has. *)
SlotsHold ==
    /\ \A w \in Slots : Busy(w) =>
         slots[w].msg \in MsgIds \ Malformed /\ msgs[slots[w].msg].at = "worker"
    /\ \A v, w \in Slots : Busy(v) /\ Busy(w) /\ slots[v].msg = slots[w].msg => v = w

Answered(m) == \E e \in resultQueue : SameTask(m, e)
Live(n) == n \in MsgIds \ Malformed /\ Queued(n)

(* What a slot is about to acknowledge is answered or lives on in a retry. *)
CoveredBy(n, m) == Live(n) /\ SameTask(n, msgs[m]) /\ msgs[n].attempt > msgs[m].attempt
Covered(m) == Answered(m) \/ \E n \in MsgIds : CoveredBy(n, m)
AckIsCovered == \A w \in Slots : slots[w].pc = "ack" => Covered(slots[w].msg)

(* Every task that was ever queued is answered or still queued. *)
TasksKept ==
    \A m \in MsgIds \ Malformed : msgs[m].at # "none" =>
      Answered(m) \/ \E n \in MsgIds : Live(n) /\ SameTask(n, msgs[m])

WorkerInv == WorkerType /\ SlotsHold /\ AckIsCovered /\ TasksKept

-----------------------------------------------------------------------------
(* Every step but an acknowledgement lets the queues grow: results stay,    *)
(* what is queued stays queued, messages keep their content, and a new      *)
(* well-formed message is queued.                                           *)
Grows ==
    /\ resultQueue \subseteq resultQueue'
    /\ \A n \in MsgIds : Live(n) => Live(n)'
    /\ \A m \in MsgIds : msgs[m].at # "none" =>
         msgs'[m].sub = msgs[m].sub /\ msgs'[m].rev = msgs[m].rev /\ msgs'[m].attempt = msgs[m].attempt
    /\ \A m \in MsgIds \ Malformed : msgs[m].at = "none" /\ msgs'[m].at # "none" => Live(m)'

(* While the queues grow no task is lost and a covered message stays so. *)
LEMMA GrowingKeeps ==
    ASSUME WorkerInv, Grows
    PROVE  /\ TasksKept'
           /\ \A m \in MsgIds : msgs[m].at # "none" /\ Covered(m) => Covered(m)'
<1>1. ASSUME NEW m \in MsgIds, msgs[m].at # "none", NEW n \in MsgIds, Live(n), SameTask(n, msgs[m])
      PROVE  SameTask(n, msgs[m])' /\ Live(n)' /\ msgs'[n].attempt = msgs[n].attempt
  BY <1>1 DEF Grows, SameTask, Live, Queued
<1>2. ASSUME NEW m \in MsgIds, msgs[m].at # "none", Answered(m) PROVE Answered(m)'
  BY <1>2 DEF Grows, Answered, SameTask
<1>3. ASSUME NEW m \in MsgIds, msgs[m].at # "none", Covered(m) PROVE Covered(m)'
  <2>1. CASE Answered(m)
    BY <1>2, <1>3, <2>1 DEF Covered
  <2>2. ASSUME NEW n \in MsgIds, CoveredBy(n, m) PROVE CoveredBy(n, m)'
    BY <1>1, <1>3, <2>2 DEF CoveredBy, Grows
  <2> QED
    BY <1>3, <2>1, <2>2 DEF Covered
<1>4. ASSUME NEW m \in MsgIds \ Malformed, msgs'[m].at # "none"
      PROVE  Answered(m)' \/ \E n \in MsgIds : Live(n)' /\ SameTask(n, msgs[m])'
  <2>1. CASE msgs[m].at = "none"
    <3>1. Live(m)' /\ SameTask(m, msgs[m])'
      BY <1>4, <2>1 DEF Grows, SameTask
    <3> QED
      BY <3>1
  <2>2. CASE msgs[m].at # "none"
    BY <1>1, <1>2, <1>4, <2>2 DEF WorkerInv, TasksKept
  <2> QED
    BY <2>1, <2>2
<1> QED
  BY <1>3, <1>4 DEF TasksKept

(* A slot that moves on with the message it holds, while the queues grow    *)
(* and no message in a slot's hands moves, keeps the invariant if what it   *)
(* is about to acknowledge is covered.                                      *)
LEMMA SlotMoves ==
    ASSUME WorkerInv, Grows, msgs' \in [MsgIds -> Msg], NEW w \in Slots, NEW r \in Slot, Busy(w),
           slots' = [slots EXCEPT ![w] = r], r.msg = slots[w].msg, r.pc # "idle",
           r.pc = "ack" => Covered(r.msg)',
           \A m \in MsgIds : msgs[m].at = "worker" => msgs'[m].at = "worker"
    PROVE  WorkerInv'
<1>1. WorkerType' /\ slots'[w] = r /\ \A v \in Slots \ {w} : slots'[v] = slots[v]
  BY DEF WorkerInv, WorkerType
<1>2. SlotsHold'
  BY <1>1 DEF WorkerInv, SlotsHold, Busy
<1>3. AckIsCovered'
  <2>1. ASSUME NEW v \in Slots \ {w}, slots'[v].pc = "ack" PROVE Covered(slots[v].msg)'
    <3>1. slots[v].pc = "ack" /\ slots[v].msg \in MsgIds /\ msgs[slots[v].msg].at = "worker"
      BY <1>1, <2>1 DEF WorkerInv, SlotsHold, Busy
    <3> QED
      BY <3>1, GrowingKeeps DEF WorkerInv, AckIsCovered
  <2> QED
    BY <1>1, <2>1 DEF AckIsCovered
<1> QED
  BY <1>1, <1>2, <1>3, GrowingKeeps DEF WorkerInv

(* A slot that gives its message back, while the queues grow and no other   *)
(* message in a slot's hands moves, keeps the invariant.                    *)
LEMMA SlotFrees ==
    ASSUME WorkerInv, Grows, msgs' \in [MsgIds -> Msg], NEW w \in Slots, Busy(w),
           slots' = [slots EXCEPT ![w] = IdleSlot],
           \A m \in MsgIds \ {slots[w].msg} : msgs[m].at = "worker" => msgs'[m].at = "worker"
    PROVE  WorkerInv'
<1>1. IdleSlot \in Slot /\ IdleSlot.pc = "idle"
  BY DEF IdleSlot, Slot
<1>2. WorkerType' /\ slots'[w] = IdleSlot /\ \A v \in Slots \ {w} : slots'[v] = slots[v]
  BY <1>1 DEF WorkerInv, WorkerType
<1>3. SlotsHold'
  BY <1>1, <1>2 DEF WorkerInv, SlotsHold, Busy
<1>4. AckIsCovered'
  <2>1. ASSUME NEW v \in Slots \ {w}, slots'[v].pc = "ack" PROVE Covered(slots[v].msg)'
    <3>1. slots[v].pc = "ack" /\ slots[v].msg \in MsgIds /\ msgs[slots[v].msg].at = "worker"
      BY <1>2, <2>1 DEF WorkerInv, SlotsHold, Busy
    <3> QED
      BY <3>1, GrowingKeeps DEF WorkerInv, AckIsCovered
  <2> QED
    BY <1>1, <1>2, <2>1 DEF AckIsCovered
<1> QED
  BY <1>2, <1>3, <1>4, GrowingKeeps DEF WorkerInv

(* A message that moves in the broker, while the queues grow and no message *)
(* in a slot's hands moves, keeps the invariant.                            *)
LEMMA BrokerMoves ==
    ASSUME WorkerInv, Grows, msgs' \in [MsgIds -> Msg], slots' = slots,
           \A m \in MsgIds : msgs[m].at = "worker" => msgs'[m].at = "worker"
    PROVE  WorkerInv'
<1>1. WorkerType' /\ SlotsHold'
  BY DEF WorkerInv, WorkerType, SlotsHold, Busy
<1>2. AckIsCovered'
  <2>1. ASSUME NEW v \in Slots, slots'[v].pc = "ack" PROVE Covered(slots[v].msg)'
    <3>1. slots[v].pc = "ack" /\ slots[v].msg \in MsgIds /\ msgs[slots[v].msg].at = "worker"
      BY <2>1 DEF WorkerInv, SlotsHold, Busy
    <3> QED
      BY <3>1, GrowingKeeps DEF WorkerInv, AckIsCovered
  <2> QED
    BY <2>1 DEF AckIsCovered
<1> QED
  BY <1>1, <1>2, GrowingKeeps DEF WorkerInv

-----------------------------------------------------------------------------
(* A message that changes its place keeps its content; if it stays or       *)
(* becomes queued, or is malformed, the queues grow.                        *)
LEMMA PlaceChanges ==
    ASSUME WorkerType, NEW k \in MsgIds, msgs[k].at # "none", NEW p \in Places \ {"none"},
           msgs' = [msgs EXCEPT ![k].at = p]
    PROVE  /\ msgs' \in [MsgIds -> Msg] /\ msgs'[k].at = p
           /\ msgs'[k].sub = msgs[k].sub /\ msgs'[k].rev = msgs[k].rev /\ msgs'[k].attempt = msgs[k].attempt
           /\ \A m \in MsgIds \ {k} : msgs'[m] = msgs[m]
           /\ resultQueue \subseteq resultQueue' /\ (p \in {"task", "retry", "worker"} \/ k \in Malformed) => Grows
<1>1. PICK x : x = [msgs[k] EXCEPT !.at = p]
  OBVIOUS
<1>2. /\ x \in Msg /\ x.at = p
      /\ x.sub = msgs[k].sub /\ x.rev = msgs[k].rev /\ x.attempt = msgs[k].attempt
  BY <1>1 DEF WorkerType, Msg
<1>3. msgs' = [msgs EXCEPT ![k] = x]
  BY <1>1 DEF WorkerType
<1>4. /\ msgs' \in [MsgIds -> Msg] /\ msgs'[k] = x
      /\ \A m \in MsgIds \ {k} : msgs'[m] = msgs[m]
  BY <1>2, <1>3 DEF WorkerType
<1>5. ASSUME resultQueue \subseteq resultQueue', p \in {"task", "retry", "worker"} \/ k \in Malformed PROVE Grows
  BY <1>2, <1>4, <1>5 DEF Grows, Live, Queued
<1> QED
  BY <1>2, <1>4, <1>5

(* The message a slot holds is queued and well formed. *)
LEMMA HeldMessage ==
    ASSUME WorkerInv, NEW w \in Slots, Busy(w)
    PROVE  /\ slots[w] \in Slot /\ slots[w].msg \in MsgIds \ Malformed /\ msgs[slots[w].msg].at = "worker"
           /\ msgs[slots[w].msg] \in Msg
  BY DEF WorkerInv, WorkerType, SlotsHold

(* A retry message is the task again, with one attempt more. *)
LEMMA RetryRecord ==
    ASSUME NEW t \in Msg
    PROVE  LET x == [t EXCEPT !.at = "retry", !.attempt = @ + 1]
           IN  /\ x \in Msg /\ x.at = "retry"
               /\ x.sub = t.sub /\ x.rev = t.rev /\ x.attempt > t.attempt
<1>1. t.attempt \in Nat
  BY DEF Msg
<1>2. t.attempt + 1 \in Nat /\ t.attempt + 1 > t.attempt
  BY <1>1
<1> QED
  BY <1>2 DEF Msg, Places

(* Giving the message of a slot back to its queue lets the queues grow, and *)
(* so does publishing a retry of it besides.                                *)
LEMMA RequeuedGrows ==
    ASSUME WorkerInv, NEW w \in Slots, Busy(w), resultQueue \subseteq resultQueue',
           msgs' = Requeued(w) \/ RetryPublished(w, Requeued(w))
    PROVE  /\ Grows /\ msgs' \in [MsgIds -> Msg]
           /\ \A m \in MsgIds \ {slots[w].msg} : msgs[m].at = "worker" => msgs'[m].at = "worker"
<1>0. PICK k : k = slots[w].msg
  OBVIOUS
<1>1. k \in MsgIds \ Malformed /\ msgs[k].at = "worker" /\ msgs[k] \in Msg /\ WorkerType
  BY <1>0, HeldMessage DEF WorkerInv
<1>2. CASE msgs' = Requeued(w)
  <2>1. msgs' = [msgs EXCEPT ![k].at = "task"]
    BY <1>0, <1>2 DEF Requeued
  <2>2. /\ msgs' \in [MsgIds -> Msg] /\ Grows
        /\ \A m \in MsgIds \ {k} : msgs'[m] = msgs[m]
    <3>1. "task" \in Places \ {"none"} /\ "task" \in {"task", "retry", "worker"} /\ msgs[k].at # "none"
      BY <1>1 DEF Places
    <3> QED
      BY <1>1, <2>1, <3>1, PlaceChanges
  <2> QED
    BY <1>0, <2>2
<1>3. CASE RetryPublished(w, Requeued(w))
  <2>1. PICK m \in RetryMsgs :
          FreeMsg(m, RetryMsgs) /\ msgs' = [Requeued(w) EXCEPT ![m] = [Task(w) EXCEPT !.at = "retry", !.attempt = @ + 1]]
    BY <1>3 DEF RetryPublished
  <2>2. PICK x : x = [Task(w) EXCEPT !.at = "retry", !.attempt = @ + 1]
    OBVIOUS
  <2>3. x \in Msg /\ x.at = "retry"
    BY <1>0, <1>1, <2>2, RetryRecord DEF Task
  <2>4. PICK y : y = [msgs[k] EXCEPT !.at = "task"]
    OBVIOUS
  <2>5. /\ y \in Msg /\ y.at = "task"
        /\ y.sub = msgs[k].sub /\ y.rev = msgs[k].rev /\ y.attempt = msgs[k].attempt
    BY <1>1, <2>4 DEF Msg, Places
  <2>6. m \in MsgIds /\ m \notin Malformed /\ msgs[m].at = "none" /\ m # k
    BY <1>1, <2>1, WorkerMsgs DEF FreeMsg, MsgIds
  <2>7. msgs' = [msgs EXCEPT ![k] = y, ![m] = x]
    BY <1>0, <1>1, <2>1, <2>2, <2>4 DEF Requeued, WorkerType
  <2>8. /\ msgs' \in [MsgIds -> Msg] /\ msgs'[k] = y /\ msgs'[m] = x
        /\ \A n \in MsgIds \ {k, m} : msgs'[n] = msgs[n]
    BY <1>1, <2>3, <2>5, <2>6, <2>7 DEF WorkerType
  <2>9. Grows
    BY <1>1, <2>3, <2>5, <2>6, <2>8 DEF Grows, Live, Queued
  <2> QED
    BY <1>0, <2>6, <2>8, <2>9
<1> QED
  BY <1>2, <1>3

(* Publishing a retry lets the queues grow and covers the message the slot  *)
(* holds.                                                                   *)
LEMMA RetryCovers ==
    ASSUME WorkerInv, NEW w \in Slots, Busy(w), resultQueue' = resultQueue, RetryPublished(w, msgs),
           NEW k, k = slots[w].msg
    PROVE  /\ Grows /\ msgs' \in [MsgIds -> Msg] /\ Covered(k)'
           /\ \A m \in MsgIds : msgs[m].at = "worker" => msgs'[m].at = "worker"
<1>1. k \in MsgIds \ Malformed /\ msgs[k].at = "worker" /\ msgs[k] \in Msg /\ WorkerType
  BY HeldMessage DEF WorkerInv
<1>2. PICK m \in RetryMsgs :
        FreeMsg(m, RetryMsgs) /\ msgs' = [msgs EXCEPT ![m] = [Task(w) EXCEPT !.at = "retry", !.attempt = @ + 1]]
  BY DEF RetryPublished
<1>3. PICK x : x = [Task(w) EXCEPT !.at = "retry", !.attempt = @ + 1]
  OBVIOUS
<1>4. /\ x \in Msg /\ x.at = "retry"
      /\ x.sub = msgs[k].sub /\ x.rev = msgs[k].rev /\ x.attempt > msgs[k].attempt
  BY <1>1, <1>3, RetryRecord DEF Task
<1>5. m \in MsgIds /\ m \notin Malformed /\ msgs[m].at = "none" /\ m # k
  BY <1>1, <1>2, WorkerMsgs DEF FreeMsg, MsgIds
<1>6. /\ msgs' \in [MsgIds -> Msg] /\ msgs'[m] = x
      /\ \A n \in MsgIds \ {m} : msgs'[n] = msgs[n]
  BY <1>1, <1>2, <1>3, <1>4, <1>5 DEF WorkerType
<1>7. Grows
  BY <1>1, <1>4, <1>5, <1>6 DEF Grows, Live, Queued
<1>8. msgs'[k] = msgs[k]
  BY <1>1, <1>5, <1>6
<1>9. CoveredBy(m, k)'
  BY <1>4, <1>5, <1>6, <1>8 DEF CoveredBy, Live, Queued, SameTask
<1> QED
  BY <1>5, <1>6, <1>7, <1>9 DEF Covered

-----------------------------------------------------------------------------
(* Deciding what to do with a delivery keeps the invariant. *)
LEMMA DecisionsKeep ==
    ASSUME WorkerInv, NEW w \in Slots, Expired(w) \/ \E outcome \in Outcomes : Execute(w, outcome)
    PROVE  WorkerInv'
<1>1. Busy(w) /\ UNCHANGED <<msgs, resultQueue>>
  BY DEF Expired, Execute, Busy
<1>2. slots[w] \in Slot /\ slots \in [Slots -> Slot] /\ msgs' \in [MsgIds -> Msg]
  BY <1>1, HeldMessage DEF WorkerInv, WorkerType
<1>3. Grows
  BY <1>1 DEF Grows, Live, Queued
<1>4. ASSUME NEW pc \in {"report", "retry"}, NEW o \in Outcomes \cup FinalOutcomes,
             slots' = [slots EXCEPT ![w] = [slots[w] EXCEPT !.pc = pc, !.outcome = o]]
      PROVE  WorkerInv'
  <2>1. PICK r : r = [slots[w] EXCEPT !.pc = pc, !.outcome = o]
    OBVIOUS
  <2>2. r \in Slot /\ r.pc = pc /\ r.msg = slots[w].msg
    BY <1>2, <2>1 DEF Slot
  <2>3. slots' = [slots EXCEPT ![w] = r]
    BY <1>4, <2>1
  <2> QED
    BY <1>1, <1>2, <1>3, <2>2, <2>3, SlotMoves
<1>5. CASE Expired(w)
  <2>1. FailedOutcome(FALSE) \in Outcomes
    BY DEF FailedOutcome, Outcomes
  <2>2. slots' = [slots EXCEPT ![w] = [slots[w] EXCEPT !.pc = "report", !.outcome = FailedOutcome(FALSE)]]
    BY <1>5 DEF Expired
  <2> QED
    BY <1>4, <2>1, <2>2
<1>6. ASSUME NEW outcome \in Outcomes, Execute(w, outcome) PROVE WorkerInv'
  <2>1. PICK final : final = [outcome EXCEPT !.retryable = FALSE]
    OBVIOUS
  <2>2. final \in FinalOutcomes
    BY <2>1 DEF FinalOutcomes
  <2>3. \/ slots' = [slots EXCEPT ![w] = [slots[w] EXCEPT !.pc = "retry", !.outcome = outcome]]
        \/ slots' = [slots EXCEPT ![w] = [slots[w] EXCEPT !.pc = "report", !.outcome = final]]
    BY <1>6, <2>1 DEF Execute
  <2> QED
    BY <1>4, <2>2, <2>3
<1> QED
  BY <1>5, <1>6

(* Reporting, successfully or not, and losing the worker keep the           *)
(* invariant: before the acknowledgement the result or the retry is with    *)
(* the broker, and otherwise the task itself goes back to its queue.        *)
LEMMA ReportsKeep ==
    ASSUME WorkerInv, NEW w \in Slots,
           ReportResult(w) \/ ReportRefused(w) \/ ReportRetry(w) \/ ReportFails(w) \/ WorkerLost(w)
    PROVE  WorkerInv'
<1>1. Busy(w)
  BY DEF ReportResult, ReportRefused, ReportRetry, ReportFails, WorkerLost, Busy
<1>2. PICK k : k = slots[w].msg
  OBVIOUS
<1>3. slots[w] \in Slot /\ k \in MsgIds /\ msgs[k].at = "worker" /\ slots \in [Slots -> Slot] /\ msgs \in [MsgIds -> Msg]
  BY <1>1, <1>2, HeldMessage DEF WorkerInv, WorkerType
<1>4. ASSUME Grows, msgs' \in [MsgIds -> Msg], slots' = [slots EXCEPT ![w].pc = "ack"], Covered(k)',
             \A m \in MsgIds : msgs[m].at = "worker" => msgs'[m].at = "worker"
      PROVE  WorkerInv'
  <2>1. PICK r : r = [slots[w] EXCEPT !.pc = "ack"]
    OBVIOUS
  <2>2. r \in Slot /\ r.pc = "ack" /\ r.msg = k
    BY <1>2, <1>3, <2>1 DEF Slot
  <2>3. slots' = [slots EXCEPT ![w] = r]
    BY <1>4, <2>1
  <2> QED
    BY <1>1, <1>2, <1>4, <2>2, <2>3, SlotMoves
<1>5. CASE ReportResult(w)
  <2>1. UNCHANGED msgs /\ resultQueue \subseteq resultQueue' /\ slots' = [slots EXCEPT ![w].pc = "ack"]
    BY <1>5 DEF ReportResult, ResultPublished
  <2>2. Grows
    BY <2>1 DEF Grows, Live, Queued
  <2>3. Covered(k)'
    <3>1. PICK e : e = [id |-> reported + 1, sub |-> Task(w).sub, rev |-> Task(w).rev,
                        type |-> slots[w].outcome.type, verdict |-> slots[w].outcome.verdict,
                        retryable |-> slots[w].outcome.retryable]
      OBVIOUS
    <3>2. e.sub = msgs[k].sub /\ e.rev = msgs[k].rev
      BY <1>2, <3>1 DEF Task
    <3>3. e \in resultQueue'
      BY <1>5, <3>1 DEF ReportResult, ResultPublished
    <3> QED
      BY <2>1, <3>2, <3>3 DEF Covered, Answered, SameTask
  <2> QED
    BY <1>3, <1>4, <2>1, <2>2, <2>3
<1>6. CASE ReportRetry(w)
  <2>1. resultQueue' = resultQueue /\ RetryPublished(w, msgs) /\ slots' = [slots EXCEPT ![w].pc = "ack"]
    BY <1>6 DEF ReportRetry
  <2> QED
    BY <1>1, <1>2, <1>4, <2>1, RetryCovers
<1>7. CASE ReportRefused(w) \/ ReportFails(w) \/ WorkerLost(w)
  <2>1. resultQueue \subseteq resultQueue' /\ slots' = [slots EXCEPT ![w] = IdleSlot]
    BY <1>7 DEF ReportRefused, ReportFails, WorkerLost, ResultPublished
  <2>2. msgs' = Requeued(w) \/ RetryPublished(w, Requeued(w))
    BY <1>7 DEF ReportRefused, ReportFails, WorkerLost
  <2> QED
    BY <1>1, <2>1, <2>2, RequeuedGrows, SlotFrees
<1> QED
  BY <1>5, <1>6, <1>7

(* The acknowledgement keeps the invariant: what it takes out of the queues *)
(* is answered, or a copy with a later attempt stays, and that copy serves  *)
(* whoever relied on the acknowledged one.                                  *)
LEMMA AckKeeps == ASSUME WorkerInv, NEW w \in Slots, Ack(w) PROVE WorkerInv'
<1>1. Busy(w) /\ slots[w].pc = "ack" /\ resultQueue' = resultQueue /\ slots' = [slots EXCEPT ![w] = IdleSlot]
  BY DEF Ack, Busy
<1>2. PICK k : k = slots[w].msg
  OBVIOUS
<1>3. k \in MsgIds \ Malformed /\ msgs[k].at = "worker" /\ Covered(k)
  BY <1>1, <1>2, HeldMessage DEF WorkerInv, AckIsCovered
<1>4. IdleSlot \in Slot /\ IdleSlot.pc = "idle"
  BY DEF IdleSlot, Slot
<1>5. /\ msgs' \in [MsgIds -> Msg] /\ msgs'[k].at = "acked"
      /\ msgs'[k].sub = msgs[k].sub /\ msgs'[k].rev = msgs[k].rev /\ msgs'[k].attempt = msgs[k].attempt
      /\ \A m \in MsgIds \ {k} : msgs'[m] = msgs[m]
  <2>1. msgs' = [msgs EXCEPT ![k].at = "acked"] /\ "acked" \in Places \ {"none"} /\ WorkerType
    BY <1>2 DEF Ack, Places, WorkerInv
  <2> QED
    BY <1>3, <2>1, PlaceChanges
<1>6. \A m \in MsgIds : /\ msgs'[m].sub = msgs[m].sub /\ msgs'[m].rev = msgs[m].rev
                        /\ msgs'[m].attempt = msgs[m].attempt
                        /\ msgs[m].at = "none" => msgs'[m].at = "none"
  BY <1>3, <1>5
<1>7. WorkerType' /\ slots'[w] = IdleSlot /\ \A v \in Slots \ {w} : slots'[v] = slots[v]
  BY <1>1, <1>4, <1>5 DEF WorkerInv, WorkerType
<1>8. SlotsHold'
  BY <1>1, <1>2, <1>4, <1>5, <1>7 DEF WorkerInv, SlotsHold, Busy
<1>9. ASSUME NEW m \in MsgIds, Answered(m) PROVE Answered(m)'
  BY <1>1, <1>6, <1>9 DEF Answered, SameTask
<1>10. ASSUME NEW n \in MsgIds, NEW m \in MsgIds, Live(n), SameTask(n, msgs[m]), ~Answered(m)
       PROVE  \E x \in MsgIds : Live(x)' /\ SameTask(x, msgs[m])' /\ msgs[x].attempt >= msgs[n].attempt
  <2>0. msgs \in [MsgIds -> Msg] /\ msgs[n].attempt \in Nat
    BY DEF WorkerInv, WorkerType, Msg
  <2>1. CASE n # k
    <3>1. Live(n)' /\ SameTask(n, msgs[m])'
      BY <1>5, <1>6, <1>10, <2>1 DEF Live, Queued, SameTask
    <3> QED
      BY <2>0, <3>1
  <2>2. CASE n = k
    <3>1. ~Answered(k)
      BY <1>10, <2>2 DEF Answered, SameTask
    <3>2. PICK x \in MsgIds : CoveredBy(x, k)
      BY <1>3, <3>1 DEF Covered
    <3>3. x # k /\ msgs[x].attempt > msgs[k].attempt /\ msgs[x].attempt \in Nat
      BY <1>3, <2>0, <3>2 DEF CoveredBy, Msg
    <3>4. Live(x)'
      BY <1>5, <3>2, <3>3 DEF CoveredBy, Live, Queued
    <3>5. SameTask(x, msgs[m])'
      BY <1>6, <1>10, <2>2, <3>2 DEF CoveredBy, SameTask
    <3> QED
      BY <2>0, <2>2, <3>3, <3>4, <3>5
  <2> QED
    BY <2>1, <2>2
<1>11. AckIsCovered'
  <2>1. ASSUME NEW v \in Slots \ {w}, slots[v].pc = "ack", NEW m \in MsgIds, Covered(m) PROVE Covered(m)'
    <3>1. CASE Answered(m)
      BY <1>9, <3>1 DEF Covered
    <3>2. CASE ~Answered(m)
      <4>1. PICK n \in MsgIds : CoveredBy(n, m)
        BY <2>1, <3>2 DEF Covered
      <4>2. PICK x \in MsgIds : Live(x)' /\ SameTask(x, msgs[m])' /\ msgs[x].attempt >= msgs[n].attempt
        BY <1>10, <3>2, <4>1 DEF CoveredBy
      <4>3. msgs[x].attempt > msgs[m].attempt
        BY <4>1, <4>2 DEF CoveredBy, WorkerInv, WorkerType, Msg
      <4> QED
        BY <1>6, <4>2, <4>3 DEF Covered, CoveredBy
    <3> QED
      BY <3>1, <3>2
  <2>2. ASSUME NEW v \in Slots, slots'[v].pc = "ack" PROVE Covered(slots[v].msg)' /\ slots'[v] = slots[v]
    <3>1. v # w /\ slots[v].pc = "ack" /\ slots'[v] = slots[v] /\ slots[v].msg \in MsgIds /\ Covered(slots[v].msg)
      BY <1>4, <1>7, <2>2 DEF WorkerInv, SlotsHold, Busy, AckIsCovered
    <3>2. PICK m \in MsgIds : m = slots[v].msg
      BY <3>1
    <3>3. Covered(m)'
      BY <2>1, <3>1, <3>2
    <3> QED
      BY <3>1, <3>2, <3>3
  <2> QED
    BY <2>2 DEF AckIsCovered
<1>12. TasksKept'
  BY <1>6, <1>9, <1>10 DEF WorkerInv, TasksKept
<1> QED
  BY <1>7, <1>8, <1>11, <1>12 DEF WorkerInv

(* What the broker does, and the clock, keep the invariant. *)
LEMMA BrokerKeeps ==
    ASSUME WorkerInv,
           \/ \E w \in Slots : Receive(w)
           \/ \E m \in MsgIds : RetryDelayOver(m)
           \/ \E s \in SubIds : TimePasses(s)
           \/ \E m \in MsgIds, s \in SubIds, rev \in Revisions : Enqueue(m, s, rev)
           \/ UNCHANGED workerVars
    PROVE  WorkerInv'
<1>1. resultQueue' = resultQueue
  BY DEF Receive, Deliver, RejectMalformed, RetryDelayOver, TimePasses, Enqueue, workerVars
<1>2. WorkerType
  BY DEF WorkerInv
<1>3. ASSUME NEW k \in MsgIds, NEW p \in Places \ {"none"}, msgs[k].at \in {"task", "retry"},
             msgs' = [msgs EXCEPT ![k].at = p], p \in {"task", "retry", "worker"} \/ k \in Malformed
      PROVE  /\ Grows /\ msgs' \in [MsgIds -> Msg] /\ msgs'[k].at = p
             /\ \A m \in MsgIds \ {k} : msgs'[m] = msgs[m]
  BY <1>1, <1>2, <1>3, PlaceChanges
<1>4. ASSUME NEW w \in Slots, NEW m \in MsgIds, Deliver(w, m) PROVE WorkerInv'
  <2>1. /\ slots[w].pc = "idle" /\ msgs[m].at = "task" /\ m \notin Malformed
        /\ msgs' = [msgs EXCEPT ![m].at = "worker"] /\ "worker" \in Places \ {"none"}
    BY <1>4 DEF Deliver, Places
  <2>2. /\ Grows /\ msgs' \in [MsgIds -> Msg] /\ msgs'[m].at = "worker"
        /\ \A n \in MsgIds \ {m} : msgs'[n] = msgs[n]
    BY <1>3, <2>1
  <2>3. PICK r : r = [IdleSlot EXCEPT !.pc = "received", !.msg = m]
    OBVIOUS
  <2>4. r \in Slot /\ r.pc = "received" /\ r.msg = m
    BY <2>3 DEF IdleSlot, Slot
  <2>5. slots' = [slots EXCEPT ![w] = r]
    BY <1>4, <2>3 DEF Deliver
  <2>6. WorkerType' /\ slots'[w] = r /\ \A v \in Slots \ {w} : slots'[v] = slots[v]
    BY <1>2, <2>2, <2>4, <2>5 DEF WorkerType
  <2>7. SlotsHold'
    BY <2>1, <2>2, <2>4, <2>6 DEF WorkerInv, SlotsHold, Busy
  <2>8. AckIsCovered'
    <3>1. ASSUME NEW v \in Slots, slots'[v].pc = "ack" PROVE slots'[v] = slots[v] /\ Covered(slots[v].msg)'
      <4>1. slots'[v] = slots[v] /\ slots[v].pc = "ack" /\ slots[v].msg \in MsgIds /\ msgs[slots[v].msg].at = "worker"
        BY <2>4, <2>6, <3>1 DEF WorkerInv, SlotsHold, Busy
      <4>2. PICK k \in MsgIds : k = slots[v].msg
        BY <4>1
      <4>3. Covered(k)'
        BY <2>2, <4>1, <4>2, GrowingKeeps DEF WorkerInv, AckIsCovered
      <4> QED
        BY <4>1, <4>2, <4>3
    <3> QED
      BY <3>1 DEF AckIsCovered
  <2> QED
    BY <2>2, <2>6, <2>7, <2>8, GrowingKeeps DEF WorkerInv
<1>5. ASSUME NEW w \in Slots, NEW m \in MsgIds, RejectMalformed(w, m) PROVE WorkerInv'
  <2>1. /\ msgs[m].at = "task" /\ m \in Malformed /\ slots' = slots
        /\ msgs' = [msgs EXCEPT ![m].at = "dlq"] /\ "dlq" \in Places \ {"none"}
    BY <1>5 DEF RejectMalformed, Places
  <2>2. Grows /\ msgs' \in [MsgIds -> Msg] /\ \A n \in MsgIds \ {m} : msgs'[n] = msgs[n]
    BY <1>3, <2>1
  <2> QED
    BY <2>1, <2>2, BrokerMoves
<1>6. ASSUME NEW m \in MsgIds, RetryDelayOver(m) PROVE WorkerInv'
  <2>1. /\ msgs[m].at = "retry" /\ slots' = slots
        /\ msgs' = [msgs EXCEPT ![m].at = "task"] /\ "task" \in Places \ {"none"}
    BY <1>6 DEF RetryDelayOver, Places
  <2>2. Grows /\ msgs' \in [MsgIds -> Msg] /\ \A n \in MsgIds \ {m} : msgs'[n] = msgs[n]
    BY <1>3, <2>1
  <2> QED
    BY <2>1, <2>2, BrokerMoves
<1>7. ASSUME NEW m \in MsgIds, NEW s \in SubIds, NEW rev \in Revisions, Enqueue(m, s, rev) PROVE WorkerInv'
  <2>1. PICK x : x = [at |-> "task", sub |-> s, rev |-> rev, attempt |-> 0]
    OBVIOUS
  <2>2. x \in Msg /\ x.at = "task"
    BY <2>1 DEF Msg, Places
  <2>3. msgs[m].at = "none" /\ msgs' = [msgs EXCEPT ![m] = x] /\ slots' = slots
    BY <1>7, <2>1 DEF Enqueue, FreeMsg
  <2>4. /\ msgs' \in [MsgIds -> Msg] /\ msgs'[m] = x
        /\ \A n \in MsgIds \ {m} : msgs'[n] = msgs[n]
    BY <1>2, <2>2, <2>3 DEF WorkerType
  <2>5. Grows
    BY <1>1, <2>2, <2>3, <2>4 DEF Grows, Live, Queued
  <2> QED
    BY <2>3, <2>4, <2>5, BrokerMoves
<1>8. ASSUME UNCHANGED <<msgs, slots>> PROVE WorkerInv'
  BY <1>1, <1>8 DEF WorkerInv, WorkerType, SlotsHold, Busy, AckIsCovered, Covered, CoveredBy, Answered,
     TasksKept, Live, Queued, SameTask
<1> QED
  BY <1>4, <1>5, <1>6, <1>7, <1>8 DEF Receive, TimePasses, workerVars

(* No task is lost: until a result of it was published a copy of every task *)
(* is queued or in a slot's hands, for any number of slots, messages,       *)
(* crashes, lost acknowledgements and failed publishes.                     *)
THEOREM TasksAreNeverLost == WorkerSpec => []NoTaskLost
<1>1. WorkerInit => WorkerInv
  <2> SUFFICES ASSUME WorkerInit PROVE WorkerInv
    OBVIOUS
  <2>1. NoTask \in Msg /\ NoTask.at = "none" /\ IdleSlot \in Slot /\ IdleSlot.pc = "idle"
    BY DEF NoTask, Msg, Places, IdleSlot, Slot
  <2> QED
    BY <2>1 DEF WorkerInit, WorkerInv, WorkerType, SlotsHold, Busy, AckIsCovered, TasksKept
<1>2. WorkerInv /\ [WorkerNext]_workerVars => WorkerInv'
  BY DecisionsKeep, ReportsKeep, AckKeeps, BrokerKeeps DEF WorkerNext, WorkerStep, Handle
<1>3. WorkerInv => NoTaskLost
  BY DEF WorkerInv, TasksKept, Answered, Live, NoTaskLost
<1> QED
  BY <1>1, <1>2, <1>3, PTL DEF WorkerSpec

-----------------------------------------------------------------------------
(***************************************************************************)
(* What an execution reports and what it leaves in the sandbox, for any    *)
(* number of tasks, code runs and testcases, and any program.              *)
(*                                                                         *)
(* A task's verdict is earned because the cases before the one being run   *)
(* are known to be accepted (Progress), and because a status the sandbox   *)
(* gives for a fault of its own is never read as the program's.  The cache *)
(* is clean because only a code run that holds the capacity is at work.    *)
(***************************************************************************)

Outcome == [type : {"none", "completed", "failed"}, verdict : Behaviours \cup {"", "CE"},
            retryable : BOOLEAN, cases : Nat]

JobRecord == [pc : {"waiting", "compile", "run", "cleanup", "done", "lost"}, next : Nat, outcome : Outcome]

(* Where a task is and what it reports fits what its program does. *)
Progress(p, r) ==
    r.pc \in {"waiting", "compile", "run"} =>
        r.next \in 1..CaseCount /\ \A k \in 1..(r.next - 1) : p.does[k] = "AC"

Earned(p, outcome, w) ==
    /\ outcome.verdict = "CE" => ~p.compiles
    /\ outcome.verdict = "AC" => outcome.cases = CaseCount /\ \A k \in 1..CaseCount : p.does[k] = "AC"
    /\ outcome.type = "completed" /\ outcome.verdict \notin {"CE", "AC"} =>
         FirstFailing(p.does, outcome.cases) /\ outcome.verdict = p.does[outcome.cases]
    /\ outcome.type # "completed" => outcome.retryable \/ w = "past" \/ p.stored = "damaged"

TaskFits(p, r, w) ==
    Progress(p, r) /\ (r.pc \in {"cleanup", "done"} => Earned(p, r.outcome, w))

EarnedInv ==
    /\ program \in [Jobs -> Programs(CaseCount) \cup Programs(1)]
    /\ \A t \in Tasks : program[t] \in Programs(CaseCount)
    /\ job \in [Jobs -> JobRecord]
    /\ window \in [Jobs -> {"open", "timeout", "past"}]
    /\ \A t \in Tasks : TaskFits(program[t], job[t], window[t])

(* A job at work on a code run holds the capacity; a file in the cache that *)
(* no fault left there belongs to a job that will still delete it; and an   *)
(* outcome that counts cases is completed.                                  *)
CacheInv ==
    /\ job \in [Jobs -> JobRecord]
    /\ capacity \in CodeRuns \cup {NoRun}
    /\ cached \subseteq Jobs
    /\ \A c \in CodeRuns : Running(c) => capacity = c
    /\ \A j \in Jobs : job[j].outcome.cases > 0 => job[j].outcome.type = "completed"
    /\ CacheIsCleaned

-----------------------------------------------------------------------------
(* mapRunStatus reads every status of the sandbox for what it is: the       *)
(* program's own behaviour up to the comparator's part, or nobody's.        *)
LEMMA StatusMeaning ==
    /\ \A b \in Behaviours : \A s \in StatusesOf(b) :
         mapRunStatus(s) = IF b = "WA" THEN "AC" ELSE b
    /\ \A s \in FaultStatuses : mapRunStatus(s) = ""
<1>1. ASSUME NEW b \in Behaviours, NEW s \in StatusesOf(b)
      PROVE  mapRunStatus(s) = IF b = "WA" THEN "AC" ELSE b
  <2>1. CASE b \in {"AC", "WA"}
    BY <1>1, <2>1 DEF StatusesOf, mapRunStatus
  <2>2. CASE b = "TLE"
    BY <1>1, <2>2 DEF StatusesOf, mapRunStatus
  <2>3. CASE b = "MLE"
    BY <1>1, <2>3 DEF StatusesOf, mapRunStatus
  <2>4. CASE b = "RE"
    BY <1>1, <2>4 DEF StatusesOf, mapRunStatus
  <2> QED
    BY <2>1, <2>2, <2>3, <2>4 DEF Behaviours
<1>2. ASSUME NEW s \in FaultStatuses PROVE mapRunStatus(s) = ""
  BY <1>2 DEF FaultStatuses, mapRunStatus
<1> QED
  BY <1>1, <1>2

(* The outcomes the worker makes are outcomes, and a failure is earned when *)
(* it is to be retried, or final for a reason of its own.                   *)
LEMMA OutcomesMade ==
    /\ NothingReported \in Outcome
    /\ \A b \in BOOLEAN : Failed(b) \in Outcome
    /\ \A v \in Behaviours \cup {"CE"}, n \in Nat : Completed(v, n) \in Outcome
    /\ \A p, w : Earned(p, Failed(TRUE), w)
    /\ \A p, w : w = "past" \/ p.stored = "damaged" => Earned(p, Failed(FALSE), w)
<1>1. /\ NothingReported \in Outcome
      /\ \A b \in BOOLEAN : Failed(b) \in Outcome
  BY DEF NothingReported, Failed, Outcome
<1>2. \A v \in Behaviours \cup {"CE"}, n \in Nat : Completed(v, n) \in Outcome
  BY DEF Completed, Outcome
<1>3. \A b : /\ Failed(b).verdict = "" /\ Failed(b).type = "failed" /\ Failed(b).retryable = b
  BY DEF Failed
<1>4. \A p, w : Earned(p, Failed(TRUE), w)
  BY <1>3 DEF Earned
<1>5. \A p, w : w = "past" \/ p.stored = "damaged" => Earned(p, Failed(FALSE), w)
  BY <1>3 DEF Earned
<1> QED
  BY <1>1, <1>2, <1>4, <1>5

(* A step that moves one job on keeps the invariant if the job's new record *)
(* fits its program.                                                        *)
LEMMA JobMoves ==
    ASSUME EarnedInv, NEW j \in Jobs, NEW r \in JobRecord,
           j \in Tasks => TaskFits(program[j], r, window[j]),
           job' = [job EXCEPT ![j] = r], UNCHANGED <<program, window>>
    PROVE  EarnedInv'
<1>1. job' \in [Jobs -> JobRecord]
  BY DEF EarnedInv
<1>2. \A t \in Tasks : TaskFits(program[t], job'[t], window[t])
  BY DEF EarnedInv, Jobs
<1> QED
  BY <1>1, <1>2 DEF EarnedInv

(* A job that settles its outcome keeps the invariant if a task's outcome   *)
(* is earned.                                                               *)
LEMMA JobSettles ==
    ASSUME EarnedInv, NEW j \in Jobs, NEW o \in Outcome, NEW pc \in {"cleanup", "done"},
           j \in Tasks => Earned(program[j], o, window[j]),
           Settle(j, o, pc), UNCHANGED <<program, window>>
    PROVE  EarnedInv'
<1>1. PICK r : r = [job[j] EXCEPT !.outcome = o, !.pc = pc]
  OBVIOUS
<1>2. job[j] \in JobRecord
  BY DEF EarnedInv
<1>3. r \in JobRecord /\ r.pc = pc /\ r.outcome = o
  BY <1>1, <1>2 DEF JobRecord
<1>4. job' = [job EXCEPT ![j] = r]
  BY <1>1 DEF Settle
<1>5. j \in Tasks => TaskFits(program[j], r, window[j])
  BY <1>3 DEF TaskFits, Progress
<1> QED
  BY <1>3, <1>4, <1>5, JobMoves

(* A job that goes on to compile or to run keeps the invariant. *)
LEMMA JobGoesOn ==
    ASSUME EarnedInv, NEW j \in Jobs, NEW pc \in {"compile", "run"},
           job[j].pc \in {"waiting", "compile"}, Goto(j, pc), UNCHANGED <<program, window>>
    PROVE  EarnedInv'
<1>1. PICK r : r = [job[j] EXCEPT !.pc = pc]
  OBVIOUS
<1>2. job[j] \in JobRecord /\ (j \in Tasks => TaskFits(program[j], job[j], window[j]))
  BY DEF EarnedInv
<1>3. r \in JobRecord /\ r.pc = pc /\ r.next = job[j].next
  BY <1>1, <1>2 DEF JobRecord
<1>4. job' = [job EXCEPT ![j] = r]
  BY <1>1 DEF Goto
<1>5. j \in Tasks => TaskFits(program[j], r, window[j])
  BY <1>2, <1>3 DEF TaskFits, Progress
<1> QED
  BY <1>3, <1>4, <1>5, JobMoves

-----------------------------------------------------------------------------
(* A task's case is judged by what its program does on it: whatever status  *)
(* of the sandbox counts, the verdict is the program's behaviour.           *)
LEMMA CaseIsJudged ==
    ASSUME EarnedInv, NEW t \in Tasks, At(t, "run"),
           NEW status \in RunStatuses(t), mapRunStatus(status) # ""
    PROVE  /\ program[t].does[job[t].next] \in Behaviours
           /\ Judged(t, mapRunStatus(status)) = program[t].does[job[t].next]
<1> DEFINE b == program[t].does[job[t].next]
<1>1. b \in Behaviours
  BY DEF EarnedInv, TaskFits, Progress, At, Programs
<1>2. status \in StatusesOf(b)
  BY StatusMeaning DEF RunStatuses
<1>3. mapRunStatus(status) = IF b = "WA" THEN "AC" ELSE b
  BY <1>1, <1>2, StatusMeaning
<1> QED
  BY <1>1, <1>3 DEF Judged

(* Running a case keeps the invariant. *)
LEMMA RunKeeps == ASSUME EarnedInv, NEW j \in Jobs, Run(j) PROVE EarnedInv'
<1> USE OutcomesMade
<1>1. UNCHANGED <<program, window>> /\ At(j, "run") /\ job[j] \in JobRecord
  BY DEF Run, EarnedInv
<1>2. CASE window[j] = "past" /\ Settle(j, Failed(FALSE), "cleanup")
  BY <1>1, <1>2, JobSettles
<1>3. CASE Settle(j, Failed(TRUE), "cleanup")
  BY <1>1, <1>3, JobSettles
<1>4. ASSUME NEW status \in RunStatuses(j), mapRunStatus(status) # "",
             CaseDone(j, Judged(j, mapRunStatus(status)))
      PROVE  EarnedInv'
  <2>1. PICK v : v = Judged(j, mapRunStatus(status))
    OBVIOUS
  <2>2. v \in Behaviours
    BY <1>4, <2>1 DEF mapRunStatus, Judged, Behaviours
  <2>3. PICK n : n = job[j].next
    OBVIOUS
  <2>4. n \in Nat /\ Completed(v, n) \in Outcome
    BY <1>1, <2>2, <2>3 DEF JobRecord
  <2>5. ASSUME j \in Tasks
        PROVE  /\ v = program[j].does[n] /\ n \in 1..CaseCount
               /\ \A k \in 1..(n - 1) : program[j].does[k] = "AC"
    BY <1>1, <1>4, <2>1, <2>3, <2>5, CaseIsJudged DEF EarnedInv, TaskFits, Progress, At
  <2>6. CASE v = "AC" /\ j \in Tasks /\ n < CaseCount
    <3>1. PICK r : r = [job[j] EXCEPT !.next = n + 1]
      OBVIOUS
    <3>2. r \in JobRecord /\ r.pc = "run" /\ r.next = n + 1
      BY <1>1, <2>4, <3>1 DEF JobRecord, At
    <3>3. job' = [job EXCEPT ![j] = r]
      BY <1>4, <2>1, <2>3, <2>6, <3>1 DEF CaseDone
    <3>4. n + 1 \in 1..CaseCount /\ \A k \in 1..n : program[j].does[k] = "AC"
      BY <2>4, <2>5, <2>6, ExecutionBounds
    <3>5. (n + 1) - 1 = n
      BY <2>4
    <3>6. TaskFits(program[j], r, window[j])
      BY <3>2, <3>4, <3>5 DEF TaskFits, Progress
    <3> QED
      BY <1>1, <3>2, <3>3, <3>6, JobMoves
  <2>7. CASE ~(v = "AC" /\ j \in Tasks /\ n < CaseCount)
    <3>1. Settle(j, Completed(v, n), "cleanup")
      BY <1>4, <2>1, <2>3, <2>7 DEF CaseDone
    <3>2. Completed(v, n).verdict = v /\ Completed(v, n).cases = n /\ Completed(v, n).type = "completed"
      BY DEF Completed
    <3>3. ASSUME j \in Tasks PROVE Earned(program[j], Completed(v, n), window[j])
      <4>1. v # "CE"
        BY <2>2 DEF Behaviours
      <4>2. CASE v = "AC"
        <5>1. n = CaseCount /\ \A k \in 1..CaseCount : program[j].does[k] = "AC"
          BY <2>4, <2>5, <2>7, <3>3, <4>2, ExecutionBounds
        <5> QED
          BY <3>2, <4>1, <4>2, <5>1 DEF Earned
      <4>3. CASE v # "AC"
        <5>1. FirstFailing(program[j].does, n) /\ v = program[j].does[n]
          BY <2>5, <3>3, <4>3 DEF FirstFailing
        <5> QED
          BY <3>2, <4>1, <4>3, <5>1 DEF Earned
      <4> QED
        BY <4>2, <4>3
    <3> QED
      BY <1>1, <2>4, <3>1, <3>3, JobSettles
  <2> QED
    BY <2>6, <2>7
<1> QED
  BY <1>2, <1>3, <1>4 DEF Run

(* Loading and compiling keep the invariant. *)
LEMMA CompileKeeps ==
    ASSUME EarnedInv, NEW j \in Jobs, Load(j) \/ TakeCapacity(j) \/ Compile(j) PROVE EarnedInv'
<1> USE OutcomesMade
<1>1. UNCHANGED <<program, window>> /\ job[j].pc \in {"waiting", "compile"}
  BY DEF Load, TakeCapacity, Compile, At
<1>2. ASSUME Goto(j, "compile") \/ Goto(j, "run") PROVE EarnedInv'
  BY <1>1, <1>2, JobGoesOn
<1>3. ASSUME Settle(j, Failed(TRUE), "done") PROVE EarnedInv'
  BY <1>1, <1>3, JobSettles
<1>4. CASE Load(j)
  <2>1. CASE window[j] = "past" /\ Settle(j, Failed(FALSE), "done")
    BY <1>1, <2>1, JobSettles
  <2>2. CASE ~Loadable(j) /\ Settle(j, Failed(FALSE), "done")
    <3>1. j \in Tasks /\ program[j].stored = "damaged"
      BY <1>4, <2>2 DEF Load, Loadable, EarnedInv, Programs
    <3> QED
      BY <1>1, <2>2, <3>1, JobSettles
  <2> QED
    BY <1>2, <1>3, <1>4, <2>1, <2>2 DEF Load
<1>5. CASE TakeCapacity(j)
  BY <1>2, <1>3, <1>5 DEF TakeCapacity
<1>6. CASE Compile(j)
  <2>1. ASSUME "NonZeroExit" \in CompileStatuses(j), Return(j, Completed("CE", 0)) PROVE EarnedInv'
    <3>1. ~program[j].compiles
      BY <2>1 DEF CompileStatuses, Limited, FaultStatuses
    <3>2. Completed("CE", 0).verdict = "CE" /\ Completed("CE", 0).type = "completed"
      BY DEF Completed
    <3>3. Earned(program[j], Completed("CE", 0), window[j])
      BY <3>1, <3>2 DEF Earned
    <3> QED
      BY <1>1, <2>1, <3>3, JobSettles DEF Return
  <2>2. ASSUME Return(j, Failed(TRUE)) PROVE EarnedInv'
    BY <1>3, <2>2 DEF Return
  <2>3. \/ Goto(j, "run")
        \/ "NonZeroExit" \in CompileStatuses(j) /\ Return(j, Completed("CE", 0))
        \/ Return(j, Failed(TRUE))
    BY <1>6 DEF Compile
  <2> QED
    BY <1>2, <2>1, <2>2, <2>3
<1> QED
  BY <1>4, <1>5, <1>6

(* Deleting the file keeps the invariant: the outcome stays, or a completed *)
(* task becomes a failure to be retried.                                    *)
LEMMA CleanupKeeps == ASSUME EarnedInv, NEW j \in Jobs, DeleteArtifact(j) PROVE EarnedInv'
<1> USE OutcomesMade
<1>1. UNCHANGED <<program, window>> /\ job[j].pc = "cleanup" /\ job[j].outcome \in Outcome
  BY DEF DeleteArtifact, At, EarnedInv, JobRecord
<1>2. j \in Tasks => Earned(program[j], job[j].outcome, window[j])
  BY <1>1 DEF EarnedInv, TaskFits
<1>3. Settle(j, job[j].outcome, "done") \/ Settle(j, Failed(TRUE), "done")
  BY DEF DeleteArtifact, Cleaned, Return
<1> QED
  BY <1>1, <1>2, <1>3, JobSettles

(* Time, the sandbox's restart and the worker's death keep the invariant:   *)
(* a final failure stays final, and a lost job has no outcome to defend.    *)
LEMMA FaultsKeep ==
    ASSUME EarnedInv, (\E j \in Jobs : WindowElapses(j)) \/ SandboxRestarts \/ WorkerDies
    PROVE  EarnedInv'
<1>1. ASSUME NEW j \in Jobs, WindowElapses(j) PROVE EarnedInv'
  <2>1. UNCHANGED <<program, job>> /\ window' \in [Jobs -> {"open", "timeout", "past"}]
    BY <1>1 DEF WindowElapses, EarnedInv
  <2>2. ASSUME NEW t \in Tasks PROVE window'[t] = window[t] \/ window[t] # "past"
    BY <1>1, <2>2 DEF WindowElapses, EarnedInv, Running, At, Jobs
  <2>3. ASSUME NEW t \in Tasks PROVE TaskFits(program[t], job[t], window'[t])
    BY <2>2, <2>3 DEF EarnedInv, TaskFits, Earned
  <2> QED
    BY <2>1, <2>3 DEF EarnedInv
<1>2. CASE SandboxRestarts
  BY <1>2 DEF SandboxRestarts, EarnedInv
<1>3. CASE WorkerDies
  <2>1. UNCHANGED <<program, window>>
    BY <1>3 DEF WorkerDies
  <2>2. ASSUME NEW j \in Jobs
        PROVE  job'[j] \in JobRecord /\ (job'[j] = job[j] \/ job'[j].pc = "lost")
    <3>1. PICK r : r = [job[j] EXCEPT !.pc = "lost", !.outcome = NothingReported]
      OBVIOUS
    <3>2. job[j] \in JobRecord
      BY DEF EarnedInv
    <3>3. r \in JobRecord /\ r.pc = "lost"
      BY <3>1, <3>2, OutcomesMade DEF JobRecord
    <3>4. job'[j] = IF Running(j) THEN r ELSE job[j]
      BY <1>3, <3>1 DEF WorkerDies
    <3> QED
      BY <3>2, <3>3, <3>4
  <2>3. job' \in [Jobs -> JobRecord]
    BY <1>3, <2>2 DEF WorkerDies
  <2>4. ASSUME NEW t \in Tasks PROVE TaskFits(program[t], job'[t], window[t])
    BY <2>2, <2>4 DEF EarnedInv, TaskFits, Progress, Jobs
  <2> QED
    BY <2>1, <2>3, <2>4 DEF EarnedInv
<1> QED
  BY <1>1, <1>2, <1>3

(* The outcome of every task is the program's own doing, for any number of  *)
(* tasks, testcases and faults of the sandbox, the store and the clock.     *)
THEOREM OutcomesAreEarned == ExecSpec => []OutcomeIsEarned
<1>1. ExecInit => EarnedInv
  <2> SUFFICES ASSUME ExecInit PROVE EarnedInv
    OBVIOUS
  <2>1. /\ program \in [Jobs -> Programs(CaseCount) \cup Programs(1)]
        /\ \A t \in Tasks : program[t] \in Programs(CaseCount)
    BY ExecutionBounds, ExecutionPrograms DEF ExecInit, Jobs
  <2>2. Waiting \in JobRecord /\ Waiting.pc = "waiting" /\ Waiting.next = 1
    BY OutcomesMade DEF Waiting, JobRecord
  <2>3. \A p, w : TaskFits(p, Waiting, w)
    BY <2>2, ExecutionBounds DEF TaskFits, Progress
  <2> QED
    BY <2>1, <2>2, <2>3 DEF ExecInit, EarnedInv, Jobs
<1>2. EarnedInv /\ [ExecNext]_execVars => EarnedInv'
  <2>1. EarnedInv /\ UNCHANGED execVars => EarnedInv'
    BY DEF EarnedInv, execVars
  <2> QED
    BY <2>1, CompileKeeps, RunKeeps, CleanupKeeps, FaultsKeep DEF ExecNext
<1>3. EarnedInv => OutcomeIsEarned
  BY DEF EarnedInv, TaskFits, Earned, OutcomeIsEarned, At
<1> QED
  BY <1>1, <1>2, <1>3, PTL DEF ExecSpec

-----------------------------------------------------------------------------
(* A step that moves one job on, touching only its own file and only the    *)
(* capacity it holds or takes, keeps the cache clean if the job leaves its  *)
(* file behind only by a fault.                                             *)
LEMMA CacheMoves ==
    ASSUME CacheInv, NEW j \in Jobs, NEW r \in JobRecord, job' = [job EXCEPT ![j] = r],
           r.outcome.cases > 0 => r.outcome.type = "completed",
           cached' \subseteq cached \cup {j}, strays \subseteq strays',
           capacity' \in CodeRuns \cup {NoRun},
           capacity' # capacity => capacity = j \/ (capacity = NoRun /\ capacity' = j),
           j \in CodeRuns /\ r.pc \in {"compile", "run", "cleanup"} => capacity' = j,
           j \in cached' \ strays' => r.pc \in {"run", "cleanup"},
           j \in Tasks /\ r.pc = "done" /\ r.outcome.cases > 0 => j \notin cached'
    PROVE  CacheInv'
<1>1. /\ job' \in [Jobs -> JobRecord] /\ job'[j] = r
      /\ \A i \in Jobs \ {j} : job'[i] = job[i]
  BY DEF CacheInv
<1>2. cached' \subseteq Jobs
  BY DEF CacheInv
<1>3. ASSUME NEW c \in CodeRuns, Running(c)' PROVE capacity' = c
  BY <1>1, <1>3, ExecutionBounds DEF CacheInv, Running, Jobs
<1>4. ASSUME NEW i \in Jobs, job'[i].outcome.cases > 0 PROVE job'[i].outcome.type = "completed"
  BY <1>1, <1>4 DEF CacheInv
<1>5. ASSUME NEW i \in cached' \ strays'
      PROVE  job'[i].pc \in {"run", "cleanup"} /\ (i \in CodeRuns => capacity' = i)
  <2>1. job'[i].pc \in {"run", "cleanup"}
    BY <1>1, <1>2, <1>5 DEF CacheInv, CacheIsCleaned
  <2> QED
    BY <1>3, <2>1 DEF Running
<1>6. ASSUME NEW t \in Tasks, At(t, "done")', job'[t].outcome.cases > 0 PROVE t \notin cached'
  BY <1>1, <1>6 DEF CacheInv, CacheIsCleaned, At, Jobs
<1> QED
  BY <1>1, <1>2, <1>3, <1>4, <1>5, <1>6 DEF CacheInv, CacheIsCleaned

(* Every step keeps the cache clean. *)
LEMMA CacheKept == CacheInv /\ [ExecNext]_execVars => CacheInv'
<1> USE OutcomesMade
<1> SUFFICES ASSUME CacheInv, [ExecNext]_execVars PROVE CacheInv'
  OBVIOUS
<1>0. /\ \A b : Failed(b).cases = 0 /\ Failed(b).type = "failed"
      /\ NothingReported.cases = 0
  BY DEF Failed, NothingReported
<1>1. ASSUME NEW j \in Jobs, NEW o \in Outcome, NEW pc \in {"cleanup", "done"}, Settle(j, o, pc)
      PROVE  \E r \in JobRecord : job' = [job EXCEPT ![j] = r] /\ r.pc = pc /\ r.outcome = o
  <2>1. PICK r : r = [job[j] EXCEPT !.outcome = o, !.pc = pc]
    OBVIOUS
  <2>2. r \in JobRecord /\ r.pc = pc /\ r.outcome = o
    BY <2>1 DEF CacheInv, JobRecord
  <2> QED
    BY <1>1, <2>1, <2>2 DEF Settle
<1>2. ASSUME NEW j \in Jobs, NEW pc \in {"compile", "run"}, Goto(j, pc)
      PROVE  \E r \in JobRecord : job' = [job EXCEPT ![j] = r] /\ r.pc = pc /\ r.outcome = job[j].outcome
  <2>1. PICK r : r = [job[j] EXCEPT !.pc = pc]
    OBVIOUS
  <2>2. r \in JobRecord /\ r.pc = pc /\ r.outcome = job[j].outcome
    BY <2>1 DEF CacheInv, JobRecord
  <2> QED
    BY <1>2, <2>1, <2>2 DEF Goto
<1>3. ASSUME NEW j \in Jobs PROVE /\ j \in cached \ strays => job[j].pc \in {"run", "cleanup"}
                                  /\ job[j].outcome.cases > 0 => job[j].outcome.type = "completed"
                                  /\ j \in CodeRuns /\ Running(j) => capacity = j
                                  /\ capacity \in CodeRuns \cup {NoRun}
                                  /\ job[j] \in JobRecord /\ job[j].outcome \in Outcome
  BY DEF CacheInv, CacheIsCleaned, JobRecord
<1>4. ASSUME NEW j \in Jobs, Load(j) PROVE CacheInv'
  <2>1. j \in Tasks /\ job[j].pc = "waiting" /\ UNCHANGED <<cached, strays, capacity>>
    BY <1>4 DEF Load, At
  <2>2. Goto(j, "compile") \/ \E b \in BOOLEAN : Settle(j, Failed(b), "done")
    BY <1>4 DEF Load
  <2>3. ASSUME NEW b \in BOOLEAN, Settle(j, Failed(b), "done") PROVE CacheInv'
    BY <1>0, <1>1, <1>3, <2>1, <2>3, CacheMoves, ExecutionBounds
  <2>4. CASE Goto(j, "compile")
    BY <1>2, <1>3, <2>1, <2>4, CacheMoves, ExecutionBounds
  <2> QED
    BY <2>2, <2>3, <2>4
<1>5. ASSUME NEW j \in Jobs, TakeCapacity(j) PROVE CacheInv'
  <2>1. j \in CodeRuns /\ job[j].pc = "waiting" /\ UNCHANGED <<cached, strays>>
    BY <1>5 DEF TakeCapacity, At
  <2>2. CASE capacity = NoRun /\ capacity' = j /\ Goto(j, "compile")
    BY <1>2, <1>3, <2>1, <2>2, CacheMoves, ExecutionBounds
  <2>3. ASSUME NEW b \in BOOLEAN, Settle(j, Failed(b), "done"), UNCHANGED capacity PROVE CacheInv'
    BY <1>0, <1>1, <1>3, <2>1, <2>3, CacheMoves
  <2>4. CASE Settle(j, Failed(TRUE), "done") /\ UNCHANGED capacity
    BY <2>3, <2>4
  <2> QED
    BY <1>5, <2>2, <2>4 DEF TakeCapacity
<1>6. ASSUME NEW j \in Jobs, NEW o \in Outcome, Return(j, o),
             o.cases > 0 => o.type = "completed" /\ (j \in Tasks => j \notin cached'),
             cached' \subseteq cached \cup {j}, strays \subseteq strays', j \notin cached' \ strays'
      PROVE  CacheInv'
  <2>1. capacity' = IF j = capacity THEN NoRun ELSE capacity
    BY <1>6 DEF Return
  <2>2. PICK r \in JobRecord : job' = [job EXCEPT ![j] = r] /\ r.pc = "done" /\ r.outcome = o
    BY <1>1, <1>6 DEF Return
  <2> QED
    BY <1>3, <1>6, <2>1, <2>2, CacheMoves
<1>7. ASSUME NEW j \in Jobs, Compile(j) PROVE CacheInv'
  <2>1. job[j].pc = "compile"
    BY <1>7 DEF Compile, At
  <2>2. CASE cached' = cached \cup {j} /\ Goto(j, "run") /\ UNCHANGED <<strays, capacity>>
    <3>1. PICK r \in JobRecord : job' = [job EXCEPT ![j] = r] /\ r.pc = "run" /\ r.outcome = job[j].outcome
      BY <1>2, <2>2
    <3>2. j \in CodeRuns => capacity' = j
      BY <1>3, <2>1, <2>2 DEF Running
    <3> QED
      BY <1>3, <2>2, <3>1, <3>2, CacheMoves
  <2>3. ASSUME Kept(j) PROVE /\ cached' \subseteq cached \cup {j} /\ strays \subseteq strays'
                             /\ j \notin cached' \ strays'
    BY <1>3, <2>1, <2>3 DEF Kept
  <2>4. CASE Kept(j) /\ Return(j, Failed(TRUE))
    <3>1. ASSUME NEW b \in BOOLEAN, Return(j, Failed(b)) PROVE CacheInv'
      BY <1>0, <1>6, <2>3, <2>4, <3>1
    <3> QED
      BY <2>4, <3>1
  <2>5. CASE Kept(j) /\ Return(j, Completed("CE", 0))
    <3>1. Completed("CE", 0).cases = 0
      BY DEF Completed
    <3> QED
      BY <1>6, <2>3, <2>5, <3>1
  <2> QED
    BY <1>7, <2>2, <2>4, <2>5 DEF Compile
<1>8. ASSUME NEW j \in Jobs, Run(j) PROVE CacheInv'
  <2>1. job[j].pc = "run" /\ UNCHANGED <<cached, strays, capacity>>
    BY <1>8 DEF Run, At
  <2>2. ASSUME NEW o \in Outcome, Settle(j, o, "cleanup"), o.cases > 0 => o.type = "completed" PROVE CacheInv'
    <3>1. PICK r \in JobRecord : job' = [job EXCEPT ![j] = r] /\ r.pc = "cleanup" /\ r.outcome = o
      BY <1>1, <2>2
    <3>2. j \in CodeRuns => capacity' = j
      BY <1>3, <2>1 DEF Running
    <3> QED
      BY <1>3, <2>1, <2>2, <3>1, <3>2, CacheMoves
  <2>3. ASSUME NEW b \in BOOLEAN, Settle(j, Failed(b), "cleanup") PROVE CacheInv'
    BY <1>0, <2>2, <2>3
  <2>4. ASSUME NEW status \in RunStatuses(j), mapRunStatus(status) # "",
               CaseDone(j, Judged(j, mapRunStatus(status)))
        PROVE  CacheInv'
    <3>1. PICK v : v = Judged(j, mapRunStatus(status))
      OBVIOUS
    <3>2. v \in Behaviours
      BY <2>4, <3>1 DEF mapRunStatus, Judged, Behaviours
    <3>3. job[j].next \in Nat
      BY <1>3 DEF JobRecord
    <3>4. CASE Settle(j, Completed(v, job[j].next), "cleanup")
      <4>1. Completed(v, job[j].next).type = "completed"
        BY DEF Completed
      <4> QED
        BY <2>2, <3>2, <3>3, <3>4, <4>1
    <3>5. CASE job' = [job EXCEPT ![j].next = @ + 1]
      <4>1. PICK r : r = [job[j] EXCEPT !.next = @ + 1]
        OBVIOUS
      <4>2. r \in JobRecord /\ r.pc = "run" /\ r.outcome = job[j].outcome
        BY <1>3, <2>1, <3>3, <4>1 DEF JobRecord
      <4>3. job' = [job EXCEPT ![j] = r]
        BY <3>5, <4>1
      <4>4. j \in CodeRuns => capacity' = j
        BY <1>3, <2>1 DEF Running
      <4> QED
        BY <1>3, <2>1, <4>2, <4>3, <4>4, CacheMoves
    <3> QED
      BY <2>4, <3>1, <3>4, <3>5 DEF CaseDone
  <2> QED
    BY <1>8, <2>3, <2>4 DEF Run
<1>9. ASSUME NEW j \in Jobs, DeleteArtifact(j) PROVE CacheInv'
  <2>1. CASE cached' = cached \ {j} /\ Cleaned(j, TRUE) /\ UNCHANGED strays
    <3>1. Return(j, job[j].outcome)
      BY <2>1 DEF Cleaned
    <3> QED
      BY <1>3, <1>6, <2>1, <3>1
  <2>2. CASE Cleaned(j, FALSE) /\ j \notin cached' \ strays' /\ cached' \subseteq cached /\ strays \subseteq strays'
    <3>1. CASE j \in Tasks /\ job[j].outcome.type = "completed"
      <4>1. ASSUME NEW b \in BOOLEAN, Return(j, Failed(b)) PROVE CacheInv'
        BY <1>0, <1>6, <2>2, <4>1
      <4>2. Return(j, Failed(TRUE))
        BY <2>2, <3>1 DEF Cleaned
      <4> QED
        BY <4>1, <4>2
    <3>2. CASE ~(j \in Tasks /\ job[j].outcome.type = "completed")
      <4>1. Return(j, job[j].outcome)
        BY <2>2, <3>2 DEF Cleaned
      <4> QED
        BY <1>3, <1>6, <2>2, <3>2, <4>1
    <3> QED
      BY <3>1, <3>2
  <2> QED
    BY <1>9, <2>1, <2>2 DEF DeleteArtifact, CleanupAlive
<1>10. ASSUME NEW j \in Jobs, WindowElapses(j) PROVE CacheInv'
  BY <1>10 DEF WindowElapses, CacheInv, CacheIsCleaned, Running, At
<1>11. CASE SandboxRestarts
  BY <1>11 DEF SandboxRestarts, CacheInv, CacheIsCleaned, Running, At
<1>12. CASE WorkerDies
  <2>1. ASSUME NEW j \in Jobs
        PROVE  /\ job'[j] \in JobRecord
               /\ Running(j) => job'[j].pc = "lost" /\ job'[j].outcome.cases = 0
               /\ ~Running(j) => job'[j] = job[j]
    <3>1. PICK r : r = [job[j] EXCEPT !.pc = "lost", !.outcome = NothingReported]
      OBVIOUS
    <3>2. r \in JobRecord /\ r.pc = "lost" /\ r.outcome = NothingReported
      BY <1>3, <3>1 DEF JobRecord
    <3>3. r.outcome.cases = 0
      BY <1>0, <3>2
    <3>4. job'[j] = IF Running(j) THEN r ELSE job[j]
      BY <1>12, <3>1 DEF WorkerDies
    <3> QED
      BY <1>3, <3>2, <3>3, <3>4
  <2>2. job' \in [Jobs -> JobRecord] /\ cached' = cached /\ capacity' = NoRun
    BY <1>12, <2>1 DEF WorkerDies
  <2>3. \A j \in Jobs : ~Running(j)'
    BY <2>1 DEF Running
  <2>4. cached' \ strays' = {}
    BY <1>3, <1>12 DEF WorkerDies, CacheInv, Running
  <2>5. \A j \in Jobs : job'[j].outcome.cases > 0 => job'[j].outcome.type = "completed"
    BY <1>3, <2>1
  <2>6. \A t \in Tasks : At(t, "done")' /\ job'[t].outcome.cases > 0 => t \notin cached'
    BY <2>1, <2>2 DEF CacheInv, CacheIsCleaned, At, Jobs
  <2> QED
    BY <2>2, <2>3, <2>4, <2>5, <2>6 DEF CacheInv, CacheIsCleaned, Jobs
<1>13. CASE UNCHANGED execVars
  BY <1>13 DEF execVars, CacheInv, CacheIsCleaned, Running, At
<1> QED
  BY <1>4, <1>5, <1>7, <1>8, <1>9, <1>10, <1>11, <1>12, <1>13 DEF ExecNext

(* Compiled files do not pile up in the sandbox, and a task that ran is     *)
(* completed only when its file is gone, however jobs, restarts, timeouts   *)
(* and deaths of the worker interleave.                                     *)
THEOREM CacheStaysClean == ExecSpec => []CacheIsCleaned
<1>1. ExecInit => CacheInv
  <2> SUFFICES ASSUME ExecInit PROVE CacheInv
    OBVIOUS
  <2>1. /\ Waiting \in JobRecord /\ Waiting.pc = "waiting" /\ Waiting.outcome = NothingReported
    BY OutcomesMade DEF Waiting, JobRecord
  <2>2. NothingReported.cases = 0
    BY DEF NothingReported
  <2> QED
    BY <2>1, <2>2 DEF ExecInit, CacheInv, CacheIsCleaned, Running, At, Jobs
<1>2. CacheInv => CacheIsCleaned
  BY DEF CacheInv
<1> QED
  BY <1>1, <1>2, CacheKept, PTL DEF ExecSpec
=============================================================================
