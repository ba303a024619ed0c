------------------------- MODULE JudgeSystem_proofs --------------------------
(***************************************************************************)
(* Nothing is lost between the components of the judging loop, and every   *)
(* result fits the row it is for, for any number of submissions, rejudges, *)
(* messages, slots, retries and faults.                                    *)
(*                                                                         *)
(* A submission is settled when it does not wait for a verdict or a result *)
(* the store has not seen yet is in the result queue.  Settling is final   *)
(* for a row that exists; that is what lets a message be acknowledged.     *)
(* The inductive invariant follows a request hand over hand: the outbox    *)
(* row is pending, given up or taken by the broker (DeliveryInv); a taken  *)
(* one has become a message (TakenInv), and a message of a submission that *)
(* is not settled has a queued one beside it (LossInv).                    *)
(***************************************************************************)
EXTENDS JudgeSystem, SubmissionStore_proofs

(* The row that a message or a result is about exists, at its revision. *)
Fits(x) == x.sub \in SubIds /\ Exists(x.sub) /\ x.rev = submissions[x.sub].rev

Settled(s) == ~Waiting(s) \/ ResultOnItsWay(s)

(* The store's part: its types, and one request for every row. *)
StoreInv == TypeOK /\ RequestInv

(* The delivery's part: the outbox rows are those the delivery knows, and   *)
(* it has published and let the broker take only such rows.                 *)
DeliveryInv ==
    /\ state \in [OutboxIds -> {"absent", "pending", "published", "dead"}]
    /\ taken \subseteq OutboxIds
    /\ \A o \in OutboxIds : state[o] = "absent" <=> outbox[o].type = "none"
    /\ \A o \in OutboxIds : state[o] = "published" => o \in taken
    /\ \A o \in taken : state[o] # "absent"

(* What a slot may report: a verdict or a failure that is not retried. *)
FinalOutcome(o) ==
    /\ ~o.retryable
    /\ o.type = "judge.completed" => o.verdict \in Verdicts

Busy(w) == slots[w].pc # "idle"

(* The queues' part: messages fit their rows, and a busy slot alone has its *)
(* message in its hands.                                                    *)
QueueInv ==
    /\ msgs \in [Worker!MsgIds -> Worker!Msg]
    /\ slots \in [Slots -> Worker!Slot]
    /\ \A m \in Worker!MsgIds : msgs[m].at # "none" => Fits(msgs[m])
    /\ \A w \in Slots : Busy(w) => slots[w].msg \in Worker!MsgIds /\ msgs[slots[w].msg].at = "worker"
    /\ \A v, w \in Slots : Busy(v) /\ Busy(w) /\ slots[v].msg = slots[w].msg => v = w
    /\ \A w \in Slots : slots[w].pc = "report" => FinalOutcome(slots[w].outcome)

(* The results' part: every result fits its row, is final and has an event  *)
(* id of its own, and the store has seen no id that was not given out.      *)
GoodResult(e) == WellFormed(e) /\ ~e.retryable /\ Fits(e) /\ e.id <= reported
ResultInv ==
    /\ reported \in Nat
    /\ \A i \in processed : i <= reported
    /\ \A e \in resultQueue : GoodResult(e)
    /\ \A e, f \in resultQueue : e.id = f.id => e = f

(* Message n carries on for message m: it is queued, of the same submission *)
(* and of a later attempt.                                                  *)
CarriesOn(n, m) == Worker!Queued(n) /\ msgs[n].sub = msgs[m].sub /\ msgs[n].attempt > msgs[m].attempt
Relieved(m) == Settled(msgs[m].sub) \/ \E n \in Worker!MsgIds : CarriesOn(n, m)

(* What the broker took became a message. *)
BecameMessage(o) == \E m \in Worker!MsgIds : msgs[m].at # "none" /\ msgs[m].sub = outbox[o].sub
TakenInv == \A o \in taken : outbox[o].type = "judge.requested" => BecameMessage(o)

(* No message is dropped: what a slot is about to acknowledge is relieved,  *)
(* and a message whose submission is not settled has a queued one beside it.*)
Followed(m) == Settled(msgs[m].sub) \/ \E n \in Worker!MsgIds : Worker!Queued(n) /\ msgs[n].sub = msgs[m].sub
LossInv ==
    /\ \A w \in Slots : slots[w].pc = "ack" => Relieved(slots[w].msg)
    /\ \A m \in Worker!MsgIds : msgs[m].at # "none" => Followed(m)

SystemInv == StoreInv /\ DeliveryInv /\ QueueInv /\ ResultInv /\ TakenInv /\ LossInv

-----------------------------------------------------------------------------
(* Rows go onward: a row that exists stays, at its revision, and once       *)
(* settled it stays settled.                                                *)
Onward ==
    \A s \in SubIds : Exists(s) =>
      /\ Exists(s)' /\ submissions'[s].rev = submissions[s].rev
      /\ Settled(s) => Settled(s)'

(* Messages keep their content and do not disappear. *)
Kept ==
    \A m \in Worker!MsgIds : msgs[m].at # "none" =>
      /\ msgs'[m].at # "none"
      /\ msgs'[m].sub = msgs[m].sub /\ msgs'[m].rev = msgs[m].rev /\ msgs'[m].attempt = msgs[m].attempt

(* Every step but an acknowledgement lets the queues grow. *)
Grows ==
    /\ Kept
    /\ \A n \in Worker!MsgIds : Worker!Queued(n) => Worker!Queued(n)'
    /\ \A m \in Worker!MsgIds : msgs[m].at = "none" /\ msgs'[m].at # "none" =>
         Worker!Queued(m)' /\ Fits(msgs[m])'

(* No message in a slot's hands moves, but perhaps k. *)
HandsStill(k) ==
    \A m \in Worker!MsgIds \ {k} : msgs[m].at = "worker" => msgs'[m].at = "worker"

(* While rows go onward and messages keep their content, messages fit. *)
LEMMA FittingKeeps ==
    ASSUME Onward, NEW x, NEW y, Fits(x), y.sub = x.sub, y.rev = x.rev
    PROVE  y.sub \in SubIds /\ Exists(y.sub)' /\ y.rev = submissions'[y.sub].rev
BY DEF Onward, Fits

(* While the queues grow, what is followed or relieved stays so. *)
LEMMA GrowingKeeps ==
    ASSUME QueueInv, LossInv, Onward, Grows
    PROVE  /\ \A m \in Worker!MsgIds : msgs[m].at # "none" /\ Relieved(m) => Relieved(m)'
           /\ \A m \in Worker!MsgIds : msgs'[m].at # "none" => Followed(m)' /\ Fits(msgs[m])'
<1>1. ASSUME NEW m \in Worker!MsgIds, msgs[m].at # "none", Settled(msgs[m].sub)
      PROVE  Settled(msgs[m].sub)'
  <2>1. PICK s : s = msgs[m].sub
    OBVIOUS
  <2>2. s \in SubIds /\ Exists(s) /\ msgs'[m].sub = s
    BY <1>1, <2>1 DEF QueueInv, Fits, Grows, Kept
  <2>3. Settled(s)'
    BY <1>1, <2>1, <2>2 DEF Onward
  <2> QED
    BY <2>2, <2>3
<1>2. \A n \in Worker!MsgIds : Worker!Queued(n) => msgs[n].at # "none"
  BY DEF Worker!Queued
<1>3. ASSUME NEW m \in Worker!MsgIds, msgs[m].at # "none", Relieved(m) PROVE Relieved(m)'
  <2>1. CASE Settled(msgs[m].sub)
    BY <1>1, <1>3, <2>1 DEF Relieved
  <2>2. ASSUME NEW n \in Worker!MsgIds, CarriesOn(n, m) PROVE CarriesOn(n, m)'
    BY <1>2, <1>3, <2>2 DEF CarriesOn, Grows, Kept
  <2> QED
    BY <1>3, <2>1, <2>2 DEF Relieved
<1>4. ASSUME NEW m \in Worker!MsgIds, msgs'[m].at # "none" PROVE Followed(m)' /\ Fits(msgs[m])'
  <2>1. CASE msgs[m].at = "none"
    BY <1>4, <2>1 DEF Grows, Followed
  <2>2. CASE msgs[m].at # "none"
    <3>1. Fits(msgs[m])'
      BY <2>2, FittingKeeps DEF QueueInv, Grows, Kept, Fits
    <3>2. CASE Settled(msgs[m].sub)
      BY <1>1, <2>2, <3>1, <3>2 DEF Followed
    <3>3. ASSUME NEW n \in Worker!MsgIds, Worker!Queued(n), msgs[n].sub = msgs[m].sub
          PROVE  Worker!Queued(n)' /\ msgs'[n].sub = msgs'[m].sub
      BY <1>2, <2>2, <3>3 DEF Grows, Kept
    <3> QED
      BY <2>2, <3>1, <3>2, <3>3 DEF LossInv, Followed
  <2> QED
    BY <2>1, <2>2
<1> QED
  BY <1>3, <1>4

(* While the queues grow and the slots stay as they are, the queues' part   *)
(* and the loss part are kept.                                              *)
LEMMA SlotsStay ==
    ASSUME QueueInv, LossInv, Onward, Grows, msgs' \in [Worker!MsgIds -> Worker!Msg], slots' = slots,
           \A m \in Worker!MsgIds : msgs[m].at = "worker" => msgs'[m].at = "worker"
    PROVE  QueueInv' /\ LossInv'
<1>1. QueueInv'
  BY GrowingKeeps DEF QueueInv, Busy
<1>2. ASSUME NEW v \in Slots, slots'[v].pc = "ack" PROVE Relieved(slots[v].msg)'
  <2>1. PICK m : m = slots[v].msg
    OBVIOUS
  <2>2. m \in Worker!MsgIds /\ msgs[m].at # "none" /\ Relieved(m) /\ slots'[v].msg = m
    BY <1>2, <2>1 DEF QueueInv, LossInv, Busy
  <2>3. Relieved(m)'
    BY <2>2, GrowingKeeps
  <2> QED
    BY <2>2, <2>3
<1> QED
  BY <1>1, <1>2, GrowingKeeps DEF LossInv

(* A slot that moves on with the message it holds, while the queues grow,   *)
(* keeps the queues' and the loss part if what it is about to acknowledge   *)
(* is relieved and what it is about to report is final.                     *)
LEMMA SlotMoves ==
    ASSUME QueueInv, LossInv, Onward, Grows, msgs' \in [Worker!MsgIds -> Worker!Msg],
           NEW w \in Slots, NEW r \in Worker!Slot, NEW k, k = slots[w].msg, Busy(w),
           slots' = [slots EXCEPT ![w] = r], r.msg = k, r.pc # "idle",
           r.pc = "ack" => Relieved(k)', r.pc = "report" => FinalOutcome(r.outcome),
           \A m \in Worker!MsgIds : msgs[m].at = "worker" => msgs'[m].at = "worker"
    PROVE  QueueInv' /\ LossInv'
<1>1. slots' \in [Slots -> Worker!Slot] /\ slots'[w] = r /\ \A v \in Slots \ {w} : slots'[v] = slots[v]
  BY DEF QueueInv
<1>2. QueueInv'
  <2>1. \A m \in Worker!MsgIds : msgs'[m].at # "none" => Fits(msgs[m])'
    BY GrowingKeeps
  <2>2. \A v \in Slots : slots'[v].msg = slots[v].msg /\ (Busy(v)' => Busy(v))
    BY <1>1 DEF Busy
  <2>3. \A v \in Slots : slots'[v].pc = "report" => FinalOutcome(slots'[v].outcome)
    BY <1>1 DEF QueueInv
  <2> QED
    BY <1>1, <2>1, <2>2, <2>3 DEF QueueInv, FinalOutcome
<1>3. ASSUME NEW v \in Slots, slots'[v].pc = "ack" PROVE Relieved(slots[v].msg)'
  <2>1. CASE v = w
    BY <1>1, <1>3, <2>1
  <2>2. CASE v # w
    <3>1. PICK m : m = slots[v].msg
      OBVIOUS
    <3>2. m \in Worker!MsgIds /\ msgs[m].at # "none" /\ Relieved(m) /\ slots'[v].msg = m
      BY <1>1, <1>3, <2>2, <3>1 DEF QueueInv, LossInv, Busy
    <3>3. Relieved(m)'
      BY <3>2, GrowingKeeps
    <3> QED
      BY <3>2, <3>3
  <2> QED
    BY <2>1, <2>2
<1> QED
  BY <1>2, <1>3, GrowingKeeps DEF LossInv

(* A slot that gives its message back, while the queues grow, keeps the     *)
(* queues' and the loss part.                                               *)
LEMMA SlotFrees ==
    ASSUME QueueInv, LossInv, Onward, Grows, msgs' \in [Worker!MsgIds -> Worker!Msg],
           NEW w \in Slots, Busy(w), slots' = [slots EXCEPT ![w] = Worker!IdleSlot],
           HandsStill(slots[w].msg)
    PROVE  QueueInv' /\ LossInv'
<1>1. Worker!IdleSlot \in Worker!Slot /\ Worker!IdleSlot.pc = "idle"
  BY DEF Worker!IdleSlot, Worker!Slot
<1>2. /\ slots' \in [Slots -> Worker!Slot] /\ slots'[w].pc = "idle"
      /\ \A v \in Slots \ {w} : slots'[v] = slots[v]
  BY <1>1 DEF QueueInv
<1>3. QueueInv'
  <2>1. \A m \in Worker!MsgIds : msgs'[m].at # "none" => Fits(msgs[m])'
    BY GrowingKeeps
  <2>2. \A v \in Slots : Busy(v)' => v # w /\ Busy(v) /\ slots'[v] = slots[v]
    BY <1>2 DEF Busy
  <2>3. \A v \in Slots : slots'[v].pc = "report" => FinalOutcome(slots'[v].outcome)
    BY <1>2 DEF QueueInv
  <2>4. \A v \in Slots : Busy(v)' => slots'[v].msg \in Worker!MsgIds /\ msgs'[slots'[v].msg].at = "worker"
    BY <2>2 DEF QueueInv, HandsStill
  <2>5. \A u, v \in Slots : Busy(u)' /\ Busy(v)' /\ slots'[u].msg = slots'[v].msg => u = v
    BY <2>2 DEF QueueInv
  <2> QED
    BY <1>2, <2>1, <2>3, <2>4, <2>5 DEF QueueInv, FinalOutcome
<1>4. ASSUME NEW v \in Slots, slots'[v].pc = "ack" PROVE Relieved(slots[v].msg)'
  <2>1. PICK m : m = slots[v].msg
    OBVIOUS
  <2>2. m \in Worker!MsgIds /\ msgs[m].at # "none" /\ Relieved(m) /\ slots'[v].msg = m
    BY <1>2, <1>4, <2>1 DEF QueueInv, LossInv, Busy
  <2>3. Relieved(m)'
    BY <2>2, GrowingKeeps
  <2> QED
    BY <2>2, <2>3
<1> QED
  BY <1>3, <1>4, GrowingKeeps DEF LossInv

-----------------------------------------------------------------------------
(* A message that changes its place keeps its content; if it stays or       *)
(* becomes queued, the queues grow.                                         *)
LEMMA PlaceChanges ==
    ASSUME QueueInv, NEW k \in Worker!MsgIds, msgs[k].at # "none", NEW p \in Worker!Places \ {"none"},
           msgs' = [msgs EXCEPT ![k].at = p]
    PROVE  /\ msgs' \in [Worker!MsgIds -> Worker!Msg] /\ msgs'[k].at = p
           /\ msgs'[k].sub = msgs[k].sub /\ msgs'[k].rev = msgs[k].rev /\ msgs'[k].attempt = msgs[k].attempt
           /\ \A m \in Worker!MsgIds \ {k} : msgs'[m] = msgs[m]
           /\ Kept
           /\ p \in {"task", "retry", "worker"} => Grows
<1>1. PICK x : x = [msgs[k] EXCEPT !.at = p]
  OBVIOUS
<1>2. /\ x \in Worker!Msg /\ x.at = p
      /\ x.sub = msgs[k].sub /\ x.rev = msgs[k].rev /\ x.attempt = msgs[k].attempt
  BY <1>1 DEF QueueInv, Worker!Msg
<1>3. msgs' = [msgs EXCEPT ![k] = x]
  BY <1>1 DEF QueueInv
<1>4. /\ msgs' \in [Worker!MsgIds -> Worker!Msg] /\ msgs'[k] = x
      /\ \A m \in Worker!MsgIds \ {k} : msgs'[m] = msgs[m]
  BY <1>2, <1>3 DEF QueueInv
<1>5. Kept
  BY <1>2, <1>4 DEF Kept
<1>6. ASSUME p \in {"task", "retry", "worker"} PROVE Grows
  BY <1>2, <1>4, <1>5, <1>6 DEF Grows, Worker!Queued
<1> QED
  BY <1>2, <1>4, <1>5, <1>6

(* The message a slot holds is in the worker's hands and fits its row. *)
LEMMA HeldMessage ==
    ASSUME QueueInv, NEW w \in Slots, Busy(w), NEW k, k = slots[w].msg
    PROVE  /\ slots[w] \in Worker!Slot /\ k \in Worker!MsgIds /\ msgs[k].at = "worker"
           /\ msgs[k] \in Worker!Msg /\ Fits(msgs[k]) /\ Worker!Task(w) = msgs[k]
BY DEF QueueInv, Worker!Task

(* A retry message is the task again, with one attempt more. *)
LEMMA RetryRecord ==
    ASSUME NEW t \in Worker!Msg
    PROVE  LET x == [t EXCEPT !.at = "retry", !.attempt = @ + 1]
           IN  /\ x \in Worker!Msg /\ x.at = "retry"
               /\ x.sub = t.sub /\ x.rev = t.rev /\ x.attempt > t.attempt
<1>1. t.attempt \in Nat
  BY DEF Worker!Msg
<1>2. t.attempt + 1 \in Nat /\ t.attempt + 1 > t.attempt
  BY <1>1
<1> QED
  BY <1>2 DEF Worker!Msg, Worker!Places

(* Giving the message of a slot back to its queue lets the queues grow, and *)
(* so does publishing a retry of it besides.                                *)
LEMMA RequeuedGrows ==
    ASSUME QueueInv, Onward, NEW w \in Slots, Busy(w),
           msgs' = Worker!Requeued(w) \/ Worker!RetryPublished(w, Worker!Requeued(w))
    PROVE  Grows /\ msgs' \in [Worker!MsgIds -> Worker!Msg] /\ HandsStill(slots[w].msg)
<1>0. PICK k : k = slots[w].msg
  OBVIOUS
<1>1. /\ k \in Worker!MsgIds /\ msgs[k].at = "worker" /\ msgs[k] \in Worker!Msg
      /\ Fits(msgs[k]) /\ Worker!Task(w) = msgs[k]
  BY <1>0, HeldMessage
<1>2. CASE msgs' = Worker!Requeued(w)
  <2>1. msgs' = [msgs EXCEPT ![k].at = "task"]
    BY <1>0, <1>2 DEF Worker!Requeued
  <2>2. "task" \in Worker!Places \ {"none"} /\ "task" \in {"task", "retry", "worker"} /\ msgs[k].at # "none"
    BY <1>1 DEF Worker!Places
  <2>3. /\ msgs' \in [Worker!MsgIds -> Worker!Msg] /\ Grows
        /\ \A m \in Worker!MsgIds \ {k} : msgs'[m] = msgs[m]
    BY <1>1, <2>1, <2>2, PlaceChanges
  <2> QED
    BY <1>0, <2>3 DEF HandsStill
<1>3. CASE Worker!RetryPublished(w, Worker!Requeued(w))
  <2>1. PICK m \in RetryMsgs :
          /\ Worker!FreeMsg(m, RetryMsgs)
          /\ msgs' = [Worker!Requeued(w) EXCEPT ![m] = [Worker!Task(w) EXCEPT !.at = "retry", !.attempt = @ + 1]]
    BY <1>3 DEF Worker!RetryPublished
  <2>2. PICK x : x = [Worker!Task(w) EXCEPT !.at = "retry", !.attempt = @ + 1]
    OBVIOUS
  <2>3. x \in Worker!Msg /\ x.at = "retry" /\ x.sub = msgs[k].sub /\ x.rev = msgs[k].rev
    BY <1>1, <2>2, RetryRecord
  <2>4. PICK y : y = [msgs[k] EXCEPT !.at = "task"]
    OBVIOUS
  <2>5. /\ y \in Worker!Msg /\ y.at = "task"
        /\ y.sub = msgs[k].sub /\ y.rev = msgs[k].rev /\ y.attempt = msgs[k].attempt
    BY <1>1, <2>4 DEF Worker!Msg, Worker!Places
  <2>6. m \in Worker!MsgIds /\ msgs[m].at = "none" /\ m # k
    BY <1>1, <2>1 DEF Worker!FreeMsg, Worker!MsgIds
  <2>7. msgs' = [msgs EXCEPT ![k] = y, ![m] = x]
    BY <1>0, <1>1, <2>1, <2>2, <2>4 DEF Worker!Requeued, QueueInv
  <2>8. /\ msgs' \in [Worker!MsgIds -> Worker!Msg] /\ msgs'[k] = y /\ msgs'[m] = x
        /\ \A n \in Worker!MsgIds \ {k, m} : msgs'[n] = msgs[n]
    BY <1>1, <2>3, <2>5, <2>6, <2>7 DEF QueueInv
  <2>9. Fits(msgs[m])'
    BY <1>1, <2>3, <2>8, FittingKeeps DEF Fits
  <2>10. Grows
    BY <1>1, <2>3, <2>5, <2>6, <2>8, <2>9 DEF Grows, Kept, Worker!Queued
  <2> QED
    BY <1>0, <2>6, <2>8, <2>10 DEF HandsStill
<1> QED
  BY <1>2, <1>3

(* Publishing a retry lets the queues grow and relieves the message the     *)
(* slot holds.                                                              *)
LEMMA RetryRelieves ==
    ASSUME QueueInv, Onward, NEW w \in Slots, Busy(w), Worker!RetryPublished(w, msgs),
           NEW k, k = slots[w].msg
    PROVE  /\ Grows /\ msgs' \in [Worker!MsgIds -> Worker!Msg] /\ Relieved(k)'
           /\ \A m \in Worker!MsgIds : msgs[m].at = "worker" => msgs'[m].at = "worker"
<1>1. /\ k \in Worker!MsgIds /\ msgs[k].at = "worker" /\ msgs[k] \in Worker!Msg
      /\ Fits(msgs[k]) /\ Worker!Task(w) = msgs[k]
  BY HeldMessage
<1>2. PICK m \in RetryMsgs :
        /\ Worker!FreeMsg(m, RetryMsgs)
        /\ msgs' = [msgs EXCEPT ![m] = [Worker!Task(w) EXCEPT !.at = "retry", !.attempt = @ + 1]]
  BY DEF Worker!RetryPublished
<1>3. PICK x : x = [Worker!Task(w) EXCEPT !.at = "retry", !.attempt = @ + 1]
  OBVIOUS
<1>4. /\ x \in Worker!Msg /\ x.at = "retry"
      /\ x.sub = msgs[k].sub /\ x.rev = msgs[k].rev /\ x.attempt > msgs[k].attempt
  BY <1>1, <1>3, RetryRecord
<1>5. m \in Worker!MsgIds /\ msgs[m].at = "none" /\ m # k
  BY <1>1, <1>2 DEF Worker!FreeMsg, Worker!MsgIds
<1>6. /\ msgs' \in [Worker!MsgIds -> Worker!Msg] /\ msgs'[m] = x
      /\ \A n \in Worker!MsgIds \ {m} : msgs'[n] = msgs[n]
  BY <1>1, <1>2, <1>3, <1>4, <1>5 DEF QueueInv
<1>7. Fits(msgs[m])'
  BY <1>1, <1>4, <1>6, FittingKeeps DEF Fits
<1>8. Grows
  BY <1>1, <1>4, <1>5, <1>6, <1>7 DEF Grows, Kept, Worker!Queued
<1>9. msgs'[k] = msgs[k]
  BY <1>1, <1>5, <1>6
<1>10. CarriesOn(m, k)'
  BY <1>4, <1>5, <1>6, <1>9 DEF CarriesOn, Worker!Queued
<1> QED
  BY <1>5, <1>6, <1>8, <1>10 DEF Relieved

-----------------------------------------------------------------------------
(* While the store rests and no result is taken away, rows go onward. *)
LEMMA StoreRests ==
    ASSUME UNCHANGED vars, resultQueue \subseteq resultQueue'
    PROVE  Onward
<1>1. submissions' = submissions /\ processed' = processed
  BY DEF vars
<1> QED
  BY <1>1 DEF Onward, Exists, Settled, Waiting, ResultOnItsWay

(* Results that stay keep fitting. *)
LEMMA ResultsStay ==
    ASSUME ResultInv, Onward, processed' = processed, resultQueue' = resultQueue, reported' = reported
    PROVE  ResultInv'
<1>1. ASSUME NEW e \in resultQueue, GoodResult(e) PROVE GoodResult(e)'
  BY <1>1, FittingKeeps DEF GoodResult, WellFormed, Fits
<1> QED
  BY <1>1 DEF ResultInv

(* A published result fits its row, has an event id of its own and settles  *)
(* its submission.                                                          *)
LEMMA ResultSettles ==
    ASSUME TypeOK, QueueInv, ResultInv, UNCHANGED vars, NEW w \in Slots, slots[w].pc = "report",
           Worker!ResultPublished(w), NEW k, k = slots[w].msg, msgs'[k].sub = msgs[k].sub
    PROVE  ResultInv' /\ Settled(msgs[k].sub)' /\ resultQueue \subseteq resultQueue' /\ Onward
<1>1. PICK e : e = [id |-> reported + 1, sub |-> Worker!Task(w).sub, rev |-> Worker!Task(w).rev,
                    type |-> slots[w].outcome.type, verdict |-> slots[w].outcome.verdict,
                    retryable |-> slots[w].outcome.retryable]
  OBVIOUS
<1>2. reported \in Nat /\ reported' = reported + 1 /\ resultQueue' = resultQueue \cup {e}
  BY <1>1 DEF Worker!ResultPublished, ResultInv
<1>3. Onward /\ resultQueue \subseteq resultQueue'
  BY <1>2, StoreRests
<1>4. submissions' = submissions /\ processed' = processed
  BY DEF vars
<1>5. Fits(msgs[k]) /\ Worker!Task(w) = msgs[k] /\ FinalOutcome(slots[w].outcome)
  BY HeldMessage DEF Busy, QueueInv
<1>6. /\ e.id = reported + 1 /\ e.sub = msgs[k].sub /\ e.rev = msgs[k].rev
      /\ e.type = slots[w].outcome.type /\ e.verdict = slots[w].outcome.verdict
      /\ e.retryable = slots[w].outcome.retryable
  BY <1>1, <1>5
<1>7. GoodResult(e)'
  <2>1. WellFormed(e) /\ ~e.retryable
    BY <1>2, <1>5, <1>6 DEF WellFormed, FinalOutcome, Fits
  <2>2. Fits(e)'
    BY <1>4, <1>5, <1>6 DEF Fits, Exists
  <2> QED
    BY <1>2, <1>6, <2>1, <2>2 DEF GoodResult, WellFormed
<1>8. ASSUME NEW f \in resultQueue PROVE GoodResult(f)' /\ f.id # e.id
  <2>1. GoodResult(f) /\ f.id \in Nat /\ f.id <= reported
    BY <1>8 DEF ResultInv, GoodResult, WellFormed
  <2> QED
    BY <1>2, <1>4, <1>6, <2>1 DEF GoodResult, WellFormed, Fits, Exists
<1>9. e.id \notin processed /\ \A i \in processed : i <= reported'
  BY <1>2, <1>6 DEF ResultInv, TypeOK
<1>10. ResultInv'
  BY <1>2, <1>4, <1>7, <1>8, <1>9 DEF ResultInv
<1>11. Settled(e.sub)'
  BY <1>2, <1>4, <1>5, <1>6, <1>9 DEF Settled, ResultOnItsWay, Fits
<1> QED
  BY <1>3, <1>6, <1>10, <1>11

-----------------------------------------------------------------------------
(* What the worker's steps work on and keep. *)
WorkerParts == QueueInv /\ ResultInv /\ LossInv

(* Deciding what to do with a delivery keeps the parts: only a failure to   *)
(* be retried is not reported.                                              *)
LEMMA DecisionsKeep ==
    ASSUME WorkerParts, UNCHANGED vars, NEW w \in Slots,
           Worker!Expired(w) \/ \E outcome \in Worker!Outcomes : Worker!Execute(w, outcome)
    PROVE  WorkerParts' /\ Kept
<1>1. Busy(w) /\ UNCHANGED <<msgs, resultQueue, reported>>
  BY DEF Worker!Expired, Worker!Execute, Busy
<1>2. slots[w] \in Worker!Slot /\ slots \in [Slots -> Worker!Slot] /\ msgs' \in [Worker!MsgIds -> Worker!Msg]
  BY <1>1, HeldMessage DEF WorkerParts, QueueInv
<1>3. Grows /\ Onward /\ ResultInv'
  <2>1. Grows
    BY <1>1 DEF Grows, Kept, Worker!Queued
  <2>2. Onward /\ processed' = processed
    BY <1>1, StoreRests DEF vars
  <2> QED
    BY <1>1, <2>1, <2>2, ResultsStay DEF WorkerParts
<1>4. ASSUME NEW pc \in {"report", "retry"}, NEW o \in Worker!Outcomes \cup Worker!FinalOutcomes,
             pc = "report" => FinalOutcome(o),
             slots' = [slots EXCEPT ![w] = [slots[w] EXCEPT !.pc = pc, !.outcome = o]]
      PROVE  WorkerParts'
  <2>1. PICK r : r = [slots[w] EXCEPT !.pc = pc, !.outcome = o]
    OBVIOUS
  <2>2. r \in Worker!Slot /\ r.pc = pc /\ r.msg = slots[w].msg /\ r.outcome = o
    BY <1>2, <2>1 DEF Worker!Slot
  <2>3. slots' = [slots EXCEPT ![w] = r]
    BY <1>4, <2>1
  <2>4. \A m \in Worker!MsgIds : msgs[m].at = "worker" => msgs'[m].at = "worker"
    BY <1>1
  <2> QED
    BY <1>1, <1>2, <1>3, <1>4, <2>2, <2>3, <2>4, SlotMoves DEF WorkerParts
<1>5. CASE Worker!Expired(w)
  <2>0. ASSUME NEW b \in BOOLEAN, b = FALSE
        PROVE  Worker!FailedOutcome(b) \in Worker!Outcomes /\ FinalOutcome(Worker!FailedOutcome(b))
    BY <2>0 DEF Worker!FailedOutcome, Worker!Outcomes, FinalOutcome
  <2>1. Worker!FailedOutcome(FALSE) \in Worker!Outcomes /\ FinalOutcome(Worker!FailedOutcome(FALSE))
    BY <2>0
  <2>2. slots' = [slots EXCEPT ![w] = [slots[w] EXCEPT !.pc = "report", !.outcome = Worker!FailedOutcome(FALSE)]]
    BY <1>5 DEF Worker!Expired
  <2> QED
    BY <1>3, <1>4, <2>1, <2>2 DEF Grows
<1>6. ASSUME NEW outcome \in Worker!Outcomes, Worker!Execute(w, outcome) PROVE WorkerParts'
  <2>1. PICK final : final = [outcome EXCEPT !.retryable = FALSE]
    OBVIOUS
  <2>2. final \in Worker!FinalOutcomes
    BY <2>1 DEF Worker!FinalOutcomes
  <2>3. FinalOutcome(final)
    BY <2>1 DEF Worker!Outcomes, FinalOutcome
  <2>4. \/ slots' = [slots EXCEPT ![w] = [slots[w] EXCEPT !.pc = "retry", !.outcome = outcome]]
        \/ slots' = [slots EXCEPT ![w] = [slots[w] EXCEPT !.pc = "report", !.outcome = final]]
    BY <1>6, <2>1 DEF Worker!Execute
  <2> QED
    BY <1>4, <2>2, <2>3, <2>4
<1> QED
  BY <1>3, <1>5, <1>6 DEF Grows

(* Reporting, successfully or not, and losing the worker keep the parts:    *)
(* before the acknowledgement the result or the retry is with the broker,   *)
(* and otherwise the task itself goes back to its queue.                    *)
LEMMA ReportsKeep ==
    ASSUME TypeOK, WorkerParts, UNCHANGED vars, NEW w \in Slots,
           \/ Worker!ReportResult(w) \/ Worker!ReportRefused(w) \/ Worker!ReportRetry(w)
           \/ Worker!ReportFails(w) \/ Worker!WorkerLost(w)
    PROVE  WorkerParts' /\ Kept
<1>1. Busy(w) /\ QueueInv /\ ResultInv /\ LossInv /\ processed' = processed
  BY DEF Worker!ReportResult, Worker!ReportRefused, Worker!ReportRetry, Worker!ReportFails,
         Worker!WorkerLost, Busy, WorkerParts, vars
<1>2. PICK k : k = slots[w].msg
  OBVIOUS
<1>3. /\ slots[w] \in Worker!Slot /\ k \in Worker!MsgIds /\ msgs[k].at = "worker"
      /\ slots \in [Slots -> Worker!Slot] /\ msgs \in [Worker!MsgIds -> Worker!Msg]
  BY <1>1, <1>2, HeldMessage DEF QueueInv
<1>4. ASSUME Onward, Grows, msgs' \in [Worker!MsgIds -> Worker!Msg], slots' = [slots EXCEPT ![w].pc = "ack"],
             Relieved(k)', \A m \in Worker!MsgIds : msgs[m].at = "worker" => msgs'[m].at = "worker"
      PROVE  QueueInv' /\ LossInv'
  <2>1. PICK r : r = [slots[w] EXCEPT !.pc = "ack"]
    OBVIOUS
  <2>2. r \in Worker!Slot /\ r.pc = "ack" /\ r.msg = k
    BY <1>2, <1>3, <2>1 DEF Worker!Slot
  <2>3. slots' = [slots EXCEPT ![w] = r]
    BY <1>4, <2>1
  <2> QED
    BY <1>1, <1>2, <1>4, <2>2, <2>3, SlotMoves
<1>5. CASE Worker!ReportResult(w)
  <2>1. UNCHANGED msgs /\ slots' = [slots EXCEPT ![w].pc = "ack"]
    BY <1>5 DEF Worker!ReportResult
  <2>2. Grows
    BY <2>1 DEF Grows, Kept, Worker!Queued
  <2>3. ResultInv' /\ Settled(msgs[k].sub)' /\ Onward
    BY <1>1, <1>2, <1>5, <2>1, ResultSettles DEF Worker!ReportResult
  <2>4. Relieved(k)'
    BY <2>3 DEF Relieved
  <2> QED
    BY <1>3, <1>4, <2>1, <2>2, <2>3, <2>4 DEF WorkerParts, Grows
<1>6. CASE Worker!ReportRetry(w)
  <2>1. /\ resultQueue' = resultQueue /\ reported' = reported
        /\ Worker!RetryPublished(w, msgs) /\ slots' = [slots EXCEPT ![w].pc = "ack"]
    BY <1>6 DEF Worker!ReportRetry
  <2>2. Onward /\ ResultInv'
    BY <1>1, <2>1, StoreRests, ResultsStay
  <2> QED
    BY <1>1, <1>2, <1>4, <2>1, <2>2, RetryRelieves DEF WorkerParts, Grows
<1>7. CASE Worker!ReportRefused(w) \/ Worker!ReportFails(w) \/ Worker!WorkerLost(w)
  <2>1. /\ slots' = [slots EXCEPT ![w] = Worker!IdleSlot]
        /\ msgs' = Worker!Requeued(w) \/ Worker!RetryPublished(w, Worker!Requeued(w))
        /\ \/ resultQueue' = resultQueue /\ reported' = reported
           \/ slots[w].pc = "report" /\ Worker!ResultPublished(w) /\ msgs' = Worker!Requeued(w)
    BY <1>7 DEF Worker!ReportRefused, Worker!ReportFails, Worker!WorkerLost
  <2>2. Onward /\ ResultInv'
    <3>1. CASE resultQueue' = resultQueue /\ reported' = reported
      BY <1>1, <3>1, StoreRests, ResultsStay
    <3>2. CASE slots[w].pc = "report" /\ Worker!ResultPublished(w) /\ msgs' = Worker!Requeued(w)
      <4>1. msgs' = [msgs EXCEPT ![k].at = "task"]
        BY <1>2, <3>2 DEF Worker!Requeued
      <4>2. msgs'[k].sub = msgs[k].sub
        BY <1>3, <4>1 DEF Worker!Msg
      <4> QED
        BY <1>1, <1>2, <3>2, <4>2, ResultSettles
    <3> QED
      BY <2>1, <3>1, <3>2
  <2>3. Grows /\ msgs' \in [Worker!MsgIds -> Worker!Msg] /\ HandsStill(slots[w].msg)
    BY <1>1, <2>1, <2>2, RequeuedGrows
  <2> QED
    BY <1>1, <2>1, <2>2, <2>3, SlotFrees DEF WorkerParts, Grows
<1> QED
  BY <1>5, <1>6, <1>7

(* The acknowledgement keeps the parts: what it takes out of the queues is  *)
(* settled, or a copy with a later attempt stays, and that copy serves      *)
(* whoever relied on the acknowledged one.                                  *)
LEMMA AckKeeps ==
    ASSUME WorkerParts, UNCHANGED vars, NEW w \in Slots, Worker!Ack(w)
    PROVE  WorkerParts' /\ Kept
<1>1. /\ Busy(w) /\ slots[w].pc = "ack" /\ slots' = [slots EXCEPT ![w] = Worker!IdleSlot]
      /\ resultQueue' = resultQueue /\ reported' = reported
  BY DEF Worker!Ack, Busy
<1>2. PICK k : k = slots[w].msg
  OBVIOUS
<1>3. k \in Worker!MsgIds /\ msgs[k].at = "worker" /\ Relieved(k) /\ QueueInv /\ LossInv
  BY <1>1, <1>2, HeldMessage DEF WorkerParts, LossInv
<1>4. Worker!IdleSlot \in Worker!Slot /\ Worker!IdleSlot.pc = "idle"
  BY DEF Worker!IdleSlot, Worker!Slot
<1>5. /\ msgs' \in [Worker!MsgIds -> Worker!Msg] /\ msgs'[k].at = "acked" /\ Kept
      /\ msgs'[k].sub = msgs[k].sub /\ msgs'[k].rev = msgs[k].rev /\ msgs'[k].attempt = msgs[k].attempt
      /\ \A m \in Worker!MsgIds \ {k} : msgs'[m] = msgs[m]
  <2>1. msgs' = [msgs EXCEPT ![k].at = "acked"] /\ "acked" \in Worker!Places \ {"none"}
    BY <1>2 DEF Worker!Ack, Worker!Places
  <2> QED
    BY <1>3, <2>1, PlaceChanges
<1>6. \A m \in Worker!MsgIds : /\ msgs'[m].sub = msgs[m].sub /\ msgs'[m].rev = msgs[m].rev
                               /\ msgs'[m].attempt = msgs[m].attempt
                               /\ msgs'[m].at # "none" => msgs[m].at # "none"
  BY <1>3, <1>5
<1>7. Onward /\ ResultInv' /\ submissions' = submissions
  BY <1>1, StoreRests, ResultsStay DEF WorkerParts, vars
<1>8. \A s : Settled(s) <=> Settled(s)'
  BY <1>1, <1>7 DEF Settled, Waiting, ResultOnItsWay, vars
<1>9. QueueInv'
  <2>1. /\ slots' \in [Slots -> Worker!Slot] /\ slots'[w].pc = "idle"
        /\ \A v \in Slots \ {w} : slots'[v] = slots[v]
    BY <1>1, <1>3, <1>4 DEF QueueInv
  <2>2. \A v \in Slots : Busy(v)' => v # w /\ Busy(v) /\ slots'[v] = slots[v]
    BY <2>1 DEF Busy
  <2>3. \A v \in Slots : slots'[v].pc = "report" => FinalOutcome(slots'[v].outcome)
    BY <1>3, <2>1 DEF QueueInv
  <2>4. \A v \in Slots : Busy(v)' => slots'[v].msg \in Worker!MsgIds /\ msgs'[slots'[v].msg].at = "worker"
    BY <1>1, <1>2, <1>3, <1>5, <2>2 DEF QueueInv
  <2>5. \A u, v \in Slots : Busy(u)' /\ Busy(v)' /\ slots'[u].msg = slots'[v].msg => u = v
    BY <1>3, <2>2 DEF QueueInv
  <2>6. \A m \in Worker!MsgIds : msgs'[m].at # "none" => Fits(msgs[m])'
    BY <1>3, <1>6, <1>7 DEF QueueInv, Fits, Exists
  <2> QED
    BY <1>5, <2>1, <2>3, <2>4, <2>5, <2>6 DEF QueueInv, FinalOutcome
<1>10. ASSUME NEW n \in Worker!MsgIds, NEW m \in Worker!MsgIds, Worker!Queued(n), msgs[n].sub = msgs[m].sub,
              ~Settled(msgs[m].sub)
       PROVE  \E x \in Worker!MsgIds : /\ Worker!Queued(x)' /\ msgs'[x].sub = msgs'[m].sub
                                       /\ msgs[x].attempt >= msgs[n].attempt
  <2>0. msgs \in [Worker!MsgIds -> Worker!Msg] /\ msgs[n].attempt \in Nat
    BY <1>3 DEF QueueInv, Worker!Msg
  <2>1. CASE n # k
    <3>1. Worker!Queued(n)' /\ msgs'[n].sub = msgs'[m].sub
      BY <1>5, <1>6, <1>10, <2>1 DEF Worker!Queued
    <3> QED
      BY <2>0, <3>1
  <2>2. CASE n = k
    <3>1. PICK x \in Worker!MsgIds : CarriesOn(x, k)
      BY <1>3, <1>10, <2>2 DEF Relieved
    <3>2. x # k /\ msgs[x].attempt > msgs[k].attempt /\ msgs[x].attempt \in Nat
      BY <1>3, <2>0, <3>1 DEF CarriesOn, Worker!Msg
    <3>3. Worker!Queued(x)' /\ msgs'[x].sub = msgs'[m].sub
      BY <1>5, <1>6, <1>10, <2>2, <3>1, <3>2 DEF CarriesOn, Worker!Queued
    <3> QED
      BY <2>0, <2>2, <3>2, <3>3
  <2> QED
    BY <2>1, <2>2
<1>11. ASSUME NEW m \in Worker!MsgIds, Relieved(m) PROVE Relieved(m)'
  <2>1. CASE Settled(msgs[m].sub)
    <3>1. PICK s : s = msgs[m].sub
      OBVIOUS
    <3>2. Settled(s)' /\ msgs'[m].sub = s
      BY <1>6, <1>8, <2>1, <3>1
    <3> QED
      BY <3>2 DEF Relieved
  <2>2. CASE ~Settled(msgs[m].sub)
    <3>1. PICK n \in Worker!MsgIds : CarriesOn(n, m)
      BY <1>11, <2>2 DEF Relieved
    <3>2. PICK x \in Worker!MsgIds : /\ Worker!Queued(x)' /\ msgs'[x].sub = msgs'[m].sub
                                     /\ msgs[x].attempt >= msgs[n].attempt
      BY <1>10, <2>2, <3>1 DEF CarriesOn
    <3>3. msgs[x].attempt > msgs[m].attempt
      BY <1>3, <3>1, <3>2 DEF CarriesOn, QueueInv, Worker!Msg
    <3> QED
      BY <1>6, <3>2, <3>3 DEF Relieved, CarriesOn
  <2> QED
    BY <2>1, <2>2
<1>12. ASSUME NEW m \in Worker!MsgIds, msgs'[m].at # "none" PROVE Followed(m)'
  <2>1. CASE Settled(msgs[m].sub)
    <3>1. PICK s : s = msgs[m].sub
      OBVIOUS
    <3>2. Settled(s)' /\ msgs'[m].sub = s
      BY <1>6, <1>8, <2>1, <3>1
    <3> QED
      BY <3>2 DEF Followed
  <2>2. CASE ~Settled(msgs[m].sub)
    <3>1. PICK n \in Worker!MsgIds : Worker!Queued(n) /\ msgs[n].sub = msgs[m].sub
      BY <1>3, <1>6, <1>12, <2>2 DEF LossInv, Followed
    <3> QED
      BY <1>10, <2>2, <3>1 DEF Followed
  <2> QED
    BY <2>1, <2>2
<1>13. ASSUME NEW v \in Slots, slots'[v].pc = "ack" PROVE Relieved(slots[v].msg)'
  <2>1. PICK m : m = slots[v].msg
    OBVIOUS
  <2>2. m \in Worker!MsgIds /\ Relieved(m) /\ slots'[v].msg = m
    BY <1>1, <1>3, <1>4, <1>13, <2>1 DEF QueueInv, LossInv, Busy
  <2>3. Relieved(m)'
    BY <1>11, <2>2
  <2> QED
    BY <2>2, <2>3
<1> QED
  BY <1>5, <1>7, <1>9, <1>12, <1>13 DEF WorkerParts, LossInv

(* A delivery puts a task message into the hands of an idle slot. *)
LEMMA DeliveryKeeps ==
    ASSUME WorkerParts, UNCHANGED vars, NEW w \in Slots, Worker!Receive(w)
    PROVE  WorkerParts' /\ Kept
<1>1. PICK k \in Worker!MsgIds : Worker!Deliver(w, k)
  BY DEF Worker!Receive, Worker!RejectMalformed
<1>2. /\ slots[w].pc = "idle" /\ msgs[k].at = "task" /\ msgs' = [msgs EXCEPT ![k].at = "worker"]
      /\ resultQueue' = resultQueue /\ reported' = reported
      /\ QueueInv /\ LossInv
  BY <1>1 DEF Worker!Deliver, WorkerParts
<1>3. PICK r : r = [Worker!IdleSlot EXCEPT !.pc = "received", !.msg = k]
  OBVIOUS
<1>4. r \in Worker!Slot /\ r.pc = "received" /\ r.msg = k
  BY <1>3 DEF Worker!Slot, Worker!IdleSlot
<1>5. slots' = [slots EXCEPT ![w] = r]
  BY <1>1, <1>3 DEF Worker!Deliver
<1>6. slots' \in [Slots -> Worker!Slot] /\ slots'[w] = r /\ \A v \in Slots \ {w} : slots'[v] = slots[v]
  BY <1>2, <1>4, <1>5 DEF QueueInv
<1>7. /\ msgs' \in [Worker!MsgIds -> Worker!Msg] /\ msgs'[k].at = "worker" /\ Grows
      /\ \A m \in Worker!MsgIds \ {k} : msgs'[m] = msgs[m]
  <2>1. "worker" \in Worker!Places \ {"none"} /\ "worker" \in {"task", "retry", "worker"}
    BY DEF Worker!Places
  <2> QED
    BY <1>2, <2>1, PlaceChanges
<1>8. Onward /\ ResultInv'
  BY <1>2, StoreRests, ResultsStay DEF WorkerParts, vars
<1>9. QueueInv'
  <2>1. \A m \in Worker!MsgIds : msgs'[m].at # "none" => Fits(msgs[m])'
    BY <1>2, <1>7, <1>8, GrowingKeeps
  <2>2. \A v \in Slots \ {w} : Busy(v)' => Busy(v) /\ slots'[v] = slots[v]
    BY <1>6 DEF Busy
  <2>3. \A v \in Slots : slots'[v].pc = "report" => FinalOutcome(slots'[v].outcome)
    BY <1>2, <1>4, <1>6 DEF QueueInv
  <2>4. \A v \in Slots : Busy(v)' => slots'[v].msg \in Worker!MsgIds /\ msgs'[slots'[v].msg].at = "worker"
    BY <1>2, <1>4, <1>6, <1>7, <2>2 DEF QueueInv
  <2>5. \A v \in Slots \ {w} : Busy(v)' => slots'[v].msg # k
    BY <1>2, <2>2 DEF QueueInv
  <2>6. \A u, v \in Slots : Busy(u)' /\ Busy(v)' /\ slots'[u].msg = slots'[v].msg => u = v
    BY <1>2, <1>4, <1>6, <2>2, <2>5 DEF QueueInv
  <2> QED
    BY <1>6, <1>7, <2>1, <2>3, <2>4, <2>6 DEF QueueInv, FinalOutcome
<1>10. ASSUME NEW v \in Slots, slots'[v].pc = "ack" PROVE Relieved(slots[v].msg)'
  <2>1. PICK m : m = slots[v].msg
    OBVIOUS
  <2>2. m \in Worker!MsgIds /\ msgs[m].at # "none" /\ Relieved(m) /\ slots'[v].msg = m
    BY <1>2, <1>4, <1>6, <1>10, <2>1 DEF QueueInv, LossInv, Busy
  <2>3. Relieved(m)'
    BY <1>2, <1>7, <1>8, <2>2, GrowingKeeps
  <2> QED
    BY <2>2, <2>3
<1> QED
  BY <1>2, <1>7, <1>8, <1>9, <1>10, GrowingKeeps DEF WorkerParts, LossInv, Grows

(* The broker's own moves and the clock keep the parts: a retry message     *)
(* goes back to its task queue, and the deadline is not part of them.       *)
LEMMA BrokerKeeps ==
    ASSUME WorkerParts, UNCHANGED vars,
           \/ \E m \in RetryMsgs : Worker!RetryDelayOver(m)
           \/ \E s \in SubIds : Worker!TimePasses(s)
           \/ UNCHANGED workerVars
    PROVE  WorkerParts' /\ Kept
<1>1. resultQueue' = resultQueue /\ reported' = reported /\ slots' = slots /\ QueueInv /\ LossInv
  BY DEF Worker!RetryDelayOver, Worker!TimePasses, workerVars, WorkerParts
<1>2. Onward /\ ResultInv'
  BY <1>1, StoreRests, ResultsStay DEF WorkerParts, vars
<1>3. /\ msgs' \in [Worker!MsgIds -> Worker!Msg] /\ Grows
      /\ \A m \in Worker!MsgIds : msgs[m].at = "worker" => msgs'[m].at = "worker"
  <2>1. ASSUME NEW k \in RetryMsgs, Worker!RetryDelayOver(k)
        PROVE  /\ msgs' \in [Worker!MsgIds -> Worker!Msg] /\ Grows
               /\ \A m \in Worker!MsgIds : msgs[m].at = "worker" => msgs'[m].at = "worker"
    <3>1. msgs[k].at = "retry" /\ msgs' = [msgs EXCEPT ![k].at = "task"] /\ k \in Worker!MsgIds
      BY <2>1 DEF Worker!RetryDelayOver, Worker!MsgIds
    <3>2. "task" \in Worker!Places \ {"none"} /\ "task" \in {"task", "retry", "worker"}
      BY DEF Worker!Places
    <3> QED
      BY <1>1, <3>1, <3>2, PlaceChanges
  <2>2. CASE msgs' = msgs
    BY <1>1, <2>2 DEF QueueInv, Grows, Kept, Worker!Queued
  <2> QED
    BY <2>1, <2>2 DEF Worker!TimePasses, workerVars
<1> QED
  BY <1>1, <1>2, <1>3, SlotsStay DEF WorkerParts, Grows

(* Every step of a slot keeps the parts. *)
LEMMA SlotStepKeeps ==
    ASSUME TypeOK, WorkerParts, UNCHANGED vars, NEW w \in Slots, Worker!WorkerStep(w)
    PROVE  WorkerParts' /\ Kept
<1>1. CASE Worker!Receive(w)
  BY <1>1, DeliveryKeeps
<1>2. CASE Worker!Expired(w) \/ \E outcome \in Worker!Outcomes : Worker!Execute(w, outcome)
  BY <1>2, DecisionsKeep
<1>3. CASE \/ Worker!ReportResult(w) \/ Worker!ReportRefused(w) \/ Worker!ReportRetry(w)
           \/ Worker!ReportFails(w) \/ Worker!WorkerLost(w)
  BY <1>3, ReportsKeep
<1>4. CASE Worker!Ack(w)
  BY <1>4, AckKeeps
<1> QED
  BY <1>1, <1>2, <1>3, <1>4 DEF Worker!WorkerStep, Worker!Handle

-----------------------------------------------------------------------------
(* A transaction of the store only adds outbox rows, and hands them to the  *)
(* delivery.                                                                *)
OutboxGrows == \A o \in OutboxIds : outbox[o].type # "none" => outbox'[o] = outbox[o]
HandsOver == IF Inserted = {} THEN UNCHANGED deliveryVars ELSE Outbox!Emit(Inserted)

(* What a transaction adds becomes pending; the delivery's part is kept.    *)
LEMMA HandingOverKeeps ==
    ASSUME DeliveryInv, OutboxGrows, HandsOver
    PROVE  DeliveryInv' /\ taken' = taken
<1>1. CASE Inserted = {}
  <2>1. state' = state /\ taken' = taken
    BY <1>1 DEF HandsOver, deliveryVars
  <2>2. \A o \in OutboxIds : outbox[o].type = "none" <=> outbox'[o].type = "none"
    BY <1>1 DEF Inserted, OutboxGrows
  <2> QED
    BY <2>1, <2>2 DEF DeliveryInv
<1>2. CASE Inserted # {}
  <2>1. /\ state' = [o \in OutboxIds |-> IF o \in Inserted THEN "pending" ELSE state[o]]
        /\ taken' = taken
    BY <1>2 DEF HandsOver, Outbox!Emit
  <2>2. \A o \in OutboxIds : /\ o \in Inserted <=> outbox[o].type = "none" /\ outbox'[o].type # "none"
                             /\ outbox[o].type # "none" => outbox'[o].type # "none"
    BY DEF Inserted, OutboxGrows
  <2>3. \A o \in OutboxIds : state'[o] = IF o \in Inserted THEN "pending" ELSE state[o]
    BY <2>1
  <2>4. state' \in [OutboxIds -> {"absent", "pending", "published", "dead"}]
    BY <2>1 DEF DeliveryInv
  <2>5. \A o \in OutboxIds : /\ state'[o] = "absent" <=> outbox'[o].type = "none"
                             /\ state'[o] = "published" => o \in taken'
    BY <2>1, <2>2, <2>3 DEF DeliveryInv
  <2>6. \A o \in taken' : state'[o] # "absent"
    BY <2>1, <2>3 DEF DeliveryInv
  <2> QED
    BY <2>1, <2>4, <2>5, <2>6 DEF DeliveryInv
<1> QED
  BY <1>1, <1>2

(* What the broker took before has become a message and stays one. *)
LEMMA TakenStays ==
    ASSUME DeliveryInv, TakenInv, OutboxGrows, Kept, taken' = taken
    PROVE  TakenInv'
<1>1. ASSUME NEW o \in taken, outbox'[o].type = "judge.requested" PROVE BecameMessage(o)'
  <2>1. outbox'[o] = outbox[o]
    BY DEF DeliveryInv, OutboxGrows
  <2>2. PICK m \in Worker!MsgIds : msgs[m].at # "none" /\ msgs[m].sub = outbox[o].sub
    BY <1>1, <2>1 DEF TakenInv, BecameMessage
  <2> QED
    BY <2>1, <2>2 DEF BecameMessage, Kept
<1> QED
  BY <1>1 DEF TakenInv

(* A step of a handler keeps the store's part, adds outbox rows only and    *)
(* lets rows go onward: a replaced row is invalidated and no longer waits.  *)
LEMMA HandlersGoOn ==
    ASSUME StoreInv, NEW c \in Callers, CallStep(c), resultQueue' = resultQueue
    PROVE  StoreInv' /\ OutboxGrows /\ Onward /\ processed' = processed
<1>1. TypeOK /\ RequestInv /\ StoreStep
  BY DEF StoreInv, StoreStep
<1>2. StoreInv'
  BY <1>1, StoreTypeStep, RequestStep DEF StoreInv
<1>3. processed' = processed
  BY DEF CallStep, BeginCreate, CreateWithOutboxAndIdempotency, BeginRejudge, InvalidateAndRequeue, CallFails
<1>4. ASSUME \A s \in SubIds : Exists(s) =>
               \/ submissions'[s] = submissions[s]
               \/ /\ submissions'[s].rev = submissions[s].rev
                  /\ submissions'[s].status = "INVALIDATED"
      PROVE  Onward
  <2>1. ASSUME NEW s \in SubIds, Exists(s), submissions'[s] = submissions[s]
        PROVE  Exists(s)' /\ (Settled(s) => Settled(s)')
    BY <1>3, <2>1 DEF Exists, Settled, Waiting, ResultOnItsWay
  <2>2. ASSUME NEW s \in SubIds, submissions'[s].status = "INVALIDATED"
        PROVE  Exists(s)' /\ Settled(s)'
    BY <2>2 DEF Exists, Settled, Waiting
  <2> QED
    BY <1>4, <2>1, <2>2 DEF Onward
<1>5. CASE TablesStay
  BY <1>4, <1>5, <1>2, <1>3 DEF TablesStay, OutboxGrows
<1>6. ASSUME NEW rev \in Revisions, NEW s \in SubIds, NEW o \in OutboxIds, CreateCommits(c, rev, s, o)
      PROVE  OutboxGrows /\ Onward
  <2>1. CreateWrites(calls[c], rev, s, o)
    BY <1>1, <1>6, CreateEffect
  <2>2. /\ submissions[s].status = "ABSENT" /\ \A t \in SubIds \ {s} : submissions'[t] = submissions[t]
        /\ outbox[o].type = "none" /\ \A p \in OutboxIds \ {o} : outbox'[p] = outbox[p]
    BY <2>1 DEF CreateWrites
  <2> QED
    BY <1>4, <2>2 DEF OutboxGrows, Exists
<1>7. ASSUME NEW rev \in Revisions, NEW s \in SubIds, NEW o1 \in OutboxIds, NEW o2 \in OutboxIds,
             RejudgeCommits(c, rev, s, o1, o2)
      PROVE  OutboxGrows /\ Onward
  <2>0. PICK t : t = calls[c].target
    OBVIOUS
  <2>1. RejudgeWrites(calls[c], rev, s, o1, o2)
    BY <1>1, <1>7, RejudgeEffect
  <2>2. /\ t \in SubIds /\ RowsRequeued(t, s, rev)
        /\ outbox[o1].type = "none" /\ outbox[o2].type = "none"
        /\ \A p \in OutboxIds \ {o1, o2} : outbox'[p] = outbox[p]
    BY <2>0, <2>1 DEF RejudgeWrites
  <2>3. /\ submissions[s].status = "ABSENT"
        /\ submissions'[t] = [submissions[t] EXCEPT !.status = "INVALIDATED"]
        /\ \A u \in SubIds \ {s, t} : submissions'[u] = submissions[u]
    BY <2>2 DEF RowsRequeued
  <2>4. submissions'[t].rev = submissions[t].rev /\ submissions'[t].status = "INVALIDATED"
    BY <1>1, <2>2, <2>3 DEF TypeOK, Row
  <2> QED
    BY <1>4, <2>2, <2>3, <2>4 DEF OutboxGrows, Exists
<1> QED
  BY <1>1, <1>2, <1>3, <1>5, <1>6, <1>7, CallCases

(* A handler's step keeps the invariant. *)
LEMMA SubmitKeeps ==
    ASSUME SystemInv, NEW c \in Callers, SubmitStep(c)
    PROVE  SystemInv'
<1>1. CallStep(c) /\ HandsOver /\ UNCHANGED workerVars
  BY DEF SubmitStep, HandsOver
<1>2. UNCHANGED <<msgs, slots, resultQueue, reported>>
  BY <1>1 DEF workerVars
<1>3. StoreInv' /\ OutboxGrows /\ Onward /\ processed' = processed
  BY <1>1, <1>2, HandlersGoOn DEF SystemInv
<1>4. DeliveryInv' /\ taken' = taken
  BY <1>1, <1>3, HandingOverKeeps DEF SystemInv
<1>5. Grows /\ Kept
  BY <1>2 DEF Grows, Kept, Worker!Queued
<1>6. TakenInv'
  BY <1>3, <1>4, <1>5, TakenStays DEF SystemInv
<1>7. ResultInv'
  BY <1>2, <1>3, ResultsStay DEF SystemInv
<1>8. QueueInv' /\ LossInv'
  <2>1. /\ msgs' \in [Worker!MsgIds -> Worker!Msg]
        /\ \A m \in Worker!MsgIds : msgs[m].at = "worker" => msgs'[m].at = "worker"
    BY <1>2 DEF SystemInv, QueueInv
  <2> QED
    BY <1>2, <1>3, <1>5, <2>1, SlotsStay DEF SystemInv
<1> QED
  BY <1>3, <1>4, <1>6, <1>7, <1>8 DEF SystemInv

(* Applying a result takes its row out of waiting, keeps the store's part   *)
(* and adds outbox rows only; no other row is touched.                      *)
LEMMA ResultIsApplied ==
    ASSUME StoreInv, ResultInv, NEW e \in resultQueue, ApplyJudgeResult(e)
    PROVE  /\ StoreInv' /\ OutboxGrows /\ processed' = processed \cup {e.id} /\ ~Waiting(e.sub)'
           /\ \A s \in SubIds : Exists(s) =>
                /\ Exists(s)' /\ submissions'[s].rev = submissions[s].rev
                /\ s # e.sub => submissions'[s] = submissions[s]
<1>1. WellFormed(e) /\ ~e.retryable /\ Fits(e) /\ TypeOK /\ RequestInv
  BY DEF ResultInv, GoodResult, StoreInv
<1>2. TypeOK'
  BY <1>1, AppliedTypes
<1>3. processed' = processed \cup {e.id}
  BY DEF ApplyJudgeResult
<1>4. CASE submissions[e.sub].status \in TerminalStatus
  <2>1. submissions' = submissions /\ outbox' = outbox
    BY <1>4 DEF ApplyJudgeResult
  <2>2. RequestInv'
    BY <1>1, <2>1 DEF RequestInv, RequestsHaveRows, RequestedOnce, Exists
  <2>3. ~Waiting(e.sub)'
    BY <1>4, <2>1 DEF Waiting, TerminalStatus
  <2> QED
    BY <1>2, <1>3, <2>1, <2>2, <2>3 DEF StoreInv, OutboxGrows, Exists
<1>5. CASE submissions[e.sub].status \notin TerminalStatus
  <2>1. ResultCommits(e)
    BY <1>5 DEF ResultCommits
  <2>2. ResultWrites(e) /\ RequestInv'
    BY <1>1, <2>1, ResultEffect, ResultKeepsRequests
  <2>3. /\ e.sub \in SubIds /\ submissions[e.sub] \in Row
        /\ submissions'[e.sub] = Judged(submissions[e.sub], e)
        /\ \A t \in SubIds \ {e.sub} : submissions'[t] = submissions[t]
    BY <1>1, <2>2 DEF ResultWrites, TypeOK
  <2>4. Judged(submissions[e.sub], e).status = "DONE"
    BY <1>1, <2>3 DEF Judged, Row
  <2>5. Judged(submissions[e.sub], e).rev = submissions[e.sub].rev
    BY <1>1, <2>3, JudgedRow
  <2>6. OutboxGrows
    BY <2>2 DEF ResultWrites, OutboxGrows
  <2> QED
    BY <1>2, <1>3, <2>2, <2>3, <2>4, <2>5, <2>6 DEF StoreInv, Waiting, Exists
<1> QED
  BY <1>4, <1>5

(* Consuming a result keeps the invariant: a submission that relied on the  *)
(* result has its verdict now, one that relied on another still can.        *)
LEMMA ConsumeKeeps ==
    ASSUME SystemInv, NEW e \in resultQueue, ConsumeResult(e)
    PROVE  SystemInv'
<1>1. /\ StoreInv /\ DeliveryInv /\ QueueInv /\ ResultInv /\ TakenInv /\ LossInv
      /\ GoodResult(e) /\ e.id \in Nat
  BY DEF SystemInv, ResultInv, GoodResult, WellFormed
<1>2. Disposition(e) = "ack"
  BY <1>1 DEF Disposition, GoodResult, Fits
<1>3. UNCHANGED <<msgs, slots, reported>> /\ resultQueue \ {e} \subseteq resultQueue' /\ resultQueue' \subseteq resultQueue
  BY DEF ConsumeResult, Acknowledge
<1>4. /\ StoreInv' /\ OutboxGrows /\ Onward /\ HandsOver
      /\ processed' \subseteq processed \cup {e.id}
  <2>1. CASE e.id \notin processed
    <3>1. ApplyJudgeResult(e) /\ HandsOver
      BY <1>2, <2>1 DEF ConsumeResult, HandsOver
    <3>2. /\ StoreInv' /\ OutboxGrows /\ processed' = processed \cup {e.id} /\ ~Waiting(e.sub)'
          /\ \A s \in SubIds : Exists(s) =>
               /\ Exists(s)' /\ submissions'[s].rev = submissions[s].rev
               /\ s # e.sub => submissions'[s] = submissions[s]
      BY <1>1, <3>1, ResultIsApplied
    <3>3. ASSUME NEW s \in SubIds, Exists(s), Settled(s) PROVE Settled(s)'
      <4>1. CASE s = e.sub
        BY <3>2, <4>1 DEF Settled
      <4>2. CASE s # e.sub /\ ~Waiting(s)
        BY <3>2, <3>3, <4>2 DEF Settled, Waiting
      <4>3. CASE s # e.sub /\ ResultOnItsWay(s)
        <5>1. PICK f \in resultQueue : f.sub = s /\ f.rev = submissions[s].rev /\ f.id \notin processed
          BY <4>3 DEF ResultOnItsWay
        <5>2. f # e /\ f.id # e.id
          BY <1>1, <4>3, <5>1 DEF ResultInv
        <5> QED
          BY <1>3, <3>2, <3>3, <5>1, <5>2 DEF Settled, ResultOnItsWay
      <4> QED
        BY <3>3, <4>1, <4>2, <4>3 DEF Settled
    <3> QED
      BY <3>1, <3>2, <3>3 DEF Onward
  <2>2. CASE e.id \in processed
    <3>1. UNCHANGED vars /\ UNCHANGED deliveryVars
      BY <2>2 DEF ConsumeResult
    <3>2. submissions' = submissions /\ outbox' = outbox /\ processed' = processed
      BY <3>1 DEF vars
    <3>3. TypeOK' /\ RequestInv'
      BY <1>1, <3>1, StoreTypeStep, RequestStep DEF StoreInv
    <3>4. \A s : Settled(s) => Settled(s)'
      BY <1>3, <2>2, <3>2 DEF Settled, Waiting, ResultOnItsWay
    <3>5. Inserted = {}
      BY <3>2 DEF Inserted
    <3> QED
      BY <3>1, <3>2, <3>3, <3>4, <3>5 DEF StoreInv, OutboxGrows, Onward, Exists, HandsOver
  <2> QED
    BY <2>1, <2>2
<1>5. DeliveryInv' /\ taken' = taken
  BY <1>1, <1>4, HandingOverKeeps
<1>6. Grows /\ Kept
  BY <1>3 DEF Grows, Kept, Worker!Queued
<1>7. TakenInv'
  BY <1>1, <1>4, <1>5, <1>6, TakenStays
<1>8. ResultInv'
  <2>1. ASSUME NEW f \in resultQueue' PROVE GoodResult(f)'
    BY <1>1, <1>3, <1>4, FittingKeeps DEF ResultInv, GoodResult, WellFormed, Fits
  <2>2. \A i \in processed' : i <= reported'
    BY <1>1, <1>3, <1>4 DEF ResultInv, GoodResult
  <2> QED
    BY <1>1, <1>3, <2>1, <2>2 DEF ResultInv
<1>9. QueueInv' /\ LossInv'
  <2>1. /\ msgs' \in [Worker!MsgIds -> Worker!Msg]
        /\ \A m \in Worker!MsgIds : msgs[m].at = "worker" => msgs'[m].at = "worker"
    BY <1>1, <1>3 DEF QueueInv
  <2> QED
    BY <1>1, <1>3, <1>4, <1>6, <2>1, SlotsStay
<1> QED
  BY <1>4, <1>5, <1>7, <1>8, <1>9 DEF SystemInv

-----------------------------------------------------------------------------
(* The broker taking a row keeps the invariant: a request becomes a message *)
(* that fits the row it is for.                                             *)
LEMMA PublishKeeps ==
    ASSUME SystemInv, NEW o \in OutboxIds, PublishStep(o)
    PROVE  SystemInv'
<1>1. /\ StoreInv /\ TypeOK /\ RequestInv /\ DeliveryInv /\ QueueInv /\ ResultInv /\ TakenInv /\ LossInv
      /\ UNCHANGED vars /\ Outbox!Take(o)
  BY DEF SystemInv, StoreInv, PublishStep
<1>2. /\ state[o] # "absent" /\ taken' = taken \cup {o} /\ state' = state
      /\ outbox' = outbox /\ submissions' = submissions /\ processed' = processed
  BY <1>1 DEF Outbox!Take, vars
<1>3. StoreInv'
  BY <1>1, StoreTypeStep, RequestStep DEF StoreInv
<1>4. DeliveryInv'
  BY <1>1, <1>2 DEF DeliveryInv
<1>5. slots' = slots /\ resultQueue' = resultQueue /\ reported' = reported
  BY DEF PublishStep, Worker!Enqueue, workerVars
<1>6. Onward /\ ResultInv'
  BY <1>1, <1>2, <1>5, StoreRests, ResultsStay
<1>7. OutboxGrows
  BY <1>2 DEF OutboxGrows
<1>8. /\ Grows /\ msgs' \in [Worker!MsgIds -> Worker!Msg]
      /\ \A m \in Worker!MsgIds : msgs[m].at = "worker" => msgs'[m].at = "worker"
      /\ outbox[o].type = "judge.requested" => BecameMessage(o)'
  <2>1. CASE outbox[o].type = "judge.requested"
    <3>1. PICK k \in TaskMsgs : Worker!Enqueue(k, outbox[o].sub, outbox[o].rev)
      BY <2>1 DEF PublishStep
    <3>2. PICK x : x = [at |-> "task", sub |-> outbox[o].sub, rev |-> outbox[o].rev, attempt |-> 0]
      OBVIOUS
    <3>3. k \in Worker!MsgIds /\ msgs[k].at = "none" /\ msgs' = [msgs EXCEPT ![k] = x]
      BY <3>1, <3>2 DEF Worker!Enqueue, Worker!FreeMsg, Worker!MsgIds
    <3>4. Fits(outbox[o])
      BY <1>1, <2>1 DEF RequestInv, RequestsHaveRows, RequestedOnce, Fits
    <3>5. x.at = "task" /\ x.sub = outbox[o].sub /\ x.rev = outbox[o].rev
      BY <3>2
    <3>6. x \in Worker!Msg
      BY <1>1, <3>2, <3>4 DEF Worker!Msg, Worker!Places, Worker!NoResult, TypeOK, OutboxRow, NoVerdict, Fits
    <3>7. /\ msgs' \in [Worker!MsgIds -> Worker!Msg] /\ msgs'[k] = x
          /\ \A m \in Worker!MsgIds \ {k} : msgs'[m] = msgs[m]
      BY <1>1, <3>3, <3>6 DEF QueueInv
    <3>8. Fits(msgs[k])'
      BY <1>6, <3>4, <3>5, <3>7, FittingKeeps DEF Fits
    <3>9. Grows
      BY <3>3, <3>5, <3>7, <3>8 DEF Grows, Kept, Worker!Queued
    <3>10. BecameMessage(o)'
      BY <1>2, <3>3, <3>5, <3>7 DEF BecameMessage
    <3> QED
      BY <3>3, <3>7, <3>9, <3>10
  <2>2. CASE outbox[o].type # "judge.requested"
    <3>1. msgs' = msgs
      BY <2>2 DEF PublishStep, workerVars
    <3> QED
      BY <1>1, <2>2, <3>1 DEF QueueInv, Grows, Kept, Worker!Queued
  <2> QED
    BY <2>1, <2>2
<1>9. QueueInv' /\ LossInv'
  BY <1>1, <1>5, <1>6, <1>8, SlotsStay
<1>10. TakenInv'
  <2>1. ASSUME NEW p \in taken, outbox[p].type = "judge.requested" PROVE BecameMessage(p)'
    BY <1>1, <1>2, <1>8, <2>1 DEF TakenInv, BecameMessage, Grows, Kept
  <2> QED
    BY <1>2, <1>8, <2>1 DEF TakenInv
<1> QED
  BY <1>3, <1>4, <1>6, <1>9, <1>10 DEF SystemInv

(* Settling a row and giving one up keep the invariant. *)
LEMMA SettlingKeeps ==
    ASSUME SystemInv, NEW o \in OutboxIds, SettleStep(o) \/ GiveUpStep(o)
    PROVE  SystemInv'
<1>1. /\ StoreInv /\ DeliveryInv /\ WorkerParts /\ TakenInv /\ TypeOK /\ RequestInv
      /\ UNCHANGED vars /\ UNCHANGED workerVars /\ (Outbox!Settle(o) \/ Outbox!GiveUp(o))
  BY DEF SystemInv, WorkerParts, StoreInv, SettleStep, GiveUpStep
<1>2. WorkerParts' /\ Kept
  BY <1>1, BrokerKeeps
<1>3. StoreInv'
  BY <1>1, StoreTypeStep, RequestStep DEF StoreInv
<1>4. DeliveryInv' /\ taken' = taken
  <2>1. outbox' = outbox
    BY <1>1 DEF vars
  <2>2. CASE Outbox!Settle(o)
    BY <1>1, <2>1, <2>2 DEF DeliveryInv, Outbox!Settle
  <2>3. CASE Outbox!GiveUp(o)
    BY <1>1, <2>1, <2>3 DEF DeliveryInv, Outbox!GiveUp
  <2> QED
    BY <1>1, <2>2, <2>3
<1>5. OutboxGrows
  BY <1>1 DEF OutboxGrows, vars
<1> QED
  BY <1>1, <1>2, <1>3, <1>4, <1>5, TakenStays DEF SystemInv, WorkerParts

(* The worker, its queues and the clock keep the invariant. *)
LEMMA WorkerKeeps ==
    ASSUME SystemInv,
           \/ \E w \in Slots : WorkerStep(w)
           \/ \E m \in RetryMsgs : RetryDelayOver(m)
           \/ \E s \in SubIds : DeadlineStep(s)
           \/ UNCHANGED systemVars
    PROVE  SystemInv'
<1>1. /\ StoreInv /\ DeliveryInv /\ WorkerParts /\ TakenInv /\ TypeOK /\ RequestInv
      /\ UNCHANGED vars /\ UNCHANGED deliveryVars
  BY DEF SystemInv, WorkerParts, StoreInv, WorkerStep, RetryDelayOver, DeadlineStep, systemVars
<1>2. WorkerParts' /\ Kept
  <2>1. ASSUME NEW w \in Slots, WorkerStep(w) PROVE WorkerParts' /\ Kept
    BY <1>1, <2>1, SlotStepKeeps DEF WorkerStep
  <2>2. CASE \/ \E m \in RetryMsgs : RetryDelayOver(m)
             \/ \E s \in SubIds : DeadlineStep(s)
             \/ UNCHANGED systemVars
    BY <1>1, <2>2, BrokerKeeps DEF RetryDelayOver, DeadlineStep, systemVars
  <2> QED
    BY <2>1, <2>2
<1>3. StoreInv'
  BY <1>1, StoreTypeStep, RequestStep DEF StoreInv
<1>4. DeliveryInv' /\ taken' = taken
  BY <1>1 DEF DeliveryInv, deliveryVars, vars
<1>5. OutboxGrows
  BY <1>1 DEF OutboxGrows, vars
<1> QED
  BY <1>1, <1>2, <1>3, <1>4, <1>5, TakenStays DEF SystemInv, WorkerParts

(* The initial state satisfies the invariant. *)
LEMMA SystemStarts == SystemInit => SystemInv
<1> SUFFICES ASSUME SystemInit PROVE SystemInv
  OBVIOUS
<1>1. Init /\ Outbox!DeliveryInit /\ Worker!WorkerInit
  BY DEF SystemInit
<1>2. StoreInv
  BY <1>1, StoreTypeInit, RequestInit DEF StoreInv
<1>3. \A o \in OutboxIds : outbox[o].type = "none"
  BY <1>1 DEF Init, NoEvent
<1>4. DeliveryInv /\ TakenInv
  BY <1>1, <1>3 DEF Outbox!DeliveryInit, DeliveryInv, TakenInv
<1>5. Worker!NoTask \in Worker!Msg /\ Worker!NoTask.at = "none"
  BY DEF Worker!NoTask, Worker!Msg, Worker!Places, Worker!NoMsg, Worker!NoResult
<1>6. Worker!IdleSlot \in Worker!Slot /\ Worker!IdleSlot.pc = "idle"
  BY DEF Worker!IdleSlot, Worker!Slot
<1>7. /\ msgs \in [Worker!MsgIds -> Worker!Msg] /\ \A m \in Worker!MsgIds : msgs[m].at = "none"
      /\ slots \in [Slots -> Worker!Slot] /\ \A w \in Slots : slots[w].pc = "idle"
  BY <1>1, <1>5, <1>6 DEF Worker!WorkerInit
<1>8. QueueInv /\ LossInv
  BY <1>7 DEF QueueInv, LossInv, Busy
<1>9. ResultInv
  BY <1>1 DEF Worker!WorkerInit, ResultInv, Init
<1> QED
  BY <1>2, <1>4, <1>8, <1>9 DEF SystemInv

(* The invariant holds in every reachable state of the judging loop. *)
THEOREM SystemInvariant == SystemSpec => []SystemInv
<1>1. SystemInv /\ [SystemNext]_systemVars => SystemInv'
  <2> SUFFICES ASSUME SystemInv, [SystemNext]_systemVars PROVE SystemInv'
    OBVIOUS
  <2>1. ASSUME NEW c \in Callers, SubmitStep(c) PROVE SystemInv'
    BY <2>1, SubmitKeeps
  <2>2. ASSUME NEW o \in OutboxIds, PublishStep(o) \/ SettleStep(o) \/ GiveUpStep(o) PROVE SystemInv'
    BY <2>2, PublishKeeps, SettlingKeeps
  <2>3. ASSUME NEW e \in resultQueue, ConsumeResult(e) PROVE SystemInv'
    BY <2>3, ConsumeKeeps
  <2> QED
    BY <2>1, <2>2, <2>3, WorkerKeeps DEF SystemNext
<1> QED
  BY <1>1, SystemStarts, PTL DEF SystemSpec

(* While a submission waits for its verdict, its request is in the outbox,  *)
(* a task message for it is on the way or a result the store will accept is *)
(* in the result queue: no crash, lost acknowledgement, failed publish,     *)
(* retry or rejudge drops it between the components.                        *)
THEOREM SubmissionsAreNeverLost == SystemSpec => []NoSubmissionLost
<1>1. SystemInv => NoSubmissionLost
  <2> SUFFICES ASSUME SystemInv, NEW s \in SubIds, Waiting(s), ~ResultOnItsWay(s), ~RequestOnItsWay(s)
               PROVE  TaskOnItsWay(s)
    BY DEF NoSubmissionLost
  <2>1. Exists(s) /\ ~Settled(s)
    BY DEF Waiting, Exists, Settled
  <2>2. PICK o \in OutboxIds : outbox[o].type = "judge.requested" /\ outbox[o].sub = s
    BY <2>1 DEF SystemInv, StoreInv, RequestInv, RequestedOnce
  <2>3. state[o] # "absent" /\ state[o] # "pending" /\ (state[o] = "dead" => o \in taken)
    BY <2>2 DEF RequestOnItsWay, SystemInv, DeliveryInv
  <2>4. o \in taken
    BY <2>3 DEF SystemInv, DeliveryInv
  <2>5. PICK m \in Worker!MsgIds : msgs[m].at # "none" /\ msgs[m].sub = s
    BY <2>2, <2>4 DEF SystemInv, TakenInv, BecameMessage
  <2>6. PICK n \in Worker!MsgIds : Worker!Queued(n) /\ msgs[n].sub = s
    BY <2>1, <2>5 DEF SystemInv, LossInv, Followed
  <2>7. msgs[n].rev = submissions[s].rev
    BY <2>6 DEF SystemInv, QueueInv, Fits, Worker!Queued
  <2> QED
    BY <2>6, <2>7 DEF TaskOnItsWay
<1> QED
  BY <1>1, SystemInvariant, PTL

(* No result of the worker is rejected for its revision or requeued for an  *)
(* unknown submission, although rejudges replace rows while results are in  *)
(* flight.                                                                  *)
THEOREM EveryResultIsAcceptable == SystemSpec => []ResultsAreAcceptable
<1>1. SystemInv => ResultsAreAcceptable
  BY DEF SystemInv, ResultInv, GoodResult, Fits, ResultsAreAcceptable, Disposition
<1> QED
  BY <1>1, SystemInvariant, PTL

-----------------------------------------------------------------------------
(***************************************************************************)
(* The loop is a composition: seen from each component, every step of the  *)
(* loop is a step of that component or leaves it alone.                    *)
(***************************************************************************)

(* Consuming a result is a step of the store, with a well-formed event. *)
LEMMA ConsumedIsWellFormed ==
    ASSUME SystemInv, NEW e \in resultQueue, ConsumeResult(e)
    PROVE  [StoreStep]_vars /\ HandsOver
<1>1. WellFormed(e)
  BY DEF SystemInv, ResultInv, GoodResult
<1>2. CASE Disposition(e) = "ack" /\ e.id \notin processed
  BY <1>1, <1>2 DEF ConsumeResult, StoreStep, HandsOver
<1>3. CASE ~(Disposition(e) = "ack" /\ e.id \notin processed)
  <2>1. UNCHANGED vars /\ UNCHANGED deliveryVars
    BY <1>3 DEF ConsumeResult
  <2>2. Inserted = {}
    BY <2>1 DEF vars, Inserted
  <2> QED
    BY <2>1, <2>2 DEF HandsOver
<1> QED
  BY <1>2, <1>3

(* The store of the loop is the store of SubmissionStore: its clients, and  *)
(* a worker whose results are delivered twice, late and for rows that have  *)
(* been replaced, are within what the store was proved for.                 *)
THEOREM LoopImplementsStore == SystemSpec => OpenSpec
<1>1. SystemInit => Init
  BY DEF SystemInit
<1>2. SystemInv /\ [SystemNext]_systemVars => [StoreStep]_vars
  <2> SUFFICES ASSUME SystemInv, [SystemNext]_systemVars PROVE [StoreStep]_vars
    OBVIOUS
  <2>1. ASSUME NEW c \in Callers, SubmitStep(c) PROVE StoreStep
    BY <2>1 DEF SubmitStep, StoreStep
  <2>2. ASSUME NEW o \in OutboxIds, PublishStep(o) \/ SettleStep(o) \/ GiveUpStep(o) PROVE UNCHANGED vars
    BY <2>2 DEF PublishStep, SettleStep, GiveUpStep
  <2>3. ASSUME NEW e \in resultQueue, ConsumeResult(e) PROVE [StoreStep]_vars
    BY <2>3, ConsumedIsWellFormed
  <2>4. ASSUME \/ \E w \in Slots : WorkerStep(w)
               \/ \E m \in RetryMsgs : RetryDelayOver(m)
               \/ \E s \in SubIds : DeadlineStep(s)
               \/ UNCHANGED systemVars
        PROVE  UNCHANGED vars
    BY <2>4 DEF WorkerStep, RetryDelayOver, DeadlineStep, systemVars
  <2> QED
    BY <2>1, <2>2, <2>3, <2>4 DEF SystemNext
<1> QED
  BY <1>1, <1>2, SystemInvariant, PTL DEF SystemSpec, OpenSpec

(* So the loop keeps what the store promises: a result that comes late or   *)
(* again overwrites no verdict and revives no replaced row.                 *)
THEOREM LoopKeepsFinalRows == SystemSpec => TerminalIsStable
BY LoopImplementsStore, OpenTerminal

(* In the loop as well the contest service hears of every contest verdict   *)
(* exactly once, although a task may be executed, reported and consumed     *)
(* many times.                                                              *)
THEOREM LoopAnnouncesOnce == SystemSpec => []JudgedOnce
BY LoopImplementsStore, OpenJudged

(* In the loop as well rows have one origin, answers to repeated requests   *)
(* agree and contest rows carry a time inside the contest interval.         *)
THEOREM LoopKeepsRequests == SystemSpec => [](OneOrigin /\ AnswersAgree /\ ContestRowsInInterval)
BY LoopImplementsStore, OpenOrigin, OpenAnswers, OpenInterval, PTL

(* Handing over is a delivery step: rows of one commit become pending       *)
(* together, and none of them was known to the delivery before.             *)
LEMMA HandingOverDelivers ==
    ASSUME DeliveryInv, HandsOver
    PROVE  [Outbox!DeliveryNext]_Outbox!deliveryVars
<1>1. CASE Inserted = {}
  BY <1>1 DEF HandsOver, deliveryVars, Outbox!deliveryVars
<1>2. CASE Inserted # {}
  <2>1. Inserted \in SUBSET OutboxIds
    BY DEF Inserted
  <2> QED
    BY <1>2, <2>1 DEF HandsOver, Outbox!DeliveryNext
<1> QED
  BY <1>1, <1>2

(* The outbox of the loop is the at-least-once delivery that the relay was  *)
(* proved to implement (RelayImplementsAtLeastOnce): no step of a handler,  *)
(* the consumer or the worker touches a row in another way.                 *)
THEOREM LoopImplementsDelivery == SystemSpec => Outbox!DeliverySpec
<1>1. SystemInit => Outbox!DeliveryInit
  BY DEF SystemInit
<1>2. SystemInv /\ [SystemNext]_systemVars => [Outbox!DeliveryNext]_Outbox!deliveryVars
  <2> SUFFICES ASSUME SystemInv, [SystemNext]_systemVars
               PROVE  [Outbox!DeliveryNext]_Outbox!deliveryVars
    OBVIOUS
  <2>0. DeliveryInv
    BY DEF SystemInv
  <2>1. ASSUME NEW c \in Callers, SubmitStep(c) PROVE [Outbox!DeliveryNext]_Outbox!deliveryVars
    <3>1. HandsOver
      BY <2>1 DEF SubmitStep, HandsOver
    <3> QED
      BY <2>0, <3>1, HandingOverDelivers
  <2>2. ASSUME NEW o \in OutboxIds, PublishStep(o) \/ SettleStep(o) \/ GiveUpStep(o)
        PROVE  Outbox!DeliveryNext
    BY <2>2 DEF PublishStep, SettleStep, GiveUpStep, Outbox!DeliveryNext
  <2>3. ASSUME NEW e \in resultQueue, ConsumeResult(e) PROVE [Outbox!DeliveryNext]_Outbox!deliveryVars
    BY <2>0, <2>3, ConsumedIsWellFormed, HandingOverDelivers
  <2>4. ASSUME \/ \E w \in Slots : WorkerStep(w)
               \/ \E m \in RetryMsgs : RetryDelayOver(m)
               \/ \E s \in SubIds : DeadlineStep(s)
               \/ UNCHANGED systemVars
        PROVE  UNCHANGED Outbox!deliveryVars
    BY <2>4 DEF WorkerStep, RetryDelayOver, DeadlineStep, systemVars, deliveryVars, Outbox!deliveryVars
  <2> QED
    BY <2>1, <2>2, <2>3, <2>4 DEF SystemNext
<1> QED
  BY <1>1, <1>2, SystemInvariant, PTL DEF SystemSpec, Outbox!DeliverySpec

(* The judge service takes results from the queue and does nothing else to  *)
(* the worker and its queues.                                               *)
ResultsTaken == resultQueue' \subseteq resultQueue /\ UNCHANGED <<msgs, slots, deadline, reported>>

(* The worker of the loop is the worker of JudgeWorker, fed by the outbox   *)
(* with tasks of rows that exist, beside a consumer that takes its results. *)
THEOREM LoopImplementsWorker ==
    SystemSpec => Worker!WorkerInit /\ [][Worker!WorkerNext \/ ResultsTaken]_workerVars
<1>1. SystemInit => Worker!WorkerInit
  BY DEF SystemInit
<1>2. SystemInv /\ RowsHaveRevisions /\ [SystemNext]_systemVars
        => [Worker!WorkerNext \/ ResultsTaken]_workerVars
  <2> SUFFICES ASSUME SystemInv, RowsHaveRevisions, [SystemNext]_systemVars
               PROVE  [Worker!WorkerNext \/ ResultsTaken]_workerVars
    OBVIOUS
  <2>1. ASSUME NEW o \in OutboxIds, PublishStep(o) PROVE Worker!WorkerNext \/ UNCHANGED workerVars
    <3>1. CASE outbox[o].type # "judge.requested"
      BY <2>1, <3>1 DEF PublishStep
    <3>2. CASE outbox[o].type = "judge.requested"
      <4>1. PICK m \in TaskMsgs : Worker!Enqueue(m, outbox[o].sub, outbox[o].rev)
        BY <2>1, <3>2 DEF PublishStep
      <4>2. /\ outbox[o].sub \in SubIds /\ Exists(outbox[o].sub)
            /\ outbox[o].rev = submissions[outbox[o].sub].rev
        BY <3>2 DEF SystemInv, StoreInv, RequestInv, RequestsHaveRows, RequestedOnce
      <4>3. outbox[o].rev \in Revisions
        BY <4>2 DEF RowsHaveRevisions
      <4> QED
        BY <4>1, <4>2, <4>3 DEF Worker!WorkerNext, Worker!MsgIds
    <3> QED
      BY <3>1, <3>2
  <2>2. ASSUME NEW e \in resultQueue, ConsumeResult(e) PROVE ResultsTaken
    BY <2>2 DEF ConsumeResult, Acknowledge, ResultsTaken
  <2>3. ASSUME \/ \E c \in Callers : SubmitStep(c)
               \/ \E o \in OutboxIds : SettleStep(o) \/ GiveUpStep(o)
               \/ UNCHANGED systemVars
        PROVE  UNCHANGED workerVars
    BY <2>3 DEF SubmitStep, SettleStep, GiveUpStep, systemVars
  <2>4. ASSUME \/ \E w \in Slots : WorkerStep(w)
               \/ \E m \in RetryMsgs : RetryDelayOver(m)
               \/ \E s \in SubIds : DeadlineStep(s)
        PROVE  Worker!WorkerNext
    BY <2>4 DEF WorkerStep, RetryDelayOver, DeadlineStep, Worker!WorkerNext, Worker!MsgIds
  <2> QED
    BY <2>1, <2>2, <2>3, <2>4 DEF SystemNext
<1> QED
  BY <1>1, <1>2, SystemInvariant, LoopImplementsStore, OpenRevisions, PTL DEF SystemSpec
=============================================================================
