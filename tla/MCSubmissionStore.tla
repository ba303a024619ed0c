-------------------------- MODULE MCSubmissionStore --------------------------
(***************************************************************************)
(* Small instances of SubmissionStore.                                     *)
(***************************************************************************)
EXTENDS SubmissionStore, FiniteSets, TLC

Completed(id, s, rev, v) ==
    [id |-> id, sub |-> s, rev |-> rev, type |-> "judge.completed", verdict |-> v, retryable |-> FALSE]
Failed(id, s, rev, r) ==
    [id |-> id, sub |-> s, rev |-> rev, type |-> "judge.failed", verdict |-> NoVerdict, retryable |-> r]

\* Results that disagree, come at a stale revision, ask for a retry or report
\* the row that a rejudge created, and may land between the two steps of a call.
DisagreeingResults ==
    {Completed(1, 1, "r1", "AC"), Failed(2, 1, "r1", TRUE), Completed(3, 1, "r2", "WA"),
     Failed(4, 2, "r1", FALSE), Completed(5, 2, "r1", "WA")}

(***************************************************************************)
(* The state space is the union of two: handlers that race each other with *)
(* requests of different content, while at most one result comes in; and   *)
(* handlers one after the other, while results disagree and time passes.   *)
(***************************************************************************)
RacingCalls ==
    /\ processed \subseteq {1} /\ now <= ContestStart
    /\ \A s \in SubIds : submissions[s].rev # "r2"
DisagreeingWorld ==
    /\ Cardinality({c \in Callers : calls[c] # Idle}) <= 1
    /\ \A s \in SubIds : submissions[s].body # "b2"
    /\ \A c \in Callers : calls[c].op = "create" => calls[c].body # "b2"
    /\ \A a \in answers : a.op = "create" => a.body # "b2"
Explored == RacingCalls \/ DisagreeingWorld

Interchangeable == Permutations(Callers) \cup Permutations(Keys)
=============================================================================
