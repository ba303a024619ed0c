-------------------------- MODULE ContestLifecycle ---------------------------
(***************************************************************************)
(* The life of one contest in the contest service: administrators create,  *)
(* edit and archive it, users join it and submit to it, all of them        *)
(* concurrently and against the database clock (milliseconds; several      *)
(* statements may run in one).                                             *)
(*                                                                         *)
(* A call first makes the use case's fast check on an unlocked reading,    *)
(* then runs its transaction: the contest row is locked, the clock is read *)
(* and the checks are repeated; the write and the commit follow later.     *)
(* What a call does between two of its steps is open to the other calls.   *)
(*                                                                         *)
(* The two statements of a fast check are one step: a check that passes    *)
(* with the later reading of the clock also passes with an earlier one.    *)
(* The transaction of AuthorizeSubmission reads only, behind a shared      *)
(* lock, and is one step.                                                  *)
(***************************************************************************)
EXTENDS Integers

CONSTANTS
    Calls,          \* concurrent calls of the service
    Users,
    Forms,          \* what administrators may send: start, end and problems
    MaxTime,        \* bound on the clock
    MaxToken        \* bound on updated_at: no edit begins from a later reading

ASSUME LifecycleAssumption ==
    /\ MaxTime \in Nat /\ MaxToken \in Nat
    /\ "nobody" \notin Calls /\ "no user" \notin Users
    /\ \A f \in Forms : f.start \in Nat /\ f.end \in Nat

VARIABLES
    clock,          \* UTC_TIMESTAMP(3)
    contest,        \* the row of contests with its contest_problems
    participants,   \* contest_participants: joined_at of a user
    lock,           \* the call whose transaction holds the row FOR UPDATE
    call,           \* progress of every call
    authorised,     \* CreateSubmission requests sent to the judge service
    accepted        \* submissions the judge service stored for the contest

lifecycleVars == <<clock, contest, participants, lock, call, authorised, accepted>>

NotJoined == -1
Nobody == "nobody"
NoUser == "no user"
NoForm == [start |-> 0, end |-> 0, problems |-> {}]
NoContest == [status |-> "absent", start |-> 0, end |-> 0, problems |-> {}, updated |-> 0]
Idle == [pc |-> "idle", kind |-> "none", user |-> NoUser, form |-> NoForm, view |-> NoContest, now |-> 0]

LifecycleInit ==
    /\ clock = 0
    /\ contest = NoContest
    /\ participants = [u \in Users |-> NotJoined]
    /\ lock = Nobody
    /\ call = [c \in Calls |-> Idle]
    /\ authorised = {} /\ accepted = {}

At(c, pc) == call[c].pc = pc
Running(c, kind) == At(c, "checked") /\ call[c].kind = kind

-----------------------------------------------------------------------------
\* The status shown and checked; contests never stores "running" or "ended".
lifecycle(row, now) ==
    IF row.status = "archived" THEN "archived"
    ELSE IF now >= row.end THEN "ended"
    ELSE IF now >= row.start THEN "running"
    ELSE "draft"

\* normalizeUpdate: an interval and at least one problem.
Normalised(form) == form.start < form.end /\ form.problems # {}

\* An administrator has the contest on screen: Get is one REPEATABLE READ snapshot.
GetContest(c) ==
    /\ At(c, "idle") /\ contest.status # "absent"
    /\ call' = [call EXCEPT ![c].pc = "reading", ![c].view = contest]
    /\ UNCHANGED <<clock, contest, participants, lock, authorised, accepted>>

\* Create's transaction checks the clock, then inserts; nobody sees the row before the commit.
BeginCreate(c, form) ==
    /\ At(c, "idle") /\ contest.status = "absent" /\ lock = Nobody
    /\ Normalised(form) /\ form.start > clock
    /\ lock' = c
    /\ call' = [call EXCEPT ![c].pc = "checked", ![c].kind = "create", ![c].form = form, ![c].now = clock]
    /\ UNCHANGED <<clock, contest, participants, authorised, accepted>>

\* The fast checks of Update, Archive and Join.  The token is the updated_at the
\* administrator's reading shows; the contest itself is read anew.
BeginUpdate(c, form) ==
    /\ At(c, "reading") /\ call[c].view.updated < MaxToken
    /\ lifecycle(contest, clock) = "draft" /\ Normalised(form) /\ form.start > clock
    /\ call' = [call EXCEPT ![c].pc = "waiting", ![c].kind = "update", ![c].form = form]
    /\ UNCHANGED <<clock, contest, participants, lock, authorised, accepted>>

BeginArchive(c) ==
    /\ At(c, "idle") /\ contest.status # "absent" /\ lifecycle(contest, clock) = "draft"
    /\ call' = [call EXCEPT ![c].pc = "waiting", ![c].kind = "archive"]
    /\ UNCHANGED <<clock, contest, participants, lock, authorised, accepted>>

BeginJoin(c, u) ==
    /\ At(c, "idle") /\ contest.status # "absent" /\ lifecycle(contest, clock) = "draft"
    /\ call' = [call EXCEPT ![c].pc = "waiting", ![c].kind = "join", ![c].user = u]
    /\ UNCHANGED <<clock, contest, participants, lock, authorised, accepted>>

-----------------------------------------------------------------------------
\* SELECT ... FOR UPDATE, then the clock, then the checks of the repository.
NotStarted_Unchecked(now) == TRUE           \* seeded defect: the fast check is trusted
NotStarted(now) == contest.status = "draft" /\ now < contest.start

Permitted(c) ==
    CASE call[c].kind = "join" -> NotStarted(clock) /\ clock < contest.end
      [] call[c].kind = "archive" -> NotStarted(clock)
      [] call[c].kind = "update" ->
           /\ NotStarted(clock) /\ call[c].form.start > clock
           /\ contest.updated = call[c].view.updated

LockContest(c) ==
    /\ At(c, "waiting") /\ lock = Nobody /\ Permitted(c)
    /\ lock' = c
    /\ call' = [call EXCEPT ![c].pc = "checked", ![c].now = clock]
    /\ UNCHANGED <<clock, contest, participants, authorised, accepted>>

Refuse(c) ==
    /\ At(c, "waiting") /\ lock = Nobody /\ ~Permitted(c)
    /\ call' = [call EXCEPT ![c] = Idle]
    /\ UNCHANGED <<clock, contest, participants, lock, authorised, accepted>>

\* A deadlock or lock wait timeout: withContestTx rolls back and starts over ...
StartOver(c) ==
    /\ At(c, "checked") /\ call[c].kind # "create"
    /\ lock' = Nobody
    /\ call' = [call EXCEPT ![c].pc = "waiting", ![c].now = 0]
    /\ UNCHANGED <<clock, contest, participants, authorised, accepted>>

\* ... or the attempts, or the time of the call, are used up.
GiveUp(c) ==
    /\ ~At(c, "idle")
    /\ lock' = IF lock = c THEN Nobody ELSE lock
    /\ call' = [call EXCEPT ![c] = Idle]
    /\ UNCHANGED <<clock, contest, participants, authorised, accepted>>

-----------------------------------------------------------------------------
\* The clock the write statement reads lies between the check and the commit.
Finish(c) == lock' = Nobody /\ call' = [call EXCEPT ![c] = Idle]

\* updated_at = GREATEST(UTC_TIMESTAMP(3), updated_at + 1 ms)
Touched_Now(row, t) == t                     \* seeded defect: two edits in one millisecond
Touched(row, t) == IF t > row.updated THEN t ELSE row.updated + 1

CommitCreate(c) ==
    /\ Running(c, "create")
    /\ \E t \in call[c].now..clock :
         contest' = [status |-> "draft", start |-> call[c].form.start, end |-> call[c].form.end,
                     problems |-> call[c].form.problems, updated |-> t]
    /\ Finish(c)
    /\ UNCHANGED <<clock, participants, authorised, accepted>>

\* The row is updated and replaceProblems deletes and inserts the problems.
CommitUpdate(c) ==
    /\ Running(c, "update")
    /\ \E t \in call[c].now..clock :
         contest' = [contest EXCEPT !.start = call[c].form.start, !.end = call[c].form.end,
                                    !.problems = call[c].form.problems, !.updated = Touched(contest, t)]
    /\ Finish(c)
    /\ UNCHANGED <<clock, participants, authorised, accepted>>

CommitArchive(c) ==
    /\ Running(c, "archive")
    /\ \E t \in call[c].now..clock :
         contest' = [contest EXCEPT !.status = "archived", !.updated = Touched(contest, t)]
    /\ Finish(c)
    /\ UNCHANGED <<clock, participants, authorised, accepted>>

\* INSERT IGNORE keeps the first joined_at; the stored one is returned.
Joined(old, t) == IF old = NotJoined THEN t ELSE old

CommitJoin(c) ==
    LET u == call[c].user IN
    /\ Running(c, "join")
    /\ \E t \in call[c].now..clock : participants' = [participants EXCEPT ![u] = Joined(@, t)]
    /\ Finish(c)
    /\ UNCHANGED <<clock, contest, authorised, accepted>>

-----------------------------------------------------------------------------
\* SELECT ... FOR SHARE waits for a transaction that holds the row.
Shareable_NoLock == TRUE                     \* seeded defect: a plain SELECT
Shareable == lock = Nobody

\* The request carries the interval that was read to the judge service.
AuthorizeSubmission(u, p) ==
    /\ Shareable /\ contest.status = "draft"
    /\ contest.start <= clock /\ clock < contest.end
    /\ participants[u] # NotJoined
    /\ p \in contest.problems
    /\ authorised' = authorised \cup
         {[user |-> u, problem |-> p, start |-> contest.start, end |-> contest.end]}
    /\ UNCHANGED <<clock, contest, participants, lock, call, accepted>>

\* The judge service stores the row if its INSERT runs inside that interval
\* (module SubmissionStore); the request may be lost or late.
CreateSubmission(a) ==
    /\ a \in authorised /\ a.start <= clock /\ clock < a.end
    /\ accepted' = accepted \cup {[user |-> a.user, problem |-> a.problem, at |-> clock]}
    /\ UNCHANGED <<clock, contest, participants, lock, call, authorised>>

\* Solutions of a problem of a contest that has not ended are kept back.
KnowledgeAllowed_Started(p) ==               \* seeded defect: only contests ahead are looked at
    ~(p \in contest.problems /\ contest.status = "draft" /\ contest.start > clock)
KnowledgeAllowed(p) ==
    ~(p \in contest.problems /\ contest.status # "archived" /\ contest.end > clock)

Tick ==
    /\ clock < MaxTime /\ clock' = clock + 1
    /\ UNCHANGED <<contest, participants, lock, call, authorised, accepted>>

FormProblems == UNION {f.problems : f \in Forms}

Handle(c) ==
    \/ GetContest(c) \/ BeginArchive(c)
    \/ \E f \in Forms : BeginCreate(c, f) \/ BeginUpdate(c, f)
    \/ \E u \in Users : BeginJoin(c, u)
    \/ LockContest(c) \/ Refuse(c) \/ StartOver(c) \/ GiveUp(c)
    \/ CommitCreate(c) \/ CommitUpdate(c) \/ CommitArchive(c) \/ CommitJoin(c)

LifecycleNext ==
    \/ \E c \in Calls : Handle(c)
    \/ \E u \in Users, p \in FormProblems : AuthorizeSubmission(u, p)
    \/ \E a \in authorised : CreateSubmission(a)
    \/ Tick

LifecycleSpec == LifecycleInit /\ [][LifecycleNext]_lifecycleVars

-----------------------------------------------------------------------------
(* No administrator overwrites an edit he has not seen: the row an update   *)
(* replaces is the row its sender had on screen, even when several edits    *)
(* are made within one millisecond (the updated_at token of Update).        *)
NoLostEdit ==
    [][\A c \in Calls : Running(c, "update") /\ contest' # contest => contest = call[c].view]_lifecycleVars

(* Once a submission has been authorised the contest, its problems and its  *)
(* participants never change again (the comment on AuthorizeSubmission: the *)
(* shared lock and the database clock close the start boundary).            *)
FrozenOnceAuthorised ==
    [][authorised # {} => UNCHANGED <<contest, participants>>]_lifecycleVars

(* Every submission the judge service stored is one the projection counts   *)
(* against the contest as it is now: a participant, a problem of the        *)
(* contest, a time in its interval, and no archived contest.                *)
AcceptedIsAdmissible ==
    \A s \in accepted :
        /\ contest.status = "draft" /\ participants[s.user] # NotJoined
        /\ s.problem \in contest.problems
        /\ contest.start <= s.at /\ s.at < contest.end

(* Solutions are kept back from every problem somebody may still submit to. *)
SolutionsWithheld ==
    \A a \in authorised : clock < a.end => ~KnowledgeAllowed(a.problem)
=============================================================================
