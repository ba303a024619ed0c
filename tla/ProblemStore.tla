---------------------------- MODULE ProblemStore -----------------------------
(***************************************************************************)
(* The problem service: one problem, its testcases in MySQL and its judge  *)
(* revisions in the object store.  A change of the testcases or the limits *)
(* copies every active testcase under a fresh revision, writes the         *)
(* manifest, and only then switches problems.active_judge_revision in a    *)
(* transaction that compares the revision the change started from.         *)
(*                                                                         *)
(* Each service instance has a mutex per problem; Update, AddTestcase and  *)
(* ArchiveTestcase hold it, Create and Archive do not, and other instances *)
(* do not know it.  A call may fail or die at any of its steps.            *)
(*                                                                         *)
(* A testcase's input and output are one object here.  Upload and revision *)
(* ids (ULIDs) are drawn from one counter.                                 *)
(***************************************************************************)
EXTENDS Integers, FiniteSets

CONSTANTS
    Instances,      \* instances of the service
    Calls,          \* concurrent calls
    CaseNos,        \* testcase numbers
    Limits,         \* pairs of time and memory limit
    MaxIds          \* bound on the ids drawn

ASSUME ProblemAssumption ==
    /\ MaxIds \in Nat /\ "nobody" \notin Calls /\ "no limits" \notin Limits

VARIABLES
    problem,        \* the row of problems
    testcases,      \* the rows of testcases, by case number (a unique key)
    objects,        \* keys of the stored testcase objects
    manifests,      \* manifest.json of every revision
    lastId,         \* ids drawn so far
    mutex,          \* lockProblem of every instance
    call,           \* progress of every call
    handedOut       \* history: revisions GetJudgeProfile gave to the judge service

problemVars == <<problem, testcases, objects, manifests, lastId, mutex, call, handedOut>>

Ids == 1..MaxIds
None == 0                                       \* NULL, "" and "not set"
Nobody == "nobody"
NoLimits == "no limits"
NoProblem == [status |-> "absent", limits |-> NoLimits, active |-> None]
NoCase == [status |-> "none", upload |-> None]
NoManifest == [limits |-> NoLimits, cases |-> {}]
Idle == [pc |-> "idle", op |-> "none", base |-> NoProblem, limits |-> NoLimits, case |-> None,
         id |-> None, items |-> {}, copied |-> {}, todo |-> {}, stored |-> {}]

\* Object keys: an upload, and a testcase of a revision.
UploadKey(id) == <<"upload", id, 0>>
RevisionKey_Upload(rev, item) == UploadKey(item.upload)     \* seeded defect: no copy is made
RevisionKey(rev, item) == <<"revision", rev, item.no>>

ProblemInit ==
    /\ problem = NoProblem
    /\ testcases = [n \in CaseNos |-> NoCase]
    /\ objects = {}
    /\ manifests = [r \in Ids |-> NoManifest]
    /\ lastId = 0
    /\ mutex = [i \in Instances |-> Nobody]
    /\ call = [c \in Calls |-> Idle]
    /\ handedOut = {}

At(c, pc) == call[c].pc = pc
ActiveCases == {[no |-> n, upload |-> testcases[n].upload] : n \in {m \in CaseNos : testcases[m].status = "active"}}

\* End of a call: the deferred unlock.
Return(c) ==
    /\ call' = [call EXCEPT ![c] = Idle]
    /\ mutex' = [i \in Instances |-> IF mutex[i] = c THEN Nobody ELSE mutex[i]]

-----------------------------------------------------------------------------
\* Update, AddTestcase and ArchiveTestcase lock, then read the problem.
Begin(c, i, op, limits, n) ==
    /\ At(c, "idle") /\ lastId < MaxIds
    /\ mutex[i] = Nobody /\ problem.status = "normal"
    /\ mutex' = [mutex EXCEPT ![i] = c]
    /\ call' = [call EXCEPT ![c] = [Idle EXCEPT !.pc = IF op = "add" THEN "uploading" ELSE "listing",
                                                !.op = op, !.base = problem, !.limits = limits, !.case = n]]
    /\ UNCHANGED <<problem, testcases, objects, manifests, lastId, handedOut>>

Update(c, i, limits) == Begin(c, i, "update", limits, None)
AddTestcase(c, i, n) == Begin(c, i, "add", problem.limits, n)
ArchiveTestcase(c, i, n) == Begin(c, i, "archive case", problem.limits, n)

\* Create inserts the problem and then adds the testcases of the request, one by one.
Create(c, limits, cases) ==
    /\ At(c, "idle") /\ problem.status = "absent" /\ lastId = 0
    /\ problem' = [status |-> "normal", limits |-> limits, active |-> None]
    /\ call' = IF cases = {} THEN call
               ELSE [call EXCEPT ![c] = [Idle EXCEPT !.pc = "next case", !.op = "create", !.todo = cases,
                                                     !.base = problem', !.limits = limits]]
    /\ UNCHANGED <<testcases, objects, manifests, lastId, mutex, handedOut>>

\* Between two testcases the problem is read again; if that fails Create just returns.
NextCase(c) ==
    LET base == IF call[c].stored = {} THEN call[c].base ELSE problem IN
    /\ At(c, "next case") /\ base.status # "absent"
    /\ \E n \in call[c].todo :
         call' = [call EXCEPT ![c].pc = "uploading", ![c].case = n, ![c].todo = @ \ {n},
                              ![c].base = base, ![c].limits = base.limits]
    /\ UNCHANGED <<problem, testcases, objects, manifests, lastId, mutex, handedOut>>

\* Archive takes no lock: its UPDATE only looks at the status.
Archive ==
    /\ problem.status = "normal"
    /\ problem' = [problem EXCEPT !.status = "archived"]
    /\ UNCHANGED <<testcases, objects, manifests, lastId, mutex, call, handedOut>>

-----------------------------------------------------------------------------
\* addTestcaseToProblem: the files are stored under a fresh key.
Upload(c) ==
    /\ At(c, "uploading") /\ lastId < MaxIds
    /\ lastId' = lastId + 1
    /\ objects' = objects \cup {UploadKey(lastId')}
    /\ call' = [call EXCEPT ![c].pc = "listing", ![c].id = lastId']
    /\ UNCHANGED <<problem, testcases, manifests, mutex, handedOut>>

\* The items a revision is to hold, from ListTestcases and the change.
Adds(c) == call[c].op \in {"add", "create"}
Items(c) ==
    CASE Adds(c) -> ActiveCases \cup {[no |-> call[c].case, upload |-> call[c].id]}
      [] call[c].op = "archive case" -> {t \in ActiveCases : t.no # call[c].case}
      [] OTHER -> ActiveCases

\* Update publishes when limits of a published problem change, or to publish at last.
Publishes(c) ==
    \/ call[c].op # "update"
    \/ call[c].base.active = None
    \/ call[c].limits # call[c].base.limits

ListTestcases(c) ==
    LET publish == Publishes(c) /\ Items(c) # {}
        id == IF Adds(c) THEN call[c].id ELSE lastId + 1
    IN  /\ At(c, "listing")
        /\ Adds(c) => testcases[call[c].case].status # "active"
        /\ call[c].op = "archive case" => testcases[call[c].case].status = "active"
        /\ call[c].op = "update" /\ Publishes(c) /\ Items(c) = {} => call[c].base.active = None
        /\ publish => id \in Ids
        /\ lastId' = IF publish /\ id > lastId THEN id ELSE lastId
        /\ call' = [call EXCEPT ![c].pc = IF publish THEN "publishing" ELSE "committing",
                                ![c].id = IF publish THEN id ELSE None,
                                ![c].items = IF publish THEN Items(c) ELSE {},
                                ![c].todo = IF Adds(c) THEN @ ELSE {}]
        /\ UNCHANGED <<problem, testcases, objects, manifests, mutex, handedOut>>

\* publishRevision: every item is read, verified and copied under the prefix of the
\* revision (the copies count as stored once a manifest names them) ...
Verified(t) == UploadKey(t.upload) \in objects

CopyTestcase(c) ==
    /\ At(c, "publishing")
    /\ \E t \in call[c].items \ call[c].copied :
         Verified(t) /\ call' = [call EXCEPT ![c].copied = @ \cup {t}]
    /\ UNCHANGED <<problem, testcases, objects, manifests, lastId, mutex, handedOut>>

\* ... and the manifest is written last.
AllCopied_Any(c) == call[c].copied # {}                \* seeded defect: the manifest comes too early
AllCopied(c) == call[c].copied = call[c].items

PutManifest(c) ==
    /\ At(c, "publishing") /\ AllCopied(c)
    /\ manifests' = [manifests EXCEPT ![call[c].id] = [limits |-> call[c].limits, cases |-> call[c].items]]
    /\ objects' = objects \cup {RevisionKey(call[c].id, t) : t \in call[c].copied}
    /\ call' = [call EXCEPT ![c].pc = "committing", ![c].copied = {}]
    /\ UNCHANGED <<problem, testcases, lastId, mutex, handedOut>>

-----------------------------------------------------------------------------
\* The revision the change started from is still active (lockPublishableProblem,
\* or the WHERE clause of Update).
Unchanged_Status(c) == problem.status = "normal"  \* seeded defect: revisions are not compared
Unchanged(c) == problem.status = "normal" /\ problem.active = call[c].base.active

\* An upload is listed as an item only together with its revision.
Revision(c) == IF call[c].items = {} THEN None ELSE call[c].id

CommitUpdate(c) ==
    /\ At(c, "committing") /\ call[c].op = "update" /\ Unchanged(c)
    /\ problem' = [problem EXCEPT !.limits = call[c].limits,
                                  !.active = IF call[c].items = {} THEN @ ELSE call[c].id]
    /\ Return(c)
    /\ UNCHANGED <<testcases, objects, manifests, lastId, handedOut>>

\* The unique key also holds archived rows: an archived number is not used again.
AddRow(c) ==
    LET n == call[c].case IN
    /\ At(c, "committing") /\ Adds(c) /\ Unchanged(c)
    /\ testcases[n].status = "none"
    /\ testcases' = [testcases EXCEPT ![n] = [status |-> "active", upload |-> call[c].id]]
    /\ problem' = [problem EXCEPT !.active = Revision(c)]

CommitAddedTestcase(c) ==
    /\ AddRow(c)
    /\ IF call[c].op = "create" /\ call[c].todo # {}
       THEN /\ call' = [call EXCEPT ![c].pc = "next case", ![c].stored = @ \cup {call[c].id}, ![c].items = {}]
            /\ UNCHANGED mutex
       ELSE Return(c)
    /\ UNCHANGED <<objects, manifests, lastId, handedOut>>

\* The transaction commits and its answer is lost: the call takes the testcase for
\* refused and goes on to delete the upload (Fail).  The other commits have nothing
\* to delete: for them a lost answer changes nothing.
LoseCommitAnswer(c) ==
    /\ AddRow(c)
    /\ call' = [call EXCEPT ![c].pc = "unanswered"]
    /\ UNCHANGED <<objects, manifests, lastId, mutex, handedOut>>

\* Without testcases there is no active revision.
CommitArchivedTestcase(c) ==
    LET n == call[c].case IN
    /\ At(c, "committing") /\ call[c].op = "archive case" /\ Unchanged(c)
    /\ testcases[n].status = "active"
    /\ testcases' = [testcases EXCEPT ![n].status = "archived"]
    /\ problem' = [problem EXCEPT !.active = Revision(c)]
    /\ Return(c)
    /\ UNCHANGED <<objects, manifests, lastId, handedOut>>

-----------------------------------------------------------------------------
\* A check, the object store or the database fails: what was uploaded is deleted.
\* Create goes on to undo the whole problem.
Fail(c) ==
    /\ call[c].pc \in {"uploading", "listing", "publishing", "committing", "unanswered"}
    /\ objects' = IF Adds(c) THEN objects \ {UploadKey(call[c].id)} ELSE objects
    /\ IF call[c].op = "create"
       THEN call' = [call EXCEPT ![c].pc = "cleaning"] /\ UNCHANGED mutex
       ELSE Return(c)
    /\ UNCHANGED <<problem, testcases, manifests, lastId, handedOut>>

DeleteStored(c) ==
    /\ At(c, "cleaning") /\ call[c].stored # {}
    /\ objects' = objects \ {UploadKey(u) : u \in call[c].stored}
    /\ call' = [call EXCEPT ![c].stored = {}]
    /\ UNCHANGED <<problem, testcases, manifests, lastId, mutex, handedOut>>

\* DELETE FROM problems; its testcases go with it (ON DELETE CASCADE).
DeleteCreatedProblem(c) ==
    /\ At(c, "cleaning") /\ call[c].stored = {}
    /\ problem' = NoProblem
    /\ testcases' = [n \in CaseNos |-> NoCase]
    /\ Return(c)
    /\ UNCHANGED <<objects, manifests, lastId, handedOut>>

\* The process dies, or the cleanup itself fails: nothing is undone.  For the calls
\* that upload nothing this is Fail.
Die(c) ==
    /\ ~At(c, "idle") /\ Adds(c)
    /\ Return(c)
    /\ UNCHANGED <<problem, testcases, objects, manifests, lastId, handedOut>>

-----------------------------------------------------------------------------
\* The judge service asks for the profile of a problem to be judged.
GetJudgeProfile(i) ==
    /\ mutex[i] = Nobody
    /\ problem.status = "normal" /\ problem.active # None /\ ActiveCases # {}
    /\ handedOut' = handedOut \cup {problem.active}
    /\ UNCHANGED <<problem, testcases, objects, manifests, lastId, mutex, call>>

\* What the worker's loader needs of a revision: a valid manifest and every object in it.
Loads(rev) ==
    /\ manifests[rev].cases # {} /\ manifests[rev].limits # NoLimits
    /\ \A t \in manifests[rev].cases : RevisionKey(rev, t) \in objects

Handle(c) ==
    \/ \E i \in Instances, l \in Limits : Update(c, i, l)
    \/ \E i \in Instances, n \in CaseNos : AddTestcase(c, i, n) \/ ArchiveTestcase(c, i, n)
    \/ \E l \in Limits, cases \in SUBSET CaseNos : Create(c, l, cases)
    \/ NextCase(c) \/ Upload(c) \/ ListTestcases(c) \/ CopyTestcase(c) \/ PutManifest(c)
    \/ CommitUpdate(c) \/ CommitAddedTestcase(c) \/ LoseCommitAnswer(c) \/ CommitArchivedTestcase(c)
    \/ Fail(c) \/ DeleteStored(c) \/ DeleteCreatedProblem(c) \/ Die(c)

ProblemNext ==
    \/ \E c \in Calls : Handle(c)
    \/ \E i \in Instances : GetJudgeProfile(i)
    \/ Archive

ProblemSpec == ProblemInit /\ [][ProblemNext]_problemVars

-----------------------------------------------------------------------------
(* A revision that was handed out for judging, or is active, can be loaded  *)
(* for ever: its manifest and all the objects it names are there, although  *)
(* testcases are archived, creations undone and calls die in between (the   *)
(* comment in ArchiveTestcase: the snapshot stays addressable).             *)
HandedOutIsLoadable ==
    \A r \in handedOut \cup ({problem.active} \ {None}) : Loads(r)

(* A change on top of a published revision loses no other change: the       *)
(* revision it switches to holds exactly the testcases that are active and  *)
(* the limits of the problem from then on.  The calls may run on different  *)
(* instances, with their reads and their commits in any order.              *)
ChangesBuildOnRevision ==
    [][problem.active # None /\ problem'.active \notin {None, problem.active}
         => manifests'[problem'.active] = [limits |-> problem'.limits, cases |-> ActiveCases']]_problemVars
=============================================================================
