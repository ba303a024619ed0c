--------------------------- MODULE WorkerExecution ---------------------------
(***************************************************************************)
(* What the judge worker does with a task between its delivery and its     *)
(* outcome (Engine.Execute), and the /internal/run-code handler that works *)
(* beside it.  Both compile in the go-judge sandbox, which keeps the       *)
(* compiled file in a cache the two share, run it from there, and delete   *)
(* it in a deferred call.                                                  *)
(*                                                                         *)
(* A program is known by what it does: whether it compiles, and how it     *)
(* behaves on each testcase.  The sandbox may fail at any call: an error   *)
(* in place of an answer, a status of its own, a lost answer, a restart    *)
(* that empties its cache.                                                 *)
(***************************************************************************)
EXTENDS Naturals

CONSTANTS
    Tasks,          \* executions of judge tasks
    CodeRuns,       \* requests of /internal/run-code
    CaseCount,      \* testcases of the judge revision
    TaskPrograms,   \* what submitted sources may do
    CodePrograms,   \* what the sources of code runs may do, on their one input
    NoRun           \* nobody holds the run-code capacity

ASSUME ExecutionBounds == CaseCount \in Nat \ {0} /\ Tasks \cap CodeRuns = {} /\ NoRun \notin CodeRuns

Jobs == Tasks \cup CodeRuns

Behaviours == {"AC", "WA", "TLE", "MLE", "RE"}
Programs(n) == [stored : {"intact", "damaged"}, compiles : BOOLEAN, does : [1..n -> Behaviours]]

ASSUME ExecutionPrograms ==
    /\ TaskPrograms \subseteq Programs(CaseCount)
    /\ CodePrograms \subseteq {p \in Programs(1) : p.stored = "intact"}

VARIABLES
    program,        \* what the source of every job does
    job,            \* where every job is, its case and its outcome
    window,         \* "open", "timeout" (the job's context is over), "past" (the judge deadline too)
    cached,         \* jobs whose compiled file is in the sandbox's cache
    strays,         \* jobs whose file the sandbox kept by a fault of its own or of the network
    capacity        \* the run-code request being served

execVars == <<program, job, window, cached, strays, capacity>>

-----------------------------------------------------------------------------
(* The sandbox, external: the statuses it gives a program, and its faults. *)

StatusesOf(behaviour) ==
    CASE behaviour \in {"AC", "WA"} -> {"Accepted"}
      [] behaviour = "TLE" -> {"TimeLimitExceeded"}
      [] behaviour = "MLE" -> {"MemoryLimitExceeded"}
      [] behaviour = "RE" -> {"OutputLimitExceeded", "NonZeroExit", "Signalled", "DangerousSyscall"}
FaultStatuses == {"FileError", "InternalError", "Invalid"}
Limited == {"TimeLimitExceeded", "MemoryLimitExceeded", "OutputLimitExceeded", "Signalled", "DangerousSyscall"}

-----------------------------------------------------------------------------
NothingReported == [type |-> "none", verdict |-> "", retryable |-> FALSE, cases |-> 0]
Completed(verdict, cases) == [type |-> "completed", verdict |-> verdict, retryable |-> FALSE, cases |-> cases]
Failed(retryable) == [type |-> "failed", verdict |-> "", retryable |-> retryable, cases |-> 0]

Waiting == [pc |-> "waiting", next |-> 1, outcome |-> NothingReported]

ExecInit ==
    /\ \E p \in [Tasks -> TaskPrograms], q \in [CodeRuns -> CodePrograms] :
         program = [j \in Jobs |-> IF j \in Tasks THEN p[j] ELSE q[j]]
    /\ job = [j \in Jobs |-> Waiting]
    /\ window = [j \in Jobs |-> "open"]
    /\ cached = {} /\ strays = {} /\ capacity = NoRun

Running(j) == job[j].pc \in {"compile", "run", "cleanup"}
At(j, pc) == job[j].pc = pc
Goto(j, pc) == job' = [job EXCEPT ![j].pc = pc]

\* The outcome is settled; the deferred calls come next.
Settle(j, outcome, pc) == job' = [job EXCEPT ![j].outcome = outcome, ![j].pc = pc]

\* Without an artifact there is nothing to delete; a code run gives its capacity back.
Return(j, outcome) ==
    /\ Settle(j, outcome, "done")
    /\ capacity' = IF j = capacity THEN NoRun ELSE capacity

\* Engine.Execute: the objects of the task are read and checked against their digests.
Loadable(t) == program[t].stored = "intact"

Load(t) ==
    /\ t \in Tasks /\ At(t, "waiting")
    /\ \/ window[t] = "past" /\ Settle(t, Failed(FALSE), "done")
       \/ window[t] = "open" /\ Loadable(t) /\ Goto(t, "compile")
       \/ window[t] = "open" /\ ~Loadable(t) /\ Settle(t, Failed(FALSE), "done")
       \/ window[t] # "past" /\ Settle(t, Failed(TRUE), "done")        \* the store does not answer
    /\ UNCHANGED <<program, window, cached, strays, capacity>>

\* NewRunCodeHandler: one request at a time, the others are turned away.
TakeCapacity(c) ==
    /\ c \in CodeRuns /\ At(c, "waiting")
    /\ \/ capacity = NoRun /\ capacity' = c /\ Goto(c, "compile")
       \/ capacity # NoRun /\ Settle(c, Failed(TRUE), "done") /\ UNCHANGED capacity
    /\ UNCHANGED <<program, window, cached, strays>>

(***************************************************************************)
(* Compile.  An accepted build leaves its file in the cache; a non-zero    *)
(* exit is a compile error; every other answer, no answer, and an accepted *)
(* build without a file, are failures of the sandbox to be retried.  When  *)
(* no artifact reaches the worker, one the sandbox kept is out of reach.   *)
(***************************************************************************)
Kept(j) ==
    \/ UNCHANGED <<cached, strays>>
    \/ cached' = cached \cup {j} /\ strays' = strays \cup {j}

CompileStatuses(j) ==
    (IF program[j].compiles THEN {"Accepted"} ELSE {"NonZeroExit"}) \cup Limited \cup FaultStatuses

Compile(j) ==
    /\ At(j, "compile")
    /\ \/ \E status \in CompileStatuses(j) :
            /\ window[j] = "open"
            /\ \/ /\ status = "Accepted"
                  /\ cached' = cached \cup {j}
                  /\ Goto(j, "run")
                  /\ UNCHANGED <<strays, capacity>>
               \/ status = "NonZeroExit" /\ Kept(j) /\ Return(j, Completed("CE", 0))
               \/ status \notin {"Accepted", "NonZeroExit"} /\ Kept(j) /\ Return(j, Failed(TRUE))
       \/ Kept(j) /\ Return(j, Failed(TRUE))
    /\ UNCHANGED <<program, window>>

-----------------------------------------------------------------------------
\* mapRunStatus: "" where the sandbox is to blame.
mapRunStatus_FileErrorIsRE(status) ==      \* seeded defect: a file error held against the program
    CASE status = "Accepted" -> "AC"
      [] status = "TimeLimitExceeded" -> "TLE"
      [] status = "MemoryLimitExceeded" -> "MLE"
      [] status \in {"InternalError", "Invalid"} -> ""
      [] OTHER -> "RE"
mapRunStatus(status) ==
    CASE status = "Accepted" -> "AC"
      [] status = "TimeLimitExceeded" -> "TLE"
      [] status = "MemoryLimitExceeded" -> "MLE"
      [] status \in {"OutputLimitExceeded", "NonZeroExit", "Signalled", "DangerousSyscall"} -> "RE"
      [] OTHER -> ""

\* The comparator decides about a run that ended well; a code run compares nothing.
Judged(j, verdict) ==
    IF j \in Tasks /\ verdict = "AC" /\ program[j].does[job[j].next] = "WA" THEN "WA" ELSE verdict

\* A file the cache no longer has cannot be run.
RunStatuses(j) ==
    FaultStatuses \cup IF j \in cached THEN StatusesOf(program[j].does[job[j].next]) ELSE {}

\* The case counts: the first one that is not accepted, and the last one, decide.
CaseDone(j, verdict) ==
    IF verdict = "AC" /\ j \in Tasks /\ job[j].next < CaseCount
    THEN job' = [job EXCEPT ![j].next = @ + 1]
    ELSE Settle(j, Completed(verdict, job[j].next), "cleanup")

Run(j) ==
    /\ At(j, "run")
    /\ \/ window[j] = "past" /\ Settle(j, Failed(FALSE), "cleanup")
       \/ \E status \in RunStatuses(j) :
            /\ window[j] = "open"
            /\ IF mapRunStatus(status) = "" THEN Settle(j, Failed(TRUE), "cleanup")
               ELSE CaseDone(j, Judged(j, mapRunStatus(status)))
       \/ window[j] # "past" /\ Settle(j, Failed(TRUE), "cleanup")     \* the sandbox does not answer
    /\ UNCHANGED <<program, window, cached, strays, capacity>>

(***************************************************************************)
(* The deferred DeleteArtifact, on a context the end of the job does not   *)
(* cancel.  If it fails, a completed task becomes a failure to be retried; *)
(* a code run keeps its answer.  Then the capacity is given back.          *)
(***************************************************************************)
Cleaned(j, ok) ==
    Return(j, IF ~ok /\ j \in Tasks /\ job[j].outcome.type = "completed" THEN Failed(TRUE) ELSE job[j].outcome)

CleanupAlive_Cancelled(j) == window[j] = "open"     \* seeded defect: deletes on the job's own context
CleanupAlive(j) == TRUE

DeleteArtifact(j) ==
    /\ At(j, "cleanup")
    /\ \/ /\ CleanupAlive(j) /\ j \in cached
          /\ cached' = cached \ {j}
          /\ Cleaned(j, TRUE)
          /\ UNCHANGED strays
       \/ /\ ~CleanupAlive(j) \/ j \notin cached
          /\ Cleaned(j, FALSE)
          /\ UNCHANGED <<cached, strays>>
       \/ /\ CleanupAlive(j)                          \* the sandbox does not answer
          /\ Cleaned(j, FALSE)
          /\ \/ cached' = cached \ {j} /\ UNCHANGED strays
             \/ strays' = strays \cup {j} /\ UNCHANGED cached
    /\ UNCHANGED <<program, window>>

-----------------------------------------------------------------------------
WindowElapses(j) ==
    /\ \/ j \in CodeRuns /\ Running(j) /\ window[j] = "open"
       \/ j \in Tasks /\ (Running(j) \/ At(j, "waiting")) /\ window[j] # "past"
    /\ window' = [window EXCEPT ![j] = IF @ = "open" THEN "timeout" ELSE "past"]
    /\ UNCHANGED <<program, job, cached, strays, capacity>>

SandboxRestarts ==
    /\ cached # {}
    /\ cached' = {}
    /\ UNCHANGED <<program, job, window, strays, capacity>>

\* The worker process ends: its jobs have no outcome, its files stay behind.
WorkerDies ==
    /\ \E j \in Jobs : Running(j)
    /\ job' = [j \in Jobs |-> IF Running(j) THEN [job[j] EXCEPT !.pc = "lost", !.outcome = NothingReported] ELSE job[j]]
    /\ strays' = strays \cup {j \in cached : Running(j)}
    /\ capacity' = NoRun
    /\ UNCHANGED <<program, window, cached>>

ExecNext ==
    \/ \E j \in Jobs : Load(j) \/ TakeCapacity(j) \/ Compile(j) \/ Run(j) \/ DeleteArtifact(j) \/ WindowElapses(j)
    \/ SandboxRestarts
    \/ WorkerDies

ExecSpec == ExecInit /\ [][ExecNext]_execVars

-----------------------------------------------------------------------------
FirstFailing(does, n) == does[n] # "AC" /\ \A k \in 1..(n - 1) : does[k] = "AC"

(***************************************************************************)
(* The outcome of a task is the program's own doing.  A verdict is what    *)
(* the program did on the first case it fails, whatever the sandbox, the   *)
(* store and the clock did meanwhile; and a failure that is not to be      *)
(* retried means that the deadline was over or the stored objects damaged, *)
(* never that the sandbox had a fault.                                     *)
(***************************************************************************)
OutcomeIsEarned ==
    \A t \in Tasks :
      LET outcome == job[t].outcome
          does == program[t].does
      IN  At(t, "done") =>
            /\ outcome.verdict = "CE" => ~program[t].compiles
            /\ outcome.verdict = "AC" => outcome.cases = CaseCount /\ \A k \in 1..CaseCount : does[k] = "AC"
            /\ outcome.type = "completed" /\ outcome.verdict \notin {"CE", "AC"} =>
                 FirstFailing(does, outcome.cases) /\ outcome.verdict = does[outcome.cases]
            /\ outcome.type # "completed" =>
                 outcome.retryable \/ window[t] = "past" \/ program[t].stored = "damaged"

(***************************************************************************)
(* Compiled files do not pile up in the sandbox.  A file is in the cache   *)
(* only while its job is at work, and for a code run only while it holds   *)
(* the capacity, unless the sandbox itself failed or the worker died; and  *)
(* a task that ran is reported as completed only when its file is gone.    *)
(***************************************************************************)
CacheIsCleaned ==
    /\ \A j \in cached \ strays : job[j].pc \in {"run", "cleanup"} /\ (j \in CodeRuns => capacity = j)
    /\ \A t \in Tasks : At(t, "done") /\ job[t].outcome.cases > 0 => t \notin cached
=============================================================================
