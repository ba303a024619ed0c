------------------------------ MODULE MCServices ------------------------------
(***************************************************************************)
(* Login sessions, chat streams, the path of a request, the worker's       *)
(* executions and the cache of problem pages: five parts of the system     *)
(* that share no state.  A behaviour is one of one of them; the others     *)
(* stay as they are.                                                       *)
(***************************************************************************)
EXTENDS UserSessions, GatewayStreams, RequestPath, WorkerExecution, ProblemPages, TLC

VARIABLE part

PathRests ==
    /\ http = Absent /\ clock = [m \in Machines |-> 0] /\ stage = "none" /\ at = "gateway"
    /\ rpc = "none" /\ message = <<>> /\ token = NoToken /\ actor = Nobody /\ caller = "none"
    /\ age = 0 /\ why = "none"

ExecutionRests ==
    /\ program = <<>> /\ job = [j \in Jobs |-> Waiting] /\ window = [j \in Jobs |-> "open"]
    /\ cached = {} /\ strays = {} /\ capacity = NoRun

ServicesInit ==
    /\ SessionInit /\ StreamInit /\ PagesInit
    /\ \/ part = "path" /\ PathInit /\ ExecutionRests
       \/ part = "execution" /\ ExecInit /\ PathRests
       \/ part \in {"sessions", "streams", "pages"} /\ PathRests /\ ExecutionRests

\* The parts a behaviour is not about rest.
Rests(p, vars) == IF p = part THEN TRUE ELSE UNCHANGED vars

ServicesNext ==
    /\ UNCHANGED part
    /\ \/ part = "sessions" /\ SessionNext
       \/ part = "streams" /\ StreamNext
       \/ part = "path" /\ PathNext
       \/ part = "execution" /\ ExecNext
       \/ part = "pages" /\ PagesNext
    /\ Rests("sessions", sessionVars) /\ Rests("streams", streamVars) /\ Rests("path", pathVars)
    /\ Rests("execution", execVars) /\ Rests("pages", pagesVars)

ServicesSpec == ServicesInit /\ [][ServicesNext]_<<part, sessionVars, streamVars, pathVars, execVars, pagesVars>>

\* Calls of the user service are interchangeable, and so are code runs.
Interchangeable == Permutations(SessionCalls) \cup Permutations(CodeRuns)

\* A source that is damaged, or does not compile, does not run.
SubmittedPrograms ==
    {p \in Programs(2) :
       /\ (p.stored = "damaged" \/ ~p.compiles) => \A k \in 1..2 : p.does[k] = "AC"
       /\ p.does[1] # "AC" => p.does[2] \in {"AC", "RE"}}
TriedPrograms == {p \in Programs(1) : p.stored = "intact" /\ p.does[1] = "AC"}

-----------------------------------------------------------------------------
(* The requests: for every operation a regular one, and those that differ   *)
(* from it in one field, with the values at and next to the limits of the   *)
(* rules.                                                                   *)
Measured(runes, bytes, form) == [runes |-> runes, bytes |-> bytes, form |-> form]
Limits == {0, 3, 4, 5, 7, 32, 64, 72, 255, 2048, 10000, 65536, 100000, 1048576, 16777216}
Text == [nominal |-> Measured(8, 8, TRUE),
         edges |-> {Measured(n + d, n + d, TRUE) : n \in Limits, d \in {0, 1}}
                     \cup {Measured(18, 72, TRUE), Measured(19, 76, TRUE), Measured(8, 8, FALSE)}]
Number == [nominal |-> 1, edges |-> {-1, 0, 3, 4, 5, 7, 8, 100, 101, 600000, 600001, 1048576, 1048577}]
Flag == [nominal |-> TRUE, edges |-> {FALSE}]
Start == [nominal |-> 8, edges |-> {Absent, 0, 4, 12, 13}]
End == [nominal |-> 12, edges |-> {Absent, 8, 9, 10}]
Version == [nominal |-> "time", edges |-> {Absent, "invalid"}]
LanguageText(t, kind) == [runes |-> t.runes, bytes |-> t.bytes, form |-> t.form, kind |-> kind]
Language ==
    [nominal |-> LanguageText(Measured(6, 6, TRUE), "supported"),
     edges |-> {LanguageText(t, IF t.runes = 0 THEN "blank" ELSE "unknown") : t \in Text.edges}
                 \cup {LanguageText(Measured(6, 6, FALSE), k) : k \in {"supported", "blank"}}]

Nominal(shape) == [f \in DOMAIN shape |-> shape[f].nominal]
Variants(shape) ==
    {Nominal(shape)} \cup UNION {{[Nominal(shape) EXCEPT ![f] = v] : v \in shape[f].edges} : f \in DOMAIN shape}
Nested(shape) == [nominal |-> Nominal(shape), edges |-> {Absent} \cup Variants(shape)]
ListOf(kind) ==
    LET L(count, unique, item) == [count |-> count, unique |-> unique, item |-> item]
    IN  [nominal |-> L(1, TRUE, kind.nominal),
         edges |-> {L(n, u, kind.nominal) : n \in {0, 2, 3, 4, 20, 21, 100, 101}, u \in BOOLEAN}
                     \cup {L(1, TRUE, i) : i \in kind.edges}]

SampleShape == [input |-> Text, output |-> Text]
ProblemShape ==
    [title |-> Text, slug |-> Text, description |-> Text, difficulty |-> Number,
     time_limit_ms |-> Number, memory_limit_kb |-> Number, tags |-> ListOf(Text),
     samples |-> ListOf(Nested(SampleShape)), constraints |-> Text]
TestcaseShape ==
    [case_no |-> Number, input_filename |-> Text, input_content |-> Text,
     output_filename |-> Text, output_content |-> Text, paired |-> Flag]
ContestShape ==
    [title |-> Text, start_at |-> Start, end_at |-> End, expected_updated_at |-> Version,
     problems |-> ListOf(Nested([problem_id |-> Number, sort_order |-> Number, score |-> Number]))]
PageShape == [page |-> Number, page_size |-> Number]
EntryShape == [problem_id |-> Number, language |-> Language, source_code |-> Text, idempotency_key |-> Text]

Shape ==
    [Register |-> [username |-> Text, email |-> Text, password |-> Text],
     Login |-> [account |-> Text, password |-> Text],
     RefreshToken |-> [refresh_token |-> Text], Logout |-> [refresh_token |-> Text],
     GetCurrentUser |-> <<>>, GetUser |-> [id |-> Number],
     CreateProblem |-> [problem |-> Nested(ProblemShape), testcases |-> ListOf(Nested(TestcaseShape))],
     GetProblem |-> [problem_id |-> Number], ListProblems |-> [page |-> Nested(PageShape)],
     UpdateProblem |-> [problem_id |-> Number, problem |-> Nested(ProblemShape)],
     ArchiveProblem |-> [problem_id |-> Number],
     AddTestcase |-> [problem_id |-> Number] @@ TestcaseShape,
     UploadTestcase |-> [problem_id |-> Number] @@ TestcaseShape,
     ListProblemTestcases |-> [problem_id |-> Number, include_archived |-> Flag],
     ArchiveTestcase |-> [problem_id |-> Number, testcase_id |-> Number],
     ListContests |-> PageShape @@ [status |-> Number], GetContest |-> [contest_id |-> Number],
     CreateContest |-> [contest |-> Nested(ContestShape)],
     UpdateContest |-> [contest_id |-> Number, contest |-> Nested(ContestShape)],
     ArchiveContest |-> [contest_id |-> Number],
     GetContestLeaderboard |-> [contest_id |-> Number] @@ PageShape,
     JoinContest |-> [contest_id |-> Number],
     CreateContestSubmission |-> [contest_id |-> Number] @@ EntryShape,
     CreateSubmission |-> EntryShape,
     GetSubmission |-> [submission_id |-> Number], GetSubmissionSource |-> [submission_id |-> Number],
     GetJudgeResult |-> [submission_id |-> Number],
     ListSubmissions |-> [page |-> Nested(PageShape), problem_id |-> Number, status |-> Number,
                          language |-> Language, user_id |-> Number],
     RejudgeSubmission |-> [submission_id |-> Number, idempotency_key |-> Text]]

Possible(op, m) ==
    CASE op \in {"AddTestcase", "UploadTestcase"} -> PairedNames(m)
      [] op = "CreateProblem" -> m.testcases.item = Absent \/ PairedNames(m.testcases.item)
      [] OTHER -> TRUE

Bearer(subject, issued, expires, genuine) ==
    [subject |-> subject, roles |-> {"admin"}, issued |-> issued, expires |-> expires, genuine |-> genuine]
Regular == Bearer(1, 0, 9, TRUE)
Bearers == {Absent, Regular, Bearer(2, 1, 9, TRUE), Bearer(1, 0, 1, TRUE), Bearer(1, 0, 9, FALSE)}

PathShape(op) == [f \in Route[op].vars |-> Number]
Request(op, body, vars, bearer, parses) ==
    [op |-> op, body |-> [f \in DOMAIN body |-> IF f \in Route[op].vars THEN 7 ELSE body[f]],
     vars |-> vars, bearer |-> bearer, parses |-> parses]
RequestsOf(op) ==
    LET body == Nominal(Shape[op])
        path == Nominal(PathShape(op))
    IN  {Request(op, b, path, Regular, TRUE) : b \in {v \in Variants(Shape[op]) : Possible(op, v)}}
          \cup {Request(op, body, v, Regular, TRUE) : v \in Variants(PathShape(op))}
          \cup {Request(op, body, path, b, p) : b \in Bearers, p \in BOOLEAN}
AllRequests == UNION {RequestsOf(op) : op \in DOMAIN Route}

ReceivedContests == Variants(ContestShape)

\* The configurations of deploy/compose/configs: the contest service signs with the gateway's key.
SignerOf(key, issuer, to, subject) == [key |-> key, issuer |-> issuer, audience |-> to, subject |-> subject]
ComposeSigners ==
    [hop \in ({"gateway"} \X {"problem", "contest", "judge"}) \cup ({"contest"} \X {"problem", "judge"}) |->
       SignerOf("gateway-internal", "go-oj-gateway", hop[2], "gateway-service")]
    @@ (<<"judge", "problem">> :> SignerOf("judge-internal", "go-oj-judge", "problem", "judge-service"))
CallerOf(key, issuer, subject, methods) ==
    [key |-> key, issuer |-> issuer, subject |-> subject, methods |-> methods]
GatewayCaller == CallerOf("gateway-internal", "go-oj-gateway", "gateway-service", {})
AgentCaller(methods) == CallerOf("agent-internal", "go-oj-agent", "agent-service", methods)
ComposeCallers ==
    [problem |-> {GatewayCaller, CallerOf("judge-internal", "go-oj-judge", "judge-service", {}),
                  AgentCaller({"GetProblem", "ListProblems", "BatchGetProblems"})},
     contest |-> {GatewayCaller, AgentCaller({"CheckKnowledgeAccess"})},
     judge |-> {GatewayCaller, AgentCaller({"GetSubmission", "GetSubmissionSource", "GetJudgeResult", "ListSubmissions"})}]
=============================================================================
