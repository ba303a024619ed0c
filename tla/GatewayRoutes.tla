---------------------------- MODULE GatewayRoutes -----------------------------
(***************************************************************************)
(* The gateway's HTTP routes: which request is open to everybody, which    *)
(* fields the path decides, and the call of a service each one turns into. *)
(* The route constants stand for the generated HTTP handlers, the Call     *)
(* operators for the methods of the gateway's service.                     *)
(***************************************************************************)
EXTENDS GatewayMessages

Public == [open |-> TRUE, vars |-> {}]
Secured(vars) == [open |-> FALSE, vars |-> vars]

RegisterRoute == Public
LoginRoute == Public
RefreshTokenRoute == Public
LogoutRoute == Public
GetCurrentUserRoute == Secured({})
GetUserRoute == Secured({"id"})
CreateProblemRoute == Secured({})
GetProblemRoute == Secured({"problem_id"})
ListProblemsRoute == Secured({})
UpdateProblemRoute == Secured({"problem_id"})
ArchiveProblemRoute == Secured({"problem_id"})
AddTestcaseRoute == Secured({"problem_id"})
UploadTestcaseRoute == Secured({"problem_id"})
ListProblemTestcasesRoute == Secured({"problem_id"})
ArchiveTestcaseRoute == Secured({"problem_id", "testcase_id"})
ListContestsRoute == Secured({})
GetContestRoute == Secured({"contest_id"})
CreateContestRoute == Secured({})
UpdateContestRoute == Secured({"contest_id"})
ArchiveContestRoute == Secured({"contest_id"})
GetContestLeaderboardRoute == Secured({"contest_id"})
JoinContestRoute == Secured({"contest_id"})
CreateContestSubmissionRoute == Secured({"contest_id", "problem_id"})
CreateSubmissionRoute == Secured({})
GetSubmissionRoute == Secured({"submission_id"})
GetSubmissionSourceRoute == Secured({"submission_id"})
GetJudgeResultRoute == Secured({"submission_id"})
ListSubmissionsRoute == Secured({})
RejudgeSubmissionRoute == Secured({"submission_id"})

Route ==
    [Register |-> RegisterRoute, Login |-> LoginRoute, RefreshToken |-> RefreshTokenRoute,
     Logout |-> LogoutRoute, GetCurrentUser |-> GetCurrentUserRoute, GetUser |-> GetUserRoute,
     CreateProblem |-> CreateProblemRoute, GetProblem |-> GetProblemRoute,
     ListProblems |-> ListProblemsRoute, UpdateProblem |-> UpdateProblemRoute,
     ArchiveProblem |-> ArchiveProblemRoute, AddTestcase |-> AddTestcaseRoute,
     UploadTestcase |-> UploadTestcaseRoute, ListProblemTestcases |-> ListProblemTestcasesRoute,
     ArchiveTestcase |-> ArchiveTestcaseRoute, ListContests |-> ListContestsRoute,
     GetContest |-> GetContestRoute, CreateContest |-> CreateContestRoute,
     UpdateContest |-> UpdateContestRoute, ArchiveContest |-> ArchiveContestRoute,
     GetContestLeaderboard |-> GetContestLeaderboardRoute, JoinContest |-> JoinContestRoute,
     CreateContestSubmission |-> CreateContestSubmissionRoute,
     CreateSubmission |-> CreateSubmissionRoute, GetSubmission |-> GetSubmissionRoute,
     GetSubmissionSource |-> GetSubmissionSourceRoute, GetJudgeResult |-> GetJudgeResultRoute,
     ListSubmissions |-> ListSubmissionsRoute, RejudgeSubmission |-> RejudgeSubmissionRoute]

\* The fields of the request messages (gateway.proto), the path's included.  Whether
\* the names of a testcase's files go with its number is kept as a field.
TestcaseFields ==
    {"problem_id", "case_no", "input_filename", "input_content", "output_filename", "output_content", "paired"}
EntryFields == {"problem_id", "language", "source_code", "idempotency_key"}

Fields ==
    [Register |-> {"username", "email", "password"}, Login |-> {"account", "password"},
     RefreshToken |-> {"refresh_token"}, Logout |-> {"refresh_token"},
     GetCurrentUser |-> {}, GetUser |-> {"id"},
     CreateProblem |-> {"problem", "testcases"}, GetProblem |-> {"problem_id"},
     ListProblems |-> {"page"}, UpdateProblem |-> {"problem_id", "problem"},
     ArchiveProblem |-> {"problem_id"}, AddTestcase |-> TestcaseFields,
     UploadTestcase |-> TestcaseFields, ListProblemTestcases |-> {"problem_id", "include_archived"},
     ArchiveTestcase |-> {"problem_id", "testcase_id"}, ListContests |-> {"page", "page_size", "status"},
     GetContest |-> {"contest_id"}, CreateContest |-> {"contest"},
     UpdateContest |-> {"contest_id", "contest"}, ArchiveContest |-> {"contest_id"},
     GetContestLeaderboard |-> {"contest_id", "page", "page_size"}, JoinContest |-> {"contest_id"},
     CreateContestSubmission |-> {"contest_id"} \cup EntryFields, CreateSubmission |-> EntryFields,
     GetSubmission |-> {"submission_id"}, GetSubmissionSource |-> {"submission_id"},
     GetJudgeResult |-> {"submission_id"},
     ListSubmissions |-> {"page", "problem_id", "status", "language", "user_id"},
     RejudgeSubmission |-> {"submission_id", "idempotency_key"}]

\* The validation middleware; the upload route hands it no message.
GatewayRule(op, m) ==
    CASE op = "Register" -> GatewayRegisterRequest(m)
      [] op = "Login" -> GatewayLoginRequest(m)
      [] op = "RefreshToken" -> GatewayRefreshTokenRequest(m)
      [] op = "Logout" -> GatewayLogoutRequest(m)
      [] op = "GetCurrentUser" -> GatewayGetCurrentUserRequest(m)
      [] op = "GetUser" -> GatewayGetUserRequest(m)
      [] op = "CreateProblem" -> GatewayCreateProblemRequest(m)
      [] op = "GetProblem" -> GatewayGetProblemRequest(m)
      [] op = "ListProblems" -> GatewayListProblemsRequest(m)
      [] op = "UpdateProblem" -> GatewayUpdateProblemRequest(m)
      [] op = "ArchiveProblem" -> GatewayArchiveProblemRequest(m)
      [] op = "AddTestcase" -> GatewayAddTestcaseRequest(m)
      [] op = "UploadTestcase" -> TRUE
      [] op = "ListProblemTestcases" -> GatewayListProblemTestcasesRequest(m)
      [] op = "ArchiveTestcase" -> GatewayArchiveTestcaseRequest(m)
      [] op = "ListContests" -> GatewayListContestsRequest(m)
      [] op = "GetContest" -> GatewayGetContestRequest(m)
      [] op = "CreateContest" -> GatewayCreateContestRequest(m)
      [] op = "UpdateContest" -> GatewayUpdateContestRequest(m)
      [] op = "ArchiveContest" -> GatewayArchiveContestRequest(m)
      [] op = "GetContestLeaderboard" -> GatewayGetContestLeaderboardRequest(m)
      [] op = "JoinContest" -> GatewayJoinContestRequest(m)
      [] op = "CreateContestSubmission" -> GatewayCreateContestSubmissionRequest(m)
      [] op = "CreateSubmission" -> GatewayCreateSubmissionRequest(m)
      [] op = "GetSubmission" -> GatewayGetSubmissionRequest(m)
      [] op = "GetSubmissionSource" -> GatewayGetSubmissionSourceRequest(m)
      [] op = "GetJudgeResult" -> GatewayGetJudgeResultRequest(m)
      [] op = "ListSubmissions" -> GatewayListSubmissionsRequest(m)
      [] op = "RejudgeSubmission" -> GatewayRejudgeSubmissionRequest(m)

-----------------------------------------------------------------------------
Rpc(service, rpc, m) == [to |-> service, rpc |-> rpc, m |-> m]

RegisterCall(m, ctx) == Rpc("user", "Register", m)
LoginCall(m, ctx) == Rpc("user", "Login", m)
RefreshTokenCall(m, ctx) == Rpc("user", "RefreshToken", m)
LogoutCall(m, ctx) == Rpc("user", "Logout", m)
GetCurrentUserCall(m, ctx) == Rpc("user", "GetCurrentUser", [context |-> ctx])
GetUserCall(m, ctx) == Rpc("user", "GetUser", [context |-> ctx, user_id |-> m.id])

CreateProblemCall(m, ctx) == Rpc("problem", "CreateProblem", m)
GetProblemCall(m, ctx) == Rpc("problem", "GetProblem", m)
ListProblemsCall(m, ctx) == Rpc("problem", "ListProblems", m)
UpdateProblemCall(m, ctx) == Rpc("problem", "UpdateProblem", m)
ArchiveProblemCall(m, ctx) == Rpc("problem", "ArchiveProblem", m)
AddTestcaseCall(m, ctx) == Rpc("problem", "AddTestcase", m)
ListProblemTestcasesCall(m, ctx) == Rpc("problem", "ListProblemTestcases", m)
ArchiveTestcaseCall(m, ctx) == Rpc("problem", "ArchiveTestcase", m)

Page(m) == [page |-> m.page, page_size |-> m.page_size]
ListContestsCall(m, ctx) == Rpc("contest", "ListContests", [page |-> Page(m), status |-> m.status])
GetContestCall(m, ctx) == Rpc("contest", "GetContest", m)
CreateContestCall(m, ctx) == Rpc("contest", "CreateContest", m)
UpdateContestCall(m, ctx) == Rpc("contest", "UpdateContest", m)
ArchiveContestCall(m, ctx) == Rpc("contest", "ArchiveContest", m)
GetContestLeaderboardCall(m, ctx) ==
    Rpc("contest", "GetLeaderboard", [contest_id |-> m.contest_id, page |-> Page(m)])
JoinContestCall(m, ctx) == Rpc("contest", "JoinContest", m)
CreateContestSubmissionCall(m, ctx) == Rpc("contest", "CreateContestSubmission", m)

SubmissionMessage(m, contest, interval) ==
    [problem_id |-> m.problem_id, language |-> m.language, source_code |-> m.source_code,
     idempotency_key |-> m.idempotency_key, contest_id |-> contest, interval |-> interval]
CreateSubmissionCall(m, ctx) == Rpc("judge", "CreateSubmission", SubmissionMessage(m, 0, Absent))
GetSubmissionCall(m, ctx) == Rpc("judge", "GetSubmission", m)
GetSubmissionSourceCall(m, ctx) == Rpc("judge", "GetSubmissionSource", m)
GetJudgeResultCall(m, ctx) == Rpc("judge", "GetJudgeResult", m)
ListSubmissionsCall(m, ctx) == Rpc("judge", "ListSubmissions", m)
RejudgeSubmissionCall(m, ctx) == Rpc("judge", "RejudgeSubmission", m)

GatewayCall(op, m, ctx) ==
    CASE op = "Register" -> RegisterCall(m, ctx)
      [] op = "Login" -> LoginCall(m, ctx)
      [] op = "RefreshToken" -> RefreshTokenCall(m, ctx)
      [] op = "Logout" -> LogoutCall(m, ctx)
      [] op = "GetCurrentUser" -> GetCurrentUserCall(m, ctx)
      [] op = "GetUser" -> GetUserCall(m, ctx)
      [] op = "CreateProblem" -> CreateProblemCall(m, ctx)
      [] op = "GetProblem" -> GetProblemCall(m, ctx)
      [] op = "ListProblems" -> ListProblemsCall(m, ctx)
      [] op = "UpdateProblem" -> UpdateProblemCall(m, ctx)
      [] op = "ArchiveProblem" -> ArchiveProblemCall(m, ctx)
      [] op \in {"AddTestcase", "UploadTestcase"} -> AddTestcaseCall(m, ctx)
      [] op = "ListProblemTestcases" -> ListProblemTestcasesCall(m, ctx)
      [] op = "ArchiveTestcase" -> ArchiveTestcaseCall(m, ctx)
      [] op = "ListContests" -> ListContestsCall(m, ctx)
      [] op = "GetContest" -> GetContestCall(m, ctx)
      [] op = "CreateContest" -> CreateContestCall(m, ctx)
      [] op = "UpdateContest" -> UpdateContestCall(m, ctx)
      [] op = "ArchiveContest" -> ArchiveContestCall(m, ctx)
      [] op = "GetContestLeaderboard" -> GetContestLeaderboardCall(m, ctx)
      [] op = "JoinContest" -> JoinContestCall(m, ctx)
      [] op = "CreateContestSubmission" -> CreateContestSubmissionCall(m, ctx)
      [] op = "CreateSubmission" -> CreateSubmissionCall(m, ctx)
      [] op = "GetSubmission" -> GetSubmissionCall(m, ctx)
      [] op = "GetSubmissionSource" -> GetSubmissionSourceCall(m, ctx)
      [] op = "GetJudgeResult" -> GetJudgeResultCall(m, ctx)
      [] op = "ListSubmissions" -> ListSubmissionsCall(m, ctx)
      [] op = "RejudgeSubmission" -> RejudgeSubmissionCall(m, ctx)
=============================================================================
