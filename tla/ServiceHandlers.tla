--------------------------- MODULE ServiceHandlers ----------------------------
(***************************************************************************)
(* What the gRPC handlers of the services, and the operations behind them, *)
(* check of a message and its caller before they do anything, in the order *)
(* they check it, and the calls of other services they lead to.  What they *)
(* answer for the sake of roles and of stored data is left out here.       *)
(*                                                                         *)
(* A principal is what the internal token of the call says: the calling    *)
(* service and the user it acts for (id 0: nobody).                        *)
(***************************************************************************)
EXTENDS GatewayRoutes

CONSTANTS
    Contests,           \* contests as CreateContest and UpdateContest receive them
    ProblemIds          \* problem ids found in stored submissions

ASSUME StoredProblems == ProblemIds \subseteq Nat \ {0}

Nobody == [user_id |-> 0, roles |-> {}]

\* The first check that fails decides the answer.
Checked(form, named, known) ==
    CASE ~form -> "form"
      [] form /\ ~named -> "names"
      [] form /\ named /\ ~known -> "actor"
      [] OTHER -> "ok"

\* A further check, after those that led to the answer.
Then(answer, holds, reason) == IF answer = "ok" /\ ~holds THEN reason ELSE answer

-----------------------------------------------------------------------------
\* user service: no internal token, the identity travels in the message.
ServeRegister(m) == Checked(UserRegisterRequest(m), TRUE, TRUE)
ServeLogin(m) == Checked(UserLoginRequest(m), TRUE, TRUE)
ServeRefreshToken(m) == Checked(UserRefreshTokenRequest(m), TRUE, TRUE)
ServeLogout(m) == Checked(UserLogoutRequest(m), TRUE, TRUE)
ServeGetCurrentUser(m) == Checked(UserGetCurrentUserRequest(m), TRUE, m.context.user_id > 0)
ServeGetUser(m) == Checked(UserGetUserRequest(m), TRUE, m.context.user_id > 0)

\* problem service
requestContextFromPrincipal(p) == p.actor.user_id > 0
requireJudgeService(p) == p.caller = "judge-service"
validateTestcasePair(m) == m.paired

ServeCreateProblem(m, p) ==
    Checked(ProblemCreateProblemRequest(m),
            m.testcases.count = 0 \/ (Required(m.testcases.item) /\ validateTestcasePair(m.testcases.item)),
            requestContextFromPrincipal(p))
ServeGetProblem(m, p) == Checked(ProblemGetProblemRequest(m), TRUE, requestContextFromPrincipal(p))
ServeListProblems(m, p) == Checked(ProblemListProblemsRequest(m), TRUE, requestContextFromPrincipal(p))
ServeUpdateProblem(m, p) == Checked(ProblemUpdateProblemRequest(m), TRUE, requestContextFromPrincipal(p))
ServeArchiveProblem(m, p) == Checked(ProblemArchiveProblemRequest(m), TRUE, requestContextFromPrincipal(p))
ServeAddTestcase(m, p) ==
    Checked(ProblemAddTestcaseRequest(m), validateTestcasePair(m), requestContextFromPrincipal(p))
ServeListProblemTestcases(m, p) ==
    Checked(ProblemListProblemTestcasesRequest(m), TRUE, requestContextFromPrincipal(p))
ServeArchiveTestcase(m, p) == Checked(ProblemArchiveTestcaseRequest(m), TRUE, requestContextFromPrincipal(p))
ServeGetJudgeProfile(m, p) == Checked(ProblemGetJudgeProfileRequest(m), TRUE, requireJudgeService(p))
ServeBatchGetProblems(m, p) == Checked(ProblemBatchGetProblemsRequest(m), TRUE, requestContextFromPrincipal(p))

\* contest service
requestContext(p) == p.actor.user_id > 0
InRange(page) == page.page > 0 /\ page.page_size \in 1..100

\* Milliseconds, the precision of the database.
Truncate(t) == t \div 2
normalizeUpdate(c) ==
    /\ Matches(c.title) /\ Required(c.start_at) /\ Required(c.end_at)
    /\ Truncate(c.start_at) < Truncate(c.end_at)
    /\ c.problems.count > 0 /\ Required(c.problems.item) /\ ContestProblem(c.problems.item) /\ c.problems.unique
InTheFuture(c, now) == Truncate(c.start_at) > now
Versioned(c) == c.expected_updated_at \notin {Absent, "invalid"}

ServeListContests(m, p) ==
    Then(Then(Checked(ContestListContestsRequest(m), TRUE, TRUE), InRange(m.page), "page"), requestContext(p), "actor")
ServeGetContest(m, p) == Checked(ContestGetContestRequest(m), TRUE, requestContext(p))
ServeCreateContest(m, p, now) ==
    Then(Then(Checked(ContestCreateContestRequest(m), TRUE, requestContext(p)),
              normalizeUpdate(m.contest), "contest"),
         InTheFuture(m.contest, now), "past")
ServeUpdateContest(m, p, now) ==
    Then(Then(Then(Checked(ContestUpdateContestRequest(m), TRUE, requestContext(p)),
                   normalizeUpdate(m.contest), "contest"),
              InTheFuture(m.contest, now), "past"),
         Versioned(m.contest), "version")
ServeArchiveContest(m, p) == Checked(ContestArchiveContestRequest(m), TRUE, requestContext(p))
ServeGetLeaderboard(m, p) ==
    Then(Checked(ContestGetLeaderboardRequest(m), TRUE, requestContext(p)), InRange(m.page), "page")
ServeJoinContest(m, p) == Checked(ContestJoinContestRequest(m), TRUE, requestContext(p))
ServeCreateContestSubmission(m, p) ==
    Checked(ContestCreateContestSubmissionRequest(m), TRUE, requestContext(p))

\* judge service; a contest submission comes with the contest's interval.
actorFromPrincipal(p) == p.actor.user_id > 0
SupportedLanguage(l) == l.kind = "supported"

ServeCreateSubmission(m, p) ==
    Then(Then(Checked(SubmissionCreateSubmissionRequest(m), TRUE, actorFromPrincipal(p)),
              m.contest_id > 0 => Required(m.interval), "form"),
         SupportedLanguage(m.language), "language")
ServeGetSubmission(m, p) == Checked(SubmissionGetSubmissionRequest(m), TRUE, actorFromPrincipal(p))
ServeGetSubmissionSource(m, p) == Checked(SubmissionGetSubmissionSourceRequest(m), TRUE, actorFromPrincipal(p))
ServeGetJudgeResult(m, p) == Checked(SubmissionGetJudgeResultRequest(m), TRUE, actorFromPrincipal(p))
ServeListSubmissions(m, p) ==
    Then(Checked(SubmissionListSubmissionsRequest(m), TRUE, actorFromPrincipal(p)),
         m.page.page >= 0 /\ m.page.page_size >= 0 /\ (SupportedLanguage(m.language) \/ m.language.kind = "blank"),
         "filter")
ServeRejudgeSubmission(m, p) == Checked(SubmissionRejudgeSubmissionRequest(m), TRUE, actorFromPrincipal(p))

\* now: the clock of the contest service's database
Serves(rpc, m, p, now) ==
    CASE rpc = "Register" -> ServeRegister(m)
      [] rpc = "Login" -> ServeLogin(m)
      [] rpc = "RefreshToken" -> ServeRefreshToken(m)
      [] rpc = "Logout" -> ServeLogout(m)
      [] rpc = "GetCurrentUser" -> ServeGetCurrentUser(m)
      [] rpc = "GetUser" -> ServeGetUser(m)
      [] rpc = "CreateProblem" -> ServeCreateProblem(m, p)
      [] rpc = "GetProblem" -> ServeGetProblem(m, p)
      [] rpc = "ListProblems" -> ServeListProblems(m, p)
      [] rpc = "UpdateProblem" -> ServeUpdateProblem(m, p)
      [] rpc = "ArchiveProblem" -> ServeArchiveProblem(m, p)
      [] rpc = "AddTestcase" -> ServeAddTestcase(m, p)
      [] rpc = "ListProblemTestcases" -> ServeListProblemTestcases(m, p)
      [] rpc = "ArchiveTestcase" -> ServeArchiveTestcase(m, p)
      [] rpc = "GetJudgeProfile" -> ServeGetJudgeProfile(m, p)
      [] rpc = "BatchGetProblems" -> ServeBatchGetProblems(m, p)
      [] rpc = "ListContests" -> ServeListContests(m, p)
      [] rpc = "GetContest" -> ServeGetContest(m, p)
      [] rpc = "CreateContest" -> ServeCreateContest(m, p, now)
      [] rpc = "UpdateContest" -> ServeUpdateContest(m, p, now)
      [] rpc = "ArchiveContest" -> ServeArchiveContest(m, p)
      [] rpc = "GetLeaderboard" -> ServeGetLeaderboard(m, p)
      [] rpc = "JoinContest" -> ServeJoinContest(m, p)
      [] rpc = "CreateContestSubmission" -> ServeCreateContestSubmission(m, p)
      [] rpc = "CreateSubmission" -> ServeCreateSubmission(m, p)
      [] rpc = "GetSubmission" -> ServeGetSubmission(m, p)
      [] rpc = "GetSubmissionSource" -> ServeGetSubmissionSource(m, p)
      [] rpc = "GetJudgeResult" -> ServeGetJudgeResult(m, p)
      [] rpc = "ListSubmissions" -> ServeListSubmissions(m, p)
      [] rpc = "RejudgeSubmission" -> ServeRejudgeSubmission(m, p)

-----------------------------------------------------------------------------
\* The calls a handler goes on to make: the profile of the problem, the titles
\* of a stored contest's problems, the submission of a contest entry.
StoredContests == {c \in Contests : ContestUpdate(c) /\ normalizeUpdate(c)}

ProfileCall(problem) == Rpc("problem", "GetJudgeProfile", [problem_id |-> problem])
TitlesCall(l) ==
    Rpc("problem", "BatchGetProblems",
        [problem_ids |-> [count |-> l.count, unique |-> l.unique, item |-> l.item.problem_id]])
ContestEntryCall(m) == Rpc("judge", "CreateSubmission", SubmissionMessage(m, m.contest_id, "interval"))

FollowUps(rpc, m) ==
    CASE rpc = "CreateSubmission" -> {ProfileCall(m.problem_id)}
      [] rpc = "RejudgeSubmission" -> {ProfileCall(i) : i \in ProblemIds}
      [] rpc = "GetContest" -> {TitlesCall(c.problems) : c \in StoredContests}
      [] rpc = "CreateContestSubmission" -> {ContestEntryCall(m)}
      [] OTHER -> {}
=============================================================================
