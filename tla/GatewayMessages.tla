--------------------------- MODULE GatewayMessages ----------------------------
(***************************************************************************)
(* The gateway's copy of the rules: one operator for every generated       *)
(* Validate of the gateway API, which the validation middleware calls on   *)
(* the message bound from the HTTP request.  Problems, testcases and       *)
(* contests are embedded messages of the services' APIs.                   *)
(***************************************************************************)
EXTENDS ServiceMessages

GatewayRegisterRequest(m) ==
    /\ Runes(m.username, 1, 64)
    /\ Runes(m.email, 0, 255) /\ Matches(m.email)
    /\ m.password.runes >= 8 /\ m.password.bytes <= 72
GatewayLoginRequest(m) ==
    /\ Runes(m.account, 1, 255)
    /\ m.password.runes >= 1 /\ m.password.bytes <= 72
GatewayRefreshTokenRequest(m) == Runes(m.refresh_token, 1, 2048)
GatewayLogoutRequest(m) == Runes(m.refresh_token, 1, 2048)
GatewayGetCurrentUserRequest(m) == TRUE
GatewayGetUserRequest(m) == m.id > 0

GatewayCreateProblemRequest(m) ==
    /\ Required(m.problem) /\ ProblemInput(m.problem)
    /\ Items(m.testcases, 0, 100) /\ Each(m.testcases, TestcaseInput)
GatewayGetProblemRequest(m) == m.problem_id > 0
GatewayListProblemsRequest(m) == Required(m.page) /\ PageRequest(m.page)
GatewayUpdateProblemRequest(m) == m.problem_id > 0 /\ Required(m.problem) /\ ProblemInput(m.problem)
GatewayArchiveProblemRequest(m) == m.problem_id > 0
GatewayAddTestcaseRequest(m) ==
    /\ m.problem_id > 0 /\ m.case_no > 0
    /\ Runes(m.input_filename, 4, 255) /\ Matches(m.input_filename)
    /\ Bytes(m.input_content, 1, 16777216)
    /\ Runes(m.output_filename, 5, 255) /\ Matches(m.output_filename)
    /\ Bytes(m.output_content, 1, 16777216)
GatewayListProblemTestcasesRequest(m) == m.problem_id > 0
GatewayArchiveTestcaseRequest(m) == m.problem_id > 0 /\ m.testcase_id > 0

GatewayListContestsRequest(m) == m.page > 0 /\ m.page_size \in 1..100 /\ m.status \in ContestStatuses
GatewayGetContestRequest(m) == m.contest_id > 0
GatewayCreateContestRequest(m) == Required(m.contest) /\ ContestUpdate(m.contest)
GatewayUpdateContestRequest(m) == m.contest_id > 0 /\ Required(m.contest) /\ ContestUpdate(m.contest)
GatewayArchiveContestRequest(m) == m.contest_id > 0
GatewayGetContestLeaderboardRequest(m) == m.contest_id > 0 /\ m.page > 0 /\ m.page_size \in 1..100
GatewayJoinContestRequest(m) == m.contest_id > 0
GatewayCreateContestSubmissionRequest(m) ==
    /\ m.contest_id > 0 /\ m.problem_id > 0
    /\ Runes(m.language, 1, 32) /\ Matches(m.language)
    /\ m.source_code.runes >= 1 /\ m.source_code.bytes <= 1048576
    /\ Matches(m.idempotency_key)

GatewayCreateSubmissionRequest(m) ==
    /\ m.problem_id > 0
    /\ Runes(m.language, 1, 32) /\ Matches(m.language)
    /\ m.source_code.runes >= 1 /\ m.source_code.bytes <= 1048576
    /\ Matches(m.idempotency_key)
GatewayGetSubmissionRequest(m) == m.submission_id > 0
GatewayGetSubmissionSourceRequest(m) == m.submission_id > 0
GatewayGetJudgeResultRequest(m) == m.submission_id > 0
GatewayListSubmissionsRequest(m) == Required(m.page) /\ PageRequest(m.page)
GatewayRejudgeSubmissionRequest(m) == m.submission_id > 0 /\ Matches(m.idempotency_key)
=============================================================================
