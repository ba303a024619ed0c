--------------------------- MODULE ServiceMessages ----------------------------
(***************************************************************************)
(* The rules the services' request messages are checked against: one       *)
(* operator for every generated Validate of the user, problem, contest and *)
(* submission APIs.  Validate is what the handlers call first.             *)
(*                                                                         *)
(* A message is a record of its fields.  A string or bytes field is        *)
(* measured: its runes, its bytes and whether it has the form (pattern,    *)
(* UUID, e-mail address; of a contest's title: that it is not blank) asked *)
(* for; a language also has its kind: supported, unknown or blank.  A time *)
(* is a number of half milliseconds.  A repeated field is its length,      *)
(* whether its items differ, and an item no better than the rest.          *)
(* A message that is not there is Absent; Validate of an absent message    *)
(* succeeds, so only a "required" rule refuses it.                         *)
(***************************************************************************)
EXTENDS Integers

CONSTANT Absent

Required(m) == m # Absent
Runes(t, low, high) == t.runes \in low..high
Bytes(t, low, high) == t.bytes \in low..high
Matches(t) == t.form
Items(l, low, high) == l.count \in low..high
Embedded(m, Rule(_)) == m = Absent \/ Rule(m)
Each(l, Rule(_)) == l.count = 0 \/ Embedded(l.item, Rule)

ProblemDifficulties == 0..3
ContestStatuses == 0..4
SubmissionStatuses == 0..7

-----------------------------------------------------------------------------
\* common.v1: neither message has rules.
PageRequest(m) == TRUE
RequestContext(m) == TRUE

\* user.v1
UserRegisterRequest(m) ==
    /\ Runes(m.username, 1, 64)
    /\ Runes(m.email, 0, 255) /\ Matches(m.email)
    /\ m.password.runes >= 8 /\ m.password.bytes <= 72
UserLoginRequest(m) ==
    /\ Runes(m.account, 1, 255)
    /\ m.password.runes >= 1 /\ m.password.bytes <= 72
UserRefreshTokenRequest(m) == Runes(m.refresh_token, 1, 2048)
UserLogoutRequest(m) == Runes(m.refresh_token, 1, 2048)
UserGetCurrentUserRequest(m) == Required(m.context) /\ RequestContext(m.context)
UserGetUserRequest(m) == Required(m.context) /\ RequestContext(m.context) /\ m.user_id > 0

-----------------------------------------------------------------------------
\* problem.v1
ProblemSample(m) == Bytes(m.input, 0, 65536) /\ Bytes(m.output, 0, 65536)
TagRule(t) == Runes(t, 1, 64)
RequiredSample(m) == Required(m) /\ ProblemSample(m)

ProblemInput(m) ==
    /\ Runes(m.title, 1, 255)
    /\ Runes(m.slug, 1, 255) /\ Matches(m.slug)
    /\ Runes(m.description, 1, 100000)
    /\ m.difficulty \in ProblemDifficulties \ {0}
    /\ m.time_limit_ms \in 1..600000 /\ m.memory_limit_kb \in 1..1048576
    /\ Items(m.tags, 0, 20) /\ m.tags.unique /\ Each(m.tags, TagRule)
    /\ Items(m.samples, 0, 3) /\ (m.samples.count > 0 => RequiredSample(m.samples.item))
    /\ Bytes(m.constraints, 0, 10000)

TestcaseInput(m) ==
    /\ m.case_no > 0
    /\ Runes(m.input_filename, 4, 255) /\ Matches(m.input_filename)
    /\ Bytes(m.input_content, 1, 16777216)
    /\ Runes(m.output_filename, 5, 255) /\ Matches(m.output_filename)
    /\ Bytes(m.output_content, 1, 16777216)

ProblemCreateProblemRequest(m) ==
    /\ Required(m.problem) /\ ProblemInput(m.problem)
    /\ Items(m.testcases, 0, 100) /\ Each(m.testcases, TestcaseInput)
ProblemUpdateProblemRequest(m) == m.problem_id > 0 /\ Required(m.problem) /\ ProblemInput(m.problem)
ProblemArchiveProblemRequest(m) == m.problem_id > 0
ProblemGetProblemRequest(m) == m.problem_id > 0
ProblemListProblemsRequest(m) == Required(m.page) /\ PageRequest(m.page)
ProblemAddTestcaseRequest(m) ==
    /\ m.problem_id > 0 /\ m.case_no > 0
    /\ Runes(m.input_filename, 4, 255) /\ Matches(m.input_filename)
    /\ Bytes(m.input_content, 1, 16777216)
    /\ Runes(m.output_filename, 5, 255) /\ Matches(m.output_filename)
    /\ Bytes(m.output_content, 1, 16777216)
ProblemListProblemTestcasesRequest(m) == m.problem_id > 0
ProblemArchiveTestcaseRequest(m) == m.problem_id > 0 /\ m.testcase_id > 0
ProblemGetJudgeProfileRequest(m) == m.problem_id > 0
PositiveId(id) == id > 0
ProblemBatchGetProblemsRequest(m) ==
    Items(m.problem_ids, 1, 100) /\ m.problem_ids.unique /\ Each(m.problem_ids, PositiveId)

-----------------------------------------------------------------------------
\* contest.v1
ContestProblem(m) == m.problem_id > 0 /\ m.sort_order > 0 /\ m.score >= 0
ContestUpdate(m) ==
    /\ Runes(m.title, 1, 255)
    /\ Required(m.start_at) /\ Required(m.end_at)
    /\ Items(m.problems, 1, 100) /\ Each(m.problems, ContestProblem)
ContestCreateContestRequest(m) == Required(m.contest) /\ ContestUpdate(m.contest)
ContestGetContestRequest(m) == m.contest_id > 0
ContestUpdateContestRequest(m) == m.contest_id > 0 /\ Required(m.contest) /\ ContestUpdate(m.contest)
ContestArchiveContestRequest(m) == m.contest_id > 0
ContestListContestsRequest(m) == Required(m.page) /\ PageRequest(m.page) /\ m.status \in ContestStatuses
ContestGetLeaderboardRequest(m) == m.contest_id > 0 /\ Required(m.page) /\ PageRequest(m.page)
ContestJoinContestRequest(m) == m.contest_id > 0
ContestCreateContestSubmissionRequest(m) ==
    /\ m.contest_id > 0 /\ m.problem_id > 0
    /\ Runes(m.language, 1, 32) /\ Matches(m.language)
    /\ m.source_code.runes >= 1 /\ m.source_code.bytes <= 1048576
    /\ Matches(m.idempotency_key)

-----------------------------------------------------------------------------
\* submission.v1
SubmissionCreateSubmissionRequest(m) ==
    /\ m.problem_id > 0
    /\ Runes(m.language, 1, 32) /\ Matches(m.language)
    /\ m.source_code.runes >= 1 /\ m.source_code.bytes <= 1048576
    /\ Matches(m.idempotency_key)
    /\ m.contest_id >= 0
SubmissionGetSubmissionRequest(m) == m.submission_id > 0
SubmissionGetSubmissionSourceRequest(m) == m.submission_id > 0
SubmissionListSubmissionsRequest(m) ==
    /\ Required(m.page) /\ PageRequest(m.page)
    /\ m.problem_id >= 0 /\ m.user_id >= 0
    /\ m.status \in SubmissionStatuses /\ Runes(m.language, 0, 32)
SubmissionGetJudgeResultRequest(m) == m.submission_id > 0
SubmissionRejudgeSubmissionRequest(m) == m.submission_id > 0 /\ Matches(m.idempotency_key)
=============================================================================
