# TLA+ models of go_oj_agent

go_oj_agent is an online judge: users submit programs to problems, alone or in
contests; workers compile and run them; contests keep a leaderboard; an agent
service answers questions about submissions.  This directory models

1. **judging**: submit or rejudge → transactional outbox → task queue → worker and
   sandbox → result queue → verdict (judge service, judge worker);
2. **contests**: their life cycle, and judged event → projection of scores in
   MySQL → cache outbox → leaderboard in Redis, rebuilt and checked for freshness
   (contest service);
3. **what these rest on**: problems and the test data of their judge revisions
   (problem service), login sessions (user service), and the way of a request and
   of a chat stream through the gateway and the services,

as TLA+ specifications that TLC checks on small instances, with theorems that
TLAPS proves for every instance.  `PROJECT.json` is the index: which module
models which source lines, which run checks which property, which defect each
property was tested against, what is hard to test in the code, what is proved.

## 1. Inventory

### Components, their state and their operations

| component (source) | state it keeps | operations that change it |
| --- | --- | --- |
| **Submission store** (`services/judge/internal/biz/submission.go`, `data/submission_repo.go`) | `submissions`, `idempotency_requests`, `processed_events`, `outbox_events` | `Create`, `Rejudge` (an unlocked look-up, then a transaction), `ApplyJudgeResult` |
| **Outbox relay** (`biz/outbox.go`, `message/rabbitmq.go`, `server/relay.go`) | delivery columns of `outbox_events` (status, lease, retry count) | `ClaimOutbox`, publish with confirm, `MarkOutboxPublished`, `MarkOutboxFailure` |
| **Judge worker** (`services/judge-worker/internal/message`, `biz/engine.go`, `pkg/mq/judge.go`) | deliveries in hand; the task, retry, dead-letter and result queues | `Handle`: decode, deadline, execute, report a result or a retry, acknowledge or requeue |
| **Result consumer** (`biz/result_consumer.go`, `message/rabbitmq.go`) | none of its own | apply the event to the store, then acknowledge, reject or requeue |
| **Contest result projection** (`services/contest/internal/server/result_consumer.go`, `biz/scoring.go`, `data/projection.go`, `data/leaderboard_summary.go`) | `contest_processed_events`, `contest_submission_results`, `contest_problem_results`, `contest_user_results`, `contest_cache_outbox` | `ApplyProjection` (one READ COMMITTED transaction, retried and redelivered), `enqueueLeaderboard` |
| **Leaderboard cache** (`data/leaderboard_redis.go`, `leaderboard_generation.go`, `leaderboard_rebuild.go`, `leaderboard_cache.go`, `cache_outbox.go`, `biz/cache_outbox.go`, `server/cache_relay.go`, `cache_maintenance.go`) | Redis keys of a contest: generations, `active`, `building`, `lease`; leases of `contest_cache_outbox`; per process, pages kept for reuse and queries that readers share | relay an outbox row, begin / load / activate / abandon a build, verify freshness, read from Redis or MySQL |
| **Worker execution** (`services/judge-worker/internal/biz/engine.go`, `sandbox`, `language`, `server/run_code.go`) | compiled files in the sandbox's cache, the single place for a code run | `Engine.Execute`: load, compile, run the cases, clean up; the run-code handler |
| **Contest life cycle** (`data/contest_repo.go`, `biz/contest.go`) | `contests`, `contest_problems`, `contest_participants` | create, update (with an `updated_at` token), archive, join, authorise a submission |
| **Problem service** (`services/problem`) | `problems`, `testcases`, judge revisions in the object store, a mutex per problem and instance, problem pages in Redis | create, update, add and archive testcases, publish a revision, archive |
| **User service** (`services/user`) | accounts, refresh tokens and session sets in Redis | register, log in, refresh with rotation, log out |
| **Gateway** (`services/gateway`) | none durable; slots of the Agent client | bind, validate, authenticate, call a service; forward chat streams; Agent administration |
| **Message rules and handlers** (`api/*/v1/*.pb.validate.go`, `services/*/internal/service`, `pkg/internalauth`) | none | validation of every request, internal tokens on every hop, what a handler requires of its caller |
| Agent (`agent/app`, Python) | runs, events, memory, evaluation cases and leases, configuration versions, retrieval index | chat runs, evaluation runner, configuration publish, indexing |
| Other shared packages (`pkg`) | none | message envelopes, traces, metrics |
| Web client, seeding, deployment | none | – |

### How they interact

The gateway calls the services over gRPC and repeats a call with the same
idempotency key when a reply is lost.  The judge service commits a submission
and its `judge.requested` row together; the relay turns the row into a task
message; the worker answers with a result event; the result consumer applies it,
and if the row is final and belongs to a contest the same transaction adds a
`submission.judged` row, which the relay publishes to the contest service.  A
rejudge invalidates the old row, inserts a new one with the old submission time
and adds `submission.invalidated` and `judge.requested`.  The contest consumer
projects both kinds of events and adds one complete snapshot per user version to
its own outbox, from which relays bring Redis up to date, while maintenance
rebuilds whole generations from a MySQL snapshot.  All messages travel at least
once and in no guaranteed order; all leases can lapse under a live holder.

### What is hard here

Unlocked look-ups followed by transactions; two relays on one row after a lease
lapsed; confirms that are lost although the broker took the message; results for
rows that were replaced meanwhile; a crash between a publish and its
acknowledgement; deadlines that pass in a queue; two consumers recomputing one
user's score; snapshots loaded while updates are applied to both the old and the
new generation; a pointer read in one call and used in another; a lag computed
on one clock and used on another; an edit, a join and the start of a contest at the
same moment; a testcase change on two instances of which one dies between the
object store and the database; a problem page put back into the cache after the update that
deleted it; a reader who joins a query begun before he came; a refresh token used twice at once; a sandbox that fails
after it has cached a file; an Agent that sends anything while deadlines run out;
two copies of each validation rule, and tokens that travel between machines whose
clocks differ.  `PROJECT.json` lists these under `hazards`, each at its line
with the properties that would catch it going wrong.

## 2. Modules

| module | what it is | composed of |
| --- | --- | --- |
| `SubmissionStore` | the judge service's tables and three transactions | – |
| `AtLeastOnce` | what a transactional outbox promises (abstract) | – |
| `OutboxRelay` | the lease-based relay; implements `AtLeastOnce` | instance of `AtLeastOnce` |
| `JudgeWorker` | worker slots and broker queues | – |
| `JudgeSystem` | the judging loop end to end | `SubmissionStore`, instances of `AtLeastOnce` and `JudgeWorker` |
| `AcmScoring` | the scoring pass and the rules it must compute | – |
| `ContestProjection` | the projection transaction, several consumers | extends `AcmScoring` |
| `LeaderboardCache` | Redis generations, relays, builders, freshness | – |
| `LeaderboardReads` | how one process answers readers: Redis, a page kept, a shared query | – |
| `ContestLifecycle` | one contest's row, its participants and the calls on it | – |
| `ProblemStore` | one problem, its testcases and judge revisions, several instances | – |
| `ProblemPages` | the cache of one problem's page beside MySQL | – |
| `UserSessions` | login sessions of one account | – |
| `WorkerExecution` | executions and code runs in the shared sandbox | – |
| `GatewayStreams` | chat streams and Agent calls in the gateway | – |
| `ServiceMessages`, `GatewayMessages` | the rules of every request message, services' and gateway's | the second extends the first |
| `GatewayRoutes` | routes, path variables and the call each request becomes | extends `GatewayMessages` |
| `ServiceHandlers` | what each handler checks, and the calls it leads to | extends `GatewayRoutes` |
| `RequestPath` | one request through all hops, with tokens and clocks | extends `ServiceHandlers` |
| `MC*` | instances for TLC | – |
| `SubmissionStore_proofs`, `OutboxRelay_proofs`, `JudgeSystem_proofs` | proofs about these modules; the third uses the first | extend them |
| `Worker_proofs` | proofs about `JudgeWorker` and `WorkerExecution` | extends both |
| `Contest_proofs` | proofs about `AcmScoring`, `ContestProjection` and `ContestLifecycle` | extends them |
| `Leaderboard_proofs` | proofs about `LeaderboardCache` and `LeaderboardReads` | extends both |
| `Problem_proofs` | proofs about `ProblemStore` and `ProblemPages` | extends both |
| `Access_proofs` | proofs about `UserSessions`, `GatewayStreams` and `RequestPath` | extends them |

An operator named `X_Something` with the comment "seeded defect" is a faulty form
of `X`, used by no specification; `PROJECT.json` says which property catches it.

### SubmissionStore

Tables are functions from ids to rows; `ABSENT` and `none` rows stand for ids not
used yet, and ids are taken in order like AUTO_INCREMENT.  `BeginCreate` and
`BeginRejudge` are the handlers up to the transaction: they answer a repeated
request from the stored record or remember the call in `calls`.
`CreateWithOutboxAndIdempotency` and `InvalidateAndRequeue` are the transactions:
unique keys, locked re-checks, the database clock against the contest interval,
outbox rows and the stored response, in one step, because they are atomic in
MySQL.  `Reply` may lose the response.  `ApplyJudgeResult` is the consumer's
transaction.  Data is abstract: a body is a model value, its hash the pair
of body and contest, a revision a string.  The problem service's revision is any
member of `Revisions`, read at the time of the call.

### OutboxRelay and AtLeastOnce

A row has its status, retry count, lease owner, whether its lease is live and
whether its retry is due; time enters only through these comparisons
(`LeaseLapses`, `RetryDue`).  A relay keeps the batch it claimed with the retry
counts *read at the claim*, which is what `RunOnce` later decides on.  A publish
may be taken by the broker and still look failed.  `AtLeastOnce` is the contract:
rows of one transaction become pending together, a row is pending until published or
given up, and published only if the broker took it.

### JudgeWorker

Each message has a place (task queue, retry queue, a worker's hands, dead-letter
queue, acknowledged).  A slot goes through receive, decide, report, acknowledge;
`ReportFails` and `WorkerLost` interrupt it anywhere, and the broker redelivers.
Compiling and running the program is the outcome `Execute` chooses; `WorkerExecution`
is where outcomes come from.  The deadline of a submission is "open", "closing" (no
retry fits any more) or "past".  `ReportRefused` is a final failure that cannot be
sent: `JudgeFailed.Validate` takes messages of 1024 bytes, the worker makes
diagnostics of up to 4096.  The task is requeued, executed again and refused again
until its deadline: the busy loop that `consumer.go` avoids for retryable results
by never requeueing them directly.

### JudgeSystem

Store and worker in full detail, the relay through `AtLeastOnce`; the rows a store
transaction adds become visible to the outbox at its commit.

### AcmScoring and ContestProjection

`Rebuild` is the code's pass over the facts sorted by submission time and id, as
a fold of `ScoreFact`.  `ScoreByRules` is the reference: earliest counting AC,
wrong verdicts before it, whole seconds.  A consumer's transaction is split into
the points where READ COMMITTED lets another commit in between: the event id
(`BeginProjection`), the participant's row lock (`LockParticipant`), the checks and
the upsert with the recomputed score (`StoreFact`, `SkipFact`, `RefuseEvent`), and
the summary with the commit (`enqueueLeaderboard`).  Its writes are visible to
others at the commit only.  `RollBack` is any failure (deadlock, timeout, crash);
the event comes again.  A refused event also comes again, for ever, as in
`result_consumer.go`.  The contest row is locked FOR SHARE, and its interval,
problems and participants are constants: `FrozenOnceAuthorised` and
`AcceptedIsAdmissible` of `ContestLifecycle` are the facts that justify this.

### LeaderboardCache

A snapshot of a user is its version; a generation is the version it holds per
user, its state, and the time and lag of its last verification.  Each Lua script
is one atomic step; what happens around a script in several calls is several steps
(`ReadPointers` then `ApplySnapshot`; `ReadLag` then `VerifyFreshness`).
The keys `building` and `lease` are always written and expire together and
are one variable.  A generation that no pointer names cannot be reached by any script
and is forgotten.  Users are loaded from a view taken after registration
(`BeginBuild`, `TakeSnapshot`, `LoadUser`).  `Serves` is when `readLeaderboard` answers.

### LeaderboardReads

A page stands for its key and its content for the age of the MySQL snapshot it shows.
A reader goes through Redis (skipped while it cools down after an error), the map of
recent pages and the query for the page, which he joins or starts; a query checks the map
again, waits for a slot, reads and stores.  Ages and remaining times are counted from the present, so the
clock runs without a bound.  What Redis serves is left to `LeaderboardCache`.

### ContestLifecycle

A call makes its fast check on an unlocked reading (`Begin...`), takes the row lock and
repeats the checks against the database clock (`LockContest`, `Refuse`), and commits
later (`Commit...`, `StartOver`, `GiveUp`).  `AuthorizeSubmission` reads behind a shared
lock and is one step; the submission it admits reaches the judge service later
(`CreateSubmission`), with the interval it was authorised for.

### ProblemStore

A change draws a fresh id, uploads, lists the active testcases, copies each under the new
revision, writes the manifest and commits with a comparison of the revision it
started from; every step may fail (with the code's compensating deletes) or be the
last of an instance that dies, and the answer of the commit may be lost (`LoseCommitAnswer`), after
which the call deletes the upload of a testcase that is stored.  Input and output of a testcase are one object.

### ProblemPages

Every commit is a new version of the problem.  A reading fills the cache in three steps (row, tags,
`CachePage`), a creation writes the page before its testcases, updates and archiving delete it after
their commit, testcase changes leave it alone.  Each Redis command may fail unnoticed and each call may
break off; `PageCallTimeout` bounds the time from a call's first command to its last.

### UserSessions

One Redis command or MULTI is one step, so a record may be written back from a stale
reading.  Expiry is a comparison with the clock.  `ReadMember` and `PassOver` are the two ways of
`RevokeSession`'s loop: a token is read and will be revoked, or reading it fails and the loop
goes on; `unread` remembers the sessions in which a logout passed over a token that way, and
`MaxUnread` bounds their number.  Any call may fail at any step (`Fail`): for want of Redis or the
database, or because the account is no longer active, which no code of the service brings about.
Passwords are not modelled.

### WorkerExecution

A program is what it does: whether it compiles, how it behaves per case.  Tasks and
code runs go through `Load` or `TakeCapacity`, `Compile`, `Run`, `DeleteArtifact`; the
sandbox (external) may answer with a fault, lose an answer or restart, the job's time
may run out, and the worker may die.  The comparison of outputs, commands and limits
are data.

### GatewayStreams

A stream has its reader goroutine, the channel of one, the forwarder and its context.
The Agent sends any frame, and one that has arrived may still be read after the context ended; a frame that fails a check on names, sizes or text is
"malformed".  Management calls hold a slot while they run; what they carry is not modelled.

### RequestPath and its message modules

A message is a record whose texts are their length in runes and bytes and whether they
have the required form; a list is its length, whether its items are distinct, and one item.
The request is bound (path variables last), validated, authenticated, translated
into a call, signed for the hop, verified, validated again and served, and a handler
may call on.  `ServiceHandlers` has what a handler *and the operation behind it* refuse a message
for, in their order: the message rules, testcase names, the page, the actor, then what only the
services check (`normalizeUpdate`, a start in the future, the expected version, the language, the
filters of `ListSubmissions`).  Left out are refusals for the sake of a role and of stored data; the
requests of the run come from an administrator.  "Now" is the contest machine's clock, which stands for its
database's, and instants are half milliseconds, so that `Truncate` can make an interval empty.
Signatures are perfect: a token names the key that made it.
`RequestAssumption` says what the binding code can be handed: the fields of the operation's
message (`Fields`, from `gateway.proto`), numbers in the path, and names of testcase files that,
when they go with the case number, have a length and form that follow from it.
`ConfigAssumption` is what `deploy/compose/configs` agrees on: each service lists the signers
of the machines that call it.  TLC evaluates both on the enumerated requests and the deployed signers.

## 3. Runs

Each run finishes within five minutes.  `CHECK_DEADLOCK FALSE` is used where the
bounds on ids make the system come to rest; elsewhere deadlock is checked.

| run | instance and bounds | shows |
| --- | --- | --- |
| `store` | 2 handlers, 2 keys, 2 bodies, in and outside a contest, 3 submissions, 5 results that disagree, are stale, retryable or late; clock before, in and after the contest | `AnswersAgree`: a repeated request never gets a different answer; `OneOrigin`: each row comes from one request or replaces one row; `RequestedOnce`, `JudgedOnce`, `ContestRowsInInterval`, `TerminalIsStable` |
| `relay` | 2 relays, 3 rows (one malformed), batches of 2, 2 retries, 2 faults | no event lost, settled twice or given up early; refinement of `AtLeastOnce`; every row settles |
| `worker` | 2 slots, 3 tasks (one malformed), a fault, reports refused, deadline at any time | no task lost, every task answered |
| `system_safety` | 2 rows (one a replacement), 1 slot, a fault | `NoSubmissionLost`: a waiting submission has its request, task or result somewhere; `ResultsAreAcceptable` |
| `system_live` | 1 contest submission, a fault, a possible give-up | `EventuallyJudged` |
| `projection` | 8 events: an invalidated submission, a double judgement, one before the start, one exactly at the end, two that claim one submission for two users; 2 consumers, 2 users, 2 problems, 1 rollback | `FactsFollowEvents`, `ScoresFollowRules`, `SummaryIsCurrent`, `EveryEventCounts` |
| `cache` | 1 relay, 1 builder, 2 versions, 3 generations, a rejected row, clock to 2 with MaxAge 1 and CallTimeout 1, 1 fault; scripts may run late | `ServedIsFresh`, `EventuallyOnBoard` |
| `contest` | four parts, see below | `NoLostEdit`, `FrozenOnceAuthorised`, `AcceptedIsAdmissible`, `SolutionsWithheld`; `AnswersAreRecent`; `AppliedIsCached`, `BoardNeverGoesBack` |
| `problems` | 2 instances, 2 calls, 2 testcases, 2 limits, 3 ids | `HandedOutIsLoadable`: a revision given to the judge can be loaded for ever; `ChangesBuildOnRevision` |
| `services` | five parts, see below | `ExchangedTokenIsSpent`, `LogoutEndsSession`; `ClientSeesOneRun`, `SlotsComeBack`; `RefusedAtTheEdge`, `ServedAsRequested`; `OutcomeIsEarned`, `CacheIsCleaned`; `OldPagesGo` |

Three runs put questions together that share no state or no cases.  In `store`, the
constraint `Explored` is a union: handlers that race each other with different
bodies while at most one result comes in, or handlers one after the other while results
disagree and time passes.  In `contest` and `services`, the variable `part` chooses a part
and the others rest.  The parts of `contest` are the life cycle with 3 calls, 1 user, 4 forms (one with an
empty interval) and a clock to 3; the board with 2 readers, 2 pages, 1 query slot, room for
1 page, PageReuse 2, FlightTimeout 2 and Cooldown 1; and the cache of the board with 2 versions, 3
generations and 1 fault of any kind, once with 2 relays and a builder, once with a relay and 2
builders, with the clock standing still.  Those of `services` are 2 session calls with 3 tokens and
one session in which reads may fail; 2 clients, 1 slot, 3 frames
and sequence numbers to 3; every operation with a regular request and with each field, one at a
time, at and next to the limits of its rules (`AllRequests`), the signers and
verifiers of `deploy/compose/configs`; a task with 2 cases and two code runs; and 2 calls on a problem's page,
3 versions, PageTTL 2 and a call's time 1.
`SubmittedPrograms` leaves out behaviours behind the first failing case that no
step looks at, and `TriedPrograms` those that differ only in the answer to a code run.

Why the bounds are enough for the cases that matter: two processes of each kind
are what a race between a holder and its successor needs; two versions are an old
and a new one; three generations are a serving one, one being built and one whose
builder lost its lease; three submissions are an original, its replacement and
the replacement's replacement.  One fault per run suffices for each single point of
failure; combinations are explored where two fit.

Two runs show a disagreement between the code and what is written about it:

- `dead_letter`: a submission whose request the relay gave up stays `QUEUED` for
  ever; `docs/architecture.md` and `docs/api.md` describe a reconciler and a
  dead-letter consumer that the code does not have.
- `logout`: `RevokeSession` goes on without a token it cannot read and returns no error
  (`refresh_token_store.go:110-114`), so a logout is answered ok while a token of the session stays
  usable; `docs/api.md:1144` says that a failure of Redis is never passed off as a logout.  One client
  with one session is enough.  `LogoutEndsSession`, in `services`, says what is true without such
  failures.

`ServedIsFresh` holds whenever Redis runs a script.  `verifyLeaderboard` computes the lag before its
call and allows for the client's timeout, but the timeout only ends the wait: a script that a stalled
server runs later records an old lag under a new time, and a page older than MaxAge is
served, where `docs/contest-cache-operations.md:53` says that it is refused.  The property states the
bound that remains: MaxAge plus the time by which the script of the last check ran past the timeout
(`overrun`), and nothing more when it ran in time.  In the run a script may be late by 1.

`RefusedAtTheEdge` says which requests only a service refuses, per operation (`OwnRefusals`): testcase
files whose names do not belong together; a contest with a blank title, an interval that is empty to
the millisecond, or repeated or null problems (`contest.go:306-330`); one that starts in the past, or an update
without a version (`contest.go:269-277`); a language that has the right form and is not
supported (`submission.go:197`); and filters of `ListSubmissions`.  Everything else the gateway
let through is served: the two copies of the rules agree.

`ResultsAreAcceptable` is checked with a single judge revision; the theorem has any number.

Two observations that no run is spent on.  `ApplyJudgeResult` does not consult the
table of `state_machine.go`: it takes `QUEUED` and `RETRY_WAIT` rows straight to
`DONE`, which the table does not list; the worker reports no intermediate states.
And on `relayLeaderboard`: it refuses to run when *either* pointer has
changed since it was read.  The check of the active pointer is needed; dropping the
comparison of the build pointer leaves `AppliedIsCached` and `BoardNeverGoesBack`
true in the model, because a row that was claimed before a build was registered
is committed before that build's snapshot and is loaded with it.

Further observations made while modelling, where a property states what remains true:

- Sandbox: a file stays when the answer to a compile is lost or a rejected compile returns file ids
  (`strays`); a failed cleanup turns a completed task into one to be retried.
- Problems: with no active revision the comparison of revisions cannot tell an unchanged
  problem from one that came back to none, so `ChangesBuildOnRevision` speaks of changes on top of a
  published revision.  After a commit whose reply is lost the originals of a testcase
  that is stored are deleted (`LoseCommitAnswer`, `Fail`); published revisions have their own copies and are not affected
  (`HandedOutIsLoadable`), but the next publish fails.
- Problem pages: `FindByID` reads the row and the tags outside a transaction, so a page may join
  two versions; testcase changes and a repeated `Archive` of an archived problem do not delete the page.
  `OldPagesGo` bounds how long this can be seen.
- Leaderboard reads: the comment at `leaderboard_cache.go:88` says that after a refusal by Redis a page
  kept from before is never served; a reader can still join a query whose own second look found such
  a page, or a query begun before.  `AnswersAreRecent` bounds the age in both cases.
- Sessions: two refreshes of one token at the same time can both succeed.  The set of a
  session expires with the token saved last, so overlapping calls or a logout that broke
  off can leave a younger token out of later logouts; `LogoutEndsSession` excludes these, and the
  sessions in which a logout passed over a token (see `logout` above).
  `Register` trims the password and `Login` does not.
- Streams: the gateway's own error may carry sequence 10003, while the gateway and
  `web/src/agent/stream.ts` accept at most 10002.  The submission event stream runs under the ordinary
  request budget, 2 minutes in `docs/api.md`.
- Requests: validation runs before authentication; the user service is called without an
  internal token; the verifier of access tokens allows no skew.

### Fairness

- Relay, worker, consumers, maintenance: each server loops until it is stopped, so a
  step that stays possible is taken (weak fairness per process).  Crashes are
  bounded; a crashed process is started again.
- Clocks: a lease that is not renewed runs out, a retry becomes due, a deadline passes.
- Broker: a message in a queue with a free consumer is delivered; a delayed message
  returns; a requeued event is delivered again among others (strong fairness
  per event in `ContestProjection`: 16 are in flight, so one that is refused for ever
  does not keep the others out).
- Database: a waiting transaction gets its lock (strong fairness of
  `LockParticipant`): InnoDB queues lock requests.
- `ClaimCacheEvent` is strongly fair per row: a failed row is delayed up to a minute
  while the others are tried, and each row's turn comes.
- A rebuild is started when the generation is missing or damaged, which is when
  maintenance finds its verification failing, as long as the contest is requested.

No fairness is given to users, faults or the clock of `LeaderboardCache`.  `ContestLifecycle`,
`LeaderboardReads`, `ProblemStore` and the parts of `services` are checked for safety only.

## 4. Proofs

TLAPS proves the following for all values of the constants that satisfy the named
assumptions of the component's module (`IdAssumption`, `ContestAssumption`, `TimeAssumption`,
`VerdictAssumption`, `EventAssumption`; `RelayIds`, `RelayOwners`, `RelayBounds`; `WorkerMsgs`,
`WorkerBounds`; `ExecutionBounds`, `ExecutionPrograms`; `ScoringAssumption`, `ProjectionEvents`;
`LifecycleAssumption`; `CacheBounds`; `ReadsAssumption`; `ProblemAssumption`; `PagesAssumption`;
`SessionAssumption`; `StreamAssumption`; `PathAssumption`, `RequestAssumption`, `AbsentAssumption`,
`ConfigAssumption`, `StoredProblems`).  They say what ids, intervals, parsed events and bound requests look
like, that the bounds are numbers, of two timeouts which is the longer one, and that a service knows
the keys of its callers.  Modules proved
about together share no constant and no variable.

**OutboxRelay_proofs.**  `RelayTypeCorrect`, `PublishedRowsAreAccepted`,
`DeadRowsAreExhausted`, `RowsOnlyAdvance` and `RelayImplementsAtLeastOnce`.  None of
the safety properties is inductive: whether a row may be marked published depends
on what a relay remembers.  The inductive invariant `RelayInv` adds that memory: an
absent row has never been touched (`AbsentIsFresh`); what a relay holds exists
(`ClaimedExists`); a relay that saw a confirm is right that the broker has the
message (`ConfirmedIsAccepted`); a relay that found an event malformed is right
(`InvalidIsInvalid`); and as long as a relay owns a row, the retry count it read at
the claim is still the row's count (`CountIsFresh`).  The last is the heart of
`DeadIsExhausted`: the decision to give up is taken on a value read long before, and
it is right because a row changes hands only by a new claim, after which the old
owner's update no longer matches.  The refinement follows step by step: each
action settles or publishes at most one row (`OneRowAtATime`).

**SubmissionStore_proofs.**  `StoreTypeCorrect`, `TerminalRowsAreStable`,
`ContestRowsAreInInterval`, `RowsHaveOneOrigin`, `RowsAreRequestedOnce`,
`VerdictsAreAnnouncedOnce` and `RepeatedAnswersAgree`.  `RowSteps` lists the only ways a
step can change one row (stay, created, replaces, invalidated, judged) from the case
lemmas of the two transactions; all safety theorems rest on it.  On top of it,
`RequestInv` adds that a request in the outbox is about a row that exists,
`JudgedInv` that a row with a verdict is not queued any more, and `AnswerInv` that
each stored idempotency record agrees with the row it made: an answer may be given long
after the row was written, by another handler.  All of it is proved first of `OpenSpec`, a store to
which any well-formed result event may come at any time (`StoreStep`), and then of `Spec`, whose
events are a constant: this is what lets the loop use it.

**JudgeSystem_proofs.**  `SubmissionsAreNeverLost` and `EveryResultIsAcceptable`, from
`SystemInv` (`SystemInvariant`).  A submission that waits is followed hand over hand:
its outbox row is pending, given up or taken by the broker (`DeliveryInv`); a taken row has
become a message (`TakenInv`) about an existing row at its revision (`QueueInv`); a message of
an unsettled submission has a queued one beside it (`LossInv`); every result in the queue fits
its row (`ResultInv`).  Settling is final, which is what lets a message be acknowledged.

The loop is then shown to implement its parts.  `LoopImplementsStore`: every step is a step of the
open store, because the results the worker reports are well formed; hence `LoopKeepsFinalRows`,
`LoopAnnouncesOnce` and `LoopKeepsRequests`, the store's properties with the real worker and outbox
around it.  `LoopImplementsDelivery`: the outbox moves as `AtLeastOnce` says, which is also what the
relay implements (`RelayImplementsAtLeastOnce`), so the two meet in one specification.
`LoopImplementsWorker`: the queues move as `JudgeWorker` says, but for the consumer that takes
results away; it needs that a request names an existing row (`RequestInv`) and that rows were
created at a judge revision (`OpenRevisions`).

**Worker_proofs.**  `TasksAreNeverLost`: the invariant `WorkerInv` is about the moment before an
acknowledgement (`AckIsCovered`): the message is answered, or a copy with a *later*
attempt is queued; the attempts keep two slots from covering each other.
`OutcomesAreEarned` (`EarnedInv`: the cases before the one being run were accepted)
and `CacheStaysClean` (`CacheInv`: only the code run that holds the capacity is at work).

**Contest_proofs.**  `RebuildFollowsRules` shows that the ordered pass of
`ACMScoringPolicy.Rebuild` computes what the ACM rules say, for every finite set of facts.  It is
an induction over finite sets, carried out with a smallest counterexample (`SmallestSubset`, from
the well-foundedness of strict inclusion) because an induction rule cannot be instantiated.
`StoredFactsFollowEvents` and `ResultsFollowRules` follow from `ProjectionInv`,
`SummariesAreCurrent` from `SummaryInv`: a transaction between its lock and its commit holds
what it will write, and nobody else can write it.  `EditsAreNotLost`, `AuthorisedIsFrozen`,
`StoredIsAdmissible` and `SolutionsAreWithheld` follow from `LifecycleInv`
(`LifecycleInvariant`): a call past its checks alone holds the row (`LockHeld`), what each call
has read is related to the row by its token (`CallsFit`), once a submission is authorised nobody
can hold the row again (`Frozen`), and requests name what was shown (`RequestsMatch`).

**Leaderboard_proofs.**  `AppliedRowsAreCached` and `BoardsNeverGoBack`, from `CacheInv`: what a
relay has delivered is on the serving board (`BoardHolds`), and a build that has taken its
snapshot holds it or will when the user is loaded (`BuildsCatchUp`), so nothing is lost at the
switch.  `ServedBoardsAreFresh` adds that every lag recorded with a board covers the moment it
was checked, but for the time by which its script was late (`LagsAreTrue`).  It assumes nothing of
when Redis runs a script.  `SharedAnswersAreRecent` is proved from `ReadsInv`.

**Problem_proofs.**  `HandedOutRevisionsLoad` and `RevisionsBuildOnEachOther`, from `ProblemInv`.
Neither property is inductive: a revision becomes active long after its objects were copied.  An id
that a call holds is nobody else's and has never been active (`IdsAreFresh`), a revision ready
to be committed loads (`RevisionsLoad`), and as long as the revision a call started from is
active, what the call read and listed is still the problem's (`UpToDate`); the compare at the
commit turns this into `ChangesBuildOnRevision`, with no help from the mutexes, which other
instances do not know.  Deletions only touch uploads (`KeysDiffer`).
`PagesGrowOldAndGo`: `PageInv` bounds how long ago the page in the key, and whatever a call may still
put there, went out of date.

**Access_proofs.**  `ExchangedTokensAreSpent` and `SessionsEndWithLogout`, from `SessionsInv`: what
each call may still write back (`CallsFitIn`), and what the single call of an undisturbed
session knows of its tokens (`Orderly`); of a session with a token that a logout passed over it keeps
only that one token at most is usable.  `ClientsSeeOneRun`, from `StreamInv`: while a
stream goes on, the identity the forwarder checks frames against agrees with what the client has
seen (`Tracked`), and what it has seen is well formed (`Seen`).  `SlotsAreAccounted` is
`SlotsComeBack` with `ENABLED ReaderStep` replaced by the guards of the reader's steps.

`RequestsAreRefusedAtTheEdge` and `RequestsAreServedAsMade` are about every request the assumptions
admit, where the run enumerates values next to the limits.  Two parts of the proof are
facts about messages alone.  The calls a request can lead to are few (`LeadsTo`), and each says what
the request says (`EveryCallSaysTheSame`); and a message that passed the gateway's copy of the rules
passes the service's and what its handler requires of page and actor, operation by operation, and is
refused if at all for one of the operation's `OwnRefusals` (`CallsAreServed`).  The inductive invariant `PathInv` adds what the steps have established: the
clocks agree within the skew, the edge has passed the request (`EdgePassed`), the call under way is one
of the request's, for its actor (`CallFitsRequest`), and its token was signed by the machine before, at a time
its clock still knows (`TokenFits`).  From the last, `TokensAreInTime`: a token is neither too
early nor too late for the next machine, for every skew, lifetime and timeout of `PathAssumption`.

The strengthenings that go far beyond their property (`SystemInv`, `CacheInv`, `SessionsInv`,
`ProblemInv` and the like) were checked by TLC on small instances before they were proved.  Two
places of the model were corrected on the way: the cases of `OutcomeIsEarned` overlapped, and
the type of a worker's slot left out the outcome of a task whose retries are used up.

**Only model-checked:** every liveness property (fairness is out of the prover's reach);
`SlotsComeBack` as stated, with `ENABLED`.  Every other property of a passing run is a theorem.

## 5. Not modelled, and why

- Generated code other than routes and message rules: getters, descriptors, gRPC stubs, the error
  types of the validators, the validators of responses (the middleware calls those of requests
  only) and of configurations (which have no rules).  It is about
  two thirds of the lines of Go and has no behaviour of its own.
- Read-only queries, listings and exports, the gateway's queries of metrics, logs and traces, and
  the contract the gateway checks the Agent's JSON answers against: they change
  no state and pass on other systems' answers.  `GetJudgeResult` and `List` of
  the judge service read with two statements outside a transaction.
- Password hashing, registration conflicts, the first administrator's bootstrap.
- The work list of leaderboard maintenance in each process and its back-off, and `BackfillLeaderboard`, a one-off run with the consumers stopped.
- Total sizes of messages (34 MiB at the gateway, 4 MiB for gRPC): rules are per field.
- The Agent's own calls of the services: its allowlists are in `Callers`, its calls are not made.
- The Agent (Python, with its own database and tests), the web client, seeding, migrations, deployment.
- Clock differences between Redis and MySQL: the code adds ages, never compares times of
  both, and so does the model, on one clock.

## 6. Plan

Done, in this order: submission store, relay with its contract, worker,
composition, projection, leaderboard cache, proofs for store and relay; contest life
cycle, problem store, sessions, streams, request path, worker execution,
leaderboard reads, problem pages; the proofs of section 4, last those of the request path and
of the loop's refinements.  What is left:

1. Progress.  The liveness properties rest on fairness and are checked on small instances only; their safety
   halves (nothing is lost, nothing is stuck) are proved.
2. The contest side as one loop, from `submission.judged` to the board, the way `JudgeSystem`
   composes the judging side: `ContestProjection` and `LeaderboardCache` are checked apart.
3. The Agent service, if its evaluation leases and configuration versions are to be relied upon.
