----------------------------- MODULE RequestPath ------------------------------
(***************************************************************************)
(* The way of a request through the system: the gateway binds it, checks   *)
(* its form, authenticates the user and calls a service; the service       *)
(* checks the internal token of the call, the form again and the actor,    *)
(* and may call another service in turn.  Every hop mints a token of its   *)
(* own that carries the actor.                                             *)
(*                                                                         *)
(* Requests share no state on this path, so one request at a time is the   *)
(* whole of it.  The clocks of the machines differ by at most ClockSkew;   *)
(* a call that has not reached its service within CallTimeout has failed.  *)
(* Signatures are abstracted to the key that made them.                    *)
(***************************************************************************)
EXTENDS ServiceHandlers

CONSTANTS
    Requests,           \* what clients send
    Signers,            \* [from, to] -> the configuration of the signer
    Callers,            \* service -> the verifiers of its VerifierSet
    TokenTTL, MaxTokenTTL, ClockSkew, CallTimeout

ASSUME PathAssumption ==
    /\ {TokenTTL, MaxTokenTTL, ClockSkew, CallTimeout} \subseteq Nat
    /\ CallTimeout \in 1..TokenTTL /\ TokenTTL <= MaxTokenTTL

(***************************************************************************)
(* What the binding code can be handed.  A request has the fields of its   *)
(* message and the variables of its path, which are numbers; names that go *)
(* with a case number ("12.in", "12.out") are well-formed and not longer   *)
(* than its ten digits allow.                                              *)
(***************************************************************************)
PairedNames(m) ==
    m.paired =>
      /\ Matches(m.input_filename) /\ Runes(m.input_filename, 4, 13)
      /\ Matches(m.output_filename) /\ Runes(m.output_filename, 5, 14)

BearerToken == [subject : Int, roles : SUBSET STRING, issued : Int, expires : Int, genuine : BOOLEAN]

ASSUME RequestAssumption ==
    \A r \in Requests :
      /\ r.op \in DOMAIN Route /\ r.bearer \in BearerToken \cup {Absent} /\ r.parses \in BOOLEAN
      /\ DOMAIN r.body = Fields[r.op]
      /\ r.vars \in [Route[r.op].vars -> Int]
      /\ r.op \in {"ListContests", "GetContestLeaderboard"} => {r.body.page, r.body.page_size} \subseteq Int
      /\ r.op = "UploadTestcase" => PairedNames(r.body)

\* Nothing that stands for a message, and no interval, is mistaken for its absence.
ASSUME AbsentAssumption ==
    /\ Absent \notin [user_id : Int, roles : SUBSET STRING]
    /\ Absent \notin [page : Int, page_size : Int]
    /\ Absent # "interval"

(***************************************************************************)
(* What deploy/compose/configs agrees on: every service lists the signers  *)
(* of the machines that call it, without a list of methods (those have     *)
(* their own), and the judge service signs under its name.                 *)
(***************************************************************************)
Hops == ({"gateway"} \X {"problem", "contest", "judge"})
        \cup {<<"contest", "problem">>, <<"contest", "judge">>, <<"judge", "problem">>}

Trusts(v, s) == v.key = s.key /\ v.issuer = s.issuer /\ v.subject = s.subject /\ v.methods = {}

ASSUME ConfigAssumption ==
    /\ \A hop \in Hops :
         Signers[hop].audience = hop[2] /\ \E v \in Callers[hop[2]] : Trusts(v, Signers[hop])
    /\ Signers[<<"judge", "problem">>].subject = "judge-service"

Machines == {"gateway", "problem", "contest", "judge"}

VARIABLES
    http,           \* the client's request: operation, body and query, path variables, bearer token
    clock,          \* the clock of every machine
    stage,          \* received, bound, valid, known, sent, admitted, served, done, failed, refused
    at,             \* the machine that has the request
    rpc, message,   \* the call under way
    token,          \* its internal token
    actor,          \* the request context at the gateway, later the principal's actor
    caller,         \* the principal's caller
    age,            \* time since the call was sent
    why             \* why the request was refused

pathVars == <<http, clock, stage, at, rpc, message, token, actor, caller, age, why>>

NoToken == [key |-> "none"]

PathInit ==
    /\ http \in Requests
    /\ clock \in [Machines -> 0..ClockSkew]
    /\ stage = "received" /\ at = "gateway" /\ rpc = "none" /\ message = <<>>
    /\ token = NoToken /\ actor = Nobody /\ caller = "none" /\ age = 0 /\ why = "none"

Refuse(reason) ==
    /\ stage' = "refused" /\ why' = reason
    /\ UNCHANGED <<http, clock, at, rpc, message, token, actor, caller, age>>

-----------------------------------------------------------------------------
\* Body and query first, path variables last.
Bound_BodyLast(r) ==                                        \* seeded defect
    [f \in DOMAIN r.vars \cup DOMAIN r.body |-> IF f \in DOMAIN r.body THEN r.body[f] ELSE r.vars[f]]
Bound(r) ==
    [f \in DOMAIN r.vars \cup DOMAIN r.body |-> IF f \in DOMAIN r.vars THEN r.vars[f] ELSE r.body[f]]

Bind ==
    /\ stage = "received"
    /\ IF http.parses \/ http.op = "UploadTestcase"
       THEN /\ message' = Bound(http) /\ stage' = "bound"
            /\ UNCHANGED <<http, clock, at, rpc, token, actor, caller, age, why>>
       ELSE Refuse("form")

\* validate.Validator runs before the authentication of the operation.
Validate ==
    /\ stage = "bound"
    /\ IF GatewayRule(http.op, message)
       THEN /\ stage' = "valid"
            /\ UNCHANGED <<http, clock, at, rpc, message, token, actor, caller, age, why>>
       ELSE Refuse("form")

\* RS256Verifier.Verify; the gateway configures no clock skew for access tokens.
AcceptsBearer(b) ==
    /\ b # Absent /\ b.genuine /\ b.subject > 0
    /\ b.expires > clock["gateway"] /\ b.issued <= clock["gateway"]

Authenticate ==
    /\ stage = "valid"
    /\ IF Route[http.op].open \/ AcceptsBearer(http.bearer)
       THEN /\ actor' = IF Route[http.op].open THEN Nobody
                        ELSE [user_id |-> http.bearer.subject, roles |-> http.bearer.roles]
            /\ stage' = "known"
            /\ UNCHANGED <<http, clock, at, rpc, message, token, caller, age, why>>
       ELSE Refuse("actor")

\* decodeTestcaseUpload reads the multipart form only after authentication.
decodeTestcaseUpload(m) ==
    /\ http.parses
    /\ m.problem_id > 0 /\ m.case_no > 0 /\ m.paired
    /\ Bytes(m.input_content, 1, 16777216) /\ Bytes(m.output_content, 1, 16777216)

-----------------------------------------------------------------------------
\* Signer.Sign, Verifier.Verify and the VerifierSet
Sign(from, to, method) ==
    LET s == Signers[<<from, to>>]
    IN  [key |-> s.key, issuer |-> s.issuer, audience |-> s.audience, subject |-> s.subject,
         rpc |-> method, actor |-> actor, iat |-> clock[from], exp |-> clock[from] + TokenTTL]

VerifiedBy_NoSkew(v, service, t, method) ==                 \* seeded defect
    /\ t.key = v.key /\ t.issuer = v.issuer /\ t.audience = service /\ t.subject = v.subject
    /\ t.rpc = method /\ (v.methods # {} => method \in v.methods)
    /\ t.iat <= clock[service] /\ t.exp > clock[service]
    /\ t.exp - t.iat <= MaxTokenTTL
VerifiedBy(v, service, t, method) ==
    /\ t.key = v.key /\ t.issuer = v.issuer /\ t.audience = service /\ t.subject = v.subject
    /\ t.rpc = method /\ (v.methods # {} => method \in v.methods)
    /\ t.iat <= clock[service] + ClockSkew /\ t.exp > clock[service] - ClockSkew
    /\ t.exp - t.iat <= MaxTokenTTL

Verify(service, t, method) ==
    t # NoToken /\ \E v \in Callers[service] : VerifiedBy(v, service, t, method)

\* UnaryClientInterceptor; the user service is called without a token.
Send(c) ==
    /\ rpc' = c.rpc /\ message' = c.m /\ at' = c.to /\ stage' = "sent" /\ age' = 0
    /\ token' = IF c.to = "user" THEN NoToken ELSE Sign(at, c.to, c.rpc)
    /\ UNCHANGED <<http, clock, actor, caller, why>>

CallService ==
    /\ stage = "known"
    /\ IF http.op = "UploadTestcase" /\ ~decodeTestcaseUpload(message)
       THEN Refuse("form")
       ELSE Send(GatewayCall(http.op, message, actor))

\* UnaryServerInterceptor
Admit ==
    /\ stage = "sent" /\ age < CallTimeout
    /\ IF at = "user" \/ Verify(at, token, rpc)
       THEN /\ stage' = "admitted"
            /\ caller' = IF at = "user" THEN "none" ELSE token.subject
            /\ actor' = IF at = "user" THEN actor ELSE token.actor
            /\ UNCHANGED <<http, clock, at, rpc, message, token, age, why>>
       ELSE Refuse("token")

Serve ==
    LET answer == Serves(rpc, message, [caller |-> caller, actor |-> actor], clock["contest"]) IN
    /\ stage = "admitted"
    /\ IF answer = "ok"
       THEN /\ stage' = "served"
            /\ UNCHANGED <<http, clock, at, rpc, message, token, actor, caller, age, why>>
       ELSE Refuse(answer)

\* A handler goes on to another service, or answers.
CallNext ==
    /\ stage = "served"
    /\ \E c \in FollowUps(rpc, message) : Send(c)

Finish(outcome) ==
    /\ stage' = outcome
    /\ UNCHANGED <<http, clock, at, rpc, message, token, actor, caller, age, why>>
Complete == stage = "served" /\ Finish("done")
CallFails == stage = "sent" /\ Finish("failed")

CallTravels ==
    /\ stage = "sent" /\ age < CallTimeout
    /\ clock' = [m \in Machines |-> clock[m] + 1]
    /\ age' = age + 1
    /\ UNCHANGED <<http, stage, at, rpc, message, token, actor, caller, why>>

PathNext ==
    \/ Bind \/ Validate \/ Authenticate \/ CallService
    \/ Admit \/ Serve \/ CallNext \/ Complete \/ CallFails \/ CallTravels
PathSpec == PathInit /\ [][PathNext]_pathVars

-----------------------------------------------------------------------------
\* What the services refuse that the gateway has no rule for: testcase names that
\* do not go with the case number; a contest that is not complete, ordered and
\* without repeats, that does not start in the future or, on an update, has no
\* version; a language that is not supported; the filters of ListSubmissions.
OwnRefusals(op) ==
    CASE op \in {"CreateProblem", "AddTestcase"} -> {"names"}
      [] op = "CreateContest" -> {"contest", "past"}
      [] op = "UpdateContest" -> {"contest", "past", "version"}
      [] op \in {"CreateSubmission", "CreateContestSubmission"} -> {"language"}
      [] op = "ListSubmissions" -> {"form", "filter"}
      [] OTHER -> {}

(* What the gateway let through no later hop refuses for its form or its    *)
(* identity, but for the checks that only the services have (OwnRefusals):  *)
(* the two copies of the rules agree, pages are in range, what a contest    *)
(* may store can be looked up, every hop's token is acceptable to the next  *)
(* machine as long as clocks agree within the skew, and the actor is known. *)
RefusedAtTheEdge ==
    stage = "refused" /\ at # "gateway" => why \in OwnRefusals(http.op)

(* Wherever the request is served, it acts for the user whose access token  *)
(* came with it, on the objects its path names, with the fields the client  *)
(* sent: no body or query field overrides the path, and no hop drops or     *)
(* changes the actor or a field (BindVars last, the actor resolvers).       *)
ServedAsRequested ==
    stage = "served" =>
      /\ actor = IF Route[http.op].open THEN Nobody
                 ELSE [user_id |-> http.bearer.subject, roles |-> http.bearer.roles]
      /\ "context" \in DOMAIN message => message.context = actor
      /\ "user_id" \in DOMAIN message /\ http.op = "GetUser" => message.user_id = http.vars.id
      /\ \A f \in DOMAIN message \cap DOMAIN http.vars : message[f] = http.vars[f]
      /\ \A f \in (DOMAIN message \cap DOMAIN http.body) \ (DOMAIN http.vars \cup {"page"}) :
           message[f] = http.body[f]
=============================================================================
