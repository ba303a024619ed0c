---------------------------- MODULE UserSessions ------------------------------
(***************************************************************************)
(* The user service's login sessions: refresh tokens in Redis, issued by   *)
(* Login, exchanged by RefreshToken, revoked by Logout.  One account; the  *)
(* sessions of two accounts share nothing.                                 *)
(*                                                                         *)
(* Every call is a series of Redis commands.  FindByHash is one GET, save  *)
(* one MULTI/EXEC of SET, SADD and EXPIRE; a record is read, changed in    *)
(* memory and written back, so a write may rest on a stale reading.  A     *)
(* record leaves Redis when its token expires; the set of a session's      *)
(* tokens expires with the token saved last, not with the youngest.        *)
(***************************************************************************)
EXTENDS Integers, FiniteSets

CONSTANTS
    SessionCalls,       \* concurrent calls of the service
    RefreshTTL,         \* refreshTokenTTL
    MaxTokens,          \* bound on the tokens generated
    MaxUnread,          \* bound on the sessions in which a logout fails to read a token
    MaxSessionTime      \* bound on the clock

ASSUME SessionAssumption ==
    /\ RefreshTTL \in Nat \ {0} /\ MaxTokens \in Nat /\ MaxUnread \in Nat /\ MaxSessionTime \in Nat

VARIABLES
    time,           \* the clock of the service and of Redis
    active,         \* the account exists
    generated,      \* tokens generated so far; token and session ids are fresh numbers
    tokens,         \* refresh_token:<hash>: the record last saved, whether or not expired
    sessions,       \* refresh_session:<id>: the hashes and when the set expires
    progress,       \* progress of every call
    exchanged,      \* history: tokens for which RefreshToken answered a successor
    ended,          \* history: sessions for which Logout answered ok
    disturbed,      \* history: sessions in which calls overlapped or a logout broke off
    unread          \* history: sessions of which a logout passed over a token it failed to read

sessionVars == <<time, active, generated, tokens, sessions, progress, exchanged, ended, disturbed, unread>>

Tokens == 1..MaxTokens
NoRecord == [session |-> 0, revoked |-> FALSE, locked |-> FALSE, expires |-> 0]
AtRest == [pc |-> "idle", session |-> 0, token |-> 0, old |-> NoRecord, next |-> 0, record |-> NoRecord, todo |-> {}]

SessionInit ==
    /\ time = 0 /\ active = FALSE /\ generated = 0
    /\ tokens = [t \in Tokens |-> NoRecord]
    /\ sessions = [s \in Tokens |-> [members |-> {}, expires |-> 0]]
    /\ progress = [c \in SessionCalls |-> AtRest]
    /\ exchanged = {} /\ ended = {} /\ disturbed = {} /\ unread = {}

InStep(c, pc) == progress[c].pc = pc
Found(t) == tokens[t].expires > time
SMembers(s) == IF sessions[s].expires > time THEN sessions[s].members ELSE {}

\* save: refused once the token has expired.
Savable(record) == record.expires > time
save(t, record) ==
    /\ tokens' = [tokens EXCEPT ![t] = record]
    /\ sessions' = [sessions EXCEPT ![record.session] =
                      [members |-> SMembers(record.session) \cup {t}, expires |-> record.expires]]

Continue(c, p) == progress' = [progress EXCEPT ![c] = p]
Answer(c) == Continue(c, AtRest)

\* Calls on session s that are under way.
LoggingOut(c, s) == progress[c].pc \in {"members", "revoking", "saveMember"} /\ progress[c].session = s
UnderWay(s) == \E c \in SessionCalls : ~InStep(c, "idle") /\ progress[c].session = s

-----------------------------------------------------------------------------
\* CreateUser: one transaction; the unique keys refuse a second account.
Register ==
    /\ ~active /\ generated = 0
    /\ active' = TRUE
    /\ UNCHANGED <<time, generated, tokens, sessions, progress, exchanged, ended, disturbed, unread>>

\* Generate: a fresh token, in a fresh session when none is given.
Generate(session) ==
    [session |-> session, revoked |-> FALSE, locked |-> FALSE, expires |-> time + RefreshTTL]

Login(c) ==
    LET t == generated + 1 IN
    /\ InStep(c, "idle") /\ active /\ t \in Tokens
    /\ generated' = t
    /\ Continue(c, [AtRest EXCEPT !.pc = "saveNext", !.next = t, !.record = Generate(t)])
    /\ UNCHANGED <<time, active, tokens, sessions, exchanged, ended, disturbed, unread>>

-----------------------------------------------------------------------------
\* RefreshToken reads the record and turns away a spent one ...
Acceptable(record) == ~record.revoked /\ ~record.locked

FindByHash(c, t) ==
    LET s == tokens[t].session IN
    /\ InStep(c, "idle") /\ Found(t) /\ Acceptable(tokens[t])
    /\ Continue(c, [AtRest EXCEPT !.pc = "found", !.session = s, !.token = t])
    /\ disturbed' = IF UnderWay(s) THEN disturbed \cup {s} ELSE disturbed
    /\ UNCHANGED <<time, active, generated, tokens, sessions, exchanged, ended, unread>>

\* ... then loads the user and generates the successor in the same session ...
LoadUser(c) ==
    LET t == generated + 1 IN
    /\ InStep(c, "found") /\ active /\ t \in Tokens
    /\ generated' = t
    /\ Continue(c, [progress[c] EXCEPT !.pc = "rotate", !.next = t,
                                       !.record = Generate(progress[c].session)])
    /\ UNCHANGED <<time, active, tokens, sessions, exchanged, ended, disturbed, unread>>

\* ... and rotates: the record is read again; a spent one is a replay.
Rotate(c) ==
    /\ InStep(c, "rotate") /\ Found(progress[c].token)
    /\ LET old == tokens[progress[c].token] IN
       Continue(c, [progress[c] EXCEPT !.pc = IF Acceptable(old) THEN "saveOld" ELSE "lock",
                                       !.old = old])
    /\ UNCHANGED <<time, active, generated, tokens, sessions, exchanged, ended, disturbed, unread>>

Spent_Not(record) == record                     \* seeded defect: revoked is not set
Spent(record) == [record EXCEPT !.revoked = TRUE]

SaveOld(c) ==
    /\ InStep(c, "saveOld") /\ Savable(progress[c].old)
    /\ save(progress[c].token, Spent(progress[c].old))
    /\ Continue(c, [progress[c] EXCEPT !.pc = "saveNext", !.old = NoRecord])
    /\ UNCHANGED <<time, active, generated, exchanged, ended, disturbed, unread>>

\* A replay is recorded on the old token and denied.
LockReplay(c) ==
    /\ InStep(c, "lock") /\ Savable(progress[c].old)
    /\ save(progress[c].token, [progress[c].old EXCEPT !.locked = TRUE])
    /\ Answer(c)
    /\ UNCHANGED <<time, active, generated, exchanged, ended, disturbed, unread>>

\* The last step of Login and of RefreshToken: the new token is saved and answered.
SaveNext(c) ==
    /\ InStep(c, "saveNext") /\ Savable(progress[c].record)
    /\ save(progress[c].next, progress[c].record)
    /\ exchanged' = exchanged \cup ({progress[c].token} \ {0})
    /\ Answer(c)
    /\ UNCHANGED <<time, active, generated, ended, disturbed, unread>>

-----------------------------------------------------------------------------
\* Logout accepts any token of the session, a spent one too; an unknown one is ok.
Logout(c, t) ==
    LET s == tokens[t].session IN
    /\ InStep(c, "idle") /\ Found(t)
    /\ Continue(c, [AtRest EXCEPT !.pc = "members", !.session = s])
    /\ disturbed' = IF UnderWay(s) THEN disturbed \cup {s} ELSE disturbed
    /\ UNCHANGED <<time, active, generated, tokens, sessions, exchanged, ended, unread>>

\* RevokeSession
ReadMembers(c) ==
    /\ InStep(c, "members")
    /\ Continue(c, [progress[c] EXCEPT !.pc = "revoking", !.todo = SMembers(progress[c].session)])
    /\ UNCHANGED <<time, active, generated, tokens, sessions, exchanged, ended, disturbed, unread>>

\* The hashes come in no particular order.
ReadMember(c, t) ==
    /\ InStep(c, "revoking") /\ t \in progress[c].todo /\ Found(t)
    /\ Continue(c, [progress[c] EXCEPT !.pc = "saveMember", !.token = t, !.old = tokens[t],
                                       !.todo = @ \ {t}])
    /\ UNCHANGED <<time, active, generated, tokens, sessions, exchanged, ended, disturbed, unread>>

\* Any error of FindByHash is passed over: the token has expired, or Redis did
\* not answer or the record does not parse, and the loop goes on without it.
PassOver(c, t) ==
    /\ InStep(c, "revoking") /\ t \in progress[c].todo
    /\ Found(t) => Cardinality(unread \cup {progress[c].session}) <= MaxUnread
    /\ Continue(c, [progress[c] EXCEPT !.todo = @ \ {t}])
    /\ unread' = IF Found(t) THEN unread \cup {progress[c].session} ELSE unread
    /\ UNCHANGED <<time, active, generated, tokens, sessions, exchanged, ended, disturbed>>

Remaining_None(c) == {}                         \* seeded defect: the loop stops after one token
Remaining(c) == progress[c].todo

SaveMember(c) ==
    /\ InStep(c, "saveMember") /\ Savable(progress[c].old)
    /\ save(progress[c].token, Spent(progress[c].old))
    /\ Continue(c, [progress[c] EXCEPT !.pc = "revoking", !.token = 0, !.old = NoRecord, !.todo = Remaining(c)])
    /\ UNCHANGED <<time, active, generated, exchanged, ended, disturbed, unread>>

AnswerLogout(c) ==
    /\ InStep(c, "revoking") /\ progress[c].todo = {}
    /\ ended' = ended \cup {progress[c].session}
    /\ Answer(c)
    /\ UNCHANGED <<time, active, generated, tokens, sessions, exchanged, disturbed, unread>>

-----------------------------------------------------------------------------
\* A call fails at any step: the client is gone, Redis or MySQL does not answer,
\* an operator has disabled the account or a token has expired meanwhile.
Fail(c) ==
    /\ ~InStep(c, "idle")
    /\ disturbed' = disturbed \cup {s \in {progress[c].session} : LoggingOut(c, s)}
    /\ Answer(c)
    /\ UNCHANGED <<time, active, generated, tokens, sessions, exchanged, ended, unread>>

Elapse ==
    /\ time < MaxSessionTime /\ time' = time + 1
    /\ UNCHANGED <<active, generated, tokens, sessions, progress, exchanged, ended, disturbed, unread>>

ServeCall(c) ==
    \/ Login(c)
    \/ \E t \in 1..generated : FindByHash(c, t) \/ Logout(c, t) \/ ReadMember(c, t) \/ PassOver(c, t)
    \/ LoadUser(c) \/ Rotate(c) \/ SaveOld(c) \/ LockReplay(c) \/ SaveNext(c)
    \/ ReadMembers(c) \/ SaveMember(c) \/ AnswerLogout(c) \/ Fail(c)

SessionNext == Register \/ Elapse \/ \E c \in SessionCalls : ServeCall(c)
SessionSpec == SessionInit /\ [][SessionNext]_sessionVars

-----------------------------------------------------------------------------
Usable(t) == Found(t) /\ Acceptable(tokens[t])

(* A token that has been exchanged for a successor is never accepted again, *)
(* whatever calls write the record back from stale readings; and a session  *)
(* whose calls came one after the other has a single usable token (the      *)
(* comments on RefreshToken and Rotate: rotation, replay is refused).       *)
ExchangedTokenIsSpent ==
    /\ \A t \in exchanged : ~Usable(t)
    /\ \A s \in Tokens \ disturbed :
         Cardinality({t \in Tokens : tokens[t].session = s /\ Usable(t)}) <= 1

(* After an answered Logout no token of the session is usable, as long as   *)
(* no two calls on the session overlapped, no logout broke off midway and   *)
(* none passed over a token it failed to read (RevokeSession; the session   *)
(* set expires with the token saved last).                                  *)
LogoutEndsSession ==
    \A s \in ended \ (disturbed \cup unread), t \in Tokens : tokens[t].session = s => ~Usable(t)

(* What docs/api.md says of Logout: a failure of Redis is answered as an    *)
(* internal error and never passed off as a logout.  So after an answer ok  *)
(* no token of an undisturbed session is usable, whatever reads failed.     *)
LogoutNeverPretends ==
    \A s \in ended \ disturbed, t \in Tokens : tokens[t].session = s => ~Usable(t)
=============================================================================
