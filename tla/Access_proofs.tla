--------------------------- MODULE Access_proofs ----------------------------
(***************************************************************************)
(* The way in: login sessions of the user service, the chat streams of the *)
(* gateway and the path of a request through the services, for any number  *)
(* of calls, tokens, clients, frames, tool calls and requests.             *)
(***************************************************************************)
EXTENDS UserSessions, GatewayStreams, RequestPath, FiniteSetTheorems, TLAPS

-----------------------------------------------------------------------------
(***************************************************************************)
(* Login sessions (UserSessions).                                          *)
(*                                                                         *)
(* Calls write whole records back that they read some commands ago, and    *)
(* none of them holds a lock on the session. An exchanged token stays      *)
(* spent because every call that can still write its record writes it      *)
(* revoked or locked (CallFits). For a session whose calls did not         *)
(* overlap, the one call at work knows which of its tokens may be usable   *)
(* (Orderly).                                                              *)
(***************************************************************************)

TokenIds == 0..MaxTokens
TokenRecord == [session : TokenIds, revoked : BOOLEAN, locked : BOOLEAN, expires : Nat]
Refreshing == {"found", "rotate", "saveOld", "lock"}
Revoking == {"revoking", "saveMember"}
CallRecord ==
    [pc : {"idle", "members", "saveNext"} \cup Refreshing \cup Revoking,
     session : TokenIds, token : TokenIds, old : TokenRecord, next : TokenIds, record : TokenRecord,
     todo : SUBSET Tokens]

(* The shapes of the records; numbers not generated yet are not in use. *)
SessionShape ==
    /\ time \in Nat /\ generated \in TokenIds
    /\ tokens \in [Tokens -> TokenRecord]
    /\ sessions \in [Tokens -> [members : SUBSET Tokens, expires : Nat]]
    /\ progress \in [SessionCalls -> CallRecord]
    /\ exchanged \subseteq Tokens /\ ended \subseteq Tokens

Of(t, s) == tokens[t].session = s
Saved(t) == ~Of(t, 0)
Known(s) == \E t \in Tokens : Of(t, s)

(* A token that was never saved has no record; the sets name their own      *)
(* tokens; a token that was exchanged is revoked or locked; a session that  *)
(* ended has existed.                                                       *)
TokensFit ==
    /\ \A t \in Tokens : ~Saved(t) => tokens[t] = NoRecord
    /\ \A t \in Tokens : t > generated => ~Saved(t)
    /\ \A t \in Tokens : tokens[t].session <= generated
    /\ \A s \in Tokens : \A t \in sessions[s].members : Of(t, s)
    /\ \A t \in exchanged : ~Acceptable(tokens[t])
    /\ \A s \in ended : Known(s)

(* A call knows its token, and writes the record of that token back to the  *)
(* session it is in.  The token it is about to issue is its own, not saved  *)
(* yet, and in a login so is the session.                                   *)
Issuing(r) == r.pc \in {"rotate", "saveOld", "lock", "saveNext"}
LoggingIn(r) == r.pc = "saveNext" /\ r.token = 0
CallFits(r) ==
    /\ r.pc = "idle" => r = AtRest
    /\ r.session # 0 => Known(r.session)
    /\ r.pc \notin {"idle", "saveNext"} => r.session # 0
    /\ r.pc \in Refreshing \cup {"saveMember"} => r.token # 0
    /\ r.token # 0 => Of(r.token, r.session) /\ r.session # 0
    /\ r.pc \in {"saveOld", "lock", "saveMember"} => r.old.session = r.session
    /\ r.pc = "saveNext" /\ r.token # 0 => ~Acceptable(tokens[r.token])
    /\ Issuing(r) => r.next \in 1..generated /\ ~Saved(r.next)
    /\ Issuing(r) /\ ~LoggingIn(r) => r.record.session = r.session
    /\ LoggingIn(r) => r.session = 0 /\ r.record.session = r.next /\ ~Known(r.next)
    /\ \A t \in r.todo : Of(t, r.session) /\ r.session # 0

CallsFitIn ==
    /\ \A c \in SessionCalls : CallFits(progress[c])
    /\ \A c, d \in SessionCalls :
         Issuing(progress[c]) /\ Issuing(progress[d]) /\ progress[c].next = progress[d].next => c = d

(* A session whose calls came one after the other: its one usable token is  *)
(* the call's, and unless a logout passed over one that it failed to read,  *)
(* a logout at work still has it on its list and none is left at the end.   *)
Orderly(s) ==
    /\ \A c, d \in SessionCalls : progress[c].session = s /\ progress[d].session = s => c = d
    /\ \A t, u \in Tokens : Of(t, s) /\ Usable(t) /\ Of(u, s) /\ Usable(u) => t = u
    /\ \A c \in SessionCalls : progress[c].session = s /\ progress[c].pc \in Refreshing \cup {"saveNext"} =>
         /\ s \in ended => s \in unread
         /\ \A t \in Tokens : Of(t, s) /\ Usable(t) => t = progress[c].token
    /\ s \notin unread => \A c \in SessionCalls : progress[c].session = s /\ progress[c].pc \in Revoking =>
         \A t \in Tokens : Of(t, s) /\ Usable(t) =>
           t \in progress[c].todo \/ (progress[c].pc = "saveMember" /\ t = progress[c].token)
    /\ s \notin unread /\ (\A c \in SessionCalls : progress[c].session = s => progress[c].pc \notin Revoking) =>
         \A t \in Tokens : Of(t, s) /\ Usable(t) => t \in sessions[s].members /\ tokens[t].expires <= sessions[s].expires
    /\ s \in ended \ unread => \A t \in Tokens : Of(t, s) => ~Usable(t)

SessionsInv == SessionShape /\ TokensFit /\ CallsFitIn /\ \A s \in Tokens \ disturbed : Orderly(s)

-----------------------------------------------------------------------------
(* Every record that is written back is written so that no refresh takes it.*)
Locked(r) == [r EXCEPT !.locked = TRUE]

LEMMA WrittenBackIsSpent ==
    ASSUME NEW r \in TokenRecord
    PROVE  /\ Spent(r) \in TokenRecord /\ Locked(r) \in TokenRecord
           /\ Spent(r).session = r.session /\ Locked(r).session = r.session
           /\ Spent(r).expires = r.expires /\ Locked(r).expires = r.expires
           /\ ~Acceptable(Spent(r)) /\ ~Acceptable(Locked(r))
  BY DEF TokenRecord, Spent, Locked, Acceptable

LEMMA RestFitsIn ==
    /\ NoRecord \in TokenRecord /\ Acceptable(NoRecord) /\ NoRecord.expires = 0 /\ NoRecord.session = 0
    /\ AtRest \in CallRecord /\ AtRest.pc = "idle" /\ AtRest.session = 0 /\ AtRest.token = 0 /\ AtRest.todo = {}
<1>1. 0 \in TokenIds
  BY SessionAssumption DEF TokenIds
<1>2. NoRecord \in TokenRecord /\ NoRecord.expires = 0 /\ NoRecord.session = 0
  BY <1>1 DEF NoRecord, TokenRecord
<1>3. Acceptable(NoRecord)
  BY DEF Acceptable, NoRecord
<1>4. AtRest \in CallRecord
  BY <1>1, <1>2 DEF AtRest, CallRecord
<1> QED
  BY <1>2, <1>3, <1>4 DEF AtRest

LEMMA FoundIsSaved ==
    ASSUME SessionsInv, NEW t \in Tokens, Found(t)
    PROVE  Saved(t) /\ tokens[t].session \in Tokens /\ Known(tokens[t].session)
<1>1. tokens[t] \in TokenRecord /\ time \in Nat /\ (~Saved(t) => tokens[t] = NoRecord)
  BY DEF SessionsInv, SessionShape, TokensFit
<1>2. Saved(t)
  BY <1>1, RestFitsIn DEF Found
<1>3. tokens[t].session \in TokenIds /\ tokens[t].session # 0
  BY <1>1, <1>2 DEF TokenRecord, Saved, Of
<1>4. tokens[t].session \in Tokens
  BY <1>3, SessionAssumption DEF TokenIds, Tokens
<1> QED
  BY <1>2, <1>4 DEF Known, Of

LEMMA SessionsStart == SessionInit => SessionsInv
<1> SUFFICES ASSUME SessionInit PROVE SessionsInv
  OBVIOUS
<1>1. /\ time = 0 /\ generated = 0 /\ exchanged = {} /\ ended = {}
      /\ tokens = [t \in Tokens |-> NoRecord]
      /\ sessions = [s \in Tokens |-> [members |-> {}, expires |-> 0]]
      /\ progress = [c \in SessionCalls |-> AtRest]
  BY DEF SessionInit
<1>2. SessionShape
  BY <1>1, RestFitsIn, SessionAssumption DEF SessionShape, TokenIds
<1>3. TokensFit
  BY <1>1, RestFitsIn DEF TokensFit, Saved, Of
<1>4. CallsFitIn
  BY <1>1, RestFitsIn DEF CallsFitIn, CallFits, Issuing, LoggingIn, Refreshing
<1>5. ASSUME NEW s \in Tokens PROVE Orderly(s)
  <2>1. s # 0
    BY SessionAssumption DEF Tokens
  <2> QED
    BY <1>1, <2>1, RestFitsIn DEF Orderly, Of
<1> QED
  BY <1>2, <1>3, <1>4, <1>5 DEF SessionsInv

-----------------------------------------------------------------------------
(* A session that no call steps on stays orderly. *)
LEMMA OrderlyKept ==
    ASSUME SessionsInv, NEW s \in Tokens, Orderly(s), time' \in Nat, time' >= time,
           \A t \in Tokens : Of(t, s)' => tokens'[t] = tokens[t],
           sessions'[s] = sessions[s], s \in ended' <=> s \in ended, s \in unread' <=> s \in unread,
           \A c \in SessionCalls :
             progress'[c] = progress[c] \/ (progress[c].session # s /\ progress'[c].session # s)
    PROVE  Orderly(s)'
<1>1. \A t \in Tokens : Of(t, s)' => Of(t, s) /\ tokens'[t] = tokens[t]
  BY DEF Of
<1>2. \A t \in Tokens : tokens[t].expires \in Nat
  BY DEF SessionsInv, SessionShape, TokenRecord
<1>3. \A t \in Tokens : Of(t, s)' /\ Usable(t)' => Of(t, s) /\ Usable(t) /\ tokens'[t] = tokens[t]
  <2> SUFFICES ASSUME NEW t \in Tokens, Of(t, s)', Usable(t)' PROVE Of(t, s) /\ Usable(t) /\ tokens'[t] = tokens[t]
    OBVIOUS
  <2>1. Of(t, s) /\ tokens'[t] = tokens[t]
    BY <1>1
  <2>2. tokens[t].expires > time' /\ Acceptable(tokens[t])
    BY <2>1 DEF Usable, Found, Acceptable
  <2>3. tokens[t].expires > time
    BY <1>2, <2>2 DEF SessionsInv, SessionShape
  <2> QED
    BY <2>1, <2>2, <2>3 DEF Usable, Found
<1>4. \A c \in SessionCalls : progress[c].session = s \/ progress'[c].session = s => progress'[c] = progress[c]
  OBVIOUS
<1> QED
  BY <1>3, <1>4 DEF Orderly

(* What a call knows stays true while no token is written. *)
LEMMA CallFitsOn ==
    ASSUME SessionsInv, UNCHANGED tokens, generated' \in TokenIds, generated' >= generated,
           NEW r \in CallRecord, CallFits(r)
    PROVE  CallFits(r)'
<1>1. generated \in Nat /\ generated' \in Nat
  BY SessionAssumption DEF SessionsInv, SessionShape, TokenIds
<1>2. \A n : n \in 1..generated => n \in 1..generated'
  BY <1>1
<1> QED
  BY <1>2 DEF CallFits, Known, Saved, Of

(* A step that moves one call and writes no token. *)
LEMMA CallMoved ==
    ASSUME SessionsInv, NEW c \in SessionCalls, NEW r \in CallRecord,
           progress' = [progress EXCEPT ![c] = r], UNCHANGED <<time, tokens, sessions, exchanged>>,
           generated' \in TokenIds, generated' >= generated, CallFits(r)',
           Issuing(r) => \A d \in SessionCalls \ {c} : Issuing(progress[d]) => progress[d].next # r.next,
           ended' \subseteq Tokens, \A s \in ended' : Known(s),
           \A s \in Tokens \ disturbed' :
             s \notin disturbed /\ (s \in {progress[c].session, r.session} => Orderly(s)'),
           \A s \in Tokens : s \notin {progress[c].session, r.session} =>
             (s \in ended' <=> s \in ended) /\ (s \in unread' <=> s \in unread)
    PROVE  SessionsInv'
<1>1. SessionShape'
  BY DEF SessionsInv, SessionShape
<1>2. TokensFit'
  <2>1. generated \in Nat /\ generated' \in Nat /\ \A t \in Tokens : t \in Nat
    BY SessionAssumption DEF SessionsInv, SessionShape, TokenIds, Tokens
  <2>2. \A t \in Tokens : tokens[t].session \in Nat
    BY SessionAssumption DEF SessionsInv, SessionShape, TokenRecord, TokenIds
  <2>3. \A t \in Tokens : t > generated' => ~Saved(t)
    BY <2>1 DEF SessionsInv, TokensFit
  <2>4. \A t \in Tokens : tokens[t].session <= generated'
    BY <2>1, <2>2 DEF SessionsInv, TokensFit
  <2> QED
    BY <2>3, <2>4 DEF SessionsInv, TokensFit, Saved, Of, Known, Acceptable
<1>3. ASSUME NEW d \in SessionCalls PROVE CallFits(progress[d])'
  <2>1. CASE d = c
    <3>1. progress'[d] = r
      BY <2>1 DEF SessionsInv, SessionShape
    <3> QED
      BY <3>1 DEF CallFits, Known, Saved, Of
  <2>2. CASE d # c
    <3>1. PICK q \in CallRecord : q = progress[d]
      BY DEF SessionsInv, SessionShape
    <3>2. CallFits(q)'
      BY <3>1, CallFitsOn DEF SessionsInv, CallsFitIn
    <3>3. progress'[d] = q
      BY <2>2, <3>1 DEF SessionsInv, SessionShape
    <3> QED
      BY <3>2, <3>3 DEF CallFits, Known, Saved, Of
  <2> QED
    BY <2>1, <2>2
<1>4. ASSUME NEW d \in SessionCalls, NEW e \in SessionCalls,
             Issuing(progress[d])', Issuing(progress[e])', progress'[d].next = progress'[e].next
      PROVE  d = e
  <2>1. \A f \in SessionCalls : progress'[f] = IF f = c THEN r ELSE progress[f]
    BY DEF SessionsInv, SessionShape
  <2> QED
    BY <1>4, <2>1 DEF SessionsInv, CallsFitIn, Issuing
<1>5. ASSUME NEW s \in Tokens \ disturbed' PROVE Orderly(s)'
  <2>1. CASE s \in {progress[c].session, r.session}
    BY <2>1
  <2>2. CASE s \notin {progress[c].session, r.session}
    <3>1. Orderly(s) /\ (s \in ended' <=> s \in ended) /\ (s \in unread' <=> s \in unread)
      BY <2>2 DEF SessionsInv
    <3>2. \A d \in SessionCalls :
            progress'[d] = progress[d] \/ (progress[d].session # s /\ progress'[d].session # s)
      BY <2>2 DEF SessionsInv, SessionShape
    <3>3. time' \in Nat /\ time' >= time
      BY DEF SessionsInv, SessionShape
    <3> QED
      BY <3>1, <3>2, <3>3, OrderlyKept
  <2> QED
    BY <2>1, <2>2
<1> QED
  BY <1>1, <1>2, <1>3, <1>4, <1>5 DEF SessionsInv, CallsFitIn

(* No call is under way on 0: a call with that session touches none. *)
LEMMA NoSessionZero ==
    /\ 0 \notin Tokens /\ TokenIds = Tokens \cup {0}
    /\ \A t \in TokenIds : t \in Nat
    /\ \A t \in Tokens : t \in Nat
  BY SessionAssumption DEF Tokens, TokenIds

-----------------------------------------------------------------------------
LEMMA LoginKeeps == ASSUME SessionsInv, NEW c \in SessionCalls, Login(c) PROVE SessionsInv'
<1>1. PICK t : t = generated + 1
  OBVIOUS
<1>2. /\ t \in Tokens /\ generated' = t /\ progress[c].pc = "idle"
      /\ UNCHANGED <<time, active, tokens, sessions, exchanged, ended, disturbed, unread>>
  BY <1>1 DEF Login, InStep
<1>3. progress[c].session = 0
  BY <1>2, RestFitsIn DEF SessionsInv, CallsFitIn, CallFits
<1>4. PICK g : g = Generate(t)
  OBVIOUS
<1>5. g \in TokenRecord /\ g.session = t
  BY <1>2, <1>4, NoSessionZero, SessionAssumption DEF Generate, TokenRecord, SessionsInv, SessionShape
<1>6. PICK r : r = [AtRest EXCEPT !.pc = "saveNext", !.next = t, !.record = g]
  OBVIOUS
<1>7. r \in CallRecord /\ r.pc = "saveNext" /\ r.session = 0 /\ r.token = 0 /\ r.next = t /\ r.record = g /\ r.todo = {}
  BY <1>2, <1>5, <1>6, RestFitsIn, NoSessionZero DEF CallRecord, AtRest
<1>8. progress' = [progress EXCEPT ![c] = r]
  BY <1>1, <1>4, <1>6 DEF Login, Continue
<1>9. generated \in Nat /\ t \in Nat /\ generated' \in TokenIds /\ generated' >= generated
  BY <1>1, <1>2, NoSessionZero DEF SessionsInv, SessionShape
<1>10. \A u \in Tokens : tokens[u].session \in Nat /\ tokens[u].session <= generated
  BY NoSessionZero DEF SessionsInv, SessionShape, TokensFit, TokenRecord
<1>11. ~Known(t) /\ ~Saved(t)
  BY <1>1, <1>2, <1>9, <1>10 DEF Known, Of, SessionsInv, TokensFit
<1>12. t \in 1..generated'
  BY <1>1, <1>2, <1>9
<1>13. CallFits(r)'
  BY <1>2, <1>5, <1>7, <1>11, <1>12 DEF CallFits, Issuing, LoggingIn, Known, Saved, Of, Refreshing
<1>14. \A d \in SessionCalls : Issuing(progress[d]) => progress[d].next # t
  BY <1>1, <1>9 DEF SessionsInv, CallsFitIn, CallFits
<1>15. ended' \subseteq Tokens /\ \A s \in ended' : Known(s)
  BY <1>2 DEF SessionsInv, SessionShape, TokensFit
<1> QED
  BY <1>2, <1>3, <1>7, <1>8, <1>9, <1>13, <1>14, <1>15, CallMoved, NoSessionZero

(* A call that is at work on a session, and the session's orderliness in    *)
(* terms of that call alone.                                                *)
LEMMA OnlyCall ==
    ASSUME SessionsInv, NEW s \in Tokens, NEW c \in SessionCalls, NEW r \in CallRecord,
           progress' = [progress EXCEPT ![c] = r], r.session = s,
           \A d \in SessionCalls \ {c} : progress[d].session # s,
           UNCHANGED <<time, tokens, sessions, ended>>,
           \A t, u \in Tokens : Of(t, s) /\ Usable(t) /\ Of(u, s) /\ Usable(u) => t = u,
           s \in ended \ unread' => \A t \in Tokens : Of(t, s) => ~Usable(t),
           r.pc \in Refreshing \cup {"saveNext"} =>
             (s \in ended => s \in unread') /\ \A t \in Tokens : Of(t, s) /\ Usable(t) => t = r.token,
           r.pc \in Revoking /\ s \notin unread' =>
             \A t \in Tokens : Of(t, s) /\ Usable(t) => t \in r.todo \/ (r.pc = "saveMember" /\ t = r.token),
           r.pc \notin Revoking /\ s \notin unread' =>
             \A t \in Tokens : Of(t, s) /\ Usable(t) =>
               t \in sessions[s].members /\ tokens[t].expires <= sessions[s].expires
    PROVE  Orderly(s)'
<1>1. progress'[c] = r /\ \A d \in SessionCalls : progress'[d].session = s => d = c
  BY DEF SessionsInv, SessionShape
<1>2. \A t \in Tokens : (Of(t, s)' <=> Of(t, s)) /\ (Usable(t)' <=> Usable(t))
  BY DEF Of, Usable, Found, Acceptable
<1> QED
  BY <1>1, <1>2 DEF Orderly

LEMMA SessionCallShape ==
    ASSUME SessionsInv, NEW c \in SessionCalls
    PROVE  progress[c] \in CallRecord /\ CallFits(progress[c])
  BY DEF SessionsInv, SessionShape, CallsFitIn

LEMMA EndedAreKnown == ASSUME SessionsInv PROVE ended \subseteq Tokens /\ \A s \in ended : Known(s)
  BY DEF SessionsInv, SessionShape, TokensFit

(* A new call on a session: when another is under way the session counts as *)
(* disturbed, otherwise the call is its only one.                           *)
LEMMA EnterKeeps ==
    ASSUME SessionsInv, NEW c \in SessionCalls, NEW t \in 1..generated, FindByHash(c, t) \/ Logout(c, t)
    PROVE  SessionsInv'
<1>1. t \in Tokens
  BY NoSessionZero, SessionAssumption DEF SessionsInv, SessionShape, TokenIds, Tokens
<1>2. PICK s : s = tokens[t].session
  OBVIOUS
<1>3. /\ Found(t) /\ progress[c].pc = "idle" /\ disturbed' = (IF UnderWay(s) THEN disturbed \cup {s} ELSE disturbed)
      /\ UNCHANGED <<time, active, generated, tokens, sessions, exchanged, ended, unread>>
  BY <1>2 DEF FindByHash, Logout, InStep
<1>4. s \in Tokens /\ Known(s) /\ Of(t, s)
  BY <1>1, <1>2, <1>3, FoundIsSaved DEF Of
<1>5. progress[c].session = 0
  BY <1>3, RestFitsIn, SessionCallShape DEF CallFits
<1>6. PICK r \in CallRecord :
        /\ progress' = [progress EXCEPT ![c] = r] /\ r.session = s /\ r.todo = {}
        /\ \/ FindByHash(c, t) /\ r.pc = "found" /\ r.token = t
           \/ r.pc = "members" /\ r.token = 0
  <2>1. CASE FindByHash(c, t)
    <3>1. PICK r : r = [AtRest EXCEPT !.pc = "found", !.session = s, !.token = t]
      OBVIOUS
    <3>2. r \in CallRecord /\ r.session = s /\ r.todo = {} /\ r.pc = "found" /\ r.token = t
      BY <1>1, <1>4, <3>1, RestFitsIn, NoSessionZero DEF CallRecord, Refreshing, AtRest
    <3>3. progress' = [progress EXCEPT ![c] = r]
      BY <1>2, <2>1, <3>1 DEF FindByHash, Continue
    <3> QED
      BY <2>1, <3>2, <3>3
  <2>2. CASE Logout(c, t)
    <3>1. PICK r : r = [AtRest EXCEPT !.pc = "members", !.session = s]
      OBVIOUS
    <3>2. r \in CallRecord /\ r.session = s /\ r.todo = {} /\ r.pc = "members" /\ r.token = 0
      BY <1>1, <1>4, <3>1, RestFitsIn, NoSessionZero DEF CallRecord, AtRest
    <3>3. progress' = [progress EXCEPT ![c] = r]
      BY <1>2, <2>2, <3>1 DEF Logout, Continue
    <3> QED
      BY <3>2, <3>3
  <2> QED
    BY <2>1, <2>2
<1>7. CallFits(r)'
  BY <1>1, <1>3, <1>4, <1>6, NoSessionZero DEF CallFits, Issuing, LoggingIn, Known, Saved, Of, Refreshing
<1>8. ASSUME s \notin disturbed' PROVE Orderly(s)'
  <2>1. ~UnderWay(s) /\ s \notin disturbed
    BY <1>3, <1>8
  <2>2. \A d \in SessionCalls \ {c} : progress[d].session # s
    <3> SUFFICES ASSUME NEW d \in SessionCalls, progress[d].session = s PROVE FALSE
      OBVIOUS
    <3>1. progress[d].pc = "idle"
      BY <2>1 DEF UnderWay, InStep
    <3> QED
      BY <1>4, <3>1, RestFitsIn, SessionCallShape, NoSessionZero DEF CallFits
  <2>3. Orderly(s)
    BY <1>4, <2>1 DEF SessionsInv
  <2>4. \A d \in SessionCalls : progress[d].session # s
    BY <1>4, <1>5, <2>2, NoSessionZero
  <2>5. r.pc \in Refreshing \cup {"saveNext"} =>
           (s \in ended => s \in unread) /\ \A u \in Tokens : Of(u, s) /\ Usable(u) => u = r.token
    <3> SUFFICES ASSUME r.pc \in Refreshing \cup {"saveNext"}
                 PROVE  (s \in ended => s \in unread) /\ \A u \in Tokens : Of(u, s) /\ Usable(u) => u = r.token
      OBVIOUS
    <3>1. FindByHash(c, t) /\ r.token = t
      BY <1>6 DEF Refreshing
    <3>2. Usable(t) /\ Of(t, s)
      BY <1>4, <3>1 DEF FindByHash, Usable
    <3> QED
      BY <1>1, <2>3, <3>1, <3>2 DEF Orderly
  <2>6. r.pc \notin Revoking
    BY <1>6 DEF Revoking
  <2> QED
    BY <1>3, <1>4, <1>6, <2>2, <2>3, <2>4, <2>5, <2>6, OnlyCall DEF Orderly
<1>9. ~Issuing(r)
  BY <1>6 DEF Issuing
<1>10. generated' \in TokenIds /\ generated' >= generated
  BY <1>3, NoSessionZero DEF SessionsInv, SessionShape
<1>11. \A q \in Tokens \ disturbed' : q \notin disturbed /\ (q \in {progress[c].session, r.session} => Orderly(q)')
  BY <1>3, <1>5, <1>6, <1>8, NoSessionZero
<1> QED
  BY <1>3, <1>6, <1>7, <1>9, <1>10, <1>11, EndedAreKnown, CallMoved

(* A refresh that goes on, with its token and session. *)
LEMMA RefreshGoesOn ==
    ASSUME SessionsInv, NEW c \in SessionCalls, NEW s \in Tokens, s \notin disturbed, NEW r \in CallRecord,
           progress' = [progress EXCEPT ![c] = r], UNCHANGED <<time, tokens, sessions, ended, unread>>,
           progress[c].session = s, progress[c].pc \in Refreshing,
           r.session = s, r.pc \in Refreshing, r.token = progress[c].token
    PROVE  Orderly(s)'
<1>1. Orderly(s)
  BY DEF SessionsInv
<1>2. \A d \in SessionCalls \ {c} : progress[d].session # s
  BY <1>1 DEF Orderly
<1>3. progress[c].pc \notin Revoking /\ r.pc \notin Revoking
  BY DEF Refreshing, Revoking
<1>4. \A d \in SessionCalls : progress[d].session = s => progress[d].pc \notin Revoking
  BY <1>2, <1>3
<1> QED
  BY <1>1, <1>2, <1>3, <1>4, OnlyCall DEF Orderly

LEMMA RefreshKeeps ==
    ASSUME SessionsInv, NEW c \in SessionCalls, LoadUser(c) \/ Rotate(c)
    PROVE  SessionsInv'
<1>1. PICK p \in CallRecord : p = progress[c] /\ CallFits(p)
  BY SessionCallShape
<1>2. CASE LoadUser(c)
  <2>1. PICK t : t = generated + 1
    OBVIOUS
  <2>2. /\ t \in Tokens /\ generated' = t /\ p.pc = "found"
        /\ UNCHANGED <<time, active, tokens, sessions, exchanged, ended, disturbed, unread>>
    BY <1>1, <1>2, <2>1 DEF LoadUser, InStep
  <2>3. /\ p.session # 0 /\ p.token # 0 /\ Of(p.token, p.session) /\ Known(p.session)
        /\ p.session \in Tokens /\ \A u \in p.todo : Of(u, p.session)
    BY <1>1, <2>2, NoSessionZero DEF CallFits, CallRecord, Refreshing
  <2>4. PICK g : g = Generate(p.session)
    OBVIOUS
  <2>5. g \in TokenRecord /\ g.session = p.session
    BY <2>3, <2>4, NoSessionZero, SessionAssumption DEF Generate, TokenRecord, SessionsInv, SessionShape
  <2>6. PICK r : r = [p EXCEPT !.pc = "rotate", !.next = t, !.record = g]
    OBVIOUS
  <2>7. /\ r \in CallRecord /\ r.pc = "rotate" /\ r.session = p.session /\ r.token = p.token /\ r.next = t
        /\ r.record = g /\ r.todo = p.todo
    BY <2>2, <2>5, <2>6, NoSessionZero DEF CallRecord, Refreshing
  <2>8. progress' = [progress EXCEPT ![c] = r]
    BY <1>1, <1>2, <2>1, <2>4, <2>6 DEF LoadUser, Continue
  <2>9. generated \in Nat /\ t \in Nat /\ generated' \in TokenIds /\ generated' >= generated
    BY <2>1, <2>2, NoSessionZero DEF SessionsInv, SessionShape
  <2>10. ~Saved(t) /\ t \in 1..generated'
    BY <2>1, <2>2, <2>9 DEF SessionsInv, TokensFit
  <2>11. CallFits(r)'
    BY <2>2, <2>3, <2>5, <2>7, <2>10 DEF CallFits, Issuing, LoggingIn, Known, Saved, Of, Refreshing
  <2>12. \A d \in SessionCalls : Issuing(progress[d]) => progress[d].next # t
    BY <2>1, <2>9 DEF SessionsInv, CallsFitIn, CallFits
  <2>13. p.session \notin disturbed => Orderly(p.session)'
    BY <1>1, <2>2, <2>3, <2>7, <2>8, RefreshGoesOn DEF Refreshing
  <2> QED
    BY <1>1, <2>2, <2>7, <2>8, <2>9, <2>11, <2>12, <2>13, EndedAreKnown, CallMoved
<1>3. CASE Rotate(c)
  <2>1. p.pc = "rotate" /\ UNCHANGED <<time, active, generated, tokens, sessions, exchanged, ended, disturbed, unread>>
    BY <1>1, <1>3 DEF Rotate, InStep
  <2>2. /\ p.session # 0 /\ p.token # 0 /\ Of(p.token, p.session) /\ Known(p.session)
        /\ p.session \in Tokens /\ p.token \in Tokens /\ \A u \in p.todo : Of(u, p.session)
        /\ p.next \in 1..generated /\ ~Saved(p.next) /\ p.record.session = p.session
    BY <1>1, <2>1, NoSessionZero DEF CallFits, CallRecord, Refreshing, Issuing, LoggingIn
  <2>3. PICK old \in TokenRecord : old = tokens[p.token] /\ old.session = p.session
    BY <2>2 DEF SessionsInv, SessionShape, Of
  <2>4. PICK pc \in {"saveOld", "lock"} : pc = IF Acceptable(old) THEN "saveOld" ELSE "lock"
    OBVIOUS
  <2>5. PICK r : r = [p EXCEPT !.pc = pc, !.old = old]
    OBVIOUS
  <2>6. /\ r \in CallRecord /\ r.pc = pc /\ r.session = p.session /\ r.token = p.token /\ r.next = p.next
        /\ r.record = p.record /\ r.todo = p.todo /\ r.old = old
    BY <2>5 DEF CallRecord, Refreshing
  <2>7. progress' = [progress EXCEPT ![c] = r]
    BY <1>1, <1>3, <2>3, <2>4, <2>5 DEF Rotate, Continue
  <2>8. CallFits(r)'
    BY <2>1, <2>2, <2>3, <2>4, <2>6 DEF CallFits, Issuing, LoggingIn, Known, Saved, Of, Refreshing
  <2>9. \A d \in SessionCalls \ {c} : Issuing(progress[d]) => progress[d].next # r.next
    BY <1>1, <2>1, <2>6 DEF SessionsInv, CallsFitIn, Issuing
  <2>10. p.session \notin disturbed => Orderly(p.session)'
    BY <1>1, <2>1, <2>2, <2>4, <2>6, <2>7, RefreshGoesOn DEF Refreshing
  <2>11. generated' \in TokenIds /\ generated' >= generated
    BY <2>1, NoSessionZero DEF SessionsInv, SessionShape
  <2> QED
    BY <1>1, <2>1, <2>6, <2>7, <2>8, <2>9, <2>10, <2>11, EndedAreKnown, CallMoved
<1> QED
  BY <1>2, <1>3

(* A logout that goes on: its list holds every token that is still usable. *)
LEMMA LogoutGoesOn ==
    ASSUME SessionsInv, NEW c \in SessionCalls, NEW s \in Tokens, s \notin disturbed, NEW r \in CallRecord,
           progress' = [progress EXCEPT ![c] = r], UNCHANGED <<time, tokens, sessions, ended>>,
           progress[c].session = s, r.session = s, r.pc \in Revoking, unread \subseteq unread',
           s \notin unread' => \A t \in Tokens : Of(t, s) /\ Usable(t) => t \in r.todo \/ (r.pc = "saveMember" /\ t = r.token)
    PROVE  Orderly(s)'
<1>1. Orderly(s)
  BY DEF SessionsInv
<1>2. \A d \in SessionCalls \ {c} : progress[d].session # s
  BY <1>1 DEF Orderly
<1>3. r.pc \notin Refreshing \cup {"saveNext"}
  BY DEF Refreshing, Revoking
<1> QED
  BY <1>1, <1>2, <1>3, OnlyCall DEF Orderly

LEMMA RevokingKeeps ==
    ASSUME SessionsInv, NEW c \in SessionCalls,
           ReadMembers(c) \/ \E t \in 1..generated : ReadMember(c, t) \/ PassOver(c, t)
    PROVE  SessionsInv'
<1>1. PICK p \in CallRecord : p = progress[c] /\ CallFits(p)
  BY SessionCallShape
<1>2. PICK s : s = p.session
  OBVIOUS
<1>3. /\ p.pc \in {"members", "revoking"}
      /\ UNCHANGED <<time, active, generated, tokens, sessions, exchanged, ended, disturbed>>
      /\ unread \subseteq unread' /\ unread' \subseteq unread \cup {s}
  BY <1>1, <1>2 DEF ReadMembers, ReadMember, PassOver, InStep
<1>4. s \in Tokens /\ Known(s) /\ \A t \in p.todo : Of(t, s)
  BY <1>1, <1>2, <1>3, NoSessionZero DEF CallFits, CallRecord
<1>5. PICK r \in CallRecord :
        /\ progress' = [progress EXCEPT ![c] = r] /\ r.session = s /\ r.pc \in Revoking
        /\ r.token # 0 => Of(r.token, s)
        /\ r.pc = "saveMember" => r.token # 0 /\ r.old.session = s
        /\ \A t \in r.todo : Of(t, s)
        /\ s \notin disturbed \cup unread' => \A t \in Tokens : Of(t, s) /\ Usable(t) =>
             t \in r.todo \/ (r.pc = "saveMember" /\ t = r.token)
  <2>1. CASE ReadMembers(c)
    <3>1. PICK m : m = SMembers(s)
      OBVIOUS
    <3>2. PICK r : r = [p EXCEPT !.pc = "revoking", !.todo = m]
      OBVIOUS
    <3>3. p.pc = "members"
      BY <1>1, <2>1 DEF ReadMembers, InStep
    <3>4. m \in SUBSET Tokens /\ \A t \in m : Of(t, s)
      BY <1>4, <3>1 DEF SMembers, SessionsInv, SessionShape, TokensFit
    <3>5. r \in CallRecord /\ r.pc = "revoking" /\ r.session = s /\ r.token = p.token /\ r.todo = m
      BY <1>2, <3>2, <3>4 DEF CallRecord, Revoking
    <3>6. progress' = [progress EXCEPT ![c] = r]
      BY <1>1, <1>2, <2>1, <3>1, <3>2 DEF ReadMembers, Continue
    <3>7. ASSUME s \notin disturbed \cup unread', NEW t \in Tokens, Of(t, s), Usable(t) PROVE t \in m
      <4>1. Orderly(s)
        BY <1>4, <3>7 DEF SessionsInv
      <4>2. \A d \in SessionCalls : progress[d].session = s => progress[d].pc \notin Revoking
        BY <1>1, <1>2, <3>3, <4>1 DEF Orderly, Revoking
      <4>3. t \in sessions[s].members /\ tokens[t].expires <= sessions[s].expires
        BY <1>3, <3>7, <4>1, <4>2 DEF Orderly
      <4>4. tokens[t].expires > time /\ tokens[t].expires \in Nat /\ sessions[s].expires \in Nat /\ time \in Nat
        BY <1>4, <3>7 DEF Usable, Found, SessionsInv, SessionShape, TokenRecord
      <4>5. sessions[s].expires > time
        BY <4>3, <4>4
      <4> QED
        BY <3>1, <4>3, <4>5 DEF SMembers
    <3>8. r.token # 0 => Of(r.token, s)
      BY <1>1, <1>2, <3>5 DEF CallFits
    <3> QED
      BY <3>4, <3>5, <3>6, <3>7, <3>8 DEF Revoking
  <2>2. ASSUME NEW t \in 1..generated, ReadMember(c, t) \/ PassOver(c, t)
        PROVE  \E r \in CallRecord :
                 /\ progress' = [progress EXCEPT ![c] = r] /\ r.session = s /\ r.pc \in Revoking
                 /\ r.token # 0 => Of(r.token, s)
                 /\ r.pc = "saveMember" => r.token # 0 /\ r.old.session = s
                 /\ \A u \in r.todo : Of(u, s)
                 /\ s \notin disturbed \cup unread' => \A u \in Tokens : Of(u, s) /\ Usable(u) =>
                      u \in r.todo \/ (r.pc = "saveMember" /\ u = r.token)
    <3>1. p.pc = "revoking" /\ t \in p.todo /\ t \in Tokens /\ p.todo \in SUBSET Tokens
      BY <1>1, <2>2 DEF ReadMember, PassOver, InStep, CallRecord
    <3>2. ASSUME s \notin disturbed \cup unread', NEW u \in Tokens, Of(u, s), Usable(u) PROVE u \in p.todo
      <4>1. Orderly(s) /\ p.pc \in Revoking /\ p.pc # "saveMember" /\ s \notin unread
        BY <1>3, <1>4, <3>1, <3>2 DEF SessionsInv, Revoking
      <4> QED
        BY <1>1, <1>2, <3>2, <4>1 DEF Orderly
    <3>3. CASE ReadMember(c, t)
      <4>1. PICK old \in TokenRecord : old = tokens[t] /\ old.session = s
        BY <1>4, <3>1 DEF SessionsInv, SessionShape, Of
      <4>2. PICK todo \in SUBSET Tokens : todo = p.todo \ {t}
        BY <3>1
      <4>3. PICK r : r = [p EXCEPT !.pc = "saveMember", !.token = t, !.old = old, !.todo = todo]
        OBVIOUS
      <4>4. /\ r \in CallRecord /\ r.pc = "saveMember" /\ r.session = s /\ r.token = t /\ r.old = old
            /\ r.todo = todo
        BY <1>2, <3>1, <4>3, NoSessionZero DEF CallRecord, Revoking
      <4>5. progress' = [progress EXCEPT ![c] = r]
        BY <1>1, <3>3, <4>1, <4>2, <4>3 DEF ReadMember, Continue
      <4> QED
        BY <1>4, <3>1, <3>2, <4>1, <4>2, <4>4, <4>5, NoSessionZero DEF Revoking
    <3>4. CASE PassOver(c, t)
      <4>1. PICK todo \in SUBSET Tokens : todo = p.todo \ {t}
        BY <3>1
      <4>2. PICK r : r = [p EXCEPT !.todo = todo]
        OBVIOUS
      <4>3. r \in CallRecord /\ r.pc = "revoking" /\ r.session = s /\ r.token = p.token /\ r.todo = todo
        BY <1>2, <3>1, <4>2 DEF CallRecord
      <4>4. progress' = [progress EXCEPT ![c] = r]
        BY <1>1, <3>4, <4>1, <4>2 DEF PassOver, Continue
      <4>5. s \notin unread' => ~Usable(t)
        BY <1>1, <1>2, <3>4 DEF PassOver, Usable
      <4>6. r.token # 0 => Of(r.token, s)
        BY <1>1, <1>2, <4>3 DEF CallFits
      <4> QED
        BY <1>4, <3>2, <4>1, <4>3, <4>4, <4>5, <4>6 DEF Revoking
    <3> QED
      BY <2>2, <3>3, <3>4
  <2> QED
    BY <2>1, <2>2
<1>6. s # 0 /\ ~Issuing(r) /\ ~LoggingIn(r) /\ r.pc \notin {"idle", "saveNext", "saveOld", "lock"} /\ r.pc \notin Refreshing
  BY <1>4, <1>5, NoSessionZero DEF Revoking, Issuing, LoggingIn, Refreshing
<1>7. CallFits(r)'
  BY <1>3, <1>4, <1>5, <1>6 DEF CallFits, Known, Saved, Of, Issuing, LoggingIn
<1>8. s \notin disturbed => Orderly(s)'
  BY <1>1, <1>2, <1>3, <1>4, <1>5, LogoutGoesOn
<1>9. generated' \in TokenIds /\ generated' >= generated
  BY <1>3, NoSessionZero DEF SessionsInv, SessionShape
<1> QED
  BY <1>1, <1>2, <1>3, <1>5, <1>6, <1>7, <1>8, <1>9, EndedAreKnown, CallMoved

(* A call leaves, and with it the only one on its session. *)
LEMMA LeaveKeeps ==
    ASSUME SessionsInv, NEW c \in SessionCalls, AnswerLogout(c) \/ Fail(c)
    PROVE  SessionsInv'
<1>1. PICK p \in CallRecord : p = progress[c] /\ CallFits(p)
  BY SessionCallShape
<1>2. PICK s : s = p.session
  OBVIOUS
<1>3. /\ p.pc # "idle" /\ progress' = [progress EXCEPT ![c] = AtRest]
      /\ UNCHANGED <<time, active, generated, tokens, sessions, exchanged, unread>>
  BY <1>1 DEF AnswerLogout, Fail, InStep, Answer, Continue
<1>4. CallFits(AtRest)'
  BY RestFitsIn DEF CallFits, Issuing, LoggingIn, Refreshing
<1>5. s \in TokenIds /\ (s # 0 => s \in Tokens /\ Known(s))
  BY <1>1, <1>2, NoSessionZero DEF CallFits, CallRecord
<1>6. ~Issuing(AtRest)
  BY RestFitsIn DEF Issuing
<1>7. generated' \in TokenIds /\ generated' >= generated
  BY <1>3, NoSessionZero DEF SessionsInv, SessionShape
<1>8. \A t \in Tokens : \A q : (Of(t, q)' <=> Of(t, q)) /\ (Usable(t)' <=> Usable(t))
  BY <1>3 DEF Of, Usable, Found, Acceptable
<1>9. ASSUME s \in Tokens, s \notin disturbed PROVE \A d \in SessionCalls : progress'[d].session # s
  <2>1. Orderly(s)
    BY <1>9 DEF SessionsInv
  <2>2. ASSUME NEW d \in SessionCalls PROVE progress'[d].session # s
    <3>1. CASE d = c
      BY <1>3, <1>9, <3>1, RestFitsIn, NoSessionZero DEF SessionsInv, SessionShape
    <3>2. CASE d # c
      <4>1. progress'[d] = progress[d]
        BY <1>3, <3>2 DEF SessionsInv, SessionShape
      <4> QED
        BY <1>1, <1>2, <2>1, <3>2, <4>1 DEF Orderly
    <3> QED
      BY <3>1, <3>2
  <2> QED
    BY <2>2
<1>10. CASE AnswerLogout(c)
  <2>1. /\ p.pc = "revoking" /\ p.todo = {} /\ ended' = ended \cup {s} /\ disturbed' = disturbed
    BY <1>1, <1>2, <1>10 DEF AnswerLogout, InStep
  <2>2. s \in Tokens /\ Known(s)
    BY <1>1, <1>2, <1>5, <2>1 DEF CallFits
  <2>3. ASSUME s \notin disturbed PROVE Orderly(s)'
    <3>1. Orderly(s) /\ p.pc \in Revoking /\ p.pc # "saveMember"
      BY <2>1, <2>2, <2>3 DEF SessionsInv, Revoking
    <3>2. s \notin unread => \A t \in Tokens : ~(Of(t, s) /\ Usable(t))
      BY <1>1, <1>2, <2>1, <3>1 DEF Orderly
    <3> QED
      BY <1>3, <1>8, <1>9, <2>2, <2>3, <3>1, <3>2 DEF Orderly
  <2>4. ended' \subseteq Tokens /\ \A q \in ended' : Known(q)
    BY <2>1, <2>2, EndedAreKnown
  <2>5. \A q \in Tokens \ disturbed' : q \notin disturbed /\ (q \in {progress[c].session, AtRest.session} => Orderly(q)')
    BY <1>1, <1>2, <2>1, <2>3, RestFitsIn, NoSessionZero
  <2>6. \A q \in Tokens : q \notin {progress[c].session, AtRest.session} =>
          (q \in ended' <=> q \in ended) /\ (q \in unread' <=> q \in unread)
    BY <1>1, <1>2, <1>3, <2>1
  <2> QED
    BY <1>3, <1>4, <1>6, <1>7, <2>4, <2>5, <2>6, RestFitsIn, CallMoved
<1>11. CASE Fail(c)
  <2>1. ended' = ended /\ disturbed' = disturbed \cup {q \in {p.session} : LoggingOut(c, q)}
    BY <1>1, <1>11 DEF Fail
  <2>2. ASSUME s \in Tokens, s \notin disturbed' PROVE Orderly(s)'
    <3>1. s \notin disturbed /\ ~LoggingOut(c, s)
      BY <1>2, <2>1, <2>2
    <3>2. Orderly(s) /\ p.pc \notin Revoking
      BY <1>1, <1>2, <2>2, <3>1 DEF SessionsInv, Revoking, LoggingOut
    <3>3. \A d \in SessionCalls : progress[d].session = s => progress[d].pc \notin Revoking
      BY <1>1, <1>2, <3>2 DEF Orderly
    <3>4. s \notin unread =>
            \A t \in Tokens : Of(t, s) /\ Usable(t) => t \in sessions[s].members /\ tokens[t].expires <= sessions[s].expires
      BY <3>2, <3>3 DEF Orderly
    <3> QED
      BY <1>3, <1>8, <1>9, <2>1, <2>2, <3>1, <3>2, <3>4 DEF Orderly
  <2>3. \A q \in Tokens \ disturbed' : q \notin disturbed /\ (q \in {progress[c].session, AtRest.session} => Orderly(q)')
    BY <1>1, <1>2, <2>1, <2>2, RestFitsIn, NoSessionZero
  <2> QED
    BY <1>3, <1>4, <1>6, <1>7, <2>1, <2>3, RestFitsIn, EndedAreKnown, CallMoved
<1> QED
  BY <1>10, <1>11

(* Registration, an operator and the clock: what was usable may no longer   *)
(* be, and nothing else changes.                                            *)
LEMMA SurroundingsKeep ==
    ASSUME SessionsInv, UNCHANGED <<generated, tokens, sessions, progress, exchanged, ended, disturbed, unread>>,
           time' = time \/ time' = time + 1
    PROVE  SessionsInv'
<1>1. time' \in Nat /\ time' >= time
  BY DEF SessionsInv, SessionShape
<1>2. SessionShape' /\ TokensFit'
  BY <1>1 DEF SessionsInv, SessionShape, TokensFit, Saved, Of, Known, Acceptable
<1>3. CallsFitIn'
  BY DEF SessionsInv, CallsFitIn, CallFits, Issuing, LoggingIn, Known, Saved, Of, Acceptable
<1>4. ASSUME NEW s \in Tokens \ disturbed' PROVE Orderly(s)'
  BY <1>1, OrderlyKept DEF SessionsInv
<1> QED
  BY <1>2, <1>3, <1>4 DEF SessionsInv

-----------------------------------------------------------------------------
(* A save writes one token under its session.  Its record is either the     *)
(* first, or one that no refresh takes, so nothing spent becomes usable.    *)
Keeps(t, record) == Of(t, record.session) /\ ~Acceptable(record)

LEMMA SaveWrites ==
    ASSUME SessionsInv, NEW t \in Tokens, NEW record \in TokenRecord, record.session \in Tokens,
           save(t, record), Keeps(t, record) \/ ~Saved(t),
           t <= generated, record.session <= generated,
           UNCHANGED generated, exchanged' \subseteq Tokens,
           \A u \in exchanged' \ exchanged : ~Acceptable(tokens[u]),
           ended' = ended
    PROVE  /\ tokens' \in [Tokens -> TokenRecord]
           /\ sessions' \in [Tokens -> [members : SUBSET Tokens, expires : Nat]]
           /\ tokens'[t] = record /\ \A u \in Tokens \ {t} : tokens'[u] = tokens[u]
           /\ sessions'[record.session].expires = record.expires /\ t \in sessions'[record.session].members
           /\ \A s \in Tokens \ {record.session} : sessions'[s] = sessions[s]
           /\ \A u \in Tokens, s \in Tokens : Of(u, s) => Of(u, s)'
           /\ \A u \in Tokens : ~Acceptable(tokens[u]) => ~Acceptable(tokens'[u])
           /\ TokensFit'
<1>1. /\ tokens' = [tokens EXCEPT ![t] = record]
      /\ sessions' = [sessions EXCEPT ![record.session] =
                        [members |-> SMembers(record.session) \cup {t}, expires |-> record.expires]]
  BY DEF save
<1>2. /\ tokens \in [Tokens -> TokenRecord]
      /\ sessions \in [Tokens -> [members : SUBSET Tokens, expires : Nat]]
  BY DEF SessionsInv, SessionShape
<1>3. /\ tokens' \in [Tokens -> TokenRecord] /\ tokens'[t] = record
      /\ \A u \in Tokens \ {t} : tokens'[u] = tokens[u]
  BY <1>1, <1>2
<1>4. SMembers(record.session) \subseteq sessions[record.session].members
  BY DEF SMembers
<1>5. PICK m \in SUBSET Tokens : m = SMembers(record.session) \cup {t}
  BY <1>2, <1>4
<1>6. sessions' = [sessions EXCEPT ![record.session] = [members |-> m, expires |-> record.expires]]
  BY <1>1, <1>5
<1>7. [members |-> m, expires |-> record.expires] \in [members : SUBSET Tokens, expires : Nat]
  BY DEF TokenRecord
<1>8. /\ sessions' \in [Tokens -> [members : SUBSET Tokens, expires : Nat]]
      /\ sessions'[record.session] = [members |-> m, expires |-> record.expires]
      /\ \A s \in Tokens \ {record.session} : sessions'[s] = sessions[s]
  BY <1>2, <1>6, <1>7
<1>9. /\ sessions'[record.session].expires = record.expires /\ sessions'[record.session].members = m
  BY <1>8
<1>10. \A u \in Tokens, s \in Tokens : Of(u, s) => Of(u, s)'
  BY <1>3, NoSessionZero DEF Of, Saved, Keeps
<1>11. ASSUME NEW u \in Tokens, ~Acceptable(tokens[u]) PROVE ~Acceptable(tokens'[u])
  <2>1. CASE u # t
    BY <1>3, <1>11, <2>1
  <2>2. CASE u = t /\ Keeps(t, record)
    BY <1>3, <2>2 DEF Keeps
  <2>3. CASE u = t /\ ~Saved(t)
    BY <1>11, <2>3, RestFitsIn DEF SessionsInv, TokensFit
  <2> QED
    BY <2>1, <2>2, <2>3
<1>12. TokensFit'
  <2>1. \A u \in Tokens : ~Saved(u)' => tokens'[u] = NoRecord
    BY <1>3, NoSessionZero DEF SessionsInv, TokensFit, Saved, Of
  <2>2. \A u \in Tokens : u > generated => ~Saved(u)'
    <3>1. generated \in Nat
      BY NoSessionZero DEF SessionsInv, SessionShape
    <3>2. \A u \in Tokens : u > generated => u # t
      BY <3>1, NoSessionZero
    <3> QED
      BY <1>3, <3>2 DEF SessionsInv, TokensFit, Saved, Of
  <2>3. \A u \in Tokens : tokens'[u].session <= generated
    BY <1>3 DEF SessionsInv, TokensFit
  <2>4. \A s \in Tokens : \A u \in sessions'[s].members : Of(u, s)'
    <3> SUFFICES ASSUME NEW s \in Tokens, NEW u \in sessions'[s].members PROVE Of(u, s)'
      OBVIOUS
    <3>1. u \in Tokens
      BY <1>8
    <3>2. CASE s = record.session /\ u = t
      BY <1>3, <3>2 DEF Of
    <3>3. CASE s = record.session /\ u # t
      <4>1. u \in sessions[s].members
        BY <1>4, <1>5, <1>9, <3>3
      <4> QED
        BY <1>10, <3>1, <4>1 DEF SessionsInv, TokensFit
    <3>4. CASE s # record.session
      <4>1. u \in sessions[s].members
        BY <1>8, <3>4
      <4> QED
        BY <1>10, <3>1, <4>1 DEF SessionsInv, TokensFit
    <3> QED
      BY <3>2, <3>3, <3>4
  <2>5. \A u \in exchanged' : ~Acceptable(tokens'[u])
    BY <1>11 DEF SessionsInv, TokensFit
  <2>6. \A s \in ended : Known(s)'
    <3> SUFFICES ASSUME NEW s \in ended PROVE Known(s)'
      OBVIOUS
    <3>1. PICK u \in Tokens : Of(u, s)
      BY EndedAreKnown DEF Known
    <3>2. s \in Tokens
      BY EndedAreKnown
    <3>3. Of(u, s)'
      BY <1>10, <3>1, <3>2
    <3> QED
      BY <3>3 DEF Known
  <2>7. UNCHANGED generated
    OBVIOUS
  <2> QED
    BY <2>1, <2>2, <2>3, <2>4, <2>5, <2>6, <2>7 DEF TokensFit, Acceptable
<1> QED
  BY <1>3, <1>5, <1>8, <1>9, <1>10, <1>11, <1>12

(* What another call knows stays true after a save. *)
LEMMA CallFitsAfterSave ==
    ASSUME SessionsInv, NEW q \in CallRecord, CallFits(q), NEW t \in Tokens, NEW home \in Tokens,
           \A u \in Tokens \ {t} : tokens'[u] = tokens[u], Of(t, home)',
           \A u \in Tokens, s \in Tokens : Of(u, s) => Of(u, s)',
           \A u \in Tokens : ~Acceptable(tokens[u]) => ~Acceptable(tokens'[u]),
           UNCHANGED generated,
           Issuing(q) => q.next # t, LoggingIn(q) => q.next # home
    PROVE  CallFits(q)'
<1>1. q.session \in TokenIds /\ q.token \in TokenIds /\ q.todo \in SUBSET Tokens
  BY DEF CallRecord
<1>2. q.session # 0 => Known(q.session)'
  <2> SUFFICES ASSUME q.session # 0 PROVE Known(q.session)'
    OBVIOUS
  <2>1. PICK u \in Tokens : Of(u, q.session)
    BY DEF CallFits, Known
  <2>2. Of(u, q.session)'
    BY <1>1, <2>1, NoSessionZero
  <2> QED
    BY <2>2 DEF Known
<1>3. q.token # 0 => Of(q.token, q.session)' /\ q.session # 0
  BY <1>1, NoSessionZero DEF CallFits
<1>4. q.pc = "saveNext" /\ q.token # 0 => ~Acceptable(tokens'[q.token])
  BY <1>1, NoSessionZero DEF CallFits
<1>5. Issuing(q) => q.next \in 1..generated /\ ~Saved(q.next)'
  <2> SUFFICES ASSUME Issuing(q) PROVE q.next \in 1..generated /\ ~Saved(q.next)'
    OBVIOUS
  <2>1. q.next \in 1..generated /\ ~Saved(q.next) /\ q.next # t
    BY DEF CallFits
  <2>2. q.next \in Tokens
    BY <2>1, SessionAssumption DEF SessionsInv, SessionShape, TokenIds, Tokens
  <2> QED
    BY <2>1, <2>2 DEF Saved, Of
<1>6. LoggingIn(q) => ~Known(q.next)'
  <2> SUFFICES ASSUME LoggingIn(q), NEW u \in Tokens, Of(u, q.next)' PROVE FALSE
    BY DEF Known
  <2>1. ~Known(q.next) /\ q.next # home
    BY DEF CallFits
  <2>2. CASE u = t
    BY <2>1, <2>2 DEF Of
  <2>3. CASE u # t
    BY <2>1, <2>3 DEF Of, Known
  <2> QED
    BY <2>2, <2>3
<1>7. ASSUME NEW u \in q.todo PROVE Of(u, q.session)' /\ q.session # 0
  BY <1>1, NoSessionZero DEF CallFits
<1> QED
  BY <1>2, <1>3, <1>4, <1>5, <1>6, <1>7 DEF CallFits, Acceptable

(* A call saves a token of its session and goes on, or leaves. *)
LEMMA SaveKeeps ==
    ASSUME SessionsInv, NEW c \in SessionCalls, NEW r \in CallRecord,
           NEW t \in Tokens, NEW record \in TokenRecord, NEW home \in Tokens, home = record.session,
           save(t, record), Keeps(t, record) \/ ~Saved(t), t <= generated, home <= generated,
           progress' = [progress EXCEPT ![c] = r], CallFits(r)',
           Issuing(r) => Issuing(progress[c]) /\ r.next = progress[c].next,
           \A d \in SessionCalls \ {c} :
             (Issuing(progress[d]) => progress[d].next # t) /\ (LoggingIn(progress[d]) => progress[d].next # home),
           progress[c].session \in {0, home}, r.session \in {0, home},
           UNCHANGED <<time, generated, ended, disturbed, unread>>,
           exchanged' \subseteq Tokens, \A u \in exchanged' \ exchanged : ~Acceptable(tokens[u]),
           home \notin disturbed => Orderly(home)'
    PROVE  SessionsInv'
<1>1. /\ tokens' \in [Tokens -> TokenRecord]
      /\ sessions' \in [Tokens -> [members : SUBSET Tokens, expires : Nat]]
      /\ tokens'[t] = record /\ \A u \in Tokens \ {t} : tokens'[u] = tokens[u]
      /\ \A s \in Tokens \ {home} : sessions'[s] = sessions[s]
      /\ \A u \in Tokens, s \in Tokens : Of(u, s) => Of(u, s)'
      /\ \A u \in Tokens : ~Acceptable(tokens[u]) => ~Acceptable(tokens'[u])
      /\ TokensFit'
  BY SaveWrites
<1>2. SessionShape'
  BY <1>1 DEF SessionsInv, SessionShape
<1>3. Of(t, home)'
  BY <1>1 DEF Of
<1>4. progress'[c] = r /\ \A d \in SessionCalls \ {c} : progress'[d] = progress[d]
  BY DEF SessionsInv, SessionShape
<1>5. ASSUME NEW d \in SessionCalls PROVE CallFits(progress[d])'
  <2>1. CASE d = c
    BY <1>4, <2>1 DEF CallFits, Known, Saved, Of
  <2>2. CASE d # c
    <3>1. PICK q \in CallRecord : q = progress[d] /\ CallFits(q)
      BY SessionCallShape
    <3>2. (Issuing(q) => q.next # t) /\ (LoggingIn(q) => q.next # home)
      BY <2>2, <3>1
    <3>3. CallFits(q)'
      BY <1>1, <1>3, <3>1, <3>2, CallFitsAfterSave
    <3>4. progress'[d] = q
      BY <1>4, <2>2, <3>1
    <3> QED
      BY <3>3, <3>4 DEF CallFits, Known, Saved, Of
  <2> QED
    BY <2>1, <2>2
<1>6. ASSUME NEW d \in SessionCalls, NEW e \in SessionCalls,
             Issuing(progress[d])', Issuing(progress[e])', progress'[d].next = progress'[e].next
      PROVE  d = e
  <2>1. \A f \in SessionCalls : Issuing(progress[f])' => Issuing(progress[f]) /\ progress'[f].next = progress[f].next
    BY <1>4 DEF Issuing
  <2> QED
    BY <1>6, <2>1 DEF SessionsInv, CallsFitIn
<1>7. ASSUME NEW s \in Tokens \ disturbed' PROVE Orderly(s)'
  <2>1. CASE s = home
    BY <1>7, <2>1
  <2>2. CASE s # home
    <3>1. \A u \in Tokens : Of(u, s)' => tokens'[u] = tokens[u]
      BY <1>1, <2>2 DEF Of
    <3>2. \A d \in SessionCalls :
            progress'[d] = progress[d] \/ (progress[d].session # s /\ progress'[d].session # s)
      BY <1>4, <2>2, NoSessionZero
    <3>3. Orderly(s) /\ sessions'[s] = sessions[s] /\ time' \in Nat /\ time' >= time
          /\ (s \in ended' <=> s \in ended) /\ (s \in unread' <=> s \in unread)
      BY <1>1, <1>7, <2>2 DEF SessionsInv, SessionShape
    <3> QED
      BY <3>1, <3>2, <3>3, OrderlyKept
  <2> QED
    BY <2>1, <2>2
<1> QED
  BY <1>1, <1>2, <1>5, <1>6, <1>7 DEF SessionsInv, CallsFitIn

(* A call that writes its token back leaves at most the others usable, of   *)
(* which an orderly session has none when the call is a refresh.            *)
LEMMA SpentTokenIsGone ==
    ASSUME SessionsInv, NEW t \in Tokens, tokens'[t] \in TokenRecord, ~Acceptable(tokens'[t]), NEW s \in Tokens,
           \A u \in Tokens \ {t} : tokens'[u] = tokens[u], UNCHANGED time
    PROVE  \A u \in Tokens : Of(u, s)' /\ Usable(u)' => u # t /\ Of(u, s) /\ Usable(u)
<1> SUFFICES ASSUME NEW u \in Tokens, Of(u, s)', Usable(u)' PROVE u # t /\ Of(u, s) /\ Usable(u)
  OBVIOUS
<1>1. u # t
  BY DEF Usable, Acceptable
<1>2. tokens'[u] = tokens[u]
  BY <1>1
<1> QED
  BY <1>1, <1>2 DEF Of, Usable, Found, Acceptable

LEMMA WriteBackKeeps ==
    ASSUME SessionsInv, NEW c \in SessionCalls, SaveOld(c) \/ LockReplay(c)
    PROVE  SessionsInv'
<1>1. PICK p \in CallRecord : p = progress[c] /\ CallFits(p)
  BY SessionCallShape
<1>2. PICK s : s = p.session
  OBVIOUS
<1>3. PICK t : t = p.token
  OBVIOUS
<1>4. /\ p.pc \in {"saveOld", "lock"} /\ UNCHANGED <<time, active, generated, exchanged, ended, disturbed, unread>>
  BY <1>1 DEF SaveOld, LockReplay, InStep
<1>5. /\ s \in Tokens /\ t \in Tokens /\ Of(t, s) /\ Known(s) /\ p.old.session = s /\ p.old \in TokenRecord
      /\ p.next \in 1..generated /\ ~Saved(p.next) /\ p.record.session = s /\ Issuing(p)
      /\ \A u \in p.todo : Of(u, s)
  BY <1>1, <1>2, <1>3, <1>4, NoSessionZero DEF CallFits, CallRecord, Refreshing, Issuing, LoggingIn
<1>6. PICK record \in TokenRecord :
        save(t, record) /\ record.session = s /\ ~Acceptable(record)
  <2>1. CASE SaveOld(c)
    BY <1>1, <1>3, <1>5, <2>1, WrittenBackIsSpent DEF SaveOld
  <2>2. CASE LockReplay(c)
    BY <1>1, <1>3, <1>5, <2>2, WrittenBackIsSpent DEF LockReplay, Locked
  <2> QED
    BY <2>1, <2>2
<1>7. Keeps(t, record) /\ t # p.next
  BY <1>5, <1>6, NoSessionZero DEF Keeps, Saved, Of
<1>8. t <= generated /\ s <= generated
  <2>1. generated \in Nat /\ t \in Nat /\ Saved(t)
    BY <1>5, NoSessionZero DEF SessionsInv, SessionShape, Saved, Of
  <2>2. t <= generated
    BY <1>5, <2>1 DEF SessionsInv, TokensFit
  <2> QED
    BY <1>5, <2>2 DEF SessionsInv, TokensFit, Of
<1>9. /\ tokens' \in [Tokens -> TokenRecord] /\ tokens'[t] = record
      /\ \A u \in Tokens \ {t} : tokens'[u] = tokens[u]
      /\ \A u \in Tokens, q \in Tokens : Of(u, q) => Of(u, q)'
  BY <1>4, <1>5, <1>6, <1>7, <1>8, SaveWrites DEF SessionsInv, SessionShape
<1>10. ~Acceptable(tokens'[t])
  BY <1>6, <1>9
<1>11. PICK r \in CallRecord :
         /\ progress' = [progress EXCEPT ![c] = r] /\ CallFits(r)' /\ r.session \in {0, s}
         /\ r.pc \in {"idle", "saveNext"} /\ (r.session = s => r.pc = "saveNext" /\ r.token = t)
         /\ Issuing(r) => r.next = p.next
  <2>1. CASE SaveOld(c)
    <3>1. PICK r : r = [p EXCEPT !.pc = "saveNext", !.old = NoRecord]
      OBVIOUS
    <3>2. /\ r \in CallRecord /\ r.pc = "saveNext" /\ r.session = s /\ r.token = t /\ r.next = p.next
          /\ r.record = p.record /\ r.todo = p.todo
      BY <1>2, <1>3, <3>1, RestFitsIn DEF CallRecord
    <3>3. progress' = [progress EXCEPT ![c] = r]
      BY <1>1, <2>1, <3>1 DEF SaveOld, Continue
    <3>4. Known(s)' /\ Of(t, s)'
      BY <1>5, <1>9 DEF Known
    <3>5. ~Saved(p.next)' /\ p.next \in 1..generated'
      <4>1. p.next \in Tokens
        BY <1>5, SessionAssumption DEF SessionsInv, SessionShape, TokenIds, Tokens
      <4> QED
        BY <1>4, <1>5, <1>7, <1>9, <4>1 DEF Saved, Of
    <3>6. \A u \in p.todo : Of(u, s)'
      BY <1>5, <1>9 DEF CallRecord
    <3>7. t # 0 /\ s # 0
      BY <1>5, NoSessionZero
    <3>8. CallFits(r)'
      BY <1>5, <1>10, <3>2, <3>4, <3>5, <3>6, <3>7 DEF CallFits, Issuing, LoggingIn, Refreshing, Acceptable
    <3> QED
      BY <3>2, <3>3, <3>8
  <2>2. CASE LockReplay(c)
    <3>1. progress' = [progress EXCEPT ![c] = AtRest]
      BY <2>2 DEF LockReplay, Answer, Continue
    <3>2. CallFits(AtRest)'
      BY RestFitsIn DEF CallFits, Issuing, LoggingIn, Refreshing
    <3> QED
      BY <1>5, <3>1, <3>2, RestFitsIn, NoSessionZero DEF Issuing
  <2> QED
    BY <2>1, <2>2
<1>12. ASSUME s \notin disturbed PROVE Orderly(s)'
  <2>1. Orderly(s)
    BY <1>5, <1>12 DEF SessionsInv
  <2>2. (s \in ended => s \in unread) /\ \A u \in Tokens : Of(u, s) /\ Usable(u) => u = t
    BY <1>1, <1>2, <1>3, <1>4, <2>1 DEF Orderly, Refreshing
  <2>3. \A u \in Tokens : ~(Of(u, s)' /\ Usable(u)')
    BY <1>4, <1>5, <1>9, <1>10, <2>2, SpentTokenIsGone
  <2>4. \A d \in SessionCalls : progress'[d].session = s => d = c
    <3> SUFFICES ASSUME NEW d \in SessionCalls, d # c PROVE progress'[d].session # s
      OBVIOUS
    <3>1. progress'[d] = progress[d]
      BY <1>11 DEF SessionsInv, SessionShape
    <3> QED
      BY <1>1, <1>2, <2>1, <3>1 DEF Orderly
  <2> QED
    BY <1>4, <2>2, <2>3, <2>4 DEF Orderly
<1>13. \A d \in SessionCalls \ {c} : (Issuing(progress[d]) => progress[d].next # t)
                                  /\ (LoggingIn(progress[d]) => progress[d].next # s)
  <2> SUFFICES ASSUME NEW d \in SessionCalls \ {c}
               PROVE  (Issuing(progress[d]) => progress[d].next # t) /\ (LoggingIn(progress[d]) => progress[d].next # s)
    OBVIOUS
  <2>1. CallFits(progress[d])
    BY SessionCallShape
  <2>2. Saved(t)
    BY <1>5, NoSessionZero DEF Saved, Of
  <2> QED
    BY <1>5, <2>1, <2>2 DEF CallFits
<1> QED
  <2>1. exchanged' \subseteq Tokens /\ \A u \in exchanged' \ exchanged : ~Acceptable(tokens[u])
    BY <1>4 DEF SessionsInv, SessionShape
  <2>2. progress[c].session \in {0, s} /\ (Issuing(r) => Issuing(progress[c]) /\ r.next = progress[c].next)
    BY <1>1, <1>2, <1>5, <1>11
  <2> QED
    BY <1>4, <1>5, <1>6, <1>7, <1>8, <1>11, <1>12, <1>13, <2>1, <2>2, SaveKeeps

LEMMA SaveMemberKeeps == ASSUME SessionsInv, NEW c \in SessionCalls, SaveMember(c) PROVE SessionsInv'
<1>1. PICK p \in CallRecord : p = progress[c] /\ CallFits(p)
  BY SessionCallShape
<1>2. PICK s : s = p.session
  OBVIOUS
<1>3. PICK t : t = p.token
  OBVIOUS
<1>4. /\ p.pc = "saveMember" /\ UNCHANGED <<time, active, generated, exchanged, ended, disturbed, unread>>
  BY <1>1 DEF SaveMember, InStep
<1>5. /\ s \in Tokens /\ t \in Tokens /\ Of(t, s) /\ Known(s) /\ p.old.session = s /\ p.old \in TokenRecord
      /\ p.todo \in SUBSET Tokens /\ \A u \in p.todo : Of(u, s)
  BY <1>1, <1>2, <1>3, <1>4, NoSessionZero DEF CallFits, CallRecord
<1>6. PICK record \in TokenRecord : save(t, record) /\ record.session = s /\ ~Acceptable(record)
  BY <1>1, <1>3, <1>5, WrittenBackIsSpent DEF SaveMember
<1>7. Keeps(t, record)
  BY <1>5, <1>6 DEF Keeps
<1>8. t <= generated /\ s <= generated
  <2>1. generated \in Nat /\ t \in Nat /\ Saved(t)
    BY <1>5, NoSessionZero DEF SessionsInv, SessionShape, Saved, Of
  <2>2. t <= generated
    BY <1>5, <2>1 DEF SessionsInv, TokensFit
  <2> QED
    BY <1>5, <2>2 DEF SessionsInv, TokensFit, Of
<1>9. /\ tokens' \in [Tokens -> TokenRecord] /\ tokens'[t] = record
      /\ \A u \in Tokens \ {t} : tokens'[u] = tokens[u]
      /\ \A u \in Tokens, q \in Tokens : Of(u, q) => Of(u, q)'
  BY <1>4, <1>5, <1>6, <1>7, <1>8, SaveWrites DEF SessionsInv, SessionShape
<1>10. PICK r : r = [p EXCEPT !.pc = "revoking", !.token = 0, !.old = NoRecord, !.todo = p.todo]
  OBVIOUS
<1>11. r \in CallRecord /\ r.pc = "revoking" /\ r.session = s /\ r.token = 0 /\ r.todo = p.todo
  BY <1>2, <1>5, <1>10, RestFitsIn, NoSessionZero DEF CallRecord, Revoking
<1>12. progress' = [progress EXCEPT ![c] = r]
  BY <1>1, <1>10 DEF SaveMember, Continue, Remaining
<1>13. CallFits(r)'
  <2>1. Known(s)' /\ s # 0
    BY <1>5, <1>9, NoSessionZero DEF Known
  <2>2. \A u \in p.todo : Of(u, s)'
    BY <1>5, <1>9
  <2> QED
    BY <1>11, <2>1, <2>2 DEF CallFits, Issuing, LoggingIn, Refreshing
<1>14. ASSUME s \notin disturbed PROVE Orderly(s)'
  <2>1. Orderly(s)
    BY <1>5, <1>14 DEF SessionsInv
  <2>2. s \notin unread => \A u \in Tokens : Of(u, s) /\ Usable(u) => u \in p.todo \/ u = t
    BY <1>1, <1>2, <1>3, <1>4, <2>1 DEF Orderly, Revoking
  <2>3. \A u \in Tokens : Of(u, s)' /\ Usable(u)' => u # t /\ Of(u, s) /\ Usable(u)
    BY <1>4, <1>5, <1>6, <1>9, SpentTokenIsGone
  <2>4. \A d \in SessionCalls : progress'[d].session = s => d = c
    <3> SUFFICES ASSUME NEW d \in SessionCalls, d # c PROVE progress'[d].session # s
      OBVIOUS
    <3>1. progress'[d] = progress[d]
      BY <1>12 DEF SessionsInv, SessionShape
    <3> QED
      BY <1>1, <1>2, <2>1, <3>1 DEF Orderly
  <2>5. progress'[c] = r
    BY <1>12 DEF SessionsInv, SessionShape
  <2>6. s \in ended \ unread => \A u \in Tokens : Of(u, s) => ~Usable(u)
    BY <2>1 DEF Orderly
  <2>7. \A u, v \in Tokens : Of(u, s) /\ Usable(u) /\ Of(v, s) /\ Usable(v) => u = v
    BY <2>1 DEF Orderly
  <2> QED
    BY <1>4, <1>11, <2>2, <2>3, <2>4, <2>5, <2>6, <2>7 DEF Orderly, Revoking, Refreshing
<1>15. \A d \in SessionCalls \ {c} : (Issuing(progress[d]) => progress[d].next # t)
                                  /\ (LoggingIn(progress[d]) => progress[d].next # s)
  <2> SUFFICES ASSUME NEW d \in SessionCalls \ {c}
               PROVE  (Issuing(progress[d]) => progress[d].next # t) /\ (LoggingIn(progress[d]) => progress[d].next # s)
    OBVIOUS
  <2>1. CallFits(progress[d])
    BY SessionCallShape
  <2>2. Saved(t)
    BY <1>5, NoSessionZero DEF Saved, Of
  <2> QED
    BY <1>5, <2>1, <2>2 DEF CallFits
<1>16. exchanged' \subseteq Tokens /\ \A u \in exchanged' \ exchanged : ~Acceptable(tokens[u])
  BY <1>4 DEF SessionsInv, SessionShape
<1>17. ~Issuing(r)
  BY <1>11 DEF Issuing
<1> QED
  BY <1>1, <1>2, <1>4, <1>5, <1>6, <1>7, <1>8, <1>11, <1>12, <1>13, <1>14, <1>15, <1>16, <1>17, SaveKeeps

(* The new token is the session's only usable one: the one it was exchanged *)
(* for is spent, and after a login there is no other.                       *)
LEMMA SaveNextKeeps == ASSUME SessionsInv, NEW c \in SessionCalls, SaveNext(c) PROVE SessionsInv'
<1>1. PICK p \in CallRecord : p = progress[c] /\ CallFits(p)
  BY SessionCallShape
<1>2. PICK n : n = p.next
  OBVIOUS
<1>3. PICK record \in TokenRecord : record = p.record
  BY DEF CallRecord
<1>4. PICK s : s = record.session
  OBVIOUS
<1>5. /\ p.pc = "saveNext" /\ save(n, record) /\ progress' = [progress EXCEPT ![c] = AtRest]
      /\ exchanged' = exchanged \cup ({p.token} \ {0})
      /\ UNCHANGED <<time, active, generated, ended, disturbed, unread>>
  BY <1>1, <1>2, <1>3 DEF SaveNext, InStep, Answer, Continue
<1>6. Issuing(p) /\ n \in 1..generated /\ ~Saved(n) /\ n \in Tokens /\ n <= generated
  <2>1. Issuing(p) /\ n \in 1..generated /\ ~Saved(n)
    BY <1>1, <1>2, <1>5 DEF CallFits, Issuing
  <2>2. generated \in Nat /\ n \in Tokens
    BY <2>1, SessionAssumption DEF SessionsInv, SessionShape, TokenIds, Tokens
  <2> QED
    BY <2>1, <2>2
<1>7. /\ s \in Tokens /\ s <= generated /\ p.session \in {0, s}
      /\ \A d \in SessionCalls \ {c} : (LoggingIn(progress[d]) => progress[d].next # s)
                                    /\ (s \notin disturbed => progress[d].session # s)
      /\ s \notin disturbed => (s \in ended => s \in unread) /\ \A u \in Tokens : ~(Of(u, s) /\ Usable(u))
  <2>1. CASE p.token = 0
    <3>1. LoggingIn(p) /\ p.session = 0 /\ s = n /\ ~Known(n)
      BY <1>1, <1>2, <1>3, <1>4, <1>5, <2>1 DEF CallFits, LoggingIn
    <3>2. ASSUME NEW d \in SessionCalls \ {c}
          PROVE  (LoggingIn(progress[d]) => progress[d].next # s) /\ progress[d].session # s
      <4>1. CallFits(progress[d])
        BY SessionCallShape
      <4>2. progress[d].session # s
        BY <1>6, <3>1, <4>1, NoSessionZero DEF CallFits
      <4>3. LoggingIn(progress[d]) => progress[d].next # s
        BY <1>1, <1>2, <1>6, <3>1 DEF SessionsInv, CallsFitIn, LoggingIn, Issuing
      <4> QED
        BY <4>2, <4>3
    <3>3. s \notin ended /\ \A u \in Tokens : ~Of(u, s)
      BY <3>1, EndedAreKnown DEF Known
    <3> QED
      BY <1>6, <3>1, <3>2, <3>3
  <2>2. CASE p.token # 0
    <3>1. /\ ~LoggingIn(p) /\ p.session = s /\ s # 0 /\ Known(s) /\ Of(p.token, s) /\ p.token \in Tokens
          /\ ~Acceptable(tokens[p.token]) /\ s \in Tokens
      BY <1>1, <1>3, <1>4, <1>5, <1>6, <2>2, NoSessionZero DEF CallFits, LoggingIn, CallRecord
    <3>2. s <= generated
      BY <3>1 DEF SessionsInv, TokensFit, Of
    <3>3. ASSUME NEW d \in SessionCalls \ {c} PROVE LoggingIn(progress[d]) => progress[d].next # s
      BY <3>1, SessionCallShape DEF CallFits
    <3>4. ASSUME s \notin disturbed
          PROVE  /\ (s \in ended => s \in unread) /\ \A u \in Tokens : ~(Of(u, s) /\ Usable(u))
                 /\ \A d \in SessionCalls \ {c} : progress[d].session # s
      <4>1. Orderly(s)
        BY <3>1, <3>4 DEF SessionsInv
      <4>2. (s \in ended => s \in unread) /\ \A u \in Tokens : Of(u, s) /\ Usable(u) => u = p.token
        BY <1>1, <1>5, <3>1, <4>1 DEF Orderly
      <4>3. ~Usable(p.token)
        BY <3>1 DEF Usable
      <4> QED
        BY <1>1, <3>1, <4>1, <4>2, <4>3 DEF Orderly
    <3> QED
      BY <3>1, <3>2, <3>3, <3>4
  <2> QED
    BY <2>1, <2>2
<1>8. exchanged' \subseteq Tokens /\ \A u \in exchanged' \ exchanged : ~Acceptable(tokens[u])
  <2>1. p.token # 0 => p.token \in Tokens /\ ~Acceptable(tokens[p.token])
    BY <1>1, <1>5, NoSessionZero DEF CallFits, CallRecord
  <2> QED
    BY <1>5, <2>1 DEF SessionsInv, SessionShape
<1>9. /\ tokens' \in [Tokens -> TokenRecord] /\ tokens'[n] = record
      /\ \A u \in Tokens \ {n} : tokens'[u] = tokens[u]
      /\ sessions'[s].expires = record.expires /\ n \in sessions'[s].members
  BY <1>4, <1>5, <1>6, <1>7, <1>8, SaveWrites
<1>10. ASSUME s \notin disturbed PROVE Orderly(s)'
  <2>1. \A u \in Tokens : Of(u, s)' /\ Usable(u)' => u = n
    <3> SUFFICES ASSUME NEW u \in Tokens, u # n, Of(u, s)', Usable(u)' PROVE FALSE
      OBVIOUS
    <3>1. tokens'[u] = tokens[u] /\ time' = time
      BY <1>5, <1>9
    <3>2. Of(u, s) /\ Usable(u)
      BY <3>1 DEF Of, Usable, Found, Acceptable
    <3> QED
      BY <1>7, <1>10, <3>2
  <2>2. tokens'[n].expires <= sessions'[s].expires
    BY <1>9 DEF TokenRecord
  <2>3. ASSUME NEW d \in SessionCalls PROVE progress'[d].session # s
    <3>1. CASE d = c
      BY <1>5, <1>7, <3>1, RestFitsIn, NoSessionZero DEF SessionsInv, SessionShape
    <3>2. CASE d # c
      BY <1>5, <1>7, <1>10, <3>2 DEF SessionsInv, SessionShape
    <3> QED
      BY <3>1, <3>2
  <2>4. s \in ended' => s \in unread'
    BY <1>5, <1>7, <1>10
  <2> QED
    BY <1>9, <2>1, <2>2, <2>3, <2>4 DEF Orderly
<1>11. CallFits(AtRest)' /\ ~Issuing(AtRest)
  BY RestFitsIn DEF CallFits, Issuing, LoggingIn, Refreshing
<1>12. \A d \in SessionCalls \ {c} : Issuing(progress[d]) => progress[d].next # n
  BY <1>1, <1>2, <1>6 DEF SessionsInv, CallsFitIn
<1> QED
  BY <1>1, <1>4, <1>5, <1>6, <1>7, <1>8, <1>10, <1>11, <1>12, RestFitsIn, SaveKeeps

-----------------------------------------------------------------------------
LEMMA SessionStepKeeps == SessionsInv /\ [SessionNext]_sessionVars => SessionsInv'
<1> SUFFICES ASSUME SessionsInv, [SessionNext]_sessionVars PROVE SessionsInv'
  OBVIOUS
<1>1. CASE UNCHANGED sessionVars
  BY <1>1, SurroundingsKeep DEF sessionVars
<1>2. CASE Register \/ Elapse
  BY <1>2, SurroundingsKeep DEF Register, Elapse
<1>3. ASSUME NEW c \in SessionCalls, ServeCall(c) PROVE SessionsInv'
  BY <1>3, LoginKeeps, EnterKeeps, RefreshKeeps, RevokingKeeps, LeaveKeeps, WriteBackKeeps, SaveMemberKeeps,
     SaveNextKeeps DEF ServeCall
<1> QED
  BY <1>1, <1>2, <1>3 DEF SessionNext

(* Rotation holds (RefreshToken, Rotate): for any number of calls, tokens   *)
(* and interleavings of their Redis commands, a token that was exchanged is *)
(* never taken again, because whoever writes a record back writes it spent; *)
(* and a session whose calls did not overlap has one usable token at most.  *)
THEOREM ExchangedTokensAreSpent == SessionSpec => []ExchangedTokenIsSpent
<1>1. SessionsInv => ExchangedTokenIsSpent
  <2> SUFFICES ASSUME SessionsInv PROVE ExchangedTokenIsSpent
    OBVIOUS
  <2>1. \A t \in exchanged : ~Usable(t)
    BY DEF SessionsInv, TokensFit, Usable
  <2>2. ASSUME NEW s \in Tokens \ disturbed
        PROVE  Cardinality({t \in Tokens : tokens[t].session = s /\ Usable(t)}) <= 1
    <3> DEFINE U == {t \in Tokens : tokens[t].session = s /\ Usable(t)}
    <3>1. \A t, u \in U : t = u
      BY DEF SessionsInv, Orderly, Of
    <3> SUFFICES Cardinality(U) <= 1
      OBVIOUS
    <3> HIDE DEF U
    <3>2. CASE U = {}
      BY <3>2, FS_EmptySet
    <3>3. CASE U # {}
      <4>1. PICK t \in U : TRUE
        BY <3>3
      <4>2. U = {t}
        BY <3>1, <4>1
      <4>3. Cardinality({t}) = 1
        BY FS_Singleton
      <4> QED
        BY <4>2, <4>3
    <3> QED
      BY <3>2, <3>3
  <2> QED
    BY <2>1, <2>2 DEF ExchangedTokenIsSpent
<1> QED
  BY SessionsStart, SessionStepKeeps, <1>1, PTL DEF SessionSpec

(* Logout ends a session (RevokeSession): once it answered, no token of the *)
(* session is usable again, if the session's calls did not overlap, no      *)
(* logout broke off and none passed over a token that it failed to read.    *)
THEOREM SessionsEndWithLogout == SessionSpec => []LogoutEndsSession
<1>1. SessionsInv => LogoutEndsSession
  BY DEF SessionsInv, SessionShape, Orderly, Of, LogoutEndsSession
<1> QED
  BY SessionsStart, SessionStepKeeps, <1>1, PTL DEF SessionSpec

-----------------------------------------------------------------------------
(***************************************************************************)
(* Chat streams (GatewayStreams).                                          *)
(*                                                                         *)
(* The forwarder checks a frame against an identity (sequence number and   *)
(* tool calls) of its own. The client sees one run because that identity   *)
(* agrees with what was written to the client as long as the stream goes   *)
(* on (Tracked), and because nothing is written after an end.              *)
(***************************************************************************)

(* The shapes of the records. *)
Received == Frames \cup {ReadError}
Event == {e \in [kind : Kinds, seq : Nat, call : CallIds \cup {"none"}] :
            e.kind \in {"tool_call", "tool_result"} => e.call \in CallIds}
ToolStates == {"unknown", "started", "finished"}
StreamRecord ==
    [phase : {"waiting", "opening", "streaming", "closing", "asking"}, ctx : {"live", "deadline", "canceled"},
     reader : {"none", "reading", "holding", "finished"}, held : Received, channel : Seq(Received),
     received : Nat, sequence : Nat, toolCalls : [CallIds -> ToolStates], out : Seq(Event), lost : BOOLEAN]

(* What a client may have seen. *)
Rising(out) == \A i, j \in 1..Len(out) : i < j => out[i].seq < out[j].seq
EndsOnce(out) == \A i, j \in 1..Len(out) : i < j => ~Terminal(out[i])
CallsOnce(out) == \A i, j \in EventsOf(out, "tool_call") : out[i].call = out[j].call => i = j
ResultsFollowCalls(out) ==
    \A i \in EventsOf(out, "tool_result") :
      /\ \E j \in EventsOf(out, "tool_call") : j <= i /\ out[j].call = out[i].call
      /\ \A j \in EventsOf(out, "tool_result") : out[i].call = out[j].call => i = j
DoneIsComplete(out) ==
    \A i \in EventsOf(out, "done"), j \in EventsOf(out, "tool_call") :
      \E k \in EventsOf(out, "tool_result") : out[k].call = out[j].call
Seen(out) == Rising(out) /\ EndsOnce(out) /\ CallsOnce(out) /\ ResultsFollowCalls(out) /\ DoneIsComplete(out)

(* While a stream goes on, the identity the forwarder checks the frames     *)
(* against agrees with what the client has seen.                            *)
Counted(out, sequence) == \A i \in 1..Len(out) : out[i].seq <= sequence
NotEnded(out) == \A i \in 1..Len(out) : ~Terminal(out[i])
ToolsNoted(out, tools) ==
    \A id \in CallIds :
      /\ tools[id] # "unknown" <=> \E i \in EventsOf(out, "tool_call") : out[i].call = id
      /\ tools[id] = "finished" <=> \E i \in EventsOf(out, "tool_result") : out[i].call = id
Tracked(s) == Counted(s.out, s.sequence) /\ NotEnded(s.out) /\ ToolsNoted(s.out, s.toolCalls)

(* A stream that is left had its end, or the client is gone. *)
Ended(s) == s.phase = "closing" /\ ~s.lost /\ s.ctx # "canceled" => s.out # <<>> /\ Terminal(Last(s.out))

RunInv(s) == Seen(s.out) /\ (s.phase # "closing" => Tracked(s)) /\ Ended(s)
StreamInv ==
    /\ stream \in [Clients -> StreamRecord]
    /\ \A c \in Clients : RunInv(stream[c])

-----------------------------------------------------------------------------
LEMMA FreshStream == Fresh \in StreamRecord /\ RunInv(Fresh)
<1>1. ReadError \in Received
  BY DEF Received
<1>2. [i \in CallIds |-> "unknown"] \in [CallIds -> ToolStates]
  BY DEF ToolStates
<1>3. Fresh \in StreamRecord
  BY <1>1, <1>2 DEF Fresh, StreamRecord
<1>4. Fresh.out = <<>> /\ Fresh.phase = "waiting" /\ Fresh.toolCalls = [i \in CallIds |-> "unknown"]
  BY DEF Fresh
<1>5. \A k : EventsOf(<<>>, k) = {}
  BY DEF EventsOf
<1>6. 1..Len(<<>>) = {}
  OBVIOUS
<1>7. Seen(Fresh.out)
  BY <1>4, <1>5, <1>6 DEF Seen, Rising, EndsOnce, CallsOnce, ResultsFollowCalls, DoneIsComplete
<1>8. Tracked(Fresh)
  BY <1>4, <1>5, <1>6 DEF Tracked, Counted, NotEnded, ToolsNoted
<1> QED
  BY <1>3, <1>4, <1>7, <1>8 DEF RunInv, Ended

(* One more event. *)
LEMMA OneMore ==
    ASSUME NEW out \in Seq(Event), NEW e \in Event
    PROVE  /\ Append(out, e) \in Seq(Event) /\ Len(Append(out, e)) = Len(out) + 1 /\ Len(out) \in Nat
           /\ \A i \in 1..Len(out) : Append(out, e)[i] = out[i]
           /\ Append(out, e)[Len(out) + 1] = e
           /\ \A i : i \in 1..(Len(out) + 1) <=> i \in 1..Len(out) \/ i = Len(out) + 1
           /\ Len(out) + 1 \notin 1..Len(out)
  OBVIOUS

LEMMA MoreEvents ==
    ASSUME NEW out \in Seq(Event), NEW e \in Event, NEW kind
    PROVE  EventsOf(Append(out, e), kind) = EventsOf(out, kind) \cup (IF e.kind = kind THEN {Len(out) + 1} ELSE {})
  BY OneMore DEF EventsOf

LEMMA MoreIsSeen ==
    ASSUME NEW out \in Seq(Event), NEW e \in Event, NEW sequence \in Nat, Seen(out), Counted(out, sequence),
           NotEnded(out), e.seq > sequence,
           e.kind = "tool_call" => \A i \in EventsOf(out, "tool_call") : out[i].call # e.call,
           e.kind = "tool_result" => /\ \E i \in EventsOf(out, "tool_call") : out[i].call = e.call
                                     /\ \A i \in EventsOf(out, "tool_result") : out[i].call # e.call,
           e.kind = "done" => \A j \in EventsOf(out, "tool_call") :
                                \E k \in EventsOf(out, "tool_result") : out[k].call = out[j].call
    PROVE  Seen(Append(out, e))
<1>1. PICK n \in Nat : n = Len(out)
  OBVIOUS
<1>2. PICK more \in Seq(Event) : more = Append(out, e)
  BY OneMore
<1>3. /\ Len(more) = n + 1 /\ (\A i \in 1..n : more[i] = out[i]) /\ more[n + 1] = e
      /\ \A i : i \in 1..(n + 1) <=> i \in 1..n \/ i = n + 1
      /\ n + 1 \notin 1..n
  BY <1>1, <1>2, OneMore
<1>4. \A kind : EventsOf(more, kind) = EventsOf(out, kind) \cup (IF e.kind = kind THEN {n + 1} ELSE {})
  BY <1>1, <1>2, MoreEvents
<1>5. \A kind : EventsOf(out, kind) \subseteq 1..n
  BY <1>1 DEF EventsOf
<1>6. \A kind : \A i \in EventsOf(out, kind) : more[i] = out[i] /\ i \in 1..n
  BY <1>3, <1>5
<1>7. \A i \in 1..n : out[i] \in Event /\ out[i].seq \in Nat /\ out[i].seq <= sequence
  BY <1>1 DEF Event, Counted
<1>8. e.seq \in Nat
  BY DEF Event
<1>9. Rising(more)
  <2> SUFFICES ASSUME NEW i \in 1..(n + 1), NEW j \in 1..(n + 1), i < j PROVE more[i].seq < more[j].seq
    BY <1>3 DEF Rising
  <2>1. i \in 1..n
    OBVIOUS
  <2>2. CASE j \in 1..n
    BY <1>1, <1>3, <2>1, <2>2 DEF Seen, Rising
  <2>3. CASE j = n + 1
    <3>1. more[i].seq = out[i].seq /\ more[j].seq = e.seq
      BY <1>3, <2>1, <2>3
    <3> QED
      BY <1>7, <1>8, <2>1, <3>1
  <2> QED
    BY <1>3, <2>2, <2>3
<1>10. EndsOnce(more)
  <2> SUFFICES ASSUME NEW i \in 1..(n + 1), NEW j \in 1..(n + 1), i < j PROVE ~Terminal(more[i])
    BY <1>3 DEF EndsOnce
  <2>1. i \in 1..n
    OBVIOUS
  <2> QED
    BY <1>1, <1>3, <2>1 DEF NotEnded
<1>11. CallsOnce(more)
  BY <1>3, <1>4, <1>6 DEF Seen, CallsOnce
<1>12. ResultsFollowCalls(more)
  <2>1. ASSUME NEW i \in EventsOf(out, "tool_result")
        PROVE  \E j \in EventsOf(more, "tool_call") : j <= i /\ more[j].call = more[i].call
    BY <1>4, <1>6 DEF Seen, ResultsFollowCalls
  <2>2. ASSUME e.kind = "tool_result"
        PROVE  \E j \in EventsOf(more, "tool_call") : j <= n + 1 /\ more[j].call = more[n + 1].call
    <3>1. PICK j \in EventsOf(out, "tool_call") : out[j].call = e.call
      BY <2>2
    <3>2. j \in EventsOf(more, "tool_call") /\ j \in 1..n /\ more[j] = out[j]
      BY <1>4, <1>6
    <3>3. j <= n + 1
      BY <3>2
    <3> QED
      BY <1>3, <3>1, <3>2, <3>3
  <2>3. \A i, j \in EventsOf(more, "tool_result") : more[i].call = more[j].call => i = j
    BY <1>3, <1>4, <1>6 DEF Seen, ResultsFollowCalls
  <2> QED
    BY <1>4, <2>1, <2>2, <2>3 DEF ResultsFollowCalls
<1>13. DoneIsComplete(more)
  <2>1. EventsOf(out, "done") = {}
    BY <1>1 DEF EventsOf, NotEnded, Terminal
  <2>2. CASE e.kind = "done"
    <3>1. EventsOf(more, "tool_call") = EventsOf(out, "tool_call") /\ EventsOf(more, "tool_result") = EventsOf(out, "tool_result")
      BY <1>4, <2>2
    <3> QED
      BY <1>6, <2>2, <3>1 DEF DoneIsComplete
  <2>3. CASE e.kind # "done"
    BY <1>4, <2>1, <2>3 DEF DoneIsComplete
  <2> QED
    BY <2>2, <2>3
<1> QED
  BY <1>2, <1>9, <1>10, <1>11, <1>12, <1>13 DEF Seen

-----------------------------------------------------------------------------
(* Frames that can be passed on are events. *)
LEMMA FramesAreEvents == ASSUME NEW f \in Frames, f.kind \in Kinds PROVE f \in Event
<1>1. StreamAssumption /\ \A n \in 1..(MaxSequence + 1) : n \in Nat
  BY StreamAssumption
<1>2. ASSUME f \in [kind : {"text", "done", "error"}, seq : 1..(MaxSequence + 1), call : {"none"}] PROVE f \in Event
  BY <1>1, <1>2 DEF Event, Kinds
<1>3. ASSUME f \in [kind : {"tool_call", "tool_result"}, seq : 1..(MaxSequence + 1), call : CallIds] PROVE f \in Event
  BY <1>1, <1>3 DEF Event, Kinds
<1> QED
  BY <1>2, <1>3 DEF Frames, Kinds

(* The stream goes on, or the client is gone: the client sees nothing new. *)
LEMMA NothingNew ==
    ASSUME NEW s, NEW r, RunInv(s), r.out = s.out, r.sequence = s.sequence, r.toolCalls = s.toolCalls,
           r.lost = s.lost, r.phase = "closing" <=> s.phase = "closing", s.ctx # "live" => r.ctx = s.ctx
    PROVE  RunInv(r)
  BY DEF RunInv, Tracked, Ended

LEMMA ClientIsGone ==
    ASSUME NEW s, NEW r, RunInv(s), r.out = s.out, r.phase = "closing", r.lost \/ r.ctx = "canceled"
    PROVE  RunInv(r)
  BY DEF RunInv, Ended

(* sendError *)
LEMMA ErrorEnds ==
    ASSUME NEW s \in StreamRecord, RunInv(s), s.phase = "streaming", NEW t \in ErrorOutcomes(s)
    PROVE  t \in StreamRecord /\ RunInv(t)
<1>1. s.sequence \in Nat /\ s.sequence + 1 \in Nat /\ s.out \in Seq(Event)
  BY DEF StreamRecord
<1>2. PICK n \in Nat : n = s.sequence + 1
  BY <1>1
<1>3. CASE t = [s EXCEPT !.phase = "closing"] /\ s.ctx = "canceled"
  <2>1. t \in StreamRecord /\ t.out = s.out /\ t.phase = "closing" /\ t.ctx = s.ctx
    BY <1>3 DEF StreamRecord
  <2> QED
    BY <1>3, <2>1, ClientIsGone
<1>4. CASE t = [s EXCEPT !.phase = "closing", !.sequence = n, !.lost = TRUE]
  <2>1. t \in StreamRecord /\ t.out = s.out /\ t.phase = "closing" /\ t.lost
    BY <1>4 DEF StreamRecord
  <2> QED
    BY <2>1, ClientIsGone
<1>5. CASE t = [Sent(s, OwnError(s)) EXCEPT !.phase = "closing", !.sequence = @ + 1]
  <2>1. PICK e : e = OwnError(s)
    OBVIOUS
  <2>2. e \in Event /\ e.kind = "error" /\ e.seq = n
    BY <1>2, <2>1 DEF OwnError, Event, Kinds
  <2>3. PICK out \in Seq(Event) : out = Append(s.out, e)
    BY <1>1, <2>2, OneMore
  <2>4. Sent(s, OwnError(s)) = [s EXCEPT !.out = out]
    BY <2>1, <2>2, <2>3 DEF Sent
  <2>5. t = [[s EXCEPT !.out = out] EXCEPT !.phase = "closing", !.sequence = n]
    BY <1>2, <1>5, <2>4 DEF StreamRecord
  <2>6. t \in StreamRecord /\ t.out = out /\ t.phase = "closing"
    BY <2>5 DEF StreamRecord
  <2>7. Counted(s.out, s.sequence) /\ NotEnded(s.out) /\ Seen(s.out)
    BY DEF RunInv, Tracked
  <2>8. Seen(out)
    BY <1>1, <1>2, <2>2, <2>3, <2>7, MoreIsSeen
  <2>9. Last(out) = e /\ out # <<>>
    BY <1>1, <2>2, <2>3, OneMore DEF Last
  <2> QED
    BY <2>2, <2>6, <2>8, <2>9 DEF RunInv, Ended, Terminal
<1>6. s.ctx = "canceled" => t = [s EXCEPT !.phase = "closing"]
  BY DEF ErrorOutcomes
<1>7. s.ctx # "canceled" => \/ t = [Sent(s, OwnError(s)) EXCEPT !.phase = "closing", !.sequence = @ + 1]
                            \/ t = [s EXCEPT !.phase = "closing", !.sequence = @ + 1, !.lost = TRUE]
  BY DEF ErrorOutcomes
<1> QED
  BY <1>2, <1>3, <1>4, <1>5, <1>6, <1>7

(* The identity after an event of the Agent. *)
ToolsAfter(tools, f) ==
    CASE f.kind = "tool_call" -> [tools EXCEPT ![f.call] = "started"]
      [] f.kind = "tool_result" -> [tools EXCEPT ![f.call] = "finished"]
      [] OTHER -> tools

LEMMA ToolsFollow ==
    ASSUME NEW out \in Seq(Event), NEW f \in Event, NEW tools \in [CallIds -> ToolStates], ToolsNoted(out, tools),
           f.kind = "tool_call" => tools[f.call] = "unknown",
           f.kind = "tool_result" => tools[f.call] = "started"
    PROVE  ToolsAfter(tools, f) \in [CallIds -> ToolStates] /\ ToolsNoted(Append(out, f), ToolsAfter(tools, f))
<1>1. PICK n \in Nat : n = Len(out)
  OBVIOUS
<1>2. PICK more \in Seq(Event) : more = Append(out, f)
  BY OneMore
<1>3. PICK after : after = ToolsAfter(tools, f)
  OBVIOUS
<1>4. \A kind : EventsOf(more, kind) = EventsOf(out, kind) \cup (IF f.kind = kind THEN {n + 1} ELSE {})
  BY <1>1, <1>2, MoreEvents
<1>5. more[n + 1] = f /\ \A kind : \A i \in EventsOf(out, kind) : more[i] = out[i]
  BY <1>1, <1>2, OneMore DEF EventsOf
<1>6. CASE f.kind = "tool_call"
  <2>1. f.call \in CallIds /\ after = [tools EXCEPT ![f.call] = "started"]
    BY <1>3, <1>6 DEF Event, ToolsAfter
  <2>2. after \in [CallIds -> ToolStates]
    BY <2>1 DEF ToolStates
  <2>3. after[f.call] = "started" /\ \A id \in CallIds : id # f.call => after[id] = tools[id]
    BY <2>1
  <2>4. EventsOf(more, "tool_call") = EventsOf(out, "tool_call") \cup {n + 1} /\ EventsOf(more, "tool_result") = EventsOf(out, "tool_result")
    BY <1>4, <1>6
  <2>5. ToolsNoted(more, after)
    BY <1>5, <1>6, <2>3, <2>4 DEF ToolsNoted
  <2> QED
    BY <1>2, <1>3, <2>2, <2>5
<1>7. CASE f.kind = "tool_result"
  <2>1. f.call \in CallIds /\ after = [tools EXCEPT ![f.call] = "finished"]
    BY <1>3, <1>7 DEF Event, ToolsAfter
  <2>2. after \in [CallIds -> ToolStates]
    BY <2>1 DEF ToolStates
  <2>3. after[f.call] = "finished" /\ \A id \in CallIds : id # f.call => after[id] = tools[id]
    BY <2>1
  <2>4. EventsOf(more, "tool_result") = EventsOf(out, "tool_result") \cup {n + 1} /\ EventsOf(more, "tool_call") = EventsOf(out, "tool_call")
    BY <1>4, <1>7
  <2>5. ToolsNoted(more, after)
    BY <1>5, <1>7, <2>3, <2>4 DEF ToolsNoted
  <2> QED
    BY <1>2, <1>3, <2>2, <2>5
<1>8. CASE f.kind \notin {"tool_call", "tool_result"}
  <2>1. after = tools
    BY <1>3, <1>8 DEF ToolsAfter
  <2>2. EventsOf(more, "tool_result") = EventsOf(out, "tool_result") /\ EventsOf(more, "tool_call") = EventsOf(out, "tool_call")
    BY <1>4, <1>8
  <2>3. ToolsNoted(more, after)
    BY <1>5, <2>1, <2>2 DEF ToolsNoted
  <2> QED
    BY <1>2, <1>3, <2>1, <2>3
<1> QED
  BY <1>6, <1>7, <1>8

LEMMA ForwardSeen ==
    ASSUME NEW s \in StreamRecord, RunInv(s), s.phase = "streaming", NEW f \in Frames, ValidFrame(s, f),
           NEW r, \/ r = [Sent(Noted(s, f), f) EXCEPT !.phase = IF Terminal(f) THEN "closing" ELSE @]
                  \/ r = [Noted(s, f) EXCEPT !.phase = "closing", !.lost = TRUE]
    PROVE  r \in StreamRecord /\ RunInv(r)
<1>1. CASE f.kind = "heartbeat"
  <2>1. Noted(s, f) = s /\ Sent(s, f) = s /\ ~Terminal(f)
    BY <1>1 DEF Noted, Sent, Terminal
  <2>2. r = [s EXCEPT !.phase = "streaming"] \/ r = [s EXCEPT !.phase = "closing", !.lost = TRUE]
    BY <2>1 DEF StreamRecord
  <2>3. CASE r = [s EXCEPT !.phase = "streaming"]
    <3>1. r = s
      BY <2>3 DEF StreamRecord
    <3> QED
      BY <3>1
  <2>4. CASE r = [s EXCEPT !.phase = "closing", !.lost = TRUE]
    <3>1. r \in StreamRecord /\ r.out = s.out /\ r.phase = "closing" /\ r.lost
      BY <2>4 DEF StreamRecord
    <3> QED
      BY <3>1, ClientIsGone
  <2> QED
    BY <2>2, <2>3, <2>4
<1>2. CASE f.kind # "heartbeat"
  <2>1. f.kind \in Kinds /\ f \in Event /\ f.seq > s.sequence
    BY <1>2, FramesAreEvents DEF ValidFrame, NewEvent
  <2>2. f.seq \in Nat /\ s.sequence \in Nat /\ s.out \in Seq(Event) /\ s.toolCalls \in [CallIds -> ToolStates]
    BY <2>1 DEF Event, StreamRecord
  <2>3. PICK out \in Seq(Event) : out = Append(s.out, f)
    BY <2>1, <2>2, OneMore
  <2>4. /\ f.kind = "tool_call" => s.toolCalls[f.call] = "unknown"
        /\ f.kind = "tool_result" => s.toolCalls[f.call] = "started"
        /\ f.kind = "done" => \A i \in CallIds : s.toolCalls[i] # "started"
    BY <1>2 DEF ValidFrame
  <2>5. Counted(s.out, s.sequence) /\ NotEnded(s.out) /\ Seen(s.out) /\ ToolsNoted(s.out, s.toolCalls)
    BY DEF RunInv, Tracked
  <2>6. PICK tools \in [CallIds -> ToolStates] : tools = ToolsAfter(s.toolCalls, f) /\ ToolsNoted(out, tools)
    BY <2>1, <2>2, <2>3, <2>4, <2>5, ToolsFollow
  <2>7. PICK m : m = [s EXCEPT !.sequence = f.seq, !.toolCalls = tools]
    OBVIOUS
  <2>8. m \in StreamRecord /\ m.out = s.out
    BY <2>2, <2>7 DEF StreamRecord
  <2>9. Noted(s, f) = m
    BY <1>2, <2>6, <2>7 DEF Noted, ToolsAfter, StreamRecord
  <2>10. CASE r = [m EXCEPT !.phase = "closing", !.lost = TRUE]
    <3>1. r \in StreamRecord /\ r.out = s.out /\ r.phase = "closing" /\ r.lost
      BY <2>8, <2>10 DEF StreamRecord
    <3> QED
      BY <3>1, ClientIsGone
  <2>11. CASE r = [Sent(m, f) EXCEPT !.phase = IF Terminal(f) THEN "closing" ELSE @]
    <3>1. Sent(m, f) = [m EXCEPT !.out = out]
      BY <1>2, <2>3, <2>8 DEF Sent, StreamRecord
    <3>2. m.phase = "streaming" /\ m.sequence = f.seq /\ m.toolCalls = tools
      BY <2>7 DEF StreamRecord
    <3>3. PICK phase \in {"streaming", "closing"} : phase = IF Terminal(f) THEN "closing" ELSE "streaming"
      OBVIOUS
    <3>4. r = [[m EXCEPT !.out = out] EXCEPT !.phase = phase]
      BY <2>8, <2>11, <3>1, <3>2, <3>3 DEF StreamRecord
    <3>5. r \in StreamRecord /\ r.out = out /\ r.phase = phase /\ r.sequence = f.seq /\ r.toolCalls = tools
      BY <2>8, <3>2, <3>4 DEF StreamRecord
    <3>6. f.kind = "tool_call" => \A i \in EventsOf(s.out, "tool_call") : s.out[i].call # f.call
      BY <2>1, <2>4, <2>5 DEF ToolsNoted, Event
    <3>7. f.kind = "tool_result" => /\ \E i \in EventsOf(s.out, "tool_call") : s.out[i].call = f.call
                                    /\ \A i \in EventsOf(s.out, "tool_result") : s.out[i].call # f.call
      BY <2>1, <2>4, <2>5 DEF ToolsNoted, Event
    <3>8. ASSUME f.kind = "done", NEW j \in EventsOf(s.out, "tool_call")
          PROVE  \E k \in EventsOf(s.out, "tool_result") : s.out[k].call = s.out[j].call
      <4>1. s.out[j] \in Event /\ s.out[j].kind = "tool_call"
        BY <2>2 DEF EventsOf
      <4>2. s.out[j].call \in CallIds
        BY <4>1 DEF Event
      <4>3. s.toolCalls[s.out[j].call] # "unknown"
        BY <2>5, <4>2 DEF ToolsNoted
      <4>4. s.toolCalls[s.out[j].call] = "finished"
        BY <2>2, <2>4, <3>8, <4>2, <4>3 DEF ToolStates
      <4> QED
        BY <2>5, <4>2, <4>4 DEF ToolsNoted
    <3>9. Seen(out)
      BY <2>1, <2>2, <2>3, <2>5, <3>6, <3>7, <3>8, MoreIsSeen
    <3>10. Counted(out, f.seq)
      <4>1. \A i \in 1..Len(s.out) : s.out[i].seq \in Nat /\ s.out[i].seq <= s.sequence
        BY <2>2, <2>5 DEF Counted, Event
      <4>2. \A i \in 1..Len(s.out) : out[i].seq <= f.seq
        BY <2>1, <2>2, <2>3, <4>1, OneMore
      <4>3. out[Len(s.out) + 1].seq <= f.seq
        BY <2>1, <2>2, <2>3, OneMore
      <4> QED
        BY <2>1, <2>2, <2>3, <4>2, <4>3, OneMore DEF Counted
    <3>11. ~Terminal(f) => NotEnded(out)
      BY <2>1, <2>2, <2>3, <2>5, OneMore DEF NotEnded
    <3>12. Last(out) = f /\ out # <<>>
      BY <2>1, <2>2, <2>3, OneMore DEF Last
    <3>13. r.phase # "closing" => Tracked(r)
      BY <2>6, <3>3, <3>5, <3>10, <3>11 DEF Tracked
    <3>14. Ended(r)
      BY <3>3, <3>5, <3>12 DEF Ended
    <3> QED
      BY <3>5, <3>9, <3>13, <3>14 DEF RunInv
  <2> QED
    BY <2>9, <2>10, <2>11
<1> QED
  BY <1>1, <1>2

-----------------------------------------------------------------------------
(* A step of one client. *)
LEMMA ClientMoves ==
    ASSUME StreamInv, NEW c \in Clients, NEW r \in StreamRecord, RunInv(r), Become(c, r)
    PROVE  StreamInv'
<1>1. stream' = [stream EXCEPT ![c] = r] /\ stream \in [Clients -> StreamRecord]
  BY DEF Become, StreamInv
<1>2. stream' \in [Clients -> StreamRecord] /\ stream'[c] = r /\ \A d \in Clients \ {c} : stream'[d] = stream[d]
  BY <1>1
<1>3. \A d \in Clients : RunInv(stream'[d])
  BY <1>2 DEF StreamInv
<1> QED
  BY <1>2, <1>3 DEF StreamInv, RunInv, Seen, Rising, EndsOnce, CallsOnce, ResultsFollowCalls, DoneIsComplete,
                    Tracked, Counted, NotEnded, ToolsNoted, Ended

LEMMA OutsideKeeps ==
    ASSUME StreamInv, NEW c \in Clients,
           Acquire(c) \/ OpenFails(c) \/ Open(c) \/ ContextEnds(c) \/ Ask(c) \/ Answered(c) \/ Leave(c)
    PROVE  StreamInv'
<1>1. PICK s \in StreamRecord : s = stream[c] /\ RunInv(s)
  BY DEF StreamInv
<1>2. ASSUME Become(c, Fresh) PROVE StreamInv'
  BY <1>2, FreshStream, ClientMoves
<1>3. ASSUME NEW phase \in {"opening", "asking"}, s.phase = "waiting", Become(c, [s EXCEPT !.phase = phase])
      PROVE  StreamInv'
  <2>1. PICK r : r = [s EXCEPT !.phase = phase]
    OBVIOUS
  <2>2. /\ r \in StreamRecord /\ r.out = s.out /\ r.sequence = s.sequence /\ r.toolCalls = s.toolCalls
        /\ r.ctx = s.ctx /\ r.lost = s.lost /\ r.phase = phase
    BY <2>1 DEF StreamRecord
  <2>3. RunInv(r)
    BY <1>1, <1>3, <2>2, NothingNew
  <2> QED
    BY <1>3, <2>1, <2>2, <2>3, ClientMoves
<1>4. ASSUME Open(c) PROVE StreamInv'
  <2>1. PICK r : r = [s EXCEPT !.phase = "streaming", !.reader = "reading"]
    OBVIOUS
  <2>2. /\ r \in StreamRecord /\ r.out = s.out /\ r.sequence = s.sequence /\ r.toolCalls = s.toolCalls
        /\ r.ctx = s.ctx /\ r.lost = s.lost /\ r.phase = "streaming"
    BY <2>1 DEF StreamRecord
  <2>3. s.phase = "opening" /\ Become(c, r)
    BY <1>1, <1>4, <2>1 DEF Open, In
  <2>4. RunInv(r)
    BY <1>1, <2>2, <2>3, NothingNew
  <2> QED
    BY <2>2, <2>3, <2>4, ClientMoves
<1>5. ASSUME ContextEnds(c) PROVE StreamInv'
  <2>1. PICK end \in {"deadline", "canceled"} : Become(c, [s EXCEPT !.ctx = end])
    BY <1>1, <1>5 DEF ContextEnds
  <2>2. s.ctx = "live"
    BY <1>1, <1>5 DEF ContextEnds
  <2>3. PICK r : r = [s EXCEPT !.ctx = end]
    OBVIOUS
  <2>4. /\ r \in StreamRecord /\ r.out = s.out /\ r.sequence = s.sequence /\ r.toolCalls = s.toolCalls
        /\ r.lost = s.lost /\ r.phase = s.phase
    BY <2>3 DEF StreamRecord
  <2>5. RunInv(r)
    BY <1>1, <2>2, <2>4, NothingNew
  <2> QED
    BY <2>1, <2>3, <2>4, <2>5, ClientMoves
<1>6. CASE Acquire(c) \/ Ask(c)
  <2>1. s.phase = "waiting" /\ \E phase \in {"opening", "asking"} : Become(c, [s EXCEPT !.phase = phase])
    BY <1>1, <1>6 DEF Acquire, Ask, In
  <2> QED
    BY <1>3, <2>1
<1>7. CASE OpenFails(c) \/ Answered(c) \/ Leave(c)
  BY <1>2, <1>7 DEF OpenFails, Answered, Leave
<1> QED
  BY <1>4, <1>5, <1>6, <1>7

LEMMA ReaderKeeps == ASSUME StreamInv, NEW c \in Clients, ReaderStep(c) PROVE StreamInv'
<1>1. PICK s \in StreamRecord : s = stream[c] /\ RunInv(s)
  BY DEF StreamInv
<1>2. ASSUME NEW r \in StreamRecord, r.out = s.out, r.sequence = s.sequence, r.toolCalls = s.toolCalls,
             r.lost = s.lost, r.phase = s.phase, r.ctx = s.ctx, Become(c, r)
      PROVE  StreamInv'
  <2>1. RunInv(r)
    BY <1>1, <1>2, NothingNew
  <2> QED
    BY <1>2, <2>1, ClientMoves
<1>3. ASSUME NEW f \in Received, NEW n \in Nat, Become(c, [s EXCEPT !.reader = "holding", !.held = f, !.received = n])
      PROVE  StreamInv'
  <2>1. PICK r : r = [s EXCEPT !.reader = "holding", !.held = f, !.received = n]
    OBVIOUS
  <2>2. /\ r \in StreamRecord /\ r.out = s.out /\ r.sequence = s.sequence /\ r.toolCalls = s.toolCalls
        /\ r.lost = s.lost /\ r.phase = s.phase /\ r.ctx = s.ctx
    BY <2>1 DEF StreamRecord
  <2> QED
    BY <1>2, <1>3, <2>1, <2>2
<1>4. ASSUME ReadFrame(c) PROVE StreamInv'
  <2>1. s.received \in Nat /\ s.received + 1 \in Nat /\ ReadError \in Received
    BY DEF StreamRecord, Received
  <2>2. ASSUME NEW f \in Frames, Become(c, [s EXCEPT !.reader = "holding", !.held = f, !.received = @ + 1])
        PROVE  StreamInv'
    <3>1. [s EXCEPT !.reader = "holding", !.held = f, !.received = @ + 1]
            = [s EXCEPT !.reader = "holding", !.held = f, !.received = s.received + 1]
      BY DEF StreamRecord
    <3>2. f \in Received
      BY DEF Received
    <3> QED
      BY <1>3, <2>1, <2>2, <3>1, <3>2
  <2>3. ASSUME Become(c, [s EXCEPT !.reader = "holding", !.held = ReadError]) PROVE StreamInv'
    <3>1. [s EXCEPT !.reader = "holding", !.held = ReadError]
            = [s EXCEPT !.reader = "holding", !.held = ReadError, !.received = s.received]
      BY DEF StreamRecord
    <3> QED
      BY <1>3, <2>1, <2>3, <3>1
  <2> QED
    BY <1>1, <1>4, <2>2, <2>3 DEF ReadFrame
<1>5. ASSUME Offer(c) PROVE StreamInv'
  <2>1. PICK reader \in {"finished", "reading"} : reader = IF s.held = ReadError THEN "finished" ELSE "reading"
    OBVIOUS
  <2>2. s.held \in Received /\ ReadError \in Received
    BY DEF StreamRecord, Received
  <2>3. PICK channel \in Seq(Received) : channel = <<s.held>>
    <3>1. PICK h \in Received : h = s.held
      BY <2>2
    <3>2. <<h>> \in Seq(Received)
      OBVIOUS
    <3> QED
      BY <3>1, <3>2
  <2>4. PICK r : r = [s EXCEPT !.channel = channel, !.held = ReadError, !.reader = reader]
    OBVIOUS
  <2>5. /\ r \in StreamRecord /\ r.out = s.out /\ r.sequence = s.sequence /\ r.toolCalls = s.toolCalls
        /\ r.lost = s.lost /\ r.phase = s.phase /\ r.ctx = s.ctx
    BY <2>2, <2>4 DEF StreamRecord
  <2>6. Become(c, r)
    BY <1>1, <1>5, <2>1, <2>3, <2>4 DEF Offer
  <2> QED
    BY <1>2, <2>5, <2>6
<1>6. ASSUME ReaderStops(c) PROVE StreamInv'
  <2>1. PICK r : r = [s EXCEPT !.reader = "finished"]
    OBVIOUS
  <2>2. /\ r \in StreamRecord /\ r.out = s.out /\ r.sequence = s.sequence /\ r.toolCalls = s.toolCalls
        /\ r.lost = s.lost /\ r.phase = s.phase /\ r.ctx = s.ctx
    BY <2>1 DEF StreamRecord
  <2>3. Become(c, r)
    BY <1>1, <1>6, <2>1 DEF ReaderStops
  <2> QED
    BY <1>2, <2>2, <2>3
<1> QED
  BY <1>4, <1>5, <1>6 DEF ReaderStep

LEMMA TimesOutKeeps == ASSUME StreamInv, NEW c \in Clients, TimesOut(c) PROVE StreamInv'
<1>1. PICK s \in StreamRecord : s = stream[c] /\ RunInv(s)
  BY DEF StreamInv
<1>2. s.phase = "streaming" /\ \E t \in ErrorOutcomes(s) : Become(c, t)
  BY <1>1 DEF TimesOut, In
<1> QED
  BY <1>1, <1>2, ErrorEnds, ClientMoves

LEMMA ForwardKeeps == ASSUME StreamInv, NEW c \in Clients, Forward(c) PROVE StreamInv'
<1>1. PICK p \in StreamRecord : p = stream[c] /\ RunInv(p)
  BY DEF StreamInv
<1>2. PICK s : s = [p EXCEPT !.channel = <<>>]
  OBVIOUS
<1> <<>> \in Seq(Received)
  OBVIOUS
<1>3. /\ s \in StreamRecord /\ s.out = p.out /\ s.sequence = p.sequence /\ s.toolCalls = p.toolCalls
      /\ s.lost = p.lost /\ s.phase = p.phase /\ s.ctx = p.ctx
  BY <1>2 DEF StreamRecord
<1>4. RunInv(s)
  BY <1>1, <1>3, NothingNew
<1>5. s.phase = "streaming" /\ p.channel # <<>>
  BY <1>1, <1>3 DEF Forward, In
<1>6. PICK f \in Received : f = Head(p.channel)
  BY <1>5 DEF StreamRecord
<1>7. CASE f # ReadError /\ ValidFrame(s, f)
  <2>1. f \in Frames
    BY <1>7 DEF Received
  <2>2. \/ Become(c, [Sent(Noted(s, f), f) EXCEPT !.phase = IF Terminal(f) THEN "closing" ELSE @])
        \/ Become(c, [Noted(s, f) EXCEPT !.phase = "closing", !.lost = TRUE])
    BY <1>1, <1>2, <1>6, <1>7 DEF Forward
  <2> QED
    BY <1>3, <1>4, <1>5, <1>7, <2>1, <2>2, ForwardSeen, ClientMoves
<1>8. CASE ~(f # ReadError /\ ValidFrame(s, f))
  <2>1. \E t \in ErrorOutcomes(s) : Become(c, t)
    BY <1>1, <1>2, <1>6, <1>8 DEF Forward
  <2> QED
    BY <1>3, <1>4, <1>5, <2>1, ErrorEnds, ClientMoves
<1> QED
  BY <1>7, <1>8

LEMMA StreamStart == StreamInit => StreamInv
  BY FreshStream DEF StreamInit, StreamInv

LEMMA StreamSteps == ASSUME StreamInv, [StreamNext]_streamVars PROVE StreamInv'
<1>1. ASSUME NEW c \in Clients, StreamStep(c) PROVE StreamInv'
  BY <1>1, OutsideKeeps, ReaderKeeps, TimesOutKeeps, ForwardKeeps DEF StreamStep
<1>2. ASSUME UNCHANGED streamVars PROVE StreamInv'
  BY <1>2 DEF streamVars, StreamInv, RunInv, Seen, Rising, EndsOnce, CallsOnce, ResultsFollowCalls, DoneIsComplete,
              Tracked, Counted, NotEnded, ToolsNoted, Ended
<1> QED
  BY <1>1, <1>2 DEF StreamNext

(* What the client has seen is one well-formed run. *)
LEMMA SeenIsOneRun == ASSUME StreamInv PROVE ClientSeesOneRun
<1> SUFFICES ASSUME NEW c \in Clients, NEW out, out = stream[c].out
             PROVE  /\ \A i, j \in 1..Len(out) : i < j => out[i].seq < out[j].seq /\ ~Terminal(out[i])
                    /\ \A i \in EventsOf(out, "tool_result") :
                         Cardinality({j \in 1..i : out[j].call = out[i].call /\ out[j].kind = "tool_call"}) = 1
                         /\ \A j \in EventsOf(out, "tool_result") : out[i].call = out[j].call => i = j
                    /\ \A i \in EventsOf(out, "done"), j \in EventsOf(out, "tool_call") :
                         \E k \in EventsOf(out, "tool_result") : out[k].call = out[j].call
                    /\ In(c, "closing") /\ ~stream[c].lost /\ stream[c].ctx # "canceled"
                         => out # <<>> /\ Terminal(Last(out))
  BY DEF ClientSeesOneRun
<1>1. Seen(out) /\ Ended(stream[c]) /\ out \in Seq(Event)
  BY DEF StreamInv, RunInv, StreamRecord
<1>2. ASSUME NEW i \in EventsOf(out, "tool_result")
      PROVE  Cardinality({j \in 1..i : out[j].call = out[i].call /\ out[j].kind = "tool_call"}) = 1
  <2>1. PICK k \in EventsOf(out, "tool_call") : k <= i /\ out[k].call = out[i].call
    BY <1>1 DEF Seen, ResultsFollowCalls
  <2>2. Len(out) \in Nat /\ i \in 1..Len(out) /\ k \in 1..Len(out) /\ out[k].kind = "tool_call"
    BY <1>1 DEF EventsOf
  <2>3. k \in 1..i /\ \A j \in 1..i : j \in 1..Len(out)
    BY <2>1, <2>2
  <2>4. ASSUME NEW j \in 1..i, out[j].call = out[i].call, out[j].kind = "tool_call" PROVE j = k
    <3>1. j \in EventsOf(out, "tool_call")
      BY <2>3, <2>4 DEF EventsOf
    <3> QED
      BY <1>1, <2>1, <2>4, <3>1 DEF Seen, CallsOnce
  <2>5. {j \in 1..i : out[j].call = out[i].call /\ out[j].kind = "tool_call"} = {k}
    BY <2>1, <2>2, <2>3, <2>4
  <2>6. Cardinality({k}) = 1
    BY FS_Singleton
  <2> QED
    BY <2>5, <2>6
<1> QED
  BY <1>1, <1>2 DEF Seen, Rising, EndsOnce, ResultsFollowCalls, DoneIsComplete, Ended, In

(* Whatever the Agent sends, for any number of clients, tool calls and      *)
(* frames and whenever a deadline strikes: the forwarder gives every client *)
(* one well-formed run, and ends it unless the client is gone.              *)
THEOREM ClientsSeeOneRun == StreamSpec => []ClientSeesOneRun
<1>1. StreamInv => ClientSeesOneRun
  BY SeenIsOneRun
<1>2. StreamInv /\ [StreamNext]_streamVars => StreamInv'
  BY StreamSteps
<1> QED
  BY <1>1, <1>2, StreamStart, PTL DEF StreamSpec

-----------------------------------------------------------------------------
(* The slots are those of the requests under way, and the reader of a       *)
(* stream that is being left has finished, reads a body that is closed, or  *)
(* holds a frame and is told to stop: ReadFrame or ReaderStops can go on.   *)
ReaderGoesOn(c) ==
    \/ stream[c].reader \in {"reading", "finished"}
    \/ stream[c].reader = "holding" /\ StopRequested(c)
SlotsAccounted ==
    /\ \A c \in Clients : In(c, "closing") => ReaderGoesOn(c)
    /\ slots = {c \in Clients : ~In(c, "waiting")}
    /\ Cardinality(slots) <= MaxConcurrent

SlotsInv ==
    /\ slots = {c \in Clients : stream[c].phase # "waiting"}
    /\ IsFiniteSet(slots) /\ Cardinality(slots) <= MaxConcurrent
    /\ \A c \in Clients : stream[c].phase \in {"streaming", "closing"} => stream[c].reader # "none"

LEMMA SlotTaken ==
    ASSUME StreamInv, SlotsInv, NEW c \in Clients, Cardinality(slots) < MaxConcurrent,
           slots' = slots \cup {c}, NEW r \in StreamRecord, r.phase \in {"opening", "asking"}, Become(c, r)
    PROVE  SlotsInv'
<1>1. stream'[c] = r /\ \A d \in Clients \ {c} : stream'[d] = stream[d]
  BY DEF Become, StreamInv
<1>2. slots' = {d \in Clients : stream'[d].phase # "waiting"}
  BY <1>1 DEF SlotsInv
<1>3. IsFiniteSet(slots') /\ Cardinality(slots') \in Nat /\ Cardinality(slots) \in Nat
  BY FS_AddElement, FS_CardinalityType DEF SlotsInv
<1>4. Cardinality(slots') <= Cardinality(slots) + 1
  BY <1>3, FS_AddElement DEF SlotsInv
<1>5. MaxConcurrent \in Nat
  BY StreamAssumption
<1>6. Cardinality(slots') <= MaxConcurrent
  BY <1>3, <1>4, <1>5
<1>7. \A d \in Clients : stream'[d].phase \in {"streaming", "closing"} => stream'[d].reader # "none"
  BY <1>1 DEF SlotsInv
<1> QED
  BY <1>2, <1>3, <1>6, <1>7 DEF SlotsInv

LEMMA SlotReturned ==
    ASSUME StreamInv, SlotsInv, NEW c \in Clients, slots' = slots \ {c}, Become(c, Fresh)
    PROVE  SlotsInv'
<1>1. stream'[c] = Fresh /\ Fresh.phase = "waiting" /\ \A d \in Clients \ {c} : stream'[d] = stream[d]
  BY DEF Become, StreamInv, Fresh
<1>2. slots' = {d \in Clients : stream'[d].phase # "waiting"}
  BY <1>1 DEF SlotsInv
<1>3. slots' \subseteq slots /\ IsFiniteSet(slots) /\ Cardinality(slots) <= MaxConcurrent /\ MaxConcurrent \in Nat
  BY StreamAssumption DEF SlotsInv
<1>4. IsFiniteSet(slots') /\ Cardinality(slots') <= Cardinality(slots)
  BY <1>3, FS_Subset
<1>5. Cardinality(slots') \in Nat /\ Cardinality(slots) \in Nat
  BY <1>3, <1>4, FS_CardinalityType
<1>6. Cardinality(slots') <= MaxConcurrent
  BY <1>3, <1>4, <1>5
<1>7. \A d \in Clients : stream'[d].phase \in {"streaming", "closing"} => stream'[d].reader # "none"
  BY <1>1 DEF SlotsInv
<1> QED
  BY <1>2, <1>4, <1>6, <1>7 DEF SlotsInv

LEMMA SlotKept ==
    ASSUME StreamInv, SlotsInv, NEW c \in Clients, UNCHANGED slots, NEW r, stream[c].phase # "waiting", r.phase # "waiting",
           r.phase \in {"streaming", "closing"} => r.reader # "none", Become(c, r)
    PROVE  SlotsInv'
<1>1. stream'[c] = r /\ \A d \in Clients \ {c} : stream'[d] = stream[d]
  BY DEF Become, StreamInv
<1> QED
  BY <1>1 DEF SlotsInv

(* sendError leaves the reader to the deferred calls. *)
LEMMA ErrorCloses ==
    ASSUME NEW s \in StreamRecord, NEW t \in ErrorOutcomes(s)
    PROVE  t.phase = "closing" /\ t.reader = s.reader
  BY DEF ErrorOutcomes, StreamRecord, Sent

Passed(s, f) == [Sent(Noted(s, f), f) EXCEPT !.phase = IF Terminal(f) THEN "closing" ELSE @]
Dropped(s, f) == [Noted(s, f) EXCEPT !.phase = "closing", !.lost = TRUE]
WithReader(s, r) == r.phase \in {"streaming", "closing"} /\ r.reader = s.reader

LEMMA ForwardPhases ==
    ASSUME NEW s \in StreamRecord, s.phase = "streaming", NEW f
    PROVE  WithReader(s, Passed(s, f)) /\ WithReader(s, Dropped(s, f))
<1>1. PICK tools : tools = CASE f.kind = "tool_call" -> [s.toolCalls EXCEPT ![f.call] = "started"]
                             [] f.kind = "tool_result" -> [s.toolCalls EXCEPT ![f.call] = "finished"]
                             [] OTHER -> s.toolCalls
  OBVIOUS
<1>2. Noted(s, f) = s \/ Noted(s, f) = [s EXCEPT !.sequence = f.seq, !.toolCalls = tools]
  BY <1>1 DEF Noted, StreamRecord
<1>3. PICK m : m = Noted(s, f) /\ m.phase = "streaming" /\ m.reader = s.reader /\ DOMAIN m = DOMAIN s
  BY <1>2 DEF StreamRecord
<1>4. Sent(m, f) = m \/ Sent(m, f) = [m EXCEPT !.out = Append(m.out, f)]
  BY <1>3 DEF Sent, StreamRecord
<1>5. PICK r : r = Sent(m, f) /\ r.phase = "streaming" /\ r.reader = s.reader /\ DOMAIN r = DOMAIN s
  BY <1>3, <1>4 DEF StreamRecord
<1> QED
  BY <1>3, <1>5 DEF StreamRecord, Passed, Dropped, WithReader

LEMMA SlotsStep == ASSUME StreamInv, SlotsInv, [StreamNext]_streamVars PROVE SlotsInv'
<1>1. ASSUME NEW c \in Clients, StreamStep(c) PROVE SlotsInv'
  <2>1. PICK s \in StreamRecord : s = stream[c]
    BY DEF StreamInv
  <2>2. CASE Acquire(c) \/ Ask(c)
    <3>1. PICK phase \in {"opening", "asking"} : Become(c, [s EXCEPT !.phase = phase])
      BY <2>1, <2>2 DEF Acquire, Ask
    <3>2. [s EXCEPT !.phase = phase] \in StreamRecord /\ [s EXCEPT !.phase = phase].phase = phase
      BY DEF StreamRecord
    <3>3. Cardinality(slots) < MaxConcurrent /\ slots' = slots \cup {c}
      BY <2>2 DEF Acquire, Ask
    <3> QED
      BY <3>1, <3>2, <3>3, SlotTaken
  <2>3. CASE OpenFails(c) \/ Answered(c) \/ Leave(c)
    BY <2>3, SlotReturned DEF OpenFails, Answered, Leave
  <2>4. CASE Open(c)
    <3>1. PICK r : r = [s EXCEPT !.phase = "streaming", !.reader = "reading"]
      OBVIOUS
    <3>2. r.phase = "streaming" /\ r.reader = "reading" /\ Become(c, r) /\ s.phase = "opening" /\ UNCHANGED slots
      BY <2>1, <2>4, <3>1 DEF Open, In, StreamRecord
    <3> QED
      BY <2>1, <3>2, SlotKept
  <2>5. CASE ContextEnds(c)
    <3>1. PICK end \in {"deadline", "canceled"} : Become(c, [s EXCEPT !.ctx = end])
      BY <2>1, <2>5 DEF ContextEnds
    <3>2. PICK r : r = [s EXCEPT !.ctx = end]
      OBVIOUS
    <3>3. r.phase = s.phase /\ r.reader = s.reader /\ s.phase # "waiting" /\ UNCHANGED slots
      BY <2>1, <2>5, <3>2 DEF ContextEnds, StreamRecord
    <3> QED
      BY <2>1, <3>1, <3>2, <3>3, SlotKept DEF SlotsInv
  <2>6. CASE ReaderStep(c)
    <3>1. PICK r : Become(c, r) /\ r.phase = s.phase /\ r.reader # "none"
      <4>1. ASSUME NEW f, NEW n PROVE /\ [s EXCEPT !.reader = "holding", !.held = f, !.received = n].phase = s.phase
                                      /\ [s EXCEPT !.reader = "holding", !.held = f, !.received = n].reader = "holding"
        BY DEF StreamRecord
      <4>2. /\ [s EXCEPT !.reader = "holding", !.held = ReadError].phase = s.phase
            /\ [s EXCEPT !.reader = "holding", !.held = ReadError].reader = "holding"
            /\ [s EXCEPT !.reader = "finished"].phase = s.phase /\ [s EXCEPT !.reader = "finished"].reader = "finished"
        BY DEF StreamRecord
      <4>3. ASSUME NEW q, NEW reader \in {"finished", "reading"}
            PROVE  /\ [s EXCEPT !.channel = q, !.held = ReadError, !.reader = reader].phase = s.phase
                   /\ [s EXCEPT !.channel = q, !.held = ReadError, !.reader = reader].reader = reader
        BY DEF StreamRecord
      <4>4. CASE ReadFrame(c)
        <5>1. \/ \E f \in Frames : Become(c, [s EXCEPT !.reader = "holding", !.held = f, !.received = s.received + 1])
              \/ Become(c, [s EXCEPT !.reader = "holding", !.held = ReadError])
          BY <2>1, <4>4 DEF ReadFrame
        <5> QED
          BY <4>1, <4>2, <5>1
      <4>5. CASE Offer(c)
        <5>1. PICK reader \in {"finished", "reading"} : reader = IF s.held = ReadError THEN "finished" ELSE "reading"
          OBVIOUS
        <5>2. Become(c, [s EXCEPT !.channel = <<s.held>>, !.held = ReadError, !.reader = reader])
          BY <2>1, <4>5, <5>1 DEF Offer
        <5> QED
          BY <4>3, <5>2
      <4>6. CASE ReaderStops(c)
        BY <2>1, <4>2, <4>6 DEF ReaderStops
      <4> QED
        BY <2>6, <4>4, <4>5, <4>6 DEF ReaderStep
    <3>2. UNCHANGED slots
      BY <2>6 DEF ReaderStep, ReadFrame, Offer, ReaderStops
    <3>3. CASE s.phase # "waiting"
      BY <2>1, <3>1, <3>2, <3>3, SlotKept
    <3>4. CASE s.phase = "waiting"
      <4>1. stream'[c] = r /\ \A d \in Clients \ {c} : stream'[d] = stream[d]
        BY <3>1 DEF Become, StreamInv
      <4> QED
        BY <2>1, <3>1, <3>2, <3>4, <4>1 DEF SlotsInv
    <3> QED
      BY <3>3, <3>4
  <2>7. CASE TimesOut(c)
    <3>1. PICK t \in ErrorOutcomes(s) : Become(c, t)
      BY <2>1, <2>7 DEF TimesOut
    <3>2. s.phase = "streaming" /\ UNCHANGED slots /\ s.reader # "none"
      BY <2>1, <2>7 DEF TimesOut, In, SlotsInv
    <3> QED
      BY <2>1, <3>1, <3>2, ErrorCloses, SlotKept
  <2>8. CASE Forward(c)
    <3>1. PICK q : q = [s EXCEPT !.channel = <<>>]
      OBVIOUS
    <3> <<>> \in Seq(Received)
      OBVIOUS
    <3>2. q \in StreamRecord /\ q.phase = s.phase /\ q.reader = s.reader
      BY <3>1 DEF StreamRecord
    <3>3. s.phase = "streaming" /\ UNCHANGED slots /\ s.reader # "none"
      BY <2>1, <2>8 DEF Forward, In, SlotsInv
    <3>4. PICK f : f = Head(s.channel)
      OBVIOUS
    <3>5. Become(c, Passed(q, f)) \/ Become(c, Dropped(q, f)) \/ \E t \in ErrorOutcomes(q) : Become(c, t)
      BY <2>1, <2>8, <3>1, <3>4 DEF Forward, Passed, Dropped
    <3>6. \E r : Become(c, r) /\ r.phase \in {"streaming", "closing"} /\ r.reader = s.reader
      <4>1. WithReader(q, Passed(q, f)) /\ WithReader(q, Dropped(q, f))
        BY <3>2, <3>3, ForwardPhases
      <4>2. ASSUME NEW t \in ErrorOutcomes(q) PROVE WithReader(q, t)
        BY <3>2, ErrorCloses DEF WithReader
      <4> QED
        BY <3>2, <3>5, <4>1, <4>2 DEF WithReader
    <3> QED
      BY <2>1, <3>3, <3>6, SlotKept
  <2> QED
    BY <1>1, <2>2, <2>3, <2>4, <2>5, <2>6, <2>7, <2>8 DEF StreamStep
<1>2. ASSUME UNCHANGED streamVars PROVE SlotsInv'
  BY <1>2 DEF streamVars, SlotsInv
<1> QED
  BY <1>1, <1>2 DEF StreamNext

(* For any number of clients: never more requests are with the Agent than   *)
(* there are slots, exactly the requests under way hold one, and the reader *)
(* a leaving handler waits for is never stuck on the full channel (the part *)
(* of SlotsComeBack that can be said without ENABLED).                      *)
THEOREM SlotsAreAccounted == StreamSpec => []SlotsAccounted
<1>1. StreamInit => SlotsInv
  <2> SUFFICES ASSUME StreamInit PROVE SlotsInv
    OBVIOUS
  <2>1. slots = {} /\ \A c \in Clients : stream[c].phase = "waiting"
    BY DEF StreamInit, Fresh
  <2>2. IsFiniteSet({}) /\ Cardinality({}) = 0
    BY FS_EmptySet
  <2>3. 0 <= MaxConcurrent
    BY StreamAssumption
  <2> QED
    BY <2>1, <2>2, <2>3 DEF SlotsInv
<1>2. StreamInv /\ SlotsInv /\ [StreamNext]_streamVars => StreamInv' /\ SlotsInv'
  BY StreamSteps, SlotsStep
<1>3. StreamInv /\ SlotsInv => SlotsAccounted
  <2> SUFFICES ASSUME StreamInv, SlotsInv PROVE SlotsAccounted
    OBVIOUS
  <2>1. ASSUME NEW c \in Clients, In(c, "closing") PROVE ReaderGoesOn(c)
    BY <2>1 DEF In, SlotsInv, StreamInv, StreamRecord, ReaderGoesOn, StopRequested, Broken
  <2> QED
    BY <2>1 DEF SlotsAccounted, SlotsInv, In
<1> QED
  BY <1>1, <1>2, <1>3, StreamStart, PTL DEF StreamSpec

-----------------------------------------------------------------------------
(***************************************************************************)
(* The path of a request (RequestPath), for every set of requests, every   *)
(* skew of the clocks and all lifetimes and timeouts of PathAssumption.    *)
(*                                                                         *)
(* The calls a request can lead to are few (LeadsTo).  That they say what  *)
(* the request says (EveryCallSaysTheSame) and that no service refuses one *)
(* whose request passed the gateway's copy of the rules (CallsAreServed)   *)
(* are facts about messages alone; the invariant adds what the steps have  *)
(* established so far.                                                     *)
(***************************************************************************)

(* The user a request acts for: nobody on open routes. *)
ActorOf(r) ==
    IF Route[r.op].open THEN Nobody ELSE [user_id |-> r.bearer.subject, roles |-> r.bearer.roles]

(* The calls a request can lead to, at the gateway and behind it. *)
LeadsTo(r, c) ==
    \/ c = GatewayCall(r.op, Bound(r), ActorOf(r))
    \/ r.op = "CreateSubmission" /\ c = ProfileCall(Bound(r).problem_id)
    \/ r.op = "RejudgeSubmission" /\ \E i \in ProblemIds : c = ProfileCall(i)
    \/ r.op = "GetContest" /\ \E l \in StoredContests : c = TitlesCall(l.problems)
    \/ r.op = "CreateContestSubmission" /\ (c = ContestEntryCall(Bound(r)) \/ c = ProfileCall(Bound(r).problem_id))

(* A message with what the request says, as ServedAsRequested states it. *)
SaysTheSame(r, m) ==
    /\ "context" \in DOMAIN m => m.context = ActorOf(r)
    /\ "user_id" \in DOMAIN m /\ r.op = "GetUser" => m.user_id = r.vars.id
    /\ \A f \in DOMAIN m \cap DOMAIN r.vars : m[f] = r.vars[f]
    /\ \A f \in (DOMAIN m \cap DOMAIN r.body) \ (DOMAIN r.vars \cup {"page"}) : m[f] = r.body[f]

(* The operations of the gateway. *)
LEMMA RouteOps ==
    DOMAIN Route = {"Register", "Login", "RefreshToken", "Logout", "GetCurrentUser", "GetUser",
      "CreateProblem", "GetProblem", "ListProblems", "UpdateProblem", "ArchiveProblem", "AddTestcase",
      "UploadTestcase", "ListProblemTestcases", "ArchiveTestcase", "ListContests", "GetContest",
      "CreateContest", "UpdateContest", "ArchiveContest", "GetContestLeaderboard", "JoinContest",
      "CreateContestSubmission", "CreateSubmission", "GetSubmission", "GetSubmissionSource",
      "GetJudgeResult", "ListSubmissions", "RejudgeSubmission"}
  BY DEF Route

(* Operations whose message goes to the service as it is. *)
Forwarded == {"Register", "Login", "RefreshToken", "Logout",
      "CreateProblem", "GetProblem", "ListProblems", "UpdateProblem", "ArchiveProblem", "AddTestcase",
      "UploadTestcase", "ListProblemTestcases", "ArchiveTestcase", "GetContest",
      "CreateContest", "UpdateContest", "ArchiveContest", "JoinContest",
      "CreateContestSubmission", "GetSubmission", "GetSubmissionSource",
      "GetJudgeResult", "ListSubmissions", "RejudgeSubmission"}

LEMMA ForwardedCalls ==
    ASSUME NEW op \in Forwarded, NEW m, NEW ctx
    PROVE  GatewayCall(op, m, ctx).m = m
  BY DEF Forwarded, GatewayCall, Rpc, RegisterCall, LoginCall, RefreshTokenCall, LogoutCall, CreateProblemCall, GetProblemCall, ListProblemsCall, UpdateProblemCall, ArchiveProblemCall, AddTestcaseCall, ListProblemTestcasesCall, ArchiveTestcaseCall, GetContestCall, CreateContestCall, UpdateContestCall, ArchiveContestCall, JoinContestCall, CreateContestSubmissionCall, GetSubmissionCall, GetSubmissionSourceCall, GetJudgeResultCall, ListSubmissionsCall, RejudgeSubmissionCall

(* Path variables are bound last (BindVars). *)
LEMMA BoundFields ==
    ASSUME NEW r \in Requests
    PROVE  /\ DOMAIN Bound(r) = Fields[r.op]
           /\ \A f \in Route[r.op].vars : f \in Fields[r.op] /\ Bound(r)[f] = r.vars[f]
           /\ \A f \in Fields[r.op] \ Route[r.op].vars : Bound(r)[f] = r.body[f]
<1>1. r.op \in DOMAIN Route /\ DOMAIN r.body = Fields[r.op] /\ DOMAIN r.vars = Route[r.op].vars
  BY RequestAssumption
<1>2. \A op \in DOMAIN Route : Route[op].vars \subseteq Fields[op]
  BY RouteOps
  DEF Route, Fields, TestcaseFields, EntryFields, Public, Secured, RegisterRoute, LoginRoute,
      RefreshTokenRoute, LogoutRoute, GetCurrentUserRoute, GetUserRoute, CreateProblemRoute,
      GetProblemRoute, ListProblemsRoute, UpdateProblemRoute, ArchiveProblemRoute,
      AddTestcaseRoute, UploadTestcaseRoute, ListProblemTestcasesRoute, ArchiveTestcaseRoute,
      ListContestsRoute, GetContestRoute, CreateContestRoute, UpdateContestRoute,
      ArchiveContestRoute, GetContestLeaderboardRoute, JoinContestRoute,
      CreateContestSubmissionRoute, CreateSubmissionRoute, GetSubmissionRoute,
      GetSubmissionSourceRoute, GetJudgeResultRoute, ListSubmissionsRoute, RejudgeSubmissionRoute
<1> QED BY <1>1, <1>2 DEF Bound

(* What is kept of a message when it is turned into another one. *)
LEMMA FirstCallSaysTheSame ==
    ASSUME NEW r \in Requests
    PROVE  SaysTheSame(r, GatewayCall(r.op, Bound(r), ActorOf(r)).m)
<1> DEFINE m == Bound(r)
           c == GatewayCall(r.op, m, ActorOf(r))
<1>1. r.op \in DOMAIN Route /\ DOMAIN r.body = Fields[r.op] /\ DOMAIN r.vars = Route[r.op].vars
  BY RequestAssumption
<1>2. DOMAIN m = Fields[r.op] /\ (\A f \in DOMAIN r.vars : f \in DOMAIN m /\ m[f] = r.vars[f])
      /\ (\A f \in DOMAIN r.body \ DOMAIN r.vars : m[f] = r.body[f])
  BY BoundFields, <1>1
<1>3. CASE r.op \in Forwarded
  <2>1. c.m = m  BY <1>3, ForwardedCalls
  <2>2. "context" \notin Fields[r.op] /\ r.op # "GetUser"
    BY <1>3 DEF Forwarded, Fields, TestcaseFields, EntryFields
  <2> QED BY <1>1, <1>2, <2>1, <2>2 DEF SaysTheSame
<1>4. CASE r.op = "GetCurrentUser"
  <2>1. c.m = [context |-> ActorOf(r)]
    BY <1>4 DEF GatewayCall, GetCurrentUserCall, Rpc
  <2>2. Fields[r.op] = {} /\ DOMAIN r.vars = {}
    BY <1>1, <1>4 DEF Fields, Route, GetCurrentUserRoute, Secured
  <2> QED BY <1>1, <1>4, <2>1, <2>2 DEF SaysTheSame
<1>5. CASE r.op = "GetUser"
  <2>1. c.m = [context |-> ActorOf(r), user_id |-> m.id]
    BY <1>5 DEF GatewayCall, GetUserCall, Rpc
  <2>2. Fields[r.op] = {"id"} /\ DOMAIN r.vars = {"id"}
    BY <1>1, <1>5 DEF Fields, Route, GetUserRoute, Secured
  <2>3. m.id = r.vars.id  BY <1>2, <2>2
  <2> QED BY <1>1, <1>5, <2>1, <2>2, <2>3 DEF SaysTheSame
<1>6. CASE r.op = "ListContests"
  <2>1. c.m = [page |-> Page(m), status |-> m.status]
    BY <1>6 DEF GatewayCall, ListContestsCall, Rpc
  <2>2. Fields[r.op] = {"page", "page_size", "status"} /\ DOMAIN r.vars = {}
    BY <1>1, <1>6 DEF Fields, Route, ListContestsRoute, Secured
  <2>3. m.status = r.body.status  BY <1>1, <1>2, <2>2
  <2> QED BY <1>1, <1>6, <2>1, <2>2, <2>3 DEF SaysTheSame
<1>7. CASE r.op = "GetContestLeaderboard"
  <2>1. c.m = [contest_id |-> m.contest_id, page |-> Page(m)]
    BY <1>7 DEF GatewayCall, GetContestLeaderboardCall, Rpc
  <2>2. Fields[r.op] = {"contest_id", "page", "page_size"} /\ DOMAIN r.vars = {"contest_id"}
    BY <1>1, <1>7 DEF Fields, Route, GetContestLeaderboardRoute, Secured
  <2>3. m.contest_id = r.vars.contest_id  BY <1>2, <2>2
  <2> QED BY <1>1, <1>7, <2>1, <2>2, <2>3 DEF SaysTheSame
<1>8. CASE r.op = "CreateSubmission"
  <2>1. c.m = SubmissionMessage(m, 0, Absent)
    BY <1>8 DEF GatewayCall, CreateSubmissionCall, Rpc
  <2>2. Fields[r.op] = EntryFields /\ DOMAIN r.vars = {}
    BY <1>1, <1>8 DEF Fields, Route, CreateSubmissionRoute, Secured
  <2>3. \A f \in EntryFields : m[f] = r.body[f]  BY <1>1, <1>2, <2>2
  <2> QED BY <1>1, <1>8, <2>1, <2>2, <2>3 DEF SaysTheSame, EntryFields, SubmissionMessage
<1> QED BY <1>1, <1>3, <1>4, <1>5, <1>6, <1>7, <1>8, RouteOps DEF Forwarded

(* ... and so it is with every later call. *)
LEMMA EveryCallSaysTheSame ==
    ASSUME NEW r \in Requests, NEW c, LeadsTo(r, c)
    PROVE  SaysTheSame(r, c.m)
<1> DEFINE m == Bound(r)
<1>1. r.op \in DOMAIN Route /\ DOMAIN r.body = Fields[r.op] /\ DOMAIN r.vars = Route[r.op].vars
  BY RequestAssumption
<1>2. DOMAIN m = Fields[r.op] /\ (\A f \in DOMAIN r.vars : f \in DOMAIN m /\ m[f] = r.vars[f])
      /\ (\A f \in DOMAIN r.body \ DOMAIN r.vars : m[f] = r.body[f])
  BY BoundFields, <1>1
<1>3. CASE c = GatewayCall(r.op, m, ActorOf(r))
  BY <1>3, FirstCallSaysTheSame
<1>4. CASE r.op \in {"CreateSubmission", "CreateContestSubmission"} /\ c = ProfileCall(m.problem_id)
  <2>1. c.m = [problem_id |-> m.problem_id]  BY <1>4 DEF ProfileCall, Rpc
  <2>2. "problem_id" \in DOMAIN r.body  BY <1>1, <1>4 DEF Fields, EntryFields
  <2> QED BY <1>1, <1>2, <1>4, <2>1, <2>2 DEF SaysTheSame
<1>5. CASE r.op = "RejudgeSubmission" /\ \E i \in ProblemIds : c = ProfileCall(i)
  <2>1. DOMAIN c.m = {"problem_id"}  BY <1>5 DEF ProfileCall, Rpc
  <2>2. "problem_id" \notin DOMAIN r.body \cup DOMAIN r.vars  BY <1>1, <1>5 DEF Fields, Route, RejudgeSubmissionRoute, Secured
  <2> QED BY <1>1, <1>5, <2>1, <2>2 DEF SaysTheSame
<1>6. CASE r.op = "GetContest" /\ \E l \in StoredContests : c = TitlesCall(l.problems)
  <2>1. DOMAIN c.m = {"problem_ids"}  BY <1>6 DEF TitlesCall, Rpc
  <2>2. "problem_ids" \notin DOMAIN r.body \cup DOMAIN r.vars  BY <1>1, <1>6 DEF Fields, Route, GetContestRoute, Secured
  <2> QED BY <1>1, <1>6, <2>1, <2>2 DEF SaysTheSame
<1>7. CASE r.op = "CreateContestSubmission" /\ c = ContestEntryCall(m)
  <2>1. c.m = SubmissionMessage(m, m.contest_id, "interval")  BY <1>7 DEF ContestEntryCall, Rpc
  <2>2. DOMAIN r.body = {"contest_id"} \cup EntryFields  BY <1>1, <1>7 DEF Fields
  <2> QED BY <1>1, <1>2, <1>7, <2>1, <2>2 DEF SaysTheSame, SubmissionMessage, EntryFields
<1> QED BY <1>3, <1>4, <1>5, <1>6, <1>7 DEF LeadsTo

(* The method a request becomes, and the service that has it. *)
MethodOf(op) ==
    IF op = "UploadTestcase" THEN "AddTestcase" ELSE IF op = "GetContestLeaderboard" THEN "GetLeaderboard" ELSE op
UserOps == {"Register", "Login", "RefreshToken", "Logout", "GetCurrentUser", "GetUser"}
ProblemOps ==
    {"CreateProblem", "GetProblem", "ListProblems", "UpdateProblem", "ArchiveProblem", "AddTestcase",
     "UploadTestcase", "ListProblemTestcases", "ArchiveTestcase"}
ContestOps ==
    {"ListContests", "GetContest", "CreateContest", "UpdateContest", "ArchiveContest",
     "GetContestLeaderboard", "JoinContest", "CreateContestSubmission"}
JudgeOps ==
    {"CreateSubmission", "GetSubmission", "GetSubmissionSource", "GetJudgeResult", "ListSubmissions",
     "RejudgeSubmission"}

LEMMA FirstCall ==
    ASSUME NEW op \in DOMAIN Route, NEW m, NEW ctx
    PROVE  LET c == GatewayCall(op, m, ctx) IN
           /\ c.rpc = MethodOf(op)
           /\ c.to = IF op \in UserOps THEN "user" ELSE IF op \in ProblemOps THEN "problem"
                     ELSE IF op \in ContestOps THEN "contest" ELSE "judge"
  BY RouteOps
  DEF GatewayCall, Rpc, MethodOf, UserOps, ProblemOps, ContestOps, JudgeOps, RegisterCall,
      LoginCall, RefreshTokenCall, LogoutCall, GetCurrentUserCall, GetUserCall, CreateProblemCall,
      GetProblemCall, ListProblemsCall, UpdateProblemCall, ArchiveProblemCall, AddTestcaseCall,
      ListProblemTestcasesCall, ArchiveTestcaseCall, ListContestsCall, GetContestCall,
      CreateContestCall, UpdateContestCall, ArchiveContestCall, GetContestLeaderboardCall,
      JoinContestCall, CreateContestSubmissionCall, CreateSubmissionCall, GetSubmissionCall,
      GetSubmissionSourceCall, GetJudgeResultCall, ListSubmissionsCall, RejudgeSubmissionCall

(* What a handler goes on to call is again a call of the request. *)
LEMMA CallsLeadOn ==
    ASSUME NEW r \in Requests, NEW c, LeadsTo(r, c), NEW d \in FollowUps(c.rpc, c.m)
    PROVE  LeadsTo(r, d)
<1> DEFINE m == Bound(r)
<1>1. r.op \in DOMAIN Route  BY RequestAssumption
<1>2. CASE c = GatewayCall(r.op, m, ActorOf(r))
  <2>1. c.rpc = MethodOf(r.op)  BY <1>1, <1>2, FirstCall
  <2>2. CASE r.op = "CreateSubmission"
    <3>1. c.m = SubmissionMessage(m, 0, Absent)
      BY <1>2, <2>2 DEF GatewayCall, CreateSubmissionCall, Rpc
    <3>2. d = ProfileCall(m.problem_id)
      BY <2>1, <2>2, <3>1 DEF FollowUps, MethodOf, SubmissionMessage
    <3> QED BY <2>2, <3>2 DEF LeadsTo
  <2>3. CASE r.op = "RejudgeSubmission"
    BY <2>1, <2>3 DEF FollowUps, MethodOf, LeadsTo
  <2>4. CASE r.op = "GetContest"
    BY <2>1, <2>4 DEF FollowUps, MethodOf, LeadsTo
  <2>5. CASE r.op = "CreateContestSubmission"
    <3>1. c.m = m
      BY <1>2, <2>5, ForwardedCalls DEF Forwarded
    <3> QED BY <2>1, <2>5, <3>1 DEF FollowUps, MethodOf, LeadsTo
  <2>6. CASE r.op \notin {"CreateSubmission", "RejudgeSubmission", "GetContest", "CreateContestSubmission"}
    BY <1>1, <2>1, <2>6, RouteOps DEF FollowUps, MethodOf
  <2> QED BY <2>2, <2>3, <2>4, <2>5, <2>6
<1>3. CASE c.rpc \in {"GetJudgeProfile", "BatchGetProblems"}
  BY <1>3 DEF FollowUps
<1>4. CASE r.op = "CreateContestSubmission" /\ c = ContestEntryCall(m)
  <2>1. c.rpc = "CreateSubmission" /\ c.m.problem_id = m.problem_id
    BY <1>4 DEF ContestEntryCall, Rpc, SubmissionMessage
  <2> QED BY <1>4, <2>1 DEF FollowUps, LeadsTo
<1> QED BY <1>2, <1>3, <1>4 DEF LeadsTo, ProfileCall, TitlesCall, Rpc

-----------------------------------------------------------------------------
(* The service's answer to a request, when it is not a refusal the gateway  *)
(* should have spared it.                                                   *)
LetThrough(op, a) == a = "ok" \/ a \in OwnRefusals(op)

(* The two copies of every rule agree, operation by operation. *)
LEMMA UserCallsAreServed ==
    ASSUME NEW op \in UserOps, NEW m, NEW p, NEW now, GatewayRule(op, m),
           p.actor # Absent, op \in {"GetCurrentUser", "GetUser"} => p.actor.user_id > 0
    PROVE  LET c == GatewayCall(op, m, p.actor) IN LetThrough(op, Serves(c.rpc, c.m, p, now))
<1>1. CASE op = "Register"
  BY <1>1, SMT DEF GatewayRule, GatewayRegisterRequest, GatewayCall, RegisterCall, Rpc, Serves, ServeRegister,
        UserRegisterRequest, Checked, LetThrough, OwnRefusals
<1>2. CASE op = "Login"
  BY <1>2, SMT DEF GatewayRule, GatewayLoginRequest, GatewayCall, LoginCall, Rpc, Serves, ServeLogin,
        UserLoginRequest, Checked, LetThrough, OwnRefusals
<1>3. CASE op = "RefreshToken"
  BY <1>3, SMT DEF GatewayRule, GatewayRefreshTokenRequest, GatewayCall, RefreshTokenCall, Rpc, Serves,
        ServeRefreshToken, UserRefreshTokenRequest, Checked, LetThrough, OwnRefusals
<1>4. CASE op = "Logout"
  BY <1>4, SMT DEF GatewayRule, GatewayLogoutRequest, GatewayCall, LogoutCall, Rpc, Serves, ServeLogout,
        UserLogoutRequest, Checked, LetThrough, OwnRefusals
<1>5. CASE op = "GetCurrentUser"
  BY <1>5, SMT DEF GatewayRule, GatewayGetCurrentUserRequest, GatewayCall, GetCurrentUserCall, Rpc, Serves,
        ServeGetCurrentUser, UserGetCurrentUserRequest, Checked, LetThrough, OwnRefusals, Required,
        RequestContext
<1>6. CASE op = "GetUser"
  BY <1>6, SMT DEF GatewayRule, GatewayGetUserRequest, GatewayCall, GetUserCall, Rpc, Serves, ServeGetUser,
        UserGetUserRequest, Checked, LetThrough, OwnRefusals, Required, RequestContext
<1> QED BY <1>1, <1>2, <1>3, <1>4, <1>5, <1>6 DEF UserOps

LEMMA ProblemCallsAreServed ==
    ASSUME NEW op \in ProblemOps, NEW m, NEW p, NEW now, GatewayRule(op, m),
           p.actor.user_id > 0,
           op = "UploadTestcase" => decodeTestcaseUpload(m) /\ PairedNames(m)
    PROVE  LET c == GatewayCall(op, m, p.actor) IN LetThrough(op, Serves(c.rpc, c.m, p, now))
<1>1. CASE op = "CreateProblem"
  <2>1. ProblemCreateProblemRequest(m)
    BY <1>1, SMT DEF GatewayRule, GatewayCreateProblemRequest, ProblemCreateProblemRequest
  <2>2. Serves("CreateProblem", m, p, now) = ServeCreateProblem(m, p)
    BY SMT DEF Serves
  <2>3. ServeCreateProblem(m, p) \in {"ok", "names"}
    BY <2>1, SMT DEF ServeCreateProblem, requestContextFromPrincipal, Checked
  <2>4. GatewayCall(op, m, p.actor) = Rpc("problem", "CreateProblem", m)
    BY <1>1, SMT DEF GatewayCall, CreateProblemCall
  <2> QED BY <1>1, <2>2, <2>3, <2>4, SMT DEF Rpc, LetThrough, OwnRefusals
<1>2. CASE op = "GetProblem"
  BY <1>2, SMT DEF GatewayRule, GatewayGetProblemRequest, GatewayCall, GetProblemCall, Rpc, Serves,
        ServeGetProblem, ProblemGetProblemRequest, Checked, LetThrough, OwnRefusals, requestContextFromPrincipal
<1>3. CASE op = "ListProblems"
  BY <1>3, SMT DEF GatewayRule, GatewayListProblemsRequest, GatewayCall, ListProblemsCall, Rpc, Serves,
        ServeListProblems, ProblemListProblemsRequest, Checked, LetThrough, OwnRefusals,
        requestContextFromPrincipal
<1>4. CASE op = "UpdateProblem"
  BY <1>4, SMT DEF GatewayRule, GatewayUpdateProblemRequest, GatewayCall, UpdateProblemCall, Rpc, Serves,
        ServeUpdateProblem, ProblemUpdateProblemRequest, Checked, LetThrough, OwnRefusals,
        requestContextFromPrincipal
<1>5. CASE op = "ArchiveProblem"
  BY <1>5, SMT DEF GatewayRule, GatewayArchiveProblemRequest, GatewayCall, ArchiveProblemCall, Rpc, Serves,
        ServeArchiveProblem, ProblemArchiveProblemRequest, Checked, LetThrough, OwnRefusals,
        requestContextFromPrincipal
<1>6. CASE op = "AddTestcase"
  <2>1. ProblemAddTestcaseRequest(m)
    BY <1>6, SMT DEF GatewayRule, GatewayAddTestcaseRequest, ProblemAddTestcaseRequest
  <2>2. Serves("AddTestcase", m, p, now) = ServeAddTestcase(m, p)
    BY SMT DEF Serves
  <2>3. ServeAddTestcase(m, p) \in {"ok", "names"}
    BY <2>1, SMT DEF ServeAddTestcase, requestContextFromPrincipal, Checked
  <2>4. GatewayCall(op, m, p.actor) = Rpc("problem", "AddTestcase", m)
    BY <1>6, SMT DEF GatewayCall, AddTestcaseCall
  <2> QED BY <1>6, <2>2, <2>3, <2>4, SMT DEF Rpc, LetThrough, OwnRefusals
<1>7. CASE op = "UploadTestcase"
  <2>1. ProblemAddTestcaseRequest(m)
    BY <1>7, SMT DEF decodeTestcaseUpload, PairedNames, Runes, ProblemAddTestcaseRequest
  <2>2. Serves("AddTestcase", m, p, now) = ServeAddTestcase(m, p)
    BY SMT DEF Serves
  <2>3. ServeAddTestcase(m, p) = "ok"
    BY <1>7, <2>1, SMT DEF ServeAddTestcase, validateTestcasePair, decodeTestcaseUpload,
                           requestContextFromPrincipal, Checked
  <2>4. GatewayCall(op, m, p.actor) = Rpc("problem", "AddTestcase", m)
    BY <1>7, SMT DEF GatewayCall, AddTestcaseCall
  <2> QED BY <2>2, <2>3, <2>4, SMT DEF Rpc, LetThrough, OwnRefusals
<1>8. CASE op = "ListProblemTestcases"
  BY <1>8, SMT DEF GatewayRule, GatewayListProblemTestcasesRequest, GatewayCall, ListProblemTestcasesCall,
        Rpc, Serves, ServeListProblemTestcases, ProblemListProblemTestcasesRequest, Checked,
        LetThrough, OwnRefusals, requestContextFromPrincipal
<1>9. CASE op = "ArchiveTestcase"
  BY <1>9, SMT DEF GatewayRule, GatewayArchiveTestcaseRequest, GatewayCall, ArchiveTestcaseCall, Rpc, Serves,
        ServeArchiveTestcase, ProblemArchiveTestcaseRequest, Checked, LetThrough, OwnRefusals,
        requestContextFromPrincipal
<1> QED BY <1>1, <1>2, <1>3, <1>4, <1>5, <1>6, <1>7, <1>8, <1>9 DEF ProblemOps

LEMMA ContestCallsAreServed ==
    ASSUME NEW op \in ContestOps, NEW m, NEW p, NEW now, GatewayRule(op, m),
           p.actor.user_id > 0,
           op \in {"ListContests", "GetContestLeaderboard"} => Page(m) # Absent
    PROVE  LET c == GatewayCall(op, m, p.actor) IN LetThrough(op, Serves(c.rpc, c.m, p, now))
<1>1. CASE op = "ListContests"
  <2> DEFINE n == [page |-> Page(m), status |-> m.status]
  <2>1. ContestListContestsRequest(n)
    BY <1>1, SMT DEF GatewayRule, GatewayListContestsRequest, ContestListContestsRequest, Required, PageRequest, Page
  <2>2. Serves("ListContests", n, p, now) = ServeListContests(n, p)
    BY SMT DEF Serves
  <2>3. ServeListContests(n, p) \in {"ok"}
    BY <1>1, <2>1, SMT DEF ServeListContests, GatewayRule, GatewayListContestsRequest, InRange, Page, requestContext, Checked, Then
  <2>4. GatewayCall(op, m, p.actor) = Rpc("contest", "ListContests", n)
    BY <1>1, SMT DEF GatewayCall, ListContestsCall
  <2> QED BY <1>1, <2>2, <2>3, <2>4, SMT DEF Rpc, LetThrough, OwnRefusals
<1>2. CASE op = "GetContest"
  BY <1>2, SMT DEF GatewayRule, GatewayGetContestRequest, GatewayCall, GetContestCall, Rpc, Serves,
        ServeGetContest, ContestGetContestRequest, Checked, LetThrough, OwnRefusals, requestContext
<1>3. CASE op = "CreateContest"
  <2>1. ContestCreateContestRequest(m)
    BY <1>3, SMT DEF GatewayRule, GatewayCreateContestRequest, ContestCreateContestRequest
  <2>2. Serves("CreateContest", m, p, now) = ServeCreateContest(m, p, now)
    BY SMT DEF Serves
  <2>3. ServeCreateContest(m, p, now) \in {"ok", "contest", "past"}
    BY <2>1, SMT DEF ServeCreateContest, requestContext, Checked, Then
  <2>4. GatewayCall(op, m, p.actor) = Rpc("contest", "CreateContest", m)
    BY <1>3, SMT DEF GatewayCall, CreateContestCall
  <2> QED BY <1>3, <2>2, <2>3, <2>4, SMT DEF Rpc, LetThrough, OwnRefusals
<1>4. CASE op = "UpdateContest"
  <2>1. ContestUpdateContestRequest(m)
    BY <1>4, SMT DEF GatewayRule, GatewayUpdateContestRequest, ContestUpdateContestRequest
  <2>2. Serves("UpdateContest", m, p, now) = ServeUpdateContest(m, p, now)
    BY SMT DEF Serves
  <2>3. ServeUpdateContest(m, p, now) \in {"ok", "contest", "past", "version"}
    BY <2>1, SMT DEF ServeUpdateContest, requestContext, Checked, Then
  <2>4. GatewayCall(op, m, p.actor) = Rpc("contest", "UpdateContest", m)
    BY <1>4, SMT DEF GatewayCall, UpdateContestCall
  <2> QED BY <1>4, <2>2, <2>3, <2>4, SMT DEF Rpc, LetThrough, OwnRefusals
<1>5. CASE op = "ArchiveContest"
  BY <1>5, SMT DEF GatewayRule, GatewayArchiveContestRequest, GatewayCall, ArchiveContestCall, Rpc, Serves,
        ServeArchiveContest, ContestArchiveContestRequest, Checked, LetThrough, OwnRefusals, requestContext
<1>6. CASE op = "GetContestLeaderboard"
  <2> DEFINE n == [contest_id |-> m.contest_id, page |-> Page(m)]
  <2>1. ContestGetLeaderboardRequest(n)
    BY <1>6, SMT DEF GatewayRule, GatewayGetContestLeaderboardRequest, ContestGetLeaderboardRequest, Required, PageRequest, Page
  <2>2. Serves("GetLeaderboard", n, p, now) = ServeGetLeaderboard(n, p)
    BY SMT DEF Serves
  <2>3. ServeGetLeaderboard(n, p) \in {"ok"}
    BY <1>6, <2>1, SMT DEF ServeGetLeaderboard, GatewayRule, GatewayGetContestLeaderboardRequest, InRange, Page, requestContext, Checked, Then
  <2>4. GatewayCall(op, m, p.actor) = Rpc("contest", "GetLeaderboard", n)
    BY <1>6, SMT DEF GatewayCall, GetContestLeaderboardCall
  <2> QED BY <1>6, <2>2, <2>3, <2>4, SMT DEF Rpc, LetThrough, OwnRefusals
<1>7. CASE op = "JoinContest"
  BY <1>7, SMT DEF GatewayRule, GatewayJoinContestRequest, GatewayCall, JoinContestCall, Rpc, Serves,
        ServeJoinContest, ContestJoinContestRequest, Checked, LetThrough, OwnRefusals, requestContext
<1>8. CASE op = "CreateContestSubmission"
  <2>1. ContestCreateContestSubmissionRequest(m)
    BY <1>8, SMT DEF GatewayRule, GatewayCreateContestSubmissionRequest, ContestCreateContestSubmissionRequest
  <2>2. Serves("CreateContestSubmission", m, p, now) = ServeCreateContestSubmission(m, p)
    BY SMT DEF Serves
  <2>3. ServeCreateContestSubmission(m, p) \in {"ok"}
    BY <2>1, SMT DEF ServeCreateContestSubmission, requestContext, Checked
  <2>4. GatewayCall(op, m, p.actor) = Rpc("contest", "CreateContestSubmission", m)
    BY <1>8, SMT DEF GatewayCall, CreateContestSubmissionCall
  <2> QED BY <1>8, <2>2, <2>3, <2>4, SMT DEF Rpc, LetThrough, OwnRefusals
<1> QED BY <1>1, <1>2, <1>3, <1>4, <1>5, <1>6, <1>7, <1>8 DEF ContestOps

LEMMA JudgeCallsAreServed ==
    ASSUME NEW op \in JudgeOps, NEW m, NEW p, NEW now, GatewayRule(op, m),
           p.actor.user_id > 0
    PROVE  LET c == GatewayCall(op, m, p.actor) IN LetThrough(op, Serves(c.rpc, c.m, p, now))
<1>1. CASE op = "CreateSubmission"
  <2> DEFINE n == SubmissionMessage(m, 0, Absent)
  <2>1. SubmissionCreateSubmissionRequest(n)
    BY <1>1, SMT DEF GatewayRule, GatewayCreateSubmissionRequest, SubmissionCreateSubmissionRequest,
                     SubmissionMessage
  <2>2. Serves("CreateSubmission", n, p, now) = ServeCreateSubmission(n, p)
    BY SMT DEF Serves
  <2>3. ServeCreateSubmission(n, p) \in {"ok", "language"}
    BY <2>1, SMT DEF ServeCreateSubmission, actorFromPrincipal, Checked, Then, SubmissionMessage
  <2>4. GatewayCall(op, m, p.actor) = Rpc("judge", "CreateSubmission", n)
    BY <1>1, SMT DEF GatewayCall, CreateSubmissionCall
  <2> QED BY <1>1, <2>2, <2>3, <2>4, SMT DEF Rpc, LetThrough, OwnRefusals
<1>2. CASE op = "GetSubmission"
  BY <1>2, SMT DEF GatewayRule, GatewayGetSubmissionRequest, GatewayCall, GetSubmissionCall, Rpc, Serves,
        ServeGetSubmission, SubmissionGetSubmissionRequest, Checked, LetThrough, OwnRefusals, actorFromPrincipal
<1>3. CASE op = "GetSubmissionSource"
  BY <1>3, SMT DEF GatewayRule, GatewayGetSubmissionSourceRequest, GatewayCall, GetSubmissionSourceCall, Rpc,
        Serves, ServeGetSubmissionSource, SubmissionGetSubmissionSourceRequest, Checked, LetThrough, OwnRefusals,
        actorFromPrincipal
<1>4. CASE op = "GetJudgeResult"
  BY <1>4, SMT DEF GatewayRule, GatewayGetJudgeResultRequest, GatewayCall, GetJudgeResultCall, Rpc, Serves,
        ServeGetJudgeResult, SubmissionGetJudgeResultRequest, Checked, LetThrough, OwnRefusals,
        actorFromPrincipal
<1>5. CASE op = "ListSubmissions"
  <2>1. Serves("ListSubmissions", m, p, now) = ServeListSubmissions(m, p)
    BY SMT DEF Serves
  <2>2. ServeListSubmissions(m, p) \in {"ok", "form", "filter"}
    BY SMT DEF ServeListSubmissions, actorFromPrincipal, Checked, Then
  <2>3. GatewayCall(op, m, p.actor) = Rpc("judge", "ListSubmissions", m)
    BY <1>5, SMT DEF GatewayCall, ListSubmissionsCall
  <2> QED BY <1>5, <2>1, <2>2, <2>3, SMT DEF Rpc, LetThrough, OwnRefusals
<1>6. CASE op = "RejudgeSubmission"
  BY <1>6, SMT DEF GatewayRule, GatewayRejudgeSubmissionRequest, GatewayCall, RejudgeSubmissionCall, Rpc,
        Serves, ServeRejudgeSubmission, SubmissionRejudgeSubmissionRequest, Checked, LetThrough, OwnRefusals,
        actorFromPrincipal
<1> QED BY <1>1, <1>2, <1>3, <1>4, <1>5, <1>6 DEF JudgeOps

(* The calls behind the first one pass their checks as well. *)
LEMMA LaterCallsAreServed ==
    ASSUME NEW r \in Requests, NEW c, LeadsTo(r, c), c # GatewayCall(r.op, Bound(r), ActorOf(r)),
           GatewayRule(r.op, Bound(r)), NEW p, NEW now, p.actor.user_id > 0,
           c.rpc = "GetJudgeProfile" => p.caller = "judge-service"
    PROVE  LetThrough(r.op, Serves(c.rpc, c.m, p, now))
<1> DEFINE m == Bound(r)
<1>1. ASSUME NEW i, c = ProfileCall(i), i > 0
      PROVE  LetThrough(r.op, Serves(c.rpc, c.m, p, now))
  <2>1. c.rpc = "GetJudgeProfile" /\ c.m = [problem_id |-> i]
    BY <1>1 DEF ProfileCall, Rpc
  <2>2. Serves(c.rpc, c.m, p, now) = ServeGetJudgeProfile(c.m, p)
    BY <2>1, SMT DEF Serves
  <2> QED BY <1>1, <2>1, <2>2, SMT
          DEF ServeGetJudgeProfile, ProblemGetJudgeProfileRequest, requireJudgeService, Checked, LetThrough, OwnRefusals
<1>2. CASE r.op = "CreateSubmission" /\ c = ProfileCall(m.problem_id)
  <2>1. m.problem_id > 0  BY <1>2, SMT DEF GatewayRule, GatewayCreateSubmissionRequest
  <2> QED BY <1>1, <1>2, <2>1
<1>3. CASE r.op = "RejudgeSubmission" /\ \E i \in ProblemIds : c = ProfileCall(i)
  <2>1. \A i \in ProblemIds : i > 0  BY StoredProblems
  <2> QED BY <1>1, <1>3, <2>1
<1>4. CASE r.op = "GetContest" /\ \E l \in StoredContests : c = TitlesCall(l.problems)
  <2>1. PICK s \in StoredContests : c = TitlesCall(s.problems)  BY <1>4
  <2> DEFINE l == s.problems
  <2>2. c.rpc = "BatchGetProblems"
        /\ c.m = [problem_ids |-> [count |-> l.count, unique |-> l.unique, item |-> l.item.problem_id]]
    BY <2>1 DEF TitlesCall, Rpc
  <2>3. Items(l, 1, 100) /\ l.unique /\ l.item.problem_id > 0
    BY SMT DEF StoredContests, normalizeUpdate, ContestUpdate, ContestProblem
  <2>4. ProblemBatchGetProblemsRequest(c.m)
    BY <2>2, <2>3, SMT DEF ProblemBatchGetProblemsRequest, Items, Each, Embedded, PositiveId
  <2>5. Serves(c.rpc, c.m, p, now) = ServeBatchGetProblems(c.m, p)
    BY <2>2, SMT DEF Serves
  <2> QED BY <2>4, <2>5, SMT DEF ServeBatchGetProblems, requestContextFromPrincipal, Checked, LetThrough, OwnRefusals
<1>5. CASE r.op = "CreateContestSubmission"
  <2>1. GatewayCreateContestSubmissionRequest(m)  BY <1>5, SMT DEF GatewayRule
  <2>2. CASE c = ProfileCall(m.problem_id)
    BY <1>1, <2>1, <2>2 DEF GatewayCreateContestSubmissionRequest
  <2>3. CASE c = ContestEntryCall(m)
    <3> DEFINE n == SubmissionMessage(m, m.contest_id, "interval")
    <3>1. c.rpc = "CreateSubmission" /\ c.m = n  BY <2>3 DEF ContestEntryCall, Rpc
    <3>2. m.contest_id \in Int
      <4>1. "contest_id" \in Route[r.op].vars
        BY <1>5 DEF Route, CreateContestSubmissionRoute, Secured
      <4> QED BY <4>1, BoundFields, RequestAssumption
    <3>3. SubmissionCreateSubmissionRequest(n)
      BY <2>1, <3>2, SMT DEF GatewayCreateContestSubmissionRequest, SubmissionCreateSubmissionRequest,
                             SubmissionMessage
    <3>4. Serves(c.rpc, c.m, p, now) = ServeCreateSubmission(n, p)
      BY <3>1, SMT DEF Serves
    <3>5. ServeCreateSubmission(n, p) \in {"ok", "language"}
      BY <3>3, AbsentAssumption, SMT
      DEF ServeCreateSubmission, actorFromPrincipal, Checked, Then, Required, SubmissionMessage
    <3> QED BY <1>5, <3>4, <3>5 DEF LetThrough, OwnRefusals
  <2> QED BY <1>5, <2>2, <2>3 DEF LeadsTo
<1> QED BY <1>2, <1>3, <1>4, <1>5 DEF LeadsTo

(* A request is fit to be sent when the gateway has found no fault with it. *)
Identified(r) == Route[r.op].open \/ (r.bearer # Absent /\ r.bearer.subject > 0)
Decoded(r) == r.op = "UploadTestcase" => decodeTestcaseUpload(Bound(r))

(* Only calls of the user service are open to everybody. *)
LEMMA OpenRoutes ==
    ASSUME NEW op \in DOMAIN Route
    PROVE  Route[op].open <=> op \in {"Register", "Login", "RefreshToken", "Logout"}
  BY RouteOps, SMT
  DEF Route, Public, Secured, RegisterRoute, LoginRoute,
      RefreshTokenRoute, LogoutRoute, GetCurrentUserRoute, GetUserRoute, CreateProblemRoute,
      GetProblemRoute, ListProblemsRoute, UpdateProblemRoute, ArchiveProblemRoute,
      AddTestcaseRoute, UploadTestcaseRoute, ListProblemTestcasesRoute, ArchiveTestcaseRoute,
      ListContestsRoute, GetContestRoute, CreateContestRoute, UpdateContestRoute,
      ArchiveContestRoute, GetContestLeaderboardRoute, JoinContestRoute,
      CreateContestSubmissionRoute, CreateSubmissionRoute, GetSubmissionRoute,
      GetSubmissionSourceRoute, GetJudgeResultRoute, ListSubmissionsRoute, RejudgeSubmissionRoute

(* What the gateway let through, no service refuses for the gateway's rules *)
(* or for its actor: only for what it alone checks.                         *)
LEMMA CallsAreServed ==
    ASSUME NEW r \in Requests, NEW c, LeadsTo(r, c), GatewayRule(r.op, Bound(r)),
           Identified(r), Decoded(r),
           NEW caller_, c.rpc = "GetJudgeProfile" => caller_ = "judge-service", NEW now
    PROVE  LetThrough(r.op, Serves(c.rpc, c.m, [caller |-> caller_, actor |-> ActorOf(r)], now))
<1> DEFINE m == Bound(r)
           p == [caller |-> caller_, actor |-> ActorOf(r)]
<1>1. r.op \in DOMAIN Route /\ r.bearer \in BearerToken \cup {Absent}
  BY RequestAssumption
<1>2. p.actor = ActorOf(r) /\ p.caller = caller_
  OBVIOUS
<1>3. ActorOf(r) # Absent
  <2>1. ActorOf(r) \in [user_id : Int, roles : SUBSET STRING]
    BY <1>1 DEF ActorOf, Nobody, Identified, BearerToken
  <2> QED BY <2>1, AbsentAssumption
<1>4. ~Route[r.op].open => ActorOf(r).user_id > 0
  BY DEF ActorOf, Identified
<1>5. CASE c = GatewayCall(r.op, m, ActorOf(r)) /\ r.op \in UserOps
  <2>1. r.op \in {"GetCurrentUser", "GetUser"} => p.actor.user_id > 0
    BY <1>1, <1>2, <1>4, OpenRoutes
  <2> QED BY <1>2, <1>3, <1>5, <2>1, UserCallsAreServed
<1>6. CASE r.op \notin UserOps
  <2>1. p.actor.user_id > 0
    BY <1>1, <1>2, <1>4, <1>6, OpenRoutes DEF UserOps
  <2>2. CASE c # GatewayCall(r.op, m, ActorOf(r))
    BY <1>2, <2>1, <2>2, LaterCallsAreServed
  <2>3. CASE c = GatewayCall(r.op, m, ActorOf(r)) /\ r.op \in ProblemOps
    <3>1. r.op = "UploadTestcase" => PairedNames(m)
      <4> SUFFICES ASSUME r.op = "UploadTestcase" PROVE PairedNames(m)
        OBVIOUS
      <4>1. Route[r.op].vars = {"problem_id"} /\ Fields[r.op] = TestcaseFields
        BY DEF Route, UploadTestcaseRoute, Secured, Fields
      <4>2. m.paired = r.body.paired /\ m.input_filename = r.body.input_filename
            /\ m.output_filename = r.body.output_filename
        BY <4>1, BoundFields DEF TestcaseFields
      <4>3. PairedNames(r.body)  BY RequestAssumption
      <4> QED BY <4>2, <4>3 DEF PairedNames
    <3> QED BY <1>2, <2>1, <2>3, <3>1, ProblemCallsAreServed DEF Decoded
  <2>4. CASE c = GatewayCall(r.op, m, ActorOf(r)) /\ r.op \in ContestOps
    <3>1. r.op \in {"ListContests", "GetContestLeaderboard"} => Page(m) # Absent
      <4> SUFFICES ASSUME r.op \in {"ListContests", "GetContestLeaderboard"} PROVE Page(m) # Absent
        OBVIOUS
      <4>1. {"page", "page_size"} \subseteq Fields[r.op] \ Route[r.op].vars
        BY DEF Route, ListContestsRoute, GetContestLeaderboardRoute, Secured, Fields
      <4>2. m.page = r.body.page /\ m.page_size = r.body.page_size
        BY <4>1, BoundFields
      <4>3. Page(m) \in [page : Int, page_size : Int]
        BY <4>2, RequestAssumption DEF Page
      <4> QED BY <4>3, AbsentAssumption
    <3> QED BY <1>2, <2>1, <2>4, <3>1, ContestCallsAreServed
  <2>5. CASE c = GatewayCall(r.op, m, ActorOf(r)) /\ r.op \in JudgeOps
    BY <1>2, <2>1, <2>5, JudgeCallsAreServed
  <2> QED BY <1>1, <1>6, <2>2, <2>3, <2>4, <2>5, RouteOps DEF UserOps, ProblemOps, ContestOps, JudgeOps
<1> QED BY <1>5, <1>6 DEF LeadsTo, UserOps

(* The hops calls are made on; the profile of a problem is asked for by the *)
(* judge service only.                                                      *)
LEMMA FirstHop ==
    ASSUME NEW r \in Requests
    PROVE  LET c == GatewayCall(r.op, Bound(r), ActorOf(r)) IN
           /\ c = Rpc(c.to, c.rpc, c.m)
           /\ c.to = "user" \/ <<"gateway", c.to>> \in Hops
           /\ c.rpc # "GetJudgeProfile"
<1> DEFINE c == GatewayCall(r.op, Bound(r), ActorOf(r))
<1>1. r.op \in DOMAIN Route  BY RequestAssumption
<1>2. c.to \in {"user", "problem", "contest", "judge"} /\ c.rpc = MethodOf(r.op)
  BY <1>1, FirstCall
<1>3. \E to_, rpc_, n : c = Rpc(to_, rpc_, n)
  BY <1>1, RouteOps, SMT
  DEF GatewayCall, RegisterCall,
        LoginCall, RefreshTokenCall, LogoutCall, GetCurrentUserCall, GetUserCall, CreateProblemCall,
        GetProblemCall, ListProblemsCall, UpdateProblemCall, ArchiveProblemCall, AddTestcaseCall,
        ListProblemTestcasesCall, ArchiveTestcaseCall, ListContestsCall, GetContestCall,
        CreateContestCall, UpdateContestCall, ArchiveContestCall, GetContestLeaderboardCall,
        JoinContestCall, CreateContestSubmissionCall, CreateSubmissionCall, GetSubmissionCall,
        GetSubmissionSourceCall, GetJudgeResultCall, ListSubmissionsCall, RejudgeSubmissionCall
<1>4. MethodOf(r.op) # "GetJudgeProfile"
  BY <1>1, RouteOps DEF MethodOf
<1>5. c = Rpc(c.to, c.rpc, c.m)  BY <1>3 DEF Rpc
<1> QED BY <1>2, <1>4, <1>5 DEF Hops

LEMMA LaterHop ==
    ASSUME NEW r \in Requests, NEW c, LeadsTo(r, c), NEW d \in FollowUps(c.rpc, c.m)
    PROVE  /\ d = Rpc(d.to, d.rpc, d.m)
           /\ <<c.to, d.to>> \in Hops /\ d.to # "user" /\ c.to # "user"
           /\ d.rpc = "GetJudgeProfile" => c.to = "judge"
<1>1. r.op \in DOMAIN Route  BY RequestAssumption
<1>2. c.rpc \in {"CreateSubmission", "RejudgeSubmission", "GetContest", "CreateContestSubmission"}
  BY DEF FollowUps
<1>3. c.to = IF c.rpc \in {"CreateSubmission", "RejudgeSubmission"} THEN "judge" ELSE "contest"
  <2>1. CASE c = GatewayCall(r.op, Bound(r), ActorOf(r))
    <3>1. c.rpc = MethodOf(r.op)  BY <1>1, <2>1, FirstCall
    <3>2. r.op = c.rpc  BY <1>1, <1>2, <3>1, RouteOps DEF MethodOf
    <3> QED BY <1>1, <1>2, <2>1, <3>2, FirstCall DEF UserOps, ProblemOps, ContestOps
  <2>2. CASE c = ContestEntryCall(Bound(r))
    BY <2>2 DEF ContestEntryCall, Rpc
  <2> QED BY <1>2, <2>1, <2>2 DEF LeadsTo, ProfileCall, TitlesCall, Rpc
<1>4. CASE c.rpc \in {"CreateSubmission", "RejudgeSubmission"}
  <2>1. \E i : d = ProfileCall(i)  BY <1>4 DEF FollowUps
  <2> QED BY <1>3, <1>4, <2>1 DEF ProfileCall, Rpc, Hops
<1>5. CASE c.rpc = "GetContest"
  <2>1. \E l : d = TitlesCall(l)  BY <1>5 DEF FollowUps
  <2> QED BY <1>3, <1>5, <2>1 DEF TitlesCall, Rpc, Hops
<1>6. CASE c.rpc = "CreateContestSubmission"
  <2>1. d = ContestEntryCall(c.m)  BY <1>6 DEF FollowUps
  <2> QED BY <1>3, <1>6, <2>1 DEF ContestEntryCall, Rpc, Hops
<1> QED BY <1>2, <1>4, <1>5, <1>6

(* The inductive invariant of the path.  What the gateway has established  *)
(* holds from then on, the call under way is one of the request's, and its *)
(* token was signed by the machine before at a time its clock still knows. *)
Travelling == {"sent", "admitted", "served"}
Stages == {"received", "bound", "valid", "known", "done", "failed", "refused"} \cup Travelling

ClocksAgree ==
    /\ clock \in [Machines -> Nat]
    /\ \A m, n \in Machines : clock[m] <= clock[n] + ClockSkew

EdgePassed ==
    /\ stage \in Stages
    /\ stage \in {"received", "bound", "valid", "known"} => at = "gateway"
    /\ stage \in {"bound", "valid", "known"} => message = Bound(http)
    /\ stage \in {"valid", "known"} \cup Travelling => GatewayRule(http.op, Bound(http))
    /\ stage \in {"known"} \cup Travelling => actor = ActorOf(http) /\ Identified(http)

CallFitsRequest ==
    stage \in Travelling => LeadsTo(http, Rpc(at, rpc, message)) /\ Decoded(http)

SignedBy(from) ==
    LET s == Signers[<<from, at>>] IN
    /\ <<from, at>> \in Hops
    /\ rpc = "GetJudgeProfile" => from = "judge"
    /\ token.key = s.key /\ token.issuer = s.issuer /\ token.audience = s.audience /\ token.subject = s.subject
    /\ token.rpc = rpc /\ token.actor = actor /\ token # NoToken
    /\ token.iat \in Nat /\ token.iat + age = clock[from] /\ token.exp = token.iat + TokenTTL

TokenFits ==
    /\ stage = "sent" => age \in Nat /\ (at # "user" => \E from \in Machines : SignedBy(from))
    /\ stage = "sent" /\ at = "user" => rpc # "GetJudgeProfile"
    /\ stage \in {"admitted", "served"} /\ rpc = "GetJudgeProfile" => caller = "judge-service"

PathInv ==
    /\ http \in Requests
    /\ ClocksAgree /\ EdgePassed /\ CallFitsRequest /\ TokenFits /\ RefusedAtTheEdge

LEMMA PathStarts == PathInit => PathInv
<1> SUFFICES ASSUME PathInit PROVE PathInv
  OBVIOUS
<1>1. ClocksAgree
  BY PathAssumption DEF PathInit, ClocksAgree
<1>2. EdgePassed /\ CallFitsRequest /\ TokenFits /\ RefusedAtTheEdge
  BY DEF PathInit, EdgePassed, CallFitsRequest, TokenFits, RefusedAtTheEdge, Travelling, Stages
<1> QED BY <1>1, <1>2 DEF PathInit, PathInv

(* A token that its machine has just signed, or that has been on its way   *)
(* for less than the timeout of the call, is accepted by the next machine. *)
LEMMA TokensAreInTime ==
    ASSUME ClocksAgree, age \in Nat, age < CallTimeout, NEW from \in Machines, SignedBy(from)
    PROVE  Verify(at, token, rpc)
<1>1. <<from, at>> \in Hops /\ at \in Machines
  BY DEF SignedBy, Hops, Machines
<1> DEFINE s == Signers[<<from, at>>]
<1>2. s.audience = at /\ \E v \in Callers[at] : Trusts(v, s)
  <2>1. <<from, at>>[2] = at  OBVIOUS
  <2> QED BY <1>1, <2>1, ConfigAssumption
<1>3. PICK v \in Callers[at] : Trusts(v, s)
  BY <1>2
<1>4. token.iat <= clock[at] + ClockSkew /\ token.exp > clock[at] - ClockSkew
      /\ token.exp - token.iat <= MaxTokenTTL
  BY <1>1, PathAssumption DEF ClocksAgree, SignedBy
<1>5. VerifiedBy(v, at, token, rpc)
  BY <1>2, <1>3, <1>4 DEF VerifiedBy, Trusts, SignedBy
<1> QED BY <1>5 DEF Verify, SignedBy

(* The token of a call that is being sent. *)
LEMMA SigningFits ==
    ASSUME ClocksAgree, NEW c, NEW from \in Machines, at = from, Send(c), c.to # "user",
           <<from, c.to>> \in Hops, c.rpc = "GetJudgeProfile" => from = "judge"
    PROVE  SignedBy(from)'
<1>1. token' = Sign(from, c.to, c.rpc) /\ at' = c.to /\ rpc' = c.rpc /\ age' = 0
      /\ actor' = actor /\ clock' = clock
  BY DEF Send
<1>2. token' # NoToken
  BY <1>1 DEF Sign, NoToken
<1>3. clock[from] \in Nat
  BY DEF ClocksAgree
<1> QED BY <1>1, <1>2, <1>3 DEF SignedBy, Sign



(* Only a travelling call moves the clocks. *)
LEMMA ClocksRest == ASSUME ClocksAgree, clock' = clock PROVE ClocksAgree'
  BY DEF ClocksAgree

LEMMA RefusingAtTheEdge ==
    ASSUME PathInv, NEW reason, Refuse(reason), at = "gateway"
    PROVE  PathInv'
<1>1. UNCHANGED <<http, clock, at, rpc, message, token, actor, caller, age>> /\ stage' = "refused"
  BY DEF Refuse
<1>2. ClocksAgree'  BY <1>1, ClocksRest DEF PathInv
<1> QED BY <1>1, <1>2 DEF PathInv, EdgePassed, CallFitsRequest, TokenFits, RefusedAtTheEdge, Travelling, Stages

(* The gateway binds, validates and authenticates. *)
LEMMA EdgeStepsKeep ==
    ASSUME PathInv, Bind \/ Validate \/ Authenticate
    PROVE  PathInv'
<1> USE DEF PathInv
<1>1. CASE Bind
  <2>1. at = "gateway"  BY <1>1 DEF Bind, EdgePassed
  <2>2. CASE Refuse("form")  BY <2>1, <2>2, RefusingAtTheEdge
  <2>3. CASE ~Refuse("form")
    <3>1. stage = "received" /\ stage' = "bound" /\ message' = Bound(http)
          /\ UNCHANGED <<http, clock, at, rpc, token, actor, caller, age, why>>
      BY <1>1, <2>3 DEF Bind
    <3>2. ClocksAgree'  BY <3>1, ClocksRest
    <3> QED BY <2>1, <3>1, <3>2 DEF EdgePassed, CallFitsRequest, TokenFits, RefusedAtTheEdge, Travelling, Stages
  <2> QED BY <2>2, <2>3
<1>2. CASE Validate
  <2>1. at = "gateway"  BY <1>2 DEF Validate, EdgePassed
  <2>2. CASE Refuse("form")  BY <2>1, <2>2, RefusingAtTheEdge
  <2>3. CASE ~Refuse("form")
    <3>1. stage = "bound" /\ stage' = "valid" /\ GatewayRule(http.op, message)
          /\ UNCHANGED <<http, clock, at, rpc, message, token, actor, caller, age, why>>
      BY <1>2, <2>3 DEF Validate
    <3>2. ClocksAgree'  BY <3>1, ClocksRest
    <3>3. message = Bound(http)  BY <3>1 DEF EdgePassed
    <3> QED BY <2>1, <3>1, <3>2, <3>3 DEF EdgePassed, CallFitsRequest, TokenFits, RefusedAtTheEdge, Travelling, Stages
  <2> QED BY <2>2, <2>3
<1>3. CASE Authenticate
  <2>1. at = "gateway"  BY <1>3 DEF Authenticate, EdgePassed
  <2>2. CASE Refuse("actor")  BY <2>1, <2>2, RefusingAtTheEdge
  <2>3. CASE ~Refuse("actor")
    <3>1. stage = "valid" /\ stage' = "known" /\ actor' = ActorOf(http)
          /\ (Route[http.op].open \/ AcceptsBearer(http.bearer))
          /\ UNCHANGED <<http, clock, at, rpc, message, token, caller, age, why>>
      BY <1>3, <2>3 DEF Authenticate, ActorOf
    <3>2. ClocksAgree'  BY <3>1, ClocksRest
    <3>3. Identified(http)  BY <3>1 DEF Identified, AcceptsBearer
    <3>4. (actor = ActorOf(http) /\ Identified(http))'
      BY <3>1, <3>3 DEF ActorOf, Identified
    <3>5. EdgePassed'
      BY <2>1, <3>1, <3>4 DEF EdgePassed, Travelling, Stages
    <3> QED BY <2>1, <3>1, <3>2, <3>5 DEF CallFitsRequest, TokenFits, RefusedAtTheEdge, Travelling
  <2> QED BY <2>2, <2>3
<1> QED BY <1>1, <1>2, <1>3

(* A call that is sent: it is one of the request's, from the machine that   *)
(* has the request now.                                                     *)
LEMMA SendingKeeps ==
    ASSUME PathInv, stage \in {"known", "served"}, NEW c, Send(c),
           LeadsTo(http, c), c = Rpc(c.to, c.rpc, c.m), Decoded(http),
           c.to = "user" => c.rpc # "GetJudgeProfile",
           c.to # "user" => at \in Machines /\ <<at, c.to>> \in Hops,
           c.to # "user" => (c.rpc = "GetJudgeProfile" => at = "judge")
    PROVE  PathInv'
<1>1. /\ stage' = "sent" /\ rpc' = c.rpc /\ message' = c.m /\ at' = c.to /\ age' = 0
      /\ UNCHANGED <<http, clock, actor, caller, why>>
  BY DEF Send
<1>2. ClocksAgree'  BY <1>1, ClocksRest DEF PathInv
<1>3. EdgePassed'
  BY <1>1 DEF PathInv, EdgePassed, Travelling, Stages
<1>4. CallFitsRequest'
  <2>1. Rpc(at, rpc, message)' = c  BY <1>1
  <2>2. Decoded(http)' BY <1>1 DEF Decoded, decodeTestcaseUpload
  <2>3. LeadsTo(http, Rpc(at, rpc, message))'  BY <1>1, <2>1 
  <2> QED BY <2>2, <2>3 DEF CallFitsRequest
<1>5. TokenFits'
  <2>1. CASE c.to = "user"
    BY <1>1, <2>1 DEF TokenFits
  <2>2. CASE c.to # "user"
    <3>1. PICK m \in Machines : m = at  BY <2>2
    <3>2. SignedBy(m)'  BY <2>2, <3>1, SigningFits DEF PathInv
    <3> QED BY <1>1, <2>2, <3>2 DEF TokenFits
  <2> QED BY <2>1, <2>2
<1> QED BY <1>1, <1>2, <1>3, <1>4, <1>5 DEF PathInv, RefusedAtTheEdge

(* The gateway calls a service, and a service the next one. *)
LEMMA CallServiceKeeps == ASSUME PathInv, CallService PROVE PathInv'
<1>1. at = "gateway" /\ stage = "known" /\ message = Bound(http) /\ actor = ActorOf(http)
  BY DEF CallService, PathInv, EdgePassed
<1>2. CASE Refuse("form")  BY <1>1, <1>2, RefusingAtTheEdge
<1>3. CASE ~Refuse("form")
  <2> DEFINE c == GatewayCall(http.op, Bound(http), ActorOf(http))
  <2>1. Send(c) /\ Decoded(http)
    BY <1>1, <1>3 DEF CallService, Decoded
  <2>2. http \in Requests  BY DEF PathInv
  <2>3. /\ c = Rpc(c.to, c.rpc, c.m) /\ c.rpc # "GetJudgeProfile"
        /\ c.to = "user" \/ <<"gateway", c.to>> \in Hops
    BY <2>2, FirstHop
  <2>4. LeadsTo(http, c)  BY DEF LeadsTo
  <2>5. "gateway" \in Machines  BY DEF Machines
  <2> HIDE DEF c
  <2> QED BY <1>1, <2>1, <2>3, <2>4, <2>5, SendingKeeps
<1> QED BY <1>2, <1>3

LEMMA CallNextKeeps == ASSUME PathInv, CallNext PROVE PathInv'
<1> DEFINE c == Rpc(at, rpc, message)
<1>1. PICK d \in FollowUps(rpc, message) : Send(d)
  BY DEF CallNext
<1>2. stage = "served" /\ http \in Requests /\ LeadsTo(http, c) /\ Decoded(http)
  BY DEF CallNext, PathInv, CallFitsRequest, Travelling
<1>3. c.to = at /\ c.rpc = rpc /\ c.m = message
  BY DEF Rpc
<1> HIDE DEF c
<1>4. d \in FollowUps(c.rpc, c.m)  BY <1>3
<1>5. LeadsTo(http, d)  BY <1>2, <1>4, CallsLeadOn
<1>6. /\ d = Rpc(d.to, d.rpc, d.m) /\ <<at, d.to>> \in Hops /\ d.to # "user"
      /\ d.rpc = "GetJudgeProfile" => at = "judge"
  BY <1>2, <1>3, <1>4, LaterHop
<1>7. at \in Machines  BY <1>6 DEF Hops, Machines
<1> QED BY <1>1, <1>2, <1>5, <1>6, <1>7, SendingKeeps

(* The next machine takes the token, and with it the actor. *)
LEMMA AdmitKeeps == ASSUME PathInv, Admit PROVE PathInv'
<1>1. stage = "sent" /\ age \in Nat /\ age < CallTimeout /\ actor = ActorOf(http)
  BY DEF Admit, PathInv, TokenFits, EdgePassed, Travelling
<1>2. at = "user" \/ (Verify(at, token, rpc) /\ token.actor = actor
                       /\ (rpc = "GetJudgeProfile" => token.subject = "judge-service"))
  <2> SUFFICES ASSUME at # "user"
               PROVE  Verify(at, token, rpc) /\ token.actor = actor
                      /\ (rpc = "GetJudgeProfile" => token.subject = "judge-service")
    OBVIOUS
  <2>1. PICK from \in Machines : SignedBy(from)
    BY <1>1 DEF PathInv, TokenFits
  <2>2. Verify(at, token, rpc)
    BY <1>1, <2>1, TokensAreInTime DEF PathInv
  <2>3. ASSUME rpc = "GetJudgeProfile" PROVE token.subject = "judge-service"
    <3>1. from = "judge" /\ at = "problem"  BY <2>1, <2>3 DEF SignedBy, Hops
    <3> QED BY <2>1, <3>1, ConfigAssumption DEF SignedBy
  <2> QED BY <2>1, <2>2, <2>3 DEF SignedBy
<1>3. /\ stage' = "admitted" /\ actor' = actor
      /\ caller' = IF at = "user" THEN "none" ELSE token.subject
      /\ UNCHANGED <<http, clock, at, rpc, message, token, age, why>>
  BY <1>1, <1>2 DEF Admit
<1>4. ClocksAgree'  BY <1>3, ClocksRest DEF PathInv
<1>5. EdgePassed'
  BY <1>1, <1>3 DEF PathInv, EdgePassed, Travelling, Stages
<1>6. CallFitsRequest'
  BY <1>1, <1>3 DEF PathInv, CallFitsRequest, Travelling, Decoded, decodeTestcaseUpload
<1>7. TokenFits'
  BY <1>1, <1>2, <1>3 DEF PathInv, TokenFits
<1> QED BY <1>3, <1>4, <1>5, <1>6, <1>7 DEF PathInv, RefusedAtTheEdge

(* A service checks form and actor again. *)
LEMMA ServeKeeps == ASSUME PathInv, Serve PROVE PathInv'
<1> DEFINE answer == Serves(rpc, message, [caller |-> caller, actor |-> actor], clock["contest"])
<1>1. stage = "admitted" /\ http \in Requests /\ actor = ActorOf(http)
  BY DEF Serve, PathInv, EdgePassed, Travelling
<1>2. answer = "ok" \/ answer \in OwnRefusals(http.op)
  <2> DEFINE c == Rpc(at, rpc, message)
  <2>1. c.rpc = rpc /\ c.m = message  BY DEF Rpc
  <2>2. LeadsTo(http, c) /\ Decoded(http) /\ GatewayRule(http.op, Bound(http)) /\ Identified(http)
    BY <1>1 DEF PathInv, CallFitsRequest, EdgePassed, Travelling
  <2>3. rpc = "GetJudgeProfile" => caller = "judge-service"
    BY <1>1 DEF PathInv, TokenFits
  <2> HIDE DEF c
  <2> QED BY <1>1, <2>1, <2>2, <2>3, CallsAreServed DEF LetThrough
<1>3. CASE answer = "ok"
  <2>1. stage' = "served" /\ UNCHANGED <<http, clock, at, rpc, message, token, actor, caller, age, why>>
    BY <1>3 DEF Serve
  <2>2. ClocksAgree'  BY <2>1, ClocksRest DEF PathInv
  <2>3. EdgePassed'
    BY <1>1, <2>1 DEF PathInv, EdgePassed, Travelling, Stages
  <2>4. CallFitsRequest'
    BY <1>1, <2>1 DEF PathInv, CallFitsRequest, Travelling, Decoded, decodeTestcaseUpload
  <2> QED BY <1>1, <2>1, <2>2, <2>3, <2>4 DEF PathInv, TokenFits, RefusedAtTheEdge
<1>4. CASE answer # "ok"
  <2>1. stage' = "refused" /\ why' = answer /\ UNCHANGED <<http, clock, at, rpc, message, token, actor, caller, age>>
    BY <1>4 DEF Serve, Refuse
  <2>2. ClocksAgree'  BY <2>1, ClocksRest DEF PathInv
  <2> HIDE DEF answer
  <2> QED BY <1>2, <1>4, <2>1, <2>2 DEF PathInv, EdgePassed, CallFitsRequest, TokenFits, RefusedAtTheEdge, Travelling, Stages
<1> QED BY <1>3, <1>4

(* Endings, and time on the way. *)
LEMMA RestKeeps == ASSUME PathInv, Complete \/ CallFails \/ CallTravels \/ UNCHANGED pathVars PROVE PathInv'
<1>1. CASE Complete \/ CallFails
  <2>1. stage' \in {"done", "failed"} /\ UNCHANGED <<http, clock, at, rpc, message, token, actor, caller, age, why>>
    BY <1>1 DEF Complete, CallFails, Finish
  <2>2. ClocksAgree'  BY <2>1, ClocksRest DEF PathInv
  <2> QED BY <2>1, <2>2 DEF PathInv, EdgePassed, CallFitsRequest, TokenFits, RefusedAtTheEdge, Travelling, Stages
<1>2. CASE CallTravels
  <2>1. /\ stage = "sent" /\ age' = age + 1 /\ clock' = [m \in Machines |-> clock[m] + 1]
        /\ UNCHANGED <<http, stage, at, rpc, message, token, actor, caller, why>>
    BY <1>2 DEF CallTravels
  <2>2. ClocksAgree'
    BY <2>1, PathAssumption DEF PathInv, ClocksAgree
  <2>3. EdgePassed'  BY <2>1 DEF PathInv, EdgePassed
  <2>4. CallFitsRequest'
    BY <2>1 DEF PathInv, CallFitsRequest, Decoded, decodeTestcaseUpload
  <2>5. ASSUME NEW from \in Machines, SignedBy(from) PROVE SignedBy(from)'
    <3>1. clock[from] \in Nat /\ clock'[from] = clock[from] + 1  BY <2>1 DEF PathInv, ClocksAgree
    <3>2. age \in Nat  BY <2>1 DEF PathInv, TokenFits
    <3> QED BY <2>1, <2>5, <3>1, <3>2 DEF SignedBy
  <2>6. TokenFits'
    BY <2>1, <2>5 DEF PathInv, TokenFits
  <2> QED BY <2>1, <2>2, <2>3, <2>4, <2>6 DEF PathInv, RefusedAtTheEdge
<1>3. CASE UNCHANGED pathVars
  <2>1. UNCHANGED <<http, clock, stage, at, rpc, message, token, actor, caller, age, why>>
    BY <1>3 DEF pathVars
  <2>2. ClocksAgree'  BY <2>1, ClocksRest DEF PathInv
  <2>3. CallFitsRequest'
    BY <2>1 DEF PathInv, CallFitsRequest, Decoded, decodeTestcaseUpload
  <2> QED BY <2>1, <2>2, <2>3 DEF PathInv, EdgePassed, TokenFits, RefusedAtTheEdge, SignedBy
<1> QED BY <1>1, <1>2, <1>3

(* PathInv holds in every state of the path, for every instance. *)
THEOREM PathInvariant == PathSpec => []PathInv
<1>1. PathInv /\ [PathNext]_pathVars => PathInv'
  BY EdgeStepsKeep, CallServiceKeeps, CallNextKeeps, AdmitKeeps, ServeKeeps, RestKeeps DEF PathNext
<1> QED BY <1>1, PathStarts, PTL DEF PathSpec

(* What the gateway let through no later hop refuses for a rule the        *)
(* gateway has as well, its token or its actor (the services' Validate     *)
(* against the gateway's, Verifier.Verify against Signer.Sign).  What is   *)
(* refused later is refused for what the services alone check: names that  *)
(* do not go with a case number, a contest normalizeUpdate refuses, that   *)
(* does not start in the future or comes without a version, an unsupported *)
(* language, the filters of ListSubmissions.                               *)
THEOREM RequestsAreRefusedAtTheEdge == PathSpec => []RefusedAtTheEdge
<1>1. PathInv => RefusedAtTheEdge  BY DEF PathInv
<1> QED BY <1>1, PathInvariant, PTL

(* Wherever a request is served, it acts for the user of its access token, *)
(* on the objects of its path and with the fields the client sent.         *)
THEOREM RequestsAreServedAsMade == PathSpec => []ServedAsRequested
<1>1. PathInv => ServedAsRequested
  <2> SUFFICES ASSUME PathInv, stage = "served"
               PROVE  actor = ActorOf(http) /\ SaysTheSame(http, message)
    BY DEF ServedAsRequested, ActorOf, SaysTheSame
  <2>1. actor = ActorOf(http)  BY DEF PathInv, EdgePassed, Travelling
  <2>2. LeadsTo(http, Rpc(at, rpc, message)) /\ http \in Requests  BY DEF PathInv, CallFitsRequest, Travelling
  <2>3. SaysTheSame(http, Rpc(at, rpc, message).m)  BY <2>2, EveryCallSaysTheSame
  <2> QED BY <2>1, <2>3 DEF Rpc
<1> QED BY <1>1, PathInvariant, PTL
=============================================================================
