-------------------------- MODULE LeaderboardCache --------------------------
(***************************************************************************)
(* The Redis leaderboard of one contest.  MySQL keeps every user's result  *)
(* under a version and an outbox row per version; relays apply the rows to *)
(* Redis; builders replace a missing, damaged or old generation by a fresh *)
(* one loaded from a MySQL snapshot; readers are served from the active    *)
(* generation only while it is known to be fresh enough.                   *)
(*                                                                         *)
(* A Lua script is one atomic step.  A snapshot of a user is abstracted to *)
(* its version, a generation to the version it holds per user.  The keys   *)
(* "lease" and "building" are written, renewed, deleted and expire         *)
(* together, as do the pointer "active" and the keys of its generation, so *)
(* each pair is one variable.  Any structural damage of a generation (a    *)
(* failed write, an evicted key) makes its scripts return -1: "dirty".     *)
(* Every script compares a pointer first, so a generation that no pointer  *)
(* names is out of reach: it is forgotten at once, not when its keys end.  *)
(***************************************************************************)
EXTENDS Integers, FiniteSets

CONSTANTS
    CachedUsers,
    MaxVersion,     \* bound on a user's version
    Relays,         \* cache relay processes
    Builders,       \* cache maintenance processes
    Gens,           \* generation ids; one that nobody refers to stands for a fresh UUID
    Corrupt,        \* outbox rows <<user, version>> whose payload is invalid
    MaxAge,         \* maxCacheAge
    CallTimeout,    \* leaderboard_cache.timeout, less than MaxAge
    MaxCacheTime,   \* bound on the clock
    MaxFaults       \* bound on crashes, stalls, damage and failed builds

NoGen == "none"
Never == -1
Versions == 1..MaxVersion
Rows == CachedUsers \X Versions

ASSUME CacheBounds ==
    /\ MaxVersion \in Nat /\ MaxCacheTime \in Nat /\ MaxFaults \in Nat
    /\ MaxAge \in Nat /\ CallTimeout \in 0..MaxAge
    /\ NoGen \notin Gens /\ Corrupt \subseteq Rows

VARIABLES
    version,        \* contest_user_results.version, 0 for no row
    queue,          \* contest_cache_outbox
    gens,           \* generations in Redis
    active,         \* pointer to the serving generation
    building,       \* pointer to the build target, which is also the build lease
    relay,          \* the event each relay is applying
    builder,        \* the maintenance task each builder is running
    now,            \* MySQL's and Redis's clocks
    faults

cacheVars == <<version, queue, gens, active, building, relay, builder, now, faults>>

NoRow == [status |-> "none", owner |-> NoGen, leased |-> FALSE, createdAt |-> 0]
NoGeneration == [state |-> "none", entries |-> [u \in CachedUsers |-> 0], previous |-> NoGen,
                 checked |-> Never, lag |-> 0, overrun |-> 0]
IdleRelay == [pc |-> "idle"]
IdleBuilder == [pc |-> "idle"]

CacheInit ==
    /\ version = [u \in CachedUsers |-> 0]
    /\ queue = [row \in Rows |-> NoRow]
    /\ gens = [g \in Gens |-> NoGeneration]
    /\ active = NoGen
    /\ building = NoGen
    /\ relay = [r \in Relays |-> IdleRelay]
    /\ builder = [b \in Builders |-> IdleBuilder]
    /\ now = 0
    /\ faults = 0

Kept(gs, pointers) == [g \in Gens |-> IF g \in pointers THEN gs[g] ELSE NoGeneration]

Fault == faults < MaxFaults /\ faults' = faults + 1

\* enqueueLeaderboard commits: see ContestProjection.  created_at is taken a little
\* before the commit, which can only make the row look older than it is.
Project(u) ==
    /\ version[u] < MaxVersion
    /\ version' = [version EXCEPT ![u] = @ + 1]
    /\ queue' = [queue EXCEPT ![<<u, version[u] + 1>>] =
                   [status |-> "pending", owner |-> NoGen, leased |-> FALSE, createdAt |-> now]]
    /\ UNCHANGED <<gens, active, building, relay, builder, now, faults>>

-----------------------------------------------------------------------------
(***************************************************************************)
(* CacheRelay.RunOnce.  Which pending row is the first that is due depends *)
(* on the retry delays, so any unleased pending row may be claimed.  A     *)
(* relay works on one event at a time, so its id stands for its token.     *)
(***************************************************************************)
ClaimCacheEvent(r, row) ==
    /\ relay[r].pc = "idle"
    /\ queue[row].status = "pending" /\ ~queue[row].leased
    /\ queue' = [queue EXCEPT ![row].owner = r, ![row].leased = TRUE]
    /\ relay' = [relay EXCEPT ![r] = [pc |-> "claimed", row |-> row]]
    /\ UNCHANGED <<version, gens, active, building, builder, now, faults>>

\* cacheLeaseResult: the update counts only under the relay's own live lease.
LeaseHeld(r) ==
    LET row == queue[relay[r].row] IN row.status = "pending" /\ row.owner = r /\ row.leased

FinishRow(r, status) ==
    /\ queue' = IF LeaseHeld(r)
                THEN [queue EXCEPT ![relay[r].row] = [@ EXCEPT !.status = status, !.owner = NoGen, !.leased = FALSE]]
                ELSE queue
    /\ relay' = [relay EXCEPT ![r] = IdleRelay]
    /\ UNCHANGED <<version, gens, active, building, builder, now, faults>>

RejectSnapshot(r) ==
    relay[r].pc = "claimed" /\ relay[r].row \in Corrupt /\ FinishRow(r, "dead")

\* Apply reads the pointers first and pins them in the script's arguments.
ReadPointers(r) ==
    /\ relay[r].pc = "claimed" /\ relay[r].row \notin Corrupt
    /\ relay' = [relay EXCEPT ![r] = [pc |-> "pinned", row |-> @.row, active |-> active, building |-> building]]
    /\ UNCHANGED <<version, queue, gens, active, building, builder, now, faults>>

\* updateLeaderboardLua: the version fence shared by relays and snapshot loads.
Updated_Unfenced(gen, u, v) == [gen EXCEPT !.entries[u] = v]         \* seeded defect
Updated(gen, u, v) == IF v <= gen.entries[u] THEN gen ELSE [gen EXCEPT !.entries[u] = v]
Sound(gen) == gen.state \in {"building", "ready"}

PointersUnchanged(r) == relay[r].active = active /\ relay[r].building = building

\* relayLeaderboard writes the active generation and the build target at once.
Targets_ActiveOnly(r) ==         \* seeded defect: the build target is not written beside the active generation
    (IF relay[r].active # NoGen THEN {relay[r].active} ELSE {relay[r].building}) \ {NoGen}
Targets(r) == {relay[r].active, relay[r].building} \ {NoGen}

ApplySnapshot(r) ==
    LET u == relay[r].row[1]
        v == relay[r].row[2]
        runs == PointersUnchanged(r) /\ Targets(r) # {}
    IN
    /\ relay[r].pc = "pinned"
    /\ gens' = [g \in Gens |-> IF runs /\ g \in Targets(r) /\ Sound(gens[g])
                               THEN Updated(gens[g], u, v) ELSE gens[g]]
    /\ relay' = [relay EXCEPT ![r] =
                   [pc |-> IF runs /\ \A g \in Targets(r) : Sound(gens[g]) THEN "applied" ELSE "failed",
                    row |-> @.row]]
    /\ UNCHANGED <<version, queue, active, building, builder, now, faults>>

\* Redis is away or too slow: before the script, or after it with the reply lost.
ApplyErrors(r) ==
    /\ relay[r].pc \in {"claimed", "pinned", "applied"} /\ relay[r].row \notin Corrupt /\ Fault
    /\ relay' = [relay EXCEPT ![r] = [pc |-> "failed", row |-> @.row]]
    /\ UNCHANGED <<version, queue, gens, active, building, builder, now>>

CompleteCacheEvent(r) == relay[r].pc = "applied" /\ FinishRow(r, "applied")

\* FailCacheEvent schedules a retry; there is no limit on retries.
FailCacheEvent_GivesUp(r) == relay[r].pc = "failed" /\ FinishRow(r, "dead")      \* seeded defect
FailCacheEvent(r) == relay[r].pc = "failed" /\ FinishRow(r, "pending")

\* The relay is stopped or dies, or its last update of the row fails.
RelayDies(r) ==
    /\ relay[r].pc # "idle" /\ Fault
    /\ relay' = [relay EXCEPT ![r] = IdleRelay]
    /\ UNCHANGED <<version, queue, gens, active, building, builder, now>>

\* lease_until passes; while the holder is at work this takes a stall.
EventLeaseLapses(row) ==
    /\ queue[row].status = "pending" /\ queue[row].leased
    /\ IF \E r \in Relays : relay[r].pc # "idle" /\ relay[r].row = row /\ queue[row].owner = r
       THEN Fault ELSE UNCHANGED faults
    /\ queue' = [queue EXCEPT ![row].leased = FALSE]
    /\ UNCHANGED <<version, gens, active, building, relay, builder, now>>

-----------------------------------------------------------------------------
(***************************************************************************)
(* RebuildLeaderboard.                                                     *)
(***************************************************************************)
Referenced ==
    {active, building}
    \cup {relay[r].active : r \in {x \in Relays : relay[x].pc = "pinned"}}
    \cup {relay[r].building : r \in {x \in Relays : relay[x].pc = "pinned"}}
    \cup {builder[b].gen : b \in {x \in Builders : builder[x].pc # "idle"}}
    \cup {gens[g].previous : g \in {building} \ {NoGen}}

\* Registration comes before the first MySQL read.  A rebuild is due when the
\* generation is missing or damaged, and every five minutes in any case.
BeginBuild(b) ==
    LET g == CHOOSE fresh \in Gens : fresh \notin Referenced IN
    /\ builder[b].pc = "idle" /\ building = NoGen /\ ~(Gens \subseteq Referenced)
    /\ gens' = [gens EXCEPT ![g] = [NoGeneration EXCEPT !.state = "building", !.previous = active]]
    /\ building' = g
    /\ builder' = [builder EXCEPT ![b] = [pc |-> "begun", gen |-> g]]
    /\ UNCHANGED <<version, queue, active, relay, now, faults>>

\* StreamLeaderboard opens its REPEATABLE READ view.
TakeSnapshot(b) ==
    /\ builder[b].pc = "begun"
    /\ builder' = [builder EXCEPT ![b] = [pc |-> "loading", gen |-> @.gen, view |-> version,
                                          todo |-> {u \in CachedUsers : version[u] > 0}]]
    /\ UNCHANGED <<version, queue, gens, active, building, relay, now, faults>>

OwnsBuild(b) == building = builder[b].gen /\ gens[builder[b].gen].state = "building"

LoadUser(b, u) ==
    /\ builder[b].pc = "loading" /\ u \in builder[b].todo /\ OwnsBuild(b)
    /\ gens' = [gens EXCEPT ![builder[b].gen] = Updated(@, u, builder[b].view[u])]
    /\ builder' = [builder EXCEPT ![b].todo = @ \ {u}]
    /\ UNCHANGED <<version, queue, active, building, relay, now, faults>>

\* activateBuild: the switch, if nobody else switched since BeginBuild.
ActivateBuild(b) ==
    LET g == builder[b].gen IN
    /\ builder[b].pc = "loading" /\ builder[b].todo = {} /\ OwnsBuild(b)
    /\ active \in {NoGen, gens[g].previous}
    /\ gens' = Kept([gens EXCEPT ![g].state = "ready"], {g})
    /\ active' = g
    /\ building' = NoGen
    /\ builder' = [builder EXCEPT ![b] = [pc |-> "activated", gen |-> g]]
    /\ UNCHANGED <<version, queue, relay, now, faults>>

\* The build fails: because a script refused it, or on an error, a timeout or
\* a cancelled context at any point.  AbandonBuild releases the builder's own lease.
AbandonBuild(b) ==
    /\ builder[b].pc \in {"begun", "loading"}
    /\ IF builder[b].pc = "loading" /\ ~OwnsBuild(b) THEN UNCHANGED faults ELSE Fault
    /\ building' = IF building = builder[b].gen THEN NoGen ELSE building
    /\ gens' = Kept(gens, {active, building'})
    /\ builder' = [builder EXCEPT ![b] = IdleBuilder]
    /\ UNCHANGED <<version, queue, active, relay, now>>

BuilderDies(b) ==
    /\ builder[b].pc # "idle" /\ Fault
    /\ builder' = [builder EXCEPT ![b] = IdleBuilder]
    /\ UNCHANGED <<version, queue, gens, active, building, relay, now>>

\* The build lease runs out once nobody renews it; under a live builder only
\* when its renewals stall.
BuildLeaseExpires ==
    /\ building # NoGen
    /\ IF \E b \in Builders : builder[b].pc # "idle" /\ builder[b].gen = building
       THEN Fault ELSE UNCHANGED faults
    /\ building' = NoGen
    /\ gens' = Kept(gens, {active})
    /\ UNCHANGED <<version, queue, active, relay, builder, now>>

-----------------------------------------------------------------------------
(***************************************************************************)
(* verifyLeaderboard: the age of the oldest undelivered row, taken from    *)
(* MySQL, is recorded in the generation together with Redis's time.  The   *)
(* caller gives up after CallTimeout, but the timeout only ends its wait:  *)
(* a script already sent may still run later on a stalled server.  Then    *)
(* the builder stands for its script, and others go on in its place.       *)
(* overrun is a history of the model: how long after its caller's timeout  *)
(* the script of the last check ran.                                       *)
(***************************************************************************)
Undelivered_NoDead == {row \in Rows : queue[row].status = "pending"}     \* seeded defect
Undelivered == {row \in Rows : queue[row].status \in {"pending", "dead"}}
OldestAge == IF Undelivered = {} THEN 0
             ELSE now - (CHOOSE t \in 0..now : /\ \E row \in Undelivered : queue[row].createdAt = t
                                               /\ \A row \in Undelivered : t <= queue[row].createdAt)
Lag == IF OldestAge > MaxAge THEN MaxAge + 1 ELSE OldestAge + CallTimeout

\* Maintenance verifies the active generation; a builder the one it activated.
ReadLag(b) ==
    LET g == IF builder[b].pc = "activated" THEN builder[b].gen ELSE active IN
    /\ builder[b].pc \in {"idle", "activated"} /\ g # NoGen
    /\ builder' = [builder EXCEPT ![b] = [pc |-> "verifying", gen |-> g, lag |-> Lag, readAt |-> now]]
    /\ UNCHANGED <<version, queue, gens, active, building, relay, now, faults>>

Overrun(waited) == IF waited > CallTimeout THEN waited - CallTimeout ELSE 0

VerifyFreshness(b) ==
    LET g == builder[b].gen IN
    /\ builder[b].pc = "verifying"
    /\ gens' = IF active = g /\ gens[g].state = "ready"
               THEN [gens EXCEPT ![g].checked = now, ![g].lag = builder[b].lag,
                                 ![g].overrun = Overrun(now - builder[b].readAt)]
               ELSE gens
    /\ builder' = [builder EXCEPT ![b] = IdleBuilder]
    /\ UNCHANGED <<version, queue, active, building, relay, now, faults>>

VerifyTimesOut(b) ==
    /\ builder[b].pc = "verifying" /\ now - builder[b].readAt > CallTimeout
    /\ builder' = [builder EXCEPT ![b] = IdleBuilder]
    /\ UNCHANGED <<version, queue, gens, active, building, relay, now, faults>>

-----------------------------------------------------------------------------
\* The pointer and its generation expire together (ten minutes without a check).
ActiveExpires ==
    /\ active # NoGen /\ Fault
    /\ active' = NoGen
    /\ gens' = Kept(gens, {building})
    /\ UNCHANGED <<version, queue, building, relay, builder, now>>

\* A write fails half way or a key of the generation is evicted.
Damage(g) ==
    /\ g \in {active, building} /\ Sound(gens[g]) /\ Fault
    /\ gens' = [gens EXCEPT ![g].state = "dirty"]
    /\ UNCHANGED <<version, queue, active, building, relay, builder, now>>

CacheTick ==
    /\ now < MaxCacheTime
    /\ now' = now + 1
    /\ UNCHANGED <<version, queue, gens, active, building, relay, builder, faults>>

Relaying(r) ==
    RejectSnapshot(r) \/ ReadPointers(r) \/ ApplySnapshot(r) \/ CompleteCacheEvent(r) \/ FailCacheEvent(r)

Building(b) ==
    \/ TakeSnapshot(b)
    \/ \E u \in CachedUsers : LoadUser(b, u)
    \/ ActivateBuild(b)
    \/ AbandonBuild(b)

Verifying(b) == VerifyFreshness(b) \/ VerifyTimesOut(b)

CacheNext ==
    \/ \E u \in CachedUsers : Project(u)
    \/ \E r \in Relays : (\E row \in Rows : ClaimCacheEvent(r, row)) \/ Relaying(r)
                         \/ ApplyErrors(r) \/ RelayDies(r)
    \/ \E row \in Rows : EventLeaseLapses(row)
    \/ \E b \in Builders :
         \/ BeginBuild(b) \/ ReadLag(b)
         \/ Building(b) \/ Verifying(b) \/ BuilderDies(b)
    \/ BuildLeaseExpires \/ ActiveExpires \/ \E g \in Gens : Damage(g)
    \/ CacheTick

CacheSpec == CacheInit /\ [][CacheNext]_cacheVars

-----------------------------------------------------------------------------
Healthy(g) == g # NoGen /\ gens[g].state = "ready"

\* readLeaderboard answers: the generation is whole and its check recent enough.
Serves == /\ Healthy(active) /\ gens[active].checked # Never
          /\ now - gens[active].checked + gens[active].lag <= MaxAge

(***************************************************************************)
(* An update the relay marked applied is never missing from the board: the *)
(* active generation holds that version or a newer one, although builds    *)
(* start, take their snapshot, load it and switch at any moment between    *)
(* the relay's steps.                                                      *)
(***************************************************************************)
AppliedIsCached ==
    Healthy(active) => \A row \in Rows : queue[row].status = "applied" => gens[active].entries[row[1]] >= row[2]

(***************************************************************************)
(* What readers are served is at most MaxAge old, and older only by as     *)
(* much as the last check's script ran past its caller's timeout: every    *)
(* result committed before that is on the board, whatever rows are still   *)
(* undelivered, dead or waiting for a retry (verifyLeaderboard adds the    *)
(* call's timeout to the lag it read; readLeaderboard adds the check's     *)
(* age).                                                                   *)
(***************************************************************************)
ServedIsFresh ==
    Serves => \A row \in Rows :
      row[2] <= version[row[1]] /\ now - queue[row].createdAt > MaxAge + gens[active].overrun
        => gens[active].entries[row[1]] >= row[2]

(***************************************************************************)
(* The board never goes back: neither an old snapshot loaded late, nor a   *)
(* delayed relay, nor the switch to another generation lowers the version  *)
(* shown for a user.                                                       *)
(***************************************************************************)
BoardNeverGoesBack ==
    [][Healthy(active) /\ Healthy(active)' =>
         \A u \in CachedUsers : gens[active].entries[u] <= gens'[active'].entries[u]]_cacheVars

(***************************************************************************)
(* The relay and maintenance servers loop for ever; leases run out; a row  *)
(* is claimed again and again until it is delivered (each failure delays   *)
(* it, so every pending row gets its turn).  A build is started by         *)
(* maintenance when the active generation is missing or damaged.           *)
(***************************************************************************)
RebuildDue(b) == ~Healthy(active) /\ BeginBuild(b)

CacheFairness ==
    /\ \A r \in Relays : WF_cacheVars(Relaying(r))
    /\ \A row \in Rows : SF_cacheVars(\E r \in Relays : ClaimCacheEvent(r, row))
    /\ \A row \in Rows : WF_cacheVars(EventLeaseLapses(row))
    /\ \A b \in Builders : /\ WF_cacheVars(Building(b)) /\ WF_cacheVars(Verifying(b))
                            /\ WF_cacheVars(builder[b].pc = "activated" /\ ReadLag(b))
    /\ SF_cacheVars(\E b \in Builders : RebuildDue(b))
    /\ WF_cacheVars(BuildLeaseExpires)

FairCacheSpec == CacheSpec /\ CacheFairness

(***************************************************************************)
(* Every committed result reaches the board, although relays and builders  *)
(* die, leases lapse and generations are damaged or expire.                *)
(***************************************************************************)
OnBoard(u, v) == Healthy(active) /\ gens[active].entries[u] >= v
EventuallyOnBoard ==
    \A u \in CachedUsers, v \in Versions : <<u, v>> \notin Corrupt => (version[u] >= v ~> OnBoard(u, v))
=============================================================================
