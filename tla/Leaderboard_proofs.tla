------------------------- MODULE Leaderboard_proofs --------------------------
(***************************************************************************)
(* Proofs about the Redis cache of the leaderboard and about the readers'  *)
(* fallback to MySQL.  The two modules share no variable.                  *)
(***************************************************************************)
EXTENDS LeaderboardCache, LeaderboardReads, FiniteSetTheorems, TLAPS

-----------------------------------------------------------------------------
(***************************************************************************)
(* The cache.  A row counts as delivered from the moment the relay's       *)
(* script has run, before it is marked.  What is delivered is on the       *)
(* serving board, and a build that has taken its snapshot holds it already *)
(* or will when the user is loaded; the same goes for whatever else the    *)
(* serving board shows.  So nothing is lost at the switch.                 *)
(***************************************************************************)
Pointers == Gens \cup {NoGen}
RowRecords == [status : {"none", "pending", "dead", "applied"}, owner : Relays \cup {NoGen},
               leased : BOOLEAN, createdAt : Nat]
GenRecords == [state : {"none", "building", "ready", "dirty"}, entries : [CachedUsers -> Nat],
               previous : Pointers, checked : Int, lag : Nat, overrun : Nat]

Committed(row) == row[2] <= version[row[1]]

RelayShape(x) ==
    \/ x.pc = "idle"
    \/ x.pc \in {"claimed", "pinned", "applied", "failed"} /\ x.row \in Rows /\ Committed(x.row)

BuilderShape(x) ==
    \/ x.pc = "idle"
    \/ x.pc \in {"begun", "activated"} /\ x.gen \in Gens
    \/ x.pc = "verifying" /\ x.gen \in Gens /\ x.lag \in Nat /\ x.readAt \in Nat
    \/ /\ x.pc = "loading" /\ x = [pc |-> x.pc, gen |-> x.gen, view |-> x.view, todo |-> x.todo]
       /\ x.gen \in Gens /\ x.view \in [CachedUsers -> Nat] /\ x.todo \in SUBSET CachedUsers

CacheTyped ==
    /\ version \in [CachedUsers -> Nat] /\ now \in Nat
    /\ queue \in [Rows -> RowRecords]
    /\ gens \in [Gens -> GenRecords]
    /\ active \in Pointers /\ building \in Pointers
    /\ relay = [r \in Relays |-> relay[r]] /\ \A r \in Relays : RelayShape(relay[r])
    /\ builder = [b \in Builders |-> builder[b]] /\ \A b \in Builders : BuilderShape(builder[b])

(* A version has its row, and no row or entry is ahead of its user. *)
RowsMatchVersions ==
    /\ \A row \in Rows :
         IF Committed(row) THEN queue[row].status \in {"pending", "dead", "applied"} /\ queue[row].createdAt <= now
         ELSE queue[row].status = "none"
    /\ \A g \in Gens, u \in CachedUsers : gens[g].entries[u] <= version[u]

Delivered(row) ==
    \/ queue[row].status = "applied"
    \/ \E r \in Relays : relay[r].pc = "applied" /\ relay[r].row = row

BoardHolds ==
    Healthy(active) => \A row \in Rows : Delivered(row) => row[2] <= gens[active].entries[row[1]]

(* The build holds version v of the user, or will once it has loaded him. *)
Reaches(b, u, v) ==
    v <= gens[building].entries[u] \/ (u \in builder[b].todo /\ v <= builder[b].view[u])
BuildCatchesUp(b) ==
    /\ \A u \in CachedUsers : builder[b].view[u] <= version[u]
    /\ \A row \in Rows : Delivered(row) => Reaches(b, row[1], row[2])
    /\ Healthy(active) => \A u \in CachedUsers : Reaches(b, u, gens[active].entries[u])
BuildsCatchUp == \A b \in Builders : builder[b].pc = "loading" /\ OwnsBuild(b) => BuildCatchesUp(b)

CacheInv == CacheTyped /\ RowsMatchVersions /\ BoardHolds /\ BuildsCatchUp

(***************************************************************************)
(* Freshness.  Whatever is neither marked applied nor younger than the lag *)
(* allows would have been counted when the lag was read.                   *)
(***************************************************************************)
LagCovers(at, lag) ==
    /\ at <= now + lag
    /\ \/ lag > MaxAge
       \/ \A row \in Rows : Committed(row) => queue[row].status = "applied" \/ at <= queue[row].createdAt + lag
LagsAreTrue ==
    /\ \A b \in Builders : builder[b].pc = "verifying" => LagCovers(builder[b].readAt + CallTimeout, builder[b].lag)
    /\ \A g \in Gens : gens[g].checked # Never => gens[g].checked <= now /\ LagCovers(gens[g].checked - gens[g].overrun, gens[g].lag)
FreshInv == CacheInv /\ LagsAreTrue

-----------------------------------------------------------------------------
LEMMA RowFacts ==
    ASSUME NEW row \in Rows
    PROVE  row[1] \in CachedUsers /\ row[2] \in Nat \ {0} /\ row = <<row[1], row[2]>>
BY CacheBounds DEF Rows, Versions

LEMMA CacheTypes ==
    ASSUME CacheTyped
    PROVE  /\ \A u \in CachedUsers : version[u] \in Nat
           /\ \A row \in Rows : queue[row] \in RowRecords /\ queue[row].createdAt \in Nat
           /\ \A g \in Gens : gens[g] \in GenRecords /\ gens[g].lag \in Nat /\ gens[g].checked \in Int /\ gens[g].overrun \in Nat
           /\ \A g \in Gens, u \in CachedUsers : gens[g].entries[u] \in Nat
           /\ now \in Nat
<1>1. \A row \in Rows : queue[row] \in RowRecords
  BY DEF CacheTyped
<1>2. \A g \in Gens : gens[g] \in GenRecords
  BY DEF CacheTyped
<1>3. \A g \in Gens : gens[g].entries \in [CachedUsers -> Nat] /\ gens[g].lag \in Nat /\ gens[g].checked \in Int /\ gens[g].overrun \in Nat
  BY <1>2 DEF GenRecords
<1>4. \A row \in Rows : queue[row].createdAt \in Nat
  BY <1>1 DEF RowRecords
<1> QED
  BY <1>1, <1>2, <1>3, <1>4 DEF CacheTyped

(* The empty cache satisfies the invariant. *)
LEMMA NoGenerationTyped == NoGeneration \in GenRecords /\ NoGeneration.entries = [u \in CachedUsers |-> 0]
                           /\ NoGeneration.state = "none" /\ NoGeneration.checked = Never
<1>1. [u \in CachedUsers |-> 0] \in [CachedUsers -> Nat]
  OBVIOUS
<1> QED
  BY <1>1 DEF NoGeneration, GenRecords, Never, Pointers

LEMMA CacheInvInit == CacheInit => FreshInv
<1> SUFFICES ASSUME CacheInit PROVE FreshInv
  OBVIOUS
<1>1. \A row \in Rows : queue[row] = NoRow
  BY DEF CacheInit
<1>2. NoRow.status = "none" /\ NoRow \in RowRecords
  BY DEF NoRow, RowRecords
<1>3. \A g \in Gens : gens[g] = NoGeneration
  BY DEF CacheInit
<1>4. (\A r \in Relays : relay[r].pc = "idle") /\ (\A b \in Builders : builder[b].pc = "idle")
  BY DEF CacheInit, IdleRelay, IdleBuilder
<1>5. CacheTyped
  <2>1. version \in [CachedUsers -> Nat] /\ now \in Nat /\ active \in Pointers /\ building \in Pointers
    BY DEF CacheInit, Pointers
  <2>2. queue \in [Rows -> RowRecords]
    BY <1>2 DEF CacheInit
  <2>3. gens \in [Gens -> GenRecords]
    BY NoGenerationTyped DEF CacheInit
  <2>4. relay = [r \in Relays |-> relay[r]] /\ builder = [b \in Builders |-> builder[b]]
    BY DEF CacheInit
  <2>5. (\A r \in Relays : RelayShape(relay[r])) /\ (\A b \in Builders : BuilderShape(builder[b]))
    BY <1>4 DEF RelayShape, BuilderShape
  <2> QED
    BY <2>1, <2>2, <2>3, <2>4, <2>5 DEF CacheTyped
<1>6. RowsMatchVersions
  <2>1. \A row \in Rows : ~Committed(row)
    BY RowFacts DEF Committed, CacheInit
  <2>2. \A g \in Gens, u \in CachedUsers : gens[g].entries[u] = 0 /\ version[u] = 0
    BY <1>3, NoGenerationTyped DEF CacheInit
  <2> QED
    BY <2>1, <2>2, <1>1, <1>2 DEF RowsMatchVersions
<1>7. BoardHolds
  BY DEF BoardHolds, Healthy, CacheInit
<1>8. BuildsCatchUp
  BY <1>4 DEF BuildsCatchUp
<1>9. LagsAreTrue
  BY <1>3, <1>4, NoGenerationTyped DEF LagsAreTrue
<1> QED
  BY <1>5, <1>6, <1>7, <1>8, <1>9 DEF FreshInv, CacheInv

(***************************************************************************)
(* Most steps add nothing to a board and start no build: generations are   *)
(* kept, damaged or dropped, rows are claimed or finished.                 *)
(***************************************************************************)
RowMoves(row) ==
    /\ queue'[row].createdAt = queue[row].createdAt
    /\ \/ queue'[row].status = queue[row].status
       \/ queue[row].status = "pending" /\ queue'[row].status \in {"pending", "dead", "applied"}
GenShrinks(g) ==
    \/ /\ gens'[g].entries = gens[g].entries
       /\ gens'[g].state = gens[g].state \/ gens'[g].state = "dirty"
    \/ gens'[g] = NoGeneration /\ g \notin {active', building'}

Shrinks ==
    /\ version' = version /\ now <= now'
    /\ active' \in {active, NoGen} /\ building' \in {building, NoGen}
    /\ \A row \in Rows : RowMoves(row)
    /\ \A row \in Rows : Delivered(row)' => Delivered(row)
    /\ \A g \in Gens : GenShrinks(g)
    /\ \A b \in Builders : builder'[b].pc = "loading" => builder'[b] = builder[b]

(* The board shows no user an older version than before. *)
BoardGoesOn ==
    Healthy(active) /\ Healthy(active)' => \A u \in CachedUsers : gens[active].entries[u] <= gens'[active'].entries[u]

LEMMA ShrinkStep ==
    ASSUME CacheInv, CacheTyped', Shrinks
    PROVE  CacheInv' /\ BoardGoesOn
<1> USE DEF CacheInv
<1>1. RowsMatchVersions'
  <2>1. ASSUME NEW row \in Rows
        PROVE  IF Committed(row)' THEN queue'[row].status \in {"pending", "dead", "applied"} /\ queue'[row].createdAt <= now'
               ELSE queue'[row].status = "none"
    <3>1. Committed(row)' <=> Committed(row)
      BY DEF Shrinks, Committed
    <3>2. RowMoves(row) /\ now <= now' /\ now \in Nat /\ now' \in Nat /\ queue[row].createdAt \in Nat
      BY CacheTypes DEF Shrinks, CacheTyped
    <3> QED
      BY <3>1, <3>2 DEF RowsMatchVersions, RowMoves
  <2>2. ASSUME NEW g \in Gens, NEW u \in CachedUsers PROVE gens'[g].entries[u] <= version'[u]
    <3>1. gens'[g].entries[u] = gens[g].entries[u] \/ gens'[g].entries[u] = 0
      BY NoGenerationTyped DEF Shrinks, GenShrinks
    <3>2. version'[u] = version[u] /\ version[u] \in Nat
      BY CacheTypes DEF Shrinks
    <3> QED
      BY <3>1, <3>2 DEF RowsMatchVersions
  <2> QED
    BY <2>1, <2>2 DEF RowsMatchVersions
<1>2. ASSUME Healthy(active)'
      PROVE  active' = active /\ Healthy(active) /\ gens'[active].entries = gens[active].entries
  <2>1. active' = active /\ active \in Gens
    BY <1>2 DEF Healthy, Shrinks, CacheTyped, Pointers
  <2>2. GenShrinks(active)
    BY <2>1 DEF Shrinks
  <2> QED
    BY <1>2, <2>1, <2>2, NoGenerationTyped DEF Healthy, GenShrinks
<1>3. BoardHolds'
  <2> SUFFICES ASSUME Healthy(active)', NEW row \in Rows, Delivered(row)'
               PROVE  row[2] <= gens'[active'].entries[row[1]]
    BY DEF BoardHolds
  <2>1. Delivered(row)
    BY DEF Shrinks
  <2> QED
    BY <2>1, <1>2 DEF BoardHolds
<1>4. BuildsCatchUp'
  <2> SUFFICES ASSUME NEW b \in Builders, builder'[b].pc = "loading", OwnsBuild(b)'
               PROVE  BuildCatchesUp(b)'
    BY DEF BuildsCatchUp
  <2>1. builder'[b] = builder[b] /\ building' = builder[b].gen /\ gens'[building'].state = "building"
    BY DEF Shrinks, OwnsBuild
  <2>2. builder[b].gen \in Gens
    BY <2>1 DEF CacheTyped, BuilderShape
  <2>3. building' = building /\ building \in Gens
    BY <2>1, <2>2, CacheBounds DEF Shrinks
  <2>4. gens'[building].entries = gens[building].entries /\ gens[building].state = "building"
    BY <2>1, <2>3, NoGenerationTyped DEF Shrinks, GenShrinks
  <2>5. BuildCatchesUp(b)
    BY <2>1, <2>3, <2>4 DEF BuildsCatchUp, OwnsBuild
  <2>6. \A u, v : Reaches(b, u, v) => Reaches(b, u, v)'
    BY <2>1, <2>3, <2>4 DEF Reaches
  <2>7. \A u \in CachedUsers : builder'[b].view[u] <= version'[u]
    BY <2>1, <2>5 DEF BuildCatchesUp, Shrinks
  <2>8. \A row \in Rows : Delivered(row)' => Reaches(b, row[1], row[2])'
    BY <2>5, <2>6 DEF BuildCatchesUp, Shrinks
  <2>9. Healthy(active)' => \A u \in CachedUsers : Reaches(b, u, gens[active].entries[u])'
    <3> SUFFICES ASSUME Healthy(active)', NEW u \in CachedUsers PROVE Reaches(b, u, gens[active].entries[u])'
      OBVIOUS
    <3>1. Reaches(b, u, gens[active].entries[u])
      BY <1>2, <2>5 DEF BuildCatchesUp
    <3> QED
      BY <3>1, <1>2, <2>1, <2>3, <2>4 DEF Reaches
  <2> QED
    BY <2>7, <2>8, <2>9 DEF BuildCatchesUp
<1>5. BoardGoesOn
  <2> SUFFICES ASSUME Healthy(active)', NEW u \in CachedUsers PROVE gens[active].entries[u] <= gens'[active'].entries[u]
    BY DEF BoardGoesOn
  <2>1. active \in Gens
    BY <1>2 DEF Healthy, CacheTyped, Pointers
  <2>2. gens[active].entries[u] \in Nat
    BY <2>1, CacheTypes
  <2> QED
    BY <2>2, <1>2
<1> QED
  BY <1>1, <1>3, <1>4, <1>5

(* One relay's or one builder's state is replaced. *)
SetsRelay(r, x) ==
    /\ relay' = [q \in Relays |-> relay'[q]] /\ (\A q \in Relays : RelayShape(relay[q])')
    /\ relay'[r] = x /\ \A q \in Relays \ {r} : relay'[q] = relay[q]

LEMMA SetRelay ==
    ASSUME CacheTyped, version' = version, NEW r \in Relays, NEW x, RelayShape(x), relay' = [relay EXCEPT ![r] = x]
    PROVE  SetsRelay(r, x)
<1>1. relay = [q \in Relays |-> relay[q]]
  BY DEF CacheTyped
<1>2. relay'[r] = x /\ \A q \in Relays \ {r} : relay'[q] = relay[q]
  BY <1>1
<1>3. relay' = [q \in Relays |-> relay'[q]]
  BY <1>1
<1>4. \A q \in Relays : RelayShape(relay[q])'
  BY <1>2 DEF CacheTyped, RelayShape, Committed
<1> QED
  BY <1>2, <1>3, <1>4 DEF SetsRelay

SetsBuilder(b, x) ==
    /\ builder' = [d \in Builders |-> builder'[d]] /\ (\A d \in Builders : BuilderShape(builder'[d]))
    /\ builder'[b] = x /\ \A d \in Builders \ {b} : builder'[d] = builder[d]

LEMMA SetBuilder ==
    ASSUME CacheTyped, NEW b \in Builders, NEW x, BuilderShape(x), builder' = [builder EXCEPT ![b] = x]
    PROVE  SetsBuilder(b, x)
<1>1. builder = [d \in Builders |-> builder[d]]
  BY DEF CacheTyped
<1>2. builder'[b] = x /\ \A d \in Builders \ {b} : builder'[d] = builder[d]
  BY <1>1
<1>3. builder' = [d \in Builders |-> builder'[d]]
  BY <1>1
<1>4. \A d \in Builders : BuilderShape(builder'[d])
  BY <1>2 DEF CacheTyped
<1> QED
  BY <1>2, <1>3, <1>4 DEF SetsBuilder

(* Only a relay that has run its script delivers. *)
LEMMA NothingDelivered ==
    ASSUME NEW r \in Relays, NEW x, x.pc # "applied", SetsRelay(r, x),
           \A row \in Rows : queue'[row].status = "applied" => Delivered(row)
    PROVE  \A row \in Rows : Delivered(row)' => Delivered(row)
BY DEF SetsRelay, Delivered

(* The steps of a relay other than the script itself keep the invariant. *)
LEMMA RelayStep ==
    ASSUME CacheInv, NEW r \in Relays, NEW x, RelayShape(x), x.pc # "applied",
           relay' = [relay EXCEPT ![r] = x], UNCHANGED <<version, gens, active, building, builder, now>>,
           queue' \in [Rows -> RowRecords], \A row \in Rows : RowMoves(row),
           \A row \in Rows : queue'[row].status = "applied" => Delivered(row)
    PROVE  CacheInv' /\ BoardGoesOn
<1>1. SetsRelay(r, x)
  BY SetRelay DEF CacheInv
<1>2. CacheTyped'
  BY <1>1 DEF CacheInv, CacheTyped, SetsRelay
<1>3. \A row \in Rows : Delivered(row)' => Delivered(row)
  BY <1>1, NothingDelivered
<1>4. \A g \in Gens : GenShrinks(g)
  BY DEF GenShrinks
<1>5. now <= now'
  BY DEF CacheInv, CacheTyped
<1>6. Shrinks
  BY <1>3, <1>4, <1>5 DEF Shrinks
<1> QED
  BY <1>2, <1>6, ShrinkStep

LEMMA QueueStays ==
    ASSUME CacheTyped, queue' = queue
    PROVE  /\ queue' \in [Rows -> RowRecords] /\ \A row \in Rows : RowMoves(row)
           /\ \A row \in Rows : queue'[row].status = "applied" => Delivered(row)
BY DEF CacheTyped, RowMoves, Delivered

LEMMA RelayPausesKeeps ==
    ASSUME CacheInv, NEW r \in Relays, ReadPointers(r) \/ ApplyErrors(r) \/ RelayDies(r)
    PROVE  CacheInv' /\ BoardGoesOn
<1>1. UNCHANGED <<version, queue, gens, active, building, builder, now>>
  BY DEF ReadPointers, ApplyErrors, RelayDies
<1>2. RelayShape(relay[r])
  BY DEF CacheInv, CacheTyped
<1>3. /\ queue' \in [Rows -> RowRecords] /\ \A row \in Rows : RowMoves(row)
      /\ \A row \in Rows : queue'[row].status = "applied" => Delivered(row)
  BY <1>1, QueueStays DEF CacheInv
<1>4. CASE ReadPointers(r)
  <2> DEFINE x == [pc |-> "pinned", row |-> relay[r].row, active |-> active, building |-> building]
  <2>1. relay' = [relay EXCEPT ![r] = x] /\ relay[r].pc = "claimed"
    BY <1>4 DEF ReadPointers
  <2>2. x.pc = "pinned" /\ x.row = relay[r].row
    OBVIOUS
  <2> HIDE DEF x
  <2>3. RelayShape(x)
    BY <1>2, <2>1, <2>2 DEF RelayShape
  <2> QED
    BY <1>1, <1>3, <2>1, <2>2, <2>3, RelayStep
<1>5. CASE ApplyErrors(r)
  <2> DEFINE x == [pc |-> "failed", row |-> relay[r].row]
  <2>1. relay' = [relay EXCEPT ![r] = x] /\ relay[r].pc # "idle"
    BY <1>5 DEF ApplyErrors
  <2>2. x.pc = "failed" /\ x.row = relay[r].row
    OBVIOUS
  <2> HIDE DEF x
  <2>3. RelayShape(x)
    BY <1>2, <2>1, <2>2 DEF RelayShape
  <2> QED
    BY <1>1, <1>3, <2>1, <2>2, <2>3, RelayStep
<1>6. CASE RelayDies(r)
  <2>1. relay' = [relay EXCEPT ![r] = IdleRelay]
    BY <1>6 DEF RelayDies
  <2>2. IdleRelay.pc = "idle"
    BY DEF IdleRelay
  <2>3. RelayShape(IdleRelay)
    BY <2>2 DEF RelayShape
  <2> QED
    BY <1>1, <1>3, <2>1, <2>2, <2>3, RelayStep
<1> QED
  BY <1>4, <1>5, <1>6

LEMMA ClaimCacheEventKeeps ==
    ASSUME CacheInv, NEW r \in Relays, NEW row \in Rows, ClaimCacheEvent(r, row)
    PROVE  CacheInv' /\ BoardGoesOn
<1> DEFINE x == [pc |-> "claimed", row |-> row]
<1>1. /\ relay' = [relay EXCEPT ![r] = x] /\ queue[row].status = "pending"
      /\ UNCHANGED <<version, gens, active, building, builder, now>>
  BY DEF ClaimCacheEvent
<1>2. x.pc = "claimed" /\ x.row = row
  OBVIOUS
<1> HIDE DEF x
<1>3. Committed(row)
  BY <1>1 DEF CacheInv, RowsMatchVersions
<1>4. RelayShape(x)
  BY <1>2, <1>3 DEF RelayShape
<1>5. PICK y : y = [queue[row] EXCEPT !.owner = r, !.leased = TRUE]
  OBVIOUS
<1>6. queue[row] \in RowRecords
  BY DEF CacheInv, CacheTyped
<1>7. y \in RowRecords /\ y.status = queue[row].status /\ y.createdAt = queue[row].createdAt
  BY <1>5, <1>6 DEF RowRecords
<1>8. queue' = [queue EXCEPT ![row] = y]
  BY <1>5 DEF ClaimCacheEvent, CacheInv, CacheTyped
<1>9. queue' \in [Rows -> RowRecords] /\ \A z \in Rows : queue'[z] = IF z = row THEN y ELSE queue[z]
  BY <1>7, <1>8 DEF CacheInv, CacheTyped
<1>10. \A z \in Rows : RowMoves(z) /\ (queue'[z].status = "applied" => Delivered(z))
  BY <1>7, <1>9 DEF RowMoves, Delivered
<1> QED
  BY <1>1, <1>2, <1>4, <1>9, <1>10, RelayStep

LEMMA FinishRowKeeps ==
    ASSUME CacheInv, NEW r \in Relays, NEW status \in {"pending", "dead", "applied"}, FinishRow(r, status),
           relay[r].pc # "idle", status = "applied" => relay[r].pc = "applied"
    PROVE  CacheInv' /\ BoardGoesOn
<1>1. /\ relay' = [relay EXCEPT ![r] = IdleRelay]
      /\ UNCHANGED <<version, gens, active, building, builder, now>>
  BY DEF FinishRow
<1>2. IdleRelay.pc = "idle" /\ RelayShape(IdleRelay)
  BY DEF IdleRelay, RelayShape
<1>3. PICK row : row = relay[r].row
  OBVIOUS
<1>4. row \in Rows
  BY <1>3 DEF CacheInv, CacheTyped, RelayShape
<1>5. CASE ~LeaseHeld(r)
  <2>1. queue' = queue
    BY <1>5 DEF FinishRow
  <2> QED
    BY <2>1, <1>1, <1>2, QueueStays, RelayStep DEF CacheInv
<1>6. CASE LeaseHeld(r)
  <2>1. PICK y : y = [queue[row] EXCEPT !.status = status, !.owner = NoGen, !.leased = FALSE]
    OBVIOUS
  <2>2. queue[row] \in RowRecords /\ queue[row].status = "pending"
    BY <1>3, <1>4, <1>6 DEF CacheInv, CacheTyped, LeaseHeld
  <2>3. y \in RowRecords /\ y.status = status /\ y.createdAt = queue[row].createdAt
    BY <2>1, <2>2 DEF RowRecords
  <2>4. queue' = [queue EXCEPT ![row] = y]
    BY <1>3, <1>6, <2>1 DEF FinishRow
  <2>5. queue' \in [Rows -> RowRecords] /\ \A z \in Rows : queue'[z] = IF z = row THEN y ELSE queue[z]
    BY <2>3, <2>4 DEF CacheInv, CacheTyped
  <2>6. \A z \in Rows : RowMoves(z)
    BY <2>2, <2>3, <2>5 DEF RowMoves
  <2>7. \A z \in Rows : queue'[z].status = "applied" => Delivered(z)
    BY <2>3, <2>5, <1>3 DEF Delivered
  <2> QED
    BY <2>5, <2>6, <2>7, <1>1, <1>2, RelayStep
<1> QED
  BY <1>5, <1>6

LEMMA RelayFinishesKeeps ==
    ASSUME CacheInv, NEW r \in Relays, RejectSnapshot(r) \/ CompleteCacheEvent(r) \/ FailCacheEvent(r)
    PROVE  CacheInv' /\ BoardGoesOn
BY FinishRowKeeps DEF RejectSnapshot, CompleteCacheEvent, FailCacheEvent

LEMMA EventLeaseLapsesKeeps ==
    ASSUME CacheInv, NEW row \in Rows, EventLeaseLapses(row)
    PROVE  CacheInv' /\ BoardGoesOn
<1>1. UNCHANGED <<version, gens, active, building, relay, builder, now>>
  BY DEF EventLeaseLapses
<1>2. PICK y : y = [queue[row] EXCEPT !.leased = FALSE]
  OBVIOUS
<1>3. queue[row] \in RowRecords
  BY DEF CacheInv, CacheTyped
<1>4. y \in RowRecords /\ y.status = queue[row].status /\ y.createdAt = queue[row].createdAt
  BY <1>2, <1>3 DEF RowRecords
<1>5. queue' = [queue EXCEPT ![row] = y]
  BY <1>2 DEF EventLeaseLapses
<1>6. queue' \in [Rows -> RowRecords] /\ \A z \in Rows : queue'[z] = IF z = row THEN y ELSE queue[z]
  BY <1>4, <1>5 DEF CacheInv, CacheTyped
<1>7. \A z \in Rows : RowMoves(z) /\ (Delivered(z)' => Delivered(z))
  BY <1>1, <1>4, <1>6 DEF RowMoves, Delivered
<1>8. CacheTyped'
  BY <1>1, <1>6 DEF CacheInv, CacheTyped, RelayShape, Committed
<1>9. \A g \in Gens : GenShrinks(g)
  BY <1>1 DEF GenShrinks
<1>10. now <= now'
  BY <1>1 DEF CacheInv, CacheTyped
<1>11. Shrinks
  BY <1>1, <1>7, <1>9, <1>10 DEF Shrinks
<1> QED
  BY <1>8, <1>11, ShrinkStep

(* Steps that touch generations and builders, and leave relays and rows. *)
LEMMA GenerationStep ==
    ASSUME CacheInv, UNCHANGED <<version, queue, relay, now>>,
           gens' \in [Gens -> GenRecords], \A g \in Gens : GenShrinks(g),
           active' \in {active, NoGen}, building' \in {building, NoGen},
           builder' = [d \in Builders |-> builder'[d]], \A d \in Builders : BuilderShape(builder'[d]),
           \A d \in Builders : builder'[d].pc = "loading" => builder'[d] = builder[d]
    PROVE  CacheInv' /\ BoardGoesOn
<1>1. CacheTyped'
  <2>1. active' \in Pointers /\ building' \in Pointers
    BY DEF CacheInv, CacheTyped, Pointers
  <2>2. \A r \in Relays : RelayShape(relay[r])'
    BY DEF CacheInv, CacheTyped, RelayShape, Committed
  <2>3. \A d \in Builders : BuilderShape(builder[d])'
    BY DEF BuilderShape
  <2> QED
    BY <2>1, <2>2, <2>3 DEF CacheInv, CacheTyped
<1>2. \A row \in Rows : RowMoves(row) /\ (Delivered(row)' => Delivered(row))
  BY DEF RowMoves, Delivered
<1>3. now <= now'
  BY DEF CacheInv, CacheTyped
<1>4. Shrinks
  BY <1>2, <1>3 DEF Shrinks
<1> QED
  BY <1>1, <1>4, ShrinkStep

LEMMA GenerationsStay ==
    ASSUME CacheTyped, gens' = gens
    PROVE  gens' \in [Gens -> GenRecords] /\ \A g \in Gens : GenShrinks(g)
BY DEF CacheTyped, GenShrinks

LEMMA BuildersStay ==
    ASSUME CacheTyped, builder' = builder
    PROVE  /\ builder' = [d \in Builders |-> builder'[d]] /\ \A d \in Builders : BuilderShape(builder'[d])
           /\ \A d \in Builders : builder'[d].pc = "loading" => builder'[d] = builder[d]
BY DEF CacheTyped

LEMMA BuilderStays ==
    ASSUME CacheTyped, NEW b \in Builders, NEW x, BuilderShape(x), x.pc # "loading", builder' = [builder EXCEPT ![b] = x]
    PROVE  /\ builder' = [d \in Builders |-> builder'[d]] /\ \A d \in Builders : BuilderShape(builder'[d])
           /\ \A d \in Builders : builder'[d].pc = "loading" => builder'[d] = builder[d]
<1>1. SetsBuilder(b, x)
  BY SetBuilder
<1> QED
  BY <1>1 DEF SetsBuilder

LEMMA IdleBuilderShape == IdleBuilder.pc = "idle" /\ BuilderShape(IdleBuilder)
BY DEF IdleBuilder, BuilderShape

(* Dropping every generation but the ones pointed to. *)
LEMMA KeptFacts ==
    ASSUME CacheTyped, NEW keep, gens' = Kept(gens, keep), {active', building'} \cap Gens \subseteq keep
    PROVE  gens' \in [Gens -> GenRecords] /\ \A g \in Gens : GenShrinks(g)
<1>1. \A g \in Gens : gens'[g] = IF g \in keep THEN gens[g] ELSE NoGeneration
  BY DEF Kept
<1>2. gens' \in [Gens -> GenRecords]
  BY NoGenerationTyped DEF Kept, CacheTyped
<1> QED
  BY <1>1, <1>2 DEF GenShrinks

LEMMA BuilderEndsKeeps ==
    ASSUME CacheInv, NEW b \in Builders, BuilderDies(b) \/ VerifyTimesOut(b)
    PROVE  CacheInv' /\ BoardGoesOn
<1>1. UNCHANGED <<version, queue, gens, active, building, relay, now>> /\ builder' = [builder EXCEPT ![b] = IdleBuilder]
  BY DEF BuilderDies, VerifyTimesOut
<1> QED
  BY <1>1, IdleBuilderShape, BuilderStays, GenerationsStay, GenerationStep DEF CacheInv

(* The age of the oldest undelivered row is a number. *)
LEMMA OldestExists ==
    ASSUME CacheInv, Undelivered # {}
    PROVE  /\ OldestAge \in Nat
           /\ \A row \in Undelivered : now - OldestAge <= queue[row].createdAt
<1> DEFINE T == {queue[row].createdAt : row \in Undelivered}
<1>1. \A row \in Undelivered : row \in Rows /\ queue[row].createdAt \in Nat /\ queue[row].createdAt <= now
  BY CacheTypes DEF Undelivered, CacheInv, RowsMatchVersions
<1>2. T \subseteq Nat /\ T # {}
  BY <1>1
<1>3. PICK t \in T : \A y \in T : ~(<<y, t>> \in OpToRel(<, Nat))
  <2> HIDE DEF T
  <2> QED
    BY <1>2, NatLessThanWellFounded, WFMin
<1>4. \A y \in T : t <= y
  <2> SUFFICES ASSUME NEW y \in T, ~(t <= y) PROVE FALSE
    OBVIOUS
  <2>1. y \in Nat /\ t \in Nat
    BY <1>2
  <2> HIDE DEF T
  <2>2. y < t
    BY <2>1
  <2>3. <<y, t>> \in {ss \in Nat \X Nat : ss[1] < ss[2]}
    BY <2>1, <2>2
  <2> QED
    BY <2>3, <1>3 DEF OpToRel
<1>5. now \in Nat
  BY DEF CacheInv, CacheTyped
<1>6. \E s \in 0..now : /\ \E row \in Undelivered : queue[row].createdAt = s
                        /\ \A row \in Undelivered : s <= queue[row].createdAt
  <2>1. t \in 0..now
    BY <1>1, <1>5
  <2> QED
    BY <2>1, <1>4
<1>7. PICK s \in 0..now : /\ OldestAge = now - s
                          /\ \A row \in Undelivered : s <= queue[row].createdAt
  BY <1>6 DEF OldestAge
<1> QED
  BY <1>1, <1>5, <1>7

LEMMA LagIsNumber ==
    ASSUME CacheInv
    PROVE  Lag \in Nat /\ CallTimeout <= Lag
<1>1. OldestAge \in Nat
  BY OldestExists DEF OldestAge
<1> QED
  BY <1>1, CacheBounds DEF Lag

LEMMA ReadLagKeeps ==
    ASSUME CacheInv, NEW b \in Builders, ReadLag(b)
    PROVE  CacheInv' /\ BoardGoesOn
<1>1. PICK g : g = IF builder[b].pc = "activated" THEN builder[b].gen ELSE active
  OBVIOUS
<1> DEFINE x == [pc |-> "verifying", gen |-> g, lag |-> Lag, readAt |-> now]
<1>2. /\ UNCHANGED <<version, queue, gens, active, building, relay, now>>
      /\ builder' = [builder EXCEPT ![b] = x] /\ g # NoGen
  BY <1>1 DEF ReadLag
<1>3. g \in Gens
  BY <1>1, <1>2 DEF CacheInv, CacheTyped, BuilderShape, Pointers
<1>4. BuilderShape(x) /\ x.pc # "loading"
  BY <1>3, LagIsNumber DEF BuilderShape, CacheInv, CacheTyped
<1> HIDE DEF x
<1> QED
  BY <1>2, <1>4, BuilderStays, GenerationsStay, GenerationStep DEF CacheInv

LEMMA VerifyFreshnessKeeps ==
    ASSUME CacheInv, NEW b \in Builders, VerifyFreshness(b)
    PROVE  CacheInv' /\ BoardGoesOn
<1>1. UNCHANGED <<version, queue, active, building, relay, now>> /\ builder' = [builder EXCEPT ![b] = IdleBuilder]
  BY DEF VerifyFreshness
<1>2. gens' \in [Gens -> GenRecords] /\ \A h \in Gens : GenShrinks(h)
  <2>1. PICK g : g = builder[b].gen
    OBVIOUS
  <2>2. PICK l, o : l = builder[b].lag /\ o = Overrun(now - builder[b].readAt)
    OBVIOUS
  <2>3. g \in Gens /\ l \in Nat /\ o \in Nat
    <3>1. g \in Gens /\ l \in Nat /\ builder[b].readAt \in Nat /\ now \in Nat
      BY <2>1, <2>2 DEF VerifyFreshness, CacheInv, CacheTyped, BuilderShape
    <3> QED
      BY <2>2, <3>1, CacheBounds DEF Overrun
  <2>4. PICK y : y = [gens[g] EXCEPT !.checked = now, !.lag = l, !.overrun = o]
    OBVIOUS
  <2>5. gens[g] \in GenRecords /\ now \in Int
    BY <2>3 DEF CacheInv, CacheTyped
  <2>6. y \in GenRecords /\ y.entries = gens[g].entries /\ y.state = gens[g].state
    BY <2>3, <2>4, <2>5 DEF GenRecords
  <2>7. gens' = gens \/ gens' = [gens EXCEPT ![g] = y]
    BY <2>1, <2>2, <2>3, <2>4 DEF VerifyFreshness, CacheInv, CacheTyped
  <2>8. gens' \in [Gens -> GenRecords] /\ \A h \in Gens : gens'[h] = gens[h] \/ (h = g /\ gens'[h] = y)
    BY <2>3, <2>6, <2>7 DEF CacheInv, CacheTyped
  <2> QED
    BY <2>6, <2>8 DEF GenShrinks
<1> QED
  BY <1>1, <1>2, IdleBuilderShape, BuilderStays, GenerationStep DEF CacheInv

LEMMA BuildDroppedKeeps ==
    ASSUME CacheInv, (\E b \in Builders : AbandonBuild(b)) \/ BuildLeaseExpires \/ ActiveExpires
    PROVE  CacheInv' /\ BoardGoesOn
<1>1. ASSUME NEW b \in Builders, AbandonBuild(b) PROVE CacheInv' /\ BoardGoesOn
  <2>1. /\ UNCHANGED <<version, queue, active, relay, now>> /\ builder' = [builder EXCEPT ![b] = IdleBuilder]
        /\ building' \in {building, NoGen} /\ gens' = Kept(gens, {active, building'})
    BY <1>1 DEF AbandonBuild
  <2>2. gens' \in [Gens -> GenRecords] /\ \A h \in Gens : GenShrinks(h)
    BY <2>1, KeptFacts DEF CacheInv
  <2> QED
    BY <2>1, <2>2, IdleBuilderShape, BuilderStays, GenerationStep DEF CacheInv
<1>2. ASSUME BuildLeaseExpires PROVE CacheInv' /\ BoardGoesOn
  <2>1. UNCHANGED <<version, queue, active, relay, builder, now>> /\ building' = NoGen /\ gens' = Kept(gens, {active})
    BY <1>2 DEF BuildLeaseExpires
  <2>2. gens' \in [Gens -> GenRecords] /\ \A h \in Gens : GenShrinks(h)
    BY <2>1, KeptFacts, CacheBounds DEF CacheInv
  <2> QED
    BY <2>1, <2>2, BuildersStay, GenerationStep DEF CacheInv
<1>3. ASSUME ActiveExpires PROVE CacheInv' /\ BoardGoesOn
  <2>1. UNCHANGED <<version, queue, building, relay, builder, now>> /\ active' = NoGen /\ gens' = Kept(gens, {building})
    BY <1>3 DEF ActiveExpires
  <2>2. gens' \in [Gens -> GenRecords] /\ \A h \in Gens : GenShrinks(h)
    BY <2>1, KeptFacts, CacheBounds DEF CacheInv
  <2> QED
    BY <2>1, <2>2, BuildersStay, GenerationStep DEF CacheInv
<1> QED
  BY <1>1, <1>2, <1>3

LEMMA DamageKeeps ==
    ASSUME CacheInv, NEW g \in Gens, Damage(g)
    PROVE  CacheInv' /\ BoardGoesOn
<1>1. UNCHANGED <<version, queue, active, building, relay, builder, now>>
  BY DEF Damage
<1>2. PICK y : y = [gens[g] EXCEPT !.state = "dirty"]
  OBVIOUS
<1>3. gens[g] \in GenRecords
  BY DEF CacheInv, CacheTyped
<1>4. y \in GenRecords /\ y.entries = gens[g].entries /\ y.state = "dirty"
  BY <1>2, <1>3 DEF GenRecords
<1>5. gens' = [gens EXCEPT ![g] = y]
  BY <1>2 DEF Damage
<1>6. gens' \in [Gens -> GenRecords] /\ \A h \in Gens : gens'[h] = IF h = g THEN y ELSE gens[h]
  BY <1>4, <1>5 DEF CacheInv, CacheTyped
<1>7. \A h \in Gens : GenShrinks(h)
  BY <1>4, <1>6 DEF GenShrinks
<1> QED
  BY <1>1, <1>6, <1>7, BuildersStay, GenerationStep DEF CacheInv

LEMMA TickKeeps ==
    ASSUME CacheInv, CacheTick
    PROVE  CacheInv' /\ BoardGoesOn
<1>1. UNCHANGED <<version, queue, gens, active, building, relay, builder>> /\ now' = now + 1
  BY DEF CacheTick
<1>2. now' \in Nat /\ now <= now'
  BY <1>1 DEF CacheInv, CacheTyped
<1>3. CacheTyped'
  BY <1>1, <1>2 DEF CacheInv, CacheTyped, RelayShape, BuilderShape, Committed
<1>4. \A row \in Rows : RowMoves(row) /\ (Delivered(row)' => Delivered(row))
  BY <1>1 DEF RowMoves, Delivered
<1>5. \A g \in Gens : GenShrinks(g)
  BY <1>1 DEF GenShrinks
<1>6. Shrinks
  BY <1>1, <1>2, <1>4, <1>5 DEF Shrinks
<1> QED
  BY <1>3, <1>6, ShrinkStep

(***************************************************************************)
(* The steps that write: a new version, the relay's script, and a build.   *)
(***************************************************************************)
LEMMA ProjectKeeps ==
    ASSUME CacheInv, NEW u \in CachedUsers, Project(u)
    PROVE  CacheInv' /\ BoardGoesOn
<1>1. /\ UNCHANGED <<gens, active, building, relay, builder, now>>
      /\ version[u] < MaxVersion /\ version[u] \in Nat
  BY CacheTypes DEF Project, CacheInv
<1>2. PICK w : w = <<u, version[u] + 1>>
  OBVIOUS
<1>3. PICK y : y = [status |-> "pending", owner |-> NoGen, leased |-> FALSE, createdAt |-> now]
  OBVIOUS
<1>4. w \in Rows /\ w[1] = u /\ w[2] = version[u] + 1
  BY <1>1, <1>2, CacheBounds DEF Rows, Versions
<1>5. y \in RowRecords /\ y.status = "pending" /\ y.createdAt = now
  BY <1>3 DEF RowRecords, CacheInv, CacheTyped
<1>6. queue' = [queue EXCEPT ![w] = y] /\ version' = [version EXCEPT ![u] = version[u] + 1]
  BY <1>2, <1>3 DEF Project
<1>7. queue' \in [Rows -> RowRecords] /\ \A z \in Rows : queue'[z] = IF z = w THEN y ELSE queue[z]
  BY <1>4, <1>5, <1>6 DEF CacheInv, CacheTyped
<1>8. version' \in [CachedUsers -> Nat] /\ \A z \in CachedUsers : version'[z] = IF z = u THEN version[u] + 1 ELSE version[z]
  BY <1>1, <1>6 DEF CacheInv, CacheTyped
<1>9. \A z \in CachedUsers : version[z] \in Nat /\ version'[z] \in Nat /\ version[z] <= version'[z]
  BY <1>8, CacheTypes DEF CacheInv
<1>10. \A z \in Rows : Committed(z)' <=> Committed(z) \/ z = w
  <2> SUFFICES ASSUME NEW z \in Rows PROVE Committed(z)' <=> Committed(z) \/ z = w
    OBVIOUS
  <2>1. z[1] \in CachedUsers /\ z[2] \in Nat /\ z = <<z[1], z[2]>>
    BY RowFacts
  <2>2. CASE z[1] # u
    BY <2>1, <2>2, <1>4, <1>8 DEF Committed
  <2>3. CASE z[1] = u
    <3>1. z = w <=> z[2] = version[u] + 1
      BY <2>1, <2>3, <1>2, <1>4
    <3> QED
      BY <3>1, <2>1, <2>3, <1>1, <1>8 DEF Committed
  <2> QED
    BY <2>2, <2>3
<1>11. CacheTyped'
  <2>1. \A r \in Relays : RelayShape(relay[r])'
    BY <1>1, <1>10 DEF CacheInv, CacheTyped, RelayShape
  <2>2. \A b \in Builders : BuilderShape(builder[b])'
    BY <1>1 DEF CacheInv, CacheTyped, BuilderShape
  <2> QED
    BY <2>1, <2>2, <1>1, <1>7, <1>8 DEF CacheInv, CacheTyped
<1>12. RowsMatchVersions'
  <2>1. \A g \in Gens, z \in CachedUsers : gens[g].entries[z] \in Nat /\ gens[g].entries[z] <= version[z]
    BY CacheTypes DEF CacheInv, RowsMatchVersions
  <2>2. \A g \in Gens, z \in CachedUsers : gens'[g].entries[z] <= version'[z]
    BY <2>1, <1>1, <1>9
  <2>3. now \in Nat
    BY DEF CacheInv, CacheTyped
  <2>4. \A z \in Rows :
          IF Committed(z)' THEN queue'[z].status \in {"pending", "dead", "applied"} /\ queue'[z].createdAt <= now'
          ELSE queue'[z].status = "none"
    BY <2>3, <1>1, <1>5, <1>7, <1>10 DEF CacheInv, RowsMatchVersions
  <2> QED
    BY <2>2, <2>4 DEF RowsMatchVersions
<1>13. \A z \in Rows : Delivered(z)' => Delivered(z)
  BY <1>1, <1>5, <1>7 DEF Delivered
<1>14. BoardHolds'
  BY <1>1, <1>13 DEF CacheInv, BoardHolds, Healthy
<1>15. BuildsCatchUp'
  <2> SUFFICES ASSUME NEW b \in Builders, builder'[b].pc = "loading", OwnsBuild(b)' PROVE BuildCatchesUp(b)'
    BY DEF BuildsCatchUp
  <2>1. BuildCatchesUp(b) /\ builder[b].view \in [CachedUsers -> Nat]
    BY <1>1 DEF CacheInv, CacheTyped, BuilderShape, BuildsCatchUp, OwnsBuild
  <2>2. \A z \in CachedUsers : builder[b].view[z] \in Nat
    BY <2>1
  <2>3. \A z \in CachedUsers : builder'[b].view[z] <= version'[z]
    BY <2>1, <2>2, <1>1, <1>9 DEF BuildCatchesUp
  <2> QED
    BY <2>1, <2>3, <1>1, <1>13 DEF BuildCatchesUp, Reaches, Healthy
<1>16. BoardGoesOn
  <2>1. Healthy(active) => active \in Gens
    BY DEF Healthy, CacheInv, CacheTyped, Pointers
  <2> QED
    BY <2>1, <1>1, CacheTypes DEF BoardGoesOn, CacheInv
<1> QED
  BY <1>11, <1>12, <1>14, <1>15, <1>16 DEF CacheInv

(* The version fence of updateLeaderboardLua. *)
LEMMA UpdatedFacts ==
    ASSUME NEW gen \in GenRecords, NEW u \in CachedUsers, NEW v \in Nat
    PROVE  /\ Updated(gen, u, v) \in GenRecords
           /\ Updated(gen, u, v).state = gen.state
           /\ Updated(gen, u, v).checked = gen.checked /\ Updated(gen, u, v).lag = gen.lag /\ Updated(gen, u, v).overrun = gen.overrun
           /\ v <= Updated(gen, u, v).entries[u]
           /\ \A w \in CachedUsers : gen.entries[w] <= Updated(gen, u, v).entries[w]
           /\ \A w \in CachedUsers : \/ Updated(gen, u, v).entries[w] = gen.entries[w]
                                     \/ w = u /\ Updated(gen, u, v).entries[w] = v
<1>1. gen.entries \in [CachedUsers -> Nat] /\ \A w \in CachedUsers : gen.entries[w] \in Nat
  BY DEF GenRecords
<1>2. CASE v <= gen.entries[u]
  BY <1>1, <1>2 DEF Updated
<1>3. CASE ~(v <= gen.entries[u])
  <2>1. PICK e : e = [gen.entries EXCEPT ![u] = v]
    OBVIOUS
  <2>2. e \in [CachedUsers -> Nat] /\ e[u] = v /\ \A w \in CachedUsers \ {u} : e[w] = gen.entries[w]
    BY <2>1, <1>1
  <2>3. PICK y : y = [gen EXCEPT !.entries = e]
    OBVIOUS
  <2>4. y \in GenRecords /\ y.state = gen.state /\ y.checked = gen.checked /\ y.lag = gen.lag /\ y.overrun = gen.overrun /\ y.entries = e
    BY <2>2, <2>3 DEF GenRecords
  <2>5. Updated(gen, u, v) = y
    BY <1>3, <2>1, <2>3 DEF Updated
  <2>6. v < gen.entries[u] \/ gen.entries[u] <= v
    BY <1>1
  <2> QED
    BY <2>2, <2>4, <2>5, <2>6, <1>1, <1>3
<1> QED
  BY <1>2, <1>3

LEMMA BeginBuildKeeps ==
    ASSUME CacheInv, NEW b \in Builders, BeginBuild(b)
    PROVE  CacheInv' /\ BoardGoesOn
<1>1. PICK g : g = CHOOSE fresh \in Gens : fresh \notin Referenced
  OBVIOUS
<1>2. /\ UNCHANGED <<version, queue, active, relay, now>> /\ building' = g
      /\ \E fresh \in Gens : fresh \notin Referenced
  BY <1>1 DEF BeginBuild
<1>3. g \in Gens /\ g \notin Referenced
  BY <1>1, <1>2
<1>4. PICK y : y = [NoGeneration EXCEPT !.state = "building", !.previous = active]
  OBVIOUS
<1>5. y \in GenRecords /\ y.entries = [u \in CachedUsers |-> 0]
  <2>1. active \in Pointers
    BY DEF CacheInv, CacheTyped
  <2> QED
    BY <2>1, <1>4, NoGenerationTyped DEF GenRecords
<1>6. gens' = [gens EXCEPT ![g] = y]
  BY <1>1, <1>4 DEF BeginBuild
<1>7. gens' \in [Gens -> GenRecords] /\ \A h \in Gens : gens'[h] = IF h = g THEN y ELSE gens[h]
  BY <1>3, <1>5, <1>6 DEF CacheInv, CacheTyped
<1> DEFINE x == [pc |-> "begun", gen |-> g]
<1>8. builder' = [builder EXCEPT ![b] = x]
  BY <1>1 DEF BeginBuild
<1>9. BuilderShape(x) /\ x.pc = "begun"
  BY <1>3 DEF BuilderShape
<1> HIDE DEF x
<1>10. SetsBuilder(b, x)
  BY <1>8, <1>9, SetBuilder DEF CacheInv
<1>11. CacheTyped'
  <2>1. \A r \in Relays : RelayShape(relay[r])'
    BY <1>2 DEF CacheInv, CacheTyped, RelayShape, Committed
  <2>2. \A d \in Builders : BuilderShape(builder[d])'
    BY <1>10 DEF SetsBuilder, BuilderShape
  <2> QED
    BY <2>1, <2>2, <1>2, <1>3, <1>7, <1>10 DEF CacheInv, CacheTyped, SetsBuilder, Pointers
<1>12. (active # g /\ gens'[active] = gens[active]) \/ active = NoGen
  BY <1>3, <1>7 DEF Referenced, CacheInv, CacheTyped, Pointers
<1>13. RowsMatchVersions'
  <2>1. \A h \in Gens, u \in CachedUsers : gens'[h].entries[u] <= version'[u]
    BY <1>2, <1>5, <1>7, CacheTypes DEF CacheInv, RowsMatchVersions
  <2> QED
    BY <2>1, <1>2 DEF CacheInv, RowsMatchVersions, Committed
<1>14. \A row \in Rows : Delivered(row)' => Delivered(row)
  BY <1>2 DEF Delivered
<1>15. BoardHolds'
  BY <1>2, <1>12, <1>14 DEF CacheInv, BoardHolds, Healthy
<1>16. BuildsCatchUp'
  <2> SUFFICES ASSUME NEW d \in Builders, builder'[d].pc = "loading", OwnsBuild(d)' PROVE FALSE
    BY DEF BuildsCatchUp
  <2>1. d # b /\ builder'[d] = builder[d]
    BY <1>9, <1>10 DEF SetsBuilder
  <2>2. builder[d].gen = g
    BY <2>1, <1>2 DEF OwnsBuild
  <2>3. builder[d].gen \in Referenced
    BY <2>1 DEF Referenced
  <2> QED
    BY <2>2, <2>3, <1>3
<1>17. BoardGoesOn
  <2>1. Healthy(active) => active \in Gens /\ gens'[active'] = gens[active]
    BY <1>2, <1>12 DEF Healthy, CacheInv, CacheTyped, Pointers
  <2> QED
    BY <2>1, CacheTypes DEF BoardGoesOn, CacheInv
<1> QED
  BY <1>11, <1>13, <1>15, <1>16, <1>17 DEF CacheInv

(* What is delivered belongs to a version that is committed. *)
LEMMA DeliveredIsCommitted ==
    ASSUME CacheInv, NEW row \in Rows, Delivered(row)
    PROVE  Committed(row)
BY DEF CacheInv, CacheTyped, RelayShape, RowsMatchVersions, Delivered

LEMMA TakeSnapshotKeeps ==
    ASSUME CacheInv, NEW b \in Builders, TakeSnapshot(b)
    PROVE  CacheInv' /\ BoardGoesOn
<1>1. UNCHANGED <<version, queue, gens, active, building, relay, now>> /\ builder[b].pc = "begun"
  BY DEF TakeSnapshot
<1>2. PICK t : t = {u \in CachedUsers : version[u] > 0}
  OBVIOUS
<1> DEFINE x == [pc |-> "loading", gen |-> builder[b].gen, view |-> version, todo |-> t]
<1>3. builder' = [builder EXCEPT ![b] = x]
  BY <1>2 DEF TakeSnapshot
<1>4. x.pc = "loading" /\ x.gen = builder[b].gen /\ x.view = version /\ x.todo = t
  OBVIOUS
<1>5. BuilderShape(x)
  <2>1. builder[b].gen \in Gens /\ version \in [CachedUsers -> Nat] /\ t \in SUBSET CachedUsers
    BY <1>1, <1>2 DEF CacheInv, CacheTyped, BuilderShape
  <2> QED
    BY <2>1 DEF BuilderShape
<1> HIDE DEF x
<1>6. SetsBuilder(b, x)
  BY <1>3, <1>5, SetBuilder DEF CacheInv
<1>7. CacheTyped'
  <2>1. \A r \in Relays : RelayShape(relay[r])'
    BY <1>1 DEF CacheInv, CacheTyped, RelayShape, Committed
  <2>2. \A d \in Builders : BuilderShape(builder[d])'
    BY <1>6 DEF SetsBuilder, BuilderShape
  <2> QED
    BY <2>1, <2>2, <1>1, <1>6 DEF CacheInv, CacheTyped, SetsBuilder
<1>8. RowsMatchVersions'
  BY <1>1 DEF CacheInv, RowsMatchVersions, Committed
<1>9. \A row \in Rows : Delivered(row)' => Delivered(row)
  BY <1>1 DEF Delivered
<1>10. BoardHolds'
  BY <1>1, <1>9 DEF CacheInv, BoardHolds, Healthy
<1>11. BuildsCatchUp'
  <2> SUFFICES ASSUME NEW d \in Builders, builder'[d].pc = "loading", OwnsBuild(d)' PROVE BuildCatchesUp(d)'
    BY DEF BuildsCatchUp
  <2>1. CASE d # b
    <3>1. builder'[d] = builder[d]
      BY <2>1, <1>6 DEF SetsBuilder
    <3>2. BuildCatchesUp(d)
      BY <3>1, <1>1 DEF CacheInv, BuildsCatchUp, OwnsBuild
    <3> QED
      BY <3>1, <3>2, <1>1, <1>9 DEF BuildCatchesUp, Reaches, Healthy
  <2>2. CASE d = b
    <3>1. builder'[d].view = version /\ builder'[d].todo = t
      BY <2>2, <1>4, <1>6 DEF SetsBuilder
    <3>2. building \in Gens
      BY <2>2, <1>1, <1>4, <1>5, <1>6 DEF SetsBuilder, OwnsBuild, BuilderShape
    <3>3. \A u \in CachedUsers : version[u] \in Nat /\ gens[building].entries[u] \in Nat
      BY <3>2, CacheTypes DEF CacheInv
    <3>4. \A u \in CachedUsers, v \in Nat : v <= version[u] => Reaches(d, u, v)'
      <4> SUFFICES ASSUME NEW u \in CachedUsers, NEW v \in Nat, v <= version[u] PROVE Reaches(d, u, v)'
        OBVIOUS
      <4>1. CASE v = 0
        BY <4>1, <3>3, <1>1 DEF Reaches
      <4>2. CASE v # 0
        <5>1. u \in t
          BY <4>2, <3>3, <1>2
        <5> QED
          BY <5>1, <3>1 DEF Reaches
      <4> QED
        BY <4>1, <4>2
    <3>5. \A u \in CachedUsers : builder'[d].view[u] <= version'[u]
      BY <3>1, <3>3, <1>1
    <3>6. \A row \in Rows : Delivered(row)' => Reaches(d, row[1], row[2])'
      BY <3>4, <1>9, DeliveredIsCommitted, RowFacts DEF Committed
    <3>7. Healthy(active)' => \A u \in CachedUsers : Reaches(d, u, gens[active].entries[u])'
      <4> SUFFICES ASSUME Healthy(active)', NEW u \in CachedUsers PROVE Reaches(d, u, gens[active].entries[u])'
        OBVIOUS
      <4>1. PICK v : v = gens[active].entries[u]
        OBVIOUS
      <4>2. active \in Gens
        BY <1>1 DEF Healthy, CacheInv, CacheTyped, Pointers
      <4>3. v \in Nat /\ v <= version[u]
        BY <4>1, <4>2, CacheTypes DEF CacheInv, RowsMatchVersions
      <4>4. Reaches(d, u, v)'
        BY <4>3, <3>4
      <4> QED
        BY <4>1, <4>4, <1>1 DEF Reaches
    <3> QED
      BY <3>5, <3>6, <3>7 DEF BuildCatchesUp
  <2> QED
    BY <2>1, <2>2
<1>12. BoardGoesOn
  <2>1. Healthy(active) => active \in Gens
    BY DEF Healthy, CacheInv, CacheTyped, Pointers
  <2> QED
    BY <2>1, <1>1, CacheTypes DEF BoardGoesOn, CacheInv
<1> QED
  BY <1>7, <1>8, <1>10, <1>11, <1>12 DEF CacheInv

LEMMA LoadUserKeeps ==
    ASSUME CacheInv, NEW b \in Builders, NEW u \in CachedUsers, LoadUser(b, u)
    PROVE  CacheInv' /\ BoardGoesOn
<1>1. /\ UNCHANGED <<version, queue, active, building, relay, now>>
      /\ builder[b].pc = "loading" /\ u \in builder[b].todo /\ OwnsBuild(b)
  BY DEF LoadUser
<1>2. PICK g : g = builder[b].gen
  OBVIOUS
<1>3. /\ g \in Gens /\ g = building /\ gens[g].state = "building" /\ gens[g] \in GenRecords
      /\ builder[b].view \in [CachedUsers -> Nat] /\ builder[b].todo \in SUBSET CachedUsers
      /\ builder[b] = [pc |-> "loading", gen |-> g, view |-> builder[b].view, todo |-> builder[b].todo]
  BY <1>1, <1>2 DEF OwnsBuild, CacheInv, CacheTyped, BuilderShape
<1>4. PICK v : v = builder[b].view[u]
  OBVIOUS
<1>5. v \in Nat
  BY <1>3, <1>4
<1>6. PICK y : y = Updated(gens[g], u, v)
  OBVIOUS
<1>7. /\ y \in GenRecords /\ y.state = "building" /\ v <= y.entries[u]
      /\ \A w \in CachedUsers : gens[g].entries[w] <= y.entries[w]
      /\ \A w \in CachedUsers : y.entries[w] = gens[g].entries[w] \/ (w = u /\ y.entries[w] = v)
  BY <1>3, <1>5, <1>6, UpdatedFacts
<1>8. gens' = [gens EXCEPT ![g] = y]
  BY <1>2, <1>4, <1>6 DEF LoadUser
<1>9. gens' \in [Gens -> GenRecords] /\ \A h \in Gens : gens'[h] = IF h = g THEN y ELSE gens[h]
  BY <1>3, <1>7, <1>8 DEF CacheInv, CacheTyped
<1> DEFINE x == [pc |-> "loading", gen |-> g, view |-> builder[b].view, todo |-> builder[b].todo \ {u}]
<1>10. builder' = [builder EXCEPT ![b] = x]
  <2>1. PICK z : z = builder[b]
    OBVIOUS
  <2>2. PICK seen, rest : seen = builder[b].view /\ rest = builder[b].todo \ {u}
    OBVIOUS
  <2>3. z = [pc |-> "loading", gen |-> g, view |-> seen, todo |-> builder[b].todo]
    BY <2>1, <2>2, <1>3
  <2>4. [z EXCEPT !.todo = rest] = [pc |-> "loading", gen |-> g, view |-> seen, todo |-> rest]
    BY <2>3
  <2>5. [z EXCEPT !.todo = builder[b].todo \ {u}] = x
    BY <2>2, <2>4
  <2> QED
    BY <2>1, <2>5 DEF LoadUser
<1>11. x.pc = "loading" /\ x.gen = g /\ x.view = builder[b].view /\ x.todo = builder[b].todo \ {u}
  OBVIOUS
<1>12. BuilderShape(x)
  BY <1>3 DEF BuilderShape
<1> HIDE DEF x
<1>13. SetsBuilder(b, x)
  BY <1>10, <1>12, SetBuilder DEF CacheInv
<1>14. CacheTyped'
  <2>1. \A r \in Relays : RelayShape(relay[r])'
    BY <1>1 DEF CacheInv, CacheTyped, RelayShape, Committed
  <2>2. \A d \in Builders : BuilderShape(builder[d])'
    BY <1>13 DEF SetsBuilder, BuilderShape
  <2> QED
    BY <2>1, <2>2, <1>1, <1>9, <1>13 DEF CacheInv, CacheTyped, SetsBuilder
<1>15. BuildCatchesUp(b)
  BY <1>1 DEF CacheInv, BuildsCatchUp
<1>16. RowsMatchVersions'
  <2>1. v <= version[u]
    BY <1>4, <1>15 DEF BuildCatchesUp
  <2>2. \A h \in Gens, w \in CachedUsers : gens'[h].entries[w] <= version'[w]
    BY <2>1, <1>1, <1>3, <1>7, <1>9 DEF CacheInv, RowsMatchVersions
  <2> QED
    BY <2>2, <1>1 DEF CacheInv, RowsMatchVersions, Committed
<1>17. \A row \in Rows : Delivered(row)' => Delivered(row)
  BY <1>1 DEF Delivered
<1>18. Healthy(active) \/ Healthy(active)' => active \in Gens /\ active # g /\ Healthy(active) /\ gens'[active] = gens[active]
  BY <1>1, <1>3, <1>7, <1>9 DEF Healthy, CacheInv, CacheTyped, Pointers
<1>19. BoardHolds'
  BY <1>1, <1>17, <1>18 DEF CacheInv, BoardHolds
<1>20. ASSUME NEW d \in Builders, builder'[d].pc = "loading", OwnsBuild(d)'
       PROVE  /\ BuildCatchesUp(d) /\ builder'[d].view = builder[d].view
              /\ \A w \in CachedUsers, n \in Nat : Reaches(d, w, n) => Reaches(d, w, n)'
  <2>1. \A w \in CachedUsers : gens[g].entries[w] \in Nat /\ y.entries[w] \in Nat
    BY <1>3, <1>7 DEF GenRecords
  <2>2. CASE d = b
    <3>1. builder'[d].view = builder[d].view /\ builder'[d].todo = builder[d].todo \ {u}
      BY <2>2, <1>11, <1>13 DEF SetsBuilder
    <3>2. ASSUME NEW w \in CachedUsers, NEW n \in Nat, Reaches(d, w, n) PROVE Reaches(d, w, n)'
      <4>1. gens'[building'].entries[w] = y.entries[w] /\ gens[building].entries[w] = gens[g].entries[w]
        BY <1>1, <1>3, <1>9
      <4>2. CASE n <= gens[g].entries[w]
        BY <4>1, <4>2, <2>1, <1>7 DEF Reaches
      <4>3. CASE ~(n <= gens[g].entries[w])
        <5>1. w \in builder[d].todo /\ n <= builder[d].view[w]
          BY <3>2, <4>1, <4>3 DEF Reaches
        <5>2. CASE w = u
          BY <5>1, <5>2, <4>1, <2>1, <2>2, <1>4, <1>5, <1>7 DEF Reaches
        <5>3. CASE w # u
          BY <5>1, <5>3, <3>1 DEF Reaches
        <5> QED
          BY <5>2, <5>3
      <4> QED
        BY <4>2, <4>3
    <3> QED
      BY <3>1, <3>2, <2>2, <1>15
  <2>3. CASE d # b
    <3>1. builder'[d] = builder[d]
      BY <2>3, <1>13 DEF SetsBuilder
    <3>2. OwnsBuild(d)
      BY <1>20, <3>1, <1>1, <1>3 DEF OwnsBuild
    <3>3. BuildCatchesUp(d)
      BY <3>1, <3>2, <1>20 DEF CacheInv, BuildsCatchUp
    <3>4. \A w \in CachedUsers, n \in Nat : Reaches(d, w, n) => Reaches(d, w, n)'
      BY <3>1, <2>1, <1>1, <1>3, <1>7, <1>9 DEF Reaches
    <3> QED
      BY <3>1, <3>3, <3>4
  <2> QED
    BY <2>2, <2>3
<1>21. BuildsCatchUp'
  <2> SUFFICES ASSUME NEW d \in Builders, builder'[d].pc = "loading", OwnsBuild(d)' PROVE BuildCatchesUp(d)'
    BY DEF BuildsCatchUp
  <2>1. BuildCatchesUp(d) /\ builder'[d].view = builder[d].view
    BY <1>20
  <2>2. \A w \in CachedUsers, n \in Nat : Reaches(d, w, n) => Reaches(d, w, n)'
    BY <1>20
  <2>3. \A w \in CachedUsers : builder'[d].view[w] <= version'[w]
    BY <2>1, <1>1 DEF BuildCatchesUp
  <2>4. \A row \in Rows : Delivered(row)' => Reaches(d, row[1], row[2])'
    BY <2>1, <2>2, <1>17, RowFacts DEF BuildCatchesUp
  <2>5. Healthy(active)' => \A w \in CachedUsers : Reaches(d, w, gens[active].entries[w])'
    <3> SUFFICES ASSUME Healthy(active)', NEW w \in CachedUsers PROVE Reaches(d, w, gens[active].entries[w])'
      OBVIOUS
    <3>1. PICK n : n = gens[active].entries[w]
      OBVIOUS
    <3>2. n \in Nat /\ gens'[active'].entries[w] = n
      BY <3>1, <1>1, <1>18, CacheTypes DEF CacheInv
    <3>3. Reaches(d, w, n)
      BY <3>1, <2>1, <1>18 DEF BuildCatchesUp
    <3>4. Reaches(d, w, n)'
      BY <3>2, <3>3, <2>2
    <3> QED
      BY <3>2, <3>4 DEF Reaches
  <2> QED
    BY <2>3, <2>4, <2>5 DEF BuildCatchesUp
<1>22. BoardGoesOn
  BY <1>1, <1>18, CacheTypes DEF BoardGoesOn, CacheInv
<1> QED
  BY <1>14, <1>16, <1>19, <1>21, <1>22 DEF CacheInv

(* The switch: the build has caught up with everything the board showed. *)
LEMMA ActivateBuildKeeps ==
    ASSUME CacheInv, NEW b \in Builders, ActivateBuild(b)
    PROVE  CacheInv' /\ BoardGoesOn
<1>1. PICK g : g = builder[b].gen
  OBVIOUS
<1>2. /\ UNCHANGED <<version, queue, relay, now>> /\ active' = g /\ building' = NoGen
      /\ builder[b].pc = "loading" /\ builder[b].todo = {} /\ OwnsBuild(b)
  BY <1>1 DEF ActivateBuild
<1>3. g \in Gens /\ g = building /\ g # NoGen
  BY <1>1, <1>2, CacheBounds DEF OwnsBuild, CacheInv, CacheTyped, BuilderShape
<1>4. PICK y : y = [gens[g] EXCEPT !.state = "ready"]
  OBVIOUS
<1>5. gens[g] \in GenRecords
  BY <1>3 DEF CacheInv, CacheTyped
<1>6. y \in GenRecords /\ y.entries = gens[g].entries /\ y.state = "ready"
  BY <1>4, <1>5 DEF GenRecords
<1>7. \A h \in Gens : gens'[h] = IF h = g THEN y ELSE NoGeneration
  <2>1. gens' = Kept([gens EXCEPT ![g] = y], {g})
    BY <1>1, <1>4 DEF ActivateBuild
  <2> QED
    BY <2>1, <1>3 DEF Kept, CacheInv, CacheTyped
<1>8. gens' \in [Gens -> GenRecords]
  <2>1. gens' = [h \in Gens |-> IF h = g THEN y ELSE NoGeneration]
    BY <1>7 DEF ActivateBuild, Kept
  <2> QED
    BY <2>1, <1>6, NoGenerationTyped
<1> DEFINE x == [pc |-> "activated", gen |-> g]
<1>9. builder' = [builder EXCEPT ![b] = x]
  BY <1>1 DEF ActivateBuild
<1>10. BuilderShape(x)
  BY <1>3 DEF BuilderShape
<1> HIDE DEF x
<1>11. SetsBuilder(b, x)
  BY <1>9, <1>10, SetBuilder DEF CacheInv
<1>12. CacheTyped'
  <2>1. \A r \in Relays : RelayShape(relay[r])'
    BY <1>2 DEF CacheInv, CacheTyped, RelayShape, Committed
  <2>2. \A d \in Builders : BuilderShape(builder[d])'
    BY <1>11 DEF SetsBuilder, BuilderShape
  <2> QED
    BY <2>1, <2>2, <1>2, <1>3, <1>8, <1>11 DEF CacheInv, CacheTyped, SetsBuilder, Pointers
<1>13. RowsMatchVersions'
  <2>1. \A h \in Gens, w \in CachedUsers : gens'[h].entries[w] <= version'[w]
    BY <1>2, <1>3, <1>6, <1>7, NoGenerationTyped, CacheTypes DEF CacheInv, RowsMatchVersions
  <2> QED
    BY <2>1, <1>2 DEF CacheInv, RowsMatchVersions, Committed
<1>14. BuildCatchesUp(b)
  BY <1>2 DEF CacheInv, BuildsCatchUp
<1>15. gens'[active'].entries = gens[building].entries
  BY <1>2, <1>3, <1>6, <1>7
<1>16. BoardHolds'
  <2> SUFFICES ASSUME NEW row \in Rows, Delivered(row)' PROVE row[2] <= gens'[active'].entries[row[1]]
    BY DEF BoardHolds
  <2>1. Delivered(row)
    BY <1>2 DEF Delivered
  <2>2. Reaches(b, row[1], row[2])
    BY <2>1, <1>14 DEF BuildCatchesUp
  <2> QED
    BY <2>2, <1>2, <1>15 DEF Reaches
<1>17. BuildsCatchUp'
  <2> SUFFICES ASSUME NEW d \in Builders, builder'[d].pc = "loading", OwnsBuild(d)' PROVE FALSE
    BY DEF BuildsCatchUp
  <2>1. builder'[d].gen = NoGen
    BY <1>2 DEF OwnsBuild
  <2>2. builder'[d].gen \in Gens
    BY <1>11 DEF SetsBuilder, BuilderShape
  <2> QED
    BY <2>1, <2>2, CacheBounds
<1>18. BoardGoesOn
  <2> SUFFICES ASSUME Healthy(active), NEW u \in CachedUsers PROVE gens[active].entries[u] <= gens'[active'].entries[u]
    BY DEF BoardGoesOn
  <2>1. Reaches(b, u, gens[active].entries[u])
    BY <1>14 DEF BuildCatchesUp
  <2> QED
    BY <2>1, <1>2, <1>15 DEF Reaches
<1> QED
  BY <1>12, <1>13, <1>16, <1>17, <1>18 DEF CacheInv

(* The relay's script writes the serving board and the build at once. *)
LEMMA ApplySnapshotKeeps ==
    ASSUME CacheInv, NEW r \in Relays, ApplySnapshot(r)
    PROVE  CacheInv' /\ BoardGoesOn
<1>1. PICK row : row = relay[r].row
  OBVIOUS
<1>2. /\ UNCHANGED <<version, queue, active, building, builder, now>> /\ relay[r].pc = "pinned"
  BY DEF ApplySnapshot
<1>3. row \in Rows /\ Committed(row)
  BY <1>1, <1>2 DEF CacheInv, CacheTyped, RelayShape
<1>4. PICK u, v : u = row[1] /\ v = row[2]
  OBVIOUS
<1>5. u \in CachedUsers /\ v \in Nat /\ v <= version[u]
  BY <1>3, <1>4, RowFacts DEF Committed
<1>6. PICK runs \in BOOLEAN : runs <=> PointersUnchanged(r) /\ Targets(r) # {}
  OBVIOUS
<1>7. gens' = [g \in Gens |-> IF runs /\ g \in Targets(r) /\ Sound(gens[g]) THEN Updated(gens[g], u, v) ELSE gens[g]]
  BY <1>1, <1>4, <1>6 DEF ApplySnapshot
<1>8. runs => active \in Targets(r) \cup {NoGen} /\ building \in Targets(r) \cup {NoGen}
  BY <1>6 DEF PointersUnchanged, Targets
<1>9. ASSUME NEW g \in Gens
      PROVE  /\ gens'[g] \in GenRecords /\ gens'[g].state = gens[g].state
             /\ \A w \in CachedUsers : gens[g].entries[w] <= gens'[g].entries[w]
             /\ \A w \in CachedUsers : gens'[g].entries[w] = gens[g].entries[w] \/ (w = u /\ gens'[g].entries[w] = v)
             /\ runs /\ g \in {active, building} /\ Sound(gens[g]) => v <= gens'[g].entries[u]
             /\ ~runs => gens'[g] = gens[g]
  <2>1. gens[g] \in GenRecords /\ \A w \in CachedUsers : gens[g].entries[w] \in Nat
    BY CacheTypes DEF CacheInv
  <2>2. CASE runs /\ g \in Targets(r) /\ Sound(gens[g])
    <3>1. PICK y : y = Updated(gens[g], u, v)
      OBVIOUS
    <3>2. /\ y \in GenRecords /\ y.state = gens[g].state /\ v <= y.entries[u]
          /\ \A w \in CachedUsers : gens[g].entries[w] <= y.entries[w]
          /\ \A w \in CachedUsers : y.entries[w] = gens[g].entries[w] \/ (w = u /\ y.entries[w] = v)
      BY <3>1, <2>1, <1>5, UpdatedFacts
    <3>3. gens'[g] = y
      BY <3>1, <2>2, <1>7
    <3> QED
      BY <3>2, <3>3, <2>2
  <2>3. CASE ~(runs /\ g \in Targets(r) /\ Sound(gens[g]))
    <3>1. gens'[g] = gens[g]
      BY <2>3, <1>7
    <3>2. g # NoGen
      BY CacheBounds
    <3> QED
      BY <3>1, <3>2, <2>1, <2>3, <1>8
  <2> QED
    BY <2>2, <2>3
<1>10. gens' \in [Gens -> GenRecords]
  <2>1. gens' = [g \in Gens |-> gens'[g]]
    BY <1>7
  <2> QED
    BY <2>1, <1>9
<1>11. PICK x : /\ relay' = [relay EXCEPT ![r] = x]
                /\ x.row = row /\ x.pc \in {"applied", "failed"}
                /\ x.pc = "applied" => runs
  <2> DEFINE z == [pc |-> IF runs /\ \A g \in Targets(r) : Sound(gens[g]) THEN "applied" ELSE "failed", row |-> row]
  <2>1. relay' = [relay EXCEPT ![r] = z]
    BY <1>1, <1>6 DEF ApplySnapshot
  <2>2. z.row = row /\ z.pc \in {"applied", "failed"} /\ (z.pc = "applied" => runs)
    OBVIOUS
  <2> HIDE DEF z
  <2> QED
    BY <2>1, <2>2
<1>12. RelayShape(x)
  BY <1>3, <1>11 DEF RelayShape
<1>13. SetsRelay(r, x)
  BY <1>2, <1>11, <1>12, SetRelay DEF CacheInv
<1>14. CacheTyped'
  <2>1. \A d \in Builders : BuilderShape(builder[d])'
    BY <1>2 DEF CacheInv, CacheTyped, BuilderShape
  <2> QED
    BY <2>1, <1>2, <1>10, <1>13 DEF CacheInv, CacheTyped, SetsRelay
<1>15. RowsMatchVersions'
  <2>1. \A g \in Gens, w \in CachedUsers : gens'[g].entries[w] <= version'[w]
    BY <1>2, <1>5, <1>9 DEF CacheInv, RowsMatchVersions
  <2> QED
    BY <2>1, <1>2 DEF CacheInv, RowsMatchVersions, Committed
<1>16. \A z \in Rows : Delivered(z)' => Delivered(z) \/ (runs /\ z = row)
  BY <1>2, <1>11, <1>13 DEF Delivered, SetsRelay
<1>17. Healthy(active)' => active \in Gens /\ Healthy(active) /\ Sound(gens[active])
  BY <1>2, <1>9 DEF Healthy, Sound, CacheInv, CacheTyped, Pointers
<1>18. \A g \in Gens, w \in CachedUsers : gens[g].entries[w] \in Nat /\ gens'[g].entries[w] \in Nat
  BY <1>9, CacheTypes DEF CacheInv, GenRecords
<1>19. BoardHolds'
  <2> SUFFICES ASSUME Healthy(active)', NEW z \in Rows, Delivered(z)' PROVE z[2] <= gens'[active'].entries[z[1]]
    BY DEF BoardHolds
  <2>1. z[1] \in CachedUsers /\ z[2] \in Nat
    BY RowFacts
  <2>2. CASE Delivered(z)
    <3>1. z[2] <= gens[active].entries[z[1]]
      BY <2>2, <1>17 DEF CacheInv, BoardHolds
    <3> QED
      BY <3>1, <2>1, <1>2, <1>9, <1>17, <1>18
  <2>3. CASE runs /\ z = row
    BY <2>3, <1>2, <1>4, <1>9, <1>17
  <2> QED
    BY <2>2, <2>3, <1>16
<1>20. BuildsCatchUp'
  <2> SUFFICES ASSUME NEW d \in Builders, builder'[d].pc = "loading", OwnsBuild(d)' PROVE BuildCatchesUp(d)'
    BY DEF BuildsCatchUp
  <2>1. building \in Gens
    BY <1>2 DEF OwnsBuild, CacheInv, CacheTyped, BuilderShape
  <2>2. OwnsBuild(d) /\ Sound(gens[building])
    BY <2>1, <1>2, <1>9 DEF OwnsBuild, Sound
  <2>3. BuildCatchesUp(d)
    BY <2>2, <1>2 DEF CacheInv, BuildsCatchUp
  <2>4. \A w \in CachedUsers, n \in Nat : Reaches(d, w, n) => Reaches(d, w, n)'
    BY <2>1, <1>2, <1>9, <1>18 DEF Reaches
  <2>5. runs => Reaches(d, u, v)'
    BY <2>1, <2>2, <1>2, <1>9 DEF Reaches
  <2>6. \A w \in CachedUsers : builder'[d].view[w] <= version'[w]
    BY <2>3, <1>2 DEF BuildCatchesUp
  <2>7. \A z \in Rows : Delivered(z)' => Reaches(d, z[1], z[2])'
    BY <2>3, <2>4, <2>5, <1>4, <1>16, RowFacts DEF BuildCatchesUp
  <2>8. Healthy(active)' => \A w \in CachedUsers : Reaches(d, w, gens[active].entries[w])'
    <3> SUFFICES ASSUME Healthy(active)', NEW w \in CachedUsers PROVE Reaches(d, w, gens[active].entries[w])'
      OBVIOUS
    <3>1. PICK n : n = gens'[active].entries[w]
      OBVIOUS
    <3>2. n \in Nat
      BY <3>1, <1>17, <1>18
    <3>3. CASE n = gens[active].entries[w]
      <4>1. Reaches(d, w, n)
        BY <3>3, <2>3, <1>17 DEF BuildCatchesUp
      <4>2. Reaches(d, w, n)'
        BY <4>1, <3>2, <2>4
      <4> QED
        BY <4>2, <3>1, <1>2 DEF Reaches
    <3>4. CASE n # gens[active].entries[w]
      <4>1. w = u /\ n = v /\ runs
        BY <3>1, <3>4, <1>9, <1>17
      <4>2. Reaches(d, w, n)'
        BY <4>1, <2>5
      <4> QED
        BY <4>2, <3>1, <1>2 DEF Reaches
    <3> QED
      BY <3>3, <3>4
  <2> QED
    BY <2>6, <2>7, <2>8 DEF BuildCatchesUp
<1>21. BoardGoesOn
  BY <1>2, <1>9, <1>17 DEF BoardGoesOn
<1> QED
  BY <1>14, <1>15, <1>19, <1>20, <1>21 DEF CacheInv

LEMMA CacheStep ==
    ASSUME CacheInv, [CacheNext]_cacheVars
    PROVE  CacheInv' /\ BoardGoesOn
<1>1. CASE \E u \in CachedUsers : Project(u)
  BY <1>1, ProjectKeeps
<1>2. ASSUME NEW r \in Relays, \/ \E row \in Rows : ClaimCacheEvent(r, row)
                               \/ Relaying(r) \/ ApplyErrors(r) \/ RelayDies(r)
      PROVE  CacheInv' /\ BoardGoesOn
  BY <1>2, ClaimCacheEventKeeps, RelayFinishesKeeps, RelayPausesKeeps, ApplySnapshotKeeps DEF Relaying
<1>3. CASE \E row \in Rows : EventLeaseLapses(row)
  BY <1>3, EventLeaseLapsesKeeps
<1>4. ASSUME NEW b \in Builders, BeginBuild(b) \/ ReadLag(b) \/ Building(b) \/ Verifying(b) \/ BuilderDies(b)
      PROVE  CacheInv' /\ BoardGoesOn
  BY <1>4, BeginBuildKeeps, ReadLagKeeps, TakeSnapshotKeeps, LoadUserKeeps, ActivateBuildKeeps, BuildDroppedKeeps,
     VerifyFreshnessKeeps, BuilderEndsKeeps DEF Building, Verifying
<1>5. CASE BuildLeaseExpires \/ ActiveExpires \/ \E g \in Gens : Damage(g)
  BY <1>5, BuildDroppedKeeps, DamageKeeps
<1>6. CASE CacheTick
  BY <1>6, TickKeeps
<1>7. CASE UNCHANGED cacheVars
  <2>1. UNCHANGED <<version, queue, gens, active, building, relay, builder, now>>
    BY <1>7 DEF cacheVars
  <2> QED
    BY <2>1, GenerationsStay, BuildersStay, GenerationStep DEF CacheInv
<1> QED
  BY <1>1, <1>2, <1>3, <1>4, <1>5, <1>6, <1>7 DEF CacheNext

(***************************************************************************)
(* AppliedIsCached: an outbox row that CompleteCacheEvent marked applied   *)
(* is on the serving board, for any number of relays, builders, users and  *)
(* generations, and whatever dies, stalls, expires or is damaged.          *)
(***************************************************************************)
THEOREM AppliedRowsAreCached == CacheSpec => []AppliedIsCached
<1>1. CacheInit => CacheInv
  BY CacheInvInit DEF FreshInv
<1>2. CacheInv /\ [CacheNext]_cacheVars => CacheInv'
  BY CacheStep
<1>3. CacheInv => AppliedIsCached
  <2> SUFFICES ASSUME CacheInv, Healthy(active), NEW row \in Rows, queue[row].status = "applied"
               PROVE  gens[active].entries[row[1]] >= row[2]
    BY DEF AppliedIsCached
  <2>1. row[2] <= gens[active].entries[row[1]]
    BY DEF CacheInv, BoardHolds, Delivered
  <2>2. active \in Gens /\ row[1] \in CachedUsers /\ row[2] \in Nat
    BY RowFacts DEF Healthy, CacheInv, CacheTyped, Pointers
  <2>3. gens[active].entries[row[1]] \in Nat
    BY <2>2, CacheTypes DEF CacheInv
  <2> QED
    BY <2>1, <2>2, <2>3
<1> QED
  BY <1>1, <1>2, <1>3, PTL DEF CacheSpec

(***************************************************************************)
(* BoardNeverGoesBack: no relay, snapshot load, switch or maintenance step *)
(* lowers the version that the serving generation shows for a user.        *)
(***************************************************************************)
THEOREM BoardsNeverGoBack == CacheSpec => BoardNeverGoesBack
<1>1. CacheInit => CacheInv
  BY CacheInvInit DEF FreshInv
<1>2. CacheInv /\ [CacheNext]_cacheVars => CacheInv'
  BY CacheStep
<1>3. CacheInv /\ [CacheNext]_cacheVars
      => [Healthy(active) /\ Healthy(active)' =>
            \A u \in CachedUsers : gens[active].entries[u] <= gens'[active'].entries[u]]_cacheVars
  BY CacheStep DEF BoardGoesOn
<1> QED
  BY <1>1, <1>2, <1>3, PTL DEF CacheSpec, BoardNeverGoesBack

(***************************************************************************)
(* Freshness.  Rows age in place: a row keeps its created_at and never     *)
(* leaves "applied", and a new row is created now.                         *)
(***************************************************************************)
RowAges(row) ==
    \/ Committed(row) /\ queue'[row].createdAt = queue[row].createdAt
       /\ (queue[row].status = "applied" => queue'[row].status = "applied")
    \/ queue'[row].createdAt = now
RowsAge == now <= now' /\ \A row \in Rows : Committed(row)' => RowAges(row)

LEMMA SameRowsAge ==
    ASSUME CacheInv, UNCHANGED <<version, queue, now>>
    PROVE  RowsAge
BY DEF CacheInv, CacheTyped, RowsAge, RowAges, Committed

LEMMA RowMovesAge ==
    ASSUME CacheInv, UNCHANGED <<version, now>>, NEW row \in Rows, NEW y,
           y.createdAt = queue[row].createdAt, queue[row].status # "applied",
           queue' = [queue EXCEPT ![row] = y]
    PROVE  RowsAge
<1>1. \A z \in Rows : queue'[z] = IF z = row THEN y ELSE queue[z]
  BY DEF CacheInv, CacheTyped
<1> QED
  BY <1>1 DEF CacheInv, CacheTyped, RowsAge, RowAges, Committed

LEMMA RowChangesAge ==
    ASSUME CacheInv, NEW row \in Rows,
           EventLeaseLapses(row) \/ \E r \in Relays : ClaimCacheEvent(r, row)
    PROVE  RowsAge
<1>1. UNCHANGED <<version, now>> /\ queue[row].status # "applied"
  BY DEF EventLeaseLapses, ClaimCacheEvent
<1>2. queue[row] \in RowRecords
  BY DEF CacheInv, CacheTyped
<1>3. CASE EventLeaseLapses(row)
  <2>1. PICK y : y = [queue[row] EXCEPT !.leased = FALSE]
    OBVIOUS
  <2>2. y.createdAt = queue[row].createdAt
    BY <2>1, <1>2 DEF RowRecords
  <2>3. queue' = [queue EXCEPT ![row] = y]
    BY <2>1, <1>3 DEF EventLeaseLapses
  <2> QED
    BY <2>2, <2>3, <1>1, RowMovesAge
<1>4. ASSUME NEW r \in Relays, ClaimCacheEvent(r, row) PROVE RowsAge
  <2>1. PICK y : y = [queue[row] EXCEPT !.owner = r, !.leased = TRUE]
    OBVIOUS
  <2>2. y.createdAt = queue[row].createdAt
    BY <2>1, <1>2 DEF RowRecords
  <2>3. queue' = [queue EXCEPT ![row] = y]
    BY <2>1, <1>4 DEF ClaimCacheEvent, CacheInv, CacheTyped
  <2> QED
    BY <2>2, <2>3, <1>1, RowMovesAge
<1> QED
  BY <1>3, <1>4

LEMMA FinishRowAge ==
    ASSUME CacheInv, NEW r \in Relays, NEW status, FinishRow(r, status), relay[r].pc # "idle"
    PROVE  RowsAge
<1>1. UNCHANGED <<version, now>>
  BY DEF FinishRow
<1>2. PICK row : row = relay[r].row
  OBVIOUS
<1>3. row \in Rows
  BY <1>2 DEF CacheInv, CacheTyped, RelayShape
<1>4. CASE ~LeaseHeld(r)
  BY <1>1, <1>4, SameRowsAge DEF FinishRow
<1>5. CASE LeaseHeld(r)
  <2>1. PICK y : y = [queue[row] EXCEPT !.status = status, !.owner = NoGen, !.leased = FALSE]
    OBVIOUS
  <2>2. queue[row] \in RowRecords /\ queue[row].status = "pending"
    BY <1>2, <1>3, <1>5 DEF CacheInv, CacheTyped, LeaseHeld
  <2>3. y.createdAt = queue[row].createdAt
    BY <2>1, <2>2 DEF RowRecords
  <2>4. queue' = [queue EXCEPT ![row] = y]
    BY <1>2, <1>5, <2>1 DEF FinishRow
  <2> QED
    BY <1>1, <1>3, <2>2, <2>3, <2>4, RowMovesAge
<1> QED
  BY <1>4, <1>5

LEMMA ProjectAges ==
    ASSUME CacheInv, NEW u \in CachedUsers, Project(u)
    PROVE  RowsAge
<1>1. now' = now /\ now \in Nat /\ version[u] < MaxVersion /\ version[u] \in Nat
  BY CacheTypes DEF Project, CacheInv, CacheTyped
<1>2. PICK w : w = <<u, version[u] + 1>>
  OBVIOUS
<1>3. PICK y : y = [status |-> "pending", owner |-> NoGen, leased |-> FALSE, createdAt |-> now]
  OBVIOUS
<1>4. w \in Rows /\ y.createdAt = now
  BY <1>1, <1>2, <1>3, CacheBounds DEF Rows, Versions
<1>5. queue' = [queue EXCEPT ![w] = y] /\ version' = [version EXCEPT ![u] = version[u] + 1]
  BY <1>2, <1>3 DEF Project
<1>6. \A z \in Rows : queue'[z] = IF z = w THEN y ELSE queue[z]
  BY <1>5 DEF CacheInv, CacheTyped
<1>7. \A z \in CachedUsers : version'[z] = IF z = u THEN version[u] + 1 ELSE version[z]
  BY <1>5 DEF CacheInv, CacheTyped
<1>8. ASSUME NEW z \in Rows, z # w, Committed(z)' PROVE Committed(z)
  <2>1. z[1] \in CachedUsers /\ z[2] \in Nat /\ z = <<z[1], z[2]>>
    BY RowFacts
  <2>2. CASE z[1] # u
    BY <1>8, <2>1, <2>2, <1>7 DEF Committed
  <2>3. CASE z[1] = u
    <3>1. z[2] # version[u] + 1
      BY <1>8, <2>1, <2>3, <1>2
    <3> QED
      BY <1>8, <3>1, <2>1, <2>3, <1>1, <1>7 DEF Committed
  <2> QED
    BY <2>2, <2>3
<1>9. \A z \in Rows : Committed(z)' => RowAges(z)
  BY <1>4, <1>6, <1>8 DEF RowAges
<1> QED
  BY <1>1, <1>9 DEF RowsAge

LEMMA CacheRowsAge ==
    ASSUME CacheInv, [CacheNext]_cacheVars
    PROVE  RowsAge
<1>1. CASE \E u \in CachedUsers : Project(u)
  BY <1>1, ProjectAges
<1>2. ASSUME NEW r \in Relays, \/ \E row \in Rows : ClaimCacheEvent(r, row)
                               \/ Relaying(r) \/ ApplyErrors(r) \/ RelayDies(r)
      PROVE  RowsAge
  <2>1. CASE \E row \in Rows : ClaimCacheEvent(r, row)
    BY <2>1, RowChangesAge
  <2>2. CASE RejectSnapshot(r) \/ CompleteCacheEvent(r) \/ FailCacheEvent(r)
    BY <2>2, FinishRowAge DEF RejectSnapshot, CompleteCacheEvent, FailCacheEvent
  <2>3. CASE ReadPointers(r) \/ ApplySnapshot(r) \/ ApplyErrors(r) \/ RelayDies(r)
    BY <2>3, SameRowsAge DEF ReadPointers, ApplySnapshot, ApplyErrors, RelayDies
  <2> QED
    BY <1>2, <2>1, <2>2, <2>3 DEF Relaying
<1>3. CASE \E row \in Rows : EventLeaseLapses(row)
  BY <1>3, RowChangesAge
<1>4. ASSUME NEW b \in Builders, BeginBuild(b) \/ ReadLag(b) \/ Building(b) \/ Verifying(b) \/ BuilderDies(b)
      PROVE  RowsAge
  <2>1. UNCHANGED <<version, queue, now>>
    BY <1>4 DEF BeginBuild, ReadLag, Building, Verifying, BuilderDies, TakeSnapshot, LoadUser, ActivateBuild,
                AbandonBuild, VerifyFreshness, VerifyTimesOut
  <2> QED
    BY <2>1, SameRowsAge
<1>5. CASE BuildLeaseExpires \/ ActiveExpires \/ \E g \in Gens : Damage(g)
  BY <1>5, SameRowsAge DEF BuildLeaseExpires, ActiveExpires, Damage
<1>6. CASE CacheTick
  <2>1. now <= now' /\ UNCHANGED <<version, queue>>
    BY <1>6 DEF CacheTick, CacheInv, CacheTyped
  <2> QED
    BY <2>1 DEF RowsAge, RowAges, Committed
<1>7. CASE UNCHANGED cacheVars
  BY <1>7, SameRowsAge DEF cacheVars
<1> QED
  BY <1>1, <1>2, <1>3, <1>4, <1>5, <1>6, <1>7 DEF CacheNext

(* A lag that was true stays true. *)
LEMMA LagStaysTrue ==
    ASSUME CacheInv, CacheInv', RowsAge, NEW at \in Int, NEW lag \in Nat, LagCovers(at, lag)
    PROVE  LagCovers(at, lag)'
<1>1. now \in Nat /\ now' \in Nat /\ now <= now' /\ at <= now + lag
  BY DEF CacheInv, CacheTyped, RowsAge, LagCovers
<1>2. at <= now' + lag
  <2>1. PICK m, n : m = now /\ n = now'
    OBVIOUS
  <2>2. m \in Nat /\ n \in Nat /\ m <= n /\ at <= m + lag
    BY <1>1, <2>1
  <2>3. at <= n + lag
    BY <2>2
  <2> QED
    BY <2>1, <2>3
<1>3. ASSUME ~(lag > MaxAge), NEW row \in Rows, Committed(row)'
      PROVE  queue'[row].status = "applied" \/ at <= queue'[row].createdAt + lag
  <2>1. RowAges(row)
    BY <1>3 DEF RowsAge
  <2>2. CASE queue'[row].createdAt = now
    BY <2>2, <1>1
  <2>3. CASE /\ Committed(row) /\ queue'[row].createdAt = queue[row].createdAt
             /\ (queue[row].status = "applied" => queue'[row].status = "applied")
    BY <2>3, <1>3 DEF LagCovers
  <2> QED
    BY <2>1, <2>2, <2>3 DEF RowAges
<1> QED
  BY <1>2, <1>3 DEF LagCovers

(* Only ReadLag starts a check, and only VerifyFreshness records one. *)
ChecksStay ==
    /\ \A b \in Builders : builder'[b].pc = "verifying" => builder'[b] = builder[b]
    /\ \A g \in Gens : gens'[g].checked # Never
         => gens'[g].checked = gens[g].checked /\ gens'[g].lag = gens[g].lag /\ gens'[g].overrun = gens[g].overrun

LEMMA ChecksStayTrue ==
    ASSUME FreshInv, CacheInv', RowsAge, ChecksStay
    PROVE  LagsAreTrue'
<1>1. now \in Nat /\ now' \in Nat /\ now <= now' /\ CallTimeout \in Nat
  BY CacheBounds DEF FreshInv, CacheInv, CacheTyped, RowsAge
<1>2. ASSUME NEW b \in Builders, builder'[b].pc = "verifying"
      PROVE  LagCovers(builder[b].readAt + CallTimeout, builder[b].lag)'
  <2>1. PICK at, lag : at = builder[b].readAt + CallTimeout /\ lag = builder[b].lag
    OBVIOUS
  <2>2. builder'[b] = builder[b] /\ builder[b].readAt \in Nat /\ lag \in Nat
    BY <1>2, <2>1 DEF ChecksStay, FreshInv, CacheInv, CacheTyped, BuilderShape
  <2>3. at \in Int /\ LagCovers(at, lag)
    BY <1>1, <1>2, <2>1, <2>2 DEF FreshInv, LagsAreTrue
  <2>4. LagCovers(at, lag)'
    BY <2>2, <2>3, LagStaysTrue DEF FreshInv
  <2> QED
    BY <2>1, <2>2, <2>4 DEF LagCovers
<1>3. ASSUME NEW g \in Gens, gens'[g].checked # Never
      PROVE  gens'[g].checked <= now' /\ LagCovers(gens[g].checked - gens[g].overrun, gens[g].lag)'
  <2>1. PICK at, lag, o : at = gens[g].checked /\ lag = gens[g].lag /\ o = gens[g].overrun
    OBVIOUS
  <2>2. gens'[g].checked = at /\ gens'[g].lag = lag /\ gens'[g].overrun = o /\ at # Never
    BY <1>3, <2>1 DEF ChecksStay
  <2>3. lag \in Nat /\ at \in Int /\ o \in Nat /\ at <= now /\ LagCovers(at - o, lag)
    BY <2>1, <2>2, CacheTypes DEF FreshInv, LagsAreTrue, CacheInv
  <2>4. PICK t : t = at - o
    OBVIOUS
  <2>5. LagCovers(t, lag)'
    BY <2>3, <2>4, LagStaysTrue DEF FreshInv
  <2>6. at <= now'
    BY <1>1, <2>3
  <2> QED
    BY <2>2, <2>4, <2>5, <2>6 DEF LagCovers
<1> QED
  BY <1>2, <1>3 DEF LagsAreTrue

LEMMA SameChecksStay ==
    ASSUME CacheTyped, UNCHANGED <<gens, builder>>
    PROVE  ChecksStay
BY DEF ChecksStay

(* A step that ends or changes one builder's task, and the generations with it. *)
GenKeepsCheck(g) ==
    gens'[g].checked # Never => gens'[g].checked = gens[g].checked /\ gens'[g].lag = gens[g].lag /\ gens'[g].overrun = gens[g].overrun

LEMMA BuilderKeepsChecks ==
    ASSUME CacheTyped, NEW b \in Builders, NEW x, x.pc # "verifying", builder' = [builder EXCEPT ![b] = x],
           \A g \in Gens : GenKeepsCheck(g)
    PROVE  ChecksStay
<1>1. \A d \in Builders : builder'[d] = IF d = b THEN x ELSE builder[d]
  BY DEF CacheTyped
<1> QED
  BY <1>1 DEF ChecksStay, GenKeepsCheck

LEMMA KeptKeepsChecks ==
    ASSUME CacheTyped, NEW keep, gens' = Kept(gens, keep)
    PROVE  \A g \in Gens : GenKeepsCheck(g)
<1>1. \A g \in Gens : gens'[g] = IF g \in keep THEN gens[g] ELSE NoGeneration
  BY DEF Kept
<1> QED
  BY <1>1, NoGenerationTyped DEF GenKeepsCheck

LEMMA ReplacedKeepsChecks ==
    ASSUME CacheTyped, NEW h \in Gens, NEW y, gens' = [gens EXCEPT ![h] = y],
           y.checked = Never \/ (y.checked = gens[h].checked /\ y.lag = gens[h].lag /\ y.overrun = gens[h].overrun)
    PROVE  \A g \in Gens : GenKeepsCheck(g)
<1>1. \A g \in Gens : gens'[g] = IF g = h THEN y ELSE gens[g]
  BY DEF CacheTyped
<1> QED
  BY <1>1 DEF GenKeepsCheck

LEMMA BuildStepsKeepChecks ==
    ASSUME CacheInv, NEW b \in Builders,
           \/ BeginBuild(b) \/ TakeSnapshot(b) \/ (\E u \in CachedUsers : LoadUser(b, u)) \/ ActivateBuild(b)
           \/ AbandonBuild(b) \/ BuilderDies(b) \/ VerifyTimesOut(b)
    PROVE  ChecksStay
<1>1. CacheTyped
  BY DEF CacheInv
<1>2. CASE BeginBuild(b)
  <2>1. PICK g : g = CHOOSE fresh \in Gens : fresh \notin Referenced
    OBVIOUS
  <2>2. g \in Gens
    <3>1. \E fresh \in Gens : fresh \notin Referenced
      BY <1>2 DEF BeginBuild
    <3> QED
      BY <2>1, <3>1
  <2>3. PICK y : y = [NoGeneration EXCEPT !.state = "building", !.previous = active]
    OBVIOUS
  <2>4. y.checked = Never
    BY <2>3 DEF NoGeneration
  <2>5. gens' = [gens EXCEPT ![g] = y]
    BY <2>1, <2>3, <1>2 DEF BeginBuild
  <2>6. \A h \in Gens : GenKeepsCheck(h)
    BY <1>1, <2>2, <2>4, <2>5, ReplacedKeepsChecks
  <2> DEFINE x == [pc |-> "begun", gen |-> g]
  <2>7. builder' = [builder EXCEPT ![b] = x] /\ x.pc # "verifying"
    BY <2>1, <1>2 DEF BeginBuild
  <2> HIDE DEF x
  <2> QED
    BY <1>1, <2>6, <2>7, BuilderKeepsChecks
<1>3. CASE TakeSnapshot(b)
  <2> DEFINE x == [pc |-> "loading", gen |-> builder[b].gen, view |-> version, todo |-> {u \in CachedUsers : version[u] > 0}]
  <2>1. builder' = [builder EXCEPT ![b] = x] /\ x.pc # "verifying" /\ gens' = gens
    BY <1>3 DEF TakeSnapshot
  <2> HIDE DEF x
  <2> QED
    BY <1>1, <2>1, BuilderKeepsChecks DEF GenKeepsCheck
<1>4. ASSUME NEW u \in CachedUsers, LoadUser(b, u) PROVE ChecksStay
  <2>1. PICK g, v : g = builder[b].gen /\ v = builder[b].view[u]
    OBVIOUS
  <2>2. g \in Gens /\ v \in Nat /\ builder[b].pc = "loading"
        /\ builder[b] = [pc |-> builder[b].pc, gen |-> g, view |-> builder[b].view, todo |-> builder[b].todo]
    BY <1>1, <1>4, <2>1 DEF LoadUser, CacheTyped, BuilderShape
  <2>3. gens[g] \in GenRecords
    BY <1>1, <2>2 DEF CacheTyped
  <2>4. PICK y : y = Updated(gens[g], u, v)
    OBVIOUS
  <2>5. y.checked = gens[g].checked /\ y.lag = gens[g].lag /\ y.overrun = gens[g].overrun
    BY <2>2, <2>3, <2>4, UpdatedFacts
  <2>6. gens' = [gens EXCEPT ![g] = y]
    BY <1>4, <2>1, <2>4 DEF LoadUser
  <2>7. \A h \in Gens : GenKeepsCheck(h)
    BY <1>1, <2>2, <2>5, <2>6, ReplacedKeepsChecks
  <2>8. PICK z : z = builder[b]
    OBVIOUS
  <2>9. PICK x : x = [z EXCEPT !.todo = builder[b].todo \ {u}]
    OBVIOUS
  <2>10. builder' = [builder EXCEPT ![b] = x]
    BY <1>4, <2>8, <2>9 DEF LoadUser
  <2>11. x.pc # "verifying"
    BY <2>2, <2>8, <2>9
  <2> QED
    BY <1>1, <2>7, <2>10, <2>11, BuilderKeepsChecks
<1>5. CASE ActivateBuild(b)
  <2>1. PICK g : g = builder[b].gen
    OBVIOUS
  <2>2. g \in Gens
    BY <1>1, <1>5, <2>1 DEF ActivateBuild, CacheTyped, BuilderShape
  <2>3. gens[g] \in GenRecords
    BY <1>1, <2>2 DEF CacheTyped
  <2>4. PICK y : y = [gens[g] EXCEPT !.state = "ready"]
    OBVIOUS
  <2>5. y.checked = gens[g].checked /\ y.lag = gens[g].lag /\ y.overrun = gens[g].overrun
    BY <2>3, <2>4 DEF GenRecords
  <2>6. \A h \in Gens : gens'[h] = IF h = g THEN y ELSE NoGeneration
    <3>1. gens' = Kept([gens EXCEPT ![g] = y], {g})
      BY <1>5, <2>1, <2>4 DEF ActivateBuild
    <3> QED
      BY <3>1, <1>1, <2>2 DEF Kept, CacheTyped
  <2>7. \A h \in Gens : GenKeepsCheck(h)
    BY <2>5, <2>6, NoGenerationTyped DEF GenKeepsCheck
  <2> DEFINE x == [pc |-> "activated", gen |-> g]
  <2>8. builder' = [builder EXCEPT ![b] = x] /\ x.pc # "verifying"
    BY <2>1, <1>5 DEF ActivateBuild
  <2> HIDE DEF x
  <2> QED
    BY <1>1, <2>7, <2>8, BuilderKeepsChecks
<1>6. CASE AbandonBuild(b)
  <2>1. builder' = [builder EXCEPT ![b] = IdleBuilder] /\ gens' = Kept(gens, {active, building'})
    BY <1>6 DEF AbandonBuild
  <2>2. \A h \in Gens : GenKeepsCheck(h)
    BY <1>1, <2>1, KeptKeepsChecks
  <2> QED
    BY <1>1, <2>1, <2>2, IdleBuilderShape, BuilderKeepsChecks
<1>7. CASE BuilderDies(b) \/ VerifyTimesOut(b)
  <2>1. builder' = [builder EXCEPT ![b] = IdleBuilder] /\ gens' = gens
    BY <1>7 DEF BuilderDies, VerifyTimesOut
  <2> QED
    BY <1>1, <2>1, IdleBuilderShape, BuilderKeepsChecks DEF GenKeepsCheck
<1> QED
  BY <1>2, <1>3, <1>4, <1>5, <1>6, <1>7

LEMMA OtherStepsKeepChecks ==
    ASSUME CacheInv, \/ BuildLeaseExpires \/ ActiveExpires \/ (\E g \in Gens : Damage(g))
                     \/ \E r \in Relays : ApplySnapshot(r)
    PROVE  ChecksStay
<1>1. CacheTyped
  BY DEF CacheInv
<1>2. CASE BuildLeaseExpires \/ ActiveExpires
  <2>1. \A h \in Gens : GenKeepsCheck(h)
    BY <1>1, <1>2, KeptKeepsChecks DEF BuildLeaseExpires, ActiveExpires
  <2>2. builder' = builder
    BY <1>2 DEF BuildLeaseExpires, ActiveExpires
  <2> QED
    BY <2>1, <2>2 DEF ChecksStay, GenKeepsCheck
<1>3. ASSUME NEW g \in Gens, Damage(g) PROVE ChecksStay
  <2>1. PICK y : y = [gens[g] EXCEPT !.state = "dirty"]
    OBVIOUS
  <2>2. gens[g] \in GenRecords
    BY <1>1 DEF CacheTyped
  <2>3. y.checked = gens[g].checked /\ y.lag = gens[g].lag /\ y.overrun = gens[g].overrun
    BY <2>1, <2>2 DEF GenRecords
  <2>4. gens' = [gens EXCEPT ![g] = y] /\ builder' = builder
    BY <1>3, <2>1 DEF Damage
  <2>5. \A h \in Gens : GenKeepsCheck(h)
    BY <1>1, <2>3, <2>4, ReplacedKeepsChecks
  <2> QED
    BY <2>4, <2>5 DEF ChecksStay, GenKeepsCheck
<1>4. ASSUME NEW r \in Relays, ApplySnapshot(r) PROVE ChecksStay
  <2>1. PICK row : row = relay[r].row
    OBVIOUS
  <2>2. row \in Rows
    BY <1>1, <1>4, <2>1 DEF ApplySnapshot, CacheTyped, RelayShape
  <2>3. PICK u, v : u = row[1] /\ v = row[2]
    OBVIOUS
  <2>4. u \in CachedUsers /\ v \in Nat
    BY <2>2, <2>3, RowFacts
  <2>5. ASSUME NEW h \in Gens PROVE GenKeepsCheck(h)
    <3>1. PICK y : y = Updated(gens[h], u, v)
      OBVIOUS
    <3>2. gens'[h] = gens[h] \/ gens'[h] = y
      BY <1>4, <2>1, <2>3, <3>1 DEF ApplySnapshot
    <3>3. gens[h] \in GenRecords
      BY <1>1 DEF CacheTyped
    <3>4. y.checked = gens[h].checked /\ y.lag = gens[h].lag /\ y.overrun = gens[h].overrun
      BY <2>4, <3>1, <3>3, UpdatedFacts
    <3> QED
      BY <3>2, <3>4 DEF GenKeepsCheck
  <2>6. builder' = builder
    BY <1>4 DEF ApplySnapshot
  <2> QED
    BY <2>5, <2>6 DEF ChecksStay, GenKeepsCheck
<1> QED
  BY <1>2, <1>3, <1>4

(* verifyLeaderboard reads a lag that covers the whole call. *)
LEMMA ReadLagIsTrue ==
    ASSUME CacheInv
    PROVE  LagCovers(now + CallTimeout, Lag)
<1>1. now \in Nat /\ MaxAge \in Nat /\ CallTimeout \in Nat /\ Lag \in Nat /\ CallTimeout <= Lag
  BY LagIsNumber, CacheBounds DEF CacheInv, CacheTyped
<1>2. now + CallTimeout <= now + Lag
  BY <1>1
<1>3. ASSUME ~(Lag > MaxAge), NEW row \in Rows, Committed(row), queue[row].status # "applied"
      PROVE  now + CallTimeout <= queue[row].createdAt + Lag
  <2>1. row \in Undelivered /\ queue[row].createdAt \in Nat
    BY <1>3, CacheTypes DEF CacheInv, RowsMatchVersions, Undelivered
  <2>2. OldestAge \in Nat /\ now - OldestAge <= queue[row].createdAt
    BY <2>1, OldestExists
  <2>3. Lag = OldestAge + CallTimeout
    BY <1>1, <1>3, <2>2 DEF Lag
  <2> QED
    BY <1>1, <2>1, <2>2, <2>3
<1> QED
  BY <1>2, <1>3 DEF LagCovers

LEMMA ReadLagKeepsTrue ==
    ASSUME FreshInv, CacheInv', NEW b \in Builders, ReadLag(b)
    PROVE  LagsAreTrue'
<1>1. PICK g : g = IF builder[b].pc = "activated" THEN builder[b].gen ELSE active
  OBVIOUS
<1>2. PICK lag, t : lag = Lag /\ t = now
  OBVIOUS
<1> DEFINE x == [pc |-> "verifying", gen |-> g, lag |-> lag, readAt |-> t]
<1>3. UNCHANGED <<version, queue, gens, now>> /\ builder' = [builder EXCEPT ![b] = x]
  BY <1>1, <1>2 DEF ReadLag
<1>4. x.lag = lag /\ x.readAt = t
  OBVIOUS
<1> HIDE DEF x
<1>5. \A d \in Builders : builder'[d] = IF d = b THEN x ELSE builder[d]
  BY <1>3 DEF FreshInv, CacheInv, CacheTyped
<1>6. LagCovers(t + CallTimeout, lag)
  BY <1>2, ReadLagIsTrue DEF FreshInv
<1>7. ASSUME NEW d \in Builders, builder'[d].pc = "verifying"
      PROVE  LagCovers(builder[d].readAt + CallTimeout, builder[d].lag)'
  <2>1. CASE d = b
    BY <2>1, <1>3, <1>4, <1>5, <1>6 DEF LagCovers, Committed
  <2>2. CASE d # b
    <3>1. builder'[d] = builder[d]
      BY <2>2, <1>5
    <3>2. LagCovers(builder[d].readAt + CallTimeout, builder[d].lag)
      BY <3>1, <1>7 DEF FreshInv, LagsAreTrue
    <3> QED
      BY <3>1, <3>2, <1>3 DEF LagCovers, Committed
  <2> QED
    BY <2>1, <2>2
<1>8. \A h \in Gens : gens'[h].checked # Never => gens'[h].checked <= now' /\ LagCovers(gens[h].checked - gens[h].overrun, gens[h].lag)'
  BY <1>3 DEF FreshInv, LagsAreTrue, LagCovers, Committed
<1> QED
  BY <1>7, <1>8 DEF LagsAreTrue

(* What was read covers the call up to its timeout, so it covers the moment *)
(* the script ran but for its overrun.                                      *)
LEMMA VerifyFreshnessKeepsTrue ==
    ASSUME FreshInv, CacheInv', NEW b \in Builders, VerifyFreshness(b)
    PROVE  LagsAreTrue'
<1>1. /\ UNCHANGED <<version, queue, now>> /\ builder' = [builder EXCEPT ![b] = IdleBuilder]
      /\ builder[b].pc = "verifying"
  BY DEF VerifyFreshness
<1>2. PICK g, lag, t : g = builder[b].gen /\ lag = builder[b].lag /\ t = builder[b].readAt
  OBVIOUS
<1>3. g \in Gens /\ lag \in Nat /\ t \in Nat /\ now \in Nat /\ CallTimeout \in Nat
  BY <1>1, <1>2, CacheBounds DEF FreshInv, CacheInv, CacheTyped, BuilderShape
<1>4. LagCovers(t + CallTimeout, lag)
  BY <1>1, <1>2 DEF FreshInv, LagsAreTrue
<1> DEFINE o == Overrun(now - t)
<1>5. o \in Nat /\ now - o <= t + CallTimeout /\ now - o <= now
  BY <1>3 DEF Overrun
<1> HIDE DEF o
<1>6. LagCovers(now - o, lag)
  <2>1. now - o <= now + lag
    BY <1>3, <1>5
  <2>2. \A row \in Rows : queue[row].createdAt \in Nat
    BY CacheTypes DEF FreshInv, CacheInv
  <2>3. \A row \in Rows : t + CallTimeout <= queue[row].createdAt + lag => now - o <= queue[row].createdAt + lag
    BY <2>2, <1>3, <1>5
  <2> QED
    BY <2>1, <2>3, <1>4 DEF LagCovers
<1>7. PICK y : y = [gens[g] EXCEPT !.checked = now, !.lag = lag, !.overrun = o]
  OBVIOUS
<1>8. gens[g] \in GenRecords
  BY <1>3 DEF FreshInv, CacheInv, CacheTyped
<1>9. y.checked = now /\ y.lag = lag /\ y.overrun = o
  BY <1>7, <1>8 DEF GenRecords
<1>10. gens' = gens \/ gens' = [gens EXCEPT ![g] = y]
  BY <1>2, <1>3, <1>7 DEF VerifyFreshness, FreshInv, CacheInv, CacheTyped, o
<1>11. \A h \in Gens : gens'[h] = gens[h] \/ gens'[h] = y
  BY <1>3, <1>10 DEF FreshInv, CacheInv, CacheTyped
<1>12. ASSUME NEW h \in Gens, gens'[h].checked # Never
       PROVE  gens'[h].checked <= now' /\ LagCovers(gens[h].checked - gens[h].overrun, gens[h].lag)'
  <2>1. CASE gens'[h] = gens[h]
    BY <2>1, <1>1, <1>12 DEF FreshInv, LagsAreTrue, LagCovers, Committed
  <2>2. CASE gens'[h] = y
    BY <2>2, <1>1, <1>3, <1>6, <1>9 DEF LagCovers, Committed
  <2> QED
    BY <2>1, <2>2, <1>11
<1>13. ASSUME NEW d \in Builders, builder'[d].pc = "verifying"
       PROVE  LagCovers(builder[d].readAt + CallTimeout, builder[d].lag)'
  <2>1. \A c \in Builders : builder'[c] = IF c = b THEN IdleBuilder ELSE builder[c]
    BY <1>1 DEF FreshInv, CacheInv, CacheTyped
  <2>2. builder'[d] = builder[d]
    BY <2>1, <1>13, IdleBuilderShape
  <2>3. LagCovers(builder[d].readAt + CallTimeout, builder[d].lag)
    BY <2>2, <1>13 DEF FreshInv, LagsAreTrue
  <2> QED
    BY <2>2, <2>3, <1>1 DEF LagCovers, Committed
<1> QED
  BY <1>12, <1>13 DEF LagsAreTrue

LEMMA FreshStep ==
    ASSUME FreshInv, [CacheNext]_cacheVars
    PROVE  FreshInv'
<1>1. CacheInv /\ CacheInv' /\ RowsAge
  BY CacheStep, CacheRowsAge DEF FreshInv
<1> SUFFICES LagsAreTrue'
  BY <1>1 DEF FreshInv
<1>2. CASE \E b \in Builders : ReadLag(b)
  BY <1>1, <1>2, ReadLagKeepsTrue
<1>3. CASE \E b \in Builders : VerifyFreshness(b)
  BY <1>1, <1>3, VerifyFreshnessKeepsTrue
<1>4. CASE ~(\E b \in Builders : ReadLag(b)) /\ ~(\E b \in Builders : VerifyFreshness(b))
  <2>1. ChecksStay
    <3>1. CASE \E u \in CachedUsers : Project(u)
      BY <3>1, <1>1, SameChecksStay DEF Project, CacheInv
    <3>2. ASSUME NEW r \in Relays, \/ \E row \in Rows : ClaimCacheEvent(r, row)
                                   \/ Relaying(r) \/ ApplyErrors(r) \/ RelayDies(r)
          PROVE  ChecksStay
      <4>1. CASE ApplySnapshot(r)
        BY <4>1, <1>1, OtherStepsKeepChecks
      <4>2. CASE ~ApplySnapshot(r)
        <5>1. UNCHANGED <<gens, builder>>
          BY <3>2, <4>2 DEF ClaimCacheEvent, Relaying, RejectSnapshot, ReadPointers, CompleteCacheEvent,
                            FailCacheEvent, FinishRow, ApplyErrors, RelayDies
        <5> QED
          BY <5>1, <1>1, SameChecksStay DEF CacheInv
      <4> QED
        BY <4>1, <4>2
    <3>3. CASE \E row \in Rows : EventLeaseLapses(row)
      BY <3>3, <1>1, SameChecksStay DEF EventLeaseLapses, CacheInv
    <3>4. ASSUME NEW b \in Builders, BeginBuild(b) \/ ReadLag(b) \/ Building(b) \/ Verifying(b) \/ BuilderDies(b)
          PROVE  ChecksStay
      BY <3>4, <1>1, <1>4, BuildStepsKeepChecks DEF Building, Verifying
    <3>5. CASE BuildLeaseExpires \/ ActiveExpires \/ \E g \in Gens : Damage(g)
      BY <3>5, <1>1, OtherStepsKeepChecks
    <3>6. CASE CacheTick
      BY <3>6, <1>1, SameChecksStay DEF CacheTick, CacheInv
    <3>7. CASE UNCHANGED cacheVars
      BY <3>7, <1>1, SameChecksStay DEF cacheVars, CacheInv
    <3> QED
      BY <3>1, <3>2, <3>3, <3>4, <3>5, <3>6, <3>7 DEF CacheNext
  <2> QED
    BY <2>1, <1>1, ChecksStayTrue
<1> QED
  BY <1>2, <1>3, <1>4

(***************************************************************************)
(* ServedIsFresh: while readLeaderboard answers, every result committed    *)
(* more than maxCacheAge ago, and as much longer as the script of the last *)
(* check ran past its caller's timeout, is on the board.                   *)
(***************************************************************************)
THEOREM ServedBoardsAreFresh == CacheSpec => []ServedIsFresh
<1>1. CacheInit => FreshInv
  BY CacheInvInit
<1>2. FreshInv /\ [CacheNext]_cacheVars => FreshInv'
  BY FreshStep
<1>3. FreshInv => ServedIsFresh
  <2> SUFFICES ASSUME FreshInv, Serves, NEW row \in Rows, row[2] <= version[row[1]],
                      now - queue[row].createdAt > MaxAge + gens[active].overrun
               PROVE  gens[active].entries[row[1]] >= row[2]
    BY DEF ServedIsFresh
  <2>1. active \in Gens /\ row[1] \in CachedUsers /\ row[2] \in Nat /\ now \in Nat /\ queue[row].createdAt \in Nat
    BY RowFacts, CacheTypes DEF Serves, Healthy, FreshInv, CacheInv, CacheTyped, Pointers
  <2>2. PICK at, lag, o : at = gens[active].checked /\ lag = gens[active].lag /\ o = gens[active].overrun
    OBVIOUS
  <2>3. at \in Int /\ lag \in Nat /\ o \in Nat /\ gens[active].entries[row[1]] \in Nat /\ MaxAge \in Nat
    BY <2>1, <2>2, CacheTypes, CacheBounds DEF FreshInv, CacheInv
  <2>4. at <= now /\ LagCovers(at - o, lag) /\ now - at + lag <= MaxAge
    BY <2>1, <2>2 DEF Serves, FreshInv, LagsAreTrue
  <2>5. ~(lag > MaxAge)
    BY <2>1, <2>3, <2>4
  <2>6. ~(at - o <= queue[row].createdAt + lag)
    BY <2>1, <2>2, <2>3, <2>4
  <2>7. queue[row].status = "applied"
    BY <2>4, <2>5, <2>6 DEF LagCovers, Committed
  <2>8. row[2] <= gens[active].entries[row[1]]
    BY <2>7 DEF Serves, FreshInv, CacheInv, BoardHolds, Delivered
  <2> QED
    BY <2>1, <2>3, <2>8
<1> QED
  BY <1>1, <1>2, <1>3, PTL DEF CacheSpec

-----------------------------------------------------------------------------
(***************************************************************************)
(* The readers.  What is left of a page's time and the age of its snapshot *)
(* make up PageReuse at most, because both are counted from the start of   *)
(* the query; and no part of a query lasts longer than the query, which is *)
(* bounded by FlightTimeout.                                               *)
(***************************************************************************)
AnswerIsRecent(x) ==
    /\ x.source = "recent" => x.age < PageReuse
    /\ x.source = "flight" => x.age <= FlightTimeout
BusyReaders == [pc : {"redis", "refused", "lookup", "joining", "waiting"}, page : BoardPages]
ReaderShape(x) ==
    \/ x.pc = "idle"
    \/ x \in BusyReaders
    \/ x.pc = "answered" /\ AnswerIsRecent(x)

PageRecords == [kept : BOOLEAN, age : Nat, left : Int]
PageShape(x) ==
    /\ x \in PageRecords
    /\ x.kept /\ x.left > 0 => x.age + x.left <= PageReuse

FlightPhases == {"none", "checking", "queued", "querying", "read", "returning", "failed"}
FlightShape(x) ==
    /\ x \in [pc : FlightPhases, begun : Nat, started : Nat, age : Nat]
    /\ x.pc \in {"none", "checking"} => x.begun = 0 /\ x.started = 0 /\ x.age = 0
    /\ x.pc \in {"queued", "querying", "read"} => x.age <= x.started /\ x.started <= x.begun /\ x.begun <= FlightTimeout
    /\ x.pc = "returning" => x.age <= FlightTimeout

ReadersShaped == reading = [r \in BoardReaders |-> reading[r]] /\ \A r \in BoardReaders : ReaderShape(reading[r])
PagesShaped == recent = [p \in BoardPages |-> recent[p]] /\ \A p \in BoardPages : PageShape(recent[p])
FlightsShaped == flight = [p \in BoardPages |-> flight[p]] /\ \A p \in BoardPages : FlightShape(flight[p])
ReadsInv == ReadersShaped /\ PagesShaped /\ FlightsShaped

LEMMA RestShapes == ReaderShape(NotReading) /\ PageShape(NoPage) /\ FlightShape(NoFlight)
BY DEF ReaderShape, NotReading, PageShape, PageRecords, NoPage, FlightShape, NoFlight, FlightPhases

LEMMA ReaderSet ==
    ASSUME ReadersShaped, NEW r \in BoardReaders, NEW x, ReaderShape(x), reading' = [reading EXCEPT ![r] = x]
    PROVE  ReadersShaped'
<1>1. \A q \in BoardReaders : reading'[q] = IF q = r THEN x ELSE reading[q]
  BY DEF ReadersShaped
<1>2. \A q \in BoardReaders : ReaderShape(reading'[q])
  BY <1>1 DEF ReadersShaped
<1>3. reading' = [q \in BoardReaders |-> reading'[q]]
  BY DEF ReadersShaped
<1> QED
  BY <1>2, <1>3 DEF ReadersShaped, ReaderShape

LEMMA FlightSet ==
    ASSUME FlightsShaped, NEW p \in BoardPages, NEW x, FlightShape(x), flight' = [flight EXCEPT ![p] = x]
    PROVE  FlightsShaped'
<1>1. \A q \in BoardPages : flight'[q] = IF q = p THEN x ELSE flight[q]
  BY DEF FlightsShaped
<1>2. \A q \in BoardPages : FlightShape(flight'[q])
  BY <1>1 DEF FlightsShaped
<1>3. flight' = [q \in BoardPages |-> flight'[q]]
  BY DEF FlightsShaped
<1> QED
  BY <1>2, <1>3 DEF FlightsShaped

(* Moving a reader who has chosen his page, or one phase of a query. *)
LEMMA ReaderMoves ==
    ASSUME ReadersShaped, NEW r \in BoardReaders, reading[r].pc \notin {"idle", "answered"},
           NEW pc \in {"redis", "refused", "lookup", "joining", "waiting"}, Step(r, pc)
    PROVE  ReadersShaped'
<1>1. reading[r] \in BusyReaders
  BY DEF ReadersShaped, ReaderShape
<1>2. PICK x : x = [reading[r] EXCEPT !.pc = pc]
  OBVIOUS
<1>3. x \in BusyReaders
  BY <1>1, <1>2 DEF BusyReaders
<1>4. reading' = [reading EXCEPT ![r] = x]
  BY <1>2 DEF Step
<1> QED
  BY <1>3, <1>4, ReaderSet DEF ReaderShape

LEMMA FlightMoves ==
    ASSUME FlightsShaped, NEW p \in BoardPages, NEW pc \in FlightPhases, flight' = [flight EXCEPT ![p].pc = pc],
           \/ flight[p].pc = "none" /\ pc = "checking"
           \/ flight[p].pc \in {"queued", "querying", "read"} /\ pc \in {"querying", "read", "returning", "failed"}
    PROVE  FlightsShaped'
<1>1. FlightShape(flight[p])
  BY DEF FlightsShaped
<1>2. PICK x : x = [flight[p] EXCEPT !.pc = pc]
  OBVIOUS
<1>3. /\ x \in [pc : FlightPhases, begun : Nat, started : Nat, age : Nat] /\ x.pc = pc
      /\ x.begun = flight[p].begun /\ x.started = flight[p].started /\ x.age = flight[p].age
  BY <1>1, <1>2 DEF FlightShape
<1>4. x.age \in Nat /\ x.begun \in Nat /\ x.started \in Nat /\ FlightTimeout \in Nat
  BY <1>3, ReadsAssumption
<1>5. FlightShape(x)
  BY <1>1, <1>3, <1>4 DEF FlightShape
<1>6. flight' = [flight EXCEPT ![p] = x]
  BY <1>2
<1> QED
  BY <1>5, <1>6, FlightSet

LEMMA PageShown ==
    ASSUME NEW r \in BoardReaders, ReadersShaped, NEW source, NEW shown, ShowPage(r, source, shown),
           source = "recent" => shown < PageReuse, source = "flight" => shown <= FlightTimeout
    PROVE  ReadersShaped'
<1> DEFINE x == ShownPage(source, shown)
<1>1. ReaderShape(x)
  BY DEF ReaderShape, ShownPage, AnswerIsRecent
<1>2. reading' = [reading EXCEPT ![r] = x]
  BY DEF ShowPage
<1> HIDE DEF x
<1> QED
  BY <1>1, <1>2, ReaderSet

(* A page that may be used again is young enough. *)
LEMMA ReusableIsYoung ==
    ASSUME PagesShaped, NEW p \in BoardPages, Reusable(p)
    PROVE  recent[p].age \in Nat /\ recent[p].age < PageReuse
<1>1. recent[p].age \in Nat /\ recent[p].left \in Int /\ recent[p].left > 0 /\ recent[p].age + recent[p].left <= PageReuse
  BY DEF PagesShaped, PageShape, PageRecords, Reusable
<1> QED
  BY <1>1, ReadsAssumption

LEMMA ReaderStep ==
    ASSUME ReadsInv, NEW r \in BoardReaders,
           \/ (\E p \in BoardPages : ReadBoard(r, p)) \/ ReadFromRedis(r) \/ RedisFails(r) \/ ForgetPages(r)
           \/ LookUpRecent(r) \/ JoinFlight(r) \/ LeaveBoard(r)
    PROVE  ReadsInv'
<1>1. ReadersShaped /\ PagesShaped /\ FlightsShaped
  BY DEF ReadsInv
<1>2. ASSUME UNCHANGED recent PROVE PagesShaped'
  BY <1>1, <1>2 DEF PagesShaped
<1>3. ASSUME UNCHANGED flight PROVE FlightsShaped'
  BY <1>1, <1>3 DEF FlightsShaped
<1>4. reading[r].pc \notin {"idle", "answered"} => reading[r].page \in BoardPages
  BY <1>1 DEF ReadersShaped, ReaderShape, BusyReaders
<1>5. ASSUME NEW p \in BoardPages, ReadBoard(r, p) PROVE ReadsInv'
  <2>1. PICK pc : pc = IF cooldown = 0 THEN "redis" ELSE "lookup"
    OBVIOUS
  <2> DEFINE x == [pc |-> pc, page |-> p]
  <2>2. ReaderShape(x)
    BY <2>1 DEF ReaderShape, BusyReaders
  <2>3. reading' = [reading EXCEPT ![r] = x] /\ UNCHANGED <<recent, flight>>
    BY <1>5, <2>1 DEF ReadBoard
  <2> HIDE DEF x
  <2> QED
    BY <1>1, <1>2, <1>3, <2>2, <2>3, ReaderSet DEF ReadsInv
<1>6. CASE ReadFromRedis(r)
  <2>1. UNCHANGED <<recent, flight>> /\ reading[r].pc \notin {"idle", "answered"}
    BY <1>6 DEF ReadFromRedis
  <2>2. ReadersShaped'
    <3>1. CASE ShowPage(r, "redis", 0)
      BY <3>1, <1>1, PageShown
    <3>2. CASE Step(r, "refused")
      BY <3>2, <2>1, <1>1, ReaderMoves
    <3> QED
      BY <1>6, <3>1, <3>2 DEF ReadFromRedis
  <2> QED
    BY <1>2, <1>3, <2>1, <2>2 DEF ReadsInv
<1>7. CASE RedisFails(r)
  <2>1. UNCHANGED <<recent, flight>> /\ reading[r].pc \notin {"idle", "answered"} /\ Step(r, "lookup")
    BY <1>7 DEF RedisFails
  <2> QED
    BY <1>1, <1>2, <1>3, <2>1, ReaderMoves DEF ReadsInv
<1>8. CASE ForgetPages(r)
  <2>1. UNCHANGED flight /\ reading[r].pc \notin {"idle", "answered"} /\ recent' = [p \in BoardPages |-> NoPage]
    BY <1>8 DEF ForgetPages
  <2>2. PagesShaped'
    BY <2>1, RestShapes DEF PagesShaped
  <2>3. ReadersShaped'
    BY <1>1, <1>8, <2>1, ReaderMoves, ReaderSet, RestShapes DEF ForgetPages
  <2> QED
    BY <1>3, <2>1, <2>2, <2>3 DEF ReadsInv
<1>9. CASE LookUpRecent(r)
  <2>1. UNCHANGED <<recent, flight>> /\ reading[r].pc \notin {"idle", "answered"}
    BY <1>9 DEF LookUpRecent
  <2>2. PICK p, shown : p = reading[r].page /\ shown = recent[p].age
    OBVIOUS
  <2>3. ReadersShaped'
    <3>1. CASE Reusable(p)
      <4>1. ShowPage(r, "recent", shown)
        BY <1>9, <2>2, <3>1 DEF LookUpRecent
      <4>2. shown < PageReuse
        BY <1>1, <1>4, <2>1, <2>2, <3>1, ReusableIsYoung
      <4> QED
        BY <1>1, <4>1, <4>2, PageShown
    <3>2. CASE ~Reusable(p)
      BY <1>1, <1>9, <2>1, <2>2, <3>2, ReaderMoves DEF LookUpRecent
    <3> QED
      BY <3>1, <3>2
  <2> QED
    BY <1>2, <1>3, <2>1, <2>3 DEF ReadsInv
<1>10. CASE JoinFlight(r)
  <2>1. UNCHANGED recent /\ reading[r].pc \notin {"idle", "answered"} /\ Step(r, "waiting")
    BY <1>10 DEF JoinFlight
  <2>2. PICK p : p = reading[r].page
    OBVIOUS
  <2>3. flight' = flight \/ (flight[p].pc = "none" /\ flight' = [flight EXCEPT ![p].pc = "checking"])
    BY <1>10, <2>2 DEF JoinFlight
  <2>4. FlightsShaped'
    BY <1>1, <1>3, <1>4, <2>1, <2>2, <2>3, FlightMoves DEF FlightPhases
  <2> QED
    BY <1>1, <1>2, <2>1, <2>4, ReaderMoves DEF ReadsInv
<1>11. CASE LeaveBoard(r)
  <2>1. UNCHANGED <<recent, flight>> /\ reading' = [reading EXCEPT ![r] = NotReading]
    BY <1>11 DEF LeaveBoard
  <2> QED
    BY <1>1, <1>2, <1>3, <2>1, RestShapes, ReaderSet DEF ReadsInv
<1> QED
  BY <1>5, <1>6, <1>7, <1>8, <1>9, <1>10, <1>11

LEMMA CheckAgainKeeps ==
    ASSUME ReadsInv, NEW p \in BoardPages, CheckAgain(p)
    PROVE  FlightsShaped'
<1>1. FlightShape(flight[p]) /\ FlightsShaped /\ PagesShaped
  BY DEF ReadsInv, FlightsShaped
<1>2. flight[p].pc = "checking"
  BY DEF CheckAgain
<1>3. FlightTimeout \in Nat /\ PageReuse \in Nat /\ PageReuse <= FlightTimeout
  BY ReadsAssumption
<1>4. CASE Reusable(p)
  <2>1. PICK shown : shown = recent[p].age
    OBVIOUS
  <2>2. shown \in Nat /\ shown <= FlightTimeout
    BY <1>1, <1>3, <1>4, <2>1, ReusableIsYoung
  <2>3. PICK x : x = [flight[p] EXCEPT !.pc = "returning", !.age = shown]
    OBVIOUS
  <2>4. x \in [pc : FlightPhases, begun : Nat, started : Nat, age : Nat] /\ x.pc = "returning" /\ x.age = shown
    BY <1>1, <2>2, <2>3 DEF FlightShape, FlightPhases
  <2>5. flight' = [flight EXCEPT ![p] = x]
    BY <1>4, <2>1, <2>3 DEF CheckAgain
  <2> QED
    BY <1>1, <2>2, <2>4, <2>5, FlightSet DEF FlightShape
<1>5. CASE ~Reusable(p)
  <2>1. PICK x : x = [flight[p] EXCEPT !.pc = "queued"]
    OBVIOUS
  <2>2. /\ x \in [pc : FlightPhases, begun : Nat, started : Nat, age : Nat] /\ x.pc = "queued"
        /\ x.begun = 0 /\ x.started = 0 /\ x.age = 0
    BY <1>1, <1>2, <2>1 DEF FlightShape, FlightPhases
  <2>3. flight' = [flight EXCEPT ![p] = x]
    BY <1>5, <2>1 DEF CheckAgain
  <2>4. FlightShape(x)
    BY <1>3, <2>2 DEF FlightShape
  <2> QED
    BY <1>1, <2>3, <2>4, FlightSet
<1> QED
  BY <1>4, <1>5

LEMMA StorePageKeeps ==
    ASSUME ReadsInv, NEW p \in BoardPages, StorePage(p)
    PROVE  PagesShaped'
<1>1. FlightShape(flight[p]) /\ flight[p].pc = "read" /\ PagesShaped
  BY DEF ReadsInv, FlightsShaped, StorePage
<1>2. PICK shown, past : shown = flight[p].age /\ past = flight[p].started
  OBVIOUS
<1>3. shown \in Nat /\ past \in Nat /\ shown <= past /\ PageReuse \in Nat
  BY <1>1, <1>2, ReadsAssumption DEF FlightShape
<1>4. PICK kept : kept = [q \in BoardPages |-> IF recent[q].left < 0 THEN NoPage ELSE recent[q]]
  OBVIOUS
<1>5. \A q \in BoardPages : PageShape(kept[q])
  BY <1>1, <1>4, RestShapes DEF PagesShaped
<1>6. PICK l : l = PageReuse - past
  OBVIOUS
<1>7. PICK y : y = [kept |-> TRUE, age |-> shown, left |-> l]
  OBVIOUS
<1>8. PageShape(y)
  <2>1. l \in Int /\ shown + l <= PageReuse
    BY <1>3, <1>6
  <2> QED
    BY <2>1, <1>3, <1>7 DEF PageShape, PageRecords
<1>9. recent' = kept \/ recent' = [kept EXCEPT ![p] = y]
  BY <1>2, <1>4, <1>6, <1>7 DEF StorePage, TimeLeft
<1>10. \A q \in BoardPages : recent'[q] = kept[q] \/ recent'[q] = y
  BY <1>4, <1>9
<1>11. \A q \in BoardPages : PageShape(recent'[q])
  BY <1>5, <1>8, <1>10
<1>12. recent' = [q \in BoardPages |-> recent'[q]]
  BY <1>4, <1>9
<1> QED
  BY <1>11, <1>12 DEF PagesShaped

LEMMA DeliverPageKeeps ==
    ASSUME ReadsInv, NEW p \in BoardPages, DeliverPage(p)
    PROVE  ReadersShaped' /\ FlightsShaped'
<1>1. FlightShape(flight[p]) /\ ReadersShaped /\ FlightsShaped
  BY DEF ReadsInv, FlightsShaped
<1>2. FlightsShaped'
  BY <1>1, RestShapes, FlightSet DEF DeliverPage
<1>3. PICK x : x = ShownPage("flight", flight[p].age)
  OBVIOUS
<1>4. flight[p].pc = "returning" => ReaderShape(x)
  BY <1>1, <1>3 DEF FlightShape, ReaderShape, ShownPage, AnswerIsRecent
<1>5. ASSUME NEW r \in BoardReaders PROVE ReaderShape(reading'[r])
  <2>1. \/ reading'[r] = reading[r] \/ reading'[r] = NotReading
        \/ flight[p].pc = "returning" /\ reading'[r] = x
    BY <1>3 DEF DeliverPage
  <2> QED
    BY <2>1, <1>1, <1>4, RestShapes DEF ReadersShaped
<1>6. reading' = [r \in BoardReaders |-> reading'[r]]
  BY DEF DeliverPage
<1> QED
  BY <1>2, <1>5, <1>6 DEF ReadersShaped, ReaderShape

LEMMA QueryStep ==
    ASSUME ReadsInv, NEW p \in BoardPages,
           CheckAgain(p) \/ TakeQuerySlot(p) \/ QueryBoard(p) \/ StorePage(p) \/ QueryFails(p) \/ DeliverPage(p)
    PROVE  ReadsInv'
<1>1. ReadersShaped /\ PagesShaped /\ FlightsShaped
  BY DEF ReadsInv
<1>2. ASSUME UNCHANGED recent PROVE PagesShaped'
  BY <1>1, <1>2 DEF PagesShaped
<1>3. ASSUME UNCHANGED reading PROVE ReadersShaped'
  BY <1>1, <1>3 DEF ReadersShaped, ReaderShape
<1>4. CASE CheckAgain(p)
  BY <1>2, <1>3, <1>4, CheckAgainKeeps DEF CheckAgain, ReadsInv
<1>5. CASE TakeQuerySlot(p) \/ QueryBoard(p) \/ QueryFails(p)
  <2>1. FlightsShaped'
    BY <1>1, <1>5, FlightMoves DEF TakeQuerySlot, QueryBoard, QueryFails, Flying, FlightPhases
  <2> QED
    BY <1>2, <1>3, <1>5, <2>1 DEF TakeQuerySlot, QueryBoard, QueryFails, ReadsInv
<1>6. CASE StorePage(p)
  <2>1. FlightsShaped'
    BY <1>1, <1>6, FlightMoves DEF StorePage, FlightPhases
  <2> QED
    BY <1>3, <1>6, <2>1, StorePageKeeps DEF StorePage, ReadsInv
<1>7. CASE DeliverPage(p)
  BY <1>2, <1>7, DeliverPageKeeps DEF DeliverPage, ReadsInv
<1> QED
  BY <1>4, <1>5, <1>6, <1>7

(* A moment passes. *)
LEMMA PageRenewed ==
    ASSUME NEW x \in PageRecords, NEW a \in Nat, NEW l \in Int, NEW y, y = [x EXCEPT !.age = a, !.left = l]
    PROVE  y \in PageRecords /\ y.age = a /\ y.left = l
<1>1. y.age = a /\ y.left = l /\ y.kept = x.kept
  BY DEF PageRecords
<1>2. y = [kept |-> x.kept, age |-> a, left |-> l]
  BY DEF PageRecords
<1>3. x.kept \in BOOLEAN
  BY DEF PageRecords
<1>4. y \in PageRecords
  BY <1>2, <1>3, Zenon DEF PageRecords
<1> QED
  BY <1>1, <1>4

LEMMA OlderPage ==
    ASSUME NEW x, PageShape(x)
    PROVE  PageShape(Older(x))
<1>1. x \in PageRecords /\ PageReuse \in Nat
  BY ReadsAssumption DEF PageShape
<1>2. CASE ~x.kept
  BY <1>2 DEF Older
<1>3. CASE x.kept /\ x.left <= 0
  <2>1. PICK y : y = [x EXCEPT !.age = 0, !.left = -1]
    OBVIOUS
  <2>2. y \in PageRecords /\ y.left = -1
    <3>1. 0 \in Nat /\ -1 \in Int
      OBVIOUS
    <3> QED
      BY <3>1, <1>1, <2>1, PageRenewed DEF PageRecords
  <2>3. PageShape(y)
    BY <2>2 DEF PageShape, PageRecords
  <2> QED
    BY <1>3, <2>1, <2>3 DEF Older
<1>4. CASE x.kept /\ ~(x.left <= 0)
  <2>1. PICK y : y = [x EXCEPT !.age = x.age + 1, !.left = x.left - 1]
    OBVIOUS
  <2>2. x.age \in Nat /\ x.left \in Int /\ x.left > 0
    BY <1>1, <1>4 DEF PageRecords
  <2>3. y \in PageRecords /\ y.age = x.age + 1 /\ y.left = x.left - 1
    <3>1. x.age + 1 \in Nat /\ x.left - 1 \in Int
      BY <2>2
    <3> QED
      BY <3>1, <1>1, <2>1, PageRenewed DEF PageRecords
  <2>4. x.age + x.left <= PageReuse
    BY <1>4, <2>2 DEF PageShape, PageRecords
  <2>5. y.age + y.left <= PageReuse
    BY <1>1, <2>2, <2>3, <2>4
  <2>6. PageShape(y)
    BY <2>3, <2>5 DEF PageShape, PageRecords
  <2> QED
    BY <1>4, <2>1, <2>6 DEF Older
<1> QED
  BY <1>2, <1>3, <1>4

LEMMA LaterFlight ==
    ASSUME NEW x, FlightShape(x), x.pc \notin {"returning", "failed"},
           x.pc \in {"queued", "querying", "read"} => x.begun < FlightTimeout
    PROVE  FlightShape(Later(x))
<1>1. x.begun \in Nat /\ x.started \in Nat /\ x.age \in Nat /\ x.pc \in FlightPhases /\ FlightTimeout \in Nat
      /\ x \in [pc : FlightPhases, begun : Nat, started : Nat, age : Nat]
  BY ReadsAssumption DEF FlightShape
<1>2. PICK n, s, a : /\ n = IF x.pc \in {"queued", "querying", "read"} THEN x.begun + 1 ELSE x.begun
                     /\ s = IF x.pc \in {"querying", "read"} THEN x.started + 1 ELSE x.started
                     /\ a = IF x.pc = "read" THEN x.age + 1 ELSE x.age
  OBVIOUS
<1>3. n \in Nat /\ s \in Nat /\ a \in Nat
  BY <1>1, <1>2
<1>4. PICK y : y = [x EXCEPT !.begun = n, !.started = s, !.age = a]
  OBVIOUS
<1>5. /\ y \in [pc : FlightPhases, begun : Nat, started : Nat, age : Nat]
      /\ y.pc = x.pc /\ y.begun = n /\ y.started = s /\ y.age = a
  BY <1>1, <1>3, <1>4
<1>6. CASE x.pc \in {"none", "checking"}
  <2>1. n = 0 /\ s = 0 /\ a = 0
    BY <1>2, <1>6 DEF FlightShape
  <2> QED
    BY <1>2, <1>4, <1>5, <1>6, <2>1 DEF FlightShape, Later
<1>7. CASE x.pc \in {"queued", "querying", "read"}
  <2>1. x.age <= x.started /\ x.started <= x.begun /\ x.begun < FlightTimeout
    BY <1>7 DEF FlightShape
  <2>2. a <= s /\ s <= n /\ n <= FlightTimeout
    BY <1>1, <1>2, <1>7, <2>1
  <2>3. FlightShape(y)
    BY <1>5, <1>7, <2>2 DEF FlightShape
  <2> QED
    BY <1>2, <1>4, <2>3 DEF Later
<1> QED
  BY <1>1, <1>6, <1>7 DEF FlightPhases

LEMMA BoardTickKeeps ==
    ASSUME ReadsInv, BoardTick
    PROVE  ReadsInv'
<1>1. ReadersShaped'
  BY DEF ReadsInv, ReadersShaped, ReaderShape, BoardTick
<1>2. PagesShaped'
  <2>1. \A p \in BoardPages : recent'[p] = Older(recent[p])
    BY DEF BoardTick
  <2>2. \A p \in BoardPages : PageShape(recent'[p])
    BY <2>1, OlderPage DEF ReadsInv, PagesShaped
  <2>3. recent' = [p \in BoardPages |-> recent'[p]]
    BY DEF BoardTick
  <2> QED
    BY <2>2, <2>3 DEF PagesShaped
<1>3. FlightsShaped'
  <2>1. \A p \in BoardPages : flight'[p] = Later(flight[p])
    BY DEF BoardTick
  <2>2. \A p \in BoardPages : FlightShape(flight'[p])
    BY <2>1, LaterFlight DEF ReadsInv, FlightsShaped, BoardTick, Flying
  <2>3. flight' = [p \in BoardPages |-> flight'[p]]
    BY DEF BoardTick
  <2> QED
    BY <2>2, <2>3 DEF FlightsShaped
<1> QED
  BY <1>1, <1>2, <1>3 DEF ReadsInv

(***************************************************************************)
(* AnswersAreRecent: a page used again was read less than 250 ms ago, and  *)
(* a shared query shows a snapshot no older than its own time limit, for   *)
(* any number of readers and pages and however full the slots and the map  *)
(* of kept pages are.                                                      *)
(***************************************************************************)
THEOREM SharedAnswersAreRecent == ReadsSpec => []AnswersAreRecent
<1>1. ReadsInit => ReadsInv
  BY RestShapes DEF ReadsInit, ReadsInv, ReadersShaped, PagesShaped, FlightsShaped
<1>2. ReadsInv /\ [ReadsNext]_readsVars => ReadsInv'
  <2> SUFFICES ASSUME ReadsInv, [ReadsNext]_readsVars PROVE ReadsInv'
    OBVIOUS
  <2>1. CASE ReadsNext
    BY <2>1, ReaderStep, QueryStep, BoardTickKeeps DEF ReadsNext
  <2>2. CASE UNCHANGED readsVars
    BY <2>2 DEF readsVars, ReadsInv, ReadersShaped, PagesShaped, FlightsShaped, ReaderShape
  <2> QED
    BY <2>1, <2>2
<1>3. ReadsInv => AnswersAreRecent
  <2> SUFFICES ASSUME ReadsInv, NEW r \in BoardReaders, reading[r].pc = "answered"
               PROVE  CASE reading[r].source = "recent" -> reading[r].age < PageReuse
                        [] reading[r].source = "flight" -> reading[r].age <= FlightTimeout
                        [] OTHER -> TRUE
    BY DEF AnswersAreRecent
  <2>1. AnswerIsRecent(reading[r])
    BY DEF ReadsInv, ReadersShaped, ReaderShape, BusyReaders
  <2> QED
    BY <2>1 DEF AnswerIsRecent
<1> QED
  BY <1>1, <1>2, <1>3, PTL DEF ReadsSpec
=============================================================================
