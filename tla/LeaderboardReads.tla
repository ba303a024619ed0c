-------------------------- MODULE LeaderboardReads ---------------------------
(***************************************************************************)
(* CachedLeaderboard: how one contest service process answers a reader.    *)
(* Redis is asked first, unless it failed a moment ago.  When it has no    *)
(* answer the page is read from MySQL: readers of a page that is being     *)
(* read wait for the same result (singleflight), a page read a moment ago  *)
(* is used again, and few queries run at a time.                           *)
(*                                                                         *)
(* A page stands for its key: contest, number, size and the signature of   *)
(* the contest's definition.  Its content is the age of the MySQL snapshot *)
(* it shows.  What Redis serves is LeaderboardCache's matter               *)
(* (ServedIsFresh).  Times are kept relative to the present, so the clock  *)
(* needs no bound; steps that wait for nothing take no time.               *)
(***************************************************************************)
EXTENDS Integers, FiniteSets

CONSTANTS
    BoardReaders,
    BoardPages,
    PageReuse,          \* how long a page may be used again: 250 ms
    FlightTimeout,      \* limit on waiting for a slot and for MySQL: 5 s
    Cooldown,           \* how long Redis is left alone after an error: 5 s
    QuerySlots,         \* queries at a time: 16
    MaxRecent           \* pages kept for reuse: 256

ASSUME ReadsAssumption ==
    /\ PageReuse \in Nat \ {0} /\ FlightTimeout \in Nat /\ Cooldown \in Nat
    /\ PageReuse <= FlightTimeout          \* a query may return a page that was kept
    /\ QuerySlots \in Nat \ {0} /\ MaxRecent \in Nat

VARIABLES
    reading,            \* progress of every reader
    recent,             \* pages read a moment ago: age, and time left to use them
    flight,             \* fallback: the query under way for every page
    cooldown            \* how much longer Redis is left alone

readsVars == <<reading, recent, flight, cooldown>>

NoPage == [kept |-> FALSE, age |-> 0, left |-> 0]
NoFlight == [pc |-> "none", begun |-> 0, started |-> 0, age |-> 0]
NotReading == [pc |-> "idle"]

ReadsInit ==
    /\ reading = [r \in BoardReaders |-> NotReading]
    /\ recent = [p \in BoardPages |-> NoPage]
    /\ flight = [p \in BoardPages |-> NoFlight]
    /\ cooldown = 0

ShownPage(source, age) == [pc |-> "answered", source |-> source, age |-> age]
Step(r, pc) == reading' = [reading EXCEPT ![r].pc = pc]
ShowPage(r, source, age) == reading' = [reading EXCEPT ![r] = ShownPage(source, age)]
Reusable(p) == recent[p].kept /\ recent[p].left > 0

-----------------------------------------------------------------------------
ReadBoard(r, p) ==
    /\ reading[r].pc = "idle"
    /\ reading' = [reading EXCEPT ![r] = [pc |-> IF cooldown = 0 THEN "redis" ELSE "lookup", page |-> p]]
    /\ UNCHANGED <<recent, flight, cooldown>>

\* Redis serves the page, or has it incomplete, stale or just replaced.
ReadFromRedis(r) ==
    /\ reading[r].pc = "redis"
    /\ ShowPage(r, "redis", 0) \/ Step(r, "refused")
    /\ UNCHANGED <<recent, flight, cooldown>>

RedisFails(r) ==
    /\ reading[r].pc = "redis" /\ Step(r, "lookup")
    /\ cooldown' = Cooldown
    /\ UNCHANGED <<recent, flight>>

\* After a refusal the pages of the contest are not used again.  The reader may have left.
ForgetPages(r) ==
    /\ reading[r].pc = "refused"
    /\ Step(r, "lookup") \/ reading' = [reading EXCEPT ![r] = NotReading]
    /\ recent' = [p \in BoardPages |-> NoPage]
    /\ UNCHANGED <<flight, cooldown>>

LookUpRecent(r) ==
    LET p == reading[r].page IN
    /\ reading[r].pc = "lookup"
    /\ IF Reusable(p) THEN ShowPage(r, "recent", recent[p].age) ELSE Step(r, "joining")
    /\ UNCHANGED <<recent, flight, cooldown>>

\* fallback.DoChan: one query per page.
JoinFlight(r) ==
    LET p == reading[r].page IN
    /\ reading[r].pc = "joining" /\ Step(r, "waiting")
    /\ flight' = IF flight[p].pc # "none" THEN flight ELSE [flight EXCEPT ![p].pc = "checking"]
    /\ UNCHANGED <<recent, cooldown>>

\* The reader's own context ends, or he has his answer; a query goes on for the others.
LeaveBoard(r) ==
    /\ reading[r].pc \in {"redis", "waiting", "answered"}
    /\ reading' = [reading EXCEPT ![r] = NotReading]
    /\ UNCHANGED <<recent, flight, cooldown>>

-----------------------------------------------------------------------------
Flying(p) == flight[p].pc \in {"queued", "querying", "read"}

\* The first thing a query does is to look again.
CheckAgain(p) ==
    /\ flight[p].pc = "checking"
    /\ flight' = [flight EXCEPT ![p] = IF Reusable(p) THEN [@ EXCEPT !.pc = "returning", !.age = recent[p].age]
                                       ELSE [@ EXCEPT !.pc = "queued"]]
    /\ UNCHANGED <<reading, recent, cooldown>>

TakeQuerySlot(p) ==
    /\ flight[p].pc = "queued"
    /\ Cardinality({q \in BoardPages : flight[q].pc \in {"querying", "read"}}) < QuerySlots
    /\ flight' = [flight EXCEPT ![p].pc = "querying"]
    /\ UNCHANGED <<reading, recent, cooldown>>

\* Leaderboard: every query for the page sees one REPEATABLE READ snapshot.
QueryBoard(p) ==
    /\ flight[p].pc = "querying"
    /\ flight' = [flight EXCEPT ![p].pc = "read"]
    /\ UNCHANGED <<reading, recent, cooldown>>

\* Time left to use the page again, counted from the start of its query.
TimeLeft_Returned(p) == PageReuse               \* seeded defect: counted from its end
TimeLeft(p) == PageReuse - flight[p].started

StorePage(p) ==
    LET kept == [q \in BoardPages |-> IF recent[q].left < 0 THEN NoPage ELSE recent[q]]
        room == Cardinality({q \in BoardPages : kept[q].kept}) < MaxRecent
    IN  /\ flight[p].pc = "read"
        /\ recent' = IF room THEN [kept EXCEPT ![p] = [kept |-> TRUE, age |-> flight[p].age, left |-> TimeLeft(p)]]
                     ELSE kept
        /\ flight' = [flight EXCEPT ![p].pc = "returning"]
        /\ UNCHANGED <<reading, cooldown>>

\* MySQL fails, or the time is up.
QueryFails(p) ==
    /\ Flying(p) /\ flight' = [flight EXCEPT ![p].pc = "failed"]
    /\ UNCHANGED <<reading, recent, cooldown>>

DeliverPage(p) ==
    /\ flight[p].pc \in {"returning", "failed"}
    /\ reading' = [r \in BoardReaders |->
                     IF reading[r].pc # "waiting" \/ reading[r].page # p THEN reading[r]
                     ELSE IF flight[p].pc = "failed" THEN NotReading ELSE ShownPage("flight", flight[p].age)]
    /\ flight' = [flight EXCEPT ![p] = NoFlight]
    /\ UNCHANGED <<recent, cooldown>>

-----------------------------------------------------------------------------
Older(page) ==
    IF ~page.kept THEN page
    ELSE IF page.left <= 0 THEN [page EXCEPT !.age = 0, !.left = -1]     \* never shown again
    ELSE [page EXCEPT !.age = @ + 1, !.left = @ - 1]

Later(f) ==
    [f EXCEPT !.begun = IF f.pc \in {"queued", "querying", "read"} THEN @ + 1 ELSE @,
              !.started = IF f.pc \in {"querying", "read"} THEN @ + 1 ELSE @,
              !.age = IF f.pc = "read" THEN @ + 1 ELSE @]

\* A query whose time is up has ended, and one that has ended is delivered, at once.
BoardTick ==
    /\ \A p \in BoardPages : /\ flight[p].pc \notin {"returning", "failed"}
                             /\ Flying(p) => flight[p].begun < FlightTimeout
    /\ recent' = [p \in BoardPages |-> Older(recent[p])]
    /\ flight' = [p \in BoardPages |-> Later(flight[p])]
    /\ cooldown' = IF cooldown = 0 THEN 0 ELSE cooldown - 1
    /\ UNCHANGED reading

ReadsNext ==
    \/ \E r \in BoardReaders :
         \/ \E p \in BoardPages : ReadBoard(r, p)
         \/ ReadFromRedis(r) \/ RedisFails(r) \/ ForgetPages(r) \/ LookUpRecent(r) \/ JoinFlight(r)
         \/ LeaveBoard(r)
    \/ \E p \in BoardPages :
         CheckAgain(p) \/ TakeQuerySlot(p) \/ QueryBoard(p) \/ StorePage(p) \/ QueryFails(p) \/ DeliverPage(p)
    \/ BoardTick

ReadsSpec == ReadsInit /\ [][ReadsNext]_readsVars

-----------------------------------------------------------------------------
(* Sharing does not age the board: a page used again was read less than     *)
(* PageReuse ago, and a query that several readers waited for shows them a  *)
(* snapshot no older than FlightTimeout (a sixth of the age Redis may       *)
(* serve), although readers come and go, join a query late and forget pages *)
(* that are just being stored, and the slots and the map are full.          *)
AnswersAreRecent ==
    \A r \in BoardReaders : reading[r].pc = "answered" =>
      CASE reading[r].source = "recent" -> reading[r].age < PageReuse
        [] reading[r].source = "flight" -> reading[r].age <= FlightTimeout
        [] OTHER -> TRUE
=============================================================================
