------------------------- MODULE MCContestLifecycle --------------------------
(* The life cycle of a contest, the readers of its leaderboard, and the     *)
(* cache of the leaderboard, once with two relays and once with two         *)
(* builders.  They share no state: a behaviour is one of one of them.  For  *)
(* the life cycle, three complete forms that move the interval and exchange *)
(* the problem, and one with an empty interval.  The time of the cache      *)
(* stands still: what is checked of it here needs no clock.                 *)
EXTENDS ContestLifecycle, LeaderboardReads, LeaderboardCache, TLC

VARIABLE part

ContestInit ==
    /\ LifecycleInit /\ ReadsInit /\ CacheInit
    /\ part \in {"life cycle", "board", "relays", "builders"}

OneOf(S) == {CHOOSE x \in S : TRUE}
OneBuilder == \A b \in Builders \ OneOf(Builders) : builder'[b] = builder[b]
OneRelay == \A r \in Relays \ OneOf(Relays) : relay'[r] = relay[r]

ContestNext ==
    /\ UNCHANGED part
    /\ \/ part = "life cycle" /\ LifecycleNext /\ UNCHANGED <<readsVars, cacheVars>>
       \/ part = "board" /\ ReadsNext /\ UNCHANGED <<lifecycleVars, cacheVars>>
       \/ part = "relays" /\ CacheNext /\ OneBuilder /\ UNCHANGED <<lifecycleVars, readsVars>>
       \/ part = "builders" /\ CacheNext /\ OneRelay /\ UNCHANGED <<lifecycleVars, readsVars>>

ContestSpec == ContestInit /\ [][ContestNext]_<<part, lifecycleVars, readsVars, cacheVars>>

Form(start, end, p) == [start |-> start, end |-> end, problems |-> {p}]
ContestForms == {Form(1, 2, "p1"), Form(1, 3, "p2"), Form(2, 3, "p1"), Form(2, 2, "p1")}
\* Calls are interchangeable: no definition tells them apart.
CallSymmetry == Permutations(Calls)
=============================================================================
