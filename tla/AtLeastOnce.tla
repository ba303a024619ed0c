----------------------------- MODULE AtLeastOnce -----------------------------
(***************************************************************************)
(* What a transactional outbox promises: an event that was committed is    *)
(* pending until it is published or given up, and it is published only if  *)
(* the broker took it at least once.  The broker may take it again, even   *)
(* after the outbox settled the event.                                     *)
(***************************************************************************)
CONSTANT Ids
VARIABLES state, taken

deliveryVars == <<state, taken>>

DeliveryInit == state = [o \in Ids |-> "absent"] /\ taken = {}

\* One transaction commits the events in O.
Emit(O) ==
    /\ \A o \in O : state[o] = "absent"
    /\ state' = [o \in Ids |-> IF o \in O THEN "pending" ELSE state[o]]
    /\ UNCHANGED taken

Take(o) == state[o] # "absent" /\ taken' = taken \cup {o} /\ UNCHANGED state

Settle(o) ==
    /\ state[o] = "pending" /\ o \in taken
    /\ state' = [state EXCEPT ![o] = "published"]
    /\ UNCHANGED taken

GiveUp(o) ==
    /\ state[o] = "pending"
    /\ state' = [state EXCEPT ![o] = "dead"]
    /\ UNCHANGED taken

DeliveryNext ==
    \/ \E O \in SUBSET Ids : Emit(O)
    \/ \E o \in Ids : Take(o) \/ Settle(o) \/ GiveUp(o)

DeliverySpec == DeliveryInit /\ [][DeliveryNext]_deliveryVars
=============================================================================
