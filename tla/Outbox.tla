-------------------------------- MODULE Outbox --------------------------------
(***************************************************************************)
(* What alert.Dispatcher promises of the alerts routed to one sink: they   *)
(* are sent one at a time, the oldest first, each has one outcome and      *)
(* keeps it; one that is new costs at most one that is older, and only if  *)
(* the queue was full when it came; after Close all are refused.           *)
(***************************************************************************)
EXTENDS Naturals, FiniteSets

CONSTANTS Sink, Cap, MaxAlerts

VARIABLES
    fate,      \* per sink and alert: none, waiting, sending, sent, failed, dropped
    crowded,   \* per sink: the queue was full when the newest alert came
    shut       \* Close was called

vars == <<fate, crowded, shut>>

Alerts == 1..MaxAlerts
In(s, f) == {a \in Alerts : fate[s][a] = f}
Oldest(s, a) == a \in In(s, "waiting") /\ \A b \in In(s, "waiting") : a <= b
Become(s, a, f) == fate' = [fate EXCEPT ![s][a] = f]

Init ==
    /\ fate = [s \in Sink |-> [a \in Alerts |-> "none"]]
    /\ crowded = [s \in Sink |-> FALSE]
    /\ shut = FALSE

\* Alerts come in their order; one below the sink's level never comes.
New(s, a) == \A b \in a..MaxAlerts : fate[s][b] = "none"

Offer(s, a) ==
    /\ New(s, a) /\ ~shut
    /\ Become(s, a, "waiting")
    /\ crowded' = [crowded EXCEPT ![s] = Cardinality(In(s, "waiting")) >= Cap[s]]
    /\ UNCHANGED shut

Refuse(s, a) ==
    /\ New(s, a) /\ shut
    /\ Become(s, a, "dropped")
    /\ UNCHANGED <<crowded, shut>>

Evict(s, a) ==
    /\ crowded[s] /\ Oldest(s, a) /\ \E b \in In(s, "waiting") : b > a
    /\ Become(s, a, "dropped")
    /\ crowded' = [crowded EXCEPT ![s] = FALSE]
    /\ UNCHANGED shut

\* The queue was taken from meanwhile.
Relieve(s) == crowded[s] /\ crowded' = [crowded EXCEPT ![s] = FALSE] /\ UNCHANGED <<fate, shut>>

Take(s, a) ==
    /\ Oldest(s, a) /\ In(s, "sending") = {}
    /\ Become(s, a, "sending")
    /\ UNCHANGED <<crowded, shut>>

Settle(s, a) ==
    /\ fate[s][a] = "sending"
    /\ \E f \in {"sent", "failed"} : Become(s, a, f)
    /\ UNCHANGED <<crowded, shut>>

Shut == ~shut /\ shut' = TRUE /\ UNCHANGED <<fate, crowded>>

Next ==
    \/ \E s \in Sink, a \in Alerts :
          Offer(s, a) \/ Refuse(s, a) \/ Evict(s, a) \/ Take(s, a) \/ Settle(s, a)
    \/ \E s \in Sink : Relieve(s)
    \/ Shut

Spec == Init /\ [][Next]_vars
=============================================================================
