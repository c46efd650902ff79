------------------------------ MODULE Reporting ------------------------------
(***************************************************************************)
(* What the alert policy promises about each track, without saying how:    *)
(* a topic (a level crossed, a declaration, a freeze window violated) is   *)
(* told once, reminders keep an interval, a farewell is said exactly for   *)
(* what was told loudly, and what a save has recorded a restart does not   *)
(* take back.                                                              *)
(***************************************************************************)
EXTENDS Naturals, Sequences, Functions

CONSTANTS
    Track,
    Topic,       \* what there is to tell
    Loud(_),     \* the topics worth a farewell
    Farewell,    \* the topic that ends the telling
    Interval     \* least time between an alert and a reminder

VARIABLES
    phase,       \* per track: "new", "open", "gone"
    told,        \* per track: the topics told, in order
    last,        \* per track: when it was last told or reminded of
    kept,        \* what the last save recorded of the three above
    clock

vars == <<phase, told, last, kept, clock>>

State == [phase |-> phase, told |-> told, last |-> last]

Init ==
    /\ phase = [t \in Track |-> "new"]
    /\ told = [t \in Track |-> <<>>]
    /\ last = [t \in Track |-> 0]
    /\ kept = State
    /\ clock = 1

Open(t) ==
    /\ phase[t] = "new"
    /\ phase' = [phase EXCEPT ![t] = "open"]
    /\ UNCHANGED <<told, last, kept, clock>>

\* New topics, none of them told before; what was told stays.
Tell(t) ==
    /\ phase[t] = "open"
    /\ Len(told'[t]) > Len(told[t])
    /\ \A i \in DOMAIN told[t] : told'[t][i] = told[t][i]
    /\ Range(told'[t]) \subseteq Topic /\ IsInjective(told'[t])
    /\ told' = [told EXCEPT ![t] = told'[t]]
    /\ last' = [last EXCEPT ![t] = clock]
    /\ UNCHANGED <<phase, kept, clock>>

Remind(t) ==
    /\ phase[t] = "open"
    /\ told[t] # <<>>
    /\ clock - last[t] >= Interval
    /\ last' = [last EXCEPT ![t] = clock]
    /\ UNCHANGED <<phase, told, kept, clock>>

ToldLoudly(t) == \E i \in DOMAIN told[t] : Loud(told[t][i])

\* The track expired.
Conclude(t) ==
    /\ phase[t] = "open"
    /\ phase' = [phase EXCEPT ![t] = "gone"]
    /\ \/ ToldLoudly(t) /\ told' = [told EXCEPT ![t] = Append(@, Farewell)]
       \/ ~ToldLoudly(t) /\ UNCHANGED told
    /\ UNCHANGED <<last, kept, clock>>

\* Another track took it over.
Merge(t) ==
    /\ phase[t] = "open"
    /\ phase' = [phase EXCEPT ![t] = "gone"]
    /\ UNCHANGED <<told, last, kept, clock>>

Save == kept' = State /\ UNCHANGED <<phase, told, last, clock>>

Restart ==
    /\ phase' = kept.phase /\ told' = kept.told /\ last' = kept.last
    /\ UNCHANGED <<kept, clock>>

Tick == clock' = clock + 1 /\ UNCHANGED <<phase, told, last, kept>>

Next ==
    \/ \E t \in Track : Open(t) \/ Tell(t) \/ Remind(t) \/ Conclude(t) \/ Merge(t)
    \/ Save \/ Restart \/ Tick

Spec == Init /\ [][Next]_vars
=============================================================================
