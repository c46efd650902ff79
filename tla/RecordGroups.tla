------------------------------ MODULE RecordGroups ------------------------------
(***************************************************************************)
(* internal/readers/auditd, Parser: the records of an audit event are      *)
(* gathered by serial number and become one event when the group is        *)
(* closed.  The kernel writes the records of an event in order, those of   *)
(* adjacent events interleaved, and may lose some; a pause may fall        *)
(* anywhere, and after a boot the serial numbers start again.  Replay      *)
(* reads a file, where no time passes.  Events are counted here; Number    *)
(* is the serial number they have.                                         *)
(***************************************************************************)
EXTENDS Naturals, Sequences, SequencesExt, FiniteSetsExt

CONSTANTS
    Serials,    \* bound of the serial numbers
    Forms,      \* what the kernel writes for an event: sequences of record types
    MaxAge,     \* Parser.MaxAge, in polls
    MaxLost,    \* bound of the records lost
    KeepOpen    \* replayKeepOpen

Single == {"USER_LOGIN"}
Exec == {"SYSCALL", "EXECVE"}

\* A login record comes alone, and PROCTITLE last but for EOE.  The kernel keeps
\* at most two events open.
GroupsAssumption ==
    /\ {Serials, MaxAge, MaxLost, KeepOpen} \subseteq Nat /\ KeepOpen >= 2
    /\ Forms \subseteq Seq(STRING)
    /\ \A f \in Forms : \A i, j \in DOMAIN f : i < j =>
         f[j] \notin Single /\ (f[i] \in Single \cup {"PROCTITLE", "EOE"} => f[j] = "EOE")

VARIABLES
    mode,       \* tail or replay
    boot,       \* the first event after a boot
    form,       \* per serial: what the kernel writes
    written,    \* per serial: the number of its records written or lost
    lost,       \* the number of records lost
    groups,     \* per serial: its open group, and the open groups that are older
    open,       \* the reader is not at the end of a replay
    out,        \* history, per serial: the events, as sets of records
    late        \* history: serials whose group was closed for its age

groupVars == <<mode, boot, form, written, lost, groups, open, out, late>>

Serial == 1..Serials

NoGroup == [records |-> {}, age |-> 0, older |-> {}]

GroupsInit ==
    /\ mode \in {"tail", "replay"}
    /\ boot \in Serial
    /\ form \in [Serial -> Forms]
    /\ written = [s \in Serial |-> 0] /\ lost = 0
    /\ groups = [s \in Serial |-> NoGroup] /\ open = TRUE
    /\ out = [s \in Serial |-> <<>>] /\ late = {}

Number(s) == IF s < boot THEN Serials + s ELSE s

-----------------------------------------------------------------------------
\* build: a group with an execve in it, or one login record, is an event.
Builds(records) == records \cap (Exec \cup Single) # {}

Pending(gs) == {s \in Serial : gs[s].records # {}}

\* close: of the groups of gs with the serials ss, the events.
Tell(gs, ss) ==
    out' = [s \in Serial |-> IF s \in ss /\ Builds(gs[s].records)
                             THEN Append(out[s], gs[s].records) ELSE out[s]]

Without(gs, ss) ==
    [s \in Serial |-> IF s \in ss THEN NoGroup ELSE [gs[s] EXCEPT !.older = @ \ ss]]

Close(gs, ss) == Tell(gs, ss) /\ groups' = Without(gs, ss)

\* Feed: the groups two or more serials behind.
\* Mutant: the adjacent group counts as behind.
StaleAdjacent(s) == {r \in Pending(groups) : Number(r) < Number(s)}

Stale(s) == {r \in Pending(groups) : Number(r) + 1 < Number(s)}

Gathered(gs, s, type) ==
    LET g == IF s \in Pending(gs) THEN gs[s] ELSE [NoGroup EXCEPT !.older = Pending(gs)]
    IN  [gs EXCEPT ![s] = [g EXCEPT !.records = @ \cup {type}]]

FeedRecord(s, type) ==
    \/ type = "EOE" /\ Close(groups, Stale(s) \cup {s})
    \/ type = "PROCTITLE" /\ Close(Gathered(groups, s, type), Stale(s) \cup {s})
    \/ /\ type \in Single
       /\ Tell([groups EXCEPT ![s].records = {type}], Stale(s) \cup {s})
       /\ groups' = Without(groups, Stale(s))
    \/ /\ type \notin Single \cup {"EOE", "PROCTITLE"}
       /\ Tell(groups, Stale(s))
       /\ groups' = Gathered(Without(groups, Stale(s)), s, type)

\* The next record of an event: the one before the last is complete by then.
Due(s) ==
    /\ written[s] < Len(form[s])
    /\ \A r \in Serial : r + 1 < s => written[r] = Len(form[r])
    /\ s > 1 => written[s - 1] > 0
    /\ s = boot => \A r \in 1..(s - 1) : written[r] = Len(form[r])

Line(s) ==
    /\ open /\ Due(s)
    /\ written' = [written EXCEPT ![s] = @ + 1]
    /\ FeedRecord(s, form[s][written[s] + 1])
    /\ UNCHANGED <<mode, boot, form, lost, open, late>>

Lose(s) ==
    /\ Due(s) /\ lost < MaxLost
    /\ written' = [written EXCEPT ![s] = @ + 1] /\ lost' = lost + 1
    /\ UNCHANGED <<mode, boot, form, groups, open, out, late>>

\* Flush, with every poll: close what is too old.
\* Mutant: older than MaxAge.
TooOldNever(g) == g.age > MaxAge

TooOld(g) == g.age >= MaxAge

Flush ==
    /\ mode = "tail" /\ Pending(groups) # {}
    /\ LET older == [s \in Serial |-> IF s \in Pending(groups)
                       THEN [groups[s] EXCEPT !.age = Min({@ + 1, MaxAge})] ELSE NoGroup]
           old == {s \in Pending(groups) : TooOld(older[s])}
       IN  /\ Close(older, old)
           /\ late' = late \cup {s \in old : written[s] < Len(form[s])}
    /\ UNCHANGED <<mode, boot, form, written, lost, open>>

\* flushAllBut, after so many lines of a replay: all but the newest.
Sweep ==
    /\ mode = "replay" /\ open /\ Cardinality(Pending(groups)) > KeepOpen
    /\ Close(groups, {s \in Pending(groups) :
                        Cardinality({r \in Pending(groups) : s \in groups[r].older}) >= KeepOpen})
    /\ UNCHANGED <<mode, boot, form, written, lost, open, late>>

\* FlushAll, at the end of a replay.
End ==
    /\ mode = "replay" /\ open /\ \A s \in Serial : written[s] = Len(form[s])
    /\ Close(groups, Serial) /\ open' = FALSE
    /\ UNCHANGED <<mode, boot, form, written, lost, late>>

Lines == \E s \in Serial : Line(s) \/ Lose(s)
GroupsNext == Lines \/ Flush \/ Sweep \/ End

GroupsFairness == WF_groupVars(Lines \/ End) /\ WF_groupVars(Flush)
GroupsSpec == GroupsInit /\ [][GroupsNext]_groupVars /\ GroupsFairness

-----------------------------------------------------------------------------
GroupsTypeOK ==
    /\ \A s \in Serial : /\ groups[s].records \subseteq Range(form[s]) \ (Single \cup {"EOE"})
                          /\ groups[s].age \in 0..MaxAge
                          /\ groups[s].older \subseteq Pending(groups) \ {s}
                          /\ \A i \in DOMAIN out[s] : Builds(out[s][i])
    /\ late \subseteq Serial

(***************************************************************************)
(* An audit event is told once, and with everything the kernel wrote of    *)
(* it, however adjacent events interleave and whichever record is lost,    *)
(* unless its records came further apart than MaxAge.                      *)
(***************************************************************************)
Kernel(s) == Range(form[s]) \ {"EOE"}
EventWhole ==
    \A s \in Serial \ late :
        /\ Len(out[s]) <= 1
        /\ out[s] # <<>> /\ lost = 0 => out[s][1] = Kernel(s)
        /\ written[s] = Len(form[s]) => s \notin Pending(groups) \/ out[s] = <<>>

(***************************************************************************)
(* No group stays open, when its last record is lost and nothing follows   *)
(* too: each exec of which a record arrived is told in the end.            *)
(***************************************************************************)
ExecTold == []<>(Pending(groups) = {})
=============================================================================
