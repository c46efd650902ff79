----------------------------- MODULE AlertPolicy -----------------------------
(***************************************************************************)
(* internal/alert: which verdicts of the scorer become alerts              *)
(* (Dispatcher.Observe and Ended), and what of it survives a restart       *)
(* (Dedupe, Restore, with the tracks of state.json).                       *)
(*                                                                         *)
(* Observe runs on the correlator goroutine and reads and writes the       *)
(* track's MaxLevel and LastAlert and its memo; fanning the alerts out is  *)
(* left to the sinks' queues.  The scorer's verdict is an input.           *)
(***************************************************************************)
EXTENDS Naturals, Sequences, FiniteSetsExt

CONSTANTS
    Track,       \* ids of tracks; an id is used once
    Windows,     \* freeze_windows: a sequence of [name, starts, length, level, declared]
    Interval,    \* Options.RealertInterval, in ticks
    MaxTime,     \* bound of the clock
    MaxRuns      \* bound of the number of restarts

Level == 0..3    \* score.Level by Rank: none, info, alert, high
None == 0
Info == 1
Alert == 2
High == 3

ASSUME PolicyAssumption ==
    /\ Interval \in Nat \ {0} /\ MaxTime \in Nat \ {0} /\ MaxRuns \in Nat
    /\ Windows \in Seq([name : STRING \ {""}, starts : SUBSET Nat, length : Nat \ {0},
                        level : Level, declared : BOOLEAN])
    /\ \A i, j \in DOMAIN Windows : Windows[i].name = Windows[j].name => i = j

VARIABLES
    track,       \* per track: [phase, maxLevel, lastAlert]; lastAlert 0 is never
    memo,        \* memos: [declared, freeze, verdict] per track
    disk,        \* state.json: the tracks and Dedupe of the last save
    now,         \* the clock
    run,         \* how often the daemon was started again
    told,        \* history: the topics alerts were about, per track
    heard        \* history: the highest level the scorer gave (seen), gave
                 \* in a window (frozen), an alert showed (level), an alert
                 \* carried the verdict of (verdict); the occurrences violated

vars == <<track, memo, disk, now, run, told, heard>>

-----------------------------------------------------------------------------
(***************************************************************************)
(* Freeze windows.                                                         *)
(***************************************************************************)
NoFreeze == [name |-> "", until |-> 0, level |-> None, declared |-> FALSE]
NoKey == [name |-> "", until |-> 0]

\* An occurrence covers [start, start + length).
Started(w, n) == {s \in w.starts : s <= n}
Active(w, n) == Started(w, n) # {} /\ n < Max(Started(w, n)) + w.length

\* The first window of the list that covers n, with the end of its occurrence.
ActiveFreeze(n) ==
    LET on == {i \in DOMAIN Windows : Active(Windows[i], n)}
        w == Windows[Min(on)]
    IN  IF on = {} THEN NoFreeze
        ELSE [name |-> w.name, until |-> Max(Started(w, n)) + w.length,
              level |-> w.level, declared |-> w.declared]

Calendar == [n \in 1..MaxTime |-> ActiveFreeze(n)]

\* The window a verdict at time n falls into.
FreezeFor(n, v) ==
    IF v.class = "declared" /\ ~Calendar[n].declared THEN NoFreeze ELSE Calendar[n]

Key(f) == [name |-> f.name, until |-> f.until]

-----------------------------------------------------------------------------
(***************************************************************************)
(* Verdicts, and what an alert can be about.                               *)
(***************************************************************************)
\* Evaluate: a declared track is at least at info, an undeclared one is
\* suspected from alert on and human below.
Verdict ==
    [class : {"declared"}, level : Info..High]
        \cup [class : {"suspected"}, level : Alert..High]
        \cup [class : {"human"}, level : None..Info]

Violating(v) == v.class = "declared" \/ v.level >= Info

\* A topic has the level of its alert.  The verdict of a window is in memory
\* only, so an escalation is one of the run it happened in.
Crossing(l) == [what |-> "crossing", key |-> NoKey, level |-> l, run |-> 0]
Declaration == [what |-> "declaration", key |-> NoKey, level |-> Info, run |-> 0]
FreezeLevel(f) == IF f.level = None THEN High ELSE f.level
Violation(f) == [what |-> "violation", key |-> Key(f), level |-> FreezeLevel(f), run |-> 0]
Escalation(f, l, r) == [what |-> "escalation", key |-> Key(f), level |-> l, run |-> r]
Farewell == [what |-> "farewell", key |-> NoKey, level |-> None, run |-> 0]

\* The occurrences of windows the clock can meet.
Freeze == {Calendar[n] : n \in 1..MaxTime} \ {NoFreeze}
Topic ==
    {Declaration} \cup {Crossing(l) : l \in Info..High} \cup {Violation(f) : f \in Freeze}
        \cup {Escalation(f, l, r) : f \in Freeze, l \in Alert..High, r \in 0..MaxRuns}

Loud(x) == x.level >= Alert

NoMemo == [declared |-> FALSE, freeze |-> NoKey, verdict |-> None]
NewTrack == [phase |-> "new", maxLevel |-> None, lastAlert |-> 0]
Unheard == [seen |-> None, frozen |-> None, violated |-> {}, level |-> None, verdict |-> None]

Louder(a, b) == IF a < b THEN b ELSE a

-----------------------------------------------------------------------------
Init ==
    /\ track = [t \in Track |-> NewTrack]
    /\ memo = [t \in Track |-> NoMemo]
    /\ told = [t \in Track |-> <<>>]
    /\ heard = [t \in Track |-> Unheard]
    /\ disk = [track |-> track, dedupe |-> [t \in Track |-> [declared |-> FALSE, freeze |-> NoKey]],
               told |-> told, heard |-> heard]
    /\ now = 1 /\ run = 0

\* The correlator made the track.
Open(t) ==
    /\ track[t].phase = "new"
    /\ track' = [track EXCEPT ![t].phase = "open"]
    /\ UNCHANGED <<memo, disk, now, run, told, heard>>

\* Mutant: levels below alert leave no trace on the track.
EmitFromAlert(t, l) ==
    track' = [track EXCEPT ![t].lastAlert = now,
                           ![t].maxLevel = IF l < Alert THEN @ ELSE Louder(@, l)]

\* emit, for an alert of level l: MaxLevel only rises.
Emit(t, l) ==
    track' = [track EXCEPT ![t].lastAlert = now, ![t].maxLevel = Louder(@, l)]

\* A window that applies to the verdict is open.
InFreeze(t, v) ==
    /\ track[t].phase = "open"
    /\ FreezeFor(now, v) # NoFreeze /\ Violating(v)

\* The history of a verdict v that became an alert of level l, or none.
Hear(t, v, l) ==
    heard' = [heard EXCEPT ![t] =
        [seen |-> Louder(@.seen, v.level),
         frozen |-> IF InFreeze(t, v) THEN Louder(@.frozen, v.level) ELSE @.frozen,
         violated |-> IF InFreeze(t, v) THEN @.violated \cup {Key(FreezeFor(now, v))} ELSE @.violated,
         level |-> Louder(@.level, l),
         verdict |-> IF l = None THEN @.verdict ELSE Louder(@.verdict, v.level)]]

Due(t) == track[t].lastAlert = 0 \/ now - track[t].lastAlert >= Interval

-----------------------------------------------------------------------------
(***************************************************************************)
(* Observe inside a freeze window.                                         *)
(***************************************************************************)
\* Mutant: the next occurrence of a window passes for the last one.
ReportedByName(t, f) == memo[t].freeze.name = f.name

Reported(t, f) == memo[t].freeze = Key(f)

\* The window is violated: one freeze_violation, at the window's level.
ObserveViolation(t, v) ==
    LET f == FreezeFor(now, v)
    IN  /\ InFreeze(t, v) /\ ~Reported(t, f)
        /\ memo' = [memo EXCEPT ![t].freeze = Key(f), ![t].verdict = v.level]
        /\ Emit(t, FreezeLevel(f))
        /\ told' = [told EXCEPT ![t] = Append(@, Violation(f))]
        /\ Hear(t, v, FreezeLevel(f))
        /\ UNCHANGED <<disk, now, run>>

\* Mutant: compared with the track's level, as outside of windows.
EscalatesTrack(t, v) == v.level >= Alert /\ v.level > track[t].maxLevel

\* The scorer went beyond what was reported in this window.
Escalates(t, v) == v.level >= Alert /\ v.level > memo[t].verdict

ObserveEscalation(t, v) ==
    LET f == FreezeFor(now, v)
    IN  /\ InFreeze(t, v) /\ Reported(t, f) /\ Escalates(t, v)
        /\ memo' = [memo EXCEPT ![t].verdict = v.level]
        /\ Emit(t, v.level)
        /\ told' = [told EXCEPT ![t] = Append(@, Escalation(f, v.level, run))]
        /\ Hear(t, v, v.level)
        /\ UNCHANGED <<disk, now, run>>

\* agent_still_active, at the window's level, or nothing.
ObserveFrozen(t, v) ==
    LET f == FreezeFor(now, v)
    IN  /\ InFreeze(t, v) /\ Reported(t, f) /\ ~Escalates(t, v)
        /\ \/ Due(t) /\ Emit(t, FreezeLevel(f)) /\ Hear(t, v, FreezeLevel(f))
           \/ ~Due(t) /\ UNCHANGED track /\ Hear(t, v, None)
        /\ UNCHANGED <<memo, disk, now, run, told>>

-----------------------------------------------------------------------------
(***************************************************************************)
(* Observe outside of freeze windows.                                      *)
(***************************************************************************)
OutOfFreeze(t, v) == track[t].phase = "open" /\ ~(FreezeFor(now, v) # NoFreeze /\ Violating(v))

\* Mutant: a declaration is a pass.
CountsUndeclared(v) == v.class # "declared" /\ v.level >= Info

\* A declaration by itself is no reason to go on.
Counts(v) == (v.class = "declared" => v.level >= Alert) /\ v.level >= Info

\* agent_declared, once per track, followed by the level crossed, if any.
ObserveDeclaration(t, v) ==
    LET crossed == Counts(v) /\ v.level > Louder(track[t].maxLevel, Info)
        level == IF crossed THEN v.level ELSE Info
    IN  /\ OutOfFreeze(t, v) /\ v.class = "declared" /\ ~memo[t].declared
        /\ memo' = [memo EXCEPT ![t].declared = TRUE]
        /\ Emit(t, level)
        /\ told' = [told EXCEPT ![t] =
                        @ \o (IF crossed THEN <<Declaration, Crossing(v.level)>> ELSE <<Declaration>>)]
        /\ Hear(t, v, level)
        /\ UNCHANGED <<disk, now, run>>

Labelled(t, v) == v.class = "declared" => memo[t].declared

\* agent_detected or agent_high: a level none of the alerts had yet.
ObserveCrossing(t, v) ==
    /\ OutOfFreeze(t, v) /\ Labelled(t, v) /\ Counts(v) /\ v.level > track[t].maxLevel
    /\ Emit(t, v.level)
    /\ told' = [told EXCEPT ![t] = Append(@, Crossing(v.level))]
    /\ Hear(t, v, v.level)
    /\ UNCHANGED <<memo, disk, now, run>>

\* agent_still_active, or nothing.
ObserveKnown(t, v) ==
    LET remind == Counts(v) /\ v.level >= Alert /\ Due(t)
    IN  /\ OutOfFreeze(t, v) /\ Labelled(t, v) /\ ~(Counts(v) /\ v.level > track[t].maxLevel)
        /\ \/ remind /\ Emit(t, v.level) /\ Hear(t, v, v.level)
           \/ ~remind /\ UNCHANGED track /\ Hear(t, v, None)
        /\ UNCHANGED <<memo, disk, now, run, told>>

Observe(t, v) ==
    \/ ObserveViolation(t, v) \/ ObserveEscalation(t, v) \/ ObserveFrozen(t, v)
    \/ ObserveDeclaration(t, v) \/ ObserveCrossing(t, v) \/ ObserveKnown(t, v)

-----------------------------------------------------------------------------
(***************************************************************************)
(* The end of a track, saves and restarts.                                 *)
(***************************************************************************)
Leave(t) ==
    /\ track[t].phase = "open"
    /\ track' = [track EXCEPT ![t].phase = "gone"]
    /\ memo' = [memo EXCEPT ![t] = NoMemo]
    /\ UNCHANGED <<disk, now, run, heard>>

\* maintain: the track expired; Ended says so when it ever reached alert.
Ended(t) ==
    /\ Leave(t)
    /\ \/ track[t].maxLevel >= Alert /\ told' = [told EXCEPT ![t] = Append(@, Farewell)]
       \/ track[t].maxLevel < Alert /\ UNCHANGED told

\* forget: the correlator dropped a track another one took over.
Forget(t) == Leave(t) /\ UNCHANGED told

\* saveState, from the ticker and at a clean stop.
Dedupe(m) == [t \in Track |-> [declared |-> m[t].declared, freeze |-> m[t].freeze]]
Save ==
    /\ run < MaxRuns   \* a later save is never read
    /\ disk' = [track |-> track, dedupe |-> Dedupe(memo), told |-> told, heard |-> heard]
    /\ UNCHANGED <<track, memo, now, run, told, heard>>

\* Mutant: the keys of freeze windows are not read back.
RestoreDeclared(d) ==
    [t \in Track |-> [declared |-> d[t].declared, freeze |-> NoKey, verdict |-> None]]

\* The daemon dies at any moment and is started again: the state is that of
\* the last save, and so is the history the state accounts for.
Restore(d) ==
    [t \in Track |-> [declared |-> d[t].declared, freeze |-> d[t].freeze, verdict |-> None]]
Restart ==
    /\ run < MaxRuns
    /\ track' = disk.track /\ memo' = Restore(disk.dedupe)
    /\ told' = disk.told /\ heard' = disk.heard
    /\ run' = run + 1
    /\ UNCHANGED <<disk, now>>

Tick == now < MaxTime /\ now' = now + 1 /\ UNCHANGED <<track, memo, disk, run, told, heard>>

Next ==
    \/ \E t \in Track : Open(t) \/ Ended(t) \/ Forget(t) \/ \E v \in Verdict : Observe(t, v)
    \/ Save \/ Restart \/ Tick

Spec == Init /\ [][Next]_vars

-----------------------------------------------------------------------------
(***************************************************************************)
(* Properties.                                                             *)
(***************************************************************************)
\* The types; an alert and only an alert leaves a level and a time.
TrackOK(tr) ==
    \A t \in Track :
        /\ tr[t].phase \in {"new", "open", "gone"} /\ tr[t].maxLevel \in Level
        /\ tr[t].lastAlert \in 0..now
        /\ tr[t].lastAlert = 0 <=> tr[t].maxLevel = None
TypeOK ==
    /\ TrackOK(track) /\ TrackOK(disk.track)
    /\ memo \in [Track -> [declared : BOOLEAN, verdict : Level,
                          freeze : {NoKey} \cup {Key(f) : f \in Freeze}]]
    /\ \A t \in Track : told[t] \in Seq(Topic \cup {Farewell})
    /\ heard \in [Track -> [seen : Level, frozen : Level, level : Level, verdict : Level,
                           violated : SUBSET {Key(f) : f \in Freeze}]]
    /\ now \in 1..MaxTime /\ run \in 0..MaxRuns

\* Nothing the scorer found goes unreported: the highest level it ever gave
\* an observed track is the level of one of the track's alerts, or that of the
\* verdict one of them carries, in whatever order windows, declarations and
\* restarts come (the branches of Observe each compare with another memory).
Covered == \A t \in Track : heard[t].seen <= Louder(heard[t].level, heard[t].verdict)

\* Inside a window the level of the alerts says nothing of the verdicts, so
\* there the verdict itself is reported: one carries the highest verdict of
\* the windows (the comment of trackMemo.freezeVerdict).
CarriedInFreeze == \A t \in Track : heard[t].frozen <= heard[t].verdict

\* Each occurrence of a window is told by itself: when a track has violated
\* one, that occurrence's violation was told, be it the next of the same window
\* or first seen after a restart.
OccurrenceTold ==
    \A t \in Track : \A k \in heard[t].violated : \E i \in DOMAIN told[t] :
        told[t][i].what = "violation" /\ told[t][i].key = k

\* Once another occurrence is the active one, an earlier one stays away.
\* A list of overlapping windows can be without it: the first one of the list
\* hides the others while it lasts.
Steady ==
    \A i, j, k \in 1..MaxTime :
        i < j /\ j < k /\ Calendar[i] # NoFreeze /\ Key(Calendar[i]) = Key(Calendar[k])
            => Key(Calendar[j]) = Key(Calendar[i])

\* The policy keeps the promise of Reporting: each crossing, declaration and
\* violation is told once, an alert that tells nothing new waits for the
\* interval, agent_ended comes exactly for what was told at alert or above,
\* and a restart repeats nothing the last save recorded.
Promise == INSTANCE Reporting WITH
    phase <- [t \in Track |-> track[t].phase],
    last <- [t \in Track |-> track[t].lastAlert],
    kept <- [phase |-> [t \in Track |-> disk.track[t].phase], told |-> disk.told,
             last |-> [t \in Track |-> disk.track[t].lastAlert]],
    clock <- now
PromiseKept == Promise!Spec

\* State is everything needed to resume without re-alerting
\* (internal/state/state.go:24): no escalation is told by two runs.
NotRealerted ==
    \A t \in Track : \A i, j \in DOMAIN told[t] :
        [told[t][i] EXCEPT !.run = 0] = [told[t][j] EXCEPT !.run = 0] => i = j
=============================================================================
