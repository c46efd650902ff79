------------------------------- MODULE Pipeline -------------------------------
(***************************************************************************)
(* internal/app: events on their way from a reader that can resume (the    *)
(* audit log) through the channel `in`, the forwarder and the drop-oldest  *)
(* queue to the loop that owns the tracks, evaluates them, at once or on   *)
(* the next flush, ends the idle ones and saves the state; the shutdown,   *)
(* crashes and restarts; and the replay of a file, which has no queues and *)
(* takes the time from its events.                                         *)
(*                                                                         *)
(* Time is kept as ages, counted up to the limits they are compared with.  *)
(* What Apply makes of an event is given with the event: the track, if     *)
(* any, whether it is strong, and a provisional track it absorbs.          *)
(***************************************************************************)
EXTENDS Naturals, Sequences, SequencesExt, FiniteSetsExt

CONSTANTS
    Track, NoTrack,
    Logs, Replays,  \* the logs to choose from: sequences of [track, strong, absorbs]
    ChanSize,       \* the length of `in`
    QueueSize,      \* the length of the queue
    EvalInterval,   \* evalInterval, in ticks
    TickInterval,   \* tickInterval, in ticks
    Window,         \* session.Options.Window, in ticks
    MaxRuns         \* bound of the number of starts

EventType == [track : Track \cup {NoTrack}, strong : BOOLEAN, absorbs : Track \cup {NoTrack}]

ASSUME PipelineAssumption ==
    /\ Logs \cup Replays \subseteq Seq(EventType)
    /\ {ChanSize, QueueSize, EvalInterval, TickInterval, Window, MaxRuns} \subseteq Nat \ {0}
    /\ NoTrack \notin Track

VARIABLES
    mode,        \* live or replay
    log,         \* the log that is read
    rd,          \* the reader: [up, pos]
    in, queue,   \* the channels
    fwd,         \* the forwarder: [pc, ev]
    track,       \* per track: [open, fresh, sinceEval, idle]
    dirty,       \* pipeline.dirty
    since,       \* ages of the last flush and the last tick
    due,         \* the tickers that fired
    loop,        \* runLive: start, run, save, stopping, drain, last, stopped
    signal,      \* the context of Run is done
    snap,        \* the state saveState took, while it is written
    disk,        \* state.json: [track, pos, applied]
    applied,     \* history: the events the tracks come from
    gone,        \* history: [dropped, lost] events
    missed,      \* history: a track ended with evidence it was not evaluated for
    inherited,   \* history: tracks restored with such evidence
    runs         \* the number of starts

flow == <<rd, in, queue, fwd>>
core == <<track, dirty, since, applied, missed>>
stop == <<mode, log, signal, runs, inherited>>
vars == <<mode, log, rd, in, queue, fwd, track, dirty, since, due, loop, signal, snap,
          disk, applied, gone, missed, inherited, runs>>

-----------------------------------------------------------------------------
(***************************************************************************)
(* The pieces of the loop, on what they change: [track, dirty, missed].    *)
(***************************************************************************)
Core == [track |-> track, dirty |-> dirty, missed |-> missed]
Closed == [open |-> FALSE, fresh |-> FALSE, sinceEval |-> EvalInterval, idle |-> 0]

\* A track after its evaluation.
Scored(r) == [r EXCEPT !.fresh = FALSE, !.sinceEval = 0]

Evaluate(c, t) == [c EXCEPT !.dirty = @ \ {t}, !.track[t] = Scored(@)]

\* Mutant: the dirty set keeps a track that is gone.
ForgetLingering(c, t) == [c EXCEPT !.track[t] = Closed]

\* The correlator's OnDrop hook.
Forget(c, t) == [c EXCEPT !.dirty = @ \ {t}, !.track[t] = Closed]

\* Apply: the evidence of an absorbed track is its connection's, and goes along.
Apply(c, e) ==
    LET from == e.absorbs
        d == IF from = NoTrack THEN c ELSE Forget(c, from)
    IN  [d EXCEPT !.track[e.track] = [@ EXCEPT !.open = TRUE, !.fresh = TRUE, !.idle = 0]]

Due(c, t) == c.track[t].sinceEval >= EvalInterval

Handle(c, e) ==
    IF e.track = NoTrack THEN c
    ELSE LET d == Apply(c, e)
         IN  IF e.strong \/ Due(d, e.track) THEN Evaluate(d, e.track)
             ELSE [d EXCEPT !.dirty = @ \cup {e.track}]

FlushDirty(c, force) ==
    LET these == {t \in c.dirty : force \/ Due(c, t)}
    IN  [c EXCEPT !.dirty = @ \ these,
                  !.track = [t \in Track |-> IF t \in these THEN Scored(@[t]) ELSE @[t]]]

Maintain(c) ==
    LET idle == {t \in Track : c.track[t].open /\ c.track[t].idle > Window}
    IN  [track |-> [t \in Track |-> IF t \in idle THEN Closed ELSE c.track[t]],
         dirty |-> c.dirty \ idle,
         missed |-> c.missed \/ \E t \in idle \ inherited : c.track[t].fresh]

Become(c) == track' = c.track /\ dirty' = c.dirty /\ missed' = c.missed

\* Time passes for the tracks.
Older(tr, n) ==
    [t \in Track |-> IF ~tr[t].open THEN tr[t] ELSE
        [tr[t] EXCEPT !.sinceEval = Min({@ + n, EvalInterval}), !.idle = Min({@ + n, Window + 1})]]

Age(s, n) == [flush |-> Min({s.flush + n, EvalInterval}), tick |-> Min({s.tick + n, TickInterval})]

-----------------------------------------------------------------------------
NoEvent == 0
Nothing == [track |-> [t \in Track |-> Closed], pos |-> 0, applied |-> <<>>]
Idle == [pc |-> "stopped", ev |-> NoEvent]

Init ==
    /\ mode \in {"live", "replay"} /\ log \in IF mode = "live" THEN Logs ELSE Replays
    /\ rd = [up |-> FALSE, pos |-> 0]
    /\ in = <<>> /\ queue = <<>> /\ fwd = Idle
    /\ track = Nothing.track /\ dirty = {} /\ missed = FALSE
    /\ since = [flush |-> EvalInterval, tick |-> 0]
    /\ due = {}
    /\ loop = IF mode = "live" THEN "start" ELSE "feed"
    /\ signal = FALSE
    /\ snap = Nothing /\ disk = Nothing
    /\ applied = <<>> /\ gone = [dropped |-> {}, lost |-> {}] /\ inherited = {}
    /\ runs = 0

Live == mode = "live"

(***************************************************************************)
(* runLive restores the tracks and starts reader and forwarder.            *)
(***************************************************************************)
Start ==
    /\ loop = "start" /\ runs < MaxRuns
    /\ \E down \in {0, Window + 1} : track' = Older(disk.track, down)
    /\ applied' = disk.applied
    /\ inherited' = {t \in Track : disk.track[t].fresh}
    /\ rd' = [up |-> TRUE, pos |-> disk.pos]
    /\ fwd' = [pc |-> "take", ev |-> NoEvent]
    /\ since' = [flush |-> 0, tick |-> 0]
    /\ loop' = "run" /\ runs' = runs + 1
    /\ UNCHANGED <<mode, log, in, queue, dirty, due, signal, snap, disk, gone, missed>>

Stopping == loop \in {"stopping", "drain", "last", "stopped"}

\* The reader moves its position past an event, and sends it.
Read ==
    /\ rd.up /\ rd.pos < Len(log) /\ Len(in) < ChanSize
    /\ rd' = [rd EXCEPT !.pos = @ + 1]
    /\ in' = Append(in, rd.pos + 1)
    /\ UNCHANGED <<queue, fwd, core, stop, due, loop, snap, disk, gone>>

Drop(ev) == gone' = [gone EXCEPT !.dropped = @ \cup {ev}]

\* The reader ends when its context is done, or by itself.
ReaderEnds ==
    /\ rd.up
    /\ rd' = [rd EXCEPT !.up = FALSE]
    /\ UNCHANGED <<in, queue, fwd, core, stop, due, loop, snap, disk, gone>>

Reader == Read \/ ReaderEnds

(***************************************************************************)
(* The forwarder.                                                          *)
(***************************************************************************)
\* Mutant: the queue is one longer.
ForwardOverfull ==
    /\ fwd.pc = "take" /\ in # <<>>
    /\ in' = Tail(in)
    /\ IF Len(queue) <= QueueSize
       THEN queue' = Append(queue, Head(in)) /\ UNCHANGED fwd
       ELSE fwd' = [pc |-> "evict", ev |-> Head(in)] /\ UNCHANGED queue
    /\ UNCHANGED <<rd, core, stop, due, loop, snap, disk, gone>>

Forward ==
    /\ fwd.pc = "take" /\ in # <<>>
    /\ in' = Tail(in)
    /\ IF Len(queue) < QueueSize
       THEN queue' = Append(queue, Head(in)) /\ UNCHANGED fwd
       ELSE fwd' = [pc |-> "evict", ev |-> Head(in)] /\ UNCHANGED queue
    /\ UNCHANGED <<rd, core, stop, due, loop, snap, disk, gone>>

\* Mutant: the evicted event is not counted.
EvictUncounted ==
    /\ fwd.pc = "evict"
    /\ fwd' = [fwd EXCEPT !.pc = "again"]
    /\ queue' = IF queue = <<>> THEN queue ELSE Tail(queue)
    /\ UNCHANGED <<rd, in, core, stop, due, loop, snap, disk, gone>>

EvictOldest ==
    /\ fwd.pc = "evict"
    /\ fwd' = [fwd EXCEPT !.pc = "again"]
    /\ IF queue = <<>> THEN UNCHANGED <<queue, gone>>
                       ELSE queue' = Tail(queue) /\ Drop(Head(queue))
    /\ UNCHANGED <<rd, in, core, stop, due, loop, snap, disk>>

PutAgain ==
    /\ fwd.pc = "again"
    /\ fwd' = [pc |-> "take", ev |-> NoEvent]
    /\ IF Len(queue) < QueueSize THEN queue' = Append(queue, fwd.ev) /\ UNCHANGED gone
                                 ELSE Drop(fwd.ev) /\ UNCHANGED queue
    /\ UNCHANGED <<rd, in, core, stop, due, loop, snap, disk>>

ForwarderEnds ==
    /\ fwd.pc = "take" /\ Stopping
    /\ fwd' = Idle
    /\ UNCHANGED <<rd, in, queue, core, stop, due, loop, snap, disk, gone>>

Forwarder == Forward \/ EvictOldest \/ PutAgain \/ ForwarderEnds

-----------------------------------------------------------------------------
(***************************************************************************)
(* The loop.                                                               *)
(***************************************************************************)
HandleEvent ==
    /\ loop \in {"run", "drain"} /\ queue # <<>>
    /\ queue' = Tail(queue)
    /\ Become(Handle(Core, log[Head(queue)]))
    /\ applied' = Append(applied, Head(queue))
    /\ inherited' = inherited \ {log[Head(queue)].track}
    /\ UNCHANGED <<rd, in, fwd, since, mode, log, signal, runs, due, loop, snap, disk, gone>>

Flush ==
    /\ loop = "run" /\ "flush" \in due
    /\ Become(FlushDirty(Core, FALSE))
    /\ due' = due \ {"flush"}
    /\ UNCHANGED <<flow, since, applied, stop, loop, snap, disk, gone>>

\* saveState: the tracks, then the position of the reader.  The time stamps
\* of a track stand for ages here: on disk they count from the save.
Saved(tr) == [t \in Track |-> IF tr[t].open THEN [tr[t] EXCEPT !.sinceEval = 0, !.idle = 0] ELSE Closed]
\* Mutant: the position is the one of the last save.
SnapshotStale(c) == snap' = [track |-> Saved(c.track), pos |-> disk.pos, applied |-> applied]

Snapshot(c) == snap' = [track |-> Saved(c.track), pos |-> rd.pos, applied |-> applied]

MaintainAndSave(c, next) ==
    LET d == Maintain(c)
    IN  Become(d) /\ Snapshot(d) /\ loop' = next

Tick ==
    /\ loop = "run" /\ "tick" \in due
    /\ MaintainAndSave(Core, "save")
    /\ due' = due \ {"tick"}
    /\ UNCHANGED <<flow, since, applied, stop, disk, gone>>

\* state.Save renames a complete file, or leaves the one that is there.
Save ==
    /\ loop \in {"save", "last"}
    /\ disk' \in {disk, snap}
    /\ snap' = Nothing
    /\ loop' = IF loop = "save" THEN "run" ELSE "stopped"
    /\ UNCHANGED <<flow, core, stop, due, gone>>

\* The signal, or the end of the last reader.
Break ==
    /\ loop = "run" /\ (signal \/ ~rd.up)
    /\ loop' = "stopping"
    /\ UNCHANGED <<flow, core, stop, due, snap, disk, gone>>

\* Mutant: a reader that hangs is waited for.
AwaitReader ==
    /\ loop = "stopping" /\ ~rd.up
    /\ loop' = "drain"
    /\ UNCHANGED <<flow, core, stop, due, snap, disk, gone>>

\* The reader stopped, or three seconds are over.
Await ==
    /\ loop = "stopping"
    /\ loop' = "drain"
    /\ UNCHANGED <<flow, core, stop, due, snap, disk, gone>>

\* Mutant: what is dirty is left.
DrainedDirty ==
    /\ loop = "drain" /\ queue = <<>>
    /\ MaintainAndSave(Core, "last")
    /\ UNCHANGED <<flow, since, applied, stop, due, disk, gone>>

\* The queue is empty at this moment: evaluate all, end the idle, save.
Drained ==
    /\ loop = "drain" /\ queue = <<>>
    /\ MaintainAndSave(FlushDirty(Core, TRUE), "last")
    /\ UNCHANGED <<flow, since, applied, stop, due, disk, gone>>

Loop == HandleEvent \/ Flush \/ Tick \/ Save \/ Break \/ Await \/ Drained

(***************************************************************************)
(* The rest of the world: time, the signal, the end of the process.        *)
(***************************************************************************)
\* The loop is done with a tick before the next one.
Time ==
    /\ Live /\ loop = "run" /\ due = {}
    /\ LET s == Age(since, 1)
           fired == {k \in {"flush", "tick"} :
                        s[k] = IF k = "flush" THEN EvalInterval ELSE TickInterval}
       IN  /\ due' = fired
           /\ since' = [k \in {"flush", "tick"} |-> IF k \in fired THEN 0 ELSE s[k]]
    /\ track' = Older(track, 1)
    /\ UNCHANGED <<flow, dirty, applied, missed, stop, loop, snap, disk, gone>>

Signal ==
    /\ Live /\ loop \in {"run", "save"} /\ ~signal
    /\ signal' = TRUE
    /\ UNCHANGED <<flow, core, mode, log, runs, inherited, due, loop, snap, disk, gone>>

\* A crash, or the end: what is on its way is lost, and so is what the tracks
\* took in since the last save and the reader will not read again.
Restart ==
    /\ Live /\ loop # "start" /\ runs < MaxRuns
    /\ loop' = "start"
    /\ rd' = [up |-> FALSE, pos |-> 0]
    /\ in' = <<>> /\ queue' = <<>> /\ fwd' = Idle
    /\ track' = Nothing.track /\ dirty' = {} /\ applied' = <<>>
    /\ due' = {} /\ signal' = FALSE /\ snap' = Nothing /\ inherited' = {}
    /\ gone' = [dropped |-> {e \in gone.dropped : e <= disk.pos},
                lost |-> 1..disk.pos \ (gone.dropped \cup Range(disk.applied))]
    /\ UNCHANGED <<mode, log, since, disk, missed, runs>>

-----------------------------------------------------------------------------
(***************************************************************************)
(* feed: one event of a replay with what its time stamp makes due.         *)
(***************************************************************************)
\* Mutant: the idle tracks end before the dirty ones are evaluated.
FeedMaintainsFirst(c, e, s) ==
    LET h == Handle(c, e)
        m == IF s.tick >= TickInterval THEN Maintain(h) ELSE h
    IN  IF s.flush >= EvalInterval THEN FlushDirty(m, FALSE) ELSE m

FeedSteps(c, e, s) ==
    LET h == Handle(c, e)
        f == IF s.flush >= EvalInterval THEN FlushDirty(h, FALSE) ELSE h
    IN  IF s.tick >= TickInterval THEN Maintain(f) ELSE f

Feed ==
    /\ loop = "feed" /\ rd.pos < Len(log)
    /\ \E n \in {0, 1, Window + 1} :
          LET s == IF applied = <<>> THEN since ELSE Age(since, n)
              c == [Core EXCEPT !.track = Older(@, n)]
          IN  /\ Become(FeedSteps(c, log[rd.pos + 1], s))
              /\ since' = [flush |-> IF s.flush >= EvalInterval THEN 0 ELSE s.flush,
                           tick |-> IF s.tick >= TickInterval THEN 0 ELSE s.tick]
    /\ rd' = [rd EXCEPT !.pos = @ + 1]
    /\ applied' = Append(applied, rd.pos + 1)
    /\ UNCHANGED <<in, queue, fwd, stop, due, loop, snap, disk, gone>>

FeedEnds ==
    /\ loop = "feed" /\ rd.pos = Len(log)
    /\ Become(FlushDirty(Core, TRUE))
    /\ loop' = "stopped"
    /\ UNCHANGED <<flow, since, applied, stop, due, snap, disk, gone>>

Next ==
    \/ Start \/ Reader \/ Forwarder \/ Loop
    \/ Time \/ Signal \/ Restart
    \/ Feed \/ FeedEnds

(***************************************************************************)
(* The goroutines run.  select picks one of its ready branches at random,  *)
(* so the one that is ready again and again is served in the end: a ticker *)
(* that fired stays ready, the end of the context is back after a save.    *)
(***************************************************************************)
Fairness ==
    /\ WF_vars(Start) /\ WF_vars(Forwarder)
    /\ WF_vars(HandleEvent) /\ WF_vars(Flush) /\ WF_vars(Tick) /\ WF_vars(Save)
    /\ SF_vars(Break) /\ WF_vars(Await \/ Drained)
    /\ WF_vars(Time)
    /\ WF_vars(Feed) /\ WF_vars(FeedEnds)

Spec == Init /\ [][Next]_vars /\ Fairness

-----------------------------------------------------------------------------
Event == 1..Len(log)

TypeOK ==
    /\ mode \in {"live", "replay"}
    /\ rd \in [up : BOOLEAN, pos : 0..Len(log)]
    /\ in \in Seq(Event) /\ Len(in) <= ChanSize
    /\ queue \in Seq(Event) /\ Len(queue) <= QueueSize
    /\ fwd \in [pc : {"take", "evict", "again", "stopped"}, ev : Event \cup {NoEvent}]
    /\ track \in [Track -> [open : BOOLEAN, fresh : BOOLEAN,
                            sinceEval : 0..EvalInterval, idle : 0..(Window + 1)]]
    /\ dirty \subseteq Track
    /\ due \subseteq {"flush", "tick"}
    /\ loop \in {"start", "run", "save", "stopping", "drain", "last", "stopped", "feed"}

(***************************************************************************)
(* The dirty set is exact: a track with evidence it was not evaluated for  *)
(* is in it, and one that ended or was absorbed is not (flushDirty would   *)
(* score it and alert on it).  Only what a restart restored may be late.   *)
(***************************************************************************)
DirtyExact ==
    \A t \in Track :
        /\ t \in dirty => track[t].open /\ track[t].fresh
        /\ track[t].fresh => t \in dirty \cup inherited

(***************************************************************************)
(* No event is applied twice or out of order, in memory or in the saved    *)
(* state: the position saved with the tracks is never behind them.         *)
(***************************************************************************)
Increasing(s) == \A i, j \in DOMAIN s : i < j => s[i] < s[j]
AppliedOnce ==
    /\ Increasing(applied) /\ Increasing(disk.applied)
    /\ \A e \in Range(disk.applied) : e <= disk.pos

(***************************************************************************)
(* Every event that was read is in one place: applied, on its way, counted *)
(* as dropped, or lost with a process that ended.                          *)
(***************************************************************************)
Places == <<Range(applied), Range(in), {fwd.ev} \ {NoEvent}, Range(queue),
            gone.dropped, gone.lost>>
Accounted ==
    loop # "start" =>
        /\ UNION Range(Places) = 1..rd.pos
        /\ \A i, j \in DOMAIN Places : i # j => Places[i] \cap Places[j] = {}

(***************************************************************************)
(* No track ends before it was evaluated for all its evidence: the last    *)
(* burst of an agent is scored before agent_ended is sent.                 *)
(***************************************************************************)
EndedEvaluated == ~missed

(***************************************************************************)
(* A clean stop leaves nothing unevaluated in memory, except the tracks    *)
(* that were restored so, and a save that succeeds has it all.             *)
(***************************************************************************)
CleanStop ==
    /\ loop \in {"last", "stopped"} => dirty = {} /\ \A t \in Track \ inherited : ~track[t].fresh
    /\ loop = "last" => snap.track = Saved(track) /\ snap.applied = applied

(***************************************************************************)
(* After the signal the loop comes to its end, also when a reader hangs,   *)
(* events keep coming from the forwarder and saves fail.                   *)
(***************************************************************************)
ShutdownEnds == signal ~> loop \in {"stopped", "start"}
=============================================================================
