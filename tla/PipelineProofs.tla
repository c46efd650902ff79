--------------------------- MODULE PipelineProofs ---------------------------
(***************************************************************************)
(* Proofs about Pipeline, for every log, every length of the queues and    *)
(* every number of tracks and of starts.                                   *)
(***************************************************************************)
EXTENDS Pipeline, TLAPS

-----------------------------------------------------------------------------
(***************************************************************************)
(* The inductive invariant.                                                *)
(***************************************************************************)
TrackType == [open : BOOLEAN, fresh : BOOLEAN, sinceEval : 0..EvalInterval, idle : 0..(Window + 1)]
StateType == [track : [Track -> TrackType], pos : 0..Len(log), applied : Seq(Event)]

ForwarderType == [pc : {"take", "evict", "again", "stopped"}, ev : Event \cup {NoEvent}]
Carrying(f) == f.pc \in {"evict", "again"} <=> f.ev # NoEvent

TypedFlow ==
    /\ rd \in [up : BOOLEAN, pos : 0..Len(log)]
    /\ in \in Seq(Event) /\ Len(in) <= ChanSize
    /\ queue \in Seq(Event) /\ Len(queue) <= QueueSize
    /\ fwd \in ForwarderType
    /\ Carrying(fwd)
    /\ applied \in Seq(Event)
    /\ gone \in [dropped : SUBSET Event, lost : SUBSET Event]
TypedCore ==
    /\ track \in [Track -> TrackType]
    /\ dirty \subseteq Track /\ missed \in BOOLEAN /\ inherited \subseteq Track
TypedSaved == snap \in StateType /\ disk \in StateType
TypedLoop ==
    /\ mode \in {"live", "replay"}
    /\ log \in Seq(EventType)
    /\ since.flush \in 0..EvalInterval
    /\ due \subseteq {"flush", "tick"}
    /\ loop \in {"start", "run", "save", "stopping", "drain", "last", "stopped", "feed"}

Typed == TypedFlow /\ TypedCore /\ TypedSaved /\ TypedLoop

\* What is at rest in a replay, and before the start.
Resting ==
    /\ Live => loop # "feed"
    /\ ~Live => loop \in {"feed", "stopped"} /\ inherited = {}
    /\ ~Live \/ loop = "start" =>
           /\ ~rd.up /\ fwd = Idle /\ in = <<>> /\ queue = <<>> /\ due = {}
    /\ loop = "start" => applied = <<>> /\ dirty = {} /\ snap = Nothing
Before(S, T) == \A a \in S, b \in T : a < b
Held == {fwd.ev} \ {NoEvent}

\* The events are in the order of the log wherever they are.
InOrder ==
    /\ Increasing(applied) /\ Increasing(queue) /\ Increasing(in)
    /\ Before(Range(applied), Range(queue)) /\ Before(Range(applied), Held)
    /\ Before(Range(applied), Range(in))
    /\ Before(Range(queue), Held) /\ Before(Range(queue), Range(in)) /\ Before(Held, Range(in))

\* Each event that was read is in one place; before a start those that the
\* saved position is past are saved, were dropped or are lost.
OnTheWay == Range(applied) \cup Range(queue) \cup Held \cup Range(in)
Kept ==
    /\ gone.dropped \cap gone.lost = {}
    /\ loop # "start" =>
           /\ 1..rd.pos = OnTheWay \cup gone.dropped \cup gone.lost
           /\ (gone.dropped \cup gone.lost) \cap OnTheWay = {}
    /\ loop = "start" =>
           /\ 1..disk.pos = Range(disk.applied) \cup gone.dropped \cup gone.lost
           /\ (gone.dropped \cup gone.lost) \cap Range(disk.applied) = {}

\* A saved state is behind the one in memory.
Complete(s) == Increasing(s.applied) /\ \A e \in Range(s.applied) : e <= s.pos
Behind(s) == Range(s.applied) \subseteq Range(applied) /\ s.pos <= rd.pos
SavedInOrder ==
    /\ Complete(disk) /\ Complete(snap)
    /\ loop # "start" => Behind(disk) /\ Behind(snap)

Ended ==
    /\ loop \in {"last", "stopped"} => dirty = {}
    /\ loop = "last" => snap.track = Saved(track) /\ snap.applied = applied

IInv == Typed /\ Resting /\ InOrder /\ Kept /\ SavedInOrder /\ DirtyExact /\ Ended

(***************************************************************************)
(* A dirty track has time: the flush that evaluates it comes before the    *)
(* tick that would end it.  It is the next flush if the track is due then, *)
(* else the one after it.  For this the window has to be nearly twice the  *)
(* interval of the flushes (15 minutes to 2 seconds by default; the        *)
(* configuration only asks for a positive window).                         *)
(***************************************************************************)
WindowAssumption == Window >= 2 * EvalInterval - 1

\* r: a track, age: since the last flush, fired: the next flush is due.
Wait(r, age, fired) ==
    IF fired /\ r.sinceEval = EvalInterval THEN 0
    ELSE (IF r.sinceEval >= age THEN EvalInterval ELSE 2 * EvalInterval) - age
OnTime(c, age, fired) == \A t \in c.dirty : c.track[t].idle + Wait(c.track[t], age, fired) <= Window

InTime ==
    /\ missed = FALSE
    /\ "flush" \in due => since.flush = 0
    /\ loop # "start" /\ (Live \/ applied # <<>>) => since.flush < EvalInterval
    /\ ~Live /\ applied = <<>> => dirty = {}
    /\ OnTime(Core, since.flush, "flush" \in due)

-----------------------------------------------------------------------------
(***************************************************************************)
(* Sequences of events.                                                    *)
(***************************************************************************)
\* What a sequence is made of.
LEMMA SeqFacts ==
    ASSUME NEW S, NEW q \in Seq(S)
    PROVE  /\ DOMAIN q = 1..Len(q) /\ Len(q) \in Nat
           /\ \A i \in 1..Len(q) : q[i] \in S
           /\ \A x : x \in Range(q) <=> \E i \in 1..Len(q) : q[i] = x
           /\ Range(q) \subseteq S
  <1>1. DOMAIN q = 1..Len(q) /\ Len(q) \in Nat /\ \A i \in 1..Len(q) : q[i] \in S
    OBVIOUS
  <1>2. \A x : x \in Range(q) <=> \E i \in 1..Len(q) : q[i] = x
    BY <1>1 DEF Range
  <1> QED
    BY <1>1, <1>2

\* The empty sequence.
LEMMA EmptyFacts ==
    ASSUME NEW S
    PROVE  <<>> \in Seq(S) /\ Range(<<>>) = {} /\ Increasing(<<>>) /\ Len(<<>>) = 0
  <1>1. <<>> \in Seq(S) /\ Len(<<>>) = 0 /\ DOMAIN <<>> = {}
    OBVIOUS
  <1> QED
    BY <1>1 DEF Range, Increasing

\* What Append returns.
LEMMA AppendFacts ==
    ASSUME NEW S, NEW q \in Seq(S), NEW x \in S
    PROVE  /\ Append(q, x) \in Seq(S) /\ Len(Append(q, x)) = Len(q) + 1
           /\ Range(Append(q, x)) = Range(q) \cup {x}
  <1>1. /\ Append(q, x) \in Seq(S) /\ Len(Append(q, x)) = Len(q) + 1 /\ Len(q) \in Nat
        /\ \A i \in 1..Len(q) : Append(q, x)[i] = q[i]
        /\ Append(q, x)[Len(q) + 1] = x
    OBVIOUS
  <1>2. ASSUME NEW y \in Range(Append(q, x)) PROVE y \in Range(q) \/ y = x
    <2>1. PICK i \in 1..Len(Append(q, x)) : Append(q, x)[i] = y
      BY <1>1, <1>2, SeqFacts
    <2>2. i \in 1..Len(q) \/ i = Len(q) + 1
      BY <1>1
    <2> QED
      BY <1>1, <2>1, <2>2, SeqFacts
  <1>4. ASSUME NEW y \in Range(q) PROVE y \in Range(Append(q, x))
    <2>1. PICK i \in 1..Len(q) : q[i] = y
      BY <1>4, SeqFacts
    <2>2. i \in 1..Len(Append(q, x)) /\ Append(q, x)[i] = y
      BY <1>1, <2>1
    <2> QED
      BY <1>1, <2>2, SeqFacts
  <1>5. x \in Range(Append(q, x))
    <2>1. Len(q) + 1 \in 1..Len(Append(q, x))
      BY <1>1
    <2> QED
      BY <1>1, <2>1, SeqFacts
  <1>3. Range(Append(q, x)) = Range(q) \cup {x}
    BY <1>2, <1>4, <1>5
  <1> QED
    BY <1>1, <1>3

\* What Head and Tail return.
LEMMA TailFacts ==
    ASSUME NEW S, NEW q \in Seq(S), q # <<>>
    PROVE  /\ Tail(q) \in Seq(S) /\ Len(Tail(q)) = Len(q) - 1 /\ Len(q) > 0
           /\ Head(q) \in S /\ Head(q) = q[1]
           /\ \A i \in 1..Len(q) - 1 : Tail(q)[i] = q[i + 1]
           /\ Range(q) = {Head(q)} \cup Range(Tail(q))
  <1>1. /\ Tail(q) \in Seq(S) /\ Len(Tail(q)) = Len(q) - 1 /\ Len(q) \in Nat /\ Len(q) > 0
        /\ Head(q) \in S /\ Head(q) = q[1]
        /\ \A i \in 1..Len(q) - 1 : Tail(q)[i] = q[i + 1]
    OBVIOUS
  <1>2. ASSUME NEW y \in Range(q) PROVE y = Head(q) \/ y \in Range(Tail(q))
    <2>1. PICK i \in 1..Len(q) : q[i] = y
      BY <1>2, SeqFacts
    <2>2. CASE i = 1
      BY <1>1, <2>1, <2>2
    <2>3. CASE i # 1
      <3>1. i - 1 \in 1..Len(Tail(q)) /\ Tail(q)[i - 1] = y
        BY <1>1, <2>1, <2>3
      <3> QED
        BY <1>1, <3>1, SeqFacts
    <2> QED
      BY <2>2, <2>3
  <1>3. ASSUME NEW y \in Range(Tail(q)) PROVE y \in Range(q)
    <2>1. PICK i \in 1..Len(Tail(q)) : Tail(q)[i] = y
      BY <1>1, <1>3, SeqFacts
    <2>2. i + 1 \in 1..Len(q) /\ q[i + 1] = y
      BY <1>1, <2>1
    <2> QED
      BY <2>2, SeqFacts
  <1>4. Head(q) \in Range(q)
    <2>1. 1 \in 1..Len(q)
      BY <1>1
    <2> QED
      BY <1>1, <2>1, SeqFacts
  <1>5. Range(q) = {Head(q)} \cup Range(Tail(q))
    BY <1>2, <1>3, <1>4
  <1> QED
    BY <1>1, <1>5

\* A later event at the end keeps the order.
LEMMA AppendIncreases ==
    ASSUME NEW S \in SUBSET Nat, NEW q \in Seq(S), NEW x \in S, Increasing(q),
           \A a \in Range(q) : a < x
    PROVE  Increasing(Append(q, x))
  <1>1. /\ Append(q, x) \in Seq(S) /\ Len(Append(q, x)) = Len(q) + 1 /\ Len(q) \in Nat
        /\ \A i \in 1..Len(q) : Append(q, x)[i] = q[i]
        /\ Append(q, x)[Len(q) + 1] = x
    OBVIOUS
  <1>2. DOMAIN Append(q, x) = 1..Len(q) + 1 /\ DOMAIN q = 1..Len(q)
    BY <1>1, SeqFacts
  <1> SUFFICES ASSUME NEW i \in 1..Len(q) + 1, NEW j \in 1..Len(q) + 1, i < j
               PROVE  Append(q, x)[i] < Append(q, x)[j]
    BY <1>2 DEF Increasing
  <1>3. i \in 1..Len(q) /\ q[i] \in Range(q)
    <2>1. i \in 1..Len(q)
      BY <1>1
    <2> QED
      BY <2>1, SeqFacts
  <1>4. CASE j = Len(q) + 1
    BY <1>1, <1>3, <1>4
  <1>5. CASE j # Len(q) + 1
    <2>1. j \in 1..Len(q)
      BY <1>1, <1>5
    <2> QED
      BY <1>1, <1>2, <1>3, <2>1 DEF Increasing
  <1> QED
    BY <1>4, <1>5

\* What is left after the first event is later than it, and in order.
LEMMA TailIncreases ==
    ASSUME NEW S \in SUBSET Nat, NEW q \in Seq(S), q # <<>>, Increasing(q)
    PROVE  Increasing(Tail(q)) /\ \A a \in Range(Tail(q)) : Head(q) < a
  <1>1. /\ Tail(q) \in Seq(S) /\ Len(Tail(q)) = Len(q) - 1 /\ Len(q) > 0 /\ Head(q) = q[1]
        /\ \A i \in 1..Len(q) - 1 : Tail(q)[i] = q[i + 1]
    BY TailFacts
  <1>2. DOMAIN q = 1..Len(q) /\ Len(q) \in Nat /\ DOMAIN Tail(q) = 1..Len(q) - 1
    BY <1>1, SeqFacts
  <1>3. Increasing(Tail(q))
    <2> SUFFICES ASSUME NEW i \in 1..Len(q) - 1, NEW j \in 1..Len(q) - 1, i < j
                 PROVE  Tail(q)[i] < Tail(q)[j]
      BY <1>2 DEF Increasing
    <2>1. i + 1 \in 1..Len(q) /\ j + 1 \in 1..Len(q) /\ i + 1 < j + 1
      BY <1>2
    <2>2. q[i + 1] < q[j + 1]
      BY <1>2, <2>1 DEF Increasing
    <2> QED
      BY <1>1, <2>2
  <1>4. ASSUME NEW a \in Range(Tail(q)) PROVE Head(q) < a
    <2>1. PICK i \in 1..Len(Tail(q)) : Tail(q)[i] = a
      BY <1>1, <1>4, SeqFacts
    <2>2. 1 \in 1..Len(q) /\ i + 1 \in 1..Len(q) /\ 1 < i + 1 /\ i \in 1..Len(q) - 1
      BY <1>1, <1>2
    <2>3. q[1] < q[i + 1]
      BY <1>2, <2>2 DEF Increasing
    <2> QED
      BY <1>1, <2>1, <2>2, <2>3
  <1> QED
    BY <1>3, <1>4

\* The smaller of two numbers.
LEMMA MinOfTwo ==
    ASSUME NEW a \in Nat, NEW b \in Nat
    PROVE  Min({a, b}) = IF a <= b THEN a ELSE b
  <1>1. \E m \in {a, b} : \A y \in {a, b} : m <= y
    OBVIOUS
  <1> QED
    BY <1>1 DEF Min

-----------------------------------------------------------------------------
(***************************************************************************)
(* The pieces of the loop, on cores c of this type.                        *)
(***************************************************************************)
CoreType == [track : [Track -> TrackType], dirty : SUBSET Track, missed : BOOLEAN]
Exact(c, inh) ==
    \A t \in Track :
        /\ t \in c.dirty => c.track[t].open /\ c.track[t].fresh
        /\ c.track[t].fresh => t \in c.dirty \cup inh

\* The intervals are positive numbers.
LEMMA Intervals ==
    /\ EvalInterval \in Nat /\ EvalInterval >= 1 /\ TickInterval \in Nat /\ TickInterval >= 1
    /\ Window \in Nat /\ Window >= 1 /\ ChanSize \in Nat /\ QueueSize \in Nat
    /\ QueueSize >= 1 /\ ChanSize >= 1
  BY PipelineAssumption

\* A closed track.
LEMMA ClosedFacts ==
    Closed \in TrackType /\ ~Closed.open /\ ~Closed.fresh /\ Closed.idle = 0
  BY Intervals DEF Closed, TrackType

\* A track that is evaluated, and one that takes in an event.
LEMMA TrackFacts ==
    ASSUME NEW r \in TrackType
    PROVE  /\ Scored(r) \in TrackType
           /\ Scored(r).open = r.open
           /\ ~Scored(r).fresh
           /\ [r EXCEPT !.open = TRUE, !.fresh = TRUE, !.idle = 0] \in TrackType
           /\ [r EXCEPT !.open = TRUE, !.fresh = TRUE, !.idle = 0].open
           /\ [r EXCEPT !.open = TRUE, !.fresh = TRUE, !.idle = 0].fresh
           /\ [r EXCEPT !.open = TRUE, !.fresh = TRUE, !.idle = 0].idle = 0
           /\ r.sinceEval \in Nat /\ r.idle \in Nat /\ r.sinceEval <= EvalInterval
           /\ r.idle <= Window + 1
  <1>1. r.sinceEval \in 0..EvalInterval /\ r.idle \in 0..(Window + 1)
    BY DEF TrackType
  <1>2. 0 \in 0..EvalInterval /\ 0 \in 0..(Window + 1)
    BY Intervals
  <1>3. /\ Scored(r) \in TrackType
        /\ Scored(r).open = r.open
        /\ ~Scored(r).fresh
    BY <1>2 DEF TrackType, Scored
  <1>4. /\ [r EXCEPT !.open = TRUE, !.fresh = TRUE, !.idle = 0] \in TrackType
        /\ [r EXCEPT !.open = TRUE, !.fresh = TRUE, !.idle = 0].open
        /\ [r EXCEPT !.open = TRUE, !.fresh = TRUE, !.idle = 0].fresh
        /\ [r EXCEPT !.open = TRUE, !.fresh = TRUE, !.idle = 0].idle = 0
    BY <1>2 DEF TrackType
  <1>5. r.sinceEval \in Nat /\ r.idle \in Nat /\ r.sinceEval <= EvalInterval /\ r.idle <= Window + 1
    BY <1>1, Intervals
  <1> QED
    BY <1>3, <1>4, <1>5

\* The parts of a core.
LEMMA CoreFacts ==
    ASSUME NEW c \in CoreType
    PROVE  /\ c.track \in [Track -> TrackType] /\ c.dirty \subseteq Track /\ c.missed \in BOOLEAN
           /\ \A t \in Track : c.track[t] \in TrackType
  BY DEF CoreType

\* A core with one track replaced.
With(c, D, t, x) == [c EXCEPT !.dirty = D, !.track[t] = x]

\* What it holds.
LEMMA WithFacts ==
    ASSUME NEW c \in CoreType, NEW t \in Track, NEW x \in TrackType, NEW D \in SUBSET Track
    PROVE  /\ With(c, D, t, x) \in CoreType
           /\ With(c, D, t, x).dirty = D /\ With(c, D, t, x).missed = c.missed
           /\ \A r \in Track : r # t => With(c, D, t, x).track[r] = c.track[r]
           /\ With(c, D, t, x).track[t] = x
  BY DEF CoreType, With

\* What Evaluate changes.
LEMMA EvaluateFacts ==
    ASSUME NEW c \in CoreType, NEW t \in Track
    PROVE  /\ Evaluate(c, t) \in CoreType
           /\ Evaluate(c, t).dirty = c.dirty \ {t}
           /\ Evaluate(c, t).missed = c.missed
           /\ \A r \in Track : r # t => Evaluate(c, t).track[r] = c.track[r]
           /\ ~Evaluate(c, t).track[t].fresh
           /\ Evaluate(c, t).track[t].open = c.track[t].open
  <1> DEFINE x == Scored(c.track[t])
  <1>1. x \in TrackType /\ x.open = c.track[t].open /\ ~x.fresh
    BY CoreFacts, TrackFacts
  <1>2. Evaluate(c, t) = With(c, c.dirty \ {t}, t, x)
    BY DEF Evaluate, With
  <1>3. c.dirty \ {t} \in SUBSET Track
    BY CoreFacts
  <1> HIDE DEF x
  <1> QED
    BY <1>1, <1>2, <1>3, WithFacts

\* What Forget changes.
LEMMA ForgetFacts ==
    ASSUME NEW c \in CoreType, NEW t \in Track
    PROVE  /\ Forget(c, t) \in CoreType
           /\ Forget(c, t).dirty = c.dirty \ {t}
           /\ Forget(c, t).missed = c.missed
           /\ \A r \in Track : r # t => Forget(c, t).track[r] = c.track[r]
           /\ Forget(c, t).track[t] = Closed
  <1>1. Forget(c, t) = With(c, c.dirty \ {t}, t, Closed)
    BY DEF Forget, With
  <1>2. c.dirty \ {t} \in SUBSET Track
    BY CoreFacts
  <1> QED
    BY <1>1, <1>2, ClosedFacts, WithFacts

\* What Apply changes.
LEMMA ApplyFacts ==
    ASSUME NEW c \in CoreType, NEW e \in EventType, e.track # NoTrack
    PROVE  /\ Apply(c, e) \in CoreType
           /\ Apply(c, e).dirty = c.dirty \ {e.absorbs}
           /\ Apply(c, e).missed = c.missed
           /\ \A r \in Track : r # e.track =>
                  Apply(c, e).track[r] = IF r = e.absorbs THEN Closed ELSE c.track[r]
           /\ Apply(c, e).track[e.track].open /\ Apply(c, e).track[e.track].fresh
           /\ Apply(c, e).track[e.track].idle = 0
  <1>1. e.track \in Track /\ e.absorbs \in Track \cup {NoTrack} /\ NoTrack \notin Track
    BY PipelineAssumption DEF EventType
  <1> DEFINE d == IF e.absorbs = NoTrack THEN c ELSE Forget(c, e.absorbs)
  <1>2. /\ d \in CoreType /\ d.dirty = c.dirty \ {e.absorbs} /\ d.missed = c.missed
        /\ \A r \in Track : d.track[r] = IF r = e.absorbs THEN Closed ELSE c.track[r]
    <2>1. CASE e.absorbs = NoTrack
      BY <1>1, <2>1 DEF CoreType
    <2>2. CASE e.absorbs # NoTrack
      BY <1>1, <2>2, ForgetFacts
    <2> QED
      BY <2>1, <2>2
  <1> DEFINE x == [d.track[e.track] EXCEPT !.open = TRUE, !.fresh = TRUE, !.idle = 0]
  <1>3. Apply(c, e) = [d EXCEPT !.track[e.track] = x]
    BY DEF Apply
  <1> HIDE DEF d
  <1>4. x \in TrackType /\ x.open /\ x.fresh /\ x.idle = 0
    BY <1>1, <1>2, CoreFacts, TrackFacts
  <1> HIDE DEF x
  <1>5. /\ Apply(c, e) \in CoreType
        /\ Apply(c, e).dirty = d.dirty /\ Apply(c, e).missed = d.missed
        /\ \A r \in Track : r # e.track => Apply(c, e).track[r] = d.track[r]
        /\ Apply(c, e).track[e.track] = x
    BY <1>1, <1>2, <1>3, <1>4 DEF CoreType
  <1> QED
    BY <1>1, <1>2, <1>4, <1>5

\* What FlushDirty changes.
LEMMA FlushFacts ==
    ASSUME NEW c \in CoreType, NEW force \in BOOLEAN
    PROVE  /\ FlushDirty(c, force) \in CoreType
           /\ FlushDirty(c, force).missed = c.missed
           /\ \A t \in Track :
                  /\ t \in FlushDirty(c, force).dirty <=> t \in c.dirty /\ ~force /\ ~Due(c, t)
                  /\ FlushDirty(c, force).track[t] =
                         IF t \in c.dirty /\ t \notin FlushDirty(c, force).dirty
                         THEN Scored(c.track[t])
                         ELSE c.track[t]
  <1> DEFINE these == {t \in c.dirty : force \/ Due(c, t)}
             tr == [t \in Track |-> IF t \in these
                                   THEN Scored(c.track[t])
                                   ELSE c.track[t]]
  <1>1. \A t \in Track : tr[t] \in TrackType
    BY CoreFacts, TrackFacts
  <1>2. these \subseteq c.dirty /\ \A t \in c.dirty : t \in these <=> force \/ Due(c, t)
    OBVIOUS
  <1>3. FlushDirty(c, force) = [c EXCEPT !.dirty = @ \ these, !.track = tr]
    BY DEF FlushDirty, CoreType
  <1>4. \A t \in Track : tr[t] = IF t \in these
                                   THEN Scored(c.track[t])
                                   ELSE c.track[t]
    OBVIOUS
  <1>5. tr \in [Track -> TrackType]
    BY <1>1
  <1> HIDE DEF these, tr
  <1>6. /\ FlushDirty(c, force) \in CoreType /\ FlushDirty(c, force).missed = c.missed
        /\ FlushDirty(c, force).dirty = c.dirty \ these /\ FlushDirty(c, force).track = tr
    BY <1>3, <1>5 DEF CoreType
  <1> QED
    BY <1>2, <1>4, <1>6

\* What Maintain changes.
LEMMA MaintainFacts ==
    ASSUME NEW c \in CoreType
    PROVE  /\ Maintain(c) \in CoreType
           /\ \A t \in Track :
                  /\ t \in Maintain(c).dirty <=>
                         t \in c.dirty /\ ~(c.track[t].open /\ c.track[t].idle > Window)
                  /\ Maintain(c).track[t] = IF c.track[t].open /\ c.track[t].idle > Window
                                            THEN Closed ELSE c.track[t]
           /\ Maintain(c).missed <=>
                  \/ c.missed
                  \/ \E t \in Track \ inherited :
                         c.track[t].open /\ c.track[t].idle > Window /\ c.track[t].fresh
  BY ClosedFacts DEF Maintain, CoreType

\* What time changes.
LEMMA OlderFacts ==
    ASSUME NEW tr \in [Track -> TrackType], NEW n \in Nat
    PROVE  /\ Older(tr, n) \in [Track -> TrackType]
           /\ \A t \in Track :
                  /\ Older(tr, n)[t].open = tr[t].open
                  /\ Older(tr, n)[t].fresh = tr[t].fresh
                  /\ ~tr[t].open => Older(tr, n)[t] = tr[t]
                  /\ tr[t].open =>
                        /\ Older(tr, n)[t].sinceEval = IF tr[t].sinceEval + n <= EvalInterval
                                                       THEN tr[t].sinceEval + n ELSE EvalInterval
                        /\ Older(tr, n)[t].idle = IF tr[t].idle + n <= Window + 1
                                                  THEN tr[t].idle + n ELSE Window + 1
  <1>1. ASSUME NEW t \in Track, tr[t].open
        PROVE  /\ Min({tr[t].sinceEval + n, EvalInterval}) =
                      IF tr[t].sinceEval + n <= EvalInterval THEN tr[t].sinceEval + n ELSE EvalInterval
               /\ Min({tr[t].idle + n, Window + 1}) =
                      IF tr[t].idle + n <= Window + 1 THEN tr[t].idle + n ELSE Window + 1
    <2>1. tr[t].sinceEval \in Nat /\ tr[t].idle \in Nat
      BY Intervals DEF TrackType
    <2>2. tr[t].sinceEval + n \in Nat /\ tr[t].idle + n \in Nat /\ Window + 1 \in Nat /\ EvalInterval \in Nat
      BY <2>1, Intervals
    <2> QED
      BY <2>2, MinOfTwo
  <1>2. ASSUME NEW t \in Track, ~tr[t].open PROVE Older(tr, n)[t] = tr[t]
    BY <1>2 DEF Older
  <1>3. ASSUME NEW t \in Track, tr[t].open
        PROVE  Older(tr, n)[t] = [tr[t] EXCEPT
                   !.sinceEval = IF tr[t].sinceEval + n <= EvalInterval THEN tr[t].sinceEval + n ELSE EvalInterval,
                   !.idle = IF tr[t].idle + n <= Window + 1 THEN tr[t].idle + n ELSE Window + 1]
    BY <1>1, <1>3 DEF Older
  <1>4. ASSUME NEW t \in Track, tr[t].open
        PROVE  /\ Older(tr, n)[t] \in TrackType
               /\ Older(tr, n)[t].open = tr[t].open
               /\ Older(tr, n)[t].fresh = tr[t].fresh
               /\ Older(tr, n)[t].sinceEval = IF tr[t].sinceEval + n <= EvalInterval
                                              THEN tr[t].sinceEval + n ELSE EvalInterval
               /\ Older(tr, n)[t].idle = IF tr[t].idle + n <= Window + 1
                                         THEN tr[t].idle + n ELSE Window + 1
    <2> DEFINE a == IF tr[t].sinceEval + n <= EvalInterval THEN tr[t].sinceEval + n ELSE EvalInterval
               b == IF tr[t].idle + n <= Window + 1 THEN tr[t].idle + n ELSE Window + 1
    <2>1. tr[t] \in TrackType
      OBVIOUS
    <2>2. a \in 0..EvalInterval /\ b \in 0..(Window + 1)
      BY <2>1, Intervals DEF TrackType
    <2>3. Older(tr, n)[t] = [tr[t] EXCEPT !.sinceEval = a, !.idle = b]
      BY <1>3, <1>4
    <2> HIDE DEF a, b
    <2>4. /\ Older(tr, n)[t] \in TrackType
          /\ Older(tr, n)[t].open = tr[t].open /\ Older(tr, n)[t].fresh = tr[t].fresh
          /\ Older(tr, n)[t].sinceEval = a /\ Older(tr, n)[t].idle = b
      BY <2>1, <2>2, <2>3 DEF TrackType
    <2> QED
      BY <2>4 DEF a, b
  <1>5. Older(tr, n) \in [Track -> TrackType]
    <2>1. \A t \in Track : Older(tr, n)[t] \in TrackType
      BY <1>2, <1>4
    <2> QED
      BY <2>1 DEF Older
  <1>6. ASSUME NEW t \in Track
        PROVE  Older(tr, n)[t].open = tr[t].open /\ Older(tr, n)[t].fresh = tr[t].fresh
    BY <1>2, <1>4
  <1> QED
    BY <1>2, <1>4, <1>5, <1>6, Zenon

-----------------------------------------------------------------------------
(***************************************************************************)
(* The dirty set stays exact.                                              *)
(***************************************************************************)
\* What Handle does to the dirty set: a track it adds has just been seen, and
\* was evaluated a moment ago.
LEMMA HandleFacts ==
    ASSUME NEW c \in CoreType, NEW e \in EventType
    PROVE  /\ Handle(c, e) \in CoreType /\ Handle(c, e).missed = c.missed
           /\ \A inh : Exact(c, inh) => Exact(Handle(c, e), inh \ {e.track})
           /\ \A t \in Handle(c, e).dirty :
                  \/ t \in c.dirty /\ Handle(c, e).track[t] = c.track[t]
                  \/ /\ Handle(c, e).track[t].idle = 0
                     /\ Handle(c, e).track[t].sinceEval < EvalInterval
  <1>1. CASE e.track = NoTrack
    <2>1. Handle(c, e) = c
      BY <1>1 DEF Handle
    <2>2. NoTrack \notin Track
      BY PipelineAssumption
    <2>3. ASSUME NEW inh, Exact(c, inh) PROVE Exact(c, inh \ {e.track})
      BY <1>1, <2>2, <2>3 DEF Exact
    <2> QED
      BY <2>1, <2>3
  <1>2. CASE e.track # NoTrack
    <2> DEFINE s == e.track
               d == Apply(c, e)
               h == Handle(c, e)
    <2>1. s \in Track
      BY <1>2 DEF EventType
    <2>2. /\ d \in CoreType /\ d.dirty = c.dirty \ {e.absorbs} /\ d.missed = c.missed
          /\ \A r \in Track : r # s => d.track[r] = IF r = e.absorbs THEN Closed ELSE c.track[r]
          /\ d.track[s].open /\ d.track[s].fresh /\ d.track[s].idle = 0
      BY <1>2, ApplyFacts
    <2>3. h = IF e.strong \/ Due(d, s) THEN Evaluate(d, s) ELSE [d EXCEPT !.dirty = @ \cup {s}]
      BY <1>2 DEF Handle
    <2> HIDE DEF d, h
    <2>4. ASSUME NEW inh, Exact(c, inh)
          PROVE  \A r \in Track : r # s =>
                     /\ r \in d.dirty => d.track[r].open /\ d.track[r].fresh
                     /\ d.track[r].fresh => r \in d.dirty \cup (inh \ {s})
      <3> SUFFICES ASSUME NEW r \in Track, r # s
                   PROVE  /\ r \in d.dirty => d.track[r].open /\ d.track[r].fresh
                          /\ d.track[r].fresh => r \in d.dirty \cup (inh \ {s})
        OBVIOUS
      <3>1. CASE r = e.absorbs
        BY <2>2, <3>1, ClosedFacts
      <3>2. CASE r # e.absorbs
        BY <2>2, <2>4, <3>2 DEF Exact
      <3> QED
        BY <3>1, <3>2
    <2>5. CASE e.strong \/ Due(d, s)
      <3>1. h = Evaluate(d, s)
        BY <2>3, <2>5
      <3>2. /\ h \in CoreType /\ h.dirty = d.dirty \ {s} /\ h.missed = d.missed
            /\ \A r \in Track : r # s => h.track[r] = d.track[r]
            /\ ~h.track[s].fresh
        BY <2>1, <2>2, <3>1, EvaluateFacts
      <3>3. ASSUME NEW inh, Exact(c, inh) PROVE Exact(h, inh \ {s})
        BY <2>4, <3>2, <3>3 DEF Exact
      <3>4. ASSUME NEW t \in h.dirty PROVE t \in c.dirty /\ h.track[t] = c.track[t]
        BY <2>2, <3>2, <3>4, CoreFacts
      <3> QED
        BY <2>2, <3>2, <3>3, <3>4 DEF h
    <2>6. CASE ~(e.strong \/ Due(d, s))
      <3>1. h = [d EXCEPT !.dirty = d.dirty \cup {s}]
        BY <2>3, <2>6
      <3>2. h \in CoreType /\ h.dirty = d.dirty \cup {s} /\ h.missed = d.missed /\ h.track = d.track
        BY <2>1, <2>2, <3>1 DEF CoreType
      <3>3. ASSUME NEW inh, Exact(c, inh) PROVE Exact(h, inh \ {s})
        BY <2>2, <2>4, <3>2, <3>3 DEF Exact
      <3>4. d.track[s].sinceEval < EvalInterval
        <4>1. d.track[s].sinceEval \in Nat
          BY <2>1, <2>2, CoreFacts, TrackFacts
        <4> QED
          BY <2>6, <4>1, Intervals DEF Due
      <3>5. ASSUME NEW t \in h.dirty, t # s PROVE t \in c.dirty /\ h.track[t] = c.track[t]
        BY <2>2, <3>2, <3>5, CoreFacts
      <3> QED
        BY <2>2, <3>2, <3>3, <3>4, <3>5 DEF h
    <2> QED
      BY <2>5, <2>6
  <1> QED
    BY <1>1, <1>2

\* A flush evaluates what it takes out of the set.
LEMMA FlushExact ==
    ASSUME NEW c \in CoreType, NEW force \in BOOLEAN, NEW inh, Exact(c, inh)
    PROVE  Exact(FlushDirty(c, force), inh)
  <1> DEFINE f == FlushDirty(c, force)
  <1> SUFFICES ASSUME NEW t \in Track
               PROVE  /\ t \in f.dirty => f.track[t].open /\ f.track[t].fresh
                      /\ f.track[t].fresh => t \in f.dirty \cup inh
    BY DEF Exact
  <1>0. \A r \in Track :
            /\ r \in f.dirty <=> r \in c.dirty /\ ~force /\ ~Due(c, r)
            /\ f.track[r] = IF r \in c.dirty /\ r \notin f.dirty
                            THEN Scored(c.track[r]) ELSE c.track[r]
    BY FlushFacts
  <1> HIDE DEF f
  <1>1. /\ t \in f.dirty => t \in c.dirty
        /\ f.track[t] = IF t \in c.dirty /\ t \notin f.dirty
                        THEN Scored(c.track[t]) ELSE c.track[t]
    BY <1>0, Zenon
  <1> HIDE DEF f
  <1>2. /\ t \in c.dirty => c.track[t].open /\ c.track[t].fresh
        /\ c.track[t].fresh => t \in c.dirty \cup inh
    BY DEF Exact
  <1>3. CASE t \in c.dirty /\ t \notin f.dirty
    <2>1. f.track[t] = Scored(c.track[t])
      BY <1>1, <1>3
    <2>2. ~f.track[t].fresh
      BY <2>1, CoreFacts, TrackFacts
    <2> QED
      BY <1>3, <2>2
  <1>4. CASE ~(t \in c.dirty /\ t \notin f.dirty)
    BY <1>1, <1>2, <1>4
  <1> QED
    BY <1>3, <1>4

\* A track that ends leaves the set.
LEMMA MaintainExact ==
    ASSUME NEW c \in CoreType, NEW inh, Exact(c, inh)
    PROVE  Exact(Maintain(c), inh)
  BY MaintainFacts, ClosedFacts DEF Exact

\* Time leaves the set alone.
LEMMA OlderExact ==
    ASSUME NEW c \in CoreType, NEW inh, Exact(c, inh), NEW n \in Nat, NEW k,
           k = [c EXCEPT !.track = Older(@, n)]
    PROVE  /\ k \in CoreType /\ Exact(k, inh)
           /\ k.track = Older(c.track, n) /\ k.dirty = c.dirty /\ k.missed = c.missed
  <1>1. c.track \in [Track -> TrackType]
    BY CoreFacts
  <1> DEFINE o == Older(c.track, n)
  <1>2. o \in [Track -> TrackType]
    BY <1>1, OlderFacts
  <1>3. \A t \in Track : o[t].open = c.track[t].open /\ o[t].fresh = c.track[t].fresh
    BY <1>1, OlderFacts
  <1>4. k = [c EXCEPT !.track = o]
    OBVIOUS
  <1> HIDE DEF o
  <1>5. k \in CoreType /\ k.dirty = c.dirty /\ k.track = o /\ k.missed = c.missed
    BY <1>2, <1>4 DEF CoreType
  <1>6. Exact(k, inh)
    BY <1>3, <1>5 DEF Exact
  <1> QED
    BY <1>5, <1>6 DEF o

-----------------------------------------------------------------------------
(***************************************************************************)
(* Types.                                                                  *)
(***************************************************************************)
\* The events are numbers, the log does not change.
LEMMA EventFacts ==
    ASSUME Typed
    PROVE  /\ Len(log) \in Nat /\ Event \subseteq Nat \ {0} /\ NoEvent \notin Event
           /\ \A k \in Event : log[k] \in EventType
           /\ \A k \in Nat : k \in Event <=> 1 <= k /\ k <= Len(log)
  <1>1. log \in Seq(EventType)
    BY DEF Typed, TypedLoop
  <1> QED
    BY <1>1, SeqFacts DEF Event, NoEvent

\* The log does not change.
LEMMA LogFixed ==
    ASSUME [Next]_vars
    PROVE  log' = log /\ mode' = mode /\ Event' = Event /\ Live' = Live
  <1>1. log' = log /\ mode' = mode
    BY DEF Next, vars, Start, Reader, Read, ReaderEnds, Forwarder, Forward, EvictOldest, PutAgain,
           ForwarderEnds, Loop, HandleEvent, Flush, Tick, Save, Break, Await, Drained, Time, Signal,
           Restart, Feed, FeedEnds, stop
  <1> QED
    BY <1>1 DEF Event, Live

\* The state of the tracks is a core.
LEMMA CoreTyped ==
    ASSUME TypedCore
    PROVE  Core \in CoreType /\ Core.track = track /\ Core.dirty = dirty /\ Core.missed = missed
  BY DEF TypedCore, Core, CoreType

\* And takes the value of one.
LEMMA BecomeTyped ==
    ASSUME NEW c \in CoreType, Become(c), inherited' \subseteq Track
    PROVE  TypedCore'
  BY CoreFacts DEF Become, TypedCore, TrackType

\* The state of a new process is a state.
LEMMA NothingTyped ==
    ASSUME Len(log) \in Nat
    PROVE  Nothing \in StateType /\ Nothing.track \in [Track -> TrackType]
  <1>1. 0 \in 0..Len(log) /\ <<>> \in Seq(Event)
    BY EmptyFacts
  <1> QED
    BY <1>1, ClosedFacts DEF Nothing, StateType

\* A saved track.
LEMMA SavedTyped ==
    ASSUME NEW tr \in [Track -> TrackType]
    PROVE  /\ Saved(tr) \in [Track -> TrackType]
           /\ \A t \in Track : Saved(tr)[t].fresh => tr[t].fresh
  <1>1. ASSUME NEW t \in Track
        PROVE  Saved(tr)[t] \in TrackType /\ (Saved(tr)[t].fresh => tr[t].fresh)
    <2>1. tr[t] \in TrackType
      OBVIOUS
    <2>2. CASE tr[t].open
      <3>1. Saved(tr)[t] = [tr[t] EXCEPT !.sinceEval = 0, !.idle = 0]
        BY <2>2 DEF Saved
      <3>2. 0 \in 0..EvalInterval /\ 0 \in 0..(Window + 1)
        BY Intervals
      <3> QED
        BY <2>1, <3>1, <3>2 DEF TrackType
    <2>3. CASE ~tr[t].open
      <3>1. Saved(tr)[t] = Closed
        BY <2>3 DEF Saved
      <3> QED
        BY <3>1, ClosedFacts
    <2> QED
      BY <2>2, <2>3
  <1> QED
    BY <1>1 DEF Saved

\* The initial state has its type.
LEMMA InitTyped == Init => Typed
  <1> SUFFICES ASSUME Init PROVE Typed
    OBVIOUS
  <1>1. log \in Seq(EventType) /\ Len(log) \in Nat
    <2>1. log \in Logs \cup Replays
      BY DEF Init
    <2>2. log \in Seq(EventType)
      BY <2>1, PipelineAssumption
    <2> QED
      BY <2>2, SeqFacts
  <1>2. TypedFlow
    <2>1. rd \in [up : BOOLEAN, pos : 0..Len(log)]
      BY <1>1 DEF Init
    <2>2. in = <<>> /\ queue = <<>> /\ applied = <<>>
      BY DEF Init
    <2>3. fwd \in ForwarderType /\ Carrying(fwd)
      BY EventFacts DEF Init, Idle, ForwarderType, Carrying
    <2>4. gone \in [dropped : SUBSET Event, lost : SUBSET Event]
      BY DEF Init
    <2> QED
      BY <2>1, <2>2, <2>3, <2>4, EmptyFacts, Intervals DEF TypedFlow
  <1>3. TypedCore /\ TypedSaved
    BY <1>1, NothingTyped DEF Init, TypedCore, TypedSaved
  <1>4. TypedLoop
    <2>1. since.flush = EvalInterval
      BY DEF Init
    <2> QED
      BY <1>1, <2>1, Intervals DEF Init, TypedLoop
  <1> QED
    BY <1>2, <1>3, <1>4 DEF Typed

\* A queue that took in an event.
LEMMA TypedAppend ==
    ASSUME NEW q \in Seq(Event), NEW x \in Event, NEW M \in Nat, Len(q) < M
    PROVE  Append(q, x) \in Seq(Event) /\ Len(Append(q, x)) <= M
  BY AppendFacts, SeqFacts

\* A queue that lost its first event.
LEMMA TypedTail ==
    ASSUME NEW q \in Seq(Event), q # <<>>, NEW M \in Nat, Len(q) <= M
    PROVE  Tail(q) \in Seq(Event) /\ Len(Tail(q)) <= M /\ Head(q) \in Event
  BY TailFacts, SeqFacts

\* The next event of the log.
LEMMA ReadOn ==
    ASSUME Typed, rd.pos < Len(log)
    PROVE  /\ [rd EXCEPT !.pos = @ + 1] \in [up : BOOLEAN, pos : 0..Len(log)]
           /\ rd.pos + 1 \in Event
  <1>1. rd \in [up : BOOLEAN, pos : 0..Len(log)] /\ Len(log) \in Nat
    BY EventFacts DEF Typed, TypedFlow
  <1>2. rd.pos \in 0..Len(log)
    BY <1>1
  <1>3. rd.pos + 1 \in 0..Len(log) /\ rd.pos + 1 \in Event
    BY <1>1, <1>2, EventFacts
  <1> QED
    BY <1>1, <1>3

\* The channels, the history of the events and the reader keep their types.
LEMMA FlowTypedStep ==
    ASSUME Typed, [Next]_vars
    PROVE  TypedFlow'
  <1>1. log' = log /\ Event' = Event
    BY LogFixed
  <1>2. /\ rd \in [up : BOOLEAN, pos : 0..Len(log)]
        /\ in \in Seq(Event) /\ Len(in) <= ChanSize
        /\ queue \in Seq(Event) /\ Len(queue) <= QueueSize
        /\ fwd \in ForwarderType /\ Carrying(fwd)
        /\ applied \in Seq(Event)
        /\ gone \in [dropped : SUBSET Event, lost : SUBSET Event]
        /\ snap \in StateType /\ disk \in StateType
        /\ Len(log) \in Nat /\ Event = 1..Len(log)
    BY EventFacts DEF Typed, TypedFlow, TypedSaved, Event
  <1>3. disk.pos \in 0..Len(log) /\ disk.applied \in Seq(Event)
    BY <1>2 DEF StateType
  <1> SUFFICES /\ rd' \in [up : BOOLEAN, pos : 0..Len(log)]
               /\ in' \in Seq(Event) /\ Len(in') <= ChanSize
               /\ queue' \in Seq(Event) /\ Len(queue') <= QueueSize
               /\ fwd' \in ForwarderType /\ Carrying(fwd')
               /\ applied' \in Seq(Event)
               /\ gone' \in [dropped : SUBSET Event, lost : SUBSET Event]
    BY <1>1 DEF TypedFlow, ForwarderType, Carrying
  <1>4. CASE Start
    <2>1. UNCHANGED <<in, queue, gone>> /\ applied' = disk.applied
      BY <1>4 DEF Start
    <2>2. rd' \in [up : BOOLEAN, pos : 0..Len(log)]
      BY <1>3, <1>4 DEF Start
    <2>3. fwd' \in ForwarderType /\ Carrying(fwd')
      BY <1>4 DEF Start, ForwarderType, Carrying
    <2> QED
      BY <1>2, <1>3, <2>1, <2>2, <2>3
  <1>5. CASE Read
    <2>1. UNCHANGED <<queue, fwd, applied, gone>> /\ in' = Append(in, rd.pos + 1) /\ Len(in) < ChanSize
      BY <1>5 DEF Read, core
    <2>2. rd' \in [up : BOOLEAN, pos : 0..Len(log)] /\ rd.pos + 1 \in Event
      BY <1>5, ReadOn DEF Read
    <2>3. in' \in Seq(Event) /\ Len(in') <= ChanSize
      BY <1>2, <2>1, <2>2, TypedAppend, Intervals
    <2> QED
      BY <1>2, <2>1, <2>2, <2>3
  <1>6. CASE ReaderEnds
    <2>1. UNCHANGED <<in, queue, fwd, applied, gone>>
      BY <1>6 DEF ReaderEnds, core
    <2>2. rd' \in [up : BOOLEAN, pos : 0..Len(log)]
      BY <1>2, <1>6 DEF ReaderEnds
    <2> QED
      BY <1>2, <2>1, <2>2
  <1>7. CASE Forward
    <2>1. UNCHANGED <<rd, applied, gone>> /\ in' = Tail(in) /\ in # <<>>
      BY <1>7 DEF Forward, core
    <2>2. in' \in Seq(Event) /\ Len(in') <= ChanSize /\ Head(in) \in Event
      BY <1>2, <2>1, TypedTail, Intervals
    <2>3. CASE Len(queue) < QueueSize
      <3>1. queue' = Append(queue, Head(in)) /\ fwd' = fwd
        BY <1>7, <2>3 DEF Forward
      <3> QED
        BY <1>2, <2>1, <2>2, <2>3, <3>1, TypedAppend, Intervals
    <2>4. CASE ~(Len(queue) < QueueSize)
      <3>1. queue' = queue /\ fwd' = [pc |-> "evict", ev |-> Head(in)]
        BY <1>7, <2>4 DEF Forward
      <3>2. fwd' \in ForwarderType /\ Carrying(fwd')
        BY <2>2, <3>1, EventFacts DEF ForwarderType, Carrying
      <3> QED
        BY <1>2, <2>1, <2>2, <3>1, <3>2
    <2> QED
      BY <2>3, <2>4
  <1>8. CASE EvictOldest
    <2>1. UNCHANGED <<rd, in, applied>>
      BY <1>8 DEF EvictOldest, core
    <2>2. fwd' \in ForwarderType /\ Carrying(fwd')
      BY <1>2, <1>8 DEF EvictOldest, ForwarderType, Carrying
    <2>3. CASE queue = <<>>
      BY <1>2, <1>8, <2>1, <2>2, <2>3 DEF EvictOldest
    <2>4. CASE queue # <<>>
      <3>1. queue' = Tail(queue) /\ gone' = [gone EXCEPT !.dropped = @ \cup {Head(queue)}]
        BY <1>8, <2>4 DEF EvictOldest, Drop
      <3>2. Tail(queue) \in Seq(Event) /\ Len(Tail(queue)) <= QueueSize /\ Head(queue) \in Event
        BY <1>2, <2>4, TypedTail, Intervals
      <3> QED
        BY <1>2, <2>1, <2>2, <3>1, <3>2
    <2> QED
      BY <2>3, <2>4
  <1>9. CASE PutAgain
    <2>1. UNCHANGED <<rd, in, applied>> /\ fwd' = [pc |-> "take", ev |-> NoEvent]
      BY <1>9 DEF PutAgain, core
    <2>2. fwd' \in ForwarderType /\ Carrying(fwd')
      BY <2>1 DEF ForwarderType, Carrying
    <2>3. fwd.ev \in Event
      BY <1>2, <1>9 DEF PutAgain, ForwarderType, Carrying
    <2>4. CASE Len(queue) < QueueSize
      <3>1. queue' = Append(queue, fwd.ev) /\ gone' = gone
        BY <1>9, <2>4 DEF PutAgain
      <3> QED
        BY <1>2, <2>1, <2>2, <2>3, <2>4, <3>1, TypedAppend, Intervals
    <2>5. CASE ~(Len(queue) < QueueSize)
      <3>1. queue' = queue /\ gone' = [gone EXCEPT !.dropped = @ \cup {fwd.ev}]
        BY <1>9, <2>5 DEF PutAgain, Drop
      <3> QED
        BY <1>2, <2>1, <2>2, <2>3, <3>1
    <2> QED
      BY <2>4, <2>5
  <1>10. CASE ForwarderEnds
    <2>1. UNCHANGED <<rd, in, queue, applied, gone>>
      BY <1>10 DEF ForwarderEnds, core
    <2>2. fwd' \in ForwarderType /\ Carrying(fwd')
      BY <1>10 DEF ForwarderEnds, Idle, ForwarderType, Carrying
    <2> QED
      BY <1>2, <2>1, <2>2
  <1>11. CASE HandleEvent
    <2>1. /\ UNCHANGED <<rd, in, fwd, gone>> /\ queue # <<>>
          /\ queue' = Tail(queue) /\ applied' = Append(applied, Head(queue))
      BY <1>11 DEF HandleEvent
    <2>2. queue' \in Seq(Event) /\ Len(queue') <= QueueSize /\ Head(queue) \in Event
      BY <1>2, <2>1, TypedTail, Intervals
    <2>3. applied' \in Seq(Event)
      BY <1>2, <2>1, <2>2, AppendFacts
    <2> QED
      BY <1>2, <2>1, <2>2, <2>3
  <1>12. CASE Flush \/ Tick \/ Save \/ Break \/ Await \/ Drained \/ Time \/ Signal \/ FeedEnds
              \/ UNCHANGED vars
    <2>1. UNCHANGED <<rd, in, queue, fwd, applied, gone>>
      BY <1>12 DEF Flush, Tick, Save, Break, Await, Drained, Time, Signal, FeedEnds, vars, flow, core
    <2> QED
      BY <1>2, <2>1
  <1>13. CASE Restart
    <2>1. /\ rd' = [up |-> FALSE, pos |-> 0] /\ in' = <<>> /\ queue' = <<>> /\ fwd' = Idle
          /\ applied' = <<>>
          /\ gone' = [dropped |-> {e \in gone.dropped : e <= disk.pos},
                      lost |-> 1..disk.pos \ (gone.dropped \cup Range(disk.applied))]
      BY <1>13 DEF Restart
    <2>2. rd' \in [up : BOOLEAN, pos : 0..Len(log)]
      BY <1>2, <2>1
    <2>3. fwd' \in ForwarderType /\ Carrying(fwd')
      BY <2>1 DEF Idle, ForwarderType, Carrying
    <2>4. {e \in gone.dropped : e <= disk.pos} \in SUBSET Event
      BY <1>2
    <2>5. 1..disk.pos \ (gone.dropped \cup Range(disk.applied)) \in SUBSET Event
      BY <1>2, <1>3
    <2>6. gone' \in [dropped : SUBSET Event, lost : SUBSET Event]
      BY <2>1, <2>4, <2>5
    <2> QED
      BY <2>1, <2>2, <2>3, <2>6, EmptyFacts, Intervals
  <1>14. CASE Feed
    <2>1. /\ UNCHANGED <<in, queue, fwd, gone>> /\ rd' = [rd EXCEPT !.pos = @ + 1]
          /\ applied' = Append(applied, rd.pos + 1) /\ rd.pos < Len(log)
      BY <1>14 DEF Feed
    <2>2. rd' \in [up : BOOLEAN, pos : 0..Len(log)] /\ rd.pos + 1 \in Event
      BY <2>1, ReadOn
    <2>3. applied' \in Seq(Event)
      BY <1>2, <2>1, <2>2, AppendFacts
    <2> QED
      BY <1>2, <2>1, <2>2, <2>3
  <1> QED
    BY <1>4, <1>5, <1>6, <1>7, <1>8, <1>9, <1>10, <1>11, <1>12, <1>13, <1>14
       DEF Next, Reader, Forwarder, Loop

\* DirtyExact speaks of the core.
LEMMA ExactCore ==
    ASSUME TypedCore
    PROVE  DirtyExact <=> Exact(Core, inherited)
  BY CoreTyped DEF DirtyExact, Exact

\* A core that is exact makes the next state so.
LEMMA BecomeExact ==
    ASSUME NEW c \in CoreType, Become(c), inherited' \subseteq Track, Exact(c, inherited')
    PROVE  TypedCore' /\ DirtyExact'
  <1>1. TypedCore'
    BY BecomeTyped
  <1>2. track' = c.track /\ dirty' = c.dirty
    BY DEF Become
  <1> QED
    BY <1>1, <1>2 DEF DirtyExact, Exact

\* The tracks keep their types, and the dirty set stays exact.
LEMMA CoreStep ==
    ASSUME Typed, Resting, DirtyExact, [Next]_vars
    PROVE  TypedCore' /\ DirtyExact'
  <1>1. /\ TypedCore /\ Core \in CoreType /\ Exact(Core, inherited)
        /\ Core.track = track /\ Core.dirty = dirty /\ inherited \subseteq Track
    BY CoreTyped, ExactCore DEF Typed, TypedCore
  <1>2. disk.track \in [Track -> TrackType]
    BY DEF Typed, TypedSaved, StateType
  <1>3. CASE Start
    <2>1. PICK down \in {0, Window + 1} : track' = Older(disk.track, down)
      BY <1>3 DEF Start
    <2>2. /\ inherited' = {t \in Track : disk.track[t].fresh} /\ dirty' = dirty /\ missed' = missed
          /\ dirty = {}
      BY <1>3 DEF Start, Resting
    <2>3. down \in Nat
      BY Intervals
    <2>4. /\ track' \in [Track -> TrackType]
          /\ \A t \in Track : track'[t].fresh = disk.track[t].fresh
      BY <1>2, <2>1, <2>3, OlderFacts
    <2> QED
      BY <1>1, <2>2, <2>4 DEF TypedCore, DirtyExact
  <1>4. CASE HandleEvent
    <2> DEFINE e == log[Head(queue)]
    <2>1. Become(Handle(Core, e)) /\ inherited' = inherited \ {e.track} /\ queue # <<>>
      BY <1>4 DEF HandleEvent
    <2>2. Head(queue) \in Event
      BY <2>1, TailFacts DEF Typed, TypedFlow
    <2>3. e \in EventType
      BY <2>2, EventFacts
    <2> HIDE DEF e
    <2>4. Handle(Core, e) \in CoreType /\ Exact(Handle(Core, e), inherited')
      BY <1>1, <2>1, <2>3, HandleFacts
    <2>5. inherited' \subseteq Track
      BY <1>1, <2>1
    <2> QED
      BY <2>1, <2>4, <2>5, BecomeExact
  <1>5. CASE Flush
    <2>1. Become(FlushDirty(Core, FALSE)) /\ inherited' = inherited
      BY <1>5 DEF Flush, stop
    <2>2. FlushDirty(Core, FALSE) \in CoreType /\ Exact(FlushDirty(Core, FALSE), inherited)
      BY <1>1, FlushFacts, FlushExact
    <2> QED
      BY <1>1, <2>1, <2>2, BecomeExact
  <1>6. CASE Tick
    <2>1. Become(Maintain(Core)) /\ inherited' = inherited
      BY <1>6 DEF Tick, MaintainAndSave, stop
    <2>2. Maintain(Core) \in CoreType /\ Exact(Maintain(Core), inherited)
      BY <1>1, MaintainFacts, MaintainExact
    <2> QED
      BY <1>1, <2>1, <2>2, BecomeExact
  <1>7. CASE Drained
    <2> DEFINE f == FlushDirty(Core, TRUE)
    <2>1. Become(Maintain(f)) /\ inherited' = inherited
      BY <1>7 DEF Drained, MaintainAndSave, stop
    <2>2. f \in CoreType /\ Exact(f, inherited)
      BY <1>1, FlushFacts, FlushExact
    <2> HIDE DEF f
    <2>3. Maintain(f) \in CoreType /\ Exact(Maintain(f), inherited)
      BY <2>2, MaintainFacts, MaintainExact
    <2> QED
      BY <1>1, <2>1, <2>3, BecomeExact
  <1>8. CASE FeedEnds
    <2>1. Become(FlushDirty(Core, TRUE)) /\ inherited' = inherited
      BY <1>8 DEF FeedEnds, stop
    <2>2. FlushDirty(Core, TRUE) \in CoreType /\ Exact(FlushDirty(Core, TRUE), inherited)
      BY <1>1, FlushFacts, FlushExact
    <2> QED
      BY <1>1, <2>1, <2>2, BecomeExact
  <1>9. CASE Feed
    <2>0. PICK n \in {0, 1, Window + 1} : \E s :
              /\ s = IF applied = <<>> THEN since ELSE Age(since, n)
              /\ Become(FeedSteps([Core EXCEPT !.track = Older(@, n)], log[rd.pos + 1], s))
      BY <1>9 DEF Feed
    <2>1. PICK s :
              /\ s = IF applied = <<>> THEN since ELSE Age(since, n)
              /\ Become(FeedSteps([Core EXCEPT !.track = Older(@, n)], log[rd.pos + 1], s))
      BY <2>0
    <2> DEFINE c == [Core EXCEPT !.track = Older(@, n)]
               e == log[rd.pos + 1]
               h == Handle(c, e)
               f == IF s.flush >= EvalInterval THEN FlushDirty(h, FALSE) ELSE h
               m == IF s.tick >= TickInterval THEN Maintain(f) ELSE f
    <2>2. inherited' = inherited /\ inherited = {} /\ rd.pos < Len(log)
      BY <1>9 DEF Feed, stop, Resting, Live
    <2>3. n \in Nat
      BY Intervals
    <2>4. c \in CoreType /\ Exact(c, {})
      <3>1. PICK k : k = [Core EXCEPT !.track = Older(@, n)]
        OBVIOUS
      <3>2. k \in CoreType /\ Exact(k, {})
        BY <1>1, <2>2, <2>3, <3>1, OlderExact
      <3> QED
        BY <3>1, <3>2
    <2>5. e \in EventType
      BY <2>2, ReadOn, EventFacts
    <2> HIDE DEF c, e
    <2>6. h \in CoreType /\ Exact(h, {} \ {e.track})
      BY <2>4, <2>5, HandleFacts
    <2>7. {} \ {e.track} = {}
      OBVIOUS
    <2>8. h \in CoreType /\ Exact(h, {})
      BY <2>6, <2>7
    <2> HIDE DEF h
    <2>9. f \in CoreType /\ Exact(f, {})
      BY <2>8, FlushFacts, FlushExact
    <2> HIDE DEF f
    <2>10. m \in CoreType /\ Exact(m, {})
      BY <2>9, MaintainFacts, MaintainExact
    <2>11. Become(m)
      BY <2>1 DEF FeedSteps, m, f, h, c, e
    <2> HIDE DEF m
    <2> QED
      BY <1>1, <2>2, <2>10, <2>11, BecomeExact
  <1>10. CASE Time
    <2>1. track' = Older(track, 1) /\ UNCHANGED <<dirty, missed, inherited>>
      BY <1>10 DEF Time, stop
    <2>2. /\ track' \in [Track -> TrackType]
          /\ \A t \in Track : track'[t].open = track[t].open /\ track'[t].fresh = track[t].fresh
      <3>1. 1 \in Nat /\ track \in [Track -> TrackType]
        BY <1>1 DEF TypedCore
      <3> QED
        BY <2>1, <3>1, OlderFacts
    <2> QED
      BY <1>1, <2>1, <2>2 DEF TypedCore, DirtyExact
  <1>11. CASE Restart
    <2>1. track' = Nothing.track /\ dirty' = {} /\ inherited' = {} /\ missed' = missed
      BY <1>11 DEF Restart
    <2>2. \A t \in Track : ~Nothing.track[t].fresh
      BY ClosedFacts DEF Nothing
    <2> QED
      BY <1>1, <2>1, <2>2, NothingTyped, EventFacts DEF TypedCore, DirtyExact
  <1>12. CASE Reader \/ Forwarder \/ Save \/ Break \/ Await \/ Signal \/ UNCHANGED vars
    <2>1. UNCHANGED <<track, dirty, missed, inherited>>
      BY <1>12 DEF Reader, Read, ReaderEnds, Forwarder, Forward, EvictOldest, PutAgain, ForwarderEnds,
                   Save, Break, Await, Signal, core, stop, vars
    <2> QED
      BY <1>1, <2>1 DEF TypedCore, DirtyExact
  <1> QED
    BY <1>3, <1>4, <1>5, <1>6, <1>7, <1>8, <1>9, <1>10, <1>11, <1>12 DEF Next, Loop

\* What is saved keeps its type.
LEMMA SavedStep ==
    ASSUME Typed, TypedCore', [Next]_vars
    PROVE  TypedSaved'
  <1>1. /\ snap \in StateType /\ disk \in StateType /\ StateType' = StateType
        /\ applied \in Seq(Event) /\ rd.pos \in 0..Len(log) /\ Len(log) \in Nat
    BY LogFixed, EventFacts DEF Typed, TypedSaved, TypedFlow, StateType, TrackType
  <1>2. CASE Tick \/ Drained
    <2>1. disk' = disk
      BY <1>2 DEF Tick, Drained
    <2>2. snap' = [track |-> Saved(track'), pos |-> rd.pos, applied |-> applied]
      BY <1>2 DEF Tick, Drained, MaintainAndSave, Snapshot, Become
    <2>3. track' \in [Track -> TrackType]
      BY DEF TypedCore, TrackType
    <2>4. snap' \in StateType
      BY <1>1, <2>2, <2>3, SavedTyped DEF StateType
    <2> QED
      BY <1>1, <2>1, <2>4 DEF TypedSaved
  <1>3. CASE Save
    <2>1. disk' \in {disk, snap} /\ snap' = Nothing
      BY <1>3 DEF Save
    <2> QED
      BY <1>1, <2>1, NothingTyped DEF TypedSaved
  <1>4. CASE Restart
    <2>1. disk' = disk /\ snap' = Nothing
      BY <1>4 DEF Restart
    <2> QED
      BY <1>1, <2>1, NothingTyped DEF TypedSaved
  <1>5. CASE ~(Tick \/ Drained \/ Save \/ Restart)
    <2>1. UNCHANGED <<snap, disk>>
      BY <1>5 DEF Next, vars, Start, Reader, Read, ReaderEnds, Forwarder, Forward, EvictOldest,
                  PutAgain, ForwarderEnds, Loop, HandleEvent, Flush, Break, Await, Time, Signal,
                  Feed, FeedEnds
    <2> QED
      BY <1>1, <2>1 DEF TypedSaved
  <1> QED
    BY <1>2, <1>3, <1>4, <1>5

\* Where the age of the last flush stands.
LEMMA SinceFacts ==
    ASSUME Typed, NEW n \in Nat
    PROVE  /\ Age(since, n).flush = IF since.flush + n <= EvalInterval THEN since.flush + n
                                   ELSE EvalInterval
           /\ Age(since, n).flush \in 0..EvalInterval
  <1>1. since.flush \in Nat /\ since.flush + n \in Nat /\ EvalInterval \in Nat
    BY Intervals DEF Typed, TypedLoop
  <1> QED
    BY <1>1, MinOfTwo DEF Age

\* The rest keeps its type.
LEMMA LoopTypedStep ==
    ASSUME Typed, Resting, [Next]_vars
    PROVE  TypedLoop'
  <1>1. /\ mode' = mode /\ log' = log /\ mode \in {"live", "replay"} /\ log \in Seq(EventType)
        /\ since.flush \in 0..EvalInterval /\ due \subseteq {"flush", "tick"}
        /\ loop \in {"start", "run", "save", "stopping", "drain", "last", "stopped", "feed"}
    BY LogFixed DEF Typed, TypedLoop
  <1>2. loop' \in {"start", "run", "save", "stopping", "drain", "last", "stopped", "feed"}
    BY <1>1 DEF Next, vars, Start, Reader, Read, ReaderEnds, Forwarder, Forward, EvictOldest, PutAgain,
                ForwarderEnds, Loop, HandleEvent, Flush, Tick, Save, Break, Await, Drained, Time,
                Signal, Restart, Feed, FeedEnds, MaintainAndSave
  <1>3. due' \subseteq {"flush", "tick"}
    BY <1>1 DEF Next, vars, Start, Reader, Read, ReaderEnds, Forwarder, Forward, EvictOldest, PutAgain,
                ForwarderEnds, Loop, HandleEvent, Flush, Tick, Save, Break, Await, Drained, Time,
                Signal, Restart, Feed, FeedEnds, MaintainAndSave
  <1>4. since'.flush \in 0..EvalInterval
    <2>1. CASE Start
      BY <2>1, Intervals DEF Start
    <2>2. CASE Time
      <3>1. since'["flush"] \in {0, Age(since, 1).flush}
        BY <2>2 DEF Time
      <3>2. Age(since, 1).flush \in 0..EvalInterval
        <4>1. 1 \in Nat
          OBVIOUS
        <4> QED
          BY <4>1, SinceFacts
      <3> QED
        BY <3>1, <3>2, Intervals
    <2>3. CASE Feed
      <3>0. PICK n \in {0, 1, Window + 1} : \E s :
                /\ s = IF applied = <<>> THEN since ELSE Age(since, n)
                /\ since' = [flush |-> IF s.flush >= EvalInterval THEN 0 ELSE s.flush,
                             tick |-> IF s.tick >= TickInterval THEN 0 ELSE s.tick]
        BY <2>3 DEF Feed
      <3>1. PICK s :
                /\ s = IF applied = <<>> THEN since ELSE Age(since, n)
                /\ since' = [flush |-> IF s.flush >= EvalInterval THEN 0 ELSE s.flush,
                             tick |-> IF s.tick >= TickInterval THEN 0 ELSE s.tick]
        BY <3>0
      <3>2. n \in Nat
        BY Intervals
      <3>3. s.flush \in 0..EvalInterval
        BY <1>1, <3>1, <3>2, SinceFacts, Intervals
      <3> QED
        BY <3>1, <3>3, Intervals
    <2>4. CASE ~(Start \/ Time \/ Feed)
      <3>1. since' = since
        BY <2>4 DEF Next, vars, Reader, Read, ReaderEnds, Forwarder, Forward, EvictOldest, PutAgain,
                    ForwarderEnds, Loop, HandleEvent, Flush, Tick, Save, Break, Await, Drained,
                    Signal, Restart, FeedEnds, core
      <3> QED
        BY <1>1, <3>1
    <2> QED
      BY <2>1, <2>2, <2>3, <2>4
  <1> QED
    BY <1>1, <1>2, <1>3, <1>4 DEF TypedLoop

-----------------------------------------------------------------------------
(***************************************************************************)
(* What rests.                                                             *)
(***************************************************************************)
\* A replay has no queues, and before the start nothing runs.
LEMMA RestingStep ==
    ASSUME Typed, Resting, [Next]_vars
    PROVE  Resting'
  <1>1. Live' = Live /\ loop \in {"start", "run", "save", "stopping", "drain", "last", "stopped", "feed"}
    BY LogFixed DEF Typed, TypedLoop
  <1>2. CASE Live
    <2>1. loop # "feed" /\ (loop = "start" => ~rd.up /\ fwd = Idle /\ in = <<>> /\ queue = <<>>
                                              /\ due = {} /\ applied = <<>> /\ dirty = {} /\ snap = Nothing)
      BY <1>2 DEF Resting
    <2>2. CASE loop' # "start"
      <3>1. loop' # "feed"
        BY <1>2, <2>1
           DEF Next, vars, Start, Reader, Read, ReaderEnds, Forwarder, Forward, EvictOldest, PutAgain,
               ForwarderEnds, Loop, HandleEvent, Flush, Tick, Save, Break, Await, Drained, Time,
               Signal, Restart, Feed, FeedEnds, MaintainAndSave
      <3> QED
        BY <1>1, <1>2, <2>2, <3>1 DEF Resting
    <2>3. CASE loop' = "start"
      <3>1. Restart \/ (loop = "start" /\ (Reader \/ Forwarder \/ UNCHANGED vars))
        BY <1>2, <2>1, <2>3
           DEF Next, vars, Start, Reader, Read, ReaderEnds, Forwarder, Forward, EvictOldest, PutAgain,
               ForwarderEnds, Loop, HandleEvent, Flush, Tick, Save, Break, Await, Drained, Time,
               Signal, Feed, FeedEnds, MaintainAndSave
      <3>2. CASE Restart
        <4>1. rd' = [up |-> FALSE, pos |-> 0] /\ fwd' = Idle /\ in' = <<>> /\ queue' = <<>> /\ due' = {}
              /\ applied' = <<>> /\ dirty' = {} /\ snap' = Nothing
          BY <3>2 DEF Restart
        <4> QED
          BY <1>1, <1>2, <2>3, <4>1 DEF Resting, Nothing, Closed, Idle
      <3>3. CASE loop = "start" /\ (Reader \/ Forwarder)
        <4>1. ~rd.up /\ in = <<>> /\ fwd.pc = "stopped"
          BY <2>1, <3>3 DEF Idle
        <4> QED
          BY <3>3, <4>1 DEF Reader, Read, ReaderEnds, Forwarder, Forward, EvictOldest, PutAgain,
                            ForwarderEnds
      <3>4. CASE loop = "start" /\ UNCHANGED vars
        BY <1>1, <1>2, <2>1, <3>4 DEF vars, Resting, Nothing, Closed, Idle
      <3> QED
        BY <3>1, <3>2, <3>3, <3>4
    <2> QED
      BY <2>2, <2>3
  <1>3. CASE ~Live
    <2>1. /\ loop \in {"feed", "stopped"} /\ inherited = {} /\ ~rd.up /\ fwd = Idle
          /\ in = <<>> /\ queue = <<>> /\ due = {}
      BY <1>3 DEF Resting
    <2>2. fwd.pc = "stopped"
      BY <2>1 DEF Idle
    <2>3. Feed \/ FeedEnds \/ UNCHANGED vars
      BY <1>3, <2>1, <2>2
         DEF Next, Start, Reader, Read, ReaderEnds, Forwarder, Forward, EvictOldest, PutAgain,
             ForwarderEnds, Loop, HandleEvent, Flush, Tick, Save, Break, Await, Drained, Time,
             Signal, Restart
    <2>4. /\ loop' \in {"feed", "stopped"} /\ inherited' = inherited /\ rd'.up = rd.up
          /\ UNCHANGED <<in, queue, fwd, due>>
      <3>1. CASE Feed
        <4>1. rd' = [rd EXCEPT !.pos = @ + 1] /\ rd \in [up : BOOLEAN, pos : 0..Len(log)]
          BY <3>1 DEF Feed, Typed, TypedFlow
        <4>2. rd'.up = rd.up
          BY <4>1
        <4> QED
          BY <2>1, <3>1, <4>2 DEF Feed, stop
      <3>2. CASE FeedEnds \/ UNCHANGED vars
        BY <2>1, <3>2 DEF FeedEnds, flow, stop, vars
      <3> QED
        BY <2>3, <3>1, <3>2
    <2> QED
      BY <1>1, <1>3, <2>1, <2>4 DEF Resting, Idle
  <1> QED
    BY <1>2, <1>3

-----------------------------------------------------------------------------
(***************************************************************************)
(* Where the events are.                                                   *)
(***************************************************************************)
Flow == InOrder /\ Kept /\ SavedInOrder

\* The sets and numbers the flow is about.
LEMMA FlowFacts ==
    ASSUME Typed
    PROVE  /\ applied \in Seq(Event) /\ queue \in Seq(Event) /\ in \in Seq(Event)
           /\ Range(applied) \subseteq Event /\ Range(queue) \subseteq Event /\ Range(in) \subseteq Event
           /\ Held \subseteq Event /\ gone.dropped \subseteq Event /\ gone.lost \subseteq Event
           /\ (fwd.pc \in {"take", "stopped"} => fwd.ev = NoEvent /\ Held = {})
           /\ (fwd.pc \in {"evict", "again"} => fwd.ev \in Event /\ Held = {fwd.ev})
           /\ rd.pos \in Nat /\ disk.pos \in Nat /\ snap.pos \in Nat
           /\ disk.applied \in Seq(Event) /\ snap.applied \in Seq(Event)
           /\ Range(disk.applied) \subseteq Event /\ Range(snap.applied) \subseteq Event
           /\ Event \subseteq Nat \ {0} /\ Event \in SUBSET Nat
  <1>1. /\ applied \in Seq(Event) /\ queue \in Seq(Event) /\ in \in Seq(Event)
        /\ fwd \in ForwarderType /\ Carrying(fwd)
        /\ gone \in [dropped : SUBSET Event, lost : SUBSET Event]
        /\ rd \in [up : BOOLEAN, pos : 0..Len(log)]
        /\ snap \in StateType /\ disk \in StateType
    BY DEF Typed, TypedFlow, TypedSaved
  <1>2. Event \subseteq Nat \ {0} /\ Event \in SUBSET Nat /\ Len(log) \in Nat /\ NoEvent \notin Event
    BY EventFacts
  <1>3. /\ disk.pos \in 0..Len(log) /\ disk.applied \in Seq(Event)
        /\ snap.pos \in 0..Len(log) /\ snap.applied \in Seq(Event)
    BY <1>1 DEF StateType
  <1>4. rd.pos \in Nat /\ disk.pos \in Nat /\ snap.pos \in Nat
    BY <1>1, <1>2, <1>3
  <1>5. /\ (fwd.pc \in {"take", "stopped"} => fwd.ev = NoEvent /\ Held = {})
        /\ (fwd.pc \in {"evict", "again"} => fwd.ev \in Event /\ Held = {fwd.ev})
        /\ Held \subseteq Event
    BY <1>1, <1>2 DEF ForwarderType, Carrying, Held
  <1>6. /\ Range(applied) \subseteq Event /\ Range(queue) \subseteq Event /\ Range(in) \subseteq Event
        /\ Range(disk.applied) \subseteq Event /\ Range(snap.applied) \subseteq Event
    BY <1>1, <1>3, SeqFacts
  <1> QED
    BY <1>1, <1>2, <1>3, <1>4, <1>5, <1>6

\* The forwarder is where the record says.
LEMMA HeldOf ==
    ASSUME NEW pc, NEW e, fwd' = [pc |-> pc, ev |-> e]
    PROVE  Held' = {e} \ {NoEvent}
  BY DEF Held

\* The new process takes over what was saved.
LEMMA StartFlow ==
    ASSUME Typed, Resting, Flow, Start
    PROVE  Flow'
  <1>1. /\ applied' = disk.applied /\ rd' = [up |-> TRUE, pos |-> disk.pos]
        /\ fwd' = [pc |-> "take", ev |-> NoEvent]
        /\ UNCHANGED <<in, queue, gone, disk, snap>>
        /\ loop = "start" /\ loop' # "start"
    BY DEF Start
  <1>2. in = <<>> /\ queue = <<>> /\ snap = Nothing
    BY <1>1 DEF Resting
  <1>3. Held' = {} /\ Range(in') = {} /\ Range(queue') = {} /\ Increasing(in') /\ Increasing(queue')
        /\ rd'.pos = disk.pos
    BY <1>1, <1>2, HeldOf, EmptyFacts
  <1>4. Complete(disk) /\ Complete(snap)
    BY DEF Flow, SavedInOrder
  <1>5. InOrder'
    BY <1>1, <1>3, <1>4 DEF InOrder, Before, Complete
  <1>6. Kept'
    <2>1. OnTheWay' = Range(disk.applied)
      BY <1>1, <1>3 DEF OnTheWay
    <2>2. /\ gone.dropped \cap gone.lost = {}
          /\ 1..disk.pos = Range(disk.applied) \cup gone.dropped \cup gone.lost
          /\ (gone.dropped \cup gone.lost) \cap Range(disk.applied) = {}
      BY <1>1 DEF Flow, Kept
    <2> QED
      BY <1>1, <1>3, <2>1, <2>2 DEF Kept
  <1>7. SavedInOrder'
    <2>1. Behind(disk)' /\ Complete(disk)'
      BY <1>1, <1>3, <1>4, FlowFacts DEF Behind, Complete
    <2>2. snap.applied = <<>> /\ snap.pos = 0
      BY <1>2 DEF Nothing
    <2>3. Behind(snap)' /\ Complete(snap)'
      BY <1>1, <1>3, <1>4, <2>2, FlowFacts, EmptyFacts DEF Behind, Complete
    <2> QED
      BY <2>1, <2>3 DEF SavedInOrder
  <1> QED
    BY <1>5, <1>6, <1>7 DEF Flow

\* What follows for the saved states when the tracks only take in more.
LEMMA StillSaved ==
    ASSUME Typed, Flow, UNCHANGED <<disk, snap>>, loop # "start",
           Range(applied) \subseteq Range(applied'), rd.pos <= rd'.pos, rd'.pos \in Nat
    PROVE  SavedInOrder'
  <1>1. Complete(disk) /\ Complete(snap) /\ Behind(disk) /\ Behind(snap)
    BY DEF Flow, SavedInOrder
  <1> QED
    BY <1>1, FlowFacts DEF SavedInOrder, Complete, Behind

\* The next event of the log is later than all that are on the way.
LEMMA ReadFlow ==
    ASSUME Typed, Resting, Flow, Read
    PROVE  Flow'
  <1> DEFINE e == rd.pos + 1
  <1>1. /\ UNCHANGED <<queue, fwd, applied, gone, loop, disk, snap>> /\ in' = Append(in, e)
        /\ rd' = [rd EXCEPT !.pos = @ + 1] /\ loop # "start" /\ rd.pos < Len(log)
    BY DEF Read, core, Resting
  <1>2. e \in Event /\ rd'.pos = e /\ rd.pos \in Nat
    <2>1. rd \in [up : BOOLEAN, pos : 0..Len(log)]
      BY DEF Typed, TypedFlow
    <2> QED
      BY <1>1, <2>1, ReadOn, FlowFacts
  <1>3. 1..rd.pos = OnTheWay \cup gone.dropped \cup gone.lost
    BY <1>1 DEF Flow, Kept
  <1>4. \A a \in 1..rd.pos : a < e
    BY <1>2
  <1>5. 1..e = 1..rd.pos \cup {e} /\ e \notin 1..rd.pos
    BY <1>2
  <1> HIDE DEF e
  <1>6. Range(in') = Range(in) \cup {e}
    BY <1>1, <1>2, AppendFacts, FlowFacts
  <1>7. Held' = Held
    BY <1>1 DEF Held
  <1>8. InOrder'
    <2>1. \A a \in Range(applied) \cup Range(queue) \cup Held \cup Range(in) : a < e
      BY <1>3, <1>4 DEF OnTheWay
    <2>2. Increasing(in')
      BY <1>1, <1>2, <2>1, AppendIncreases, FlowFacts DEF Flow, InOrder
    <2> QED
      BY <1>1, <1>6, <1>7, <2>1, <2>2 DEF Flow, InOrder, Before
  <1>9. Kept'
    <2>1. OnTheWay' = OnTheWay \cup {e}
      BY <1>1, <1>6, <1>7 DEF OnTheWay
    <2> QED
      BY <1>1, <1>2, <1>3, <1>5, <2>1 DEF Flow, Kept
  <1>10. SavedInOrder'
    <2>1. rd.pos <= rd'.pos /\ rd'.pos \in Nat
      BY <1>2 DEF e
    <2> QED
      BY <1>1, <2>1, StillSaved
  <1> QED
    BY <1>8, <1>9, <1>10 DEF Flow

\* The forwarder passes the oldest event of the channel on.
LEMMA ForwardFlow ==
    ASSUME Typed, Resting, Flow, Forward
    PROVE  Flow'
  <1> DEFINE e == Head(in)
  <1>1. /\ UNCHANGED <<rd, applied, gone, loop, disk, snap>> /\ in' = Tail(in) /\ in # <<>>
        /\ fwd.pc = "take" /\ loop # "start"
    BY DEF Forward, core, Resting
  <1>2. /\ e \in Event /\ Range(in) = {e} \cup Range(in') /\ Increasing(in')
        /\ \A a \in Range(in') : e < a
    BY <1>1, TailFacts, TailIncreases, FlowFacts DEF Flow, InOrder
  <1>3. Held = {}
    BY <1>1, FlowFacts
  <1>4. \/ queue' = Append(queue, e) /\ fwd' = fwd
        \/ queue' = queue /\ fwd' = [pc |-> "evict", ev |-> e]
    BY DEF Forward
  <1>5. \A a \in Range(applied) \cup Range(queue) : a < e
    BY <1>2 DEF Flow, InOrder, Before
  <1>6. \A a \in Range(applied) \cup Range(queue) : \A b \in Range(in') : a < b
    BY <1>2 DEF Flow, InOrder, Before
  <1>7. Increasing(applied) /\ Increasing(queue) /\ Before(Range(applied), Range(queue))
    BY DEF Flow, InOrder
  <1> HIDE DEF e
  <1>8. InOrder' /\ OnTheWay' = OnTheWay
    <2>1. CASE queue' = Append(queue, e) /\ fwd' = fwd
      <3>1. Range(queue') = Range(queue) \cup {e} /\ Increasing(queue') /\ Held' = {}
        <4>1. queue \in Seq(Event) /\ Event \in SUBSET Nat
          BY FlowFacts
        <4>2. Range(Append(queue, e)) = Range(queue) \cup {e}
          BY <1>2, <4>1, AppendFacts
        <4>3. Increasing(Append(queue, e))
          BY <1>2, <1>5, <1>7, <4>1, AppendIncreases
        <4>4. Held' = {}
          BY <1>3, <2>1 DEF Held
        <4> QED
          BY <2>1, <4>2, <4>3, <4>4
      <3>2. InOrder'
        BY <1>1, <1>2, <1>5, <1>6, <1>7, <3>1 DEF InOrder, Before
      <3> QED
        BY <1>1, <1>2, <1>3, <3>1, <3>2 DEF OnTheWay
    <2>2. CASE queue' = queue /\ fwd' = [pc |-> "evict", ev |-> e]
      <3>1. Held' = {e}
        BY <1>2, <2>2, HeldOf, EventFacts
      <3>2. InOrder'
        BY <1>1, <1>2, <1>5, <1>6, <1>7, <2>2, <3>1 DEF InOrder, Before
      <3> QED
        BY <1>1, <1>2, <1>3, <2>2, <3>1, <3>2 DEF OnTheWay
    <2> QED
      BY <1>4, <2>1, <2>2
  <1>9. Kept'
    BY <1>1, <1>8 DEF Flow, Kept
  <1>10. SavedInOrder'
    BY <1>1, StillSaved, FlowFacts
  <1> QED
    BY <1>8, <1>9, <1>10 DEF Flow

\* The forwarder drops the oldest event of the queue.
LEMMA EvictFlow ==
    ASSUME Typed, Resting, Flow, EvictOldest
    PROVE  Flow'
  <1>1. /\ UNCHANGED <<rd, in, applied, loop, disk, snap>>
        /\ fwd.pc = "evict" /\ fwd' = [fwd EXCEPT !.pc = "again"] /\ loop # "start"
    BY DEF EvictOldest, core, Resting, Idle
  <1>2. Held' = Held
    <2>1. fwd \in ForwarderType
      BY DEF Typed, TypedFlow
    <2>2. fwd'.ev = fwd.ev
      BY <1>1, <2>1 DEF ForwarderType
    <2> QED
      BY <2>2 DEF Held
  <1>3. CASE queue = <<>>
    <2>1. queue' = queue /\ gone' = gone
      BY <1>3 DEF EvictOldest
    <2>2. OnTheWay' = OnTheWay
      BY <1>1, <1>2, <2>1 DEF OnTheWay
    <2> QED
      BY <1>1, <1>2, <2>1, <2>2, StillSaved, FlowFacts DEF Flow, InOrder, Kept
  <1>4. CASE queue # <<>>
    <2> DEFINE e == Head(queue)
    <2>1. queue' = Tail(queue) /\ gone' = [gone EXCEPT !.dropped = @ \cup {e}]
      BY <1>4 DEF EvictOldest, Drop
    <2>2. /\ Range(queue) = {e} \cup Range(queue') /\ Increasing(queue') /\ e \in Event
          /\ \A a \in Range(queue') : e < a
      BY <1>4, <2>1, TailFacts, TailIncreases, FlowFacts DEF Flow, InOrder
    <2> HIDE DEF e
    <2>3. gone'.dropped = gone.dropped \cup {e} /\ gone'.lost = gone.lost
      <3>1. gone \in [dropped : SUBSET Event, lost : SUBSET Event]
        BY DEF Typed, TypedFlow
      <3> QED
        BY <2>1, <3>1
    <2>4. InOrder'
      BY <1>1, <1>2, <2>2 DEF Flow, InOrder, Before
    <2>5. OnTheWay = OnTheWay' \cup {e}
      BY <1>1, <1>2, <2>2 DEF OnTheWay
    <2>6. e \notin OnTheWay'
      <3>1. /\ \A a \in Range(applied) : a < e
            /\ \A a \in Held \cup Range(in) : e < a
        BY <2>2 DEF Flow, InOrder, Before
      <3>2. \A a \in Event : ~(a < a)
        BY FlowFacts
      <3>3. e \notin Range(applied) /\ e \notin Held /\ e \notin Range(in) /\ e \notin Range(queue')
        BY <2>2, <3>1, <3>2
      <3> QED
        BY <1>1, <1>2, <3>3 DEF OnTheWay
    <2>7. /\ gone.dropped \cap gone.lost = {}
          /\ 1..rd.pos = OnTheWay \cup gone.dropped \cup gone.lost
          /\ (gone.dropped \cup gone.lost) \cap OnTheWay = {}
      BY <1>1 DEF Flow, Kept
    <2>8. Kept'
      BY <1>1, <2>3, <2>5, <2>6, <2>7 DEF Kept
    <2> QED
      BY <1>1, <2>4, <2>8, StillSaved, FlowFacts DEF Flow
  <1> QED
    BY <1>3, <1>4

\* The forwarder puts the event it held into the queue, or drops it.
LEMMA PutFlow ==
    ASSUME Typed, Resting, Flow, PutAgain
    PROVE  Flow'
  <1> DEFINE e == fwd.ev
  <1>1. /\ UNCHANGED <<rd, in, applied, loop, disk, snap>>
        /\ fwd.pc = "again" /\ fwd' = [pc |-> "take", ev |-> NoEvent] /\ loop # "start"
    BY DEF PutAgain, core, Resting, Idle
  <1>2. Held' = {} /\ Held = {e} /\ e \in Event
    BY <1>1, HeldOf, FlowFacts
  <1>3. /\ \A a \in Range(applied) \cup Range(queue) : a < e
        /\ \A a \in Range(in) : e < a
    BY <1>2 DEF Flow, InOrder, Before
  <1>4. \/ queue' = Append(queue, e) /\ gone' = gone
        \/ queue' = queue /\ gone' = [gone EXCEPT !.dropped = @ \cup {e}]
    BY DEF PutAgain, Drop
  <1>5. queue \in Seq(Event) /\ Event \in SUBSET Nat
    BY FlowFacts
  <1>6. /\ gone.dropped \cap gone.lost = {}
        /\ 1..rd.pos = OnTheWay \cup gone.dropped \cup gone.lost
        /\ (gone.dropped \cup gone.lost) \cap OnTheWay = {}
    BY <1>1 DEF Flow, Kept
  <1> HIDE DEF e
  <1>7. SavedInOrder'
    BY <1>1, StillSaved, FlowFacts
  <1>8. CASE queue' = Append(queue, e) /\ gone' = gone
    <2>1. Range(queue') = Range(queue) \cup {e}
      BY <1>2, <1>5, <1>8, AppendFacts
    <2>2. Increasing(queue')
      BY <1>2, <1>3, <1>5, <1>8, AppendIncreases DEF Flow, InOrder
    <2>3. InOrder'
      BY <1>1, <1>2, <1>3, <2>1, <2>2 DEF Flow, InOrder, Before
    <2>4. OnTheWay' = OnTheWay
      BY <1>1, <1>2, <2>1 DEF OnTheWay
    <2> QED
      BY <1>1, <1>6, <1>7, <1>8, <2>3, <2>4 DEF Flow, Kept
  <1>9. CASE queue' = queue /\ gone' = [gone EXCEPT !.dropped = @ \cup {e}]
    <2>1. gone'.dropped = gone.dropped \cup {e} /\ gone'.lost = gone.lost
      <3>1. gone \in [dropped : SUBSET Event, lost : SUBSET Event]
        BY DEF Typed, TypedFlow
      <3> QED
        BY <1>9, <3>1
    <2>2. InOrder'
      BY <1>1, <1>2, <1>9 DEF Flow, InOrder, Before
    <2>3. OnTheWay = OnTheWay' \cup {e}
      BY <1>1, <1>2, <1>9 DEF OnTheWay
    <2>4. e \notin OnTheWay'
      <3>1. \A a \in Event : ~(a < a)
        BY FlowFacts
      <3>2. e \notin Range(applied) /\ e \notin Range(queue) /\ e \notin Range(in)
        BY <1>2, <1>3, <3>1
      <3> QED
        BY <1>1, <1>2, <1>9, <3>2 DEF OnTheWay
    <2>5. Kept'
      BY <1>1, <1>6, <2>1, <2>3, <2>4 DEF Kept
    <2> QED
      BY <1>7, <2>2, <2>5 DEF Flow
  <1> QED
    BY <1>4, <1>8, <1>9

\* The loop applies the oldest event of the queue.
LEMMA HandleFlow ==
    ASSUME Typed, Resting, Flow, HandleEvent
    PROVE  Flow'
  <1> DEFINE e == Head(queue)
  <1>1. /\ UNCHANGED <<rd, in, fwd, gone, loop, disk, snap>> /\ queue # <<>> /\ queue' = Tail(queue)
        /\ applied' = Append(applied, e) /\ loop # "start"
    BY DEF HandleEvent
  <1>2. /\ Range(queue) = {e} \cup Range(queue') /\ Increasing(queue') /\ e \in Event
        /\ \A a \in Range(queue') : e < a
    BY <1>1, TailFacts, TailIncreases, FlowFacts DEF Flow, InOrder
  <1>3. applied \in Seq(Event) /\ Event \in SUBSET Nat
    BY FlowFacts
  <1> HIDE DEF e
  <1>4. /\ \A a \in Range(applied) : a < e
        /\ \A a \in Held \cup Range(in) : e < a
    BY <1>2 DEF Flow, InOrder, Before
  <1>5. Range(applied') = Range(applied) \cup {e}
    BY <1>1, <1>2, <1>3, AppendFacts
  <1>6. Increasing(applied')
    BY <1>1, <1>2, <1>3, <1>4, AppendIncreases DEF Flow, InOrder
  <1>7. Held' = Held
    BY <1>1 DEF Held
  <1>8. InOrder'
    BY <1>1, <1>2, <1>4, <1>5, <1>6, <1>7 DEF Flow, InOrder, Before
  <1>9. OnTheWay' = OnTheWay
    BY <1>1, <1>2, <1>5, <1>7 DEF OnTheWay
  <1>10. Kept'
    BY <1>1, <1>9 DEF Flow, Kept
  <1>11. SavedInOrder'
    BY <1>1, <1>5, StillSaved, FlowFacts
  <1> QED
    BY <1>8, <1>10, <1>11 DEF Flow

\* A replay applies the next event at once.
LEMMA FeedFlow ==
    ASSUME Typed, Resting, Flow, Feed
    PROVE  Flow'
  <1> DEFINE e == rd.pos + 1
  <1>1. /\ UNCHANGED <<in, queue, fwd, gone, loop, disk, snap>> /\ applied' = Append(applied, e)
        /\ rd' = [rd EXCEPT !.pos = @ + 1] /\ loop # "start" /\ rd.pos < Len(log)
    BY DEF Feed
  <1>2. in = <<>> /\ queue = <<>> /\ Held = {}
    <2>1. in = <<>> /\ queue = <<>> /\ fwd = Idle
      BY DEF Feed, Resting, Live
    <2>2. fwd.pc = "stopped"
      BY <2>1 DEF Idle
    <2> QED
      BY <2>1, <2>2, FlowFacts
  <1>3. e \in Event /\ rd'.pos = e /\ rd.pos \in Nat /\ rd.pos <= rd'.pos /\ rd'.pos \in Nat
    <2>1. rd \in [up : BOOLEAN, pos : 0..Len(log)]
      BY DEF Typed, TypedFlow
    <2>2. rd'.pos = e
      BY <1>1, <2>1
    <2> QED
      BY <1>1, <2>2, ReadOn, FlowFacts
  <1>4. 1..rd.pos = OnTheWay \cup gone.dropped \cup gone.lost
    BY <1>1 DEF Flow, Kept
  <1>5. \A a \in 1..rd.pos : a < e
    BY <1>3
  <1>6. 1..e = 1..rd.pos \cup {e} /\ e \notin 1..rd.pos
    BY <1>3
  <1>7. applied \in Seq(Event) /\ Event \in SUBSET Nat
    BY FlowFacts
  <1> HIDE DEF e
  <1>8. Range(applied') = Range(applied) \cup {e}
    BY <1>1, <1>3, <1>7, AppendFacts
  <1>9. Increasing(applied')
    <2>1. \A a \in Range(applied) : a < e
      BY <1>4, <1>5 DEF OnTheWay
    <2> QED
      BY <1>1, <1>3, <1>7, <2>1, AppendIncreases DEF Flow, InOrder
  <1>10. Held' = {} /\ Range(in') = {} /\ Range(queue') = {}
    BY <1>1, <1>2, EmptyFacts DEF Held
  <1>11. InOrder'
    BY <1>1, <1>9, <1>10 DEF Flow, InOrder, Before
  <1>12. OnTheWay' = OnTheWay \cup {e}
    BY <1>1, <1>2, <1>8, <1>10, EmptyFacts DEF OnTheWay
  <1>13. Kept'
    BY <1>1, <1>3, <1>4, <1>6, <1>12 DEF Flow, Kept
  <1>14. SavedInOrder'
    BY <1>1, <1>3, <1>8, StillSaved
  <1> QED
    BY <1>11, <1>13, <1>14 DEF Flow

\* Nothing of the flow is left by a process that ended but what it saved.
LEMMA RestartFlow ==
    ASSUME Typed, Resting, Flow, Restart
    PROVE  Flow'
  <1>1. /\ loop # "start" /\ loop' = "start" /\ in' = <<>> /\ queue' = <<>> /\ fwd' = Idle
        /\ applied' = <<>> /\ snap' = Nothing /\ disk' = disk
        /\ gone' = [dropped |-> {e \in gone.dropped : e <= disk.pos},
                    lost |-> 1..disk.pos \ (gone.dropped \cup Range(disk.applied))]
    BY DEF Restart
  <1>2. InOrder'
    <2>1. Held' = {}
      BY <1>1 DEF Held, Idle
    <2> QED
      BY <1>1, <2>1, EmptyFacts DEF InOrder, Before
  <1>3. Complete(disk) /\ Behind(disk)
    BY <1>1 DEF Flow, SavedInOrder
  <1>4. Kept'
    <2> DEFINE D == {e \in gone.dropped : e <= disk.pos}
               L == 1..disk.pos \ (gone.dropped \cup Range(disk.applied))
    <2>1. gone'.dropped = D /\ gone'.lost = L
      BY <1>1
    <2>2. gone.dropped \cap Range(disk.applied) = {}
      BY <1>1, <1>3 DEF Flow, Kept, Behind, OnTheWay
    <2>3. \A e \in Range(disk.applied) : e \in 1..disk.pos
      BY <1>3, FlowFacts DEF Complete
    <2>4. \A e \in gone.dropped : e \in D <=> e \in 1..disk.pos
      BY FlowFacts
    <2>5. 1..disk.pos = Range(disk.applied) \cup D \cup L
      BY <2>3, <2>4
    <2>6. (D \cup L) \cap Range(disk.applied) = {} /\ D \cap L = {}
      BY <2>2
    <2> HIDE DEF D, L
    <2> QED
      BY <1>1, <2>1, <2>5, <2>6 DEF Kept
  <1>5. SavedInOrder'
    <2>1. snap'.applied = <<>> /\ snap'.pos = 0
      BY <1>1 DEF Nothing
    <2>2. Complete(snap)'
      BY <2>1, EmptyFacts DEF Complete
    <2> QED
      BY <1>1, <1>3, <2>2 DEF SavedInOrder, Complete
  <1> QED
    BY <1>2, <1>4, <1>5 DEF Flow

\* The tracks and the position behind them are what is saved.
LEMMA SnapshotFlow ==
    ASSUME Typed, Flow, Tick \/ Drained \/ Save
    PROVE  Flow'
  <1>1. UNCHANGED <<rd, in, queue, fwd, applied, gone>> /\ loop # "start" /\ loop' # "start"
    BY DEF Tick, Drained, Save, MaintainAndSave, flow, core
  <1>2. InOrder' /\ OnTheWay' = OnTheWay
    BY <1>1 DEF Flow, InOrder, OnTheWay, Held
  <1>3. Kept'
    BY <1>1, <1>2 DEF Flow, Kept
  <1>4. Complete(disk) /\ Behind(disk) /\ Complete(snap) /\ Behind(snap)
    BY <1>1 DEF Flow, SavedInOrder
  <1>5. CASE Tick \/ Drained
    <2>1. disk' = disk /\ snap'.pos = rd.pos /\ snap'.applied = applied
      <3>1. snap' = [track |-> Saved(track'), pos |-> rd.pos, applied |-> applied]
        BY <1>5 DEF Tick, Drained, MaintainAndSave, Snapshot, Become
      <3>2. disk' = disk
        BY <1>5 DEF Tick, Drained
      <3> QED
        BY <3>1, <3>2
    <2>2. Increasing(applied) /\ \A e \in Range(applied) : e <= rd.pos
      <3>1. 1..rd.pos = OnTheWay \cup gone.dropped \cup gone.lost
        BY <1>1 DEF Flow, Kept
      <3>2. Range(applied) \subseteq 1..rd.pos
        BY <3>1 DEF OnTheWay
      <3> QED
        BY <3>2, FlowFacts DEF Flow, InOrder
    <2>3. Complete(snap)' /\ Behind(snap)'
      BY <1>1, <2>1, <2>2, FlowFacts DEF Complete, Behind
    <2>4. Complete(disk)' /\ Behind(disk)'
      BY <1>1, <1>4, <2>1 DEF Complete, Behind
    <2> QED
      BY <1>2, <1>3, <2>3, <2>4 DEF Flow, SavedInOrder
  <1>6. CASE Save
    <2>1. disk' \in {disk, snap} /\ snap' = Nothing
      BY <1>6 DEF Save
    <2>2. snap'.applied = <<>> /\ snap'.pos = 0
      BY <2>1 DEF Nothing
    <2>3. Complete(snap)' /\ Behind(snap)'
      BY <1>1, <2>2, EmptyFacts, FlowFacts DEF Complete, Behind
    <2>4. Complete(disk)' /\ Behind(disk)'
      BY <1>1, <1>4, <2>1 DEF Complete, Behind
    <2> QED
      BY <1>2, <1>3, <2>3, <2>4 DEF Flow, SavedInOrder
  <1> QED
    BY <1>5, <1>6

\* What moves no event.
LEMMA QuietFlow ==
    ASSUME Typed, Resting, Flow,
           ReaderEnds \/ ForwarderEnds \/ Flush \/ Break \/ Await \/ Time \/ Signal \/ FeedEnds
               \/ UNCHANGED vars
    PROVE  Flow'
  <1>1. /\ UNCHANGED <<in, queue, applied, gone, disk, snap>>
        /\ loop = "start" <=> loop' = "start"
    BY DEF ReaderEnds, ForwarderEnds, Flush, Break, Await, Time, Signal, FeedEnds, vars, flow, core, Resting
  <1>2. rd'.pos = rd.pos
    <2>1. rd \in [up : BOOLEAN, pos : 0..Len(log)]
      BY DEF Typed, TypedFlow
    <2>2. rd' = rd \/ rd' = [rd EXCEPT !.up = FALSE]
      BY DEF ReaderEnds, ForwarderEnds, Flush, Break, Await, Time, Signal, FeedEnds, vars, flow
    <2> QED
      BY <2>1, <2>2
  <1>3. Held' = Held
    <2>1. CASE fwd' = fwd
      BY <2>1 DEF Held
    <2>2. CASE ForwarderEnds
      <3>1. Held = {}
        BY <2>2, FlowFacts DEF ForwarderEnds
      <3>2. Held' = {}
        BY <2>2 DEF ForwarderEnds, Held, Idle
      <3> QED
        BY <3>1, <3>2
    <2> QED
      BY <2>1, <2>2 DEF ReaderEnds, Flush, Break, Await, Time, Signal, FeedEnds, vars, flow
  <1>4. InOrder' /\ OnTheWay' = OnTheWay
    BY <1>1, <1>3 DEF Flow, InOrder, OnTheWay
  <1>5. Kept'
    BY <1>1, <1>2, <1>4 DEF Flow, Kept
  <1>6. SavedInOrder'
    BY <1>1, <1>2 DEF Flow, SavedInOrder, Complete, Behind
  <1> QED
    BY <1>4, <1>5, <1>6 DEF Flow

\* In every step.
LEMMA FlowStep ==
    ASSUME Typed, Resting, Flow, [Next]_vars
    PROVE  Flow'
  BY StartFlow, ReadFlow, ForwardFlow, EvictFlow, PutFlow, HandleFlow, FeedFlow, RestartFlow,
     SnapshotFlow, QuietFlow DEF Next, Reader, Forwarder, Loop

-----------------------------------------------------------------------------
(***************************************************************************)
(* The end, and the theorems.                                              *)
(***************************************************************************)
\* A clean stop leaves nothing dirty.
LEMMA EndedStep ==
    ASSUME Typed, Resting, Ended, [Next]_vars
    PROVE  Ended'
  <1>1. Core \in CoreType /\ Core.track = track /\ Core.dirty = dirty
    BY CoreTyped DEF Typed
  <1>2. CASE Drained
    <2> DEFINE f == FlushDirty(Core, TRUE)
    <2>1. /\ Become(Maintain(f)) /\ loop' = "last" /\ applied' = applied
          /\ snap' = [track |-> Saved(Maintain(f).track), pos |-> rd.pos, applied |-> applied]
      BY <1>2 DEF Drained, MaintainAndSave, Snapshot
    <2>2. f \in CoreType /\ f.dirty = {}
      BY <1>1, FlushFacts, CoreFacts
    <2> HIDE DEF f
    <2>3. Maintain(f).dirty = {}
      BY <2>2, MaintainFacts, CoreFacts
    <2>4. dirty' = {} /\ track' = Maintain(f).track
      BY <2>1, <2>3 DEF Become
    <2>5. snap'.track = Saved(track') /\ snap'.applied = applied'
      BY <2>1, <2>4
    <2>6. Saved(track') = Saved(track)'
      BY DEF Saved, Closed
    <2> QED
      BY <2>1, <2>4, <2>5, <2>6 DEF Ended
  <1>3. CASE FeedEnds
    <2>1. FlushDirty(Core, TRUE).dirty = {}
      BY <1>1, FlushFacts, CoreFacts
    <2> QED
      BY <1>3, <2>1 DEF FeedEnds, Become, Ended
  <1>4. CASE Save
    <2>1. loop' = "last" => FALSE
      BY <1>4 DEF Save
    <2>2. loop' = "stopped" => dirty' = {}
      BY <1>4 DEF Save, Ended, core
    <2> QED
      BY <2>1, <2>2 DEF Ended
  <1>5. CASE ~(Drained \/ FeedEnds \/ Save) /\ loop' \in {"last", "stopped"}
    <2>1. loop' = loop /\ UNCHANGED <<track, dirty, snap, applied>>
      BY <1>5 DEF Next, vars, Start, Reader, Read, ReaderEnds, Forwarder, Forward, EvictOldest,
                  PutAgain, ForwarderEnds, Loop, HandleEvent, Flush, Tick, Break, Await, Time,
                  Signal, Restart, Feed, MaintainAndSave, core
    <2>2. Saved(track)' = Saved(track)
      BY <2>1 DEF Saved, Closed
    <2> QED
      BY <1>5, <2>1, <2>2 DEF Ended
  <1>6. CASE loop' \notin {"last", "stopped"}
    BY <1>6 DEF Ended
  <1> QED
    BY <1>2, <1>3, <1>4, <1>5, <1>6

\* The invariant holds in the beginning.
LEMMA InitIInv == Init => IInv
  <1> SUFFICES ASSUME Init PROVE IInv
    OBVIOUS
  <1>1. Typed
    BY InitTyped
  <1>2. /\ rd = [up |-> FALSE, pos |-> 0] /\ in = <<>> /\ queue = <<>> /\ fwd = Idle
        /\ applied = <<>> /\ dirty = {} /\ inherited = {} /\ due = {} /\ snap = Nothing /\ disk = Nothing
        /\ gone = [dropped |-> {}, lost |-> {}] /\ track = Nothing.track
        /\ loop = IF mode = "live" THEN "start" ELSE "feed"
    BY DEF Init
  <1>3. Resting
    BY <1>1, <1>2 DEF Resting, Live, Typed, TypedLoop
  <1>4. Held = {} /\ rd.pos = 0 /\ disk.pos = 0 /\ disk.applied = <<>> /\ gone.dropped = {} /\ gone.lost = {}
    BY <1>2 DEF Held, Idle, Nothing
  <1>5. InOrder
    BY <1>2, <1>4, EmptyFacts DEF InOrder, Before
  <1>6. Kept
    <2>1. 1..0 = {} /\ OnTheWay = {}
      BY <1>2, <1>4, EmptyFacts DEF OnTheWay
    <2> QED
      BY <1>4, <2>1, EmptyFacts DEF Kept
  <1>7. SavedInOrder
    BY <1>2, <1>4, EmptyFacts DEF SavedInOrder, Complete, Behind
  <1>8. DirtyExact
    BY <1>2, ClosedFacts DEF DirtyExact, Nothing
  <1>9. Ended
    BY <1>2 DEF Ended
  <1> QED
    BY <1>1, <1>3, <1>5, <1>6, <1>7, <1>8, <1>9 DEF IInv

\* And in every step.
LEMMA StepIInv == IInv /\ [Next]_vars => IInv'
  <1> SUFFICES ASSUME IInv, [Next]_vars PROVE IInv'
    OBVIOUS
  <1>1. Typed /\ Resting /\ Flow /\ DirtyExact /\ Ended
    BY DEF IInv, Flow
  <1>2. TypedFlow' /\ TypedCore' /\ DirtyExact'
    BY <1>1, FlowTypedStep, CoreStep
  <1>3. Typed'
    BY <1>1, <1>2, SavedStep, LoopTypedStep DEF Typed
  <1> QED
    BY <1>1, <1>2, <1>3, RestingStep, FlowStep, EndedStep DEF IInv, Flow

\* So it always holds.
LEMMA Inductive == Spec => []IInv
  BY InitIInv, StepIInv, PTL DEF Spec

\* The channels never hold more than their length, every position is in the
\* log, ages stay below their limits.
THEOREM PipelineTyped == Spec => []TypeOK
  <1>1. IInv => TypeOK
    BY DEF IInv, Typed, TypedFlow, TypedCore, TypedLoop, TypeOK, TrackType, ForwarderType
  <1> QED
    BY <1>1, Inductive, PTL

\* However many restarts there are and whatever the queue drops, no event is
\* applied twice or out of order, in memory or in what saveState wrote.
THEOREM NoEventTwice == Spec => []AppliedOnce
  <1>1. IInv => AppliedOnce
    BY DEF IInv, InOrder, SavedInOrder, Complete, AppliedOnce
  <1> QED
    BY <1>1, Inductive, PTL

\* Each event that was read is in one place: applied, on its way, counted as
\* dropped by enqueue, or lost with a process.
THEOREM EventsAccounted == Spec => []Accounted
  <1>1. IInv => Accounted
    <2> SUFFICES ASSUME IInv, loop # "start"
                 PROVE  /\ UNION Range(Places) = 1..rd.pos
                        /\ \A i, j \in DOMAIN Places : i # j => Places[i] \cap Places[j] = {}
      BY DEF Accounted
    <2>1. /\ gone.dropped \cap gone.lost = {}
          /\ 1..rd.pos = OnTheWay \cup gone.dropped \cup gone.lost
          /\ (gone.dropped \cup gone.lost) \cap OnTheWay = {}
      BY DEF IInv, Kept
    <2> DEFINE A == Range(applied)
               Q == Range(queue)
               I == Range(in)
               H == {fwd.ev} \ {NoEvent}
               D == gone.dropped
               L == gone.lost
    <2>2. Places = <<A, I, H, Q, D, L>> /\ OnTheWay = A \cup Q \cup H \cup I
      BY DEF Places, OnTheWay, Held
    <2>3. A \cap Q = {} /\ A \cap H = {} /\ A \cap I = {} /\ Q \cap H = {} /\ Q \cap I = {} /\ H \cap I = {}
      <3>1. /\ Before(A, Q) /\ Before(A, H) /\ Before(A, I)
            /\ Before(Q, H) /\ Before(Q, I) /\ Before(H, I)
        BY DEF IInv, InOrder, Held
      <3>2. A \in SUBSET Nat /\ Q \in SUBSET Nat /\ H \in SUBSET Nat
        <4>1. Typed
          BY DEF IInv
        <4> QED
          BY <4>1, FlowFacts DEF Held
      <3> HIDE DEF A, Q, H, I
      <3>3. ASSUME NEW S \in SUBSET Nat, NEW T, Before(S, T) PROVE S \cap T = {}
        <4>1. ASSUME NEW x \in S, x \in T PROVE FALSE
          <5>1. x < x /\ x \in Nat
            BY <3>3, <4>1 DEF Before
          <5> QED
            BY <5>1
        <4> QED
          BY <4>1
      <3> QED
        BY <3>1, <3>2, <3>3
    <2> HIDE DEF A, Q, I, H, D, L
    <2>4. DOMAIN Places = 1..6
      BY <2>2
    <2>5. Places[1] = A /\ Places[2] = I /\ Places[3] = H /\ Places[4] = Q /\ Places[5] = D /\ Places[6] = L
      BY <2>2
    <2>6. \A i \in 1..6 : i = 1 \/ i = 2 \/ i = 3 \/ i = 4 \/ i = 5 \/ i = 6
      OBVIOUS
    <2>7. Range(Places) = {A, I, H, Q, D, L}
      BY <2>4, <2>5, <2>6 DEF Range
    <2>8. UNION Range(Places) = 1..rd.pos
      BY <2>1, <2>2, <2>7 DEF D, L
    <2>9. /\ (D \cup L) \cap (A \cup Q \cup H \cup I) = {} /\ D \cap L = {}
      BY <2>1, <2>2 DEF D, L
    <2>10. ASSUME NEW i \in 1..6, NEW j \in 1..6, i # j PROVE Places[i] \cap Places[j] = {}
      BY <2>3, <2>5, <2>6, <2>9, <2>10
    <2> QED
      BY <2>4, <2>8, <2>10
  <1> QED
    BY <1>1, Inductive, PTL

\* A track is in the dirty set exactly when it has evidence it was not
\* evaluated for, also when it took over another one; flushDirty never meets
\* one that ended.  Tracks that were restored are the exception.
THEOREM DirtySetExact == Spec => []DirtyExact
  <1>1. IInv => DirtyExact
    BY DEF IInv
  <1> QED
    BY <1>1, Inductive, PTL

\* After the drain nothing is left to evaluate, and the last save has it all.
THEOREM StopsClean == Spec => []CleanStop
  <1>1. IInv => CleanStop
    BY DEF IInv, Typed, TypedCore, DirtyExact, Ended, CleanStop
  <1> QED
    BY <1>1, Inductive, PTL

-----------------------------------------------------------------------------
(***************************************************************************)
(* A dirty track is evaluated before it ends.                              *)
(***************************************************************************)
\* The numbers of a track.
LEMMA AgeFacts ==
    ASSUME NEW c \in CoreType, NEW t \in Track
    PROVE  /\ c.track[t].sinceEval \in Nat /\ c.track[t].idle \in Nat
           /\ c.track[t].sinceEval <= EvalInterval
  BY CoreFacts, TrackFacts

\* A track that was just seen waits for two flushes at most.
LEMMA HandleOnTime ==
    ASSUME WindowAssumption, NEW c \in CoreType, NEW e \in EventType, NEW age \in Nat,
           age < EvalInterval, NEW fired \in BOOLEAN, OnTime(c, age, fired)
    PROVE  OnTime(Handle(c, e), age, fired)
  <1> DEFINE h == Handle(c, e)
  <1>1. h \in CoreType
    BY HandleFacts
  <1>2. ASSUME NEW t \in h.dirty
        PROVE  \/ t \in c.dirty /\ h.track[t] = c.track[t]
               \/ h.track[t].idle = 0 /\ h.track[t].sinceEval < EvalInterval
    BY HandleFacts
  <1> HIDE DEF h
  <1>3. ASSUME NEW t \in h.dirty PROVE h.track[t].idle + Wait(h.track[t], age, fired) <= Window
    <2>1. h.track[t].sinceEval \in Nat
      BY <1>1, AgeFacts, CoreFacts
    <2>2. CASE t \in c.dirty /\ h.track[t] = c.track[t]
      BY <2>2 DEF OnTime
    <2>3. CASE h.track[t].idle = 0 /\ h.track[t].sinceEval < EvalInterval
      BY <2>1, <2>3, Intervals DEF Wait, WindowAssumption
    <2> QED
      BY <1>2, <2>2, <2>3
  <1> QED
    BY <1>3 DEF OnTime, h

\* A flush that is due takes the tracks that wait for it.
LEMMA FlushOnTime ==
    ASSUME NEW c \in CoreType, OnTime(c, 0, TRUE)
    PROVE  OnTime(FlushDirty(c, FALSE), 0, FALSE)
  <1> DEFINE f == FlushDirty(c, FALSE)
  <1>1. f \in CoreType /\ \A t \in Track : /\ t \in f.dirty <=> t \in c.dirty /\ ~Due(c, t)
                                           /\ f.track[t] = IF t \in c.dirty /\ t \notin f.dirty
                                                           THEN Scored(c.track[t]) ELSE c.track[t]
    BY FlushFacts
  <1> HIDE DEF f
  <1>2. ASSUME NEW t \in f.dirty PROVE f.track[t].idle + Wait(f.track[t], 0, FALSE) <= Window
    <2>1. t \in Track /\ t \in c.dirty /\ ~Due(c, t) /\ f.track[t] = c.track[t]
      BY <1>1, CoreFacts
    <2>2. c.track[t].sinceEval \in Nat /\ c.track[t].sinceEval # EvalInterval
      BY <2>1, AgeFacts, Intervals DEF Due
    <2>3. c.track[t].idle + Wait(c.track[t], 0, TRUE) <= Window
      BY <2>1 DEF OnTime
    <2>4. Wait(c.track[t], 0, TRUE) = Wait(c.track[t], 0, FALSE)
      BY <2>2 DEF Wait
    <2> QED
      BY <2>1, <2>3, <2>4
  <1> QED
    BY <1>2 DEF OnTime, f

\* A tick that meets only tracks in time misses none.
LEMMA MaintainOnTime ==
    ASSUME NEW c \in CoreType, NEW age \in Nat, age <= EvalInterval, NEW fired \in BOOLEAN,
           OnTime(c, age, fired), Exact(c, inherited), c.missed = FALSE
    PROVE  OnTime(Maintain(c), age, fired) /\ Maintain(c).missed = FALSE
  <1> DEFINE m == Maintain(c)
  <1>1. /\ m \in CoreType
        /\ \A t \in Track :
               /\ t \in m.dirty <=> t \in c.dirty /\ ~(c.track[t].open /\ c.track[t].idle > Window)
               /\ m.track[t] = IF c.track[t].open /\ c.track[t].idle > Window THEN Closed ELSE c.track[t]
        /\ m.missed <=> \/ c.missed
                        \/ \E t \in Track \ inherited :
                               c.track[t].open /\ c.track[t].idle > Window /\ c.track[t].fresh
    BY MaintainFacts
  <1> HIDE DEF m
  <1>2. ASSUME NEW t \in m.dirty PROVE m.track[t].idle + Wait(m.track[t], age, fired) <= Window
    <2>1. t \in Track /\ t \in c.dirty /\ m.track[t] = c.track[t]
      BY <1>1, CoreFacts
    <2> QED
      BY <2>1 DEF OnTime
  <1>3. ASSUME NEW t \in Track \ inherited, c.track[t].idle > Window, c.track[t].fresh PROVE FALSE
    <2>1. t \in c.dirty
      BY <1>3 DEF Exact
    <2>2. c.track[t].idle + Wait(c.track[t], age, fired) <= Window
      BY <2>1 DEF OnTime
    <2>3. Wait(c.track[t], age, fired) \in Nat
      BY AgeFacts, Intervals DEF Wait
    <2> QED
      BY <1>3, <2>2, <2>3, AgeFacts, Intervals
  <1>4. m.missed = FALSE
    <2>1. m.missed \in BOOLEAN
      BY <1>1, CoreFacts
    <2>2. ~m.missed
      BY <1>1, <1>3
    <2> QED
      BY <2>1, <2>2
  <1> QED
    BY <1>2, <1>4 DEF OnTime, m

\* What a track's numbers are after n ticks.
LEMMA OlderAges ==
    ASSUME NEW c \in CoreType, NEW inh, Exact(c, inh), NEW n \in Nat, NEW t \in c.dirty
    PROVE  /\ Older(c.track, n)[t].sinceEval = IF c.track[t].sinceEval + n <= EvalInterval
                                               THEN c.track[t].sinceEval + n ELSE EvalInterval
           /\ Older(c.track, n)[t].idle = IF c.track[t].idle + n <= Window + 1
                                          THEN c.track[t].idle + n ELSE Window + 1
           /\ c.track[t].sinceEval \in Nat /\ c.track[t].sinceEval <= EvalInterval /\ c.track[t].idle \in Nat
  <1>1. t \in Track /\ c.track[t].open
    BY CoreFacts DEF Exact
  <1> QED
    BY <1>1, OlderFacts, CoreFacts, AgeFacts

\* One tick of the clock.
LEMMA TimeOnTime ==
    ASSUME NEW c \in CoreType, NEW inh, Exact(c, inh), NEW age \in Nat, age < EvalInterval,
           OnTime(c, age, FALSE), NEW t \in c.dirty
    PROVE  Older(c.track, 1)[t].idle
               + (IF age + 1 = EvalInterval THEN Wait(Older(c.track, 1)[t], 0, TRUE)
                                            ELSE Wait(Older(c.track, 1)[t], age + 1, FALSE)) <= Window
  <1>1. 1 \in Nat
    OBVIOUS
  <1>2. c.track[t].idle + Wait(c.track[t], age, FALSE) <= Window
    BY DEF OnTime
  <1> DEFINE s == c.track[t].sinceEval
             i == c.track[t].idle
             r == Older(c.track, 1)[t]
  <1>3. /\ r.sinceEval = IF s + 1 <= EvalInterval THEN s + 1 ELSE EvalInterval
        /\ r.idle = IF i + 1 <= Window + 1 THEN i + 1 ELSE Window + 1
        /\ s \in Nat /\ s <= EvalInterval /\ i \in Nat
    BY <1>1, OlderAges
  <1>4. i + (IF s >= age THEN EvalInterval ELSE 2 * EvalInterval) - age <= Window
    BY <1>2, <1>3, Intervals DEF Wait
  <1> HIDE DEF s, i, r
  <1>5. CASE age + 1 = EvalInterval
    BY <1>3, <1>4, <1>5, Intervals DEF Wait, r
  <1>6. CASE age + 1 # EvalInterval
    BY <1>3, <1>4, <1>6, Intervals DEF Wait, r
  <1> QED
    BY <1>5, <1>6 DEF r

\* The clock of a replay jumps: a track is due by then, or has been seen since.
Late(c) == \A t \in c.dirty : \/ c.track[t].sinceEval = EvalInterval
                              \/ c.track[t].idle + EvalInterval <= Window

\* Before a flush of a replay.
LEMMA JumpLate ==
    ASSUME WindowAssumption, NEW c \in CoreType, NEW inh, Exact(c, inh), NEW age \in Nat,
           age < EvalInterval, OnTime(c, age, FALSE), NEW n \in {0, 1, Window + 1},
           NEW t \in c.dirty
    PROVE  /\ age + n >= EvalInterval =>
                  \/ Older(c.track, n)[t].sinceEval = EvalInterval
                  \/ Older(c.track, n)[t].idle + EvalInterval <= Window
           /\ age + n < EvalInterval =>
                  Older(c.track, n)[t].idle + Wait(Older(c.track, n)[t], age + n, FALSE) <= Window
  <1>1. n \in Nat
    BY Intervals
  <1>2. c.track[t].idle + Wait(c.track[t], age, FALSE) <= Window
    BY DEF OnTime
  <1> DEFINE s == c.track[t].sinceEval
             i == c.track[t].idle
             r == Older(c.track, n)[t]
  <1>3. /\ r.sinceEval = IF s + n <= EvalInterval THEN s + n ELSE EvalInterval
        /\ r.idle = IF i + n <= Window + 1 THEN i + n ELSE Window + 1
        /\ s \in Nat /\ s <= EvalInterval /\ i \in Nat
    BY <1>1, OlderAges
  <1>4. i + (IF s >= age THEN EvalInterval ELSE 2 * EvalInterval) - age <= Window
    BY <1>2, <1>3, Intervals DEF Wait
  <1> HIDE DEF s, i, r
  <1>5. Wait(r, age + n, FALSE) = (IF r.sinceEval >= age + n THEN EvalInterval ELSE 2 * EvalInterval)
                                      - (age + n)
    BY DEF Wait
  <1>6. /\ age + n >= EvalInterval => r.sinceEval = EvalInterval \/ r.idle + EvalInterval <= Window
        /\ age + n < EvalInterval => r.idle + ((IF r.sinceEval >= age + n THEN EvalInterval ELSE 2 * EvalInterval)
                                               - (age + n)) <= Window
    <2>1. CASE n = 0
      BY <1>3, <1>4, <2>1, Intervals
    <2>2. CASE n = 1
      BY <1>3, <1>4, <2>2, Intervals DEF WindowAssumption
    <2>3. CASE n = Window + 1
      BY <1>3, <2>3, Intervals DEF WindowAssumption
    <2> QED
      BY <2>1, <2>2, <2>3
  <1> QED
    BY <1>5, <1>6 DEF r

\* A track that takes in an event is in time for its flush.
LEMMA HandleLate ==
    ASSUME WindowAssumption, NEW c \in CoreType, NEW e \in EventType, Late(c)
    PROVE  Late(Handle(c, e))
  <1> DEFINE h == Handle(c, e)
  <1>1. ASSUME NEW t \in h.dirty
        PROVE  \/ t \in c.dirty /\ h.track[t] = c.track[t]
               \/ h.track[t].idle = 0 /\ h.track[t].sinceEval < EvalInterval
    BY HandleFacts
  <1> HIDE DEF h
  <1>2. ASSUME NEW t \in h.dirty
        PROVE  h.track[t].sinceEval = EvalInterval \/ h.track[t].idle + EvalInterval <= Window
    <2>1. CASE t \in c.dirty /\ h.track[t] = c.track[t]
      BY <2>1 DEF Late
    <2>2. CASE h.track[t].idle = 0
      BY <2>2, Intervals DEF WindowAssumption
    <2> QED
      BY <1>1, <2>1, <2>2
  <1> QED
    BY <1>2 DEF Late, h

\* The flush leaves those that were seen since.
LEMMA FlushLate ==
    ASSUME NEW c \in CoreType, Late(c)
    PROVE  OnTime(FlushDirty(c, FALSE), 0, FALSE)
  <1> DEFINE f == FlushDirty(c, FALSE)
  <1>1. f \in CoreType /\ \A t \in Track : /\ t \in f.dirty <=> t \in c.dirty /\ ~Due(c, t)
                                           /\ f.track[t] = IF t \in c.dirty /\ t \notin f.dirty
                                                           THEN Scored(c.track[t]) ELSE c.track[t]
    BY FlushFacts
  <1> HIDE DEF f
  <1>2. ASSUME NEW t \in f.dirty PROVE f.track[t].idle + Wait(f.track[t], 0, FALSE) <= Window
    <2>1. t \in Track /\ t \in c.dirty /\ ~Due(c, t) /\ f.track[t] = c.track[t]
      BY <1>1, CoreFacts
    <2>2. c.track[t].sinceEval \in Nat /\ c.track[t].sinceEval # EvalInterval
      BY <2>1, AgeFacts, Intervals DEF Due
    <2>3. c.track[t].idle + EvalInterval <= Window
      BY <2>1, <2>2 DEF Late
    <2> QED
      BY <2>1, <2>2, <2>3, Intervals DEF Wait
  <1> QED
    BY <1>2 DEF OnTime, f

\* An event of a replay with the flush and the tick after it.
LEMMA FeedInTime ==
    ASSUME WindowAssumption, IInv, InTime, Feed
    PROVE  InTime'
  <1>0. PICK n \in {0, 1, Window + 1} : \E s :
            /\ s = IF applied = <<>> THEN since ELSE Age(since, n)
            /\ Become(FeedSteps([Core EXCEPT !.track = Older(@, n)], log[rd.pos + 1], s))
            /\ since' = [flush |-> IF s.flush >= EvalInterval THEN 0 ELSE s.flush,
                         tick |-> IF s.tick >= TickInterval THEN 0 ELSE s.tick]
    BY DEF Feed
  <1>1. PICK s :
            /\ s = IF applied = <<>> THEN since ELSE Age(since, n)
            /\ Become(FeedSteps([Core EXCEPT !.track = Older(@, n)], log[rd.pos + 1], s))
            /\ since' = [flush |-> IF s.flush >= EvalInterval THEN 0 ELSE s.flush,
                         tick |-> IF s.tick >= TickInterval THEN 0 ELSE s.tick]
    BY <1>0
  <1>2. /\ Typed /\ Resting /\ Core \in CoreType /\ Core.dirty = dirty /\ Core.track = track
        /\ Core.missed = missed /\ missed = FALSE /\ inherited = {} /\ inherited' = inherited
        /\ Exact(Core, inherited) /\ due = {} /\ due' = {} /\ ~Live /\ loop # "start" /\ ~Live'
        /\ rd.pos < Len(log) /\ log' = log
    BY CoreTyped, ExactCore DEF IInv, Typed, InTime, Feed, Resting, Live, stop
  <1>3. n \in Nat /\ since.flush \in Nat /\ since.flush <= EvalInterval
    BY <1>2, Intervals DEF Typed, TypedLoop
  <1>4. PICK c : c = [Core EXCEPT !.track = Older(@, n)]
    OBVIOUS
  <1>5. /\ c \in CoreType /\ Exact(c, inherited) /\ c.missed = FALSE
        /\ c.track = Older(Core.track, n) /\ c.dirty = Core.dirty
    BY <1>2, <1>3, <1>4, OlderExact
  <1>6. /\ s.flush \in Nat /\ s.flush <= EvalInterval
        /\ s.flush >= EvalInterval => Late(c)
        /\ s.flush < EvalInterval => OnTime(c, s.flush, FALSE)
    <2>1. CASE applied = <<>>
      <3>1. s.flush = since.flush /\ dirty = {}
        BY <1>1, <1>2, <2>1 DEF InTime
      <3> QED
        BY <1>2, <1>3, <1>5, <3>1 DEF Late, OnTime
    <2>2. CASE applied # <<>>
      <3>1. since.flush < EvalInterval /\ OnTime(Core, since.flush, FALSE)
        <4>1. "flush" \notin due
          BY <1>2
        <4>2. OnTime(Core, since.flush, FALSE)
          BY <4>1 DEF InTime, OnTime, Wait
        <4> QED
          BY <1>2, <2>2, <4>2 DEF InTime
      <3>2. s.flush = IF since.flush + n <= EvalInterval THEN since.flush + n ELSE EvalInterval
        <4>1. Age(since, n).flush = IF since.flush + n <= EvalInterval THEN since.flush + n
                                    ELSE EvalInterval
          BY <1>2, <1>3, SinceFacts, Zenon
        <4>2. s = Age(since, n)
          BY <1>1, <2>2
        <4> QED
          BY <4>1, <4>2
      <3>3. ASSUME s.flush >= EvalInterval PROVE Late(c)
        <4>1. since.flush + n >= EvalInterval
          BY <1>3, <3>2, <3>3, Intervals
        <4>2. ASSUME NEW t \in Core.dirty
              PROVE  \/ Older(Core.track, n)[t].sinceEval = EvalInterval
                     \/ Older(Core.track, n)[t].idle + EvalInterval <= Window
          BY <1>2, <1>3, <3>1, <4>1, JumpLate, Zenon
        <4> QED
          BY <1>5, <4>2 DEF Late
      <3>4. ASSUME s.flush < EvalInterval PROVE OnTime(c, s.flush, FALSE)
        <4>1. s.flush = since.flush + n
          BY <1>3, <3>2, <3>4, Intervals
        <4>2. since.flush + n < EvalInterval
          BY <3>4, <4>1
        <4>3. ASSUME NEW t \in Core.dirty
              PROVE  Older(Core.track, n)[t].idle + Wait(Older(Core.track, n)[t], since.flush + n, FALSE)
                         <= Window
          BY <1>2, <1>3, <3>1, <4>2, JumpLate, Zenon
        <4> QED
          BY <1>5, <4>1, <4>3 DEF OnTime
      <3>5. s.flush \in Nat /\ s.flush <= EvalInterval
        BY <1>3, <3>2, Intervals
      <3> QED
        BY <3>3, <3>4, <3>5
    <2> QED
      BY <2>1, <2>2
  <1> DEFINE e == log[rd.pos + 1]
             h == Handle(c, e)
             f == IF s.flush >= EvalInterval THEN FlushDirty(h, FALSE) ELSE h
             m == IF s.tick >= TickInterval THEN Maintain(f) ELSE f
             age == IF s.flush >= EvalInterval THEN 0 ELSE s.flush
  <1>7. Become(m)
    BY <1>1, <1>4 DEF FeedSteps
  <1>8. e \in EventType
    BY <1>2, ReadOn, EventFacts
  <1> HIDE DEF e
  <1>9. inherited \ {e.track} = inherited
    BY <1>2
  <1>10. h \in CoreType /\ Exact(h, inherited) /\ h.missed = FALSE
    BY <1>5, <1>8, <1>9, HandleFacts
  <1>11. /\ s.flush >= EvalInterval => Late(h)
         /\ s.flush < EvalInterval => OnTime(h, s.flush, FALSE)
    <2>1. FALSE \in BOOLEAN /\ s.flush \in Nat /\ c \in CoreType
      BY <1>5, <1>6
    <2>2. ASSUME s.flush >= EvalInterval PROVE Late(Handle(c, e))
      BY <1>6, <1>8, <2>1, <2>2, HandleLate, Zenon
    <2>3. ASSUME s.flush < EvalInterval PROVE OnTime(Handle(c, e), s.flush, FALSE)
      BY <1>6, <1>8, <2>1, <2>3, HandleOnTime, Zenon
    <2> QED
      BY <2>2, <2>3
  <1> HIDE DEF h
  <1>12. f \in CoreType /\ Exact(f, inherited) /\ f.missed = FALSE /\ OnTime(f, age, FALSE)
    <2>1. CASE s.flush >= EvalInterval
      <3>1. Late(h)
        BY <1>11, <2>1
      <3>2. OnTime(FlushDirty(h, FALSE), 0, FALSE)
        BY <1>10, <3>1, FlushLate, Zenon
      <3>3. FlushDirty(h, FALSE) \in CoreType /\ Exact(FlushDirty(h, FALSE), inherited)
        BY <1>10, FlushFacts, FlushExact
      <3>4. FlushDirty(h, FALSE).missed = h.missed
        BY <1>10, FlushFacts
      <3> QED
        BY <1>10, <2>1, <3>2, <3>3, <3>4
    <2>2. CASE ~(s.flush >= EvalInterval)
      <3>1. s.flush < EvalInterval
        BY <1>6, <2>2, Intervals
      <3> QED
        BY <1>10, <1>11, <2>2, <3>1
    <2> QED
      BY <2>1, <2>2
  <1>13. age \in Nat /\ age < EvalInterval /\ since'.flush = age
    BY <1>1, <1>6, Intervals
  <1> HIDE DEF f, age
  <1>14. m \in CoreType /\ m.missed = FALSE /\ OnTime(m, age, FALSE)
    <2>1. CASE s.tick >= TickInterval
      <3>1. FALSE \in BOOLEAN /\ age <= EvalInterval
        BY <1>13, Intervals
      <3>2. OnTime(Maintain(f), age, FALSE) /\ Maintain(f).missed = FALSE
        BY <1>12, <1>13, <3>1, MaintainOnTime, Zenon
      <3>3. Maintain(f) \in CoreType
        BY <1>12, MaintainFacts
      <3> QED
        BY <2>1, <3>2, <3>3
    <2>2. CASE ~(s.tick >= TickInterval)
      BY <1>12, <2>2
    <2> QED
      BY <2>1, <2>2
  <1> HIDE DEF m
  <1>15. missed' = FALSE /\ OnTime(Core, since.flush, "flush" \in due)'
    BY <1>2, <1>7, <1>13, <1>14 DEF Become, OnTime, Core, Wait
  <1>16. applied' # <<>>
    <2>1. applied \in Seq(Event) /\ rd.pos + 1 \in Event /\ applied' = Append(applied, rd.pos + 1)
      BY <1>2, ReadOn, FlowFacts DEF Feed
    <2>2. Len(applied') = Len(applied) + 1 /\ Len(applied) \in Nat
      BY <2>1, AppendFacts, SeqFacts
    <2>3. Len(applied') # 0 /\ Len(<<>>) = 0
      BY <2>2, EmptyFacts
    <2> QED
      BY <2>3, Zenon
  <1> QED
    BY <1>2, <1>13, <1>15, <1>16 DEF InTime

\* The tracks in memory are in time, whatever the ticker of the flushes says.
LEMMA CoreOnTime ==
    ASSUME InTime, NEW fired \in BOOLEAN, fired <=> "flush" \in due
    PROVE  OnTime(Core, since.flush, fired)
  <1>1. \A t \in Core.dirty :
            Core.track[t].idle + Wait(Core.track[t], since.flush, "flush" \in due) <= Window
    BY DEF InTime, OnTime
  <1> QED
    BY <1>1 DEF OnTime, Wait

\* A core in time makes the next state so.
LEMMA BecomeOnTime ==
    ASSUME NEW c \in CoreType, Become(c), c.missed = FALSE,
           NEW age, since'.flush = age, NEW fired \in BOOLEAN, fired <=> "flush" \in due',
           OnTime(c, age, fired)
    PROVE  missed' = FALSE /\ OnTime(Core, since.flush, "flush" \in due)'
  <1>1. track' = c.track /\ dirty' = c.dirty /\ missed' = c.missed
    BY DEF Become
  <1>2. Core' = [track |-> c.track, dirty |-> c.dirty, missed |-> c.missed]
    BY <1>1 DEF Core
  <1>3. \A t \in c.dirty : c.track[t].idle + Wait(c.track[t], age, fired) <= Window
    BY DEF OnTime
  <1> QED
    BY <1>1, <1>2, <1>3 DEF OnTime, Wait

\* What a step of a running process needs to know.
LEMMA RunningFacts ==
    ASSUME IInv, InTime, Live, loop # "start"
    PROVE  /\ Typed /\ Core \in CoreType /\ Exact(Core, inherited) /\ Core.missed = FALSE
           /\ Core.dirty = dirty /\ Core.track = track
           /\ since.flush \in Nat /\ since.flush < EvalInterval
  <1>1. Typed /\ TypedCore /\ DirtyExact
    BY DEF IInv, Typed
  <1>2. since.flush \in Nat
    BY <1>1, Intervals DEF Typed, TypedLoop
  <1> QED
    BY <1>1, <1>2, CoreTyped, ExactCore DEF InTime

\* An event in live mode.
LEMMA EventInTime ==
    ASSUME WindowAssumption, IInv, InTime, HandleEvent
    PROVE  InTime'
  <1>1. /\ loop # "start" /\ loop' = loop /\ Live /\ Live' /\ UNCHANGED <<since, due>> /\ queue # <<>>
    BY DEF HandleEvent, IInv, Resting, Live
  <1> DEFINE e == log[Head(queue)]
  <1>2. Become(Handle(Core, e))
    BY DEF HandleEvent
  <1>3. e \in EventType
    BY <1>1, TailFacts, EventFacts DEF IInv, Typed, TypedFlow
  <1> HIDE DEF e
  <1>4. /\ Core \in CoreType /\ Core.missed = FALSE
        /\ since.flush \in Nat /\ since.flush < EvalInterval
    BY <1>1, RunningFacts
  <1>5. PICK fired \in BOOLEAN : fired <=> "flush" \in due
    OBVIOUS
  <1>6. OnTime(Core, since.flush, fired)
    BY <1>5, CoreOnTime
  <1>7. OnTime(Handle(Core, e), since.flush, fired)
    BY <1>3, <1>4, <1>6, HandleOnTime, Zenon
  <1>8. Handle(Core, e) \in CoreType /\ Handle(Core, e).missed = FALSE
    BY <1>3, <1>4, HandleFacts
  <1>9. since'.flush = since.flush /\ (fired <=> "flush" \in due')
    BY <1>1, <1>5
  <1>10. missed' = FALSE /\ OnTime(Core, since.flush, "flush" \in due)'
    BY <1>2, <1>7, <1>8, <1>9, BecomeOnTime, Zenon
  <1> QED
    BY <1>1, <1>4, <1>9, <1>10 DEF InTime

\* The ticker of the flushes.
LEMMA FlushInTime ==
    ASSUME IInv, InTime, Flush
    PROVE  InTime'
  <1>1. /\ loop # "start" /\ loop' = loop /\ Live /\ Live' /\ since' = since /\ "flush" \in due
        /\ Become(FlushDirty(Core, FALSE)) /\ "flush" \notin due' /\ since.flush = 0
    BY DEF Flush, IInv, Resting, Live, InTime, stop
  <1>2. Core \in CoreType /\ Core.missed = FALSE /\ since.flush < EvalInterval
    BY <1>1, RunningFacts
  <1>3. TRUE \in BOOLEAN /\ FALSE \in BOOLEAN
    OBVIOUS
  <1>4. OnTime(Core, since.flush, TRUE)
    BY <1>1, <1>3, CoreOnTime
  <1>5. OnTime(FlushDirty(Core, FALSE), 0, FALSE)
    BY <1>1, <1>2, <1>4, FlushOnTime
  <1>6. FlushDirty(Core, FALSE) \in CoreType /\ FlushDirty(Core, FALSE).missed = FALSE
    BY <1>2, FlushFacts
  <1>7. since'.flush = 0
    BY <1>1
  <1>8. FALSE <=> "flush" \in due'
    BY <1>1
  <1>9. missed' = FALSE /\ OnTime(Core, since.flush, "flush" \in due)'
    BY <1>1, <1>3, <1>5, <1>6, <1>7, <1>8, BecomeOnTime, Zenon
  <1> QED
    BY <1>1, <1>2, <1>9 DEF InTime

\* The ticker of the ends and the saves.
LEMMA TickInTime ==
    ASSUME IInv, InTime, Tick
    PROVE  InTime'
  <1>1. /\ loop # "start" /\ loop' # "start" /\ Live /\ Live' /\ since' = since
        /\ Become(Maintain(Core))
        /\ "flush" \in due <=> "flush" \in due'
    BY DEF Tick, MaintainAndSave, IInv, Resting, Live, stop
  <1>2. /\ Core \in CoreType /\ Core.missed = FALSE /\ Exact(Core, inherited)
        /\ since.flush \in Nat /\ since.flush < EvalInterval
    BY <1>1, RunningFacts
  <1>3. PICK fired \in BOOLEAN : fired <=> "flush" \in due
    OBVIOUS
  <1>4. OnTime(Core, since.flush, fired)
    BY <1>3, CoreOnTime
  <1>5. since.flush <= EvalInterval
    BY <1>2, Intervals
  <1>6. OnTime(Maintain(Core), since.flush, fired) /\ Maintain(Core).missed = FALSE
    BY <1>2, <1>4, <1>5, MaintainOnTime, Zenon
  <1>7. Maintain(Core) \in CoreType
    BY <1>2, MaintainFacts
  <1>8. since'.flush = since.flush /\ (fired <=> "flush" \in due')
    BY <1>1, <1>3
  <1>9. missed' = FALSE /\ OnTime(Core, since.flush, "flush" \in due)'
    BY <1>1, <1>6, <1>7, <1>8, BecomeOnTime, Zenon
  <1> QED
    BY <1>1, <1>2, <1>9 DEF InTime

\* The last flush leaves nothing that could end unevaluated.
LEMMA DrainedInTime ==
    ASSUME IInv, InTime, Drained
    PROVE  InTime'
  <1> DEFINE f == FlushDirty(Core, TRUE)
  <1>1. /\ loop # "start" /\ loop' # "start" /\ Live /\ Live' /\ UNCHANGED <<since, due>>
        /\ Become(Maintain(f))
    BY DEF Drained, MaintainAndSave, IInv, Resting, Live, stop
  <1>2. /\ Core \in CoreType /\ Core.missed = FALSE /\ Exact(Core, inherited)
        /\ since.flush \in Nat /\ since.flush < EvalInterval
    BY <1>1, RunningFacts
  <1>3. f \in CoreType /\ f.missed = FALSE /\ f.dirty = {} /\ Exact(f, inherited)
    <2>1. TRUE \in BOOLEAN
      OBVIOUS
    <2>2. f \in CoreType /\ f.missed = Core.missed /\ \A t \in Track : t \notin f.dirty
      BY <1>2, <2>1, FlushFacts
    <2>3. Exact(f, inherited)
      BY <1>2, <2>1, FlushExact, Zenon
    <2> HIDE DEF f
    <2> QED
      BY <1>2, <2>2, <2>3, CoreFacts
  <1> HIDE DEF f
  <1>4. PICK fired \in BOOLEAN : fired <=> "flush" \in due
    OBVIOUS
  <1>5. OnTime(f, since.flush, fired) /\ since.flush <= EvalInterval
    BY <1>2, <1>3, Intervals DEF OnTime
  <1>6. OnTime(Maintain(f), since.flush, fired) /\ Maintain(f).missed = FALSE
    BY <1>2, <1>3, <1>5, MaintainOnTime, Zenon
  <1>7. Maintain(f) \in CoreType
    BY <1>3, MaintainFacts
  <1>8. since'.flush = since.flush /\ (fired <=> "flush" \in due')
    BY <1>1, <1>4
  <1>9. missed' = FALSE /\ OnTime(Core, since.flush, "flush" \in due)'
    BY <1>1, <1>6, <1>7, <1>8, BecomeOnTime, Zenon
  <1> QED
    BY <1>1, <1>2, <1>8, <1>9 DEF InTime

\* A second passes: what fires is due, and the ages go on from nothing.
LEMMA TimeInTime ==
    ASSUME IInv, InTime, Time
    PROVE  InTime'
  <1>1. /\ loop # "start" /\ loop' = loop /\ Live /\ Live' /\ due = {}
        /\ track' = Older(track, 1) /\ UNCHANGED <<dirty, missed>>
    BY DEF Time, Live, stop
  <1>2. /\ Core \in CoreType /\ Core.missed = FALSE /\ Exact(Core, inherited) /\ Typed
        /\ since.flush \in Nat /\ since.flush < EvalInterval
        /\ Core.track = track /\ Core.dirty = dirty
    BY <1>1, RunningFacts
  <1>3. 1 \in Nat /\ FALSE \in BOOLEAN
    OBVIOUS
  <1>4. OnTime(Core, since.flush, FALSE)
    BY <1>1, <1>3, CoreOnTime
  <1>5. Age(since, 1).flush = IF since.flush + 1 <= EvalInterval THEN since.flush + 1 ELSE EvalInterval
    BY <1>2, <1>3, SinceFacts, Zenon
  <1>6. Age(since, 1).flush = since.flush + 1
    BY <1>2, <1>5, Intervals
  <1>7. /\ since'["flush"] = IF "flush" \in due' THEN 0 ELSE Age(since, 1)["flush"]
        /\ "flush" \in due' <=> Age(since, 1)["flush"] = EvalInterval
    BY DEF Time
  <1>8. /\ since'.flush = IF since.flush + 1 = EvalInterval THEN 0 ELSE since.flush + 1
        /\ "flush" \in due' <=> since.flush + 1 = EvalInterval
    BY <1>6, <1>7
  <1>9. since'.flush < EvalInterval
    BY <1>2, <1>8, Intervals
  <1>10. Core' = [track |-> Older(track, 1), dirty |-> dirty, missed |-> missed]
    BY <1>1 DEF Core
  <1>11. ASSUME NEW t \in dirty
         PROVE  Older(track, 1)[t].idle
                    + (IF since.flush + 1 = EvalInterval THEN Wait(Older(track, 1)[t], 0, TRUE)
                       ELSE Wait(Older(track, 1)[t], since.flush + 1, FALSE)) <= Window
    BY <1>2, <1>4, TimeOnTime
  <1>12. OnTime(Core, since.flush, "flush" \in due)'
    <2>1. CASE since.flush + 1 = EvalInterval
      <3>1. since'.flush = 0 /\ "flush" \in due'
        BY <1>8, <2>1
      <3>2. \A t \in dirty : Older(track, 1)[t].idle + Wait(Older(track, 1)[t], 0, TRUE) <= Window
        BY <1>11, <2>1
      <3> QED
        BY <1>10, <3>1, <3>2 DEF OnTime, Wait
    <2>2. CASE since.flush + 1 # EvalInterval
      <3>1. since'.flush = since.flush + 1 /\ "flush" \notin due'
        BY <1>8, <2>2
      <3>2. \A t \in dirty : Older(track, 1)[t].idle
                                 + Wait(Older(track, 1)[t], since.flush + 1, FALSE) <= Window
        BY <1>11, <2>2
      <3> QED
        BY <1>10, <3>1, <3>2 DEF OnTime, Wait
    <2> QED
      BY <2>1, <2>2
  <1> QED
    BY <1>1, <1>8, <1>9, <1>12 DEF InTime

\* Nothing is dirty after the start, a restart and the end of a replay.
LEMMA EmptyInTime ==
    ASSUME IInv, InTime, Start \/ Restart \/ FeedEnds
    PROVE  InTime'
  <1>1. CASE Start
    <2>1. /\ dirty' = {} /\ missed' = FALSE /\ due' = {} /\ Live'
          /\ since' = [flush |-> 0, tick |-> 0]
      BY <1>1 DEF Start, IInv, Resting, InTime, Live
    <2> QED
      BY <2>1, Intervals DEF InTime, OnTime, Core
  <1>2. CASE Restart
    BY <1>2 DEF Restart, InTime, OnTime, Core
  <1>3. CASE FeedEnds
    <2>1. Core \in CoreType /\ Core.missed = FALSE /\ ~Live /\ loop # "start"
      BY <1>3, CoreTyped DEF FeedEnds, IInv, Typed, Resting, InTime
    <2>2. TRUE \in BOOLEAN
      OBVIOUS
    <2>3. /\ FlushDirty(Core, TRUE) \in CoreType /\ FlushDirty(Core, TRUE).missed = FALSE
          /\ \A t \in Track : t \notin FlushDirty(Core, TRUE).dirty
      BY <2>1, <2>2, FlushFacts
    <2>4. FlushDirty(Core, TRUE).dirty = {}
      BY <2>3, CoreFacts
    <2>5. dirty' = {} /\ missed' = FALSE
      BY <1>3, <2>3, <2>4 DEF FeedEnds, Become
    <2>6. UNCHANGED <<since, applied, due, mode>> /\ loop' # "start"
      BY <1>3 DEF FeedEnds, stop
    <2> QED
      BY <2>1, <2>5, <2>6 DEF InTime, OnTime, Core, Live
  <1> QED
    BY <1>1, <1>2, <1>3

\* The other steps leave the tracks and the time alone.
LEMMA QuietInTime ==
    ASSUME IInv, InTime,
           Reader \/ Forwarder \/ Save \/ Break \/ Await \/ Signal \/ UNCHANGED vars
    PROVE  InTime'
  <1>1. UNCHANGED <<track, dirty, missed, since, due, applied, mode>>
    BY DEF Reader, Read, ReaderEnds, Forwarder, Forward, EvictOldest, PutAgain, ForwarderEnds,
           Save, Break, Await, Signal, core, stop, vars
  <1>2. loop' # "start" => loop # "start"
    BY DEF Reader, Read, ReaderEnds, Forwarder, Forward, EvictOldest, PutAgain, ForwarderEnds,
           Save, Break, Await, Signal, core, stop, vars
  <1> QED
    BY <1>1, <1>2 DEF InTime, OnTime, Wait, Core, Live

\* No track ends before it was evaluated for what it took in since its last
\* evaluation, in live mode and in a replay: the window of the idle tracks
\* leaves time for the two flushes a track may have to wait for.
THEOREM EvidenceEvaluated ==
    ASSUME WindowAssumption
    PROVE  Spec => []EndedEvaluated
  <1>1. Init => InTime
    <2> SUFFICES ASSUME Init PROVE InTime
      OBVIOUS
    <2>1. missed = FALSE /\ due = {} /\ dirty = {} /\ applied = <<>>
      BY DEF Init
    <2>2. ~(loop # "start" /\ (Live \/ applied # <<>>))
      BY <2>1 DEF Init, Live
    <2> QED
      BY <2>1, <2>2 DEF InTime, OnTime, Core
  <1>2. IInv /\ InTime /\ [Next]_vars => InTime'
    BY EventInTime, FlushInTime, TickInTime, DrainedInTime, TimeInTime, EmptyInTime, QuietInTime,
       FeedInTime DEF Next, Loop
  <1>3. InTime => EndedEvaluated
    BY DEF InTime, EndedEvaluated
  <1>4. Spec => [](IInv /\ InTime)
    BY <1>1, <1>2, InitIInv, StepIInv, PTL DEF Spec
  <1> QED
    BY <1>3, <1>4, PTL

=============================================================================
