------------------------------- MODULE Delivery -------------------------------
(***************************************************************************)
(* internal/alert: the sinks of a Dispatcher.  Observe and Ended hand each *)
(* alert to fanout, which puts it on the bounded queue of every sink that  *)
(* wants its level; a goroutine per sink takes alerts off the queue and    *)
(* delivers them, with retries; Close stops them at the end of app.Run.    *)
(*                                                                         *)
(* Observe and Close run on one goroutine (the emitter).  It interleaves   *)
(* with the goroutines of the sinks, with the signal that cancels the      *)
(* context of Start, and with the timers, which may fire at any moment.    *)
(***************************************************************************)
EXTENDS Naturals, Sequences, FiniteSets, SequencesExt

CONSTANTS
    Sinks,       \* the registered sinks, a sequence of [name, minLevel, queue]
    Retries,     \* Len(Options.RetryBackoff)
    MaxAlerts    \* bound of the number of alerts

ASSUME DeliveryAssumption ==
    /\ Sinks \in Seq([name : STRING, minLevel : Nat, queue : Nat \ {0}])
    /\ Retries \in Nat /\ MaxAlerts \in Nat \ {0}

Sink == DOMAIN Sinks
Cap == [s \in Sink |-> Sinks[s].queue]

\* The levels the sinks tell apart.
Level == {Sinks[s].minLevel : s \in Sink}

VARIABLES
    started, closed,    \* Dispatcher.started, closed: the queues are closed too
    cancelled,          \* Dispatcher.ctx is done
    emitted,            \* the levels of the alerts; an alert is its number
    emitter,            \* fanout: [pc, alert, todo: sinks that are left]
    queue,              \* sinkWorker.ch
    worker,             \* run and deliver: [pc, alert, attempt]
    tally,              \* SinkStats: how each alert was counted, and how often
    closer,             \* Close: open, draining, cancelling, returned
    late                \* history: Close met its deadline; a signal came

vars == <<started, closed, cancelled, emitted, emitter, queue, worker, tally, closer, late>>

Emitting == <<started, closed, cancelled, closer, late>>
Resting == [pc |-> "idle", alert |-> 0, todo |-> {}]
Waiting(pc) == [pc |-> pc, alert |-> 0, attempt |-> 0]
Working == <<started, closed, emitted, emitter, closer, late>>

Init ==
    /\ started = FALSE /\ closed = FALSE /\ cancelled = FALSE
    /\ emitted = <<>>
    /\ emitter = Resting
    /\ queue = [s \in Sink |-> <<>>]
    /\ worker = [s \in Sink |-> Waiting("none")]
    /\ tally = [s \in Sink |-> [a \in 1..MaxAlerts |-> <<>>]]
    /\ closer = "open"
    /\ late = [deadline |-> FALSE, signal |-> FALSE]

Bump(s, a, as) == tally' = [tally EXCEPT ![s][a] = Append(@, as)]

-----------------------------------------------------------------------------
(***************************************************************************)
(* The emitter: Start, then fanout of one alert after the other.           *)
(***************************************************************************)
Start ==
    /\ ~started /\ ~closed /\ emitter.pc = "idle"
    /\ started' = TRUE
    /\ cancelled' = late.signal
    /\ worker' = [s \in Sink |-> Waiting("select")]
    /\ UNCHANGED <<closed, emitted, emitter, queue, tally, closer, late>>

\* The sinks an alert of that level goes to.
Wanting(level) == {s \in Sink : level >= Sinks[s].minLevel}

\* What is left of the fanout once sink s has the alert.
Passed(s) ==
    LET left == emitter.todo \ {s}
    IN  IF left = {} THEN Resting ELSE [emitter EXCEPT !.todo = left, !.pc = "put"]

\* The goroutine that emits is the one that runs Close.
Free == emitter.pc = "idle" /\ closer \in {"open", "returned"}

Fanout(level) ==
    /\ Free /\ Len(emitted) < MaxAlerts /\ Wanting(level) # {}
    /\ emitted' = Append(emitted, level)
    /\ emitter' = [pc |-> "put", alert |-> Len(emitted) + 1, todo |-> Wanting(level)]
    /\ UNCHANGED <<Emitting, queue, worker, tally>>

\* The sinks are served in the order of their registration.
Turn(s) == s \in emitter.todo /\ \A r \in emitter.todo : s <= r

Refuse(s) ==
    /\ emitter.pc = "put" /\ Turn(s) /\ closed
    /\ Bump(s, emitter.alert, "dropped")
    /\ emitter' = Passed(s)
    /\ UNCHANGED <<Emitting, emitted, queue, worker>>

Put(s) == queue' = [queue EXCEPT ![s] = Append(@, emitter.alert)] /\ UNCHANGED tally

\* Mutant: the room is checked against the wrong bound.
EnqueueFreeOverfull(s) ==
    /\ emitter.pc = "put" /\ Turn(s) /\ ~closed /\ Len(queue[s]) <= Cap[s]
    /\ Put(s)
    /\ emitter' = Passed(s)
    /\ UNCHANGED <<Emitting, emitted, worker>>

EnqueueFree(s) ==
    /\ emitter.pc = "put" /\ Turn(s) /\ ~closed /\ Len(queue[s]) < Cap[s]
    /\ Put(s)
    /\ emitter' = Passed(s)
    /\ UNCHANGED <<Emitting, emitted, worker>>

\* The queue is full: the next step makes room, if the worker did not.
EnqueueFull(s) ==
    /\ emitter.pc = "put" /\ Turn(s) /\ ~closed /\ Len(queue[s]) = Cap[s]
    /\ emitter' = [emitter EXCEPT !.pc = "evict"]
    /\ UNCHANGED <<Emitting, emitted, queue, worker, tally>>

\* Mutants: the newest of the queue is evicted; the evicted alert is not counted.
EvictNewest(s) ==
    /\ emitter.pc = "evict" /\ Turn(s)
    /\ emitter' = [emitter EXCEPT !.pc = "again"]
    /\ IF queue[s] = <<>>
       THEN UNCHANGED <<queue, tally>>
       ELSE /\ queue' = [queue EXCEPT ![s] = Front(@)]
            /\ Bump(s, Last(queue[s]), "dropped")
    /\ UNCHANGED <<Emitting, emitted, worker>>

EvictUncounted(s) ==
    /\ emitter.pc = "evict" /\ Turn(s)
    /\ emitter' = [emitter EXCEPT !.pc = "again"]
    /\ queue' = [queue EXCEPT ![s] = IF @ = <<>> THEN @ ELSE Tail(@)]
    /\ UNCHANGED <<Emitting, emitted, worker, tally>>

EvictOldest(s) ==
    /\ emitter.pc = "evict" /\ Turn(s)
    /\ emitter' = [emitter EXCEPT !.pc = "again"]
    /\ IF queue[s] = <<>>
       THEN UNCHANGED <<queue, tally>>
       ELSE /\ queue' = [queue EXCEPT ![s] = Tail(@)]
            /\ Bump(s, Head(queue[s]), "dropped")
    /\ UNCHANGED <<Emitting, emitted, worker>>

EnqueueAgain(s) ==
    /\ emitter.pc = "again" /\ Turn(s)
    /\ IF Len(queue[s]) < Cap[s]
       THEN Put(s)
       ELSE Bump(s, emitter.alert, "dropped") /\ UNCHANGED queue
    /\ emitter' = Passed(s)
    /\ UNCHANGED <<Emitting, emitted, worker>>

Enqueue(s) ==
    \/ Refuse(s)
    \/ EnqueueFree(s)
    \/ EnqueueFull(s)
    \/ EvictOldest(s)
    \/ EnqueueAgain(s)

-----------------------------------------------------------------------------
(***************************************************************************)
(* A sink's goroutine.  select takes either ready branch; a sink may fail  *)
(* with an error worth a retry or not, and may ignore the cancellation.    *)
(***************************************************************************)
Receive(s) ==
    /\ worker[s].pc = "select" /\ queue[s] # <<>>
    /\ queue' = [queue EXCEPT ![s] = Tail(@)]
    /\ worker' = [worker EXCEPT ![s] = [pc |-> "send", alert |-> Head(queue[s]), attempt |-> 0]]
    /\ UNCHANGED <<Working, cancelled, tally>>

\* Mutant: a closed queue ends the goroutine, whatever is on it.
ExitOnClose(s) ==
    /\ worker[s].pc = "select"
    /\ cancelled \/ closed
    /\ worker' = [worker EXCEPT ![s] = Waiting("exited")]
    /\ UNCHANGED <<Working, cancelled, queue, tally>>

Exit(s) ==
    /\ worker[s].pc = "select"
    /\ cancelled \/ (closed /\ queue[s] = <<>>)
    /\ worker' = [worker EXCEPT ![s] = Waiting("exited")]
    /\ UNCHANGED <<Working, cancelled, queue, tally>>

Settle(s, as) ==
    /\ Bump(s, worker[s].alert, as)
    /\ worker' = [worker EXCEPT ![s] = Waiting("select")]

Sent(s) ==
    /\ worker[s].pc = "send"
    /\ Settle(s, "sent")
    /\ UNCHANGED <<Working, cancelled, queue>>

GivesUp(s, transient) == cancelled \/ worker[s].attempt >= Retries \/ ~transient

Failed(s, transient) ==
    /\ worker[s].pc = "send"
    /\ IF GivesUp(s, transient)
       THEN Settle(s, "failed")
       ELSE worker' = [worker EXCEPT ![s].pc = "backoff"] /\ UNCHANGED tally
    /\ UNCHANGED <<Working, cancelled, queue>>

\* Mutant: the attempts are not counted.
RetryForever(s) ==
    /\ worker[s].pc = "backoff"
    /\ worker' = [worker EXCEPT ![s].pc = "send"]
    /\ UNCHANGED <<Working, cancelled, queue, tally>>

\* The wait is over, or cut short: there is one more attempt either way.
Retry(s) ==
    /\ worker[s].pc = "backoff"
    /\ worker' = [worker EXCEPT ![s].pc = "send", ![s].attempt = @ + 1]
    /\ UNCHANGED <<Working, cancelled, queue, tally>>

Deliver(s) == Sent(s) \/ Failed(s, TRUE) \/ Failed(s, FALSE) \/ Retry(s)

Worker(s) == Receive(s) \/ Exit(s) \/ Deliver(s)

-----------------------------------------------------------------------------
(***************************************************************************)
(* Close, and the signal that cancels the context given to Start.          *)
(***************************************************************************)
Exited == \A s \in Sink : worker[s].pc \in {"none", "exited"}

Close ==
    /\ closer = "open" /\ emitter.pc = "idle"
    /\ closed' = TRUE
    /\ closer' = "draining"
    /\ UNCHANGED <<started, cancelled, emitted, emitter, queue, worker, tally, late>>

\* All goroutines ended, or five seconds are over: cancel what is left.
Drained(inTime) ==
    /\ closer = "draining" /\ (inTime => Exited)
    /\ cancelled' = TRUE
    /\ closer' = "cancelling"
    /\ late' = [late EXCEPT !.deadline = ~inTime]
    /\ UNCHANGED <<started, closed, emitted, emitter, queue, worker, tally>>

\* All goroutines ended, or another second is over.
CloseReturns ==
    /\ closer = "cancelling"
    /\ closer' = "returned"
    /\ UNCHANGED <<started, closed, cancelled, emitted, emitter, queue, worker, tally, late>>

CloseStep == Drained(TRUE) \/ Drained(FALSE) \/ CloseReturns

Signal ==
    /\ ~late.signal /\ closer \in {"open", "draining"}
    /\ late' = [late EXCEPT !.signal = TRUE]
    /\ cancelled' = (cancelled \/ started)
    /\ UNCHANGED <<started, closed, emitted, emitter, queue, worker, tally, closer>>

Next ==
    \/ Start
    \/ \E level \in Level : Fanout(level)
    \/ \E s \in Sink : Enqueue(s) \/ Worker(s)
    \/ Close
    \/ CloseStep
    \/ Signal

(***************************************************************************)
(* Every goroutine that can run does.  Send has SendTimeout to return, the *)
(* waits between attempts end, and so do the two timers of Close.          *)
(***************************************************************************)
Fairness ==
    /\ WF_vars(\E s \in Sink : Enqueue(s))
    /\ \A s \in Sink : WF_vars(Worker(s))
    /\ WF_vars(CloseStep)

Spec == Init /\ [][Next]_vars /\ Fairness

-----------------------------------------------------------------------------
Alerts == DOMAIN emitted
Counted(s, a) == tally[s][a] # <<>>
InHand(s, a) == worker[s].alert = a
AtDoor(s, a) == emitter.alert = a /\ s \in emitter.todo
Outcome == {"sent", "failed", "dropped"}

TypeOK ==
    /\ started \in BOOLEAN /\ closed \in BOOLEAN /\ cancelled \in BOOLEAN
    /\ emitted \in Seq(Level) /\ Len(emitted) <= MaxAlerts
    /\ emitter \in [pc : {"idle", "put", "evict", "again"}, alert : 0..MaxAlerts, todo : SUBSET Sink]
    /\ (emitter.pc = "idle") <=> (emitter.todo = {})
    /\ \A s \in Sink :
          /\ queue[s] \in Seq(Alerts) /\ Len(queue[s]) <= Cap[s]
          /\ worker[s] \in [pc : {"none", "select", "send", "backoff", "exited"},
                            alert : 0..MaxAlerts, attempt : 0..Retries]
          /\ tally[s] \in [1..MaxAlerts -> Seq(Outcome)]
    /\ closer \in {"open", "draining", "cancelling", "returned"}
    /\ closed <=> closer # "open"

(***************************************************************************)
(* SinkStats add up: an alert that a sink wants is counted once, or is in  *)
(* one place on its way to be, whatever evictions, retries and the end of  *)
(* the goroutines do (enqueue, deliver and fanout each bump on their own). *)
(***************************************************************************)
CountedOnce ==
    \A s \in Sink, a \in Alerts :
        LET queued == {i \in DOMAIN queue[s] : queue[s][i] = a}
            held == {p \in {"hand", "door"} :
                        IF p = "hand" THEN InHand(s, a) ELSE AtDoor(s, a)}
        IN  Len(tally[s][a]) + Cardinality(queued) + Cardinality(held)
                = IF s \in Wanting(emitted[a]) THEN 1 ELSE 0

(***************************************************************************)
(* A sink keeps the promise of Outbox: an alert at the door waits once the *)
(* first attempt to enqueue it found the queue full.                       *)
(***************************************************************************)
Fate(s, a) ==
    IF Counted(s, a) THEN Head(tally[s][a])
    ELSE IF InHand(s, a) THEN "sending"
    ELSE IF \/ a \in Range(queue[s])
            \/ AtDoor(s, a) /\ Turn(s) /\ emitter.pc \in {"evict", "again"} THEN "waiting"
    ELSE "none"

Promise == INSTANCE Outbox WITH
    fate <- [s \in Sink |-> [a \in 1..MaxAlerts |-> Fate(s, a)]],
    crowded <- [s \in Sink |-> emitter.pc = "evict" /\ Turn(s)],
    shut <- closed

KeepsPromise == Promise!Spec

(***************************************************************************)
(* Close flushes: when it returns without having met its deadline, no      *)
(* alert is left on a queue or in the hands of a sink.  A signal takes     *)
(* that away: it cancels the context the goroutines run under.             *)
(***************************************************************************)
AllCounted == \A s \in Sink : queue[s] = <<>> /\ worker[s].alert = 0
Flushed == closer = "returned" /\ started /\ ~late.deadline /\ ~late.signal => AllCounted

(***************************************************************************)
(* No alert stays: while nothing cancels the context, one that is on the   *)
(* queue of a started sink is counted in the end, also behind alerts that  *)
(* are retried and while newer ones come.                                  *)
(***************************************************************************)
OnWay(s, a) == started /\ (a \in Range(queue[s]) \/ InHand(s, a))
Settles ==
    \A a \in 1..MaxAlerts :
        (\E s \in Sink : OnWay(s, a)) ~> (cancelled \/ \A s \in Sink : ~OnWay(s, a))
=============================================================================
