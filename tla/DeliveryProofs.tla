--------------------------- MODULE DeliveryProofs ---------------------------
(***************************************************************************)
(* Proofs about Delivery, for every list of sinks, every number of retries *)
(* and of alerts.                                                          *)
(***************************************************************************)
EXTENDS Delivery, FiniteSetTheorems, TLAPS

-----------------------------------------------------------------------------
(***************************************************************************)
(* The inductive invariant.  A queue rises, so that its head is the oldest *)
(* alert that waits; an alert a sink wants is at one place; a worker that  *)
(* ended by itself left nothing behind.                                    *)
(***************************************************************************)
Holds(q, a) == \E i \in DOMAIN q : q[i] = a
Rising(q) == \A i, j \in DOMAIN q : i < j => q[i] < q[j]

WorkerType == [pc : {"none", "select", "send", "backoff", "exited"},
               alert : 0..MaxAlerts, attempt : 0..Retries]
EmitterType == [pc : {"idle", "put", "evict", "again"}, alert : 0..MaxAlerts, todo : SUBSET Sink]

Typed ==
    /\ started \in BOOLEAN /\ closed \in BOOLEAN /\ cancelled \in BOOLEAN
    /\ late \in [deadline : BOOLEAN, signal : BOOLEAN]
    /\ closer \in {"open", "draining", "cancelling", "returned"}
    /\ emitted \in Seq(Level) /\ Len(emitted) <= MaxAlerts
    /\ emitter \in EmitterType
    /\ queue \in [Sink -> Seq(1..MaxAlerts)]
    /\ worker \in [Sink -> WorkerType]
    /\ tally \in [Sink -> [1..MaxAlerts -> Seq(Outcome)]]

\* What fanout and Close leave to each other.
Doorway ==
    /\ (emitter.pc = "idle") <=> (emitter.todo = {})
    /\ emitter.pc = "idle" => emitter.alert = 0
    /\ emitter.pc # "idle" => emitter.alert = Len(emitted) /\ emitter.alert \in Alerts
    /\ closed <=> closer # "open"
    /\ closed => emitter.pc \in {"idle", "put"}
    /\ cancelled /\ ~late.signal => closer \in {"cancelling", "returned"}

\* The one place of alert a at sink s.
Placed(s, a) ==
    /\ Len(tally[s][a]) <= 1
    /\ Counted(s, a) => ~Holds(queue[s], a) /\ ~InHand(s, a) /\ ~AtDoor(s, a)
    /\ Holds(queue[s], a) => ~InHand(s, a) /\ ~AtDoor(s, a)
    /\ InHand(s, a) => ~AtDoor(s, a)
    /\ (Counted(s, a) \/ Holds(queue[s], a) \/ InHand(s, a) \/ AtDoor(s, a))
           <=> (a \in Alerts /\ s \in Wanting(emitted[a]))

Shelf(s) ==
    /\ Len(queue[s]) <= Cap[s] /\ Rising(queue[s])
    /\ emitter.pc = "again" /\ Turn(s) => Len(queue[s]) < Cap[s]
    /\ worker[s].pc \in {"send", "backoff"} <=> worker[s].alert # 0
    /\ worker[s].pc = "backoff" => worker[s].attempt < Retries
    /\ \A a \in 1..MaxAlerts : Placed(s, a)

\* How the goroutine of sink s ends.
Ending(s) ==
    /\ started <=> worker[s].pc # "none"
    /\ worker[s].pc = "exited" /\ ~late.signal /\ ~cancelled => closed /\ queue[s] = <<>>
    /\ /\ closer \in {"cancelling", "returned"} /\ started
       /\ ~late.deadline /\ ~late.signal
       => closed /\ worker[s].pc = "exited" /\ queue[s] = <<>>

IInv == Typed /\ Doorway /\ \A s \in Sink : Shelf(s) /\ Ending(s)

-----------------------------------------------------------------------------
(***************************************************************************)
(* Sinks and queues.                                                       *)
(***************************************************************************)
\* What a sequence is made of.
LEMMA SeqFacts ==
    ASSUME NEW S, NEW q \in Seq(S)
    PROVE  DOMAIN q = 1..Len(q) /\ Len(q) \in Nat /\ \A i \in 1..Len(q) : q[i] \in S
  OBVIOUS

\* What Append returns.
LEMMA AppendType ==
    ASSUME NEW S, NEW q \in Seq(S), NEW x \in S
    PROVE  /\ Append(q, x) \in Seq(S) /\ Len(Append(q, x)) = Len(q) + 1 /\ Append(q, x) # <<>>
           /\ \A i \in 1..Len(q) : Append(q, x)[i] = q[i]
           /\ Append(q, x)[Len(q) + 1] = x
  <1>1. Append(q, x) \in Seq(S) /\ Len(Append(q, x)) = Len(q) + 1 /\ Len(q) \in Nat
    OBVIOUS
  <1>2. Len(q) + 1 # 0 /\ Len(<<>>) = 0
    BY <1>1
  <1>3. Append(q, x) # <<>>
    BY <1>1, <1>2, Zenon
  <1>4. (\A i \in 1..Len(q) : Append(q, x)[i] = q[i]) /\ Append(q, x)[Len(q) + 1] = x
    OBVIOUS
  <1> QED
    BY <1>1, <1>3, <1>4

\* Sinks are numbers, and each queue has room for one alert.
LEMMA SinkFacts ==
    /\ Sink \in SUBSET Nat
    /\ \A s \in Sink : Cap[s] \in Nat /\ Cap[s] >= 1
  <1>1. /\ DOMAIN Sinks = 1..Len(Sinks) /\ Len(Sinks) \in Nat
        /\ \A s \in 1..Len(Sinks) : Sinks[s] \in [name : STRING, minLevel : Nat, queue : Nat \ {0}]
    BY DeliveryAssumption, SeqFacts
  <1>2. \A s \in Sink : Sinks[s].queue \in Nat \ {0}
    BY <1>1 DEF Sink
  <1>3. \A s \in Sink : Cap[s] \in Nat /\ Cap[s] >= 1
    BY <1>2 DEF Cap
  <1> QED
    BY <1>1, <1>3 DEF Sink

\* One sink is the next to be served.
LEMMA TurnUnique ==
    ASSUME NEW s \in Sink, NEW r \in Sink, Turn(s), Turn(r)
    PROVE  r = s
  BY SinkFacts DEF Turn

\* What a new alert does to a queue.
LEMMA AppendFacts ==
    ASSUME NEW M \in Nat, NEW q \in Seq(1..M), NEW b \in 1..M
    PROVE  /\ Append(q, b) \in Seq(1..M) /\ Len(Append(q, b)) = Len(q) + 1
           /\ \A a : Holds(Append(q, b), a) <=> Holds(q, a) \/ a = b
  <1>1. /\ Append(q, b) \in Seq(1..M) /\ Len(Append(q, b)) = Len(q) + 1
        /\ DOMAIN Append(q, b) = 1..Len(q) + 1 /\ DOMAIN q = 1..Len(q) /\ Len(q) \in Nat
        /\ \A i \in 1..Len(q) : Append(q, b)[i] = q[i]
        /\ Append(q, b)[Len(q) + 1] = b
    OBVIOUS
  <1>2. ASSUME NEW a PROVE Holds(Append(q, b), a) <=> Holds(q, a) \/ a = b
    <2>1. ASSUME Holds(Append(q, b), a) PROVE Holds(q, a) \/ a = b
      <3>1. PICK i \in 1..Len(q) + 1 : Append(q, b)[i] = a
        BY <1>1, <2>1 DEF Holds
      <3>2. i \in 1..Len(q) \/ i = Len(q) + 1
        BY <1>1
      <3> QED
        BY <1>1, <3>1, <3>2 DEF Holds
    <2>2. ASSUME Holds(q, a) PROVE Holds(Append(q, b), a)
      <3>1. PICK i \in 1..Len(q) : q[i] = a
        BY <1>1, <2>2 DEF Holds
      <3>2. i \in 1..Len(q) + 1
        BY <1>1
      <3> QED
        BY <1>1, <3>1, <3>2 DEF Holds
    <2>3. ASSUME a = b PROVE Holds(Append(q, b), a)
      <3>1. Len(q) + 1 \in 1..Len(q) + 1
        BY <1>1
      <3> QED
        BY <1>1, <2>3, <3>1 DEF Holds
    <2> QED
      BY <2>1, <2>2, <2>3
  <1> QED
    BY <1>1, <1>2

\* A queue that gets an alert newer than all of its own still rises.
LEMMA AppendRises ==
    ASSUME NEW M \in Nat, NEW q \in Seq(1..M), NEW b \in 1..M,
           Rising(q), \A a \in 1..M : Holds(q, a) => a < b
    PROVE  Rising(Append(q, b))
  <1>1. \A i \in DOMAIN q : q[i] < b
    BY DEF Holds
  <1> QED
    BY <1>1 DEF Rising

\* What is left of a queue without its head, its least element.
LEMMA TailFacts ==
    ASSUME NEW M \in Nat, NEW q \in Seq(1..M), q # <<>>, Rising(q)
    PROVE  /\ Tail(q) \in Seq(1..M) /\ Len(Tail(q)) = Len(q) - 1 /\ Len(q) >= 1
           /\ Rising(Tail(q))
           /\ Head(q) \in 1..M /\ Holds(q, Head(q))
           /\ \A a : Holds(q, a) => a >= Head(q)
           /\ \A a : Holds(Tail(q), a) <=> Holds(q, a) /\ a # Head(q)
  <1>1. /\ Tail(q) \in Seq(1..M) /\ Len(Tail(q)) = Len(q) - 1 /\ Len(q) >= 1 /\ Len(q) \in Nat
        /\ DOMAIN Tail(q) = 1..(Len(q) - 1) /\ DOMAIN q = 1..Len(q)
        /\ Head(q) = q[1]
        /\ \A i \in 1..(Len(q) - 1) : Tail(q)[i] = q[i + 1]
        /\ \A i \in 1..Len(q) : q[i] \in 1..M
    OBVIOUS
  <1>2. \A i, j \in 1..Len(q) : i < j => q[i] < q[j]
    BY <1>1 DEF Rising
  <1>3. Rising(Tail(q))
    <2>1. ASSUME NEW i \in 1..(Len(q) - 1), NEW j \in 1..(Len(q) - 1), i < j
          PROVE  Tail(q)[i] < Tail(q)[j]
      <3>1. i + 1 \in 1..Len(q) /\ j + 1 \in 1..Len(q) /\ i + 1 < j + 1
        BY <1>1, <2>1
      <3> QED
        BY <1>1, <1>2, <3>1
    <2> QED
      BY <1>1, <2>1 DEF Rising
  <1>4. Head(q) \in 1..M /\ Holds(q, Head(q))
    <2>1. 1 \in 1..Len(q)
      BY <1>1
    <2> QED
      BY <1>1, <2>1 DEF Holds
  <1>5. ASSUME NEW a, Holds(q, a) PROVE a >= Head(q) /\ (a # Head(q) => Holds(Tail(q), a))
    <2>1. PICK i \in 1..Len(q) : q[i] = a
      BY <1>1, <1>5 DEF Holds
    <2>2. CASE i = 1
      BY <1>1, <2>1, <2>2
    <2>3. CASE i # 1
      <3>1. i - 1 \in 1..(Len(q) - 1) /\ (i - 1) + 1 = i /\ 1 < i /\ 1 \in 1..Len(q)
        BY <1>1, <2>3
      <3>2. Tail(q)[i - 1] = a /\ q[1] < q[i]
        BY <1>1, <1>2, <2>1, <3>1
      <3>3. a \in 1..M /\ Head(q) \in 1..M /\ Head(q) < a
        BY <1>1, <1>4, <2>1, <3>2
      <3>4. Holds(Tail(q), a)
        BY <1>1, <3>1, <3>2 DEF Holds
      <3> QED
        BY <3>3, <3>4
    <2> QED
      BY <2>2, <2>3
  <1>6. ASSUME NEW a, Holds(Tail(q), a) PROVE Holds(q, a) /\ a # Head(q)
    <2>1. PICK i \in 1..(Len(q) - 1) : Tail(q)[i] = a
      BY <1>1, <1>6 DEF Holds
    <2>2. i + 1 \in 1..Len(q) /\ 1 < i + 1 /\ 1 \in 1..Len(q)
      BY <1>1
    <2>3. q[i + 1] = a /\ q[1] < q[i + 1]
      BY <1>1, <1>2, <2>1, <2>2
    <2> QED
      BY <1>1, <2>2, <2>3 DEF Holds
  <1> QED
    BY <1>1, <1>3, <1>4, <1>5, <1>6

\* An empty queue holds nothing, and a queue that holds nothing is empty.
LEMMA EmptyFacts ==
    /\ \A a : ~Holds(<<>>, a)
    /\ Rising(<<>>) /\ Len(<<>>) = 0
    /\ \A M \in Nat : \A q \in Seq(1..M) : q # <<>> => \E a \in 1..M : Holds(q, a)
  <1>1. ASSUME NEW M \in Nat, NEW q \in Seq(1..M), q # <<>> PROVE \E a \in 1..M : Holds(q, a)
    <2>1. 1 \in DOMAIN q /\ q[1] \in 1..M
      BY <1>1
    <2> QED
      BY <2>1 DEF Holds
  <1> QED
    BY <1>1 DEF Holds, Rising

\* A queue has as many alerts as positions.
LEMMA RisingCard ==
    ASSUME NEW M \in Nat, NEW q \in Seq(1..M), Rising(q)
    PROVE  Cardinality({a \in 1..M : Holds(q, a)}) = Len(q)
  <1> DEFINE S == {a \in 1..M : Holds(q, a)}
  <1>1. DOMAIN q = 1..Len(q) /\ Len(q) \in Nat /\ \A i \in 1..Len(q) : q[i] \in 1..M
    OBVIOUS
  <1>2. q \in [1..Len(q) -> S]
    BY <1>1 DEF Holds
  <1>3. ASSUME NEW i \in 1..Len(q), NEW j \in 1..Len(q), q[i] = q[j] PROVE i = j
    <2>1. i < j \/ j < i \/ i = j
      BY <1>1
    <2> QED
      BY <1>1, <1>3, <2>1 DEF Rising
  <1>4. \A a \in S : \E i \in 1..Len(q) : q[i] = a
    BY <1>1 DEF Holds
  <1>5. q \in Bijection(1..Len(q), S)
    BY <1>1, <1>2, <1>3, <1>4 DEF Bijection, Injection, Surjection, IsInjective
  <1>6. ExistsBijection(1..Len(q), S)
    BY <1>5 DEF ExistsBijection
  <1> QED
    BY <1>1, <1>6, FS_CountingElements

\* The positions of an alert on a queue: one if it is there.
LEMMA Positions ==
    ASSUME NEW M \in Nat, NEW q \in Seq(1..M), Rising(q), NEW a
    PROVE  Cardinality({i \in DOMAIN q : q[i] = a}) = IF Holds(q, a) THEN 1 ELSE 0
  <1> DEFINE S == {i \in DOMAIN q : q[i] = a}
  <1>1. DOMAIN q = 1..Len(q) /\ Len(q) \in Nat /\ \A i \in 1..Len(q) : q[i] \in 1..M
    OBVIOUS
  <1>2. CASE Holds(q, a)
    <2>1. PICK k \in 1..Len(q) : q[k] = a
      BY <1>1, <1>2 DEF Holds
    <2>2. ASSUME NEW i \in 1..Len(q), q[i] = a PROVE i = k
      <3>1. i < k \/ k < i \/ i = k
        BY <1>1
      <3> QED
        BY <1>1, <2>1, <2>2, <3>1 DEF Rising
    <2>3. S = {k}
      BY <1>1, <2>1, <2>2
    <2> QED
      BY <1>2, <2>3, FS_Singleton
  <1>3. CASE ~Holds(q, a)
    <2>1. S = {}
      BY <1>3 DEF Holds
    <2> QED
      BY <1>3, <2>1, FS_EmptySet
  <1> QED
    BY <1>2, <1>3

-----------------------------------------------------------------------------
(***************************************************************************)
(* What the steps of one sink leave to the others.                         *)
(***************************************************************************)
\* A sink whose queue, goroutine and counts stay, and that does not lose or
\* get an alert at the door.
LEMMA Elsewhere ==
    ASSUME IInv, NEW r \in Sink, emitted' = emitted,
           queue'[r] = queue[r], worker'[r] = worker[r], tally'[r] = tally[r],
           \A a \in 1..MaxAlerts : AtDoor(r, a)' <=> AtDoor(r, a),
           emitter'.pc = "again" /\ Turn(r)' => emitter.pc = "again" /\ Turn(r)
    PROVE  Shelf(r)'
  BY DEF IInv, Shelf, Placed, Counted, InHand, Alerts

\* The end of a goroutine is not undone by what fanout does.
LEMMA EndingKept ==
    ASSUME IInv, NEW r \in Sink, UNCHANGED Emitting, worker'[r].pc = worker[r].pc,
           queue'[r] = queue[r] \/ ~closed
    PROVE  Ending(r)'
  BY DEF IInv, Ending, Emitting

\* The alert that is put: the newest, and new to the sink.
LEMMA DoorFacts ==
    ASSUME IInv, NEW s \in Sink, Turn(s), emitter.pc # "idle"
    PROVE  /\ emitter.alert \in 1..MaxAlerts /\ emitter.alert = Len(emitted)
           /\ \A a \in 1..MaxAlerts : AtDoor(s, a) <=> a = emitter.alert
           /\ \A a \in 1..MaxAlerts : Holds(queue[s], a) => a < emitter.alert
           /\ Len(tally[s][emitter.alert]) = 0 /\ ~InHand(s, emitter.alert)
  <1>1. /\ emitter.alert \in 1..MaxAlerts /\ emitter.alert = Len(emitted)
        /\ s \in emitter.todo /\ Alerts = 1..Len(emitted) /\ Len(emitted) \in Nat
    BY DEF IInv, Typed, EmitterType, Doorway, Turn, Alerts
  <1>2. AtDoor(s, emitter.alert)
    BY <1>1 DEF AtDoor
  <1>3. \A a \in 1..MaxAlerts : Placed(s, a)
    BY DEF IInv, Shelf
  <1>4. tally[s][emitter.alert] \in Seq(Outcome)
    BY <1>1 DEF IInv, Typed
  <1>5. Len(tally[s][emitter.alert]) = 0 /\ ~InHand(s, emitter.alert)
    BY <1>1, <1>2, <1>3, <1>4 DEF Placed, Counted
  <1>6. ASSUME NEW a \in 1..MaxAlerts, Holds(queue[s], a) PROVE a < emitter.alert
    BY <1>1, <1>2, <1>3, <1>6 DEF Placed
  <1> QED
    BY <1>1, <1>5, <1>6 DEF AtDoor

\* fanout goes on to the next sink.
LEMMA PassedFacts ==
    ASSUME IInv, NEW s \in Sink, Turn(s), emitter.pc # "idle",
           emitter' = Passed(s), UNCHANGED <<Emitting, emitted>>
    PROVE  /\ emitter' \in EmitterType /\ Doorway'
           /\ emitter'.pc # "again" /\ emitter'.pc # "evict"
           /\ \A r \in Sink, a \in 1..MaxAlerts : AtDoor(r, a)' <=> AtDoor(r, a) /\ r # s
  <1>1. /\ emitter \in EmitterType /\ emitter.alert = Len(emitted) /\ emitter.alert \in Alerts
        /\ Doorway /\ 0 \in 0..MaxAlerts
    BY DeliveryAssumption DEF IInv, Typed, Doorway
  <1>2. CASE emitter.todo \ {s} = {}
    <2>1. emitter' = Resting
      BY <1>2 DEF Passed
    <2> QED
      BY <1>1, <1>2, <2>1 DEF Resting, EmitterType, Doorway, AtDoor, Emitting
  <1>3. CASE emitter.todo \ {s} # {}
    <2>1. emitter' = [emitter EXCEPT !.todo = emitter.todo \ {s}, !.pc = "put"]
      BY <1>3 DEF Passed
    <2>2. /\ emitter' \in EmitterType /\ emitter'.pc = "put" /\ emitter'.alert = emitter.alert
          /\ emitter'.todo = emitter.todo \ {s}
      BY <1>1, <2>1 DEF EmitterType
    <2>3. Doorway'
      BY <1>1, <1>3, <2>2 DEF Doorway, Emitting, Alerts
    <2> QED
      BY <2>2, <2>3 DEF AtDoor
  <1> QED
    BY <1>2, <1>3

\* What counting an alert changes.
LEMMA BumpFacts ==
    ASSUME IInv, NEW s \in Sink, NEW a \in 1..MaxAlerts, NEW as \in Outcome, Bump(s, a, as)
    PROVE  /\ tally' \in [Sink -> [1..MaxAlerts -> Seq(Outcome)]]
           /\ tally'[s][a] = Append(tally[s][a], as)
           /\ \A b \in 1..MaxAlerts : b # a => tally'[s][b] = tally[s][b]
           /\ \A r \in Sink : r # s => tally'[r] = tally[r]
           /\ Len(tally'[s][a]) = Len(tally[s][a]) + 1 /\ tally'[s][a] # <<>>
  <1>1. tally \in [Sink -> [1..MaxAlerts -> Seq(Outcome)]]
    BY DEF IInv, Typed
  <1> DEFINE q == tally[s][a]
             x == Append(q, as)
  <1>2. q \in Seq(Outcome)
    BY <1>1
  <1> HIDE DEF q
  <1>3. x \in Seq(Outcome) /\ Len(x) = Len(q) + 1 /\ x # <<>>
    BY <1>2, AppendType
  <1> HIDE DEF x
  <1>4. tally' = [tally EXCEPT ![s] = [tally[s] EXCEPT ![a] = x]]
    BY DEF Bump, x, q
  <1>6. tally'[s] = [tally[s] EXCEPT ![a] = x]
    BY <1>1, <1>4
  <1>7. tally'[s][a] = x /\ \A b \in 1..MaxAlerts : b # a => tally'[s][b] = tally[s][b]
    BY <1>1, <1>6
  <1>8. tally' \in [Sink -> [1..MaxAlerts -> Seq(Outcome)]]
    BY <1>1, <1>3, <1>4
  <1> QED
    BY <1>1, <1>3, <1>4, <1>7, <1>8 DEF x, q

-----------------------------------------------------------------------------
(***************************************************************************)
(* The initial states and the steps of the emitter.                        *)
(***************************************************************************)
\* The queues start empty.
LEMMA InitIInv == Init => IInv
  <1> SUFFICES ASSUME Init PROVE IInv
    OBVIOUS
  <1>1. 0 \in 0..MaxAlerts /\ 0 \in 0..Retries /\ MaxAlerts \in Nat
    BY DeliveryAssumption
  <1>2. Typed
    <2>1. <<>> \in Seq(Level) /\ Len(<<>>) <= MaxAlerts
      BY <1>1
    <2>2. emitter \in EmitterType
      BY <1>1 DEF Init, EmitterType, Resting
    <2>3. Waiting("none") \in WorkerType
      BY <1>1 DEF WorkerType, Waiting
    <2>4. worker \in [Sink -> WorkerType]
      BY <2>3 DEF Init
    <2>5. queue \in [Sink -> Seq(1..MaxAlerts)]
      BY DEF Init
    <2>6. [a \in 1..MaxAlerts |-> <<>>] \in [1..MaxAlerts -> Seq(Outcome)]
      OBVIOUS
    <2>7. tally \in [Sink -> [1..MaxAlerts -> Seq(Outcome)]]
      BY <2>6 DEF Init
    <2> QED
      BY <2>1, <2>2, <2>4, <2>5, <2>7 DEF Init, Typed
  <1>3. Doorway
    BY DEF Init, Doorway, Resting
  <1>4. ASSUME NEW s \in Sink PROVE Shelf(s) /\ Ending(s)
    <2>1. /\ queue[s] = <<>> /\ worker[s] = Waiting("none") /\ emitter = Resting
          /\ \A a \in 1..MaxAlerts : tally[s][a] = <<>>
          /\ emitted = <<>> /\ Alerts = {}
      BY <1>4 DEF Init, Alerts
    <2>2. \A a \in 1..MaxAlerts : Placed(s, a)
      BY <2>1, EmptyFacts DEF Placed, Counted, InHand, AtDoor, Waiting, Resting
    <2>3. Shelf(s)
      BY <2>1, <2>2, EmptyFacts, SinkFacts, <1>4 DEF Shelf, Waiting, Resting
    <2> QED
      BY <2>1, <2>3 DEF Ending, Init, Waiting
  <1> QED
    BY <1>2, <1>3, <1>4 DEF IInv

\* Start has the goroutines wait for alerts.
LEMMA StartStep == IInv /\ Start => IInv'
  <1> SUFFICES ASSUME IInv, Start PROVE IInv'
    OBVIOUS
  <1>1. 0 \in 0..MaxAlerts /\ 0 \in 0..Retries
    BY DeliveryAssumption
  <1>2. Typed'
    <2>1. Waiting("select") \in WorkerType
      BY <1>1 DEF Waiting, WorkerType
    <2> QED
      BY <2>1 DEF IInv, Typed, Start, Outcome, EmitterType, Level
  <1>3. Doorway'
    BY DEF IInv, Typed, Doorway, Start, Alerts
  <1>4. ASSUME NEW r \in Sink PROVE Shelf(r)' /\ Ending(r)'
    <2>1. worker'[r].pc = "select" /\ worker'[r].alert = 0 /\ worker[r].alert = 0
      BY <1>4 DEF IInv, Typed, Shelf, Ending, Start, Waiting
    <2>2. Shelf(r)'
      BY <1>4, <2>1 DEF IInv, Typed, Doorway, Shelf, Placed, Counted, InHand, AtDoor, Start, Alerts
    <2> QED
      BY <2>1, <2>2, <1>4 DEF IInv, Doorway, Ending, Start
  <1> QED
    BY <1>2, <1>3, <1>4 DEF IInv

\* A new alert is at the door of the sinks that want it, and nowhere else.
LEMMA FanoutStep == IInv /\ (\E level \in Level : Fanout(level)) => IInv'
  <1> SUFFICES ASSUME IInv, NEW level \in Level, Fanout(level) PROVE IInv'
    OBVIOUS
  <1> DEFINE n == Len(emitted) + 1
  <1>1. /\ n \in 1..MaxAlerts /\ emitted' \in Seq(Level) /\ Len(emitted') = n
        /\ (\A a \in 1..Len(emitted) : emitted'[a] = emitted[a]) /\ emitted'[n] = level
    <2>1. emitted \in Seq(Level) /\ emitted' = Append(emitted, level)
      BY DEF IInv, Typed, Fanout
    <2>2. Len(emitted) \in Nat /\ Len(emitted) < MaxAlerts /\ MaxAlerts \in Nat
      BY <2>1, SeqFacts, DeliveryAssumption DEF Fanout
    <2> QED
      BY <2>1, <2>2, AppendType
  <1>2. /\ Alerts = 1..Len(emitted) /\ Alerts' = 1..n /\ Len(emitted) \in Nat
    BY <1>1, SeqFacts DEF IInv, Typed, Alerts
  <1>3. /\ n \notin Alerts /\ n \in Alerts'
        /\ \A a \in 1..MaxAlerts : a \in Alerts' <=> a \in Alerts \/ a = n
        /\ \A a \in Alerts : emitted'[a] = emitted[a]
    BY <1>1, <1>2
  <1>4. /\ emitter'.pc = "put" /\ emitter'.alert = n /\ emitter'.todo = Wanting(level)
        /\ emitter' \in EmitterType /\ emitter.pc = "idle" /\ emitter.todo = {}
    BY <1>1 DEF IInv, Doorway, Fanout, Free, EmitterType, Wanting
  <1>5. Typed'
    BY <1>1, <1>2, <1>3, <1>4 DEF IInv, Typed, Fanout, Emitting, Outcome, WorkerType
  <1>6. Doorway'
    BY <1>1, <1>2, <1>3, <1>4 DEF IInv, Doorway, Fanout, Emitting
  <1>7. ASSUME NEW r \in Sink PROVE Shelf(r)' /\ Ending(r)'
    <2>1. UNCHANGED <<queue, worker, tally>>
      BY DEF Fanout
    <2>2. ASSUME NEW a \in 1..MaxAlerts PROVE Placed(r, a)'
      <3>1. Placed(r, a)
        BY <1>7, <2>2 DEF IInv, Shelf
      <3>2. ~AtDoor(r, a) /\ (AtDoor(r, a)' <=> a = n /\ r \in Wanting(level))
        BY <1>4 DEF AtDoor
      <3>3. CASE a = n
        BY <1>1, <1>3, <2>1, <3>1, <3>2, <3>3 DEF Placed, Counted, InHand
      <3>4. CASE a # n
        BY <1>1, <1>3, <2>1, <2>2, <3>1, <3>2, <3>4 DEF Placed, Counted, InHand
      <3> QED
        BY <3>3, <3>4
    <2>3. Shelf(r)'
      BY <1>4, <1>7, <2>1, <2>2 DEF IInv, Shelf
    <2>4. Ending(r)'
      BY <1>7, <2>1, EndingKept DEF Fanout
    <2> QED
      BY <2>3, <2>4
  <1> QED
    BY <1>5, <1>6, <1>7 DEF IInv

\* The alert joins the end of the queue of s.
LEMMA PutStep ==
    ASSUME IInv, NEW s \in Sink, Turn(s), emitter.pc # "idle", ~closed,
           Len(queue[s]) < Cap[s], Put(s),
           emitter' = Passed(s), UNCHANGED <<Emitting, emitted, worker>>
    PROVE  IInv'
  <1> DEFINE n == emitter.alert
  <1>1. /\ n \in 1..MaxAlerts /\ \A a \in 1..MaxAlerts : AtDoor(s, a) <=> a = n
        /\ \A a \in 1..MaxAlerts : Holds(queue[s], a) => a < n
    BY DoorFacts
  <1>2. /\ emitter' \in EmitterType /\ Doorway' /\ emitter'.pc # "again"
        /\ \A r \in Sink, a \in 1..MaxAlerts : AtDoor(r, a)' <=> AtDoor(r, a) /\ r # s
    BY PassedFacts
  <1>3. queue \in [Sink -> Seq(1..MaxAlerts)] /\ queue[s] \in Seq(1..MaxAlerts) /\ MaxAlerts \in Nat
    BY DeliveryAssumption DEF IInv, Typed
  <1>4. /\ Append(queue[s], n) \in Seq(1..MaxAlerts)
        /\ Len(Append(queue[s], n)) = Len(queue[s]) + 1
        /\ \A a : Holds(Append(queue[s], n), a) <=> Holds(queue[s], a) \/ a = n
    BY <1>1, <1>3, AppendFacts
  <1>5. Rising(Append(queue[s], n))
    BY <1>1, <1>3, AppendRises DEF IInv, Shelf
  <1>6. /\ queue' = [queue EXCEPT ![s] = Append(queue[s], n)] /\ tally' = tally
        /\ queue'[s] = Append(queue[s], n) /\ \A r \in Sink : r # s => queue'[r] = queue[r]
    BY <1>3 DEF Put
  <1>7. queue' \in [Sink -> Seq(1..MaxAlerts)]
    BY <1>3, <1>4, <1>6
  <1>8. Typed'
    BY <1>2, <1>6, <1>7 DEF IInv, Typed, Emitting, Outcome, WorkerType
  <1>9. ASSUME NEW r \in Sink PROVE Shelf(r)' /\ Ending(r)'
    <2>1. CASE r # s
      <3>1. \A a \in 1..MaxAlerts : AtDoor(r, a)' <=> AtDoor(r, a)
        BY <1>2, <1>9, <2>1
      <3> QED
        BY <1>2, <1>6, <1>9, <2>1, <3>1, Elsewhere, EndingKept
    <2>2. CASE r = s
      <3>1. ASSUME NEW a \in 1..MaxAlerts PROVE Placed(s, a)'
        <4>1. Placed(s, a) /\ ~AtDoor(s, a)' /\ (AtDoor(s, a) <=> a = n)
              /\ (Holds(queue'[s], a) <=> Holds(queue[s], a) \/ a = n)
          BY <1>1, <1>2, <1>4, <1>6, <3>1 DEF IInv, Shelf
        <4> QED
          BY <1>6, <4>1 DEF Placed, Counted, InHand, Alerts
      <3>2. Len(queue'[s]) <= Cap[s] /\ Rising(queue'[s])
        BY <1>3, <1>4, <1>5, <1>6, SinkFacts, SeqFacts
      <3>3. Shelf(s)'
        BY <1>2, <3>1, <3>2 DEF IInv, Shelf
      <3> QED
        BY <2>2, <3>3, EndingKept
    <2> QED
      BY <2>1, <2>2
  <1> QED
    BY <1>2, <1>8, <1>9 DEF IInv

\* The alert is counted as dropped without having been queued.
LEMMA TurnAwayStep ==
    ASSUME IInv, NEW s \in Sink, Turn(s), emitter.pc # "idle",
           Bump(s, emitter.alert, "dropped"),
           emitter' = Passed(s), UNCHANGED <<Emitting, emitted, worker, queue>>
    PROVE  IInv'
  <1> DEFINE n == emitter.alert
  <1>1. /\ n \in 1..MaxAlerts /\ \A a \in 1..MaxAlerts : AtDoor(s, a) <=> a = n
        /\ Len(tally[s][n]) = 0
    BY DoorFacts
  <1>2. /\ emitter' \in EmitterType /\ Doorway' /\ emitter'.pc # "again"
        /\ \A r \in Sink, a \in 1..MaxAlerts : AtDoor(r, a)' <=> AtDoor(r, a) /\ r # s
    BY PassedFacts
  <1>3. /\ tally' \in [Sink -> [1..MaxAlerts -> Seq(Outcome)]]
        /\ \A b \in 1..MaxAlerts : b # n => tally'[s][b] = tally[s][b]
        /\ \A r \in Sink : r # s => tally'[r] = tally[r]
        /\ Len(tally'[s][n]) = 1 /\ tally'[s][n] # <<>>
    <2>1. "dropped" \in Outcome
      BY DEF Outcome
    <2>2. /\ tally' \in [Sink -> [1..MaxAlerts -> Seq(Outcome)]]
          /\ \A b \in 1..MaxAlerts : b # n => tally'[s][b] = tally[s][b]
          /\ \A r \in Sink : r # s => tally'[r] = tally[r]
          /\ Len(tally'[s][n]) = Len(tally[s][n]) + 1 /\ tally'[s][n] # <<>>
      BY <1>1, <2>1, BumpFacts, Zenon
    <2> QED
      BY <1>1, <2>2
  <1>4. emitted' = emitted /\ worker' = worker /\ queue' = queue
    OBVIOUS
  <1>5. Typed'
    BY <1>2, <1>3 DEF IInv, Typed, Emitting, WorkerType
  <1>6. ASSUME NEW r \in Sink PROVE Shelf(r)' /\ Ending(r)'
    <2>1. CASE r # s
      <3>1. \A a \in 1..MaxAlerts : AtDoor(r, a)' <=> AtDoor(r, a)
        BY <1>2, <1>6, <2>1
      <3> QED
        BY <1>2, <1>3, <1>6, <2>1, <3>1, Elsewhere, EndingKept
    <2>2. CASE r = s
      <3>1. ASSUME NEW a \in 1..MaxAlerts PROVE Placed(s, a)'
        <4>1. Placed(s, a) /\ ~AtDoor(s, a)' /\ (AtDoor(s, a) <=> a = n)
          <5>1. Placed(s, a)
            BY <3>1 DEF IInv, Shelf
          <5> QED
            BY <1>1, <1>2, <3>1, <5>1
        <4>2. CASE a = n
          <5>1. Len(tally'[s][a]) = 1 /\ tally'[s][a] # <<>> /\ AtDoor(s, a)
            BY <1>3, <4>1, <4>2
          <5> QED
            BY <1>4, <4>1, <5>1 DEF Placed, Counted, InHand, Alerts
        <4>3. CASE a # n
          BY <1>3, <1>4, <3>1, <4>1, <4>3 DEF Placed, Counted, InHand, Alerts
        <4> QED
          BY <4>2, <4>3
      <3>2. Shelf(s)'
        BY <1>2, <3>1 DEF IInv, Shelf
      <3> QED
        BY <2>2, <3>2, EndingKept
    <2> QED
      BY <2>1, <2>2
  <1> QED
    BY <1>2, <1>5, <1>6 DEF IInv

\* The oldest alert leaves the queue of s, and is counted as dropped; or the
\* goroutine of s took what was there.
LEMMA EvictStep ==
    ASSUME IInv, NEW s \in Sink, EvictOldest(s)
    PROVE  IInv'
  <1> DEFINE h == Head(queue[s])
  <1>1. /\ queue[s] \in Seq(1..MaxAlerts) /\ MaxAlerts \in Nat
        /\ queue \in [Sink -> Seq(1..MaxAlerts)] /\ Rising(queue[s]) /\ Len(queue[s]) <= Cap[s]
    BY DeliveryAssumption DEF IInv, Typed, Shelf
  <1>2. /\ Turn(s) /\ emitter.pc = "evict" /\ ~closed
        /\ emitter' = [emitter EXCEPT !.pc = "again"]
        /\ UNCHANGED <<Emitting, emitted, worker>>
    BY DEF EvictOldest, IInv, Doorway
  <1>3. /\ emitter' \in EmitterType /\ emitter'.pc = "again" /\ emitter'.todo = emitter.todo
        /\ emitter'.alert = emitter.alert /\ Doorway'
        /\ \A r \in Sink, a \in 1..MaxAlerts : AtDoor(r, a)' <=> AtDoor(r, a)
        /\ \A r \in Sink : Turn(r)' <=> Turn(r)
    BY <1>2 DEF IInv, Typed, EmitterType, Doorway, Emitting, AtDoor, Turn, Alerts
  <1>4. \A r \in Sink : r # s => ~Turn(r)
    BY <1>2, TurnUnique
  <1>5. CASE queue[s] = <<>>
    <2>1. UNCHANGED <<queue, tally>>
      BY <1>5 DEF EvictOldest
    <2>2. Typed'
      BY <1>2, <1>3, <2>1 DEF IInv, Typed, Emitting, Outcome, WorkerType
    <2>3. Len(queue'[s]) < Cap[s]
      BY <1>5, <2>1, SinkFacts, EmptyFacts
    <2>4. ASSUME NEW r \in Sink PROVE Shelf(r)' /\ Ending(r)'
      <3>1. \A a \in 1..MaxAlerts : Placed(r, a)'
        BY <1>2, <1>3, <2>1, <2>4 DEF IInv, Shelf, Placed, Counted, InHand, Alerts
      <3>2. Shelf(r)'
        BY <1>2, <1>3, <1>4, <2>1, <2>3, <2>4, <3>1 DEF IInv, Shelf
      <3> QED
        BY <1>2, <2>1, <2>4, <3>2, EndingKept
    <2> QED
      BY <1>3, <2>2, <2>4 DEF IInv
  <1>6. CASE queue[s] # <<>>
    <2>1. /\ Tail(queue[s]) \in Seq(1..MaxAlerts) /\ Len(Tail(queue[s])) = Len(queue[s]) - 1
          /\ Len(queue[s]) >= 1 /\ Rising(Tail(queue[s]))
          /\ h \in 1..MaxAlerts /\ Holds(queue[s], h)
          /\ \A a : Holds(Tail(queue[s]), a) <=> Holds(queue[s], a) /\ a # h
      BY <1>1, <1>6, TailFacts
    <2>2. queue' = [queue EXCEPT ![s] = Tail(queue[s])] /\ Bump(s, h, "dropped")
      BY <1>6 DEF EvictOldest
    <2>3. /\ queue' \in [Sink -> Seq(1..MaxAlerts)] /\ queue'[s] = Tail(queue[s])
          /\ \A r \in Sink : r # s => queue'[r] = queue[r]
      BY <1>1, <2>1, <2>2
    <2>4. \A a \in 1..MaxAlerts : Placed(s, a) /\ tally[s][a] \in Seq(Outcome)
      BY DEF IInv, Typed, Shelf
    <2>5. tally[s][h] = <<>> /\ Len(tally[s][h]) = 0
      BY <2>1, <2>4 DEF Placed, Counted
    <2>6. /\ tally' \in [Sink -> [1..MaxAlerts -> Seq(Outcome)]]
          /\ \A b \in 1..MaxAlerts : b # h => tally'[s][b] = tally[s][b]
          /\ \A r \in Sink : r # s => tally'[r] = tally[r]
          /\ Len(tally'[s][h]) = 1 /\ tally'[s][h] # <<>>
      <3>1. "dropped" \in Outcome
        BY DEF Outcome
      <3>2. /\ tally' \in [Sink -> [1..MaxAlerts -> Seq(Outcome)]]
            /\ \A b \in 1..MaxAlerts : b # h => tally'[s][b] = tally[s][b]
            /\ \A r \in Sink : r # s => tally'[r] = tally[r]
            /\ Len(tally'[s][h]) = Len(tally[s][h]) + 1 /\ tally'[s][h] # <<>>
        BY <2>1, <2>2, <3>1, BumpFacts, Zenon
      <3> QED
        BY <2>5, <3>2
    <2>7. Typed'
      BY <1>2, <1>3, <2>3, <2>6 DEF IInv, Typed, Emitting, WorkerType
    <2>8. ASSUME NEW r \in Sink PROVE Shelf(r)' /\ Ending(r)'
      <3>1. CASE r # s
        BY <1>2, <1>3, <1>4, <2>3, <2>6, <2>8, <3>1, Elsewhere, EndingKept
      <3>2. CASE r = s
        <4>1. ASSUME NEW a \in 1..MaxAlerts PROVE Placed(s, a)'
          <5>1. /\ Placed(s, a) /\ (AtDoor(s, a)' <=> AtDoor(s, a))
                /\ (Holds(queue'[s], a) <=> Holds(queue[s], a) /\ a # h)
            <6>1. Placed(s, a)
              BY <2>4, <4>1
            <6>2. AtDoor(s, a)' <=> AtDoor(s, a)
              BY <1>3, <4>1
            <6>3. Holds(queue'[s], a) <=> Holds(queue[s], a) /\ a # h
              BY <2>1, <2>3
            <6> QED
              BY <6>1, <6>2, <6>3
          <5>2. CASE a = h
            <6>1. Len(tally'[s][a]) = 1 /\ tally'[s][a] # <<>> /\ Holds(queue[s], a)
              BY <2>1, <2>6, <5>2
            <6>2. emitted' = emitted /\ worker' = worker
              BY <1>2
            <6> QED
              BY <5>1, <5>2, <6>1, <6>2 DEF Placed, Counted, InHand, Alerts
          <5>3. CASE a # h
            BY <1>2, <2>6, <5>1, <5>3 DEF Placed, Counted, InHand, Alerts
          <5> QED
            BY <5>2, <5>3
        <4>2. Len(queue'[s]) < Cap[s] /\ Rising(queue'[s])
          BY <1>1, <2>1, <2>3, SinkFacts, SeqFacts
        <4>3. Shelf(s)'
          BY <1>2, <4>1, <4>2, SinkFacts, SeqFacts, <2>3 DEF IInv, Shelf
        <4> QED
          BY <1>2, <3>2, <4>3, EndingKept
      <3> QED
        BY <3>1, <3>2
    <2> QED
      BY <1>3, <2>7, <2>8 DEF IInv
  <1> QED
    BY <1>5, <1>6

\* The queue was found full.
LEMMA FullStep ==
    ASSUME IInv, NEW s \in Sink, EnqueueFull(s)
    PROVE  IInv'
  <1>1. /\ Turn(s) /\ emitter.pc = "put" /\ ~closed
        /\ emitter' = [emitter EXCEPT !.pc = "evict"]
        /\ UNCHANGED <<Emitting, emitted, queue, worker, tally>>
    BY DEF EnqueueFull
  <1>2. /\ emitter' \in EmitterType /\ emitter'.pc = "evict" /\ Doorway'
        /\ \A r \in Sink, a \in 1..MaxAlerts : AtDoor(r, a)' <=> AtDoor(r, a)
    BY <1>1 DEF IInv, Typed, EmitterType, Doorway, Emitting, AtDoor, Alerts
  <1>3. Typed'
    BY <1>1, <1>2 DEF IInv, Typed, Emitting, Outcome, WorkerType
  <1>4. ASSUME NEW r \in Sink PROVE Shelf(r)' /\ Ending(r)'
    BY <1>1, <1>2, <1>4, Elsewhere, EndingKept
  <1> QED
    BY <1>2, <1>3, <1>4 DEF IInv

\* The steps of enqueue; the second attempt to put an alert finds room.
LEMMA EnqueueStep ==
    ASSUME IInv, NEW s \in Sink, Enqueue(s)
    PROVE  IInv'
  <1>1. CASE Refuse(s)
    BY <1>1, TurnAwayStep DEF Refuse
  <1>2. CASE EnqueueFree(s)
    BY <1>2, PutStep DEF EnqueueFree
  <1>3. CASE EnqueueFull(s)
    BY <1>3, FullStep
  <1>4. CASE EvictOldest(s)
    BY <1>4, EvictStep
  <1>5. CASE EnqueueAgain(s)
    <2>1. ~closed /\ Len(queue[s]) < Cap[s]
      BY <1>5 DEF EnqueueAgain, IInv, Doorway, Shelf
    <2> QED
      BY <1>5, <2>1, PutStep DEF EnqueueAgain
  <1> QED
    BY <1>1, <1>2, <1>3, <1>4, <1>5 DEF Enqueue

-----------------------------------------------------------------------------
(***************************************************************************)
(* The steps of a goroutine.                                               *)
(***************************************************************************)
\* A step of the goroutine of s leaves the emitter and the other sinks alone.
LEMMA WorkerElsewhere ==
    ASSUME IInv, NEW s \in Sink, UNCHANGED <<Working, cancelled>>,
           \A r \in Sink : r # s =>
               queue'[r] = queue[r] /\ worker'[r] = worker[r] /\ tally'[r] = tally[r]
    PROVE  /\ Doorway'
           /\ \A r \in Sink : r # s => Shelf(r)' /\ Ending(r)'
  <1>1. /\ started' = started /\ closed' = closed /\ cancelled' = cancelled
        /\ emitted' = emitted /\ emitter' = emitter /\ closer' = closer /\ late' = late
    BY DEF Working
  <1>2. Doorway'
    BY <1>1 DEF IInv, Doorway, Alerts
  <1>3. UNCHANGED Emitting
    BY <1>1 DEF Emitting
  <1>4. ASSUME NEW r \in Sink, r # s PROVE Shelf(r)' /\ Ending(r)'
    <2>1. \A a \in 1..MaxAlerts : AtDoor(r, a)' <=> AtDoor(r, a)
      BY <1>1 DEF AtDoor
    <2>2. Turn(r)' <=> Turn(r)
      BY <1>1 DEF Turn
    <2> QED
      BY <1>1, <1>3, <1>4, <2>1, <2>2, Elsewhere, EndingKept
  <1> QED
    BY <1>2, <1>4

\* The oldest alert goes from the queue into the hands of the sink.
LEMMA ReceiveStep ==
    ASSUME IInv, NEW s \in Sink, Receive(s)
    PROVE  IInv'
  <1> DEFINE h == Head(queue[s])
             w == [pc |-> "send", alert |-> h, attempt |-> 0]
  <1>1. /\ queue[s] \in Seq(1..MaxAlerts) /\ MaxAlerts \in Nat /\ Retries \in Nat
        /\ queue \in [Sink -> Seq(1..MaxAlerts)] /\ worker \in [Sink -> WorkerType]
        /\ Rising(queue[s]) /\ Len(queue[s]) <= Cap[s]
    BY DeliveryAssumption DEF IInv, Typed, Shelf
  <1>2. /\ worker[s].pc = "select" /\ queue[s] # <<>>
        /\ queue' = [queue EXCEPT ![s] = Tail(queue[s])]
        /\ worker' = [worker EXCEPT ![s] = w]
        /\ UNCHANGED <<Working, cancelled>> /\ tally' = tally
    BY DEF Receive
  <1>3. /\ Tail(queue[s]) \in Seq(1..MaxAlerts) /\ Len(Tail(queue[s])) = Len(queue[s]) - 1
        /\ Len(queue[s]) >= 1 /\ Rising(Tail(queue[s]))
        /\ h \in 1..MaxAlerts /\ Holds(queue[s], h)
        /\ \A a : Holds(Tail(queue[s]), a) <=> Holds(queue[s], a) /\ a # h
    BY <1>1, <1>2, TailFacts
  <1>4. w \in WorkerType /\ w.pc = "send" /\ w.alert = h
    BY <1>1, <1>3 DEF WorkerType
  <1> HIDE DEF w, h
  <1>5. /\ queue' \in [Sink -> Seq(1..MaxAlerts)] /\ queue'[s] = Tail(queue[s])
        /\ worker' \in [Sink -> WorkerType] /\ worker'[s] = w
        /\ \A r \in Sink : r # s => queue'[r] = queue[r] /\ worker'[r] = worker[r]
    BY <1>1, <1>2, <1>3, <1>4
  <1>6. /\ started' = started /\ closed' = closed /\ cancelled' = cancelled
        /\ emitted' = emitted /\ emitter' = emitter /\ closer' = closer /\ late' = late
    BY <1>2 DEF Working
  <1>7. Typed'
    BY <1>2, <1>5, <1>6 DEF IInv, Typed, Outcome, EmitterType
  <1>8. worker[s].alert = 0 /\ \A a \in 1..MaxAlerts : Placed(s, a)
    BY <1>2 DEF IInv, Shelf
  <1>9. ASSUME NEW a \in 1..MaxAlerts PROVE Placed(s, a)'
    <2>1. /\ Placed(s, a) /\ tally'[s][a] = tally[s][a]
          /\ (AtDoor(s, a)' <=> AtDoor(s, a))
          /\ (Holds(queue'[s], a) <=> Holds(queue[s], a) /\ a # h)
          /\ (worker'[s].alert = a <=> a = h) /\ worker[s].alert # a
      <3>1. Placed(s, a) /\ worker[s].alert # a
        BY <1>8, <1>9
      <3>2. AtDoor(s, a)' <=> AtDoor(s, a)
        BY <1>6 DEF AtDoor
      <3> QED
        BY <1>2, <1>3, <1>4, <1>5, <3>1, <3>2
    <2> QED
      BY <1>3, <1>6, <2>1 DEF Placed, Counted, InHand, Alerts
  <1>10. Shelf(s)'
    <2>1. Turn(s)' <=> Turn(s)
      BY <1>6 DEF Turn
    <2>2. Len(queue'[s]) <= Cap[s] /\ Len(queue'[s]) < Len(queue[s]) /\ Rising(queue'[s])
      BY <1>1, <1>3, <1>5, SinkFacts, SeqFacts
    <2>3. emitter'.pc = "again" /\ Turn(s)' => Len(queue'[s]) < Cap[s]
      BY <1>1, <1>5, <1>6, <2>1, <2>2, SinkFacts, SeqFacts DEF IInv, Shelf
    <2>4. worker'[s].pc = "send" /\ worker'[s].alert # 0
      BY <1>3, <1>4, <1>5
    <2> QED
      BY <1>9, <2>2, <2>3, <2>4 DEF Shelf
  <1>11. Ending(s)'
    BY <1>2, <1>4, <1>5, <1>6 DEF IInv, Ending
  <1>12. Doorway' /\ \A r \in Sink : r # s => Shelf(r)' /\ Ending(r)'
    BY <1>2, <1>5, WorkerElsewhere
  <1> QED
    BY <1>7, <1>10, <1>11, <1>12 DEF IInv

\* The goroutine ends.
LEMMA ExitStep ==
    ASSUME IInv, NEW s \in Sink, Exit(s)
    PROVE  IInv'
  <1>1. /\ worker[s].pc = "select" /\ (cancelled \/ (closed /\ queue[s] = <<>>))
        /\ worker' = [worker EXCEPT ![s] = Waiting("exited")]
        /\ UNCHANGED <<Working, cancelled>> /\ tally' = tally /\ queue' = queue
    BY DEF Exit
  <1>2. /\ Waiting("exited") \in WorkerType /\ Waiting("exited").pc = "exited"
        /\ Waiting("exited").alert = 0
    BY DeliveryAssumption DEF WorkerType, Waiting
  <1>3. /\ worker' \in [Sink -> WorkerType] /\ worker'[s] = Waiting("exited")
        /\ \A r \in Sink : r # s => worker'[r] = worker[r]
    BY <1>1, <1>2 DEF IInv, Typed
  <1>4. /\ started' = started /\ closed' = closed /\ cancelled' = cancelled
        /\ emitted' = emitted /\ emitter' = emitter /\ closer' = closer /\ late' = late
    BY <1>1 DEF Working
  <1>5. Typed'
    BY <1>1, <1>3, <1>4 DEF IInv, Typed, Outcome, EmitterType
  <1>6. worker[s].alert = 0 /\ worker'[s].alert = 0 /\ worker'[s].pc = "exited"
    BY <1>1, <1>2, <1>3 DEF IInv, Shelf
  <1>7. ASSUME NEW a \in 1..MaxAlerts PROVE Placed(s, a)'
    <2>1. Placed(s, a)
      BY <1>7 DEF IInv, Shelf
    <2> QED
      BY <1>1, <1>4, <1>6, <2>1 DEF Placed, Counted, InHand, AtDoor, Alerts
  <1>8. Shelf(s)'
    <2>1. Turn(s)' <=> Turn(s)
      BY <1>4 DEF Turn
    <2> QED
      BY <1>1, <1>4, <1>6, <1>7, <2>1 DEF IInv, Shelf
  <1>9. Ending(s)'
    BY <1>1, <1>4, <1>6 DEF IInv, Ending
  <1>10. Doorway' /\ \A r \in Sink : r # s => Shelf(r)' /\ Ending(r)'
    BY <1>1, <1>3, WorkerElsewhere
  <1> QED
    BY <1>5, <1>8, <1>9, <1>10 DEF IInv

\* The alert in hand is counted.
LEMMA SettleStep ==
    ASSUME IInv, NEW s \in Sink, NEW as \in Outcome, worker[s].pc = "send", Settle(s, as),
           UNCHANGED <<Working, cancelled, queue>>
    PROVE  IInv'
  <1> DEFINE n == worker[s].alert
  <1>1. /\ worker' = [worker EXCEPT ![s] = Waiting("select")] /\ Bump(s, n, as)
        /\ UNCHANGED <<Working, cancelled>> /\ queue' = queue
    BY DEF Settle
  <1>2. /\ Waiting("select") \in WorkerType /\ Waiting("select").pc = "select"
        /\ Waiting("select").alert = 0
    BY DeliveryAssumption DEF WorkerType, Waiting
  <1>3. /\ worker' \in [Sink -> WorkerType] /\ worker'[s] = Waiting("select")
        /\ \A r \in Sink : r # s => worker'[r] = worker[r]
    BY <1>1, <1>2 DEF IInv, Typed
  <1>4. /\ started' = started /\ closed' = closed /\ cancelled' = cancelled
        /\ emitted' = emitted /\ emitter' = emitter /\ closer' = closer /\ late' = late
    BY <1>1 DEF Working
  <1>5. n \in 1..MaxAlerts
    <2>1. n \in 0..MaxAlerts /\ n # 0
      BY DEF IInv, Typed, WorkerType, Shelf
    <2> QED
      BY <2>1, DeliveryAssumption
  <1>6. /\ tally' \in [Sink -> [1..MaxAlerts -> Seq(Outcome)]]
        /\ \A b \in 1..MaxAlerts : b # n => tally'[s][b] = tally[s][b]
        /\ \A r \in Sink : r # s => tally'[r] = tally[r]
        /\ Len(tally'[s][n]) = Len(tally[s][n]) + 1 /\ tally'[s][n] # <<>>
    BY <1>1, <1>5, BumpFacts, Zenon
  <1>7. Typed'
    BY <1>1, <1>3, <1>4, <1>6 DEF IInv, Typed, EmitterType
  <1>8. worker'[s].alert = 0 /\ worker'[s].pc = "select"
    BY <1>2, <1>3
  <1>9. ASSUME NEW a \in 1..MaxAlerts PROVE Placed(s, a)'
    <2>1. Placed(s, a) /\ tally[s][a] \in Seq(Outcome)
      BY <1>9 DEF IInv, Typed, Shelf
    <2>2. CASE a = n
      <3>1. tally[s][a] = <<>> /\ InHand(s, a)
        BY <2>1, <2>2 DEF Placed, Counted, InHand
      <3>2. Len(tally'[s][a]) = 1 /\ tally'[s][a] # <<>>
        BY <1>6, <2>2, <3>1, EmptyFacts
      <3> QED
        BY <1>1, <1>4, <1>8, <2>1, <3>1, <3>2 DEF Placed, Counted, InHand, AtDoor, Alerts
    <2>3. CASE a # n
      <3>1. tally'[s][a] = tally[s][a] /\ ~InHand(s, a)
        BY <1>6, <2>3 DEF InHand
      <3> QED
        BY <1>1, <1>4, <1>8, <2>1, <3>1 DEF Placed, Counted, InHand, AtDoor, Alerts
    <2> QED
      BY <2>2, <2>3
  <1>10. Shelf(s)'
    <2>1. Turn(s)' <=> Turn(s)
      BY <1>4 DEF Turn
    <2> QED
      BY <1>1, <1>4, <1>8, <1>9, <2>1 DEF IInv, Shelf
  <1>11. Ending(s)'
    BY <1>1, <1>4, <1>8 DEF IInv, Ending
  <1>12. Doorway' /\ \A r \in Sink : r # s => Shelf(r)' /\ Ending(r)'
    BY <1>1, <1>3, <1>6, WorkerElsewhere
  <1> QED
    BY <1>7, <1>10, <1>11, <1>12 DEF IInv

\* The alert stays in hand, to be sent again.
LEMMA WaitStep ==
    ASSUME IInv, NEW s \in Sink, NEW w \in WorkerType,
           worker[s].pc \in {"send", "backoff"}, w.pc \in {"send", "backoff"},
           w.pc = "backoff" => w.attempt < Retries,
           w.alert = worker[s].alert, worker' = [worker EXCEPT ![s] = w],
           UNCHANGED <<Working, cancelled, queue>>, tally' = tally
    PROVE  IInv'
  <1>1. /\ worker' \in [Sink -> WorkerType] /\ worker'[s] = w
        /\ \A r \in Sink : r # s => worker'[r] = worker[r]
    BY DEF IInv, Typed
  <1>2. /\ started' = started /\ closed' = closed /\ cancelled' = cancelled /\ queue' = queue
        /\ emitted' = emitted /\ emitter' = emitter /\ closer' = closer /\ late' = late
    BY DEF Working
  <1>3. Typed'
    BY <1>1, <1>2 DEF IInv, Typed, EmitterType, Outcome
  <1>4. ASSUME NEW a \in 1..MaxAlerts PROVE Placed(s, a)'
    <2>1. Placed(s, a)
      BY <1>4 DEF IInv, Shelf
    <2> QED
      BY <1>1, <1>2, <2>1 DEF Placed, Counted, InHand, AtDoor, Alerts
  <1>5. Shelf(s)'
    <2>1. Turn(s)' <=> Turn(s)
      BY <1>2 DEF Turn
    <2> QED
      BY <1>1, <1>2, <1>4, <2>1 DEF IInv, Shelf
  <1>6. Ending(s)'
    BY <1>1, <1>2 DEF IInv, Ending
  <1>7. Doorway' /\ \A r \in Sink : r # s => Shelf(r)' /\ Ending(r)'
    BY <1>1, <1>2, WorkerElsewhere
  <1> QED
    BY <1>3, <1>5, <1>6, <1>7 DEF IInv

\* All steps of a goroutine.
LEMMA WorkerStep ==
    ASSUME IInv, NEW s \in Sink, Worker(s)
    PROVE  IInv'
  <1>1. /\ worker[s] \in WorkerType /\ Retries \in Nat
        /\ worker[s].pc = "backoff" => worker[s].attempt < Retries
    BY DeliveryAssumption DEF IInv, Typed, Shelf
  <1>2. CASE Receive(s)
    BY <1>2, ReceiveStep
  <1>3. CASE Exit(s)
    BY <1>3, ExitStep
  <1>4. CASE Sent(s)
    <2>1. "sent" \in Outcome
      BY DEF Outcome
    <2> QED
      BY <1>4, <2>1, SettleStep DEF Sent
  <1>5. ASSUME NEW transient \in BOOLEAN, Failed(s, transient) PROVE IInv'
    <2>1. CASE GivesUp(s, transient)
      <3>1. "failed" \in Outcome
        BY DEF Outcome
      <3> QED
        BY <1>5, <2>1, <3>1, SettleStep DEF Failed
    <2>2. CASE ~GivesUp(s, transient)
      <3> DEFINE w == [worker[s] EXCEPT !.pc = "backoff"]
      <3>1. /\ w \in WorkerType /\ w.pc = "backoff" /\ w.alert = worker[s].alert
            /\ w.attempt < Retries
        BY <1>1, <2>2 DEF GivesUp, WorkerType
      <3>2. /\ worker[s].pc = "send" /\ worker' = [worker EXCEPT ![s] = w] /\ tally' = tally
            /\ UNCHANGED <<Working, cancelled, queue>>
        BY <1>5, <2>2 DEF Failed
      <3> HIDE DEF w
      <3> QED
        BY <3>1, <3>2, WaitStep
    <2> QED
      BY <2>1, <2>2
  <1>6. CASE Retry(s)
    <2> DEFINE w == [worker[s] EXCEPT !.pc = "send", !.attempt = worker[s].attempt + 1]
    <2>1. /\ worker[s].pc = "backoff" /\ tally' = tally
          /\ worker' = [worker EXCEPT ![s].pc = "send", ![s].attempt = @ + 1]
          /\ UNCHANGED <<Working, cancelled, queue>>
      BY <1>6 DEF Retry
    <2>2. worker' = [worker EXCEPT ![s] = w]
      BY <2>1 DEF IInv, Typed, WorkerType
    <2>3. w \in WorkerType /\ w.pc = "send" /\ w.alert = worker[s].alert
      <3>1. worker[s].attempt \in 0..Retries /\ worker[s].attempt < Retries
        BY <1>1, <2>1 DEF WorkerType
      <3>2. worker[s].attempt + 1 \in 0..Retries
        BY <1>1, <3>1
      <3> QED
        BY <1>1, <3>2 DEF WorkerType
    <2> HIDE DEF w
    <2> QED
      BY <2>1, <2>2, <2>3, WaitStep
  <1> QED
    BY <1>2, <1>3, <1>4, <1>5, <1>6 DEF Worker, Deliver

-----------------------------------------------------------------------------
(***************************************************************************)
(* Close and the signal.                                                   *)
(***************************************************************************)
\* Close and the signal leave the alerts where they are.
LEMMA CloserElsewhere ==
    ASSUME IInv, UNCHANGED <<started, emitted, emitter, queue, worker, tally>>,
           closed' \in BOOLEAN, cancelled' \in BOOLEAN,
           late' \in [deadline : BOOLEAN, signal : BOOLEAN],
           closer' \in {"open", "draining", "cancelling", "returned"}
    PROVE  Typed' /\ \A s \in Sink : Shelf(s)'
  <1>1. Typed'
    BY DEF IInv, Typed, EmitterType, WorkerType, Outcome
  <1>2. ASSUME NEW s \in Sink PROVE Shelf(s)'
    <2>1. \A a \in 1..MaxAlerts : AtDoor(s, a)' <=> AtDoor(s, a)
      BY DEF AtDoor
    <2>2. Turn(s)' <=> Turn(s)
      BY DEF Turn
    <2> QED
      BY <1>2, <2>1, <2>2, Elsewhere
  <1> QED
    BY <1>1, <1>2

\* Close cancels when all goroutines ended, or at its deadline, which is noted.
LEMMA ClosingStep == IInv /\ (Close \/ CloseStep \/ Signal) => IInv'
  <1>1. ASSUME IInv, Close PROVE IInv'
    <2>1. closed' \in BOOLEAN /\ cancelled' \in BOOLEAN /\ late' \in [deadline : BOOLEAN, signal : BOOLEAN]
      BY <1>1 DEF IInv, Typed, Close
    <2>2. Typed' /\ \A s \in Sink : Shelf(s)'
      BY <1>1, <2>1, CloserElsewhere DEF Close
    <2>3. Doorway' /\ \A s \in Sink : Ending(s)'
      BY <1>1 DEF IInv, Doorway, Ending, Close, Alerts
    <2> QED
      BY <2>2, <2>3 DEF IInv
  <1>2. ASSUME IInv, NEW inTime \in BOOLEAN, Drained(inTime) PROVE IInv'
    <2>1. /\ closed' \in BOOLEAN /\ cancelled' \in BOOLEAN
          /\ late' \in [deadline : BOOLEAN, signal : BOOLEAN]
          /\ late'.deadline = ~inTime /\ late'.signal = late.signal
      BY <1>2 DEF IInv, Typed, Drained
    <2>2. Typed' /\ \A s \in Sink : Shelf(s)'
      BY <1>2, <2>1, CloserElsewhere DEF Drained
    <2>3. Doorway'
      BY <1>2 DEF IInv, Doorway, Drained, Alerts
    <2>4. ASSUME NEW s \in Sink PROVE Ending(s)'
      <3>1. Ending(s) /\ (cancelled /\ ~late.signal => closer \in {"cancelling", "returned"})
        BY <1>2, <2>4 DEF IInv, Doorway
      <3>2. inTime => worker[s].pc \in {"none", "exited"}
        BY <1>2, <2>4 DEF Drained, Exited
      <3> QED
        BY <1>2, <2>1, <3>1, <3>2 DEF Ending, Drained
    <2> QED
      BY <2>2, <2>3, <2>4 DEF IInv
  <1>3. ASSUME IInv, CloseReturns PROVE IInv'
    <2>1. closed' \in BOOLEAN /\ cancelled' \in BOOLEAN /\ late' \in [deadline : BOOLEAN, signal : BOOLEAN]
      BY <1>3 DEF IInv, Typed, CloseReturns
    <2>2. Typed' /\ \A s \in Sink : Shelf(s)'
      BY <1>3, <2>1, CloserElsewhere DEF CloseReturns
    <2>3. Doorway' /\ \A s \in Sink : Ending(s)'
      BY <1>3 DEF IInv, Doorway, Ending, CloseReturns, Alerts
    <2> QED
      BY <2>2, <2>3 DEF IInv
  <1>4. ASSUME IInv, Signal PROVE IInv'
    <2>1. /\ closed' \in BOOLEAN /\ cancelled' \in BOOLEAN
          /\ late' \in [deadline : BOOLEAN, signal : BOOLEAN]
          /\ late'.signal /\ late'.deadline = late.deadline
      BY <1>4 DEF IInv, Typed, Signal
    <2>2. Typed' /\ \A s \in Sink : Shelf(s)'
      BY <1>4, <2>1, CloserElsewhere DEF Signal, IInv, Typed
    <2>3. Doorway' /\ \A s \in Sink : Ending(s)'
      BY <1>4, <2>1 DEF IInv, Doorway, Ending, Signal, Alerts
    <2> QED
      BY <2>2, <2>3 DEF IInv
  <1> QED
    BY <1>1, <1>2, <1>3, <1>4 DEF CloseStep

\* Every step keeps the invariant.
LEMMA NextIInv == IInv /\ [Next]_vars => IInv'
  <1> SUFFICES ASSUME IInv, [Next]_vars PROVE IInv'
    OBVIOUS
  <1>1. CASE UNCHANGED vars
    <2>1. /\ UNCHANGED <<started, emitted, emitter, queue, worker, tally>>
          /\ closed' = closed /\ cancelled' = cancelled /\ late' = late /\ closer' = closer
      BY <1>1 DEF vars
    <2>2. Typed' /\ \A s \in Sink : Shelf(s)'
      BY <2>1, CloserElsewhere DEF IInv, Typed
    <2>3. Doorway' /\ \A s \in Sink : Ending(s)'
      BY <2>1 DEF IInv, Doorway, Ending, Alerts
    <2> QED
      BY <2>2, <2>3 DEF IInv
  <1> QED
    BY <1>1, StartStep, FanoutStep, EnqueueStep, WorkerStep, ClosingStep DEF Next

\* The invariant holds always.
LEMMA Inductive == Spec => []IInv
  BY InitIInv, NextIInv, PTL DEF Spec

-----------------------------------------------------------------------------
(***************************************************************************)
(* What the invariant says.                                                *)
(***************************************************************************)
\* Every queue, goroutine and count of the dispatcher has its type: a queue
\* never holds more than its bound, and only alerts that were emitted.
THEOREM DeliveryTypeOK == Spec => []TypeOK
  <1>1. ASSUME IInv PROVE TypeOK
    <2>1. ASSUME NEW s \in Sink
          PROVE  /\ queue[s] \in Seq(Alerts) /\ Len(queue[s]) <= Cap[s]
                 /\ worker[s] \in WorkerType /\ tally[s] \in [1..MaxAlerts -> Seq(Outcome)]
      <3>1. /\ queue[s] \in Seq(1..MaxAlerts) /\ Shelf(s)
            /\ worker[s] \in WorkerType /\ tally[s] \in [1..MaxAlerts -> Seq(Outcome)]
        BY <1>1, <2>1 DEF IInv, Typed
      <3>2. /\ Len(queue[s]) \in Nat /\ DOMAIN queue[s] = 1..Len(queue[s])
            /\ \A i \in 1..Len(queue[s]) : queue[s][i] \in 1..MaxAlerts
        BY <3>1, SeqFacts
      <3>3. \A i \in 1..Len(queue[s]) : queue[s][i] \in Alerts
        BY <3>1, <3>2 DEF Shelf, Placed, Holds
      <3>4. queue[s] \in [1..Len(queue[s]) -> Alerts]
        BY <3>1, <3>2, <3>3
      <3>5. queue[s] \in Seq(Alerts)
        BY <3>2, <3>4
      <3> QED
        BY <3>1, <3>5 DEF Shelf
    <2> QED
      BY <1>1, <2>1 DEF TypeOK, IInv, Typed, Doorway, EmitterType, WorkerType
  <1> QED
    BY <1>1, Inductive, PTL

\* An alert that a sink wants is counted exactly once or at exactly one place
\* on its way: nothing is lost or counted twice by evictions, retries and the
\* end of the goroutines (enqueue, run and deliver in dispatcher.go).
THEOREM CountedExactlyOnce == Spec => []CountedOnce
  <1>1. ASSUME IInv PROVE CountedOnce
    <2> SUFFICES ASSUME NEW s \in Sink, NEW a \in Alerts
                 PROVE  Len(tally[s][a])
                          + Cardinality({i \in DOMAIN queue[s] : queue[s][i] = a})
                          + Cardinality({p \in {"hand", "door"} :
                                IF p = "hand" THEN InHand(s, a) ELSE AtDoor(s, a)})
                        = IF s \in Wanting(emitted[a]) THEN 1 ELSE 0
      BY DEF CountedOnce
    <2> DEFINE queued == {i \in DOMAIN queue[s] : queue[s][i] = a}
               held == {p \in {"hand", "door"} :
                            IF p = "hand" THEN InHand(s, a) ELSE AtDoor(s, a)}
    <2>1. a \in 1..MaxAlerts
      <3>1. Alerts = 1..Len(emitted) /\ Len(emitted) \in Nat /\ Len(emitted) <= MaxAlerts
        BY <1>1, SeqFacts DEF IInv, Typed, Alerts
      <3> QED
        BY <3>1, DeliveryAssumption
    <2>2. /\ Placed(s, a) /\ tally[s][a] \in Seq(Outcome) /\ Rising(queue[s])
          /\ queue[s] \in Seq(1..MaxAlerts) /\ MaxAlerts \in Nat
      BY <1>1, <2>1, DeliveryAssumption DEF IInv, Typed, Shelf
    <2>3. Cardinality(queued) = IF Holds(queue[s], a) THEN 1 ELSE 0
      BY <2>2, Positions
    <2>4. Cardinality(held) = IF InHand(s, a) \/ AtDoor(s, a) THEN 1 ELSE 0
      <3>1. ~(InHand(s, a) /\ AtDoor(s, a))
        BY <2>2 DEF Placed
      <3>2. CASE InHand(s, a)
        <4>1. held = {"hand"}
          BY <3>1, <3>2
        <4> QED
          BY <3>2, <4>1, FS_Singleton
      <3>3. CASE AtDoor(s, a)
        <4>1. held = {"door"}
          BY <3>1, <3>3
        <4> QED
          BY <3>3, <4>1, FS_Singleton
      <3>4. CASE ~InHand(s, a) /\ ~AtDoor(s, a)
        <4>1. held = {}
          BY <3>4
        <4> QED
          BY <3>4, <4>1, FS_EmptySet
      <3> QED
        BY <3>2, <3>3, <3>4
    <2>5. Len(tally[s][a]) = IF Counted(s, a) THEN 1 ELSE 0
      <3>1. Len(tally[s][a]) \in Nat /\ (Len(tally[s][a]) = 0 <=> tally[s][a] = <<>>)
        BY <2>2
      <3> QED
        BY <2>2, <3>1 DEF Placed, Counted
    <2> HIDE DEF queued, held
    <2>6. /\ Counted(s, a) => ~Holds(queue[s], a) /\ ~InHand(s, a) /\ ~AtDoor(s, a)
          /\ Holds(queue[s], a) => ~InHand(s, a) /\ ~AtDoor(s, a)
          /\ (Counted(s, a) \/ Holds(queue[s], a) \/ InHand(s, a) \/ AtDoor(s, a))
                 <=> s \in Wanting(emitted[a])
      BY <2>2 DEF Placed
    <2>7. Len(tally[s][a]) + Cardinality(queued) + Cardinality(held)
              = IF s \in Wanting(emitted[a]) THEN 1 ELSE 0
      BY <2>3, <2>4, <2>5, <2>6
    <2> QED
      BY <2>7 DEF queued, held
  <1> QED
    BY <1>1, Inductive, PTL

\* Close flushes: unless its deadline passed or a signal came before, nothing
\* is left on a queue or in the hands of a sink when it returns.
THEOREM CloseFlushes == Spec => []Flushed
  <1>1. ASSUME IInv PROVE Flushed
    <2>1. ASSUME NEW s \in Sink, closer = "returned", started, ~late.deadline, ~late.signal
          PROVE  queue[s] = <<>> /\ worker[s].alert = 0
      <3>1. Ending(s) /\ Shelf(s)
        BY <1>1, <2>1 DEF IInv
      <3>2. queue[s] = <<>> /\ worker[s].pc = "exited"
        BY <2>1, <3>1 DEF Ending
      <3> QED
        BY <3>1, <3>2 DEF Shelf
    <2> QED
      BY <2>1 DEF Flushed, AllCounted
  <1> QED
    BY <1>1, Inductive, PTL

-----------------------------------------------------------------------------
(***************************************************************************)
(* The promise of Outbox.                                                  *)
(***************************************************************************)
fates == [s \in Sink |-> [a \in 1..MaxAlerts |-> Fate(s, a)]]
crowds == [s \in Sink |-> emitter.pc = "evict" /\ Turn(s)]

\* The alert at the door waits: the queue was full when it came.
Here(s, a) == AtDoor(s, a) /\ Turn(s) /\ emitter.pc \in {"evict", "again"}

\* What a fate says of an alert's place.
LEMMA FateFacts ==
    ASSUME IInv, NEW s \in Sink, NEW a \in 1..MaxAlerts
    PROVE  /\ Fate(s, a) = "sending" <=> InHand(s, a)
           /\ Fate(s, a) = "waiting" <=> Holds(queue[s], a) \/ Here(s, a)
           /\ ~Counted(s, a) /\ ~InHand(s, a) /\ ~Holds(queue[s], a) /\ ~Here(s, a)
                  => Fate(s, a) = "none"
  <1>1. Placed(s, a) /\ tally[s][a] \in Seq(Outcome)
    BY DEF IInv, Typed, Shelf
  <1>2. a \in Range(queue[s]) <=> Holds(queue[s], a)
    BY DEF Range, Holds
  <1>3. Counted(s, a) => Head(tally[s][a]) \in Outcome
    BY <1>1 DEF Counted
  <1>4. CASE Counted(s, a)
    <2>1. Fate(s, a) = Head(tally[s][a]) /\ Head(tally[s][a]) \in Outcome
      BY <1>3, <1>4 DEF Fate
    <2>2. ~InHand(s, a) /\ ~Holds(queue[s], a) /\ ~Here(s, a)
      BY <1>1, <1>4 DEF Placed, Here
    <2>3. Fate(s, a) # "sending" /\ Fate(s, a) # "waiting"
      BY <2>1 DEF Outcome
    <2> QED
      BY <1>4, <2>2, <2>3
  <1>5. CASE ~Counted(s, a)
    <2>1. Fate(s, a) = IF InHand(s, a) THEN "sending"
                       ELSE IF Holds(queue[s], a) \/ Here(s, a) THEN "waiting" ELSE "none"
      BY <1>2, <1>5 DEF Fate, Here
    <2>2. InHand(s, a) => ~Holds(queue[s], a) /\ ~Here(s, a)
      BY <1>1 DEF Placed, Here
    <2> QED
      BY <1>5, <2>1, <2>2
  <1> QED
    BY <1>4, <1>5

\* An alert that stays at its place keeps its fate.
LEMMA FateSame ==
    ASSUME NEW s, NEW a, tally'[s][a] = tally[s][a], worker'[s].alert = worker[s].alert,
           (Holds(queue[s], a) \/ Here(s, a))' <=> (Holds(queue[s], a) \/ Here(s, a))
    PROVE  Fate(s, a)' = Fate(s, a)
  <1>1. a \in Range(queue[s]) <=> Holds(queue[s], a)
    BY DEF Range, Holds
  <1>2. (a \in Range(queue[s]) <=> Holds(queue[s], a))'
    BY DEF Range, Holds
  <1> QED
    BY <1>1, <1>2 DEF Fate, Here, Counted, InHand

\* One fate changes, or none does.
LEMMA FatesChange ==
    ASSUME NEW s \in Sink, NEW a \in 1..MaxAlerts,
           \A r \in Sink, b \in 1..MaxAlerts : r # s \/ b # a => Fate(r, b)' = Fate(r, b)
    PROVE  /\ fates' = [fates EXCEPT ![s][a] = Fate(s, a)']
           /\ Fate(s, a)' = Fate(s, a) => fates' = fates
  <1> DEFINE row(r) == [b \in 1..MaxAlerts |-> Fate(r, b)]
  <1>1. \A r \in Sink : r # s => row(r)' = row(r)
    OBVIOUS
  <1>2. row(s)' = [row(s) EXCEPT ![a] = Fate(s, a)']
    OBVIOUS
  <1>3. fates = [r \in Sink |-> row(r)] /\ fates' = [r \in Sink |-> row(r)']
    BY DEF fates
  <1>4. Fate(s, a)' = Fate(s, a) => row(s)' = row(s)
    OBVIOUS
  <1> HIDE DEF row
  <1>5. fates[s] = row(s)
    BY <1>3
  <1>6. fates' = [fates EXCEPT ![s] = row(s)']
    BY <1>1, <1>3
  <1> QED
    BY <1>1, <1>2, <1>3, <1>4, <1>5, <1>6

\* No fate changes.
LEMMA FatesStay ==
    ASSUME \A r \in Sink, b \in 1..MaxAlerts : Fate(r, b)' = Fate(r, b)
    PROVE  fates' = fates
  BY DEF fates

\* Unless the emitter is about to evict, no queue is crowded.
LEMMA NotCrowded ==
    ASSUME emitter.pc # "evict", emitter'.pc # "evict"
    PROVE  crowds' = crowds /\ \A s \in Sink : crowds[s] = FALSE
  BY DEF crowds

\* The queue of s is crowded while the emitter is about to evict from it.
LEMMA Crowded ==
    ASSUME NEW s \in Sink, Turn(s), emitter.pc = "evict"
    PROVE  crowds[s] = TRUE /\ crowds = [r \in Sink |-> r = s]
  BY TurnUnique DEF crowds

\* The steps that concern no sink's alerts.
LEMMA SilentStep ==
    ASSUME IInv, UNCHANGED <<queue, tally>>,
           \A r \in Sink : worker'[r].alert = worker[r].alert,
           \/ emitter' = emitter
           \/ emitter.pc \in {"idle", "put"} /\ emitter'.pc \in {"idle", "put"}
    PROVE  fates' = fates /\ crowds' = crowds
  <1>1. ASSUME NEW r \in Sink, NEW b \in 1..MaxAlerts PROVE Here(r, b)' <=> Here(r, b)
    BY DEF Here, AtDoor, Turn
  <1>2. ASSUME NEW r \in Sink, NEW b \in 1..MaxAlerts PROVE Fate(r, b)' = Fate(r, b)
    BY <1>1, <1>2, FateSame
  <1>3. crowds' = crowds
    BY DEF crowds, Turn
  <1> QED
    BY <1>2, <1>3, FatesStay

\* The newest alert is new to the sink it is put to.
LEMMA NewFacts ==
    ASSUME IInv, NEW s \in Sink, Turn(s), emitter.pc = "put"
    PROVE  Promise!New(s, emitter.alert)
  <1> DEFINE n == emitter.alert
  <1>1. /\ n \in 1..MaxAlerts /\ n = Len(emitted) /\ Len(tally[s][n]) = 0 /\ ~InHand(s, n)
        /\ \A a \in 1..MaxAlerts : AtDoor(s, a) <=> a = n
        /\ \A a \in 1..MaxAlerts : Holds(queue[s], a) => a < n
    BY DoorFacts
  <1>2. ASSUME NEW b \in n..MaxAlerts PROVE Fate(s, b) = "none"
    <2>1. b \in 1..MaxAlerts /\ b >= n /\ MaxAlerts \in Nat
      BY <1>1, <1>2, DeliveryAssumption
    <2>2. Placed(s, b) /\ tally[s][b] \in Seq(Outcome)
      BY <2>1 DEF IInv, Typed, Shelf
    <2>3. ~Here(s, b) /\ ~Holds(queue[s], b)
      BY <1>1, <2>1 DEF Here
    <2>4. CASE b = n
      <3>1. tally[s][b] = <<>>
        BY <1>1, <2>2, <2>4
      <3> QED
        BY <1>1, <2>1, <2>3, <2>4, <3>1, FateFacts DEF Counted
    <2>5. CASE b # n
      <3>1. b > n /\ Alerts = 1..n
        BY <1>1, <2>1, <2>5, SeqFacts DEF Alerts, IInv, Typed
      <3>2. b \notin Alerts
        BY <1>1, <2>1, <3>1
      <3> QED
        BY <2>1, <2>2, <2>3, <3>2, FateFacts DEF Placed
    <2> QED
      BY <2>4, <2>5
  <1>3. \A b \in n..MaxAlerts : b \in 1..MaxAlerts
    BY <1>1, DeliveryAssumption
  <1> QED
    BY <1>2, <1>3 DEF Promise!New, Promise!Alerts, fates

\* The cardinality Outbox speaks of is the one of FiniteSets.
LEMMA SameCard == \A S : Promise!Cardinality(S) = Cardinality(S)
  BY DEF Promise!Cardinality, Cardinality

\* How many alerts wait, before one is put.
LEMMA WaitingCard ==
    ASSUME IInv, NEW s \in Sink, emitter.pc = "put"
    PROVE  Promise!Cardinality(Promise!In(s, "waiting")) = Len(queue[s])
  <1>1. \A a \in 1..MaxAlerts : Fate(s, a) = "waiting" <=> Holds(queue[s], a)
    BY FateFacts DEF Here
  <1>2. Promise!In(s, "waiting") = {a \in 1..MaxAlerts : Holds(queue[s], a)}
    BY <1>1 DEF Promise!In, Promise!Alerts
  <1>3. queue[s] \in Seq(1..MaxAlerts) /\ Rising(queue[s]) /\ MaxAlerts \in Nat
    BY DeliveryAssumption DEF IInv, Typed, Shelf
  <1> QED
    BY <1>2, <1>3, RisingCard, SameCard

\* A refused alert is dropped when it is new.
LEMMA RefusePromised ==
    ASSUME IInv, NEW s \in Sink, NEW n \in 1..MaxAlerts, n = emitter.alert, Refuse(s)
    PROVE  Promise!Refuse(s, n)
  <1>1. /\ emitter.pc = "put" /\ Turn(s) /\ closed /\ Bump(s, n, "dropped")
        /\ emitter' = Passed(s) /\ UNCHANGED <<Emitting, emitted, worker, queue>>
    BY DEF Refuse
  <1>2. /\ n \in 1..MaxAlerts /\ Len(tally[s][n]) = 0
        /\ \A a \in 1..MaxAlerts : AtDoor(s, a) <=> a = n
    BY <1>1, DoorFacts
  <1>3. emitter'.pc # "again" /\ emitter'.pc # "evict"
    BY <1>1, PassedFacts
  <1>4. /\ tally'[s][n] = Append(tally[s][n], "dropped")
        /\ \A b \in 1..MaxAlerts : b # n => tally'[s][b] = tally[s][b]
        /\ \A r \in Sink : r # s => tally'[r] = tally[r]
    <2>1. "dropped" \in Outcome
      BY DEF Outcome
    <2>2. Bump(s, n, "dropped")
      BY <1>1
    <2> QED
      BY <2>1, <2>2, BumpFacts, Zenon
  <1>5. ASSUME NEW r \in Sink, NEW b \in 1..MaxAlerts, r # s \/ b # n
        PROVE  Fate(r, b)' = Fate(r, b)
    <2>1. tally'[r][b] = tally[r][b] /\ worker' = worker /\ queue' = queue
      BY <1>1, <1>4, <1>5
    <2>2. ~Here(r, b) /\ ~Here(r, b)'
      BY <1>1, <1>3 DEF Here
    <2> QED
      BY <2>1, <2>2, FateSame
  <1>6. Fate(s, n)' = "dropped"
    <2>1. tally[s][n] \in Seq(Outcome)
      BY <1>2 DEF IInv, Typed
    <2>2. tally'[s][n] # <<>> /\ Head(tally'[s][n]) = "dropped"
      <3>1. tally[s][n] = <<>>
        BY <1>2, <2>1
      <3>2. tally'[s][n] = <<"dropped">>
        BY <1>4, <3>1
      <3> QED
        BY <3>2
    <2> QED
      BY <2>2 DEF Fate, Counted
  <1>7. fates' = [fates EXCEPT ![s][n] = "dropped"]
    BY <1>2, <1>5, <1>6, FatesChange
  <1>8. crowds' = crowds
    BY <1>1, <1>3, NotCrowded
  <1>9. closed' = closed
    BY <1>1 DEF Emitting
  <1> QED
    BY <1>1, <1>2, <1>7, <1>8, <1>9, NewFacts DEF Promise!Refuse, Promise!Become, fates, crowds

\* An alert that finds room waits.
LEMMA FreePromised ==
    ASSUME IInv, NEW s \in Sink, NEW n \in 1..MaxAlerts, n = emitter.alert, EnqueueFree(s)
    PROVE  Promise!Offer(s, n)
  <1>1. /\ emitter.pc = "put" /\ Turn(s) /\ ~closed /\ Len(queue[s]) < Cap[s]
        /\ queue' = [queue EXCEPT ![s] = Append(queue[s], n)] /\ tally' = tally
        /\ emitter' = Passed(s) /\ UNCHANGED <<Emitting, emitted, worker>>
    BY DEF EnqueueFree, Put
  <1>2. /\ n \in 1..MaxAlerts /\ Len(tally[s][n]) = 0 /\ ~InHand(s, n)
        /\ \A a \in 1..MaxAlerts : AtDoor(s, a) <=> a = n
    BY <1>1, DoorFacts
  <1>3. emitter'.pc # "again" /\ emitter'.pc # "evict"
    BY <1>1, PassedFacts
  <1>4. /\ queue \in [Sink -> Seq(1..MaxAlerts)] /\ queue[s] \in Seq(1..MaxAlerts)
        /\ MaxAlerts \in Nat /\ tally[s][n] \in Seq(Outcome)
    BY <1>2, DeliveryAssumption DEF IInv, Typed
  <1>5. /\ queue'[s] = Append(queue[s], n) /\ \A r \in Sink : r # s => queue'[r] = queue[r]
        /\ \A a : Holds(Append(queue[s], n), a) <=> Holds(queue[s], a) \/ a = n
    <2>1. queue'[s] = Append(queue[s], n) /\ \A r \in Sink : r # s => queue'[r] = queue[r]
      BY <1>1, <1>4
    <2>2. \A a : Holds(Append(queue[s], n), a) <=> Holds(queue[s], a) \/ a = n
      BY <1>4, AppendFacts
    <2> QED
      BY <2>1, <2>2
  <1>6. ASSUME NEW r \in Sink, NEW b \in 1..MaxAlerts, r # s \/ b # n
        PROVE  Fate(r, b)' = Fate(r, b)
    <2>1. ~Here(r, b) /\ ~Here(r, b)'
      BY <1>1, <1>3 DEF Here
    <2>2. Holds(queue'[r], b) <=> Holds(queue[r], b)
      BY <1>5, <1>6
    <2> QED
      BY <1>1, <2>1, <2>2, FateSame
  <1>7. Fate(s, n)' = "waiting"
    <2>1. Holds(queue'[s], n)
      BY <1>5
    <2>2. n \in Range(queue'[s])
      BY <2>1 DEF Range, Holds
    <2>3. tally'[s][n] = <<>> /\ worker'[s].alert # n
      BY <1>1, <1>2, <1>4 DEF InHand
    <2> QED
      BY <2>2, <2>3 DEF Fate, Counted, InHand
  <1>8. fates' = [fates EXCEPT ![s][n] = "waiting"]
    BY <1>2, <1>6, <1>7, FatesChange
  <1>9. crowds' = [crowds EXCEPT ![s] = Promise!Cardinality(Promise!In(s, "waiting")) >= Cap[s]]
    <2>1. crowds' = crowds /\ crowds[s] = FALSE
      BY <1>1, <1>3, NotCrowded
    <2>2. (Promise!Cardinality(Promise!In(s, "waiting")) >= Cap[s]) = FALSE
      <3>1. Promise!Cardinality(Promise!In(s, "waiting")) = Len(queue[s])
        BY <1>1, WaitingCard
      <3> QED
        BY <1>1, <1>4, <3>1, SinkFacts
    <2>3. crowds = [crowds EXCEPT ![s] = FALSE]
      BY <2>1 DEF crowds
    <2> QED
      BY <2>1, <2>2, <2>3
  <1>10. closed' = closed
    BY <1>1 DEF Emitting
  <1> QED
    BY <1>1, <1>2, <1>8, <1>9, <1>10, NewFacts DEF Promise!Offer, Promise!Become, fates, crowds

\* An alert that finds the queue full waits, and the queue is crowded.
LEMMA FullPromised ==
    ASSUME IInv, NEW s \in Sink, NEW n \in 1..MaxAlerts, n = emitter.alert, EnqueueFull(s)
    PROVE  Promise!Offer(s, n)
  <1>1. /\ emitter.pc = "put" /\ Turn(s) /\ ~closed /\ Len(queue[s]) = Cap[s]
        /\ emitter' = [emitter EXCEPT !.pc = "evict"]
        /\ UNCHANGED <<Emitting, emitted, queue, worker, tally>>
    BY DEF EnqueueFull
  <1>2. /\ n \in 1..MaxAlerts /\ Len(tally[s][n]) = 0 /\ ~InHand(s, n)
        /\ \A a \in 1..MaxAlerts : AtDoor(s, a) <=> a = n
    BY <1>1, DoorFacts
  <1>3. /\ emitter'.pc = "evict" /\ emitter'.todo = emitter.todo /\ emitter'.alert = n
        /\ tally[s][n] \in Seq(Outcome)
    BY <1>1, <1>2 DEF IInv, Typed, EmitterType
  <1>4. \A r \in Sink : Turn(r)' <=> r = s
    <2>1. \A r \in Sink : Turn(r)' <=> Turn(r)
      BY <1>3 DEF Turn
    <2> QED
      BY <1>1, <2>1, TurnUnique
  <1>5. ASSUME NEW r \in Sink, NEW b \in 1..MaxAlerts, r # s \/ b # n
        PROVE  Fate(r, b)' = Fate(r, b)
    <2>1. ~Here(r, b) /\ ~Here(r, b)'
      BY <1>1, <1>3, <1>4, <1>5 DEF Here, AtDoor
    <2> QED
      BY <1>1, <2>1, FateSame
  <1>6. Fate(s, n)' = "waiting"
    <2>1. Turn(s)' /\ AtDoor(s, n)'
      BY <1>1, <1>3, <1>4 DEF AtDoor, Turn
    <2>2. tally'[s][n] = <<>> /\ worker'[s].alert # n
      BY <1>1, <1>2, <1>3 DEF InHand
    <2> QED
      BY <1>3, <2>1, <2>2 DEF Fate, Counted, InHand
  <1>7. fates' = [fates EXCEPT ![s][n] = "waiting"]
    BY <1>2, <1>5, <1>6, FatesChange
  <1>8. crowds' = [crowds EXCEPT ![s] = Promise!Cardinality(Promise!In(s, "waiting")) >= Cap[s]]
    <2>1. crowds' = [r \in Sink |-> r = s]
      BY <1>3, <1>4 DEF crowds
    <2>2. crowds = [r \in Sink |-> FALSE]
      BY <1>1 DEF crowds
    <2>3. (Promise!Cardinality(Promise!In(s, "waiting")) >= Cap[s]) = TRUE
      <3>1. Promise!Cardinality(Promise!In(s, "waiting")) = Len(queue[s])
        BY <1>1, WaitingCard
      <3> QED
        BY <1>1, <3>1, SinkFacts
    <2> QED
      BY <2>1, <2>2, <2>3
  <1>9. closed' = closed
    BY <1>1 DEF Emitting
  <1> QED
    BY <1>1, <1>2, <1>7, <1>8, <1>9, NewFacts DEF Promise!Offer, Promise!Become, fates, crowds

\* An eviction drops the oldest alert that waits, and relieves the queue.
LEMMA EvictPromised ==
    ASSUME IInv, NEW s \in Sink, NEW n \in 1..MaxAlerts, n = emitter.alert,
           NEW h, h = Head(queue[s]), EvictOldest(s)
    PROVE  Promise!Relieve(s) \/ (h \in 1..MaxAlerts /\ Promise!Evict(s, h))
  <1>1. /\ emitter.pc = "evict" /\ Turn(s)
        /\ emitter' = [emitter EXCEPT !.pc = "again"]
        /\ UNCHANGED <<Emitting, emitted, worker>>
    BY DEF EvictOldest
  <1>2. /\ \A a \in 1..MaxAlerts : AtDoor(s, a) <=> a = n
        /\ \A a \in 1..MaxAlerts : Holds(queue[s], a) => a < n
    BY <1>1, DoorFacts
  <1>3. /\ emitter'.pc = "again" /\ emitter'.todo = emitter.todo /\ emitter'.alert = n
        /\ queue[s] \in Seq(1..MaxAlerts) /\ MaxAlerts \in Nat /\ Rising(queue[s])
        /\ queue \in [Sink -> Seq(1..MaxAlerts)]
    BY <1>1, DeliveryAssumption DEF IInv, Typed, EmitterType, Shelf
  <1>4. \A r \in Sink, b \in 1..MaxAlerts : Here(r, b)' <=> Here(r, b)
    BY <1>1, <1>3 DEF Here, AtDoor, Turn
  <1>5. /\ crowds[s] = TRUE /\ crowds = [r \in Sink |-> r = s]
        /\ crowds' = [r \in Sink |-> FALSE]
    <2>1. crowds[s] = TRUE /\ crowds = [r \in Sink |-> r = s]
      BY <1>1, Crowded
    <2>2. crowds' = [r \in Sink |-> FALSE]
      BY <1>3 DEF crowds
    <2> QED
      BY <2>1, <2>2
  <1>6. crowds' = [crowds EXCEPT ![s] = FALSE]
    BY <1>5
  <1>7. closed' = closed
    BY <1>1 DEF Emitting
  <1>8. CASE queue[s] = <<>>
    <2>1. UNCHANGED <<queue, tally>>
      BY <1>8 DEF EvictOldest
    <2>2. \A r \in Sink, b \in 1..MaxAlerts : Fate(r, b)' = Fate(r, b)
      BY <1>1, <1>4, <2>1, FateSame
    <2>3. fates' = fates
      BY <2>2, FatesStay
    <2> QED
      BY <1>5, <1>6, <1>7, <2>3 DEF Promise!Relieve, fates, crowds
  <1>9. CASE queue[s] # <<>>
    <2>1. queue' = [queue EXCEPT ![s] = Tail(queue[s])] /\ Bump(s, h, "dropped")
      BY <1>9 DEF EvictOldest
    <2>2. /\ h \in 1..MaxAlerts /\ Holds(queue[s], h)
          /\ \A a : Holds(queue[s], a) => a >= h
          /\ \A a : Holds(Tail(queue[s]), a) <=> Holds(queue[s], a) /\ a # h
      BY <1>3, <1>9, TailFacts
    <2>3. queue'[s] = Tail(queue[s]) /\ \A r \in Sink : r # s => queue'[r] = queue[r]
      BY <1>3, <2>1
    <2>4. /\ tally'[s][h] = Append(tally[s][h], "dropped")
          /\ \A b \in 1..MaxAlerts : b # h => tally'[s][b] = tally[s][b]
          /\ \A r \in Sink : r # s => tally'[r] = tally[r]
      <3>1. "dropped" \in Outcome
        BY DEF Outcome
      <3>2. Bump(s, h, "dropped") /\ h \in 1..MaxAlerts
        BY <2>1, <2>2
      <3> QED
        BY <3>1, <3>2, BumpFacts, Zenon
    <2>5. tally[s][h] = <<>>
      <3>1. Placed(s, h)
        BY <2>2 DEF IInv, Shelf
      <3> QED
        BY <2>2, <3>1 DEF Placed, Counted
    <2>6. ASSUME NEW r \in Sink, NEW b \in 1..MaxAlerts, r # s \/ b # h
          PROVE  Fate(r, b)' = Fate(r, b)
      <3>1. tally'[r][b] = tally[r][b] /\ worker' = worker
        BY <1>1, <2>4, <2>6
      <3>2. Holds(queue'[r], b) <=> Holds(queue[r], b)
        BY <2>2, <2>3, <2>6
      <3> QED
        BY <1>4, <3>1, <3>2, FateSame
    <2>7. Fate(s, h)' = "dropped"
      <3>1. tally'[s][h] = <<"dropped">>
        BY <2>4, <2>5
      <3>2. tally'[s][h] # <<>> /\ Head(tally'[s][h]) = "dropped"
        BY <3>1
      <3> QED
        BY <3>2 DEF Fate, Counted
    <2>8. fates' = [fates EXCEPT ![s][h] = "dropped"]
      BY <2>2, <2>6, <2>7, FatesChange
    <2>9. \A a \in 1..MaxAlerts : fates[s][a] = "waiting" <=> Holds(queue[s], a) \/ Here(s, a)
      BY FateFacts DEF fates
    <2>10. Here(s, n) /\ \A a \in 1..MaxAlerts : Here(s, a) => a = n
      BY <1>1, <1>2 DEF Here
    <2>11. h < n
      BY <1>2, <2>2
    <2>12. Promise!Oldest(s, h) /\ \E b \in Promise!In(s, "waiting") : b > h
      <3>1. \A a \in 1..MaxAlerts : fates[s][a] = "waiting" => h <= a
        BY <1>3, <2>2, <2>9, <2>10, <2>11
      <3>2. fates[s][h] = "waiting" /\ fates[s][n] = "waiting" /\ n > h
        BY <2>2, <2>9, <2>10, <2>11
      <3> QED
        BY <2>2, <3>1, <3>2 DEF Promise!Oldest, Promise!In, Promise!Alerts, fates
    <2> QED
      BY <1>5, <1>6, <1>7, <2>2, <2>8, <2>12 DEF Promise!Evict, Promise!Become, fates, crowds
  <1> QED
    BY <1>8, <1>9

\* The alert at the door that found the queue full joins it: it still waits.
LEMMA AgainPromised ==
    ASSUME IInv, NEW s \in Sink, NEW n \in 1..MaxAlerts, n = emitter.alert, EnqueueAgain(s)
    PROVE  fates' = fates /\ crowds' = crowds /\ closed' = closed
  <1>1. /\ emitter.pc = "again" /\ Turn(s) /\ emitter' = Passed(s)
        /\ UNCHANGED <<Emitting, emitted, worker>>
        /\ queue' = [queue EXCEPT ![s] = Append(queue[s], n)] /\ tally' = tally
    <2>1. Len(queue[s]) < Cap[s]
      BY DEF EnqueueAgain, IInv, Shelf
    <2> QED
      BY <2>1 DEF EnqueueAgain, Put
  <1>2. \A a \in 1..MaxAlerts : AtDoor(s, a) <=> a = n
    BY <1>1, DoorFacts
  <1>3. emitter'.pc # "again" /\ emitter'.pc # "evict"
    BY <1>1, PassedFacts
  <1>4. queue \in [Sink -> Seq(1..MaxAlerts)] /\ queue[s] \in Seq(1..MaxAlerts) /\ MaxAlerts \in Nat
    BY DeliveryAssumption DEF IInv, Typed
  <1>5. /\ queue'[s] = Append(queue[s], n) /\ \A r \in Sink : r # s => queue'[r] = queue[r]
    BY <1>1, <1>4
  <1>6. \A a : Holds(Append(queue[s], n), a) <=> Holds(queue[s], a) \/ a = n
    BY <1>4, AppendFacts
  <1>7. ASSUME NEW r \in Sink, NEW b \in 1..MaxAlerts PROVE Fate(r, b)' = Fate(r, b)
    <2>1. ~Here(r, b)'
      BY <1>3 DEF Here
    <2>2. CASE r = s
      <3>1. Here(r, b) <=> b = n
        BY <1>1, <1>2, <2>2 DEF Here
      <3>2. Holds(queue'[r], b) <=> Holds(queue[r], b) \/ b = n
        BY <1>5, <1>6, <2>2
      <3> QED
        BY <1>1, <2>1, <3>1, <3>2, FateSame
    <2>3. CASE r # s
      <3>1. ~Here(r, b)
        BY <1>1, <2>3, TurnUnique DEF Here
      <3>2. queue'[r] = queue[r]
        BY <1>5, <2>3
      <3> QED
        BY <1>1, <2>1, <3>1, <3>2, FateSame
    <2> QED
      BY <2>2, <2>3
  <1>8. closed' = closed
    BY <1>1 DEF Emitting
  <1> QED
    BY <1>1, <1>3, <1>7, <1>8, FatesStay, NotCrowded

\* The goroutine takes the oldest alert that waits, and holds no other.
LEMMA TakePromised ==
    ASSUME IInv, NEW s \in Sink, NEW h, h = Head(queue[s]), Receive(s)
    PROVE  h \in 1..MaxAlerts /\ Promise!Take(s, h)
  <1>1. /\ worker[s].pc = "select" /\ queue[s] # <<>>
        /\ queue' = [queue EXCEPT ![s] = Tail(queue[s])]
        /\ worker' = [worker EXCEPT ![s] = [pc |-> "send", alert |-> h, attempt |-> 0]]
        /\ UNCHANGED <<Working, cancelled>> /\ tally' = tally
    BY DEF Receive
  <1>2. /\ queue[s] \in Seq(1..MaxAlerts) /\ MaxAlerts \in Nat /\ Rising(queue[s])
        /\ queue \in [Sink -> Seq(1..MaxAlerts)] /\ worker \in [Sink -> WorkerType]
        /\ worker[s].alert = 0 /\ emitter' = emitter /\ closed' = closed
    BY <1>1, DeliveryAssumption DEF IInv, Typed, Shelf, Working
  <1>3. /\ h \in 1..MaxAlerts /\ Holds(queue[s], h)
        /\ \A a : Holds(queue[s], a) => a >= h
        /\ \A a : Holds(Tail(queue[s]), a) <=> Holds(queue[s], a) /\ a # h
    BY <1>1, <1>2, TailFacts
  <1>4. /\ queue'[s] = Tail(queue[s]) /\ worker'[s].alert = h
        /\ \A r \in Sink : r # s => queue'[r] = queue[r] /\ worker'[r] = worker[r]
    BY <1>1, <1>2
  <1>5. \A r \in Sink, b \in 1..MaxAlerts : Here(r, b)' <=> Here(r, b)
    BY <1>2 DEF Here, AtDoor, Turn
  <1>6. ASSUME NEW r \in Sink, NEW b \in 1..MaxAlerts, r # s \/ b # h
        PROVE  Fate(r, b)' = Fate(r, b)
    <2>1. CASE r # s
      BY <1>1, <1>4, <1>5, <2>1, FateSame
    <2>2. CASE r = s
      <3>1. b # h /\ worker'[r].alert # b /\ worker[r].alert # b
        BY <1>2, <1>4, <1>6, <2>2
      <3>2. Holds(queue'[r], b) <=> Holds(queue[r], b)
        BY <1>3, <1>4, <2>2, <3>1
      <3>3. /\ b \in Range(queue[r]) <=> Holds(queue[r], b)
            /\ b \in Range(queue'[r]) <=> Holds(queue'[r], b)
        BY DEF Range, Holds
      <3>4. (AtDoor(r, b) /\ Turn(r) /\ emitter.pc \in {"evict", "again"})'
               <=> (AtDoor(r, b) /\ Turn(r) /\ emitter.pc \in {"evict", "again"})
        BY <1>2 DEF AtDoor, Turn
      <3> QED
        BY <1>1, <3>1, <3>2, <3>3, <3>4 DEF Fate, Counted, InHand
    <2> QED
      BY <2>1, <2>2
  <1>7. tally[s][h] = <<>>
    <2>1. Placed(s, h)
      BY <1>3 DEF IInv, Shelf
    <2> QED
      BY <1>3, <2>1 DEF Placed, Counted
  <1>8. Fate(s, h)' = "sending"
    BY <1>1, <1>4, <1>7 DEF Fate, Counted, InHand
  <1>9. fates' = [fates EXCEPT ![s][h] = "sending"]
    BY <1>3, <1>6, <1>8, FatesChange
  <1>10. \A a \in 1..MaxAlerts : /\ fates[s][a] = "waiting" <=> Holds(queue[s], a) \/ Here(s, a)
                                 /\ fates[s][a] # "sending"
    BY <1>2, FateFacts DEF fates, InHand
  <1>11. ASSUME NEW a \in 1..MaxAlerts, Here(s, a) PROVE h < a
    <2>1. a = emitter.alert /\ Turn(s) /\ emitter.pc # "idle"
      BY <1>11 DEF Here, AtDoor
    <2> QED
      BY <1>3, <2>1, DoorFacts
  <1>12. Promise!Oldest(s, h) /\ Promise!In(s, "sending") = {}
    <2>1. \A a \in 1..MaxAlerts : fates[s][a] = "waiting" => h <= a
      BY <1>2, <1>3, <1>10, <1>11
    <2>2. fates[s][h] = "waiting"
      BY <1>3, <1>10
    <2> QED
      BY <1>3, <1>10, <2>1, <2>2 DEF Promise!Oldest, Promise!In, Promise!Alerts, fates
  <1>13. crowds' = crowds
    BY <1>2 DEF crowds, Turn
  <1> QED
    BY <1>2, <1>3, <1>9, <1>12, <1>13 DEF Promise!Take, Promise!Become, fates, crowds

\* The alert in hand gets its outcome.
LEMMA SettlePromised ==
    ASSUME IInv, NEW s \in Sink, NEW n, n = worker[s].alert, NEW as \in {"sent", "failed"},
           worker[s].pc = "send", Settle(s, as), UNCHANGED <<Working, cancelled, queue>>
    PROVE  n \in 1..MaxAlerts /\ Promise!Settle(s, n)
  <1>1. /\ worker' = [worker EXCEPT ![s] = Waiting("select")] /\ Bump(s, n, as)
        /\ emitter' = emitter /\ closed' = closed /\ queue' = queue
    BY DEF Settle, Working
  <1>2. n \in 1..MaxAlerts
    <2>1. n \in 0..MaxAlerts /\ n # 0
      BY DEF IInv, Typed, WorkerType, Shelf
    <2> QED
      BY <2>1, DeliveryAssumption
  <1>3. /\ worker'[s].alert = 0 /\ \A r \in Sink : r # s => worker'[r] = worker[r]
    BY <1>1 DEF IInv, Typed, Waiting
  <1>4. /\ tally'[s][n] = Append(tally[s][n], as)
        /\ \A b \in 1..MaxAlerts : b # n => tally'[s][b] = tally[s][b]
        /\ \A r \in Sink : r # s => tally'[r] = tally[r]
    <2>1. as \in Outcome /\ Bump(s, n, as) /\ n \in 1..MaxAlerts
      BY <1>1, <1>2 DEF Outcome
    <2> QED
      BY <2>1, BumpFacts, Zenon
  <1>5. \A r \in Sink, b \in 1..MaxAlerts : Here(r, b)' <=> Here(r, b)
    BY <1>1 DEF Here, AtDoor, Turn
  <1>6. ASSUME NEW r \in Sink, NEW b \in 1..MaxAlerts, r # s \/ b # n
        PROVE  Fate(r, b)' = Fate(r, b)
    <2>1. CASE r # s
      BY <1>1, <1>3, <1>4, <1>5, <2>1, FateSame
    <2>2. CASE r = s
      <3>1. worker'[r].alert # b /\ worker[r].alert # b /\ tally'[r][b] = tally[r][b]
        BY <1>3, <1>4, <1>6, <2>2
      <3>2. (AtDoor(r, b) /\ Turn(r) /\ emitter.pc \in {"evict", "again"})'
               <=> (AtDoor(r, b) /\ Turn(r) /\ emitter.pc \in {"evict", "again"})
        BY <1>1 DEF AtDoor, Turn
      <3> QED
        BY <1>1, <3>1, <3>2 DEF Fate, Counted, InHand
    <2> QED
      BY <2>1, <2>2
  <1>7. Fate(s, n)' = as
    <2>1. tally[s][n] = <<>>
      <3>1. Placed(s, n) /\ InHand(s, n)
        BY <1>2 DEF IInv, Shelf, InHand
      <3> QED
        BY <3>1 DEF Placed, Counted
    <2>2. tally'[s][n] = <<as>>
      BY <1>4, <2>1
    <2>3. tally'[s][n] # <<>> /\ Head(tally'[s][n]) = as
      BY <2>2
    <2> QED
      BY <2>3 DEF Fate, Counted
  <1>8. fates' = [fates EXCEPT ![s][n] = as]
    BY <1>2, <1>6, <1>7, FatesChange
  <1>9. fates[s][n] = "sending"
    BY <1>2, FateFacts DEF fates, InHand
  <1>10. crowds' = crowds
    BY <1>1 DEF crowds, Turn
  <1> QED
    BY <1>1, <1>2, <1>8, <1>9, <1>10 DEF Promise!Settle, Promise!Become, fates, crowds

\* The steps of fanout that concern one sink.
LEMMA EnqueuePromised ==
    ASSUME IInv, NEW s \in Sink, Enqueue(s)
    PROVE  [Promise!Next]_Promise!vars
  <1>1. emitter.pc # "idle" /\ Turn(s)
    BY DEF Enqueue, Refuse, EnqueueFree, EnqueueFull, EvictOldest, EnqueueAgain
  <1>2. emitter.alert \in 1..MaxAlerts
    BY <1>1, DoorFacts
  <1>3. PICK n \in 1..MaxAlerts : n = emitter.alert
    BY <1>2
  <1>4. PICK h : h = Head(queue[s])
    OBVIOUS
  <1>5. CASE Refuse(s)
    BY <1>3, <1>5, RefusePromised DEF Promise!Next, Promise!Alerts
  <1>6. CASE EnqueueFree(s)
    BY <1>3, <1>6, FreePromised DEF Promise!Next, Promise!Alerts
  <1>7. CASE EnqueueFull(s)
    BY <1>3, <1>7, FullPromised DEF Promise!Next, Promise!Alerts
  <1>8. CASE EvictOldest(s)
    BY <1>3, <1>4, <1>8, EvictPromised DEF Promise!Next, Promise!Alerts
  <1>9. CASE EnqueueAgain(s)
    BY <1>3, <1>9, AgainPromised DEF Promise!vars, fates, crowds
  <1> QED
    BY <1>5, <1>6, <1>7, <1>8, <1>9 DEF Enqueue

\* The steps of a goroutine.
LEMMA WorkerPromised ==
    ASSUME IInv, NEW s \in Sink, Worker(s)
    PROVE  [Promise!Next]_Promise!vars
  <1>1. PICK h : h = Head(queue[s])
    OBVIOUS
  <1>2. PICK n : n = worker[s].alert
    OBVIOUS
  <1>3. ASSUME UNCHANGED <<Working, cancelled, queue>>, tally' = tally,
               \A r \in Sink : worker'[r].alert = worker[r].alert
        PROVE  UNCHANGED Promise!vars
    <2>1. emitter' = emitter /\ closed' = closed
      BY <1>3 DEF Working
    <2>2. fates' = fates /\ crowds' = crowds
      BY <1>3, <2>1, SilentStep
    <2> QED
      BY <2>1, <2>2 DEF Promise!vars, fates, crowds
  <1>4. worker \in [Sink -> WorkerType]
    BY DEF IInv, Typed
  <1>5. CASE Receive(s)
    BY <1>1, <1>5, TakePromised DEF Promise!Next, Promise!Alerts
  <1>6. CASE Exit(s)
    <2>1. worker[s].alert = 0
      BY <1>6 DEF Exit, IInv, Shelf
    <2>2. \A r \in Sink : worker'[r].alert = worker[r].alert
      BY <1>4, <1>6, <2>1 DEF Exit, Waiting
    <2> QED
      BY <1>3, <1>6, <2>2 DEF Exit
  <1>7. CASE Sent(s)
    BY <1>2, <1>7, SettlePromised DEF Sent, Promise!Next, Promise!Alerts
  <1>8. ASSUME NEW transient \in BOOLEAN, Failed(s, transient)
        PROVE  [Promise!Next]_Promise!vars
    <2>1. CASE GivesUp(s, transient)
      BY <1>2, <1>8, <2>1, SettlePromised DEF Failed, Promise!Next, Promise!Alerts
    <2>2. CASE ~GivesUp(s, transient)
      <3>1. \A r \in Sink : worker'[r].alert = worker[r].alert
        BY <1>4, <1>8, <2>2 DEF Failed, WorkerType
      <3> QED
        BY <1>3, <1>8, <2>2, <3>1 DEF Failed
    <2> QED
      BY <2>1, <2>2
  <1>9. CASE Retry(s)
    <2>1. \A r \in Sink : worker'[r].alert = worker[r].alert
      BY <1>4, <1>9 DEF Retry, WorkerType
    <2> QED
      BY <1>3, <1>9, <2>1 DEF Retry
  <1> QED
    BY <1>5, <1>6, <1>7, <1>8, <1>9 DEF Worker, Deliver

\* Start, the beginning of a fanout, Close and the signal.
LEMMA OtherPromised ==
    ASSUME IInv,
           \/ Start \/ (\E level \in Level : Fanout(level))
           \/ Close \/ CloseStep \/ Signal \/ UNCHANGED vars
    PROVE  [Promise!Next]_Promise!vars
  <1>1. /\ UNCHANGED <<queue, tally>>
        /\ \A r \in Sink : worker'[r].alert = worker[r].alert
    <2>1. CASE Start
      <3>1. \A r \in Sink : worker[r].alert = 0 /\ worker'[r].alert = 0
        BY <2>1 DEF Start, Waiting, IInv, Shelf, Ending
      <3> QED
        BY <2>1, <3>1 DEF Start
    <2>2. CASE ~Start
      BY <2>2 DEF Fanout, Close, CloseStep, Drained, CloseReturns, Signal, vars
    <2> QED
      BY <2>1, <2>2
  <1>2. \/ emitter' = emitter
        \/ emitter.pc \in {"idle", "put"} /\ emitter'.pc \in {"idle", "put"}
    BY DEF Start, Fanout, Free, Close, CloseStep, Drained, CloseReturns, Signal, vars
  <1>3. fates' = fates /\ crowds' = crowds
    BY <1>1, <1>2, SilentStep
  <1>4. CASE Close
    <2>1. ~closed /\ closed' = TRUE
      BY <1>4 DEF Close, IInv, Doorway
    <2> QED
      BY <1>3, <2>1 DEF Promise!Next, Promise!Shut, fates, crowds
  <1>5. CASE ~Close
    <2>1. closed' = closed
      BY <1>5 DEF Start, Fanout, Emitting, CloseStep, Drained, CloseReturns, Signal, vars
    <2> QED
      BY <1>3, <2>1 DEF Promise!vars, fates, crowds
  <1> QED
    BY <1>4, <1>5

\* A sink keeps the promise of Outbox: alerts are sent oldest first and one at
\* a time, each has one outcome, at most one older alert is dropped for a new
\* one and only if the queue was full when it came, and after Close all are
\* refused (enqueue and run in dispatcher.go).
THEOREM QueuesKeepPromise == Spec => KeepsPromise
  <1>1. Init => Promise!Init
    <2> SUFFICES ASSUME Init PROVE Promise!Init
      OBVIOUS
    <2>1. ASSUME NEW s \in Sink, NEW a \in 1..MaxAlerts PROVE Fate(s, a) = "none"
      <3>1. IInv /\ tally[s][a] = <<>> /\ worker[s].alert = 0 /\ queue[s] = <<>> /\ emitter.pc = "idle"
        BY <2>1, InitIInv DEF Init, Waiting, Resting
      <3> QED
        BY <2>1, <3>1, FateFacts, EmptyFacts DEF Counted, InHand, Here
    <2>2. fates = [s \in Sink |-> [a \in 1..MaxAlerts |-> "none"]]
      BY <2>1 DEF fates
    <2>3. crowds = [s \in Sink |-> FALSE]
      BY DEF crowds, Init, Resting
    <2> QED
      BY <2>2, <2>3 DEF Promise!Init, Promise!Alerts, Init, fates, crowds
  <1>2. IInv /\ [Next]_vars => [Promise!Next]_Promise!vars
    BY EnqueuePromised, WorkerPromised, OtherPromised DEF Next
  <1> QED
    BY <1>1, <1>2, Inductive, PTL DEF Spec, KeepsPromise, Promise!Spec

=============================================================================
