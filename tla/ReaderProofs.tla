---------------------------- MODULE ReaderProofs ----------------------------
(***************************************************************************)
(* Proofs about three of the readers: JournalSource, for every number of   *)
(* entries and deaths of the child, every size of the pipe and every set   *)
(* of entries the parser does not know; ProcScan, for every set of pids    *)
(* and of sockets, any number of processes and of failures, and every      *)
(* interval of the refresh; RecordGroups, for every number of events and   *)
(* of records, every order the kernel writes them in, and any losses.      *)
(* Then, with the audit log tail of TailProofs, the types of all four.     *)
(***************************************************************************)
EXTENDS TailProofs, MCReaders, FiniteSetTheorems, TLAPS

-----------------------------------------------------------------------------
(***************************************************************************)
(* The journal source: its inductive invariant.                            *)
(***************************************************************************)
JournalTyped ==
    /\ journal \in 0..Entries /\ oldctl \in BOOLEAN /\ after \in BOOLEAN /\ ctx \in BOOLEAN
    /\ child \in [up : BOOLEAN, pos : Nat] /\ child.pos <= journal
    /\ pc \in {"spawn", "read", "send", "wait", "stopped"}
    /\ read \in Nat /\ read <= child.pos
    /\ last \in {0, read} /\ flushed \in 0..journal
    /\ cursor \in 0..journal
    /\ unsaved \in Nat /\ due \in Nat /\ wrong \in BOOLEAN
    /\ pc \in {"spawn", "stopped"} => ~child.up

Running == pc \in {"read", "send", "wait"}

\* Where the child wrote the cursor when it exited.
Left == IF child.up THEN {} ELSE {child.pos}

\* Which entry is due, at each place of runOnce.
Expected ==
    /\ pc = "read" => due = read + 1
    /\ pc = "send" => due = read
    /\ pc = "wait" /\ ~ctx => due = read + 1 /\ read = child.pos /\ ~child.up
    /\ pc = "spawn" /\ ~ctx /\ cursor # 0 => due = cursor + 1

\* Who wrote the cursor file last.
Writers ==
    /\ Running /\ last = 0 => cursor \in {0, read} \cup Left
    /\ Running /\ flushed # 0 => cursor \in {flushed} \cup Left

JournalIInv == JournalTyped /\ (unsaved = 0 => ~wrong /\ Expected /\ Writers)
-----------------------------------------------------------------------------
\* Where a child without a cursor begins.
LEMMA BeginsFacts ==
    ASSUME JournalAssumption, NEW j \in Nat
    PROVE  LET m == Max({0, j - Backlog}) IN m \in Nat /\ m <= j
  <1>1. Backlog \in Nat /\ j - Backlog \in Int /\ j - Backlog <= j
    BY DEF JournalAssumption
  <1>2. \E m \in {0, j - Backlog} : \A x \in {0, j - Backlog} : m >= x
    <2>1. CASE j - Backlog >= 0
      BY <1>1, <2>1
    <2>2. CASE ~(j - Backlog >= 0)
      BY <1>1, <2>2
    <2> QED
      BY <2>1, <2>2
  <1>3. /\ Max({0, j - Backlog}) \in {0, j - Backlog}
        /\ \A x \in {0, j - Backlog} : Max({0, j - Backlog}) >= x
    BY <1>2 DEF Max
  <1> QED
    BY <1>1, <1>3

\* Where any child begins.
LEMMA SpawnFacts ==
    ASSUME JournalAssumption, JournalTyped
    PROVE  Begins \in Nat /\ Begins <= journal /\ (cursor # 0 => Begins = cursor)
  <1>1. journal \in Nat /\ cursor \in Nat /\ cursor <= journal
    BY DEF JournalAssumption, JournalTyped
  <1> QED
    BY <1>1, BeginsFacts DEF Begins

\* The invariant holds in the beginning.
LEMMA JournalInitIInv == ASSUME JournalAssumption, JournalInit PROVE JournalIInv
  <1>1. Entries \in Nat /\ MaxUnsaved \in Nat
    BY DEF JournalAssumption
  <1>2. journal \in 0..Entries /\ cursor \in 0..journal /\ due = cursor + 1
    BY DEF JournalInit
  <1>3. JournalTyped
    <2>1. child \in [up : BOOLEAN, pos : Nat] /\ child.pos = 0 /\ ~child.up
      BY DEF JournalInit
    <2>2. /\ read = 0 /\ last = 0 /\ flushed = 0 /\ unsaved = 0 /\ pc = "spawn"
          /\ after = FALSE /\ ctx = FALSE /\ wrong = FALSE /\ oldctl \in BOOLEAN
      BY DEF JournalInit
    <2>3. due \in Nat /\ 0 \in 0..journal /\ 0 \in Nat /\ 0 <= 0 /\ journal >= 0
      BY <1>1, <1>2
    <2>4. /\ pc \in {"spawn", "read", "send", "wait", "stopped"} /\ last \in {0, read}
          /\ flushed \in 0..journal /\ after \in BOOLEAN /\ ctx \in BOOLEAN /\ wrong \in BOOLEAN
      BY <2>2, <2>3
    <2>5. unsaved \in Nat /\ read \in Nat /\ read <= child.pos /\ child.pos <= journal
      BY <2>1, <2>2, <2>3
    <2> QED
      BY <1>2, <2>1, <2>2, <2>3, <2>4, <2>5 DEF JournalTyped
  <1>4. ~wrong /\ Expected /\ Writers
    BY <1>2 DEF JournalInit, Expected, Writers, Running
  <1> QED
    BY <1>3, <1>4 DEF JournalIInv

\* The types are kept.
LEMMA JournalTypedStep ==
    ASSUME JournalAssumption, JournalTyped, [JournalNext]_journalVars
    PROVE  JournalTyped'
  <1>0. Entries \in Nat /\ MaxUnsaved \in Nat /\ PipeSize \in Nat
    BY DEF JournalAssumption
  <1>1. CASE Log
    BY <1>0, <1>1 DEF Log, JournalTyped
  <1>2. CASE Prints
    <2>1. child \in [up : BOOLEAN, pos : Nat] /\ child' = [child EXCEPT !.pos = @ + 1]
      BY <1>2 DEF Prints, JournalTyped
    <2>2. child' \in [up : BOOLEAN, pos : Nat] /\ child'.pos = child.pos + 1 /\ child'.up = child.up
      BY <2>1
    <2> HIDE <2>1
    <2> QED
      BY <1>0, <1>2, <2>2 DEF Prints, JournalTyped
  <1>3. CASE Exits
    <2>1. child \in [up : BOOLEAN, pos : Nat] /\ child' = [child EXCEPT !.up = FALSE]
      BY <1>3 DEF Exits, JournalTyped
    <2>2. child' \in [up : BOOLEAN, pos : Nat] /\ child'.pos = child.pos /\ ~child'.up
      BY <2>1
    <2>3. child.up /\ cursor' \in 0..journal /\ journal' = journal
      BY <1>0, <1>3, <2>1 DEF Exits, JournalTyped
    <2>4. UNCHANGED <<journal, oldctl, after, pc, read, last, flushed, ctx, unsaved, due, wrong>>
      BY <1>3 DEF Exits
    <2> QED
      BY <1>0, <2>2, <2>3, <2>4 DEF JournalTyped
  <1>4. CASE Spawn
    <2>1. CASE oldctl /\ ~after
      BY <1>4, <2>1 DEF Spawn, JournalTyped
    <2>2. CASE ~(oldctl /\ ~after)
      <3>1. Begins \in Nat /\ Begins <= journal
        BY SpawnFacts
      <3>2. /\ child' = [up |-> TRUE, pos |-> Begins] /\ pc' = "read" /\ read' = Begins
            /\ last' = 0 /\ flushed' = 0 /\ after' = after
            /\ due' = IF cursor = 0 THEN Begins + 1 ELSE due
            /\ UNCHANGED <<journal, oldctl, cursor, ctx, deaths, unsaved, wrong>>
        BY <1>4, <2>2 DEF Spawn
      <3>3. child' \in [up : BOOLEAN, pos : Nat] /\ child'.pos = Begins
        BY <3>1, <3>2
      <3>4. due' \in Nat /\ 0 \in 0..journal
        BY <1>0, <3>1, <3>2 DEF JournalTyped
      <3> QED
        BY <3>1, <3>2, <3>3, <3>4 DEF JournalTyped
    <2> QED
      BY <2>1, <2>2
  <1>5. CASE Read
    <2>1. child.pos \in Nat
      BY DEF JournalTyped
    <2>2. read' = read + 1 /\ last' = read' /\ read' \in Nat /\ read' <= child.pos /\ due' \in Nat
      BY <1>5, <2>1 DEF Read, JournalTyped
    <2>3. pc' \in {"read", "send"} /\ wrong' \in BOOLEAN
      BY <1>5 DEF Read, JournalTyped
    <2>4. UNCHANGED <<journal, oldctl, after, child, flushed, cursor, ctx, deaths, unsaved>>
      BY <1>5 DEF Read
    <2> QED
      BY <2>2, <2>3, <2>4 DEF JournalTyped
  <1>6. CASE Send
    <2>1. pc' \in {"read", "wait"} /\ due' \in Nat
      BY <1>6 DEF Send, JournalTyped
    <2>2. wrong' \in BOOLEAN
      <3>1. wrong' = wrong \/ wrong' = (wrong \/ due # read)
        BY <1>6 DEF Send
      <3> QED
        BY <3>1 DEF JournalTyped
    <2>3. UNCHANGED <<journal, oldctl, after, child, read, last, flushed, cursor, ctx, unsaved>>
      BY <1>6 DEF Send
    <2> QED
      BY <2>1, <2>2, <2>3 DEF JournalTyped
  <1>7. CASE EOF
    BY <1>0, <1>7 DEF EOF, JournalTyped
  <1>8. CASE Ticker
    BY <1>0, <1>8 DEF Ticker, FlushCursor, JournalTyped
  <1>9. CASE Wait
    BY <1>0, <1>9 DEF Wait, FlushCursor, JournalTyped
  <1>10. CASE Cancelled \/ Cancel \/ UNCHANGED journalVars
    BY <1>0, <1>10 DEF Cancelled, Cancel, journalVars, JournalTyped
  <1> QED
    BY <1>1, <1>2, <1>3, <1>4, <1>5, <1>6, <1>7, <1>8, <1>9, <1>10 DEF JournalNext

\* A write that failed stays counted.
LEMMA FailuresGrow ==
    ASSUME JournalTyped, [JournalNext]_journalVars, unsaved' = 0
    PROVE  unsaved = 0
  BY DEF JournalTyped, JournalNext, Log, Prints, Exits, Spawn, Read, Send, EOF, Ticker,
         Wait, FlushCursor, Cancelled, Cancel, journalVars

\* As long as no write fails the source is where it should be.
LEMMA PlaceStep ==
    ASSUME JournalAssumption, JournalTyped, JournalTyped', ~wrong, Expected, Writers,
           [JournalNext]_journalVars, unsaved' = 0
    PROVE  ~wrong' /\ Expected' /\ Writers'
  <1>0. Entries \in Nat /\ MaxUnsaved \in Nat /\ PipeSize \in Nat
    BY DEF JournalAssumption
  <1>1. CASE Log
    BY <1>0, <1>1 DEF Log, JournalTyped, Expected, Writers, Left, Running
  <1>2. CASE Prints
    BY <1>0, <1>2 DEF Prints, JournalTyped, Expected, Writers, Left, Running
  <1>3. CASE Exits
    BY <1>0, <1>3 DEF Exits, JournalTyped, Expected, Writers, Left, Running
  <1>4. CASE Spawn
    BY <1>0, <1>4, SpawnFacts DEF Spawn, JournalTyped, Expected, Writers, Left, Running
  <1>5. CASE Read
    BY <1>0, <1>5 DEF Read, JournalTyped, Expected, Writers, Left, Running
  <1>6. CASE Send
    BY <1>0, <1>6 DEF Send, JournalTyped, Expected, Writers, Left, Running
  <1>7. CASE EOF
    BY <1>0, <1>7 DEF EOF, JournalTyped, Expected, Writers, Left, Running
  <1>8. CASE Ticker
    BY <1>0, <1>8 DEF Ticker, FlushCursor, JournalTyped, Expected, Writers, Left, Running
  <1>9. CASE Wait
    <2>1. /\ ~child.up /\ pc = "wait" /\ pc' = (IF ctx THEN "stopped" ELSE "spawn")
          /\ UNCHANGED <<child, read, last, ctx, due, wrong>> /\ unsaved \in Nat
      BY <1>9 DEF Wait, JournalTyped
    <2>2. ASSUME ~ctx, cursor' # 0 PROVE due' = cursor' + 1
      <3>1. due = read + 1 /\ read = child.pos
        BY <2>1, <2>2 DEF Expected
      <3>2. cursor' = read
        <4>1. CASE last = 0
          <5>1. cursor' = cursor
            BY <1>9, <4>1 DEF Wait, FlushCursor
          <5> QED
            BY <2>1, <2>2, <3>1, <4>1, <5>1 DEF Writers, Left, Running
        <4>2. CASE last # 0 /\ last = flushed
          <5>1. cursor' = cursor /\ last = read
            BY <1>9, <4>2 DEF Wait, FlushCursor, JournalTyped
          <5> QED
            BY <2>1, <3>1, <4>2, <5>1 DEF Writers, Left, Running
        <4>3. CASE last # 0 /\ last # flushed
          <5>1. cursor' = last
            BY <1>9, <2>1, <4>3 DEF Wait, FlushCursor
          <5> QED
            BY <4>3, <5>1 DEF JournalTyped
        <4> QED
          BY <4>1, <4>2, <4>3
      <3> QED
        BY <2>1, <3>1, <3>2
    <2>3. Expected'
      BY <2>1, <2>2 DEF Expected
    <2>4. Writers' /\ ~wrong'
      BY <2>1 DEF Writers, Running
    <2> QED
      BY <2>3, <2>4
  <1>10. CASE Cancelled \/ Cancel \/ UNCHANGED journalVars
    BY <1>0, <1>10 DEF Cancelled, Cancel, journalVars, JournalTyped, Expected, Writers, Left, Running
  <1> QED
    BY <1>1, <1>2, <1>3, <1>4, <1>5, <1>6, <1>7, <1>8, <1>9, <1>10 DEF JournalNext

\* So it holds in every state.
LEMMA JournalInductive == ASSUME JournalAssumption PROVE JournalSpec => []JournalIInv
  <1>1. JournalInit => JournalIInv
    BY JournalInitIInv
  <1>2. JournalIInv /\ [JournalNext]_journalVars => JournalIInv'
    BY JournalTypedStep, FailuresGrow, PlaceStep DEF JournalIInv
  <1> QED
    BY <1>1, <1>2, PTL DEF JournalSpec

\* Whoever wrote the cursor file last, the child or the source, and wherever
\* the child died, runOnce sends every entry once and passes none over, as
\* long as the writes of the source succeed.
THEOREM EntriesSentOnce == ASSUME JournalAssumption PROVE JournalSpec => []JournalExact
  <1>1. JournalIInv => JournalExact
    BY DEF JournalIInv, JournalExact
  <1> QED
    BY <1>1, JournalInductive, PTL

-----------------------------------------------------------------------------
(***************************************************************************)
(* The process and socket scanner: its inductive invariant.                *)
(***************************************************************************)
ScanTyped ==
    /\ proc \in [Pid -> [start : Nat, agent : BOOLEAN]]
    /\ seen \in [Pid -> [start : Nat, emit : Nat]]
    /\ view \in [Pid -> Nat]
    /\ reused \subseteq Pid /\ started \in Nat
    /\ sock \in [Socket -> {"closed", "api", "other"}]
    /\ netSeen \subseteq Socket /\ told \in [Socket -> Nat]

\* What the correlator was told of each pid.
Viewed ==
    \A p \in Pid : IF p \in reused THEN view[p] = NoStart ELSE view[p] = seen[p].start

\* A connection that was told is open and seen, or closed for good.
ToldOnce ==
    \A s \in Socket : told[s] <= 1 /\ (told[s] = 1 /\ sock[s] = "api" => s \in netSeen)

ScanIInv == ScanTyped /\ Viewed /\ ToldOnce
-----------------------------------------------------------------------------
\* The invariant holds in the beginning.
LEMMA ScanInitIInv == ASSUME ScanAssumption, ScanInit PROVE ScanIInv
  <1>1. NoProc \in [start : Nat, agent : BOOLEAN] /\ NoSeen \in [start : Nat, emit : Nat]
        /\ NoStart \in Nat /\ NoSeen.start = NoStart
    BY DEF NoProc, NoSeen, NoStart
  <1>2. /\ proc = [p \in Pid |-> NoProc] /\ seen = [p \in Pid |-> NoSeen]
        /\ view = [p \in Pid |-> NoStart] /\ reused = {} /\ started = 0
        /\ sock = [s \in Socket |-> "closed"] /\ netSeen = {} /\ told = [s \in Socket |-> 0]
    BY DEF ScanInit
  <1>3. ScanTyped
    BY <1>1, <1>2 DEF ScanTyped
  <1>4. Viewed
    BY <1>1, <1>2 DEF Viewed
  <1>5. ToldOnce
    BY <1>2 DEF ToldOnce
  <1> QED
    BY <1>3, <1>4, <1>5 DEF ScanIInv

\* The entry of a process that matters is its number and the age of its telling.
LEMMA SeenTyped ==
    ASSUME ScanAssumption, ScanTyped, NEW p \in Pid
    PROVE  [start |-> proc[p].start,
            emit |-> IF Emits(p) THEN 0 ELSE Min({seen[p].emit + 1, RefreshEvery})]
               \in [start : Nat, emit : Nat]
  <1>1. seen[p].emit \in Nat /\ proc[p].start \in Nat /\ RefreshEvery \in Nat
    BY DEF ScanTyped, ScanAssumption
  <1>2. Min({seen[p].emit + 1, RefreshEvery}) \in Nat
    <2> DEFINE a == seen[p].emit + 1
    <2>1. a \in Nat
      BY <1>1
    <2> HIDE DEF a
    <2>2. \E m \in {a, RefreshEvery} : \A x \in {a, RefreshEvery} : m <= x
      <3>1. CASE a <= RefreshEvery
        BY <1>1, <2>1, <3>1
      <3>2. CASE ~(a <= RefreshEvery)
        BY <1>1, <2>1, <3>2
      <3> QED
        BY <3>1, <3>2
    <2>3. Min({a, RefreshEvery}) \in {a, RefreshEvery}
      BY <2>2 DEF Min
    <2> QED
      BY <1>1, <2>1, <2>3 DEF a
  <1> QED
    BY <1>1, <1>2

\* The types are kept.
LEMMA ScanTypedStep ==
    ASSUME ScanAssumption, ScanTyped, [ScanNext]_scanVars
    PROVE  ScanTyped'
  <1>1. ASSUME NEW p \in Pid, Fork(p) PROVE ScanTyped'
    <2>1. PICK a \in BOOLEAN : proc' = [proc EXCEPT ![p] = [start |-> started + 1, agent |-> a]]
      BY <1>1 DEF Fork
    <2>2. started' = started + 1 /\ UNCHANGED <<seen, view, reused, sock, netSeen, told>>
      BY <1>1 DEF Fork, net
    <2>3. [start |-> started + 1, agent |-> a] \in [start : Nat, agent : BOOLEAN]
      BY DEF ScanTyped
    <2> QED
      BY <2>1, <2>2, <2>3 DEF ScanTyped
  <1>2. ASSUME NEW p \in Pid, ExecInto(p) PROVE ScanTyped'
    <2>1. PICK r : r = [proc[p] EXCEPT !.agent = ~@]
      OBVIOUS
    <2>2. r \in [start : Nat, agent : BOOLEAN]
      BY <2>1 DEF ScanTyped
    <2>3. proc' = [proc EXCEPT ![p] = r]
      BY <1>2, <2>1 DEF ExecInto
    <2> QED
      BY <1>2, <2>2, <2>3 DEF ExecInto, net, ScanTyped
  <1>3. ASSUME NEW p \in Pid, Exit(p) PROVE ScanTyped'
    <2>1. NoProc \in [start : Nat, agent : BOOLEAN]
      BY DEF NoProc, NoStart
    <2> QED
      BY <1>3, <2>1 DEF Exit, net, ScanTyped
  <1>4. ASSUME NEW s \in Socket, Connect(s) \/ Disconnect(s) PROVE ScanTyped'
    BY <1>4 DEF Connect, Disconnect, procs, ScanTyped
  <1>5. CASE Scan
    <2>1. NoSeen \in [start : Nat, emit : Nat] /\ NoStart \in Nat
      BY DEF NoSeen, NoStart
    <2>2. seen' \in [Pid -> [start : Nat, emit : Nat]]
      BY <1>5, <2>1, SeenTyped DEF Scan
    <2>3. view' \in [Pid -> Nat] /\ reused' \subseteq Pid
      BY <1>5, <2>1 DEF Scan, ScanTyped
    <2> QED
      BY <1>5, <2>2, <2>3 DEF Scan, net, ScanTyped
  <1>6. CASE ScanNet
    BY <1>6 DEF ScanNet, procs, ScanTyped
  <1>7. CASE ScanFails \/ UNCHANGED scanVars
    BY <1>7 DEF ScanFails, procs, net, scanVars, ScanTyped
  <1> QED
    BY <1>1, <1>2, <1>3, <1>4, <1>5, <1>6, <1>7 DEF ScanNext

\* A scan tells the correlator what it saw, whoever has the pid now.
LEMMA ViewedStep ==
    ASSUME ScanTyped, Viewed, [ScanNext]_scanVars
    PROVE  Viewed'
  <1>1. CASE Scan
    <2> SUFFICES ASSUME NEW p \in Pid
                 PROVE  IF p \in reused' THEN view'[p] = NoStart ELSE view'[p] = seen'[p].start
      BY DEF Viewed
    <2>1. /\ view'[p] = IF Gone(p) THEN NoStart ELSE IF Emits(p) THEN proc[p].start ELSE view[p]
          /\ p \in reused' <=> Reused(p) \/ (p \in reused /\ Interesting(p) /\ ~Emits(p))
          /\ seen'[p].start = IF ~Interesting(p) THEN NoStart ELSE proc[p].start
      BY <1>1 DEF Scan, NoSeen
    <2>2. IF p \in reused THEN view[p] = NoStart ELSE view[p] = seen[p].start
      BY DEF Viewed
    <2>3. CASE ~Interesting(p)
      BY <2>1, <2>2, <2>3 DEF Gone, Emits, Reused, Had
    <2>4. CASE Interesting(p) /\ Reused(p)
      BY <2>1, <2>4 DEF Gone, Reused
    <2>5. CASE Interesting(p) /\ ~Reused(p) /\ ~Had(p)
      BY <2>1, <2>5 DEF Gone, Emits
    <2>6. CASE Interesting(p) /\ ~Reused(p) /\ Had(p)
      <3>1. seen[p].start = proc[p].start /\ ~Gone(p)
        BY <2>6 DEF Reused, Gone
      <3> QED
        BY <2>1, <2>2, <2>6, <3>1
    <2> QED
      BY <2>3, <2>4, <2>5, <2>6
  <1>2. CASE ~Scan
    <2>1. UNCHANGED <<seen, view, reused>>
      BY <1>2 DEF ScanNext, Fork, ExecInto, Exit, Connect, Disconnect, ScanFails, ScanNet,
                  procs, scanVars
    <2> QED
      BY <2>1 DEF Viewed
  <1> QED
    BY <1>1, <1>2

\* A connection is told once, when ScanNet first meets it.
LEMMA ToldStep ==
    ASSUME ScanTyped, ToldOnce, [ScanNext]_scanVars
    PROVE  ToldOnce'
  <1>1. CASE ScanNet
    <2> SUFFICES ASSUME NEW s \in Socket
                 PROVE  told'[s] <= 1 /\ (told'[s] = 1 /\ sock'[s] = "api" => s \in netSeen')
      BY DEF ToldOnce
    <2>1. /\ told'[s] = IF sock[s] = "api" /\ s \notin netSeen THEN told[s] + 1 ELSE told[s]
          /\ s \in netSeen' <=> sock[s] = "api"
          /\ sock' = sock
      BY <1>1 DEF ScanNet
    <2>2. told[s] \in Nat /\ told[s] <= 1 /\ (told[s] = 1 /\ sock[s] = "api" => s \in netSeen)
      BY DEF ScanTyped, ToldOnce
    <2> QED
      BY <2>1, <2>2
  <1>2. ASSUME NEW s \in Socket, Connect(s) \/ Disconnect(s) PROVE ToldOnce'
    BY <1>2 DEF Connect, Disconnect, ScanTyped, ToldOnce
  <1>3. CASE ~ScanNet /\ ~(\E s \in Socket : Connect(s) \/ Disconnect(s))
    <2>1. UNCHANGED <<sock, netSeen, told>>
      BY <1>3 DEF ScanNext, Fork, ExecInto, Exit, Scan, ScanFails, net, scanVars
    <2> QED
      BY <2>1 DEF ToldOnce
  <1> QED
    BY <1>1, <1>2, <1>3

\* So it holds in every state.
LEMMA ScanInductive == ASSUME ScanAssumption PROVE ScanSpec => []ScanIInv
  <1>1. ScanInit => ScanIInv
    BY ScanInitIInv
  <1>2. ScanIInv /\ [ScanNext]_scanVars => ScanIInv'
    BY ScanTypedStep, ViewedStep, ToldStep DEF ScanIInv
  <1> QED
    BY <1>1, <1>2, PTL DEF ScanSpec

\* Through forks, execs, exits, reused pids and listings that fail the
\* correlator knows what Scan saw, and ScanNet tells each connection once.
THEOREM ViewFollowsScan == ASSUME ScanAssumption PROVE ScanSpec => []ScanView
  <1>1. ScanIInv => ScanView
    BY DEF ScanIInv, Viewed, ToldOnce, ScanView
  <1> QED
    BY <1>1, ScanInductive, PTL

-----------------------------------------------------------------------------
(***************************************************************************)
(* The record groups: what the parser has of one event.  f is what the     *)
(* kernel writes, of which n records are written, g the records of its     *)
(* group and o the events told.                                                            *)
(***************************************************************************)
Arrived(f, n) == {f[i] : i \in 1..n} \ {"EOE"}

\* No record of f is to come that opens a group.
Over(f, n) == \A i \in (n + 1)..Len(f) : f[i] = "EOE"

\* It was told at most once, and then nothing is left of it; if no record was lost
\* the group has what was written, or has been closed with all of it.
ToldWhole(f, n, g, o, lossless) ==
    /\ Len(o) <= 1
    /\ o # <<>> => g = {} /\ Over(f, n) /\ (lossless => o[1] = Range(f) \ {"EOE"})
    /\ lossless => IF g # {} THEN g = Arrived(f, n) ELSE Over(f, n) \/ n = 0

Form(f) ==
    /\ f \in Seq(STRING)
    /\ \A i, j \in DOMAIN f : i < j =>
         f[j] \notin Single /\ (f[i] \in Single \cup {"PROCTITLE", "EOE"} => f[j] = "EOE")

Told(g, o) == IF Builds(g) THEN Append(o, g) ELSE o

\* A group closed when no record of its event is to come keeps the event whole.
LEMMA CloseWhole ==
  ASSUME NEW f, Form(f), NEW n \in 0..Len(f), NEW g \in SUBSET STRING, NEW o \in Seq(SUBSET STRING),
         NEW lossless, ToldWhole(f, n, g, o, lossless), Over(f, n)
  PROVE  ToldWhole(f, n, {}, Told(g, o), lossless)
  <1>1. CASE ~Builds(g)
    BY <1>1 DEF ToldWhole, Told
  <1>2. CASE Builds(g)
    <2>1. g # {} /\ o = <<>>
      BY <1>2 DEF Builds, ToldWhole
    <2>2. Told(g, o) = <<g>> /\ Len(<<g>>) = 1 /\ <<g>>[1] = g
      BY <1>2, <2>1 DEF Told
    <2>3. ASSUME lossless PROVE g = Range(f) \ {"EOE"}
      <3>1. g = Arrived(f, n)
        BY <2>1, <2>3 DEF ToldWhole
      <3>2. Len(f) \in Nat /\ n \in Nat /\ DOMAIN f = 1..Len(f) /\ n <= Len(f)
        BY DEF Form
      <3>3. ASSUME NEW i \in DOMAIN f, f[i] # "EOE" PROVE i \in 1..n
        BY <3>2, <3>3 DEF Over
      <3>4. 1..n \subseteq DOMAIN f
        BY <3>2
      <3>5. Range(f) = {f[i] : i \in DOMAIN f}
        BY DEF Range
      <3> QED
        BY <3>1, <3>3, <3>4, <3>5 DEF Arrived
    <2> QED
      BY <2>2, <2>3 DEF ToldWhole
  <1> QED
    BY <1>1, <1>2

\* A record more written, which the parser reads or not: nothing else has changed.
LEMMA NextWhole ==
  ASSUME NEW f, Form(f), NEW n \in 0..Len(f), n < Len(f), NEW g, NEW o, NEW lossless,
         ToldWhole(f, n, g, o, lossless), f[n + 1] = "EOE" \/ ~lossless
  PROVE  ToldWhole(f, n + 1, g, o, lossless)
  <1>1. Len(f) \in Nat /\ n \in Nat /\ DOMAIN f = 1..Len(f) /\ n + 1 \in DOMAIN f
    BY DEF Form
  <1>2. Over(f, n) => Over(f, n + 1)
    BY <1>1 DEF Over
  <1>3. f[n + 1] = "EOE" => Arrived(f, n + 1) = Arrived(f, n) /\ Over(f, n + 1)
    <2>1. 1..(n + 1) = 1..n \cup {n + 1}
      BY <1>1
    <2>2. f[n + 1] = "EOE" => Arrived(f, n + 1) = Arrived(f, n)
      BY <2>1 DEF Arrived
    <2>3. ASSUME f[n + 1] = "EOE", NEW i \in (n + 2)..Len(f) PROVE f[i] = "EOE"
      BY <1>1, <2>3 DEF Form
    <2> QED
      BY <1>1, <2>2, <2>3 DEF Over
  <1> QED
    BY <1>2, <1>3 DEF ToldWhole

\* A record the parser puts into a group.
LEMMA GatherWhole ==
  ASSUME NEW f, Form(f), NEW n \in 0..Len(f), n < Len(f), NEW g, NEW h, NEW o, NEW lossless,
         ToldWhole(f, n, g, o, lossless), f[n + 1] # "EOE", h = g \cup {f[n + 1]}
  PROVE  ToldWhole(f, n + 1, h, o, lossless) /\ o = <<>>
  <1>1. Len(f) \in Nat /\ n \in Nat /\ DOMAIN f = 1..Len(f) /\ n + 1 \in DOMAIN f
    BY DEF Form
  <1>2. ~Over(f, n)
    BY <1>1 DEF Over
  <1>3. 1..(n + 1) = 1..n \cup {n + 1}
    BY <1>1
  <1>4. Arrived(f, n + 1) = Arrived(f, n) \cup {f[n + 1]}
    BY <1>3 DEF Arrived
  <1>5. n = 0 => Arrived(f, n) = {}
    BY DEF Arrived
  <1> QED
    BY <1>2, <1>4, <1>5 DEF ToldWhole

\* A login record is told at once.
LEMMA SingleWhole ==
  ASSUME NEW f, Form(f), NEW n \in 0..Len(f), n < Len(f), NEW g, NEW o, NEW lossless,
         ToldWhole(f, n, g, o, lossless), f[n + 1] \in Single, n = 0 => g = {}
  PROVE  /\ g = {} /\ o = <<>>
         /\ ToldWhole(f, n + 1, {}, Append(o, {f[n + 1]}), lossless)
  <1>1. Len(f) \in Nat /\ n \in Nat /\ DOMAIN f = 1..Len(f) /\ n + 1 \in DOMAIN f
    BY DEF Form
  <1>2. n = 0
    <2>1. SUFFICES ASSUME n # 0 PROVE FALSE
      OBVIOUS
    <2>2. 1 \in DOMAIN f /\ 1 < n + 1
      BY <1>1, <2>1
    <2> QED
      BY <1>1, <2>2 DEF Form
  <1>3. \A i \in DOMAIN f : i # 1 => f[i] = "EOE"
    <2> TAKE i \in DOMAIN f
    <2>1. ASSUME i # 1 PROVE 1 \in DOMAIN f /\ 1 < i /\ f[1] \in Single
      BY <1>1, <1>2, <2>1
    <2> QED
      BY <2>1 DEF Form
  <1>4. f[1] # "EOE" /\ f[n + 1] = f[1] /\ 1 \in DOMAIN f
    BY <1>1, <1>2 DEF Single
  <1>5. ~Over(f, n) /\ Over(f, n + 1)
    BY <1>1, <1>2, <1>3, <1>4 DEF Over
  <1>6. Range(f) \ {"EOE"} = {f[1]}
    BY <1>3, <1>4 DEF Range
  <1>7. o = <<>> /\ Append(o, {f[1]}) = <<{f[1]}>>
    <2>1. o = <<>>
      BY <1>5 DEF ToldWhole
    <2> QED
      BY <2>1
  <1>8. Len(<<{f[1]}>>) = 1 /\ <<{f[1]}>>[1] = {f[1]}
    OBVIOUS
  <1>9. g = {} /\ Append(o, {f[n + 1]}) = <<{f[1]}>>
    BY <1>2, <1>4, <1>7
  <1>10. ToldWhole(f, n + 1, {}, <<{f[1]}>>, lossless)
    BY <1>5, <1>6, <1>8 DEF ToldWhole
  <1> QED
    BY <1>7, <1>9, <1>10

-----------------------------------------------------------------------------
(***************************************************************************)
(* The record groups: the inductive invariant.                             *)
(***************************************************************************)
Group == [records : SUBSET STRING, age : Nat, older : SUBSET Serial]

GroupsTyped ==
    /\ boot \in Serial /\ form \in [Serial -> Forms]
    /\ written \in [Serial -> Nat] /\ \A s \in Serial : written[s] <= Len(form[s])
    /\ lost \in Nat
    /\ groups \in [Serial -> Group] /\ out \in [Serial -> Seq(SUBSET STRING)]

AllWritten(s) == written[s] = Len(form[s])

\* Only the events of two adjacent serials are written at a time, and before the
\* first of a boot all of the last one.
Ordered ==
    \A r, s \in Serial :
        written[s] > 0 /\ (r + 1 < s \/ (s = boot /\ r < s)) => AllWritten(r)

\* A group is opened next to those of events still being written, and where two
\* open ones are not adjacent a boot lies between them.
Opened ==
    /\ \A s \in Pending(groups) : written[s] > 0
    /\ \A h \in Pending(groups) : \A r \in groups[h].older :
         AllWritten(r) \/ h = r + 1 \/ (h + 1 = r /\ boot # r)
    /\ \A a, b \in Pending(groups) : a + 1 < b => a < boot /\ boot <= b

Tallied ==
    \A s \in Serial \ late : ToldWhole(form[s], written[s], groups[s].records, out[s], lost = 0)

GroupsIInv == GroupsTyped /\ Ordered /\ Opened /\ Tallied

\* The kernel's events are as assumed.
LEMMA FormFacts ==
  ASSUME GroupsAssumption, GroupsTyped, NEW s \in Serial
  PROVE  /\ Form(form[s]) /\ Len(form[s]) \in Nat /\ written[s] \in 0..Len(form[s])
         /\ AllWritten(s) => Over(form[s], written[s])
         /\ written[s] < Len(form[s]) =>
              form[s][written[s] + 1] \in STRING /\ written[s] + 1 \in 0..Len(form[s])
         /\ Serials \in Nat /\ s \in Nat
  <1>1. form[s] \in Forms /\ form[s] \in Seq(STRING)
    BY DEF GroupsAssumption, GroupsTyped
  <1>2. Form(form[s])
    BY <1>1 DEF GroupsAssumption, Form
  <1>3. Len(form[s]) \in Nat /\ written[s] \in Nat /\ written[s] <= Len(form[s])
    BY <1>1 DEF GroupsTyped
  <1>4. AllWritten(s) => Over(form[s], written[s])
    BY <1>3 DEF AllWritten, Over
  <1>5. written[s] < Len(form[s]) => form[s][written[s] + 1] \in STRING
    BY <1>1, <1>3
  <1>6. Serials \in Nat /\ s \in Nat
    BY DEF GroupsAssumption, Serial
  <1> QED
    BY <1>2, <1>3, <1>4, <1>5, <1>6

\* Closing groups takes them out of the table and of the order of the others.
LEMMA WithoutFacts ==
  ASSUME NEW gs \in [Serial -> Group], NEW ss \in SUBSET Serial
  PROVE  /\ Without(gs, ss) \in [Serial -> Group]
         /\ \A r \in Serial :
              /\ Without(gs, ss)[r].records = IF r \in ss THEN {} ELSE gs[r].records
              /\ Without(gs, ss)[r].older \subseteq gs[r].older \ ss
         /\ Pending(Without(gs, ss)) = Pending(gs) \ ss
  <1>1. NoGroup \in Group /\ NoGroup.records = {} /\ NoGroup.older = {}
    BY DEF NoGroup, Group
  <1>2. ASSUME NEW r \in Serial
        PROVE  /\ Without(gs, ss)[r] \in Group
               /\ Without(gs, ss)[r].records = IF r \in ss THEN {} ELSE gs[r].records
               /\ Without(gs, ss)[r].older \subseteq gs[r].older \ ss
    <2>1. gs[r] \in Group
      OBVIOUS
    <2>2. CASE r \in ss
      BY <1>1, <2>2 DEF Without
    <2>3. CASE r \notin ss
      <3>1. Without(gs, ss)[r] = [gs[r] EXCEPT !.older = @ \ ss]
        BY <2>3 DEF Without
      <3> QED
        BY <2>1, <2>3, <3>1 DEF Group
    <2> QED
      BY <2>2, <2>3
  <1>3. Without(gs, ss) \in [Serial -> Group]
    BY <1>2 DEF Without
  <1> QED
    BY <1>2, <1>3 DEF Pending

\* A record goes to the group of its event, which is opened for it if need be.
LEMMA GatheredFacts ==
  ASSUME NEW gs \in [Serial -> Group], NEW s \in Serial, NEW type \in STRING
  PROVE  /\ Gathered(gs, s, type) \in [Serial -> Group]
         /\ \A r \in Serial \ {s} : Gathered(gs, s, type)[r] = gs[r]
         /\ Gathered(gs, s, type)[s].records = gs[s].records \cup {type}
         /\ Gathered(gs, s, type)[s].older = IF s \in Pending(gs) THEN gs[s].older ELSE Pending(gs)
         /\ Pending(Gathered(gs, s, type)) = Pending(gs) \cup {s}
  <1> DEFINE g == IF s \in Pending(gs) THEN gs[s] ELSE [NoGroup EXCEPT !.older = Pending(gs)]
             new == [g EXCEPT !.records = @ \cup {type}]
  <1>1. Gathered(gs, s, type) = [gs EXCEPT ![s] = new]
    BY DEF Gathered
  <1>2. gs[s] \in Group /\ Pending(gs) \in SUBSET Serial
    BY DEF Pending
  <1>3. /\ g \in Group /\ g.records = gs[s].records
        /\ g.older = IF s \in Pending(gs) THEN gs[s].older ELSE Pending(gs)
    <2>1. CASE s \in Pending(gs)
      BY <1>2, <2>1
    <2>2. CASE s \notin Pending(gs)
      <3>1. g = [records |-> {}, age |-> 0, older |-> Pending(gs)]
        BY <2>2 DEF NoGroup
      <3>2. gs[s].records = {}
        BY <2>2 DEF Pending
      <3>3. {} \in SUBSET STRING /\ 0 \in Nat
        OBVIOUS
      <3> HIDE DEF g
      <3> QED
        BY <1>2, <2>2, <3>1, <3>2, <3>3 DEF Group
    <2> QED
      BY <2>1, <2>2
  <1> HIDE DEF g
  <1>4. new \in Group /\ new.records = g.records \cup {type} /\ new.older = g.older
    BY <1>3 DEF Group
  <1> HIDE DEF new
  <1>5. Gathered(gs, s, type)[s] = new /\ \A r \in Serial \ {s} : Gathered(gs, s, type)[r] = gs[r]
    BY <1>1
  <1>6. Gathered(gs, s, type) \in [Serial -> Group]
    BY <1>1, <1>4
  <1>7. Pending(Gathered(gs, s, type)) = Pending(gs) \cup {s}
    BY <1>3, <1>4, <1>5 DEF Pending
  <1> QED
    BY <1>3, <1>4, <1>5, <1>6, <1>7

\* A group closed for a newer record belongs to an event that is complete: the
\* numbers are those of one boot, or the record would be of an older one.
LEMMA StaleComplete ==
  ASSUME GroupsAssumption, GroupsTyped, Ordered, Opened,
         NEW s \in Serial, Due(s), NEW r \in Stale(s)
  PROVE  r \in Serial \ {s} /\ AllWritten(r)
  <1>1. /\ r \in Serial /\ r \in Nat /\ s \in Nat /\ boot \in Nat /\ boot \in Serial /\ Serials \in Nat
        /\ s <= Serials /\ 1 <= s /\ r <= Serials
    BY DEF GroupsAssumption, GroupsTyped, Serial, Stale, Pending
  <1>2. Number(r) + 1 < Number(s) /\ written[r] > 0
    BY DEF Stale, Opened
  <1>3. written[s] < Len(form[s]) /\ (r + 1 < s => AllWritten(r))
    BY <1>1 DEF Due, AllWritten
  <1>4. r # s
    BY <1>1, <1>2 DEF Number
  <1>5. ~AllWritten(s)
    <2>1. written[s] \in Nat /\ Len(form[s]) \in Nat
      BY FormFacts
    <2> QED
      BY <1>3, <2>1 DEF AllWritten
  <1>6. CASE r < boot
    <2>1. r + 1 < s
      BY <1>1, <1>2, <1>6 DEF Number
    <2> QED
      BY <1>1, <1>3, <1>4, <2>1
  <1>7. CASE ~(r < boot) /\ ~(s < boot)
    <2>1. r + 1 < s
      BY <1>1, <1>2, <1>7 DEF Number
    <2> QED
      BY <1>1, <1>3, <1>4, <2>1
  <1>8. CASE ~(r < boot) /\ s < boot
    <2>1. s + 1 < r \/ (r = boot /\ s < r)
      BY <1>1, <1>8
    <2> QED
      BY <1>1, <1>2, <1>5, <2>1 DEF Ordered
  <1> QED
    BY <1>6, <1>7, <1>8

\* What closing groups tells.
LEMMA TellFacts ==
  ASSUME NEW gs \in [Serial -> Group], NEW ss \in SUBSET Serial, Tell(gs, ss),
         out \in [Serial -> Seq(SUBSET STRING)]
  PROVE  /\ out' \in [Serial -> Seq(SUBSET STRING)]
         /\ \A r \in Serial : out'[r] = IF r \in ss THEN Told(gs[r].records, out[r]) ELSE out[r]
  <1>1. ASSUME NEW r \in Serial
        PROVE  /\ out'[r] = IF r \in ss THEN Told(gs[r].records, out[r]) ELSE out[r]
               /\ out'[r] \in Seq(SUBSET STRING)
    <2>1. out'[r] = IF r \in ss THEN Told(gs[r].records, out[r]) ELSE out[r]
      BY DEF Tell, Told
    <2>2. out[r] \in Seq(SUBSET STRING) /\ gs[r] \in Group
      OBVIOUS
    <2>3. gs[r].records \in SUBSET STRING
      BY <2>2 DEF Group
    <2>4. Append(out[r], gs[r].records) \in Seq(SUBSET STRING)
      BY <2>2, <2>3
    <2> QED
      BY <2>1, <2>2, <2>4 DEF Told
  <1>2. out' = [r \in Serial |-> out'[r]]
    BY DEF Tell
  <1> QED
    BY <1>1, <1>2

\* What a record read does to its event.
FedOnly(s, type) ==
    \/ /\ type = "EOE"
       /\ groups'[s].records = {} /\ out'[s] = Told(groups[s].records, out[s])
    \/ /\ type = "PROCTITLE"
       /\ groups'[s].records = {} /\ out'[s] = Told(groups[s].records \cup {type}, out[s])
    \/ /\ type \in Single
       /\ groups'[s].records = groups[s].records /\ out'[s] = Append(out[s], {type})
    \/ /\ type \notin Single \cup {"EOE", "PROCTITLE"}
       /\ groups'[s].records = groups[s].records \cup {type} /\ out'[s] = out[s]

\* What it does to the others: those of ss are closed.
Passed(s, ss) ==
    /\ groups' \in [Serial -> Group] /\ out' \in [Serial -> Seq(SUBSET STRING)]
    /\ \A r \in ss : groups'[r].records = {} /\ out'[r] = Told(groups[r].records, out[r])
    /\ \A r \in Serial \ (ss \cup {s}) :
         groups'[r].records = groups[r].records /\ out'[r] = out[r]
    /\ \A r \in Serial \ {s} : groups'[r].older \subseteq groups[r].older

\* Which groups its own was opened after, if it has one.
Ordering(s, ss) ==
    groups'[s].records # {} =>
        \/ s \in Pending(groups) /\ groups'[s].older \subseteq groups[s].older
        \/ s \notin Pending(groups) /\ groups'[s].older \subseteq Pending(groups) \ ss

\* A record read changes the group and the telling of its event, and closes those
\* that are stale.
LEMMA FeedRecordFacts ==
  ASSUME GroupsTyped, NEW s \in Serial, NEW type \in STRING, FeedRecord(s, type),
         \A r \in Stale(s) : r \in Serial \ {s}
  PROVE  Passed(s, Stale(s)) /\ Ordering(s, Stale(s)) /\ FedOnly(s, type)
  <1> DEFINE stale == Stale(s)
             rest == Without(groups, stale)
  <1>1. groups \in [Serial -> Group] /\ out \in [Serial -> Seq(SUBSET STRING)]
    BY DEF GroupsTyped
  <1>2. stale \in SUBSET Serial /\ stale \cup {s} \in SUBSET Serial /\ s \notin stale
    OBVIOUS
  <1>3. CASE type = "EOE" /\ Close(groups, stale \cup {s})
    <2>1. Tell(groups, stale \cup {s}) /\ groups' = Without(groups, stale \cup {s})
      BY <1>3 DEF Close
    <2> HIDE DEF stale
    <2>2. /\ groups' \in [Serial -> Group]
          /\ \A r \in Serial :
               /\ groups'[r].records = IF r \in stale \cup {s} THEN {} ELSE groups[r].records
               /\ groups'[r].older \subseteq groups[r].older \ (stale \cup {s})
      <3> DEFINE all == stale \cup {s}
      <3>1. all \in SUBSET Serial /\ groups' = Without(groups, all)
        BY <1>2, <2>1
      <3> HIDE DEF all
      <3>2. /\ groups' \in [Serial -> Group]
            /\ \A r \in Serial : /\ groups'[r].records = IF r \in all THEN {} ELSE groups[r].records
                                 /\ groups'[r].older \subseteq groups[r].older \ all
        <4>1. groups \in [Serial -> Group] /\ all \in SUBSET Serial
          BY <1>1, <3>1
        <4>2. /\ Without(groups, all) \in [Serial -> Group]
              /\ \A r \in Serial :
                   /\ Without(groups, all)[r].records = IF r \in all THEN {} ELSE groups[r].records
                   /\ Without(groups, all)[r].older \subseteq groups[r].older \ all
          BY ONLY <4>1, WithoutFacts
        <4> QED
          BY <3>1, <4>2
      <3> QED
        BY <3>2 DEF all
    <2>3. /\ out' \in [Serial -> Seq(SUBSET STRING)]
          /\ \A r \in Serial :
               out'[r] = IF r \in stale \cup {s} THEN Told(groups[r].records, out[r]) ELSE out[r]
      BY <1>1, <1>2, <2>1, TellFacts
    <2>4. Passed(s, stale)
      BY <1>2, <2>2, <2>3 DEF Passed
    <2>5. Ordering(s, stale)
      BY <2>2 DEF Ordering
    <2>6. FedOnly(s, type)
      BY <1>3, <2>2, <2>3 DEF FedOnly
    <2> QED
      BY <2>4, <2>5, <2>6 DEF stale
  <1>4. CASE type = "PROCTITLE" /\ Close(Gathered(groups, s, type), stale \cup {s})
    <2> DEFINE gs == Gathered(groups, s, type)
    <2>1. Tell(gs, stale \cup {s}) /\ groups' = Without(gs, stale \cup {s})
      BY <1>4 DEF Close
    <2>2. /\ gs \in [Serial -> Group] /\ \A r \in Serial \ {s} : gs[r] = groups[r]
          /\ gs[s].records = groups[s].records \cup {type}
      BY <1>1, GatheredFacts
    <2> HIDE DEF stale, gs
    <2>3. /\ groups' \in [Serial -> Group]
          /\ \A r \in Serial : /\ groups'[r].records = IF r \in stale \cup {s} THEN {} ELSE gs[r].records
                               /\ groups'[r].older \subseteq gs[r].older \ (stale \cup {s})
      BY <1>2, <2>1, <2>2, WithoutFacts
    <2>4. /\ out' \in [Serial -> Seq(SUBSET STRING)]
          /\ \A r \in Serial :
               out'[r] = IF r \in stale \cup {s} THEN Told(gs[r].records, out[r]) ELSE out[r]
      BY <1>1, <1>2, <2>1, <2>2, TellFacts
    <2>5. Passed(s, stale)
      BY <1>2, <2>2, <2>3, <2>4 DEF Passed
    <2>6. Ordering(s, stale)
      BY <2>3 DEF Ordering
    <2>7. FedOnly(s, type)
      BY <1>4, <2>2, <2>3, <2>4 DEF FedOnly
    <2> QED
      BY <2>5, <2>6, <2>7 DEF stale
  <1>5. CASE /\ type \in Single
             /\ Tell([groups EXCEPT ![s].records = {type}], stale \cup {s}) /\ groups' = rest
    <2> DEFINE gs == [groups EXCEPT ![s].records = {type}]
    <2>1. groups[s] \in Group /\ {type} \in SUBSET STRING
      BY <1>1
    <2>2. [groups[s] EXCEPT !.records = {type}] \in Group
      BY <2>1 DEF Group
    <2>3. /\ gs \in [Serial -> Group] /\ \A r \in Serial \ {s} : gs[r] = groups[r]
          /\ gs[s].records = {type}
      BY <1>1, <2>1, <2>2 DEF Group
    <2>4. Tell(gs, stale \cup {s}) /\ groups' = Without(groups, stale)
      BY <1>5
    <2> HIDE DEF stale, gs, rest
    <2>5. /\ out' \in [Serial -> Seq(SUBSET STRING)]
          /\ \A r \in Serial :
               out'[r] = IF r \in stale \cup {s} THEN Told(gs[r].records, out[r]) ELSE out[r]
      BY <1>1, <1>2, <2>3, <2>4, TellFacts
    <2>6. /\ groups' \in [Serial -> Group]
          /\ \A r \in Serial : /\ groups'[r].records = IF r \in stale THEN {} ELSE groups[r].records
                               /\ groups'[r].older \subseteq groups[r].older \ stale
      BY <1>1, <1>2, <2>4, WithoutFacts
    <2>7. Builds({type})
      BY <1>5 DEF Builds
    <2>8. Passed(s, stale)
      BY <1>2, <2>3, <2>5, <2>6 DEF Passed
    <2>9. Ordering(s, stale)
      BY <1>2, <2>6 DEF Ordering, Pending
    <2>10. FedOnly(s, type)
      BY <1>2, <1>5, <2>3, <2>5, <2>6, <2>7 DEF FedOnly, Told
    <2> QED
      BY <2>8, <2>9, <2>10 DEF stale
  <1>6. CASE /\ type \notin Single \cup {"EOE", "PROCTITLE"}
             /\ Tell(groups, stale) /\ groups' = Gathered(rest, s, type)
    <2> HIDE DEF stale
    <2>1. /\ rest \in [Serial -> Group] /\ Pending(rest) = Pending(groups) \ stale
          /\ \A r \in Serial : /\ rest[r].records = IF r \in stale THEN {} ELSE groups[r].records
                               /\ rest[r].older \subseteq groups[r].older \ stale
      BY <1>1, <1>2, WithoutFacts
    <2> HIDE DEF rest
    <2>2. /\ groups' \in [Serial -> Group] /\ \A r \in Serial \ {s} : groups'[r] = rest[r]
          /\ groups'[s].records = rest[s].records \cup {type}
          /\ groups'[s].older = IF s \in Pending(rest) THEN rest[s].older ELSE Pending(rest)
      <3> DEFINE with == Gathered(rest, s, type)
      <3>1. /\ with \in [Serial -> Group] /\ \A r \in Serial \ {s} : with[r] = rest[r]
            /\ with[s].records = rest[s].records \cup {type}
            /\ with[s].older = IF s \in Pending(rest) THEN rest[s].older ELSE Pending(rest)
        <4>1. rest \in [Serial -> Group] /\ s \in Serial /\ type \in STRING
          BY <2>1
        <4> QED
          BY ONLY <4>1, GatheredFacts
      <3>2. groups' = with
        BY <1>6
      <3> HIDE DEF with
      <3> QED
        BY <3>1, <3>2
    <2>3. /\ out' \in [Serial -> Seq(SUBSET STRING)]
          /\ \A r \in Serial : out'[r] = IF r \in stale THEN Told(groups[r].records, out[r]) ELSE out[r]
      BY <1>1, <1>2, <1>6, TellFacts
    <2>4. Passed(s, stale)
      BY <1>2, <2>1, <2>2, <2>3 DEF Passed
    <2>5. s \in Pending(rest) <=> s \in Pending(groups)
      BY <1>2, <2>1
    <2>6. Ordering(s, stale)
      <3>1. CASE s \in Pending(groups)
        BY <2>1, <2>2, <2>5, <3>1 DEF Ordering
      <3>2. CASE s \notin Pending(groups)
        BY <2>1, <2>2, <2>5, <3>2 DEF Ordering
      <3> QED
        BY <3>1, <3>2
    <2>7. FedOnly(s, type)
      BY <1>2, <1>6, <2>1, <2>2, <2>3 DEF FedOnly
    <2> QED
      BY <2>4, <2>6, <2>7 DEF stale
  <1> QED
    BY <1>3, <1>4, <1>5, <1>6 DEF FeedRecord

\* The kernel writes or loses a record.
LEMMA RecordWritten ==
  ASSUME GroupsAssumption, GroupsTyped, Ordered, NEW s \in Serial, Due(s),
         written' = [written EXCEPT ![s] = @ + 1], UNCHANGED <<boot, form>>
  PROVE  /\ written' \in [Serial -> Nat] /\ \A r \in Serial : written'[r] <= Len(form'[r])
         /\ written'[s] = written[s] + 1 /\ \A r \in Serial \ {s} : written'[r] = written[r]
         /\ written[s] < Len(form[s]) /\ ~AllWritten(s)
         /\ \A r \in Serial : AllWritten(r) => r # s /\ AllWritten(r)'
         /\ Ordered'
  <1>1. written[s] \in 0..Len(form[s]) /\ Len(form[s]) \in Nat /\ written[s] < Len(form[s])
    BY FormFacts DEF Due
  <1>2. /\ written'[s] = written[s] + 1 /\ \A r \in Serial \ {s} : written'[r] = written[r]
        /\ written' \in [Serial -> Nat]
    BY <1>1 DEF GroupsTyped
  <1>3. \A r \in Serial : written'[r] <= Len(form'[r])
    BY <1>1, <1>2 DEF GroupsTyped
  <1>4. ~AllWritten(s) /\ \A r \in Serial : AllWritten(r) => r # s /\ AllWritten(r)'
    BY <1>1, <1>2 DEF AllWritten
  <1>5. Ordered'
    <2>1. SUFFICES ASSUME NEW r \in Serial, NEW q \in Serial, written'[q] > 0,
                          r + 1 < q \/ (q = boot /\ r < q)
                   PROVE  AllWritten(r)
      BY <1>4 DEF Ordered
    <2>2. CASE q = s
      <3>1. r \in Nat /\ q \in Nat /\ r \in 1..(s - 1)
        BY <2>1, <2>2 DEF Serial
      <3> QED
        BY <2>1, <2>2, <3>1 DEF Due, AllWritten
    <2>3. CASE q # s
      BY <1>2, <2>1, <2>3 DEF Ordered
    <2> QED
      BY <2>2, <2>3
  <1> QED
    BY <1>1, <1>2, <1>3, <1>4, <1>5

\* A record read keeps the open groups next to each other.
LEMMA LineOpened ==
  ASSUME GroupsAssumption, GroupsTyped, Ordered, Opened, NEW s \in Serial, Due(s),
         written' = [written EXCEPT ![s] = @ + 1], UNCHANGED <<boot, form>>,
         Passed(s, Stale(s)), Ordering(s, Stale(s))
  PROVE  Opened'
  <1>1. /\ written'[s] = written[s] + 1 /\ \A r \in Serial \ {s} : written'[r] = written[r]
        /\ ~AllWritten(s) /\ \A r \in Serial : AllWritten(r) => AllWritten(r)'
    BY RecordWritten
  <1>2. /\ \A r \in Serial : r \in Nat
        /\ boot \in Nat /\ written \in [Serial -> Nat] /\ Serials \in Nat
        /\ \A r \in Serial : 1 <= r /\ r <= Serials
    BY DEF GroupsAssumption, GroupsTyped, Serial
  <1>3. \A h \in Pending(groups)' \ {s} :
           h \in Pending(groups) /\ h \notin Stale(s) /\ groups'[h].older \subseteq groups[h].older
    BY DEF Pending, Passed
  <1>4. \A r \in Pending(groups) : r + 1 < s => AllWritten(r)
    <2>1. ASSUME NEW r \in Pending(groups), r + 1 < s PROVE AllWritten(r)
      BY <1>2, <2>1 DEF Due, AllWritten, Pending
    <2> QED
      BY <2>1
  <1>5. \A r \in Pending(groups) : ~(s + 1 < r) /\ ~(r = boot /\ s < r)
    BY <1>1 DEF Ordered, Opened, Pending
  <1>6. \A h \in Pending(groups)' : written'[h] > 0
    <2>1. \A h \in Pending(groups)' \ {s} : written'[h] > 0
      BY <1>1, <1>3 DEF Opened, Pending
    <2>2. written'[s] > 0
      BY <1>1, <1>2
    <2> QED
      BY <2>1, <2>2
  <1>7. ASSUME NEW h \in Pending(groups)', NEW r \in groups'[h].older
        PROVE  AllWritten(r)' \/ h = r + 1 \/ (h + 1 = r /\ boot' # r)
    <2>1. h \in Serial /\ r \in Serial
      BY DEF Passed, Pending, Group
    <2>2. CASE h \in Pending(groups) /\ r \in groups[h].older
      BY <1>1, <2>1, <2>2 DEF Opened
    <2>3. CASE h = s /\ s \notin Pending(groups) /\ r \in Pending(groups) \ Stale(s)
      <3>1. r # s /\ h \in Nat /\ r \in Nat
        BY <1>2, <2>1, <2>3
      <3>2. AllWritten(r) \/ r + 1 = s \/ r = s + 1
        BY <1>4, <1>5, <2>3, <3>1
      <3>3. r = s + 1 => boot # r
        BY <1>5, <2>3, <3>1
      <3> QED
        BY <1>1, <2>1, <2>3, <3>1, <3>2, <3>3
    <2>4. CASE h # s
      BY <1>3, <2>2, <2>4
    <2>5. CASE h = s
      <3>1. groups'[s].records # {}
        BY <2>5 DEF Pending
      <3> QED
        BY <2>2, <2>3, <2>5, <3>1 DEF Ordering
    <2> QED
      BY <2>4, <2>5
  <1>8. ASSUME NEW a \in Pending(groups)', NEW b \in Pending(groups)', a + 1 < b
        PROVE  a < boot /\ boot <= b
    <2>1. a \in Serial /\ b \in Serial
      BY DEF Pending
    <2>2. CASE a # s /\ b # s
      BY <1>3, <1>8, <2>2 DEF Opened
    <2>3. CASE a = s
      <3>1. b # s
        BY <1>2, <1>8, <2>1, <2>3
      <3> QED
        BY <1>3, <1>5, <1>8, <2>3, <3>1
    <2>4. CASE b = s
      <3>1. a # s
        BY <1>2, <1>8, <2>1, <2>4
      <3>2. a \in Pending(groups) /\ a \notin Stale(s)
        BY <1>3, <3>1
      <3>3. ~(Number(a) + 1 < Number(s))
        BY <3>2 DEF Stale
      <3> QED
        BY <1>2, <1>8, <2>1, <2>4, <3>3 DEF Number
    <2> QED
      BY <2>2, <2>3, <2>4
  <1> QED
    BY <1>6, <1>7, <1>8 DEF Opened

\* A record read leaves every event whole.
LEMMA LineTallied ==
  ASSUME GroupsAssumption, GroupsTyped, Ordered, Opened, Tallied, NEW s \in Serial, Due(s),
         written' = [written EXCEPT ![s] = @ + 1], UNCHANGED <<boot, form, lost, late>>,
         Passed(s, Stale(s)), FedOnly(s, form[s][written[s] + 1])
  PROVE  Tallied'
  <1> DEFINE type == form[s][written[s] + 1]
             n == written[s]
             l == (lost = 0)
  <1>1. SUFFICES ASSUME NEW r \in Serial \ late
                 PROVE  ToldWhole(form[r], written'[r], groups'[r].records, out'[r], l)
    BY DEF Tallied
  <1>2. /\ written'[s] = n + 1 /\ \A q \in Serial \ {s} : written'[q] = written[q]
        /\ n < Len(form[s])
    BY RecordWritten
  <1>3. /\ Form(form[r]) /\ written[r] \in 0..Len(form[r]) /\ Len(form[r]) \in Nat
        /\ AllWritten(r) => Over(form[r], written[r])
    BY <1>1, FormFacts
  <1>4. groups[r] \in Group /\ out[r] \in Seq(SUBSET STRING)
    BY <1>1 DEF GroupsTyped
  <1>5. groups[r].records \in SUBSET STRING
    BY <1>4 DEF Group
  <1>6. ToldWhole(form[r], written[r], groups[r].records, out[r], l)
    BY <1>1 DEF Tallied
  <1>7. CASE r # s /\ r \notin Stale(s)
    BY <1>1, <1>2, <1>6, <1>7 DEF Passed
  <1>8. CASE r \in Stale(s)
    <2>1. r # s /\ AllWritten(r)
      BY <1>8, StaleComplete
    <2>2. groups'[r].records = {} /\ out'[r] = Told(groups[r].records, out[r])
      BY <1>8 DEF Passed
    <2>3. Over(form[r], written[r])
      BY <1>3, <2>1
    <2>4. ToldWhole(form[r], written[r], {}, Told(groups[r].records, out[r]), l)
      BY <1>3, <1>4, <1>5, <1>6, <2>3, CloseWhole
    <2> QED
      BY <1>1, <1>2, <2>1, <2>2, <2>4
  <1>9. CASE r = s
    <2> DEFINE f == form[s]
               g == groups[s].records
               o == out[s]
    <2>1. /\ Form(f) /\ n \in 0..Len(f) /\ n + 1 \in 0..Len(f) /\ n < Len(f) /\ f[n + 1] = type
          /\ type \in STRING
      BY <1>2, <1>9, FormFacts
    <2>2. g \in SUBSET STRING /\ o \in Seq(SUBSET STRING) /\ ToldWhole(f, n, g, o, l)
      BY <1>4, <1>5, <1>6, <1>9
    <2>3. n = 0 => g = {}
      BY <1>1, <1>9, <2>1 DEF Opened, Pending
    <2>4. FedOnly(s, type)
      OBVIOUS
    <2>5. SUFFICES ToldWhole(f, n + 1, groups'[s].records, out'[s], l)
      BY <1>2, <1>9
    <2> HIDE DEF f, n, g, o, l, type
    <2>6. CASE type = "EOE"
      <3>1. ToldWhole(f, n + 1, g, o, l)
        BY <2>1, <2>2, <2>6, NextWhole
      <3>2. Over(f, n + 1)
        <4>1. \A i \in (n + 2)..Len(f) : i \in DOMAIN f /\ n + 1 \in DOMAIN f /\ n + 1 < i
          BY <2>1 DEF Form
        <4> QED
          BY <2>1, <2>6, <4>1 DEF Over, Form
      <3>3. ToldWhole(f, n + 1, {}, Told(g, o), l)
        BY <2>1, <2>2, <3>1, <3>2, CloseWhole
      <3> QED
        BY <2>4, <2>6, <3>3 DEF FedOnly, Single, g, o
    <2>7. CASE type = "PROCTITLE"
      <3> DEFINE h == g \cup {type}
      <3>1. ToldWhole(f, n + 1, h, o, l) /\ h \in SUBSET STRING
        BY <2>1, <2>2, <2>7, GatherWhole
      <3>2. Over(f, n + 1)
        <4>1. \A i \in (n + 2)..Len(f) : i \in DOMAIN f /\ n + 1 \in DOMAIN f /\ n + 1 < i
          BY <2>1 DEF Form
        <4> QED
          BY <2>1, <2>7, <4>1 DEF Over, Form
      <3> HIDE DEF h
      <3>3. ToldWhole(f, n + 1, {}, Told(h, o), l)
        BY <2>1, <2>2, <3>1, <3>2, CloseWhole
      <3> QED
        BY <2>4, <2>7, <3>3 DEF FedOnly, Single, g, o, h
    <2>8. CASE type \in Single
      <3>1. g = {} /\ ToldWhole(f, n + 1, {}, Append(o, {type}), l)
        BY <2>1, <2>2, <2>3, <2>8, SingleWhole
      <3> QED
        BY <2>4, <2>8, <3>1 DEF FedOnly, Single, g, o
    <2>9. CASE type \notin Single \cup {"EOE", "PROCTITLE"}
      <3> DEFINE h == g \cup {type}
      <3>1. ToldWhole(f, n + 1, h, o, l)
        BY <2>1, <2>2, <2>9, GatherWhole
      <3>2. groups'[s].records = h /\ out'[s] = o
        BY <2>4, <2>9 DEF FedOnly, g, o
      <3> QED
        BY <3>1, <3>2
    <2> QED
      BY <2>6, <2>7, <2>8, <2>9
  <1> QED
    BY <1>7, <1>8, <1>9

LEMMA LineGroups ==
  ASSUME GroupsAssumption, GroupsIInv, NEW s \in Serial, Line(s)
  PROVE  GroupsIInv'
  <1> DEFINE type == form[s][written[s] + 1]
  <1>1. /\ Due(s) /\ written' = [written EXCEPT ![s] = @ + 1] /\ FeedRecord(s, type)
        /\ UNCHANGED <<mode, boot, form, lost, open, late>>
    BY DEF Line
  <1>2. GroupsTyped /\ Ordered /\ Opened /\ Tallied
    BY DEF GroupsIInv
  <1>3. \A r \in Stale(s) : r \in Serial \ {s}
    BY <1>1, <1>2, StaleComplete
  <1>4. type \in STRING
    BY <1>1, <1>2, FormFacts DEF Due
  <1> HIDE DEF type
  <1>5. Passed(s, Stale(s)) /\ Ordering(s, Stale(s)) /\ FedOnly(s, type)
    BY <1>1, <1>2, <1>3, <1>4, FeedRecordFacts
  <1>6. /\ Ordered' /\ written' \in [Serial -> Nat]
        /\ \A r \in Serial : written'[r] <= Len(form'[r])
    BY <1>1, <1>2, RecordWritten
  <1>7. GroupsTyped'
    BY <1>1, <1>2, <1>5, <1>6 DEF GroupsTyped, Passed, Group
  <1>8. Opened'
    BY <1>1, <1>2, <1>5, LineOpened
  <1>9. Tallied'
    BY <1>1, <1>2, <1>5, LineTallied DEF type
  <1> QED
    BY <1>6, <1>7, <1>8, <1>9 DEF GroupsIInv

LEMMA LoseGroups ==
  ASSUME GroupsAssumption, GroupsIInv, NEW s \in Serial, Lose(s)
  PROVE  GroupsIInv'
  <1>1. /\ Due(s) /\ written' = [written EXCEPT ![s] = @ + 1] /\ lost' = lost + 1
        /\ UNCHANGED <<mode, boot, form, groups, open, out, late>>
    BY DEF Lose
  <1>2. GroupsTyped /\ Ordered /\ Opened /\ Tallied
    BY DEF GroupsIInv
  <1>3. /\ Ordered' /\ written' \in [Serial -> Nat]
        /\ \A r \in Serial : written'[r] <= Len(form'[r])
        /\ written'[s] = written[s] + 1 /\ \A r \in Serial \ {s} : written'[r] = written[r]
        /\ written[s] < Len(form[s]) /\ \A r \in Serial : AllWritten(r) => AllWritten(r)'
    BY <1>1, <1>2, RecordWritten
  <1>4. lost \in Nat /\ lost' \in Nat /\ ~(lost' = 0)
    BY <1>1, <1>2 DEF GroupsTyped
  <1>5. GroupsTyped'
    BY <1>1, <1>2, <1>3, <1>4 DEF GroupsTyped, Group
  <1>6. Opened'
    <2>1. Pending(groups)' = Pending(groups) /\ boot' = boot /\ groups' = groups
      BY <1>1 DEF Pending
    <2>2. \A h \in Pending(groups) : h \in Serial /\ groups[h].older \subseteq Serial
      BY <1>2 DEF GroupsTyped, Group, Pending
    <2>3. \A h \in Pending(groups) : written'[h] > 0
      <3>1. \A h \in Pending(groups) : written[h] > 0 /\ h \in Serial /\ written[h] \in Nat
        BY <1>2, <2>2 DEF Opened, GroupsTyped
      <3> QED
        BY <1>3, <3>1
    <2> QED
      BY <1>2, <1>3, <2>1, <2>2, <2>3 DEF Opened
  <1>7. Tallied'
    <2>1. SUFFICES ASSUME NEW r \in Serial \ late
                   PROVE  ToldWhole(form[r], written'[r], groups[r].records, out[r], FALSE)
      BY <1>1, <1>4 DEF Tallied
    <2>2. ToldWhole(form[r], written[r], groups[r].records, out[r], FALSE)
      BY <1>2, <2>1 DEF Tallied, ToldWhole
    <2>3. CASE r = s
      <3>1. Form(form[s]) /\ written[s] \in 0..Len(form[s]) /\ written[s] < Len(form[s])
        BY <1>2, <1>3, FormFacts
      <3>2. ToldWhole(form[s], written[s], groups[s].records, out[s], FALSE)
        BY <2>2, <2>3
      <3>3. ToldWhole(form[s], written[s] + 1, groups[s].records, out[s], FALSE)
        BY ONLY <3>1, <3>2, NextWhole
      <3> QED
        BY <1>3, <2>3, <3>3
    <2> QED
      BY <1>3, <2>1, <2>2, <2>3
  <1> QED
    BY <1>3, <1>5, <1>6, <1>7 DEF GroupsIInv

\* Groups may be closed when their events are complete, or counted as late.
LEMMA CloseGroups ==
  ASSUME GroupsAssumption, GroupsIInv, UNCHANGED <<boot, form, written, lost>>,
         NEW gs \in [Serial -> Group], NEW ss \in SUBSET Serial, Close(gs, ss),
         \A r \in Serial : gs[r].records = groups[r].records,
         \A r \in Pending(groups) : gs[r].older = groups[r].older,
         late \subseteq late', \A r \in (ss \cap Pending(groups)) \ late' : AllWritten(r)
  PROVE  GroupsIInv'
  <1>1. GroupsTyped /\ Ordered /\ Opened /\ Tallied
    BY DEF GroupsIInv
  <1>2. Tell(gs, ss) /\ groups' = Without(gs, ss) /\ out \in [Serial -> Seq(SUBSET STRING)]
    BY <1>1 DEF Close, GroupsTyped
  <1>3. /\ Without(gs, ss) \in [Serial -> Group]
        /\ \A r \in Serial :
             /\ Without(gs, ss)[r].records = IF r \in ss THEN {} ELSE gs[r].records
             /\ Without(gs, ss)[r].older \subseteq gs[r].older \ ss
    BY WithoutFacts
  <1>4. /\ groups' \in [Serial -> Group]
        /\ \A r \in Serial : groups'[r].records = IF r \in ss THEN {} ELSE groups[r].records
        /\ \A r \in Pending(groups) : groups'[r].older \subseteq groups[r].older
    <2>1. Pending(groups) \subseteq Serial
      BY DEF Pending
    <2> QED
      BY <1>2, <1>3, <2>1
  <1>5. /\ out' \in [Serial -> Seq(SUBSET STRING)]
        /\ \A r \in Serial : out'[r] = IF r \in ss THEN Told(gs[r].records, out[r]) ELSE out[r]
    BY <1>2, TellFacts
  <1>6. GroupsTyped' /\ Ordered'
    BY <1>1, <1>4, <1>5 DEF GroupsTyped, Ordered, AllWritten, Group
  <1>7. Pending(groups)' \subseteq Pending(groups)
    BY <1>4 DEF Pending
  <1>8. Opened'
    BY <1>1, <1>4, <1>7 DEF Opened, AllWritten
  <1>9. Tallied'
    <2> DEFINE l == (lost = 0)
    <2>1. SUFFICES ASSUME NEW r \in Serial \ late'
                   PROVE  ToldWhole(form[r], written[r], groups'[r].records, out'[r], l)
      BY DEF Tallied
    <2>2. ToldWhole(form[r], written[r], groups[r].records, out[r], l) /\ r \in Serial
      BY <1>1, <2>1 DEF Tallied
    <2> HIDE DEF l
    <2>3. CASE r \notin ss
      BY <1>4, <1>5, <2>2, <2>3
    <2>4. CASE r \in ss /\ groups[r].records = {}
      <3>1. ~Builds({})
        BY DEF Builds
      <3> QED
        BY <1>4, <1>5, <2>2, <2>4, <3>1 DEF Told
    <2>5. CASE r \in ss /\ groups[r].records # {}
      <3>1. AllWritten(r)
        BY <2>1, <2>2, <2>5 DEF Pending
      <3>2. Form(form[r]) /\ written[r] \in 0..Len(form[r]) /\ Over(form[r], written[r])
        BY <1>1, <2>2, <3>1, FormFacts
      <3>3. groups[r] \in Group /\ out[r] \in Seq(SUBSET STRING)
        BY <1>1, <2>2 DEF GroupsTyped
      <3>4. groups[r].records \in SUBSET STRING
        BY <3>3 DEF Group
      <3>5. ToldWhole(form[r], written[r], {}, Told(groups[r].records, out[r]), l)
        BY <2>2, <3>2, <3>3, <3>4, CloseWhole
      <3> QED
        BY <1>4, <1>5, <2>2, <2>5, <3>5
    <2> QED
      BY <2>3, <2>4, <2>5
  <1> QED
    BY <1>6, <1>8, <1>9 DEF GroupsIInv

LEMMA FlushGroups ==
  ASSUME GroupsAssumption, GroupsIInv, Flush
  PROVE  GroupsIInv'
  <1> DEFINE gs == [s \in Serial |-> IF s \in Pending(groups)
                      THEN [groups[s] EXCEPT !.age = Min({@ + 1, MaxAge})] ELSE NoGroup]
             ss == {s \in Pending(groups) : TooOld(gs[s])}
  <1>1. /\ Close(gs, ss) /\ late' = late \cup {s \in ss : written[s] < Len(form[s])}
        /\ UNCHANGED <<mode, boot, form, written, lost, open>>
    BY DEF Flush
  <1>2. GroupsTyped
    BY DEF GroupsIInv
  <1>3. ASSUME NEW s \in Serial
        PROVE  /\ gs[s] \in Group /\ gs[s].records = groups[s].records
               /\ s \in Pending(groups) => gs[s].older = groups[s].older
    <2>1. groups[s] \in Group
      BY <1>2 DEF GroupsTyped
    <2>2. CASE s \in Pending(groups)
      <3> DEFINE age == Min({groups[s].age + 1, MaxAge})
      <3>1. groups[s].age + 1 \in Nat /\ MaxAge \in Nat
        BY <2>1 DEF GroupsAssumption, Group
      <3>2. age \in Nat
        <4>1. \A a, b \in Nat : Min({a, b}) \in {a, b}
          <5> TAKE a, b \in Nat
          <5>1. \E x \in {a, b} : \A y \in {a, b} : x <= y
            BY SMT
          <5> QED
            BY <5>1 DEF Min
        <4> QED
          BY <3>1, <4>1
      <3>3. gs[s] = [groups[s] EXCEPT !.age = age]
        BY <2>2
      <3> HIDE DEF age, gs
      <3> QED
        BY <2>1, <3>2, <3>3 DEF Group
    <2>3. CASE s \notin Pending(groups)
      <3>1. gs[s] = NoGroup /\ groups[s].records = {}
        BY <2>3 DEF Pending
      <3> HIDE DEF gs
      <3> QED
        BY <2>3, <3>1 DEF NoGroup, Group
    <2> QED
      BY <2>2, <2>3
  <1>4. gs \in [Serial -> Group] /\ ss \in SUBSET Serial
    BY <1>3 DEF Pending
  <1>5. \A r \in (ss \cap Pending(groups)) \ late' : AllWritten(r)
    <2>1. SUFFICES ASSUME NEW r \in ss, r \notin late' PROVE AllWritten(r)
      OBVIOUS
    <2> HIDE DEF ss
    <2>2. r \in Serial
      BY <1>4
    <2>3. written[r] \in Nat /\ Len(form[r]) \in Nat /\ written[r] <= Len(form[r])
      BY <1>2, <2>2, FormFacts
    <2> QED
      BY <1>1, <2>1, <2>3 DEF AllWritten
  <1>6. /\ \A r \in Serial : gs[r].records = groups[r].records
        /\ \A r \in Pending(groups) : gs[r].older = groups[r].older
    BY <1>3 DEF Pending
  <1> HIDE DEF gs, ss
  <1> QED
    BY <1>1, <1>4, <1>5, <1>6, CloseGroups

\* At most one open group was opened after that of an event still being written.
LEMMA SweepGroups ==
  ASSUME GroupsAssumption, GroupsIInv, Sweep
  PROVE  GroupsIInv'
  <1> DEFINE newer(s) == {r \in Pending(groups) : s \in groups[r].older}
             ss == {s \in Pending(groups) : Cardinality(newer(s)) >= KeepOpen}
  <1>1. Close(groups, ss) /\ UNCHANGED <<mode, boot, form, written, lost, open, late>>
    BY DEF Sweep
  <1>2. GroupsTyped /\ Ordered /\ Opened
    BY DEF GroupsIInv
  <1>3. ASSUME NEW s \in ss PROVE AllWritten(s)
    <2>1. SUFFICES ASSUME ~AllWritten(s) PROVE FALSE
      OBVIOUS
    <2>2. /\ s \in Serial /\ s \in Nat /\ boot \in Nat /\ Pending(groups) \subseteq Serial
          /\ Serial \subseteq Nat
      BY <1>2 DEF GroupsTyped, Serial, Pending
    <2>3. \A r \in newer(s) : r \in Pending(groups) /\ (r = s + 1 \/ (r + 1 = s /\ boot # s))
      BY <1>2, <2>1, <2>2 DEF Opened
    <2>4. \A a, b \in newer(s) : a = b
      <3>1. SUFFICES ASSUME NEW a \in newer(s), NEW b \in newer(s), a + 1 = s, b = s + 1,
                            boot # s
                     PROVE  FALSE
        BY <2>2, <2>3
      <3>2. /\ a \in Pending(groups) /\ b \in Pending(groups) /\ a \in Nat /\ b \in Nat
            /\ b \in Serial
        BY <2>2
      <3> HIDE DEF newer
      <3>3. a < boot /\ boot <= b
        BY <1>2, <2>2, <3>1, <3>2 DEF Opened
      <3>4. b = boot /\ s < b
        BY <2>2, <3>1, <3>2, <3>3
      <3>5. written[b] > 0
        BY <1>2, <3>2 DEF Opened
      <3> QED
        BY <1>2, <2>1, <2>2, <3>2, <3>4, <3>5 DEF Ordered
    <2>5. IsFiniteSet(newer(s)) /\ Cardinality(newer(s)) <= 1
      <3> DEFINE N == newer(s)
      <3> HIDE DEF N
      <3>1. CASE N = {}
        <4>1. IsFiniteSet({}) /\ Cardinality({}) = 0
          BY FS_EmptySet
        <4>2. IsFiniteSet(N) /\ Cardinality(N) = 0
          BY <3>1, <4>1
        <4> QED
          BY <4>2 DEF N
      <3>2. CASE N # {}
        <4>1. PICK a : N = {a}
          BY <2>4, <3>2 DEF N
        <4>2. IsFiniteSet({a}) /\ Cardinality({a}) = 1
          BY FS_Singleton
        <4>3. IsFiniteSet(N) /\ Cardinality(N) = 1
          BY <4>1, <4>2
        <4> QED
          BY <4>3 DEF N
      <3> QED
        BY <3>1, <3>2
    <2>6. Cardinality(newer(s)) >= KeepOpen /\ KeepOpen \in Nat /\ KeepOpen >= 2
      BY DEF GroupsAssumption
    <2>7. Cardinality(newer(s)) \in Nat
      BY <2>5, FS_CardinalityType
    <2> HIDE DEF newer
    <2> QED
      BY <2>5, <2>6, <2>7
  <1>4. ss \in SUBSET Serial /\ groups \in [Serial -> Group]
    BY <1>2 DEF GroupsTyped, Pending
  <1> HIDE DEF ss
  <1> QED
    BY <1>1, <1>3, <1>4, CloseGroups

LEMMA EndGroups ==
  ASSUME GroupsAssumption, GroupsIInv, End
  PROVE  GroupsIInv'
  <1>1. /\ Close(groups, Serial) /\ UNCHANGED <<mode, boot, form, written, lost, late>>
        /\ \A s \in Serial : AllWritten(s)
    BY DEF End, AllWritten
  <1>2. groups \in [Serial -> Group]
    BY DEF GroupsIInv, GroupsTyped
  <1> QED
    BY <1>1, <1>2, CloseGroups

LEMMA InitGroups ==
  ASSUME GroupsAssumption, GroupsInit
  PROVE  GroupsIInv
  <1>1. /\ boot \in Serial /\ form \in [Serial -> Forms] /\ written = [s \in Serial |-> 0]
        /\ lost = 0 /\ groups = [s \in Serial |-> NoGroup] /\ out = [s \in Serial |-> <<>>]
    BY DEF GroupsInit
  <1>2. NoGroup \in Group /\ NoGroup.records = {}
    BY DEF NoGroup, Group
  <1>3. \A s \in Serial : written[s] = 0 /\ groups[s].records = {} /\ out[s] = <<>>
    BY <1>1, <1>2
  <1>4. GroupsTyped
    <2>1. \A s \in Serial : Len(form[s]) \in Nat
      BY <1>1 DEF GroupsAssumption
    <2>2. groups \in [Serial -> Group]
      BY <1>1, <1>2
    <2>3. <<>> \in Seq(SUBSET STRING)
      OBVIOUS
    <2>4. out \in [Serial -> Seq(SUBSET STRING)]
      BY <1>1, <2>3
    <2>5. written \in [Serial -> Nat] /\ \A s \in Serial : written[s] <= Len(form[s])
      BY <1>1, <2>1
    <2> QED
      BY <1>1, <2>2, <2>4, <2>5 DEF GroupsTyped
  <1>5. Ordered /\ Opened
    BY <1>3 DEF Ordered, Opened, Pending
  <1>6. Tallied
    <2>1. Len(<<>>) = 0
      OBVIOUS
    <2> QED
      BY <1>3, <2>1 DEF Tallied, ToldWhole
  <1> QED
    BY <1>4, <1>5, <1>6 DEF GroupsIInv

\* Every step of the parser and of the kernel keeps the invariant.
LEMMA GroupsIInvStep ==
  ASSUME GroupsAssumption, GroupsIInv, [GroupsNext]_groupVars
  PROVE  GroupsIInv'
  <1>1. ASSUME NEW s \in Serial, Line(s) PROVE GroupsIInv'
    BY <1>1, LineGroups
  <1>2. ASSUME NEW s \in Serial, Lose(s) PROVE GroupsIInv'
    BY <1>2, LoseGroups
  <1>3. CASE Flush
    BY <1>3, FlushGroups
  <1>4. CASE Sweep
    BY <1>4, SweepGroups
  <1>5. CASE End
    BY <1>5, EndGroups
  <1>6. CASE UNCHANGED groupVars
    BY <1>6 DEF groupVars, GroupsIInv, GroupsTyped, Group, Ordered, Opened, Tallied, AllWritten, Pending
  <1> QED
    BY <1>1, <1>2, <1>3, <1>4, <1>5, <1>6 DEF GroupsNext, Lines

LEMMA GroupsInductive == ASSUME GroupsAssumption PROVE GroupsSpec => []GroupsIInv
  <1>1. GroupsInit => GroupsIInv
    BY InitGroups
  <1>2. GroupsIInv /\ [GroupsNext]_groupVars => GroupsIInv'
    BY GroupsIInvStep
  <1> QED
    BY <1>1, <1>2, PTL DEF GroupsSpec

\* An audit event is told once and with everything the kernel wrote of it, for any
\* number of events, records and losses, in a tail and in a replay, unless its
\* records came further apart than MaxAge (Feed, Flush, flushAllBut, FlushAll).
THEOREM EventsToldWhole == ASSUME GroupsAssumption PROVE GroupsSpec => []EventWhole
  <1>1. GroupsIInv => EventWhole
    BY DEF GroupsIInv, Tallied, ToldWhole, EventWhole, Kernel, Pending
  <1> QED
    BY <1>1, GroupsInductive, PTL
-----------------------------------------------------------------------------
(***************************************************************************)
(* The record groups: their types.  A group holds records of its own       *)
(* event, and the ages are bounded by MaxAge.                              *)
(***************************************************************************)
\* The groups of a table gs hold records of their events f.
GroupEntries(f, gs) ==
    \A s \in Serial : /\ gs[s].records \subseteq Range(f[s]) \ (Single \cup {"EOE"})
                      /\ gs[s].age \in 0..MaxAge
                      /\ gs[s].older \subseteq Pending(gs) \ {s}

\* What was told of each serial are events.
Events(o) == \A s \in Serial : \A i \in DOMAIN o[s] : Builds(o[s][i])

GroupsBounded ==
    /\ GroupsTyped /\ late \subseteq Serial
    /\ GroupEntries(form, groups) /\ Events(out)
-----------------------------------------------------------------------------
\* Closing groups leaves entries as they should be.
LEMMA WithoutEntries ==
  ASSUME GroupsAssumption, NEW f, NEW gs \in [Serial -> Group], NEW ss \in SUBSET Serial,
         GroupEntries(f, gs)
  PROVE  GroupEntries(f, Without(gs, ss))
  <1>1. Pending(Without(gs, ss)) = Pending(gs) \ ss
    BY WithoutFacts
  <1>2. SUFFICES ASSUME NEW s \in Serial
                 PROVE  /\ Without(gs, ss)[s].records \subseteq Range(f[s]) \ (Single \cup {"EOE"})
                        /\ Without(gs, ss)[s].age \in 0..MaxAge
                        /\ Without(gs, ss)[s].older \subseteq Pending(gs) \ (ss \cup {s})
    BY <1>1 DEF GroupEntries
  <1>3. CASE s \in ss
    <2>1. Without(gs, ss)[s] = NoGroup
      BY <1>3 DEF Without
    <2>2. NoGroup.records = {} /\ NoGroup.age = 0 /\ NoGroup.older = {}
      BY DEF NoGroup
    <2>3. 0 \in 0..MaxAge
      BY DEF GroupsAssumption
    <2> QED
      BY <2>1, <2>2, <2>3
  <1>4. CASE s \notin ss
    <2>1. gs[s] \in Group /\ Without(gs, ss)[s] = [gs[s] EXCEPT !.older = @ \ ss]
      BY <1>4 DEF Without
    <2>2. /\ Without(gs, ss)[s].records = gs[s].records /\ Without(gs, ss)[s].age = gs[s].age
          /\ Without(gs, ss)[s].older = gs[s].older \ ss
      BY <2>1 DEF Group
    <2>3. /\ gs[s].records \subseteq Range(f[s]) \ (Single \cup {"EOE"})
          /\ gs[s].age \in 0..MaxAge /\ gs[s].older \subseteq Pending(gs) \ {s}
      BY DEF GroupEntries
    <2> QED
      BY <2>2, <2>3
  <1> QED
    BY <1>3, <1>4

\* So does a record of an event gathered, where it is the first too.
LEMMA GatheredEntries ==
  ASSUME GroupsAssumption, NEW f, NEW gs \in [Serial -> Group], NEW s \in Serial,
         NEW type \in STRING, type \in Range(f[s]) \ (Single \cup {"EOE"}), GroupEntries(f, gs)
  PROVE  GroupEntries(f, Gathered(gs, s, type))
  <1> DEFINE hs == Gathered(gs, s, type)
             g == IF s \in Pending(gs) THEN gs[s] ELSE [NoGroup EXCEPT !.older = Pending(gs)]
  <1>1. /\ \A r \in Serial \ {s} : hs[r] = gs[r]
        /\ hs[s].records = gs[s].records \cup {type}
        /\ hs[s].older = IF s \in Pending(gs) THEN gs[s].older ELSE Pending(gs)
        /\ Pending(hs) = Pending(gs) \cup {s}
    BY GatheredFacts
  <1>2. hs[s].age \in {gs[s].age, 0}
    <2>1. g.age \in {gs[s].age, 0}
      BY DEF NoGroup
    <2>2. hs[s] = [g EXCEPT !.records = @ \cup {type}]
      BY DEF Gathered
    <2>3. DOMAIN g = {"records", "age", "older"}
      <3>1. gs[s] \in Group
        OBVIOUS
      <3> QED
        BY <3>1 DEF Group, NoGroup
    <2> HIDE DEF g, hs
    <2> QED
      BY <2>1, <2>2, <2>3
  <1>3. 0 \in 0..MaxAge
    BY DEF GroupsAssumption
  <1>4. \A r \in Serial :
          /\ gs[r].records \subseteq Range(f[r]) \ (Single \cup {"EOE"})
          /\ gs[r].age \in 0..MaxAge /\ gs[r].older \subseteq Pending(gs) \ {r}
    BY DEF GroupEntries
  <1> HIDE DEF hs
  <1>5. ASSUME NEW r \in Serial
        PROVE  /\ hs[r].records \subseteq Range(f[r]) \ (Single \cup {"EOE"})
               /\ hs[r].age \in 0..MaxAge /\ hs[r].older \subseteq Pending(hs) \ {r}
    <2>1. CASE r = s
      BY <1>1, <1>2, <1>3, <1>4, <2>1
    <2>2. CASE r # s
      BY <1>1, <1>4, <2>2
    <2> QED
      BY <2>1, <2>2
  <1> QED
    BY <1>5 DEF GroupEntries, hs

\* Only groups that build an event are told.
LEMMA TellEvents ==
  ASSUME out \in [Serial -> Seq(SUBSET STRING)], NEW gs, NEW ss, Tell(gs, ss), Events(out)
  PROVE  Events(out')
  <1>1. SUFFICES ASSUME NEW s \in Serial, NEW i \in DOMAIN out'[s] PROVE Builds(out'[s][i])
    BY DEF Events
  <1>2. out'[s] = IF s \in ss /\ Builds(gs[s].records)
                  THEN Append(out[s], gs[s].records) ELSE out[s]
    BY DEF Tell
  <1>3. out[s] \in Seq(SUBSET STRING) /\ \A k \in DOMAIN out[s] : Builds(out[s][k])
    BY DEF Events
  <1>4. CASE s \in ss /\ Builds(gs[s].records)
    <2> DEFINE r == gs[s].records
    <2>1. out'[s] = Append(out[s], r) /\ Builds(r)
      BY <1>2, <1>4
    <2> HIDE DEF r
    <2>2. /\ DOMAIN Append(out[s], r) = 1..(Len(out[s]) + 1) /\ DOMAIN out[s] = 1..Len(out[s])
          /\ Len(out[s]) \in Nat /\ Append(out[s], r)[Len(out[s]) + 1] = r
          /\ \A k \in 1..Len(out[s]) : Append(out[s], r)[k] = out[s][k]
      BY <1>3
    <2>3. i \in 1..Len(out[s]) \/ i = Len(out[s]) + 1
      BY <1>1, <2>1, <2>2
    <2> QED
      BY <1>3, <2>1, <2>2, <2>3
  <1>5. CASE ~(s \in ss /\ Builds(gs[s].records))
    BY <1>1, <1>2, <1>3, <1>5
  <1> QED
    BY <1>4, <1>5

\* Closing groups keeps both.
LEMMA CloseBounded ==
  ASSUME GroupsAssumption, GroupsTyped, Events(out), form' = form,
         NEW gs \in [Serial -> Group], NEW ss \in SUBSET Serial, Close(gs, ss), GroupEntries(form, gs)
  PROVE  GroupEntries(form, groups)' /\ Events(out)'
  <1>1. Tell(gs, ss) /\ groups' = Without(gs, ss)
    BY DEF Close
  <1>2. Events(out')
    BY <1>1, TellEvents DEF GroupsTyped
  <1>3. GroupEntries(form, groups')
    BY <1>1, WithoutEntries
  <1> QED
    BY <1>2, <1>3 DEF GroupEntries, Events

\* A record read keeps both.
LEMMA FeedBounded ==
  ASSUME GroupsAssumption, GroupsTyped, GroupEntries(form, groups), Events(out), form' = form,
         NEW s \in Serial, NEW type \in STRING, type \in Range(form[s]), FeedRecord(s, type)
  PROVE  GroupEntries(form, groups)' /\ Events(out)'
  <1>1. groups \in [Serial -> Group] /\ out \in [Serial -> Seq(SUBSET STRING)]
    BY DEF GroupsTyped
  <1>2. Stale(s) \in SUBSET Serial /\ Stale(s) \cup {s} \in SUBSET Serial
    BY DEF Stale, Pending
  <1>3. CASE type = "EOE" /\ Close(groups, Stale(s) \cup {s})
    BY <1>1, <1>2, <1>3, CloseBounded
  <1>4. CASE type = "PROCTITLE" /\ Close(Gathered(groups, s, type), Stale(s) \cup {s})
    <2>1. type \notin Single \cup {"EOE"}
      BY <1>4 DEF Single
    <2>2. Gathered(groups, s, type) \in [Serial -> Group]
      BY <1>1, GatheredFacts
    <2>3. GroupEntries(form, Gathered(groups, s, type))
      BY <1>1, <2>1, GatheredEntries
    <2> QED
      BY <1>2, <1>4, <2>2, <2>3, CloseBounded
  <1>5. CASE /\ type \in Single
             /\ Tell([groups EXCEPT ![s].records = {type}], Stale(s) \cup {s})
             /\ groups' = Without(groups, Stale(s))
    <2>1. Events(out')
      BY <1>1, <1>5, TellEvents
    <2>2. GroupEntries(form, groups')
      BY <1>1, <1>2, <1>5, WithoutEntries
    <2> QED
      BY <2>1, <2>2 DEF GroupEntries, Events
  <1>6. CASE /\ type \notin Single \cup {"EOE", "PROCTITLE"}
             /\ Tell(groups, Stale(s))
             /\ groups' = Gathered(Without(groups, Stale(s)), s, type)
    <2> DEFINE rest == Without(groups, Stale(s))
    <2>1. Events(out')
      BY <1>1, <1>6, TellEvents
    <2>2. rest \in [Serial -> Group] /\ GroupEntries(form, rest)
      BY <1>1, <1>2, WithoutFacts, WithoutEntries
    <2> HIDE DEF rest
    <2>3. GroupEntries(form, Gathered(rest, s, type))
      BY <1>6, <2>2, GatheredEntries
    <2>4. groups' = Gathered(rest, s, type)
      BY <1>6 DEF rest
    <2> QED
      BY <2>1, <2>3, <2>4 DEF GroupEntries, Events
  <1> QED
    BY <1>3, <1>4, <1>5, <1>6 DEF FeedRecord

\* The ages of a flush.
LEMMA AgeFacts ==
  ASSUME GroupsAssumption, NEW age \in 0..MaxAge
  PROVE  Min({age + 1, MaxAge}) \in 0..MaxAge
  <1>1. MaxAge \in Nat /\ age \in Nat /\ age <= MaxAge
    BY DEF GroupsAssumption
  <1> DEFINE m == IF age + 1 <= MaxAge THEN age + 1 ELSE MaxAge
             S == {age + 1, MaxAge}
  <1>2. m \in S /\ \A x \in S : m <= x
    BY <1>1
  <1>3. \A x \in S : x \in Nat
    BY <1>1
  <1> HIDE DEF m, S
  <1>4. Min(S) \in S /\ \A x \in S : Min(S) <= x
    BY <1>2 DEF Min
  <1>5. Min(S) = m
    BY <1>2, <1>3, <1>4
  <1> QED
    BY <1>1, <1>5 DEF m, S

\* An older group is as it was but for its age.
LEMMA FlushBounded ==
  ASSUME GroupsAssumption, GroupsBounded, Flush
  PROVE  GroupEntries(form, groups)' /\ Events(out)' /\ late' \subseteq Serial
  <1> DEFINE gs == [s \in Serial |-> IF s \in Pending(groups)
                      THEN [groups[s] EXCEPT !.age = Min({@ + 1, MaxAge})] ELSE NoGroup]
             ss == {s \in Pending(groups) : TooOld(gs[s])}
  <1>1. /\ Close(gs, ss) /\ late' = late \cup {s \in ss : written[s] < Len(form[s])}
        /\ form' = form
    BY DEF Flush
  <1>2. GroupsTyped /\ GroupEntries(form, groups) /\ Events(out) /\ late \subseteq Serial
    BY DEF GroupsBounded
  <1>3. /\ NoGroup \in Group /\ NoGroup.records = {} /\ NoGroup.age = 0 /\ NoGroup.older = {}
        /\ 0 \in 0..MaxAge
    BY DEF NoGroup, Group, GroupsAssumption
  <1>4. ASSUME NEW s \in Serial
        PROVE  /\ gs[s] \in Group /\ gs[s].age \in 0..MaxAge
               /\ gs[s].records = groups[s].records /\ gs[s].older \subseteq groups[s].older
    <2>1. groups[s] \in Group /\ groups[s].age \in 0..MaxAge
      BY <1>2 DEF GroupsTyped, GroupEntries
    <2>2. CASE s \in Pending(groups)
      <3> DEFINE age == Min({groups[s].age + 1, MaxAge})
      <3>1. age \in 0..MaxAge
        BY <2>1, AgeFacts
      <3>2. gs[s] = [groups[s] EXCEPT !.age = age]
        BY <2>2
      <3> HIDE DEF age, gs
      <3>3. age \in Nat
        BY <3>1 DEF GroupsAssumption
      <3> QED
        BY <2>1, <3>1, <3>2, <3>3 DEF Group
    <2>3. CASE s \notin Pending(groups)
      <3>1. gs[s] = NoGroup /\ groups[s].records = {}
        BY <2>3 DEF Pending
      <3> HIDE DEF gs
      <3> QED
        BY <1>3, <3>1
    <2> QED
      BY <2>2, <2>3
  <1>5. gs \in [Serial -> Group] /\ ss \in SUBSET Serial
    BY <1>4 DEF Pending
  <1> HIDE DEF gs, ss
  <1>6. GroupEntries(form, gs)
    <2>1. Pending(gs) = Pending(groups)
      BY <1>4 DEF Pending
    <2> QED
      BY <1>2, <1>4, <2>1 DEF GroupEntries
  <1>7. late' \subseteq Serial
    BY <1>1, <1>2, <1>5
  <1> QED
    BY <1>1, <1>2, <1>5, <1>6, <1>7, CloseBounded

LEMMA InitBounded == ASSUME GroupsAssumption, GroupsInit PROVE GroupsBounded
  <1>1. GroupsTyped
    BY InitGroups DEF GroupsIInv
  <1>2. groups = [s \in Serial |-> NoGroup] /\ out = [s \in Serial |-> <<>>] /\ late = {}
    BY DEF GroupsInit
  <1>3. NoGroup.records = {} /\ NoGroup.age = 0 /\ NoGroup.older = {} /\ 0 \in 0..MaxAge
    BY DEF NoGroup, GroupsAssumption
  <1>4. GroupEntries(form, groups)
    BY <1>2, <1>3 DEF GroupEntries
  <1>5. Events(out)
    BY <1>2 DEF Events
  <1> QED
    BY <1>1, <1>2, <1>4, <1>5 DEF GroupsBounded

\* The groups of the parser are kept within their types.
LEMMA BoundedStep ==
  ASSUME GroupsAssumption, GroupsIInv, GroupsIInv', GroupsBounded, [GroupsNext]_groupVars
  PROVE  GroupsBounded'
  <1>1. GroupsTyped /\ GroupEntries(form, groups) /\ Events(out) /\ late \subseteq Serial
    BY DEF GroupsBounded
  <1>2. GroupsTyped'
    BY DEF GroupsIInv
  <1>3. SUFFICES GroupEntries(form, groups)' /\ Events(out)' /\ late' \subseteq Serial
    BY <1>2 DEF GroupsBounded
  <1>4. groups \in [Serial -> Group]
    BY <1>1 DEF GroupsTyped
  <1>5. ASSUME NEW s \in Serial, Line(s)
        PROVE  GroupEntries(form, groups)' /\ Events(out)' /\ late' = late
    <2> DEFINE type == form[s][written[s] + 1]
    <2>1. /\ FeedRecord(s, type) /\ Due(s) /\ form' = form /\ late' = late
      BY <1>5 DEF Line
    <2>2. written[s] < Len(form[s])
      BY <2>1 DEF Due
    <2>3. /\ Form(form[s]) /\ Len(form[s]) \in Nat /\ written[s] \in 0..Len(form[s])
          /\ type \in STRING
      BY <1>1, <2>2, FormFacts
    <2>4. written[s] + 1 \in DOMAIN form[s]
      BY <2>2, <2>3 DEF Form
    <2>5. type \in Range(form[s])
      BY <2>4 DEF Range
    <2> HIDE DEF type
    <2> QED
      BY <1>1, <2>1, <2>3, <2>5, FeedBounded
  <1>6. ASSUME NEW s \in Serial, Lose(s) PROVE UNCHANGED <<form, groups, out, late>>
    BY <1>6 DEF Lose
  <1>7. CASE Flush
    BY <1>7, FlushBounded
  <1>8. CASE Sweep
    <2> DEFINE ss == {s \in Pending(groups) :
                        Cardinality({r \in Pending(groups) : s \in groups[r].older}) >= KeepOpen}
    <2>1. Close(groups, ss) /\ ss \in SUBSET Serial /\ form' = form /\ late' = late
      BY <1>8 DEF Sweep, Pending
    <2> HIDE DEF ss
    <2> QED
      BY <1>1, <1>4, <2>1, CloseBounded
  <1>9. CASE End
    <2>1. Close(groups, Serial) /\ Serial \in SUBSET Serial /\ form' = form /\ late' = late
      BY <1>9 DEF End
    <2> QED
      BY <1>1, <1>4, <2>1, CloseBounded
  <1>10. CASE UNCHANGED <<form, groups, out, late>>
    BY <1>1, <1>10 DEF GroupEntries, Events, Pending, Builds
  <1>11. UNCHANGED groupVars => UNCHANGED <<form, groups, out, late>>
    BY DEF groupVars
  <1> QED
    BY <1>1, <1>5, <1>6, <1>7, <1>8, <1>9, <1>10, <1>11 DEF GroupsNext, Lines

LEMMA BoundedTypeOK == ASSUME GroupsBounded PROVE GroupsTypeOK
  BY DEF GroupsBounded, GroupEntries, Events, GroupsTypeOK

-----------------------------------------------------------------------------
(***************************************************************************)
(* The scanner: its types, within the bounds.                              *)
(***************************************************************************)
\* The processes are numbered as they start, and no telling is older than the
\* interval of the refresh.
ScanBounded == ScanTyped /\ ScanTypeOK /\ started <= MaxStart

\* A process is told of again before its telling is too old.
LEMMA EmitFacts ==
  ASSUME ScanAssumption, ScanTyped, ScanTypeOK, NEW p \in Pid, Interesting(p)
  PROVE  (IF Emits(p) THEN 0 ELSE Min({seen[p].emit + 1, RefreshEvery})) \in 0..(RefreshEvery - 1)
  <1>1. /\ RefreshEvery \in Nat /\ RefreshEvery - 1 \in Nat
        /\ seen[p] \in [start : 0..MaxStart, emit : 0..(RefreshEvery - 1)]
    BY DEF ScanAssumption, ScanTypeOK
  <1>2. seen[p].emit \in Nat
    BY <1>1
  <1>3. CASE Emits(p)
    BY <1>1, <1>3
  <1>4. CASE ~Emits(p)
    <2> DEFINE a == seen[p].emit + 1
               S == {a, RefreshEvery}
    <2>1. a \in Nat /\ a < RefreshEvery
      BY <1>1, <1>2, <1>4 DEF Emits
    <2> HIDE DEF a
    <2>2. a \in S /\ \A x \in S : x \in Nat /\ a <= x
      BY <1>1, <2>1
    <2> HIDE DEF S
    <2>3. Min(S) \in S /\ \A x \in S : Min(S) <= x
      BY <2>2 DEF Min
    <2>4. Min(S) = a
      BY <2>2, <2>3
    <2>5. Min(S) \in 0..(RefreshEvery - 1)
      BY <1>1, <2>1, <2>4
    <2> QED
      BY <1>4, <2>5 DEF a, S
  <1> QED
    BY <1>3, <1>4

LEMMA ScanInitBounded == ASSUME ScanAssumption, ScanInit PROVE ScanBounded
  <1>1. ScanTyped
    BY ScanInitIInv DEF ScanIInv
  <1>2. /\ proc = [p \in Pid |-> NoProc] /\ seen = [p \in Pid |-> NoSeen]
        /\ view = [p \in Pid |-> NoStart] /\ started = 0 /\ netSeen = {}
    BY DEF ScanInit
  <1>3. 0 \in 0..MaxStart /\ 0 \in 0..(RefreshEvery - 1) /\ 0 <= MaxStart
    BY DEF ScanAssumption
  <1>4. /\ NoProc \in [start : 0..MaxStart, agent : BOOLEAN] /\ NoStart \in 0..MaxStart
        /\ NoSeen \in [start : 0..MaxStart, emit : 0..(RefreshEvery - 1)]
    BY <1>3 DEF NoProc, NoSeen, NoStart
  <1> QED
    BY <1>1, <1>2, <1>3, <1>4 DEF ScanBounded, ScanTypeOK

\* The bounds are kept.
LEMMA ScanBoundedStep ==
  ASSUME ScanAssumption, ScanBounded, [ScanNext]_scanVars
  PROVE  ScanBounded'
  <1>1. ScanTyped /\ ScanTypeOK /\ started <= MaxStart /\ started \in Nat /\ MaxStart \in Nat
    BY DEF ScanBounded, ScanTyped, ScanAssumption
  <1>2. ScanTyped'
    BY <1>1, ScanTypedStep
  <1>3. SUFFICES ScanTypeOK' /\ started' <= MaxStart
    BY <1>2 DEF ScanBounded
  <1> DEFINE Proc == [start : 0..MaxStart, agent : BOOLEAN]
             Seen == [start : 0..MaxStart, emit : 0..(RefreshEvery - 1)]
  <1>4. /\ proc \in [Pid -> Proc] /\ seen \in [Pid -> Seen] /\ view \in [Pid -> 0..MaxStart]
        /\ netSeen \subseteq Socket
    BY <1>1 DEF ScanTypeOK
  <1>5. NoStart \in 0..MaxStart /\ NoProc \in Proc /\ NoSeen \in Seen
    BY DEF NoStart, NoProc, NoSeen, ScanAssumption
  <1>6. ASSUME NEW p \in Pid, Fork(p) PROVE ScanTypeOK' /\ started' <= MaxStart
    <2>1. PICK a \in BOOLEAN : proc' = [proc EXCEPT ![p] = [start |-> started + 1, agent |-> a]]
      BY <1>6 DEF Fork
    <2>2. /\ started < MaxStart /\ started' = started + 1 /\ UNCHANGED <<seen, view, netSeen>>
      BY <1>6 DEF Fork, net
    <2>3. started + 1 \in 0..MaxStart /\ started' <= MaxStart
      BY <1>1, <2>2
    <2>4. [start |-> started + 1, agent |-> a] \in Proc
      BY <2>3
    <2> HIDE DEF Proc, Seen
    <2>5. proc' \in [Pid -> Proc]
      BY <1>4, <2>1, <2>4
    <2> QED
      BY <1>4, <2>2, <2>3, <2>5 DEF ScanTypeOK, Proc, Seen
  <1>7. ASSUME NEW p \in Pid, ExecInto(p) PROVE ScanTypeOK' /\ started' <= MaxStart
    <2>1. PICK r : r = [proc[p] EXCEPT !.agent = ~@]
      OBVIOUS
    <2>2. r \in Proc
      BY <1>4, <2>1
    <2>3. proc' = [proc EXCEPT ![p] = r] /\ UNCHANGED <<started, seen, view, netSeen>>
      BY <1>7, <2>1 DEF ExecInto, net
    <2> HIDE DEF Proc, Seen
    <2>4. proc' \in [Pid -> Proc]
      BY <1>4, <2>2, <2>3
    <2> QED
      BY <1>1, <1>4, <2>3, <2>4 DEF ScanTypeOK, Proc, Seen
  <1>8. ASSUME NEW p \in Pid, Exit(p) PROVE ScanTypeOK' /\ started' <= MaxStart
    <2>1. proc' = [proc EXCEPT ![p] = NoProc] /\ UNCHANGED <<started, seen, view, netSeen>>
      BY <1>8 DEF Exit, net
    <2> HIDE DEF Proc, Seen
    <2>2. proc' \in [Pid -> Proc]
      BY <1>4, <1>5, <2>1
    <2> QED
      BY <1>1, <1>4, <2>1, <2>2 DEF ScanTypeOK, Proc, Seen
  <1>9. CASE Scan
    <2>1. UNCHANGED <<proc, started, netSeen>>
      BY <1>9 DEF Scan, net
    <2>2. ASSUME NEW p \in Pid PROVE proc[p].start \in 0..MaxStart
      BY <1>4
    <2>3. ASSUME NEW p \in Pid
          PROVE  (IF ~Interesting(p) THEN NoSeen
                  ELSE [start |-> proc[p].start,
                        emit |-> IF Emits(p) THEN 0
                                 ELSE Min({seen[p].emit + 1, RefreshEvery})]) \in Seen
      <3>1. CASE Interesting(p)
        <4> DEFINE e == IF Emits(p) THEN 0 ELSE Min({seen[p].emit + 1, RefreshEvery})
        <4>1. e \in 0..(RefreshEvery - 1)
          BY <1>1, <3>1, EmitFacts
        <4> HIDE DEF e
        <4>2. [start |-> proc[p].start, emit |-> e] \in Seen
          BY <2>2, <4>1
        <4> QED
          BY <3>1, <4>2 DEF e
      <3>2. CASE ~Interesting(p)
        BY <1>5, <3>2
      <3> QED
        BY <3>1, <3>2
    <2> HIDE DEF Proc, Seen
    <2>4. seen' \in [Pid -> Seen]
      BY <1>9, <2>3 DEF Scan
    <2>5. view' \in [Pid -> 0..MaxStart]
      BY <1>4, <1>5, <1>9, <2>2 DEF Scan
    <2> QED
      BY <1>1, <1>4, <2>1, <2>4, <2>5 DEF ScanTypeOK, Proc, Seen
  <1>10. CASE ScanNet
    BY <1>1, <1>2, <1>10 DEF ScanNet, procs, ScanTypeOK, ScanTyped
  <1>11. ASSUME NEW s \in Socket, Connect(s) \/ Disconnect(s)
         PROVE  UNCHANGED <<proc, started, seen, view, netSeen>>
    BY <1>11 DEF Connect, Disconnect, procs
  <1>12. ScanFails \/ UNCHANGED scanVars => UNCHANGED <<proc, started, seen, view, netSeen>>
    BY DEF ScanFails, procs, net, scanVars
  <1>13. CASE UNCHANGED <<proc, started, seen, view, netSeen>>
    BY <1>1, <1>13 DEF ScanTypeOK
  <1> QED
    BY <1>6, <1>7, <1>8, <1>9, <1>10, <1>11, <1>12, <1>13 DEF ScanNext

-----------------------------------------------------------------------------
(***************************************************************************)
(* The four readers next to each other.                                    *)
(***************************************************************************)
ReadersIInv ==
    /\ Typed
    /\ GroupsIInv /\ GroupsBounded
    /\ ScanBounded
    /\ JournalTyped

LEMMA ReadersInit == ASSUME ReadersAssumption, MCInit PROVE ReadersIInv
  <1>1. /\ GroupsAssumption /\ ScanAssumption /\ JournalAssumption
        /\ Init /\ GroupsInit /\ ScanInit /\ JournalInit
    BY DEF ReadersAssumption, MCInit
  <1>2. Typed
    BY <1>1, InitTyped
  <1>3. GroupsIInv /\ GroupsBounded
    BY <1>1, InitGroups, InitBounded
  <1>4. ScanBounded
    BY <1>1, ScanInitBounded
  <1>5. JournalTyped
    BY <1>1, JournalInitIInv DEF JournalIInv
  <1> QED
    BY <1>2, <1>3, <1>4, <1>5 DEF ReadersIInv

\* A step of one reader leaves the others alone.
LEMMA ReadersOneAtATime ==
  ASSUME [MCNext]_allVars
  PROVE  [Next]_vars /\ [GroupsNext]_groupVars /\ [ScanNext]_scanVars /\ [JournalNext]_journalVars
  <1>1. CASE TailStep
    BY <1>1 DEF TailStep
  <1>2. CASE GroupsStep
    BY <1>2 DEF GroupsStep
  <1>3. CASE ScanStep
    BY <1>3 DEF ScanStep
  <1>4. CASE JournalStep
    BY <1>4 DEF JournalStep
  <1>5. CASE UNCHANGED allVars
    BY <1>5 DEF allVars
  <1> QED
    BY <1>1, <1>2, <1>3, <1>4, <1>5 DEF MCNext

LEMMA ReadersStep ==
  ASSUME ReadersAssumption, ReadersIInv, [MCNext]_allVars
  PROVE  ReadersIInv'
  <1>1. GroupsAssumption /\ ScanAssumption /\ JournalAssumption
    BY DEF ReadersAssumption
  <1>2. Typed /\ GroupsIInv /\ GroupsBounded /\ ScanBounded /\ JournalTyped
    BY DEF ReadersIInv
  <1>3. [Next]_vars /\ [GroupsNext]_groupVars /\ [ScanNext]_scanVars /\ [JournalNext]_journalVars
    BY ReadersOneAtATime
  <1>4. Typed'
    BY <1>2, <1>3, TypedStep
  <1>5. GroupsIInv'
    BY <1>1, <1>2, <1>3, GroupsIInvStep
  <1>6. GroupsBounded'
    BY <1>1, <1>2, <1>3, <1>5, BoundedStep
  <1>7. ScanBounded'
    BY <1>1, <1>2, <1>3, ScanBoundedStep
  <1>8. JournalTyped'
    BY <1>1, <1>2, <1>3, JournalTypedStep
  <1> QED
    BY <1>4, <1>5, <1>6, <1>7, <1>8 DEF ReadersIInv

LEMMA ReadersIInvTypes == ASSUME ReadersAssumption, ReadersIInv PROVE ReadersTypeOK
  <1>1. TypeOK /\ GroupsTypeOK
    BY TypedTypeOK, BoundedTypeOK DEF ReadersIInv
  <1>2. ScanTypeOK /\ JournalTyped
    BY DEF ReadersIInv, ScanBounded
  <1>3. JournalTypeOK
    BY <1>2 DEF JournalTyped, JournalTypeOK, ReadersAssumption, JournalAssumption
  <1> QED
    BY <1>1, <1>2, <1>3 DEF ReadersTypeOK

\* The four readers keep their state within its types, for all values of the
\* constants: a group holds records of its own event and counts as older only groups
\* that are open, and what is told of a serial is always an event (Feed, Flush, build); no
\* telling of a process is older than RefreshEvery (Scan); the journal source is
\* never ahead of its child nor the child of the journal (runOnce); the tail is as
\* TailStateTyped says.
THEOREM ReadersTyped == MCSpec => []ReadersTypeOK
  <1>1. MCInit => ReadersIInv
    BY ReadersAssumption, ReadersInit
  <1>2. ReadersIInv /\ [MCNext]_allVars => ReadersIInv'
    BY ReadersAssumption, ReadersStep
  <1>3. ReadersIInv => ReadersTypeOK
    BY ReadersAssumption, ReadersIInvTypes
  <1> QED
    BY <1>1, <1>2, <1>3, PTL DEF MCSpec
=============================================================================
