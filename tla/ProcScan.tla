------------------------------- MODULE ProcScan -------------------------------
(***************************************************************************)
(* internal/readers/procfs: Scan compares /proc with what it saw before    *)
(* and tells of the processes that matter, and of those that are gone;     *)
(* view is what the correlator makes of it by pid (procSeen, procGone).    *)
(* Time is counted in scans.  ScanNet does so for the connections to the   *)
(* hosts of the rules, each told once.                                     *)
(***************************************************************************)
EXTENDS Naturals, FiniteSetsExt

CONSTANTS
    Pid, Socket,
    MaxStart,      \* bound of the processes started
    MaxFailures,   \* bound of the listings that fail
    RefreshEvery   \* Scanner.RefreshEvery, in scans

ScanAssumption ==
    {MaxStart, MaxFailures} \subseteq Nat /\ RefreshEvery \in Nat \ {0}

VARIABLES
    proc,       \* per pid: [start, agent], the process that runs, NoProc without one
    started,    \* the number of processes started
    seen,       \* the map of Scan: per pid [start, emit], emit in scans ago
    view,       \* per pid: the start of the process the correlator knows
    reused,     \* history: pids told of with the end of their earlier process
    failures,
    sock,       \* per socket: open to a host of the rules, or to another
    netSeen,    \* the map of ScanNet
    told        \* history: per socket, how often its connection was told

scanVars == <<proc, started, seen, view, reused, failures, sock, netSeen, told>>
procs == <<proc, started, seen, view, reused>>
net == <<sock, netSeen, told>>

NoStart == 0
NoProc == [start |-> NoStart, agent |-> FALSE]
NoSeen == [start |-> NoStart, emit |-> 0]

ScanInit ==
    /\ proc = [p \in Pid |-> NoProc] /\ started = 0
    /\ seen = [p \in Pid |-> NoSeen]
    /\ view = [p \in Pid |-> NoStart]
    /\ reused = {} /\ failures = 0
    /\ sock = [s \in Socket |-> "closed"] /\ netSeen = {} /\ told = [s \in Socket |-> 0]

-----------------------------------------------------------------------------
(***************************************************************************)
(* The processes of the host.                                              *)
(***************************************************************************)
Fork(p) ==
    /\ proc[p] = NoProc /\ started < MaxStart
    /\ started' = started + 1
    /\ \E a \in BOOLEAN : proc' = [proc EXCEPT ![p] = [start |-> started', agent |-> a]]
    /\ UNCHANGED <<seen, view, reused, failures, net>>

ExecInto(p) ==
    /\ proc[p] # NoProc
    /\ proc' = [proc EXCEPT ![p].agent = ~@]
    /\ UNCHANGED <<started, seen, view, reused, failures, net>>

Exit(p) ==
    /\ proc[p] # NoProc
    /\ proc' = [proc EXCEPT ![p] = NoProc]
    /\ UNCHANGED <<started, seen, view, reused, failures, net>>

-----------------------------------------------------------------------------
Interesting(p) == proc[p].agent
Had(p) == seen[p].start # NoStart
Reused(p) == Had(p) /\ Interesting(p) /\ seen[p].start # proc[p].start
\* Mutant: a process is told of once.
EmitsFirst(p) == Interesting(p) /\ ~Had(p)

\* proc.seen: a process that is new to the scan, and again every RefreshEvery.
Emits(p) ==
    Interesting(p) /\ (~Had(p) \/ Reused(p) \/ seen[p].emit + 1 >= RefreshEvery)

\* proc.gone: what was seen and is not there any more, or is another process.
\* Mutant: a process that turned into another program is kept.
GoneExited(p) == Had(p) /\ (Reused(p) \/ proc[p] = NoProc)

Gone(p) == Had(p) /\ (Reused(p) \/ ~Interesting(p))

\* The events that are told come before those of what is gone; the
\* correlator knows processes by pid.
Scan ==
    /\ seen' = [p \in Pid |->
                   IF ~Interesting(p) THEN NoSeen
                   ELSE [start |-> proc[p].start,
                         emit |-> IF Emits(p) THEN 0 ELSE Min({seen[p].emit + 1, RefreshEvery})]]
    /\ view' = [p \in Pid |-> IF Gone(p) THEN NoStart
                              ELSE IF Emits(p) THEN proc[p].start ELSE view[p]]
    /\ reused' = {p \in Pid : Reused(p) \/ (p \in reused /\ Interesting(p) /\ ~Emits(p))}
    /\ UNCHANGED <<proc, started, failures, net>>

\* The listing of /proc fails: nothing is known of this scan.
ScanFails ==
    /\ failures < MaxFailures /\ failures' = failures + 1
    /\ UNCHANGED <<procs, net>>

-----------------------------------------------------------------------------
Connect(s) ==
    /\ sock[s] = "closed" /\ told[s] = 0
    /\ \E to \in {"api", "other"} : sock' = [sock EXCEPT ![s] = to]
    /\ UNCHANGED <<procs, failures, netSeen, told>>

Disconnect(s) ==
    /\ sock[s] # "closed" /\ sock' = [sock EXCEPT ![s] = "closed"]
    /\ UNCHANGED <<procs, failures, netSeen, told>>

ScanNet ==
    LET matching == {s \in Socket : sock[s] = "api"}
    IN  /\ netSeen' = matching
        /\ told' = [s \in Socket |-> IF s \in matching \ netSeen THEN told[s] + 1 ELSE told[s]]
        /\ UNCHANGED <<procs, failures, sock>>

ScanNext ==
    \/ \E p \in Pid : Fork(p) \/ ExecInto(p) \/ Exit(p)
    \/ \E s \in Socket : Connect(s) \/ Disconnect(s)
    \/ Scan \/ ScanFails \/ ScanNet

\* The tickers of Run fire again and again.
ScanSpec == ScanInit /\ [][ScanNext]_scanVars /\ WF_scanVars(Scan)

-----------------------------------------------------------------------------
ScanTypeOK ==
    /\ proc \in [Pid -> [start : 0..MaxStart, agent : BOOLEAN]]
    /\ seen \in [Pid -> [start : 0..MaxStart, emit : 0..(RefreshEvery - 1)]]
    /\ view \in [Pid -> 0..MaxStart]
    /\ netSeen \subseteq Socket

(***************************************************************************)
(* The correlator knows what the scan saw and nothing else, through forks, *)
(* execs, exits, pids that are used again and listings that fail; only the *)
(* process that took over a pid is taken for gone with the one before it,  *)
(* until it is told of again.                                              *)
(***************************************************************************)
ScanView ==
    /\ \A p \in Pid :
          IF p \in reused THEN view[p] = NoStart ELSE view[p] = seen[p].start
    /\ \A s \in Socket : told[s] <= 1

(***************************************************************************)
(* A process that keeps matching is known in the end, on a pid that was    *)
(* used before too.                                                        *)
(***************************************************************************)
ProcKnown == []<>(\A p \in Pid : proc[p].agent => view[p] = proc[p].start)
=============================================================================
