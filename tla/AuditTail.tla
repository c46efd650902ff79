------------------------------- MODULE AuditTail -------------------------------
(***************************************************************************)
(* internal/readers/auditd, FileTail: follows audit.log over rotation,     *)
(* truncation and read errors, and resumes after a restart at the saved    *)
(* offset and inode.  auditd writes lines, possibly in two pieces; a line  *)
(* is two units of an offset.  Lines are numbered in the order written.    *)
(***************************************************************************)
EXTENDS Naturals, FiniteSets, FiniteSetsExt

CONSTANTS
    MaxLines,     \* bound of the lines written
    MaxFiles,     \* bound of the files auditd creates
    MaxErrors,    \* bound of the read errors
    MaxRuns       \* bound of the starts of the reader

ASSUME TailAssumption == {MaxLines, MaxFiles, MaxErrors, MaxRuns} \subseteq Nat /\ MaxFiles > 0

VARIABLES
    file,     \* per inode: [first, size], its first line and its size
    log, old, \* the inodes of audit.log and audit.log.1, 0 when there is none
    lines,    \* the number of the line written last or half written
    tail,     \* FileTail.Run: [pc, h, pos, half, off, ino, stat, prev]
    saved,    \* the position in the state file
    next,     \* history: the line the parser is due next
    skipped,  \* history: lines passed over
    excused,  \* history: lines out of reach, or that Run leaves out as it starts at the end
    joined,   \* history: the line in which the reader started, 0 when between lines
    flaw,     \* history: a line was fed twice, or cut
    raced,    \* history: a rotation fell between the stat and the open of a poll
    errors, runs

world == <<file, log, old, lines>>
history == <<next, skipped, excused, joined, flaw, raced>>
vars == <<file, log, old, lines, tail, saved, next, skipped, excused, joined, flaw, raced,
          errors, runs>>

None == 0
Inode == 1..MaxFiles
NoFile == [first |-> 0, size |-> 0]
NoStat == [ino |-> None, rotated |-> FALSE]
NoPrev == [h |-> None, pos |-> 0, half |-> FALSE, off |-> 0, ino |-> None]
Down == [pc |-> "down", h |-> None, pos |-> 0, half |-> FALSE, off |-> 0, ino |-> None,
         stat |-> NoStat, prev |-> NoPrev]

Init ==
    /\ file = [i \in Inode |-> IF i = 1 THEN [first |-> 1, size |-> 0] ELSE NoFile]
    /\ log = 1 /\ old = None /\ lines = 0
    /\ tail = Down
    /\ saved = [off |-> 0, ino |-> None]
    /\ next = 1 /\ skipped = {} /\ excused = {} /\ joined = 0 /\ flaw = FALSE /\ raced = FALSE
    /\ errors = 0 /\ runs = 0

-----------------------------------------------------------------------------
(***************************************************************************)
(* auditd.                                                                 *)
(***************************************************************************)
Odd(n) == n % 2 = 1
MidLine(i) == Odd(file[i].size)

Write ==
    /\ log # None
    /\ \E n \in {1, 2} :
          /\ ~MidLine(log) => lines < MaxLines
          /\ n = 2 => ~MidLine(log)
          /\ file' = [file EXCEPT ![log].size = @ + n]
          /\ lines' = IF MidLine(log) THEN lines ELSE lines + 1
    /\ UNCHANGED <<log, old, tail, saved, history, errors, runs>>

Unread(i, off) == {l \in 1..lines : l >= file[i].first + off \div 2 /\ l < file[i].first + file[i].size \div 2}
Up == tail.pc # "down"
Held == tail.h # None

\* audit.log moves on before the reader came to it.
OutOfReach == IF Up /\ tail.ino # log THEN Unread(log, 0) ELSE {}

Rename ==
    /\ log # None /\ ~MidLine(log) /\ \E i \in Inode : file[i] = NoFile
    /\ old' = log /\ log' = None
    /\ excused' = excused \cup OutOfReach
    /\ UNCHANGED <<file, lines, tail, saved, next, skipped, joined, flaw, raced, errors, runs>>

Create ==
    /\ log = None
    /\ LET i == CHOOSE i \in Inode : file[i] = NoFile /\ \A j \in Inode : file[j] = NoFile => i <= j
       IN  log' = i /\ file' = [file EXCEPT ![i] = [first |-> lines + 1, size |-> 0]]
    /\ UNCHANGED <<old, lines, tail, saved, history, errors, runs>>

-----------------------------------------------------------------------------
(***************************************************************************)
(* What the parser is fed: the complete lines of file i from one offset to *)
(* another, the first of them cut when its first half is not at hand.      *)
(***************************************************************************)
Complete(i, from, to) == (file[i].first + from \div 2)..(file[i].first + to \div 2 - 1)

Feed(S, cut) ==
    IF S = {} THEN UNCHANGED history
    ELSE /\ next' = Max(S \cup {next - 1}) + 1
         /\ skipped' = skipped \cup next..(Min(S) - 1)
         /\ flaw' = (flaw \/ (cut /\ Min(S) # joined) \/ Min(S) < next)
         /\ UNCHANGED <<excused, joined, raced>>

\* drainWith: the offset stands after the last complete line.
\* Mutant: the offset counts the partial line.
DrainedPartial(t, to) == [t EXCEPT !.pos = to, !.off = to, !.half = Odd(to)]

Drained(t, to) ==
    IF to = t.pos THEN t ELSE [t EXCEPT !.pos = to, !.off = to - (to % 2), !.half = Odd(to)]

\* Mutant: the partial line is kept.
ResetKeepsPartial(t, start, ino) == [t EXCEPT !.pos = start, !.off = start, !.ino = ino]

Reset(t, start, ino) == [t EXCEPT !.pos = start, !.off = start, !.ino = ino, !.half = FALSE]

\* Run: where to start in the file that is there now.
Resumes == saved.off > 0 /\ saved.ino = log /\ saved.off <= file[log].size
\* Mutant: the inode is not looked at.
MissedBySize == saved.off > 0 /\ saved.off > file[log].size

Missed == saved.off > 0 /\ saved.ino # None /\ saved.ino # log

\* drainRotated: audit.log.1, when it is the file of the position.
Rotated(ino, off) ==
    IF old # None /\ old = ino /\ file[old].size >= off
    THEN Complete(old, off, file[old].size) ELSE {}

\* Without a position the reader starts at the end: what is there is not its
\* business.  So it does after an offset of 0, saved just after a rotation.
\* A file that is neither audit.log nor audit.log.1 is out of reach.
Run ==
    /\ tail.pc = "down" /\ runs < MaxRuns /\ log # None
    /\ runs' = runs + 1
    /\ LET end == file[log].size
           start == IF Resumes THEN saved.off ELSE IF Missed THEN 0 ELSE end
       IN  tail' = Reset([Down EXCEPT !.pc = "drain", !.h = log], start, log)
    /\ IF saved.off = 0
       THEN /\ joined' = IF MidLine(log) THEN lines ELSE 0
            /\ next' = IF MidLine(log) THEN lines ELSE lines + 1
            /\ skipped' = skipped \cup next..(next' - 1)
            /\ excused' = excused \cup next..(next' - 1)
            /\ UNCHANGED <<flaw, raced>>
       ELSE IF saved.ino \notin {log, old}
       THEN /\ excused' = excused \cup next..(file[log].first - 1)
            /\ UNCHANGED <<next, skipped, joined, flaw, raced>>
       ELSE IF Missed THEN Feed(Rotated(saved.ino, saved.off), Odd(saved.off))
       ELSE UNCHANGED history
    /\ UNCHANGED <<world, saved, errors>>

\* The read may fail halfway; the file is then opened again.
Drain ==
    /\ tail.pc = "drain"
    /\ IF ~Held THEN tail' = [tail EXCEPT !.pc = "poll"] /\ UNCHANGED <<history, errors>>
       ELSE \E to \in {tail.pos} \cup tail.pos..file[tail.h].size :
               /\ Feed(Complete(tail.h, tail.pos, to), Odd(tail.pos) /\ ~tail.half)
               /\ \/ to >= file[tail.h].size
                     /\ tail' = [Drained(tail, to) EXCEPT !.pc = "poll"] /\ UNCHANGED errors
                  \/ errors < MaxErrors /\ errors' = errors + 1
                     /\ tail' = [Drained(tail, to) EXCEPT !.pc = "poll", !.h = None]
    /\ UNCHANGED <<world, saved, runs>>

\* reopenIfNeeded: stat, open and seek.
\* Mutant: only a file that shrank is noticed.
IsRotatedBySize(t) == file[log].size < t.off

IsRotated(t) == log # t.ino \/ file[log].size < t.off

Stat ==
    /\ tail.pc = "poll"
    /\ tail' = IF log = None \/ (Held /\ ~IsRotated(tail)) THEN [tail EXCEPT !.pc = "drain"]
               ELSE [tail EXCEPT !.pc = "open", !.stat = [ino |-> log, rotated |-> IsRotated(tail)]]
    /\ UNCHANGED <<world, saved, history, errors, runs>>

\* A rotation since the stat: the reader takes the new file for the other.
Open ==
    /\ tail.pc = "open"
    /\ IF log = None THEN tail' = [tail EXCEPT !.pc = "drain", !.stat = NoStat] /\ UNCHANGED raced
       ELSE LET start == IF tail.stat.rotated THEN 0 ELSE tail.off
                t == Reset([tail EXCEPT !.h = log, !.stat = NoStat], start, tail.stat.ino)
            IN  /\ tail' = IF tail.stat.rotated
                           THEN [t EXCEPT !.pc = "finish",
                                          !.prev = [k \in DOMAIN NoPrev |-> tail[k]]]
                           ELSE [t EXCEPT !.pc = "drain"]
                /\ raced' = (raced \/ log # tail.stat.ino)
    /\ UNCHANGED <<world, saved, next, skipped, excused, joined, flaw, errors, runs>>

\* Run finishes the file it was in, held open or moved to audit.log.1; one
\* that was not held and moved further is out of reach.
Finish ==
    /\ tail.pc = "finish"
    /\ LET p == tail.prev
       IN  IF p.h # None THEN Feed(Complete(p.h, p.pos, file[p.h].size), Odd(p.pos) /\ ~p.half)
           ELSE IF p.ino = old THEN Feed(Rotated(p.ino, p.off), Odd(p.off))
           ELSE /\ excused' = excused \cup Unread(p.ino, p.off)
                /\ UNCHANGED <<next, skipped, joined, flaw, raced>>
    /\ tail' = [tail EXCEPT !.pc = "drain", !.prev = NoPrev]
    /\ UNCHANGED <<world, saved, errors, runs>>

-----------------------------------------------------------------------------
Position == [off |-> tail.off, ino |-> tail.ino]

Save ==
    /\ Up /\ saved # Position /\ saved' = Position
    /\ UNCHANGED <<world, tail, history, errors, runs>>

Crash ==
    /\ Up /\ runs < MaxRuns
    /\ tail' = Down
    /\ next' = IF saved.ino = None THEN next
               ELSE Min({next, file[saved.ino].first + saved.off \div 2})
    /\ UNCHANGED <<world, saved, skipped, excused, joined, flaw, raced, errors, runs>>

Auditd == Write \/ Rename \/ Create
Poll == Drain \/ Stat \/ Open \/ Finish
Next == Auditd \/ Run \/ Poll \/ Save \/ Crash

(***************************************************************************)
(* auditd opens the next file, and the ticker of the poll fires again and  *)
(* again.                                                                  *)
(***************************************************************************)
Fairness == WF_vars(Create) /\ WF_vars(Poll)
Spec == Init /\ [][Next]_vars /\ Fairness

-----------------------------------------------------------------------------
TypeOK ==
    /\ file \in [Inode -> [first : 0..(MaxLines + 1), size : 0..(2 * MaxLines)]]
    /\ {log, old} \subseteq Inode \cup {None} /\ lines \in 0..MaxLines
    /\ tail.pc \in {"down", "drain", "poll", "open", "finish"}
    /\ tail.off <= tail.pos /\ tail.half => Odd(tail.pos)
    /\ next \in 1..(MaxLines + 1)

(***************************************************************************)
(* No line is passed over, whatever a rotation, a failed read or a restart *)
(* does between two polls, except lines in a file that was rotated away    *)
(* before any poll could see it, and those before the end of the file at   *)
(* which Run starts when the saved offset is 0.                            *)
(***************************************************************************)
NothingSkipped == ~raced => skipped \subseteq excused

(***************************************************************************)
(* No line is fed twice in a run of the daemon, and none is cut in two.    *)
(***************************************************************************)
LinesWhole == ~raced => ~flaw

(***************************************************************************)
(* Every complete line is fed in the end while the reader runs, in         *)
(* whichever file it is.                                                   *)
(***************************************************************************)
Whole(l) == \E i \in Inode : file[i] # NoFile /\ l \in Complete(i, 0, file[i].size)
LineFed ==
    []<>((\A l \in 1..lines : Whole(l) => next > l \/ l \in excused) \/ ~Up \/ raced)
=============================================================================
