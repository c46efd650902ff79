----------------------------- MODULE JournalSource -----------------------------
(***************************************************************************)
(* internal/readers/sshlog, JournalSource: a journalctl child prints the   *)
(* entries of the journal into a pipe; the source reads, parses and sends  *)
(* them, and starts the child again when it exits.  The cursor file says   *)
(* where the next child begins: the child writes it when it exits, unless  *)
(* it is too old for that, and the source writes the last cursor it read   *)
(* every few seconds and when the child is gone.  A cursor is the number   *)
(* of an entry, 0 stands for none.                                         *)
(***************************************************************************)
EXTENDS Naturals, FiniteSetsExt

CONSTANTS
    Entries,      \* bound of the entries of the journal
    Other,        \* entries that are no event: the parser does not know them
    PipeSize,     \* entries the pipe holds
    Backlog,      \* entries journalctl -f prints of what is there, without a cursor
    MaxDeaths,    \* bound of the children that die
    MaxUnsaved    \* bound of the cursor writes that fail

JournalAssumption ==
    /\ {Entries, PipeSize, Backlog, MaxDeaths, MaxUnsaved} \subseteq Nat
    /\ Other \subseteq 1..Entries

VARIABLES
    journal,      \* the number of entries
    oldctl,       \* journalctl does not know --cursor-file
    after,        \* useAfterCursor
    child,        \* [up, pos]: the last entry printed
    pc,           \* runOnce: spawn, read, send, wait, stopped
    read,         \* the last entry read
    last,         \* lastCursor
    flushed,      \* the cursor the source wrote last
    cursor,       \* the cursor file
    ctx,          \* the context is done
    deaths, unsaved,
    due,          \* history: the entry that is due
    wrong         \* history: an entry was sent twice, or passed over

journalVars == <<journal, oldctl, after, child, pc, read, last, flushed, cursor, ctx, deaths,
                 unsaved, due, wrong>>

JournalInit ==
    /\ journal \in 0..Entries /\ oldctl \in BOOLEAN /\ after = FALSE
    /\ child = [up |-> FALSE, pos |-> 0] /\ pc = "spawn"
    /\ read = 0 /\ last = 0 /\ flushed = 0
    /\ cursor \in 0..journal
    /\ ctx = FALSE /\ deaths = 0 /\ unsaved = 0
    /\ due = cursor + 1 /\ wrong = FALSE

-----------------------------------------------------------------------------
(***************************************************************************)
(* The journal and journalctl.                                             *)
(***************************************************************************)
Log ==
    /\ journal < Entries /\ journal' = journal + 1
    /\ UNCHANGED <<oldctl, after, child, pc, read, last, flushed, cursor, ctx, deaths,
                   unsaved, due, wrong>>

Prints ==
    /\ child.up /\ child.pos < journal /\ child.pos - read < PipeSize
    /\ child' = [child EXCEPT !.pos = @ + 1]
    /\ UNCHANGED <<journal, oldctl, after, pc, read, last, flushed, cursor, ctx, deaths,
                   unsaved, due, wrong>>

\* It ends by itself, or for the signal; killed, it leaves the file as it is.
Exits ==
    /\ child.up /\ (ctx \/ deaths < MaxDeaths)
    /\ deaths' = IF ctx THEN deaths ELSE deaths + 1
    /\ child' = [child EXCEPT !.up = FALSE]
    /\ cursor' \in {cursor} \cup IF after \/ child.pos = 0 THEN {} ELSE {child.pos}
    /\ UNCHANGED <<journal, oldctl, after, pc, read, last, flushed, ctx, unsaved, due, wrong>>

-----------------------------------------------------------------------------
(***************************************************************************)
(* runOnce.                                                                *)
(***************************************************************************)
Begins == IF cursor # 0 THEN cursor ELSE Max({0, journal - Backlog})

\* Without a cursor nobody knows where the one before was.
Spawn ==
    /\ pc = "spawn" /\ ~ctx
    /\ IF oldctl /\ ~after
       THEN after' = TRUE /\ UNCHANGED <<child, pc, read, last, flushed, due>>
       ELSE /\ child' = [up |-> TRUE, pos |-> Begins]
            /\ pc' = "read" /\ read' = Begins
            /\ last' = 0 /\ flushed' = 0
            /\ due' = IF cursor = 0 THEN Begins + 1 ELSE due
            /\ UNCHANGED after
    /\ UNCHANGED <<journal, oldctl, cursor, ctx, deaths, unsaved, wrong>>

\* The cursor is remembered before the event is sent.
Read ==
    /\ pc = "read" /\ read < child.pos
    /\ read' = read + 1 /\ last' = read'
    /\ IF read' \in Other
       THEN UNCHANGED pc /\ wrong' = (wrong \/ due # read') /\ due' = read' + 1
       ELSE pc' = "send" /\ UNCHANGED <<due, wrong>>
    /\ UNCHANGED <<journal, oldctl, after, child, flushed, cursor, ctx, deaths, unsaved>>

Send ==
    /\ pc = "send"
    /\ \/ /\ pc' = "read" /\ wrong' = (wrong \/ due # read) /\ due' = read + 1
       \/ /\ ctx /\ pc' = "wait" /\ UNCHANGED <<due, wrong>>
    /\ UNCHANGED <<journal, oldctl, after, child, read, last, flushed, cursor, ctx, deaths,
                   unsaved>>

EOF ==
    /\ pc = "read" /\ read = child.pos /\ ~child.up
    /\ pc' = "wait"
    /\ UNCHANGED <<journal, oldctl, after, child, read, last, flushed, cursor, ctx, deaths,
                   unsaved, due, wrong>>

\* flush: a cursor that is not written yet; the write may fail.
FlushCursor ==
    IF last = 0 \/ last = flushed THEN UNCHANGED <<cursor, flushed, unsaved>>
    ELSE \/ cursor' = last /\ flushed' = last /\ UNCHANGED unsaved
         \/ unsaved < MaxUnsaved /\ unsaved' = unsaved + 1 /\ UNCHANGED <<cursor, flushed>>

Ticker ==
    /\ pc \in {"read", "send"} /\ last # 0 /\ last # flushed
    /\ FlushCursor
    /\ UNCHANGED <<journal, oldctl, after, child, pc, read, last, ctx, deaths, due, wrong>>

\* Mutant: no flush once the child is gone.
WaitNoFlush ==
    /\ pc = "wait" /\ ~child.up
    /\ pc' = IF ctx THEN "stopped" ELSE "spawn"
    /\ UNCHANGED <<journal, oldctl, after, child, read, last, flushed, cursor, ctx, deaths,
                   unsaved, due, wrong>>

\* The child is gone: flush, and start another one after the backoff.
Wait ==
    /\ pc = "wait" /\ ~child.up
    /\ FlushCursor
    /\ pc' = IF ctx THEN "stopped" ELSE "spawn"
    /\ UNCHANGED <<journal, oldctl, after, child, read, last, ctx, deaths, due, wrong>>

Cancelled ==
    /\ pc = "spawn" /\ ctx /\ pc' = "stopped"
    /\ UNCHANGED <<journal, oldctl, after, child, read, last, flushed, cursor, ctx, deaths,
                   unsaved, due, wrong>>

Cancel ==
    /\ ~ctx /\ pc # "stopped" /\ ctx' = TRUE
    /\ UNCHANGED <<journal, oldctl, after, child, pc, read, last, flushed, cursor, deaths,
                   unsaved, due, wrong>>

JournalNext ==
    \/ Log \/ Prints \/ Exits
    \/ Spawn \/ Read \/ Send \/ EOF \/ Ticker \/ Wait \/ Cancelled
    \/ Cancel

JournalSpec == JournalInit /\ [][JournalNext]_journalVars

-----------------------------------------------------------------------------
JournalTypeOK ==
    /\ {journal, read, last, flushed, cursor} \subseteq 0..Entries
    /\ read <= child.pos /\ child.pos <= journal
    /\ last \in {0, read}
    /\ pc \in {"spawn", "read", "send", "wait", "stopped"}

(***************************************************************************)
(* Whoever wrote the cursor file last, and however the child died, the     *)
(* next child begins where the source was: no entry is sent twice and none *)
(* is passed over while the daemon runs, unless the file cannot be written *)
(* or there was none.                                                      *)
(***************************************************************************)
JournalExact == unsaved = 0 => ~wrong
=============================================================================
