------------------------------- MODULE MCReaders -------------------------------
(***************************************************************************)
(* The readers of the daemon.  They run next to each other and share no    *)
(* state, so each behaviour follows one of them.                           *)
(***************************************************************************)
EXTENDS AuditTail, RecordGroups, ProcScan, JournalSource

CONSTANTS p1, p2, s1

VARIABLE reader  \* tail, groups, scan or journal

ASSUME ReadersAssumption == GroupsAssumption /\ ScanAssumption /\ JournalAssumption

allVars == <<reader, vars, groupVars, scanVars, journalVars>>

MCForms == {<<"SYSCALL", "EXECVE", "PROCTITLE", "EOE">>, <<"SYSCALL", "EXECVE", "EOE">>,
            <<"USER_LOGIN">>}

MCInit ==
    /\ reader \in {"tail", "groups", "scan", "journal"}
    /\ Init /\ GroupsInit /\ ScanInit /\ JournalInit
    \* One initial state each for those that do not run.
    /\ reader # "groups" => mode = "tail" /\ boot = 1 /\ \A s \in 1..Serials : form[s] = <<"USER_LOGIN">>
    /\ reader # "journal" => journal = 0 /\ cursor = 0 /\ ~oldctl

TailStep    == reader = "tail"    /\ Next        /\ UNCHANGED <<reader, groupVars, scanVars, journalVars>>
GroupsStep  == reader = "groups"  /\ GroupsNext  /\ UNCHANGED <<reader, vars, scanVars, journalVars>>
ScanStep    == reader = "scan"    /\ ScanNext    /\ UNCHANGED <<reader, vars, groupVars, journalVars>>
JournalStep == reader = "journal" /\ JournalNext /\ UNCHANGED <<reader, vars, groupVars, scanVars>>

MCNext == TailStep \/ GroupsStep \/ ScanStep \/ JournalStep

MCFairness ==
    /\ Fairness
    /\ WF_groupVars(reader = "groups" /\ (Lines \/ End)) /\ WF_groupVars(Flush)
    /\ WF_scanVars(Scan)

MCSpec == MCInit /\ [][MCNext]_allVars /\ MCFairness

-----------------------------------------------------------------------------
(* The types of the four readers. *)
ReadersTypeOK == TypeOK /\ GroupsTypeOK /\ ScanTypeOK /\ JournalTypeOK
=============================================================================
