---------------------------- MODULE MCAlertPolicy ----------------------------
(***************************************************************************)
(* A recurring window with two occurrences and the default level, and a    *)
(* longer one-off one at info, which spares declared agents and begins     *)
(* where the second occurrence ends.                                       *)
(***************************************************************************)
EXTENDS AlertPolicy

FreezeWindows == <<
    [name |-> "weekly", starts |-> {1, 3}, length |-> 1, level |-> None, declared |-> TRUE],
    [name |-> "hotfix", starts |-> {4}, length |-> 2, level |-> Info, declared |-> FALSE]>>

\* The windows of the run meet the condition of the proofs.
ASSUME SteadyWindows == Steady
=============================================================================
