------------------------------ MODULE MCPipeline ------------------------------
(* Logs with plain and strong events of two tracks, one of which absorbs the other. *)
EXTENDS Pipeline

CONSTANTS t1, t2

Ev(t, strong, from) == [track |-> t, strong |-> strong, absorbs |-> from]
MCLogs == {
    <<Ev(t1, FALSE, NoTrack), Ev(t1, FALSE, NoTrack), Ev(t2, FALSE, t1)>>,
    <<Ev(t1, FALSE, NoTrack), Ev(t1, TRUE, NoTrack)>>,
    <<Ev(NoTrack, FALSE, NoTrack), Ev(t1, FALSE, NoTrack)>> }
MCReplays == MCLogs \cup {
    <<Ev(t1, FALSE, NoTrack), Ev(t1, FALSE, NoTrack), Ev(t2, FALSE, NoTrack)>> }
=============================================================================
