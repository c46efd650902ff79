------------------------------- MODULE MCHost --------------------------------
(***************************************************************************)
(* A host under `whotyped check', and the verdicts of its daemon, on small *)
(* instances. `part' says which of the two a behaviour exercises; they     *)
(* share no state.                                                         *)
(***************************************************************************)
EXTENDS HostCheck, Allowlist

VARIABLE part

vars == <<part, hostVars, policyVars>>

\* sshd_config: with the Include first, last, under a Match, or without one;
\* with a level before or after it, and with a Match that ends or does not.
MCMains ==
    {<<Include>>, <<LogLevel(INFO)>>, <<Include, LogLevel(INFO)>>,
     <<LogLevel(INFO), Include, PermitUserEnv>>,
     <<Match(FALSE), AcceptEnv(FALSE, TRUE), Match(TRUE), Include>>,
     <<AcceptEnv(TRUE, TRUE), Match(FALSE), LogLevel(VERBOSE), Include>>}

MCAdmins ==
    {<<>>, <<AcceptEnv(FALSE, FALSE), Match(FALSE), LogLevel(INFO)>>,
     <<LogLevel(DEBUG1)>>}

MCAdminRules == {{Rule("b32", TRUE)}, {Rule("b64", FALSE), Rule("native", TRUE)}}

Ready == [version |-> TRUE, config |-> "ok", pack |-> "ok", stateDir |-> "ok",
          auditd |-> TRUE, procfs |-> TRUE, netconn |-> TRUE, environ |-> TRUE,
          proc |-> TRUE, unit |-> TRUE, auditLog |-> TRUE,
          source |-> "auto", journalctl |-> TRUE, journald |-> TRUE,
          file |-> "unset", usual |-> "absent"]

\* A ready host, hosts that lack something, and the ways to read sshd's log.
MCHosts ==
    {Ready, [Ready EXCEPT !.unit = FALSE, !.version = FALSE],
     [Ready EXCEPT !.auditd = FALSE, !.proc = FALSE],
     [Ready EXCEPT !.procfs = FALSE, !.pack = "loose"],
     [Ready EXCEPT !.auditLog = FALSE, !.netconn = FALSE, !.stateDir = "missing"]}
    \cup
    {[Ready EXCEPT !.journalctl = FALSE, !.journald = FALSE,
                   !.source = log[1], !.file = log[2], !.usual = log[3]] :
        log \in {<<"file", "silent", "lines">>, <<"auto", "unset", "lines">>,
                 <<"journald", "lines", "absent">>,
                 <<"file", "absent", "lines">>}}

Profile(id, users, suppress, maxScore) ==
    [id |-> id, users |-> users, clauses |-> FALSE, required |-> FALSE,
     banner |-> FALSE, minRatio |-> 0, suppress |-> suppress,
     maxScore |-> maxScore, allow |-> FALSE, disabled |-> FALSE]

Playbook == [Profile("playbook", {}, {"rhythm", "style", "pty.none", "banner.library"}, 20)
             EXCEPT !.clauses = TRUE, !.required = TRUE, !.minRatio = 60]
Library  == [Profile("library", {}, {"banner"}, 0) EXCEPT !.clauses = TRUE, !.banner = TRUE]
Desk     == Profile("desk", {"dev"}, {"proc", "rhythm"}, 30)

MCEmbedded == <<Playbook, Library>>

MCFiles ==
    {<<[Playbook EXCEPT !.users = {"ops"}]>>,
     <<[Playbook EXCEPT !.disabled = TRUE], Desk>>,
     <<Desk, [Desk EXCEPT !.suppress = {"flags", "process"}, !.allow = TRUE]>>,
     <<[Desk EXCEPT !.suppress = {"flags"}]>>,
     <<[Desk EXCEPT !.disabled = TRUE, !.maxScore = 0]>>}

MCEnabledSets == {{"playbook"}, {"playbook", "library", "desk"}, {"desk", "other"}}

Ran(tool, other, channels) == [tool |-> tool, other |-> other, channels |-> channels]
MCCommands == {Ran(0, 0, 1), Ran(0, 2, 2), Ran(2, 1, 3), Ran(2, 0, 4)}

MCInit ==
    \/ /\ part = "host" /\ HostInit
       /\ files = <<>> /\ enabled = {} /\ pack = NoPack
       /\ track = NoTrack /\ verdict = NoVerdict
    \/ /\ part = "policy" /\ PolicyInit
       /\ host = Ready /\ main = <<>> /\ admin = <<>> /\ own = <<>> /\ sshrc = "none"
       /\ rules = [admin |-> {}, own |-> {}] /\ sshd = [level |-> INFO, agent |-> FALSE]
       /\ loaded = {} /\ fixing = "idle" /\ fixcode = ExitOK /\ fixed = FALSE /\ edits = 0

MCNext ==
    \/ part = "host" /\ HostNext /\ UNCHANGED <<part, policyVars>>
    \/ part = "policy" /\ PolicyNext /\ UNCHANGED <<part, hostVars>>

MCSpec == MCInit /\ [][MCNext]_vars

=============================================================================
