------------------------------ MODULE HostCheck ------------------------------
(***************************************************************************)
(* `whotyped check' and `whotyped check --fix' (internal/check): the files *)
(* of a host, what sshd and the kernel have loaded of them, the fix that   *)
(* installs the project's own files one after the other, and the report    *)
(* that says which families of clues can fire.                             *)
(*                                                                         *)
(* The administrator edits files, reloads sshd and loads the audit rules   *)
(* at moments of his own, so the report, which reads files, and the host,  *)
(* which runs what it last loaded, can differ.                             *)
(***************************************************************************)
EXTENDS Integers, Sequences, FiniteSets, SequencesExt

CONSTANTS
    Mains,       \* contents of sshd_config, sequences of Lines
    Admins,      \* contents of the administrator's own drop-in
    AdminRules,  \* audit rules files of the administrator, sets of rules
    Hosts,       \* the rest of the host: readers, log sources, units, policy
    MaxEdits     \* how often the administrator edits a file

VARIABLES
    host,    \* member of Hosts, fixed
    main,    \* /etc/ssh/sshd_config
    admin,   \* a drop-in that sorts before the project's
    own,     \* sshd_config.d/90-whotyped.conf, <<>> when absent
    sshrc,   \* "none" | "hook" | "foreign"
    rules,   \* [admin, own]: the files of /etc/audit/rules.d
    sshd,    \* the settings the running sshd read last
    loaded,  \* the audit rules the kernel runs, and audit.rules
    fixing,  \* the file `check --fix' installs next, "idle" outside a fix
    fixcode, \* exit code of the fix so far
    fixed,   \* a fix ended and no file was edited since
    edits

fileVars == <<main, admin, own, sshrc, rules>>
hostVars == <<host, main, admin, own, sshrc, rules, sshd, loaded,
              fixing, fixcode, fixed, edits>>

-----------------------------------------------------------------------------
(* Log levels by rank, and the lines of sshd_config that matter here.      *)

INFO    == 3
VERBOSE == 4
DEBUG1  == 5

Include        == [kw |-> "include"]      \* of sshd_config.d/*.conf
Match(all)     == [kw |-> "match", all |-> all]
LogLevel(rank) == [kw |-> "loglevel", rank |-> rank]
AcceptEnv(neg, ai) == [kw |-> "acceptenv", neg |-> neg, ai |-> ai]
PermitUserEnv  == [kw |-> "permituserenvironment"]
Lines ==
    {Include, PermitUserEnv} \cup [kw : {"match"}, all : BOOLEAN]
        \cup [kw : {"loglevel"}, rank : 0..7]
        \cup [kw : {"acceptenv"}, neg : BOOLEAN, ai : BOOLEAN]

ASSUME HostAssumption ==
    /\ Mains \subseteq Seq(Lines) /\ Admins \subseteq Seq(Lines)
    /\ \A h \in Hosts : h.file \in {"unset", "absent", "silent", "lines"}

\* What `check --fix' writes.
SSHDDropIn == <<AcceptEnv(FALSE, TRUE), LogLevel(VERBOSE)>>
Rule(arch, records) == [arch |-> arch, records |-> records]
OwnRules   == {Rule("b64", TRUE), Rule("b32", TRUE)}

ExitOK        == 0
ExitDegraded  == 1
ExitCannotRun == 2

-----------------------------------------------------------------------------
(* The parser of sshd_config.                                              *)

Unset == -1
NoSettings == [level |-> Unset, accept |-> <<>>, permit |-> FALSE,
               includes |-> 0, inMatch |-> FALSE]

AtLeast(s, rank) == (IF s.level = Unset THEN INFO ELSE s.level) >= rank

\* A negated pattern that matches ends the search with "no".
AcceptsAIAgent(s) ==
    /\ \E i \in DOMAIN s.accept : s.accept[i].ai /\ ~s.accept[i].neg
    /\ ~\E i \in DOMAIN s.accept : s.accept[i].ai /\ s.accept[i].neg

\* Mutant: the last value of a keyword wins.
SetLast(p, line) ==
    CASE line.kw = "loglevel"  -> [p EXCEPT !.level = line.rank]
      [] line.kw = "acceptenv" -> [p EXCEPT !.accept = Append(@, line)]
      [] OTHER                 -> [p EXCEPT !.permit = TRUE]

\* The first value of a keyword wins, AcceptEnv accumulates.
Set(p, line) ==
    CASE line.kw = "loglevel"  -> [p EXCEPT !.level = IF @ = Unset THEN line.rank
                                                                   ELSE @]
      [] line.kw = "acceptenv" -> [p EXCEPT !.accept = Append(@, line)]
      [] OTHER                 -> [p EXCEPT !.permit = TRUE]

\* One line, and one file, with an Include counted and not expanded.
ParseLine(p, line) ==
    CASE line.kw = "include" -> [p EXCEPT !.includes = @ + 1]
      [] line.kw = "match" -> [p EXCEPT !.inMatch = ~line.all]
      [] OTHER -> IF p.inMatch THEN p ELSE Set(p, line)
ParseLines(lines, start) ==
    LET after[i \in 0..Len(lines)] ==
            IF i = 0 THEN start ELSE ParseLine(after[i - 1], lines[i])
    IN  after[Len(lines)]

\* Mutant: a Match block of an included file goes on after it.
ExpandLeaky(p) == ParseLines(own, ParseLines(admin, p))

\* The drop-ins in the order of their names. A Match block of an included
\* file ends with that file.
ExpandFile(file, p) == [ParseLines(file, p) EXCEPT !.inMatch = p.inMatch]
Expand(p) == ExpandFile(own, ExpandFile(admin, p))

\* An Include is expanded where it stands, unless it is under a Match.
ParseMainLine(p, line) ==
    IF line.kw = "include" /\ ~p.inMatch THEN Expand(ParseLine(p, line)) ELSE ParseLine(p, line)
ParseSSHDConfigFS ==
    LET after[i \in 0..Len(main)] ==
            IF i = 0 THEN NoSettings ELSE ParseMainLine(after[i - 1], main[i])
    IN  after[Len(main)]

\* Without a file system no Include is.
ParseSSHDConfig == ParseLines(main, NoSettings)

-----------------------------------------------------------------------------
(* What sshd does with the same files: the settings outside every Match    *)
(* block, in the order of the text, with each Include replaced by the      *)
(* drop-ins.                                                               *)

UnderMatch(lines, i) ==
    \E j \in 1..i - 1 : /\ lines[j].kw = "match" /\ ~lines[j].all
                       /\ \A k \in j + 1..i - 1 : lines[k].kw # "match"

\* The lines of a file outside every Match block, an Include replaced.
Global(lines, included) ==
    LET Line(i) == IF lines[i].kw = "match" \/ UnderMatch(lines, i) THEN <<>>
                   ELSE IF lines[i] = Include THEN included ELSE <<lines[i]>>
        text[i \in 0..Len(lines)] == IF i = 0 THEN <<>> ELSE text[i - 1] \o Line(i)
    IN  text[Len(lines)]

\* The rank of the first log level of a text.
FirstLevel(text, default) ==
    LET at == {i \in DOMAIN text : text[i].kw = "loglevel"}
    IN  IF at = {} THEN default ELSE text[Min(at)].rank

SshdReads ==
    LET text == Global(main, Global(admin, <<>>) \o Global(own, <<>>))
    IN  [level |-> FirstLevel(text, INFO),
         agent |-> \E l \in Range(text) : l.kw = "acceptenv" /\ l.ai /\ ~l.neg]

-----------------------------------------------------------------------------
(* `whotyped check'. A viewer is [root, probe, config]: whether it runs as *)
(* root, with --probe, and whether it may read sshd_config. A result is a  *)
(* status; only "fail" and a "warn" that is not optional ("warn*") count.  *)

Families == {"banner", "rhythm", "pty", "style", "process", "flags",
             "network", "identity"}

\* sshd: what the files say, or `sshd -T' for root with --probe. The log of
\* auditd is 0600 root.
Facts(v) ==
    LET parsed == ParseSSHDConfigFS
        asked  == [parsed EXCEPT
                      !.level  = SshdReads.level,
                      !.accept = IF SshdReads.agent THEN <<AcceptEnv(FALSE, TRUE)>>
                                                    ELSE <<>>]
        s      == IF v.probe /\ v.root THEN asked ELSE parsed
        known  == v.config \/ (v.probe /\ v.root)
    IN  [viewer   |-> v,
         known    |-> known,
         verbose  |-> known /\ AtLeast(s, VERBOSE),
         debug1   |-> known /\ AtLeast(s, DEBUG1),
         accepts  |-> known /\ AcceptsAIAgent(s),
         permit   |-> s.permit,
         includes |-> s.includes,
         auditLog |-> v.root /\ host.auditLog]

CheckSSHD(f) ==
    {IF host.version THEN "pass" ELSE "warn",
     IF f.viewer.config THEN "pass" ELSE "warn",
     IF f.viewer.probe /\ ~f.viewer.root THEN "warn" ELSE "pass"}
    \cup (IF ~f.known THEN {}
          ELSE {IF f.debug1 THEN "pass" ELSE IF f.verbose THEN "warn*" ELSE "warn",
                IF f.accepts THEN "pass" ELSE "warn",
                IF sshrc = "hook" THEN "pass" ELSE "warn",
                IF f.permit THEN "warn" ELSE "pass",
                IF f.includes = 0 THEN "warn" ELSE "pass"})

\* The log of sshd: the configured file if it can be read, else the usual
\* one; its end is searched for lines of sshd when the file is what is used.
LogFile ==
    IF host.file \in {"silent", "lines"} THEN host.file
    ELSE IF host.usual \in {"silent", "lines"} THEN host.usual ELSE "absent"
UsesFile == ~host.journalctl \/ host.source = "file"

CheckSSHLogSource ==
    {IF LogFile = "silent" /\ UsesFile THEN "warn" ELSE "pass",
     CASE host.source = "journald" /\ ~host.journalctl -> "fail"
       [] host.source = "file" /\ LogFile = "absent"   -> "fail"
       [] ~host.journalctl /\ LogFile = "absent"       -> "fail"
       [] OTHER -> "pass"}

\* auditd: an always,exit rule on execve for each ABI in the files, the
\* unit and the log.
FileRules == {r \in rules.admin \cup rules.own \cup loaded : r.records}
Has64 == \E r \in FileRules : r.arch # "b32"
Has32 == \E r \in FileRules : r.arch = "b32"

CheckAuditd(f) ==
    IF ~host.auditd THEN {}
    ELSE {IF Has64 /\ Has32 THEN "pass" ELSE "warn",
          IF host.unit THEN "pass" ELSE "warn",
          IF f.auditLog THEN "pass" ELSE "warn"}

CheckProcfs(f) ==
    IF ~host.procfs THEN {}
    ELSE IF ~host.proc THEN {"fail"}
    ELSE {IF f.viewer.root /\ host.environ THEN "pass" ELSE "warn"}

\* The daemon's configuration, its pack of rules and its state directory.
CheckConfig == {IF host.config = "ok" THEN "pass" ELSE "fail"}
CheckRules ==
    {CASE host.pack = "ok" -> "pass" [] host.pack = "loose" -> "warn" [] OTHER -> "fail"}
CheckStateDir ==
    {CASE host.stateDir = "ok" -> "pass" [] host.stateDir = "missing" -> "warn"
       [] OTHER -> "fail"}

\* The families the report calls live.
Coverage(f) ==
    LET auditLive == host.auditd /\ Has64 /\ host.unit /\ f.auditLog
        procLive  == host.procfs /\ host.proc
    IN  {family \in Families :
            CASE family = "banner"              -> f.debug1
              [] family \in {"rhythm", "pty"}   -> f.verbose
              [] family = "style"               -> auditLive
              [] family = "flags"               -> auditLive \/ procLive
              [] family = "process"             -> procLive
              [] family = "network"             -> host.netconn /\ procLive
              [] family = "identity"            -> f.accepts /\ sshrc = "hook"}

CheckCoverage(coverage) ==
    {IF f \in coverage THEN "pass" ELSE IF f = "banner" THEN "warn*" ELSE "warn"
        : f \in Families}

ExitCode(results) ==
    IF "fail" \in results THEN ExitCannotRun
    ELSE IF "warn" \in results THEN ExitDegraded ELSE ExitOK

Run(v) ==
    LET f        == Facts(v)
        coverage == Coverage(f)
        results  == CheckConfig \cup CheckRules \cup CheckSSHD(f) \cup CheckSSHLogSource
                      \cup CheckAuditd(f) \cup CheckProcfs(f) \cup CheckStateDir
                      \cup CheckCoverage(coverage)
    IN  [coverage |-> coverage, exit |-> ExitCode(results)]

-----------------------------------------------------------------------------
(* The steps. *)

HostInit ==
    /\ host \in Hosts
    /\ main \in Mains
    /\ admin \in Admins
    /\ own = <<>>
    /\ sshrc \in {"none", "foreign"}
    /\ rules \in [admin : AdminRules, own : {{}}]
    /\ sshd = SshdReads
    /\ loaded = rules.admin
    /\ fixing = "idle"
    /\ fixcode = ExitOK
    /\ fixed = FALSE
    /\ edits = 0

\* The administrator writes a file. The project's drop-in and audit rules are
\* his to edit as well; here he may empty them.
Edit ==
    /\ edits < MaxEdits
    /\ edits' = edits + 1
    /\ fixed' = FALSE
    /\ \/ main' \in Mains /\ UNCHANGED <<admin, own, sshrc, rules>>
       \/ admin' \in Admins /\ UNCHANGED <<main, own, sshrc, rules>>
       \/ own' \in {<<>>, <<LogLevel(DEBUG1)>>} /\ UNCHANGED <<main, admin, sshrc, rules>>
       \/ sshrc' \in {"none", "foreign"} /\ UNCHANGED <<main, admin, own, rules>>
       \/ /\ rules' \in [admin : AdminRules, own : {rules.own, {}}]
          /\ UNCHANGED <<main, admin, own, sshrc>>
    /\ UNCHANGED <<host, sshd, loaded, fixing, fixcode>>

\* systemctl reload ssh, and augenrules --load.
ReloadSSHD ==
    /\ sshd # SshdReads
    /\ sshd' = SshdReads
    /\ UNCHANGED <<host, fileVars, loaded, fixing, fixcode, fixed, edits>>
LoadRules ==
    /\ loaded # rules.admin \cup rules.own
    /\ loaded' = rules.admin \cup rules.own
    /\ UNCHANGED <<host, fileVars, sshd, fixing, fixcode, fixed, edits>>

Worse(code) == IF code > fixcode THEN code ELSE fixcode

\* check --fix, file by file; a file that cannot be written (~written) is
\* skipped and makes the code "cannot run". The drop-in goes first; the fix
\* then warns when the main file has no Include of the directory.
FixDropIn(written) ==
    /\ fixing = "idle"
    /\ own' = IF written THEN SSHDDropIn ELSE own
    /\ fixcode' = IF ~written THEN ExitCannotRun
                  ELSE IF ParseSSHDConfig.includes = 0 THEN ExitDegraded ELSE ExitOK
    /\ fixing' = "sshrc"
    /\ fixed' = TRUE
    /\ UNCHANGED <<host, main, admin, sshrc, rules, sshd, loaded, edits>>

\* The declaration hook, unless the host has an sshrc of its own.
FixSSHRC(written) ==
    /\ fixing = "sshrc"
    /\ sshrc' = IF written /\ sshrc = "none" THEN "hook" ELSE sshrc
    /\ fixcode' = IF sshrc = "foreign" THEN Worse(ExitDegraded)
                  ELSE IF sshrc = "none" /\ ~written THEN ExitCannotRun ELSE fixcode
    /\ fixing' = "audit"
    /\ UNCHANGED <<host, main, admin, own, rules, sshd, loaded, fixed, edits>>

FixAudit(written) ==
    /\ fixing = "audit"
    /\ rules' = [rules EXCEPT !.own = IF written THEN OwnRules ELSE @]
    /\ fixcode' = IF written THEN fixcode ELSE ExitCannotRun
    /\ fixing' = "idle"
    /\ UNCHANGED <<host, main, admin, own, sshrc, sshd, loaded, fixed, edits>>

\* The fix is interrupted between two files: those written stay.
FixStops ==
    /\ fixing # "idle"
    /\ fixing' = "idle"
    /\ fixcode' = ExitCannotRun
    /\ fixed' = FALSE
    /\ UNCHANGED <<host, fileVars, sshd, loaded, edits>>

HostNext ==
    \/ Edit \/ ReloadSSHD \/ LoadRules \/ FixStops
    \/ \E written \in BOOLEAN :
          FixDropIn(written) \/ FixSSHRC(written) \/ FixAudit(written)

HostSpec == HostInit /\ [][HostNext]_hostVars

-----------------------------------------------------------------------------
(* What is promised.                                                       *)

Viewers == [root : {TRUE}, probe : BOOLEAN, config : {TRUE}]
             \cup [root : {FALSE}, probe : BOOLEAN, config : BOOLEAN]

\* The administrator has loaded what he and the fix wrote.
Settled == sshd = SshdReads /\ loaded = rules.admin \cup rules.own

\* What the daemon's reader of the sshd log follows, and whether sshd's lines
\* are there.
Journal == IF host.journalctl /\ host.journald THEN "lines" ELSE "absent"
File    == IF host.file = "unset" THEN host.usual ELSE host.file
Logged ==
    CASE host.source = "journald" -> Journal = "lines"
      [] host.source = "file"     -> File = "lines"
      [] OTHER -> "lines" \in {Journal, IF Journal = "lines" THEN "" ELSE File}

\* check probes `journalctl --version' where the daemon also wants a running
\* journald, and takes the usual file where the configured one is missing.
SourceAgrees == host.journalctl = host.journald /\ host.file # "absent"

\* A clue of the family can reach the daemon, which runs as root.
Recorded == host.auditd /\ host.unit /\ host.auditLog
              /\ \E r \in loaded : r.records /\ r.arch # "b32"
Scanned  == host.procfs /\ host.proc
Fires(f) ==
    CASE f = "banner"            -> Logged /\ sshd.level >= DEBUG1
      [] f \in {"rhythm", "pty"} -> Logged /\ sshd.level >= VERBOSE
      [] f = "style"             -> Recorded
      [] f = "flags"             -> Recorded \/ Scanned
      [] f = "process"           -> Scanned
      [] f = "network"           -> Scanned /\ host.netconn
      [] f = "identity"          -> sshd.agent /\ sshrc = "hook"

Required == Families \ {"banner"}

\* On a host that runs what its files say, a report never calls a family live
\* that cannot fire, whoever runs it, as long as its own results on the sshd
\* log are clean; and exit code 0 means that every family but the optional
\* banner fires (check.go coverage, exitCode; sshd.go parse).
CheckHonest ==
    Settled /\ SourceAgrees =>
        \A v \in Viewers :
            LET report == Run(v)
            IN  /\ CheckSSHLogSource = {"pass"} => \A f \in report.coverage : Fires(f)
                /\ report.exit = ExitOK => \A f \in Required : Fires(f)

\* Nothing but the files of the fix stands between the host and full coverage.
HostReady ==
    /\ host.version /\ host.config = "ok" /\ host.pack = "ok" /\ host.stateDir = "ok"
    /\ host.auditd /\ host.procfs /\ host.netconn /\ host.environ
    /\ host.proc /\ host.unit /\ host.auditLog
    /\ SourceAgrees /\ Logged
    /\ host.source = "journald" => host.journalctl

\* Text of the administrator that the drop-in cannot override: it says so
\* (fixfiles.go), or is under a Match, where the fix takes it for an Include.
Overridden ==
    LET lines == Range(Global(main, <<Include>>)) \cup Range(Global(admin, <<>>))
    IN  \/ \E l \in lines : l.kw \in {"loglevel", "permituserenvironment"}
        \/ \E l \in lines : l.kw = "acceptenv" /\ l.neg /\ l.ai
        \/ Include \notin lines /\ Include \in Range(main)

\* A fix that ends with exit code 0 is enough: once sshd and the audit rules
\* are reloaded, and if nobody edits meanwhile, check finds every required
\* family live and exits 0, however often the fix was interrupted before
\* (check_linux.go fixPlatform).
FixConverges ==
    /\ Settled /\ fixed /\ fixing = "idle" /\ fixcode = ExitOK
    /\ HostReady /\ ~Overridden
    => \A v \in Viewers :
          v.root => Required \subseteq Run(v).coverage /\ Run(v).exit = ExitOK

=============================================================================
