------------------------------ MODULE Correlator ------------------------------
(***************************************************************************)
(* internal/session: the correlator, which joins the events of three       *)
(* readers (sshd's log, auditd, /proc) into tracks.                        *)
(*                                                                         *)
(* One action per event kind Apply dispatches on, one for Expire (the      *)
(* maintenance tick) and one for a restart (Snapshot, then Restore).  The  *)
(* readers are independent, lines get lost and pids are reused, so any     *)
(* event may come at any time; its timestamp may lag the clock by MaxLag.  *)
(* Which readers run, and what sshd's LogLevel makes it write, decides the  *)
(* kinds of event that occur at all (Kinds).                               *)
(***************************************************************************)
EXTENDS Tracks

CONSTANTS
    Kinds,       \* kinds of event the readers deliver (event.Kind)
    LinePid,     \* pids sshd lines carry; 0 is a line without one
    ProcPid,     \* pids of the other processes events are about
    Shown,       \* fingerprints Accepted lines carry; "" when they show none
    Claims,      \* AI_AGENT of processes, as clean.AIAgent returns it
    Scopes,      \* scopes of disconnect lines that occur
    MaxLag,      \* how far a timestamp may lag the clock, in ticks
    MaxTime      \* bound of the clock

ASSUME InputsAssumption ==
    /\ LinePid \subseteq Pid \cup {0} /\ ProcPid \subseteq Pid
    /\ Shown \subseteq FP \cup {""} /\ Claims \subseteq Claim
    /\ Scopes \subseteq {"connection", "channel", "pam"}
    /\ MaxLag \in Nat /\ MaxTime \in Nat \ {0}

VARIABLES
    c,           \* the Correlator
    now          \* the clock, in ticks

vars == <<c, now>>

Init == c = Empty /\ now = 1

Stamp == {t \in 1..now : now - t <= MaxLag}

-----------------------------------------------------------------------------
(***************************************************************************)
(* ssh.*                                                                   *)
(***************************************************************************)
\* The connection an event is about: the one found, or a new id for the one
\* the handler creates when the event identifies a connection at all.
Target(s, e) ==
    IF FindConn(s, e) # NoRef THEN {FindConn(s, e)}
    ELSE IF e.pid = 0 /\ (e.user = "" \/ e.port = 0) THEN {}
    ELSE Fresh(s)

\* Mutant: a connection that is on a track already is left there.
AcceptOnce(s, r, e, fp, ts) ==
    LET old == IF FindConn(s, e) # NoRef THEN s.conns[r] ELSE NewConn(e, ts)
        cn == [FillConn(old, e) EXCEPT !.fp = IF fp # "" THEN fp ELSE @]
        key == [user |-> cn.user, fp |-> IF cn.fp = "" THEN "-" ELSE cn.fp, ip |-> cn.ip]
        s1 == Index([s EXCEPT !.conns[r] = cn], r)
    IN  IF cn.track # NoKey THEN s1 ELSE MoveConn(TrackFor(s1, key, ts), r, key)

\* authOK.
Accept(s, r, e, fp, ts) ==
    LET old == IF FindConn(s, e) # NoRef THEN s.conns[r] ELSE NewConn(e, ts)
        filled == FillConn(old, e)
        cn == [filled EXCEPT !.fp = IF fp # "" THEN fp ELSE @]
        key == [user |-> cn.user, fp |-> IF cn.fp = "" THEN "-" ELSE cn.fp, ip |-> cn.ip]
        s1 == Index([s EXCEPT !.conns[r] = cn], r)
    IN  IF cn.track = key THEN s1 ELSE MoveConn(TrackFor(s1, key, ts), r, key)

AuthOK ==
    \E pid \in LinePid, u \in User, ip \in IP, port \in Port, fp \in Shown, ts \in Stamp :
        LET e == Peer(pid, u, ip, port) IN
        \E r \in Target(c, e) :
            LET s == Accept(c, r, e, fp, ts) IN
            /\ c' = Finish(s, s.conns[r].track, ts)
            /\ UNCHANGED now

\* Mutant: a line that names another user renames the connection it is found by.
EnsureConnFills(s, r, e, ts) ==
    LET found == FindConn(s, e) # NoRef
        key == [user |-> e.user, fp |-> "-", ip |-> e.ip]
        s1 == Index([s EXCEPT !.conns[r] = IF found THEN FillConn(@, e)
                                           ELSE NewConn(e, ts)], r)
    IN  IF e.user = "" \/ s1.conns[r].track # NoKey THEN s1
        ELSE MoveConn(TrackFor(s1, key, ts), r, key)

\* ensureConn, for the connection r of Target.
EnsureConn(s, r, e, ts) ==
    LET found == FindConn(s, e) # NoRef
        key == [user |-> e.user, fp |-> "-", ip |-> e.ip]
        s1 == Index([s EXCEPT !.conns[r] = IF found THEN FillConn(@, e)
                                           ELSE NewConn(e, ts)], r)
    IN  IF found /\ ~(s.conns[r].user = "" /\ e.user # "") THEN s
        ELSE IF e.user = "" THEN s1
        ELSE MoveConn(TrackFor(s1, key, ts), r, key)

\* sessionStart: a command is an exec sample of the track, and its sshd
\* child is remembered as the parent of a session shell.
SessionStart ==
    \E pid \in LinePid, u \in User, ip \in IP, port \in Port, cmd \in BOOLEAN, ts \in Stamp :
        LET e == Peer(pid, u, ip, port) IN
        \E r \in Target(c, e) :
            LET s == EnsureConn(c, r, e, ts)
                k == s.conns[r].track
                x == [ts |-> ts, pid |-> s.conns[r].pid, origin |-> "sshlog"]
                s1 == IF pid > 1 THEN [s EXCEPT !.sessParent[pid] = ts] ELSE s
                s2 == IF k = NoKey THEN s1 ELSE AddExecs(s1, k, <<x>>)
            IN  /\ c' = Finish(IF cmd THEN s2 ELSE s, k, ts)
                /\ UNCHANGED now

\* banner, and an ssh.env line that does not declare an agent: they carry
\* sshd's pid alone and only make sure the connection is known.
Banner ==
    \E pid \in LinePid, ts \in Stamp :
        LET e == Peer(pid, "", "", 0) IN
        \E r \in Target(c, e) :
            LET s == EnsureConn(c, r, e, ts) IN
            /\ c' = Finish(s, s.conns[r].track, ts)
            /\ UNCHANGED now

Declare(s, r, agent) ==
    LET s1 == [s EXCEPT !.conns[r].declared = agent]
        k == s.conns[r].track
    IN  IF k = NoKey THEN s1 ELSE RefreshDeclared(s1, {k})

\* sshEnv: sshd accepted "SetEnv AI_AGENT=agent" on the connection.
SetEnv ==
    \E pid \in LinePid, agent \in Agent, ts \in Stamp :
        LET e == Peer(pid, "", "", 0) IN
        \E r \in Target(c, e) :
            LET s == Declare(EnsureConn(c, r, e, ts), r, agent) IN
            /\ c' = Finish(s, s.conns[r].track, ts)
            /\ UNCHANGED now

\* sshEnv via the sshrc hook: any local user (sender) can write the line, so
\* it needs a connection of the named user, and a sender not known to be
\* somebody else ("" when journald did not say who sent it).
HookAllowed(s, r, u, sender) ==
    /\ s.conns[r].user = u
    /\ sender \in s.uidUser => sender = u

SSHRCDeclare ==
    \E u \in User, ip \in IP, port \in Port, sender \in User \cup {""}, agent \in Agent, ts \in Stamp :
        LET r == FindConn(c, Peer(0, u, ip, port)) IN
        /\ r # NoRef
        /\ HookAllowed(c, r, u, sender)
        /\ c' = Finish(Declare(c, r, agent), c.conns[r].track, ts)
        /\ UNCHANGED now

Learn(s, user) == [s EXCEPT !.uidUser = @ \cup ({user} \cap User)]

\* pamOpen: the PAM line teaches the account's uid, when it gives one, and
\* touches the track.
PAMOpen ==
    \E pid \in LinePid, u \in User, uid \in BOOLEAN, ts \in Stamp :
        LET r == FindConn(c, Peer(pid, u, "", 0)) IN
        /\ c' = Finish(IF uid THEN Learn(c, u) ELSE c, IF r = NoRef THEN NoKey ELSE c.conns[r].track, ts)
        /\ UNCHANGED now

\* pamOpen with note=user_child: the post-auth child is indexed, once.
Child(s, r, child) == [s EXCEPT !.conns[r].child = child, !.byPID[child] = r]

UserChild ==
    \E pid \in LinePid, child \in ProcPid, ts \in Stamp :
        LET r == FindConn(c, Peer(pid, "", "", 0)) IN
        /\ r # NoRef
        /\ c' = Finish(IF c.conns[r].child # 0 THEN c ELSE Child(c, r, child),
                       c.conns[r].track, ts)
        /\ UNCHANGED now

\* disconnect.  The lines of scope "connection" carry the peer, with or
\* without the user; the PAM close carries the user alone.
Lines(scope) ==
    IF scope = "pam" THEN [pid : LinePid, user : User, ip : {""}, port : {0}]
    ELSE [pid : LinePid, user : User \cup (IF scope = "channel" THEN {} ELSE {""}),
          ip : IP, port : Port]

Close(s, r) == Unindex([s EXCEPT !.conns[r].open = FALSE], r)

Disconnect ==
    \E scope \in Scopes : \E e \in Lines(scope), ts \in Stamp :
        LET r == FindConn(c, e) IN
        /\ r # NoRef
        /\ c' = Finish(IF scope = "channel" THEN c ELSE Close(c, r), c.conns[r].track, ts)
        /\ UNCHANGED now

-----------------------------------------------------------------------------
(***************************************************************************)
(* audit.*                                                                 *)
(***************************************************************************)
\* auditLogin, for a login that succeeded: the connection is found by pid,
\* else it is the newest open one of the user and address, else a new one.
Candidates(s, e) ==
    IF FindConn(s, e) # NoRef THEN {FindConn(s, e)}
    ELSE IF RecentOpenConn(s, e.user, e.ip) # {} THEN RecentOpenConn(s, e.user, e.ip)
    ELSE IF e.user # "" THEN Fresh(s) ELSE {}

\* Mutant: the new connection is indexed but not put on the track made for it.
LoginUnjoined(s, r, e, ses, ts) ==
    IF Candidates(s, e) \cap Fresh(s) = {} THEN s
    ELSE TrackFor(Index([s EXCEPT !.conns[r] = NewConn(e, ts)], r),
                  [user |-> e.user, fp |-> "-", ip |-> e.ip], ts)

Login(s, r, e, ses, ts) ==
    LET key == [user |-> e.user, fp |-> "-", ip |-> e.ip]
        s1 == IF FindConn(s, e) # NoRef \/ RecentOpenConn(s, e.user, e.ip) # {} THEN s
              ELSE MoveConn(TrackFor(Index([s EXCEPT !.conns[r] = NewConn(e, ts)], r),
                                     key, ts), r, key)
        k == s1.conns[r].track
    IN  IF ses = 0 THEN s1
        ELSE [s1 EXCEPT !.conns[r].ses = ses,
                        !.bySes[ses] = IF k = NoKey THEN @ ELSE k]

AuditLogin ==
    \E pid \in LinePid, u \in User \cup {""}, ip \in IP \cup {""}, ses \in Ses \cup {0}, ts \in Stamp :
        LET e == Peer(pid, u, ip, 0) IN
        \E r \in Candidates(c, e) :
            LET s == Login(c, r, e, ses, ts) IN
            /\ c' = Finish(s, s.conns[r].track, ts)
            /\ UNCHANGED now

\* trackBySes: the end of a login is activity of its track, no more.
AuditLogout ==
    \E ses \in Ses, ts \in Stamp :
        /\ c.bySes[ses] # NoKey
        /\ c' = Finish(c, c.bySes[ses], ts)
        /\ UNCHANGED now

\* auditExecve.  Session plumbing (a command line that starts it, or a child
\* of it) is remembered and not counted.
Plumbing(s, ppid, root) == root \/ (ppid \in Pid /\ s.plumb[ppid] # 0)

ExecvePlumbing ==
    \E pid \in ProcPid, ppid \in ProcPid \cup {0}, root \in BOOLEAN, sshrc \in BOOLEAN, ts \in Stamp :
        /\ Plumbing(c, ppid, root)
        /\ sshrc => root
        /\ LET s == [c EXCEPT !.plumb[pid] = ts] IN
           c' = IF sshrc /\ ppid > 1 THEN [s EXCEPT !.sessParent[ppid] = ts] ELSE s
        /\ UNCHANGED now

\* The login shell sshd forks for the client's command (shell: its command
\* line is "sh -c command") is a sample of its own origin.
Execve ==
    \E pid \in ProcPid, ppid \in LinePid \cup ProcPid, ses \in Ses \cup {0},
       u \in User \cup {""}, uid \in User, shell \in BOOLEAN, ts \in Stamp :
        LET bySes == TrackBySes(c, ses)
            k == IF bySes # NoKey THEN bySes ELSE LastOf(c, UserOf(c, u, uid))
            session == shell /\ ppid \in Pid /\ c.sessParent[ppid] # 0
            x == [ts |-> ts, pid |-> pid,
                  origin |-> IF session THEN "auditd-session" ELSE "auditd"]
        IN  /\ ~Plumbing(c, ppid, FALSE)
            /\ k # NoKey
            /\ c' = Finish(AddExecs(c, k, <<x>>), k, ts)
            /\ UNCHANGED now

-----------------------------------------------------------------------------
(***************************************************************************)
(* proc.* and net.*                                                        *)
(***************************************************************************)
\* procSeen.  The scanner names the user when passwd knows the uid.  A sample
\* replaces the track's sample of the same pid; other tracks are not looked at.
Place(s, k, pid, sample) ==
    RefreshDeclared([s EXCEPT !.tracks[k].procs[pid] = sample, !.byProcPID[pid] = k], {k})

ProcSeen ==
    \E pid \in ProcPid, ppid \in LinePid \cup ProcPid, ses \in Ses \cup {0},
       uid \in User, named \in BOOLEAN, agent \in Claims, ts \in Stamp :
        LET user == IF named THEN uid ELSE UserOf(c, "", uid)
            s == IF named THEN Learn(c, uid) ELSE c
            at == AttributeLocal(s, ses, ppid, user)
            sample == [seen |-> ts, attributed |-> at.attributed, agent |-> agent, ses |-> ses]
        IN  /\ c' = IF at.track = NoKey THEN s
                    ELSE Finish(Place(TrackFor(s, at.track, ts), at.track, pid, sample),
                                at.track, ts)
            /\ UNCHANGED now

\* Mutant: the claim of the gone process is not withdrawn.
RemoveKeepsClaim(s, k, pid) ==
    [s EXCEPT !.tracks[k].procs[pid] = NoProc, !.byProcPID[pid] = NoKey]

\* procGone.
Remove(s, k, pid) ==
    RefreshDeclared([s EXCEPT !.tracks[k].procs[pid] = NoProc, !.byProcPID[pid] = NoKey], {k})

ProcGone ==
    \E pid \in ProcPid, ts \in Stamp :
        LET k == c.byProcPID[pid] IN
        /\ k # NoKey
        /\ c' = Finish(Remove(c, k, pid), k, ts)
        /\ UNCHANGED now

\* netConn; the event carries no parent pid.
NetConn ==
    \E pid \in ProcPid \cup {0}, ses \in Ses \cup {0}, uid \in User, named \in BOOLEAN, ts \in Stamp :
        LET bySes == TrackBySes(c, ses)
            byPid == IF pid = 0 THEN NoKey ELSE c.byProcPID[pid]
            user == IF named THEN uid ELSE UserOf(c, "", uid)
            k == IF bySes # NoKey THEN bySes
                 ELSE IF byPid # NoKey THEN byPid
                 ELSE AttributeLocal(c, ses, 0, user).track
        IN  /\ k # NoKey
            /\ c' = LET s == TrackFor(c, k, ts) IN
                    Finish([s EXCEPT !.tracks[k].net = @ \cup {ts}], k, ts)
            /\ UNCHANGED now

-----------------------------------------------------------------------------
(***************************************************************************)
(* Maintenance and restart.                                                *)
(***************************************************************************)
Idle(s, t) == {k \in s.live : t - s.tracks[k].lastSeen > Window}

StaleProcs(s, k, t) ==
    {p \in Pid : s.tracks[k].procs[p].seen # 0 /\ s.tracks[k].procs[p].seen < t - ProcTTL}

\* trimExecs: the oldest samples, as far as they are in order.
TrimExecs(xs, cut) ==
    LET old(n) == \A i \in 1..n : xs[i].ts < cut
        n == CHOOSE n \in 0..Len(xs) : old(n) /\ (n = Len(xs) \/ ~old(n + 1))
    IN  SubSeq(xs, n + 1, Len(xs))

TrimTrack(s, k, t) ==
    [s.tracks[k] EXCEPT
        !.net = {n \in @ : n >= t - Window},
        !.procs = [p \in Pid |-> IF p \in StaleProcs(s, k, t) THEN NoProc ELSE @[p]]]

\* Mutant: a trimmed sample leaves its pid in the process index.
TrimKeepsIndex(s, ks, t) ==
    RefreshDeclared([s EXCEPT !.tracks = [k \in Key |->
        IF k \in ks THEN TrimTrack(s, k, t) ELSE @[k]]], ks)

\* What Expire trims from the tracks of ks, which stay.  The process index
\* loses the trimmed pids, whichever track it has them on.
Trim(s, ks, t) ==
    LET trimmed == [s EXCEPT
            !.tracks = [k \in Key |-> IF k \in ks THEN TrimTrack(s, k, t) ELSE @[k]],
            !.execs = [k \in Key |-> IF k \in ks THEN TrimExecs(@[k], t - Window) ELSE @[k]],
            !.byProcPID = [p \in Pid |->
                IF \E k \in ks : p \in StaleProcs(s, k, t) THEN NoKey ELSE @[p]]]
    IN  RefreshDeclared(trimmed, {k \in ks : StaleProcs(s, k, t) # {}})

Forget(s, t) ==
    [s EXCEPT !.plumb = [p \in Pid |-> IF t - @[p] > PlumbTTL THEN 0 ELSE @[p]],
              !.sessParent = [p \in Pid |-> IF t - @[p] > Window THEN 0 ELSE @[p]]]

Expire ==
    LET gone == Idle(c, now)
        s == Trim(Forget(c, now), c.live \ gone, now)
    IN  /\ c' = Collect(Drop(s, gone))
        /\ UNCHANGED now

\* Restore of a Snapshot.  The indexes are rebuilt track by track in the
\* order of the file, so a later track wins (rank is the place in the file).
Rankings(ks) == {f \in [ks -> 1..Cardinality(ks)] : \A j, k \in ks : f[j] = f[k] => j = k}

LastTrack(ks, rank) ==
    LET last == {k \in ks : \A j \in ks : rank[j] <= rank[k]} IN
    IF last = {} THEN NoKey ELSE CHOOSE k \in last : TRUE

LastConn(s, rs, rank) ==
    LET later(q, r) == \/ rank[s.conns[q].track] > rank[s.conns[r].track]
                       \/ s.conns[q].track = s.conns[r].track /\ q > r
        last == {r \in rs : \A q \in rs : ~later(q, r)}
    IN  IF last = {} THEN NoRef ELSE CHOOSE r \in last : TRUE

Restore(s, rank) ==
    LET kept == {r \in ConnId : \E k \in s.live : r \in s.tracks[k].conns}
        open == {r \in kept : s.conns[r].open}
        named(x, r) == x = <<s.conns[r].user, s.conns[r].ip, s.conns[r].port>>
        joined(x, k) == \/ \E r \in s.tracks[k].conns : s.conns[r].ses = x
                        \/ \E p \in Pid : s.tracks[k].procs[p].ses = x
        newest(u) == {k \in s.live : k.user = u /\ \A j \in s.live :
                        j.user = u => s.tracks[j].lastSeen <= s.tracks[k].lastSeen}
    IN  [s EXCEPT
            !.conns = [r \in ConnId |-> IF r \in kept THEN [@[r] EXCEPT !.child = 0] ELSE NoConn],
            !.byPID = [p \in Pid |-> LastConn(s, {r \in open : s.conns[r].pid = p}, rank)],
            !.byTuple = [x \in Tuple |-> LastConn(s, {r \in open : named(x, r)}, rank)],
            !.bySes = [x \in Ses |-> LastTrack({k \in s.live : joined(x, k)}, rank)],
            !.byProcPID = [p \in Pid |->
                LastTrack({k \in s.live : s.tracks[k].procs[p].seen # 0}, rank)],
            !.userLast = [u \in User |-> LastTrack(newest(u), [k \in s.live |-> -rank[k]])],
            !.uidUser = {},
            !.plumb = Empty.plumb,
            !.sessParent = Empty.sessParent]

Restart == \E rank \in Rankings(c.live) : c' = Restore(c, rank) /\ UNCHANGED now

Tick == now < MaxTime /\ now' = now + 1 /\ UNCHANGED c

Next ==
    \/ "ssh.auth_ok" \in Kinds /\ AuthOK
    \/ "ssh.session_start" \in Kinds /\ SessionStart
    \/ "ssh.banner" \in Kinds /\ Banner
    \/ "ssh.env" \in Kinds /\ (SetEnv \/ SSHRCDeclare)
    \/ "ssh.pam_open" \in Kinds /\ (PAMOpen \/ UserChild)
    \/ "ssh.disconnect" \in Kinds /\ Disconnect
    \/ "audit.login" \in Kinds /\ AuditLogin
    \/ "audit.logout" \in Kinds /\ AuditLogout
    \/ "audit.execve" \in Kinds /\ (ExecvePlumbing \/ Execve)
    \/ "proc.seen" \in Kinds /\ ProcSeen
    \/ "proc.gone" \in Kinds /\ ProcGone
    \/ "net.conn" \in Kinds /\ NetConn
    \/ Expire \/ Restart \/ Tick

Spec == Init /\ [][Next]_vars

-----------------------------------------------------------------------------
(***************************************************************************)
(* Properties.                                                             *)
(***************************************************************************)
\* Every map of the correlator holds values of its type, and no track keeps
\* more exec samples than Options.MaxExecsPerTrack allows.
TypeOK ==
    /\ now \in 1..MaxTime
    /\ c \in [live : SUBSET Key, tracks : [Key -> Track], execs : [Key -> Seq(Exec)],
              conns : [ConnId -> Conn], byPID : [Pid -> Ref], byTuple : [Tuple -> Ref],
              bySes : [Ses -> KeyOrNone], byProcPID : [Pid -> KeyOrNone],
              userLast : [User -> KeyOrNone], uidUser : SUBSET User,
              plumb : [Pid -> Time], sessParent : [Pid -> Time]]
    /\ \A k \in Key : Len(c.execs[k]) <= MaxExecs

\* A connection is listed by the track its connRef names, and by no other.
OneTrackPerConn(s) ==
    /\ \A r \in ConnId, k \in Key :
        r \in s.tracks[k].conns <=> k \in s.live /\ s.conns[r].track = k
    /\ \A r \in ConnId : s.conns[r].track \in s.live \cup {NoKey}

\* Every entry of a track index leads to a live track; a process's track has
\* a sample of it, and a user's is the user's own.
SesIndexLive(s) == \A x \in Ses : s.bySes[x] \in s.live \cup {NoKey}

ProcIndexLive(s) ==
    \A p \in Pid : s.byProcPID[p] # NoKey =>
        /\ s.byProcPID[p] \in s.live
        /\ s.tracks[s.byProcPID[p]].procs[p].seen # 0

UserIndexLive(s) ==
    \A u \in User : s.userLast[u] # NoKey =>
        s.userLast[u] \in s.live /\ s.userLast[u].user = u

\* A dropped track holds nothing.
DeadBlank(s) == \A k \in Key \ s.live : s.tracks[k] = NoTrack

TrackIndexesLive(s) ==
    SesIndexLive(s) /\ ProcIndexLive(s) /\ UserIndexLive(s) /\ DeadBlank(s)

\* A pid leads to the connection it is the sshd child or the post-auth child of.
PidIndexSound(s) ==
    \A p \in Pid : LET r == s.byPID[p] IN
        r # NoRef => p \in {s.conns[r].pid, s.conns[r].child}

\* The indexes are sound: after any sequence of events, expiries and
\* restarts no index leads to a dropped track, to a track of another user or
\* to a connection that never had the pid, and no connection is counted on
\* two tracks (index, unindex, moveConn, drop, Expire and Restore keep five
\* maps and the track lists in step by hand).
IndexIntegrity == OneTrackPerConn(c) /\ TrackIndexesLive(c) /\ PidIndexSound(c)

\* refreshDeclared is called wherever it must be: a track's declaration is
\* the claim of something that is on the track now, and a track with such a
\* claim shows one.
DeclaredBacked ==
    \A k \in c.live :
        LET names == Declarers(c, c.tracks[k])
            shown == c.tracks[k].declared
        IN  IF names = {} THEN shown = "" ELSE shown \in names

\* Evidence never vanishes silently: a track goes only when it has been idle
\* for longer than the window, or when it was a provisional one whose
\* connections and exec samples another track took over (samples only ever
\* make room for newer ones) and which held nothing else (moveConn, drop,
\* Expire; no handler, restart or trim may drop more).
Idled(k) == now - c.tracks[k].lastSeen > Window

Absorbed(k) ==
    /\ \A p \in Pid : c.tracks[k].procs[p].seen = 0
    /\ c.tracks[k].net = {}
    /\ \E j \in c'.live :
        /\ c.tracks[k].conns \subseteq c'.tracks[j].conns
        /\ \A i \in DOMAIN c.execs[k] :
             \/ \E n \in DOMAIN c'.execs[j] : c'.execs[j][n] = c.execs[k][i]
             \/ Len(c'.execs[j]) = MaxExecs

EvidenceKept == [][\A k \in c.live \ c'.live : Idled(k) \/ Absorbed(k)]_vars

\* Nothing is booked on another identity: a connection is on the track of the
\* account, the address and the key fingerprint it has now, whichever line of
\* whichever reader came first (authOK moves a provisional connection,
\* ensureConn and auditLogin may not overwrite what it knows).
IdentityKept ==
    \A k \in c.live : \A r \in c.tracks[k].conns :
        LET cn == c.conns[r] IN
        k = [user |-> cn.user, fp |-> IF cn.fp = "" THEN "-" ELSE cn.fp, ip |-> cn.ip]

\* userLast is the track unattributed processes and execves fall back to:
\* when events come in the order of their timestamps, none of the user's
\* tracks has been active more recently (touch, drop, Restore).
UserLastNewest ==
    \A u \in User : \A k \in c.live : k.user = u /\ c.userLast[u] # NoKey =>
        c.tracks[k].lastSeen <= c.tracks[c.userLast[u]].lastSeen

\* Only a connection, or a process with no SSH session to join, makes a
\* track: a login that failed, an execve or a socket of a known session never
\* leaves a track behind that nobody connected on (auditLogin, attributeLocal).
BornWithConn ==
    [][\A k \in c'.live \ c.live : k.ip = "local" \/ c'.tracks[k].conns # {}]_vars

-----------------------------------------------------------------------------
(***************************************************************************)
(* What comments of the code say and the code does not keep.               *)
(***************************************************************************)
\* findConn "returns the open connection for the event by sshd pid": an open
\* connection of a live track is found by its pid.
OpenConnFound ==
    \A k \in c.live : \A r \in c.tracks[k].conns :
        c.conns[r].open /\ c.conns[r].pid # 0 => c.byPID[c.conns[r].pid] # NoRef

\* A process that was merely placed on the user's most recent track is not
\* attributed to it, and may not declare for it: an audit session is joined
\* to a track by a login on one of its connections, or by a process that is
\* attributed to it, never by one placed there (attributeLocal, Restore).
SessionJoinEarned ==
    [][\A x \in Ses : c.bySes[x] = NoKey /\ c'.bySes[x] # NoKey =>
        LET t == c'.tracks[c'.bySes[x]] IN
        \/ \E r \in t.conns : c'.conns[r].ses = x
        \/ \E p \in Pid : t.procs[p].attributed /\ t.procs[p].ses = x]_vars

\* refreshDeclared: "When the declaring process is gone and nothing else
\* declares, the claim is withdrawn."  The proc.gone of a process a live track
\* has a sample of finds a track to withdraw it from.
ProcWithdrawable ==
    \A k \in c.live, p \in Pid : c.tracks[k].procs[p].seen # 0 => c.byProcPID[p] # NoKey
=============================================================================
