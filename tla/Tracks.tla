-------------------------------- MODULE Tracks --------------------------------
(***************************************************************************)
(* The correlator's state and the helpers every event handler is built     *)
(* from: how a connection is found, indexed, moved from one track to       *)
(* another, and how a track is created, touched and dropped.               *)
(*                                                                         *)
(* The whole struct Correlator is one record, written s below, and a       *)
(* helper takes the record and returns the changed one: the correlator     *)
(* runs on one goroutine and a handler calls several helpers in a row, so  *)
(* their composition is one atomic step.                                   *)
(*                                                                         *)
(* A map is a total function whose absent entries hold the zero value a Go *)
(* map returns for them: NoRef for a nil *connRef, NoKey for a nil *Track, *)
(* 0 for an unset pid, port, session or time.                              *)
(*                                                                         *)
(* A track is named by its key: trackFor creates one only when byKey has   *)
(* none, so no two live tracks share a key, and Track.ID (a hash of the    *)
(* key and the second of creation) adds nothing a handler looks at.        *)
(***************************************************************************)
EXTENDS Integers, Sequences, FiniteSets

CONSTANTS
    User,        \* account names
    FP,          \* key fingerprints
    IP,          \* source addresses
    Port,        \* source ports
    Pid,         \* process ids, of sshd children and of other processes
    Ses,         \* audit session ids
    Agent,       \* valid AI_AGENT values
    MaxConns,    \* connections remembered at a time (bound of the model)
    MaxExecs,    \* Options.MaxExecsPerTrack
    Window,      \* Options.Window, in ticks
    ProcTTL,     \* Options.ProcTTL, in ticks
    PlumbTTL     \* the two minutes Expire keeps a plumbing pid, in ticks

ASSUME SizesAssumption ==
    /\ MaxConns \in Nat
    /\ MaxExecs \in Nat \ {0}
    /\ Window \in Nat /\ ProcTTL \in Nat /\ PlumbTTL \in Nat

ASSUME NamesAssumption ==
    /\ "" \notin User /\ "" \notin Agent /\ "" \notin FP /\ "-" \notin FP
    /\ "" \notin IP /\ "local" \notin IP
    /\ "invalid" \notin Agent
    /\ Port \subseteq Nat \ {0} /\ Pid \subseteq Nat \ {0} /\ Ses \subseteq Nat \ {0}

-----------------------------------------------------------------------------
(***************************************************************************)
(* Types.                                                                  *)
(***************************************************************************)
ConnId == 1..MaxConns
NoRef == 0
Ref == ConnId \cup {NoRef}

Time == Nat              \* 0 is the zero time.Time

Key == [user : User, fp : FP \cup {"-"}, ip : IP \cup {"", "local"}]
NoKey == [user |-> "", fp |-> "-", ip |-> ""]
KeyOrNone == Key \cup {NoKey}

Tuple == User \X (IP \cup {""}) \X Port

\* One Connection and its connRef (track and child belong to the ref).
Conn == [user : User \cup {""}, ip : IP \cup {""}, port : Port \cup {0},
         pid : Pid \cup {0}, child : Pid \cup {0}, ses : Ses \cup {0},
         fp : FP \cup {""}, declared : Agent \cup {""},
         open : BOOLEAN, opened : Time, track : KeyOrNone]
NoConn == [user |-> "", ip |-> "", port |-> 0, pid |-> 0, child |-> 0,
           ses |-> 0, fp |-> "", declared |-> "", open |-> FALSE,
           opened |-> 0, track |-> NoKey]

\* clean.AIAgent maps a malformed AI_AGENT to a marker that never declares.
Claim == Agent \cup {"", "invalid"}

\* A ProcSample; seen is LastSeen, 0 when the track has no sample of the pid.
Proc == [seen : Time, attributed : BOOLEAN, agent : Claim, ses : Ses \cup {0}]
NoProc == [seen |-> 0, attributed |-> FALSE, agent |-> "", ses |-> 0]

Exec == [ts : Time, pid : Pid \cup {0},
         origin : {"sshlog", "auditd", "auditd-session"}]

Track == [conns : SUBSET ConnId, procs : [Pid -> Proc], net : SUBSET Time,
          declared : Agent \cup {""}, lastSeen : Time]
NoTrack == [conns |-> {}, procs |-> [p \in Pid |-> NoProc], net |-> {},
            declared |-> "", lastSeen |-> 0]

\* The fields of an event that say which connection it is about.
Peer(pid, user, ip, port) ==
    [pid |-> pid, user |-> user, ip |-> ip, port |-> port]

\* New: every map empty.
Empty ==
    [live |-> {}, tracks |-> [k \in Key |-> NoTrack],
     execs |-> [k \in Key |-> <<>>],
     conns |-> [r \in ConnId |-> NoConn],
     byPID |-> [p \in Pid |-> NoRef], byTuple |-> [x \in Tuple |-> NoRef],
     bySes |-> [x \in Ses |-> NoKey], byProcPID |-> [p \in Pid |-> NoKey],
     userLast |-> [u \in User |-> NoKey], uidUser |-> {},
     plumb |-> [p \in Pid |-> 0], sessParent |-> [p \in Pid |-> 0]]

-----------------------------------------------------------------------------
(***************************************************************************)
(* Connections: lookup, creation, indexes.                                 *)
(***************************************************************************)
FindConn(s, e) ==
    IF e.pid # 0 /\ s.byPID[e.pid] # NoRef THEN s.byPID[e.pid]
    ELSE IF e.user # "" /\ e.port # 0 THEN s.byTuple[<<e.user, e.ip, e.port>>]
    ELSE NoRef

FillConn(cn, e) ==
    [cn EXCEPT !.user = IF e.user # "" THEN e.user ELSE @,
               !.ip   = IF e.ip # "" THEN e.ip ELSE @,
               !.port = IF e.port # 0 THEN e.port ELSE @,
               !.pid  = IF e.pid # 0 /\ @ = 0 THEN e.pid ELSE @]

NewConn(e, ts) == FillConn([NoConn EXCEPT !.open = TRUE, !.opened = ts], e)

\* A connection some track lists or some index leads to.
Referenced(s, r) ==
    \/ \E k \in s.live : r \in s.tracks[k].conns
    \/ \E p \in Pid : s.byPID[p] = r
    \/ \E x \in Tuple : s.byTuple[x] = r

\* The next id for a new connection: none when MaxConns are in use.
Fresh(s) == {r \in ConnId : /\ ~Referenced(s, r)
                            /\ \A q \in ConnId : q < r => Referenced(s, q)}

\* The garbage collector: what nothing refers to is gone.
Collect(s) ==
    [s EXCEPT !.conns = [r \in ConnId |-> IF Referenced(s, r) THEN @[r] ELSE NoConn]]

Index(s, r) ==
    LET cn == s.conns[r] IN
    [s EXCEPT
        !.byPID = [p \in Pid |-> IF p \in {cn.pid, cn.child} THEN r ELSE @[p]],
        !.byTuple = [x \in Tuple |-> IF x = <<cn.user, cn.ip, cn.port>> THEN r ELSE @[x]]]

Unindex(s, r) ==
    LET cn == s.conns[r] IN
    [s EXCEPT
        !.byPID = [p \in Pid |->
                     IF p \in {cn.pid, cn.child} /\ @[p] = r THEN NoRef ELSE @[p]],
        !.byTuple = [x \in Tuple |->
                     IF x = <<cn.user, cn.ip, cn.port>> /\ @[x] = r THEN NoRef ELSE @[x]]]

-----------------------------------------------------------------------------
(***************************************************************************)
(* Tracks.                                                                 *)
(***************************************************************************)
\* What declares an agent on track t: an accepted AI_AGENT of one of its
\* connections, else a valid AI_AGENT of one of its attributed processes.
Declarers(s, t) ==
    LET byConn == {s.conns[r].declared : r \in t.conns} \ {""}
        byProc == {t.procs[p].agent : p \in {q \in Pid : t.procs[q].attributed}}
                    \cap Agent
    IN  IF byConn # {} THEN byConn ELSE byProc

RefreshDeclared(s, ks) ==
    [s EXCEPT !.tracks = [k \in Key |->
        IF k \notin ks THEN @[k]
        ELSE [@[k] EXCEPT !.declared =
                LET names == Declarers(s, s.tracks[k]) IN
                IF names = {} THEN "" ELSE CHOOSE a \in names : TRUE]]]

\* Mutant: the audit sessions of a dropped track keep leading to it.
DropKeepsSes(s, ks) ==
    LET unref(r) == IF r # NoRef /\ s.conns[r].track \in ks THEN NoRef ELSE r
    IN  [s EXCEPT !.live = @ \ ks,
                  !.tracks = [k \in Key |-> IF k \in ks THEN NoTrack ELSE @[k]],
                  !.byPID = [p \in Pid |-> unref(@[p])],
                  !.byTuple = [x \in Tuple |-> unref(@[x])]]

\* drop, for every track of ks.
Drop(s, ks) ==
    LET unref(r) == IF r # NoRef /\ s.conns[r].track \in ks THEN NoRef ELSE r
        unkey(k) == IF k \in ks THEN NoKey ELSE k
    IN  [s EXCEPT !.live = @ \ ks,
                  !.tracks = [k \in Key |-> IF k \in ks THEN NoTrack ELSE @[k]],
                  !.execs = [k \in Key |-> IF k \in ks THEN <<>> ELSE @[k]],
                  !.byPID = [p \in Pid |-> unref(@[p])],
                  !.byTuple = [x \in Tuple |-> unref(@[x])],
                  !.bySes = [x \in Ses |-> unkey(@[x])],
                  !.byProcPID = [p \in Pid |-> unkey(@[p])],
                  !.userLast = [u \in User |-> unkey(@[u])]]

TrackFor(s, k, ts) ==
    IF k \in s.live THEN s
    ELSE [s EXCEPT !.live = @ \cup {k}, !.tracks[k] = [NoTrack EXCEPT !.lastSeen = ts]]

\* Mutant: one sample too many is kept.
AddExecsOverfull(s, k, xs) ==
    LET all == s.execs[k] \o xs
        over == Len(all) - MaxExecs - 1
    IN  [s EXCEPT !.execs[k] = SubSeq(all, IF over > 0 THEN over + 1 ELSE 1, Len(all))]

\* addExec, for the samples of xs in order: the oldest go past MaxExecs.
AddExecs(s, k, xs) ==
    LET all == s.execs[k] \o xs
        over == Len(all) - MaxExecs
    IN  [s EXCEPT !.execs[k] = SubSeq(all, IF over > 0 THEN over + 1 ELSE 1, Len(all))]

\* Mutant: processes do not keep a provisional track alive.
BareOfSSH(s, k) == s.tracks[k].conns = {} /\ s.execs[k] = <<>>

Bare(s, k) ==
    /\ s.tracks[k].conns = {} /\ s.execs[k] = <<>>
    /\ s.tracks[k].net = {} /\ s.tracks[k].procs = NoTrack.procs

\* Mutant: the provisional track's own exec samples go with it.
LeaveSamples(s, r, src, dst) ==
    Drop([s EXCEPT !.tracks[src].conns = @ \ {r}], {src})

\* Mutant: a track that keeps other connections keeps this one on its list.
LeaveListed(s, r, src, dst) ==
    IF s.tracks[src].conns = {r} /\ s.execs[src] = <<>> THEN Drop(s, {src}) ELSE s

\* The elements of xs at the places of I, in their order.
Pick(xs, I) ==
    [n \in 1..Cardinality(I) |-> xs[CHOOSE i \in I : Cardinality({j \in I : j <= i}) = n]]

\* The first half of moveConn: connection r leaves track src for dst and
\* takes the exec samples its sshd child logged; src goes if nothing is left.
Leave(s, r, src, dst) ==
    LET xs == s.execs[src]
        own == {i \in DOMAIN xs :
                  xs[i].origin = "sshlog" /\ xs[i].pid = s.conns[r].pid /\ xs[i].pid # 0}
        s1 == [AddExecs(s, dst, Pick(xs, own)) EXCEPT
                 !.tracks[src].conns = @ \ {r},
                 !.execs[src] = Pick(xs, DOMAIN xs \ own)]
    IN  IF Bare(s1, src) THEN Drop(s1, {src}) ELSE RefreshDeclared(s1, {src})

\* The second half: it joins track dst, and its audit session with it.
Join(s, r, dst) ==
    [s EXCEPT !.tracks[dst].conns = @ \cup {r},
              !.conns[r].track = dst,
              !.bySes = [x \in Ses |-> IF x = s.conns[r].ses THEN dst ELSE @[x]]]

MoveConn(s, r, dst) ==
    LET src == s.conns[r].track
        left == IF src \in {NoKey, dst} THEN s ELSE Leave(s, r, src, dst)
    IN  RefreshDeclared(Join(left, r, dst), {dst})

\* Mutant: the first track of a user stays its most recent one.
TouchFirst(s, k, ts) ==
    LET s1 == [s EXCEPT !.tracks[k].lastSeen = IF ts > @ THEN ts ELSE @] IN
    IF s1.userLast[k.user] = NoKey THEN [s1 EXCEPT !.userLast[k.user] = k] ELSE s1

Touch(s, k, ts) ==
    LET s1 == [s EXCEPT !.tracks[k].lastSeen = IF ts > @ THEN ts ELSE @]
        cur == s1.userLast[k.user]
    IN  IF cur = NoKey \/ s1.tracks[cur].lastSeen <= s1.tracks[k].lastSeen
        THEN [s1 EXCEPT !.userLast[k.user] = k]
        ELSE s1

\* The tail of Apply for every event but a failed login: the track the
\* handler returned, if any, is touched.
Finish(s, k, ts) == Collect(IF k = NoKey THEN s ELSE Touch(s, k, ts))

-----------------------------------------------------------------------------
(***************************************************************************)
(* Lookups of tracks.                                                      *)
(***************************************************************************)
TrackBySes(s, ses) == IF ses = 0 THEN NoKey ELSE s.bySes[ses]

\* An uid stands for the account it belongs to: uidUser holds the accounts
\* whose uid has been learned.
UserOf(s, user, uid) ==
    IF user # "" THEN user ELSE IF uid \in s.uidUser THEN uid ELSE ""

LastOf(s, user) == IF user = "" THEN NoKey ELSE s.userLast[user]

\* recentOpenConn ranges over a Go map: any of the newest may be returned.
RecentOpenConn(s, user, ip) ==
    LET match == {r \in ConnId : /\ \E x \in Tuple : s.byTuple[x] = r
                                 /\ s.conns[r].user = user
                                 /\ ip # "" => s.conns[r].ip = ip}
    IN  {r \in match : \A q \in match : s.conns[q].opened <= s.conns[r].opened}

\* The part of attributeLocal that finds an existing track by the audit
\* session or the parent process: the track and whether it is an attribution.
ByLineage(s, ses, ppid) ==
    LET ref == IF ppid > 1 THEN s.byPID[ppid] ELSE NoRef
        parent == IF ppid > 1 THEN s.byProcPID[ppid] ELSE NoKey
    IN  IF TrackBySes(s, ses) # NoKey
          THEN [track |-> TrackBySes(s, ses), attributed |-> TRUE]
        ELSE IF ref # NoRef /\ s.conns[ref].track # NoKey
          THEN [track |-> s.conns[ref].track, attributed |-> TRUE]
        ELSE IF parent # NoKey
          THEN [track |-> parent, attributed |-> s.tracks[parent].procs[ppid].attributed]
        ELSE [track |-> NoKey, attributed |-> FALSE]

\* attributeLocal: by lineage, else the user's most recent track, else a
\* local track of the user's own (made by TrackFor in the caller).
AttributeLocal(s, ses, ppid, user) ==
    LET kin == ByLineage(s, ses, ppid) IN
    IF kin.track # NoKey THEN kin
    ELSE IF user = "" THEN [track |-> NoKey, attributed |-> FALSE]
    ELSE IF s.userLast[user] # NoKey
      THEN [track |-> s.userLast[user], attributed |-> FALSE]
    ELSE [track |-> [user |-> user, fp |-> "-", ip |-> "local"], attributed |-> TRUE]
=============================================================================
