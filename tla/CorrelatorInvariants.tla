------------------------- MODULE CorrelatorInvariants -------------------------
(***************************************************************************)
(* Proofs that the correlator books every connection on the identity it    *)
(* has, that a track's declaration is one something on the track makes,    *)
(* that userLast is the user's most recently active track when events come *)
(* in the order of their timestamps, that only a connection or a local     *)
(* process makes a track, and that no track is dropped with evidence on it *)
(* that is not stale or on another track.                                  *)
(*                                                                         *)
(* The five are proved of the same steps, on top of the soundness of the   *)
(* indexes.  Between two helpers of one handler a track may be exempt: the *)
(* one whose declaration is still to be recomputed, and the one that was   *)
(* just made and is touched at the end of the handler.                     *)
(***************************************************************************)
EXTENDS CorrelatorProofs

-----------------------------------------------------------------------------
(***************************************************************************)
(* The inductive invariant.                                                *)
(***************************************************************************)
KeyOf(cn) == [user |-> cn.user, fp |-> IF cn.fp = "" THEN "-" ELSE cn.fp, ip |-> cn.ip]

\* A connection is on the track of its identity; one no user is known of has
\* no address and no key either.
Named(cn) ==
    /\ cn.track # NoKey => cn.track = KeyOf(cn)
    /\ cn.user = "" => cn.ip = "" /\ cn.fp = ""

Identified(s) == \A r \in ConnId : Named(s.conns[r])

\* A track shows a claim of something on it, and none when nothing claims.
Shows(s, k) ==
    LET names == Declarers(s, s.tracks[k]) IN
    IF names = {} THEN s.tracks[k].declared = "" ELSE s.tracks[k].declared \in names

Backed(s, Y) == \A k \in s.live \ Y : Shows(s, k)

\* No track was active after T, nor after its user's most recent track.
Newest(s, X, T) ==
    /\ \A k \in s.live : s.tracks[k].lastSeen <= T
    /\ \A k \in s.live \ X : s.userLast[k.user] # NoKey =>
         s.tracks[k].lastSeen <= s.tracks[s.userLast[k.user]].lastSeen

Held(s, X, Y, T) == Backed(s, Y) /\ (MaxLag = 0 => Newest(s, X, T))

Fine(s, T) == Identified(s) /\ Held(s, {}, {}, T)

\* The connections, once r is on track k.
Moved(conns, r, k) == [conns EXCEPT ![r] = [conns[r] EXCEPT !.track = k]]

JInv == IInv /\ Fine(c, now)

\* The tracks of t are those of s and the one connection r is on.
Grown(s, t, r) == t.live \subseteq s.live \cup {t.conns[r].track}

\* What was made between s and t has a connection, or is a local track.
Born(s, t) == \A k \in t.live \ s.live : k.ip = "local" \/ t.tracks[k].conns # {}

\* Track k of s has nothing but connections and samples, and one track of t has them.
Taken(s, k, t) ==
    /\ \A p \in Pid : s.tracks[k].procs[p].seen = 0
    /\ s.tracks[k].net = {}
    /\ \E j \in t.live : /\ s.tracks[k].conns \subseteq t.tracks[j].conns
                         /\ Saved(s.execs[k], t.execs[j])

\* What of s is not in t has been taken over.
Spared(s, t) == \A k \in s.live \ t.live : Taken(s, k, t)

\* No track of s is lost, nor a connection or a sample of one.
Stays(s, t) ==
    /\ s.live \subseteq t.live
    /\ \A k \in s.live : /\ s.tracks[k].conns \subseteq t.tracks[k].conns
                         /\ Grew(s.execs[k], t.execs[k])

\* The tracks of s hold in t what they held.
Alike(s, t) ==
    /\ s.live \subseteq t.live
    /\ \A k \in s.live : /\ t.tracks[k].conns = s.tracks[k].conns
                         /\ t.tracks[k].procs = s.tracks[k].procs
                         /\ t.tracks[k].net = s.tracks[k].net
                         /\ t.execs[k] = s.execs[k]

\* A track that goes was idle for longer than the window or has been taken over.
Kept(s, t) ==
    \A k \in s.live \ t.live : now - s.tracks[k].lastSeen > Window \/ Taken(s, k, t)

\* What a step may make of the set of tracks.
Lawful(s, t) == Born(s, t) /\ Kept(s, t)

\* What a helper leaves alone that Held depends on, except for the tracks of Y
\* whose declaration is to be recomputed.
Calm(s, t, Y) ==
    /\ t.live \subseteq s.live
    /\ \A k \in t.live : t.tracks[k].lastSeen = s.tracks[k].lastSeen
    /\ \A k \in t.live \ Y : /\ t.tracks[k].conns = s.tracks[k].conns
                             /\ t.tracks[k].procs = s.tracks[k].procs
                             /\ t.tracks[k].declared = s.tracks[k].declared
                             /\ \A r \in t.tracks[k].conns :
                                  t.conns[r].declared = s.conns[r].declared
    /\ \A u \in User : t.userLast[u] \in {s.userLast[u], NoKey}

-----------------------------------------------------------------------------
(***************************************************************************)
(* Frames.                                                                 *)
(***************************************************************************)
\* What declares on a track depends on its connections and processes alone.
LEMMA DeclarersFrame ==
  ASSUME NEW s, NEW t, NEW k,
         t.tracks[k].conns = s.tracks[k].conns, t.tracks[k].procs = s.tracks[k].procs,
         \A r \in t.tracks[k].conns : t.conns[r].declared = s.conns[r].declared
  PROVE  Declarers(t, t.tracks[k]) = Declarers(s, s.tracks[k])
  <1>1. {t.conns[r].declared : r \in t.tracks[k].conns}
          = {s.conns[r].declared : r \in s.tracks[k].conns}
    OBVIOUS
  <1> QED
    BY <1>1 DEF Declarers

\* A helper that leaves a state calm keeps what Held says of it.
LEMMA CalmHeld ==
  ASSUME NEW s, NEW t, NEW X, NEW Y, NEW Z, NEW W, NEW T,
         Weak(t, W), Held(s, X, Y, T), Calm(s, t, Z), Y \subseteq Z
  PROVE  Held(t, X, Z, T)
  <1>1. Backed(t, Z)
    <2> SUFFICES ASSUME NEW k \in t.live \ Z
                 PROVE  Shows(t, k)
      BY DEF Backed
    <2>1. k \in s.live \ Y
      BY DEF Calm
    <2>2. Shows(s, k)
      BY <2>1 DEF Held, Backed
    <2>3. t.tracks[k].declared = s.tracks[k].declared
      BY DEF Calm
    <2>4. Declarers(t, t.tracks[k]) = Declarers(s, s.tracks[k])
      BY DeclarersFrame DEF Calm
    <2> QED
      BY <2>2, <2>3, <2>4 DEF Shows
  <1>2. ASSUME MaxLag = 0 PROVE Newest(t, X, T)
    <2>1. Newest(s, X, T)
      BY <1>2 DEF Held
    <2>2. t.live \subseteq s.live /\ t.live \subseteq Key
      BY DEF Calm, Weak, StateOK
    <2>3. \A k \in t.live : t.tracks[k].lastSeen = s.tracks[k].lastSeen
      BY DEF Calm
    <2>4. ASSUME NEW k \in t.live \ X, t.userLast[k.user] # NoKey
          PROVE  t.tracks[k].lastSeen <= t.tracks[t.userLast[k.user]].lastSeen
      <3>1. k.user \in User
        BY <2>2 DEF Key
      <3>2. t.userLast[k.user] = s.userLast[k.user]
        BY <2>4, <3>1 DEF Calm
      <3>3. t.userLast[k.user] \in t.live
        BY <2>4, <3>1 DEF Weak, TrackIndexesLive, UserIndexLive
      <3>4. s.tracks[k].lastSeen <= s.tracks[s.userLast[k.user]].lastSeen
        BY <2>1, <2>2, <2>4, <3>2 DEF Newest
      <3> QED
        BY <2>3, <2>4, <3>2, <3>3, <3>4
    <2> QED
      BY <2>1, <2>2, <2>3, <2>4 DEF Newest
  <1> QED
    BY <1>1, <1>2 DEF Held

\* Connections whose names and track are left alone, or that are forgotten,
\* stay identified.
LEMMA NamesFrame ==
  ASSUME NEW s, NEW t, Identified(s),
         \A r \in ConnId : \/ t.conns[r] = NoConn
                           \/ /\ t.conns[r].user = s.conns[r].user
                              /\ t.conns[r].ip = s.conns[r].ip
                              /\ t.conns[r].fp = s.conns[r].fp
                              /\ t.conns[r].track = s.conns[r].track
  PROVE  Identified(t)
  <1> SUFFICES ASSUME NEW r \in ConnId
               PROVE  Named(t.conns[r])
    BY DEF Identified
  <1>1. CASE t.conns[r] = NoConn
    <2>1. NoConn.track = NoKey /\ NoConn.ip = "" /\ NoConn.fp = ""
      BY DEF NoConn
    <2> QED
      BY <1>1, <2>1 DEF Named
  <1>2. CASE t.conns[r] # NoConn
    BY <1>2 DEF Identified, Named, KeyOf
  <1> QED
    BY <1>1, <1>2

\* A track taken over stays so while the tracks that remain only grow.
LEMMA SparedStays ==
  ASSUME NEW s, NEW t, NEW u, Spared(s, t), Stays(t, u)
  PROVE  Spared(s, u)
  <1> SUFFICES ASSUME NEW k \in s.live \ u.live
               PROVE  Taken(s, k, u)
    BY DEF Spared
  <1>1. Taken(s, k, t)
    BY DEF Spared, Stays
  <1>2. PICK j \in t.live : /\ s.tracks[k].conns \subseteq t.tracks[j].conns
                            /\ Saved(s.execs[k], t.execs[j])
    BY <1>1 DEF Taken
  <1>3. /\ j \in u.live /\ t.tracks[j].conns \subseteq u.tracks[j].conns
        /\ Grew(t.execs[j], u.execs[j])
    BY DEF Stays
  <1>4. Saved(s.execs[k], u.execs[j])
    BY <1>2, <1>3 DEF Grew, Saved
  <1> QED
    BY <1>1, <1>2, <1>3, <1>4 DEF Taken

\* It does not matter whether a helper that touches no track comes before.
LEMMA AlikeSpared ==
  ASSUME NEW s, NEW t, NEW u, Alike(s, t), Spared(t, u)
  PROVE  Spared(s, u)
  BY DEF Alike, Spared, Taken

\* Where no track goes, nothing is lost.
LEMMA LiveSpared ==
  ASSUME NEW s, NEW t, s.live \subseteq t.live
  PROVE  Spared(s, t) /\ Kept(s, t)
  BY DEF Spared, Kept

\* What has been taken over is accounted for.
LEMMA SparedKept ==
  ASSUME NEW s, NEW t, Spared(s, t)
  PROVE  Kept(s, t)
  BY DEF Spared, Kept

\* Samples left alone are all there.
LEMMA SameGrew == \A xs : Grew(xs, xs)
  BY DEF Grew, Saved

\* What keeps the lists of connections and the samples keeps it all.
LEMMA SameStays ==
  ASSUME NEW s, NEW t, s.live \subseteq t.live,
         \A k \in s.live : t.tracks[k].conns = s.tracks[k].conns /\ t.execs[k] = s.execs[k]
  PROVE  Stays(s, t)
  BY SameGrew DEF Stays

-----------------------------------------------------------------------------
(***************************************************************************)
(* The helpers.                                                            *)
(***************************************************************************)
\* refreshDeclared: the tracks recomputed show what is claimed on them.
LEMMA RefreshHeld ==
  ASSUME NEW s, NEW W, Weak(s, W), NEW ks \in SUBSET s.live, NEW X, NEW Y, NEW T,
         Held(s, X, Y, T)
  PROVE  LET t == RefreshDeclared(s, ks) IN
         /\ Held(t, X, Y \ ks, T) /\ t.userLast = s.userLast
         /\ \A k \in t.live : t.tracks[k].lastSeen = s.tracks[k].lastSeen
  <1> DEFINE t == RefreshDeclared(s, ks)
             names(k) == Declarers(s, s.tracks[k])
             name(k) == IF names(k) = {} THEN "" ELSE CHOOSE a \in names(k) : TRUE
  <1>1. /\ t.live = s.live /\ t.conns = s.conns /\ t.userLast = s.userLast
        /\ t.tracks = [k \in Key |-> IF k \notin ks THEN s.tracks[k]
                                     ELSE [s.tracks[k] EXCEPT !.declared = name(k)]]
    BY DEF RefreshDeclared, Weak, StateOK
  <1>2. Weak(t, W)
    BY RefreshWeak
  <1>3. s.live \subseteq Key
    BY DEF Weak, StateOK
  <1>4. \A k \in Key : names(k) = {} \/ name(k) \in names(k)
    OBVIOUS
  <1> HIDE DEF name, t
  <1>5. ASSUME NEW k \in Key
        PROVE  /\ t.tracks[k].conns = s.tracks[k].conns
               /\ t.tracks[k].procs = s.tracks[k].procs
               /\ t.tracks[k].lastSeen = s.tracks[k].lastSeen
               /\ k \notin ks => t.tracks[k] = s.tracks[k]
               /\ k \in ks => t.tracks[k].declared = name(k)
    <2>1. s.tracks[k] \in Track
      BY DEF Weak, StateOK
    <2> QED
      BY <1>1, <2>1 DEF Track
  <1>6. ASSUME NEW k \in ks PROVE Shows(t, k)
    <2>1. k \in Key
      BY <1>3
    <2>2. Declarers(t, t.tracks[k]) = names(k)
      <3>1. t.tracks[k].conns = s.tracks[k].conns /\ t.tracks[k].procs = s.tracks[k].procs
        BY <1>5, <2>1
      <3>2. \A r \in t.tracks[k].conns : t.conns[r].declared = s.conns[r].declared
        BY <1>1
      <3> QED
        BY <3>1, <3>2, DeclarersFrame
    <2>3. t.tracks[k].declared = name(k)
      BY <1>5, <2>1
    <2> HIDE DEF names
    <2>4. names(k) = {} => name(k) = ""
      BY DEF name
    <2> QED
      BY <1>4, <2>1, <2>2, <2>3, <2>4 DEF Shows
  <1>7. Calm(s, t, Y \cup ks)
    BY <1>1, <1>3, <1>5 DEF Calm
  <1>8. Held(t, X, Y \cup ks, T)
    BY <1>2, <1>7, CalmHeld
  <1>9. Backed(t, Y \ ks)
    BY <1>6, <1>8 DEF Held, Backed
  <1> QED
    BY <1>1, <1>3, <1>5, <1>8, <1>9 DEF Held, t

\* drop.
LEMMA DropCalm ==
  ASSUME NEW s, NEW W, Weak(s, W), NEW ks \in SUBSET Key
  PROVE  Calm(s, Drop(s, ks), {})
  <1> DEFINE t == Drop(s, ks)
  <1>1. /\ t.live = s.live \ ks /\ t.conns = s.conns
        /\ t.tracks = [k \in Key |-> IF k \in ks THEN NoTrack ELSE s.tracks[k]]
        /\ t.userLast = [u \in User |-> IF s.userLast[u] \in ks THEN NoKey ELSE s.userLast[u]]
    BY DEF Drop, Weak, StateOK
  <1> HIDE DEF t
  <1>2. s.live \subseteq Key
    BY DEF Weak, StateOK
  <1> QED
    BY <1>1, <1>2 DEF Calm, t

\* addExec.
LEMMA AddExecsCalm ==
  ASSUME NEW s, NEW W, Weak(s, W), NEW k \in Key, NEW xs \in Seq(Exec)
  PROVE  Calm(s, AddExecs(s, k, xs), {}) /\ AddExecs(s, k, xs).conns = s.conns
  <1> DEFINE t == AddExecs(s, k, xs)
  <1>1. /\ t.live = s.live /\ t.conns = s.conns /\ t.tracks = s.tracks
        /\ t.userLast = s.userLast
    BY DEF AddExecs, Weak, StateOK
  <1> HIDE DEF t
  <1> QED
    BY <1>1 DEF Calm, t

\* trackFor: a new track has no claim on it, and is yet to be touched.
LEMMA TrackForHeld ==
  ASSUME NEW s, Sound(s), NEW k \in Key, NEW ts \in Nat, NEW T \in Nat, ts <= T,
         Held(s, {}, {}, T)
  PROVE  Held(TrackFor(s, k, ts), {k}, {}, T)
  <1> DEFINE t == TrackFor(s, k, ts)
             new == [NoTrack EXCEPT !.lastSeen = ts]
  <1>1. CASE k \in s.live
    BY <1>1 DEF TrackFor, Held, Newest
  <1>2. CASE k \notin s.live
    <2>1. /\ t.live = s.live \cup {k} /\ t.conns = s.conns /\ t.userLast = s.userLast
          /\ t.tracks = [s.tracks EXCEPT ![k] = new]
      BY <1>2 DEF TrackFor, Sound, Weak, StateOK
    <2>2. new.conns = {} /\ new.procs = NoTrack.procs /\ new.declared = "" /\ new.lastSeen = ts
      BY DEF NoTrack
    <2> HIDE DEF t, new
    <2>3. /\ t.tracks[k] = new
          /\ \A j \in s.live : t.tracks[j] = s.tracks[j] /\ j # k
      BY <1>2, <2>1 DEF Sound, Weak, StateOK
    <2>4. Shows(t, k)
      <3>1. t.tracks[k].procs = [p \in Pid |-> NoProc] /\ ~NoProc.attributed
        BY <2>2, <2>3 DEF NoTrack, NoProc
      <3>2. Declarers(t, t.tracks[k]) = {}
        BY <2>2, <2>3, <3>1 DEF Declarers
      <3> QED
        BY <2>2, <2>3, <3>2 DEF Shows
    <2>5. Backed(t, {})
      <3>1. ASSUME NEW j \in s.live PROVE Shows(t, j)
        <4>1. Shows(s, j)
          BY DEF Held, Backed
        <4>2. t.tracks[j] = s.tracks[j]
          BY <2>3
        <4>3. \A r \in t.tracks[j].conns : t.conns[r].declared = s.conns[r].declared
          BY <2>1
        <4>4. t.tracks[j].conns = s.tracks[j].conns /\ t.tracks[j].procs = s.tracks[j].procs
          BY <4>2
        <4>5. Declarers(t, t.tracks[j]) = Declarers(s, s.tracks[j])
          BY <4>3, <4>4, DeclarersFrame
        <4> QED
          BY <4>1, <4>2, <4>5 DEF Shows
      <3> QED
        BY <2>1, <2>4, <3>1 DEF Backed
    <2>6. ASSUME MaxLag = 0 PROVE Newest(t, {k}, T)
      <3>1. Newest(s, {}, T)
        BY <2>6 DEF Held
      <3>2. \A j \in s.live : s.userLast[j.user] # NoKey => s.userLast[j.user] \in s.live
        BY DEF Sound, Weak, StateOK, TrackIndexesLive, UserIndexLive, Key
      <3> QED
        BY <2>1, <2>2, <2>3, <3>1, <3>2 DEF Newest
    <2> QED
      BY <2>5, <2>6 DEF Held, t
  <1> QED
    BY <1>1, <1>2

\* touch, at the time of the clock: the track is its user's most recent one.
LEMMA TouchHeld ==
  ASSUME NEW s, Weak(s, {}), NEW k \in s.live, NEW ts \in Nat, NEW T \in Nat,
         MaxLag = 0 => ts = T, Held(s, {k}, {}, T)
  PROVE  Held(Touch(s, k, ts), {}, {}, T) /\ Touch(s, k, ts).conns = s.conns
  <1> DEFINE last == IF ts > s.tracks[k].lastSeen THEN ts ELSE s.tracks[k].lastSeen
             tr == [s.tracks[k] EXCEPT !.lastSeen = last]
             s1 == [s EXCEPT !.tracks[k].lastSeen = IF ts > @ THEN ts ELSE @]
             cur == s1.userLast[k.user]
             t == Touch(s, k, ts)
  <1>1. k \in Key /\ k.user \in User /\ s.tracks[k] \in Track
    BY DEF Weak, StateOK, Key
  <1>2. /\ s1.live = s.live /\ s1.conns = s.conns /\ s1.userLast = s.userLast
        /\ s1.tracks = [s.tracks EXCEPT ![k] = tr]
    BY DEF Weak, StateOK
  <1>3. DOMAIN s1 = DOMAIN s
    OBVIOUS
  <1>4. t = IF cur = NoKey \/ s1.tracks[cur].lastSeen <= s1.tracks[k].lastSeen
            THEN [s1 EXCEPT !.userLast[k.user] = k] ELSE s1
    BY DEF Touch
  <1>5. /\ tr.conns = s.tracks[k].conns /\ tr.procs = s.tracks[k].procs
        /\ tr.declared = s.tracks[k].declared /\ tr.lastSeen = last
        /\ last \in Nat
    BY <1>1 DEF Track, Time
  <1>6. DOMAIN s = {"live", "tracks", "execs", "conns", "byPID", "byTuple", "bySes",
                    "byProcPID", "userLast", "uidUser", "plumb", "sessParent"}
    BY DEF Weak, StateOK
  <1> HIDE DEF s1, tr
  <1>7. /\ t.live = s.live /\ t.conns = s.conns /\ t.tracks = s1.tracks
        /\ IF cur = NoKey \/ s1.tracks[cur].lastSeen <= s1.tracks[k].lastSeen
           THEN t.userLast = [s.userLast EXCEPT ![k.user] = k] ELSE t.userLast = s.userLast
    BY <1>2, <1>3, <1>4, <1>6
  <1>8. \A j \in Key : /\ t.tracks[j].conns = s.tracks[j].conns
                       /\ t.tracks[j].procs = s.tracks[j].procs
                       /\ t.tracks[j].declared = s.tracks[j].declared
                       /\ t.tracks[j].lastSeen = IF j = k THEN last ELSE s.tracks[j].lastSeen
    BY <1>1, <1>2, <1>5, <1>7 DEF Weak, StateOK
  <1> HIDE DEF t
  <1>9. s.live \subseteq Key
    BY DEF Weak, StateOK
  <1>10. Backed(t, {})
    <2> SUFFICES ASSUME NEW j \in s.live
                 PROVE  Shows(t, j)
      BY <1>7 DEF Backed
    <2>1. Shows(s, j)
      BY DEF Held, Backed
    <2>2. Declarers(t, t.tracks[j]) = Declarers(s, s.tracks[j])
      <3>1. \A r \in t.tracks[j].conns : t.conns[r].declared = s.conns[r].declared
        BY <1>7
      <3>2. t.tracks[j].conns = s.tracks[j].conns /\ t.tracks[j].procs = s.tracks[j].procs
        BY <1>8, <1>9
      <3> QED
        BY <3>1, <3>2, DeclarersFrame
    <2> QED
      BY <1>8, <1>9, <2>1, <2>2 DEF Shows
  <1>11. ASSUME MaxLag = 0 PROVE Newest(t, {}, T)
    <2>1. Newest(s, {k}, T)
      BY <1>11 DEF Held
    <2>2. \A j \in s.live : s.tracks[j].lastSeen \in Nat /\ s.tracks[j].lastSeen <= T
      BY <1>9, <2>1 DEF Newest, Weak, StateOK, Track, Time
    <2>3. last = T
      BY <1>11, <2>2
    <2>4. \A j \in s.live : t.tracks[j].lastSeen <= T
      BY <1>8, <1>9, <2>2, <2>3
    <2>5. \A u \in User : s.userLast[u] # NoKey =>
            s.userLast[u] \in s.live /\ s.userLast[u].user = u
      BY DEF Weak, TrackIndexesLive, UserIndexLive
    <2>6. t.userLast = [s.userLast EXCEPT ![k.user] = k]
      <3>1. cur = NoKey \/ s1.tracks[cur].lastSeen <= s1.tracks[k].lastSeen
        <4>1. s1.tracks[k].lastSeen = T
          BY <1>1, <1>7, <1>8, <2>3
        <4>2. cur # NoKey => cur \in s.live
          BY <1>1, <1>2, <2>5
        <4>3. cur # NoKey => s1.tracks[cur].lastSeen <= T
          BY <1>7, <2>4, <4>2
        <4> QED
          BY <4>1, <4>3
      <3> QED
        BY <1>7, <3>1
    <2>7. ASSUME NEW j \in s.live, t.userLast[j.user] # NoKey
          PROVE  t.tracks[j].lastSeen <= t.tracks[t.userLast[j.user]].lastSeen
      <3>1. j.user \in User /\ s.userLast \in [User -> KeyOrNone]
        BY <1>9 DEF Key, Weak, StateOK
      <3>2. CASE j.user = k.user
        <4>1. t.userLast[j.user] = k
          BY <1>1, <2>6, <3>1, <3>2
        <4> QED
          BY <1>1, <1>8, <2>3, <2>4, <4>1
      <3>3. CASE j.user # k.user
        <4>1. t.userLast[j.user] = s.userLast[j.user]
          BY <2>6, <3>1, <3>3
        <4>2. s.userLast[j.user] \in s.live /\ s.userLast[j.user].user = j.user
          BY <2>5, <2>7, <3>1, <4>1
        <4>3. s.tracks[j].lastSeen <= s.tracks[s.userLast[j.user]].lastSeen
          BY <2>1, <2>7, <3>3, <4>1 DEF Newest
        <4> QED
          BY <1>8, <1>9, <3>3, <4>1, <4>2, <4>3
      <3> QED
        BY <3>2, <3>3
    <2> QED
      BY <1>7, <2>4, <2>7 DEF Newest
  <1> QED
    BY <1>7, <1>10, <1>11 DEF Held, t

\* The garbage collector forgets no connection a track lists.
LEMMA CollectHeld ==
  ASSUME NEW s, Weak(s, {}), NEW X, NEW T, Held(s, X, {}, T)
  PROVE  /\ Held(Collect(s), X, {}, T)
         /\ \A r \in ConnId : Collect(s).conns[r] \in {s.conns[r], NoConn}
  <1> DEFINE t == Collect(s)
  <1>1. /\ t.live = s.live /\ t.tracks = s.tracks /\ t.userLast = s.userLast
        /\ t.conns = [r \in ConnId |-> IF Referenced(s, r) THEN s.conns[r] ELSE NoConn]
    BY DEF Collect, Weak, StateOK
  <1>2. Weak(t, {})
    BY CollectSound DEF Sound
  <1> HIDE DEF t
  <1>3. ASSUME NEW k \in s.live, NEW r \in s.tracks[k].conns
        PROVE  t.conns[r] = s.conns[r]
    <2>1. s.tracks[k] \in Track
      BY DEF Weak, StateOK
    <2>2. r \in ConnId
      BY <2>1 DEF Track
    <2>3. Referenced(s, r)
      BY DEF Referenced
    <2> QED
      BY <1>1, <2>2, <2>3
  <1>4. Calm(s, t, {})
    BY <1>1, <1>3 DEF Calm
  <1>5. Held(t, X, {}, T)
    BY <1>2, <1>4, CalmHeld
  <1> QED
    BY <1>1, <1>5 DEF t

\* The tail of Apply: the track the handler returned is touched.
LEMMA FinishFine ==
  ASSUME NEW s, Weak(s, {}), NEW k \in s.live \cup {NoKey}, NEW ts \in Nat, NEW T \in Nat,
         MaxLag = 0 => ts = T, Held(s, {k}, {}, T), Identified(s)
  PROVE  Fine(Finish(s, k, ts), T)
  <1> DEFINE s1 == IF k = NoKey THEN s ELSE Touch(s, k, ts)
  <1>1. Finish(s, k, ts) = Collect(s1)
    BY DEF Finish
  <1>2. Held(s1, {}, {}, T) /\ s1.conns = s.conns /\ Weak(s1, {})
    <2>1. CASE k = NoKey
      <3>1. s.live \ {k} = s.live
        BY <2>1, NoKeyFact DEF Weak, StateOK
      <3>2. Held(s, {}, {}, T)
        BY <3>1 DEF Held, Newest
      <3> QED
        BY <2>1, <3>2
    <2>2. CASE k # NoKey
      BY <2>2, TouchHeld, TouchWeak
    <2> QED
      BY <2>1, <2>2
  <1> HIDE DEF s1
  <1>3. Held(Collect(s1), {}, {}, T)
    BY <1>2, CollectHeld
  <1>4. \A r \in ConnId : Collect(s1).conns[r] \in {s.conns[r], NoConn}
    BY <1>2, CollectHeld
  <1>5. Identified(Collect(s1))
    BY <1>4, NamesFrame
  <1> QED
    BY <1>1, <1>3, <1>5 DEF Fine

\* The second half of moveConn: the claims of the connection that joins a
\* track are still to be counted.
LEMMA JoinCalm ==
  ASSUME NEW s, NEW r \in ConnId, NEW dst \in s.live, Weak(s, {r})
  PROVE  LET t == Join(s, r, dst) IN
         /\ Calm(s, t, {dst})
         /\ t.conns = Moved(s.conns, r, dst)
  <1> DEFINE joined == [s.tracks[dst] EXCEPT !.conns = s.tracks[dst].conns \cup {r}]
             moved == [s.conns[r] EXCEPT !.track = dst]
             t == Join(s, r, dst)
  <1>1. /\ t.live = s.live /\ t.userLast = s.userLast
        /\ t.tracks = [s.tracks EXCEPT ![dst] = joined]
        /\ t.conns = [s.conns EXCEPT ![r] = moved]
    BY DEF Join, Weak, StateOK
  <1>2. dst \in Key /\ s.tracks[dst] \in Track /\ s.conns[r] \in Conn /\ s.live \subseteq Key
    BY DEF Weak, StateOK
  <1>3. joined.lastSeen = s.tracks[dst].lastSeen
    BY <1>2 DEF Track
  <1>4. moved.declared = s.conns[r].declared
    BY <1>2 DEF Conn
  <1> HIDE DEF t, joined, moved
  <1>5. \A q \in ConnId : t.conns[q].declared = s.conns[q].declared
    BY <1>1, <1>4 DEF Weak, StateOK
  <1>6. \A k \in s.live : /\ t.tracks[k].lastSeen = s.tracks[k].lastSeen
                          /\ k # dst => t.tracks[k] = s.tracks[k]
    BY <1>1, <1>2, <1>3 DEF Weak, StateOK
  <1>7. \A k \in s.live : s.tracks[k].conns \subseteq ConnId
    BY <1>2 DEF Weak, StateOK, Track
  <1>8. Calm(s, t, {dst})
    BY <1>1, <1>5, <1>6, <1>7 DEF Calm
  <1> QED
    BY <1>1, <1>8 DEF t, moved, Moved

\* The first half: the track the connection leaves is dropped, or shows what
\* is claimed on it without the connection.
LEMMA LeaveHeld ==
  ASSUME NEW s, Sound(s), NEW r \in ConnId, NEW dst \in s.live, NEW src \in s.live,
         s.conns[r].track = src, src # dst, NEW X, NEW T, Held(s, X, {}, T)
  PROVE  LET t == Leave(s, r, src, dst) IN
         /\ Held(t, X, {}, T) /\ t.conns = s.conns
         /\ t.live \subseteq s.live
  <1> DEFINE s1 == Off(s, r, src, dst)
             t == Leave(s, r, src, dst)
             one == {src}
  <1>1. t = IF Bare(s1, src) THEN Drop(s1, one) ELSE RefreshDeclared(s1, one)
    BY LeaveOff
  <1>2. Weak(s1, {r}) /\ Departed(s, s1, r, src)
    BY OffWeak
  <1>3. src \in Key /\ s.live \subseteq Key
    BY DEF Sound, Weak, StateOK
  <1> HIDE DEF s1, t
  <1>4. Calm(s, s1, one)
    BY <1>2, <1>3 DEF Calm, Departed
  <1> HIDE DEF one
  <1>5. Held(s1, X, one, T)
    BY <1>2, <1>4, CalmHeld
  <1>6. CASE Bare(s1, src)
    <2>1. one \in SUBSET Key
      BY <1>3 DEF one
    <2>2. t = Drop(s1, one)
      BY <1>1, <1>6
    <2>3. Weak(t, {r}) /\ t.live = s1.live \ one /\ t.conns = s1.conns
      BY <1>2, <2>1, <2>2, DropWeak
    <2>4. Calm(s1, t, {})
      BY <1>2, <2>1, <2>2, DropCalm
    <2>5. Calm(s1, t, one)
      BY <2>4 DEF Calm
    <2>6. Held(t, X, one, T)
      BY <1>5, <2>3, <2>5, CalmHeld
    <2>7. Held(t, X, {}, T)
      BY <2>3, <2>6 DEF Held, Backed
    <2> QED
      BY <1>2, <2>3, <2>7 DEF Departed, t
  <1>7. CASE ~Bare(s1, src)
    <2>1. one \in SUBSET s1.live
      BY <1>2 DEF Departed, one
    <2>2. t = RefreshDeclared(s1, one)
      BY <1>1, <1>7
    <2>3. t.live = s1.live /\ t.conns = s1.conns
      BY <1>2, <2>1, <2>2, RefreshWeak
    <2>4. Held(t, X, one \ one, T)
      BY <1>2, <1>5, <2>1, <2>2, RefreshHeld
    <2>5. one \ one = {}
      OBVIOUS
    <2> QED
      BY <1>2, <2>3, <2>4, <2>5 DEF Departed, t
  <1> QED
    BY <1>6, <1>7

\* A track the connection leaves goes only when it held no more than the
\* connection and samples that another track now has.
LEMMA LeaveSpares ==
  ASSUME NEW s, Sound(s), NEW r \in ConnId, NEW dst \in s.live, NEW src \in s.live,
         s.conns[r].track = src, src # dst
  PROVE  LET t == Leave(s, r, src, dst) IN
         \/ t.live = s.live
         \/ /\ t.live = s.live \ {src} /\ s.tracks[src].conns \subseteq {r}
            /\ s.tracks[src].procs = NoTrack.procs /\ s.tracks[src].net = {}
            /\ Saved(s.execs[src], t.execs[dst])
  <1> DEFINE s1 == Off(s, r, src, dst)
             t == Leave(s, r, src, dst)
             one == {src}
  <1>1. t = IF Bare(s1, src) THEN Drop(s1, one) ELSE RefreshDeclared(s1, one)
    BY LeaveOff
  <1>2. Weak(s1, {r}) /\ Departed(s, s1, r, src) /\ Handed(s1, s, src, dst)
    BY OffWeak
  <1>3. src \in Key /\ dst \in Key /\ dst \notin one
    BY DEF Sound, Weak, StateOK
  <1> HIDE DEF s1, t
  <1>4. CASE Bare(s1, src)
    <2>1. t = Drop(s1, one) /\ one \in SUBSET Key
      BY <1>1, <1>3, <1>4
    <2> HIDE DEF one
    <2>2. t.live = s1.live \ one
      BY <1>2, <2>1, DropWeak
    <2>3. t.execs[dst] = s1.execs[dst]
      BY <1>2, <1>3, <2>1 DEF Drop, Weak, StateOK
    <2>4. s1.execs[src] = <<>> /\ s1.tracks[src].conns = {}
          /\ s1.tracks[src].procs = NoTrack.procs /\ s1.tracks[src].net = {}
      BY <1>4 DEF Bare
    <2>5. Saved(s.execs[src], t.execs[dst])
      BY <1>2, <2>3, <2>4 DEF Handed
    <2> QED
      BY <1>2, <2>2, <2>4, <2>5 DEF Departed, one, t
  <1>5. CASE ~Bare(s1, src)
    <2>1. t = RefreshDeclared(s1, one) /\ one \in SUBSET s1.live
      BY <1>1, <1>2, <1>5 DEF Departed
    <2> HIDE DEF one
    <2>2. t.live = s1.live
      BY <1>2, <2>1, RefreshWeak
    <2> QED
      BY <1>2, <2>2 DEF Departed, t
  <1> QED
    BY <1>4, <1>5

\* moveConn loses nothing.
LEMMA MoveSpares ==
  ASSUME NEW s, Sound(s), NEW r \in ConnId, NEW dst \in s.live
  PROVE  Spared(s, MoveConn(s, r, dst))
  <1> DEFINE src == s.conns[r].track
             s1 == IF src \in {NoKey, dst} THEN s ELSE Leave(s, r, src, dst)
             s2 == Join(s1, r, dst)
             one == {dst}
             t == MoveConn(s, r, dst)
  <1>1. t = RefreshDeclared(s2, one)
    BY DEF MoveConn
  <1>2. /\ Weak(s1, {r}) /\ NoOrphan(s1, {r}) /\ dst \in s1.live
        /\ \A k \in Key : k # dst => r \notin s1.tracks[k].conns
        /\ \/ s1.live = s.live
           \/ /\ s1.live = s.live \ {src} /\ s.tracks[src].conns \subseteq {r}
              /\ s.tracks[src].procs = NoTrack.procs /\ s.tracks[src].net = {}
              /\ Saved(s.execs[src], s1.execs[dst])
    <2>1. CASE src \in {NoKey, dst}
      BY <2>1, NoKeyFact DEF Sound, Weak, Listed, Reached, NoOrphan
    <2>2. CASE src \notin {NoKey, dst}
      <3>1. src \in s.live
        BY <2>2 DEF Sound, NoOrphan
      <3> DEFINE left == Leave(s, r, src, dst)
      <3>2. s1 = left /\ src # dst
        BY <2>2
      <3>3. Weak(left, {r}) /\ NoOrphan(left, {r}) /\ dst \in left.live
            /\ \A k \in Key : r \notin left.tracks[k].conns
        BY <3>1, <3>2, LeaveWeak
      <3>4. \/ left.live = s.live
            \/ /\ left.live = s.live \ {src} /\ s.tracks[src].conns \subseteq {r}
               /\ s.tracks[src].procs = NoTrack.procs /\ s.tracks[src].net = {}
               /\ Saved(s.execs[src], left.execs[dst])
        BY <3>1, <3>2, LeaveSpares
      <3> HIDE DEF s1, left
      <3> QED
        BY <3>2, <3>3, <3>4
    <2> QED
      BY <2>1, <2>2
  <1> HIDE DEF s1, t
  <1>3. Sound(s2) /\ s2.live = s1.live
    BY <1>2, JoinSound
  <1>4. s2.execs = s1.execs /\ r \in s2.tracks[dst].conns
    <2> DEFINE joined == [s1.tracks[dst] EXCEPT !.conns = s1.tracks[dst].conns \cup {r}]
    <2>1. s2.execs = s1.execs /\ s2.tracks = [s1.tracks EXCEPT ![dst] = joined]
      BY <1>2 DEF Join, Weak, StateOK
    <2>2. dst \in Key /\ s1.tracks \in [Key -> Track] /\ s1.tracks[dst] \in Track
      BY <1>2 DEF Weak, StateOK
    <2>3. joined.conns = s1.tracks[dst].conns \cup {r}
      BY <2>2 DEF Track
    <2> HIDE DEF joined, s2
    <2> QED
      BY <2>1, <2>2, <2>3
  <1> HIDE DEF s2
  <1>5. Weak(s2, {}) /\ one \in SUBSET s2.live /\ dst \in Key
    BY <1>2, <1>3 DEF Sound, Weak, StateOK
  <1> HIDE DEF one
  <1>6. t.live = s2.live /\ t.execs = s2.execs /\ t.tracks[dst].conns = s2.tracks[dst].conns
    BY <1>1, <1>5, RefreshWeak
  <1> SUFFICES ASSUME NEW k \in s.live, k \notin t.live
               PROVE  Taken(s, k, t)
    BY DEF Spared, t
  <1>7. /\ k = src /\ s.tracks[k].conns \subseteq {r}
        /\ s.tracks[k].procs = NoTrack.procs /\ s.tracks[k].net = {}
        /\ Saved(s.execs[k], s1.execs[dst])
    BY <1>2, <1>3, <1>6
  <1>8. \A p \in Pid : NoTrack.procs[p].seen = 0
    BY DEF NoTrack, NoProc
  <1>9. s.tracks[k].conns \subseteq t.tracks[dst].conns /\ Saved(s.execs[k], t.execs[dst])
    BY <1>4, <1>6, <1>7
  <1> HIDE DEF src
  <1> QED
    BY <1>2, <1>3, <1>6, <1>7, <1>8, <1>9 DEF Taken

\* moveConn.
LEMMA MoveHeld ==
  ASSUME NEW s, Sound(s), NEW r \in ConnId, NEW dst \in s.live, NEW X, NEW T,
         Held(s, X, {}, T)
  PROVE  LET t == MoveConn(s, r, dst) IN
         /\ Held(t, X, {}, T)
         /\ t.conns = Moved(s.conns, r, dst)
         /\ t.live \subseteq s.live
  <1> DEFINE src == s.conns[r].track
             s1 == IF src \in {NoKey, dst} THEN s ELSE Leave(s, r, src, dst)
             s2 == Join(s1, r, dst)
             one == {dst}
  <1>1. MoveConn(s, r, dst) = RefreshDeclared(s2, one)
    BY DEF MoveConn
  <1>2. /\ Weak(s1, {r}) /\ NoOrphan(s1, {r}) /\ dst \in s1.live
        /\ \A k \in Key : k # dst => r \notin s1.tracks[k].conns
        /\ Held(s1, X, {}, T) /\ s1.conns = s.conns /\ s1.live \subseteq s.live
    <2>1. CASE src \in {NoKey, dst}
      BY <2>1, NoKeyFact DEF Sound, Weak, Listed, Reached, NoOrphan
    <2>2. CASE src \notin {NoKey, dst}
      <3>1. src \in s.live
        BY <2>2 DEF Sound, NoOrphan
      <3> DEFINE left == Leave(s, r, src, dst)
      <3>2. s1 = left /\ src # dst
        BY <2>2
      <3>3. Weak(left, {r}) /\ NoOrphan(left, {r}) /\ dst \in left.live
            /\ \A k \in Key : r \notin left.tracks[k].conns
        BY <3>1, <3>2, LeaveWeak
      <3>4. Held(left, X, {}, T) /\ left.conns = s.conns /\ left.live \subseteq s.live
        BY <3>1, <3>2, LeaveHeld
      <3> HIDE DEF s1, left
      <3> QED
        BY <3>2, <3>3, <3>4
    <2> QED
      BY <2>1, <2>2
  <1> HIDE DEF s1
  <1>3. Sound(s2) /\ s2.live = s1.live
    BY <1>2, JoinSound
  <1>4. /\ Calm(s1, s2, one)
        /\ s2.conns = Moved(s1.conns, r, dst)
    BY <1>2, JoinCalm
  <1> HIDE DEF s2
  <1>5. Weak(s2, {})
    BY <1>3 DEF Sound
  <1>6. one \in SUBSET s2.live
    BY <1>2, <1>3
  <1> HIDE DEF one
  <1>7. Held(s2, X, one, T)
    BY <1>2, <1>4, <1>5, CalmHeld
  <1>8. /\ Held(RefreshDeclared(s2, one), X, one \ one, T)
        /\ RefreshDeclared(s2, one).conns = s2.conns /\ RefreshDeclared(s2, one).live = s2.live
    BY <1>5, <1>6, <1>7, RefreshHeld, RefreshWeak
  <1>9. one \ one = {}
    OBVIOUS
  <1> QED
    BY <1>1, <1>2, <1>3, <1>4, <1>8, <1>9

\* Looking up or making the track a connection moves to.
LEMMA SettleHeld ==
  ASSUME NEW s, Sound(s), NEW r \in ConnId, NEW k \in Key, NEW ts \in Nat, NEW T \in Nat,
         ts <= T, Held(s, {}, {}, T)
  PROVE  LET t == MoveConn(TrackFor(s, k, ts), r, k) IN
         /\ Held(t, {k}, {}, T)
         /\ t.conns = Moved(s.conns, r, k)
         /\ t.live \subseteq s.live \cup {k}
  <1> DEFINE s1 == TrackFor(s, k, ts)
  <1>1. Sound(s1) /\ k \in s1.live /\ s1.conns = s.conns /\ Held(s1, {k}, {}, T)
    BY TrackForSound, TrackForHeld
  <1>2. s1.live \subseteq s.live \cup {k}
    BY DEF TrackFor, Sound, Weak, StateOK
  <1> HIDE DEF s1
  <1>3. LET t == MoveConn(s1, r, k) IN
        /\ Held(t, {k}, {}, T)
        /\ t.conns = Moved(s1.conns, r, k)
        /\ t.live \subseteq s1.live
    BY <1>1, MoveHeld
  <1> QED
    BY <1>1, <1>2, <1>3 DEF s1

Written(conns, r, cn) == [conns EXCEPT ![r] = cn]

Put(s, r, cn) == Index([s EXCEPT !.conns[r] = cn], r)

Settled(s, r, cn, k, ts) == MoveConn(TrackFor(Put(s, r, cn), k, ts), r, k)

\* Writing back a connection that was found, or that is new, and indexing it.
LEMMA PutCalm ==
  ASSUME NEW s, Sound(s), NEW r \in ConnId, NEW cn,
         cn.declared = s.conns[r].declared \/ ~Referenced(s, r)
  PROVE  LET t == Put(s, r, cn) IN
         Calm(s, t, {}) /\ t.conns = Written(s.conns, r, cn)
  <1> DEFINE t == Put(s, r, cn)
  <1>1. /\ t.live = s.live /\ t.tracks = s.tracks /\ t.userLast = s.userLast
        /\ t.conns = [s.conns EXCEPT ![r] = cn]
    BY DEF Put, Index, Sound, Weak, StateOK
  <1> HIDE DEF t
  <1>2. ASSUME NEW k \in s.live, NEW q \in s.tracks[k].conns
        PROVE  t.conns[q].declared = s.conns[q].declared
    <2>1. s.tracks[k] \in Track
      BY DEF Sound, Weak, StateOK
    <2>2. q \in ConnId
      BY <2>1 DEF Track
    <2>3. q = r => cn.declared = s.conns[r].declared
      BY DEF Referenced
    <2> QED
      BY <1>1, <2>2, <2>3 DEF Sound, Weak, StateOK
  <1>3. Calm(s, t, {})
    BY <1>1, <1>2 DEF Calm
  <1> QED
    BY <1>1, <1>3 DEF t, Written

\* The claims and the activity of the tracks are as they were.
LEMMA PutHeld ==
  ASSUME NEW s, Sound(s), NEW r \in ConnId, NEW cn, NEW T, Fine(s, T),
         cn.declared = s.conns[r].declared \/ ~Referenced(s, r), Sound(Put(s, r, cn))
  PROVE  Held(Put(s, r, cn), {}, {}, T)
  <1>1. Calm(s, Put(s, r, cn), {}) /\ Weak(Put(s, r, cn), {}) /\ Held(s, {}, {}, T)
    BY PutCalm DEF Sound, Fine
  <1> QED
    BY <1>1, CalmHeld

\* Writing a connection back leaves the tracks alone.
LEMMA PutAlike ==
  ASSUME NEW s, Sound(s), NEW r, NEW cn
  PROVE  Alike(s, Put(s, r, cn)) /\ Put(s, r, cn).live = s.live
  <1>1. /\ Put(s, r, cn).live = s.live /\ Put(s, r, cn).tracks = s.tracks
        /\ Put(s, r, cn).execs = s.execs
    BY DEF Put, Index, Sound, Weak, StateOK
  <1> QED
    BY <1>1 DEF Alike

\* Making a track leaves the other tracks alone.
LEMMA TrackForAlike ==
  ASSUME NEW s, Sound(s), NEW k \in Key, NEW ts
  PROVE  Alike(s, TrackFor(s, k, ts))
  <1> DEFINE t == TrackFor(s, k, ts)
             new == [NoTrack EXCEPT !.lastSeen = ts]
  <1>1. CASE k \in s.live
    BY <1>1 DEF TrackFor, Alike
  <1>2. CASE k \notin s.live
    <2>1. /\ t.live = s.live \cup {k} /\ t.execs = s.execs
          /\ t.tracks = [s.tracks EXCEPT ![k] = new]
      BY <1>2 DEF TrackFor, Sound, Weak, StateOK
    <2> HIDE DEF t, new
    <2>2. \A j \in s.live : t.tracks[j] = s.tracks[j]
      BY <1>2, <2>1 DEF Sound, Weak, StateOK
    <2> QED
      BY <2>1, <2>2 DEF Alike, t
  <1> QED
    BY <1>1, <1>2

\* A connection that is written back and moved to a track loses nothing.
LEMMA SettleSpares ==
  ASSUME NEW s, Sound(s), NEW r \in ConnId, NEW cn, Sound(Put(s, r, cn)),
         NEW k \in Key, NEW ts \in Nat
  PROVE  Spared(s, Settled(s, r, cn, k, ts))
  <1> DEFINE u == Put(s, r, cn)
             v == TrackFor(u, k, ts)
             t == Settled(s, r, cn, k, ts)
  <1>1. Alike(s, u) /\ Sound(u)
    BY PutAlike
  <1>2. t = MoveConn(v, r, k)
    BY DEF Settled
  <1> HIDE DEF u, t
  <1>3. Alike(u, v) /\ Sound(v) /\ k \in v.live
    BY <1>1, TrackForAlike, TrackForSound
  <1> HIDE DEF v
  <1>4. Spared(v, t)
    BY <1>2, <1>3, MoveSpares
  <1>5. Spared(u, t)
    BY <1>3, <1>4, AlikeSpared
  <1>6. Spared(s, t)
    BY <1>1, <1>5, AlikeSpared
  <1> QED
    BY <1>6 DEF t

\* An exempt track asks less.
LEMMA HeldMono ==
  ASSUME NEW s, NEW X, NEW Y, NEW T, Held(s, {}, Y, T)
  PROVE  Held(s, X, Y, T)
  BY DEF Held, Newest

\* The connections after one has been put on a track: it has the identity of
\* the track if the track is the one of its identity.
LEMMA MovedIdentified ==
  ASSUME NEW s, Sound(s), Identified(s), NEW r \in ConnId, NEW cn \in Conn,
         KeyOf(cn) \in Key, cn.user # "", NEW t,
         t.conns = Moved(Written(s.conns, r, cn), r, KeyOf(cn))
  PROVE  Identified(t) /\ t.conns[r].track = KeyOf(cn)
  <1> DEFINE k == KeyOf(cn)
             moved == [cn EXCEPT !.track = k]
  <1>1. /\ moved.track = k /\ moved.user = cn.user /\ moved.ip = cn.ip /\ moved.fp = cn.fp
    BY DEF Conn
  <1>2. s.conns \in [ConnId -> Conn]
    BY DEF Sound, Weak, StateOK
  <1> DEFINE conns == Written(s.conns, r, cn)
  <1>3. conns \in [ConnId -> Conn] /\ conns[r] = cn
        /\ \A q \in ConnId : q # r => conns[q] = s.conns[q]
    BY <1>2 DEF Written
  <1> HIDE DEF conns
  <1>4. t.conns = Moved(conns, r, k)
    BY DEF conns
  <1>5. t.conns[r] = moved /\ \A q \in ConnId : q # r => t.conns[q] = conns[q]
    BY <1>3, <1>4 DEF Moved
  <1> HIDE DEF moved
  <1>6. Named(moved)
    BY <1>1 DEF Named, KeyOf
  <1> QED
    BY <1>1, <1>3, <1>5, <1>6 DEF Identified

\* What filling a connection from an event makes of its names.
LEMMA FillNames ==
  ASSUME NEW cn \in Conn, NEW e \in Event
  PROVE  /\ FillConn(cn, e).user = IF e.user # "" THEN e.user ELSE cn.user
         /\ FillConn(cn, e).ip = IF e.ip # "" THEN e.ip ELSE cn.ip
         /\ FillConn(cn, e).fp = cn.fp
         /\ FillConn(cn, e).declared = cn.declared
  BY DEF FillConn, Conn

\* newConn: the connection has the names of the event and no key.
LEMMA NewConnNames ==
  ASSUME NEW e \in Event, NEW ts \in Nat
  PROVE  /\ NewConn(e, ts).user = e.user /\ NewConn(e, ts).ip = e.ip
         /\ NewConn(e, ts).fp = ""
  <1> DEFINE blank == [NoConn EXCEPT !.open = TRUE, !.opened = ts]
  <1>1. blank \in Conn /\ blank.user = "" /\ blank.ip = "" /\ blank.fp = ""
    BY TypesFact DEF NoConn, Conn, Time
  <1> HIDE DEF blank
  <1>2. NewConn(e, ts) = FillConn(blank, e)
    BY DEF NewConn, blank
  <1> QED
    BY <1>1, <1>2, FillNames

\* A connection written back, or a new one, that is put on the track of its
\* identity.
LEMMA PutSettle ==
  ASSUME NEW s, Sound(s), NEW T \in Nat, Fine(s, T), NEW r \in ConnId, NEW cn \in Conn,
         KeyOf(cn) \in Key, cn.user # "", NEW ts \in Nat, ts <= T, Sound(Put(s, r, cn)),
         cn.declared = s.conns[r].declared \/ ~Referenced(s, r)
  PROVE  LET t == Settled(s, r, cn, KeyOf(cn), ts) IN
         Identified(t) /\ Held(t, {t.conns[r].track}, {}, T) /\ Grown(s, t, r)
  <1> DEFINE k == KeyOf(cn)
             u == Put(s, r, cn)
             t == Settled(s, r, cn, k, ts)
  <1>1. Calm(s, u, {}) /\ u.conns = Written(s.conns, r, cn)
    BY PutCalm
  <1>2. Sound(u) /\ Weak(u, {})
    BY DEF Sound
  <1> HIDE DEF u
  <1>3. Held(u, {}, {}, T)
    BY PutHeld DEF u
  <1>4. /\ Held(t, {k}, {}, T) /\ t.conns = Moved(u.conns, r, k)
        /\ t.live \subseteq u.live \cup {k}
    <2>1. k \in Key
      OBVIOUS
    <2>2. Settled(s, r, cn, k, ts) = MoveConn(TrackFor(u, k, ts), r, k)
      BY DEF Settled, u
    <2> HIDE DEF k
    <2>3. /\ Held(MoveConn(TrackFor(u, k, ts), r, k), {k}, {}, T)
          /\ MoveConn(TrackFor(u, k, ts), r, k).conns = Moved(u.conns, r, k)
          /\ MoveConn(TrackFor(u, k, ts), r, k).live \subseteq u.live \cup {k}
      BY <1>2, <1>3, <2>1, SettleHeld
    <2> QED
      BY <2>2, <2>3
  <1> HIDE DEF t
  <1>5. Identified(t) /\ t.conns[r].track = k
    <2>1. t.conns = Moved(Written(s.conns, r, cn), r, k)
      BY <1>1, <1>4
    <2>2. Identified(s)
      BY DEF Fine
    <2> QED
      BY <2>1, <2>2, MovedIdentified
  <1>6. u.live \subseteq s.live
    BY <1>1 DEF Calm
  <1>7. Grown(s, t, r)
    BY <1>4, <1>5, <1>6 DEF Grown
  <1> QED
    BY <1>4, <1>5, <1>7 DEF t

\* authOK.
LEMMA AcceptFine ==
  ASSUME NEW s, Sound(s), NEW e \in Event, e.user \in User,
         NEW fp \in FP \cup {""}, NEW ts \in Nat, NEW r \in Target(s, e),
         NEW T \in Nat, ts <= T, Fine(s, T)
  PROVE  LET t == Accept(s, r, e, fp, ts) IN
         Identified(t) /\ Held(t, {t.conns[r].track}, {}, T) /\ Grown(s, t, r) /\ Spared(s, t)
  <1> DEFINE found == FindConn(s, e)
             old == IF found # NoRef THEN s.conns[r] ELSE NewConn(e, ts)
             filled == FillConn(old, e)
             cn == [filled EXCEPT !.fp = IF fp # "" THEN fp ELSE @]
             key == KeyOf(cn)
             s1 == Put(s, r, cn)
  <1>1. /\ r \in ConnId
        /\ found # NoRef => r = found
        /\ found = NoRef => ~Referenced(s, r)
    BY TargetRange
  <1>2. /\ old \in Conn
        /\ old = s.conns[r] \/ (~Referenced(s, r) /\ old.track = NoKey)
    BY <1>1, NewConnType DEF Sound, Weak, StateOK
  <1> HIDE DEF old, found
  <1>3. /\ filled \in Conn /\ filled.track = old.track /\ filled.child = old.child
        /\ old.pid # 0 => filled.pid = old.pid
        /\ filled.user = e.user /\ filled.declared = old.declared
    BY <1>2, FillType, FillNames, NamesAssumption
  <1> HIDE DEF filled
  <1>4. /\ cn \in Conn /\ cn.track = old.track /\ cn.child = old.child
        /\ old.pid # 0 => cn.pid = old.pid
        /\ cn.user = e.user /\ cn.declared = old.declared
    <2>1. /\ DOMAIN cn = DOMAIN filled /\ cn = [x \in DOMAIN filled |-> cn[x]]
          /\ cn.fp = IF fp # "" THEN fp ELSE filled.fp
          /\ \A x \in DOMAIN filled : x # "fp" => cn[x] = filled[x]
      BY <1>3 DEF Conn
    <2>2. cn.fp \in FP \cup {""}
      BY <1>3, <2>1 DEF Conn
    <2> HIDE DEF cn
    <2> QED
      BY <1>3, <2>1, <2>2 DEF Conn
  <1> HIDE DEF cn
  <1>5. key \in Key /\ cn.user # ""
    BY <1>4, NamesAssumption DEF Conn, Key, KeyOf
  <1>6. Sound(s1)
    BY <1>1, <1>2, <1>4, PutSound DEF Put
  <1>7. cn.declared = s.conns[r].declared \/ ~Referenced(s, r)
    BY <1>2, <1>4
  <1> DEFINE moved == Settled(s, r, cn, key, ts)
  <1>8. Accept(s, r, e, fp, ts) = IF cn.track = key THEN s1 ELSE moved
    BY DEF Accept, old, found, filled, cn, KeyOf, Put, Settled
  <1>9. Identified(moved) /\ Held(moved, {moved.conns[r].track}, {}, T) /\ Grown(s, moved, r)
        /\ Spared(s, moved)
    BY <1>1, <1>4, <1>5, <1>6, <1>7, PutSettle, SettleSpares
  <1>10. CASE cn.track = key
    <2>1. Calm(s, s1, {}) /\ s1.conns = Written(s.conns, r, cn)
      BY <1>1, <1>7, PutCalm
    <2>2. Held(s1, {}, {}, T) /\ Spared(s, s1)
      BY <1>1, <1>6, <1>7, PutHeld, PutAlike, LiveSpared
    <2> HIDE DEF s1
    <2>3. Held(s1, {s1.conns[r].track}, {}, T)
      BY <2>2, HeldMono
    <2>4. Named(cn)
      BY <1>5, <1>10 DEF Named
    <2>5. \A q \in ConnId : s1.conns[q] \in {s.conns[q], cn}
      BY <2>1 DEF Written, Sound, Weak, StateOK
    <2>6. Identified(s1)
      BY <2>4, <2>5 DEF Identified, Fine
    <2>7. Grown(s, s1, r)
      BY <2>1 DEF Calm, Grown
    <2> QED
      BY <1>8, <1>10, <2>2, <2>3, <2>6, <2>7
  <1>11. CASE cn.track # key
    <2> HIDE DEF moved
    <2> QED
      BY <1>8, <1>9, <1>11
  <1> QED
    BY <1>10, <1>11

\* ensureConn.
LEMMA EnsureConnFine ==
  ASSUME NEW s, Sound(s), NEW e \in Event, e.user = "" => e.ip = "",
         NEW ts \in Nat, NEW r \in Target(s, e), NEW T \in Nat, ts <= T, Fine(s, T)
  PROVE  LET t == EnsureConn(s, r, e, ts) IN
         Identified(t) /\ Held(t, {t.conns[r].track}, {}, T) /\ Grown(s, t, r) /\ Spared(s, t)
  <1> DEFINE found == FindConn(s, e)
             key == [user |-> e.user, fp |-> "-", ip |-> e.ip]
             cn == IF found # NoRef THEN FillConn(s.conns[r], e) ELSE NewConn(e, ts)
             s1 == Put(s, r, cn)
             moved == Settled(s, r, cn, KeyOf(cn), ts)
             t == EnsureConn(s, r, e, ts)
  <1>1. /\ r \in ConnId
        /\ found # NoRef => r = found
        /\ found = NoRef => ~Referenced(s, r)
    BY TargetRange
  <1>2. CASE found # NoRef /\ ~(s.conns[r].user = "" /\ e.user # "")
    <2>1. t = s
      BY <1>2 DEF EnsureConn
    <2>2. Grown(s, s, r) /\ Spared(s, s)
      BY LiveSpared DEF Grown
    <2> QED
      BY <2>1, <2>2, HeldMono DEF Fine
  <1>3. CASE ~(found # NoRef /\ ~(s.conns[r].user = "" /\ e.user # ""))
    <2>1. e.user = "" => t = s1
      BY <1>3 DEF EnsureConn, Put
    <2>2. /\ cn \in Conn /\ cn.user = e.user /\ cn.ip = e.ip /\ cn.fp = ""
          /\ cn.declared = s.conns[r].declared \/ ~Referenced(s, r)
          /\ Sound(s1)
          /\ found = NoRef => cn.track = NoKey
      <3>1. CASE found # NoRef
        <4>1. s.conns[r] \in Conn /\ Named(s.conns[r])
          BY <1>1 DEF Sound, Weak, StateOK, Fine, Identified
        <4>2. e.user # "" /\ s.conns[r].ip = "" /\ s.conns[r].fp = ""
          BY <1>3, <3>1, <4>1 DEF Named
        <4>3. /\ cn \in Conn /\ cn.track = s.conns[r].track /\ cn.child = s.conns[r].child
              /\ s.conns[r].pid # 0 => cn.pid = s.conns[r].pid
          BY <3>1, <4>1, FillType
        <4>4. cn.user = e.user /\ cn.ip = e.ip /\ cn.fp = "" /\ cn.declared = s.conns[r].declared
          BY <3>1, <4>1, <4>2, FillNames
        <4> HIDE DEF cn
        <4>5. Sound(s1)
          BY <1>1, <4>1, <4>3, PutSound DEF Put
        <4> QED
          BY <3>1, <4>3, <4>4, <4>5
      <3>2. CASE found = NoRef
        <4>1. cn \in Conn /\ cn.track = NoKey
          BY <3>2, NewConnType
        <4>2. cn.user = e.user /\ cn.ip = e.ip /\ cn.fp = ""
          BY <3>2, NewConnNames
        <4> HIDE DEF cn
        <4>3. Sound(s1)
          BY <1>1, <3>2, <4>1, PutSound DEF Put
        <4> QED
          BY <1>1, <3>2, <4>1, <4>2, <4>3
      <3> QED
        BY <3>1, <3>2
    <2> HIDE DEF cn
    <2>3. CASE e.user = ""
      <3>1. Calm(s, s1, {}) /\ s1.conns = Written(s.conns, r, cn)
        BY <1>1, <2>2, PutCalm
      <3>2. Held(s1, {}, {}, T) /\ Spared(s, s1)
        BY <1>1, <2>2, PutHeld, PutAlike, LiveSpared
      <3> HIDE DEF s1
      <3>3. Held(s1, {s1.conns[r].track}, {}, T)
        BY <3>2, HeldMono
      <3>4. Named(cn)
        BY <1>3, <2>2, <2>3 DEF Named
      <3>5. \A q \in ConnId : s1.conns[q] \in {s.conns[q], cn}
        BY <3>1 DEF Written, Sound, Weak, StateOK
      <3>6. Identified(s1)
        BY <3>4, <3>5 DEF Identified, Fine
      <3>7. Grown(s, s1, r)
        BY <3>1 DEF Calm, Grown
      <3> QED
        BY <2>1, <2>3, <3>2, <3>3, <3>6, <3>7
    <2>4. CASE e.user # ""
      <3>1. KeyOf(cn) \in Key /\ cn.user # ""
        BY <2>2, <2>4 DEF Key, KeyOf, Event
      <3>2. Identified(moved) /\ Held(moved, {moved.conns[r].track}, {}, T) /\ Grown(s, moved, r)
            /\ Spared(s, moved)
        BY <1>1, <2>2, <3>1, PutSettle, SettleSpares
      <3>3. t = moved
        <4>1. KeyOf(cn) = key
          BY <2>2 DEF KeyOf
        <4>2. t = MoveConn(TrackFor(s1, key, ts), r, key)
          BY <1>3, <2>4 DEF EnsureConn, Put, cn
        <4> HIDE DEF key, s1
        <4> QED
          BY <4>1, <4>2 DEF Settled, s1
      <3> HIDE DEF moved, s1
      <3> QED
        BY <3>2, <3>3
    <2> QED
      BY <2>3, <2>4
  <1> QED
    BY <1>2, <1>3

\* What changes no track, no name and no claim changes nothing here.
LEMMA QuietHeld ==
  ASSUME NEW s, NEW t, NEW X, NEW T, Weak(t, {}), Identified(s), Held(s, X, {}, T),
         t.live = s.live, t.tracks = s.tracks, t.userLast = s.userLast,
         \A r \in ConnId : /\ t.conns[r].user = s.conns[r].user
                           /\ t.conns[r].ip = s.conns[r].ip
                           /\ t.conns[r].fp = s.conns[r].fp
                           /\ t.conns[r].track = s.conns[r].track
                           /\ t.conns[r].declared = s.conns[r].declared
  PROVE  Identified(t) /\ Held(t, X, {}, T)
  <1>1. Identified(t)
    BY NamesFrame
  <1>2. \A k \in t.live : t.tracks[k].conns \subseteq ConnId
    BY DEF Weak, StateOK, Track
  <1>3. Calm(s, t, {})
    BY <1>2 DEF Calm
  <1>4. Held(t, X, {}, T)
    BY <1>3, CalmHeld
  <1> QED
    BY <1>1, <1>4

\* A claim accepted on a connection: the track it is on shows what is claimed.
LEMMA DeclareHeld ==
  ASSUME NEW s, Sound(s), NEW r \in ConnId, NEW agent \in Agent, NEW X, NEW T,
         Identified(s), Held(s, X, {}, T)
  PROVE  /\ Identified(Declare(s, r, agent)) /\ Held(Declare(s, r, agent), X, {}, T)
         /\ Stays(s, Declare(s, r, agent))
  <1> DEFINE cn == [s.conns[r] EXCEPT !.declared = agent]
             s1 == [s EXCEPT !.conns[r] = cn]
             k == s.conns[r].track
             one == {k}
  <1>1. /\ cn \in Conn /\ cn.track = s.conns[r].track
        /\ cn.child = s.conns[r].child /\ cn.pid = s.conns[r].pid
        /\ cn.user = s.conns[r].user /\ cn.ip = s.conns[r].ip /\ cn.fp = s.conns[r].fp
    <2>1. s.conns[r] \in Conn
      BY DEF Sound, Weak, StateOK
    <2> QED
      BY <2>1 DEF Conn
  <1>2. Declare(s, r, agent) = IF k = NoKey THEN s1 ELSE RefreshDeclared(s1, one)
    BY DEF Declare
  <1> HIDE DEF cn
  <1>3. Sound(s1)
    BY <1>1, UpdateSound
  <1>4. /\ s1.live = s.live /\ s1.tracks = s.tracks /\ s1.userLast = s.userLast
        /\ s1.execs = s.execs
        /\ \A q \in ConnId : s1.conns[q] = IF q = r THEN cn ELSE s.conns[q]
    BY DEF Sound, Weak, StateOK
  <1> HIDE DEF s1
  <1>5. Identified(s1)
    BY <1>1, <1>4, NamesFrame
  <1>6. Calm(s, s1, one)
    <2>1. ASSUME NEW j \in s.live \ one, NEW q \in s.tracks[j].conns
          PROVE  s1.conns[q].declared = s.conns[q].declared
      <3>1. j \in Key /\ s.tracks[j] \in Track
        BY DEF Sound, Weak, StateOK
      <3>2. q \in ConnId /\ q # r
        BY <3>1 DEF Sound, Weak, Listed, Track
      <3> QED
        BY <1>4, <3>2
    <2> QED
      BY <1>4, <2>1 DEF Calm
  <1>7. Weak(s1, {})
    BY <1>3 DEF Sound
  <1> HIDE DEF one
  <1>8. Held(s1, X, one, T)
    BY <1>6, <1>7, CalmHeld
  <1>9. CASE k = NoKey
    <2>1. s1.live \ one = s1.live
      BY <1>7, <1>9, NoKeyFact DEF one, Weak, StateOK
    <2>2. Held(s1, X, {}, T)
      BY <1>8, <2>1 DEF Held, Backed
    <2>3. Stays(s, s1)
      BY <1>4, SameStays
    <2> QED
      BY <1>2, <1>5, <1>9, <2>2, <2>3
  <1>10. CASE k # NoKey
    <2> DEFINE t == RefreshDeclared(s1, one)
    <2>1. one \in SUBSET s1.live
      BY <1>4, <1>10 DEF one, Sound, NoOrphan
    <2>2. /\ Held(t, X, one \ one, T) /\ t.conns = s1.conns
          /\ t.live = s1.live /\ t.execs = s1.execs
          /\ \A j \in Key : t.tracks[j].conns = s1.tracks[j].conns
      BY <1>7, <1>8, <2>1, RefreshHeld, RefreshWeak
    <2>3. one \ one = {}
      OBVIOUS
    <2> HIDE DEF t
    <2>4. Identified(t)
      BY <1>5, <2>2, NamesFrame
    <2>5. s.live \subseteq Key
      BY DEF Sound, Weak, StateOK
    <2>6. Stays(s, t)
      BY <1>4, <2>2, <2>5, SameStays
    <2> QED
      BY <1>2, <1>10, <2>2, <2>3, <2>4, <2>6 DEF t
  <1> QED
    BY <1>9, <1>10

\* Learning which account an uid belongs to.
LEMMA LearnHeld ==
  ASSUME NEW s, Sound(s), NEW user, NEW X, NEW T, Identified(s), Held(s, X, {}, T)
  PROVE  Identified(Learn(s, user)) /\ Held(Learn(s, user), X, {}, T)
  <1> DEFINE t == Learn(s, user)
  <1>1. /\ t.live = s.live /\ t.conns = s.conns /\ t.tracks = s.tracks
        /\ t.userLast = s.userLast
    BY DEF Learn, Sound, Weak, StateOK
  <1>2. Weak(t, {})
    BY LearnSound DEF Sound
  <1> HIDE DEF t
  <1>3. Identified(t) /\ Held(t, X, {}, T)
    BY <1>1, <1>2, QuietHeld
  <1> QED
    BY <1>3 DEF t

\* The post-auth child of a connection.
LEMMA ChildHeld ==
  ASSUME NEW s, Sound(s), NEW r \in ConnId, NEW child \in Pid, s.conns[r].child = 0,
         NEW X, NEW T, Identified(s), Held(s, X, {}, T)
  PROVE  Identified(Child(s, r, child)) /\ Held(Child(s, r, child), X, {}, T)
  <1> DEFINE t == Child(s, r, child)
             cn == [s.conns[r] EXCEPT !.child = child]
  <1>1. /\ t.live = s.live /\ t.tracks = s.tracks /\ t.userLast = s.userLast
        /\ \A q \in ConnId : t.conns[q] = IF q = r THEN cn ELSE s.conns[q]
    BY DEF Child, Sound, Weak, StateOK
  <1>2. /\ cn.user = s.conns[r].user /\ cn.ip = s.conns[r].ip /\ cn.fp = s.conns[r].fp
        /\ cn.track = s.conns[r].track /\ cn.declared = s.conns[r].declared
    <2>1. s.conns[r] \in Conn
      BY DEF Sound, Weak, StateOK
    <2> QED
      BY <2>1 DEF Conn
  <1>3. Weak(t, {})
    BY ChildSound DEF Sound
  <1> HIDE DEF t, cn
  <1>4. Identified(t) /\ Held(t, X, {}, T)
    BY <1>1, <1>2, <1>3, QuietHeld
  <1> QED
    BY <1>4 DEF t

\* Closing a connection.
LEMMA CloseHeld ==
  ASSUME NEW s, Sound(s), NEW r \in ConnId, NEW X, NEW T, Identified(s), Held(s, X, {}, T)
  PROVE  Identified(Close(s, r)) /\ Held(Close(s, r), X, {}, T)
  <1> DEFINE t == Close(s, r)
             cn == [s.conns[r] EXCEPT !.open = FALSE]
  <1>1. /\ t.live = s.live /\ t.tracks = s.tracks /\ t.userLast = s.userLast
        /\ \A q \in ConnId : t.conns[q] = IF q = r THEN cn ELSE s.conns[q]
    BY DEF Close, Unindex, Sound, Weak, StateOK
  <1>2. /\ cn.user = s.conns[r].user /\ cn.ip = s.conns[r].ip /\ cn.fp = s.conns[r].fp
        /\ cn.track = s.conns[r].track /\ cn.declared = s.conns[r].declared
    <2>1. s.conns[r] \in Conn
      BY DEF Sound, Weak, StateOK
    <2> QED
      BY <2>1 DEF Conn
  <1>3. Weak(t, {})
    BY CloseSound DEF Sound
  <1> HIDE DEF t, cn
  <1>4. Identified(t) /\ Held(t, X, {}, T)
    BY <1>1, <1>2, <1>3, QuietHeld
  <1> QED
    BY <1>4 DEF t

\* auditLogin.
LEMMA LoginFine ==
  ASSUME NEW s, Sound(s), NEW e \in Event, NEW ses \in Ses \cup {0}, NEW ts \in Nat,
         NEW r \in Candidates(s, e), NEW T \in Nat, ts <= T, Fine(s, T)
  PROVE  LET t == Login(s, r, e, ses, ts) IN
         Identified(t) /\ Held(t, {t.conns[r].track}, {}, T) /\ Grown(s, t, r) /\ Spared(s, t)
  <1> DEFINE known == FindConn(s, e) # NoRef \/ RecentOpenConn(s, e.user, e.ip) # {}
             key == [user |-> e.user, fp |-> "-", ip |-> e.ip]
             cn == NewConn(e, ts)
             moved == MoveConn(TrackFor(Put(s, r, cn), key, ts), r, key)
             s1 == IF known THEN s ELSE moved
             k == s1.conns[r].track
             joined == [s1.conns[r] EXCEPT !.ses = ses]
             t == Login(s, r, e, ses, ts)
  <1>1. r \in ConnId
    BY CandidatesRange
  <1>2. t = IF ses = 0 THEN s1
            ELSE [s1 EXCEPT !.conns[r].ses = ses, !.bySes[ses] = IF k = NoKey THEN @ ELSE k]
    BY DEF Login, Put
  <1>3. Sound(s1) /\ Identified(s1) /\ Held(s1, {k}, {}, T) /\ Grown(s, s1, r)
        /\ Spared(s, s1)
    <2>1. CASE known
      <3>1. Grown(s, s, r) /\ Spared(s, s)
        BY LiveSpared DEF Grown
      <3> QED
        BY <2>1, <3>1, HeldMono DEF Fine
    <2>2. CASE ~known
      <3>1. ~Referenced(s, r) /\ e.user # ""
        BY <2>2, CandidatesRange
      <3>2. /\ cn \in Conn /\ cn.track = NoKey
            /\ cn.user = e.user /\ cn.ip = e.ip /\ cn.fp = ""
        BY NewConnType, NewConnNames
      <3> HIDE DEF cn
      <3>3. Sound(Put(s, r, cn))
        BY <1>1, <3>1, <3>2, PutSound DEF Put
      <3>4. key \in Key
        BY <3>1 DEF Key, Event
      <3>5. KeyOf(cn) = key
        BY <3>2 DEF KeyOf
      <3>6. KeyOf(cn) \in Key /\ cn.user # ""
        BY <3>1, <3>2, <3>4, <3>5
      <3> HIDE DEF key
      <3>7. Sound(moved)
        BY <1>1, <3>3, <3>4, SettleSound
      <3> DEFINE m == Settled(s, r, cn, KeyOf(cn), ts)
      <3>8. m = moved
        BY <3>5 DEF Settled
      <3> HIDE DEF moved
      <3>9. Identified(m) /\ Held(m, {m.conns[r].track}, {}, T) /\ Grown(s, m, r)
            /\ Spared(s, m)
        BY <1>1, <3>1, <3>2, <3>3, <3>6, PutSettle, SettleSpares
      <3> HIDE DEF m
      <3> QED
        BY <2>2, <3>7, <3>8, <3>9
    <2> QED
      BY <2>1, <2>2
  <1>4. Sound(t)
    BY LoginSound
  <1> HIDE DEF s1
  <1>5. CASE ses = 0
    BY <1>2, <1>3, <1>5
  <1>6. CASE ses # 0
    <2>1. /\ t.live = s1.live /\ t.tracks = s1.tracks /\ t.userLast = s1.userLast
          /\ t.execs = s1.execs
          /\ \A q \in ConnId : t.conns[q] = IF q = r THEN joined ELSE s1.conns[q]
      BY <1>1, <1>2, <1>3, <1>6 DEF Sound, Weak, StateOK
    <2>2. /\ joined.user = s1.conns[r].user /\ joined.ip = s1.conns[r].ip
          /\ joined.fp = s1.conns[r].fp /\ joined.track = k
          /\ joined.declared = s1.conns[r].declared
      <3>1. s1.conns[r] \in Conn
        BY <1>1, <1>3 DEF Sound, Weak, StateOK
      <3> QED
        BY <3>1 DEF Conn
    <2>3. Weak(t, {})
      BY <1>4 DEF Sound
    <2> HIDE DEF t, joined
    <2>4. Identified(t) /\ Held(t, {k}, {}, T)
      BY <1>3, <2>1, <2>2, <2>3, QuietHeld
    <2>5. t.conns[r].track = k
      BY <1>1, <2>1, <2>2
    <2>6. Grown(s, t, r)
      BY <1>3, <2>1, <2>5 DEF Grown
    <2>7. Stays(s1, t)
      BY <2>1, SameStays
    <2>8. Spared(s, t)
      BY <1>3, <2>7, SparedStays
    <2> QED
      BY <2>4, <2>5, <2>6, <2>8 DEF t
  <1> QED
    BY <1>5, <1>6

\* Recomputing the declarations a helper has put in doubt.
LEMMA DoubtHeld ==
  ASSUME NEW s, NEW t, NEW ks \in SUBSET Key, NEW X, NEW T, Held(s, X, {}, T),
         Calm(s, t, ks), t.tracks \in [Key -> Track], t.live \subseteq Key,
         {"live", "tracks", "conns", "userLast"} \subseteq DOMAIN t,
         Weak(RefreshDeclared(t, ks), {})
  PROVE  Held(RefreshDeclared(t, ks), X, {}, T) /\ RefreshDeclared(t, ks).conns = t.conns
  <1> DEFINE u == RefreshDeclared(t, ks)
             names(q) == Declarers(t, t.tracks[q])
             claim(q) == IF names(q) = {} THEN "" ELSE CHOOSE a \in names(q) : TRUE
  <1>1. /\ u.live = t.live /\ u.conns = t.conns /\ u.userLast = t.userLast
        /\ u.tracks = [q \in Key |-> IF q \notin ks THEN t.tracks[q]
                                     ELSE [t.tracks[q] EXCEPT !.declared = claim(q)]]
    BY DEF RefreshDeclared
  <1> HIDE DEF u, claim
  <1>2. ASSUME NEW q \in Key
        PROVE  /\ u.tracks[q].conns = t.tracks[q].conns
               /\ u.tracks[q].procs = t.tracks[q].procs
               /\ u.tracks[q].lastSeen = t.tracks[q].lastSeen
               /\ q \notin ks => u.tracks[q] = t.tracks[q]
               /\ q \in ks => u.tracks[q].declared = claim(q)
    <2>1. t.tracks[q] \in Track
      OBVIOUS
    <2>2. CASE q \notin ks
      BY <1>1, <2>2
    <2>3. CASE q \in ks
      <3>1. u.tracks[q] = [t.tracks[q] EXCEPT !.declared = claim(q)]
        BY <1>1, <2>3
      <3> QED
        BY <2>1, <2>3, <3>1 DEF Track
    <2> QED
      BY <2>2, <2>3
  <1>3. ASSUME NEW q \in ks PROVE Shows(u, q)
    <2>1. \A r \in u.tracks[q].conns : u.conns[r].declared = t.conns[r].declared
      BY <1>1
    <2>2. u.tracks[q].conns = t.tracks[q].conns /\ u.tracks[q].procs = t.tracks[q].procs
      BY <1>2
    <2>3. Declarers(u, u.tracks[q]) = names(q)
      BY <2>1, <2>2, DeclarersFrame
    <2>4. u.tracks[q].declared = claim(q)
      BY <1>2
    <2> HIDE DEF names
    <2>5. IF names(q) = {} THEN claim(q) = "" ELSE claim(q) \in names(q)
      BY DEF claim
    <2> QED
      BY <2>3, <2>4, <2>5 DEF Shows
  <1>4. Calm(s, u, ks)
    <2>1. u.live \subseteq s.live /\ \A v \in User : u.userLast[v] \in {s.userLast[v], NoKey}
      BY <1>1 DEF Calm
    <2>2. \A q \in u.live : u.tracks[q].lastSeen = s.tracks[q].lastSeen
      BY <1>1, <1>2 DEF Calm
    <2>3. \A q \in u.live \ ks : u.tracks[q] = t.tracks[q]
      BY <1>1, <1>2
    <2> QED
      BY <1>1, <2>1, <2>2, <2>3 DEF Calm
  <1>5. Weak(u, {})
    BY DEF u
  <1>6. Held(u, X, ks, T)
    BY <1>4, <1>5, CalmHeld
  <1>7. Held(u, X, {}, T)
    BY <1>3, <1>6 DEF Held, Backed
  <1> QED
    BY <1>1, <1>7 DEF u

Sampled(s, k, pid, sample, j) ==
    [s EXCEPT !.tracks[k].procs[pid] = sample, !.byProcPID[pid] = j]

\* Writing a track's sample of a pid: its claim is recomputed.
LEMMA SampleHeld ==
  ASSUME NEW s, Sound(s), NEW k \in s.live, NEW pid \in Pid, NEW sample \in Proc,
         NEW j \in {k, NoKey}, NEW X, NEW T, Identified(s), Held(s, X, {}, T),
         Sound(RefreshDeclared(Sampled(s, k, pid, sample, j), {k}))
  PROVE  LET u == RefreshDeclared(Sampled(s, k, pid, sample, j), {k}) IN
         Identified(u) /\ Held(u, X, {}, T)
  <1> DEFINE t == Sampled(s, k, pid, sample, j)
             one == {k}
             u == RefreshDeclared(t, one)
             tr == [s.tracks[k] EXCEPT !.procs = [s.tracks[k].procs EXCEPT ![pid] = sample]]
  <1>1. k \in Key /\ s.tracks[k] \in Track /\ s.live \subseteq Key
    BY DEF Sound, Weak, StateOK
  <1>2. /\ t.live = s.live /\ t.conns = s.conns /\ t.userLast = s.userLast
        /\ t.tracks = [s.tracks EXCEPT ![k] = tr]
        /\ {"live", "tracks", "conns", "userLast"} \subseteq DOMAIN t
    BY DEF Sampled, Sound, Weak, StateOK
  <1>3. Weak(u, {})
    BY DEF Sound
  <1> HIDE DEF t
  <1>4. tr \in Track /\ tr.lastSeen = s.tracks[k].lastSeen
    BY <1>1 DEF Track
  <1> HIDE DEF tr
  <1>5. t.tracks \in [Key -> Track]
    BY <1>1, <1>2, <1>4 DEF Sound, Weak, StateOK
  <1>6. \A q \in s.live : t.tracks[q] = IF q = k THEN tr ELSE s.tracks[q]
    BY <1>1, <1>2 DEF Sound, Weak, StateOK
  <1>7. Calm(s, t, one)
    BY <1>2, <1>4, <1>6 DEF Calm
  <1>8. one \in SUBSET Key /\ t.live \subseteq Key
    BY <1>1, <1>2
  <1> HIDE DEF one
  <1>9. Held(u, X, {}, T) /\ u.conns = s.conns
    BY <1>2, <1>3, <1>5, <1>7, <1>8, DoubtHeld
  <1> HIDE DEF u
  <1>10. Identified(u)
    BY <1>9, NamesFrame
  <1> QED
    BY <1>9, <1>10 DEF u, one, t

\* procSeen, once the track is known.
LEMMA PlaceHeld ==
  ASSUME NEW s, Sound(s), NEW k \in s.live, NEW pid \in Pid, NEW sample \in Proc,
         sample.seen # 0, NEW X, NEW T, Identified(s), Held(s, X, {}, T)
  PROVE  Identified(Place(s, k, pid, sample)) /\ Held(Place(s, k, pid, sample), X, {}, T)
  <1> DEFINE t == Sampled(s, k, pid, sample, k)
             u == RefreshDeclared(t, {k})
  <1>1. Place(s, k, pid, sample) = u
    BY DEF Place, Sampled
  <1>2. Sound(u)
    BY <1>1, PlaceSound
  <1> QED
    BY <1>1, <1>2, SampleHeld

\* procGone.
LEMMA RemoveHeld ==
  ASSUME NEW s, Sound(s), NEW pid \in Pid, s.byProcPID[pid] # NoKey,
         NEW X, NEW T, Identified(s), Held(s, X, {}, T)
  PROVE  LET t == Remove(s, s.byProcPID[pid], pid) IN
         Identified(t) /\ Held(t, X, {}, T)
  <1> DEFINE k == s.byProcPID[pid]
             t == Sampled(s, k, pid, NoProc, NoKey)
             u == RefreshDeclared(t, {k})
  <1>1. Remove(s, k, pid) = u
    BY DEF Remove, Sampled
  <1>2. Sound(u) /\ k \in s.live
    BY <1>1, RemoveSound
  <1>3. NoProc \in Proc
    BY DEF NoProc, Proc, Claim, Time
  <1> QED
    BY <1>1, <1>2, <1>3, SampleHeld

\* A socket sample on a live track.
LEMMA NetHeld ==
  ASSUME NEW s, Sound(s), NEW k \in s.live, NEW ts \in Nat, NEW X, NEW T,
         Identified(s), Held(s, X, {}, T)
  PROVE  LET t == [s EXCEPT !.tracks[k].net = @ \cup {ts}] IN
         Identified(t) /\ Held(t, X, {}, T)
  <1> DEFINE tr == [s.tracks[k] EXCEPT !.net = s.tracks[k].net \cup {ts}]
             t == [s EXCEPT !.tracks[k].net = @ \cup {ts}]
  <1>1. k \in Key /\ s.tracks[k] \in Track /\ s.live \subseteq Key
    BY DEF Sound, Weak, StateOK
  <1>2. /\ tr.conns = s.tracks[k].conns /\ tr.procs = s.tracks[k].procs
        /\ tr.declared = s.tracks[k].declared /\ tr.lastSeen = s.tracks[k].lastSeen
    BY <1>1 DEF Track
  <1>3. /\ t.live = s.live /\ t.conns = s.conns /\ t.userLast = s.userLast
        /\ t.tracks = [s.tracks EXCEPT ![k] = tr]
    BY DEF Sound, Weak, StateOK
  <1>4. Weak(t, {})
    BY NetSound DEF Sound
  <1> HIDE DEF t, tr
  <1>5. Calm(s, t, {})
    <2>1. \A q \in s.live : t.tracks[q] = IF q = k THEN tr ELSE s.tracks[q]
      BY <1>1, <1>3 DEF Sound, Weak, StateOK
    <2> QED
      BY <1>2, <1>3, <2>1 DEF Calm
  <1>6. Held(t, X, {}, T)
    BY <1>4, <1>5, CalmHeld
  <1>7. Identified(t)
    BY <1>3, NamesFrame
  <1> QED
    BY <1>6, <1>7 DEF t

Trimmed(s, ks, t0) ==
    [s EXCEPT !.tracks = [k \in Key |-> IF k \in ks THEN TrimTrack(s, k, t0) ELSE @[k]],
              !.execs = [k \in Key |-> IF k \in ks THEN TrimExecs(@[k], t0 - Window) ELSE @[k]],
              !.byProcPID = [p \in Pid |->
                  IF \E k \in ks : p \in StaleProcs(s, k, t0) THEN NoKey ELSE @[p]]]

\* What Expire trims: a track that loses a process has its claim recomputed.
LEMMA TrimHeld ==
  ASSUME NEW s, Sound(s), NEW ks \in SUBSET s.live, NEW t0 \in Nat, NEW X, NEW T,
         Identified(s), Held(s, X, {}, T)
  PROVE  Identified(Trim(s, ks, t0)) /\ Held(Trim(s, ks, t0), X, {}, T)
  <1> DEFINE stale(k) == StaleProcs(s, k, t0)
             tr(k) == TrimTrack(s, k, t0)
             t == Trimmed(s, ks, t0)
             some == {k \in ks : stale(k) # {}}
             u == RefreshDeclared(t, some)
  <1>1. Trim(s, ks, t0) = u
    BY DEF Trim, Trimmed
  <1>2. Weak(u, {})
    BY <1>1, TrimSound DEF Sound
  <1>3. s.live \subseteq Key
    BY DEF Sound, Weak, StateOK
  <1>4. /\ t.live = s.live /\ t.conns = s.conns /\ t.userLast = s.userLast
        /\ t.tracks = [k \in Key |-> IF k \in ks THEN tr(k) ELSE s.tracks[k]]
        /\ {"live", "tracks", "conns", "userLast"} \subseteq DOMAIN t
    BY DEF Trimmed, Sound, Weak, StateOK
  <1>5. ASSUME NEW k \in ks
        PROVE  /\ tr(k) \in Track /\ tr(k).conns = s.tracks[k].conns
               /\ tr(k).declared = s.tracks[k].declared /\ tr(k).lastSeen = s.tracks[k].lastSeen
               /\ stale(k) = {} => tr(k).procs = s.tracks[k].procs
    <2>1. s.tracks[k] \in Track
      BY <1>3 DEF Sound, Weak, StateOK
    <2>2. NoProc \in Proc
      BY DEF NoProc, Proc, Claim, Time
    <2> HIDE DEF stale
    <2> DEFINE ns == {n \in s.tracks[k].net : n >= t0 - Window}
               ps == [p \in Pid |-> IF p \in stale(k) THEN NoProc ELSE s.tracks[k].procs[p]]
    <2>3. tr(k) = [s.tracks[k] EXCEPT !.net = ns, !.procs = ps]
      BY DEF TrimTrack, stale
    <2>4. ns \in SUBSET Time
      BY <2>1 DEF Track
    <2>5. s.tracks[k].procs \in [Pid -> Proc]
      BY <2>1 DEF Track
    <2>6. ps \in [Pid -> Proc]
      BY <2>2, <2>5
    <2>7. stale(k) = {} => ps = s.tracks[k].procs
      BY <2>5
    <2> HIDE DEF tr, ns, ps
    <2> QED
      BY <2>1, <2>3, <2>4, <2>6, <2>7 DEF Track
  <1> HIDE DEF t, tr, stale
  <1>6. t.tracks \in [Key -> Track]
    BY <1>3, <1>4, <1>5 DEF Sound, Weak, StateOK
  <1>7. Calm(s, t, some)
    <2>1. \A k \in s.live : t.tracks[k] = IF k \in ks THEN tr(k) ELSE s.tracks[k]
      BY <1>3, <1>4
    <2>2. \A k \in s.live : t.tracks[k].lastSeen = s.tracks[k].lastSeen
      BY <1>5, <2>1
    <2>3. \A k \in s.live \ some : /\ t.tracks[k].conns = s.tracks[k].conns
                                   /\ t.tracks[k].procs = s.tracks[k].procs
                                   /\ t.tracks[k].declared = s.tracks[k].declared
      BY <1>5, <2>1
    <2> QED
      BY <1>4, <2>2, <2>3 DEF Calm
  <1>8. some \in SUBSET Key /\ t.live \subseteq Key
    BY <1>3, <1>4
  <1> HIDE DEF some
  <1>9. Held(u, X, {}, T) /\ u.conns = s.conns
    BY <1>2, <1>4, <1>6, <1>7, <1>8, DoubtHeld
  <1> HIDE DEF u
  <1>10. Identified(u)
    BY <1>9, NamesFrame
  <1> QED
    BY <1>1, <1>9, <1>10

\* Forgetting plumbing pids and session parents, or remembering some.
LEMMA AsideHeld ==
  ASSUME NEW s, NEW t, NEW X, NEW T, Weak(t, {}), Identified(s), Held(s, X, {}, T),
         t.live = s.live, t.tracks = s.tracks, t.userLast = s.userLast, t.conns = s.conns
  PROVE  Identified(t) /\ Held(t, X, {}, T)
  BY QuietHeld

\* Restore: the most recent track of each user is taken from the snapshot.
LEMMA RestoreFine ==
  ASSUME NEW s, Sound(s), NEW rank, NEW T, Fine(s, T)
  PROVE  Fine(Restore(s, rank), T)
  <1> DEFINE kept == {r \in ConnId : \E k \in s.live : r \in s.tracks[k].conns}
             newest(u) == {k \in s.live : k.user = u /\ \A j \in s.live :
                             j.user = u => s.tracks[j].lastSeen <= s.tracks[k].lastSeen}
             back == [k \in s.live |-> -rank[k]]
             childless(r) == [s.conns[r] EXCEPT !.child = 0]
             t == Restore(s, rank)
  <1>1. /\ t.live = s.live /\ t.tracks = s.tracks
        /\ t.conns = [r \in ConnId |-> IF r \in kept THEN childless(r) ELSE NoConn]
        /\ t.userLast = [u \in User |-> LastTrack(newest(u), back)]
    BY DEF Restore, Sound, Weak, StateOK
  <1>2. ASSUME NEW r \in ConnId
        PROVE  /\ childless(r).user = s.conns[r].user /\ childless(r).ip = s.conns[r].ip
               /\ childless(r).fp = s.conns[r].fp /\ childless(r).track = s.conns[r].track
               /\ childless(r).declared = s.conns[r].declared
    <2>1. s.conns[r] \in Conn
      BY DEF Sound, Weak, StateOK
    <2> QED
      BY <2>1 DEF Conn
  <1>3. \A u \in User : \A k \in newest(u) : k \in s.live /\ \A j \in s.live :
          j.user = u => s.tracks[j].lastSeen <= s.tracks[k].lastSeen
    OBVIOUS
  <1>4. \A k \in s.live : s.tracks[k].conns \subseteq kept
    BY DEF Sound, Weak, StateOK, Track
  <1>5. kept \subseteq ConnId
    OBVIOUS
  <1> HIDE DEF t, kept, newest, back, childless
  <1>6. Identified(t)
    <2>1. Identified(s)
      BY DEF Fine
    <2>2. \A r \in ConnId : t.conns[r] = IF r \in kept THEN childless(r) ELSE NoConn
      BY <1>1
    <2> QED
      BY <1>2, <2>1, <2>2, NamesFrame
  <1>7. Backed(t, {})
    <2> SUFFICES ASSUME NEW k \in s.live
                 PROVE  Shows(t, k)
      BY <1>1 DEF Backed
    <2>1. Shows(s, k)
      BY DEF Fine, Held, Backed
    <2>2. \A r \in t.tracks[k].conns : t.conns[r].declared = s.conns[r].declared
      BY <1>1, <1>2, <1>4, <1>5
    <2>3. t.tracks[k] = s.tracks[k]
      BY <1>1
    <2>4. Declarers(t, t.tracks[k]) = Declarers(s, s.tracks[k])
      BY <2>2, <2>3, DeclarersFrame
    <2> QED
      BY <2>1, <2>3, <2>4 DEF Shows
  <1>8. ASSUME MaxLag = 0 PROVE Newest(t, {}, T)
    <2>1. Newest(s, {}, T)
      BY <1>8 DEF Fine, Held
    <2>2. \A u \in User : t.userLast[u] \in newest(u) \cup {NoKey}
      BY <1>1, LastTrackRange
    <2>3. ASSUME NEW k \in t.live, t.userLast[k.user] # NoKey
          PROVE  t.tracks[k].lastSeen <= t.tracks[t.userLast[k.user]].lastSeen
      <3>1. k \in Key
        BY <1>1 DEF Sound, Weak, StateOK
      <3>2. k.user \in User
        BY <3>1 DEF Key
      <3>3. t.userLast[k.user] \in newest(k.user)
        BY <2>2, <2>3, <3>2
      <3> QED
        BY <1>1, <1>3, <3>2, <3>3
    <2> QED
      BY <1>1, <2>1, <2>3 DEF Newest
  <1> QED
    BY <1>6, <1>7, <1>8 DEF Fine, Held, t

-----------------------------------------------------------------------------
(***************************************************************************)
(* The steps: one lemma per action.                                        *)
(***************************************************************************)
\* An event carries a time the clock has reached, the present one when
\* events do not lag.
LEMMA StampNow ==
  ASSUME JInv
  PROVE  \A ts \in Stamp : ts \in Nat /\ ts <= now /\ (MaxLag = 0 => ts = now)
  BY DEF JInv, IInv, Stamp

\* The end of an event makes no track, moves no connection and loses no sample.
LEMMA FinishBorn ==
  ASSUME NEW p, NEW s, Weak(s, {}), Born(p, s), NEW k \in s.live \cup {NoKey}, NEW ts
  PROVE  Born(p, Finish(s, k, ts)) /\ Stays(s, Finish(s, k, ts))
  <1> DEFINE last == IF ts > s.tracks[k].lastSeen THEN ts ELSE s.tracks[k].lastSeen
             s1 == [s EXCEPT !.tracks[k].lastSeen = last]
             t == IF k = NoKey THEN s ELSE Touch(s, k, ts)
  <1>1. k = NoKey => t = s
    OBVIOUS
  <1>2. ASSUME k # NoKey
        PROVE  /\ t.live = s.live /\ t.execs = s.execs
               /\ \A q \in s.live : t.tracks[q].conns = s.tracks[q].conns
    <2>1. s.live \subseteq Key /\ s.tracks \in [Key -> Track] /\ k \in s.live
      BY <1>2 DEF Weak, StateOK
    <2>2. /\ s1.live = s.live /\ s1.execs = s.execs
          /\ s1.tracks = [s.tracks EXCEPT ![k].lastSeen = last]
      BY DEF Weak, StateOK
    <2>3. Touch(s, k, ts) = s1 \/ Touch(s, k, ts) = [s1 EXCEPT !.userLast[k.user] = k]
      BY DEF Touch
    <2>4. /\ Touch(s, k, ts).live = s1.live /\ Touch(s, k, ts).tracks = s1.tracks
          /\ Touch(s, k, ts).execs = s1.execs
      BY <2>3 DEF Weak, StateOK
    <2> HIDE DEF last, s1
    <2>5. ASSUME NEW q \in s.live
          PROVE  s1.tracks[q].conns = s.tracks[q].conns
      <3>1. q \in Key /\ s.tracks[q] \in Track
        BY <2>1
      <3>2. CASE q = k
        <4>1. s1.tracks[q] = [s.tracks[q] EXCEPT !.lastSeen = last]
          BY <2>1, <2>2, <3>1, <3>2
        <4> QED
          BY <3>1, <4>1 DEF Track
      <3>3. CASE q # k
        BY <2>2, <3>1, <3>3, <2>1
      <3> QED
        BY <3>2, <3>3
    <2> QED
      BY <1>2, <2>2, <2>4, <2>5
  <1>3. /\ t.live = s.live /\ t.execs = s.execs
        /\ \A q \in s.live : t.tracks[q].conns = s.tracks[q].conns
    BY <1>1, <1>2
  <1> HIDE DEF t
  <1>4. Collect(t).live = t.live /\ Collect(t).tracks = t.tracks /\ Collect(t).execs = t.execs
    BY DEF Collect
  <1>5. Finish(s, k, ts) = Collect(t)
    BY DEF Finish, t
  <1>6. Stays(s, Collect(t))
    BY <1>3, <1>4, SameStays
  <1> QED
    BY <1>3, <1>4, <1>5, <1>6 DEF Born

\* A track made for a connection lists it.
LEMMA ConnBorn ==
  ASSUME NEW p, NEW s, Sound(s), NEW r \in ConnId, Grown(p, s, r)
  PROVE  Born(p, s)
  <1> SUFFICES ASSUME NEW k \in s.live \ p.live
               PROVE  s.tracks[k].conns # {}
    BY DEF Born
  <1>1. s.conns[r].track = k /\ k \in Key
    BY DEF Grown, Sound, Weak, StateOK
  <1> QED
    BY <1>1 DEF Sound, Weak, Listed

\* The end of a handler that has made or found the track of connection r.
LEMMA ConnEnds ==
  ASSUME JInv, NEW s, Sound(s), NEW r \in ConnId, NEW ts \in Stamp, Identified(s),
         Held(s, {s.conns[r].track}, {}, now), Grown(c, s, r), Spared(c, s)
  PROVE  /\ Fine(Finish(s, s.conns[r].track, ts), now)
         /\ Lawful(c, Finish(s, s.conns[r].track, ts))
  <1>1. s.conns[r].track \in s.live \cup {NoKey} /\ Weak(s, {})
    BY DEF Sound, NoOrphan
  <1>2. now \in Nat
    BY DEF JInv, IInv
  <1>3. ts \in Nat /\ (MaxLag = 0 => ts = now)
    BY StampNow
  <1>4. Born(c, s)
    BY ConnBorn
  <1> DEFINE t == Finish(s, s.conns[r].track, ts)
  <1>5. Fine(t, now)
    BY <1>1, <1>2, <1>3, FinishFine
  <1>6. Born(c, t) /\ Stays(s, t)
    BY <1>1, <1>4, FinishBorn
  <1> HIDE DEF t
  <1>7. Kept(c, t)
    BY <1>6, SparedStays, SparedKept
  <1> QED
    BY <1>5, <1>6, <1>7 DEF Lawful, t

\* The end of a handler that has made no track.
LEMMA HandlerEnds ==
  ASSUME JInv, NEW s, Weak(s, {}), NEW k \in s.live \cup {NoKey}, NEW ts \in Stamp,
         Identified(s), Held(s, {}, {}, now), s.live = c.live
  PROVE  Fine(Finish(s, k, ts), now) /\ Lawful(c, Finish(s, k, ts))
  <1>1. Held(s, {k}, {}, now)
    BY HeldMono
  <1>2. now \in Nat
    BY DEF JInv, IInv
  <1>3. ts \in Nat /\ (MaxLag = 0 => ts = now)
    BY StampNow
  <1>4. Born(c, s)
    BY DEF Born
  <1> DEFINE t == Finish(s, k, ts)
  <1>5. Fine(t, now)
    BY <1>1, <1>2, <1>3, FinishFine
  <1>6. Born(c, t) /\ Stays(s, t)
    BY <1>4, FinishBorn
  <1> HIDE DEF t
  <1>7. Kept(c, t)
    BY <1>6, LiveSpared DEF Stays
  <1> QED
    BY <1>5, <1>6, <1>7 DEF Lawful, t

\* ssh.auth_ok moves the connection to the track of the key it shows.
LEMMA AuthOKFine ==
  ASSUME JInv, AuthOK
  PROVE  Fine(c', now) /\ Lawful(c, c')
  <1> PICK pid \in LinePid, u \in User, ip \in IP, port \in Port, fp \in Shown, ts \in Stamp :
           \E r \in Target(c, Peer(pid, u, ip, port)) :
             LET s == Accept(c, r, Peer(pid, u, ip, port), fp, ts) IN
             c' = Finish(s, s.conns[r].track, ts)
    BY DEF AuthOK
  <1> DEFINE e == Peer(pid, u, ip, port)
  <1> PICK r \in Target(c, e) :
             LET s == Accept(c, r, e, fp, ts) IN c' = Finish(s, s.conns[r].track, ts)
    OBVIOUS
  <1> DEFINE s == Accept(c, r, e, fp, ts)
  <1>1. fp \in FP \cup {""} /\ ts \in Nat /\ ts <= now
    BY StampNow, InputsAssumption
  <1>2. pid \in Pid \cup {0}
    BY InputsAssumption
  <1>3. e \in Event /\ e.user \in User
    BY <1>2 DEF Peer, Event
  <1>4. c' = Finish(s, s.conns[r].track, ts)
    OBVIOUS
  <1> HIDE DEF e
  <1>5. Sound(c) /\ Fine(c, now) /\ now \in Nat
    BY DEF JInv, IInv
  <1>6. r \in ConnId /\ Sound(s)
    BY <1>1, <1>3, <1>5, AcceptSound
  <1>7. Identified(s) /\ Held(s, {s.conns[r].track}, {}, now) /\ Grown(c, s, r)
        /\ Spared(c, s)
    BY <1>1, <1>3, <1>5, AcceptFine
  <1> HIDE DEF s
  <1> QED
    BY <1>4, <1>6, <1>7, ConnEnds

\* ssh.session_start adds an exec sample and remembers a parent, no more.
LEMMA SessionStartFine ==
  ASSUME JInv, SessionStart
  PROVE  Fine(c', now) /\ Lawful(c, c')
  <1> PICK pid \in LinePid, u \in User, ip \in IP, port \in Port, cmd \in BOOLEAN, ts \in Stamp :
           \E r \in Target(c, Peer(pid, u, ip, port)) :
             LET s == EnsureConn(c, r, Peer(pid, u, ip, port), ts)
                 k == s.conns[r].track
                 x == [ts |-> ts, pid |-> s.conns[r].pid, origin |-> "sshlog"]
                 s1 == IF pid > 1 THEN [s EXCEPT !.sessParent[pid] = ts] ELSE s
                 s2 == IF k = NoKey THEN s1 ELSE AddExecs(s1, k, <<x>>)
             IN  c' = Finish(IF cmd THEN s2 ELSE s, k, ts)
    BY DEF SessionStart
  <1> DEFINE e == Peer(pid, u, ip, port)
  <1> PICK r \in Target(c, e) :
             LET s == EnsureConn(c, r, e, ts)
                 k == s.conns[r].track
                 x == [ts |-> ts, pid |-> s.conns[r].pid, origin |-> "sshlog"]
                 s1 == IF pid > 1 THEN [s EXCEPT !.sessParent[pid] = ts] ELSE s
                 s2 == IF k = NoKey THEN s1 ELSE AddExecs(s1, k, <<x>>)
             IN  c' = Finish(IF cmd THEN s2 ELSE s, k, ts)
    OBVIOUS
  <1> DEFINE s == EnsureConn(c, r, e, ts)
             k == s.conns[r].track
             x == [ts |-> ts, pid |-> s.conns[r].pid, origin |-> "sshlog"]
             s1 == IF pid > 1 THEN [s EXCEPT !.sessParent[pid] = ts] ELSE s
             xs == <<x>>
             s2 == IF k = NoKey THEN s1 ELSE AddExecs(s1, k, xs)
  <1>1. c' = Finish(IF cmd THEN s2 ELSE s, k, ts)
    OBVIOUS
  <1>2. ts \in Nat /\ ts <= now
    BY StampNow
  <1>3. pid \in Pid \cup {0}
    BY InputsAssumption
  <1>4. e \in Event /\ (e.user = "" => e.ip = "")
    BY <1>3, NamesAssumption DEF Peer, Event
  <1> HIDE DEF e
  <1>5. Sound(c) /\ Fine(c, now) /\ now \in Nat
    BY DEF JInv, IInv
  <1>6. r \in ConnId /\ Sound(s)
    BY <1>2, <1>4, <1>5, EnsureConnSound
  <1>7. Identified(s) /\ Held(s, {k}, {}, now) /\ Grown(c, s, r) /\ Spared(c, s)
    BY <1>2, <1>4, <1>5, EnsureConnFine
  <1> HIDE DEF s
  <1>8. k \in s.live \cup {NoKey} /\ Weak(s, {}) /\ Born(c, s)
    BY <1>6, <1>7, ConnBorn DEF Sound, NoOrphan
  <1>9. xs \in Seq(Exec)
    <2>1. s.conns[r] \in Conn
      BY <1>6 DEF Sound, Weak, StateOK
    <2>2. x \in Exec
      BY <1>2, <2>1 DEF Conn, Exec, Time
    <2> HIDE DEF x
    <2> QED
      BY <2>2, OneSample
  <1> HIDE DEF k, x, xs
  <1>10. /\ Weak(s1, {}) /\ s1.live = s.live /\ s1.conns = s.conns /\ s1.tracks = s.tracks
        /\ s1.execs = s.execs
        /\ Identified(s1) /\ Held(s1, {k}, {}, now)
    <2> DEFINE t == [s EXCEPT !.sessParent[pid] = ts]
    <2>1. CASE pid > 1
      <3>1. /\ StateOK(t) /\ t.live = s.live /\ t.conns = s.conns /\ t.tracks = s.tracks
            /\ t.execs = s.execs
            /\ t.byPID = s.byPID /\ t.byTuple = s.byTuple /\ t.bySes = s.bySes
            /\ t.byProcPID = s.byProcPID /\ t.userLast = s.userLast
        BY <1>2, <1>3, <1>8, <2>1 DEF Weak, StateOK, Time
      <3>2. \A j \in Key : j \notin s.live => t.tracks[j] = NoTrack
        BY <1>8, <3>1 DEF Weak, TrackIndexesLive, DeadBlank
      <3> HIDE DEF t
      <3>3. Weak(t, {})
        BY <1>8, <3>1, <3>2, FrameWeak
      <3>4. Identified(t) /\ Held(t, {k}, {}, now)
        BY <1>7, <3>1, <3>3, AsideHeld
      <3> QED
        BY <2>1, <3>1, <3>3, <3>4 DEF t
    <2>2. CASE ~(pid > 1)
      BY <1>7, <1>8, <2>2
    <2> QED
      BY <2>1, <2>2
  <1> HIDE DEF s1
  <1>11. /\ Weak(s2, {}) /\ s2.live = s.live /\ s2.tracks = s.tracks
         /\ Identified(s2) /\ Held(s2, {k}, {}, now) /\ Stays(s, s2)
    <2>1. CASE k = NoKey
      BY <1>10, <2>1, SameStays
    <2>2. CASE k # NoKey
      <3> DEFINE t == AddExecs(s1, k, xs)
      <3>1. k \in Key
        BY <1>8, <2>2 DEF Weak, StateOK
      <3>2. /\ Weak(t, {}) /\ t.live = s1.live /\ t.tracks = s1.tracks
            /\ Grew(s1.execs[k], t.execs[k])
            /\ \A j \in Key : j # k => t.execs[j] = s1.execs[j]
        BY <1>10, <1>9, <3>1, AddExecsWeak, AddExecsSaved
      <3>3. Calm(s1, t, {}) /\ t.conns = s1.conns
        BY <1>10, <1>9, <3>1, AddExecsCalm
      <3> HIDE DEF t
      <3>4. Stays(s, t)
        BY <1>8, <1>10, <3>2, <3>1, SameGrew DEF Stays, Weak, StateOK
      <3>5. Held(t, {k}, {}, now)
        BY <1>10, <3>2, <3>3, CalmHeld
      <3>6. Identified(t)
        BY <1>10, <3>3, NamesFrame
      <3> QED
        BY <1>10, <2>2, <3>2, <3>5, <3>6, <3>4 DEF t
    <2> QED
      BY <2>1, <2>2
  <1> HIDE DEF s2
  <1>12. MaxLag = 0 => ts = now
    BY StampNow
  <1>13. Fine(Finish(s2, k, ts), now) /\ Fine(Finish(s, k, ts), now)
    BY <1>2, <1>5, <1>7, <1>8, <1>11, <1>12, FinishFine
  <1>14. Born(c, s2)
    BY <1>8, <1>11 DEF Born
  <1>15. /\ Born(c, Finish(s2, k, ts)) /\ Stays(s2, Finish(s2, k, ts))
         /\ Born(c, Finish(s, k, ts)) /\ Stays(s, Finish(s, k, ts))
    BY <1>8, <1>11, <1>14, FinishBorn
  <1>16. Spared(c, s2)
    BY <1>7, <1>11, SparedStays
  <1>17. Kept(c, Finish(s2, k, ts)) /\ Kept(c, Finish(s, k, ts))
    BY <1>7, <1>15, <1>16, SparedStays, SparedKept
  <1> QED
    BY <1>1, <1>13, <1>15, <1>17 DEF Lawful

\* ssh.banner finds the connection or makes one nobody is known on.
LEMMA BannerFine ==
  ASSUME JInv, Banner
  PROVE  Fine(c', now) /\ Lawful(c, c')
  <1> PICK pid \in LinePid, ts \in Stamp :
           \E r \in Target(c, Peer(pid, "", "", 0)) :
             LET s == EnsureConn(c, r, Peer(pid, "", "", 0), ts) IN
             c' = Finish(s, s.conns[r].track, ts)
    BY DEF Banner
  <1> DEFINE e == Peer(pid, "", "", 0)
  <1> PICK r \in Target(c, e) :
             LET s == EnsureConn(c, r, e, ts) IN c' = Finish(s, s.conns[r].track, ts)
    OBVIOUS
  <1> DEFINE s == EnsureConn(c, r, e, ts)
  <1>1. c' = Finish(s, s.conns[r].track, ts)
    OBVIOUS
  <1>2. ts \in Nat /\ ts <= now
    BY StampNow
  <1>3. e \in Event /\ (e.user = "" => e.ip = "")
    <2>1. e \in Event
      BY PeerType, InputsAssumption
    <2>2. e.ip = ""
      BY DEF Peer
    <2> QED
      BY <2>1, <2>2
  <1> HIDE DEF e
  <1>4. Sound(c) /\ Fine(c, now) /\ now \in Nat
    BY DEF JInv, IInv
  <1>5. r \in ConnId /\ Sound(s)
    BY <1>2, <1>3, <1>4, EnsureConnSound
  <1>6. Identified(s) /\ Held(s, {s.conns[r].track}, {}, now) /\ Grown(c, s, r)
        /\ Spared(c, s)
    BY <1>2, <1>3, <1>4, EnsureConnFine
  <1> HIDE DEF s
  <1> QED
    BY <1>1, <1>5, <1>6, ConnEnds

\* A claim makes no track.
LEMMA DeclareLive ==
  ASSUME NEW s, Sound(s), NEW r, NEW agent
  PROVE  Declare(s, r, agent).live = s.live
  BY DEF Declare, RefreshDeclared, Sound, Weak, StateOK

\* ssh.env of an accepted SetEnv: the track's claim is recomputed.
LEMMA SetEnvFine ==
  ASSUME JInv, SetEnv
  PROVE  Fine(c', now) /\ Lawful(c, c')
  <1> PICK pid \in LinePid, agent \in Agent, ts \in Stamp :
           \E r \in Target(c, Peer(pid, "", "", 0)) :
             LET s == Declare(EnsureConn(c, r, Peer(pid, "", "", 0), ts), r, agent) IN
             c' = Finish(s, s.conns[r].track, ts)
    BY DEF SetEnv
  <1> DEFINE e == Peer(pid, "", "", 0)
  <1> PICK r \in Target(c, e) :
             LET s == Declare(EnsureConn(c, r, e, ts), r, agent) IN
             c' = Finish(s, s.conns[r].track, ts)
    OBVIOUS
  <1> DEFINE s1 == EnsureConn(c, r, e, ts)
             s == Declare(s1, r, agent)
  <1>1. c' = Finish(s, s.conns[r].track, ts)
    OBVIOUS
  <1>2. ts \in Nat /\ ts <= now
    BY StampNow
  <1>3. e \in Event /\ (e.user = "" => e.ip = "")
    <2>1. e \in Event
      BY PeerType, InputsAssumption
    <2>2. e.ip = ""
      BY DEF Peer
    <2> QED
      BY <2>1, <2>2
  <1> HIDE DEF e
  <1>4. Sound(c) /\ Fine(c, now) /\ now \in Nat
    BY DEF JInv, IInv
  <1>5. r \in ConnId /\ Sound(s1)
    BY <1>2, <1>3, <1>4, EnsureConnSound
  <1>6. Identified(s1) /\ Held(s1, {s1.conns[r].track}, {}, now) /\ Grown(c, s1, r)
        /\ Spared(c, s1)
    BY <1>2, <1>3, <1>4, EnsureConnFine
  <1> HIDE DEF s1
  <1>7. Sound(s) /\ s.conns[r].track = s1.conns[r].track /\ s.live = s1.live
    BY <1>5, DeclareSound, DeclareLive
  <1>8. Identified(s) /\ Held(s, {s1.conns[r].track}, {}, now) /\ Stays(s1, s)
    BY <1>5, <1>6, DeclareHeld
  <1> HIDE DEF s
  <1>9. Grown(c, s, r) /\ Spared(c, s)
    BY <1>6, <1>7, <1>8, SparedStays DEF Grown
  <1> QED
    BY <1>1, <1>5, <1>7, <1>8, <1>9, ConnEnds

\* ssh.env of the sshrc hook does likewise.
LEMMA SSHRCDeclareFine ==
  ASSUME JInv, SSHRCDeclare
  PROVE  Fine(c', now) /\ Lawful(c, c')
  <1> PICK u \in User, ip \in IP, port \in Port, agent \in Agent, ts \in Stamp :
             LET r == FindConn(c, Peer(0, u, ip, port)) IN
             /\ r # NoRef
             /\ c' = Finish(Declare(c, r, agent), c.conns[r].track, ts)
    BY DEF SSHRCDeclare
  <1> DEFINE e == Peer(0, u, ip, port)
             r == FindConn(c, e)
             s == Declare(c, r, agent)
  <1>1. e \in Event
    BY PeerType
  <1>2. r # NoRef /\ c' = Finish(s, c.conns[r].track, ts)
    OBVIOUS
  <1> HIDE DEF e
  <1>3. Sound(c) /\ Identified(c) /\ Held(c, {}, {}, now)
    BY DEF JInv, IInv, Fine
  <1>4. r \in ConnId
    BY <1>1, <1>2, <1>3, FindConnRange
  <1> HIDE DEF r
  <1>5. Sound(s) /\ s.conns[r].track = c.conns[r].track /\ s.live = c.live
    BY <1>3, <1>4, DeclareSound, DeclareLive
  <1>6. Identified(s) /\ Held(s, {}, {}, now)
    BY <1>3, <1>4, DeclareHeld
  <1> HIDE DEF s
  <1>7. c.conns[r].track \in s.live \cup {NoKey} /\ Weak(s, {})
    BY <1>4, <1>5 DEF Sound, NoOrphan
  <1> QED
    BY <1>2, <1>5, <1>6, <1>7, HandlerEnds

\* ssh.pam_open learns an uid and touches the track.
LEMMA PAMOpenFine ==
  ASSUME JInv, PAMOpen
  PROVE  Fine(c', now) /\ Lawful(c, c')
  <1> PICK pid \in LinePid, u \in User, uid \in BOOLEAN, ts \in Stamp :
             LET r == FindConn(c, Peer(pid, u, "", 0)) IN
             c' = Finish(IF uid THEN Learn(c, u) ELSE c,
                         IF r = NoRef THEN NoKey ELSE c.conns[r].track, ts)
    BY DEF PAMOpen
  <1> DEFINE e == Peer(pid, u, "", 0)
             r == FindConn(c, e)
             k == IF r = NoRef THEN NoKey ELSE c.conns[r].track
             s == IF uid THEN Learn(c, u) ELSE c
  <1>1. e \in Event
    BY PeerType, InputsAssumption
  <1>2. c' = Finish(s, k, ts)
    OBVIOUS
  <1> HIDE DEF e
  <1>3. Sound(c) /\ Identified(c) /\ Held(c, {}, {}, now)
    BY DEF JInv, IInv, Fine
  <1>4. Sound(s) /\ s.live = c.live
    BY <1>3, LearnSound
  <1>5. Identified(s) /\ Held(s, {}, {}, now)
    BY <1>3, LearnHeld
  <1>6. r \in ConnId \cup {NoRef}
    BY <1>1, <1>3, FindConnRange
  <1> HIDE DEF r, s
  <1>7. k \in s.live \cup {NoKey} /\ Weak(s, {})
    BY <1>3, <1>4, <1>6 DEF Sound, NoOrphan
  <1> HIDE DEF k
  <1>8. Fine(Finish(s, k, ts), now) /\ Lawful(c, Finish(s, k, ts))
    BY <1>4, <1>5, <1>7, HandlerEnds
  <1> QED
    BY <1>2, <1>8

\* ssh.pam_open of the post-auth child gives the connection another pid.
LEMMA UserChildFine ==
  ASSUME JInv, UserChild
  PROVE  Fine(c', now) /\ Lawful(c, c')
  <1>1. PICK pid \in LinePid, child \in ProcPid, ts \in Stamp :
             LET r == FindConn(c, Peer(pid, "", "", 0)) IN
             /\ r # NoRef
             /\ c' = Finish(IF c.conns[r].child # 0 THEN c ELSE Child(c, r, child),
                            c.conns[r].track, ts)
    BY DEF UserChild
  <1> DEFINE e == Peer(pid, "", "", 0)
             r == FindConn(c, e)
             s == IF c.conns[r].child # 0 THEN c ELSE Child(c, r, child)
  <1>2. e \in Event /\ child \in Pid
    BY PeerType, InputsAssumption
  <1>3. r # NoRef /\ c' = Finish(s, c.conns[r].track, ts)
    BY <1>1
  <1> HIDE DEF e
  <1>4. Sound(c) /\ Identified(c) /\ Held(c, {}, {}, now)
    BY DEF JInv, IInv, Fine
  <1>5. r \in ConnId
    BY <1>2, <1>3, <1>4, FindConnRange
  <1> HIDE DEF r
  <1>6. Sound(s) /\ s.live = c.live
    BY <1>2, <1>4, <1>5, ChildSound
  <1>7. Identified(s) /\ Held(s, {}, {}, now)
    BY <1>2, <1>4, <1>5, ChildHeld
  <1> HIDE DEF s
  <1>8. c.conns[r].track \in s.live \cup {NoKey} /\ Weak(s, {})
    BY <1>4, <1>5, <1>6 DEF Sound, NoOrphan
  <1> QED
    BY <1>3, <1>6, <1>7, <1>8, HandlerEnds

\* ssh.disconnect closes the connection; it stays on its track.
LEMMA DisconnectFine ==
  ASSUME JInv, Disconnect
  PROVE  Fine(c', now) /\ Lawful(c, c')
  <1>1. PICK scope \in Scopes : \E e \in Lines(scope), ts \in Stamp :
             LET r == FindConn(c, e) IN
             /\ r # NoRef
             /\ c' = Finish(IF scope = "channel" THEN c ELSE Close(c, r), c.conns[r].track, ts)
    BY DEF Disconnect
  <1>2. PICK e \in Lines(scope), ts \in Stamp :
             LET r == FindConn(c, e) IN
             /\ r # NoRef
             /\ c' = Finish(IF scope = "channel" THEN c ELSE Close(c, r), c.conns[r].track, ts)
    BY <1>1
  <1> DEFINE r == FindConn(c, e)
             s == IF scope = "channel" THEN c ELSE Close(c, r)
  <1>3. e \in Event
    BY InputsAssumption DEF Lines, Event
  <1>4. r # NoRef /\ c' = Finish(s, c.conns[r].track, ts)
    BY <1>2
  <1>5. Sound(c) /\ Identified(c) /\ Held(c, {}, {}, now)
    BY DEF JInv, IInv, Fine
  <1>6. r \in ConnId
    BY <1>3, <1>4, <1>5, FindConnRange
  <1> HIDE DEF r
  <1>7. Sound(s) /\ s.live = c.live
    BY <1>5, <1>6, CloseSound
  <1>8. Identified(s) /\ Held(s, {}, {}, now)
    BY <1>5, <1>6, CloseHeld
  <1> HIDE DEF s
  <1>9. c.conns[r].track \in s.live \cup {NoKey} /\ Weak(s, {})
    BY <1>5, <1>6, <1>7 DEF Sound, NoOrphan
  <1> QED
    BY <1>4, <1>7, <1>8, <1>9, HandlerEnds

\* audit.login puts the connection it makes on the track of its own names.
LEMMA AuditLoginFine ==
  ASSUME JInv, AuditLogin
  PROVE  Fine(c', now) /\ Lawful(c, c')
  <1> PICK pid \in LinePid, u \in User \cup {""}, ip \in IP \cup {""},
           ses \in Ses \cup {0}, ts \in Stamp :
           \E r \in Candidates(c, Peer(pid, u, ip, 0)) :
             LET s == Login(c, r, Peer(pid, u, ip, 0), ses, ts) IN
             c' = Finish(s, s.conns[r].track, ts)
    BY DEF AuditLogin
  <1> DEFINE e == Peer(pid, u, ip, 0)
  <1> PICK r \in Candidates(c, e) :
             LET s == Login(c, r, e, ses, ts) IN c' = Finish(s, s.conns[r].track, ts)
    OBVIOUS
  <1> DEFINE s == Login(c, r, e, ses, ts)
  <1>1. c' = Finish(s, s.conns[r].track, ts)
    OBVIOUS
  <1>2. ts \in Nat /\ ts <= now
    BY StampNow
  <1>3. e \in Event
    BY PeerType, InputsAssumption
  <1> HIDE DEF e
  <1>4. Sound(c) /\ Fine(c, now) /\ now \in Nat
    BY DEF JInv, IInv
  <1>5. r \in ConnId /\ Sound(s)
    BY <1>2, <1>3, <1>4, LoginSound
  <1>6. Identified(s) /\ Held(s, {s.conns[r].track}, {}, now) /\ Grown(c, s, r)
        /\ Spared(c, s)
    BY <1>2, <1>3, <1>4, LoginFine
  <1> HIDE DEF s
  <1> QED
    BY <1>1, <1>5, <1>6, ConnEnds

\* audit.logout touches the track of the session.
LEMMA AuditLogoutFine ==
  ASSUME JInv, AuditLogout
  PROVE  Fine(c', now) /\ Lawful(c, c')
  <1> PICK ses \in Ses, ts \in Stamp : c' = Finish(c, c.bySes[ses], ts)
    BY DEF AuditLogout
  <1>1. c.bySes[ses] \in c.live \cup {NoKey} /\ Weak(c, {})
    BY DEF JInv, IInv, Sound, Weak, TrackIndexesLive, SesIndexLive
  <1>2. Identified(c) /\ Held(c, {}, {}, now)
    BY DEF JInv, Fine
  <1> QED
    BY <1>1, <1>2, HandlerEnds

\* audit.execve of session plumbing is remembered and touches no track.
LEMMA ExecvePlumbingFine ==
  ASSUME JInv, ExecvePlumbing
  PROVE  Fine(c', now) /\ Lawful(c, c')
  <1>1. PICK pid \in ProcPid, ppid \in ProcPid \cup {0}, sshrc \in BOOLEAN, ts \in Stamp :
             LET s == [c EXCEPT !.plumb[pid] = ts] IN
             c' = IF sshrc /\ ppid > 1 THEN [s EXCEPT !.sessParent[ppid] = ts] ELSE s
    BY DEF ExecvePlumbing
  <1>2. /\ c'.live = c.live /\ c'.tracks = c.tracks /\ c'.userLast = c.userLast
        /\ c'.conns = c.conns
    BY <1>1 DEF JInv, IInv, Sound, Weak, StateOK
  <1>3. Weak(c', {})
    BY ExecvePlumbingSound DEF JInv, Sound
  <1>4. Identified(c) /\ Held(c, {}, {}, now)
    BY DEF JInv, Fine
  <1>5. Identified(c') /\ Held(c', {}, {}, now)
    BY <1>2, <1>3, <1>4, AsideHeld
  <1>6. Kept(c, c')
    BY <1>2, LiveSpared
  <1> QED
    BY <1>2, <1>5, <1>6 DEF Fine, Born, Lawful

\* An exec sample recorded on a live track touches it.
LEMMA RecordFine ==
  ASSUME JInv, NEW k \in c.live, NEW xs \in Seq(Exec), NEW ts \in Stamp
  PROVE  /\ Fine(Finish(AddExecs(c, k, xs), k, ts), now)
         /\ Lawful(c, Finish(AddExecs(c, k, xs), k, ts))
  <1> DEFINE s == AddExecs(c, k, xs)
  <1>1. Weak(c, {}) /\ Identified(c) /\ Held(c, {}, {}, now)
    BY DEF JInv, IInv, Fine, Sound
  <1>2. k \in Key
    BY <1>1 DEF Weak, StateOK
  <1>3. Weak(s, {}) /\ s.live = c.live
    BY <1>1, <1>2, AddExecsWeak
  <1>4. Calm(c, s, {}) /\ s.conns = c.conns
    BY <1>1, <1>2, AddExecsCalm
  <1> HIDE DEF s
  <1>5. Held(s, {}, {}, now)
    BY <1>1, <1>3, <1>4, CalmHeld
  <1>6. Identified(s)
    BY <1>1, <1>4, NamesFrame
  <1>7. Fine(Finish(s, k, ts), now) /\ Lawful(c, Finish(s, k, ts))
    BY <1>3, <1>5, <1>6, HandlerEnds
  <1> QED
    BY <1>7 DEF s

\* audit.execve of a command adds a sample to the track it is placed on.
LEMMA ExecveFine ==
  ASSUME JInv, Execve
  PROVE  Fine(c', now) /\ Lawful(c, c')
  <1>1. PICK pid \in ProcPid, ppid \in LinePid \cup ProcPid, ses \in Ses \cup {0},
             u \in User \cup {""}, uid \in User, shell \in BOOLEAN, ts \in Stamp :
             LET bySes == TrackBySes(c, ses)
                 k == IF bySes # NoKey THEN bySes ELSE LastOf(c, UserOf(c, u, uid))
                 session == shell /\ ppid \in Pid /\ c.sessParent[ppid] # 0
                 x == [ts |-> ts, pid |-> pid,
                       origin |-> IF session THEN "auditd-session" ELSE "auditd"]
             IN  /\ ~Plumbing(c, ppid, FALSE)
                 /\ k # NoKey
                 /\ c' = Finish(AddExecs(c, k, <<x>>), k, ts)
                 /\ UNCHANGED now
    BY Zenon DEF Execve
  <1> DEFINE bySes == TrackBySes(c, ses)
             k == IF bySes # NoKey THEN bySes ELSE LastOf(c, UserOf(c, u, uid))
             session == shell /\ ppid \in Pid /\ c.sessParent[ppid] # 0
             x == [ts |-> ts, pid |-> pid,
                   origin |-> IF session THEN "auditd-session" ELSE "auditd"]
             xs == <<x>>
  <1>2. c' = Finish(AddExecs(c, k, xs), k, ts) /\ k # NoKey
    BY <1>1
  <1>3. k \in c.live
    BY <1>2, LookupRange DEF JInv, IInv
  <1>4. xs \in Seq(Exec)
    <2>1. x \in Exec
      BY StampNow, InputsAssumption DEF Exec, Time
    <2> HIDE DEF x
    <2> QED
      BY <2>1, OneSample
  <1> HIDE DEF k, xs
  <1> QED
    BY <1>2, <1>3, <1>4, RecordFine

\* attributeLocal returns a track of the correlator, none, or a local one.
LEMMA AttributeHome ==
  ASSUME NEW s, Sound(s), NEW ses \in Ses \cup {0}, NEW ppid \in Pid \cup {0},
         NEW user \in User \cup {""}
  PROVE  LET k == AttributeLocal(s, ses, ppid, user).track IN
         k \in s.live \cup {NoKey} \/ k.ip = "local"
  <1> DEFINE kin == ByLineage(s, ses, ppid)
             own == [user |-> user, fp |-> "-", ip |-> "local"]
             k == AttributeLocal(s, ses, ppid, user).track
  <1>1. kin.track \in s.live \cup {NoKey}
    <2> DEFINE ref == IF ppid > 1 THEN s.byPID[ppid] ELSE NoRef
               parent == IF ppid > 1 THEN s.byProcPID[ppid] ELSE NoKey
    <2>1. TrackBySes(s, ses) \in s.live \cup {NoKey}
      BY DEF TrackBySes, Sound, Weak, TrackIndexesLive, SesIndexLive
    <2>2. ppid > 1 => ppid \in Pid
      BY PidFact
    <2>3. ref \in ConnId \cup {NoRef} /\ parent \in s.live \cup {NoKey}
      <3>1. s.byPID \in [Pid -> Ref]
        BY DEF Sound, Weak, StateOK
      <3>2. \A p \in Pid : s.byProcPID[p] \in s.live \cup {NoKey}
        BY DEF Sound, Weak, TrackIndexesLive, ProcIndexLive
      <3>3. CASE ppid > 1
        BY <2>2, <3>1, <3>2, <3>3 DEF Ref
      <3>4. CASE ~(ppid > 1)
        BY <3>4
      <3> QED
        BY <3>3, <3>4
    <2>4. ref # NoRef => s.conns[ref].track \in s.live \cup {NoKey}
      BY <2>3 DEF Sound, NoOrphan
    <2>5. kin.track \in {TrackBySes(s, ses), parent, NoKey}
            \/ (ref # NoRef /\ kin.track = s.conns[ref].track)
      BY DEF ByLineage
    <2> HIDE DEF ref, parent, kin
    <2> QED
      BY <2>1, <2>3, <2>4, <2>5
  <1>2. k \in {kin.track, NoKey} \/ (user # "" /\ k = s.userLast[user]) \/ k = own
    BY DEF AttributeLocal
  <1>3. user # "" => s.userLast[user] \in s.live \cup {NoKey}
    BY DEF Sound, Weak, TrackIndexesLive, UserIndexLive
  <1>4. own.ip = "local"
    OBVIOUS
  <1> HIDE DEF k, kin, own
  <1>5. k \in s.live \cup {NoKey} \/ k.ip = "local"
    BY <1>1, <1>2, <1>3, <1>4
  <1> QED
    BY <1>5 DEF k

\* proc.seen places a sample, on a track it may have to make.
LEMMA ProcSeenFine ==
  ASSUME JInv, ProcSeen
  PROVE  Fine(c', now) /\ Lawful(c, c')
  <1>1. PICK pid \in ProcPid, ppid \in LinePid \cup ProcPid, ses \in Ses \cup {0},
             uid \in User, named \in BOOLEAN, agent \in Claims, ts \in Stamp :
             LET user == IF named THEN uid ELSE UserOf(c, "", uid)
                 s == IF named THEN Learn(c, uid) ELSE c
                 at == AttributeLocal(s, ses, ppid, user)
                 sample == [seen |-> ts, attributed |-> at.attributed,
                            agent |-> agent, ses |-> ses]
             IN  /\ c' = IF at.track = NoKey THEN s
                         ELSE Finish(Place(TrackFor(s, at.track, ts), at.track, pid, sample),
                                     at.track, ts)
                 /\ UNCHANGED now
    BY Zenon DEF ProcSeen
  <1> DEFINE user == IF named THEN uid ELSE UserOf(c, "", uid)
             s == IF named THEN Learn(c, uid) ELSE c
             at == AttributeLocal(s, ses, ppid, user)
             k == at.track
             sample == [seen |-> ts, attributed |-> at.attributed,
                        agent |-> agent, ses |-> ses]
             s1 == TrackFor(s, k, ts)
             s2 == Place(s1, k, pid, sample)
  <1>2. c' = IF k = NoKey THEN s ELSE Finish(s2, k, ts)
    BY <1>1
  <1>3. user \in User \cup {""}
    BY DEF UserOf
  <1>4. Sound(c) /\ Identified(c) /\ Held(c, {}, {}, now) /\ now \in Nat
    BY DEF JInv, IInv, Fine
  <1>5. Sound(s) /\ Identified(s) /\ Held(s, {}, {}, now) /\ s.live = c.live
    BY <1>4, LearnSound, LearnHeld
  <1>6. /\ pid \in Pid /\ ppid \in Pid \cup {0} /\ agent \in Claim
        /\ ts \in Nat /\ ts <= now /\ (MaxLag = 0 => ts = now)
    BY InputsAssumption, StampNow
  <1>7. ts # 0
    BY StampType DEF JInv
  <1> HIDE DEF user, s
  <1>8. at.track \in Key \cup {NoKey} /\ at.attributed \in BOOLEAN
    BY <1>3, <1>5, <1>6, AttributeRange
  <1>9. at.track \in s.live \cup {NoKey} \/ at.track.ip = "local"
    BY <1>3, <1>5, <1>6, AttributeHome
  <1> HIDE DEF at
  <1>10. CASE k = NoKey
    BY <1>2, <1>5, <1>10, LiveSpared DEF Fine, Born, Lawful
  <1>11. CASE k # NoKey
    <2>1. k \in Key
      BY <1>8, <1>11
    <2>2. sample \in Proc /\ sample.seen # 0
      BY <1>6, <1>7, <1>8 DEF Proc, Time
    <2> HIDE DEF k, sample
    <2>3. Sound(s1) /\ k \in s1.live /\ s.live \subseteq s1.live
      BY <1>5, <1>6, <2>1, TrackForSound
    <2>4. Held(s1, {k}, {}, now)
      BY <1>4, <1>5, <1>6, <2>1, TrackForHeld
    <2>5. s1.conns = s.conns /\ s1.live \subseteq s.live \cup {k}
      BY <1>5 DEF TrackFor, Sound, Weak, StateOK
    <2> HIDE DEF s1
    <2>6. Identified(s1)
      BY <1>5, <2>5, NamesFrame
    <2>7. Sound(s2) /\ s2.live = s1.live
      BY <1>6, <2>2, <2>3, PlaceSound
    <2>8. Identified(s2) /\ Held(s2, {k}, {}, now)
      BY <1>6, <2>2, <2>3, <2>4, <2>6, PlaceHeld
    <2> HIDE DEF s2
    <2>9. Weak(s2, {}) /\ k \in s2.live \cup {NoKey}
      BY <2>3, <2>7 DEF Sound
    <2>10. Fine(Finish(s2, k, ts), now)
      BY <1>4, <1>6, <2>8, <2>9, FinishFine
    <2>11. Born(c, s2)
      BY <1>5, <1>9, <1>11, <2>5, <2>7 DEF Born, k
    <2>12. Born(c, Finish(s2, k, ts)) /\ Stays(s2, Finish(s2, k, ts))
      BY <2>9, <2>11, FinishBorn
    <2>13. Kept(c, Finish(s2, k, ts))
      BY <1>5, <2>3, <2>7, <2>12, LiveSpared DEF Stays
    <2> QED
      BY <1>2, <1>11, <2>10, <2>12, <2>13 DEF Lawful
  <1> QED
    BY <1>10, <1>11

\* proc.gone withdraws the claim of the process.
LEMMA ProcGoneFine ==
  ASSUME JInv, ProcGone
  PROVE  Fine(c', now) /\ Lawful(c, c')
  <1>1. PICK pid \in ProcPid, ts \in Stamp :
             LET k == c.byProcPID[pid] IN
             k # NoKey /\ c' = Finish(Remove(c, k, pid), k, ts)
    BY DEF ProcGone
  <1> DEFINE k == c.byProcPID[pid]
             s == Remove(c, k, pid)
  <1>2. k # NoKey /\ c' = Finish(s, k, ts) /\ pid \in Pid
    BY <1>1, InputsAssumption
  <1>3. Sound(c) /\ Identified(c) /\ Held(c, {}, {}, now)
    BY DEF JInv, IInv, Fine
  <1>4. Sound(s) /\ s.live = c.live /\ k \in c.live
    BY <1>2, <1>3, RemoveSound
  <1>5. Identified(s) /\ Held(s, {}, {}, now)
    BY <1>2, <1>3, RemoveHeld
  <1> HIDE DEF k, s
  <1>6. Weak(s, {}) /\ k \in s.live \cup {NoKey}
    BY <1>4 DEF Sound
  <1> QED
    BY <1>2, <1>4, <1>5, <1>6, HandlerEnds

\* net.conn adds a socket sample, to a track it may have to make.
LEMMA NetConnFine ==
  ASSUME JInv, NetConn
  PROVE  Fine(c', now) /\ Lawful(c, c')
  <1>1. PICK pid \in ProcPid \cup {0}, ses \in Ses \cup {0}, uid \in User, named \in BOOLEAN,
             ts \in Stamp :
             LET bySes == TrackBySes(c, ses)
                 byPid == IF pid = 0 THEN NoKey ELSE c.byProcPID[pid]
                 user == IF named THEN uid ELSE UserOf(c, "", uid)
                 k == IF bySes # NoKey THEN bySes
                      ELSE IF byPid # NoKey THEN byPid
                      ELSE AttributeLocal(c, ses, 0, user).track
             IN  /\ k # NoKey
                 /\ c' = LET s == TrackFor(c, k, ts) IN
                         Finish([s EXCEPT !.tracks[k].net = @ \cup {ts}], k, ts)
                 /\ UNCHANGED now
    BY Zenon DEF NetConn
  <1> DEFINE bySes == TrackBySes(c, ses)
             byPid == IF pid = 0 THEN NoKey ELSE c.byProcPID[pid]
             user == IF named THEN uid ELSE UserOf(c, "", uid)
             local == AttributeLocal(c, ses, 0, user).track
             k == IF bySes # NoKey THEN bySes ELSE IF byPid # NoKey THEN byPid ELSE local
             s == TrackFor(c, k, ts)
             t == [s EXCEPT !.tracks[k].net = @ \cup {ts}]
  <1>2. k # NoKey /\ c' = Finish(t, k, ts)
    BY <1>1
  <1>3. Sound(c) /\ Identified(c) /\ Held(c, {}, {}, now) /\ now \in Nat
    BY DEF JInv, IInv, Fine
  <1>4. c.live \subseteq Key
    BY <1>3 DEF Sound, Weak, StateOK
  <1>5. bySes \in Key \cup {NoKey}
    BY <1>3, <1>4, LookupRange
  <1>6. byPid \in Key \cup {NoKey}
    BY <1>3, InputsAssumption DEF Sound, Weak, StateOK, KeyOrNone
  <1>7. user \in User \cup {""}
    BY DEF UserOf
  <1> HIDE DEF bySes, byPid, user
  <1>8. local \in Key \cup {NoKey}
    BY <1>3, <1>7, AttributeRange
  <1> HIDE DEF local
  <1>9. k \in Key /\ (k \in c.live \/ k.ip = "local")
    <2>1. local \in c.live \cup {NoKey} \/ local.ip = "local"
      BY <1>3, <1>7, AttributeHome DEF local
    <2>2. bySes \in c.live \cup {NoKey}
      BY <1>3, LookupRange DEF bySes
    <2>3. byPid \in c.live \cup {NoKey}
      BY <1>3, InputsAssumption DEF byPid, Sound, Weak, TrackIndexesLive, ProcIndexLive
    <2> QED
      BY <1>2, <1>5, <1>6, <1>8, <2>1, <2>2, <2>3
  <1>10. ts \in Nat /\ ts <= now /\ (MaxLag = 0 => ts = now)
    BY StampNow
  <1> HIDE DEF k
  <1>11. Sound(s) /\ k \in s.live /\ c.live \subseteq s.live
    BY <1>3, <1>9, <1>10, TrackForSound
  <1>12. Held(s, {k}, {}, now)
    BY <1>3, <1>9, <1>10, TrackForHeld
  <1>13. s.conns = c.conns /\ s.live \subseteq c.live \cup {k}
    BY <1>3 DEF TrackFor, Sound, Weak, StateOK
  <1> HIDE DEF s
  <1>14. Identified(s)
    BY <1>3, <1>13, NamesFrame
  <1>15. Sound(t) /\ t.live = s.live
    BY <1>10, <1>11, NetSound
  <1>16. Identified(t) /\ Held(t, {k}, {}, now)
    BY <1>10, <1>11, <1>12, <1>14, NetHeld
  <1> HIDE DEF t
  <1>17. Weak(t, {}) /\ k \in t.live \cup {NoKey}
    BY <1>11, <1>15 DEF Sound
  <1>18. Fine(Finish(t, k, ts), now)
    BY <1>3, <1>10, <1>16, <1>17, FinishFine
  <1>19. Born(c, t)
    BY <1>9, <1>13, <1>15 DEF Born
  <1>20. Born(c, Finish(t, k, ts)) /\ Stays(t, Finish(t, k, ts))
    BY <1>17, <1>19, FinishBorn
  <1>21. Kept(c, Finish(t, k, ts))
    BY <1>11, <1>15, <1>20, LiveSpared DEF Stays
  <1> QED
    BY <1>2, <1>18, <1>20, <1>21 DEF Lawful

\* The maintenance tick (Expire) trims and drops tracks.
LEMMA ExpireFine ==
  ASSUME JInv, Expire
  PROVE  Fine(c', now) /\ Lawful(c, c')
  <1> DEFINE gone == Idle(c, now)
             f == Forget(c, now)
             kept == c.live \ gone
             s == Trim(f, kept, now)
             d == Drop(s, gone)
  <1>1. c' = Collect(d)
    BY DEF Expire
  <1>2. Sound(c) /\ Identified(c) /\ Held(c, {}, {}, now) /\ now \in Nat
    BY DEF JInv, IInv, Fine
  <1>3. Sound(f) /\ f.live = c.live
    BY <1>2, ForgetSound
  <1>4. f.tracks = c.tracks /\ f.userLast = c.userLast /\ f.conns = c.conns
    BY <1>2 DEF Forget, Sound, Weak, StateOK
  <1>5. gone \in SUBSET Key /\ kept \in SUBSET f.live
    BY <1>2, <1>3 DEF Idle, Sound, Weak, StateOK
  <1>6. \A k \in gone : now - c.tracks[k].lastSeen > Window
    BY DEF Idle
  <1> HIDE DEF gone, f, kept
  <1>7. Identified(f) /\ Held(f, {}, {}, now)
    BY <1>2, <1>3, <1>4, AsideHeld DEF Sound
  <1>8. Sound(s) /\ s.live = f.live
    BY <1>2, <1>3, <1>5, TrimSound
  <1>9. Identified(s) /\ Held(s, {}, {}, now)
    BY <1>2, <1>3, <1>5, <1>7, TrimHeld
  <1> HIDE DEF s
  <1>10. Weak(s, {}) /\ Weak(d, {}) /\ d.live = s.live \ gone
    BY <1>5, <1>8, DropWeak DEF Sound
  <1>11. Calm(s, d, {})
    BY <1>5, <1>10, DropCalm
  <1>12. d.conns = s.conns
    BY <1>10 DEF Drop, Weak, StateOK
  <1> HIDE DEF d
  <1>13. Held(d, {}, {}, now)
    BY <1>9, <1>10, <1>11, CalmHeld
  <1>14. Identified(d)
    BY <1>9, <1>12, NamesFrame
  <1>15. /\ Held(Collect(d), {}, {}, now)
         /\ \A r \in ConnId : Collect(d).conns[r] \in {d.conns[r], NoConn}
    BY <1>10, <1>13, CollectHeld
  <1>16. Identified(Collect(d))
    BY <1>14, <1>15, NamesFrame
  <1>17. Collect(d).live = d.live
    BY DEF Collect
  <1>18. c'.live = c.live \ gone
    BY <1>1, <1>3, <1>8, <1>10, <1>17
  <1>19. Kept(c, c')
    BY <1>18, <1>6 DEF Kept
  <1> QED
    BY <1>1, <1>15, <1>16, <1>18, <1>19 DEF Fine, Born, Lawful

\* A restart rebuilds userLast and keeps the tracks and their connections.
LEMMA RestartFine ==
  ASSUME JInv, Restart
  PROVE  Fine(c', now) /\ Lawful(c, c')
  <1>1. PICK rank \in Rankings(c.live) : c' = Restore(c, rank)
    BY DEF Restart
  <1>2. Fine(c', now)
    BY RestoreFine DEF JInv, IInv, Restart
  <1>3. Restore(c, rank).live = c.live
    BY DEF Restore, JInv, IInv, Sound, Weak, StateOK
  <1> QED
    BY <1>1, <1>2, <1>3, LiveSpared DEF Born, Lawful

\* The passing of time makes no track younger.
LEMMA TickFine ==
  ASSUME JInv, Tick
  PROVE  Fine(c', now') /\ Lawful(c, c')
  <1>1. c' = c /\ now' = now + 1 /\ now \in Nat
    BY DEF JInv, IInv, Tick
  <1>2. c.live \subseteq Key /\ c.tracks \in [Key -> Track]
    BY DEF JInv, IInv, Sound, Weak, StateOK
  <1>3. \A k \in c.live : c.tracks[k].lastSeen \in Nat
    BY <1>2 DEF Track, Time
  <1>4. Newest(c, {}, now) => Newest(c, {}, now')
    BY <1>1, <1>3 DEF Newest
  <1> QED
    BY <1>1, <1>4, LiveSpared DEF JInv, Fine, Held, Born, Lawful

-----------------------------------------------------------------------------
(***************************************************************************)
(* The theorems.                                                           *)
(***************************************************************************)
\* The invariant holds of a correlator that has seen nothing.
LEMMA InitJInv == Init => JInv
  <1> SUFFICES ASSUME Init
               PROVE  JInv
    OBVIOUS
  <1>1. IInv /\ c = Empty
    BY InitIInv DEF Init
  <1>2. Empty.live = {} /\ \A r \in ConnId : Empty.conns[r] = NoConn
    BY DEF Empty
  <1>3. NoConn.track = NoKey /\ NoConn.ip = "" /\ NoConn.fp = ""
    BY DEF NoConn
  <1>4. Identified(c)
    BY <1>1, <1>2, <1>3 DEF Identified, Named
  <1>5. Held(c, {}, {}, now)
    BY <1>1, <1>2 DEF Held, Backed, Newest
  <1> QED
    BY <1>1, <1>4, <1>5 DEF JInv, Fine

\* Every event, expiry, restart and tick keeps the connections and the tracks
\* in order, makes no track without a connection on it and loses no evidence.
LEMMA StepFine ==
  ASSUME JInv, [Next]_vars
  PROVE  Fine(c', now') /\ Lawful(c, c')
  <1>1. CASE AuthOK
    BY <1>1, AuthOKFine DEF AuthOK
  <1>2. CASE SessionStart
    BY <1>2, SessionStartFine DEF SessionStart
  <1>3. CASE Banner
    BY <1>3, BannerFine DEF Banner
  <1>4. CASE SetEnv
    BY <1>4, SetEnvFine DEF SetEnv
  <1>5. CASE SSHRCDeclare
    BY <1>5, SSHRCDeclareFine DEF SSHRCDeclare
  <1>6. CASE PAMOpen
    BY <1>6, PAMOpenFine DEF PAMOpen
  <1>7. CASE UserChild
    BY <1>7, UserChildFine DEF UserChild
  <1>8. CASE Disconnect
    BY <1>8, DisconnectFine DEF Disconnect
  <1>9. CASE AuditLogin
    BY <1>9, AuditLoginFine DEF AuditLogin
  <1>10. CASE AuditLogout
    BY <1>10, AuditLogoutFine DEF AuditLogout
  <1>11. CASE ExecvePlumbing
    BY <1>11, ExecvePlumbingFine DEF ExecvePlumbing
  <1>12. CASE Execve
    BY <1>12, ExecveFine DEF Execve
  <1>13. CASE ProcSeen
    <2>1. now' = now
      BY <1>13, ProcSeenSound DEF JInv
    <2> QED
      BY <1>13, <2>1, ProcSeenFine
  <1>14. CASE ProcGone
    BY <1>14, ProcGoneFine DEF ProcGone
  <1>15. CASE NetConn
    <2>1. now' = now
      BY <1>15, NetConnSound DEF JInv
    <2> QED
      BY <1>15, <2>1, NetConnFine
  <1>16. CASE Expire
    BY <1>16, ExpireFine DEF Expire
  <1>17. CASE Restart
    BY <1>17, RestartFine DEF Restart
  <1>18. CASE Tick
    BY <1>18, TickFine
  <1>19. CASE UNCHANGED vars
    <2>1. c' = c /\ now' = now
      BY <1>19 DEF vars
    <2> QED
      BY <2>1, LiveSpared DEF JInv, Born, Lawful
  <1> QED
    BY <1>1, <1>2, <1>3, <1>4, <1>5, <1>6, <1>7, <1>8, <1>9, <1>10, <1>11, <1>12, <1>13,
       <1>14, <1>15, <1>16, <1>17, <1>18, <1>19 DEF Next

\* Every event, expiry, restart and tick preserves the invariant.
LEMMA NextJInv == JInv /\ [Next]_vars => JInv'
  <1> SUFFICES ASSUME JInv, [Next]_vars
               PROVE  JInv'
    OBVIOUS
  <1>1. IInv'
    BY NextIInv DEF JInv
  <1>2. Fine(c', now')
    BY StepFine
  <1>3. JInv' <=> IInv' /\ Fine(c', now')
    BY DEF JInv, Fine, Identified, Named, KeyOf, Held, Backed, Shows, Declarers, Newest
  <1> QED
    BY <1>1, <1>2, <1>3

\* What the invariant says of the three properties.
LEMMA JInvMeans == JInv => IdentityKept /\ DeclaredBacked /\ (MaxLag = 0 => UserLastNewest)
  <1> SUFFICES ASSUME JInv
               PROVE  IdentityKept /\ DeclaredBacked /\ (MaxLag = 0 => UserLastNewest)
    OBVIOUS
  <1>1. c.live \subseteq Key /\ c.tracks \in [Key -> Track]
    BY DEF JInv, IInv, Sound, Weak, StateOK
  <1>2. IdentityKept
    <2> SUFFICES ASSUME NEW k \in c.live, NEW r \in c.tracks[k].conns
                 PROVE  k = KeyOf(c.conns[r])
      BY DEF IdentityKept, KeyOf
    <2>1. k \in Key /\ r \in ConnId
      BY <1>1 DEF Track
    <2>2. c.conns[r].track = k
      BY <2>1 DEF JInv, IInv, Sound, Weak, Listed
    <2>3. k # NoKey
      BY <2>1, NoKeyFact
    <2> QED
      BY <2>1, <2>2, <2>3 DEF JInv, Fine, Identified, Named
  <1>3. DeclaredBacked
    BY DEF JInv, Fine, Held, Backed, Shows, DeclaredBacked
  <1>4. MaxLag = 0 => UserLastNewest
    BY DEF JInv, Fine, Held, Newest, UserLastNewest
  <1> QED
    BY <1>2, <1>3, <1>4

\* Every connection is booked on the account, the address and the key it has,
\* whichever line of whichever reader came first (authOK, ensureConn, auditLogin).
THEOREM IdentityHolds == Spec => []IdentityKept
  <1>1. JInv => IdentityKept
    BY JInvMeans
  <1> QED
    BY <1>1, InitJInv, NextJInv, PTL DEF Spec

\* A track's declaration is the claim of something on the track now, and a track
\* with such a claim shows one (refreshDeclared is called wherever it must be).
THEOREM DeclarationsBacked == Spec => []DeclaredBacked
  <1>1. JInv => DeclaredBacked
    BY JInvMeans
  <1> QED
    BY <1>1, InitJInv, NextJInv, PTL DEF Spec

\* userLast leads to the user's most recently active track when events come in
\* the order of their timestamps, as the property's comment requires (touch,
\* drop, Restore); an event that lags the clock may leave it on an older track.
THEOREM LastTrackNewest ==
  ASSUME MaxLag = 0
  PROVE  Spec => []UserLastNewest
  <1>1. JInv => UserLastNewest
    BY JInvMeans
  <1> QED
    BY <1>1, InitJInv, NextJInv, PTL DEF Spec

\* A step that makes a track makes it with the connection it is for, or for
\* processes with no SSH session to join: a line about a known session leaves no
\* track behind that nobody connected on (auditLogin, attributeLocal).
THEOREM TracksConnected == Spec => BornWithConn
  <1>1. JInv /\ [Next]_vars =>
          [\A k \in c'.live \ c.live : k.ip = "local" \/ c'.tracks[k].conns # {}]_vars
    BY StepFine DEF Lawful, Born
  <1> QED
    BY <1>1, InitJInv, NextJInv, PTL DEF Spec, BornWithConn

\* A step that drops a track drops one that was idle for longer than the window,
\* or a provisional one whose connections and exec samples another track has
\* (moveConn, drop, Expire; the samples move before the track is looked at).
THEOREM EvidenceSurvives == Spec => EvidenceKept
  <1>1. JInv /\ [Next]_vars =>
          [\A k \in c.live \ c'.live : Idled(k) \/ Absorbed(k)]_vars
    BY StepFine DEF Lawful, Kept, Taken, Saved, Idled, Absorbed
  <1> QED
    BY <1>1, InitJInv, NextJInv, PTL DEF Spec, EvidenceKept
=============================================================================
