--------------------------- MODULE CorrelatorProofs ---------------------------
(***************************************************************************)
(* Proofs that the correlator's indexes stay sound and every field keeps   *)
(* its type, the samples of a track their number too, for every set of     *)
(* users, addresses, pids, sessions and agents and every bound.            *)
(*                                                                         *)
(* A handler is a composition of the helpers of Tracks, so there is one    *)
(* lemma per helper: it takes a state that is Sound, or only Weak, and     *)
(* says the state it returns is.  Weak is what holds between two helpers:  *)
(* a track just dropped may still be named by connections that nothing     *)
(* refers to any more, until the end of the step collects them.            *)
(***************************************************************************)
EXTENDS Correlator, FiniteSetTheorems, SequenceTheorems, TLAPS

-----------------------------------------------------------------------------
(***************************************************************************)
(* The inductive invariant.                                                *)
(***************************************************************************)
\* What addExec lets a track keep.
Samples == {xs \in Seq(Exec) : Len(xs) <= MaxExecs}

\* The types.
StateOK(s) ==
    s \in [live : SUBSET Key, tracks : [Key -> Track], execs : [Key -> Samples],
           conns : [ConnId -> Conn], byPID : [Pid -> Ref], byTuple : [Tuple -> Ref],
           bySes : [Ses -> KeyOrNone], byProcPID : [Pid -> KeyOrNone],
           userLast : [User -> KeyOrNone], uidUser : SUBSET User,
           plumb : [Pid -> Time], sessParent : [Pid -> Time]]

\* A connection is listed by the live track it names, and by no other.  X are
\* the connections on their way from one track to another.
Listed(s, X) ==
    \A r \in ConnId \ X, k \in Key :
        r \in s.tracks[k].conns <=> k \in s.live /\ s.conns[r].track = k

\* A connection an index leads to names a live track or none.
Reached(s, X) ==
    /\ \A p \in Pid : s.byPID[p] \notin X \cup {NoRef} =>
         s.conns[s.byPID[p]].track \in s.live \cup {NoKey}
    /\ \A x \in Tuple : s.byTuple[x] \notin X \cup {NoRef} =>
         s.conns[s.byTuple[x]].track \in s.live \cup {NoKey}

Weak(s, X) ==
    StateOK(s) /\ Listed(s, X) /\ Reached(s, X) /\ TrackIndexesLive(s) /\ PidIndexSound(s)

\* Every connection names a live track or none.
NoOrphan(s, X) == \A r \in ConnId \ X : s.conns[r].track \in s.live \cup {NoKey}

Sound(s) == Weak(s, {}) /\ NoOrphan(s, {})

IInv == Sound(c) /\ now \in Nat \ {0} /\ now <= MaxTime

\* What an event says of the connection it is about.
Event == [pid : Pid \cup {0}, user : User \cup {""}, ip : IP \cup {""}, port : Port \cup {0}]

-----------------------------------------------------------------------------
(***************************************************************************)
(* Lemmas about exec samples.                                              *)
(***************************************************************************)
\* The places of I are numbered in their order.
LEMMA RankProps ==
  ASSUME NEW m \in Nat, NEW I \in SUBSET (1..m)
  PROVE  /\ Cardinality(I) \in Nat /\ Cardinality(I) <= m
         /\ \A i \in I : Cardinality({j \in I : j <= i}) \in 1..Cardinality(I)
         /\ \A i, k \in I :
              Cardinality({j \in I : j <= i}) = Cardinality({j \in I : j <= k}) => i = k
         /\ \A n \in 1..Cardinality(I) : \E i \in I : Cardinality({j \in I : j <= i}) = n
  <1> DEFINE upto(i) == {j \in I : j <= i}
             rank == [i \in I |-> Cardinality(upto(i))]
             T == 1..Cardinality(I)
  <1>1. IsFiniteSet(1..m) /\ Cardinality(1..m) = m
    BY FS_Interval
  <1>2. IsFiniteSet(I) /\ Cardinality(I) <= m
    BY <1>1, FS_Subset
  <1>3. Cardinality(I) \in Nat
    BY <1>2, FS_CardinalityType
  <1>4. ASSUME NEW i \in I
        PROVE  /\ IsFiniteSet(upto(i)) /\ Cardinality(upto(i)) \in 1..Cardinality(I)
    <2>1. upto(i) \in SUBSET I
      OBVIOUS
    <2>2. IsFiniteSet(upto(i)) /\ Cardinality(upto(i)) <= Cardinality(I)
      BY <1>2, <2>1, FS_Subset
    <2>3. Cardinality(upto(i)) \in Nat
      BY <2>2, FS_CardinalityType
    <2>4. upto(i) # {}
      OBVIOUS
    <2>5. Cardinality(upto(i)) # 0
      BY <2>2, <2>4, FS_EmptySet
    <2> QED
      BY <1>3, <2>2, <2>3, <2>5
  <1>5. ASSUME NEW i \in I, NEW k \in I, i < k
        PROVE  Cardinality(upto(i)) # Cardinality(upto(k))
    <2>1. \A j \in I : j <= i => j <= k
      BY <1>5
    <2>2. k \in upto(k) /\ k \notin upto(i)
      BY <1>1, <1>5
    <2>3. IsFiniteSet(upto(k)) /\ upto(i) # upto(k)
      BY <1>4, <2>2
    <2>4. upto(i) \in SUBSET upto(k)
      BY <2>1
    <2> HIDE DEF upto
    <2> QED
      BY <2>3, <2>4, FS_Subset
  <1>6. \A i, k \in I : Cardinality(upto(i)) = Cardinality(upto(k)) => i = k
    BY <1>5
  <1>7. \A n \in T : \E i \in I : Cardinality(upto(i)) = n
    <2>1. IsFiniteSet(T) /\ Cardinality(T) = Cardinality(I)
      BY <1>3, FS_Interval
    <2>2. rank \in Injection(I, T)
      BY <1>4, <1>6 DEF Injection, IsInjective
    <2> HIDE DEF rank, T
    <2>3. rank \in Surjection(I, T)
      BY <1>2, <2>1, <2>2, FS_Injection
    <2> QED
      BY <2>3 DEF Surjection, rank
  <1> QED
    BY <1>2, <1>3, <1>4, <1>6, <1>7

\* Picking places gives a sequence of the elements there, and every one of them.
LEMMA PickProps ==
  ASSUME NEW S, NEW xs \in Seq(S), NEW I \in SUBSET DOMAIN xs
  PROVE  /\ Pick(xs, I) \in Seq(S)
         /\ Len(Pick(xs, I)) = Cardinality(I) /\ Len(Pick(xs, I)) <= Len(xs)
         /\ \A i \in I : \E n \in DOMAIN Pick(xs, I) : Pick(xs, I)[n] = xs[i]
  <1> DEFINE rank(i) == Cardinality({j \in I : j <= i})
             at(n) == CHOOSE i \in I : rank(i) = n
             T == 1..Cardinality(I)
  <1>1. I \in SUBSET (1..Len(xs)) /\ Len(xs) \in Nat
    OBVIOUS
  <1>2. /\ Cardinality(I) \in Nat /\ Cardinality(I) <= Len(xs)
        /\ \A i \in I : rank(i) \in T
        /\ \A i, k \in I : rank(i) = rank(k) => i = k
        /\ \A n \in T : \E i \in I : rank(i) = n
    BY <1>1, RankProps
  <1> HIDE DEF rank
  <1>3. \A n \in T : at(n) \in I /\ rank(at(n)) = n
    BY <1>2
  <1>4. Pick(xs, I) = [n \in T |-> xs[at(n)]]
    BY DEF Pick, rank
  <1> HIDE DEF at
  <1>5. \A n \in T : xs[at(n)] \in S
    BY <1>3
  <1>6. Pick(xs, I) \in Seq(S) /\ Len(Pick(xs, I)) = Cardinality(I)
    BY <1>2, <1>4, <1>5
  <1>7. ASSUME NEW i \in I
        PROVE  \E n \in DOMAIN Pick(xs, I) : Pick(xs, I)[n] = xs[i]
    <2>1. rank(i) \in T /\ at(rank(i)) = i
      BY <1>2, <1>3
    <2> QED
      BY <1>4, <2>1
  <1> QED
    BY <1>2, <1>6, <1>7

\* Adding samples keeps all of them, or as many as a track may have.
LEMMA CutSamples ==
  ASSUME NEW ys \in Samples, NEW xs \in Seq(Exec)
  PROVE  LET all == ys \o xs
             over == Len(all) - MaxExecs
             kept == SubSeq(all, IF over > 0 THEN over + 1 ELSE 1, Len(all))
         IN  kept \in Samples /\ (kept = all \/ Len(kept) = MaxExecs)
  <1> DEFINE all == ys \o xs
             over == Len(all) - MaxExecs
             m == IF over > 0 THEN over + 1 ELSE 1
             kept == SubSeq(all, m, Len(all))
  <1>1. all \in Seq(Exec) /\ Len(all) \in Nat /\ MaxExecs \in Nat \ {0}
    BY SizesAssumption, ConcatProperties DEF Samples
  <1> HIDE DEF all
  <1>2. m \in 1..Len(all) + 1 /\ Len(all) - m + 1 = IF over > 0 THEN MaxExecs ELSE Len(all)
    BY <1>1
  <1> HIDE DEF m
  <1>3. \A i \in m..Len(all) : all[i] \in Exec
    BY <1>1, <1>2
  <1>4. /\ kept \in Seq(Exec)
        /\ Len(kept) = IF m <= Len(all) THEN Len(all) - m + 1 ELSE 0
        /\ \A i \in 1..Len(all) - m + 1 : kept[i] = all[m + i - 1]
    BY <1>1, <1>2, <1>3, SubSeqProperties
  <1> HIDE DEF kept
  <1>5. Len(kept) = Len(all) - m + 1
    BY <1>1, <1>2, <1>4
  <1>6. CASE over > 0
    BY <1>2, <1>4, <1>5, <1>6 DEF Samples, kept, m, all
  <1>7. CASE ~(over > 0)
    <2>1. m = 1 /\ Len(kept) = Len(all)
      BY <1>1, <1>2, <1>5, <1>7 DEF m
    <2>2. kept = all
      BY <1>1, <1>4, <2>1
    <2>3. Len(kept) <= MaxExecs
      BY <1>1, <1>7, <2>1
    <2> QED
      BY <1>4, <2>2, <2>3 DEF Samples, kept, m, all
  <1> QED
    BY <1>6, <1>7

\* A set of numbers has a least one.
LEMMA LeastNumber ==
  ASSUME NEW B \in SUBSET Nat, B # {}
  PROVE  \E x \in B : \A y \in B : x <= y
  <1> DEFINE R == OpToRel(<, Nat)
  <1>1. IsWellFoundedOn(R, Nat)
    BY NatLessThanWellFounded
  <1>2. \E x \in B : \A y \in B : ~(<<y, x>> \in R)
    <2> HIDE DEF R
    <2> QED
      BY <1>1, WFMin
  <1>3. \A x, y \in B : ~(<<y, x>> \in R) => x <= y
    BY DEF OpToRel
  <1> QED
    BY <1>2, <1>3

\* The samples left of a trim, as trimExecs finds the first that stays.
LEMMA TrimSamples ==
  ASSUME NEW xs \in Samples, NEW cut
  PROVE  TrimExecs(xs, cut) \in Samples
  <1> DEFINE old(n) == \A i \in 1..n : xs[i].ts < cut
             n == CHOOSE n \in 0..Len(xs) : old(n) /\ (n = Len(xs) \/ ~old(n + 1))
  <1>1. xs \in Seq(Exec) /\ Len(xs) \in Nat /\ Len(xs) <= MaxExecs
    BY DEF Samples
  <1>2. \E j \in 0..Len(xs) : old(j) /\ (j = Len(xs) \/ ~old(j + 1))
    <2> DEFINE B == {j \in 0..Len(xs) : ~old(j)}
    <2>1. CASE B = {}
      BY <1>1, <2>1
    <2>2. CASE B # {}
      <3>1. B \subseteq Nat
        OBVIOUS
      <3> HIDE DEF B
      <3>2. PICK x \in B : \A y \in B : x <= y
        BY <2>2, <3>1, LeastNumber
      <3> USE DEF B
      <3>3. x \in 1..Len(xs)
        BY <1>1
      <3>4. x - 1 \in 0..Len(xs) /\ x - 1 \notin B
        BY <1>1, <3>2, <3>3
      <3> WITNESS x - 1 \in 0..Len(xs)
      <3> QED
        BY <3>3, <3>4
    <2> QED
      BY <2>1, <2>2
  <1>3. n \in 0..Len(xs)
    BY <1>2
  <1> HIDE DEF n
  <1>4. \A i \in n + 1..Len(xs) : xs[i] \in Exec
    BY <1>1, <1>3
  <1> DEFINE left == SubSeq(xs, n + 1, Len(xs))
             len == Len(xs)
  <1>5. left \in Seq(Exec) /\ Len(left) = IF n + 1 <= len THEN len - (n + 1) + 1 ELSE 0
    BY <1>1, <1>3, <1>4, SubSeqProperties
  <1>6. TrimExecs(xs, cut) = left
    BY DEF TrimExecs, n
  <1> HIDE DEF left, len
  <1>7. len \in Nat /\ len <= MaxExecs /\ n \in 0..len
    BY <1>1, <1>3 DEF len
  <1>8. Len(left) <= MaxExecs
    BY <1>5, <1>7, SizesAssumption
  <1> QED
    BY <1>5, <1>6, <1>8 DEF Samples

\* One sample is a sequence of samples.
LEMMA OneSample ==
  ASSUME NEW x \in Exec
  PROVE  <<x>> \in Seq(Exec)
  OBVIOUS

\* A new track has no samples.
LEMMA NoSamples == <<>> \in Samples
  BY SizesAssumption DEF Samples

-----------------------------------------------------------------------------
(***************************************************************************)
(* Lemmas about the helpers.                                               *)
(***************************************************************************)
\* The absent entry of a track index is no track's key.
LEMMA NoKeyFact == NoKey \notin Key
  BY NamesAssumption DEF NoKey, Key

\* The zero values are of their types, and a nil *connRef is no connection.
LEMMA TypesFact == /\ NoConn \in Conn /\ NoTrack \in Track /\ NoRef \notin ConnId
                   /\ NoTrack.conns = {} /\ NoConn.track = NoKey
  BY SizesAssumption DEF NoConn, Conn, KeyOrNone, NoTrack, Track, NoProc, Proc, Claim,
     NoRef, ConnId, Time

\* Collecting what nothing refers to makes a Weak state Sound.
LEMMA CollectSound ==
  ASSUME NEW s, Weak(s, {})
  PROVE  Sound(Collect(s))
  <1> DEFINE t == Collect(s)
  <1>1. /\ t.live = s.live /\ t.tracks = s.tracks /\ t.execs = s.execs
        /\ t.byPID = s.byPID /\ t.byTuple = s.byTuple /\ t.bySes = s.bySes
        /\ t.byProcPID = s.byProcPID /\ t.userLast = s.userLast
        /\ t.conns = [r \in ConnId |-> IF Referenced(s, r) THEN s.conns[r] ELSE NoConn]
    BY DEF Collect, Weak, StateOK
  <1>2. StateOK(t)
    BY TypesFact DEF Collect, Weak, StateOK
  <1> HIDE DEF t
  <1>3. Listed(t, {})
    BY <1>1, NoKeyFact, TypesFact DEF Weak, StateOK, Listed, Referenced
  <1>4. Reached(t, {})
    BY <1>1, TypesFact DEF Weak, StateOK, Reached, Referenced, Ref
  <1>5. TrackIndexesLive(t)
    BY <1>1 DEF Weak, TrackIndexesLive, SesIndexLive, ProcIndexLive, UserIndexLive, DeadBlank
  <1>6. PidIndexSound(t)
    BY <1>1, TypesFact DEF Weak, StateOK, PidIndexSound, Referenced, Ref
  <1>7. NoOrphan(t, {})
    BY <1>1, TypesFact DEF Weak, StateOK, NoOrphan, Listed, Reached, Referenced, Ref
  <1> QED
    BY <1>2, <1>3, <1>4, <1>5, <1>6, <1>7 DEF Sound, Weak, t

\* What a helper that changes neither the lists of connections nor an index
\* has to keep: the facts about indexes then carry over.
LEMMA FrameWeak ==
  ASSUME NEW s, NEW X, NEW t, Weak(s, X), StateOK(t),
         t.live = s.live, t.byPID = s.byPID, t.byTuple = s.byTuple,
         t.bySes = s.bySes, t.byProcPID = s.byProcPID, t.userLast = s.userLast,
         \A k \in Key : /\ t.tracks[k].conns = s.tracks[k].conns
                        /\ t.tracks[k].procs = s.tracks[k].procs
                        /\ k \notin s.live => t.tracks[k] = NoTrack,
         \A r \in ConnId : /\ t.conns[r].track = s.conns[r].track
                           /\ t.conns[r].pid = s.conns[r].pid
                           /\ t.conns[r].child = s.conns[r].child
  PROVE  Weak(t, X) /\ (NoOrphan(s, X) => NoOrphan(t, X))
  <1>1. Listed(t, X)
    BY DEF Weak, Listed
  <1>2. Reached(t, X)
    <2>1. ASSUME NEW p \in Pid, t.byPID[p] \notin X \cup {NoRef}
          PROVE  t.conns[t.byPID[p]].track \in t.live \cup {NoKey}
      <3>1. s.byPID[p] \in ConnId
        BY <2>1 DEF Weak, StateOK, Ref
      <3> QED
        BY <2>1, <3>1 DEF Weak, Reached
    <2>2. ASSUME NEW x \in Tuple, t.byTuple[x] \notin X \cup {NoRef}
          PROVE  t.conns[t.byTuple[x]].track \in t.live \cup {NoKey}
      <3>1. s.byTuple[x] \in ConnId
        BY <2>2 DEF Weak, StateOK, Ref
      <3> QED
        BY <2>2, <3>1 DEF Weak, Reached
    <2> QED
      BY <2>1, <2>2 DEF Reached
  <1>3. TrackIndexesLive(t)
    <2>1. s.live \subseteq Key
      BY DEF Weak, StateOK
    <2>2. ProcIndexLive(t)
      BY <2>1 DEF Weak, TrackIndexesLive, ProcIndexLive
    <2>3. SesIndexLive(t) /\ UserIndexLive(t) /\ DeadBlank(t)
      BY DEF Weak, TrackIndexesLive, SesIndexLive, UserIndexLive, DeadBlank
    <2> QED
      BY <2>2, <2>3 DEF TrackIndexesLive
  <1>4. PidIndexSound(t)
    BY TypesFact DEF Weak, PidIndexSound, StateOK, Ref
  <1>5. NoOrphan(s, X) => NoOrphan(t, X)
    BY DEF NoOrphan
  <1> QED
    BY <1>1, <1>2, <1>3, <1>4, <1>5 DEF Weak

\* Recomputing declarations of live tracks.
LEMMA RefreshWeak ==
  ASSUME NEW s, NEW X, Weak(s, X), NEW ks \in SUBSET s.live
  PROVE  LET t == RefreshDeclared(s, ks) IN
         /\ Weak(t, X) /\ (NoOrphan(s, X) => NoOrphan(t, X))
         /\ t.live = s.live /\ t.conns = s.conns /\ t.execs = s.execs
         /\ \A k \in Key : t.tracks[k].conns = s.tracks[k].conns
  <1> DEFINE t == RefreshDeclared(s, ks)
             name(k) == LET names == Declarers(s, s.tracks[k]) IN
                        IF names = {} THEN "" ELSE CHOOSE a \in names : TRUE
  <1>1. ASSUME NEW k \in Key PROVE name(k) \in Agent \cup {""}
    <2>1. s.tracks[k] \in Track
      BY DEF Weak, StateOK
    <2>2. \A r \in s.tracks[k].conns : s.conns[r].declared \in Agent \cup {""}
      BY <2>1 DEF Weak, StateOK, Track, Conn
    <2>3. Declarers(s, s.tracks[k]) \subseteq Agent
      BY <2>2 DEF Declarers
    <2> QED
      BY <2>3
  <1>2. /\ t.live = s.live /\ t.execs = s.execs /\ t.conns = s.conns
        /\ t.byPID = s.byPID /\ t.byTuple = s.byTuple /\ t.bySes = s.bySes
        /\ t.byProcPID = s.byProcPID /\ t.userLast = s.userLast
        /\ t.uidUser = s.uidUser /\ t.plumb = s.plumb /\ t.sessParent = s.sessParent
        /\ t.tracks = [k \in Key |-> IF k \notin ks THEN s.tracks[k]
                                     ELSE [s.tracks[k] EXCEPT !.declared = name(k)]]
    BY DEF RefreshDeclared, Weak, StateOK
  <1>3. DOMAIN t = DOMAIN s /\ t = [x \in DOMAIN s |-> t[x]]
    BY DEF RefreshDeclared, Weak, StateOK
  <1> HIDE DEF name
  <1>4. t.tracks \in [Key -> Track]
    <2>1. ASSUME NEW k \in Key
          PROVE  /\ s.tracks[k] \in Track
                 /\ [s.tracks[k] EXCEPT !.declared = name(k)] \in Track
      <3>1. s.tracks[k] \in Track
        BY DEF Weak, StateOK
      <3> QED
        BY <3>1, <1>1 DEF Track
    <2> QED
      BY <1>2, <2>1
  <1>5. StateOK(t)
    BY <1>2, <1>3, <1>4 DEF Weak, StateOK
  <1>6. \A k \in Key : /\ t.tracks[k].conns = s.tracks[k].conns
                       /\ t.tracks[k].procs = s.tracks[k].procs
                       /\ k \notin s.live => t.tracks[k] = NoTrack
    <2> SUFFICES ASSUME NEW k \in Key
                 PROVE  /\ t.tracks[k].conns = s.tracks[k].conns
                        /\ t.tracks[k].procs = s.tracks[k].procs
                        /\ k \notin s.live => t.tracks[k] = NoTrack
      OBVIOUS
    <2>1. s.tracks[k] \in Track
      BY DEF Weak, StateOK
    <2>2. k \notin s.live => s.tracks[k] = NoTrack
      BY DEF Weak, TrackIndexesLive, DeadBlank
    <2> QED
      BY <1>2, <2>1, <2>2 DEF Track
  <1> HIDE DEF t
  <1> QED
    BY <1>2, <1>5, <1>6, FrameWeak DEF t

\* Dropping tracks.
LEMMA DropWeak ==
  ASSUME NEW s, NEW X, Weak(s, X), NEW ks \in SUBSET Key
  PROVE  LET t == Drop(s, ks) IN
         /\ Weak(t, X)
         /\ t.live = s.live \ ks
         /\ t.conns = s.conns
         /\ \A k \in Key : t.tracks[k].conns \subseteq s.tracks[k].conns
  <1> DEFINE t == Drop(s, ks)
  <1>1. /\ t.live = s.live \ ks /\ t.conns = s.conns
        /\ t.tracks = [k \in Key |-> IF k \in ks THEN NoTrack ELSE s.tracks[k]]
        /\ t.byPID = [p \in Pid |-> IF /\ s.byPID[p] # NoRef
                                       /\ s.conns[s.byPID[p]].track \in ks
                                    THEN NoRef ELSE s.byPID[p]]
        /\ t.byTuple = [x \in Tuple |-> IF /\ s.byTuple[x] # NoRef
                                           /\ s.conns[s.byTuple[x]].track \in ks
                                        THEN NoRef ELSE s.byTuple[x]]
        /\ t.bySes = [x \in Ses |-> IF s.bySes[x] \in ks THEN NoKey ELSE s.bySes[x]]
        /\ t.byProcPID = [p \in Pid |-> IF s.byProcPID[p] \in ks THEN NoKey ELSE s.byProcPID[p]]
        /\ t.userLast = [u \in User |-> IF s.userLast[u] \in ks THEN NoKey ELSE s.userLast[u]]
        /\ t.uidUser = s.uidUser /\ t.plumb = s.plumb /\ t.sessParent = s.sessParent
        /\ t.execs = [k \in Key |-> IF k \in ks THEN <<>> ELSE s.execs[k]]
    BY DEF Drop, Weak, StateOK
  <1>2. DOMAIN t = DOMAIN s /\ t = [x \in DOMAIN s |-> t[x]]
    BY DEF Drop, Weak, StateOK
  <1>3. StateOK(t)
    BY <1>1, <1>2, TypesFact, NoSamples DEF Weak, StateOK, Ref, KeyOrNone
  <1> HIDE DEF t
  <1>4. Listed(t, X)
    BY <1>1, TypesFact DEF Weak, Listed, StateOK
  <1>5. Reached(t, X)
    <2>1. ASSUME NEW p \in Pid, t.byPID[p] \notin X \cup {NoRef}
          PROVE  t.conns[t.byPID[p]].track \in t.live \cup {NoKey}
      <3>1. t.byPID[p] = s.byPID[p] /\ s.conns[s.byPID[p]].track \notin ks
        BY <1>1, <2>1
      <3> QED
        BY <1>1, <2>1, <3>1 DEF Weak, Reached
    <2>2. ASSUME NEW x \in Tuple, t.byTuple[x] \notin X \cup {NoRef}
          PROVE  t.conns[t.byTuple[x]].track \in t.live \cup {NoKey}
      <3>1. t.byTuple[x] = s.byTuple[x] /\ s.conns[s.byTuple[x]].track \notin ks
        BY <1>1, <2>2
      <3> QED
        BY <1>1, <2>2, <3>1 DEF Weak, Reached
    <2> QED
      BY <2>1, <2>2 DEF Reached
  <1>6. TrackIndexesLive(t)
    <2>1. SesIndexLive(t)
      BY <1>1 DEF Weak, TrackIndexesLive, SesIndexLive
    <2>2. ProcIndexLive(t)
      BY <1>1 DEF Weak, StateOK, TrackIndexesLive, ProcIndexLive
    <2>3. UserIndexLive(t)
      BY <1>1 DEF Weak, TrackIndexesLive, UserIndexLive
    <2>4. DeadBlank(t)
      BY <1>1 DEF Weak, TrackIndexesLive, DeadBlank
    <2> QED
      BY <2>1, <2>2, <2>3, <2>4 DEF TrackIndexesLive
  <1>7. PidIndexSound(t)
    BY <1>1 DEF Weak, PidIndexSound, StateOK
  <1>8. \A k \in Key : t.tracks[k].conns \subseteq s.tracks[k].conns
    BY <1>1, TypesFact
  <1> QED
    BY <1>1, <1>3, <1>4, <1>5, <1>6, <1>7, <1>8 DEF Weak, t

\* Looking a track up by its key, or making it.
LEMMA TrackForSound ==
  ASSUME NEW s, Sound(s), NEW k \in Key, NEW ts \in Nat
  PROVE  LET t == TrackFor(s, k, ts) IN
         /\ Sound(t)
         /\ k \in t.live /\ s.live \subseteq t.live /\ t.conns = s.conns
         /\ t.byProcPID = s.byProcPID
  <1> DEFINE t == TrackFor(s, k, ts)
  <1>1. CASE k \in s.live
    BY <1>1 DEF TrackFor
  <1>2. CASE k \notin s.live
    <2>1. /\ t.live = s.live \cup {k} /\ t.conns = s.conns
          /\ t.tracks = [s.tracks EXCEPT ![k] = [NoTrack EXCEPT !.lastSeen = ts]]
          /\ t.byPID = s.byPID /\ t.byTuple = s.byTuple /\ t.bySes = s.bySes
          /\ t.byProcPID = s.byProcPID /\ t.userLast = s.userLast
      BY <1>2 DEF TrackFor, Sound, Weak, StateOK
    <2>2. [NoTrack EXCEPT !.lastSeen = ts] \in Track
      BY TypesFact DEF Track, Time
    <2>3. StateOK(t)
      BY <1>2, <2>2 DEF TrackFor, Sound, Weak, StateOK
    <2>4. [NoTrack EXCEPT !.lastSeen = ts].conns = {}
      BY DEF NoTrack
    <2> HIDE DEF t
    <2>5. Listed(t, {})
      <3>1. \A r \in ConnId : s.conns[r].track # k
        BY <1>2, NoKeyFact DEF Sound, NoOrphan
      <3> QED
        BY <2>1, <2>4, <3>1 DEF Sound, Weak, StateOK, Listed
    <2>6. Reached(t, {}) /\ NoOrphan(t, {}) /\ PidIndexSound(t)
      BY <2>1 DEF Sound, Weak, Reached, NoOrphan, PidIndexSound
    <2>7. TrackIndexesLive(t)
      <3>1. SesIndexLive(t) /\ UserIndexLive(t)
        BY <2>1 DEF Sound, Weak, TrackIndexesLive, SesIndexLive, UserIndexLive
      <3>2. ProcIndexLive(t)
        BY <1>2, <2>1 DEF Sound, Weak, StateOK, TrackIndexesLive, ProcIndexLive
      <3>3. DeadBlank(t)
        BY <2>1 DEF Sound, Weak, StateOK, TrackIndexesLive, DeadBlank
      <3> QED
        BY <3>1, <3>2, <3>3 DEF TrackIndexesLive
    <2> QED
      BY <2>1, <2>3, <2>5, <2>6, <2>7 DEF Sound, Weak, t
  <1> QED
    BY <1>1, <1>2

\* Filling in what an event says keeps a connection's identity.
LEMMA FillType ==
  ASSUME NEW cn \in Conn, NEW e \in Event
  PROVE  /\ FillConn(cn, e) \in Conn
         /\ FillConn(cn, e).track = cn.track
         /\ FillConn(cn, e).child = cn.child
         /\ cn.pid # 0 => FillConn(cn, e).pid = cn.pid
         /\ e.user # "" => FillConn(cn, e).user = e.user
  <1> DEFINE f == FillConn(cn, e)
  <1>1. /\ f.user = (IF e.user # "" THEN e.user ELSE cn.user)
        /\ f.ip = (IF e.ip # "" THEN e.ip ELSE cn.ip)
        /\ f.port = (IF e.port # 0 THEN e.port ELSE cn.port)
        /\ f.pid = (IF e.pid # 0 /\ cn.pid = 0 THEN e.pid ELSE cn.pid)
        /\ f.child = cn.child /\ f.track = cn.track /\ f.open = cn.open
        /\ f.ses = cn.ses /\ f.fp = cn.fp /\ f.declared = cn.declared
        /\ f.opened = cn.opened
    BY DEF FillConn, Conn
  <1>2. DOMAIN f = DOMAIN cn /\ f = [x \in DOMAIN cn |-> f[x]]
    BY DEF FillConn, Conn
  <1> HIDE DEF f
  <1>3. f \in Conn
    <2>1. /\ f.user \in User \cup {""} /\ f.ip \in IP \cup {""}
          /\ f.port \in Port \cup {0} /\ f.pid \in Pid \cup {0}
      BY <1>1 DEF Conn, Event
    <2>2. /\ f.child \in Pid \cup {0} /\ f.ses \in Ses \cup {0} /\ f.fp \in FP \cup {""}
          /\ f.declared \in Agent \cup {""} /\ f.open \in BOOLEAN
          /\ f.opened \in Time /\ f.track \in KeyOrNone
      BY <1>1 DEF Conn
    <2> QED
      BY <1>2, <2>1, <2>2 DEF Conn
  <1> QED
    BY <1>1, <1>3 DEF f

\* Changing a connection without moving it or renaming a pid it had.
LEMMA UpdateSound ==
  ASSUME NEW s, Sound(s), NEW r \in ConnId, NEW cn \in Conn,
         cn.track = s.conns[r].track, cn.child = s.conns[r].child,
         s.conns[r].pid # 0 => cn.pid = s.conns[r].pid
  PROVE  LET t == [s EXCEPT !.conns[r] = cn] IN
         Sound(t) /\ t.live = s.live /\ t.byProcPID = s.byProcPID
  <1> DEFINE t == [s EXCEPT !.conns[r] = cn]
  <1>1. /\ t.live = s.live /\ t.tracks = s.tracks
        /\ t.byPID = s.byPID /\ t.byTuple = s.byTuple /\ t.bySes = s.bySes
        /\ t.byProcPID = s.byProcPID /\ t.userLast = s.userLast
        /\ t.conns = [s.conns EXCEPT ![r] = cn]
    BY DEF Sound, Weak, StateOK
  <1>2. StateOK(t)
    BY DEF Sound, Weak, StateOK
  <1> HIDE DEF t
  <1>3. Listed(t, {}) /\ NoOrphan(t, {})
    BY <1>1 DEF Sound, Weak, StateOK, Listed, NoOrphan
  <1>4. Reached(t, {})
    BY <1>1 DEF Sound, Weak, StateOK, Reached
  <1>5. PidIndexSound(t)
    <2> SUFFICES ASSUME NEW p \in Pid, s.byPID[p] # NoRef
                 PROVE  p \in {t.conns[s.byPID[p]].pid, t.conns[s.byPID[p]].child}
      BY <1>1 DEF PidIndexSound
    <2>1. p \in {s.conns[s.byPID[p]].pid, s.conns[s.byPID[p]].child} /\ p # 0
      BY NamesAssumption DEF Sound, Weak, PidIndexSound
    <2>2. s.byPID[p] \in ConnId
      BY DEF Sound, Weak, StateOK, Ref
    <2> QED
      BY <1>1, <2>1, <2>2 DEF Sound, Weak, StateOK
  <1>6. TrackIndexesLive(t)
    BY <1>1 DEF Sound, Weak, TrackIndexesLive, SesIndexLive, ProcIndexLive,
       UserIndexLive, DeadBlank
  <1> QED
    BY <1>1, <1>2, <1>3, <1>4, <1>5, <1>6 DEF Sound, Weak, t

\* A new connection takes an id nothing refers to.
LEMMA NewConnSound ==
  ASSUME NEW s, Sound(s), NEW r \in ConnId, ~Referenced(s, r),
         NEW cn \in Conn, cn.track = NoKey
  PROVE  LET t == [s EXCEPT !.conns[r] = cn] IN
         Sound(t) /\ t.live = s.live /\ t.byProcPID = s.byProcPID
  <1> DEFINE t == [s EXCEPT !.conns[r] = cn]
  <1>1. /\ t.live = s.live /\ t.tracks = s.tracks
        /\ t.byPID = s.byPID /\ t.byTuple = s.byTuple /\ t.bySes = s.bySes
        /\ t.byProcPID = s.byProcPID /\ t.userLast = s.userLast
        /\ t.conns = [s.conns EXCEPT ![r] = cn]
    BY DEF Sound, Weak, StateOK
  <1>2. StateOK(t)
    BY DEF Sound, Weak, StateOK
  <1> HIDE DEF t
  <1>3. \A k \in Key : r \notin s.tracks[k].conns
    BY DEF Sound, Weak, Listed, Referenced
  <1>4. Listed(t, {}) /\ NoOrphan(t, {})
    BY <1>1, <1>3, NoKeyFact DEF Sound, Weak, StateOK, Listed, NoOrphan
  <1>5. Reached(t, {}) /\ PidIndexSound(t)
    BY <1>1 DEF Sound, Weak, StateOK, Reached, PidIndexSound, Referenced
  <1>6. TrackIndexesLive(t)
    BY <1>1 DEF Sound, Weak, TrackIndexesLive, SesIndexLive, ProcIndexLive,
       UserIndexLive, DeadBlank
  <1> QED
    BY <1>1, <1>2, <1>4, <1>5, <1>6 DEF Sound, Weak, t

\* Indexing a connection under its pids and its tuple.
LEMMA IndexKeepsSound ==
  ASSUME NEW s, Sound(s), NEW r \in ConnId
  PROVE  LET t == Index(s, r) IN
         /\ Sound(t) /\ t.live = s.live /\ t.conns = s.conns
         /\ t.byProcPID = s.byProcPID
  <1> DEFINE t == Index(s, r)
             cn == s.conns[r]
  <1>1. /\ t.live = s.live /\ t.tracks = s.tracks /\ t.conns = s.conns
        /\ t.bySes = s.bySes /\ t.byProcPID = s.byProcPID /\ t.userLast = s.userLast
        /\ t.byPID = [p \in Pid |-> IF p \in {cn.pid, cn.child} THEN r ELSE s.byPID[p]]
        /\ t.byTuple = [x \in Tuple |-> IF x = <<cn.user, cn.ip, cn.port>> THEN r
                                        ELSE s.byTuple[x]]
    BY DEF Index, Sound, Weak, StateOK
  <1>2. DOMAIN t = DOMAIN s /\ t = [x \in DOMAIN s |-> t[x]]
    BY DEF Index, Sound, Weak, StateOK
  <1>3. t.execs = s.execs /\ t.uidUser = s.uidUser /\ t.plumb = s.plumb
        /\ t.sessParent = s.sessParent
    BY DEF Index, Sound, Weak, StateOK
  <1> HIDE DEF t
  <1>4. StateOK(t)
    <2>1. t.byPID \in [Pid -> Ref] /\ t.byTuple \in [Tuple -> Ref]
      BY <1>1 DEF Sound, Weak, StateOK, Ref
    <2> QED
      BY <1>1, <1>2, <1>3, <2>1 DEF Sound, Weak, StateOK
  <1>5. Listed(t, {}) /\ NoOrphan(t, {}) /\ TrackIndexesLive(t)
    BY <1>1 DEF Sound, Weak, Listed, NoOrphan, TrackIndexesLive, SesIndexLive,
       ProcIndexLive, UserIndexLive, DeadBlank
  <1>6. Reached(t, {})
    BY <1>1 DEF Sound, Weak, Reached, NoOrphan
  <1>7. PidIndexSound(t)
    BY <1>1 DEF Sound, Weak, PidIndexSound
  <1> QED
    BY <1>1, <1>4, <1>5, <1>6, <1>7 DEF Sound, Weak, t

\* Taking a connection out of the indexes.
LEMMA UnindexSound ==
  ASSUME NEW s, Sound(s), NEW r \in ConnId
  PROVE  LET t == Unindex(s, r) IN
         Sound(t) /\ t.live = s.live /\ t.conns = s.conns
  <1> DEFINE t == Unindex(s, r)
             cn == s.conns[r]
  <1>1. /\ t.live = s.live /\ t.tracks = s.tracks /\ t.conns = s.conns
        /\ t.bySes = s.bySes /\ t.byProcPID = s.byProcPID /\ t.userLast = s.userLast
        /\ t.byPID = [p \in Pid |-> IF p \in {cn.pid, cn.child} /\ s.byPID[p] = r
                                    THEN NoRef ELSE s.byPID[p]]
        /\ t.byTuple = [x \in Tuple |-> IF /\ x = <<cn.user, cn.ip, cn.port>>
                                           /\ s.byTuple[x] = r
                                        THEN NoRef ELSE s.byTuple[x]]
        /\ t.execs = s.execs /\ t.uidUser = s.uidUser /\ t.plumb = s.plumb
        /\ t.sessParent = s.sessParent
    BY DEF Unindex, Sound, Weak, StateOK
  <1>2. DOMAIN t = DOMAIN s /\ t = [x \in DOMAIN s |-> t[x]]
    BY DEF Unindex, Sound, Weak, StateOK
  <1> HIDE DEF t
  <1>3. StateOK(t)
    <2>1. t.byPID \in [Pid -> Ref] /\ t.byTuple \in [Tuple -> Ref]
      BY <1>1 DEF Sound, Weak, StateOK, Ref
    <2> QED
      BY <1>1, <1>2, <2>1 DEF Sound, Weak, StateOK
  <1>4. Listed(t, {}) /\ NoOrphan(t, {}) /\ TrackIndexesLive(t)
    BY <1>1 DEF Sound, Weak, Listed, NoOrphan, TrackIndexesLive, SesIndexLive,
       ProcIndexLive, UserIndexLive, DeadBlank
  <1>5. Reached(t, {}) /\ PidIndexSound(t)
    BY <1>1 DEF Sound, Weak, Reached, PidIndexSound
  <1> QED
    BY <1>1, <1>3, <1>4, <1>5 DEF Sound, Weak, t

\* Adding exec samples touches no index.
LEMMA AddExecsWeak ==
  ASSUME NEW s, NEW X, Weak(s, X), NEW k \in Key, NEW xs \in Seq(Exec)
  PROVE  LET t == AddExecs(s, k, xs) IN
         /\ Weak(t, X) /\ (NoOrphan(s, X) => NoOrphan(t, X))
         /\ t.live = s.live /\ t.conns = s.conns /\ t.tracks = s.tracks
  <1> DEFINE all == s.execs[k] \o xs
             kept == SubSeq(all, IF Len(all) - MaxExecs > 0 THEN Len(all) - MaxExecs + 1
                                 ELSE 1, Len(all))
             t == AddExecs(s, k, xs)
  <1>1. t = [s EXCEPT !.execs = [s.execs EXCEPT ![k] = kept]]
    BY DEF AddExecs
  <1>2. kept \in Samples
    <2>1. s.execs[k] \in Samples
      BY DEF Weak, StateOK
    <2> QED
      BY <2>1, CutSamples
  <1> HIDE DEF kept, t
  <1>3. /\ t.live = s.live /\ t.tracks = s.tracks /\ t.conns = s.conns
        /\ t.byPID = s.byPID /\ t.byTuple = s.byTuple /\ t.bySes = s.bySes
        /\ t.byProcPID = s.byProcPID /\ t.userLast = s.userLast
    BY <1>1 DEF Weak, StateOK
  <1>4. StateOK(t)
    BY <1>1, <1>2 DEF Weak, StateOK
  <1>5. \A k1 \in Key : k1 \notin s.live => t.tracks[k1] = NoTrack
    BY <1>3 DEF Weak, TrackIndexesLive, DeadBlank
  <1> QED
    BY <1>3, <1>4, <1>5, FrameWeak DEF t

\* The samples of xs are among those of ys, or made room for newer ones.
Saved(xs, ys) ==
    Len(ys) = MaxExecs \/ \A i \in DOMAIN xs : \E n \in DOMAIN ys : ys[n] = xs[i]

\* ys is what xs becomes as samples come in.
Grew(xs, ys) == Saved(xs, ys) /\ (Len(xs) = MaxExecs => Len(ys) = MaxExecs)

\* Adding samples loses none of the new ones and none of the old.
LEMMA AddExecsSaved ==
  ASSUME NEW s, NEW X, Weak(s, X), NEW k \in Key, NEW xs \in Seq(Exec)
  PROVE  LET t == AddExecs(s, k, xs) IN
         /\ Saved(xs, t.execs[k]) /\ Grew(s.execs[k], t.execs[k])
         /\ \A j \in Key : j # k => t.execs[j] = s.execs[j]
  <1> DEFINE ys == s.execs[k]
             all == ys \o xs
             over == Len(all) - MaxExecs
             kept == SubSeq(all, IF over > 0 THEN over + 1 ELSE 1, Len(all))
             t == AddExecs(s, k, xs)
  <1>1. t = [s EXCEPT !.execs = [s.execs EXCEPT ![k] = kept]]
    BY DEF AddExecs
  <1>2. ys \in Samples
    BY DEF Weak, StateOK
  <1>3. kept \in Samples /\ (kept = all \/ Len(kept) = MaxExecs)
    BY <1>2, CutSamples
  <1> HIDE DEF kept, t
  <1>4. t.execs[k] = kept /\ \A j \in Key : j # k => t.execs[j] = s.execs[j]
    BY <1>1 DEF Weak, StateOK
  <1> HIDE DEF ys
  <1>5. Saved(xs, kept) /\ Grew(ys, kept)
    <2>1. CASE Len(kept) = MaxExecs
      BY <2>1 DEF Saved, Grew
    <2>2. CASE kept = all
      <3>1. ys \in Seq(Exec) /\ Len(ys) \in Nat /\ Len(xs) \in Nat
        BY <1>2 DEF Samples
      <3>2. /\ Len(kept) = Len(ys) + Len(xs) /\ kept \in Seq(Exec)
            /\ \A i \in 1..Len(kept) :
                 kept[i] = IF i <= Len(ys) THEN ys[i] ELSE xs[i - Len(ys)]
        BY <2>2, <3>1, ConcatProperties
      <3> HIDE DEF all
      <3>3. ASSUME NEW i \in DOMAIN xs
            PROVE  \E n \in DOMAIN kept : kept[n] = xs[i]
        <4>1. i \in 1..Len(xs)
          OBVIOUS
        <4>2. i + Len(ys) \in 1..Len(kept) /\ ~(i + Len(ys) <= Len(ys))
          BY <3>1, <3>2, <4>1
        <4>3. kept[i + Len(ys)] = xs[i]
          BY <3>1, <3>2, <4>1, <4>2
        <4> QED
          BY <3>2, <4>2, <4>3
      <3>4. ASSUME NEW i \in DOMAIN ys
            PROVE  \E n \in DOMAIN kept : kept[n] = ys[i]
        <4>1. i \in 1..Len(ys)
          BY <3>1
        <4>2. i \in 1..Len(kept) /\ kept[i] = ys[i]
          BY <3>1, <3>2, <4>1
        <4> QED
          BY <3>2, <4>2
      <3>5. Len(ys) = MaxExecs => Len(kept) = MaxExecs
        <4>1. Len(kept) <= MaxExecs /\ MaxExecs \in Nat
          BY <1>3, SizesAssumption DEF Samples
        <4> QED
          BY <3>1, <3>2, <4>1
      <3> QED
        BY <3>3, <3>4, <3>5 DEF Saved, Grew
    <2> QED
      BY <1>3, <2>1, <2>2
  <1> QED
    BY <1>4, <1>5 DEF t, ys

\* Touching the track a handler returned.
LEMMA TouchWeak ==
  ASSUME NEW s, Weak(s, {}), NEW k \in s.live, NEW ts \in Nat
  PROVE  Weak(Touch(s, k, ts), {})
  <1> DEFINE last == IF ts > s.tracks[k].lastSeen THEN ts ELSE s.tracks[k].lastSeen
             s1 == [s EXCEPT !.tracks[k].lastSeen = last]
             t == Touch(s, k, ts)
  <1>1. k \in Key /\ k.user \in User
    BY DEF Weak, StateOK, Key
  <1>2. s.tracks[k] \in Track /\ last \in Time
    BY <1>1 DEF Weak, StateOK, Track, Time
  <1>3. Weak(s1, {}) /\ s1.live = s.live
    <2>1. /\ s1.live = s.live /\ s1.conns = s.conns
          /\ s1.byPID = s.byPID /\ s1.byTuple = s.byTuple /\ s1.bySes = s.bySes
          /\ s1.byProcPID = s.byProcPID /\ s1.userLast = s.userLast
          /\ s1.tracks = [s.tracks EXCEPT ![k] = [s.tracks[k] EXCEPT !.lastSeen = last]]
      BY DEF Weak, StateOK
    <2>2. [s.tracks[k] EXCEPT !.lastSeen = last] \in Track
      BY <1>2 DEF Track
    <2>3. StateOK(s1)
      BY <2>2 DEF Weak, StateOK
    <2>4. \A j \in Key : /\ s1.tracks[j].conns = s.tracks[j].conns
                         /\ s1.tracks[j].procs = s.tracks[j].procs
                         /\ j \notin s.live => s1.tracks[j] = NoTrack
      BY <1>1, <1>2, <2>1 DEF Weak, StateOK, Track, TrackIndexesLive, DeadBlank
    <2> HIDE DEF s1
    <2> QED
      BY <2>1, <2>3, <2>4, FrameWeak
  <1>4. t = s1 \/ t = [s1 EXCEPT !.userLast[k.user] = k]
    BY DEF Touch
  <1> HIDE DEF s1, t
  <1>5. ASSUME t = [s1 EXCEPT !.userLast[k.user] = k]
        PROVE  Weak(t, {})
    <2>1. /\ t.live = s1.live /\ t.conns = s1.conns /\ t.tracks = s1.tracks
          /\ t.byPID = s1.byPID /\ t.byTuple = s1.byTuple /\ t.bySes = s1.bySes
          /\ t.byProcPID = s1.byProcPID
          /\ t.userLast = [s1.userLast EXCEPT ![k.user] = k]
      BY <1>3, <1>5 DEF Weak, StateOK
    <2>2. StateOK(t)
      BY <1>1, <1>3, <1>5 DEF Weak, StateOK, KeyOrNone
    <2>3. Listed(t, {}) /\ Reached(t, {}) /\ PidIndexSound(t)
      BY <1>3, <2>1 DEF Weak, Listed, Reached, PidIndexSound
    <2>4. SesIndexLive(t) /\ ProcIndexLive(t) /\ DeadBlank(t)
      BY <1>3, <2>1 DEF Weak, TrackIndexesLive, SesIndexLive, ProcIndexLive, DeadBlank
    <2>5. UserIndexLive(t)
      BY <1>1, <1>3, <2>1 DEF Weak, StateOK, TrackIndexesLive, UserIndexLive
    <2> QED
      BY <2>2, <2>3, <2>4, <2>5 DEF Weak, TrackIndexesLive
  <1> QED
    BY <1>3, <1>4, <1>5 DEF t

\* The tail of Apply.
LEMMA FinishSound ==
  ASSUME NEW s, Weak(s, {}), NEW k \in s.live \cup {NoKey}, NEW ts \in Nat
  PROVE  Sound(Finish(s, k, ts))
  <1>1. CASE k = NoKey
    BY <1>1, CollectSound DEF Finish
  <1>2. CASE k # NoKey
    <2>1. Weak(Touch(s, k, ts), {})
      BY <1>2, TouchWeak
    <2> QED
      BY <1>2, <2>1, CollectSound DEF Finish
  <1> QED
    BY <1>1, <1>2

\* The second half of moveConn: a connection that no other track lists any
\* more joins its new track.
LEMMA JoinSound ==
  ASSUME NEW s, NEW r \in ConnId, NEW dst \in s.live,
         Weak(s, {r}), NoOrphan(s, {r}),
         \A k \in Key : k # dst => r \notin s.tracks[k].conns
  PROVE  Sound(Join(s, r, dst)) /\ Join(s, r, dst).live = s.live
  <1> DEFINE joined == [s.tracks[dst] EXCEPT !.conns = s.tracks[dst].conns \cup {r}]
             moved == [s.conns[r] EXCEPT !.track = dst]
             ses == s.conns[r].ses
             t == Join(s, r, dst)
  <1>1. /\ t.live = s.live
        /\ t.tracks = [s.tracks EXCEPT ![dst] = joined]
        /\ t.conns = [s.conns EXCEPT ![r] = moved]
        /\ t.bySes = [x \in Ses |-> IF x = ses THEN dst ELSE s.bySes[x]]
        /\ t.byPID = s.byPID /\ t.byTuple = s.byTuple /\ t.byProcPID = s.byProcPID
        /\ t.userLast = s.userLast /\ t.execs = s.execs /\ t.uidUser = s.uidUser
        /\ t.plumb = s.plumb /\ t.sessParent = s.sessParent
    BY DEF Join, Weak, StateOK
  <1>2. DOMAIN t = DOMAIN s /\ t = [x \in DOMAIN s |-> t[x]]
    BY DEF Join, Weak, StateOK
  <1>3. dst \in Key /\ s.tracks[dst] \in Track /\ s.conns[r] \in Conn
    BY DEF Weak, StateOK
  <1>4. /\ joined \in Track /\ joined.conns = s.tracks[dst].conns \cup {r}
        /\ joined.procs = s.tracks[dst].procs
    BY <1>3 DEF Track
  <1>5. /\ moved \in Conn /\ moved.track = dst
        /\ moved.pid = s.conns[r].pid /\ moved.child = s.conns[r].child
    BY <1>3 DEF Conn, KeyOrNone
  <1> HIDE DEF t, joined, moved
  <1>6. StateOK(t)
    <2>1. t.bySes \in [Ses -> KeyOrNone]
      BY <1>1, <1>3 DEF Weak, StateOK, KeyOrNone
    <2>2. t.tracks \in [Key -> Track] /\ t.conns \in [ConnId -> Conn]
      BY <1>1, <1>3, <1>4, <1>5 DEF Weak, StateOK
    <2> QED
      BY <1>1, <1>2, <2>1, <2>2 DEF Weak, StateOK
  <1>7. Listed(t, {})
    <2> SUFFICES ASSUME NEW q \in ConnId, NEW k \in Key
                 PROVE  q \in t.tracks[k].conns <=> k \in t.live /\ t.conns[q].track = k
      BY DEF Listed
    <2>1. CASE q = r
      BY <1>1, <1>3, <1>4, <1>5, <2>1 DEF Weak, StateOK
    <2>2. CASE q # r
      <3>1. q \in s.tracks[k].conns <=> k \in s.live /\ s.conns[q].track = k
        BY <2>2 DEF Weak, Listed
      <3> QED
        BY <1>1, <1>3, <1>4, <2>2, <3>1 DEF Weak, StateOK
    <2> QED
      BY <2>1, <2>2
  <1>8. NoOrphan(t, {})
    BY <1>1, <1>5 DEF NoOrphan, Weak, StateOK
  <1>9. Reached(t, {})
    <2>1. \A p \in Pid : s.byPID[p] \in ConnId \cup {NoRef}
      BY DEF Weak, StateOK, Ref
    <2>2. \A x \in Tuple : s.byTuple[x] \in ConnId \cup {NoRef}
      BY DEF Weak, StateOK, Ref
    <2> QED
      BY <1>1, <1>8, <2>1, <2>2 DEF Reached, NoOrphan
  <1>10. PidIndexSound(t)
    <2>1. \A p \in Pid : s.byPID[p] \in ConnId \cup {NoRef}
      BY DEF Weak, StateOK, Ref
    <2> QED
      BY <1>1, <1>5, <2>1 DEF Weak, StateOK, PidIndexSound
  <1>11. TrackIndexesLive(t)
    <2>1. SesIndexLive(t) /\ UserIndexLive(t)
      BY <1>1 DEF Weak, TrackIndexesLive, SesIndexLive, UserIndexLive
    <2>2. ProcIndexLive(t)
      BY <1>1, <1>4 DEF Weak, StateOK, TrackIndexesLive, ProcIndexLive
    <2>3. DeadBlank(t)
      BY <1>1 DEF Weak, StateOK, TrackIndexesLive, DeadBlank
    <2> QED
      BY <2>1, <2>2, <2>3 DEF TrackIndexesLive
  <1> QED
    BY <1>1, <1>6, <1>7, <1>8, <1>9, <1>10, <1>11 DEF Sound, Weak, t

\* The exec samples of track src that go with connection r.
Own(s, r, src) ==
    {i \in DOMAIN s.execs[src] : /\ s.execs[src][i].origin = "sshlog"
                                 /\ s.execs[src][i].pid = s.conns[r].pid
                                 /\ s.execs[src][i].pid # 0}

\* Connection r and its samples have left src, which is yet to be looked at.
Off(s, r, src, dst) ==
    [AddExecs(s, dst, Pick(s.execs[src], Own(s, r, src))) EXCEPT
        !.tracks[src].conns = @ \ {r},
        !.execs[src] = Pick(s.execs[src], DOMAIN s.execs[src] \ Own(s, r, src))]

\* moveConn drops or refreshes the track it takes the connection from.
LEMMA LeaveOff ==
  ASSUME NEW s, NEW r, NEW src, NEW dst
  PROVE  Leave(s, r, src, dst) = IF Bare(Off(s, r, src, dst), src)
                                 THEN Drop(Off(s, r, src, dst), {src})
                                 ELSE RefreshDeclared(Off(s, r, src, dst), {src})
  BY DEF Leave, Off, Own

\* The samples of src are on dst, unless src has some left.
Handed(t, s, src, dst) == t.execs[src] = <<>> => Saved(s.execs[src], t.execs[dst])

\* No track lists r, and every track is otherwise as it was.
Departed(s, t, r, src) ==
    /\ t.live = s.live /\ t.conns = s.conns /\ t.userLast = s.userLast
    /\ \A k \in Key : r \notin t.tracks[k].conns
    /\ \A k \in Key : k # src => t.tracks[k] = s.tracks[k]
    /\ t.tracks[src].conns = s.tracks[src].conns \ {r}
    /\ t.tracks[src].procs = s.tracks[src].procs
    /\ t.tracks[src].net = s.tracks[src].net
    /\ t.tracks[src].lastSeen = s.tracks[src].lastSeen

\* Connection r is off every track, and a track left without samples has
\* handed all of them on.
LEMMA OffWeak ==
  ASSUME NEW s, Sound(s), NEW r \in ConnId, NEW dst \in s.live, NEW src \in s.live,
         s.conns[r].track = src, src # dst
  PROVE  LET t == Off(s, r, src, dst) IN
         /\ Weak(t, {r}) /\ NoOrphan(t, {r})
         /\ Departed(s, t, r, src) /\ Handed(t, s, src, dst)
  <1> DEFINE xs == s.execs[src]
             own == Own(s, r, src)
             other == DOMAIN xs \ own
             taken == Pick(xs, own)
             rest == Pick(xs, other)
             a == AddExecs(s, dst, taken)
             left == [s.tracks[src] EXCEPT !.conns = s.tracks[src].conns \ {r}]
             s1 == Off(s, r, src, dst)
  <1>1. s1 = [a EXCEPT !.tracks[src].conns = @ \ {r}, !.execs[src] = rest]
    BY DEF Off
  <1>2. src \in Key /\ s.tracks[src] \in Track /\ dst \in Key /\ xs \in Samples
    BY DEF Sound, Weak, StateOK
  <1>3. own \in SUBSET DOMAIN xs /\ other \in SUBSET DOMAIN xs
    BY DEF Own
  <1> HIDE DEF xs, own
  <1>4. /\ taken \in Seq(Exec) /\ rest \in Samples
        /\ \A i \in own : \E n \in DOMAIN taken : taken[n] = xs[i]
        /\ rest = <<>> => own = DOMAIN xs
    <2>1. taken \in Seq(Exec) /\ \A i \in own : \E n \in DOMAIN taken : taken[n] = xs[i]
      BY <1>2, <1>3, PickProps DEF Samples
    <2> HIDE DEF other
    <2>2. /\ rest \in Seq(Exec) /\ Len(rest) <= Len(xs)
          /\ \A i \in other : \E n \in DOMAIN rest : rest[n] = xs[i]
      BY <1>2, <1>3, PickProps DEF Samples
    <2> HIDE DEF taken, rest
    <2>3. Len(rest) \in Nat /\ (rest = <<>> => other = {})
      BY <2>2
    <2>4. rest \in Samples
      BY <1>2, <2>2, <2>3, SizesAssumption DEF Samples
    <2>5. other = {} => own = DOMAIN xs
      BY <1>3 DEF other
    <2> QED
      BY <2>1, <2>3, <2>4, <2>5
  <1> HIDE DEF taken, rest
  <1>5. /\ Weak(a, {}) /\ NoOrphan(a, {})
        /\ a.live = s.live /\ a.conns = s.conns /\ a.tracks = s.tracks
    BY <1>2, <1>4, AddExecsWeak DEF Sound
  <1>6. Saved(taken, a.execs[dst])
    BY <1>2, <1>4, AddExecsSaved DEF Sound
  <1>7. a.userLast = s.userLast
    BY DEF AddExecs, Sound, Weak, StateOK
  <1>8. /\ left \in Track /\ left.conns = s.tracks[src].conns \ {r}
        /\ left.procs = s.tracks[src].procs /\ left.net = s.tracks[src].net
        /\ left.lastSeen = s.tracks[src].lastSeen
    BY <1>2 DEF Track
  <1> HIDE DEF a, s1
  <1>9. /\ s1.live = a.live /\ s1.conns = a.conns
        /\ s1.tracks = [a.tracks EXCEPT ![src] = left]
        /\ s1.execs = [a.execs EXCEPT ![src] = rest]
        /\ s1.byPID = a.byPID /\ s1.byTuple = a.byTuple /\ s1.bySes = a.bySes
        /\ s1.byProcPID = a.byProcPID /\ s1.userLast = a.userLast
        /\ s1.uidUser = a.uidUser /\ s1.plumb = a.plumb /\ s1.sessParent = a.sessParent
    BY <1>1, <1>5 DEF Weak, StateOK
  <1>10. DOMAIN s1 = DOMAIN a /\ s1 = [x \in DOMAIN a |-> s1[x]]
    BY <1>1, <1>5 DEF Weak, StateOK
  <1> HIDE DEF left
  <1>11. StateOK(s1)
    <2>1. s1.execs \in [Key -> Samples]
      BY <1>2, <1>4, <1>5, <1>9 DEF Weak, StateOK
    <2>2. s1.tracks \in [Key -> Track]
      BY <1>2, <1>5, <1>8, <1>9 DEF Weak, StateOK
    <2> QED
      BY <1>5, <1>9, <1>10, <2>1, <2>2 DEF Weak, StateOK
  <1>12. \A k \in Key : r \notin s1.tracks[k].conns
    BY <1>2, <1>5, <1>8, <1>9 DEF Sound, Weak, StateOK, Listed
  <1>13. Weak(s1, {r})
    <2>1. Listed(s1, {r})
      <3> SUFFICES ASSUME NEW q \in ConnId \ {r}, NEW k \in Key
                   PROVE  q \in s1.tracks[k].conns <=> k \in s1.live /\ s1.conns[q].track = k
        BY DEF Listed
      <3>1. q \in a.tracks[k].conns <=> k \in a.live /\ a.conns[q].track = k
        BY <1>5 DEF Weak, Listed
      <3> QED
        BY <1>2, <1>5, <1>8, <1>9, <3>1 DEF Weak, StateOK
    <2>2. Reached(s1, {r}) /\ PidIndexSound(s1)
      BY <1>5, <1>9 DEF Weak, Reached, PidIndexSound
    <2>3. SesIndexLive(s1) /\ UserIndexLive(s1)
      BY <1>5, <1>9 DEF Weak, TrackIndexesLive, SesIndexLive, UserIndexLive
    <2>4. ProcIndexLive(s1) /\ DeadBlank(s1)
      BY <1>2, <1>5, <1>8, <1>9 DEF Weak, StateOK, TrackIndexesLive, ProcIndexLive, DeadBlank
    <2> QED
      BY <1>11, <2>1, <2>2, <2>3, <2>4 DEF Weak, TrackIndexesLive
  <1>14. NoOrphan(s1, {r})
    BY <1>5, <1>9 DEF NoOrphan
  <1>15. s1.tracks[src] = left /\ \A k \in Key : k # src => s1.tracks[k] = s.tracks[k]
    BY <1>2, <1>5, <1>9 DEF Weak, StateOK
  <1>16. s1.execs[src] = rest /\ s1.execs[dst] = a.execs[dst]
    BY <1>2, <1>5, <1>9 DEF Weak, StateOK
  <1>17. ASSUME rest = <<>> PROVE Saved(xs, a.execs[dst])
    <2>1. \A i \in DOMAIN xs : \E n \in DOMAIN taken : taken[n] = xs[i]
      BY <1>4, <1>17
    <2> QED
      BY <1>6, <2>1 DEF Saved
  <1>18. Departed(s, s1, r, src)
    BY <1>5, <1>7, <1>8, <1>9, <1>12, <1>15 DEF Departed
  <1>19. Handed(s1, s, src, dst)
    BY <1>16, <1>17 DEF Handed, xs
  <1> QED
    BY <1>13, <1>14, <1>18, <1>19 DEF s1

\* The first half: the connection is off its old track, which may be gone.
LEMMA LeaveWeak ==
  ASSUME NEW s, Sound(s), NEW r \in ConnId, NEW dst \in s.live, NEW src \in s.live,
         s.conns[r].track = src, src # dst
  PROVE  LET t == Leave(s, r, src, dst) IN
         /\ Weak(t, {r}) /\ NoOrphan(t, {r}) /\ dst \in t.live
         /\ \A k \in Key : r \notin t.tracks[k].conns
  <1> DEFINE s1 == Off(s, r, src, dst)
             t == Leave(s, r, src, dst)
             one == {src}
  <1>1. t = IF Bare(s1, src) THEN Drop(s1, one) ELSE RefreshDeclared(s1, one)
    BY LeaveOff
  <1>2. /\ Weak(s1, {r}) /\ NoOrphan(s1, {r}) /\ s1.live = s.live /\ s1.conns = s.conns
        /\ \A k \in Key : r \notin s1.tracks[k].conns
    BY OffWeak DEF Departed
  <1>3. src \in Key
    BY DEF Sound, Weak, StateOK
  <1> HIDE DEF s1, t
  <1>4. CASE Bare(s1, src)
    <2>1. t = Drop(s1, one) /\ one \in SUBSET Key
      BY <1>1, <1>3, <1>4
    <2> HIDE DEF one
    <2>2. /\ Weak(t, {r}) /\ t.live = s1.live \ one /\ t.conns = s1.conns
          /\ \A k \in Key : t.tracks[k].conns \subseteq s1.tracks[k].conns
      BY <1>2, <2>1, DropWeak
    <2>3. ASSUME NEW q \in ConnId \ {r} PROVE s1.conns[q].track # src
      BY <1>2, <1>3, <1>4 DEF Weak, Listed, Bare
    <2> QED
      BY <1>2, <2>2, <2>3 DEF NoOrphan, one, t
  <1>5. CASE ~Bare(s1, src)
    <2>1. t = RefreshDeclared(s1, one) /\ one \in SUBSET s1.live
      BY <1>1, <1>2, <1>5
    <2> HIDE DEF one
    <2>2. /\ Weak(t, {r}) /\ (NoOrphan(s1, {r}) => NoOrphan(t, {r})) /\ t.live = s1.live
          /\ \A k \in Key : t.tracks[k].conns = s1.tracks[k].conns
      BY <1>2, <2>1, RefreshWeak
    <2> QED
      BY <1>2, <2>2 DEF t
  <1> QED
    BY <1>4, <1>5

\* Moving a connection to another track.
LEMMA MoveConnSound ==
  ASSUME NEW s, Sound(s), NEW r \in ConnId, NEW dst \in s.live
  PROVE  Sound(MoveConn(s, r, dst))
  <1> DEFINE src == s.conns[r].track
             s1 == IF src \in {NoKey, dst} THEN s ELSE Leave(s, r, src, dst)
  <1>1. MoveConn(s, r, dst) = RefreshDeclared(Join(s1, r, dst), {dst})
    BY DEF MoveConn
  <1>2. /\ Weak(s1, {r}) /\ NoOrphan(s1, {r}) /\ dst \in s1.live
        /\ \A k \in Key : k # dst => r \notin s1.tracks[k].conns
    <2>1. CASE src \in {NoKey, dst}
      BY <2>1, NoKeyFact DEF Sound, Weak, Listed, Reached, NoOrphan
    <2>2. CASE src \notin {NoKey, dst}
      <3>1. src \in s.live
        BY <2>2 DEF Sound, NoOrphan
      <3> QED
        BY <2>2, <3>1, LeaveWeak
    <2> QED
      BY <2>1, <2>2
  <1> HIDE DEF s1
  <1>3. Sound(Join(s1, r, dst)) /\ Join(s1, r, dst).live = s1.live
    BY <1>2, JoinSound
  <1> QED
    BY <1>1, <1>2, <1>3, RefreshWeak DEF Sound

-----------------------------------------------------------------------------
(***************************************************************************)
(* Lemmas about the parts of the handlers.                                 *)
(***************************************************************************)
\* What an event says of its connection is of the right types.
LEMMA PeerType ==
  ASSUME NEW pid \in Pid \cup {0}, NEW u \in User \cup {""},
         NEW ip \in IP \cup {""}, NEW port \in Port \cup {0}
  PROVE  /\ Peer(pid, u, ip, port) \in Event
         /\ Peer(pid, u, ip, port).user = u /\ Peer(pid, u, ip, port).ip = ip
  BY DEF Peer, Event

\* The connection a lookup finds is one of the correlator's.
LEMMA FindConnRange ==
  ASSUME NEW s, Sound(s), NEW e \in Event
  PROVE  FindConn(s, e) \in ConnId \cup {NoRef}
  <1>1. CASE e.pid # 0 /\ s.byPID[e.pid] # NoRef
    BY <1>1 DEF FindConn, Sound, Weak, StateOK, Ref, Event
  <1>2. CASE ~(e.pid # 0 /\ s.byPID[e.pid] # NoRef) /\ e.user # "" /\ e.port # 0
    <2>1. <<e.user, e.ip, e.port>> \in Tuple
      BY <1>2 DEF Tuple, Event
    <2>2. s.byTuple[<<e.user, e.ip, e.port>>] \in ConnId \cup {NoRef}
      BY <2>1 DEF Sound, Weak, StateOK, Ref
    <2> QED
      BY <1>2, <2>2 DEF FindConn
  <1>3. CASE ~(e.pid # 0 /\ s.byPID[e.pid] # NoRef) /\ ~(e.user # "" /\ e.port # 0)
    BY <1>3 DEF FindConn
  <1> QED
    BY <1>1, <1>2, <1>3

\* A new id is one nothing refers to.
LEMMA TargetRange ==
  ASSUME NEW s, Sound(s), NEW e \in Event, NEW r \in Target(s, e)
  PROVE  /\ r \in ConnId
         /\ FindConn(s, e) # NoRef => r = FindConn(s, e)
         /\ FindConn(s, e) = NoRef => ~Referenced(s, r)
  <1>1. FindConn(s, e) \in ConnId \cup {NoRef}
    BY FindConnRange
  <1>2. r \in IF FindConn(s, e) # NoRef THEN {FindConn(s, e)} ELSE Fresh(s)
    BY DEF Target
  <1> QED
    BY <1>1, <1>2 DEF Fresh

\* newConn: a new connection is well typed and on no track yet.
LEMMA NewConnType ==
  ASSUME NEW e \in Event, NEW ts \in Nat
  PROVE  NewConn(e, ts) \in Conn /\ NewConn(e, ts).track = NoKey
  <1> DEFINE blank == [NoConn EXCEPT !.open = TRUE, !.opened = ts]
  <1>1. blank \in Conn /\ blank.track = NoKey
    BY TypesFact DEF NoConn, Conn, Time
  <1> HIDE DEF blank
  <1>2. NewConn(e, ts) = FillConn(blank, e)
    BY DEF NewConn, blank
  <1> QED
    BY <1>1, <1>2, FillType

\* Writing back a connection that was found, or that is new, and indexing it.
LEMMA PutSound ==
  ASSUME NEW s, Sound(s), NEW r \in ConnId, NEW old \in Conn, NEW cn \in Conn,
         old = s.conns[r] \/ (~Referenced(s, r) /\ old.track = NoKey),
         cn.track = old.track, cn.child = old.child, old.pid # 0 => cn.pid = old.pid
  PROVE  LET t == Index([s EXCEPT !.conns[r] = cn], r) IN
         Sound(t) /\ t.live = s.live
  <1> DEFINE s1 == [s EXCEPT !.conns[r] = cn]
  <1>1. Sound(s1) /\ s1.live = s.live
    <2>1. CASE old = s.conns[r]
      BY <2>1, UpdateSound
    <2>2. CASE ~Referenced(s, r) /\ old.track = NoKey
      BY <2>2, NewConnSound
    <2> QED
      BY <2>1, <2>2
  <1> HIDE DEF s1
  <1>2. Sound(Index(s1, r)) /\ Index(s1, r).live = s.live
    BY <1>1, IndexKeepsSound
  <1> QED
    BY <1>2 DEF s1

\* Looking up or making the track a connection moves to.
LEMMA SettleSound ==
  ASSUME NEW s, Sound(s), NEW r \in ConnId, NEW k \in Key, NEW ts \in Nat
  PROVE  Sound(MoveConn(TrackFor(s, k, ts), r, k))
  BY TrackForSound, MoveConnSound

\* authOK.
LEMMA AcceptSound ==
  ASSUME NEW s, Sound(s), NEW e \in Event, e.user \in User,
         NEW fp \in FP \cup {""}, NEW ts \in Nat, NEW r \in Target(s, e)
  PROVE  r \in ConnId /\ Sound(Accept(s, r, e, fp, ts))
  <1> DEFINE found == FindConn(s, e)
             old == IF found # NoRef THEN s.conns[r] ELSE NewConn(e, ts)
             filled == FillConn(old, e)
             cn == [filled EXCEPT !.fp = IF fp # "" THEN fp ELSE @]
             key == [user |-> cn.user, fp |-> IF cn.fp = "" THEN "-" ELSE cn.fp, ip |-> cn.ip]
             s1 == Index([s EXCEPT !.conns[r] = cn], r)
  <1>1. /\ r \in ConnId
        /\ found # NoRef => r = found
        /\ found = NoRef => ~Referenced(s, r)
    BY TargetRange
  <1>2. /\ old \in Conn
        /\ old = s.conns[r] \/ (~Referenced(s, r) /\ old.track = NoKey)
    BY <1>1, NewConnType DEF Sound, Weak, StateOK
  <1> HIDE DEF old, found
  <1>3. /\ filled \in Conn /\ filled.track = old.track /\ filled.child = old.child
        /\ old.pid # 0 => filled.pid = old.pid
        /\ filled.user = e.user
    BY <1>2, FillType, NamesAssumption
  <1> HIDE DEF filled
  <1>4. /\ cn \in Conn /\ cn.track = old.track /\ cn.child = old.child
        /\ old.pid # 0 => cn.pid = old.pid
        /\ cn.user = e.user
    <2>1. /\ DOMAIN cn = DOMAIN filled /\ cn = [x \in DOMAIN filled |-> cn[x]]
          /\ cn.fp = IF fp # "" THEN fp ELSE filled.fp
          /\ \A x \in DOMAIN filled : x # "fp" => cn[x] = filled[x]
      BY <1>3 DEF Conn
    <2>2. cn.fp \in FP \cup {""}
      BY <1>3, <2>1 DEF Conn
    <2> HIDE DEF cn
    <2> QED
      BY <1>3, <2>1, <2>2 DEF Conn
  <1> HIDE DEF cn
  <1>5. key \in Key
    BY <1>4 DEF Conn, Key
  <1>6. Sound(s1)
    BY <1>1, <1>2, <1>4, PutSound
  <1> HIDE DEF key, s1
  <1>7. Accept(s, r, e, fp, ts) = IF cn.track = key THEN s1 ELSE MoveConn(TrackFor(s1, key, ts), r, key)
    BY DEF Accept, old, found, filled, cn, key, s1
  <1>8. Sound(MoveConn(TrackFor(s1, key, ts), r, key))
    BY <1>1, <1>5, <1>6, SettleSound
  <1> QED
    BY <1>1, <1>6, <1>7, <1>8

\* ensureConn.
LEMMA EnsureConnSound ==
  ASSUME NEW s, Sound(s), NEW e \in Event, NEW ts \in Nat, NEW r \in Target(s, e)
  PROVE  r \in ConnId /\ Sound(EnsureConn(s, r, e, ts))
  <1> DEFINE found == FindConn(s, e)
             key == [user |-> e.user, fp |-> "-", ip |-> e.ip]
             cn == IF found # NoRef THEN FillConn(s.conns[r], e) ELSE NewConn(e, ts)
             s1 == Index([s EXCEPT !.conns[r] = cn], r)
  <1>1. /\ r \in ConnId
        /\ found # NoRef => r = found
        /\ found = NoRef => ~Referenced(s, r)
    BY TargetRange
  <1>2. Sound(s1)
    <2>1. CASE found # NoRef
      <3>1. s.conns[r] \in Conn
        BY <1>1 DEF Sound, Weak, StateOK
      <3>2. /\ cn \in Conn /\ cn.track = s.conns[r].track /\ cn.child = s.conns[r].child
            /\ s.conns[r].pid # 0 => cn.pid = s.conns[r].pid
        BY <2>1, <3>1, FillType
      <3> HIDE DEF cn
      <3> QED
        BY <1>1, <3>1, <3>2, PutSound
    <2>2. CASE found = NoRef
      <3>1. cn \in Conn /\ cn.track = NoKey
        BY <2>2, NewConnType
      <3> HIDE DEF cn
      <3> QED
        BY <1>1, <2>2, <3>1, PutSound
    <2> QED
      BY <2>1, <2>2
  <1>3. \/ EnsureConn(s, r, e, ts) = s
        \/ EnsureConn(s, r, e, ts) = s1
        \/ e.user # "" /\ EnsureConn(s, r, e, ts) = MoveConn(TrackFor(s1, key, ts), r, key)
    BY DEF EnsureConn
  <1> HIDE DEF s1
  <1>4. e.user # "" => key \in Key
    BY DEF Key, Event
  <1> HIDE DEF key
  <1>5. e.user # "" => Sound(MoveConn(TrackFor(s1, key, ts), r, key))
    BY <1>1, <1>2, <1>4, SettleSound
  <1> QED
    BY <1>1, <1>2, <1>3, <1>5

\* A claim accepted on a connection.
LEMMA DeclareSound ==
  ASSUME NEW s, Sound(s), NEW r \in ConnId, NEW agent \in Agent
  PROVE  Sound(Declare(s, r, agent)) /\ Declare(s, r, agent).conns[r].track = s.conns[r].track
  <1> DEFINE cn == [s.conns[r] EXCEPT !.declared = agent]
             s1 == [s EXCEPT !.conns[r] = cn]
             k == s.conns[r].track
  <1>1. /\ cn \in Conn /\ cn.track = s.conns[r].track
        /\ cn.child = s.conns[r].child /\ cn.pid = s.conns[r].pid
    <2>1. s.conns[r] \in Conn
      BY DEF Sound, Weak, StateOK
    <2> QED
      BY <2>1 DEF Conn
  <1>2. Declare(s, r, agent) = IF k = NoKey THEN s1 ELSE RefreshDeclared(s1, {k})
    BY DEF Declare
  <1> HIDE DEF cn
  <1>3. Sound(s1) /\ s1.live = s.live
    BY <1>1, UpdateSound
  <1>4. s1.conns[r].track = s.conns[r].track
    BY <1>1 DEF Sound, Weak, StateOK
  <1> HIDE DEF s1
  <1>5. k # NoKey => /\ Sound(RefreshDeclared(s1, {k}))
                     /\ RefreshDeclared(s1, {k}).conns = s1.conns
    <2>1. k # NoKey => {k} \in SUBSET s1.live
      BY <1>3 DEF Sound, NoOrphan
    <2> DEFINE one == {k}
    <2> HIDE DEF one
    <2>2. one \in SUBSET s1.live => /\ Sound(RefreshDeclared(s1, one))
                                    /\ RefreshDeclared(s1, one).conns = s1.conns
      BY <1>3, RefreshWeak DEF Sound
    <2> QED
      BY <2>1, <2>2 DEF one
  <1> QED
    BY <1>2, <1>3, <1>4, <1>5

\* Learning which account an uid belongs to.
LEMMA LearnSound ==
  ASSUME NEW s, Sound(s), NEW user
  PROVE  Sound(Learn(s, user)) /\ Learn(s, user).live = s.live
  <1> DEFINE t == Learn(s, user)
  <1>1. /\ StateOK(t) /\ t.live = s.live /\ t.conns = s.conns /\ t.tracks = s.tracks
        /\ t.byPID = s.byPID /\ t.byTuple = s.byTuple /\ t.bySes = s.bySes
        /\ t.byProcPID = s.byProcPID /\ t.userLast = s.userLast
    BY DEF Learn, Sound, Weak, StateOK
  <1> HIDE DEF t
  <1>2. \A k \in Key : k \notin s.live => t.tracks[k] = NoTrack
    BY <1>1 DEF Sound, Weak, TrackIndexesLive, DeadBlank
  <1>3. Sound(t)
    BY <1>1, <1>2, FrameWeak DEF Sound
  <1> QED
    BY <1>1, <1>3 DEF t

\* Joining an audit session to a live track, or leaving it as it is.
LEMMA SesSound ==
  ASSUME NEW s, Sound(s), NEW ses \in Ses, NEW k \in s.live \cup {NoKey}
  PROVE  Sound([s EXCEPT !.bySes[ses] = IF k = NoKey THEN @ ELSE k])
  <1> DEFINE t == [s EXCEPT !.bySes[ses] = IF k = NoKey THEN @ ELSE k]
  <1>1. /\ t.live = s.live /\ t.conns = s.conns /\ t.tracks = s.tracks
        /\ t.byPID = s.byPID /\ t.byTuple = s.byTuple
        /\ t.byProcPID = s.byProcPID /\ t.userLast = s.userLast
        /\ t.bySes = [s.bySes EXCEPT ![ses] = IF k = NoKey THEN @ ELSE k]
    BY DEF Sound, Weak, StateOK
  <1>2. StateOK(t)
    BY DEF Sound, Weak, StateOK, KeyOrNone
  <1> HIDE DEF t
  <1>3. Listed(t, {}) /\ Reached(t, {}) /\ PidIndexSound(t) /\ NoOrphan(t, {})
    BY <1>1 DEF Sound, Weak, Listed, Reached, PidIndexSound, NoOrphan
  <1>4. ProcIndexLive(t) /\ UserIndexLive(t) /\ DeadBlank(t)
    BY <1>1 DEF Sound, Weak, TrackIndexesLive, ProcIndexLive, UserIndexLive, DeadBlank
  <1>5. SesIndexLive(t)
    BY <1>1 DEF Sound, Weak, StateOK, TrackIndexesLive, SesIndexLive
  <1> QED
    BY <1>2, <1>3, <1>4, <1>5 DEF Sound, Weak, TrackIndexesLive, t

\* The connection a login is joined to is one of the correlator's, or new.
LEMMA CandidatesRange ==
  ASSUME NEW s, Sound(s), NEW e \in Event, NEW r \in Candidates(s, e)
  PROVE  /\ r \in ConnId
         /\ \/ FindConn(s, e) # NoRef
            \/ RecentOpenConn(s, e.user, e.ip) # {}
            \/ ~Referenced(s, r) /\ e.user # ""
  <1>1. FindConn(s, e) \in ConnId \cup {NoRef}
    BY FindConnRange
  <1>2. RecentOpenConn(s, e.user, e.ip) \subseteq ConnId
    BY DEF RecentOpenConn
  <1> QED
    BY <1>1, <1>2 DEF Candidates, Fresh

\* auditLogin.
LEMMA LoginSound ==
  ASSUME NEW s, Sound(s), NEW e \in Event, NEW ses \in Ses \cup {0}, NEW ts \in Nat,
         NEW r \in Candidates(s, e)
  PROVE  r \in ConnId /\ Sound(Login(s, r, e, ses, ts))
  <1> DEFINE key == [user |-> e.user, fp |-> "-", ip |-> e.ip]
             cn == NewConn(e, ts)
             s0 == Index([s EXCEPT !.conns[r] = cn], r)
             s1 == IF FindConn(s, e) # NoRef \/ RecentOpenConn(s, e.user, e.ip) # {} THEN s
                   ELSE MoveConn(TrackFor(s0, key, ts), r, key)
             k == s1.conns[r].track
             joined == [s1.conns[r] EXCEPT !.ses = ses]
             s2 == [s1 EXCEPT !.conns[r] = joined]
  <1>1. r \in ConnId
    BY CandidatesRange
  <1>2. Sound(s1)
    <2>1. CASE FindConn(s, e) # NoRef \/ RecentOpenConn(s, e.user, e.ip) # {}
      BY <2>1
    <2>2. CASE ~(FindConn(s, e) # NoRef \/ RecentOpenConn(s, e.user, e.ip) # {})
      <3>1. ~Referenced(s, r) /\ e.user # ""
        BY <2>2, CandidatesRange
      <3>2. cn \in Conn /\ cn.track = NoKey
        BY NewConnType
      <3> HIDE DEF cn
      <3>3. Sound(s0)
        BY <1>1, <3>1, <3>2, PutSound
      <3>4. key \in Key
        BY <3>1 DEF Key, Event
      <3> HIDE DEF s0, key
      <3>5. Sound(MoveConn(TrackFor(s0, key, ts), r, key))
        BY <1>1, <3>3, <3>4, SettleSound
      <3> QED
        BY <2>2, <3>5
    <2> QED
      BY <2>1, <2>2
  <1>3. Login(s, r, e, ses, ts) =
          IF ses = 0 THEN s1
          ELSE [s1 EXCEPT !.conns[r].ses = ses, !.bySes[ses] = IF k = NoKey THEN @ ELSE k]
    BY DEF Login
  <1> HIDE DEF s1
  <1>4. CASE ses # 0
    <2>1. s1.conns[r] \in Conn
      BY <1>1, <1>2 DEF Sound, Weak, StateOK
    <2>2. /\ joined \in Conn /\ joined.track = s1.conns[r].track
          /\ joined.child = s1.conns[r].child /\ joined.pid = s1.conns[r].pid
      BY <1>4, <2>1 DEF Conn
    <2>3. [s1 EXCEPT !.conns[r].ses = ses, !.bySes[ses] = IF k = NoKey THEN @ ELSE k]
            = [s2 EXCEPT !.bySes[ses] = IF k = NoKey THEN @ ELSE k]
      OBVIOUS
    <2> HIDE DEF joined
    <2>4. Sound(s2) /\ s2.live = s1.live
      BY <1>1, <1>2, <2>2, UpdateSound
    <2>5. k \in s2.live \cup {NoKey}
      BY <1>1, <1>2, <2>4 DEF Sound, NoOrphan
    <2> HIDE DEF s2, k
    <2>6. Sound([s2 EXCEPT !.bySes[ses] = IF k = NoKey THEN @ ELSE k])
      BY <1>4, <2>4, <2>5, SesSound
    <2> QED
      BY <1>1, <1>3, <1>4, <2>3, <2>6
  <1> QED
    BY <1>1, <1>2, <1>3, <1>4

\* The post-auth child of a connection.
LEMMA ChildSound ==
  ASSUME NEW s, Sound(s), NEW r \in ConnId, NEW child \in Pid
  PROVE  s.conns[r].child = 0 => Sound(Child(s, r, child)) /\ Child(s, r, child).live = s.live
  <1> SUFFICES ASSUME s.conns[r].child = 0
               PROVE  Sound(Child(s, r, child)) /\ Child(s, r, child).live = s.live
    OBVIOUS
  <1> DEFINE t == Child(s, r, child)
             cn == [s.conns[r] EXCEPT !.child = child]
  <1>1. /\ cn \in Conn /\ cn.track = s.conns[r].track /\ cn.pid = s.conns[r].pid
        /\ cn.child = child
    <2>1. s.conns[r] \in Conn
      BY DEF Sound, Weak, StateOK
    <2> QED
      BY <2>1 DEF Conn
  <1>2. /\ t.live = s.live /\ t.tracks = s.tracks
        /\ t.byTuple = s.byTuple /\ t.bySes = s.bySes
        /\ t.byProcPID = s.byProcPID /\ t.userLast = s.userLast
        /\ t.conns = [s.conns EXCEPT ![r] = cn]
        /\ t.byPID = [s.byPID EXCEPT ![child] = r]
        /\ t.execs = s.execs /\ t.uidUser = s.uidUser
        /\ t.plumb = s.plumb /\ t.sessParent = s.sessParent
    BY DEF Child, Sound, Weak, StateOK
  <1>3. DOMAIN t = DOMAIN s /\ t = [x \in DOMAIN s |-> t[x]]
    BY DEF Child, Sound, Weak, StateOK
  <1> HIDE DEF t, cn
  <1>4. StateOK(t)
    <2>1. t.byPID \in [Pid -> Ref] /\ t.conns \in [ConnId -> Conn]
      BY <1>1, <1>2 DEF Sound, Weak, StateOK, Ref
    <2> QED
      BY <1>2, <1>3, <2>1 DEF Sound, Weak, StateOK
  <1>5. \A q \in ConnId : t.conns[q].track = s.conns[q].track
    BY <1>1, <1>2 DEF Sound, Weak, StateOK
  <1>6. Listed(t, {}) /\ NoOrphan(t, {})
    BY <1>2, <1>5 DEF Sound, Weak, Listed, NoOrphan
  <1>7. Reached(t, {})
    BY <1>4, <1>6 DEF StateOK, Ref, NoOrphan, Reached
  <1>8. PidIndexSound(t)
    <2> SUFFICES ASSUME NEW p \in Pid, t.byPID[p] # NoRef
                 PROVE  p \in {t.conns[t.byPID[p]].pid, t.conns[t.byPID[p]].child}
      BY DEF PidIndexSound
    <2>1. CASE p = child
      BY <1>1, <1>2, <2>1 DEF Sound, Weak, StateOK
    <2>2. CASE p # child
      <3>1. t.byPID[p] = s.byPID[p] /\ s.byPID[p] \in ConnId
        BY <1>2, <2>2 DEF Sound, Weak, StateOK, Ref
      <3>2. p \in {s.conns[s.byPID[p]].pid, s.conns[s.byPID[p]].child} /\ p # 0
        BY <3>1, NamesAssumption DEF Sound, Weak, PidIndexSound
      <3> QED
        BY <1>1, <1>2, <3>1, <3>2 DEF Sound, Weak, StateOK
    <2> QED
      BY <2>1, <2>2
  <1>9. TrackIndexesLive(t)
    BY <1>2 DEF Sound, Weak, TrackIndexesLive, SesIndexLive, ProcIndexLive,
       UserIndexLive, DeadBlank
  <1> QED
    BY <1>2, <1>4, <1>6, <1>7, <1>8, <1>9 DEF Sound, Weak, t

\* Closing a connection.
LEMMA CloseSound ==
  ASSUME NEW s, Sound(s), NEW r \in ConnId
  PROVE  Sound(Close(s, r)) /\ Close(s, r).live = s.live
  <1> DEFINE cn == [s.conns[r] EXCEPT !.open = FALSE]
             s1 == [s EXCEPT !.conns[r] = cn]
  <1>1. /\ cn \in Conn /\ cn.track = s.conns[r].track
        /\ cn.pid = s.conns[r].pid /\ cn.child = s.conns[r].child
    <2>1. s.conns[r] \in Conn
      BY DEF Sound, Weak, StateOK
    <2> QED
      BY <2>1 DEF Conn
  <1>2. Close(s, r) = Unindex(s1, r)
    BY DEF Close
  <1> HIDE DEF cn
  <1>3. Sound(s1) /\ s1.live = s.live
    BY <1>1, UpdateSound
  <1> HIDE DEF s1
  <1> QED
    BY <1>2, <1>3, UnindexSound

\* Writing a track's sample of a pid together with the process index.
LEMMA SampleSound ==
  ASSUME NEW s, Sound(s), NEW k \in s.live, NEW pid \in Pid, NEW sample \in Proc,
         NEW j \in {k, NoKey}, j = k => sample.seen # 0,
         j = NoKey => s.byProcPID[pid] = k
  PROVE  LET t == [s EXCEPT !.tracks[k].procs[pid] = sample, !.byProcPID[pid] = j] IN
         Sound(RefreshDeclared(t, {k})) /\ RefreshDeclared(t, {k}).live = s.live
  <1> DEFINE tr == [s.tracks[k] EXCEPT !.procs = [s.tracks[k].procs EXCEPT ![pid] = sample]]
             t == [s EXCEPT !.tracks[k].procs[pid] = sample, !.byProcPID[pid] = j]
  <1>1. k \in Key /\ s.tracks[k] \in Track /\ k # NoKey
    BY NoKeyFact DEF Sound, Weak, StateOK
  <1>2. /\ tr \in Track /\ tr.conns = s.tracks[k].conns
        /\ \A p \in Pid : tr.procs[p] = IF p = pid THEN sample ELSE s.tracks[k].procs[p]
    BY <1>1 DEF Track
  <1>3. /\ t.live = s.live /\ t.conns = s.conns
        /\ t.byPID = s.byPID /\ t.byTuple = s.byTuple
        /\ t.bySes = s.bySes /\ t.userLast = s.userLast
        /\ t.uidUser = s.uidUser /\ t.plumb = s.plumb /\ t.sessParent = s.sessParent
        /\ t.execs = s.execs /\ t.tracks = [s.tracks EXCEPT ![k] = tr]
        /\ t.byProcPID = [s.byProcPID EXCEPT ![pid] = j]
    BY DEF Sound, Weak, StateOK
  <1>4. DOMAIN t = DOMAIN s /\ t = [x \in DOMAIN s |-> t[x]]
    BY DEF Sound, Weak, StateOK
  <1> HIDE DEF t, tr
  <1>5. StateOK(t)
    BY <1>1, <1>2, <1>3, <1>4 DEF Sound, Weak, StateOK, KeyOrNone
  <1>6. \A q \in Key : t.tracks[q].conns = s.tracks[q].conns
    BY <1>1, <1>2, <1>3 DEF Sound, Weak, StateOK
  <1>7. Listed(t, {}) /\ Reached(t, {}) /\ PidIndexSound(t) /\ NoOrphan(t, {})
    BY <1>3, <1>6 DEF Sound, Weak, Listed, Reached, PidIndexSound, NoOrphan
  <1>8. SesIndexLive(t) /\ UserIndexLive(t)
    BY <1>3 DEF Sound, Weak, TrackIndexesLive, SesIndexLive, UserIndexLive
  <1>9. DeadBlank(t)
    BY <1>3 DEF Sound, Weak, StateOK, TrackIndexesLive, DeadBlank
  <1>10. ProcIndexLive(t)
    <2> SUFFICES ASSUME NEW p \in Pid, t.byProcPID[p] # NoKey
                 PROVE  /\ t.byProcPID[p] \in t.live
                        /\ t.tracks[t.byProcPID[p]].procs[p].seen # 0
      BY DEF ProcIndexLive
    <2>1. CASE p = pid
      <3>1. t.byProcPID[p] = j
        BY <1>3, <2>1 DEF Sound, Weak, StateOK
      <3>2. t.byProcPID[p] = k
        BY <3>1
      <3>3. t.tracks[k].procs[p] = sample
        BY <1>1, <1>2, <1>3, <2>1 DEF Sound, Weak, StateOK
      <3> QED
        BY <1>3, <3>1, <3>2, <3>3
    <2>2. CASE p # pid
      <3>1. s.byProcPID[p] \in s.live /\ s.tracks[s.byProcPID[p]].procs[p].seen # 0
        BY <1>3, <2>2 DEF Sound, Weak, StateOK, TrackIndexesLive, ProcIndexLive
      <3>2. \A q \in Key : t.tracks[q].procs[p] = s.tracks[q].procs[p]
        BY <1>1, <1>2, <1>3, <2>2 DEF Sound, Weak, StateOK, Track
      <3> QED
        BY <1>3, <2>2, <3>1, <3>2 DEF Sound, Weak, StateOK
    <2> QED
      BY <2>1, <2>2
  <1>11. Sound(t)
    BY <1>5, <1>7, <1>8, <1>9, <1>10 DEF Sound, Weak, TrackIndexesLive
  <1> DEFINE one == {k}
  <1>12. one \in SUBSET t.live
    BY <1>3
  <1> HIDE DEF one
  <1>13. Sound(RefreshDeclared(t, one)) /\ RefreshDeclared(t, one).live = t.live
    BY <1>11, <1>12, RefreshWeak DEF Sound
  <1> QED
    BY <1>3, <1>13 DEF one, t

\* procSeen, once the track is known.
LEMMA PlaceSound ==
  ASSUME NEW s, Sound(s), NEW k \in s.live, NEW pid \in Pid, NEW sample \in Proc,
         sample.seen # 0
  PROVE  Sound(Place(s, k, pid, sample)) /\ Place(s, k, pid, sample).live = s.live
  <1>1. k # NoKey
    BY NoKeyFact DEF Sound, Weak, StateOK
  <1> QED
    BY <1>1, SampleSound DEF Place

\* procGone.
LEMMA RemoveSound ==
  ASSUME NEW s, Sound(s), NEW pid \in Pid, s.byProcPID[pid] # NoKey
  PROVE  LET k == s.byProcPID[pid] IN
         Sound(Remove(s, k, pid)) /\ Remove(s, k, pid).live = s.live /\ k \in s.live
  <1> DEFINE k == s.byProcPID[pid]
  <1>1. k \in s.live
    BY DEF Sound, Weak, TrackIndexesLive, ProcIndexLive
  <1>2. NoProc \in Proc /\ k # NoKey
    BY DEF NoProc, Proc, Claim, Time
  <1> QED
    BY <1>1, <1>2, SampleSound DEF Remove

\* What Expire trims.
LEMMA TrimSound ==
  ASSUME NEW s, Sound(s), NEW ks \in SUBSET s.live, NEW t0 \in Nat
  PROVE  Sound(Trim(s, ks, t0)) /\ Trim(s, ks, t0).live = s.live
  <1> DEFINE stale(k) == StaleProcs(s, k, t0)
             tr(k) == TrimTrack(s, k, t0)
             t == [s EXCEPT
                     !.tracks = [k \in Key |-> IF k \in ks THEN tr(k) ELSE @[k]],
                     !.execs = [k \in Key |-> IF k \in ks THEN TrimExecs(@[k], t0 - Window) ELSE @[k]],
                     !.byProcPID = [p \in Pid |->
                         IF \E k \in ks : p \in stale(k) THEN NoKey ELSE @[p]]]
             some == {k \in ks : stale(k) # {}}
  <1>1. Trim(s, ks, t0) = RefreshDeclared(t, some)
    BY DEF Trim
  <1>2. ks \subseteq Key
    BY DEF Sound, Weak, StateOK
  <1>3. ASSUME NEW k \in ks
        PROVE  /\ tr(k) \in Track /\ tr(k).conns = s.tracks[k].conns
               /\ \A p \in Pid : p \notin stale(k) => tr(k).procs[p] = s.tracks[k].procs[p]
    <2>1. s.tracks[k] \in Track
      BY <1>2 DEF Sound, Weak, StateOK
    <2>2. NoProc \in Proc
      BY DEF NoProc, Proc, Claim, Time
    <2> QED
      BY <2>1, <2>2 DEF TrimTrack, Track
  <1>4. /\ t.live = s.live /\ t.conns = s.conns
        /\ t.byPID = s.byPID /\ t.byTuple = s.byTuple
        /\ t.bySes = s.bySes /\ t.userLast = s.userLast
        /\ t.uidUser = s.uidUser /\ t.plumb = s.plumb /\ t.sessParent = s.sessParent
        /\ t.tracks = [k \in Key |-> IF k \in ks THEN tr(k) ELSE s.tracks[k]]
        /\ t.execs = [k \in Key |-> IF k \in ks THEN TrimExecs(s.execs[k], t0 - Window)
                                    ELSE s.execs[k]]
        /\ t.byProcPID = [p \in Pid |-> IF \E k \in ks : p \in stale(k) THEN NoKey
                                        ELSE s.byProcPID[p]]
    BY DEF Sound, Weak, StateOK
  <1>5. DOMAIN t = DOMAIN s /\ t = [x \in DOMAIN s |-> t[x]]
    BY DEF Sound, Weak, StateOK
  <1> HIDE DEF t, tr, stale
  <1>6. StateOK(t)
    <2>1. t.tracks \in [Key -> Track]
      BY <1>3, <1>4 DEF Sound, Weak, StateOK
    <2>2. t.byProcPID \in [Pid -> KeyOrNone]
      BY <1>4 DEF Sound, Weak, StateOK, KeyOrNone
    <2>3. t.execs \in [Key -> Samples]
      BY <1>4, TrimSamples DEF Sound, Weak, StateOK
    <2> QED
      BY <1>4, <1>5, <2>1, <2>2, <2>3 DEF Sound, Weak, StateOK
  <1>7. \A k \in Key : t.tracks[k].conns = s.tracks[k].conns
    BY <1>3, <1>4
  <1>8. Listed(t, {}) /\ Reached(t, {}) /\ PidIndexSound(t) /\ NoOrphan(t, {})
    BY <1>4, <1>7 DEF Sound, Weak, Listed, Reached, PidIndexSound, NoOrphan
  <1>9. SesIndexLive(t) /\ UserIndexLive(t)
    BY <1>4 DEF Sound, Weak, TrackIndexesLive, SesIndexLive, UserIndexLive
  <1>10. DeadBlank(t)
    BY <1>4 DEF Sound, Weak, TrackIndexesLive, DeadBlank
  <1>11. ProcIndexLive(t)
    <2> SUFFICES ASSUME NEW p \in Pid, t.byProcPID[p] # NoKey
                 PROVE  /\ t.byProcPID[p] \in t.live
                        /\ t.tracks[t.byProcPID[p]].procs[p].seen # 0
      BY DEF ProcIndexLive
    <2>1. t.byProcPID[p] = s.byProcPID[p] /\ \A k \in ks : p \notin stale(k)
      BY <1>4
    <2>2. s.byProcPID[p] \in s.live /\ s.tracks[s.byProcPID[p]].procs[p].seen # 0
      BY <2>1 DEF Sound, Weak, TrackIndexesLive, ProcIndexLive
    <2>3. s.byProcPID[p] \in Key
      BY <2>2 DEF Sound, Weak, StateOK
    <2> QED
      BY <1>3, <1>4, <2>1, <2>2, <2>3
  <1>12. Sound(t)
    BY <1>6, <1>8, <1>9, <1>10, <1>11 DEF Sound, Weak, TrackIndexesLive
  <1>13. some \in SUBSET t.live
    BY <1>4
  <1> HIDE DEF some
  <1>14. Sound(RefreshDeclared(t, some)) /\ RefreshDeclared(t, some).live = t.live
    BY <1>12, <1>13, RefreshWeak DEF Sound
  <1> QED
    BY <1>1, <1>4, <1>14

\* Forgetting plumbing pids and session parents.
LEMMA ForgetSound ==
  ASSUME NEW s, Sound(s), NEW t0 \in Nat
  PROVE  Sound(Forget(s, t0)) /\ Forget(s, t0).live = s.live
  <1> DEFINE t == Forget(s, t0)
  <1>1. /\ StateOK(t) /\ t.live = s.live /\ t.conns = s.conns /\ t.tracks = s.tracks
        /\ t.byPID = s.byPID /\ t.byTuple = s.byTuple /\ t.bySes = s.bySes
        /\ t.byProcPID = s.byProcPID /\ t.userLast = s.userLast
    BY DEF Forget, Sound, Weak, StateOK, Time
  <1> HIDE DEF t
  <1>2. \A k \in Key : k \notin s.live => t.tracks[k] = NoTrack
    BY <1>1 DEF Sound, Weak, TrackIndexesLive, DeadBlank
  <1>3. Sound(t)
    BY <1>1, <1>2, FrameWeak DEF Sound
  <1> QED
    BY <1>1, <1>3 DEF t

\* What Restore indexes is in the snapshot.
LEMMA LastTrackRange ==
  ASSUME NEW ks, NEW rank
  PROVE  LastTrack(ks, rank) \in ks \cup {NoKey}
  BY DEF LastTrack

\* The connection an entry is rebuilt with is one of the candidates, or none.
LEMMA LastConnRange ==
  ASSUME NEW s, NEW rs, NEW rank
  PROVE  LastConn(s, rs, rank) \in rs \cup {NoRef}
  <1> DEFINE later(q, r) == \/ rank[s.conns[q].track] > rank[s.conns[r].track]
                            \/ s.conns[q].track = s.conns[r].track /\ q > r
             last == {r \in rs : \A q \in rs : ~later(q, r)}
  <1>1. LastConn(s, rs, rank) = IF last = {} THEN NoRef ELSE CHOOSE r \in last : TRUE
    BY DEF LastConn
  <1>2. last \subseteq rs
    OBVIOUS
  <1> HIDE DEF last
  <1> QED
    BY <1>1, <1>2

\* Restore.
LEMMA RestoreSound ==
  ASSUME NEW s, Sound(s), NEW rank
  PROVE  Sound(Restore(s, rank))
  <1> DEFINE kept == {r \in ConnId : \E k \in s.live : r \in s.tracks[k].conns}
             open == {r \in kept : s.conns[r].open}
             named(x, r) == x = <<s.conns[r].user, s.conns[r].ip, s.conns[r].port>>
             joined(x, k) == \/ \E r \in s.tracks[k].conns : s.conns[r].ses = x
                             \/ \E p \in Pid : s.tracks[k].procs[p].ses = x
             newest(u) == {k \in s.live : k.user = u /\ \A j \in s.live :
                             j.user = u => s.tracks[j].lastSeen <= s.tracks[k].lastSeen}
             withPid(p) == {r \in open : s.conns[r].pid = p}
             withTuple(x) == {r \in open : named(x, r)}
             withSes(x) == {k \in s.live : joined(x, k)}
             withProc(p) == {k \in s.live : s.tracks[k].procs[p].seen # 0}
             back == [k \in s.live |-> -rank[k]]
             childless(r) == [s.conns[r] EXCEPT !.child = 0]
             t == Restore(s, rank)
  <1>1. /\ t.live = s.live /\ t.tracks = s.tracks
        /\ t.conns = [r \in ConnId |-> IF r \in kept THEN childless(r) ELSE NoConn]
        /\ t.byPID = [p \in Pid |-> LastConn(s, withPid(p), rank)]
        /\ t.byTuple = [x \in Tuple |-> LastConn(s, withTuple(x), rank)]
        /\ t.bySes = [x \in Ses |-> LastTrack(withSes(x), rank)]
        /\ t.byProcPID = [p \in Pid |-> LastTrack(withProc(p), rank)]
        /\ t.userLast = [u \in User |-> LastTrack(newest(u), back)]
        /\ t.uidUser = {} /\ t.plumb = Empty.plumb /\ t.sessParent = Empty.sessParent
        /\ t.execs = s.execs
    BY DEF Restore, Sound, Weak, StateOK
  <1>2. DOMAIN t = DOMAIN s /\ t = [x \in DOMAIN s |-> t[x]]
    BY DEF Restore, Sound, Weak, StateOK
  <1>3. /\ kept \subseteq ConnId
        /\ \A r \in ConnId, k \in s.live : r \in s.tracks[k].conns => r \in kept
        /\ \A p \in Pid : withPid(p) \subseteq kept
        /\ \A p \in Pid : \A r \in withPid(p) : s.conns[r].pid = p
        /\ \A x \in Tuple : withTuple(x) \subseteq kept
        /\ \A x \in Ses : withSes(x) \subseteq s.live
        /\ \A p \in Pid : withProc(p) \subseteq s.live
        /\ \A p \in Pid : \A k \in withProc(p) : s.tracks[k].procs[p].seen # 0
        /\ \A u \in User : newest(u) \subseteq s.live
        /\ \A u \in User : \A k \in newest(u) : k.user = u
    OBVIOUS
  <1>4. ASSUME NEW r \in ConnId
        PROVE  /\ childless(r) \in Conn /\ childless(r).track = s.conns[r].track
               /\ childless(r).pid = s.conns[r].pid
    <2>1. s.conns[r] \in Conn
      BY DEF Sound, Weak, StateOK
    <2> QED
      BY <2>1 DEF Conn
  <1> HIDE DEF t, kept, open, named, joined, newest, withPid, withTuple, withSes, withProc,
           back, childless
  <1>5. ASSUME NEW p \in Pid
        PROVE  /\ t.byPID[p] \in withPid(p) \cup {NoRef}
               /\ t.byProcPID[p] \in withProc(p) \cup {NoKey}
    BY <1>1, LastConnRange, LastTrackRange
  <1>6. ASSUME NEW x \in Tuple PROVE t.byTuple[x] \in withTuple(x) \cup {NoRef}
    BY <1>1, LastConnRange
  <1>7. ASSUME NEW x \in Ses PROVE t.bySes[x] \in withSes(x) \cup {NoKey}
    BY <1>1, LastTrackRange
  <1>8. ASSUME NEW u \in User PROVE t.userLast[u] \in newest(u) \cup {NoKey}
    BY <1>1, LastTrackRange
  <1>9. s.live \subseteq Key
    BY DEF Sound, Weak, StateOK
  <1>10. StateOK(t)
    <2>1. t.conns \in [ConnId -> Conn]
      BY <1>1, <1>4, TypesFact
    <2>2. t.byPID \in [Pid -> Ref] /\ t.byTuple \in [Tuple -> Ref]
      BY <1>1, <1>3, <1>5, <1>6 DEF Ref
    <2>3. /\ t.bySes \in [Ses -> KeyOrNone] /\ t.byProcPID \in [Pid -> KeyOrNone]
          /\ t.userLast \in [User -> KeyOrNone]
      BY <1>1, <1>3, <1>5, <1>7, <1>8, <1>9 DEF KeyOrNone
    <2>4. t.plumb \in [Pid -> Time] /\ t.sessParent \in [Pid -> Time]
      BY <1>1 DEF Empty, Time
    <2> QED
      BY <1>1, <1>2, <2>1, <2>2, <2>3, <2>4 DEF Sound, Weak, StateOK
  <1>11. ASSUME NEW r \in kept
         PROVE  t.conns[r].track = s.conns[r].track /\ t.conns[r].pid = s.conns[r].pid
    BY <1>1, <1>3, <1>4
  <1>12. ASSUME NEW r \in ConnId, r \notin kept PROVE t.conns[r] = NoConn
    BY <1>1, <1>12
  <1>13. Listed(t, {})
    <2> SUFFICES ASSUME NEW r \in ConnId, NEW k \in Key
                 PROVE  r \in t.tracks[k].conns <=> k \in t.live /\ t.conns[r].track = k
      BY DEF Listed
    <2>1. r \in s.tracks[k].conns <=> k \in s.live /\ s.conns[r].track = k
      BY DEF Sound, Weak, Listed
    <2>2. CASE r \in kept
      BY <1>1, <1>11, <2>1, <2>2
    <2>3. CASE r \notin kept
      BY <1>1, <1>3, <1>12, <2>1, <2>3, NoKeyFact, TypesFact
    <2> QED
      BY <2>2, <2>3
  <1>14. NoOrphan(t, {})
    BY <1>1, <1>11, <1>12, TypesFact DEF Sound, NoOrphan
  <1>15. Reached(t, {})
    BY <1>3, <1>5, <1>6, <1>14 DEF Reached, NoOrphan
  <1>16. PidIndexSound(t)
    BY <1>3, <1>5, <1>11 DEF PidIndexSound
  <1>17. SesIndexLive(t)
    BY <1>1, <1>3, <1>7 DEF SesIndexLive
  <1>18. ProcIndexLive(t)
    BY <1>1, <1>3, <1>5 DEF ProcIndexLive
  <1>19. UserIndexLive(t)
    BY <1>1, <1>3, <1>8 DEF UserIndexLive
  <1>20. DeadBlank(t)
    BY <1>1 DEF Sound, Weak, TrackIndexesLive, DeadBlank
  <1> QED
    BY <1>10, <1>13, <1>14, <1>15, <1>16, <1>17, <1>18, <1>19, <1>20
       DEF Sound, Weak, TrackIndexesLive, t

\* New: the empty correlator is sound.
LEMMA EmptySound == Sound(Empty)
  <1>1. StateOK(Empty)
    BY TypesFact, NoSamples DEF Empty, StateOK, Ref, KeyOrNone, Time
  <1>2. Listed(Empty, {}) /\ Reached(Empty, {}) /\ NoOrphan(Empty, {}) /\ PidIndexSound(Empty)
    BY TypesFact DEF Empty, Listed, Reached, NoOrphan, PidIndexSound
  <1>3. TrackIndexesLive(Empty)
    BY DEF Empty, TrackIndexesLive, SesIndexLive, ProcIndexLive, UserIndexLive, DeadBlank
  <1> QED
    BY <1>1, <1>2, <1>3 DEF Sound, Weak

-----------------------------------------------------------------------------
(***************************************************************************)
(* The steps: one lemma per action.                                        *)
(***************************************************************************)
\* An event carries a time the clock has reached.
LEMMA StampType ==
  ASSUME IInv
  PROVE  \A ts \in Stamp : ts \in Nat /\ ts # 0
  BY DEF IInv, Stamp

\* ssh.auth_ok keeps the indexes sound.
LEMMA AuthOKSound ==
  ASSUME IInv, AuthOK
  PROVE  Sound(c')
  <1> PICK pid \in LinePid, u \in User, ip \in IP, port \in Port, fp \in Shown, ts \in Stamp :
           \E r \in Target(c, Peer(pid, u, ip, port)) :
             LET s == Accept(c, r, Peer(pid, u, ip, port), fp, ts) IN
             c' = Finish(s, s.conns[r].track, ts)
    BY DEF AuthOK
  <1> DEFINE e == Peer(pid, u, ip, port)
  <1> PICK r \in Target(c, e) :
             LET s == Accept(c, r, e, fp, ts) IN c' = Finish(s, s.conns[r].track, ts)
    OBVIOUS
  <1> DEFINE s == Accept(c, r, e, fp, ts)
  <1>0. pid \in Pid \cup {0} /\ fp \in FP \cup {""}
    BY InputsAssumption
  <1>1. e \in Event /\ e.user \in User /\ fp \in FP \cup {""} /\ ts \in Nat
    <2>1. e \in Event /\ e.user = u
      BY <1>0 DEF Peer, Event
    <2>2. ts \in Nat
      BY StampType
    <2> QED
      BY <1>0, <2>1, <2>2
  <1>2. c' = Finish(s, s.conns[r].track, ts)
    OBVIOUS
  <1> HIDE DEF e
  <1>3. r \in ConnId /\ Sound(s)
    BY <1>1, AcceptSound DEF IInv, e
  <1> HIDE DEF s
  <1>4. s.conns[r].track \in s.live \cup {NoKey}
    BY <1>3 DEF Sound, NoOrphan
  <1> QED
    BY <1>1, <1>2, <1>3, <1>4, FinishSound DEF Sound

\* ssh.session_start does.
LEMMA SessionStartSound ==
  ASSUME IInv, SessionStart
  PROVE  Sound(c')
  <1> PICK pid \in LinePid, u \in User, ip \in IP, port \in Port, cmd \in BOOLEAN, ts \in Stamp :
           \E r \in Target(c, Peer(pid, u, ip, port)) :
             LET s == EnsureConn(c, r, Peer(pid, u, ip, port), ts)
                 k == s.conns[r].track
                 x == [ts |-> ts, pid |-> s.conns[r].pid, origin |-> "sshlog"]
                 s1 == IF pid > 1 THEN [s EXCEPT !.sessParent[pid] = ts] ELSE s
                 s2 == IF k = NoKey THEN s1 ELSE AddExecs(s1, k, <<x>>)
             IN  c' = Finish(IF cmd THEN s2 ELSE s, k, ts)
    BY DEF SessionStart
  <1> DEFINE e == Peer(pid, u, ip, port)
  <1> PICK r \in Target(c, e) :
             LET s == EnsureConn(c, r, e, ts)
                 k == s.conns[r].track
                 x == [ts |-> ts, pid |-> s.conns[r].pid, origin |-> "sshlog"]
                 s1 == IF pid > 1 THEN [s EXCEPT !.sessParent[pid] = ts] ELSE s
                 s2 == IF k = NoKey THEN s1 ELSE AddExecs(s1, k, <<x>>)
             IN  c' = Finish(IF cmd THEN s2 ELSE s, k, ts)
    OBVIOUS
  <1> DEFINE s == EnsureConn(c, r, e, ts)
             k == s.conns[r].track
             x == [ts |-> ts, pid |-> s.conns[r].pid, origin |-> "sshlog"]
             s1 == IF pid > 1 THEN [s EXCEPT !.sessParent[pid] = ts] ELSE s
             s2 == IF k = NoKey THEN s1 ELSE AddExecs(s1, k, <<x>>)
  <1>1. e \in Event /\ ts \in Nat
    BY PeerType, StampType, InputsAssumption
  <1>2. c' = Finish(IF cmd THEN s2 ELSE s, k, ts)
    OBVIOUS
  <1> HIDE DEF e
  <1>3. r \in ConnId /\ Sound(s)
    BY <1>1, EnsureConnSound DEF IInv, e
  <1> HIDE DEF s
  <1>4. k \in s.live \cup {NoKey}
    BY <1>3 DEF Sound, NoOrphan
  <1>5. pid \in Pid \cup {0} /\ x \in Exec
    <2>1. s.conns[r].pid \in Pid \cup {0}
      BY <1>3 DEF Sound, Weak, StateOK, Conn
    <2> QED
      BY <1>1, <2>1, InputsAssumption DEF Exec, Time
  <1> HIDE DEF k, x
  <1>6. Weak(s1, {}) /\ s1.live = s.live
    <2>1. Weak(s, {})
      BY <1>3 DEF Sound
    <2> DEFINE t == [s EXCEPT !.sessParent[pid] = ts]
    <2>2. CASE pid > 1
      <3>1. /\ StateOK(t) /\ t.live = s.live /\ t.conns = s.conns /\ t.tracks = s.tracks
            /\ t.byPID = s.byPID /\ t.byTuple = s.byTuple /\ t.bySes = s.bySes
            /\ t.byProcPID = s.byProcPID /\ t.userLast = s.userLast
        BY <1>1, <1>5, <2>1, <2>2 DEF Weak, StateOK, Time
      <3>2. \A j \in Key : j \notin s.live => t.tracks[j] = NoTrack
        BY <2>1, <3>1 DEF Weak, TrackIndexesLive, DeadBlank
      <3> HIDE DEF t
      <3>3. Weak(t, {})
        BY <2>1, <3>1, <3>2, FrameWeak
      <3> QED
        BY <2>2, <3>1, <3>3 DEF t
    <2> QED
      BY <2>1, <2>2
  <1> HIDE DEF s1
  <1>7. Weak(s2, {}) /\ s2.live = s.live
    <2>1. CASE k = NoKey
      BY <1>6, <2>1
    <2>2. CASE k # NoKey
      <3> DEFINE xs == <<x>>
      <3>1. k \in Key /\ xs \in Seq(Exec)
        BY <1>4, <1>5, <1>6, <2>2 DEF Weak, StateOK
      <3> HIDE DEF xs
      <3>2. Weak(AddExecs(s1, k, xs), {}) /\ AddExecs(s1, k, xs).live = s1.live
        BY <1>6, <3>1, AddExecsWeak
      <3> QED
        BY <1>6, <2>2, <3>2 DEF xs
    <2> QED
      BY <2>1, <2>2
  <1> HIDE DEF s2
  <1>8. Sound(Finish(s2, k, ts)) /\ Sound(Finish(s, k, ts))
    BY <1>1, <1>3, <1>4, <1>7, FinishSound DEF Sound
  <1> QED
    BY <1>2, <1>8

\* ssh.banner does.
LEMMA BannerSound ==
  ASSUME IInv, Banner
  PROVE  Sound(c')
  <1> PICK pid \in LinePid, ts \in Stamp :
           \E r \in Target(c, Peer(pid, "", "", 0)) :
             LET s == EnsureConn(c, r, Peer(pid, "", "", 0), ts) IN
             c' = Finish(s, s.conns[r].track, ts)
    BY DEF Banner
  <1> DEFINE e == Peer(pid, "", "", 0)
  <1> PICK r \in Target(c, e) :
             LET s == EnsureConn(c, r, e, ts) IN c' = Finish(s, s.conns[r].track, ts)
    OBVIOUS
  <1> DEFINE s == EnsureConn(c, r, e, ts)
  <1>1. e \in Event /\ ts \in Nat
    BY PeerType, StampType, InputsAssumption
  <1>2. c' = Finish(s, s.conns[r].track, ts)
    OBVIOUS
  <1> HIDE DEF e
  <1>3. r \in ConnId /\ Sound(s)
    BY <1>1, EnsureConnSound DEF IInv, e
  <1> HIDE DEF s
  <1>4. s.conns[r].track \in s.live \cup {NoKey}
    BY <1>3 DEF Sound, NoOrphan
  <1> QED
    BY <1>1, <1>2, <1>3, <1>4, FinishSound DEF Sound

\* ssh.env of an accepted SetEnv does.
LEMMA SetEnvSound ==
  ASSUME IInv, SetEnv
  PROVE  Sound(c')
  <1> PICK pid \in LinePid, agent \in Agent, ts \in Stamp :
           \E r \in Target(c, Peer(pid, "", "", 0)) :
             LET s == Declare(EnsureConn(c, r, Peer(pid, "", "", 0), ts), r, agent) IN
             c' = Finish(s, s.conns[r].track, ts)
    BY DEF SetEnv
  <1> DEFINE e == Peer(pid, "", "", 0)
  <1> PICK r \in Target(c, e) :
             LET s == Declare(EnsureConn(c, r, e, ts), r, agent) IN
             c' = Finish(s, s.conns[r].track, ts)
    OBVIOUS
  <1> DEFINE s1 == EnsureConn(c, r, e, ts)
             s == Declare(s1, r, agent)
  <1>1. e \in Event /\ ts \in Nat
    BY PeerType, StampType, InputsAssumption
  <1>2. c' = Finish(s, s.conns[r].track, ts)
    OBVIOUS
  <1> HIDE DEF e
  <1>3. r \in ConnId /\ Sound(s1)
    BY <1>1, EnsureConnSound DEF IInv, e
  <1> HIDE DEF s1
  <1>4. Sound(s)
    BY <1>3, DeclareSound
  <1> HIDE DEF s
  <1>5. s.conns[r].track \in s.live \cup {NoKey}
    BY <1>3, <1>4 DEF Sound, NoOrphan
  <1> QED
    BY <1>1, <1>2, <1>4, <1>5, FinishSound DEF Sound

\* ssh.env of the sshrc hook does.
LEMMA SSHRCDeclareSound ==
  ASSUME IInv, SSHRCDeclare
  PROVE  Sound(c')
  <1> PICK u \in User, ip \in IP, port \in Port, agent \in Agent, ts \in Stamp :
             LET r == FindConn(c, Peer(0, u, ip, port)) IN
             /\ r # NoRef
             /\ c' = Finish(Declare(c, r, agent), c.conns[r].track, ts)
    BY DEF SSHRCDeclare
  <1> DEFINE e == Peer(0, u, ip, port)
             r == FindConn(c, e)
             s == Declare(c, r, agent)
  <1>1. e \in Event /\ ts \in Nat
    BY PeerType, StampType
  <1>2. r # NoRef /\ c' = Finish(s, c.conns[r].track, ts)
    OBVIOUS
  <1> HIDE DEF e
  <1>3. r \in ConnId
    BY <1>1, <1>2, FindConnRange DEF IInv
  <1> HIDE DEF r
  <1>4. Sound(s) /\ s.conns[r].track = c.conns[r].track
    BY <1>3, DeclareSound DEF IInv
  <1> HIDE DEF s
  <1>5. c.conns[r].track \in s.live \cup {NoKey}
    BY <1>3, <1>4 DEF Sound, NoOrphan
  <1> QED
    BY <1>1, <1>2, <1>4, <1>5, FinishSound DEF Sound

\* ssh.pam_open does.
LEMMA PAMOpenSound ==
  ASSUME IInv, PAMOpen
  PROVE  Sound(c')
  <1> PICK pid \in LinePid, u \in User, uid \in BOOLEAN, ts \in Stamp :
             LET r == FindConn(c, Peer(pid, u, "", 0)) IN
             c' = Finish(IF uid THEN Learn(c, u) ELSE c,
                         IF r = NoRef THEN NoKey ELSE c.conns[r].track, ts)
    BY DEF PAMOpen
  <1> DEFINE e == Peer(pid, u, "", 0)
             r == FindConn(c, e)
             k == IF r = NoRef THEN NoKey ELSE c.conns[r].track
             s == IF uid THEN Learn(c, u) ELSE c
  <1>1. e \in Event /\ ts \in Nat
    BY PeerType, StampType, InputsAssumption
  <1>2. c' = Finish(s, k, ts)
    OBVIOUS
  <1> HIDE DEF e
  <1>3. Sound(s) /\ s.live = c.live
    BY LearnSound DEF IInv
  <1>4. r \in ConnId \cup {NoRef}
    BY <1>1, FindConnRange DEF IInv
  <1> HIDE DEF r, s
  <1>5. k \in s.live \cup {NoKey}
    BY <1>3, <1>4 DEF IInv, Sound, NoOrphan
  <1>6. Weak(s, {})
    BY <1>3 DEF Sound
  <1> HIDE DEF k
  <1> QED
    BY <1>1, <1>2, <1>5, <1>6, FinishSound

\* ssh.pam_open that announces the post-auth child does.
LEMMA UserChildSound ==
  ASSUME IInv, UserChild
  PROVE  Sound(c')
  <1>1. PICK pid \in LinePid, child \in ProcPid, ts \in Stamp :
             LET r == FindConn(c, Peer(pid, "", "", 0)) IN
             /\ r # NoRef
             /\ c' = Finish(IF c.conns[r].child # 0 THEN c ELSE Child(c, r, child),
                            c.conns[r].track, ts)
    BY DEF UserChild
  <1> DEFINE e == Peer(pid, "", "", 0)
             r == FindConn(c, e)
             s == IF c.conns[r].child # 0 THEN c ELSE Child(c, r, child)
  <1>2. e \in Event /\ ts \in Nat /\ child \in Pid
    BY PeerType, StampType, InputsAssumption
  <1>3. r # NoRef /\ c' = Finish(s, c.conns[r].track, ts)
    BY <1>1
  <1> HIDE DEF e
  <1>4. r \in ConnId
    BY <1>2, <1>3, FindConnRange DEF IInv
  <1> HIDE DEF r
  <1>5. Sound(s) /\ s.live = c.live
    BY <1>2, <1>4, ChildSound DEF IInv
  <1> HIDE DEF s
  <1>6. c.conns[r].track \in s.live \cup {NoKey} /\ Weak(s, {})
    BY <1>4, <1>5 DEF IInv, Sound, NoOrphan
  <1> QED
    BY <1>2, <1>3, <1>6, FinishSound

\* ssh.disconnect does.
LEMMA DisconnectSound ==
  ASSUME IInv, Disconnect
  PROVE  Sound(c')
  <1>1. PICK scope \in Scopes : \E e \in Lines(scope), ts \in Stamp :
             LET r == FindConn(c, e) IN
             /\ r # NoRef
             /\ c' = Finish(IF scope = "channel" THEN c ELSE Close(c, r), c.conns[r].track, ts)
    BY DEF Disconnect
  <1>2. PICK e \in Lines(scope), ts \in Stamp :
             LET r == FindConn(c, e) IN
             /\ r # NoRef
             /\ c' = Finish(IF scope = "channel" THEN c ELSE Close(c, r), c.conns[r].track, ts)
    BY <1>1
  <1> DEFINE r == FindConn(c, e)
             s == IF scope = "channel" THEN c ELSE Close(c, r)
  <1>3. e \in Event
    BY InputsAssumption DEF Lines, Event
  <1>4. r # NoRef /\ c' = Finish(s, c.conns[r].track, ts) /\ ts \in Nat
    BY <1>2, StampType
  <1>5. r \in ConnId
    BY <1>3, <1>4, FindConnRange DEF IInv
  <1> HIDE DEF r
  <1>6. Sound(s) /\ s.live = c.live
    BY <1>5, CloseSound DEF IInv
  <1> HIDE DEF s
  <1>7. c.conns[r].track \in s.live \cup {NoKey} /\ Weak(s, {})
    BY <1>5, <1>6 DEF IInv, Sound, NoOrphan
  <1> QED
    BY <1>4, <1>7, FinishSound

\* audit.login does.
LEMMA AuditLoginSound ==
  ASSUME IInv, AuditLogin
  PROVE  Sound(c')
  <1> PICK pid \in LinePid, u \in User \cup {""}, ip \in IP \cup {""},
           ses \in Ses \cup {0}, ts \in Stamp :
           \E r \in Candidates(c, Peer(pid, u, ip, 0)) :
             LET s == Login(c, r, Peer(pid, u, ip, 0), ses, ts) IN
             c' = Finish(s, s.conns[r].track, ts)
    BY DEF AuditLogin
  <1> DEFINE e == Peer(pid, u, ip, 0)
  <1> PICK r \in Candidates(c, e) :
             LET s == Login(c, r, e, ses, ts) IN c' = Finish(s, s.conns[r].track, ts)
    OBVIOUS
  <1> DEFINE s == Login(c, r, e, ses, ts)
  <1>1. e \in Event /\ ts \in Nat
    BY PeerType, StampType, InputsAssumption
  <1>2. c' = Finish(s, s.conns[r].track, ts)
    OBVIOUS
  <1> HIDE DEF e
  <1>3. r \in ConnId /\ Sound(s)
    BY <1>1, LoginSound DEF IInv
  <1> HIDE DEF s
  <1>4. s.conns[r].track \in s.live \cup {NoKey} /\ Weak(s, {})
    BY <1>3 DEF Sound, NoOrphan
  <1> QED
    BY <1>1, <1>2, <1>4, FinishSound

\* audit.logout does.
LEMMA AuditLogoutSound ==
  ASSUME IInv, AuditLogout
  PROVE  Sound(c')
  <1> PICK ses \in Ses, ts \in Stamp : c' = Finish(c, c.bySes[ses], ts)
    BY DEF AuditLogout
  <1>1. c.bySes[ses] \in c.live \cup {NoKey} /\ Weak(c, {})
    BY DEF IInv, Sound, Weak, TrackIndexesLive, SesIndexLive
  <1>2. ts \in Nat
    BY StampType
  <1> QED
    BY <1>1, <1>2, FinishSound

\* Changing only what no index is about.
LEMMA AsideSound ==
  ASSUME NEW s, Sound(s), NEW plumb \in [Pid -> Time], NEW sessParent \in [Pid -> Time]
  PROVE  Sound([s EXCEPT !.plumb = plumb, !.sessParent = sessParent])
  <1> DEFINE t == [s EXCEPT !.plumb = plumb, !.sessParent = sessParent]
  <1>1. /\ StateOK(t) /\ t.live = s.live /\ t.conns = s.conns /\ t.tracks = s.tracks
        /\ t.byPID = s.byPID /\ t.byTuple = s.byTuple /\ t.bySes = s.bySes
        /\ t.byProcPID = s.byProcPID /\ t.userLast = s.userLast
    BY DEF Sound, Weak, StateOK
  <1> HIDE DEF t
  <1>2. \A k \in Key : k \notin s.live => t.tracks[k] = NoTrack
    BY <1>1 DEF Sound, Weak, TrackIndexesLive, DeadBlank
  <1>3. Sound(t)
    BY <1>1, <1>2, FrameWeak DEF Sound
  <1> QED
    BY <1>3 DEF t

\* audit.execve of session plumbing does.
LEMMA ExecvePlumbingSound ==
  ASSUME IInv, ExecvePlumbing
  PROVE  Sound(c')
  <1>1. PICK pid \in ProcPid, ppid \in ProcPid \cup {0}, sshrc \in BOOLEAN, ts \in Stamp :
             LET s == [c EXCEPT !.plumb[pid] = ts] IN
             c' = IF sshrc /\ ppid > 1 THEN [s EXCEPT !.sessParent[ppid] = ts] ELSE s
    BY DEF ExecvePlumbing
  <1> DEFINE plumb == [c.plumb EXCEPT ![pid] = ts]
             sessParent == IF sshrc /\ ppid > 1 THEN [c.sessParent EXCEPT ![ppid] = ts]
                           ELSE c.sessParent
  <1>2. c' = [c EXCEPT !.plumb = plumb, !.sessParent = sessParent]
    BY <1>1 DEF IInv, Sound, Weak, StateOK
  <1>3. plumb \in [Pid -> Time] /\ sessParent \in [Pid -> Time]
    BY StampType DEF IInv, Sound, Weak, StateOK, Time
  <1> HIDE DEF plumb, sessParent
  <1> QED
    BY <1>2, <1>3, AsideSound DEF IInv

\* What the lookups of tracks return.
LEMMA LookupRange ==
  ASSUME NEW s, Sound(s), NEW ses \in Ses \cup {0}, NEW u \in User \cup {""}, NEW uid \in User
  PROVE  /\ TrackBySes(s, ses) \in s.live \cup {NoKey}
         /\ LastOf(s, u) \in s.live \cup {NoKey}
         /\ UserOf(s, u, uid) \in User \cup {""}
  <1>1. TrackBySes(s, ses) \in s.live \cup {NoKey}
    BY DEF TrackBySes, Sound, Weak, TrackIndexesLive, SesIndexLive
  <1>2. LastOf(s, u) \in s.live \cup {NoKey}
    BY DEF LastOf, Sound, Weak, TrackIndexesLive, UserIndexLive
  <1> QED
    BY <1>1, <1>2 DEF UserOf

\* An execve sample recorded on a live track keeps the indexes sound.
LEMMA RecordSound ==
  ASSUME NEW s, Sound(s), NEW k \in s.live, NEW xs \in Seq(Exec), NEW ts \in Nat
  PROVE  Sound(Finish(AddExecs(s, k, xs), k, ts))
  <1>1. Weak(AddExecs(s, k, xs), {}) /\ AddExecs(s, k, xs).live = s.live
    BY AddExecsWeak DEF Sound, Weak, StateOK
  <1> QED
    BY <1>1, FinishSound

\* audit.execve of a command does.
LEMMA ExecveSound ==
  ASSUME IInv, Execve
  PROVE  Sound(c')
  <1>1. PICK pid \in ProcPid, ppid \in LinePid \cup ProcPid, ses \in Ses \cup {0},
             u \in User \cup {""}, uid \in User, shell \in BOOLEAN, ts \in Stamp :
             LET bySes == TrackBySes(c, ses)
                 k == IF bySes # NoKey THEN bySes ELSE LastOf(c, UserOf(c, u, uid))
                 session == shell /\ ppid \in Pid /\ c.sessParent[ppid] # 0
                 x == [ts |-> ts, pid |-> pid,
                       origin |-> IF session THEN "auditd-session" ELSE "auditd"]
             IN  /\ ~Plumbing(c, ppid, FALSE)
                 /\ k # NoKey
                 /\ c' = Finish(AddExecs(c, k, <<x>>), k, ts)
                 /\ UNCHANGED now
    BY Zenon DEF Execve
  <1> DEFINE bySes == TrackBySes(c, ses)
             k == IF bySes # NoKey THEN bySes ELSE LastOf(c, UserOf(c, u, uid))
             session == shell /\ ppid \in Pid /\ c.sessParent[ppid] # 0
             x == [ts |-> ts, pid |-> pid,
                   origin |-> IF session THEN "auditd-session" ELSE "auditd"]
             s == AddExecs(c, k, <<x>>)
  <1>2. c' = Finish(s, k, ts) /\ ts \in Nat
    BY <1>1, StampType
  <1>3. k \in c.live \cup {NoKey}
    BY LookupRange DEF IInv
  <1>4. k # NoKey
    BY <1>1
  <1>5. x \in Exec
    BY <1>2, InputsAssumption DEF Exec, Time
  <1> DEFINE xs == <<x>>
  <1> HIDE DEF k, x
  <1>6. xs \in Seq(Exec)
    BY <1>5, OneSample
  <1> HIDE DEF xs
  <1>7. Sound(Finish(AddExecs(c, k, xs), k, ts))
    BY <1>2, <1>3, <1>4, <1>6, RecordSound DEF IInv
  <1> QED
    BY <1>2, <1>7 DEF xs

\* A parent pid that is looked up (ppid > 1) is a pid.
LEMMA PidFact == \A p \in Pid \cup {0} : p > 1 => p \in Pid
  <1>1. ~(0 > 1)
    OBVIOUS
  <1> QED
    BY <1>1, Zenon

\* attributeLocal returns a track of the correlator, none, or the key of one
\* to make.
LEMMA AttributeRange ==
  ASSUME NEW s, Sound(s), NEW ses \in Ses \cup {0}, NEW ppid \in Pid \cup {0},
         NEW user \in User \cup {""}
  PROVE  /\ AttributeLocal(s, ses, ppid, user).track \in Key \cup {NoKey}
         /\ AttributeLocal(s, ses, ppid, user).attributed \in BOOLEAN
  <1> DEFINE kin == ByLineage(s, ses, ppid)
  <1>1. kin.track \in Key \cup {NoKey} /\ kin.attributed \in BOOLEAN
    <2> DEFINE ref == IF ppid > 1 THEN s.byPID[ppid] ELSE NoRef
               parent == IF ppid > 1 THEN s.byProcPID[ppid] ELSE NoKey
    <2>1. TrackBySes(s, ses) \in Key \cup {NoKey}
      BY LookupRange, NamesAssumption DEF TrackBySes, Sound, Weak, StateOK, KeyOrNone
    <2>a. ppid > 1 => ppid \in Pid
      BY PidFact
    <2>2. ref \in ConnId \cup {NoRef} /\ parent \in Key \cup {NoKey}
      <3>1. s.byPID \in [Pid -> Ref] /\ s.byProcPID \in [Pid -> KeyOrNone]
        BY DEF Sound, Weak, StateOK
      <3>2. CASE ppid > 1
        BY <2>a, <3>1, <3>2 DEF Ref, KeyOrNone
      <3>3. CASE ~(ppid > 1)
        BY <3>3
      <3> QED
        BY <3>2, <3>3
    <2>3. ref # NoRef => s.conns[ref].track \in Key \cup {NoKey}
      BY <2>2 DEF Sound, Weak, StateOK, Conn, KeyOrNone
    <2>4. parent # NoKey => s.tracks[parent].procs[ppid].attributed \in BOOLEAN
      <3> SUFFICES ASSUME parent # NoKey
                   PROVE  s.tracks[parent].procs[ppid].attributed \in BOOLEAN
        OBVIOUS
      <3>1. parent \in Key /\ ppid \in Pid
        BY <2>a, <2>2
      <3>2. s.tracks[parent] \in Track
        BY <3>1 DEF Sound, Weak, StateOK
      <3>3. s.tracks[parent].procs[ppid] \in Proc
        BY <3>1, <3>2 DEF Track
      <3> QED
        BY <3>3 DEF Proc
    <2>5. kin = IF TrackBySes(s, ses) # NoKey
                  THEN [track |-> TrackBySes(s, ses), attributed |-> TRUE]
                ELSE IF ref # NoRef /\ s.conns[ref].track # NoKey
                  THEN [track |-> s.conns[ref].track, attributed |-> TRUE]
                ELSE IF parent # NoKey
                  THEN [track |-> parent, attributed |-> s.tracks[parent].procs[ppid].attributed]
                ELSE [track |-> NoKey, attributed |-> FALSE]
      BY DEF ByLineage
    <2> HIDE DEF ref, parent, kin
    <2>6. CASE TrackBySes(s, ses) # NoKey
      BY <2>1, <2>5, <2>6
    <2>7. CASE TrackBySes(s, ses) = NoKey /\ ref # NoRef /\ s.conns[ref].track # NoKey
      BY <2>3, <2>5, <2>7
    <2>8. CASE /\ TrackBySes(s, ses) = NoKey /\ ~(ref # NoRef /\ s.conns[ref].track # NoKey)
               /\ parent # NoKey
      BY <2>2, <2>4, <2>5, <2>8
    <2>9. CASE /\ TrackBySes(s, ses) = NoKey /\ ~(ref # NoRef /\ s.conns[ref].track # NoKey)
               /\ parent = NoKey
      BY <2>5, <2>9
    <2> QED
      BY <2>6, <2>7, <2>8, <2>9
  <1> HIDE DEF kin
  <1>2. user # "" => s.userLast[user] \in Key \cup {NoKey}
    BY DEF Sound, Weak, StateOK, KeyOrNone
  <1>3. user # "" => [user |-> user, fp |-> "-", ip |-> "local"] \in Key
    BY DEF Key
  <1>4. AttributeLocal(s, ses, ppid, user) =
          IF kin.track # NoKey THEN kin
          ELSE IF user = "" THEN [track |-> NoKey, attributed |-> FALSE]
          ELSE IF s.userLast[user] # NoKey
            THEN [track |-> s.userLast[user], attributed |-> FALSE]
          ELSE [track |-> [user |-> user, fp |-> "-", ip |-> "local"], attributed |-> TRUE]
    BY DEF AttributeLocal, kin
  <1> DEFINE own == [user |-> user, fp |-> "-", ip |-> "local"]
             at == AttributeLocal(s, ses, ppid, user)
  <1>5. \/ at = kin
        \/ at = [track |-> NoKey, attributed |-> FALSE]
        \/ user # "" /\ at = [track |-> s.userLast[user], attributed |-> FALSE]
        \/ user # "" /\ at = [track |-> own, attributed |-> TRUE]
    BY <1>4
  <1> HIDE DEF at, own
  <1>6. at.track \in Key \cup {NoKey} /\ at.attributed \in BOOLEAN
    <2>1. CASE at = kin
      BY <1>1, <2>1
    <2>2. CASE at = [track |-> NoKey, attributed |-> FALSE]
      BY <2>2
    <2>3. CASE user # "" /\ at = [track |-> s.userLast[user], attributed |-> FALSE]
      BY <1>2, <2>3
    <2>4. CASE user # "" /\ at = [track |-> own, attributed |-> TRUE]
      BY <1>3, <2>4 DEF own
    <2> QED
      BY <1>5, <2>1, <2>2, <2>3, <2>4
  <1> QED
    BY <1>6 DEF at

\* proc.seen keeps the indexes sound.
LEMMA ProcSeenSound ==
  ASSUME IInv, ProcSeen
  PROVE  Sound(c') /\ now' = now
  <1>1. PICK pid \in ProcPid, ppid \in LinePid \cup ProcPid, ses \in Ses \cup {0},
             uid \in User, named \in BOOLEAN, agent \in Claims, ts \in Stamp :
             LET user == IF named THEN uid ELSE UserOf(c, "", uid)
                 s == IF named THEN Learn(c, uid) ELSE c
                 at == AttributeLocal(s, ses, ppid, user)
                 sample == [seen |-> ts, attributed |-> at.attributed,
                            agent |-> agent, ses |-> ses]
             IN  /\ c' = IF at.track = NoKey THEN s
                         ELSE Finish(Place(TrackFor(s, at.track, ts), at.track, pid, sample),
                                     at.track, ts)
                 /\ UNCHANGED now
    BY Zenon DEF ProcSeen
  <1> DEFINE user == IF named THEN uid ELSE UserOf(c, "", uid)
             s == IF named THEN Learn(c, uid) ELSE c
             at == AttributeLocal(s, ses, ppid, user)
             sample == [seen |-> ts, attributed |-> at.attributed,
                        agent |-> agent, ses |-> ses]
             s1 == TrackFor(s, at.track, ts)
             s2 == Place(s1, at.track, pid, sample)
  <1>2. c' = IF at.track = NoKey THEN s ELSE Finish(s2, at.track, ts)
    BY <1>1
  <1>3. user \in User \cup {""}
    BY DEF UserOf
  <1>4. Sound(s)
    BY LearnSound DEF IInv
  <1>5. pid \in Pid /\ ppid \in Pid \cup {0} /\ agent \in Claim /\ ts \in Nat /\ ts # 0
    BY InputsAssumption, StampType
  <1> HIDE DEF user, s
  <1>6. at.track \in Key \cup {NoKey} /\ at.attributed \in BOOLEAN
    BY <1>3, <1>4, <1>5, AttributeRange
  <1> HIDE DEF at
  <1>7. CASE at.track # NoKey
    <2>1. at.track \in Key
      BY <1>6, <1>7
    <2>2. Sound(s1) /\ at.track \in s1.live
      BY <1>4, <1>5, <2>1, TrackForSound
    <2>3. sample \in Proc /\ sample.seen # 0
      BY <1>5, <1>6 DEF Proc, Time
    <2> HIDE DEF s1, sample
    <2>4. Sound(s2) /\ s2.live = s1.live
      BY <1>5, <2>2, <2>3, PlaceSound
    <2> HIDE DEF s2
    <2>5. Weak(s2, {}) /\ at.track \in s2.live \cup {NoKey}
      BY <2>2, <2>4 DEF Sound
    <2> QED
      BY <1>1, <1>2, <1>5, <1>7, <2>5, FinishSound
  <1> QED
    BY <1>1, <1>2, <1>4, <1>7

\* proc.gone does.
LEMMA ProcGoneSound ==
  ASSUME IInv, ProcGone
  PROVE  Sound(c')
  <1>1. PICK pid \in ProcPid, ts \in Stamp :
             LET k == c.byProcPID[pid] IN
             k # NoKey /\ c' = Finish(Remove(c, k, pid), k, ts)
    BY DEF ProcGone
  <1> DEFINE k == c.byProcPID[pid]
             s == Remove(c, k, pid)
  <1>2. k # NoKey /\ c' = Finish(s, k, ts) /\ ts \in Nat /\ pid \in Pid
    BY <1>1, StampType, InputsAssumption
  <1>3. Sound(s) /\ s.live = c.live /\ k \in c.live
    BY <1>2, RemoveSound DEF IInv
  <1> HIDE DEF k, s
  <1>4. Weak(s, {}) /\ k \in s.live \cup {NoKey}
    BY <1>3 DEF Sound
  <1> QED
    BY <1>2, <1>4, FinishSound

\* A socket sample on a live track.
LEMMA NetSound ==
  ASSUME NEW s, Sound(s), NEW k \in s.live, NEW ts \in Nat
  PROVE  LET t == [s EXCEPT !.tracks[k].net = @ \cup {ts}] IN
         Sound(t) /\ t.live = s.live
  <1> DEFINE tr == [s.tracks[k] EXCEPT !.net = s.tracks[k].net \cup {ts}]
             t == [s EXCEPT !.tracks[k].net = @ \cup {ts}]
  <1>1. k \in Key /\ s.tracks[k] \in Track
    BY DEF Sound, Weak, StateOK
  <1>2. tr \in Track /\ tr.conns = s.tracks[k].conns /\ tr.procs = s.tracks[k].procs
    BY <1>1 DEF Track, Time
  <1>3. /\ t.live = s.live /\ t.conns = s.conns
        /\ t.byPID = s.byPID /\ t.byTuple = s.byTuple /\ t.bySes = s.bySes
        /\ t.byProcPID = s.byProcPID /\ t.userLast = s.userLast
        /\ t.uidUser = s.uidUser /\ t.plumb = s.plumb /\ t.sessParent = s.sessParent
        /\ t.execs = s.execs /\ t.tracks = [s.tracks EXCEPT ![k] = tr]
    BY DEF Sound, Weak, StateOK
  <1>4. DOMAIN t = DOMAIN s /\ t = [x \in DOMAIN s |-> t[x]]
    BY DEF Sound, Weak, StateOK
  <1> HIDE DEF t, tr
  <1>5. StateOK(t)
    BY <1>1, <1>2, <1>3, <1>4 DEF Sound, Weak, StateOK
  <1>6. \A j \in Key : /\ t.tracks[j].conns = s.tracks[j].conns
                       /\ t.tracks[j].procs = s.tracks[j].procs
                       /\ j \notin s.live => t.tracks[j] = NoTrack
    BY <1>1, <1>2, <1>3 DEF Sound, Weak, StateOK, TrackIndexesLive, DeadBlank
  <1>7. Sound(t)
    BY <1>3, <1>5, <1>6, FrameWeak DEF Sound
  <1> QED
    BY <1>3, <1>7 DEF t

\* net.conn does.
LEMMA NetConnSound ==
  ASSUME IInv, NetConn
  PROVE  Sound(c') /\ now' = now
  <1>1. PICK pid \in ProcPid \cup {0}, ses \in Ses \cup {0}, uid \in User, named \in BOOLEAN,
             ts \in Stamp :
             LET bySes == TrackBySes(c, ses)
                 byPid == IF pid = 0 THEN NoKey ELSE c.byProcPID[pid]
                 user == IF named THEN uid ELSE UserOf(c, "", uid)
                 k == IF bySes # NoKey THEN bySes
                      ELSE IF byPid # NoKey THEN byPid
                      ELSE AttributeLocal(c, ses, 0, user).track
             IN  /\ k # NoKey
                 /\ c' = LET s == TrackFor(c, k, ts) IN
                         Finish([s EXCEPT !.tracks[k].net = @ \cup {ts}], k, ts)
                 /\ UNCHANGED now
    BY Zenon DEF NetConn
  <1> DEFINE bySes == TrackBySes(c, ses)
             byPid == IF pid = 0 THEN NoKey ELSE c.byProcPID[pid]
             user == IF named THEN uid ELSE UserOf(c, "", uid)
             local == AttributeLocal(c, ses, 0, user).track
             k == IF bySes # NoKey THEN bySes ELSE IF byPid # NoKey THEN byPid ELSE local
             s == TrackFor(c, k, ts)
             t == [s EXCEPT !.tracks[k].net = @ \cup {ts}]
  <1>2. k # NoKey /\ c' = Finish(t, k, ts) /\ ts \in Nat
    BY <1>1, StampType
  <1>3. c.live \subseteq Key
    BY DEF IInv, Sound, Weak, StateOK
  <1>4. bySes \in Key \cup {NoKey}
    BY <1>3, LookupRange DEF IInv
  <1>5. byPid \in Key \cup {NoKey}
    BY InputsAssumption DEF IInv, Sound, Weak, StateOK, KeyOrNone
  <1>6. user \in User \cup {""}
    BY DEF UserOf
  <1> HIDE DEF bySes, byPid, user
  <1>7. local \in Key \cup {NoKey}
    BY <1>6, AttributeRange DEF IInv
  <1> HIDE DEF local
  <1>8. k \in Key
    BY <1>2, <1>4, <1>5, <1>7
  <1> HIDE DEF k
  <1>9. Sound(s) /\ k \in s.live
    BY <1>2, <1>8, TrackForSound DEF IInv
  <1> HIDE DEF s
  <1>10. Sound(t) /\ t.live = s.live
    BY <1>2, <1>9, NetSound
  <1> HIDE DEF t
  <1>11. Weak(t, {}) /\ k \in t.live \cup {NoKey}
    BY <1>9, <1>10 DEF Sound
  <1>12. now' = now
    BY <1>1
  <1> QED
    BY <1>2, <1>11, <1>12, FinishSound

\* The maintenance tick (Expire) does.
LEMMA ExpireSound ==
  ASSUME IInv, Expire
  PROVE  Sound(c')
  <1> DEFINE gone == Idle(c, now)
             f == Forget(c, now)
             kept == c.live \ gone
             s == Trim(f, kept, now)
  <1>1. c' = Collect(Drop(s, gone))
    BY DEF Expire
  <1>2. Sound(f) /\ f.live = c.live
    BY ForgetSound DEF IInv
  <1>3. gone \in SUBSET Key /\ kept \in SUBSET f.live
    BY <1>2 DEF Idle, IInv, Sound, Weak, StateOK
  <1> HIDE DEF gone, f, kept
  <1>4. Sound(s)
    BY <1>2, <1>3, TrimSound DEF IInv
  <1> HIDE DEF s
  <1>5. Weak(Drop(s, gone), {})
    BY <1>3, <1>4, DropWeak DEF Sound
  <1> QED
    BY <1>1, <1>5, CollectSound

\* A restart (Snapshot, Restore) does.
LEMMA RestartSound ==
  ASSUME IInv, Restart
  PROVE  Sound(c')
  BY RestoreSound DEF IInv, Restart

-----------------------------------------------------------------------------
(***************************************************************************)
(* The theorems.                                                           *)
(***************************************************************************)
\* The invariant holds of a correlator that has seen nothing.
LEMMA InitIInv == Init => IInv
  <1>1. MaxTime \in Nat \ {0}
    BY InputsAssumption
  <1> QED
    BY <1>1, EmptySound DEF Init, IInv

\* Every event, expiry, restart and tick preserves the invariant.
LEMMA NextIInv == IInv /\ [Next]_vars => IInv'
  <1> SUFFICES ASSUME IInv, [Next]_vars
               PROVE  IInv'
    OBVIOUS
  <1>1. now' \in Nat \ {0} /\ now' <= MaxTime
    <2>1. AuthOK => now' = now
      BY DEF AuthOK
    <2>2. SessionStart => now' = now
      BY DEF SessionStart
    <2>3. Banner => now' = now
      BY DEF Banner
    <2>4. SetEnv => now' = now
      BY DEF SetEnv
    <2>5. SSHRCDeclare => now' = now
      BY DEF SSHRCDeclare
    <2>6. PAMOpen => now' = now
      BY DEF PAMOpen
    <2>7. UserChild => now' = now
      BY DEF UserChild
    <2>8. Disconnect => now' = now
      BY DEF Disconnect
    <2>9. AuditLogin => now' = now
      BY DEF AuditLogin
    <2>10. AuditLogout => now' = now
      BY DEF AuditLogout
    <2>11. ExecvePlumbing => now' = now
      BY DEF ExecvePlumbing
    <2>12. Execve => now' = now
      BY DEF Execve
    <2>13. ProcSeen => now' = now
      BY ProcSeenSound
    <2>14. ProcGone => now' = now
      BY DEF ProcGone
    <2>15. NetConn => now' = now
      BY NetConnSound
    <2>16. Expire \/ Restart => now' = now
      BY DEF Expire, Restart
    <2>17. Tick \/ UNCHANGED vars => now' \in Nat \ {0} /\ now' <= MaxTime
      <3>1. MaxTime \in Nat
        BY InputsAssumption
      <3>2. now \in Nat \ {0} /\ now <= MaxTime
        BY DEF IInv
      <3> QED
        BY <3>1, <3>2 DEF Tick, vars
    <2> QED
      BY <2>1, <2>2, <2>3, <2>4, <2>5, <2>6, <2>7,
         <2>8, <2>9, <2>10, <2>11, <2>12, <2>13, <2>14,
         <2>15, <2>16, <2>17 DEF IInv, Next
  <1>2. Sound(c')
    <2>1. CASE AuthOK
      BY <2>1, AuthOKSound
    <2>2. CASE SessionStart
      BY <2>2, SessionStartSound
    <2>3. CASE Banner
      BY <2>3, BannerSound
    <2>4. CASE SetEnv
      BY <2>4, SetEnvSound
    <2>5. CASE SSHRCDeclare
      BY <2>5, SSHRCDeclareSound
    <2>6. CASE PAMOpen
      BY <2>6, PAMOpenSound
    <2>7. CASE UserChild
      BY <2>7, UserChildSound
    <2>8. CASE Disconnect
      BY <2>8, DisconnectSound
    <2>9. CASE AuditLogin
      BY <2>9, AuditLoginSound
    <2>10. CASE AuditLogout
      BY <2>10, AuditLogoutSound
    <2>11. CASE ExecvePlumbing
      BY <2>11, ExecvePlumbingSound
    <2>12. CASE Execve
      BY <2>12, ExecveSound
    <2>13. CASE ProcSeen
      BY <2>13, ProcSeenSound
    <2>14. CASE ProcGone
      BY <2>14, ProcGoneSound
    <2>15. CASE NetConn
      BY <2>15, NetConnSound
    <2>16. CASE Expire
      BY <2>16, ExpireSound
    <2>17. CASE Restart
      BY <2>17, RestartSound
    <2>18. CASE Tick \/ UNCHANGED vars
      <3>1. c' = c
        BY <2>18 DEF Tick, vars
      <3> QED
        BY <3>1 DEF IInv
    <2> QED
      BY <2>1, <2>2, <2>3, <2>4, <2>5, <2>6, <2>7, <2>8, <2>9, <2>10, <2>11, <2>12, <2>13,
         <2>14, <2>15, <2>16, <2>17, <2>18 DEF Next
  <1>3. IInv' <=> Sound(c') /\ now' \in Nat \ {0} /\ now' <= MaxTime
    BY DEF IInv, Sound, Weak, StateOK, Listed, Reached, NoOrphan, TrackIndexesLive,
       SesIndexLive, ProcIndexLive, UserIndexLive, DeadBlank, PidIndexSound
  <1> QED
    BY <1>1, <1>2, <1>3

\* The invariant is a strengthening of IndexIntegrity.
LEMMA IInvIntegrity == IInv => IndexIntegrity
  <1> SUFFICES ASSUME IInv
               PROVE  IndexIntegrity
    OBVIOUS
  <1>1. OneTrackPerConn(c)
    BY DEF IInv, Sound, Weak, Listed, NoOrphan, OneTrackPerConn
  <1> QED
    BY <1>1 DEF IndexIntegrity, IInv, Sound, Weak

\* The correlator's indexes stay sound, whatever lines come in whatever order,
\* get lost or are repeated, however pids are reused and whenever the daemon
\* expires tracks or restarts (apply, Expire, Restore of correlator.go).
THEOREM IndexIntegrityHolds == Spec => []IndexIntegrity
  <1>1. Init => IInv
    BY InitIInv
  <1>2. IInv /\ [Next]_vars => IInv'
    BY NextIInv
  <1>3. IInv => IndexIntegrity
    BY IInvIntegrity
  <1> QED
    BY <1>1, <1>2, <1>3, PTL DEF Spec

\* What the invariant says of the types.
LEMMA IInvTyped == IInv => TypeOK
  <1> SUFFICES ASSUME IInv
               PROVE  TypeOK
    OBVIOUS
  <1>1. StateOK(c) /\ now \in 1..MaxTime
    <2>1. MaxTime \in Nat
      BY InputsAssumption
    <2>2. StateOK(c) /\ now \in Nat \ {0} /\ now <= MaxTime
      BY DEF IInv, Sound, Weak
    <2> QED
      BY <2>1, <2>2
  <1>2. c.execs \in [Key -> Seq(Exec)] /\ \A k \in Key : Len(c.execs[k]) <= MaxExecs
    BY <1>1 DEF StateOK, Samples
  <1> QED
    BY <1>1, <1>2 DEF StateOK, TypeOK

\* Every map holds values of its type, and no track keeps more exec samples than
\* MaxExecsPerTrack, those included that moveConn takes along (addExec).
THEOREM StateTyped == Spec => []TypeOK
  BY InitIInv, NextIInv, IInvTyped, PTL DEF Spec
=============================================================================
