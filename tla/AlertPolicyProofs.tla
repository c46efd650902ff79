-------------------------- MODULE AlertPolicyProofs --------------------------
(***************************************************************************)
(* Proofs that the alert policy implements Reporting, for every list of    *)
(* windows whose occurrences do not come back once another one took their  *)
(* place, every interval and every number of tracks and restarts; and of   *)
(* the invariants of its run.                                              *)
(***************************************************************************)
EXTENDS AlertPolicy, TLAPS, WellFoundedInduction

-----------------------------------------------------------------------------
(***************************************************************************)
(* The inductive invariant: what the track and its memo know accounts for  *)
(* everything that was told.                                               *)
(***************************************************************************)
Past(k, n) == \A j \in 1..MaxTime : j >= n => Key(Calendar[j]) # k
Met(k, n) == \E j \in 1..MaxTime : j <= n /\ Calendar[j] # NoFreeze /\ Key(Calendar[j]) = k

\* x, told of track record r with memo m, is not going to be told again: at
\* time n in run q nothing but a new topic passes.
Accounted(x, r, m, n, q) ==
    /\ x.level <= r.maxLevel
    /\ x.what = "declaration" => m.declared
    /\ x.what = "violation" => Past(x.key, n) \/ (m.freeze = x.key /\ Met(x.key, n))
    /\ x.what = "escalation" =>
         /\ x.run <= q
         /\ \/ x.run < q \/ Past(x.key, n)
            \/ m.freeze = x.key /\ Met(x.key, n) /\ x.level <= m.verdict

Account(r, m, s, n, q) ==
    /\ r.phase = "new" => s = <<>> /\ r.maxLevel = None /\ m = NoMemo
    /\ r.phase = "open" =>
         /\ \A i \in DOMAIN s : s[i] \in Topic /\ Accounted(s[i], r, m, n, q)
         /\ \A i, j \in DOMAIN s : s[i] = s[j] => i = j
         /\ r.maxLevel >= Alert => \E i \in DOMAIN s : Loud(s[i])
         /\ m.freeze # NoKey =>
              \E i \in DOMAIN s : s[i].what = "violation" /\ s[i].key = m.freeze
         /\ s # <<>> => r.lastAlert # 0

TrackType == [phase : {"new", "open", "gone"}, maxLevel : Level, lastAlert : Nat]
MemoType == [declared : BOOLEAN, freeze : {NoKey} \cup {Key(f) : f \in Freeze}, verdict : Level]

Accounts(r, m, s, n, q) ==
    /\ r \in [Track -> TrackType] /\ m \in [Track -> MemoType]
    /\ s \in [Track -> Seq(Topic \cup {Farewell})]
    /\ \A t \in Track : Account(r[t], m[t], s[t], n, q)

IInv ==
    /\ now \in 1..MaxTime /\ run \in 0..MaxRuns
    /\ Accounts(track, memo, told, now, run)
    /\ Accounts(disk.track, Restore(disk.dedupe), disk.told, now, run + 1)
    /\ disk.dedupe \in [Track -> [declared : BOOLEAN, freeze : {NoKey} \cup {Key(f) : f \in Freeze}]]

-----------------------------------------------------------------------------
(***************************************************************************)
(* Windows, levels and topics.                                             *)
(***************************************************************************)
\* The least-number principle.
LEMMA LeastOf ==
    ASSUME NEW S \in SUBSET Nat, S # {}
    PROVE  \E x \in S : \A y \in S : x =< y
  <1> DEFINE R == {ss \in Nat \X Nat : ss[1] < ss[2]}
  <1>1. IsWellFoundedOn(R, Nat)
    BY NatLessThanWellFounded DEF OpToRel
  <1>2. \E x \in S : \A y \in S : ~ (<<y, x>> \in R)
    <2> HIDE DEF R
    <2> QED
      BY <1>1, WFMin
  <1>3. \A x, y \in S : ~(<<y, x>> \in R) => x =< y
    OBVIOUS
  <1> QED
    BY <1>2, <1>3

\* An active window is one of the list, so it has a name and a level.
LEMMA CalendarType ==
    ASSUME NEW n \in 1..MaxTime
    PROVE  /\ Calendar[n].level \in Level
           /\ Calendar[n] # NoFreeze =>
                /\ Key(Calendar[n]) # NoKey
                /\ \E i \in DOMAIN Windows : /\ Calendar[n].level = Windows[i].level
                                           /\ Calendar[n].name = Windows[i].name
  <1> DEFINE on == {i \in DOMAIN Windows : Active(Windows[i], n)}
  <1>1. Calendar[n] = ActiveFreeze(n)
    BY DEF Calendar
  <1>2. CASE on = {}
    <2>1. Calendar[n] = NoFreeze
      BY <1>1, <1>2, Zenon DEF ActiveFreeze
    <2>2. NoFreeze.level \in Level
      BY DEF NoFreeze, Level, None
    <2> QED
      BY <2>1, <2>2
  <1>3. CASE on # {}
    <2> DEFINE Window == [name : STRING \ {""}, starts : SUBSET Nat, length : Nat \ {0},
                          level : Level, declared : BOOLEAN]
    <2>1. Windows \in Seq(Window)
      BY PolicyAssumption
    <2>2. \A w \in Window : w.name # "" /\ w.level \in Level
      OBVIOUS
    <2> HIDE DEF Window
    <2>3. on \in SUBSET Nat
      BY <2>1
    <2>4. Min(on) \in on
      BY <1>3, <2>3, LeastOf DEF Min
    <2>5. Windows[Min(on)] \in Window
      <3>1. Min(on) \in DOMAIN Windows
        BY <2>4
      <3> QED
        BY <3>1, <2>1
    <2>6. /\ Calendar[n].level = Windows[Min(on)].level
          /\ Calendar[n].name = Windows[Min(on)].name
      BY <1>1, <1>3 DEF ActiveFreeze
    <2> QED
      BY <2>2, <2>4, <2>5, <2>6 DEF Key, NoKey
  <1> QED
    BY <1>2, <1>3

\* Names are unique, so an occurrence has one level.
LEMMA OneLevel ==
    ASSUME NEW i \in 1..MaxTime, NEW j \in 1..MaxTime,
           Calendar[i] # NoFreeze, Calendar[j] # NoFreeze, Key(Calendar[i]) = Key(Calendar[j])
    PROVE  FreezeLevel(Calendar[i]) = FreezeLevel(Calendar[j])
  <1>1. Calendar[i].name = Calendar[j].name
    BY DEF Key
  <1>2. PICK a \in DOMAIN Windows : /\ Calendar[i].level = Windows[a].level
                                   /\ Calendar[i].name = Windows[a].name
    BY CalendarType
  <1>3. PICK b \in DOMAIN Windows : /\ Calendar[j].level = Windows[b].level
                                   /\ Calendar[j].name = Windows[b].name
    BY CalendarType
  <1>4. a = b
    BY <1>1, <1>2, <1>3, PolicyAssumption
  <1> QED
    BY <1>2, <1>3, <1>4 DEF FreezeLevel

\* What a verdict that falls into a window has to do with.
LEMMA FreezeFacts ==
    ASSUME NEW n \in 1..MaxTime, NEW v \in Verdict, FreezeFor(n, v) # NoFreeze
    PROVE  /\ FreezeFor(n, v) = Calendar[n] /\ Calendar[n] \in Freeze
           /\ Key(Calendar[n]) # NoKey
           /\ FreezeLevel(Calendar[n]) \in Info..High
  <1>1. FreezeFor(n, v) = Calendar[n] /\ Calendar[n] # NoFreeze
    BY DEF FreezeFor
  <1>2. Calendar[n].level \in Level /\ Key(Calendar[n]) # NoKey
    BY <1>1, CalendarType
  <1>3. FreezeLevel(Calendar[n]) \in Info..High
    BY <1>2 DEF FreezeLevel, Level, None, Info, High
  <1> QED
    BY <1>1, <1>2, <1>3 DEF Freeze

\* What topics look like.
LEMMA TopicShape ==
    \A x \in Topic :
        /\ x.level \in Info..High /\ x.run \in Nat
        /\ x.what = "violation" => \E f \in Freeze : x = Violation(f)
  <1> SUFFICES ASSUME NEW x \in Topic
               PROVE  /\ x.level \in Info..High /\ x.run \in Nat
                      /\ x.what = "violation" => \E f \in Freeze : x = Violation(f)
    OBVIOUS
  <1>1. CASE x = Declaration
    BY <1>1 DEF Declaration, Info, High
  <1>2. CASE \E l \in Info..High : x = Crossing(l)
    BY <1>2 DEF Crossing
  <1>3. CASE \E f \in Freeze : x = Violation(f)
    <2>1. PICK n \in 1..MaxTime : Calendar[n] # NoFreeze /\ x = Violation(Calendar[n])
      BY <1>3 DEF Freeze
    <2>2. Calendar[n].level \in Level
      BY CalendarType
    <2> QED
      BY <1>3, <2>1, <2>2 DEF Violation, FreezeLevel, Level, None, Info, High
  <1>4. CASE \E f \in Freeze, l \in Alert..High, r \in 0..MaxRuns : x = Escalation(f, l, r)
    BY <1>4 DEF Escalation, Alert, Info, High
  <1> QED
    BY <1>1, <1>2, <1>3, <1>4 DEF Topic

-----------------------------------------------------------------------------
(***************************************************************************)
(* Telling keeps the account.                                              *)
(***************************************************************************)
\* Track record r with memo m becomes r2 with m2 by the telling of topic x.
Learns(r, m, s, n, q, r2, m2, x) ==
    /\ r.phase = "open" /\ r.maxLevel \in Level /\ Account(r, m, s, n, q)
    /\ r2.phase = "open" /\ r2.lastAlert # 0 /\ r2.maxLevel = Louder(r.maxLevel, x.level)
    /\ \A i \in DOMAIN s : s[i] # x /\ Accounted(s[i], r2, m2, n, q)
    /\ Accounted(x, r2, m2, n, q)
    /\ m2.freeze = m.freeze \/ (x.what = "violation" /\ x.key = m2.freeze)

\* A new topic, of which the track and its memo know from now on.
LEMMA ToldAccount ==
    ASSUME NEW r, NEW m, NEW s \in Seq(Topic), NEW n, NEW q, NEW r2, NEW m2, NEW x \in Topic,
           Learns(r, m, s, n, q, r2, m2, x)
    PROVE  Account(r2, m2, Append(s, x), n, q) /\ Append(s, x) \in Seq(Topic)
  <1> DEFINE z == Append(s, x)
  <1>1. /\ z \in Seq(Topic) /\ z # <<>> /\ DOMAIN z = 1..Len(s) + 1 /\ DOMAIN s = 1..Len(s)
        /\ \A i \in DOMAIN s : z[i] = s[i]
        /\ z[Len(s) + 1] = x /\ Len(s) \in Nat
    OBVIOUS
  <1> HIDE DEF z
  <1>2. \A i \in DOMAIN z : i \in DOMAIN s \/ i = Len(s) + 1
    BY <1>1
  <1>3. \A i \in DOMAIN z : z[i] \in Topic /\ Accounted(z[i], r2, m2, n, q)
    BY <1>1, <1>2 DEF Learns, Account
  <1>4. \A i, j \in DOMAIN z : z[i] = z[j] => i = j
    BY <1>1, <1>2 DEF Learns, Account
  <1>5. r2.maxLevel >= Alert => \E i \in DOMAIN z : Loud(z[i])
    <2>1. CASE x.level >= Alert
      BY <1>1, <2>1 DEF Loud
    <2>2. CASE ~(x.level >= Alert)
      <3>1. x.level \in Info..High
        BY TopicShape
      <3>2. r2.maxLevel >= Alert => r.maxLevel >= Alert
        BY <2>2, <3>1 DEF Learns, Louder, Alert, Info, High, Level
      <3> QED
        BY <1>1, <3>2 DEF Learns, Account
    <2> QED
      BY <2>1, <2>2
  <1>6. m2.freeze # NoKey => \E i \in DOMAIN z : z[i].what = "violation" /\ z[i].key = m2.freeze
    <2>1. CASE x.what = "violation" /\ x.key = m2.freeze
      BY <1>1, <2>1
    <2>2. CASE m2.freeze = m.freeze
      BY <1>1, <2>2 DEF Learns, Account
    <2> QED
      BY <2>1, <2>2 DEF Learns
  <1> QED
    BY <1>1, <1>3, <1>4, <1>5, <1>6 DEF Learns, Account, z

\* A louder track accounts for what it did before.
LEMMA AccountedLouder ==
    ASSUME NEW x \in Topic, NEW r, NEW m, NEW n, NEW q, NEW r2, NEW l \in Level,
           r.maxLevel \in Level, r2.maxLevel = Louder(r.maxLevel, l), Accounted(x, r, m, n, q)
    PROVE  Accounted(x, r2, m, n, q)
  <1>1. x.level \in Info..High
    BY TopicShape
  <1>2. x.level <= r2.maxLevel
    BY <1>1 DEF Accounted, Louder, Level, Info, High
  <1> QED
    BY <1>2 DEF Accounted

\* An occurrence other than the one of the memo is new, and the latter over.
LEMMA OtherOccurrence ==
    ASSUME Steady, NEW n \in 1..MaxTime, NEW k, Calendar[n] # NoFreeze,
           k # Key(Calendar[n]), Met(k, n)
    PROVE  Past(k, n)
  <1> SUFFICES ASSUME NEW j \in 1..MaxTime, j >= n, Key(Calendar[j]) = k
               PROVE  FALSE
    BY DEF Past
  <1>1. PICK i \in 1..MaxTime : i <= n /\ Calendar[i] # NoFreeze /\ Key(Calendar[i]) = k
    BY DEF Met
  <1>2. i < n /\ n < j
    BY <1>1
  <1> QED
    BY <1>1, <1>2 DEF Steady

-----------------------------------------------------------------------------
(***************************************************************************)
(* The steps of Observe.                                                   *)
(***************************************************************************)
\* Only t changed, and it is accounted for.
Stepped(t) ==
    /\ track' = [track EXCEPT ![t] = track'[t]] /\ track'[t] \in TrackType
    /\ memo' = [memo EXCEPT ![t] = memo'[t]] /\ memo'[t] \in MemoType
    /\ told' = [told EXCEPT ![t] = told'[t]] /\ told'[t] \in Seq(Topic \cup {Farewell})
    /\ Account(track'[t], memo'[t], told'[t], now, run)
    /\ UNCHANGED <<disk, now, run>>

\* The invariant is about each track by itself.
LEMMA SteppedIInv ==
    ASSUME IInv, NEW t \in Track, Stepped(t)
    PROVE  IInv'
  <1>1. Accounts(track', memo', told', now, run)
    <2>1. \A u \in Track : Account(track'[u], memo'[u], told'[u], now, run)
      BY DEF IInv, Accounts, Stepped
    <2> QED
      BY <2>1 DEF IInv, Accounts, Stepped
  <1> QED
    BY <1>1 DEF IInv, Stepped

\* What is known of an open track.
LEMMA OpenFacts ==
    ASSUME IInv, NEW t \in Track, track[t].phase = "open"
    PROVE  /\ Account(track[t], memo[t], told[t], now, run)
           /\ track[t] \in TrackType /\ memo[t] \in MemoType /\ told[t] \in Seq(Topic)
           /\ now \in 1..MaxTime /\ now \in Nat \ {0} /\ run \in 0..MaxRuns
           /\ track \in [Track -> TrackType] /\ memo \in [Track -> MemoType]
           /\ told \in [Track -> Seq(Topic \cup {Farewell})]
  <1>1. told[t] \in Seq(Topic \cup {Farewell}) /\ Account(track[t], memo[t], told[t], now, run)
    BY DEF IInv, Accounts
  <1>2. told[t] \in Seq(Topic)
    <2>1. \A i \in 1..Len(told[t]) : told[t][i] \in Topic
      BY <1>1 DEF Account
    <2> QED
      BY <1>1, <2>1
  <1>3. now \in 1..MaxTime /\ MaxTime \in Nat
    BY PolicyAssumption DEF IInv
  <1> QED
    BY <1>1, <1>2, <1>3 DEF IInv, Accounts

\* An alert of level l keeps the track's type.
LEMMA EmitType ==
    ASSUME NEW t \in Track, track \in [Track -> TrackType], now \in Nat \ {0},
           NEW l \in Level, Emit(t, l)
    PROVE  /\ track' = [track EXCEPT ![t] = track'[t]] /\ track'[t] \in TrackType
           /\ track'[t].phase = track[t].phase /\ track'[t].lastAlert = now
           /\ track'[t].maxLevel = Louder(track[t].maxLevel, l)
           /\ track[t].maxLevel \in Level /\ track'[t].lastAlert # 0
  <1>1. Louder(track[t].maxLevel, l) \in Level
    BY DEF TrackType, Louder
  <1> QED
    BY <1>1 DEF Emit, TrackType

\* An alert about a topic of its own.  Accounted looks at a track's level only.
LEMMA TellStep ==
    ASSUME IInv, NEW t \in Track, NEW x \in Topic, track[t].phase = "open",
           Emit(t, x.level), told' = [told EXCEPT ![t] = Append(@, x)],
           memo' = [memo EXCEPT ![t] = memo'[t]], memo'[t] \in MemoType,
           UNCHANGED <<disk, now, run>>,
           memo'[t].freeze = memo[t].freeze \/ (x.what = "violation" /\ x.key = memo'[t].freeze),
           \A i \in DOMAIN told[t] : told[t][i] # x,
           \A i \in DOMAIN told[t] : Accounted(told[t][i], track[t], memo[t], now, run)
                                     => Accounted(told[t][i], track[t], memo'[t], now, run),
           Accounted(x, [maxLevel |-> x.level], memo'[t], now, run)
    PROVE  Stepped(t)
  <1>1. /\ Account(track[t], memo[t], told[t], now, run)
        /\ track[t] \in TrackType /\ memo[t] \in MemoType /\ told[t] \in Seq(Topic)
        /\ now \in Nat \ {0} /\ track \in [Track -> TrackType]
        /\ told \in [Track -> Seq(Topic \cup {Farewell})]
    BY OpenFacts
  <1>2. x.level \in Info..High /\ x.level \in Level
    BY TopicShape DEF Info, High, Level
  <1>3. /\ track' = [track EXCEPT ![t] = track'[t]] /\ track'[t] \in TrackType
        /\ track'[t].phase = "open" /\ track'[t].maxLevel = Louder(track[t].maxLevel, x.level)
        /\ track[t].maxLevel \in Level /\ track'[t].lastAlert # 0
    BY <1>1, <1>2, EmitType
  <1>4. ASSUME NEW i \in DOMAIN told[t]
        PROVE  Accounted(told[t][i], track'[t], memo'[t], now, run)
    <2>1. told[t][i] \in Topic /\ Accounted(told[t][i], track[t], memo'[t], now, run)
      BY <1>1 DEF Account
    <2> QED
      BY <1>2, <1>3, <2>1, AccountedLouder
  <1>5. Accounted(x, track'[t], memo'[t], now, run)
    <2>1. x.level <= track'[t].maxLevel
      BY <1>2, <1>3 DEF Louder, Level, Info, High
    <2> QED
      BY <2>1 DEF Accounted
  <1>6. /\ Account(track'[t], memo'[t], Append(told[t], x), now, run)
        /\ Append(told[t], x) \in Seq(Topic)
    <2> DEFINE r == track[t]
               m == memo[t]
               s == told[t]
               r2 == track'[t]
               m2 == memo'[t]
    <2>1. Learns(r, m, s, now, run, r2, m2, x)
      BY <1>1, <1>3, <1>4, <1>5 DEF Learns
    <2>2. s \in Seq(Topic)
      BY <1>1
    <2> HIDE DEF r, m, s, r2, m2
    <2>3. Account(r2, m2, Append(s, x), now, run) /\ Append(s, x) \in Seq(Topic)
      BY <2>1, <2>2, ToldAccount
    <2> QED
      BY <2>3 DEF r, m, s, r2, m2
  <1>7. told'[t] = Append(told[t], x) /\ told' = [told EXCEPT ![t] = told'[t]]
    BY <1>1
  <1>8. told'[t] \in Seq(Topic \cup {Farewell})
    BY <1>6, <1>7
  <1> QED
    BY <1>3, <1>6, <1>7, <1>8 DEF Stepped

\* A window violated for the first time: the memo of another one is over.
LEMMA ViolationStep ==
    ASSUME IInv, Steady, NEW t \in Track, NEW v \in Verdict, ObserveViolation(t, v)
    PROVE  Stepped(t)
  <1> DEFINE f == Calendar[now]
             x == Violation(f)
  <1>1. track[t].phase = "open" /\ FreezeFor(now, v) # NoFreeze
    BY DEF ObserveViolation, InFreeze
  <1>2. now \in 1..MaxTime /\ Account(track[t], memo[t], told[t], now, run)
    BY <1>1, OpenFacts
  <1>3. /\ FreezeFor(now, v) = f /\ f # NoFreeze /\ f \in Freeze /\ Key(f) # NoKey
        /\ FreezeLevel(f) \in Info..High
    BY <1>1, <1>2, FreezeFacts
  <1>4. /\ memo' = [memo EXCEPT ![t].freeze = Key(f), ![t].verdict = v.level]
        /\ Emit(t, FreezeLevel(f)) /\ told' = [told EXCEPT ![t] = Append(@, x)]
        /\ UNCHANGED <<disk, now, run>> /\ memo[t].freeze # Key(f)
    BY <1>3 DEF ObserveViolation, Reported
  <1>5. v.level \in Level
    BY DEF Verdict, Level, None, Info, Alert, High
  <1>6. /\ x \in Topic /\ x.what = "violation" /\ x.key = Key(f) /\ x.level = FreezeLevel(f)
    BY <1>3 DEF Violation, Topic
  <1>7. /\ memo'[t].freeze = Key(f) /\ memo'[t].verdict = v.level
        /\ memo'[t].declared = memo[t].declared /\ memo'[t] \in MemoType
        /\ memo' = [memo EXCEPT ![t] = memo'[t]]
    BY <1>1, <1>3, <1>4, <1>5, OpenFacts DEF MemoType
  <1>8. Met(Key(f), now)
    BY <1>2, <1>3, <1>4 DEF IInv, Met
  <1>9. \A i \in DOMAIN told[t] :
          /\ told[t][i].key = memo[t].freeze /\ Met(told[t][i].key, now)
               => Past(told[t][i].key, now)
          /\ Past(told[t][i].key, now) => told[t][i].key # Key(f)
    BY <1>2, <1>3, <1>4, OtherOccurrence DEF Past, IInv
  <1> HIDE DEF f, x
  <1>10. \A i \in DOMAIN told[t] : told[t][i] # x
    BY <1>2, <1>1, <1>4, <1>6, <1>9 DEF Account, Accounted
  <1>11. \A i \in DOMAIN told[t] : Accounted(told[t][i], track[t], memo[t], now, run)
                                    => Accounted(told[t][i], track[t], memo'[t], now, run)
    BY <1>7, <1>9 DEF Accounted
  <1>12. Accounted(x, [maxLevel |-> x.level], memo'[t], now, run)
    BY <1>3, <1>6, <1>7, <1>8 DEF Accounted, Info, High
  <1> QED
    BY <1>1, <1>4, <1>6, <1>7, <1>10, <1>11, <1>12, TellStep

\* The memo has the highest verdict of this run in the window.
LEMMA EscalationStep ==
    ASSUME IInv, NEW t \in Track, NEW v \in Verdict, ObserveEscalation(t, v)
    PROVE  Stepped(t)
  <1> DEFINE f == Calendar[now]
             x == Escalation(f, v.level, run)
  <1>1. track[t].phase = "open" /\ FreezeFor(now, v) # NoFreeze
    BY DEF ObserveEscalation, InFreeze
  <1>2. /\ now \in 1..MaxTime /\ Account(track[t], memo[t], told[t], now, run)
        /\ run \in 0..MaxRuns /\ memo[t] \in MemoType /\ memo \in [Track -> MemoType]
    BY <1>1, OpenFacts
  <1>3. /\ FreezeFor(now, v) = f /\ f # NoFreeze /\ f \in Freeze /\ Key(f) # NoKey
    BY <1>1, <1>2, FreezeFacts
  <1>4. /\ memo' = [memo EXCEPT ![t].verdict = v.level]
        /\ Emit(t, v.level) /\ told' = [told EXCEPT ![t] = Append(@, x)]
        /\ UNCHANGED <<disk, now, run>> /\ memo[t].freeze = Key(f)
        /\ v.level >= Alert /\ v.level > memo[t].verdict
    BY <1>3 DEF ObserveEscalation, Reported, Escalates
  <1>5. v.level \in Level /\ v.level \in Alert..High
    BY <1>4 DEF Verdict, Level, None, Info, Alert, High
  <1>6. /\ x \in Topic /\ x.what = "escalation" /\ x.key = Key(f)
        /\ x.level = v.level /\ x.run = run
    BY <1>2, <1>3, <1>5 DEF Escalation, Topic
  <1>7. /\ memo'[t].freeze = memo[t].freeze /\ memo'[t].verdict = v.level
        /\ memo'[t].declared = memo[t].declared /\ memo'[t] \in MemoType
        /\ memo' = [memo EXCEPT ![t] = memo'[t]]
    BY <1>2, <1>4, <1>5 DEF MemoType
  <1>8. Met(Key(f), now) /\ ~Past(Key(f), now)
    <2>1. now <= now /\ now >= now
      BY <1>2
    <2> QED
      BY <1>2, <1>3, <2>1 DEF Met, Past
  <1>9. memo[t].verdict \in Level
    BY <1>2 DEF MemoType
  <1> HIDE DEF f, x
  <1>10. \A i \in DOMAIN told[t] : told[t][i] # x
    BY <1>1, <1>2, <1>4, <1>5, <1>6, <1>8, <1>9 DEF Account, Accounted, Level
  <1>11. \A i \in DOMAIN told[t] : Accounted(told[t][i], track[t], memo[t], now, run)
                                    => Accounted(told[t][i], track[t], memo'[t], now, run)
    <2> SUFFICES ASSUME NEW i \in DOMAIN told[t],
                        Accounted(told[t][i], track[t], memo[t], now, run)
                 PROVE  Accounted(told[t][i], track[t], memo'[t], now, run)
      OBVIOUS
    <2>1. told[t][i].level \in Info..High
      BY <1>1, <1>2, TopicShape DEF Account
    <2> QED
      BY <1>4, <1>5, <1>7, <1>9, <2>1 DEF Accounted, Level, Info, High
  <1>12. Accounted(x, [maxLevel |-> x.level], memo'[t], now, run)
    BY <1>2, <1>4, <1>5, <1>6, <1>7, <1>8 DEF Accounted, Alert, High
  <1> QED
    BY <1>1, <1>4, <1>6, <1>7, <1>10, <1>11, <1>12, TellStep

\* A level above all the alerts so far is new.
LEMMA CrossingStep ==
    ASSUME IInv, NEW t \in Track, NEW v \in Verdict, ObserveCrossing(t, v)
    PROVE  Stepped(t)
  <1> DEFINE x == Crossing(v.level)
  <1>1. /\ track[t].phase = "open" /\ Emit(t, v.level)
        /\ told' = [told EXCEPT ![t] = Append(@, x)] /\ UNCHANGED <<memo, disk, now, run>>
        /\ v.level >= Info /\ v.level > track[t].maxLevel
    BY DEF ObserveCrossing, OutOfFreeze, Counts
  <1>2. /\ Account(track[t], memo[t], told[t], now, run) /\ track[t] \in TrackType
        /\ memo[t] \in MemoType /\ memo \in [Track -> MemoType]
    BY <1>1, OpenFacts
  <1>3. v.level \in Info..High
    BY <1>1 DEF Verdict, None, Info, Alert, High
  <1>4. /\ x \in Topic /\ x.what = "crossing" /\ x.level = v.level
    BY <1>3 DEF Crossing, Topic
  <1>5. track[t].maxLevel \in Level
    BY <1>2 DEF TrackType
  <1> HIDE DEF x
  <1>6. \A i \in DOMAIN told[t] : told[t][i] # x
    BY <1>1, <1>2, <1>3, <1>4, <1>5 DEF Account, Accounted, Level, Info, High
  <1>7. Accounted(x, [maxLevel |-> x.level], memo[t], now, run)
    BY <1>3, <1>4 DEF Accounted, Info, High
  <1> QED
    BY <1>1, <1>2, <1>4, <1>6, <1>7, TellStep

\* A declaration is told once, and the level that comes with it is new.
LEMMA DeclarationStep ==
    ASSUME IInv, NEW t \in Track, NEW v \in Verdict, ObserveDeclaration(t, v)
    PROVE  Stepped(t)
  <1> DEFINE x == Crossing(v.level)
             level == IF Counts(v) /\ v.level > Louder(track[t].maxLevel, Info) THEN v.level ELSE Info
  <1>1. /\ track[t].phase = "open" /\ v.class = "declared" /\ ~memo[t].declared
        /\ memo' = [memo EXCEPT ![t].declared = TRUE] /\ UNCHANGED <<disk, now, run>>
    BY DEF ObserveDeclaration, OutOfFreeze
  <1>2. /\ Account(track[t], memo[t], told[t], now, run) /\ track[t] \in TrackType
        /\ memo[t] \in MemoType /\ memo \in [Track -> MemoType] /\ told[t] \in Seq(Topic)
        /\ told \in [Track -> Seq(Topic \cup {Farewell})] /\ now \in Nat \ {0}
        /\ track \in [Track -> TrackType]
    BY <1>1, OpenFacts
  <1>3. /\ memo'[t].declared /\ memo'[t].freeze = memo[t].freeze
        /\ memo'[t].verdict = memo[t].verdict /\ memo'[t] \in MemoType
        /\ memo' = [memo EXCEPT ![t] = memo'[t]]
    BY <1>1, <1>2 DEF MemoType
  <1>4. /\ Declaration \in Topic /\ Declaration.what = "declaration" /\ Declaration.level = Info
    BY DEF Topic, Declaration
  <1>5. \A i \in DOMAIN told[t] : told[t][i] # Declaration
    BY <1>1, <1>2, <1>4 DEF Account, Accounted
  <1>6. \A i \in DOMAIN told[t] : Accounted(told[t][i], track[t], memo[t], now, run)
                                    => Accounted(told[t][i], track[t], memo'[t], now, run)
    BY <1>3 DEF Accounted
  <1>7. Accounted(Declaration, [maxLevel |-> Info], memo'[t], now, run)
    BY <1>3, <1>4 DEF Accounted, Info
  <1>8. v.level \in Info..High /\ track[t].maxLevel \in Level
    BY <1>1, <1>2 DEF Verdict, TrackType, None, Info, Alert, High
  <1>9. CASE ~(Counts(v) /\ v.level > Louder(track[t].maxLevel, Info))
    <2>1. Emit(t, Declaration.level) /\ told' = [told EXCEPT ![t] = Append(@, Declaration)]
      <3>1. Emit(t, Info) /\ told' = [told EXCEPT ![t] = @ \o <<Declaration>>]
        BY <1>9 DEF ObserveDeclaration
      <3>2. told[t] \o <<Declaration>> = Append(told[t], Declaration)
        BY <1>2
      <3> QED
        BY <1>4, <3>1, <3>2
    <2> QED
      BY <1>1, <1>3, <1>4, <1>5, <1>6, <1>7, <2>1, TellStep
  <1>10. CASE Counts(v) /\ v.level > Louder(track[t].maxLevel, Info)
    <2> DEFINE r == track[t]
               m == memo[t]
               s == told[t]
               r1 == [phase |-> "open", maxLevel |-> Louder(r.maxLevel, Info), lastAlert |-> now]
               r2 == track'[t]
               m2 == memo'[t]
    <2>1. Emit(t, v.level) /\ told' = [told EXCEPT ![t] = @ \o <<Declaration, x>>]
      BY <1>10 DEF ObserveDeclaration
    <2>2. /\ x \in Topic /\ x.what = "crossing" /\ x.level = v.level
      BY <1>8 DEF Crossing, Topic
    <2>3. /\ track' = [track EXCEPT ![t] = r2] /\ r2 \in TrackType
          /\ r2.phase = "open" /\ r2.lastAlert # 0 /\ r2.maxLevel = Louder(r.maxLevel, v.level)
      BY <1>1, <1>2, <1>8, <2>1, EmitType DEF Level, Info, High
    <2>4. r1.maxLevel \in Level /\ r1.maxLevel < v.level /\ Louder(r1.maxLevel, v.level) = r2.maxLevel
      BY <1>8, <1>10, <2>3 DEF Louder, Level, Info, High
    <2>5. /\ r.phase = "open" /\ Account(r, m, s, now, run) /\ r.maxLevel \in Level
          /\ s \in Seq(Topic) /\ m2.freeze = m.freeze
      BY <1>1, <1>2, <1>3, <1>8
    <2>6. \A i \in DOMAIN s : s[i] # Declaration /\ Accounted(s[i], r1, m2, now, run)
      <3> SUFFICES ASSUME NEW i \in DOMAIN s
                   PROVE  s[i] # Declaration /\ Accounted(s[i], r1, m2, now, run)
        OBVIOUS
      <3>1. s[i] \in Topic /\ Accounted(s[i], r, m2, now, run) /\ s[i] # Declaration
        BY <1>5, <1>6, <2>5 DEF Account
      <3>2. Info \in Level /\ r1.maxLevel = Louder(r.maxLevel, Info)
        BY DEF Info, Level
      <3> HIDE DEF r1
      <3> QED
        BY <2>5, <3>1, <3>2, AccountedLouder
    <2>7. Accounted(Declaration, r1, m2, now, run)
      <3>1. Info <= r1.maxLevel
        BY <1>8 DEF Louder, Level, Info
      <3> QED
        BY <1>3, <1>4, <3>1 DEF Accounted
    <2>8. Learns(r, m, s, now, run, r1, m2, Declaration)
      BY <1>2, <1>4, <2>5, <2>6, <2>7 DEF Learns
    <2>9. x.level \in Info..High /\ Declaration # x
      BY <1>4, <1>8, <2>2
    <2> HIDE DEF r, m, s, r1, r2, m2, x
    <2>10. /\ Account(r1, m2, Append(s, Declaration), now, run)
           /\ Append(s, Declaration) \in Seq(Topic)
      BY <1>4, <2>5, <2>8, ToldAccount
    <2> DEFINE z == Append(s, Declaration)
    <2> HIDE DEF z
    <2>11. z \in Seq(Topic) /\ Account(r1, m2, z, now, run) /\ r1.phase = "open"
      BY <2>10 DEF z, r1
    <2>12. \A i \in DOMAIN z : z[i] # x /\ Accounted(z[i], r2, m2, now, run)
      <3> SUFFICES ASSUME NEW i \in DOMAIN z
                   PROVE  z[i] # x /\ Accounted(z[i], r2, m2, now, run)
        OBVIOUS
      <3>1. z[i] \in Topic /\ Accounted(z[i], r1, m2, now, run)
        BY <2>11 DEF Account
      <3>2. v.level \in Level /\ r2.maxLevel = Louder(r1.maxLevel, v.level)
        BY <1>8, <2>4 DEF Level, Info, High
      <3>3. Accounted(z[i], r2, m2, now, run)
        BY <2>4, <3>1, <3>2, AccountedLouder
      <3>4. z[i].level \in Info..High /\ z[i].level <= r1.maxLevel
        BY <3>1, TopicShape DEF Accounted
      <3> QED
        BY <2>2, <2>4, <1>8, <3>3, <3>4 DEF Info, High, Level
    <2>13. Accounted(x, r2, m2, now, run)
      <3>1. v.level <= r2.maxLevel
        BY <1>8, <2>4 DEF Louder, Level, Info, High
      <3> QED
        BY <2>2, <3>1 DEF Accounted
    <2>14. Learns(r1, m2, z, now, run, r2, m2, x)
      <3>1. r2.phase = "open" /\ r2.lastAlert # 0 /\ r2.maxLevel = Louder(r1.maxLevel, x.level)
        BY <2>2, <2>3, <2>4
      <3> QED
        BY <2>4, <2>11, <2>12, <2>13, <3>1 DEF Learns
    <2>15. Account(r2, m2, Append(z, x), now, run) /\ Append(z, x) \in Seq(Topic)
      BY <2>2, <2>11, <2>14, ToldAccount
    <2>16. Append(z, x) = s \o <<Declaration, x>>
      BY <1>4, <2>2, <2>5 DEF z
    <2>17. told'[t] = Append(z, x) /\ told' = [told EXCEPT ![t] = told'[t]]
      BY <1>2, <2>1, <2>16 DEF s
    <2>18. told'[t] \in Seq(Topic \cup {Farewell})
      BY <2>15, <2>17
    <2> QED
      BY <1>1, <1>3, <2>3, <2>15, <2>17, <2>18 DEF Stepped, r2, m2
  <1> QED
    BY <1>9, <1>10

\* A reminder of a level the track already has.
LEMMA RemindStep ==
    ASSUME IInv, NEW t \in Track, NEW l \in Level, track[t].phase = "open",
           l <= track[t].maxLevel, Emit(t, l), UNCHANGED <<memo, disk, now, run, told>>
    PROVE  Stepped(t) /\ track'[t].phase = "open" /\ track'[t].lastAlert = now
  <1>1. /\ Account(track[t], memo[t], told[t], now, run) /\ track[t] \in TrackType
        /\ memo[t] \in MemoType /\ memo \in [Track -> MemoType] /\ now \in Nat \ {0}
        /\ told \in [Track -> Seq(Topic \cup {Farewell})] /\ track \in [Track -> TrackType]
    BY OpenFacts
  <1>2. /\ track' = [track EXCEPT ![t] = track'[t]] /\ track'[t] \in TrackType
        /\ track'[t].phase = "open" /\ track'[t].maxLevel = track[t].maxLevel
        /\ track'[t].lastAlert = now /\ track'[t].lastAlert # 0
    BY <1>1, EmitType DEF TrackType, Louder, Level
  <1>3. Account(track'[t], memo[t], told[t], now, run)
    BY <1>1, <1>2 DEF Account, Accounted
  <1> QED
    BY <1>1, <1>2, <1>3 DEF Stepped

\* Nothing was said.
LEMMA SilentStep ==
    ASSUME IInv, NEW t \in Track, track[t].phase = "open",
           UNCHANGED <<track, memo, disk, now, run, told>>
    PROVE  Stepped(t)
  BY OpenFacts DEF Stepped

\* The reminder of a window has the level its violation had.
LEMMA FrozenStep ==
    ASSUME IInv, NEW t \in Track, NEW v \in Verdict, ObserveFrozen(t, v)
    PROVE  /\ Stepped(t)
           /\ \/ UNCHANGED <<track, told>>
              \/ /\ Due(t) /\ UNCHANGED told /\ told[t] # <<>>
                 /\ track'[t].phase = "open" /\ track'[t].lastAlert = now
  <1> DEFINE f == Calendar[now]
  <1>1. track[t].phase = "open" /\ FreezeFor(now, v) # NoFreeze
    BY DEF ObserveFrozen, InFreeze
  <1>2. /\ Account(track[t], memo[t], told[t], now, run) /\ now \in 1..MaxTime
        /\ track[t] \in TrackType
    BY <1>1, OpenFacts
  <1>3. /\ FreezeFor(now, v) = f /\ f # NoFreeze /\ Key(f) # NoKey
        /\ FreezeLevel(f) \in Info..High
    BY <1>1, <1>2, FreezeFacts
  <1>4. /\ memo[t].freeze = Key(f) /\ UNCHANGED <<memo, disk, now, run, told>>
        /\ \/ Due(t) /\ Emit(t, FreezeLevel(f))
           \/ UNCHANGED track
    BY <1>3 DEF ObserveFrozen, Reported
  <1>5. PICK i \in DOMAIN told[t] : told[t][i].what = "violation" /\ told[t][i].key = Key(f)
    BY <1>1, <1>2, <1>3, <1>4 DEF Account
  <1>6. told[t][i] \in Topic /\ told[t][i].level <= track[t].maxLevel
    BY <1>1, <1>2 DEF Account, Accounted
  <1>7. PICK g \in Freeze : told[t][i] = Violation(g)
    BY <1>5, <1>6, TopicShape
  <1>8. PICK n \in 1..MaxTime : g = Calendar[n] /\ g # NoFreeze
    BY DEF Freeze
  <1>9. Key(g) = Key(f) /\ told[t][i].level = FreezeLevel(g)
    BY <1>5, <1>7 DEF Violation
  <1>10. FreezeLevel(f) = FreezeLevel(g)
    BY <1>2, <1>3, <1>8, <1>9, OneLevel
  <1>11. FreezeLevel(f) <= track[t].maxLevel /\ FreezeLevel(f) \in Level
    BY <1>3, <1>6, <1>9, <1>10 DEF Level, Info, High
  <1>12. told[t] # <<>>
    BY <1>5
  <1> HIDE DEF f
  <1>13. CASE UNCHANGED track
    BY <1>1, <1>4, <1>13, SilentStep
  <1>14. CASE Due(t) /\ Emit(t, FreezeLevel(f))
    BY <1>1, <1>4, <1>11, <1>12, <1>14, RemindStep
  <1> QED
    BY <1>4, <1>13, <1>14

\* A level to remind of was told of before.
LEMMA KnownStep ==
    ASSUME IInv, NEW t \in Track, NEW v \in Verdict, ObserveKnown(t, v)
    PROVE  /\ Stepped(t)
           /\ \/ UNCHANGED <<track, told>>
              \/ /\ Due(t) /\ UNCHANGED told /\ told[t] # <<>>
                 /\ track'[t].phase = "open" /\ track'[t].lastAlert = now
  <1>1. /\ track[t].phase = "open" /\ UNCHANGED <<memo, disk, now, run, told>>
        /\ \/ UNCHANGED track
           \/ /\ Counts(v) /\ v.level >= Alert /\ Due(t) /\ Emit(t, v.level)
              /\ ~(v.level > track[t].maxLevel)
    BY DEF ObserveKnown, OutOfFreeze
  <1>2. /\ Account(track[t], memo[t], told[t], now, run) /\ track[t] \in TrackType
    BY <1>1, OpenFacts
  <1>3. CASE UNCHANGED track
    BY <1>1, <1>3, SilentStep
  <1>4. CASE /\ v.level >= Alert /\ Due(t) /\ Emit(t, v.level) /\ ~(v.level > track[t].maxLevel)
    <2>1. v.level \in Level /\ v.level <= track[t].maxLevel /\ track[t].maxLevel >= Alert
      BY <1>2, <1>4 DEF Verdict, TrackType, Level, None, Info, Alert, High
    <2>2. \E i \in DOMAIN told[t] : Loud(told[t][i])
      BY <1>1, <1>2, <2>1 DEF Account
    <2>3. told[t] # <<>>
      BY <2>2
    <2> QED
      BY <1>1, <1>4, <2>1, <2>3, RemindStep
  <1> QED
    BY <1>1, <1>3, <1>4

-----------------------------------------------------------------------------
(***************************************************************************)
(* The other steps, and the invariant.                                     *)
(***************************************************************************)
\* Nothing was told of a new track.
LEMMA OpenStep ==
    ASSUME IInv, NEW t \in Track, Open(t)
    PROVE  Stepped(t) /\ told[t] = <<>> /\ track'[t].phase = "open"
                      /\ track'[t].lastAlert = track[t].lastAlert
  <1>1. /\ track[t].phase = "new" /\ track' = [track EXCEPT ![t].phase = "open"]
        /\ UNCHANGED <<memo, disk, now, run, told>>
    BY DEF Open
  <1>2. /\ Account(track[t], memo[t], told[t], now, run) /\ track \in [Track -> TrackType]
        /\ memo[t] \in MemoType /\ memo \in [Track -> MemoType]
        /\ told \in [Track -> Seq(Topic \cup {Farewell})]
    BY DEF IInv, Accounts
  <1>3. /\ track' = [track EXCEPT ![t] = track'[t]] /\ track'[t] \in TrackType
        /\ track'[t].phase = "open" /\ track'[t].maxLevel = track[t].maxLevel
        /\ track'[t].lastAlert = track[t].lastAlert
    BY <1>1, <1>2 DEF TrackType
  <1>4. told[t] = <<>> /\ track[t].maxLevel = None /\ memo[t] = NoMemo
    BY <1>1, <1>2 DEF Account
  <1>5. Account(track'[t], memo'[t], told'[t], now, run)
    BY <1>1, <1>3, <1>4 DEF Account, NoMemo, None, Alert
  <1> QED
    BY <1>1, <1>2, <1>3, <1>4, <1>5 DEF Stepped

\* A track that is gone is told of no more.
LEMMA LeaveStep ==
    ASSUME IInv, NEW t \in Track, Ended(t) \/ Forget(t)
    PROVE  /\ Stepped(t) /\ track'[t].phase = "gone" /\ track'[t].lastAlert = track[t].lastAlert
           /\ track[t].phase = "open"
  <1>1. /\ track[t].phase = "open" /\ track' = [track EXCEPT ![t].phase = "gone"]
        /\ memo' = [memo EXCEPT ![t] = NoMemo] /\ UNCHANGED <<disk, now, run>>
        /\ UNCHANGED told \/ told' = [told EXCEPT ![t] = Append(@, Farewell)]
    BY DEF Ended, Forget, Leave
  <1>2. /\ track \in [Track -> TrackType] /\ memo \in [Track -> MemoType]
        /\ told \in [Track -> Seq(Topic \cup {Farewell})]
    BY DEF IInv, Accounts
  <1>3. /\ track' = [track EXCEPT ![t] = track'[t]] /\ track'[t] \in TrackType
        /\ track'[t].phase = "gone" /\ track'[t].lastAlert = track[t].lastAlert
    BY <1>1, <1>2 DEF TrackType
  <1>4. memo' = [memo EXCEPT ![t] = memo'[t]] /\ memo'[t] \in MemoType
    BY <1>1, <1>2 DEF MemoType, NoMemo, None, Level
  <1>5. told' = [told EXCEPT ![t] = told'[t]] /\ told'[t] \in Seq(Topic \cup {Farewell})
    <2>1. CASE UNCHANGED told
      BY <1>2, <2>1
    <2>2. CASE told' = [told EXCEPT ![t] = Append(@, Farewell)]
      <3>1. told[t] \in Seq(Topic \cup {Farewell}) /\ Farewell \in Topic \cup {Farewell}
        BY <1>2
      <3>2. Append(told[t], Farewell) \in Seq(Topic \cup {Farewell})
        BY <3>1
      <3>3. told'[t] = Append(told[t], Farewell)
        BY <1>2, <2>2
      <3> QED
        BY <2>2, <3>2, <3>3
    <2> QED
      BY <1>1, <2>1, <2>2
  <1>6. Account(track'[t], memo'[t], told'[t], now, run)
    BY <1>3 DEF Account
  <1> QED
    BY <1>1, <1>3, <1>4, <1>5, <1>6 DEF Stepped

\* The bounds of time and runs.
LEMMA Bounds ==
    /\ Interval \in Nat \ {0} /\ MaxTime \in Nat \ {0} /\ MaxRuns \in Nat
    /\ IInv => now \in 1..MaxTime /\ now \in Nat /\ run \in 0..MaxRuns /\ run \in Nat
  <1>1. Interval \in Nat \ {0} /\ MaxTime \in Nat \ {0} /\ MaxRuns \in Nat
    BY PolicyAssumption
  <1>2. IInv => now \in 1..MaxTime /\ run \in 0..MaxRuns
    BY DEF IInv
  <1> QED
    BY <1>1, <1>2

\* The account of a run is one of the next runs too.
LEMMA LaterRun ==
    ASSUME NEW r, NEW m, NEW s \in Seq(Topic \cup {Farewell}), NEW n, NEW q \in Nat,
           Account(r, m, s, n, q)
    PROVE  Account(r, m, s, n, q + 1)
  <1>1. ASSUME r.phase = "open", NEW i \in DOMAIN s
        PROVE  Accounted(s[i], r, m, n, q + 1)
    <2>1. s[i] \in Topic /\ Accounted(s[i], r, m, n, q)
      BY <1>1 DEF Account
    <2>2. s[i].run \in Nat
      BY <2>1, TopicShape
    <2> QED
      BY <2>1, <2>2 DEF Accounted
  <1> QED
    BY <1>1 DEF Account

\* What a save leaves out is of its run only.
LEMMA SavedAccount ==
    ASSUME NEW r, NEW m, NEW m2, NEW s \in Seq(Topic \cup {Farewell}), NEW n, NEW q \in Nat,
           Account(r, m, s, n, q), m2.declared = m.declared, m2.freeze = m.freeze,
           m = NoMemo => m2 = NoMemo
    PROVE  Account(r, m2, s, n, q + 1)
  <1>1. ASSUME r.phase = "open", NEW i \in DOMAIN s
        PROVE  Accounted(s[i], r, m2, n, q + 1)
    <2>1. s[i] \in Topic /\ Accounted(s[i], r, m, n, q)
      BY <1>1 DEF Account
    <2>2. s[i].run \in Nat
      BY <2>1, TopicShape
    <2> QED
      BY <2>1, <2>2 DEF Accounted
  <1> QED
    BY <1>1 DEF Account

\* What is past stays past.
LEMMA LaterTime ==
    ASSUME NEW r, NEW m, NEW s, NEW n \in Nat, NEW q, Account(r, m, s, n, q)
    PROVE  Account(r, m, s, n + 1, q)
  <1>1. \A k : (Past(k, n) => Past(k, n + 1)) /\ (Met(k, n) => Met(k, n + 1))
    BY DEF Past, Met
  <1>2. \A x : Accounted(x, r, m, n, q) => Accounted(x, r, m, n + 1, q)
    BY <1>1 DEF Accounted
  <1> QED
    BY <1>2 DEF Account

\* A save keeps an account that is good in the next run.
LEMMA SaveStep ==
    ASSUME IInv, Save
    PROVE  IInv'
  <1> DEFINE m2 == Restore(Dedupe(memo))
  <1>1. /\ disk' = [track |-> track, dedupe |-> Dedupe(memo), told |-> told, heard |-> heard]
        /\ UNCHANGED <<track, memo, now, run, told>>
    BY DEF Save
  <1>2. /\ Accounts(track, memo, told, now, run) /\ now \in 1..MaxTime /\ run \in 0..MaxRuns
        /\ run \in Nat /\ memo \in [Track -> MemoType] /\ track \in [Track -> TrackType]
        /\ told \in [Track -> Seq(Topic \cup {Farewell})]
    BY Bounds DEF IInv, Accounts
  <1>3. /\ Dedupe(memo) \in [Track -> [declared : BOOLEAN, freeze : {NoKey} \cup {Key(f) : f \in Freeze}]]
        /\ m2 \in [Track -> MemoType]
    <2> DEFINE keys == {NoKey} \cup {Key(f) : f \in Freeze}
    <2> HIDE DEF keys
    <2>1. MemoType = [declared : BOOLEAN, freeze : keys, verdict : Level]
      BY DEF MemoType, keys
    <2>2. Dedupe(memo) \in [Track -> [declared : BOOLEAN, freeze : keys]]
      BY <1>2, <2>1 DEF Dedupe
    <2>3. m2 \in [Track -> MemoType]
      BY <2>1, <2>2 DEF Restore, None, Level
    <2> QED
      BY <2>2, <2>3 DEF keys
  <1>4. ASSUME NEW t \in Track PROVE Account(track[t], m2[t], told[t], now, run + 1)
    <2>1. m2[t] = [declared |-> memo[t].declared, freeze |-> memo[t].freeze, verdict |-> None]
      BY DEF Restore, Dedupe
    <2>2. m2[t].declared = memo[t].declared /\ m2[t].freeze = memo[t].freeze
      BY <2>1
    <2>3. memo[t] = NoMemo => m2[t] = NoMemo
      BY <2>1 DEF NoMemo
    <2>4. Account(track[t], memo[t], told[t], now, run) /\ told[t] \in Seq(Topic \cup {Farewell})
      BY <1>2 DEF Accounts
    <2> HIDE DEF m2
    <2> QED
      BY <1>2, <2>2, <2>3, <2>4, SavedAccount
  <1>5. Accounts(track, m2, told, now, run + 1)
    BY <1>2, <1>3, <1>4 DEF Accounts
  <1>6. disk'.track = track /\ disk'.dedupe = Dedupe(memo) /\ disk'.told = told
    BY <1>1
  <1> QED
    BY <1>1, <1>2, <1>3, <1>5, <1>6 DEF IInv

\* A restart goes on with the account of the last save.
LEMMA RestartStep ==
    ASSUME IInv, Restart
    PROVE  IInv'
  <1> DEFINE m2 == Restore(disk.dedupe)
  <1>1. /\ track' = disk.track /\ memo' = m2 /\ told' = disk.told
        /\ run' = run + 1 /\ run < MaxRuns /\ UNCHANGED <<disk, now>>
    BY DEF Restart
  <1>2. /\ Accounts(disk.track, m2, disk.told, now, run + 1) /\ now \in 1..MaxTime
        /\ run \in 0..MaxRuns /\ run + 1 \in 0..MaxRuns /\ run + 1 \in Nat
    <2>1. Accounts(disk.track, m2, disk.told, now, run + 1)
      BY DEF IInv
    <2> QED
      BY <1>1, <2>1, Bounds
  <1>3. Accounts(disk.track, m2, disk.told, now, run + 1 + 1)
    <2>1. \A t \in Track : /\ Account(disk.track[t], m2[t], disk.told[t], now, run + 1)
                           /\ disk.told[t] \in Seq(Topic \cup {Farewell})
      BY <1>2 DEF Accounts
    <2> HIDE DEF m2
    <2>2. \A t \in Track : Account(disk.track[t], m2[t], disk.told[t], now, run + 1 + 1)
      BY <1>2, <2>1, LaterRun
    <2> QED
      BY <1>2, <2>2 DEF Accounts
  <1> QED
    BY <1>1, <1>2, <1>3 DEF IInv

\* Time makes nothing told new again.
LEMMA TickStep ==
    ASSUME IInv, Tick
    PROVE  IInv'
  <1> DEFINE m2 == Restore(disk.dedupe)
  <1>1. now < MaxTime /\ now' = now + 1 /\ UNCHANGED <<track, memo, disk, run, told>>
    BY DEF Tick
  <1>2. now \in Nat /\ now' \in 1..MaxTime
    BY <1>1, Bounds
  <1>3. Accounts(track, memo, told, now + 1, run)
    BY <1>2, LaterTime DEF IInv, Accounts
  <1>4. Accounts(disk.track, m2, disk.told, now + 1, run + 1)
    <2>1. Accounts(disk.track, m2, disk.told, now, run + 1)
      BY DEF IInv
    <2> HIDE DEF m2
    <2> QED
      BY <1>2, <2>1, LaterTime DEF Accounts
  <1> QED
    BY <1>1, <1>2, <1>3, <1>4 DEF IInv

\* Nothing was told yet.
LEMMA InitIInv ==
    ASSUME Init
    PROVE  IInv
  <1>1. /\ track = [t \in Track |-> NewTrack] /\ memo = [t \in Track |-> NoMemo]
        /\ told = [t \in Track |-> <<>>] /\ now = 1 /\ run = 0
        /\ disk.track = track /\ disk.told = told
        /\ disk.dedupe = [t \in Track |-> [declared |-> FALSE, freeze |-> NoKey]]
    BY DEF Init
  <1>2. Restore(disk.dedupe) = memo
    BY <1>1 DEF Restore, NoMemo
  <1>3. /\ track \in [Track -> TrackType] /\ memo \in [Track -> MemoType]
        /\ told \in [Track -> Seq(Topic \cup {Farewell})]
    BY <1>1 DEF NewTrack, NoMemo, TrackType, MemoType, Level, None
  <1>4. \A q : Accounts(track, memo, told, now, q)
    BY <1>1, <1>3 DEF Accounts, Account, NewTrack
  <1>5. now \in 1..MaxTime /\ run \in 0..MaxRuns
    BY <1>1, Bounds
  <1>6. disk.dedupe \in [Track -> [declared : BOOLEAN, freeze : {NoKey} \cup {Key(f) : f \in Freeze}]]
    BY <1>1
  <1>7. Accounts(disk.track, Restore(disk.dedupe), disk.told, now, run + 1)
    BY <1>1, <1>2, <1>4
  <1> QED
    BY <1>4, <1>5, <1>6, <1>7 DEF IInv

\* Every step keeps the accounts.
LEMMA NextIInv ==
    ASSUME IInv, Steady, [Next]_vars
    PROVE  IInv'
  <1>1. CASE UNCHANGED vars
    BY <1>1 DEF vars, IInv
  <1>2. ASSUME NEW t \in Track, Open(t) PROVE IInv'
    BY <1>2, OpenStep, SteppedIInv
  <1>3. ASSUME NEW t \in Track, Ended(t) \/ Forget(t) PROVE IInv'
    BY <1>3, LeaveStep, SteppedIInv
  <1>4. ASSUME NEW t \in Track, NEW v \in Verdict, Observe(t, v) PROVE IInv'
    <2>1. CASE ObserveViolation(t, v)
      BY <2>1, ViolationStep, SteppedIInv
    <2>2. CASE ObserveEscalation(t, v)
      BY <2>2, EscalationStep, SteppedIInv
    <2>3. CASE ObserveFrozen(t, v)
      BY <2>3, FrozenStep, SteppedIInv
    <2>4. CASE ObserveDeclaration(t, v)
      BY <2>4, DeclarationStep, SteppedIInv
    <2>5. CASE ObserveCrossing(t, v)
      BY <2>5, CrossingStep, SteppedIInv
    <2>6. CASE ObserveKnown(t, v)
      BY <2>6, KnownStep, SteppedIInv
    <2> QED
      BY <1>4, <2>1, <2>2, <2>3, <2>4, <2>5, <2>6 DEF Observe
  <1> QED
    BY <1>1, <1>2, <1>3, <1>4, SaveStep, RestartStep, TickStep DEF Next

-----------------------------------------------------------------------------
(***************************************************************************)
(* The steps of Reporting.                                                 *)
(***************************************************************************)
phases == [t \in Track |-> track[t].phase]
lasts == [t \in Track |-> track[t].lastAlert]

\* One track's phase and time of the last alert.
LEMMA OneTrack ==
    ASSUME NEW t \in Track, track \in [Track -> TrackType], Stepped(t)
    PROVE  /\ phases' = [phases EXCEPT ![t] = track'[t].phase]
           /\ lasts' = [lasts EXCEPT ![t] = track'[t].lastAlert]
           /\ phases[t] = track[t].phase /\ lasts[t] = track[t].lastAlert
           /\ phases \in [Track -> {"new", "open", "gone"}] /\ lasts \in [Track -> Nat]
  <1>1. track' = [track EXCEPT ![t] = track'[t]]
    BY DEF Stepped
  <1> QED
    BY <1>1 DEF phases, lasts, TrackType

\* Topics added to what was told, none of them twice, are a Tell.
LEMMA TellPromised ==
    ASSUME IInv, NEW t \in Track, track[t].phase = "open", Stepped(t),
           track'[t].phase = "open", track'[t].lastAlert = now, NEW z,
           told'[t] = told[t] \o z, z \in Seq(Topic), z # <<>>
    PROVE  Promise!Tell(t)
  <1> DEFINE s == told[t]
             s2 == told'[t]
  <1>1. /\ s \in Seq(Topic) /\ track \in [Track -> TrackType]
        /\ told \in [Track -> Seq(Topic \cup {Farewell})]
    BY OpenFacts
  <1>2. s2 = s \o z /\ s2 \in Seq(Topic)
    BY <1>1
  <1>3. Len(s2) > Len(s) /\ \A i \in DOMAIN s : s2[i] = s[i]
    BY <1>1, <1>2
  <1>4. \A i, j \in DOMAIN s2 : s2[i] = s2[j] => i = j
    BY DEF Stepped, Account
  <1>5. /\ phases' = [phases EXCEPT ![t] = "open"] /\ phases[t] = "open"
        /\ lasts' = [lasts EXCEPT ![t] = now] /\ phases \in [Track -> {"new", "open", "gone"}]
    BY <1>1, OneTrack
  <1>6. phases' = phases
    BY <1>5
  <1>7. told' = [told EXCEPT ![t] = s2] /\ UNCHANGED <<disk, now>>
    BY DEF Stepped
  <1> QED
    BY <1>1, <1>2, <1>3, <1>4, <1>5, <1>6, <1>7
    DEF Promise!Tell, phases, lasts, Promise!Range, Promise!IsInjective

\* A reminder that was due is a Remind.
LEMMA RemindPromised ==
    ASSUME IInv, NEW t \in Track, track[t].phase = "open", Stepped(t), Due(t), UNCHANGED told,
           told[t] # <<>>, track'[t].phase = "open", track'[t].lastAlert = now
    PROVE  Promise!Remind(t)
  <1>1. Account(track[t], memo[t], told[t], now, run) /\ track \in [Track -> TrackType]
    BY OpenFacts
  <1>2. now - track[t].lastAlert >= Interval
    BY <1>1 DEF Account, Due
  <1>3. /\ phases' = [phases EXCEPT ![t] = "open"] /\ phases[t] = "open"
        /\ lasts' = [lasts EXCEPT ![t] = now] /\ lasts[t] = track[t].lastAlert
        /\ phases \in [Track -> {"new", "open", "gone"}]
    BY <1>1, OneTrack
  <1>4. phases' = phases
    BY <1>3
  <1> QED
    BY <1>2, <1>3, <1>4 DEF Promise!Remind, Stepped, phases, lasts

\* A step without an alert.
LEMMA SilentPromised ==
    ASSUME NEW t \in Track, Stepped(t), UNCHANGED <<track, told>>
    PROVE  UNCHANGED Promise!vars
  BY DEF Promise!vars, Stepped

\* agent_ended is the farewell of tracks told of loudly.
LEMMA LeavePromised ==
    ASSUME IInv, NEW t \in Track, Ended(t) \/ Forget(t)
    PROVE  Promise!Conclude(t) \/ Promise!Merge(t)
  <1>1. /\ Stepped(t) /\ track'[t].phase = "gone" /\ track'[t].lastAlert = track[t].lastAlert
        /\ track[t].phase = "open"
    BY LeaveStep
  <1>2. /\ Account(track[t], memo[t], told[t], now, run) /\ track \in [Track -> TrackType]
        /\ track[t] \in TrackType
    BY <1>1, OpenFacts
  <1>3. /\ phases' = [phases EXCEPT ![t] = "gone"] /\ phases[t] = "open"
        /\ lasts' = [lasts EXCEPT ![t] = track[t].lastAlert] /\ lasts[t] = track[t].lastAlert
        /\ lasts \in [Track -> Nat]
    BY <1>1, <1>2, OneTrack
  <1>4. lasts' = lasts
    BY <1>3
  <1>5. track[t].maxLevel >= Alert <=> \E i \in DOMAIN told[t] : Loud(told[t][i])
    <2>1. ASSUME NEW i \in DOMAIN told[t], Loud(told[t][i])
          PROVE  track[t].maxLevel >= Alert
      <3>1. told[t][i] \in Topic /\ told[t][i].level <= track[t].maxLevel
        BY <1>1, <1>2 DEF Account, Accounted
      <3>2. told[t][i].level \in Info..High /\ track[t].maxLevel \in Level
        BY <1>2, <3>1, TopicShape DEF TrackType
      <3> QED
        BY <2>1, <3>1, <3>2 DEF Loud, Level, Alert, Info, High
    <2> QED
      BY <1>1, <1>2, <2>1 DEF Account
  <1>6. UNCHANGED <<disk, now>>
    BY <1>1 DEF Stepped
  <1>7. CASE Forget(t)
    BY <1>3, <1>4, <1>6, <1>7 DEF Promise!Merge, Forget, phases, lasts
  <1>8. CASE Ended(t)
    <2>1. \/ track[t].maxLevel >= Alert /\ told' = [told EXCEPT ![t] = Append(@, Farewell)]
          \/ track[t].maxLevel < Alert /\ UNCHANGED told
      BY <1>8 DEF Ended
    <2>2. track[t].maxLevel < Alert => ~(track[t].maxLevel >= Alert)
      BY <1>2 DEF TrackType, Level, Alert
    <2> QED
      BY <1>3, <1>4, <1>5, <1>6, <2>1, <2>2 DEF Promise!Conclude, Promise!ToldLoudly, phases, lasts
  <1> QED
    BY <1>7, <1>8

\* Every branch of Observe that says something new tells it once.
LEMMA ObservePromised ==
    ASSUME IInv, Steady, NEW t \in Track, NEW v \in Verdict, Observe(t, v)
    PROVE  Promise!Tell(t) \/ Promise!Remind(t) \/ UNCHANGED Promise!vars
  <1>1. /\ track[t].phase = "open" /\ Stepped(t) /\ track \in [Track -> TrackType]
        /\ now \in Nat \ {0} /\ told[t] \in Seq(Topic) /\ now \in 1..MaxTime /\ run \in 0..MaxRuns
        /\ told \in [Track -> Seq(Topic \cup {Farewell})]
    <2>1. track[t].phase = "open"
      BY DEF Observe, ObserveViolation, ObserveEscalation, ObserveFrozen, InFreeze,
             ObserveDeclaration, ObserveCrossing, ObserveKnown, OutOfFreeze
    <2>2. Stepped(t)
      BY ViolationStep, EscalationStep, FrozenStep, DeclarationStep, CrossingStep, KnownStep
      DEF Observe
    <2> QED
      BY <2>1, <2>2, OpenFacts
  <1>2. \A z : /\ z \in Seq(Topic) /\ z # <<>> /\ told'[t] = told[t] \o z
               /\ track'[t].phase = "open" /\ track'[t].lastAlert = now
               => Promise!Tell(t)
    BY <1>1, TellPromised
  <1>3. ASSUME NEW x \in Topic, NEW l \in Level, Emit(t, l), told' = [told EXCEPT ![t] = Append(@, x)]
        PROVE  Promise!Tell(t)
    <2>1. track'[t].phase = "open" /\ track'[t].lastAlert = now
      BY <1>1, <1>3, EmitType
    <2>2. told'[t] = told[t] \o <<x>>
      BY <1>1, <1>3
    <2>3. <<x>> \in Seq(Topic) /\ <<x>> # <<>>
      OBVIOUS
    <2> QED
      BY <1>2, <2>1, <2>2, <2>3
  <1>4. CASE ObserveViolation(t, v)
    <2>1. /\ FreezeFor(now, v) = Calendar[now] /\ Calendar[now] \in Freeze
          /\ FreezeLevel(Calendar[now]) \in Level
      BY <1>1, <1>4, FreezeFacts DEF ObserveViolation, InFreeze, Level, Info, High
    <2>2. Violation(Calendar[now]) \in Topic
      BY <2>1 DEF Topic
    <2> QED
      BY <1>3, <1>4, <2>1, <2>2 DEF ObserveViolation
  <1>5. CASE ObserveEscalation(t, v)
    <2>1. FreezeFor(now, v) = Calendar[now] /\ Calendar[now] \in Freeze
      BY <1>1, <1>5, FreezeFacts DEF ObserveEscalation, InFreeze
    <2>2. v.level \in Level /\ v.level \in Alert..High
      BY <1>5 DEF ObserveEscalation, Escalates, Verdict, Level, None, Info, Alert, High
    <2>3. Escalation(Calendar[now], v.level, run) \in Topic
      BY <1>1, <2>1, <2>2 DEF Topic
    <2> QED
      BY <1>3, <1>5, <2>1, <2>2, <2>3 DEF ObserveEscalation
  <1>6. CASE ObserveCrossing(t, v)
    <2>1. v.level \in Level /\ v.level \in Info..High
      BY <1>6 DEF ObserveCrossing, Counts, Verdict, Level, None, Info, Alert, High
    <2>2. Crossing(v.level) \in Topic
      BY <2>1 DEF Topic
    <2> QED
      BY <1>3, <1>6, <2>1, <2>2 DEF ObserveCrossing
  <1>7. CASE ObserveDeclaration(t, v)
    <2>1. v.level \in Level /\ v.level \in Info..High /\ Info \in Level
      BY <1>7 DEF ObserveDeclaration, Verdict, Level, None, Info, Alert, High
    <2>2. Declaration \in Topic /\ Crossing(v.level) \in Topic
      BY <2>1 DEF Topic
    <2>3. \/ Emit(t, v.level) /\ told' = [told EXCEPT ![t] = @ \o <<Declaration, Crossing(v.level)>>]
          \/ Emit(t, Info) /\ told' = [told EXCEPT ![t] = @ \o <<Declaration>>]
      BY <1>7 DEF ObserveDeclaration
    <2>4. ASSUME NEW l \in Level, NEW z, z \in Seq(Topic), z # <<>>,
                 Emit(t, l), told' = [told EXCEPT ![t] = @ \o z]
          PROVE  Promise!Tell(t)
      <3>1. track'[t].phase = "open" /\ track'[t].lastAlert = now
        BY <1>1, <2>4, EmitType
      <3>2. told'[t] = told[t] \o z
        BY <1>1, <2>4
      <3> QED
        BY <1>2, <2>4, <3>1, <3>2
    <2>5. /\ <<Declaration>> \in Seq(Topic) /\ <<Declaration>> # <<>>
          /\ <<Declaration, Crossing(v.level)>> \in Seq(Topic)
          /\ <<Declaration, Crossing(v.level)>> # <<>>
      BY <2>2
    <2> QED
      BY <2>1, <2>3, <2>4, <2>5, Zenon
  <1>8. CASE ObserveFrozen(t, v)
    BY <1>1, <1>8, FrozenStep, RemindPromised, SilentPromised
  <1>9. CASE ObserveKnown(t, v)
    BY <1>1, <1>9, KnownStep, RemindPromised, SilentPromised
  <1> QED
    BY <1>4, <1>5, <1>6, <1>7, <1>8, <1>9 DEF Observe

-----------------------------------------------------------------------------
\* For every list of steady windows, the alert policy keeps the promise of
\* Reporting: Dispatcher.Observe, Ended and Restore tell each crossing,
\* declaration and violation once, remind no sooner than RealertInterval, and
\* say agent_ended exactly for what was told at alert or above.
THEOREM PolicyKeepsPromise ==
    ASSUME Steady
    PROVE  Spec => PromiseKept
  <1>1. Init => IInv /\ Promise!Init
    <2>1. Init => Promise!Init
      BY DEF Init, Promise!Init, Promise!State, NewTrack
    <2> QED
      BY <2>1, InitIInv
  <1>2. IInv /\ [Next]_vars => IInv'
    BY NextIInv
  <1>3. IInv /\ [Next]_vars => [Promise!Next]_Promise!vars
    <2> SUFFICES ASSUME IInv, [Next]_vars
                 PROVE  Promise!Next \/ UNCHANGED Promise!vars
      OBVIOUS
    <2>1. ASSUME NEW t \in Track, Open(t) PROVE Promise!Open(t)
      <3>1. /\ Stepped(t) /\ track'[t].phase = "open" /\ track'[t].lastAlert = track[t].lastAlert
            /\ track[t].phase = "new" /\ UNCHANGED told /\ track \in [Track -> TrackType]
        BY <2>1, OpenStep DEF Open, IInv, Accounts
      <3>2. /\ phases' = [phases EXCEPT ![t] = "open"] /\ phases[t] = "new"
            /\ lasts' = [lasts EXCEPT ![t] = track[t].lastAlert] /\ lasts[t] = track[t].lastAlert
            /\ lasts \in [Track -> Nat]
        BY <3>1, OneTrack
      <3>3. lasts' = lasts
        BY <3>2
      <3> QED
        BY <3>1, <3>2, <3>3 DEF Promise!Open, Stepped, phases, lasts
    <2>2. CASE Save
      BY <2>2 DEF Save, Promise!Save, Promise!State, Promise!Next
    <2>3. CASE Restart
      BY <2>3 DEF Restart, Promise!Restart, Promise!Next
    <2>4. CASE Tick
      BY <2>4 DEF Tick, Promise!Tick, Promise!Next
    <2>5. CASE UNCHANGED vars
      BY <2>5 DEF vars, Promise!vars
    <2> QED
      BY <2>1, <2>2, <2>3, <2>4, <2>5, ObservePromised, LeavePromised DEF Next, Promise!Next
  <1> QED
    BY <1>1, <1>2, <1>3, PTL DEF Spec, PromiseKept, Promise!Spec

-----------------------------------------------------------------------------

(***************************************************************************)
(* The inductive invariant: what a track record r and its memo m compare   *)
(* verdicts with was shown to someone, by the history h and the topics s.  *)
(***************************************************************************)
Keys == {Key(f) : f \in Freeze}
HeardType == [seen : Level, frozen : Level, level : Level, verdict : Level, violated : SUBSET Keys]
DedupeType == [declared : BOOLEAN, freeze : {NoKey} \cup Keys]

ToldOf(s, k) == \E i \in DOMAIN s : s[i].what = "violation" /\ s[i].key = k

Shown(r, m, s, h, n) ==
    /\ r \in TrackType /\ m \in MemoType /\ s \in Seq(Topic \cup {Farewell}) /\ h \in HeardType
    /\ r.lastAlert <= n /\ (r.lastAlert = 0 <=> r.maxLevel = None)
    /\ h.seen <= Louder(h.level, h.verdict) /\ h.frozen <= h.verdict
    /\ r.maxLevel <= h.level
    /\ m.verdict <= h.verdict
    /\ m.freeze # NoKey => h.verdict >= Info /\ ToldOf(s, m.freeze)
    /\ m.declared => r.maxLevel >= Info
    /\ \A k \in h.violated : ToldOf(s, k)

AllShown(r, m, s, h, n) ==
    /\ r \in [Track -> TrackType] /\ m \in [Track -> MemoType]
    /\ s \in [Track -> Seq(Topic \cup {Farewell})] /\ h \in [Track -> HeardType]
    /\ \A t \in Track : Shown(r[t], m[t], s[t], h[t], n)

HInv ==
    /\ now \in 1..MaxTime /\ run \in 0..MaxRuns
    /\ AllShown(track, memo, told, heard, now)
    /\ AllShown(disk.track, Restore(disk.dedupe), disk.told, disk.heard, now)
    /\ disk.dedupe \in [Track -> DedupeType]

-----------------------------------------------------------------------------
(***************************************************************************)
(* One track.                                                              *)
(***************************************************************************)
\* Only t changed, and it is shown.
ShownStep(t) ==
    /\ track' = [track EXCEPT ![t] = track'[t]] /\ memo' = [memo EXCEPT ![t] = memo'[t]]
    /\ told' = [told EXCEPT ![t] = told'[t]] /\ heard' = [heard EXCEPT ![t] = heard'[t]]
    /\ Shown(track'[t], memo'[t], told'[t], heard'[t], now)
    /\ UNCHANGED <<disk, now, run>>

\* The invariant is about each track by itself.
LEMMA ShownStepHInv ==
    ASSUME HInv, NEW t \in Track, ShownStep(t)
    PROVE  HInv'
  <1>1. AllShown(track', memo', told', heard', now)
    <2>1. /\ track'[t] \in TrackType /\ memo'[t] \in MemoType
          /\ told'[t] \in Seq(Topic \cup {Farewell}) /\ heard'[t] \in HeardType
      BY DEF ShownStep, Shown
    <2>2. \A u \in Track : Shown(track'[u], memo'[u], told'[u], heard'[u], now)
      BY DEF HInv, AllShown, ShownStep
    <2> QED
      BY <2>1, <2>2 DEF HInv, AllShown, ShownStep
  <1> QED
    BY <1>1 DEF HInv, ShownStep

\* What is known of a track.
LEMMA TrackFacts ==
    ASSUME HInv, NEW t \in Track
    PROVE  /\ Shown(track[t], memo[t], told[t], heard[t], now)
           /\ track \in [Track -> TrackType] /\ memo \in [Track -> MemoType]
           /\ told \in [Track -> Seq(Topic \cup {Farewell})] /\ heard \in [Track -> HeardType]
           /\ now \in 1..MaxTime /\ now \in Nat \ {0} /\ run \in 0..MaxRuns
  <1>1. now \in 1..MaxTime /\ MaxTime \in Nat
    BY Bounds DEF HInv
  <1> QED
    BY <1>1 DEF HInv, AllShown

\* The history after a verdict v that became an alert of level l, or none.
LEMMA HeardAfter ==
    ASSUME HInv, NEW t \in Track, NEW v \in Verdict, NEW l \in Level, Hear(t, v, l)
    PROVE  /\ heard' = [heard EXCEPT ![t] = heard'[t]] /\ heard'[t] \in HeardType
           /\ v.level \in Level
           /\ heard'[t].seen = Louder(heard[t].seen, v.level)
           /\ heard'[t].frozen = IF InFreeze(t, v) THEN Louder(heard[t].frozen, v.level)
                                                   ELSE heard[t].frozen
           /\ heard'[t].violated = IF InFreeze(t, v)
                                   THEN heard[t].violated \cup {Key(Calendar[now])}
                                   ELSE heard[t].violated
           /\ heard'[t].level = Louder(heard[t].level, l)
           /\ heard'[t].verdict = IF l = None THEN heard[t].verdict
                                  ELSE Louder(heard[t].verdict, v.level)
  <1> DEFINE key == Key(FreezeFor(now, v))
  <1>1. heard \in [Track -> HeardType] /\ heard[t] \in HeardType
    BY TrackFacts
  <1>2. v.level \in Level
    BY DEF Verdict, Level, None, Info, Alert, High
  <1>3. InFreeze(t, v) => key = Key(Calendar[now]) /\ key \in Keys
    <2>1. now \in 1..MaxTime
      BY TrackFacts
    <2> QED
      BY <2>1, FreezeFacts DEF InFreeze, Keys
  <1> HIDE DEF key
  <1>4. heard' = [heard EXCEPT ![t] =
            [seen |-> Louder(heard[t].seen, v.level),
             frozen |-> IF InFreeze(t, v) THEN Louder(heard[t].frozen, v.level) ELSE heard[t].frozen,
             violated |-> IF InFreeze(t, v) THEN heard[t].violated \cup {key} ELSE heard[t].violated,
             level |-> Louder(heard[t].level, l),
             verdict |-> IF l = None THEN heard[t].verdict ELSE Louder(heard[t].verdict, v.level)]]
    BY DEF Hear, key
  <1>5. /\ heard'[t].seen = Louder(heard[t].seen, v.level)
        /\ heard'[t].frozen = IF InFreeze(t, v) THEN Louder(heard[t].frozen, v.level)
                                                ELSE heard[t].frozen
        /\ heard'[t].violated = IF InFreeze(t, v) THEN heard[t].violated \cup {key}
                                ELSE heard[t].violated
        /\ heard'[t].level = Louder(heard[t].level, l)
        /\ heard'[t].verdict = IF l = None THEN heard[t].verdict
                               ELSE Louder(heard[t].verdict, v.level)
        /\ heard' = [heard EXCEPT ![t] = heard'[t]]
        /\ DOMAIN heard'[t] = {"seen", "frozen", "violated", "level", "verdict"}
    BY <1>1, <1>4
  <1>6. /\ Louder(heard[t].seen, v.level) \in Level /\ Louder(heard[t].frozen, v.level) \in Level
        /\ Louder(heard[t].level, l) \in Level /\ Louder(heard[t].verdict, v.level) \in Level
    BY <1>1, <1>2 DEF HeardType, Louder
  <1>7. heard'[t] \in HeardType
    <2> DEFINE a == Louder(heard[t].seen, v.level)
               b == IF InFreeze(t, v) THEN Louder(heard[t].frozen, v.level) ELSE heard[t].frozen
               c == IF InFreeze(t, v) THEN heard[t].violated \cup {key} ELSE heard[t].violated
               d == Louder(heard[t].level, l)
               e == IF l = None THEN heard[t].verdict ELSE Louder(heard[t].verdict, v.level)
    <2>1. a \in Level /\ b \in Level /\ d \in Level /\ e \in Level /\ c \in SUBSET Keys
      BY <1>1, <1>3, <1>6 DEF HeardType
    <2>2. heard'[t] = [seen |-> a, frozen |-> b, violated |-> c, level |-> d, verdict |-> e]
      BY <1>1, <1>4
    <2> HIDE DEF a, b, c, d, e
    <2> QED
      BY <2>1, <2>2 DEF HeardType
  <1> QED
    BY <1>2, <1>3, <1>5, <1>7

\* An alert shows its level and carries the verdict.
LEMMA AlertShown ==
    ASSUME HInv, NEW t \in Track, NEW v \in Verdict, NEW l \in Info..High, Emit(t, l), Hear(t, v, l),
           memo' = [memo EXCEPT ![t] = memo'[t]], memo'[t] \in MemoType,
           told' = [told EXCEPT ![t] = told'[t]], told'[t] \in Seq(Topic \cup {Farewell}),
           UNCHANGED <<disk, now, run>>,
           \A k : ToldOf(told[t], k) => ToldOf(told'[t], k),
           memo'[t].verdict <= memo[t].verdict \/ memo'[t].verdict <= v.level,
           memo'[t].freeze # memo[t].freeze => v.level >= Info /\ ToldOf(told'[t], memo'[t].freeze),
           InFreeze(t, v) => ToldOf(told'[t], Key(Calendar[now]))
    PROVE  ShownStep(t)
  <1> DEFINE h == heard[t]
             h2 == heard'[t]
             m == memo[t]
             m2 == memo'[t]
             r == track[t]
             r2 == track'[t]
  <1>1. /\ Shown(r, m, told[t], h, now) /\ track \in [Track -> TrackType] /\ now \in Nat \ {0}
    BY TrackFacts
  <1>2. l \in Level /\ l # None
    BY DEF Level, Info, High, None
  <1>3. /\ track' = [track EXCEPT ![t] = r2] /\ r2 \in TrackType /\ r2.lastAlert = now
        /\ r2.maxLevel = Louder(r.maxLevel, l) /\ r.maxLevel \in Level
    BY <1>1, <1>2, EmitType
  <1>4. /\ heard' = [heard EXCEPT ![t] = h2] /\ h2 \in HeardType /\ v.level \in Level
        /\ h2.seen = Louder(h.seen, v.level)
        /\ h2.frozen = h.frozen \/ h2.frozen = Louder(h.frozen, v.level)
        /\ h2.violated = IF InFreeze(t, v) THEN h.violated \cup {Key(Calendar[now])} ELSE h.violated
        /\ h2.level = Louder(h.level, l) /\ h2.verdict = Louder(h.verdict, v.level)
    BY <1>2, HeardAfter
  <1>5. /\ h.seen \in Level /\ h.frozen \in Level /\ h.level \in Level /\ h.verdict \in Level
        /\ m.verdict \in Level /\ m2.verdict \in Level /\ r2.maxLevel \in Level
    BY <1>1, <1>3 DEF Shown, HeardType, MemoType, TrackType
  <1>6. /\ h.seen <= Louder(h.level, h.verdict) /\ h.frozen <= h.verdict /\ r.maxLevel <= h.level
        /\ m.verdict <= h.verdict
        /\ m.freeze # NoKey => h.verdict >= Info /\ ToldOf(told[t], m.freeze)
        /\ \A k \in h.violated : ToldOf(told[t], k)
    BY <1>1 DEF Shown
  <1>7. m2.freeze # m.freeze => v.level >= Info /\ ToldOf(told'[t], m2.freeze)
    OBVIOUS
  <1>8. m2.verdict <= m.verdict \/ m2.verdict <= v.level
    OBVIOUS
  <1>9. \A k \in h2.violated : ToldOf(told'[t], k)
    BY <1>4, <1>6
  <1>10. \A k : ToldOf(told[t], k) => ToldOf(told'[t], k)
    OBVIOUS
  <1>11. m2 \in MemoType
    OBVIOUS
  <1> HIDE DEF h, h2, m, m2, r, r2
  <1>12. /\ r2.lastAlert <= now /\ r2.lastAlert # 0 /\ r2.maxLevel >= Info /\ r2.maxLevel # None
         /\ r2.maxLevel <= h2.level
    BY <1>1, <1>2, <1>3, <1>4, <1>5, <1>6 DEF Louder, Level, Info, High, None
  <1>13. h2.seen <= Louder(h2.level, h2.verdict) /\ h2.frozen <= h2.verdict
    <2>1. h2.seen <= Louder(h2.level, h2.verdict)
      BY <1>2, <1>4, <1>5, <1>6 DEF Louder, Level
    <2>2. h2.frozen = h.frozen => h2.frozen <= h2.verdict
      BY <1>4, <1>5, <1>6 DEF Louder, Level
    <2>3. h2.frozen = Louder(h.frozen, v.level) => h2.frozen <= h2.verdict
      BY <1>4, <1>5, <1>6 DEF Louder, Level
    <2> QED
      BY <1>4, <2>1, <2>2, <2>3
  <1>14. m2.verdict <= h2.verdict
    <2>1. h2.verdict = Louder(h.verdict, v.level) /\ v.level \in Level
      BY <1>4
    <2>2. m2.verdict <= m.verdict => m2.verdict <= h2.verdict
      BY <1>5, <1>6, <2>1 DEF Louder, Level
    <2>3. m2.verdict <= v.level => m2.verdict <= h2.verdict
      BY <1>5, <1>6, <2>1 DEF Louder, Level
    <2> QED
      BY <1>8, <2>2, <2>3
  <1>15. m2.freeze # NoKey => h2.verdict >= Info /\ ToldOf(told'[t], m2.freeze)
    BY <1>4, <1>5, <1>6, <1>7, <1>10 DEF Louder, Level, Info
  <1>16. Shown(r2, m2, told'[t], h2, now)
    BY <1>3, <1>4, <1>9, <1>11, <1>12, <1>13, <1>14, <1>15 DEF Shown
  <1> QED
    BY <1>3, <1>4, <1>16 DEF ShownStep, r2, h2, m2

\* Without an alert the verdict must be one that was shown before.
LEMMA SilenceShown ==
    ASSUME HInv, NEW t \in Track, NEW v \in Verdict, Hear(t, v, None),
           UNCHANGED <<track, memo, told, disk, now, run>>,
           v.level <= Louder(heard[t].level, heard[t].verdict),
           InFreeze(t, v) => v.level <= heard[t].verdict /\ ToldOf(told[t], Key(Calendar[now]))
    PROVE  ShownStep(t)
  <1> DEFINE h == heard[t]
             h2 == heard'[t]
  <1>1. /\ Shown(track[t], memo[t], told[t], h, now) /\ track \in [Track -> TrackType]
        /\ memo \in [Track -> MemoType] /\ told \in [Track -> Seq(Topic \cup {Farewell})]
    BY TrackFacts
  <1>2. /\ heard' = [heard EXCEPT ![t] = h2] /\ h2 \in HeardType /\ v.level \in Level
        /\ h2.seen = Louder(h.seen, v.level)
        /\ h2.frozen = IF InFreeze(t, v) THEN Louder(h.frozen, v.level) ELSE h.frozen
        /\ h2.violated = IF InFreeze(t, v) THEN h.violated \cup {Key(Calendar[now])} ELSE h.violated
        /\ h2.level = Louder(h.level, None) /\ h2.verdict = h.verdict
    BY HeardAfter DEF None, Level
  <1>3. /\ h.seen \in Level /\ h.frozen \in Level /\ h.level \in Level /\ h.verdict \in Level
        /\ h.seen <= Louder(h.level, h.verdict) /\ h.frozen <= h.verdict
        /\ \A k \in h.violated : ToldOf(told[t], k)
    BY <1>1 DEF Shown, HeardType
  <1>4. /\ v.level <= Louder(h.level, h.verdict)
        /\ InFreeze(t, v) => v.level <= h.verdict /\ ToldOf(told[t], Key(Calendar[now]))
    OBVIOUS
  <1> HIDE DEF h, h2
  <1>5. h2.level = h.level
    BY <1>2, <1>3 DEF Louder, Level, None
  <1>6. h2.seen <= Louder(h2.level, h2.verdict) /\ h2.frozen <= h2.verdict
    BY <1>2, <1>3, <1>4, <1>5 DEF Louder, Level
  <1>7. \A k \in h2.violated : ToldOf(told[t], k)
    BY <1>2, <1>3, <1>4
  <1>8. Shown(track[t], memo[t], told[t], h2, now)
    BY <1>1, <1>2, <1>5, <1>6, <1>7 DEF Shown
  <1> QED
    BY <1>1, <1>2, <1>8 DEF ShownStep, h2

\* What was told stays told.
LEMMA ToldMore ==
    ASSUME NEW s \in Seq(Topic \cup {Farewell}), NEW x \in Topic \cup {Farewell}
    PROVE  /\ Append(s, x) \in Seq(Topic \cup {Farewell})
           /\ \A k : ToldOf(s, k) => ToldOf(Append(s, x), k)
           /\ x.what = "violation" => ToldOf(Append(s, x), x.key)
  <1> DEFINE z == Append(s, x)
  <1>1. /\ z \in Seq(Topic \cup {Farewell}) /\ \A i \in DOMAIN s : i \in DOMAIN z /\ z[i] = s[i]
        /\ Len(s) + 1 \in DOMAIN z /\ z[Len(s) + 1] = x
    OBVIOUS
  <1> HIDE DEF z
  <1>2. \A k : ToldOf(s, k) => ToldOf(z, k)
    BY <1>1 DEF ToldOf
  <1>3. x.what = "violation" => ToldOf(z, x.key)
    BY <1>1 DEF ToldOf
  <1> QED
    BY <1>1, <1>2, <1>3 DEF z

-----------------------------------------------------------------------------
(***************************************************************************)
(* The steps.                                                              *)
(***************************************************************************)
\* A declared track is at least at info.
LEMMA VerdictFacts ==
    ASSUME NEW v \in Verdict
    PROVE  /\ v.level \in Level /\ v.level >= None
           /\ v.class = "declared" => v.level >= Info
           /\ Violating(v) => v.level >= Info
           /\ v.level >= Info => v.level \in Info..High
  BY DEF Verdict, Violating, Level, None, Info, Alert, High

\* Inside a window, with what the memo knows of it.
LEMMA FrozenFacts ==
    ASSUME HInv, NEW t \in Track, NEW v \in Verdict, InFreeze(t, v)
    PROVE  /\ FreezeFor(now, v) = Calendar[now] /\ Calendar[now] \in Freeze
           /\ Key(Calendar[now]) # NoKey /\ Key(Calendar[now]) \in Keys
           /\ FreezeLevel(Calendar[now]) \in Info..High
           /\ v.level >= Info
           /\ Reported(t, Calendar[now]) => /\ heard[t].verdict >= Info
                                            /\ ToldOf(told[t], Key(Calendar[now]))
  <1>1. now \in 1..MaxTime /\ Shown(track[t], memo[t], told[t], heard[t], now)
    BY TrackFacts
  <1>2. /\ FreezeFor(now, v) = Calendar[now] /\ Calendar[now] \in Freeze
        /\ Key(Calendar[now]) # NoKey /\ FreezeLevel(Calendar[now]) \in Info..High
    BY <1>1, FreezeFacts DEF InFreeze
  <1> QED
    BY <1>1, <1>2, VerdictFacts DEF InFreeze, Shown, Reported, Keys

\* A violation is told of its occurrence and carries the verdict.
LEMMA ViolationShown ==
    ASSUME HInv, NEW t \in Track, NEW v \in Verdict, ObserveViolation(t, v)
    PROVE  ShownStep(t)
  <1> DEFINE f == Calendar[now]
             x == Violation(f)
  <1>1. InFreeze(t, v)
    BY DEF ObserveViolation
  <1>2. /\ FreezeFor(now, v) = f /\ f \in Freeze /\ Key(f) \in Keys /\ FreezeLevel(f) \in Info..High
        /\ v.level >= Info /\ v.level \in Level
    BY <1>1, FrozenFacts, VerdictFacts
  <1>3. /\ memo' = [memo EXCEPT ![t].freeze = Key(f), ![t].verdict = v.level]
        /\ Emit(t, FreezeLevel(f)) /\ told' = [told EXCEPT ![t] = Append(@, x)]
        /\ Hear(t, v, FreezeLevel(f)) /\ UNCHANGED <<disk, now, run>>
    BY <1>2 DEF ObserveViolation
  <1>4. memo \in [Track -> MemoType] /\ told \in [Track -> Seq(Topic \cup {Farewell})]
    BY TrackFacts
  <1>5. x \in Topic /\ x.what = "violation" /\ x.key = Key(f)
    BY <1>2 DEF Topic, Violation
  <1>6. /\ memo' = [memo EXCEPT ![t] = memo'[t]] /\ memo'[t] \in MemoType
        /\ memo'[t].freeze = Key(f) /\ memo'[t].verdict = v.level
    <2> DEFINE k == Key(f)
    <2>1. k \in {Key(g) : g \in Freeze}
      BY <1>2
    <2> HIDE DEF k
    <2> QED
      BY <1>2, <1>3, <1>4, <2>1 DEF MemoType, k
  <1> HIDE DEF x
  <1>7. /\ told' = [told EXCEPT ![t] = told'[t]] /\ told'[t] = Append(told[t], x)
        /\ told[t] \in Seq(Topic \cup {Farewell})
    BY <1>3, <1>4
  <1>8. /\ told'[t] \in Seq(Topic \cup {Farewell}) /\ ToldOf(told'[t], Key(f))
        /\ \A k : ToldOf(told[t], k) => ToldOf(told'[t], k)
    BY <1>5, <1>7, ToldMore
  <1>9. v.level <= v.level
    BY <1>2 DEF Level
  <1> HIDE DEF f
  <1> QED
    BY <1>2, <1>3, <1>6, <1>7, <1>8, <1>9, AlertShown DEF f

\* An escalation carries its verdict.
LEMMA EscalationShown ==
    ASSUME HInv, NEW t \in Track, NEW v \in Verdict, ObserveEscalation(t, v)
    PROVE  ShownStep(t)
  <1> DEFINE f == Calendar[now]
             x == Escalation(f, v.level, run)
  <1>1. InFreeze(t, v)
    BY DEF ObserveEscalation
  <1>2. /\ FreezeFor(now, v) = f /\ f \in Freeze /\ v.level >= Info /\ v.level \in Level
        /\ v.level \in Info..High
        /\ Reported(t, f) => ToldOf(told[t], Key(f))
    BY <1>1, FrozenFacts, VerdictFacts
  <1>3. /\ memo' = [memo EXCEPT ![t].verdict = v.level] /\ Reported(t, f) /\ v.level >= Alert
        /\ Emit(t, v.level) /\ told' = [told EXCEPT ![t] = Append(@, x)]
        /\ Hear(t, v, v.level) /\ UNCHANGED <<disk, now, run>>
    BY <1>2 DEF ObserveEscalation, Escalates
  <1>4. /\ memo \in [Track -> MemoType] /\ told \in [Track -> Seq(Topic \cup {Farewell})]
        /\ run \in 0..MaxRuns
    BY TrackFacts
  <1>5. x \in Topic
    <2>1. v.level \in Alert..High
      BY <1>2, <1>3 DEF Info, Alert, High
    <2> QED
      BY <1>2, <1>4, <2>1 DEF Topic
  <1>6. /\ memo' = [memo EXCEPT ![t] = memo'[t]] /\ memo'[t] \in MemoType
        /\ memo'[t].freeze = memo[t].freeze /\ memo'[t].verdict = v.level
    BY <1>2, <1>3, <1>4 DEF MemoType
  <1> HIDE DEF x
  <1>7. /\ told' = [told EXCEPT ![t] = told'[t]] /\ told'[t] = Append(told[t], x)
        /\ told[t] \in Seq(Topic \cup {Farewell})
    BY <1>3, <1>4
  <1>8. /\ told'[t] \in Seq(Topic \cup {Farewell})
        /\ \A k : ToldOf(told[t], k) => ToldOf(told'[t], k)
    BY <1>5, <1>7, ToldMore
  <1>9. v.level <= v.level
    BY <1>2 DEF Level
  <1> HIDE DEF f
  <1> QED
    BY <1>2, <1>3, <1>6, <1>7, <1>8, <1>9, AlertShown DEF f

\* Silence inside a window: the memo's verdict was carried by an alert.
LEMMA FrozenShown ==
    ASSUME HInv, NEW t \in Track, NEW v \in Verdict, ObserveFrozen(t, v)
    PROVE  ShownStep(t)
  <1> DEFINE f == Calendar[now]
             l == FreezeLevel(f)
  <1>1. InFreeze(t, v)
    BY DEF ObserveFrozen
  <1>2. /\ FreezeFor(now, v) = f /\ l \in Info..High /\ v.level \in Level
        /\ Reported(t, f) => heard[t].verdict >= Info /\ ToldOf(told[t], Key(f))
    BY <1>1, FrozenFacts, VerdictFacts
  <1>3. /\ Reported(t, f) /\ ~Escalates(t, v) /\ UNCHANGED <<memo, disk, now, run, told>>
        /\ \/ Emit(t, l) /\ Hear(t, v, l)
           \/ UNCHANGED track /\ Hear(t, v, None)
    BY <1>2 DEF ObserveFrozen
  <1>4. /\ memo \in [Track -> MemoType] /\ told \in [Track -> Seq(Topic \cup {Farewell})]
        /\ Shown(track[t], memo[t], told[t], heard[t], now)
    BY TrackFacts
  <1>5. heard[t].verdict \in Level /\ heard[t].level \in Level /\ memo[t].verdict \in Level
        /\ memo[t].verdict <= heard[t].verdict
    BY <1>4 DEF Shown, HeardType, MemoType
  <1> HIDE DEF f, l
  <1>6. CASE Emit(t, l) /\ Hear(t, v, l)
    <2>1. /\ memo' = [memo EXCEPT ![t] = memo'[t]] /\ memo'[t] \in MemoType /\ memo' = memo
          /\ told' = [told EXCEPT ![t] = told'[t]] /\ told'[t] \in Seq(Topic \cup {Farewell})
          /\ told' = told /\ memo[t].verdict <= memo[t].verdict
      BY <1>3, <1>4, <1>5 DEF Level
    <2> QED
      BY <1>2, <1>3, <1>6, <2>1, AlertShown DEF f
  <1>7. CASE UNCHANGED track /\ Hear(t, v, None)
    <2>1. v.level <= heard[t].verdict
      BY <1>2, <1>3, <1>5 DEF Escalates, Level, Info, Alert
    <2>2. v.level <= Louder(heard[t].level, heard[t].verdict)
      BY <1>2, <1>5, <2>1 DEF Louder, Level
    <2> QED
      BY <1>2, <1>3, <1>7, <2>1, <2>2, SilenceShown DEF f
  <1> QED
    BY <1>3, <1>6, <1>7

\* A declaration is shown at info, or at the level it crosses.
LEMMA DeclarationShown ==
    ASSUME HInv, NEW t \in Track, NEW v \in Verdict, ObserveDeclaration(t, v)
    PROVE  ShownStep(t)
  <1>1. /\ ~InFreeze(t, v) /\ memo' = [memo EXCEPT ![t].declared = TRUE]
        /\ UNCHANGED <<disk, now, run>> /\ v.class = "declared"
    BY DEF ObserveDeclaration, OutOfFreeze, InFreeze
  <1>2. v.level \in Info..High /\ v.level \in Level /\ Info \in Info..High
    BY <1>1, VerdictFacts DEF Info, High
  <1>3. memo \in [Track -> MemoType] /\ told \in [Track -> Seq(Topic \cup {Farewell})]
    BY TrackFacts
  <1>4. /\ memo' = [memo EXCEPT ![t] = memo'[t]] /\ memo'[t] \in MemoType
        /\ memo'[t].freeze = memo[t].freeze /\ memo'[t].verdict = memo[t].verdict
        /\ memo'[t].verdict <= memo[t].verdict
    <2>1. /\ memo' = [memo EXCEPT ![t] = memo'[t]] /\ memo'[t] \in MemoType
          /\ memo'[t].freeze = memo[t].freeze /\ memo'[t].verdict = memo[t].verdict
      BY <1>1, <1>3 DEF MemoType
    <2>2. memo[t].verdict \in Level
      BY <1>3 DEF MemoType
    <2> QED
      BY <2>1, <2>2 DEF Level
  <1>5. Declaration \in Topic /\ Crossing(v.level) \in Topic
    BY <1>2 DEF Topic
  <1>6. ASSUME NEW l \in Info..High, NEW z, z \in Seq(Topic \cup {Farewell}), Emit(t, l),
               told' = [told EXCEPT ![t] = z], \A k : ToldOf(told[t], k) => ToldOf(z, k),
               Hear(t, v, l)
        PROVE  ShownStep(t)
    <2>1. told'[t] = z /\ told' = [told EXCEPT ![t] = told'[t]]
      BY <1>3, <1>6
    <2> QED
      BY <1>1, <1>4, <1>6, <2>1, AlertShown
  <1> DEFINE z1 == Append(told[t], Declaration)
             z2 == Append(z1, Crossing(v.level))
  <1>7. z1 \in Seq(Topic \cup {Farewell}) /\ \A k : ToldOf(told[t], k) => ToldOf(z1, k)
    BY <1>3, <1>5, ToldMore
  <1>8. z2 \in Seq(Topic \cup {Farewell}) /\ \A k : ToldOf(told[t], k) => ToldOf(z2, k)
    <2> HIDE DEF z1
    <2>1. \A k : ToldOf(z1, k) => ToldOf(z2, k)
      BY <1>5, <1>7, ToldMore
    <2>2. z2 \in Seq(Topic \cup {Farewell})
      BY <1>5, <1>7, ToldMore
    <2> QED
      BY <1>7, <2>1, <2>2
  <1>9. /\ told[t] \o <<Declaration>> = z1
        /\ told[t] \o <<Declaration, Crossing(v.level)>> = z2
    BY <1>3, <1>5
  <1>10. \/ /\ Emit(t, v.level) /\ Hear(t, v, v.level) /\ told' = [told EXCEPT ![t] = z2]
         \/ /\ Emit(t, Info) /\ Hear(t, v, Info) /\ told' = [told EXCEPT ![t] = z1]
    <2> HIDE DEF z1, z2
    <2> QED
      BY <1>9 DEF ObserveDeclaration
  <1> HIDE DEF z1, z2
  <1> QED
    BY <1>2, <1>6, <1>7, <1>8, <1>10

\* A crossing shows its level.
LEMMA CrossingShown ==
    ASSUME HInv, NEW t \in Track, NEW v \in Verdict, ObserveCrossing(t, v)
    PROVE  ShownStep(t)
  <1> DEFINE x == Crossing(v.level)
  <1>1. /\ ~InFreeze(t, v) /\ v.level >= Info /\ Emit(t, v.level) /\ Hear(t, v, v.level)
        /\ told' = [told EXCEPT ![t] = Append(@, x)] /\ UNCHANGED <<memo, disk, now, run>>
    BY DEF ObserveCrossing, OutOfFreeze, InFreeze, Counts
  <1>2. v.level \in Info..High
    BY <1>1, VerdictFacts
  <1>3. memo \in [Track -> MemoType] /\ told \in [Track -> Seq(Topic \cup {Farewell})]
    BY TrackFacts
  <1>4. /\ memo' = [memo EXCEPT ![t] = memo'[t]] /\ memo'[t] \in MemoType /\ memo' = memo
        /\ memo[t].verdict <= memo[t].verdict
    BY <1>1, <1>3 DEF MemoType, Level
  <1>5. x \in Topic
    BY <1>2 DEF Topic
  <1> HIDE DEF x
  <1>6. /\ told' = [told EXCEPT ![t] = told'[t]] /\ told'[t] = Append(told[t], x)
        /\ told[t] \in Seq(Topic \cup {Farewell})
    BY <1>1, <1>3
  <1>7. /\ told'[t] \in Seq(Topic \cup {Farewell})
        /\ \A k : ToldOf(told[t], k) => ToldOf(told'[t], k)
    BY <1>5, <1>6, ToldMore
  <1> QED
    BY <1>1, <1>2, <1>4, <1>6, <1>7, AlertShown

\* Silence outside: the level was that of an alert.
LEMMA KnownShown ==
    ASSUME HInv, NEW t \in Track, NEW v \in Verdict, ObserveKnown(t, v)
    PROVE  ShownStep(t)
  <1>1. /\ ~InFreeze(t, v) /\ Labelled(t, v) /\ ~(Counts(v) /\ v.level > track[t].maxLevel)
        /\ UNCHANGED <<memo, disk, now, run, told>>
        /\ \/ v.level >= Alert /\ Emit(t, v.level) /\ Hear(t, v, v.level)
           \/ UNCHANGED track /\ Hear(t, v, None)
    BY DEF ObserveKnown, OutOfFreeze, InFreeze
  <1>2. /\ memo \in [Track -> MemoType] /\ told \in [Track -> Seq(Topic \cup {Farewell})]
        /\ Shown(track[t], memo[t], told[t], heard[t], now)
    BY TrackFacts
  <1>3. /\ v.level \in Level /\ heard[t].level \in Level /\ heard[t].verdict \in Level
        /\ track[t].maxLevel \in Level /\ memo[t].verdict \in Level
        /\ track[t].maxLevel <= heard[t].level
        /\ memo[t].declared => track[t].maxLevel >= Info
    BY <1>2, VerdictFacts DEF Shown, HeardType, MemoType, TrackType
  <1>4. CASE v.level >= Alert /\ Emit(t, v.level) /\ Hear(t, v, v.level)
    <2>1. v.level \in Info..High
      BY <1>3, <1>4 DEF Level, Alert, Info, High
    <2>2. /\ memo' = [memo EXCEPT ![t] = memo'[t]] /\ memo'[t] \in MemoType /\ memo' = memo
          /\ told' = [told EXCEPT ![t] = told'[t]] /\ told'[t] \in Seq(Topic \cup {Farewell})
          /\ told' = told /\ memo[t].verdict <= memo[t].verdict
      BY <1>1, <1>2, <1>3 DEF Level
    <2> QED
      BY <1>1, <1>4, <2>1, <2>2, AlertShown
  <1>5. CASE UNCHANGED track /\ Hear(t, v, None)
    <2>1. v.level <= heard[t].level
      BY <1>1, <1>3 DEF Counts, Labelled, Level, Info, Alert
    <2>2. v.level <= Louder(heard[t].level, heard[t].verdict)
      BY <1>3, <2>1 DEF Louder, Level
    <2> QED
      BY <1>1, <1>5, <2>2, SilenceShown
  <1> QED
    BY <1>1, <1>4, <1>5

\* Opening a track and leaving it: no verdict.
LEMMA PhaseShown ==
    ASSUME HInv, NEW t \in Track, Open(t) \/ Ended(t) \/ Forget(t)
    PROVE  ShownStep(t)
  <1>1. /\ Shown(track[t], memo[t], told[t], heard[t], now)
        /\ track \in [Track -> TrackType] /\ memo \in [Track -> MemoType]
        /\ told \in [Track -> Seq(Topic \cup {Farewell})] /\ heard \in [Track -> HeardType]
    BY TrackFacts
  <1>2. /\ \/ track' = [track EXCEPT ![t].phase = "open"]
           \/ track' = [track EXCEPT ![t].phase = "gone"]
        /\ UNCHANGED memo \/ memo' = [memo EXCEPT ![t] = NoMemo]
        /\ UNCHANGED told \/ told' = [told EXCEPT ![t] = Append(@, Farewell)]
        /\ UNCHANGED <<disk, now, run, heard>>
    BY DEF Open, Ended, Forget, Leave
  <1>3. /\ track' = [track EXCEPT ![t] = track'[t]] /\ track'[t] \in TrackType
        /\ track'[t].maxLevel = track[t].maxLevel /\ track'[t].lastAlert = track[t].lastAlert
    <2>1. CASE track' = [track EXCEPT ![t].phase = "open"]
      BY <1>1, <2>1 DEF TrackType
    <2>2. CASE track' = [track EXCEPT ![t].phase = "gone"]
      BY <1>1, <2>2 DEF TrackType
    <2> QED
      BY <1>2, <2>1, <2>2
  <1>4. /\ memo' = [memo EXCEPT ![t] = memo'[t]] /\ memo'[t] \in MemoType
        /\ memo'[t] = memo[t] \/ memo'[t] = NoMemo
    <2>1. NoMemo \in MemoType
      BY DEF MemoType, NoMemo, Level, None
    <2>2. CASE UNCHANGED memo
      BY <1>1, <2>2
    <2>3. CASE memo' = [memo EXCEPT ![t] = NoMemo]
      BY <1>1, <2>1, <2>3
    <2> QED
      BY <1>2, <2>2, <2>3
  <1>5. /\ told' = [told EXCEPT ![t] = told'[t]] /\ told'[t] \in Seq(Topic \cup {Farewell})
        /\ \A k : ToldOf(told[t], k) => ToldOf(told'[t], k)
    <2>1. CASE UNCHANGED told
      BY <1>1, <2>1
    <2>2. CASE told' = [told EXCEPT ![t] = Append(@, Farewell)]
      <3>1. told'[t] = Append(told[t], Farewell) /\ told' = [told EXCEPT ![t] = told'[t]]
        BY <1>1, <2>2
      <3>2. told[t] \in Seq(Topic \cup {Farewell}) /\ Farewell \in Topic \cup {Farewell}
        BY <1>1
      <3> QED
        BY <3>1, <3>2, ToldMore
    <2> QED
      BY <1>2, <2>1, <2>2
  <1>6. heard[t].verdict \in Level
    BY <1>1 DEF HeardType
  <1>7. Shown(track'[t], memo'[t], told'[t], heard[t], now)
    <2>1. CASE memo'[t] = memo[t]
      BY <1>1, <1>3, <1>4, <1>5, <2>1 DEF Shown
    <2>2. CASE memo'[t] = NoMemo
      BY <1>1, <1>3, <1>4, <1>5, <1>6, <2>2 DEF Shown, NoMemo, None, Level
    <2> QED
      BY <1>4, <2>1, <2>2
  <1> QED
    BY <1>1, <1>2, <1>3, <1>4, <1>5, <1>7 DEF ShownStep

\* A save leaves the verdict of the window out, a restart does not need it.
LEMMA SaveShown ==
    ASSUME HInv, Save
    PROVE  HInv'
  <1> DEFINE m2 == Restore(Dedupe(memo))
  <1>1. /\ disk'.track = track /\ disk'.dedupe = Dedupe(memo) /\ disk'.told = told
        /\ disk'.heard = heard /\ UNCHANGED <<track, memo, now, run, told, heard>>
    BY DEF Save
  <1>2. AllShown(track, memo, told, heard, now) /\ now \in 1..MaxTime /\ run \in 0..MaxRuns
    BY DEF HInv
  <1>3. Dedupe(memo) \in [Track -> DedupeType] /\ m2 \in [Track -> MemoType]
    <2> DEFINE keys == {NoKey} \cup {Key(f) : f \in Freeze}
    <2> HIDE DEF keys
    <2>1. MemoType = [declared : BOOLEAN, freeze : keys, verdict : Level]
      BY DEF MemoType, keys
    <2>2. memo \in [Track -> MemoType]
      BY <1>2 DEF AllShown
    <2>3. Dedupe(memo) \in [Track -> [declared : BOOLEAN, freeze : keys]]
      BY <2>1, <2>2 DEF Dedupe
    <2>4. m2 \in [Track -> MemoType]
      BY <2>1, <2>3 DEF Restore, None, Level
    <2> QED
      BY <2>3, <2>4 DEF keys, DedupeType, Keys
  <1>4. ASSUME NEW t \in Track PROVE Shown(track[t], m2[t], told[t], heard[t], now)
    <2>1. m2[t] = [declared |-> memo[t].declared, freeze |-> memo[t].freeze, verdict |-> None]
      BY DEF Restore, Dedupe
    <2>2. /\ m2[t].declared = memo[t].declared /\ m2[t].freeze = memo[t].freeze
          /\ m2[t].verdict = None /\ m2[t] \in MemoType
      BY <1>3, <2>1
    <2>3. Shown(track[t], memo[t], told[t], heard[t], now) /\ heard[t].verdict \in Level
      BY <1>2 DEF AllShown, Shown, HeardType
    <2> HIDE DEF m2
    <2> QED
      BY <2>2, <2>3 DEF Shown, None, Level
  <1>5. AllShown(track, m2, told, heard, now)
    BY <1>2, <1>3, <1>4 DEF AllShown
  <1> QED
    BY <1>1, <1>2, <1>3, <1>5 DEF HInv

\* A later time is after the last alert too.
LEMMA TickShown ==
    ASSUME HInv, Tick
    PROVE  HInv'
  <1>1. now < MaxTime /\ now' = now + 1 /\ UNCHANGED <<track, memo, disk, run, told, heard>>
    BY DEF Tick
  <1>2. now \in 1..MaxTime /\ now \in Nat /\ run \in 0..MaxRuns
    BY Bounds DEF HInv
  <1>3. now' \in 1..MaxTime
    BY <1>1, <1>2, Bounds
  <1>4. ASSUME NEW r, NEW m, NEW s, NEW h, Shown(r, m, s, h, now)
        PROVE  Shown(r, m, s, h, now + 1)
    <2>1. r.lastAlert \in Nat
      BY <1>4 DEF Shown, TrackType
    <2> QED
      BY <1>2, <1>4, <2>1 DEF Shown
  <1>5. AllShown(track, memo, told, heard, now + 1)
    BY <1>4 DEF HInv, AllShown
  <1>6. AllShown(disk.track, Restore(disk.dedupe), disk.told, disk.heard, now + 1)
    BY <1>4 DEF HInv, AllShown
  <1> QED
    BY <1>1, <1>2, <1>3, <1>5, <1>6 DEF HInv

\* Nothing was seen yet.
LEMMA InitHInv ==
    ASSUME Init
    PROVE  HInv
  <1>1. /\ track = [t \in Track |-> NewTrack] /\ memo = [t \in Track |-> NoMemo]
        /\ told = [t \in Track |-> <<>>] /\ heard = [t \in Track |-> Unheard] /\ now = 1 /\ run = 0
        /\ disk.track = track /\ disk.told = told /\ disk.heard = heard
        /\ disk.dedupe = [t \in Track |-> [declared |-> FALSE, freeze |-> NoKey]]
    BY DEF Init
  <1>2. Restore(disk.dedupe) = memo
    BY <1>1 DEF Restore, NoMemo
  <1>3. /\ NewTrack \in TrackType /\ NoMemo \in MemoType /\ Unheard \in HeardType
        /\ <<>> \in Seq(Topic \cup {Farewell})
    BY DEF NewTrack, NoMemo, Unheard, TrackType, MemoType, HeardType, Level, None
  <1>4. Shown(NewTrack, NoMemo, <<>>, Unheard, 1)
    BY <1>3 DEF Shown, NewTrack, NoMemo, Unheard, Louder, None, Info
  <1>5. AllShown(track, memo, told, heard, now)
    BY <1>1, <1>3, <1>4 DEF AllShown
  <1>6. now \in 1..MaxTime /\ run \in 0..MaxRuns
    BY <1>1, Bounds
  <1>7. disk.dedupe \in [Track -> DedupeType]
    BY <1>1 DEF DedupeType
  <1>8. AllShown(disk.track, Restore(disk.dedupe), disk.told, disk.heard, now)
    BY <1>1, <1>2, <1>5
  <1> QED
    BY <1>5, <1>6, <1>7, <1>8 DEF HInv

\* Every step shows what it hears.
LEMMA NextHInv ==
    ASSUME HInv, [Next]_vars
    PROVE  HInv'
  <1>1. CASE UNCHANGED vars
    BY <1>1 DEF vars, HInv
  <1>2. ASSUME NEW t \in Track, Open(t) \/ Ended(t) \/ Forget(t) PROVE HInv'
    BY <1>2, PhaseShown, ShownStepHInv
  <1>3. ASSUME NEW t \in Track, NEW v \in Verdict, Observe(t, v) PROVE HInv'
    <2>1. ShownStep(t)
      BY <1>3, ViolationShown, EscalationShown, FrozenShown, DeclarationShown, CrossingShown,
         KnownShown DEF Observe
    <2> QED
      BY <2>1, ShownStepHInv
  <1>4. CASE Restart
    <2>1. run' \in 0..MaxRuns
      BY <1>4, Bounds DEF Restart, HInv
    <2> QED
      BY <1>4, <2>1 DEF Restart, HInv
  <1> QED
    BY <1>1, <1>2, <1>3, <1>4, SaveShown, TickShown DEF Next

-----------------------------------------------------------------------------
\* What the invariant is for.
LEMMA HInvHolds == Spec => []HInv
  <1>1. Init => HInv
    BY InitHInv
  <1>2. HInv /\ [Next]_vars => HInv'
    BY NextHInv
  <1> QED
    BY <1>1, <1>2, PTL DEF Spec

\* The types; a track has a level exactly when it had an alert.
THEOREM PolicyTypeOK == Spec => []TypeOK
  <1>1. HInv => TypeOK
    <2> SUFFICES ASSUME HInv PROVE TypeOK
      OBVIOUS
    <2>1. now \in 1..MaxTime /\ now \in Nat /\ run \in 0..MaxRuns
      BY Bounds DEF HInv
    <2>2. ASSUME NEW r, NEW m, NEW s, NEW h, AllShown(r, m, s, h, now)
          PROVE  TrackOK(r)
      <3>1. \A t \in Track : r[t] \in TrackType /\ Shown(r[t], m[t], s[t], h[t], now)
        BY <2>2 DEF AllShown
      <3> QED
        BY <2>1, <3>1 DEF TrackOK, TrackType, Shown
    <2>3. TrackOK(track) /\ TrackOK(disk.track)
      BY <2>2 DEF HInv
    <2>4. /\ memo \in [Track -> MemoType] /\ heard \in [Track -> HeardType]
          /\ told \in [Track -> Seq(Topic \cup {Farewell})]
      BY DEF HInv, AllShown
    <2>5. /\ MemoType = [declared : BOOLEAN, verdict : Level,
                         freeze : {NoKey} \cup {Key(f) : f \in Freeze}]
          /\ HeardType = [seen : Level, frozen : Level, level : Level, verdict : Level,
                          violated : SUBSET {Key(f) : f \in Freeze}]
      BY Zenon DEF MemoType, HeardType, Keys
    <2> QED
      BY <2>1, <2>3, <2>4, <2>5 DEF TypeOK
  <1> QED
    BY <1>1, HInvHolds, PTL

\* Nothing the scorer found goes unreported by Observe, for all windows.
THEOREM PolicyCovers == Spec => []Covered
  <1>1. HInv => Covered
    BY DEF HInv, AllShown, Shown, Covered
  <1> QED
    BY <1>1, HInvHolds, PTL

\* Inside windows an alert carries the highest verdict, for all windows.
THEOREM PolicyCarries == Spec => []CarriedInFreeze
  <1>1. HInv => CarriedInFreeze
    BY DEF HInv, AllShown, Shown, CarriedInFreeze
  <1> QED
    BY <1>1, HInvHolds, PTL

\* Each violated occurrence is told by itself, for all windows.
THEOREM PolicyTellsOccurrences == Spec => []OccurrenceTold
  <1>1. HInv => OccurrenceTold
    BY DEF HInv, AllShown, Shown, ToldOf, OccurrenceTold
  <1> QED
    BY <1>1, HInvHolds, PTL
=============================================================================
