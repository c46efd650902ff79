----------------------------- MODULE HostProofs -----------------------------
(***************************************************************************)
(* Proofs about one host.  `whotyped check': its parser of sshd_config     *)
(* agrees with sshd on every list of files, so a report is honest and a    *)
(* fix that succeeds is enough, for every configuration, host and number   *)
(* of edits.  The allowlist: whatever the files, a verdict is one that the *)
(* entries in force explain, and no profile hides an agent unless it says  *)
(* so.                                                                     *)
(***************************************************************************)
EXTENDS HostCheck, Allowlist, FunctionTheorems, SequenceTheorems,
        FiniteSetTheorems, WellFoundedInduction, TLAPS

-----------------------------------------------------------------------------
(***************************************************************************)
(* Induction up to a number and definitions by recursion, from the least   *)
(* counterexample: what the theorems of the library say of an operator is  *)
(* said here of a set and of a function.                                   *)
(***************************************************************************)
Below == OpToRel(<, Nat)

\* The order of the natural numbers is well founded.
LEMMA BelowWellFounded == IsWellFoundedOn(Below, Nat)
BY NatLessThanWellFounded, Zenon DEF Below

\* Below relates a number to the greater ones.
LEMMA BelowDef == \A x, y \in Nat : x < y => <<x, y>> \in Below
BY DEF Below, OpToRel

\* A set of natural numbers that is not empty has a least element.
LEMMA Least ==
    ASSUME NEW T, T \subseteq Nat, T # {}
    PROVE  \E x \in T : \A y \in T : x <= y
<1>1. PICK x \in T : \A y \in T : ~(<<y, x>> \in Below)
  BY BelowWellFounded, WFMin, Zenon
<1>2. \A y \in T : y \in Nat /\ x \in Nat
  OBVIOUS
<1>3. \A y \in T : ~(y < x)
  BY <1>1, <1>2, BelowDef, Zenon
<1>4. \A y \in T : x <= y
  BY <1>2, <1>3
<1> QED
  BY <1>4

\* Induction on the numbers up to n.
LEMMA Induction ==
    ASSUME NEW n \in Nat, NEW S, 0 \in S, \A i \in 0 .. n - 1 : i \in S => i + 1 \in S
    PROVE  \A i \in 0 .. n : i \in S
<1> DEFINE T == {i \in 0 .. n : i \notin S}
<1> SUFFICES ASSUME T # {} PROVE FALSE
  OBVIOUS
<1>1. T \subseteq Nat
  OBVIOUS
<1>2. PICK x \in T : \A y \in T : x <= y
  BY <1>1, Least, Zenon
<1>3. x \in 0 .. n /\ x \notin S /\ x # 0
  BY <1>2
<1>4. x - 1 \in 0 .. n - 1 /\ x - 1 \in 0 .. n /\ ~(x <= x - 1) /\ (x - 1) + 1 = x
  BY <1>3
<1>5. x - 1 \in S
  BY <1>2, <1>4
<1> QED
  BY <1>3, <1>4, <1>5

Iterates(f, n, a, next) == f[0] = a /\ \A i \in 1 .. n : f[i] = next[i][f[i - 1]]

\* A function defined by recursion on 0 .. n exists.
LEMMA Recursion ==
    ASSUME NEW n \in Nat, NEW S, NEW a \in S, NEW next \in [1 .. n -> [S -> S]]
    PROVE  \E f \in [0 .. n -> S] : Iterates(f, n, a, next)
<1> DEFINE Upto(m, f) == f[0] = a /\ \A i \in 1 .. m : f[i] = next[i][f[i - 1]]
           Good == {m \in 0 .. n : \E f \in [0 .. m -> S] : Upto(m, f)}
<1>1. 0 \in Good
  <2> DEFINE f0 == [i \in 0 .. 0 |-> a]
  <2>1. f0 \in [0 .. 0 -> S] /\ Upto(0, f0)
    OBVIOUS
  <2> HIDE DEF f0, Upto
  <2>2. 0 \in 0 .. n /\ \E f \in [0 .. 0 -> S] : Upto(0, f)
    BY <2>1
  <2> QED
    BY <2>2
<1>2. ASSUME NEW m \in 0 .. n - 1, m \in Good PROVE m + 1 \in Good
  <2>1. PICK f \in [0 .. m -> S] : Upto(m, f)
    BY <1>2
  <2> DEFINE g == [i \in 0 .. m + 1 |-> IF i <= m THEN f[i] ELSE next[m + 1][f[m]]]
  <2>2. m + 1 \in 1 .. n /\ m \in 0 .. m /\ f[m] \in S /\ next[m + 1] \in [S -> S]
    OBVIOUS
  <2>3. next[m + 1][f[m]] \in S
    BY <2>2
  <2>4. g \in [0 .. m + 1 -> S]
    BY <2>3
  <2>5. g[0] = a
    BY <2>1
  <2>6. ASSUME NEW i \in 1 .. m + 1 PROVE g[i] = next[i][g[i - 1]]
    <3>1. CASE i = m + 1
      BY <3>1
    <3>2. CASE i # m + 1
      <4>1. i \in 1 .. m /\ i \in 0 .. m + 1 /\ i - 1 \in 0 .. m + 1 /\ i <= m /\ i - 1 <= m
        BY <3>2
      <4> QED
        BY <4>1, <2>1
    <3> QED
      BY <3>1, <3>2
  <2> HIDE DEF g
  <2>7. Upto(m + 1, g) /\ m + 1 \in 0 .. n
    BY <2>2, <2>5, <2>6
  <2> HIDE DEF Upto
  <2>8. \E h \in [0 .. m + 1 -> S] : Upto(m + 1, h)
    BY <2>4, <2>7
  <2> QED
    BY <2>7, <2>8
<1> HIDE DEF Good
<1>3. n \in Good
  <2>1. \A m \in 0 .. n - 1 : m \in Good => m + 1 \in Good
    BY <1>2
  <2>2. \A m \in 0 .. n : m \in Good
    BY <1>1, <2>1, Induction
  <2> QED
    BY <2>2
<1> QED
  BY <1>3 DEF Good, Iterates

\* Two functions that start alike and go on alike end alike.
LEMMA Agree ==
    ASSUME NEW n \in Nat, NEW f, NEW g, f[0] = g[0],
           \A i \in 1 .. n : f[i - 1] = g[i - 1] => f[i] = g[i]
    PROVE  f[n] = g[n]
<1> DEFINE Same == {i \in 0 .. n : f[i] = g[i]}
<1>1. 0 \in Same
  OBVIOUS
<1>2. ASSUME NEW i \in 0 .. n - 1, i \in Same PROVE i + 1 \in Same
  <2>1. i + 1 \in 1 .. n /\ i + 1 \in 0 .. n /\ (i + 1) - 1 = i
    OBVIOUS
  <2> QED
    BY <1>2, <2>1
<1> HIDE DEF Same
<1>3. \A i \in 0 .. n : i \in Same
  BY <1>1, <1>2, Induction
<1> QED
  BY <1>3 DEF Same

-----------------------------------------------------------------------------
(***************************************************************************)
(* The parser, line by line.                                               *)
(***************************************************************************)
Parsed == [level : (0 .. 7) \cup {Unset}, accept : Seq(Lines), permit : BOOLEAN,
           includes : Nat, inMatch : BOOLEAN]

\* What a line is, by its keyword.
LEMMA LineCases ==
    ASSUME NEW l \in Lines
    PROVE  /\ l.kw \in {"include", "match", "loglevel", "acceptenv", "permituserenvironment"}
           /\ l.kw = "include" <=> l = Include
           /\ l.kw = "match" => l.all \in BOOLEAN
           /\ l.kw = "loglevel" => l.rank \in 0 .. 7
           /\ l.kw = "acceptenv" => l.neg \in BOOLEAN /\ l.ai \in BOOLEAN
BY DEF Lines, Include, PermitUserEnv, Match, LogLevel, AcceptEnv

\* A line of a file leaves the parser in a state of its type.
LEMMA ParseLineType ==
    ASSUME NEW p \in Parsed, NEW l \in Lines
    PROVE  ParseLine(p, l) \in Parsed
<1>1. CASE l.kw = "include"
  BY <1>1 DEF ParseLine, Parsed
<1>2. CASE l.kw = "match"
  BY <1>2, LineCases DEF ParseLine, Parsed
<1>3. CASE l.kw \notin {"include", "match"} /\ p.inMatch
  BY <1>3 DEF ParseLine, Parsed
<1>4. CASE l.kw \notin {"include", "match"} /\ ~p.inMatch
  <2>1. ParseLine(p, l) = Set(p, l)
    BY <1>4 DEF ParseLine
  <2>2. CASE l.kw = "loglevel"
    BY <2>1, <2>2, LineCases DEF Set, Parsed
  <2>3. CASE l.kw = "acceptenv"
    <3>1. p.accept \in Seq(Lines)
      BY DEF Parsed
    <3>2. Append(p.accept, l) \in Seq(Lines)
      BY <3>1, AppendProperties
    <3>3. Set(p, l) = [p EXCEPT !.accept = Append(p.accept, l)]
      BY <2>3 DEF Set
    <3> QED
      BY <2>1, <3>2, <3>3 DEF Parsed
  <2>4. CASE l.kw \notin {"loglevel", "acceptenv"}
    BY <2>1, <2>4 DEF Set, Parsed
  <2> QED
    BY <2>2, <2>3, <2>4
<1> QED
  BY <1>1, <1>2, <1>3, <1>4

\* A file is read line by line.
LEMMA ParseLinesSteps ==
    ASSUME NEW lines \in Seq(Lines), NEW start \in Parsed
    PROVE  \E f \in [0 .. Len(lines) -> Parsed] :
              /\ f[0] = start
              /\ \A i \in 1 .. Len(lines) : f[i] = ParseLine(f[i - 1], lines[i])
              /\ ParseLines(lines, start) = f[Len(lines)]
<1> DEFINE n == Len(lines)
           F(f) == [i \in 0 .. n |-> IF i = 0 THEN start ELSE ParseLine(f[i - 1], lines[i])]
           after == CHOOSE f : f = F(f)
           next == [i \in 1 .. n |-> [p \in Parsed |-> ParseLine(p, lines[i])]]
<1>1. n \in Nat /\ \A i \in 1 .. n : lines[i] \in Lines
  BY ElementOfSeq
<1>2. next \in [1 .. n -> [Parsed -> Parsed]]
  BY <1>1, ParseLineType
<1>3. PICK f \in [0 .. n -> Parsed] : f[0] = start /\ \A i \in 1 .. n : f[i] = next[i][f[i - 1]]
  <2> HIDE DEF next, n, F, after
  <2>1. n \in Nat /\ start \in Parsed
    BY <1>1
  <2>2. \E f \in [0 .. n -> Parsed] : Iterates(f, n, start, next)
    BY ONLY <2>1, <1>2, Recursion
  <2> QED
    BY <2>2 DEF Iterates
<1>4. ASSUME NEW i \in 1 .. n PROVE f[i] = ParseLine(f[i - 1], lines[i])
  <2>1. i - 1 \in 0 .. n /\ f[i - 1] \in Parsed
    BY <1>1
  <2> QED
    BY <1>3, <2>1
<1>5. f = F(f)
  BY <1>1, <1>3, <1>4
<1>6. after = F(after)
  <2> HIDE DEF F
  <2> QED
    BY <1>5, Zenon
<1>7. ParseLines(lines, start) = after[n]
  BY Zenon DEF ParseLines
<1> HIDE DEF after, next
<1>8. after[0] = f[0] /\ \A i \in 1 .. n : after[i - 1] = f[i - 1] => after[i] = f[i]
  BY <1>1, <1>3, <1>4, <1>6
<1>9. after[n] = f[n]
  BY <1>1, <1>8, Agree
<1> QED
  BY <1>3, <1>4, <1>7, <1>9

\* What one line does to the Match block and to the count of Includes.
LEMMA ParseLineBlock ==
    ASSUME NEW p \in Parsed, NEW l \in Lines
    PROVE  /\ (ParseLine(p, l).inMatch <=> IF l.kw = "match" THEN ~l.all ELSE p.inMatch)
           /\ ParseLine(p, l).includes = p.includes + (IF l.kw = "include" THEN 1 ELSE 0)
<1>1. CASE l.kw = "include"
  BY <1>1 DEF ParseLine, Parsed
<1>2. CASE l.kw = "match"
  <2>1. ParseLine(p, l) = [p EXCEPT !.inMatch = ~l.all]
    BY <1>2 DEF ParseLine
  <2>2. (ParseLine(p, l).inMatch <=> ~l.all) /\ ParseLine(p, l).includes = p.includes
    BY <2>1 DEF Parsed
  <2>3. p.includes + (IF l.kw = "include" THEN 1 ELSE 0) = p.includes
    BY <1>2 DEF Parsed
  <2> QED
    BY <1>2, <2>2, <2>3
<1>3. CASE l.kw \notin {"include", "match"} /\ p.inMatch
  <2>1. ParseLine(p, l) = p
    BY <1>3 DEF ParseLine
  <2> QED
    BY <1>3, <2>1 DEF Parsed
<1>4. CASE l.kw \notin {"include", "match"} /\ ~p.inMatch
  <2>1. ParseLine(p, l) = Set(p, l)
    BY <1>4 DEF ParseLine
  <2>2. Set(p, l).inMatch = p.inMatch /\ Set(p, l).includes = p.includes
    BY DEF Set, Parsed
  <2> QED
    BY <1>4, <2>1, <2>2 DEF Parsed
<1> QED
  BY <1>1, <1>2, <1>3, <1>4

-----------------------------------------------------------------------------
(***************************************************************************)
(* The text sshd reads.                                                    *)
(***************************************************************************)
GlobalLine(lines, included, i) ==
    IF lines[i].kw = "match" \/ UnderMatch(lines, i) THEN <<>>
    ELSE IF lines[i] = Include THEN included ELSE <<lines[i]>>

\* A line adds lines to sshd's text or leaves it.
LEMMA GlobalLineType ==
    ASSUME NEW lines \in Seq(Lines), NEW included \in Seq(Lines), NEW i \in 1 .. Len(lines)
    PROVE  GlobalLine(lines, included, i) \in Seq(Lines)
<1>1. lines[i] \in Lines
  BY ElementOfSeq
<1>2. <<>> \in Seq(Lines) /\ <<lines[i]>> \in Seq(Lines)
  BY <1>1
<1> QED
  BY <1>2, Zenon DEF GlobalLine

\* The global text of a file is put together line by line.
LEMMA GlobalSteps ==
    ASSUME NEW lines \in Seq(Lines), NEW included \in Seq(Lines)
    PROVE  \E f \in [0 .. Len(lines) -> Seq(Lines)] :
              /\ f[0] = <<>>
              /\ \A i \in 1 .. Len(lines) : f[i] = f[i - 1] \o GlobalLine(lines, included, i)
              /\ Global(lines, included) = f[Len(lines)]
<1> DEFINE n == Len(lines)
           Line(i) == IF lines[i].kw = "match" \/ UnderMatch(lines, i) THEN <<>>
                      ELSE IF lines[i] = Include THEN included ELSE <<lines[i]>>
           F(f) == [i \in 0 .. n |-> IF i = 0 THEN <<>> ELSE f[i - 1] \o Line(i)]
           text == CHOOSE f : f = F(f)
           next == [i \in 1 .. n |-> [t \in Seq(Lines) |-> t \o GlobalLine(lines, included, i)]]
<1>1. n \in Nat /\ <<>> \in Seq(Lines)
  BY EmptySeq
<1>2. next \in [1 .. n -> [Seq(Lines) -> Seq(Lines)]]
  <2>1. ASSUME NEW i \in 1 .. n, NEW t \in Seq(Lines)
        PROVE  t \o GlobalLine(lines, included, i) \in Seq(Lines)
    BY GlobalLineType, ConcatProperties
  <2> QED
    BY <2>1
<1>3. PICK f \in [0 .. n -> Seq(Lines)] :
         f[0] = <<>> /\ \A i \in 1 .. n : f[i] = next[i][f[i - 1]]
  <2> HIDE DEF next, n, F, text, Line
  <2>1. \E f \in [0 .. n -> Seq(Lines)] : Iterates(f, n, <<>>, next)
    BY ONLY <1>1, <1>2, Recursion
  <2> QED
    BY <2>1 DEF Iterates
<1>4. ASSUME NEW i \in 1 .. n PROVE f[i] = f[i - 1] \o GlobalLine(lines, included, i)
  <2>1. \A t \in Seq(Lines) : next[i][t] = t \o GlobalLine(lines, included, i)
    BY Zenon
  <2> HIDE DEF next
  <2>2. i - 1 \in 0 .. n
    BY <1>1
  <2>3. f[i - 1] \in Seq(Lines) /\ f[i] = next[i][f[i - 1]]
    BY <1>3, <2>2, Zenon
  <2> QED
    BY <2>1, <2>3, Zenon
<1>5. \A i : Line(i) = GlobalLine(lines, included, i)
  BY Zenon DEF GlobalLine
<1>6. f = F(f)
  <2> HIDE DEF Line
  <2> QED
    BY <1>1, <1>3, <1>4, <1>5
<1>7. text = F(text)
  <2> HIDE DEF F
  <2> QED
    BY <1>6, Zenon
<1>8. Global(lines, included) = text[n]
  BY Zenon DEF Global
<1> HIDE DEF text, next, Line
<1>9. text[0] = f[0] /\ \A i \in 1 .. n : text[i - 1] = f[i - 1] => text[i] = f[i]
  <2>1. ASSUME NEW i \in 0 .. n PROVE text[i] = IF i = 0 THEN <<>> ELSE text[i - 1] \o Line(i)
    BY <1>7, Zenon
  <2>2. 0 \in 0 .. n /\ \A i \in 1 .. n : i \in 0 .. n /\ i # 0
    BY <1>1
  <2> QED
    BY <1>3, <1>4, <1>5, <2>1, <2>2, Zenon
<1>10. text[n] = f[n]
  BY <1>1, <1>9, Agree
<1> QED
  BY <1>3, <1>4, <1>8, <1>10

\* The text sshd reads of a file is a sequence of lines.
LEMMA GlobalType ==
    ASSUME NEW lines \in Seq(Lines), NEW included \in Seq(Lines)
    PROVE  Global(lines, included) \in Seq(Lines)
<1>1. PICK f \in [0 .. Len(lines) -> Seq(Lines)] : Global(lines, included) = f[Len(lines)]
  BY GlobalSteps
<1>2. Len(lines) \in 0 .. Len(lines)
  OBVIOUS
<1> QED
  BY <1>1, <1>2

\* A file does not begin under a Match.
LEMMA UnderMatchFirst == \A lines : ~UnderMatch(lines, 1)
BY DEF UnderMatch

\* Whether a line stands under a Match depends on the line before it.
LEMMA UnderMatchStep ==
    ASSUME NEW lines \in Seq(Lines), NEW i \in 1 .. Len(lines)
    PROVE  UnderMatch(lines, i + 1)
              <=> IF lines[i].kw = "match" THEN ~lines[i].all ELSE UnderMatch(lines, i)
<1>1. Len(lines) \in Nat
  OBVIOUS
<1>2. CASE lines[i].kw = "match"
  <2>1. lines[i].all => ~UnderMatch(lines, i + 1)
    BY <1>1, <1>2 DEF UnderMatch
  <2>2. ~lines[i].all => UnderMatch(lines, i + 1)
    BY <1>1, <1>2 DEF UnderMatch
  <2> QED
    BY <1>2, <2>1, <2>2
<1>3. CASE lines[i].kw # "match"
  <2>1. UnderMatch(lines, i) => UnderMatch(lines, i + 1)
    BY <1>1, <1>3 DEF UnderMatch
  <2>2. UnderMatch(lines, i + 1) => UnderMatch(lines, i)
    BY <1>1, <1>3 DEF UnderMatch
  <2> QED
    BY <1>3, <2>1, <2>2
<1> QED
  BY <1>2, <1>3

-----------------------------------------------------------------------------
(***************************************************************************)
(* The settings a text makes, for the parser and for sshd.                 *)
(***************************************************************************)

\* Min of a set of naturals that is not empty is its least element.
LEMMA LeastIsMin ==
    ASSUME NEW T, T \subseteq Nat, T # {}
    PROVE  Min(T) \in T /\ \A y \in T : Min(T) <= y
<1>1. \E x \in T : \A y \in T : x <= y
  BY Least, Zenon
<1> QED
  BY <1>1, Zenon DEF Min

\* The first log level of a text, found at index i.
LEMMA FirstLevelAt ==
    ASSUME NEW t \in Seq(Lines), NEW d, NEW i \in 1 .. Len(t), t[i].kw = "loglevel",
           \A j \in 1 .. i - 1 : t[j].kw # "loglevel"
    PROVE  FirstLevel(t, d) = t[i].rank
<1> DEFINE at == {j \in DOMAIN t : t[j].kw = "loglevel"}
<1>1. i \in at /\ at \subseteq Nat /\ DOMAIN t = 1 .. Len(t)
  OBVIOUS
<1>2. Min(at) \in at /\ \A y \in at : Min(at) <= y
  <2> HIDE DEF at
  <2> QED
    BY <1>1, LeastIsMin
<1>3. \A m \in at : (\A y \in at : m <= y) => m = i
  BY <1>1
<1>4. Min(at) = i
  BY <1>2, <1>3, Zenon
<1>5. FirstLevel(t, d) = IF at = {} THEN d ELSE t[Min(at)].rank
  BY Zenon DEF FirstLevel
<1> QED
  BY <1>1, <1>4, <1>5

\* Without a LogLevel the default holds.
LEMMA FirstLevelNone ==
    ASSUME NEW t \in Seq(Lines), NEW d, \A j \in 1 .. Len(t) : t[j].kw # "loglevel"
    PROVE  FirstLevel(t, d) = d
<1> DEFINE at == {j \in DOMAIN t : t[j].kw = "loglevel"}
<1>1. at = {}
  OBVIOUS
<1>2. FirstLevel(t, d) = IF at = {} THEN d ELSE t[Min(at)].rank
  BY Zenon DEF FirstLevel
<1> QED
  BY <1>1, <1>2

\* The first level of a text, if there is one, and where it stands.
LEMMA FirstLevelExists ==
    ASSUME NEW t \in Seq(Lines)
    PROVE  \/ \A j \in 1 .. Len(t) : t[j].kw # "loglevel"
           \/ \E i \in 1 .. Len(t) :
                 t[i].kw = "loglevel" /\ \A j \in 1 .. i - 1 : t[j].kw # "loglevel"
<1> DEFINE at == {j \in 1 .. Len(t) : t[j].kw = "loglevel"}
<1> SUFFICES ASSUME at # {} PROVE \E i \in 1 .. Len(t) :
                 t[i].kw = "loglevel" /\ \A j \in 1 .. i - 1 : t[j].kw # "loglevel"
  OBVIOUS
<1>1. at \subseteq Nat
  OBVIOUS
<1>2. PICK i \in at : \A y \in at : i <= y
  BY <1>1, Least, Zenon
<1>3. ASSUME NEW j \in 1 .. i - 1 PROVE t[j].kw # "loglevel"
  BY <1>2
<1> QED
  BY <1>2, <1>3

\* The first level of two texts, one after the other.
LEMMA FirstLevelConcat ==
    ASSUME NEW s \in Seq(Lines), NEW t \in Seq(Lines), NEW d
    PROVE  FirstLevel(s \o t, d) = FirstLevel(s, FirstLevel(t, d))
<1>1. /\ s \o t \in Seq(Lines)
      /\ Len(s \o t) = Len(s) + Len(t)
      /\ \A i \in 1 .. Len(s) : (s \o t)[i] = s[i]
      /\ \A i \in 1 .. Len(t) : (s \o t)[Len(s) + i] = t[i]
      /\ Len(s) \in Nat /\ Len(t) \in Nat
  BY ConcatProperties
<1>2. CASE \E i \in 1 .. Len(s) :
             s[i].kw = "loglevel" /\ \A j \in 1 .. i - 1 : s[j].kw # "loglevel"
  <2>1. PICK i \in 1 .. Len(s) :
           s[i].kw = "loglevel" /\ \A j \in 1 .. i - 1 : s[j].kw # "loglevel"
    BY <1>2
  <2>2. FirstLevel(s, FirstLevel(t, d)) = s[i].rank
    BY <2>1, FirstLevelAt
  <2>3. i \in 1 .. Len(s \o t) /\ (s \o t)[i] = s[i]
        /\ \A j \in 1 .. i - 1 : (s \o t)[j].kw # "loglevel"
    BY <1>1, <2>1
  <2>4. FirstLevel(s \o t, d) = s[i].rank
    <3> DEFINE u == s \o t
    <3>1. u \in Seq(Lines) /\ i \in 1 .. Len(u) /\ u[i].kw = "loglevel" /\ u[i] = s[i]
          /\ \A j \in 1 .. i - 1 : u[j].kw # "loglevel"
      BY <1>1, <2>1, <2>3
    <3> HIDE DEF u
    <3>2. FirstLevel(u, d) = u[i].rank
      BY ONLY <3>1, FirstLevelAt
    <3> QED
      BY <3>1, <3>2 DEF u
  <2> QED
    BY <2>2, <2>4
<1>3. CASE \A j \in 1 .. Len(s) : s[j].kw # "loglevel"
  <2>1. FirstLevel(s, FirstLevel(t, d)) = FirstLevel(t, d)
    BY <1>3, FirstLevelNone
  <2>2. CASE \E i \in 1 .. Len(t) :
               t[i].kw = "loglevel" /\ \A j \in 1 .. i - 1 : t[j].kw # "loglevel"
    <3>1. PICK i \in 1 .. Len(t) :
             t[i].kw = "loglevel" /\ \A j \in 1 .. i - 1 : t[j].kw # "loglevel"
      BY <2>2
    <3>2. Len(s) + i \in 1 .. Len(s \o t) /\ (s \o t)[Len(s) + i] = t[i]
      BY <1>1
    <3>3. ASSUME NEW j \in 1 .. Len(s) + i - 1 PROVE (s \o t)[j].kw # "loglevel"
      <4>1. CASE j <= Len(s)
        BY <1>1, <1>3, <4>1
      <4>2. CASE j > Len(s)
        <5>1. j - Len(s) \in 1 .. i - 1 /\ j - Len(s) \in 1 .. Len(t) /\ Len(s) + (j - Len(s)) = j
          BY <1>1, <4>2
        <5>2. (s \o t)[j] = t[j - Len(s)]
          BY <1>1, <5>1
        <5> QED
          BY <3>1, <5>1, <5>2
      <4> QED
        BY <1>1, <4>1, <4>2
    <3>4. FirstLevel(s \o t, d) = t[i].rank
      <4> DEFINE u == s \o t
                 k == Len(s) + i
      <4>1. u \in Seq(Lines) /\ k \in 1 .. Len(u) /\ u[k].kw = "loglevel" /\ u[k] = t[i]
            /\ \A j \in 1 .. k - 1 : u[j].kw # "loglevel"
        BY <1>1, <3>1, <3>2, <3>3
      <4> HIDE DEF u, k
      <4>2. FirstLevel(u, d) = u[k].rank
        BY ONLY <4>1, FirstLevelAt
      <4> QED
        BY <4>1, <4>2 DEF u
    <3>5. FirstLevel(t, d) = t[i].rank
      BY <3>1, FirstLevelAt
    <3> QED
      BY <2>1, <3>4, <3>5
  <2>3. CASE \A j \in 1 .. Len(t) : t[j].kw # "loglevel"
    <3>1. ASSUME NEW j \in 1 .. Len(s \o t) PROVE (s \o t)[j].kw # "loglevel"
      <4>1. CASE j <= Len(s)
        BY <1>1, <1>3, <4>1
      <4>2. CASE j > Len(s)
        <5>1. j - Len(s) \in 1 .. Len(t) /\ Len(s) + (j - Len(s)) = j
          BY <1>1, <4>2
        <5>2. (s \o t)[j] = t[j - Len(s)]
          BY <1>1, <5>1
        <5> QED
          BY <2>3, <5>1, <5>2
      <4> QED
        BY <1>1, <4>1, <4>2
    <3>2. FirstLevel(s \o t, d) = d
      BY <1>1, <3>1, FirstLevelNone
    <3>3. FirstLevel(t, d) = d
      BY <2>3, FirstLevelNone
    <3> QED
      BY <2>1, <3>2, <3>3
  <2> QED
    BY <2>2, <2>3, FirstLevelExists
<1> QED
  BY <1>2, <1>3, FirstLevelExists

\* The level of a text and what stands for none.
LEMMA FirstLevelDefault ==
    ASSUME NEW t \in Seq(Lines), NEW d
    PROVE  /\ FirstLevel(t, Unset) \in (0 .. 7) \cup {Unset}
           /\ FirstLevel(t, d) = IF FirstLevel(t, Unset) = Unset THEN d
                                 ELSE FirstLevel(t, Unset)
<1>1. CASE \A j \in 1 .. Len(t) : t[j].kw # "loglevel"
  BY <1>1, FirstLevelNone
<1>2. CASE \E i \in 1 .. Len(t) :
             t[i].kw = "loglevel" /\ \A j \in 1 .. i - 1 : t[j].kw # "loglevel"
  <2>1. PICK i \in 1 .. Len(t) :
           t[i].kw = "loglevel" /\ \A j \in 1 .. i - 1 : t[j].kw # "loglevel"
    BY <1>2
  <2>2. FirstLevel(t, Unset) = t[i].rank /\ FirstLevel(t, d) = t[i].rank
    BY <2>1, FirstLevelAt
  <2>3. t[i] \in Lines
    BY ElementOfSeq
  <2>4. t[i].rank \in 0 .. 7
    BY <2>1, <2>3, LineCases
  <2>5. Unset \notin 0 .. 7
    BY DEF Unset
  <2> QED
    BY <2>2, <2>4, <2>5
<1> QED
  BY <1>1, <1>2, FirstLevelExists

\* q is what the parser knows after p and a text without Match and Include.
Reads(p, text, q) ==
    /\ q.level = (IF p.level = Unset THEN FirstLevel(text, Unset) ELSE p.level)
    /\ Range(q.accept) = Range(p.accept) \cup {l \in Range(text) : l.kw = "acceptenv"}
    /\ q.permit <=> p.permit \/ \E l \in Range(text) : l.kw = "permituserenvironment"

\* A line that sets nothing.
LEMMA ReadsNothing ==
    ASSUME NEW p \in Parsed, NEW q \in Parsed,
           q.level = p.level, q.accept = p.accept, q.permit = p.permit
    PROVE  Reads(p, <<>>, q)
<1>1. <<>> \in Seq(Lines) /\ Len(<<>>) = 0 /\ Range(<<>>) = {}
  BY DEF Range
<1>2. FirstLevel(<<>>, Unset) = Unset
  <2>1. \A t \in Seq(Lines) : Len(t) = 0 => \A j \in 1 .. Len(t) : t[j].kw # "loglevel"
    OBVIOUS
  <2> QED
    BY <1>1, <2>1, FirstLevelNone
<1> QED
  BY <1>1, <1>2 DEF Reads

\* A line that sets a value outside every Match.
LEMMA ReadsSet ==
    ASSUME NEW p \in Parsed, NEW l \in Lines, l.kw \notin {"include", "match"}
    PROVE  Reads(p, <<l>>, Set(p, l))
<1> DEFINE t == <<l>>
<1>1. t \in Seq(Lines) /\ Len(t) = 1 /\ t[1] = l /\ Range(t) = {l}
  BY DEF Range
<1> HIDE DEF t
<1>2. CASE l.kw = "loglevel"
  <2>1. FirstLevel(t, Unset) = l.rank
    BY <1>1, <1>2, FirstLevelAt
  <2>2. Set(p, l) = [p EXCEPT !.level = IF p.level = Unset THEN l.rank ELSE p.level]
    BY <1>2 DEF Set
  <2>3. /\ Set(p, l).level = (IF p.level = Unset THEN l.rank ELSE p.level)
        /\ Set(p, l).accept = p.accept /\ Set(p, l).permit = p.permit
    BY <2>2 DEF Parsed
  <2>4. Reads(p, t, Set(p, l))
    BY <1>1, <1>2, <2>1, <2>3 DEF Reads
  <2> QED
    BY <2>4 DEF t
<1>3. CASE l.kw # "loglevel"
  <2>1. FirstLevel(t, Unset) = Unset
    BY <1>1, <1>3, FirstLevelNone
  <2>2. CASE l.kw = "acceptenv"
    <3>1. Set(p, l) = [p EXCEPT !.accept = Append(p.accept, l)]
      BY <2>2 DEF Set
    <3>2. /\ Set(p, l).level = p.level /\ Set(p, l).permit = p.permit
          /\ Set(p, l).accept = Append(p.accept, l) /\ p.accept \in Seq(Lines)
      BY <3>1 DEF Parsed
    <3>3. Range(Append(p.accept, l)) = Range(p.accept) \cup {l}
      BY <3>2, AppendProperties DEF Range
    <3>4. Reads(p, t, Set(p, l))
      BY <1>1, <2>1, <2>2, <3>2, <3>3 DEF Reads, Parsed
    <3> QED
      BY <3>4 DEF t
  <2>3. CASE l.kw = "permituserenvironment"
    <3>1. Set(p, l) = [p EXCEPT !.permit = TRUE]
      BY <2>3 DEF Set
    <3>2. /\ Set(p, l).level = p.level /\ Set(p, l).permit = TRUE
          /\ Set(p, l).accept = p.accept
      BY <3>1 DEF Parsed
    <3>3. Reads(p, t, Set(p, l))
      BY <1>1, <2>1, <2>3, <3>2 DEF Reads, Parsed
    <3> QED
      BY <3>3 DEF t
  <2> QED
    BY <1>3, <2>2, <2>3, LineCases
<1> QED
  BY <1>2, <1>3

\* One text after the other.
LEMMA ReadsThen ==
    ASSUME NEW p \in Parsed, NEW q \in Parsed, NEW r \in Parsed,
           NEW s \in Seq(Lines), NEW t \in Seq(Lines), Reads(p, s, q), Reads(q, t, r)
    PROVE  Reads(p, s \o t, r)
<1>1. s \o t \in Seq(Lines) /\ Range(s \o t) = Range(s) \cup Range(t)
  BY ConcatProperties, RangeConcatenation
<1>2. FirstLevel(s \o t, Unset) = FirstLevel(s, FirstLevel(t, Unset))
  BY FirstLevelConcat
<1>3. FirstLevel(s, FirstLevel(t, Unset))
         = IF FirstLevel(s, Unset) = Unset THEN FirstLevel(t, Unset) ELSE FirstLevel(s, Unset)
  BY FirstLevelDefault, Zenon
<1>4. r.level = IF p.level = Unset THEN FirstLevel(s \o t, Unset) ELSE p.level
  BY <1>2, <1>3 DEF Reads
<1> QED
  BY <1>1, <1>4 DEF Reads

\* What the parser takes from one line.
LEMMA ParseLineReads ==
    ASSUME NEW p \in Parsed, NEW l \in Lines
    PROVE  Reads(p, IF l.kw \in {"include", "match"} \/ p.inMatch THEN <<>> ELSE <<l>>,
                 ParseLine(p, l))
<1>1. CASE l.kw \in {"include", "match"} \/ p.inMatch
  <2>1. /\ ParseLine(p, l).level = p.level /\ ParseLine(p, l).accept = p.accept
        /\ ParseLine(p, l).permit = p.permit
    BY <1>1 DEF ParseLine, Parsed
  <2>2. Reads(p, <<>>, ParseLine(p, l))
    BY <2>1, ParseLineType, ReadsNothing
  <2> QED
    BY <1>1, <2>2
<1>2. CASE l.kw \notin {"include", "match"} /\ ~p.inMatch
  <2>1. ParseLine(p, l) = Set(p, l)
    BY <1>2 DEF ParseLine
  <2>2. Reads(p, <<l>>, ParseLine(p, l))
    BY <1>2, <2>1, ReadsSet
  <2> QED
    BY <1>2, <2>2
<1> QED
  BY <1>1, <1>2

\* A file without an Include that counts, read by the parser and by sshd.
LEMMA ParseLinesReads ==
    ASSUME NEW lines \in Seq(Lines), NEW p \in Parsed, ~p.inMatch
    PROVE  /\ ParseLines(lines, p) \in Parsed
           /\ Reads(p, Global(lines, <<>>), ParseLines(lines, p))
           /\ ParseLines(lines, p).includes >= p.includes
<1> DEFINE n == Len(lines)
<1>1. n \in Nat /\ <<>> \in Seq(Lines)
  BY EmptySeq
<1>2. PICK f \in [0 .. n -> Parsed] :
         /\ f[0] = p
         /\ \A i \in 1 .. n : f[i] = ParseLine(f[i - 1], lines[i])
         /\ ParseLines(lines, p) = f[n]
  BY ParseLinesSteps
<1>3. PICK g \in [0 .. n -> Seq(Lines)] :
         /\ g[0] = <<>>
         /\ \A i \in 1 .. n : g[i] = g[i - 1] \o GlobalLine(lines, <<>>, i)
         /\ Global(lines, <<>>) = g[n]
  BY <1>1, GlobalSteps
<1> DEFINE Good == {i \in 0 .. n : /\ Reads(p, g[i], f[i])
                                   /\ f[i].inMatch <=> UnderMatch(lines, i + 1)
                                   /\ f[i].includes >= p.includes}
<1>4. 0 \in Good
  <2>1. Reads(p, <<>>, p)
    BY ReadsNothing
  <2>2. p.includes \in Nat /\ 0 + 1 = 1
    BY DEF Parsed
  <2> QED
    BY <1>1, <1>2, <1>3, <2>1, <2>2, UnderMatchFirst
<1>5. ASSUME NEW k \in 0 .. n - 1, k \in Good PROVE k + 1 \in Good
  <2> DEFINE i == k + 1
             l == lines[i]
             line == GlobalLine(lines, <<>>, i)
  <2>1. i \in 1 .. n /\ i \in 0 .. n /\ k = i - 1 /\ k \in 0 .. n
    BY <1>1
  <2>2. l \in Lines /\ f[k] \in Parsed /\ f[i] \in Parsed /\ g[k] \in Seq(Lines)
    BY <2>1, ElementOfSeq
  <2>3. f[i] = ParseLine(f[k], l) /\ g[i] = g[k] \o line
    BY <1>2, <1>3, <2>1
  <2>4. line \in Seq(Lines)
    BY <1>1, <2>1, GlobalLineType
  <2>5. f[k].inMatch <=> UnderMatch(lines, i)
    BY <1>5
  <2>6. line = IF l.kw \in {"include", "match"} \/ f[k].inMatch THEN <<>> ELSE <<l>>
    BY <2>2, <2>5, LineCases DEF GlobalLine
  <2>7. UnderMatch(lines, i + 1) <=> IF l.kw = "match" THEN ~l.all ELSE UnderMatch(lines, i)
    BY <2>1, UnderMatchStep
  <2>8. Reads(p, g[k], f[k]) /\ f[k].includes >= p.includes
    BY <1>5
  <2> HIDE DEF i, l, line, Good
  <2>9. Reads(f[k], line, f[i])
    BY <2>2, <2>3, <2>6, ParseLineReads
  <2>10. Reads(p, g[k] \o line, f[i])
    BY <2>2, <2>4, <2>8, <2>9, ReadsThen
  <2>11. f[i].inMatch <=> UnderMatch(lines, i + 1)
    BY <2>2, <2>3, <2>5, <2>7, ParseLineBlock
  <2>12. f[i].includes = f[k].includes + (IF l.kw = "include" THEN 1 ELSE 0)
    BY <2>2, <2>3, ParseLineBlock
  <2>13. f[i].includes >= p.includes
    BY <2>2, <2>8, <2>12 DEF Parsed
  <2>14. i \in Good
    BY <2>1, <2>3, <2>10, <2>11, <2>13 DEF Good
  <2> QED
    BY <2>14 DEF i
<1> HIDE DEF Good
<1>6. \A i \in 0 .. n : i \in Good
  BY <1>1, <1>4, <1>5, Induction
<1>7. n \in Good /\ f[n] \in Parsed
  BY <1>1, <1>6
<1> QED
  BY <1>2, <1>3, <1>7 DEF Good

\* An Include outside every Match: the drop-ins.
LEMMA ExpandReads ==
    ASSUME admin \in Seq(Lines), own \in Seq(Lines), NEW p \in Parsed, ~p.inMatch
    PROVE  /\ Expand(p) \in Parsed
           /\ Reads(p, Global(admin, <<>>) \o Global(own, <<>>), Expand(p))
           /\ Expand(p).includes >= p.includes
           /\ ~Expand(p).inMatch
<1>1. ASSUME NEW file \in Seq(Lines), NEW q \in Parsed, ~q.inMatch
      PROVE  /\ ExpandFile(file, q) \in Parsed
             /\ Reads(q, Global(file, <<>>), ExpandFile(file, q))
             /\ ExpandFile(file, q).includes >= q.includes
             /\ ~ExpandFile(file, q).inMatch
  <2> DEFINE r == ParseLines(file, q)
             e == ExpandFile(file, q)
  <2>1. r \in Parsed /\ Reads(q, Global(file, <<>>), r) /\ r.includes >= q.includes
    BY <1>1, ParseLinesReads
  <2>2. e = [r EXCEPT !.inMatch = q.inMatch]
    BY DEF ExpandFile
  <2> HIDE DEF r, e
  <2>3. /\ e \in Parsed /\ e.level = r.level /\ e.accept = r.accept /\ e.permit = r.permit
        /\ e.includes = r.includes /\ e.inMatch = q.inMatch
    BY <2>1, <2>2 DEF Parsed
  <2>4. Reads(q, Global(file, <<>>), e)
    BY <2>1, <2>3 DEF Reads
  <2>5. /\ e \in Parsed /\ Reads(q, Global(file, <<>>), e)
        /\ e.includes >= q.includes /\ ~e.inMatch
    BY <1>1, <2>1, <2>3, <2>4
  <2> QED
    BY <2>5 DEF e
<1> DEFINE q == ExpandFile(admin, p)
           r == ExpandFile(own, q)
<1>2. /\ q \in Parsed /\ Reads(p, Global(admin, <<>>), q)
      /\ q.includes >= p.includes /\ ~q.inMatch
  BY <1>1
<1> HIDE DEF q
<1>3. /\ r \in Parsed /\ Reads(q, Global(own, <<>>), r)
      /\ r.includes >= q.includes /\ ~r.inMatch
  BY <1>1, <1>2
<1>4. Expand(p) = r
  BY DEF Expand, q
<1> HIDE DEF r
<1>5. Global(admin, <<>>) \in Seq(Lines) /\ Global(own, <<>>) \in Seq(Lines)
  BY GlobalType, EmptySeq
<1>6. Reads(p, Global(admin, <<>>) \o Global(own, <<>>), r)
  BY <1>2, <1>3, <1>5, ReadsThen
<1>7. r.includes >= p.includes
  BY <1>2, <1>3 DEF Parsed
<1> QED
  BY <1>3, <1>4, <1>6, <1>7

\* At a line of sshd_config the parser reads what sshd does: nothing under a
\* Match, the drop-ins at an Include, the line itself otherwise.
LEMMA ParseMainLineFacts ==
    ASSUME admin \in Seq(Lines), own \in Seq(Lines), NEW p \in Parsed, NEW l \in Lines
    PROVE  /\ ParseMainLine(p, l) \in Parsed
           /\ Reads(p, IF l.kw = "match" \/ p.inMatch THEN <<>>
                       ELSE IF l = Include THEN Global(admin, <<>>) \o Global(own, <<>>)
                       ELSE <<l>>, ParseMainLine(p, l))
           /\ ParseMainLine(p, l).inMatch <=> ParseLine(p, l).inMatch
           /\ ParseMainLine(p, l).includes >= ParseLine(p, l).includes
<1> DEFINE included == Global(admin, <<>>) \o Global(own, <<>>)
           q == ParseLine(p, l)
           r == ParseMainLine(p, l)
<1>1. q \in Parsed
  BY ParseLineType
<1>2. included \in Seq(Lines) /\ <<>> \in Seq(Lines)
  BY GlobalType, EmptySeq, ConcatProperties
<1> HIDE DEF included
<1>3. CASE l.kw = "include" /\ ~p.inMatch
  <2>1. r = Expand(q)
    BY <1>3 DEF ParseMainLine
  <2>2. ~q.inMatch
    BY <1>3, ParseLineBlock
  <2>3. q.level = p.level /\ q.accept = p.accept /\ q.permit = p.permit
    BY <1>3 DEF ParseLine, Parsed
  <2> HIDE DEF q, r
  <2>4. /\ Expand(q) \in Parsed /\ Reads(q, included, Expand(q))
        /\ Expand(q).includes >= q.includes /\ ~Expand(q).inMatch
    BY <1>1, <2>2, ExpandReads DEF included
  <2>5. Reads(p, included, Expand(q))
    BY <2>3, <2>4 DEF Reads
  <2>6. l = Include /\ l.kw # "match" /\ ~p.inMatch
    BY <1>3, LineCases
  <2> QED
    BY <2>1, <2>2, <2>4, <2>5, <2>6 DEF included, q, r
<1>4. CASE ~(l.kw = "include" /\ ~p.inMatch)
  <2>1. r = q
    BY <1>4 DEF ParseMainLine
  <2>2. Reads(p, IF l.kw \in {"include", "match"} \/ p.inMatch THEN <<>> ELSE <<l>>, q)
    BY ParseLineReads
  <2>3. (IF l.kw \in {"include", "match"} \/ p.inMatch THEN <<>> ELSE <<l>>)
           = IF l.kw = "match" \/ p.inMatch THEN <<>> ELSE IF l = Include THEN included ELSE <<l>>
    BY <1>4, LineCases
  <2> HIDE DEF q, r
  <2>4. Reads(p, IF l.kw = "match" \/ p.inMatch THEN <<>>
                 ELSE IF l = Include THEN included ELSE <<l>>, r)
    BY <2>1, <2>2, <2>3
  <2>5. r \in Parsed /\ (r.inMatch <=> q.inMatch) /\ r.includes >= q.includes
    BY <1>1, <2>1 DEF Parsed
  <2> QED
    BY <2>4, <2>5 DEF included, q, r
<1> QED
  BY <1>3, <1>4

\* sshd_config is read line by line.
LEMMA ParseMainSteps ==
    ASSUME main \in Seq(Lines), admin \in Seq(Lines), own \in Seq(Lines)
    PROVE  \E f \in [0 .. Len(main) -> Parsed] :
              /\ f[0] = NoSettings
              /\ \A i \in 1 .. Len(main) : f[i] = ParseMainLine(f[i - 1], main[i])
              /\ ParseSSHDConfigFS = f[Len(main)]
<1> DEFINE n == Len(main)
           F(f) == [i \in 0 .. n |->
                      IF i = 0 THEN NoSettings ELSE ParseMainLine(f[i - 1], main[i])]
           after == CHOOSE f : f = F(f)
           next == [i \in 1 .. n |-> [p \in Parsed |-> ParseMainLine(p, main[i])]]
<1>1. n \in Nat /\ \A i \in 1 .. n : main[i] \in Lines
  BY ElementOfSeq
<1>2. next \in [1 .. n -> [Parsed -> Parsed]]
  <2>1. ASSUME NEW i \in 1 .. n, NEW p \in Parsed PROVE ParseMainLine(p, main[i]) \in Parsed
    BY <1>1, ParseMainLineFacts
  <2> QED
    BY <2>1
<1>3. PICK f \in [0 .. n -> Parsed] :
         f[0] = NoSettings /\ \A i \in 1 .. n : f[i] = next[i][f[i - 1]]
  <2> HIDE DEF next, n, F, after
  <2>1. NoSettings \in Parsed
    BY DEF NoSettings, Parsed
  <2>2. n \in Nat
    BY <1>1
  <2>3. \E f \in [0 .. n -> Parsed] : Iterates(f, n, NoSettings, next)
    BY ONLY <2>1, <2>2, <1>2, Recursion
  <2> QED
    BY <2>3 DEF Iterates
<1>4. ASSUME NEW i \in 1 .. n PROVE f[i] = ParseMainLine(f[i - 1], main[i])
  <2> HIDE DEF n, next, F, after
  <2>1. i - 1 \in 0 .. n
    BY <1>1
  <2>2. f[i - 1] \in Parsed
    BY <2>1
  <2>3. f[i] = next[i][f[i - 1]]
    BY <1>3
  <2> QED
    BY <2>2, <2>3 DEF next
<1>5. f = F(f)
  BY <1>1, <1>3, <1>4
<1>6. after = F(after)
  <2> HIDE DEF F
  <2> QED
    BY <1>5, Zenon
<1>7. ParseSSHDConfigFS = after[n]
  BY Zenon DEF ParseSSHDConfigFS
<1> HIDE DEF after, next
<1>8. after[0] = f[0] /\ \A i \in 1 .. n : after[i - 1] = f[i - 1] => after[i] = f[i]
  BY <1>1, <1>3, <1>4, <1>6
<1>9. after[n] = f[n]
  BY <1>1, <1>8, Agree
<1> QED
  BY <1>3, <1>4, <1>7, <1>9

GlobalText == Global(main, Global(admin, <<>>) \o Global(own, <<>>))

TypedText == main \in Seq(Lines) /\ admin \in Seq(Lines) /\ own \in Seq(Lines)

\* The text sshd reads over all files is a sequence of lines.
LEMMA GlobalTextType ==
    ASSUME TypedText PROVE GlobalText \in Seq(Lines)
<1>1. Global(admin, <<>>) \in Seq(Lines) /\ Global(own, <<>>) \in Seq(Lines)
  BY GlobalType, EmptySeq DEF TypedText
<1>2. Global(admin, <<>>) \o Global(own, <<>>) \in Seq(Lines)
  BY <1>1, ConcatProperties
<1> QED
  BY <1>2, GlobalType DEF TypedText, GlobalText

\* The parser agrees with sshd: it takes from the files what their global
\* text says, and counts at least the Includes it counts without expanding
\* them (sshd.go parse, include).
LEMMA ParserReads ==
    ASSUME TypedText
    PROVE  /\ ParseSSHDConfigFS \in Parsed
           /\ Reads(NoSettings, GlobalText, ParseSSHDConfigFS)
           /\ ParseSSHDConfig \in Parsed
           /\ ParseSSHDConfigFS.includes >= ParseSSHDConfig.includes
<1> USE DEF TypedText
<1> DEFINE n == Len(main)
           included == Global(admin, <<>>) \o Global(own, <<>>)
<1>1. n \in Nat /\ NoSettings \in Parsed
  BY DEF NoSettings, Parsed
<1>2. included \in Seq(Lines) /\ <<>> \in Seq(Lines)
  BY GlobalType, EmptySeq, ConcatProperties
<1>3. PICK f \in [0 .. n -> Parsed] :
         /\ f[0] = NoSettings
         /\ \A i \in 1 .. n : f[i] = ParseMainLine(f[i - 1], main[i])
         /\ ParseSSHDConfigFS = f[n]
  BY ParseMainSteps
<1>4. PICK h \in [0 .. n -> Parsed] :
         /\ h[0] = NoSettings
         /\ \A i \in 1 .. n : h[i] = ParseLine(h[i - 1], main[i])
         /\ ParseLines(main, NoSettings) = h[n]
  BY <1>1, ParseLinesSteps
<1> HIDE DEF included
<1>5. PICK g \in [0 .. n -> Seq(Lines)] :
         /\ g[0] = <<>>
         /\ \A i \in 1 .. n : g[i] = g[i - 1] \o GlobalLine(main, included, i)
         /\ Global(main, included) = g[n]
  BY <1>2, GlobalSteps
<1> DEFINE Good == {i \in 0 .. n : /\ Reads(NoSettings, g[i], f[i])
                                   /\ f[i].inMatch <=> UnderMatch(main, i + 1)
                                   /\ h[i].inMatch <=> UnderMatch(main, i + 1)
                                   /\ f[i].includes >= h[i].includes}
<1>6. 0 \in Good
  <2>1. Reads(NoSettings, <<>>, NoSettings)
    BY <1>1, ReadsNothing
  <2>2. ~NoSettings.inMatch /\ NoSettings.includes = 0 /\ 0 + 1 = 1
    BY DEF NoSettings
  <2> QED
    BY <1>1, <1>3, <1>4, <1>5, <2>1, <2>2, UnderMatchFirst
<1>7. ASSUME NEW k \in 0 .. n - 1, k \in Good PROVE k + 1 \in Good
  <2> DEFINE i == k + 1
             l == main[i]
             line == GlobalLine(main, included, i)
  <2>1. i \in 1 .. n /\ i \in 0 .. n /\ k = i - 1 /\ k \in 0 .. n
    BY <1>1
  <2>2. l \in Lines
    BY <2>1, ElementOfSeq
  <2>3. /\ f[k] \in Parsed /\ f[i] \in Parsed /\ h[k] \in Parsed /\ h[i] \in Parsed
        /\ g[k] \in Seq(Lines)
    BY <2>1
  <2>4. /\ f[i] = ParseMainLine(f[k], l) /\ h[i] = ParseLine(h[k], l)
        /\ g[i] = g[k] \o line
    BY <1>3, <1>4, <1>5, <2>1
  <2>5. line \in Seq(Lines)
    BY <1>2, <2>1, GlobalLineType
  <2>6. /\ Reads(NoSettings, g[k], f[k])
        /\ f[k].inMatch <=> UnderMatch(main, i)
        /\ h[k].inMatch <=> UnderMatch(main, i)
        /\ f[k].includes >= h[k].includes
    BY <1>7
  <2>7. line = IF l.kw = "match" \/ f[k].inMatch THEN <<>>
               ELSE IF l = Include THEN included ELSE <<l>>
    BY <2>6 DEF GlobalLine
  <2>8. UnderMatch(main, i + 1) <=> IF l.kw = "match" THEN ~l.all ELSE UnderMatch(main, i)
    BY <2>1, UnderMatchStep
  <2> HIDE DEF i, l, line, Good
  <2>9. Reads(f[k], line, f[i]) /\ (f[i].inMatch <=> ParseLine(f[k], l).inMatch)
        /\ f[i].includes >= ParseLine(f[k], l).includes
    <3>1. \A p \in Parsed :
            /\ Reads(p, IF l.kw = "match" \/ p.inMatch THEN <<>>
                        ELSE IF l = Include THEN included ELSE <<l>>, ParseMainLine(p, l))
            /\ ParseMainLine(p, l).inMatch <=> ParseLine(p, l).inMatch
            /\ ParseMainLine(p, l).includes >= ParseLine(p, l).includes
      BY <2>2, ParseMainLineFacts DEF included
    <3> QED
      BY <2>3, <2>4, <2>7, <3>1
  <2>10. Reads(NoSettings, g[k] \o line, f[i])
    BY <1>1, <2>3, <2>5, <2>6, <2>9, ReadsThen
  <2>11. /\ f[i].inMatch <=> UnderMatch(main, i + 1)
         /\ h[i].inMatch <=> UnderMatch(main, i + 1)
    BY <2>2, <2>3, <2>4, <2>6, <2>8, <2>9, ParseLineBlock
  <2>12. /\ ParseLine(f[k], l).includes = f[k].includes + (IF l.kw = "include" THEN 1 ELSE 0)
         /\ h[i].includes = h[k].includes + (IF l.kw = "include" THEN 1 ELSE 0)
    BY <2>2, <2>3, <2>4, ParseLineBlock
  <2>13. f[i].includes >= h[i].includes
    <3> DEFINE one == IF l.kw = "include" THEN 1 ELSE 0
               p == ParseLine(f[k], l).includes
               a == f[k].includes
               b == h[k].includes
               c == f[i].includes
               d == h[i].includes
    <3>1. a \in Nat /\ b \in Nat /\ c \in Nat /\ d \in Nat /\ one \in Nat
      BY <2>3 DEF Parsed
    <3>2. p = a + one /\ d = b + one /\ a >= b /\ c >= p
      BY <2>6, <2>9, <2>12
    <3> HIDE DEF one, p, a, b, c, d
    <3>3. c >= d
      BY ONLY <3>1, <3>2
    <3> QED
      BY <3>3 DEF c, d
  <2>14. i \in Good
    BY <2>1, <2>4, <2>10, <2>11, <2>13 DEF Good
  <2> QED
    BY <2>14 DEF i
<1> HIDE DEF Good
<1>8. \A i \in 0 .. n : i \in Good
  BY <1>1, <1>6, <1>7, Induction
<1>9. n \in Good /\ f[n] \in Parsed /\ h[n] \in Parsed
  BY <1>1, <1>8
<1>10. GlobalText = g[n] /\ ParseSSHDConfig = h[n]
  BY <1>4, <1>5 DEF GlobalText, included, ParseSSHDConfig
<1> QED
  BY <1>3, <1>9, <1>10 DEF Good

\* What the host's sshd reads, and what the report takes it to read.
LEMMA SettingsAgree ==
    ASSUME TypedText
    PROVE  /\ SshdReads.level = FirstLevel(GlobalText, INFO)
           /\ SshdReads.level \in 0 .. 7
           /\ \A rank \in 0 .. 7 : AtLeast(ParseSSHDConfigFS, rank) <=> SshdReads.level >= rank
           /\ SshdReads.agent <=> \E l \in Range(GlobalText) : l.kw = "acceptenv" /\ l.ai /\ ~l.neg
           /\ AcceptsAIAgent(ParseSSHDConfigFS) => SshdReads.agent
<1> DEFINE s == ParseSSHDConfigFS
<1>1. s \in Parsed /\ Reads(NoSettings, GlobalText, s) /\ GlobalText \in Seq(Lines)
  BY ParserReads, GlobalTextType
<1>2. SshdReads = [level |-> FirstLevel(GlobalText, INFO),
                   agent |-> \E l \in Range(GlobalText) : l.kw = "acceptenv" /\ l.ai /\ ~l.neg]
  BY Zenon DEF SshdReads, GlobalText
<1>3. /\ SshdReads.level = FirstLevel(GlobalText, INFO)
      /\ SshdReads.agent <=> \E l \in Range(GlobalText) : l.kw = "acceptenv" /\ l.ai /\ ~l.neg
  BY <1>2
<1> HIDE DEF s
<1>4. s.level = FirstLevel(GlobalText, Unset)
  BY <1>1 DEF Reads, NoSettings
<1>5. /\ FirstLevel(GlobalText, Unset) \in (0 .. 7) \cup {Unset}
      /\ FirstLevel(GlobalText, INFO) = IF s.level = Unset THEN INFO ELSE s.level
  BY <1>1, <1>4, FirstLevelDefault
<1>6. SshdReads.level \in 0 .. 7
  BY <1>3, <1>4, <1>5 DEF INFO
<1>7. \A rank \in 0 .. 7 : AtLeast(s, rank) <=> SshdReads.level >= rank
  BY <1>3, <1>5 DEF AtLeast
<1>8. AcceptsAIAgent(s) => SshdReads.agent
  <2>1. Range(s.accept) = {l \in Range(GlobalText) : l.kw = "acceptenv"}
    <3>1. Range(<<>>) = {}
      BY DEF Range
    <3> QED
      BY <1>1, <3>1 DEF Reads, NoSettings
  <2>2. \A i \in DOMAIN s.accept : s.accept[i] \in Range(s.accept)
    BY DEF Range
  <2> QED
    BY <1>3, <2>1, <2>2 DEF AcceptsAIAgent
<1> QED
  BY <1>3, <1>6, <1>7, <1>8 DEF s

-----------------------------------------------------------------------------
(***************************************************************************)
(* The report.                                                             *)
(***************************************************************************)

Asks(v)   == v.probe /\ v.root
Knows(v)  == v.config \/ Asks(v)
Agent(v)  == SshdReads.agent /\ (Asks(v) \/ AcceptsAIAgent(ParseSSHDConfigFS))

\* What a viewer knows of sshd, from the files or from `sshd -T'.
LEMMA FactsAgree ==
    ASSUME TypedText, NEW v
    PROVE  /\ Facts(v).viewer = v
           /\ Facts(v).known <=> Knows(v)
           /\ Facts(v).verbose <=> Knows(v) /\ SshdReads.level >= VERBOSE
           /\ Facts(v).debug1 <=> Knows(v) /\ SshdReads.level >= DEBUG1
           /\ Facts(v).accepts <=> Knows(v) /\ Agent(v)
           /\ Facts(v).permit = ParseSSHDConfigFS.permit
           /\ Facts(v).includes = ParseSSHDConfigFS.includes
           /\ Facts(v).auditLog <=> v.root /\ host.auditLog
<1> DEFINE parsed == ParseSSHDConfigFS
           asked == [parsed EXCEPT !.level = SshdReads.level,
                                   !.accept = IF SshdReads.agent THEN <<AcceptEnv(FALSE, TRUE)>>
                                                                 ELSE <<>>]
           s == IF v.probe /\ v.root THEN asked ELSE parsed
           known == v.config \/ (v.probe /\ v.root)
           f == Facts(v)
<1>1. parsed \in Parsed
  BY ParserReads
<1>2. f = [viewer   |-> v,
           known    |-> known,
           verbose  |-> known /\ AtLeast(s, VERBOSE),
           debug1   |-> known /\ AtLeast(s, DEBUG1),
           accepts  |-> known /\ AcceptsAIAgent(s),
           permit   |-> s.permit,
           includes |-> s.includes,
           auditLog |-> v.root /\ host.auditLog]
  BY Zenon DEF Facts
<1> HIDE DEF f, parsed
<1>3. /\ asked.level = SshdReads.level /\ asked.permit = parsed.permit
      /\ asked.includes = parsed.includes
      /\ asked.accept = IF SshdReads.agent THEN <<AcceptEnv(FALSE, TRUE)>> ELSE <<>>
  BY <1>1 DEF Parsed
<1> HIDE DEF asked
<1>4. AcceptsAIAgent(asked) <=> SshdReads.agent
  BY <1>3 DEF AcceptsAIAgent, AcceptEnv
<1>5. \A rank \in 0 .. 7 : AtLeast(parsed, rank) <=> SshdReads.level >= rank
  BY SettingsAgree DEF parsed
<1>6. \A rank \in 0 .. 7 : AtLeast(asked, rank) <=> SshdReads.level >= rank
  <2>1. SshdReads.level # Unset
    BY SettingsAgree DEF Unset
  <2> QED
    BY <1>3, <2>1 DEF AtLeast
<1>7. \A rank \in 0 .. 7 : AtLeast(s, rank) <=> SshdReads.level >= rank
  BY <1>5, <1>6
<1>8. VERBOSE \in 0 .. 7 /\ DEBUG1 \in 0 .. 7
  BY DEF VERBOSE, DEBUG1
<1>9. s.permit = parsed.permit /\ s.includes = parsed.includes
  BY <1>3
<1>10. AcceptsAIAgent(parsed) => SshdReads.agent
  BY SettingsAgree DEF parsed
<1>11. AcceptsAIAgent(s) <=> Agent(v)
  BY <1>4, <1>10 DEF Agent, Asks, parsed
<1> HIDE DEF s
<1>12. known <=> Knows(v)
  BY DEF Knows, Asks
<1> HIDE DEF known
<1>13. /\ f.viewer = v /\ f.known = known
       /\ f.verbose = (known /\ AtLeast(s, VERBOSE))
       /\ f.debug1 = (known /\ AtLeast(s, DEBUG1))
       /\ f.accepts = (known /\ AcceptsAIAgent(s))
       /\ f.permit = s.permit /\ f.includes = s.includes
       /\ f.auditLog = (v.root /\ host.auditLog)
  BY <1>2
<1>14. /\ f.known <=> Knows(v)
       /\ f.verbose <=> Knows(v) /\ SshdReads.level >= VERBOSE
       /\ f.debug1 <=> Knows(v) /\ SshdReads.level >= DEBUG1
       /\ f.accepts <=> Knows(v) /\ Agent(v)
       /\ f.auditLog <=> v.root /\ host.auditLog
  BY <1>7, <1>8, <1>11, <1>12, <1>13
<1>15. f.viewer = v /\ f.permit = parsed.permit /\ f.includes = parsed.includes
  BY <1>9, <1>13
<1> QED
  BY <1>14, <1>15 DEF f, parsed

\* A log source without a complaint is one that sshd's lines reach.
LEMMA CleanSourceLogged ==
    ASSUME host \in Hosts, SourceAgrees, CheckSSHLogSource = {"pass"}
    PROVE  Logged
<1>1. host.file \in {"unset", "absent", "silent", "lines"}
  BY HostAssumption
<1>2. ~(LogFile = "silent" /\ UsesFile)
  BY DEF CheckSSHLogSource
<1>3. /\ ~(host.source = "journald" /\ ~host.journalctl)
      /\ ~(host.source = "file" /\ LogFile = "absent")
      /\ ~(~host.journalctl /\ LogFile = "absent")
  BY DEF CheckSSHLogSource
<1>4. LogFile \in {"silent", "lines", "absent"}
  BY DEF LogFile
<1>5. LogFile = "lines" => File = "lines"
  BY <1>1 DEF LogFile, File, SourceAgrees
<1>6. UsesFile => File = "lines"
  BY <1>2, <1>3, <1>4, <1>5 DEF UsesFile
<1>7. host.journalctl => Journal = "lines"
  BY DEF Journal, SourceAgrees
<1>8. CASE host.source = "journald"
  BY <1>3, <1>7, <1>8 DEF Logged
<1>9. CASE host.source = "file"
  BY <1>6, <1>9 DEF Logged, UsesFile
<1>10. CASE host.source \notin {"journald", "file"}
  <2>1. CASE host.journalctl
    BY <1>7, <1>10, <2>1 DEF Logged
  <2>2. CASE ~host.journalctl
    <3>1. File = "lines" /\ Journal = "absent"
      BY <1>6, <2>2 DEF UsesFile, Journal
    <3> QED
      BY <1>10, <3>1 DEF Logged
  <2> QED
    BY <2>1, <2>2
<1> QED
  BY <1>8, <1>9, <1>10

\* A report with a clean log source is right about every family it calls live.
LEMMA CoverageFires ==
    ASSUME TypedText, host \in Hosts, Settled, SourceAgrees, NEW v \in Viewers,
           CheckSSHLogSource = {"pass"}, NEW family \in Coverage(Facts(v))
    PROVE  Fires(family)
<1> DEFINE f == Facts(v)
<1>1. /\ f.verbose => SshdReads.level >= VERBOSE
      /\ f.debug1 => SshdReads.level >= DEBUG1
      /\ f.accepts => SshdReads.agent
      /\ f.auditLog => host.auditLog
  BY FactsAgree DEF Agent
<1>2. sshd = SshdReads /\ loaded = rules.admin \cup rules.own
  BY DEF Settled
<1>3. Logged
  BY CleanSourceLogged
<1>4. host.auditd /\ Has64 /\ host.unit /\ f.auditLog => Recorded
  BY <1>1, <1>2 DEF Has64, FileRules, Recorded
<1>5. host.procfs /\ host.proc => Scanned
  BY DEF Scanned
<1>6. family \in Families
  BY DEF Coverage
<1> HIDE DEF f
<1>7. family \in Coverage(f)
  BY DEF f
<1>8. CASE family = "banner"
  BY <1>1, <1>2, <1>3, <1>7, <1>8 DEF Coverage, Fires
<1>9. CASE family \in {"rhythm", "pty"}
  BY <1>1, <1>2, <1>3, <1>7, <1>9 DEF Coverage, Fires
<1>10. CASE family = "style"
  BY <1>4, <1>7, <1>10 DEF Coverage, Fires
<1>11. CASE family = "flags"
  BY <1>4, <1>5, <1>7, <1>11 DEF Coverage, Fires
<1>12. CASE family = "process"
  BY <1>5, <1>7, <1>12 DEF Coverage, Fires
<1>13. CASE family = "network"
  BY <1>5, <1>7, <1>13 DEF Coverage, Fires
<1>14. CASE family = "identity"
  BY <1>1, <1>2, <1>7, <1>14 DEF Coverage, Fires
<1> QED
  BY <1>6, <1>8, <1>9, <1>10, <1>11, <1>12, <1>13, <1>14 DEF Families

\* The result of a run: exit code 0 leaves no room for a complaint.
LEMMA ExitClean ==
    ASSUME NEW v, Run(v).exit = ExitOK
    PROVE  /\ Run(v).coverage = Coverage(Facts(v))
           /\ CheckSSHLogSource = {"pass"}
           /\ Required \subseteq Coverage(Facts(v))
<1> DEFINE f == Facts(v)
           coverage == Coverage(f)
           results == CheckConfig \cup CheckRules \cup CheckSSHD(f) \cup CheckSSHLogSource
                        \cup CheckAuditd(f) \cup CheckProcfs(f) \cup CheckStateDir
                        \cup CheckCoverage(coverage)
<1>1. Run(v) = [coverage |-> coverage, exit |-> ExitCode(results)]
  BY Zenon DEF Run
<1> HIDE DEF f, coverage
<1>2. Run(v).coverage = coverage /\ ExitCode(results) = ExitOK
  <2> HIDE DEF results
  <2> QED
    BY <1>1
<1>3. "fail" \notin results /\ "warn" \notin results
  BY <1>2 DEF ExitCode, ExitOK, ExitDegraded, ExitCannotRun
<1>4. "fail" \notin CheckSSHLogSource /\ "warn" \notin CheckSSHLogSource
      /\ "warn" \notin CheckCoverage(coverage)
  BY <1>3
<1>5. CheckSSHLogSource = {"pass"}
  BY <1>4 DEF CheckSSHLogSource
<1>6. ASSUME NEW family \in Required PROVE family \in coverage
  BY <1>4 DEF CheckCoverage, Required
<1> QED
  BY <1>2, <1>5, <1>6 DEF f, coverage

\* A report is honest in every state whose files are sequences of lines.
LEMMA HonestNow ==
    ASSUME TypedText, host \in Hosts
    PROVE  CheckHonest
<1> SUFFICES ASSUME Settled, SourceAgrees, NEW v \in Viewers
             PROVE  /\ CheckSSHLogSource = {"pass"} => \A f \in Run(v).coverage : Fires(f)
                    /\ Run(v).exit = ExitOK => \A f \in Required : Fires(f)
  BY Zenon DEF CheckHonest
<1>1. Run(v).coverage = Coverage(Facts(v))
  <2> DEFINE c == Coverage(Facts(v))
             e == ExitCode(CheckConfig \cup CheckRules \cup CheckSSHD(Facts(v))
                        \cup CheckSSHLogSource \cup CheckAuditd(Facts(v))
                        \cup CheckProcfs(Facts(v)) \cup CheckStateDir \cup CheckCoverage(c))
  <2>1. Run(v) = [coverage |-> c, exit |-> e]
    BY Zenon DEF Run
  <2> HIDE DEF c, e
  <2>2. Run(v).coverage = c
    BY <2>1
  <2> QED
    BY <2>2 DEF c
<1>2. CheckSSHLogSource = {"pass"} => \A f \in Run(v).coverage : Fires(f)
  BY <1>1, CoverageFires
<1>3. Run(v).exit = ExitOK => \A f \in Required : Fires(f)
  BY <1>1, <1>2, ExitClean
<1> QED
  BY <1>2, <1>3

-----------------------------------------------------------------------------
(***************************************************************************)
(* The invariants.                                                         *)
(***************************************************************************)
HostTypeOK ==
    /\ host \in Hosts /\ main \in Mains /\ admin \in Admins
    /\ own \in {<<>>, <<LogLevel(DEBUG1)>>, SSHDDropIn}
    /\ sshrc \in {"none", "foreign", "hook"}
    /\ fixcode \in {ExitOK, ExitDegraded, ExitCannotRun}

\* Typed variables make the three files sequences of lines.
LEMMA TypedFiles == HostTypeOK => TypedText
<1>1. LogLevel(DEBUG1) \in Lines /\ LogLevel(VERBOSE) \in Lines /\ AcceptEnv(FALSE, TRUE) \in Lines
  BY DEF Lines, DEBUG1, VERBOSE, LogLevel, AcceptEnv
<1>2. \A a, b \in Lines : <<a>> \in Seq(Lines) /\ <<a, b>> \in Seq(Lines)
  OBVIOUS
<1>3. HostTypeOK => own \in Seq(Lines)
  BY <1>1, <1>2, EmptySeq, Zenon DEF HostTypeOK, SSHDDropIn
<1> QED
  BY <1>3, HostAssumption DEF HostTypeOK, TypedText

\* A step of the administrator, of sshd, the kernel or a fix keeps the types.
LEMMA HostTypeStep == HostTypeOK /\ [HostNext]_hostVars => HostTypeOK'
<1> SUFFICES ASSUME HostTypeOK, [HostNext]_hostVars PROVE HostTypeOK'
  OBVIOUS
<1> USE DEF HostTypeOK
<1>1. CASE Edit
  BY <1>1 DEF Edit
<1>2. CASE ReloadSSHD \/ LoadRules \/ FixStops \/ UNCHANGED hostVars
  BY <1>2 DEF ReloadSSHD, LoadRules, FixStops, hostVars, fileVars
<1>3. ASSUME NEW written \in BOOLEAN, FixDropIn(written) PROVE HostTypeOK'
  BY <1>3 DEF FixDropIn
<1>4. ASSUME NEW written \in BOOLEAN, FixSSHRC(written) PROVE HostTypeOK'
  BY <1>4 DEF FixSSHRC, Worse
<1>5. ASSUME NEW written \in BOOLEAN, FixAudit(written) PROVE HostTypeOK'
  BY <1>5 DEF FixAudit
<1> QED
  BY <1>1, <1>2, <1>3, <1>4, <1>5 DEF HostNext

\* On a host that runs what its files say, no report calls a family live that
\* cannot fire, and exit code 0 means that every required family fires
\* (check.go coverage, exitCode), for all files, hosts and viewers.
THEOREM ReportIsHonest == HostSpec => []CheckHonest
<1>1. HostInit => HostTypeOK
  BY DEF HostInit, HostTypeOK
<1>2. HostTypeOK => CheckHonest
  BY TypedFiles, HonestNow DEF HostTypeOK
<1> QED
  BY <1>1, <1>2, HostTypeStep, PTL DEF HostSpec

-----------------------------------------------------------------------------
(***************************************************************************)
(* The fix.                                                                *)
(***************************************************************************)

\* The lines of a global text.
LEMMA GlobalRange ==
    ASSUME NEW lines \in Seq(Lines), NEW included \in Seq(Lines), NEW l
    PROVE  l \in Range(Global(lines, included))
              <=> \E i \in 1 .. Len(lines) : l \in Range(GlobalLine(lines, included, i))
<1> DEFINE n == Len(lines)
<1>1. n \in Nat
  OBVIOUS
<1>2. PICK f \in [0 .. n -> Seq(Lines)] :
         /\ f[0] = <<>>
         /\ \A i \in 1 .. n : f[i] = f[i - 1] \o GlobalLine(lines, included, i)
         /\ Global(lines, included) = f[n]
  BY GlobalSteps
<1> DEFINE Good == {k \in 0 .. n : l \in Range(f[k])
                        <=> \E i \in 1 .. k : l \in Range(GlobalLine(lines, included, i))}
<1>3. 0 \in Good
  <2>1. Range(<<>>) = {}
    BY DEF Range
  <2> QED
    BY <1>1, <1>2, <2>1
<1>4. ASSUME NEW k \in 0 .. n - 1, k \in Good PROVE k + 1 \in Good
  <2>1. k + 1 \in 1 .. n /\ k + 1 \in 0 .. n /\ (k + 1) - 1 = k /\ k \in 0 .. n
    BY <1>1
  <2>2. f[k] \in Seq(Lines) /\ f[k + 1] = f[k] \o GlobalLine(lines, included, k + 1)
    BY <1>2, <2>1
  <2>3. GlobalLine(lines, included, k + 1) \in Seq(Lines)
    BY <2>1, GlobalLineType
  <2>4. Range(f[k + 1]) = Range(f[k]) \cup Range(GlobalLine(lines, included, k + 1))
    BY <2>2, <2>3, RangeConcatenation
  <2>5. \A i : i \in 1 .. k + 1 <=> i \in 1 .. k \/ i = k + 1
    BY <2>1
  <2>6. l \in Range(f[k])
           <=> \E i \in 1 .. k : l \in Range(GlobalLine(lines, included, i))
    BY <1>4
  <2>7. l \in Range(f[k + 1])
           <=> \E i \in 1 .. k + 1 : l \in Range(GlobalLine(lines, included, i))
    BY <2>4, <2>5, <2>6, Zenon
  <2> QED
    BY <2>1, <2>7
<1> HIDE DEF Good
<1>5. \A k \in 0 .. n : k \in Good
  BY <1>1, <1>3, <1>4, Induction
<1>6. n \in Good
  BY <1>1, <1>5
<1> QED
  BY <1>2, <1>6 DEF Good

\* A line of a global text stands in the file, or in what is included.
LEMMA GlobalLineRange ==
    ASSUME NEW lines \in Seq(Lines), NEW included \in Seq(Lines), NEW i \in 1 .. Len(lines), NEW l
    PROVE  l \in Range(GlobalLine(lines, included, i))
              <=> /\ lines[i].kw # "match" /\ ~UnderMatch(lines, i)
                  /\ \/ lines[i] = Include /\ l \in Range(included)
                     \/ lines[i] # Include /\ l = lines[i]
<1>1. Range(<<>>) = {} /\ Range(<<lines[i]>>) = {lines[i]}
  BY DEF Range
<1> QED
  BY <1>1 DEF GlobalLine

\* An Include that the parser counted stands in the file.
LEMMA IncludesSeen ==
    ASSUME TypedText, ParseSSHDConfig.includes # 0
    PROVE  \E i \in 1 .. Len(main) : main[i] = Include
<1> SUFFICES ASSUME \A i \in 1 .. Len(main) : main[i] # Include PROVE FALSE
  OBVIOUS
<1> DEFINE n == Len(main)
<1>1. n \in Nat /\ NoSettings \in Parsed /\ main \in Seq(Lines)
  BY DEF NoSettings, Parsed, TypedText
<1>2. PICK h \in [0 .. n -> Parsed] :
         /\ h[0] = NoSettings
         /\ \A i \in 1 .. n : h[i] = ParseLine(h[i - 1], main[i])
         /\ ParseLines(main, NoSettings) = h[n]
  BY <1>1, ParseLinesSteps
<1> DEFINE Good == {i \in 0 .. n : h[i].includes = 0}
<1>3. 0 \in Good
  BY <1>1, <1>2 DEF NoSettings
<1>4. ASSUME NEW k \in 0 .. n - 1, k \in Good PROVE k + 1 \in Good
  <2>1. k + 1 \in 1 .. n /\ k + 1 \in 0 .. n /\ (k + 1) - 1 = k /\ k \in 0 .. n
    BY <1>1
  <2>2. main[k + 1] \in Lines /\ h[k] \in Parsed /\ h[k + 1] = ParseLine(h[k], main[k + 1])
    BY <1>1, <1>2, <2>1, ElementOfSeq
  <2>3. main[k + 1].kw # "include"
    BY <2>1, <2>2, LineCases
  <2>4. h[k + 1].includes = h[k].includes + 0
    BY <2>2, <2>3, ParseLineBlock
  <2>5. h[k].includes = 0
    BY <1>4
  <2> QED
    BY <2>1, <2>4, <2>5
<1> HIDE DEF Good
<1>5. \A k \in 0 .. n : k \in Good
  BY <1>1, <1>3, <1>4, Induction
<1>6. n \in Good
  BY <1>1, <1>5
<1> QED
  BY <1>2, <1>6 DEF Good, ParseSSHDConfig

\* The lines of the drop-in of the fix are all global.
LEMMA DropInRange ==
    ASSUME NEW l
    PROVE  /\ SSHDDropIn \in Seq(Lines)
           /\ l \in Range(Global(SSHDDropIn, <<>>))
                 <=> l = AcceptEnv(FALSE, TRUE) \/ l = LogLevel(VERBOSE)
<1> DEFINE a == AcceptEnv(FALSE, TRUE)
           b == LogLevel(VERBOSE)
           d == <<a, b>>
<1>1. a \in Lines /\ b \in Lines /\ a.kw = "acceptenv" /\ b.kw = "loglevel"
  BY DEF Lines, VERBOSE, LogLevel, AcceptEnv
<1> HIDE DEF a, b
<1>2. d \in Seq(Lines) /\ Len(d) = 2 /\ d[1] = a /\ d[2] = b /\ <<>> \in Seq(Lines)
  BY <1>1
<1> HIDE DEF d
<1>3. \A i \in 1 .. Len(d) : d[i].kw \in {"acceptenv", "loglevel"}
  BY <1>1, <1>2
<1>4. \A i \in 1 .. Len(d) : ~UnderMatch(d, i)
  BY <1>3 DEF UnderMatch
<1>5. \A i \in 1 .. Len(d) : d[i] # Include
  BY <1>3 DEF Include
<1>6. l \in Range(Global(d, <<>>)) <=> \E i \in 1 .. Len(d) : l \in Range(GlobalLine(d, <<>>, i))
  BY <1>2, GlobalRange
<1>7. ASSUME NEW i \in 1 .. Len(d)
      PROVE  l \in Range(GlobalLine(d, <<>>, i)) <=> l = d[i]
  <2> DEFINE none == <<>>
  <2>1. none \in Seq(Lines) /\ d \in Seq(Lines) /\ i \in 1 .. Len(d)
    BY <1>2
  <2> HIDE DEF none
  <2>2. l \in Range(GlobalLine(d, none, i))
           <=> /\ d[i].kw # "match" /\ ~UnderMatch(d, i)
               /\ \/ d[i] = Include /\ l \in Range(none)
                  \/ d[i] # Include /\ l = d[i]
    BY ONLY <2>1, GlobalLineRange
  <2>3. l \in Range(GlobalLine(d, none, i)) <=> l = d[i]
    BY <1>3, <1>4, <1>5, <2>2
  <2> QED
    BY <2>3 DEF none
<1>8. l \in Range(Global(d, <<>>)) <=> l = a \/ l = b
  BY <1>2, <1>6, <1>7
<1> QED
  BY <1>2, <1>8 DEF a, b, d, SSHDDropIn

FixWritten ==
    /\ own = SSHDDropIn /\ sshrc = "hook" /\ rules.own = OwnRules
    /\ ParseSSHDConfig.includes # 0

\* The text sshd reads, when the drop-in is in place and nothing overrides it:
\* the drop-in decides.
LEMMA DropInDecides ==
    ASSUME TypedText, FixWritten, ~Overridden
    PROVE  /\ AcceptEnv(FALSE, TRUE) \in Range(GlobalText)
           /\ LogLevel(VERBOSE) \in Range(GlobalText)
           /\ \A l \in Range(GlobalText) :
                /\ l.kw = "loglevel" => l = LogLevel(VERBOSE)
                /\ l.kw # "permituserenvironment"
                /\ ~(l.kw = "acceptenv" /\ l.neg /\ l.ai)
<1> USE DEF TypedText
<1> DEFINE single == <<Include>>
           none == <<>>
           adminText == Global(admin, none)
           ownText == Global(own, none)
           included == adminText \o ownText
           lines == Range(Global(main, single)) \cup Range(adminText)
<1>1. single \in Seq(Lines) /\ none \in Seq(Lines) /\ Range(single) = {Include}
  BY DEF Lines, Range
<1>2. adminText \in Seq(Lines) /\ ownText \in Seq(Lines) /\ included \in Seq(Lines)
  BY <1>1, GlobalType, ConcatProperties
<1>3. Range(included) = Range(adminText) \cup Range(ownText)
  BY <1>2, RangeConcatenation
<1>4. /\ \A l \in lines : /\ l.kw \notin {"loglevel", "permituserenvironment"}
                         /\ ~(l.kw = "acceptenv" /\ l.neg /\ l.ai)
      /\ Include \in lines \/ Include \notin Range(main)
  BY Zenon DEF Overridden
<1>5. GlobalText = Global(main, included)
  BY DEF GlobalText
<1>6. \A l : l \in Range(ownText) <=> l = AcceptEnv(FALSE, TRUE) \/ l = LogLevel(VERBOSE)
  BY DropInRange DEF FixWritten
<1>7. PICK j \in 1 .. Len(main) : main[j] = Include
  BY IncludesSeen DEF FixWritten
<1>8. Include \in Range(main)
  BY <1>7 DEF Range
<1> HIDE DEF single, none, included
<1>9. Include \notin Range(adminText)
  <2>1. ASSUME NEW i \in 1 .. Len(admin) PROVE Include \notin Range(GlobalLine(admin, none, i))
    <3>1. Include \in Range(GlobalLine(admin, none, i))
             <=> /\ admin[i].kw # "match" /\ ~UnderMatch(admin, i)
                 /\ \/ admin[i] = Include /\ Include \in Range(none)
                    \/ admin[i] # Include /\ Include = admin[i]
      BY <1>1, GlobalLineRange
    <3>2. Range(none) = {}
      BY DEF none, Range
    <3> QED
      BY <3>1, <3>2
  <2> QED
    BY <1>1, <2>1, GlobalRange
<1>10. Include \in Range(Global(main, single))
  BY <1>4, <1>8, <1>9
<1> HIDE DEF adminText, ownText
<1>11. PICK i \in 1 .. Len(main) : Include \in Range(GlobalLine(main, single, i))
  BY <1>1, <1>10, GlobalRange
<1>12. main[i] = Include /\ main[i].kw # "match" /\ ~UnderMatch(main, i)
  BY <1>1, <1>11, GlobalLineRange
<1>13. ASSUME NEW l \in Range(included) PROVE l \in Range(GlobalText)
  <2>1. l \in Range(GlobalLine(main, included, i))
    BY <1>2, <1>12, <1>13, GlobalLineRange
  <2> QED
    BY <1>2, <1>5, <2>1, GlobalRange
<1>14. ASSUME NEW l \in Range(GlobalText) PROVE l \in lines \/ l \in Range(ownText)
  <2>1. PICK k \in 1 .. Len(main) : l \in Range(GlobalLine(main, included, k))
    BY <1>2, <1>5, <1>14, GlobalRange
  <2>2. /\ main[k].kw # "match" /\ ~UnderMatch(main, k)
        /\ \/ main[k] = Include /\ l \in Range(included)
           \/ main[k] # Include /\ l = main[k]
    BY <1>2, <2>1, GlobalLineRange
  <2>3. CASE l \in Range(included)
    BY <1>3, <2>3
  <2>4. CASE main[k] # Include /\ l = main[k]
    <3>1. l \in Range(GlobalLine(main, single, k))
      BY <1>1, <2>2, <2>4, GlobalLineRange
    <3>2. l \in Range(Global(main, single))
      BY <1>1, <3>1, GlobalRange
    <3> QED
      BY <3>2
  <2> QED
    BY <2>2, <2>3, <2>4
<1> HIDE DEF lines
<1>15. /\ AcceptEnv(FALSE, TRUE) \in Range(GlobalText)
       /\ LogLevel(VERBOSE) \in Range(GlobalText)
  BY <1>3, <1>6, <1>13
<1>16. /\ AcceptEnv(FALSE, TRUE).kw = "acceptenv" /\ ~AcceptEnv(FALSE, TRUE).neg
       /\ LogLevel(VERBOSE).kw = "loglevel"
  BY DEF AcceptEnv, LogLevel
<1>17. ASSUME NEW l \in Range(GlobalText)
       PROVE  /\ l.kw = "loglevel" => l = LogLevel(VERBOSE)
              /\ l.kw # "permituserenvironment"
              /\ ~(l.kw = "acceptenv" /\ l.neg /\ l.ai)
  <2>1. CASE l \in lines
    BY <1>4, <2>1
  <2>2. CASE l = AcceptEnv(FALSE, TRUE)
    BY <1>16, <2>2
  <2>3. CASE l = LogLevel(VERBOSE)
    BY <1>16, <2>3
  <2> QED
    BY <1>6, <1>14, <1>17, <2>1, <2>2, <2>3
<1> QED
  BY <1>15, <1>17

\* So sshd is verbose and accepts the variable, and the report says so.
LEMMA FixedSettings ==
    ASSUME TypedText, FixWritten, ~Overridden
    PROVE  /\ SshdReads.level = VERBOSE /\ SshdReads.agent
           /\ AcceptsAIAgent(ParseSSHDConfigFS)
           /\ ~ParseSSHDConfigFS.permit
           /\ ParseSSHDConfigFS.includes # 0
<1> DEFINE s == ParseSSHDConfigFS
           text == GlobalText
           a == AcceptEnv(FALSE, TRUE)
           b == LogLevel(VERBOSE)
<1>1. /\ a.kw = "acceptenv" /\ ~a.neg /\ a.ai
      /\ b.kw = "loglevel" /\ b.rank = VERBOSE
  BY DEF AcceptEnv, LogLevel
<1>2. text \in Seq(Lines)
  BY GlobalTextType
<1>3. /\ s \in Parsed /\ Reads(NoSettings, text, s) /\ ParseSSHDConfig \in Parsed
      /\ s.includes >= ParseSSHDConfig.includes
  BY ParserReads
<1>4. /\ a \in Range(text) /\ b \in Range(text)
      /\ \A l \in Range(text) : /\ l.kw = "loglevel" => l = b
                               /\ l.kw # "permituserenvironment"
                               /\ ~(l.kw = "acceptenv" /\ l.neg /\ l.ai)
  BY DropInDecides
<1> HIDE DEF s, text, a, b
<1>5. \A i \in 1 .. Len(text) : text[i] \in Range(text)
  BY <1>2 DEF Range
<1>6. PICK k \in 1 .. Len(text) : text[k] = b
  BY <1>2, <1>4 DEF Range
<1>7. FirstLevel(text, INFO) = VERBOSE
  <2>1. PICK i \in 1 .. Len(text) :
           text[i].kw = "loglevel" /\ \A j \in 1 .. i - 1 : text[j].kw # "loglevel"
    BY <1>1, <1>2, <1>6, FirstLevelExists
  <2>2. FirstLevel(text, INFO) = text[i].rank
    BY <1>2, <2>1, FirstLevelAt
  <2>3. text[i] = b
    BY <1>4, <1>5, <2>1
  <2> QED
    BY <1>1, <2>2, <2>3
<1>8. SshdReads.level = VERBOSE /\ SshdReads.agent
  BY <1>1, <1>4, <1>7, SettingsAgree DEF text
<1>9. Range(s.accept) = {l \in Range(text) : l.kw = "acceptenv"}
  <2>1. Range(<<>>) = {}
    BY DEF Range
  <2> QED
    BY <1>3, <2>1 DEF Reads, NoSettings
<1>10. AcceptsAIAgent(s)
  <2>1. \A l : l \in Range(s.accept) <=> \E i \in DOMAIN s.accept : s.accept[i] = l
    BY DEF Range
  <2>2. a \in Range(s.accept)
    BY <1>1, <1>4, <1>9
  <2>3. PICK i \in DOMAIN s.accept : s.accept[i] = a
    BY <2>1, <2>2
  <2>4. ASSUME NEW j \in DOMAIN s.accept PROVE ~(s.accept[j].ai /\ s.accept[j].neg)
    BY <1>4, <1>9, <2>1
  <2> QED
    BY <1>1, <2>3, <2>4 DEF AcceptsAIAgent
<1>11. ~s.permit
  BY <1>3, <1>4 DEF Reads, NoSettings
<1>12. s.includes # 0
  BY <1>3 DEF FixWritten, Parsed
<1> QED
  BY <1>8, <1>10, <1>11, <1>12 DEF s

\* What the viewer root is then told.
LEMMA ConvergedNow ==
    ASSUME TypedText, host \in Hosts, Settled, FixWritten, HostReady, ~Overridden,
           NEW v \in Viewers, v.root
    PROVE  Required \subseteq Run(v).coverage /\ Run(v).exit = ExitOK
<1> DEFINE f == Facts(v)
           coverage == Coverage(f)
           results == CheckConfig \cup CheckRules \cup CheckSSHD(f) \cup CheckSSHLogSource
                        \cup CheckAuditd(f) \cup CheckProcfs(f) \cup CheckStateDir
                        \cup CheckCoverage(coverage)
<1>1. v.config
  BY DEF Viewers
<1>2. /\ f.viewer = v /\ f.known /\ f.verbose /\ f.accepts /\ ~f.permit /\ f.includes # 0
      /\ f.auditLog
  <2>1. Knows(v) /\ Agent(v) /\ SshdReads.level >= VERBOSE
    BY <1>1, FixedSettings DEF Knows, Agent, VERBOSE
  <2> QED
    BY <2>1, FactsAgree, FixedSettings DEF HostReady
<1>3. Run(v) = [coverage |-> coverage, exit |-> ExitCode(results)]
  BY Zenon DEF Run
<1> HIDE DEF f
<1>4. \E r \in FileRules : r.arch # "b32"
  <2>1. Rule("b64", TRUE) \in FileRules /\ Rule("b64", TRUE).arch # "b32"
    BY DEF FileRules, FixWritten, OwnRules, Rule
  <2> QED
    BY <2>1
<1>5. \E r \in FileRules : r.arch = "b32"
  <2>1. Rule("b32", TRUE) \in FileRules /\ Rule("b32", TRUE).arch = "b32"
    BY DEF FileRules, FixWritten, OwnRules, Rule
  <2> QED
    BY <2>1
<1>6. Has64 /\ Has32
  BY <1>4, <1>5 DEF Has64, Has32
<1>7. sshrc = "hook"
  BY DEF FixWritten
<1>8. Required \subseteq coverage
  BY <1>2, <1>6, <1>7 DEF Required, Families, Coverage, HostReady
<1>9. CheckSSHLogSource = {"pass"}
  <2>1. host.file \in {"unset", "absent", "silent", "lines"}
    BY HostAssumption
  <2>2. CASE host.source = "journald"
    BY <2>2 DEF CheckSSHLogSource, HostReady, UsesFile
  <2>3. CASE host.source = "file"
    <3>1. LogFile = "lines"
      BY <2>1, <2>3 DEF HostReady, SourceAgrees, Logged, File, LogFile
    <3> QED
      BY <2>3, <3>1 DEF CheckSSHLogSource
  <2>4. CASE host.source \notin {"journald", "file"}
    <3>1. CASE Journal = "lines"
      <4>1. host.journalctl
        BY <3>1 DEF Journal
      <4> QED
        BY <2>4, <4>1 DEF CheckSSHLogSource, UsesFile
    <3>2. CASE Journal # "lines"
      <4>1. File = "lines"
        BY <2>4, <3>2 DEF HostReady, Logged
      <4>2. LogFile = "lines"
        BY <2>1, <4>1 DEF File, LogFile
      <4> QED
        BY <2>4, <4>2 DEF CheckSSHLogSource
    <3> QED
      BY <3>1, <3>2
  <2> QED
    BY <2>2, <2>3, <2>4
<1>10. CheckConfig = {"pass"} /\ CheckRules = {"pass"} /\ CheckStateDir = {"pass"}
  BY DEF CheckConfig, CheckRules, CheckStateDir, HostReady
<1>11. CheckSSHD(f) \subseteq {"pass", "warn*"}
  BY <1>1, <1>2, <1>7 DEF CheckSSHD, HostReady
<1>12. CheckAuditd(f) \subseteq {"pass"} /\ CheckProcfs(f) \subseteq {"pass"}
  BY <1>2, <1>6 DEF CheckAuditd, CheckProcfs, HostReady
<1>13. CheckCoverage(coverage) \subseteq {"pass", "warn*"}
  BY <1>8 DEF CheckCoverage, Required
<1>14. results \subseteq {"pass", "warn*"}
  BY <1>9, <1>10, <1>11, <1>12, <1>13
<1> HIDE DEF results, coverage
<1>15. ExitCode(results) = ExitOK
  BY <1>14 DEF ExitCode
<1> QED
  BY <1>3, <1>8, <1>15

\* The inductive invariant of the fix: as long as nobody edits, the files the
\* steps so far did not complain about are the project's.
FixInv ==
    fixed /\ fixcode = ExitOK =>
        /\ own = SSHDDropIn /\ ParseSSHDConfig.includes # 0
        /\ fixing \in {"sshrc", "audit", "idle"}
        /\ fixing # "sshrc" => sshrc = "hook"
        /\ fixing = "idle" => rules.own = OwnRules

\* A step keeps what a successful fix has written so far; an edit of the files ends it.
LEMMA FixStep == HostTypeOK /\ FixInv /\ [HostNext]_hostVars => FixInv'
<1> SUFFICES ASSUME HostTypeOK, FixInv, [HostNext]_hostVars PROVE FixInv'
  OBVIOUS
<1> USE DEF FixInv, ExitOK, ExitDegraded, ExitCannotRun
<1>1. CASE Edit
  BY <1>1 DEF Edit
<1>2. CASE ReloadSSHD \/ LoadRules \/ UNCHANGED hostVars
  BY <1>2 DEF ReloadSSHD, LoadRules, hostVars, fileVars, ParseSSHDConfig
<1>3. CASE FixStops
  BY <1>3 DEF FixStops
<1>4. ASSUME NEW written \in BOOLEAN, FixDropIn(written) PROVE FixInv'
  BY <1>4 DEF FixDropIn, ParseSSHDConfig
<1>5. ASSUME NEW written \in BOOLEAN, FixSSHRC(written) PROVE FixInv'
  BY <1>5 DEF FixSSHRC, Worse, HostTypeOK, ParseSSHDConfig
<1>6. ASSUME NEW written \in BOOLEAN, FixAudit(written) PROVE FixInv'
  BY <1>6 DEF FixAudit, HostTypeOK, ParseSSHDConfig
<1> QED
  BY <1>1, <1>2, <1>3, <1>4, <1>5, <1>6 DEF HostNext

\* A fix that ends with exit code 0 is enough for full coverage, once its files
\* are loaded, if nobody edits and nothing overrides it (check_linux.go
\* fixPlatform), for all files and hosts, however often it was interrupted.
THEOREM FixIsEnough == HostSpec => []FixConverges
<1>1. HostInit => HostTypeOK /\ FixInv
  BY DEF HostInit, HostTypeOK, FixInv
<1>2. HostTypeOK /\ FixInv => FixConverges
  <2> SUFFICES ASSUME HostTypeOK, FixInv, Settled, fixed, fixing = "idle", fixcode = ExitOK,
                      HostReady, ~Overridden, NEW v \in Viewers, v.root
               PROVE  Required \subseteq Run(v).coverage /\ Run(v).exit = ExitOK
    BY Zenon DEF FixConverges
  <2>1. TypedText /\ host \in Hosts
    BY TypedFiles DEF HostTypeOK
  <2>2. FixWritten
    BY DEF FixInv, FixWritten
  <2> QED
    BY <2>1, <2>2, ConvergedNow
<1>3. HostTypeOK /\ FixInv /\ [HostNext]_hostVars => (HostTypeOK /\ FixInv)'
  BY HostTypeStep, FixStep
<1> QED
  BY <1>1, <1>2, <1>3, PTL DEF HostSpec

-----------------------------------------------------------------------------
(***************************************************************************)
(* Definitions by recursion over the subsets of a finite set, and what the *)
(* library's sums, folds and flattened lists compute.                      *)
(***************************************************************************)

\* Induction over the subsets of a finite set, one element at a time.
LEMMA SetInduction ==
    ASSUME NEW S, IsFiniteSet(S), NEW Good, {} \in Good,
           \A T \in SUBSET S : T # {} /\ (\A x \in T : T \ {x} \in Good) => T \in Good
    PROVE  \A T \in SUBSET S : T \in Good
<1> DEFINE n == Cardinality(S)
           Small == {m \in 0 .. n : \A T \in SUBSET S : Cardinality(T) = m => T \in Good}
<1>1. n \in Nat
  BY FS_CardinalityType
<1>2. \A T \in SUBSET S : IsFiniteSet(T) /\ Cardinality(T) \in 0 .. n
  BY FS_Subset, FS_CardinalityType
<1>3. 0 \in Small
  <2>1. \A T \in SUBSET S : Cardinality(T) = 0 => T = {}
    BY <1>2, FS_EmptySet
  <2>2. \A T \in SUBSET S : Cardinality(T) = 0 => T \in Good
    BY <2>1
  <2> HIDE DEF n
  <2>3. 0 \in 0 .. n
    BY <1>1
  <2> QED
    BY <2>2, <2>3
<1>4. ASSUME NEW m \in 0 .. n - 1, m \in Small PROVE m + 1 \in Small
  <2>1. ASSUME NEW T \in SUBSET S, Cardinality(T) = m + 1 PROVE T \in Good
    <3>1. IsFiniteSet(T) /\ m \in Nat
      BY <1>2, <1>1
    <3>2. T # {}
      BY <2>1, <3>1, FS_EmptySet
    <3>3. ASSUME NEW x \in T PROVE T \ {x} \in Good
      <4>1. Cardinality(T \ {x}) = Cardinality(T) - 1
        BY <3>1, FS_RemoveElement
      <4>2. Cardinality(T \ {x}) = m
        BY <4>1, <2>1, <3>1
      <4> QED
        BY <4>2, <1>4
    <3> QED
      BY <3>2, <3>3
  <2> QED
    BY <2>1, <1>1
<1> HIDE DEF Small
<1>5. \A m \in 0 .. n : m \in Small
  <2> HIDE DEF n
  <2> QED
    BY <1>1, <1>3, <1>4, Induction
<1> HIDE DEF n
<1> QED
  BY <1>2, <1>5 DEF Small

\* f folds a set by an order of picks: pick[T] is the next element of T.
Folds(f, S, a, next, pick) ==
    f = [T \in SUBSET S |-> IF T = {} THEN a ELSE next[pick[T]][f[T \ {pick[T]}]]]

\* pick chooses an element of every set that has one.
Picks(pick, S) == \A T \in SUBSET S : T # {} => pick[T] \in T

\* A function defined by recursion over the subsets of a finite set exists.
LEMMA SetRecursion ==
    ASSUME NEW S, IsFiniteSet(S), NEW V, NEW a \in V, NEW next \in [S -> [V -> V]],
           NEW pick, Picks(pick, S)
    PROVE  \E f \in [SUBSET S -> V] : Folds(f, S, a, next, pick)
<1> DEFINE n == Cardinality(S)
           W == [SUBSET S -> V]
           Up(g) == [T \in SUBSET S |-> IF T = {} THEN a ELSE next[pick[T]][g[T \ {pick[T]}]]]
           up == [i \in 1 .. n |-> [g \in W |-> Up(g)]]
           start == [T \in SUBSET S |-> a]
<1>1. n \in Nat
  BY FS_CardinalityType
<1>2. \A T \in SUBSET S : IsFiniteSet(T) /\ Cardinality(T) \in 0 .. n
  BY FS_Subset, FS_CardinalityType
<1>3. start \in W
  OBVIOUS
<1> USE DEF Picks
<1>4. ASSUME NEW g \in W PROVE Up(g) \in W
  <2>1. ASSUME NEW T \in SUBSET S, T # {} PROVE next[pick[T]][g[T \ {pick[T]}]] \in V
    <3>1. pick[T] \in S /\ T \ {pick[T]} \in SUBSET S
      BY <2>1
    <3> QED
      BY <3>1
  <2> QED
    BY <2>1
<1>5. up \in [1 .. n -> [W -> W]]
  BY <1>4
<1>6. \A i \in 1 .. n : \A g \in W : up[i][g] = Up(g)
  OBVIOUS
<1> HIDE DEF n, W, up, start
<1>7. PICK F \in [0 .. n -> W] : Iterates(F, n, start, up)
  BY ONLY <1>1, <1>3, <1>5, Recursion
<1> DEFINE Fixed(g, m) == \A T \in SUBSET S : Cardinality(T) <= m => g[T] = Up(g)[T]
           Good == {i \in 0 .. n : Fixed(F[i], i)}
<1>8. 0 \in Good
  <2>1. \A T \in SUBSET S : Cardinality(T) <= 0 => T = {}
    BY <1>2, <1>1, FS_EmptySet
  <2>2. F[0] = start
    BY <1>7 DEF Iterates
  <2>3. F[0][{}] = a /\ Up(F[0])[{}] = a
    BY <2>2 DEF start
  <2>4. Fixed(F[0], 0)
    <3> HIDE DEF Up
    <3> QED
      BY <2>1, <2>3
  <2> HIDE DEF Fixed
  <2> QED
    BY <1>1, <2>4
<1>9. ASSUME NEW i \in 0 .. n - 1, i \in Good PROVE i + 1 \in Good
  <2>1. i + 1 \in 1 .. n /\ i + 1 \in 0 .. n /\ i \in 0 .. n /\ (i + 1) - 1 = i
    BY <1>1
  <2>2. F[i + 1] = Up(F[i])
    <3>1. F[i + 1] = up[i + 1][F[i]]
      BY <1>7, <2>1 DEF Iterates
    <3> QED
      BY <3>1, <2>1, <1>6
  <2>3. Fixed(F[i], i)
    BY <1>9
  <2>4. ASSUME NEW T \in SUBSET S, Cardinality(T) <= i + 1 PROVE F[i + 1][T] = Up(F[i + 1])[T]
    <3>1. CASE T = {}
      BY <3>1, <2>2
    <3>2. CASE T # {}
      <4> DEFINE U == T \ {pick[T]}
      <4>1. pick[T] \in T /\ U \in SUBSET S
        BY <3>2
      <4>2. IsFiniteSet(T) /\ Cardinality(T) \in Nat
        BY <1>2, <1>1
      <4>3. Cardinality(U) = Cardinality(T) - 1
        BY <4>1, <4>2, FS_RemoveElement
      <4>8. Cardinality(U) <= i
        BY <4>3, <4>2, <2>4, <2>1
      <4>4. F[i][U] = Up(F[i])[U]
        BY <4>1, <4>8, <2>3
      <4>5. F[i][U] = F[i + 1][U]
        BY <4>4, <2>2
      <4> HIDE DEF U
      <4>6. Up(F[i])[T] = next[pick[T]][F[i][U]] /\ Up(F[i + 1])[T] = next[pick[T]][F[i + 1][U]]
        BY <3>2 DEF U
      <4> QED
        BY <4>5, <4>6, <2>2
    <3> QED
      BY <3>1, <3>2
  <2> QED
    BY <2>1, <2>4
<1> HIDE DEF Good
<1>10. \A i \in 0 .. n : i \in Good
  BY ONLY <1>1, <1>8, <1>9, Induction
<1>11. n \in 0 .. n /\ n \in Good /\ F[n] \in W
  BY <1>10, <1>1
<1>12. \A T \in SUBSET S : F[n][T] = Up(F[n])[T]
  <2>1. Fixed(F[n], n)
    BY <1>11 DEF Good
  <2>2. \A T \in SUBSET S : Cardinality(T) <= n
    BY <1>2, <1>1
  <2> HIDE DEF Up
  <2> QED
    BY <2>1, <2>2
<1>13. F[n] = Up(F[n])
  BY <1>11, <1>12 DEF W
<1>14. \E f \in W : f = Up(f)
  BY <1>13, <1>11
<1> QED
  BY <1>14 DEF W, Folds

\* A set that is not empty has the element CHOOSE takes.
LEMMA Chosen == \A T : T # {} => (CHOOSE x \in T : TRUE) \in T
OBVIOUS

\* h has the sum of fun over each subset of D.
Sums(h, D, fun) ==
    /\ h[{}] = 0
    /\ \A T \in SUBSET D : T # {} => \E x \in T : h[T] = fun[x] + h[T \ {x}]
    /\ \A T \in SUBSET D : SumFunctionOnSet(fun, T) = h[T]

\* A sum over a set adds the elements one by one, in some order.
LEMMA SumFolds ==
    ASSUME NEW D, IsFiniteSet(D), NEW fun \in [D -> Int]
    PROVE  \E h \in [SUBSET D -> Int] : Sums(h, D, fun)
<1> DEFINE first(s) == CHOOSE x \in s : TRUE
           G(f, T) == [s \in SUBSET T |-> IF s = {} THEN 0
                                          ELSE fun[first(s)] + f[s \ {first(s)}]]
<1>1. \A T : SumFunctionOnSet(fun, T) = (CHOOSE f : f = G(f, T))[T]
  BY Zenon DEF SumFunctionOnSet, FoldFunctionOnSet, MapThenFoldSet
<1>2. \A T \in SUBSET D : T # {} => first(T) \in T
  BY Chosen
<1> HIDE DEF first
<1>3. ASSUME NEW T \in SUBSET D PROVE \E f \in [SUBSET T -> Int] : f = G(f, T)
  <2> DEFINE next == [x \in T |-> [v \in Int |-> fun[x] + v]]
             pick == [s \in SUBSET T |-> first(s)]
  <2>1. IsFiniteSet(T)
    BY FS_Subset
  <2>2. next \in [T -> [Int -> Int]]
    OBVIOUS
  <2>3. Picks(pick, T)
    BY <1>2 DEF Picks
  <2>4. \A x \in T : \A v \in Int : next[x][v] = fun[x] + v
    OBVIOUS
  <2>5. 0 \in Int
    OBVIOUS
  <2>6. \A s \in SUBSET T : pick[s] = first(s)
    OBVIOUS
  <2> HIDE DEF next, pick
  <2>7. PICK f \in [SUBSET T -> Int] : Folds(f, T, 0, next, pick)
    BY ONLY <2>1, <2>2, <2>3, <2>5, SetRecursion
  <2>8. ASSUME NEW s \in SUBSET T, s # {} PROVE f[s] = fun[first(s)] + f[s \ {first(s)}]
    <3>1. first(s) \in T /\ s \ {first(s)} \in SUBSET T
      BY <1>2, <2>8
    <3>2. f[s] = next[pick[s]][f[s \ {pick[s]}]]
      BY <2>7, <2>8 DEF Folds
    <3> QED
      BY <3>1, <3>2, <2>4, <2>6
  <2>9. f[{}] = 0
    BY <2>7 DEF Folds
  <2>10. f = G(f, T)
    BY <2>8, <2>9
  <2> HIDE DEF G
  <2> QED
    BY <2>10
<1>4. PICK h \in [SUBSET D -> Int] : h = G(h, D)
  BY <1>3
<1>5. ASSUME NEW T \in SUBSET D PROVE SumFunctionOnSet(fun, T) = h[T]
  <2> DEFINE g == CHOOSE f : f = G(f, T)
  <2>1. g = G(g, T)
    <3> HIDE DEF G
    <3> QED
      BY <1>3
  <2> HIDE DEF g
  <2> DEFINE Good == {U \in SUBSET T : g[U] = h[U]}
  <2>2. \A U \in SUBSET T : g[U] = IF U = {} THEN 0 ELSE fun[first(U)] + g[U \ {first(U)}]
    BY <2>1
  <2>3. \A U \in SUBSET T : h[U] = IF U = {} THEN 0 ELSE fun[first(U)] + h[U \ {first(U)}]
    BY <1>4
  <2>4. {} \in Good
    BY <2>2, <2>3
  <2>5. ASSUME NEW U \in SUBSET T, U # {}, \A x \in U : U \ {x} \in Good PROVE U \in Good
    <3>1. U \ {first(U)} \in Good
      BY <2>5, <1>2
    <3> QED
      BY <3>1, <2>2, <2>3, <2>5
  <2>6. IsFiniteSet(T)
    BY FS_Subset
  <2> HIDE DEF Good
  <2>7. T \in Good
    <3>1. \A U \in SUBSET T : U \in Good
      BY ONLY <2>4, <2>5, <2>6, SetInduction
    <3> QED
      BY <3>1
  <2>8. SumFunctionOnSet(fun, T) = g[T]
    BY <1>1, Zenon DEF g
  <2> QED
    BY <2>7, <2>8 DEF Good
<1>6. \A T \in SUBSET D : T # {} => \E x \in T : h[T] = fun[x] + h[T \ {x}]
  <2> SUFFICES ASSUME NEW T \in SUBSET D, T # {}
               PROVE  \E x \in T : h[T] = fun[x] + h[T \ {x}]
    OBVIOUS
  <2>1. h[T] = fun[first(T)] + h[T \ {first(T)}]
    BY <1>4
  <2> QED
    BY <2>1, <1>2
<1>7. h[{}] = 0
  BY <1>4
<1> HIDE DEF G
<1>8. Sums(h, D, fun)
  BY <1>5, <1>6, <1>7 DEF Sums
<1> QED
  BY <1>8

\* A sum of integers is one; nothing sums up to 0.
LEMMA SumTyped ==
    ASSUME NEW D, IsFiniteSet(D), NEW fun \in [D -> Int], NEW T \in SUBSET D
    PROVE  SumFunctionOnSet(fun, T) \in Int /\ SumFunctionOnSet(fun, {}) = 0
<1>1. PICK h \in [SUBSET D -> Int] : Sums(h, D, fun)
  BY ONLY IsFiniteSet(D), fun \in [D -> Int], SumFolds
<1> QED
  BY <1>1, {} \in SUBSET D DEF Sums

\* Any element may be the first to be added.
LEMMA SumRemove ==
    ASSUME NEW D, IsFiniteSet(D), NEW fun \in [D -> Int], NEW T \in SUBSET D, NEW x \in T
    PROVE  SumFunctionOnSet(fun, T) = fun[x] + SumFunctionOnSet(fun, T \ {x})
<1>1. PICK h \in [SUBSET D -> Int] : Sums(h, D, fun)
  BY ONLY IsFiniteSet(D), fun \in [D -> Int], SumFolds
<1> DEFINE Good == {U \in SUBSET D : \A y \in U : h[U] = fun[y] + h[U \ {y}]}
<1>2. {} \in Good
  OBVIOUS
<1>3. ASSUME NEW U \in SUBSET D, U # {}, \A y \in U : U \ {y} \in Good PROVE U \in Good
  <2>1. PICK c \in U : h[U] = fun[c] + h[U \ {c}]
    BY <1>1, <1>3 DEF Sums
  <2>2. ASSUME NEW y \in U PROVE h[U] = fun[y] + h[U \ {y}]
    <3>1. CASE y = c
      BY <3>1, <2>1
    <3>2. CASE y # c
      <4>1. U \ {c} \in Good /\ U \ {y} \in Good
        BY <1>3
      <4>2. y \in U \ {c} /\ c \in U \ {y} /\ (U \ {c}) \ {y} = (U \ {y}) \ {c}
        BY <3>2
      <4>3. h[U \ {c}] = fun[y] + h[(U \ {c}) \ {y}]
        BY <4>1, <4>2
      <4>4. h[U \ {y}] = fun[c] + h[(U \ {c}) \ {y}]
        BY <4>1, <4>2
      <4>5. fun[y] \in Int /\ fun[c] \in Int /\ h[(U \ {c}) \ {y}] \in Int
        BY (U \ {c}) \ {y} \in SUBSET D
      <4> QED
        BY <4>3, <4>4, <4>5, <2>1
    <3> QED
      BY <3>1, <3>2
  <2> QED
    BY <2>2
<1> HIDE DEF Good
<1>4. \A U \in SUBSET D : U \in Good
  BY ONLY <1>2, <1>3, IsFiniteSet(D), SetInduction
<1>5. h[T] = fun[x] + h[T \ {x}]
  BY <1>4 DEF Good
<1> QED
  BY <1>1, <1>5, T \ {x} \in SUBSET D DEF Sums

\* A sum grows with what is not negative.
LEMMA SumMonotone ==
    ASSUME NEW D, IsFiniteSet(D), NEW fun \in [D -> Int],
           NEW T \in SUBSET D, NEW U \in SUBSET T, \A x \in T \ U : fun[x] >= 0
    PROVE  SumFunctionOnSet(fun, U) <= SumFunctionOnSet(fun, T)
<1> DEFINE sum(V) == SumFunctionOnSet(fun, V)
           Good == {V \in SUBSET D : \A W \in SUBSET V :
                       (\A x \in V \ W : fun[x] >= 0) => sum(W) <= sum(V)}
<1>1. \A V \in SUBSET D : sum(V) \in Int
  BY SumTyped
<1>2. ASSUME NEW V \in SUBSET D, NEW x \in V PROVE sum(V) = fun[x] + sum(V \ {x})
  BY ONLY IsFiniteSet(D), fun \in [D -> Int], V \in SUBSET D, x \in V, SumRemove
<1> HIDE DEF sum
<1>3. {} \in Good
  BY <1>1
<1>4. ASSUME NEW V \in SUBSET D, V # {}, \A x \in V : V \ {x} \in Good PROVE V \in Good
  <2>1. ASSUME NEW W \in SUBSET V, \A x \in V \ W : fun[x] >= 0 PROVE sum(W) <= sum(V)
    <3>1. CASE W = V
      BY <3>1, <1>1
    <3>2. CASE W # V
      <4>1. PICK x \in V : x \notin W
        BY <3>2
      <4>2. V \ {x} \in Good /\ W \in SUBSET (V \ {x}) /\ fun[x] >= 0
        BY <4>1, <2>1, <1>4
      <4>3. sum(W) <= sum(V \ {x})
        BY <4>2, <2>1
      <4>4. sum(V) = fun[x] + sum(V \ {x})
        BY <1>2
      <4>5. sum(W) \in Int /\ sum(V) \in Int /\ sum(V \ {x}) \in Int /\ fun[x] \in Int
        BY <1>1, V \ {x} \in SUBSET D, W \in SUBSET D
      <4> QED
        BY <4>2, <4>3, <4>4, <4>5
    <3> QED
      BY <3>1, <3>2
  <2> QED
    BY <2>1
<1> HIDE DEF Good
<1>5. \A V \in SUBSET D : V \in Good
  BY ONLY <1>3, <1>4, IsFiniteSet(D), SetInduction
<1> QED
  BY <1>5 DEF Good, sum

-----------------------------------------------------------------------------
(***************************************************************************)
(* Scores: a profile that does not allow agents keeps the score above what *)
(* agent processes and their flags alone are worth.                        *)
(***************************************************************************)

\* The smaller and the greater of two numbers.
LEMMA Pairs ==
    ASSUME NEW a \in Int, NEW b \in Int
    PROVE  /\ Min({a, b}) = IF a <= b THEN a ELSE b
           /\ Max({a, b}) = IF a <= b THEN b ELSE a
<1>1. \A x \in {a, b} : (\A y \in {a, b} : x <= y) <=> x = IF a <= b THEN a ELSE b
  OBVIOUS
<1>2. \A x \in {a, b} : (\A y \in {a, b} : x >= y) <=> x = IF a <= b THEN b ELSE a
  OBVIOUS
<1>3. Min({a, b}) = IF a <= b THEN a ELSE b
  BY <1>1 DEF Min
<1>4. Max({a, b}) = IF a <= b THEN b ELSE a
  BY <1>2 DEF Max
<1> QED
  BY <1>3, <1>4

\* The clues are those of the seven files.
LEMMA ClueNames ==
    DOMAIN AllClues = {"library", "automation", "human", "burst", "regular", "subsecond",
                       "sustained", "think_time", "no_pty", "interactive", "compound",
                       "wrapper", "agent_name", "agent_env", "skip_flags", "ai_api", "ai_agent"}
BY DEF AllClues, BannerClues, RhythmClues, PTYClues, StyleClues, ProcClues, NetClues,
       IdentityClues

\* A set written as a list is finite.
LEMMA ListFinite ==
    ASSUME NEW S, NEW list \in Seq(S), \A x \in S : \E i \in 1 .. Len(list) : list[i] = x
    PROVE  IsFiniteSet(S)
BY DEF IsFiniteSet

\* There are finitely many clues and categories.
LEMMA CluesFinite == IsFiniteSet(DOMAIN AllClues) /\ IsFiniteSet(DOMAIN CategoryCaps)
<1>1. IsFiniteSet(DOMAIN AllClues)
  <2> DEFINE D == DOMAIN AllClues
             list == <<"library", "automation", "human", "burst", "regular", "subsecond",
                       "sustained", "think_time", "no_pty", "interactive", "compound",
                       "wrapper", "agent_name", "agent_env", "skip_flags", "ai_api", "ai_agent">>
  <2>1. list \in Seq(D) /\ \A x \in D : \E i \in 1 .. Len(list) : list[i] = x
    BY ClueNames
  <2> HIDE DEF D, list
  <2> QED
    BY <2>1, ListFinite DEF D
<1>2. IsFiniteSet(DOMAIN CategoryCaps)
  <2> DEFINE D == DOMAIN CategoryCaps
             list == <<"banner", "rhythm", "pty", "style", "process", "flags", "network",
                       "identity">>
  <2>1. list \in Seq(D) /\ \A x \in D : \E i \in 1 .. Len(list) : list[i] = x
    BY DEF CategoryCaps
  <2> HIDE DEF D, list
  <2> QED
    BY <2>1, ListFinite DEF D
<1> QED
  BY <1>1, <1>2

\* Clues weigh integers.
LEMMA ClueWeights ==
    /\ \A c \in DOMAIN AllClues : AllClues[c].weight \in Int
    /\ Weight \in [DOMAIN AllClues -> Int] /\ Excuse \in [DOMAIN AllClues -> Int]
    /\ \A c \in DOMAIN AllClues : Excuse[c] = 0 - Weight[c]
<1>1. \A c \in DOMAIN BannerClues : BannerClues[c].weight \in Int
  BY DEF BannerClues, Clue
<1>2. \A c \in DOMAIN RhythmClues : RhythmClues[c].weight \in Int
  BY DEF RhythmClues, Clue
<1>3. \A c \in DOMAIN PTYClues : PTYClues[c].weight \in Int
  BY DEF PTYClues, Clue
<1>4. \A c \in DOMAIN StyleClues : StyleClues[c].weight \in Int
  BY DEF StyleClues, Clue
<1>5. \A c \in DOMAIN ProcClues : ProcClues[c].weight \in Int
  BY DEF ProcClues, Clue
<1>6. \A c \in DOMAIN NetClues : NetClues[c].weight \in Int
  BY DEF NetClues, Clue
<1>7. \A c \in DOMAIN IdentityClues : IdentityClues[c].weight \in Int
  BY DEF IdentityClues, Clue
<1>8. \A c \in DOMAIN AllClues : AllClues[c].weight \in Int
  BY <1>1, <1>2, <1>3, <1>4, <1>5, <1>6, <1>7 DEF AllClues
<1> QED
  BY <1>8 DEF Weight, Excuse

\* What a category adds to the score is between 0 and its cap.
LEMMA ContributionBounds ==
    ASSUME NEW clues \in SUBSET DOMAIN AllClues, NEW k \in DOMAIN CategoryCaps
    PROVE  /\ Positive(clues, k) \in Nat /\ CategoryCaps[k] \in Nat
           /\ Contribution(clues, k) \in 0 .. CategoryCaps[k]
           /\ Positive(clues, k) = 0 => Contribution(clues, k) = 0
<1> DEFINE D == DOMAIN AllClues
           T == {c \in clues : AllClues[c].category = k /\ Weight[c] > 0}
           none == {}
<1>1. IsFiniteSet(D) /\ Weight \in [D -> Int]
  BY CluesFinite, ClueWeights
<1>2. T \in SUBSET D /\ none \in SUBSET T /\ \A x \in T \ none : Weight[x] >= 0
  BY <1>1
<1>3. Positive(clues, k) = SumFunctionOnSet(Weight, T)
  BY DEF Positive
<1>4. SumFunctionOnSet(Weight, none) = 0
  BY ONLY <1>1, <1>2, SumTyped DEF none
<1> HIDE DEF D, T, none
<1>5. SumFunctionOnSet(Weight, T) \in Int
  BY ONLY <1>1, <1>2, SumTyped
<1>6. SumFunctionOnSet(Weight, none) <= SumFunctionOnSet(Weight, T)
  BY ONLY <1>1, <1>2, SumMonotone
<1>7. Positive(clues, k) \in Nat
  BY <1>3, <1>4, <1>5, <1>6
<1>8. CategoryCaps[k] \in Nat
  BY DEF CategoryCaps
<1>9. Contribution(clues, k) = IF Positive(clues, k) <= CategoryCaps[k] THEN Positive(clues, k)
                               ELSE CategoryCaps[k]
  BY <1>7, <1>8, Pairs DEF Contribution
<1> QED
  BY <1>7, <1>8, <1>9

\* The clues that excuse a session.
Excuses(clues) ==
    {c \in clues : Weight[c] < 0 /\ ~(c = "interactive" /\ Positive(clues, "process") > 0)}

\* Fewer clues excuse less.
LEMMA NegativeGrows ==
    ASSUME NEW clues \in SUBSET DOMAIN AllClues, NEW kept \in SUBSET clues,
           Excuses(kept) \subseteq Excuses(clues)
    PROVE  Negative(kept) <= Negative(clues) /\ Negative(kept) \in Int /\ Negative(clues) \in Nat
<1> DEFINE D == DOMAIN AllClues
           T == Excuses(clues)
           U == Excuses(kept)
           none == {}
<1>1. IsFiniteSet(D) /\ Excuse \in [D -> Int]
  BY CluesFinite, ClueWeights
<1>2. T \in SUBSET D /\ U \in SUBSET D /\ U \in SUBSET T /\ none \in SUBSET T
  BY DEF Excuses
<1>3. \A x \in T : Excuse[x] >= 0
  BY ClueWeights DEF Excuses
<1>4. Negative(clues) = SumFunctionOnSet(Excuse, T) /\ Negative(kept) = SumFunctionOnSet(Excuse, U)
  BY DEF Negative, Excuses
<1>5. SumFunctionOnSet(Excuse, none) = 0
  BY ONLY <1>1, <1>2, SumTyped DEF none
<1>6. (\A x \in T \ none : Excuse[x] >= 0) /\ \A x \in T \ U : Excuse[x] >= 0
  BY <1>3
<1> HIDE DEF D, T, U, none
<1>7. SumFunctionOnSet(Excuse, T) \in Int /\ SumFunctionOnSet(Excuse, U) \in Int
  BY ONLY <1>1, <1>2, SumTyped
<1>8. SumFunctionOnSet(Excuse, none) <= SumFunctionOnSet(Excuse, T)
  BY ONLY <1>1, <1>2, <1>6, SumMonotone
<1>9. SumFunctionOnSet(Excuse, U) <= SumFunctionOnSet(Excuse, T)
  BY ONLY <1>1, <1>2, <1>6, SumMonotone
<1> QED
  BY <1>4, <1>5, <1>7, <1>8, <1>9

\* All categories together add at least what two of them do.
LEMMA TotalCovers ==
    ASSUME NEW clues \in SUBSET DOMAIN AllClues
    PROVE  LET total == SumFunction([k \in DOMAIN CategoryCaps |-> Contribution(clues, k)])
           IN  /\ total \in Int
               /\ Contribution(clues, "process") + Contribution(clues, "flags") <= total
<1> DEFINE D == DOMAIN CategoryCaps
           fun == [k \in D |-> Contribution(clues, k)]
           U == {"process", "flags"}
           V == {"flags"}
           none == {}
<1>1. IsFiniteSet(D) /\ fun \in [D -> Int] /\ \A k \in D : fun[k] >= 0
  BY CluesFinite, ContributionBounds
<1>2. /\ U \in SUBSET D /\ V \in SUBSET D /\ D \in SUBSET D
      /\ U \ {"process"} = V /\ V \ {"flags"} = none
      /\ "process" \in U /\ "flags" \in V /\ \A x \in D \ U : fun[x] >= 0
  BY <1>1 DEF CategoryCaps
<1>3. fun["process"] = Contribution(clues, "process") /\ fun["flags"] = Contribution(clues, "flags")
      /\ fun["process"] \in Int /\ fun["flags"] \in Int
  BY <1>1, <1>2
<1>4. SumFunction(fun) = SumFunctionOnSet(fun, D)
  BY DEF SumFunction
<1>5. SumFunctionOnSet(fun, none) = 0
  BY ONLY <1>1, <1>2, SumTyped DEF none
<1> HIDE DEF D, fun, U, V, none
<1>6. SumFunctionOnSet(fun, U) = fun["process"] + SumFunctionOnSet(fun, U \ {"process"})
  BY ONLY <1>1, <1>2, SumRemove
<1>7. SumFunctionOnSet(fun, V) = fun["flags"] + SumFunctionOnSet(fun, V \ {"flags"})
  BY ONLY <1>1, <1>2, SumRemove
<1>8. SumFunctionOnSet(fun, U) <= SumFunctionOnSet(fun, D)
  BY ONLY <1>1, <1>2, SumMonotone
<1>9. SumFunctionOnSet(fun, D) \in Int
  BY ONLY <1>1, <1>2, SumTyped
<1>10. SumFunctionOnSet(fun, U) = fun["process"] + (fun["flags"] + 0)
  BY ONLY <1>2, <1>5, <1>6, <1>7
<1>11. fun["process"] + fun["flags"] <= SumFunctionOnSet(fun, D)
  BY ONLY <1>3, <1>8, <1>9, <1>10
<1>12. /\ SumFunction(fun) \in Int
       /\ Contribution(clues, "process") + Contribution(clues, "flags") <= SumFunction(fun)
  BY ONLY <1>3, <1>4, <1>9, <1>11
<1> QED
  BY <1>12 DEF fun, D

\* A profile that does not allow agents leaves their clues, and takes no excuse
\* into account that was none before.
LEMMA ProtectedStay ==
    ASSUME NEW p, ~p.allow, NEW clues \in SUBSET DOMAIN AllClues
    PROVE  LET kept == applyProfile(p, clues)
           IN  /\ kept \in SUBSET clues
               /\ \A k \in {"process", "flags"} :
                     /\ Positive(kept, k) = Positive(clues, k)
                     /\ Contribution(kept, k) = Contribution(clues, k)
               /\ \A c \in clues \ kept : AllClues[c].category \notin protectedCategories
               /\ Excuses(kept) \subseteq Excuses(clues)
<1> DEFINE kept == applyProfile(p, clues)
           Of(s, k) == {c \in s : AllClues[c].category = k /\ Weight[c] > 0}
<1>1. kept \in SUBSET clues
  BY DEF applyProfile
<1>2. \A c \in clues : AllClues[c].category \in protectedCategories => c \in kept
  BY DEF applyProfile
<1>3. "process" \in protectedCategories /\ "flags" \in protectedCategories
  BY DEF protectedCategories
<1> HIDE DEF kept
<1>4. ASSUME NEW k \in {"process", "flags"} PROVE Positive(kept, k) = Positive(clues, k)
  <2>1. Of(kept, k) = Of(clues, k)
    BY <1>1, <1>2, <1>3
  <2>2. Positive(kept, k) = SumFunctionOnSet(Weight, Of(kept, k))
    BY Zenon DEF Positive
  <2>3. Positive(clues, k) = SumFunctionOnSet(Weight, Of(clues, k))
    BY Zenon DEF Positive
  <2> HIDE DEF Of
  <2> QED
    BY <2>1, <2>2, <2>3
<1>5. \A k \in {"process", "flags"} : Contribution(kept, k) = Contribution(clues, k)
  BY <1>4 DEF Contribution
<1>6. Excuses(kept) \subseteq Excuses(clues)
  BY <1>1, <1>4 DEF Excuses
<1>7. \A c \in clues \ kept : AllClues[c].category \notin protectedCategories
  BY <1>2
<1> QED
  BY <1>1, <1>4, <1>5, <1>6, <1>7 DEF kept

\* What is left of the score under such a profile covers the protected clues.
LEMMA ScoreCovers ==
    ASSUME NEW p \in Profiles, ~p.allow, NEW clues \in SUBSET DOMAIN AllClues
    PROVE  Capped(p, applyProfile(p, clues)) >= ProtectedScore(clues)
<1> DEFINE kept == applyProfile(p, clues)
           total == SumFunction([k \in DOMAIN CategoryCaps |-> Contribution(kept, k)])
           agents == Contribution(kept, "process") + Contribution(kept, "flags")
<1>1. kept \in SUBSET DOMAIN AllClues /\ kept \in SUBSET clues
      /\ Excuses(kept) \subseteq Excuses(clues)
  BY ProtectedStay
<1>2. ProtectedScore(clues) = Max({0, agents - Negative(clues)})
  <2>1. Contribution(kept, "process") = Contribution(clues, "process")
        /\ Contribution(kept, "flags") = Contribution(clues, "flags")
    BY ProtectedStay
  <2> HIDE DEF kept
  <2> DEFINE all == Contribution(clues, "process") + Contribution(clues, "flags")
  <2>2. ProtectedScore(clues) = Max({0, all - Negative(clues)})
    BY Zenon DEF ProtectedScore
  <2>3. agents = all
    BY ONLY <2>1 DEF agents, all
  <2> HIDE DEF agents, all
  <2> QED
    BY ONLY <2>2, <2>3
<1> HIDE DEF kept
<1>3. total \in Int /\ agents <= total
  BY <1>1, TotalCovers
<1>4. Negative(kept) <= Negative(clues) /\ Negative(kept) \in Int /\ Negative(clues) \in Nat
  BY <1>1, NegativeGrows
<1>5. "process" \in DOMAIN CategoryCaps /\ "flags" \in DOMAIN CategoryCaps
      /\ CategoryCaps["process"] = 45 /\ CategoryCaps["flags"] = 25
  BY DEF CategoryCaps
<1>6. /\ Contribution(kept, "process") \in 0 .. 45 /\ Contribution(kept, "flags") \in 0 .. 25
      /\ Positive(kept, "process") \in Nat /\ Positive(kept, "flags") \in Nat
      /\ Positive(kept, "process") = 0 => Contribution(kept, "process") = 0
      /\ Positive(kept, "flags") = 0 => Contribution(kept, "flags") = 0
  BY <1>1, <1>5, ContributionBounds
<1>7. agents \in 0 .. 70
  BY <1>6
<1>8. RawScore(kept) = Max({0, Min({100, total - Negative(kept)})})
  BY Zenon DEF RawScore
<1>9. p.maxScore \in Int
  BY DEF Profiles
<1> HIDE DEF total
<1>10. RawScore(kept) \in Nat /\ RawScore(kept) >= ProtectedScore(clues)
  <2> HIDE DEF agents
  <2> DEFINE rest == total - Negative(kept)
             m == Min({100, rest})
             low == agents - Negative(clues)
  <2>1. rest \in Int /\ low \in Int /\ low <= rest /\ low <= 70 /\ 0 \in Int /\ 100 \in Int
    BY <1>3, <1>4, <1>7
  <2>2. RawScore(kept) = Max({0, m}) /\ ProtectedScore(clues) = Max({0, low})
    BY <1>2, <1>8
  <2> HIDE DEF rest, low
  <2>3. m = IF 100 <= rest THEN 100 ELSE rest
    BY ONLY <2>1, Pairs DEF m
  <2> HIDE DEF m
  <2>4. m \in Int /\ low <= m
    BY ONLY <2>1, <2>3
  <2>5. Max({0, m}) = IF 0 <= m THEN m ELSE 0
    BY ONLY <2>1, <2>4, Pairs
  <2>6. Max({0, low}) = IF 0 <= low THEN low ELSE 0
    BY ONLY <2>1, Pairs
  <2> QED
    BY ONLY <2>1, <2>2, <2>4, <2>5, <2>6
<1>11. Capped(p, kept) = IF p.maxScore > 0 /\ Positive(kept, "process") + Positive(kept, "flags") = 0
                         THEN Min({RawScore(kept), p.maxScore}) ELSE RawScore(kept)
  BY DEF Capped
<1>12. CASE p.maxScore > 0 /\ Positive(kept, "process") + Positive(kept, "flags") = 0
  <2>1. agents = 0
    BY <1>6, <1>12
  <2> DEFINE low == agents - Negative(clues)
  <2>4. low \in Int /\ low <= 0 /\ 0 \in Int
    BY <2>1, <1>4
  <2>5. ProtectedScore(clues) = Max({0, low})
    BY <1>2
  <2> HIDE DEF low
  <2>6. Max({0, low}) = IF 0 <= low THEN low ELSE 0
    BY ONLY <2>4, Pairs
  <2>2. ProtectedScore(clues) = 0
    BY ONLY <2>4, <2>5, <2>6
  <2>3. Min({RawScore(kept), p.maxScore}) >= 0
    <3>1. RawScore(kept) \in Int
      BY <1>10
    <3>2. Min({RawScore(kept), p.maxScore}) = IF RawScore(kept) <= p.maxScore THEN RawScore(kept)
                                              ELSE p.maxScore
      BY ONLY <3>1, <1>9, Pairs
    <3> QED
      BY <3>2, <1>9, <1>10, <1>12
  <2> QED
    BY <2>2, <2>3, <1>11, <1>12 DEF kept
<1> QED
  BY <1>10, <1>11, <1>12 DEF kept

\* A level is one of four.
LEMMA LevelTyped == \A score, clues : Level(score, clues) \in 0 .. 3
BY DEF Level, Rank

\* The profiles the daemon runs with are entries in force.
PackInForce ==
    \A i \in DOMAIN pack.profiles : pack.profiles[i] \in Profiles /\ pack.profiles[i] \in InForce

\* The profile a session matches is the first of the pack that does.
LEMMA MatchFound ==
    ASSUME NEW t, pack.profiles \in Seq(Profiles)
    PROVE  \/ MatchProfile(t) = 0
           \/ /\ MatchProfile(t) \in DOMAIN pack.profiles /\ MatchProfile(t) # 0
              /\ matchOne(t, pack.profiles[MatchProfile(t)])
<1> DEFINE hits == {i \in DOMAIN pack.profiles : matchOne(t, pack.profiles[i])}
<1>1. MatchProfile(t) = IF hits = {} THEN 0 ELSE Min(hits)
  BY Zenon DEF MatchProfile
<1>2. hits \subseteq Nat /\ 0 \notin hits
  OBVIOUS
<1>3. hits # {} => Min(hits) \in hits
  <2> HIDE DEF hits
  <2> QED
    BY <1>2, LeastIsMin
<1> QED
  BY <1>1, <1>2, <1>3

\* Whatever the session, its verdict is bounded.
LEMMA VerdictBounded ==
    ASSUME NEW t \in TrackSet, pack.profiles \in Seq(Profiles), PackInForce
    PROVE  Bounded(t, Evaluate(t))
<1> DEFINE i == MatchProfile(t)
           p == pack.profiles[i]
           clues == IF i = 0 THEN t.clues ELSE applyProfile(p, t.clues)
           score == IF i = 0 THEN RawScore(clues) ELSE Capped(p, clues)
           level == Level(score, clues)
           v == Evaluate(t)
<1>1. /\ v.score = score /\ v.profile = (IF i = 0 THEN "" ELSE p.id) /\ v.removed = t.clues \ clues
      /\ "ai_agent" \in t.clues => v.class = "declared_agent" /\ v.level = Max({1, level})
  <2> HIDE DEF i
  <2>1. v = [score |-> score, profile |-> IF i = 0 THEN "" ELSE p.id, removed |-> t.clues \ clues,
             class |-> IF "ai_agent" \in t.clues THEN "declared_agent"
                       ELSE IF level >= 2 THEN "suspected_agent" ELSE "human",
             level |-> IF "ai_agent" \in t.clues THEN Max({1, level}) ELSE level]
    BY Zenon DEF Evaluate, i
  <2> HIDE DEF v, p, clues, score, level
  <2> QED
    BY <2>1
<1>2. t.clues \in SUBSET DOMAIN AllClues
  BY AllowlistAssumption DEF TrackSet
<1>3. "ai_agent" \in t.clues => v.class = "declared_agent" /\ v.level >= 1
  <2>1. level \in 0 .. 3
    BY LevelTyped
  <2> HIDE DEF level, v
  <2>2. 1 \in Int /\ level \in Int
    BY <2>1
  <2>3. Max({1, level}) = IF 1 <= level THEN level ELSE 1
    BY ONLY <2>2, Pairs
  <2>4. "ai_agent" \in t.clues =>
           v.class = "declared_agent" /\ v.level = IF 1 <= level THEN level ELSE 1
    BY ONLY <1>1, <2>3, Zenon
  <2> QED
    BY ONLY <2>2, <2>4
<1>4. CASE i = 0
  <2>1. v.profile = "" /\ v.removed = {} /\ v.score = RawScore(t.clues)
    BY <1>1, <1>4
  <2> HIDE DEF v
  <2> QED
    BY <1>3, <2>1 DEF Bounded, v
<1>5. CASE i # 0
  <2>1. i \in DOMAIN pack.profiles /\ matchOne(t, p)
    BY <1>5, MatchFound
  <2>2. p \in Profiles /\ p \in InForce
    BY <2>1 DEF PackInForce
  <2>3. /\ v.profile = p.id /\ v.score = Capped(p, applyProfile(p, t.clues))
        /\ v.removed = t.clues \ applyProfile(p, t.clues)
    BY <1>1, <1>5
  <2> HIDE DEF v, p, i
  <2>4. (t.user \in p.users \/ p.users = {}) /\ (p.clauses /\ p.required => t.cmds.tool > 0)
    BY <2>1 DEF matchOne
  <2>5. p.allow \/ /\ v.score >= ProtectedScore(t.clues)
                   /\ \A c \in v.removed : AllClues[c].category \notin protectedCategories
    <3>1. SUFFICES ASSUME ~p.allow
                   PROVE  /\ v.score >= ProtectedScore(t.clues)
                          /\ \A c \in v.removed : AllClues[c].category \notin protectedCategories
      OBVIOUS
    <3>2. v.score >= ProtectedScore(t.clues)
      BY <2>2, <2>3, <3>1, <1>2, ScoreCovers
    <3>3. \A c \in t.clues \ applyProfile(p, t.clues) :
             AllClues[c].category \notin protectedCategories
      BY <3>1, <1>2, ProtectedStay
    <3> QED
      BY <3>2, <3>3, <2>3
  <2> QED
    BY <1>3, <2>2, <2>3, <2>4, <2>5 DEF Bounded, v
<1> QED
  BY <1>4, <1>5

-----------------------------------------------------------------------------
(***************************************************************************)
(* Loading: folding file after file, entry after entry, leaves the newest  *)
(* entry of each id.                                                       *)
(***************************************************************************)

\* A set of numbers up to n that is not empty has a greatest element.
LEMMA MaxIsGreatest ==
    ASSUME NEW n \in Nat, NEW T \in SUBSET (1 .. n), T # {}
    PROVE  Max(T) \in T /\ \A y \in T : y <= Max(T)
<1> DEFINE U == {n - x : x \in T}
<1>1. U \subseteq Nat /\ U # {}
  <2>1. \A x \in T : n - x \in Nat
    OBVIOUS
  <2>2. PICK x \in T : TRUE
    OBVIOUS
  <2>3. n - x \in U
    OBVIOUS
  <2> QED
    BY <2>1, <2>3
<1>2. PICK u \in U : \A y \in U : u <= y
  BY <1>1, Least, Zenon
<1>3. PICK x \in T : u = n - x
  BY <1>2
<1>4. \A y \in T : y <= x
  <2> SUFFICES ASSUME NEW y \in T PROVE y <= x
    OBVIOUS
  <2>1. n - x <= n - y
    BY <1>2, <1>3
  <2> QED
    BY <2>1
<1>5. \A y \in T : x >= y
  BY <1>4
<1>6. Max(T) \in T /\ \A y \in T : Max(T) >= y
  BY <1>5, Zenon DEF Max
<1> QED
  BY <1>6

\* f folds a set of places from the least to the greatest.
FoldsUp(f, S, a, next) ==
    /\ f[{}] = a
    /\ \A s \in SUBSET S : s # {} => Max(s) \in s /\ f[s] = next[Max(s)][f[s \ {Max(s)}]]

\* Folding from the left meets the elements of a sequence in their order.
LEMMA LeftFold ==
    ASSUME NEW S, IsFiniteSet(S), \A s \in SUBSET S : s # {} => Max(s) \in s,
           NEW V, NEW a \in V, NEW next \in [S -> [V -> V]]
    PROVE  \E f \in [SUBSET S -> V] : FoldsUp(f, S, a, next)
<1> DEFINE pick == [s \in SUBSET S |-> Max(s)]
<1>1. Picks(pick, S)
  BY DEF Picks
<1>2. \A s \in SUBSET S : pick[s] = Max(s)
  OBVIOUS
<1> HIDE DEF pick
<1>3. PICK f \in [SUBSET S -> V] : Folds(f, S, a, next, pick)
  BY ONLY IsFiniteSet(S), a \in V, next \in [S -> [V -> V]], <1>1, SetRecursion
<1>4. FoldsUp(f, S, a, next)
  BY <1>2, <1>3 DEF Folds, FoldsUp
<1> QED
  BY <1>4

\* The places of a sequence can be folded.
LEMMA PlacesFold ==
    ASSUME NEW n \in Nat
    PROVE  IsFiniteSet(1 .. n) /\ \A s \in SUBSET (1 .. n) : s # {} => Max(s) \in s
<1>1. IsFiniteSet(1 .. n)
  BY FS_Interval, 1 \in Int, n \in Int
<1> QED
  BY <1>1, MaxIsGreatest

\* The last of the numbers up to i, and what is left without it.
LEMMA LastOfPrefix ==
    ASSUME NEW i \in Nat \ {0}
    PROVE  (1 .. i) # {} /\ Max(1 .. i) = i /\ (1 .. i) \ {i} = 1 .. (i - 1)
<1> DEFINE T == 1 .. i
<1>1. i \in T /\ T \in SUBSET (1 .. i) /\ T # {}
  OBVIOUS
<1>2. \A x \in T : x \in Int /\ x <= i
  OBVIOUS
<1>3. T \ {i} = 1 .. (i - 1)
  OBVIOUS
<1> HIDE DEF T
<1>4. Max(T) \in T /\ \A y \in T : y <= Max(T)
  BY <1>1, MaxIsGreatest
<1> DEFINE m == Max(T)
<1>5. m \in T /\ m \in Int /\ m <= i /\ i <= m
  BY <1>1, <1>2, <1>4
<1> HIDE DEF m
<1>6. m = i
  BY <1>5
<1> QED
  BY <1>1, <1>3, <1>6 DEF T, m

-----------------------------------------------------------------------------
(* Merging the entries. *)

\* An entry replaces the one of its id, or is added, or removes it.
LEMMA UpsertCases ==
    ASSUME NEW list \in Seq(Profiles), NEW item \in Profiles
    PROVE  LET at == PositionOf(list, item.id)
               m  == Min(at)
           IN  /\ at # {} => m \in DOMAIN list /\ list[m].id = item.id
               /\ at = {} => \A x \in DOMAIN list : list[x].id # item.id
               /\ at # {} /\ item.disabled =>
                     /\ Upsert(list, item) \in Seq(Profiles)
                     /\ Len(Upsert(list, item)) = Len(list) - 1
                     /\ \A x \in 1 .. Len(list) - 1 :
                           Upsert(list, item)[x] = IF x < m THEN list[x] ELSE list[x + 1]
               /\ at # {} /\ ~item.disabled => Upsert(list, item) = [list EXCEPT ![m] = item]
               /\ at = {} /\ item.disabled => Upsert(list, item) = list
               /\ at = {} /\ ~item.disabled => Upsert(list, item) = Append(list, item)
<1> DEFINE at == PositionOf(list, item.id)
           m  == Min(at)
<1>1. at \subseteq Nat /\ at = {x \in DOMAIN list : list[x].id = item.id}
  BY DEF PositionOf
<1>2. item.disabled \in BOOLEAN
  BY DEF Profiles
<1>3. Upsert(list, item) = CASE at # {} /\ item.disabled  -> RemoveAt(list, m)
                             [] at # {} /\ ~item.disabled -> ReplaceAt(list, m, item)
                             [] at = {} /\ item.disabled  -> list
                             [] at = {} /\ ~item.disabled -> Append(list, item)
  BY Zenon DEF Upsert
<1> HIDE DEF at
<1>4. at # {} => m \in at
  BY <1>1, LeastIsMin
<1> HIDE DEF m
<1>5. at # {} => m \in 1 .. Len(list) /\ list[m].id = item.id
  BY <1>1, <1>4
<1>6. ASSUME at # {}, item.disabled
      PROVE  /\ Upsert(list, item) \in Seq(Profiles)
             /\ Len(Upsert(list, item)) = Len(list) - 1
             /\ \A x \in 1 .. Len(list) - 1 :
                   Upsert(list, item)[x] = IF x < m THEN list[x] ELSE list[x + 1]
  <2> DEFINE u == SubSeq(list, 1, m - 1)
             v == SubSeq(list, m + 1, Len(list))
  <2>1. m \in 1 .. Len(list) /\ Len(list) \in Nat
    BY <1>5, <1>6
  <2>2. Upsert(list, item) = u \o v
    BY <1>3, <1>6 DEF RemoveAt
  <2>3. u \in Seq(Profiles) /\ v \in Seq(Profiles) /\ Len(u) = m - 1 /\ Len(v) = Len(list) - m
        /\ (\A x \in 1 .. m - 1 : u[x] = list[x])
        /\ \A x \in 1 .. Len(list) - m : v[x] = list[m + x]
    BY <2>1
  <2> HIDE DEF u, v
  <2>4. Len(u \o v) = Len(list) - 1 /\ u \o v \in Seq(Profiles)
    <3>1. Len(u \o v) = Len(u) + Len(v) /\ u \o v \in Seq(Profiles)
      BY ONLY <2>3, ConcatProperties
    <3> QED
      BY <3>1, <2>1, <2>3
  <2>5. ASSUME NEW x \in 1 .. Len(list) - 1
        PROVE  (u \o v)[x] = IF x < m THEN list[x] ELSE list[x + 1]
    <3>1. CASE x < m
      BY <2>1, <2>3, <3>1
    <3>2. CASE ~(x < m)
      <4>1. (u \o v)[x] = v[x - (m - 1)]
        BY <2>1, <2>3, <3>2
      <4>2. x - (m - 1) \in 1 .. Len(list) - m /\ m + (x - (m - 1)) = x + 1
        BY <2>1, <3>2
      <4> QED
        BY <4>1, <4>2, <2>3, <3>2
    <3> QED
      BY <3>1, <3>2
  <2> QED
    BY <2>2, <2>4, <2>5
<1>7. at # {} /\ ~item.disabled => Upsert(list, item) = [list EXCEPT ![m] = item]
  BY <1>2, <1>3 DEF ReplaceAt
<1>8. at = {} /\ item.disabled => Upsert(list, item) = list
  BY <1>2, <1>3
<1>9. at = {} /\ ~item.disabled => Upsert(list, item) = Append(list, item)
  BY <1>2, <1>3
<1>10. at = {} => \A x \in DOMAIN list : list[x].id # item.id
  BY <1>1
<1> QED
  BY <1>5, <1>6, <1>7, <1>8, <1>9, <1>10 DEF at, m

\* Merging an entry gives a list of entries.
LEMMA UpsertTyped ==
    ASSUME NEW list \in Seq(Profiles), NEW item \in Profiles
    PROVE  Upsert(list, item) \in Seq(Profiles)
<1> DEFINE at == PositionOf(list, item.id)
           m  == Min(at)
<1>1. at # {} => m \in DOMAIN list
  BY UpsertCases
<1>2. CASE at # {} /\ item.disabled
  BY <1>2, UpsertCases
<1>3. CASE at # {} /\ ~item.disabled
  <2>1. Upsert(list, item) = [list EXCEPT ![m] = item]
    BY <1>3, UpsertCases
  <2>2. m \in 1 .. Len(list)
    BY <1>1, <1>3
  <2> HIDE DEF m
  <2> QED
    BY <2>1, <2>2, ExceptSeq
<1>4. CASE at = {} /\ item.disabled
  BY <1>4, UpsertCases
<1>5. CASE at = {} /\ ~item.disabled
  <2>1. Upsert(list, item) = Append(list, item)
    BY <1>5, UpsertCases
  <2> QED
    BY <2>1
<1> QED
  BY <1>2, <1>3, <1>4, <1>5

\* Keeping what is enabled gives a list of entries.
LEMMA KeepTyped ==
    ASSUME NEW list \in Seq(Profiles), NEW item \in Profiles
    PROVE  Keep(list, item) \in Seq(Profiles)
BY DEF Keep

\* g has the lists on the way from `list' to `result'.
Way(g, n, list, result) == g \in [0 .. n -> Seq(Profiles)] /\ g[0] = list /\ g[n] = result

\* h goes from `list' by the steps of next, over the places from the least on.
Follows(h, n, list, next) ==
    /\ h[{}] = list
    /\ \A s \in SUBSET (1 .. n) :
          s # {} /\ h[s \ {Max(s)}] \in Seq(Profiles) => h[s] = next[Max(s)][h[s \ {Max(s)}]]

\* g is such a way, by the steps of next.
Goes(g, n, list, next, result) ==
    Way(g, n, list, result) /\ \A i \in 1 .. n : g[i] = next[i][g[i - 1]]

\* Folding goes through the prefixes, a list of entries at each.
LEMMA FoldWay ==
    ASSUME NEW n \in Nat, NEW list \in Seq(Profiles),
           NEW next \in [1 .. n -> [Seq(Profiles) -> Seq(Profiles)]],
           NEW h, Follows(h, n, list, next)
    PROVE  \E g : Goes(g, n, list, next, h[1 .. n])
<1> DEFINE V == Seq(Profiles)
           g == [i \in 0 .. n |-> h[1 .. i]]
           Good == {i \in 0 .. n : g[i] \in V}
<1>1. g[0] = list /\ g[n] = h[1 .. n] /\ g = [i \in 0 .. n |-> g[i]]
  BY DEF Follows
<1>2. ASSUME NEW i \in 1 .. n, g[i - 1] \in V PROVE g[i] = next[i][g[i - 1]]
  <2>7. i \in Nat \ {0} /\ (1 .. i) \in SUBSET (1 .. n)
    OBVIOUS
  <2>1. (1 .. i) \in SUBSET (1 .. n) /\ (1 .. i) # {} /\ Max(1 .. i) = i
        /\ (1 .. i) \ {i} = 1 .. (i - 1)
    BY ONLY <2>7, LastOfPrefix
  <2>2. i \in 0 .. n /\ i - 1 \in 0 .. n
    OBVIOUS
  <2>3. g[i] = h[1 .. i] /\ g[i - 1] = h[1 .. (i - 1)]
    BY <2>2
  <2> HIDE DEF g, V
  <2>4. h[(1 .. i) \ {Max(1 .. i)}] = g[i - 1]
    BY <2>1, <2>3
  <2>5. h[(1 .. i) \ {Max(1 .. i)}] \in Seq(Profiles)
    BY <2>4, <1>2 DEF V
  <2>6. h[1 .. i] = next[Max(1 .. i)][h[(1 .. i) \ {Max(1 .. i)}]]
    BY <2>1, <2>5 DEF Follows
  <2> QED
    BY <2>1, <2>3, <2>4, <2>6
<1> HIDE DEF g
<1>3. 0 \in Good
  BY <1>1
<1>4. ASSUME NEW i \in 0 .. n - 1, i \in Good PROVE i + 1 \in Good
  <2>1. i + 1 \in 1 .. n /\ (i + 1) - 1 = i /\ i + 1 \in 0 .. n
    OBVIOUS
  <2>2. g[i + 1] = next[i + 1][g[i]]
    BY <2>1, <1>2, <1>4
  <2>3. next[i + 1] \in [V -> V] /\ g[i] \in V
    BY <2>1, <1>4
  <2> HIDE DEF V
  <2> QED
    BY <2>1, <2>2, <2>3
<1> HIDE DEF Good
<1>5. n \in Nat
  OBVIOUS
<1>6. \A i \in 0 .. n : i \in Good
  BY ONLY <1>3, <1>4, <1>5, Induction
<1>7. \A i \in 0 .. n : g[i] \in V
  BY <1>6 DEF Good
<1>8. \A i \in 1 .. n : g[i] = next[i][g[i - 1]]
  <2> SUFFICES ASSUME NEW i \in 1 .. n PROVE g[i] = next[i][g[i - 1]]
    OBVIOUS
  <2>1. i - 1 \in 0 .. n
    OBVIOUS
  <2> QED
    BY <2>1, <1>2, <1>7
<1>9. Goes(g, n, list, next, h[1 .. n])
  BY <1>1, <1>7, <1>8 DEF Way, Goes
<1> QED
  BY <1>9

\* A file is merged entry by entry, in its order.
LEMMA MergeSteps ==
    ASSUME NEW list \in Seq(Profiles), NEW file \in Seq(Profiles)
    PROVE  \E g : /\ Way(g, Len(file), list, Merge(list, file))
                  /\ \A i \in 1 .. Len(file) : g[i] = Upsert(g[i - 1], file[i])
<1> DEFINE n == Len(file)
           V == Seq(Profiles)
           S == DOMAIN file
           G(f) == [s \in SUBSET S |-> IF s = {} THEN list
                                       ELSE Upsert(f[s \ {Max(s)}], file[Max(s)])]
           next == [i \in S |-> [l \in V |-> Upsert(l, file[i])]]
           h == CHOOSE f : f = G(f)
<1>1. Merge(list, file) = h[S]
  BY Zenon DEF Merge, FoldLeft, MapThenFoldSet
<1>2. S = 1 .. n /\ n \in Nat /\ \A i \in S : file[i] \in Profiles
  OBVIOUS
<1>3. next \in [S -> [V -> V]]
  BY <1>2, UpsertTyped
<1>4. \A i \in S : \A l \in V : next[i][l] = Upsert(l, file[i])
  OBVIOUS
<1>5. IsFiniteSet(S) /\ \A s \in SUBSET S : s # {} => Max(s) \in s
  BY <1>2, PlacesFold
<1>6. list \in V
  OBVIOUS
<1> HIDE DEF n, V, S, next
<1>7. PICK f \in [SUBSET S -> V] : FoldsUp(f, S, list, next)
  BY ONLY <1>3, <1>5, <1>6, LeftFold
<1>8. f = G(f)
  <2>1. ASSUME NEW s \in SUBSET S, s # {} PROVE f[s] = Upsert(f[s \ {Max(s)}], file[Max(s)])
    <3>1. Max(s) \in S /\ f[s] = next[Max(s)][f[s \ {Max(s)}]] /\ f[s \ {Max(s)}] \in V
      BY <1>7, <2>1 DEF FoldsUp
    <3> QED
      BY <3>1, <1>4
  <2>2. f[{}] = list
    BY <1>7 DEF FoldsUp
  <2> QED
    BY <2>1, <2>2
<1>9. h = G(h)
  <2> HIDE DEF G
  <2> QED
    BY <1>8
<1> HIDE DEF h
<1>10. Follows(h, n, list, next)
  <2>1. ASSUME NEW s \in SUBSET S, s # {}, h[s \ {Max(s)}] \in V
        PROVE  h[s] = next[Max(s)][h[s \ {Max(s)}]]
    BY <1>4, <1>5, <1>9, <2>1
  <2> QED
    BY <1>2, <1>9, <2>1 DEF Follows, V
<1>11. PICK g : Goes(g, n, list, next, h[1 .. n])
  <2>1. next \in [1 .. n -> [Seq(Profiles) -> Seq(Profiles)]]
    BY <1>2, <1>3 DEF V
  <2>2. n \in Nat /\ list \in Seq(Profiles)
    BY <1>2
  <2> QED
    BY ONLY <1>10, <2>1, <2>2, FoldWay
<1>12. ASSUME NEW i \in 1 .. n PROVE g[i] = Upsert(g[i - 1], file[i])
  <2>1. i - 1 \in 0 .. n /\ i \in S
    BY <1>2
  <2> QED
    BY <2>1, <1>4, <1>11 DEF Goes, Way, V
<1> QED
  BY <1>1, <1>2, <1>11, <1>12 DEF Goes, n

\* Merging a file gives a list of entries.
LEMMA MergeTyped ==
    ASSUME NEW list \in Seq(Profiles), NEW file \in Seq(Profiles)
    PROVE  Merge(list, file) \in Seq(Profiles)
<1>1. PICK g : Way(g, Len(file), list, Merge(list, file))
  BY MergeSteps
<1> QED
  BY <1>1, LenProperties DEF Way

\* The files are merged in their order.
LEMMA FilesSteps ==
    ASSUME NEW list \in Seq(Profiles), NEW file \in Seq(Seq(Profiles))
    PROVE  \E g : /\ Way(g, Len(file), list, FoldLeft(Merge, list, file))
                  /\ \A i \in 1 .. Len(file) : g[i] = Merge(g[i - 1], file[i])
<1> DEFINE n == Len(file)
           V == Seq(Profiles)
           S == DOMAIN file
           G(f) == [s \in SUBSET S |-> IF s = {} THEN list
                                       ELSE Merge(f[s \ {Max(s)}], file[Max(s)])]
           next == [i \in S |-> [l \in V |-> Merge(l, file[i])]]
           h == CHOOSE f : f = G(f)
<1>1. FoldLeft(Merge, list, file) = h[S]
  BY Zenon DEF FoldLeft, MapThenFoldSet
<1>2. S = 1 .. n /\ n \in Nat /\ \A i \in S : file[i] \in Seq(Profiles)
  OBVIOUS
<1>3. next \in [S -> [V -> V]]
  BY <1>2, MergeTyped
<1>4. \A i \in S : \A l \in V : next[i][l] = Merge(l, file[i])
  OBVIOUS
<1>5. IsFiniteSet(S) /\ \A s \in SUBSET S : s # {} => Max(s) \in s
  BY <1>2, PlacesFold
<1>6. list \in V
  OBVIOUS
<1> HIDE DEF n, V, S, next
<1>7. PICK f \in [SUBSET S -> V] : FoldsUp(f, S, list, next)
  BY ONLY <1>3, <1>5, <1>6, LeftFold
<1>8. f = G(f)
  <2>1. ASSUME NEW s \in SUBSET S, s # {} PROVE f[s] = Merge(f[s \ {Max(s)}], file[Max(s)])
    <3>1. Max(s) \in S /\ f[s] = next[Max(s)][f[s \ {Max(s)}]] /\ f[s \ {Max(s)}] \in V
      BY <1>7, <2>1 DEF FoldsUp
    <3> QED
      BY <3>1, <1>4
  <2>2. f[{}] = list
    BY <1>7 DEF FoldsUp
  <2> QED
    BY <2>1, <2>2
<1>9. h = G(h)
  <2> HIDE DEF G
  <2> QED
    BY <1>8
<1> HIDE DEF h
<1>10. Follows(h, n, list, next)
  <2>1. ASSUME NEW s \in SUBSET S, s # {}, h[s \ {Max(s)}] \in V
        PROVE  h[s] = next[Max(s)][h[s \ {Max(s)}]]
    BY <1>4, <1>5, <1>9, <2>1
  <2> QED
    BY <1>2, <1>9, <2>1 DEF Follows, V
<1>11. PICK g : Goes(g, n, list, next, h[1 .. n])
  <2>1. next \in [1 .. n -> [Seq(Profiles) -> Seq(Profiles)]]
    BY <1>2, <1>3 DEF V
  <2>2. n \in Nat /\ list \in Seq(Profiles)
    BY <1>2
  <2> QED
    BY ONLY <1>10, <2>1, <2>2, FoldWay
<1>12. ASSUME NEW i \in 1 .. n PROVE g[i] = Merge(g[i - 1], file[i])
  <2>1. i - 1 \in 0 .. n /\ i \in S
    BY <1>2
  <2> QED
    BY <2>1, <1>4, <1>11 DEF Goes, Way, V
<1> QED
  BY <1>1, <1>2, <1>11, <1>12 DEF Goes, n

\* The entries that are enabled are kept in their order.
LEMMA KeepSteps ==
    ASSUME NEW list \in Seq(Profiles), NEW file \in Seq(Profiles)
    PROVE  \E g : /\ Way(g, Len(file), list, FoldLeft(Keep, list, file))
                  /\ \A i \in 1 .. Len(file) : g[i] = Keep(g[i - 1], file[i])
<1> DEFINE n == Len(file)
           V == Seq(Profiles)
           S == DOMAIN file
           G(f) == [s \in SUBSET S |-> IF s = {} THEN list
                                       ELSE Keep(f[s \ {Max(s)}], file[Max(s)])]
           next == [i \in S |-> [l \in V |-> Keep(l, file[i])]]
           h == CHOOSE f : f = G(f)
<1>1. FoldLeft(Keep, list, file) = h[S]
  BY Zenon DEF FoldLeft, MapThenFoldSet
<1>2. S = 1 .. n /\ n \in Nat /\ \A i \in S : file[i] \in Profiles
  OBVIOUS
<1>3. next \in [S -> [V -> V]]
  BY <1>2, KeepTyped
<1>4. \A i \in S : \A l \in V : next[i][l] = Keep(l, file[i])
  OBVIOUS
<1>5. IsFiniteSet(S) /\ \A s \in SUBSET S : s # {} => Max(s) \in s
  BY <1>2, PlacesFold
<1>6. list \in V
  OBVIOUS
<1> HIDE DEF n, V, S, next
<1>7. PICK f \in [SUBSET S -> V] : FoldsUp(f, S, list, next)
  BY ONLY <1>3, <1>5, <1>6, LeftFold
<1>8. f = G(f)
  <2>1. ASSUME NEW s \in SUBSET S, s # {} PROVE f[s] = Keep(f[s \ {Max(s)}], file[Max(s)])
    <3>1. Max(s) \in S /\ f[s] = next[Max(s)][f[s \ {Max(s)}]] /\ f[s \ {Max(s)}] \in V
      BY <1>7, <2>1 DEF FoldsUp
    <3> QED
      BY <3>1, <1>4
  <2>2. f[{}] = list
    BY <1>7 DEF FoldsUp
  <2> QED
    BY <2>1, <2>2
<1>9. h = G(h)
  <2> HIDE DEF G
  <2> QED
    BY <1>8
<1> HIDE DEF h
<1>10. Follows(h, n, list, next)
  <2>1. ASSUME NEW s \in SUBSET S, s # {}, h[s \ {Max(s)}] \in V
        PROVE  h[s] = next[Max(s)][h[s \ {Max(s)}]]
    BY <1>4, <1>5, <1>9, <2>1
  <2> QED
    BY <1>2, <1>9, <2>1 DEF Follows, V
<1>11. PICK g : Goes(g, n, list, next, h[1 .. n])
  <2>1. next \in [1 .. n -> [Seq(Profiles) -> Seq(Profiles)]]
    BY <1>2, <1>3 DEF V
  <2>2. n \in Nat /\ list \in Seq(Profiles)
    BY <1>2
  <2> QED
    BY ONLY <1>10, <2>1, <2>2, FoldWay
<1>12. ASSUME NEW i \in 1 .. n PROVE g[i] = Keep(g[i - 1], file[i])
  <2>1. i - 1 \in 0 .. n /\ i \in S
    BY <1>2
  <2> QED
    BY <2>1, <1>4, <1>11 DEF Goes, Way, V
<1> QED
  BY <1>1, <1>2, <1>11, <1>12 DEF Goes, n

\* e is the last of the entries of its id, and does not disable it.
Newest(e, entries) ==
    ~e.disabled /\ \E j \in DOMAIN entries :
        entries[j] = e /\ \A k \in DOMAIN entries : entries[k].id = e.id => k <= j

\* A merged list has at most one entry of an id, the last one read.
Latest(list, entries) ==
    /\ \A x, y \in DOMAIN list : list[x].id = list[y].id => x = y
    /\ \A x \in DOMAIN list : Newest(list[x], entries)

\* One more entry makes only those of its own id old.
LEMMA NewestStays ==
    ASSUME NEW entries \in Seq(Profiles), NEW item \in Profiles, NEW e
    PROVE  /\ Newest(e, entries) /\ e.id # item.id => Newest(e, Append(entries, item))
           /\ ~item.disabled => Newest(item, Append(entries, item))
<1> DEFINE u == Append(entries, item)
           n == Len(entries)
<1>1. n \in Nat /\ DOMAIN entries = 1 .. n /\ DOMAIN u = 1 .. (n + 1)
      /\ u[n + 1] = item /\ \A k \in 1 .. n : u[k] = entries[k]
  OBVIOUS
<1> HIDE DEF u, n
<1>2. \A k \in 1 .. (n + 1) : k \in 1 .. n \/ k = n + 1
  BY <1>1
<1>3. ASSUME Newest(e, entries), e.id # item.id PROVE Newest(e, u)
  <2>1. PICK j \in 1 .. n : entries[j] = e /\ \A k \in 1 .. n : entries[k].id = e.id => k <= j
    BY <1>1, <1>3 DEF Newest
  <2>2. ASSUME NEW k \in 1 .. (n + 1), u[k].id = e.id PROVE k <= j
    <3>1. k # n + 1
      BY <1>1, <1>3, <2>2
    <3> QED
      BY <3>1, <1>1, <1>2, <2>1, <2>2
  <2>3. j \in DOMAIN u /\ u[j] = e
    BY <1>1, <2>1
  <2> QED
    BY <1>1, <1>3, <2>2, <2>3 DEF Newest
<1>4. ASSUME ~item.disabled PROVE Newest(item, u)
  <2>1. n + 1 \in DOMAIN u /\ u[n + 1] = item /\ \A k \in DOMAIN u : k <= n + 1
    BY <1>1
  <2> QED
    BY <1>4, <2>1 DEF Newest
<1> QED
  BY <1>3, <1>4 DEF u

\* Merging an entry keeps the list of the newest.
LEMMA UpsertLatest ==
    ASSUME NEW list \in Seq(Profiles), NEW entries \in Seq(Profiles), NEW item \in Profiles,
           Latest(list, entries)
    PROVE  Latest(Upsert(list, item), Append(entries, item))
<1> DEFINE at == PositionOf(list, item.id)
           m  == Min(at)
           new == Upsert(list, item)
           u   == Append(entries, item)
<1>1. /\ at # {} => m \in DOMAIN list /\ list[m].id = item.id
      /\ at = {} => \A x \in DOMAIN list : list[x].id # item.id
  BY UpsertCases
<1>2. DOMAIN list = 1 .. Len(list) /\ Len(list) \in Nat
  OBVIOUS
<1>3. ASSUME NEW x \in DOMAIN list, list[x].id # item.id PROVE Newest(list[x], u)
  BY <1>3, NewestStays DEF Latest
<1>4. ~item.disabled => Newest(item, u)
  BY NewestStays
<1>5. CASE at # {} /\ item.disabled
  <2>1. Len(new) = Len(list) - 1 /\ new \in Seq(Profiles)
        /\ \A x \in 1 .. Len(list) - 1 : new[x] = IF x < m THEN list[x] ELSE list[x + 1]
    BY <1>5, UpsertCases
  <2> DEFINE was(x) == IF x < m THEN x ELSE x + 1
  <2>2. m \in 1 .. Len(list) /\ list[m].id = item.id
    BY <1>1, <1>2, <1>5
  <2>3. DOMAIN new = 1 .. Len(list) - 1
    BY <2>1
  <2> HIDE DEF m, at, new, u
  <2>4. \A x \in DOMAIN new : was(x) \in DOMAIN list /\ was(x) # m /\ new[x] = list[was(x)]
    BY <1>2, <2>1, <2>2, <2>3
  <2>5. \A x, y \in DOMAIN new : was(x) = was(y) => x = y
    BY <2>2, <2>3
  <2> HIDE DEF was
  <2>6. ASSUME NEW x \in DOMAIN new, NEW y \in DOMAIN new, new[x].id = new[y].id PROVE x = y
    BY <2>4, <2>5, <2>6 DEF Latest
  <2>7. ASSUME NEW x \in DOMAIN new PROVE Newest(new[x], u)
    <3>1. list[was(x)].id # item.id
      BY <1>2, <2>2, <2>4 DEF Latest
    <3> QED
      BY <3>1, <1>3, <2>4
  <2>8. Latest(new, u)
    BY <2>6, <2>7 DEF Latest
  <2> QED
    BY <2>8 DEF new, u
<1>6. CASE at # {} /\ ~item.disabled
  <2>1. new = [list EXCEPT ![m] = item]
    BY <1>6, UpsertCases
  <2>2. m \in 1 .. Len(list) /\ list[m].id = item.id
    BY <1>1, <1>2, <1>6
  <2> HIDE DEF m, at, new, u
  <2>3. DOMAIN new = DOMAIN list /\ new[m] = item
        /\ \A x \in DOMAIN list : x # m => new[x] = list[x]
    BY <1>2, <2>1, <2>2
  <2>4. \A x \in DOMAIN list : new[x].id = list[x].id
    BY <2>2, <2>3
  <2>5. ASSUME NEW x \in DOMAIN new PROVE Newest(new[x], u)
    <3>1. CASE x = m
      BY <3>1, <1>4, <1>6, <2>3
    <3>2. CASE x # m
      <4>1. list[x].id # item.id
        BY <3>2, <1>2, <2>2, <2>3 DEF Latest
      <4> QED
        BY <4>1, <3>2, <1>3, <2>3
    <3> QED
      BY <3>1, <3>2
  <2>6. \A x, y \in DOMAIN new : new[x].id = new[y].id => x = y
    BY <2>3, <2>4 DEF Latest
  <2>7. Latest(new, u)
    BY <2>5, <2>6 DEF Latest
  <2> QED
    BY <2>7 DEF new, u
<1>7. CASE at = {} /\ item.disabled
  <2>1. new = list
    BY <1>7, UpsertCases
  <2> HIDE DEF m, at, new, u
  <2>2. Latest(new, u)
    BY <2>1, <1>1, <1>3, <1>7 DEF Latest
  <2> QED
    BY <2>2 DEF new, u
<1>8. CASE at = {} /\ ~item.disabled
  <2>1. new = Append(list, item)
    BY <1>8, UpsertCases
  <2> HIDE DEF m, at, new, u
  <2>2. DOMAIN new = 1 .. (Len(list) + 1) /\ new[Len(list) + 1] = item
        /\ \A x \in DOMAIN list : new[x] = list[x]
    BY <1>2, <2>1
  <2>3. \A x \in DOMAIN new : x \in DOMAIN list \/ x = Len(list) + 1
    BY <1>2, <2>2
  <2>4. \A x \in DOMAIN new : Newest(new[x], u)
    BY <1>1, <1>3, <1>4, <1>8, <2>2, <2>3
  <2>5. \A x, y \in DOMAIN new : new[x].id = new[y].id => x = y
    BY <1>1, <1>8, <2>2, <2>3 DEF Latest
  <2>6. Latest(new, u)
    BY <2>4, <2>5 DEF Latest
  <2> QED
    BY <2>6 DEF new, u
<1>9. item.disabled \in BOOLEAN
  BY DEF Profiles
<1> QED
  BY <1>5, <1>6, <1>7, <1>8, <1>9

\* A file's entries, read up to one of them.
LEMMA ReadOneMore ==
    ASSUME NEW u \in Seq(Profiles), NEW file \in Seq(Profiles)
    PROVE  /\ u \o SubSeq(file, 1, 0) = u
           /\ u \o SubSeq(file, 1, Len(file)) = u \o file
           /\ \A i \in 1 .. Len(file) :
                 /\ u \o SubSeq(file, 1, i - 1) \in Seq(Profiles)
                 /\ u \o SubSeq(file, 1, i) = Append(u \o SubSeq(file, 1, i - 1), file[i])
<1>1. SubSeq(file, 1, 0) = <<>>
  BY SubSeqEmpty
<1>2. SubSeq(file, 1, Len(file)) = file
  BY SubSeqFull
<1>3. ASSUME NEW i \in 1 .. Len(file)
      PROVE  /\ u \o SubSeq(file, 1, i - 1) \in Seq(Profiles)
             /\ u \o SubSeq(file, 1, i) = Append(u \o SubSeq(file, 1, i - 1), file[i])
  <2> DEFINE v == SubSeq(file, 1, i - 1)
             w == SubSeq(file, 1, i)
  <2>1. /\ v \in Seq(Profiles) /\ Len(v) = i - 1 /\ \A k \in 1 .. i - 1 : v[k] = file[k]
        /\ w \in Seq(Profiles) /\ Len(w) = i /\ \A k \in 1 .. i : w[k] = file[k]
        /\ file[i] \in Profiles
    OBVIOUS
  <2> HIDE DEF v, w
  <2> DEFINE a == u \o w
             b == Append(u \o v, file[i])
             n == Len(u)
  <2>5. n \in Nat /\ u \in Seq(Profiles) /\ v \in Seq(Profiles) /\ w \in Seq(Profiles)
    BY <2>1
  <2>2. u \o v \in Seq(Profiles) /\ Len(u \o v) = n + (i - 1)
        /\ \A k \in 1 .. n + (i - 1) : (u \o v)[k] = IF k <= n THEN u[k] ELSE v[k - n]
    <3>1. u \o v \in Seq(Profiles) /\ Len(u \o v) = n + Len(v)
          /\ \A k \in 1 .. n + Len(v) : (u \o v)[k] = IF k <= n THEN u[k] ELSE v[k - n]
      BY ONLY <2>5, ConcatProperties DEF n
    <3> QED
      BY <3>1, <2>1
  <2>3. a \in Seq(Profiles) /\ Len(a) = n + i
        /\ \A k \in 1 .. n + i : a[k] = IF k <= n THEN u[k] ELSE w[k - n]
    <3>1. u \o w \in Seq(Profiles) /\ Len(u \o w) = n + Len(w)
          /\ \A k \in 1 .. n + Len(w) : (u \o w)[k] = IF k <= n THEN u[k] ELSE w[k - n]
      BY ONLY <2>5, ConcatProperties DEF n
    <3> QED
      BY <3>1, <2>1
  <2>4. b \in Seq(Profiles) /\ Len(b) = n + i /\ b[n + i] = file[i]
        /\ \A k \in 1 .. n + (i - 1) : b[k] = (u \o v)[k]
    <3> DEFINE c == u \o v
    <3>1. c \in Seq(Profiles) /\ Len(c) = n + (i - 1) /\ n \in Nat
      BY <2>2
    <3> HIDE DEF c, n
    <3>2. Append(c, file[i]) \in Seq(Profiles) /\ Len(Append(c, file[i])) = n + i
          /\ Append(c, file[i])[n + i] = file[i]
          /\ \A k \in 1 .. n + (i - 1) : Append(c, file[i])[k] = c[k]
      BY <3>1, <2>1
    <3> QED
      BY <3>2 DEF c
  <2> HIDE DEF a, b, n
  <2>6. ASSUME NEW k \in 1 .. n + i PROVE a[k] = b[k]
    <3>1. CASE k = n + i
      BY <3>1, <2>1, <2>3, <2>4, <2>5
    <3>2. CASE k # n + i
      <4>1. k \in 1 .. n + (i - 1) /\ k \in 1 .. n + i
        BY <3>2, <2>5
      <4>2. b[k] = IF k <= n THEN u[k] ELSE v[k - n]
        BY <4>1, <2>2, <2>4
      <4>3. a[k] = IF k <= n THEN u[k] ELSE w[k - n]
        BY <4>1, <2>3
      <4>4. ASSUME ~(k <= n) PROVE v[k - n] = w[k - n]
        <5>1. k - n \in 1 .. i - 1 /\ k - n \in 1 .. i
          BY <4>1, <4>4, <2>5
        <5> QED
          BY <5>1, <2>1
      <4> QED
        BY <4>2, <4>3, <4>4
    <3> QED
      BY <3>1, <3>2
  <2>7. a = b
    BY <2>3, <2>4, <2>6, SeqEqual
  <2> QED
    BY <2>2, <2>7 DEF a, b, v, w
<1> QED
  BY <1>1, <1>2, <1>3, ConcatEmptySeq

\* Merging a file keeps the list of the newest.
LEMMA MergeLatest ==
    ASSUME NEW list \in Seq(Profiles), NEW u \in Seq(Profiles), NEW file \in Seq(Profiles),
           Latest(list, u)
    PROVE  Latest(Merge(list, file), u \o file)
<1> DEFINE n == Len(file)
           read(i) == u \o SubSeq(file, 1, i)
<1>1. PICK g : /\ Way(g, n, list, Merge(list, file))
               /\ \A i \in 1 .. n : g[i] = Upsert(g[i - 1], file[i])
  BY MergeSteps
<1>2. n \in Nat /\ \A i \in 1 .. n : file[i] \in Profiles
  OBVIOUS
<1>3. /\ read(0) = u /\ read(n) = u \o file
      /\ \A i \in 1 .. n : read(i - 1) \in Seq(Profiles) /\ read(i) = Append(read(i - 1), file[i])
  BY ReadOneMore
<1> HIDE DEF n, read
<1> DEFINE Good == {i \in 0 .. n : Latest(g[i], read(i))}
<1>4. 0 \in Good
  BY <1>1, <1>2, <1>3 DEF Way
<1>5. ASSUME NEW i \in 0 .. n - 1, i \in Good PROVE i + 1 \in Good
  <2>1. i + 1 \in 1 .. n /\ (i + 1) - 1 = i /\ i \in 0 .. n /\ i + 1 \in 0 .. n
    BY <1>2
  <2>2. /\ g[i] \in Seq(Profiles) /\ g[i + 1] = Upsert(g[i], file[i + 1])
        /\ read(i) \in Seq(Profiles) /\ read(i + 1) = Append(read(i), file[i + 1])
        /\ file[i + 1] \in Profiles /\ Latest(g[i], read(i))
    BY <2>1, <1>1, <1>2, <1>3, <1>5 DEF Way
  <2>3. Latest(Upsert(g[i], file[i + 1]), Append(read(i), file[i + 1]))
    BY ONLY <2>2, UpsertLatest
  <2> QED
    BY <2>1, <2>2, <2>3
<1> HIDE DEF Good
<1>6. \A i \in 0 .. n : i \in Good
  BY ONLY <1>2, <1>4, <1>5, Induction
<1>7. Latest(g[n], read(n))
  BY <1>2, <1>6 DEF Good
<1> QED
  BY <1>1, <1>3, <1>7 DEF Way

\* All the entries of the files are read file by file.
LEMMA FlattenSteps ==
    ASSUME NEW list \in Seq(Seq(Profiles)), list # <<>>
    PROVE  \E g : /\ Way(g, Len(list), <<>>, FlattenSeq(list))
                  /\ \A i \in 1 .. Len(list) : g[i] = g[i - 1] \o list[i]
<1> DEFINE n == Len(list)
           V == Seq(Profiles)
           G(f) == [i \in 1 .. n |-> IF i = 1 THEN list[1] ELSE f[i - 1] \o list[i]]
           next == [i \in 1 .. n |-> [l \in V |-> l \o list[i]]]
           h == CHOOSE f : f = G(f)
<1>1. n \in Nat /\ n # 0 /\ \A i \in 1 .. n : list[i] \in Seq(Profiles)
  OBVIOUS
<1>2. FlattenSeq(list) = h[n]
  <2>1. FlattenSeq(list) = IF n = 0 THEN list ELSE
          LET f[i \in 1 .. n] == IF i = 1 THEN list[i] ELSE f[i - 1] \o list[i] IN f[n]
    BY Zenon DEF FlattenSeq
  <2> QED
    BY <2>1, <1>1
<1>3. next \in [1 .. n -> [V -> V]]
  <2>1. ASSUME NEW i \in 1 .. n, NEW l \in V PROVE l \o list[i] \in V
    <3>1. list[i] \in Seq(Profiles) /\ l \in Seq(Profiles)
      BY <1>1, <2>1
    <3> QED
      BY ONLY <3>1, ConcatProperties DEF V
  <2> QED
    BY <2>1
<1>4. \A i \in 1 .. n : \A l \in V : next[i][l] = l \o list[i]
  OBVIOUS
<1>5. <<>> \in V
  OBVIOUS
<1> HIDE DEF n, V, next
<1>6. PICK f \in [0 .. n -> V] : Iterates(f, n, <<>>, next)
  BY ONLY <1>1, <1>3, <1>5, Recursion
<1>7. f[0] = <<>> /\ \A i \in 1 .. n : f[i] = f[i - 1] \o list[i]
  <2>1. ASSUME NEW i \in 1 .. n PROVE f[i] = f[i - 1] \o list[i]
    <3>1. i - 1 \in 0 .. n
      BY <1>1
    <3> QED
      BY <3>1, <1>4, <1>6 DEF Iterates
  <2> QED
    BY <2>1, <1>6 DEF Iterates
<1> DEFINE k == [i \in 1 .. n |-> f[i]]
<1>8. k = G(k)
  <2>1. ASSUME NEW i \in 1 .. n PROVE f[i] = IF i = 1 THEN list[1] ELSE k[i - 1] \o list[i]
    <3>1. CASE i = 1
      <4>1. f[1] = <<>> \o list[1]
        <5>1. f[i] = f[i - 1] \o list[i] /\ f[0] = <<>>
          BY <1>7
        <5>2. i - 1 = 0
          BY <3>1
        <5> QED
          BY ONLY <5>1, <5>2, <3>1, Zenon
      <4>2. list[1] \in Seq(Profiles)
        BY <3>1, <1>1
      <4>3. <<>> \o list[1] = list[1]
        BY ONLY <4>2, ConcatEmptySeq
      <4> QED
        BY <3>1, <4>1, <4>3
    <3>2. CASE i # 1
      <4>1. i - 1 \in 1 .. n
        BY <3>2, <1>1
      <4> QED
        BY <4>1, <3>2, <1>7
    <3> QED
      BY <3>1, <3>2
  <2> QED
    BY <2>1
<1>9. h = G(h)
  <2> HIDE DEF G, k
  <2> QED
    BY <1>8
<1> HIDE DEF h
<1> DEFINE g == [i \in 0 .. n |-> IF i = 0 THEN <<>> ELSE h[i]]
<1>10. ASSUME NEW i \in 1 .. n, g[i - 1] \in V PROVE g[i] = g[i - 1] \o list[i]
  <2>1. i - 1 \in 0 .. n /\ i \in 0 .. n /\ i # 0
    BY <1>1
  <2>2. g[i] = h[i] /\ h[i] = IF i = 1 THEN list[1] ELSE h[i - 1] \o list[i]
    BY <2>1, <1>9
  <2>3. CASE i = 1
    <3>1. g[i - 1] = <<>> /\ list[1] \in Seq(Profiles)
      BY <2>1, <2>3, <1>1
    <3>2. <<>> \o list[1] = list[1]
      BY ONLY <3>1, ConcatEmptySeq
    <3> QED
      BY <2>2, <2>3, <3>1, <3>2
  <2>4. CASE i # 1
    <3>1. i - 1 # 0
      BY <2>4, <1>1
    <3>2. g[i - 1] = h[i - 1]
      BY <2>1, <3>1
    <3> HIDE DEF g
    <3> QED
      BY <2>2, <2>4, <3>2
  <2> QED
    BY <2>3, <2>4
<1> DEFINE Good == {i \in 0 .. n : g[i] \in V}
<1>11. 0 \in Good
  BY <1>1, <1>5
<1>12. g[n] = h[n] /\ g[0] = <<>> /\ g = [i \in 0 .. n |-> g[i]]
  BY <1>1
<1> HIDE DEF g
<1>13. ASSUME NEW i \in 0 .. n - 1, i \in Good PROVE i + 1 \in Good
  <2>1. i + 1 \in 1 .. n /\ (i + 1) - 1 = i /\ i + 1 \in 0 .. n
    BY <1>1
  <2>2. g[i] \in Seq(Profiles) /\ list[i + 1] \in Seq(Profiles) /\ g[i + 1] = g[i] \o list[i + 1]
    BY <2>1, <1>1, <1>10, <1>13 DEF V
  <2>3. g[i] \o list[i + 1] \in Seq(Profiles)
    BY ONLY <2>2, ConcatProperties
  <2> QED
    BY <2>1, <2>2, <2>3 DEF V
<1> HIDE DEF Good
<1>14. \A i \in 0 .. n : i \in Good
  BY ONLY <1>1, <1>11, <1>13, Induction
<1>15. \A i \in 0 .. n : g[i] \in V
  BY <1>14 DEF Good
<1>16. ASSUME NEW i \in 1 .. n PROVE g[i] = g[i - 1] \o list[i]
  <2>1. i - 1 \in 0 .. n
    BY <1>1
  <2> QED
    BY <2>1, <1>10, <1>15
<1>17. Way(g, n, <<>>, FlattenSeq(list))
  BY <1>2, <1>12, <1>15 DEF Way, V
<1> QED
  BY <1>16, <1>17 DEF n

\* What is merged from all the files is the newest of all the entries.
LEMMA FilesLatest ==
    ASSUME NEW list \in Seq(Seq(Profiles)), list # <<>>
    PROVE  /\ FoldLeft(Merge, <<>>, list) \in Seq(Profiles) /\ FlattenSeq(list) \in Seq(Profiles)
           /\ Latest(FoldLeft(Merge, <<>>, list), FlattenSeq(list))
<1> DEFINE n == Len(list)
<1>1. n \in Nat /\ <<>> \in Seq(Profiles) /\ \A i \in 1 .. n : list[i] \in Seq(Profiles)
  OBVIOUS
<1>2. PICK g : /\ Way(g, n, <<>>, FoldLeft(Merge, <<>>, list))
               /\ \A i \in 1 .. n : g[i] = Merge(g[i - 1], list[i])
  BY <1>1, FilesSteps
<1>3. PICK f : /\ Way(f, n, <<>>, FlattenSeq(list))
               /\ \A i \in 1 .. n : f[i] = f[i - 1] \o list[i]
  BY FlattenSteps
<1> HIDE DEF n
<1> DEFINE Good == {i \in 0 .. n : Latest(g[i], f[i])}
<1>4. 0 \in Good
  <2>1. Latest(<<>>, <<>>)
    BY DEF Latest
  <2> QED
    BY <2>1, <1>1, <1>2, <1>3 DEF Way
<1>5. ASSUME NEW i \in 0 .. n - 1, i \in Good PROVE i + 1 \in Good
  <2>1. i + 1 \in 1 .. n /\ (i + 1) - 1 = i /\ i \in 0 .. n /\ i + 1 \in 0 .. n
    BY <1>1
  <2>2. /\ g[i] \in Seq(Profiles) /\ g[i + 1] = Merge(g[i], list[i + 1])
        /\ f[i] \in Seq(Profiles) /\ f[i + 1] = f[i] \o list[i + 1]
        /\ list[i + 1] \in Seq(Profiles) /\ Latest(g[i], f[i])
    BY <2>1, <1>1, <1>2, <1>3, <1>5 DEF Way
  <2>3. Latest(Merge(g[i], list[i + 1]), f[i] \o list[i + 1])
    BY ONLY <2>2, MergeLatest
  <2> QED
    BY <2>1, <2>2, <2>3
<1> HIDE DEF Good
<1>6. \A i \in 0 .. n : i \in Good
  BY ONLY <1>1, <1>4, <1>5, Induction
<1>7. Latest(g[n], f[n]) /\ n \in 0 .. n
  BY <1>1, <1>6 DEF Good
<1> QED
  BY <1>2, <1>3, <1>7 DEF Way

\* What is kept of a list are entries of it that are enabled.
LEMMA KeptEnabled ==
    ASSUME NEW list \in Seq(Profiles)
    PROVE  /\ FoldLeft(Keep, <<>>, list) \in Seq(Profiles)
           /\ \A x \in DOMAIN FoldLeft(Keep, <<>>, list) :
                 /\ FoldLeft(Keep, <<>>, list)[x].id \in enabled
                 /\ \E y \in DOMAIN list : FoldLeft(Keep, <<>>, list)[x] = list[y]
<1> DEFINE n == Len(list)
           Fine(s) == \A x \in DOMAIN s : s[x].id \in enabled /\ \E y \in 1 .. n : s[x] = list[y]
<1>1. n \in Nat /\ DOMAIN list = 1 .. n /\ <<>> \in Seq(Profiles)
      /\ \A i \in 1 .. n : list[i] \in Profiles
  OBVIOUS
<1>2. PICK g : /\ Way(g, n, <<>>, FoldLeft(Keep, <<>>, list))
               /\ \A i \in 1 .. n : g[i] = Keep(g[i - 1], list[i])
  BY <1>1, KeepSteps
<1> HIDE DEF n
<1>3. ASSUME NEW s \in Seq(Profiles), Fine(s), NEW i \in 1 .. n PROVE Fine(Keep(s, list[i]))
  <2>1. CASE list[i].id \in enabled
    <3> DEFINE new == Append(s, list[i])
    <3>1. Keep(s, list[i]) = new
      BY <2>1 DEF Keep
    <3>2. DOMAIN new = 1 .. (Len(s) + 1) /\ new[Len(s) + 1] = list[i] /\ Len(s) \in Nat
          /\ DOMAIN s = 1 .. Len(s) /\ \A x \in DOMAIN s : new[x] = s[x]
      BY <1>1
    <3> HIDE DEF new
    <3>3. ASSUME NEW x \in DOMAIN new
          PROVE  new[x].id \in enabled /\ \E y \in 1 .. n : new[x] = list[y]
      <4>1. CASE x = Len(s) + 1
        BY <4>1, <3>2, <2>1
      <4>2. CASE x # Len(s) + 1
        <5>1. x \in DOMAIN s
          BY <4>2, <3>2
        <5> QED
          BY <5>1, <3>2, <1>3
      <4> QED
        BY <4>1, <4>2
    <3> QED
      BY <3>1, <3>3
  <2>2. CASE list[i].id \notin enabled
    BY <2>2, <1>3 DEF Keep
  <2> QED
    BY <2>1, <2>2
<1>4. Fine(<<>>)
  OBVIOUS
<1> HIDE DEF Fine
<1> DEFINE Good == {i \in 0 .. n : Fine(g[i])}
<1>5. 0 \in Good
  BY <1>1, <1>2, <1>4 DEF Way
<1>6. ASSUME NEW i \in 0 .. n - 1, i \in Good PROVE i + 1 \in Good
  <2>1. i + 1 \in 1 .. n /\ (i + 1) - 1 = i /\ i \in 0 .. n /\ i + 1 \in 0 .. n
    BY <1>1
  <2>2. g[i] \in Seq(Profiles) /\ g[i + 1] = Keep(g[i], list[i + 1]) /\ Fine(g[i])
    BY <2>1, <1>2, <1>6 DEF Way
  <2>3. Fine(Keep(g[i], list[i + 1]))
    BY <2>1, <2>2, <1>3
  <2> QED
    BY <2>1, <2>2, <2>3
<1> HIDE DEF Good
<1>7. \A i \in 0 .. n : i \in Good
  BY ONLY <1>1, <1>5, <1>6, Induction
<1>8. Fine(g[n]) /\ n \in 0 .. n
  BY <1>1, <1>7 DEF Good
<1> QED
  BY <1>1, <1>2, <1>8 DEF Way, Fine

-----------------------------------------------------------------------------
(* The invariant of the allowlist. *)

\* A daemon that starts runs with entries in force only.
LEMMA LoadInForce ==
    ASSUME files \in Seq(Seq(Profiles)), files # <<>>, loadPack.status = "running"
    PROVE  /\ loadPack.profiles \in Seq(Profiles)
           /\ \A i \in DOMAIN loadPack.profiles :
                 loadPack.profiles[i] \in Profiles /\ loadPack.profiles[i] \in InForce
<1> DEFINE merged == FoldLeft(Merge, <<>>, files)
           kept == FoldLeft(Keep, <<>>, merged)
<1>1. /\ merged \in Seq(Profiles) /\ Entries \in Seq(Profiles)
      /\ Latest(merged, Entries)
  BY FilesLatest DEF Entries
<1>2. /\ kept \in Seq(Profiles)
      /\ \A x \in DOMAIN kept :
            kept[x].id \in enabled /\ \E y \in DOMAIN merged : kept[x] = merged[y]
  <2> HIDE DEF merged
  <2> QED
    BY <1>1, KeptEnabled
<1>3. loadPack.profiles = kept
  <2>1. loadPack = IF \A i \in DOMAIN merged : Valid(merged[i])
                   THEN [status |-> "running", profiles |-> kept]
                   ELSE [status |-> "refused", profiles |-> <<>>]
    BY Zenon DEF loadPack
  <2> HIDE DEF merged, kept
  <2> QED
    BY <2>1
<1> HIDE DEF merged, kept
<1>4. ASSUME NEW x \in DOMAIN kept PROVE kept[x] \in Profiles /\ kept[x] \in InForce
  <2>1. PICK y \in DOMAIN merged : kept[x] = merged[y]
    BY <1>2
  <2>2. Newest(kept[x], Entries) /\ kept[x].id \in enabled
    BY <2>1, <1>1, <1>2 DEF Latest
  <2>3. PICK j \in DOMAIN Entries : /\ Entries[j] = kept[x]
                                    /\ \A k \in DOMAIN Entries :
                                          Entries[k].id = kept[x].id => k <= j
    BY <2>2 DEF Newest
  <2>4. ~Entries[j].disabled
    BY <2>2, <2>3 DEF Newest
  <2>5. Entries[j] \in InForce
    BY <2>2, <2>3, <2>4 DEF InForce
  <2>6. kept[x] \in Profiles
    BY <1>2
  <2> QED
    BY <2>3, <2>5, <2>6
<1> QED
  BY <1>2, <1>3, <1>4

\* What the proof carries from state to state: the files are lists of entries,
\* and the profiles of a daemon that runs are entries in force.
PolicyInv ==
    /\ files \in Seq(Seq(Profiles)) /\ files # <<>>
    /\ pack.status = "running" => pack.profiles \in Seq(Profiles) /\ PackInForce
    /\ AllowlistBounded

\* The first states satisfy it, whatever files the configuration names.
LEMMA PolicyStarts == PolicyInit => PolicyInv
<1> SUFFICES ASSUME PolicyInit PROVE PolicyInv
  OBVIOUS
<1>1. PICK n \in 0 .. MaxFiles : \E others \in [1 .. n -> Files] : files = <<Embedded>> \o others
  BY DEF PolicyInit
<1>2. PICK others \in [1 .. n -> Files] : files = <<Embedded>> \o others
  BY <1>1
<1>3. n \in Nat
  BY AllowlistAssumption
<1>4. others \in Seq(Seq(Profiles)) /\ <<Embedded>> \in Seq(Seq(Profiles)) /\ Len(<<Embedded>>) = 1
  <2>1. others \in [1 .. n -> Seq(Profiles)] /\ Embedded \in Seq(Profiles)
    BY AllowlistAssumption
  <2> QED
    BY <2>1, <1>3, SeqDef
<1> DEFINE one == <<Embedded>>
<1> HIDE DEF one
<1>5. one \in Seq(Seq(Profiles)) /\ others \in Seq(Seq(Profiles)) /\ Len(one) = 1
  BY <1>4 DEF one
<1>6. one \o others \in Seq(Seq(Profiles)) /\ Len(one \o others) = Len(one) + Len(others)
  BY ONLY <1>5, ConcatProperties
<1>7. Len(others) \in Nat /\ Len(<<>>) = 0
  BY <1>4
<1>8. one \o others # <<>>
  BY <1>5, <1>6, <1>7
<1>9. files = one \o others
  BY <1>2 DEF one
<1>10. pack.status # "running" /\ AllowlistBounded
  BY DEF PolicyInit, NoPack, AllowlistBounded
<1> QED
  BY <1>6, <1>8, <1>9, <1>10 DEF PolicyInv

\* Loading, scoring and releasing a session preserve it.
LEMMA PolicySteps == PolicyInv /\ [PolicyNext]_policyVars => PolicyInv'
<1> SUFFICES ASSUME PolicyInv, [PolicyNext]_policyVars PROVE PolicyInv'
  OBVIOUS
<1>1. files' = files /\ enabled' = enabled
  BY DEF PolicyNext, Start, Score, Release, policyVars
<1>2. InForce' = InForce
  BY <1>1 DEF InForce, Entries
<1>4. files' \in Seq(Seq(Profiles)) /\ files' # <<>>
  BY <1>1 DEF PolicyInv
<1>5. pack' = pack =>
         (pack.status = "running" => pack.profiles \in Seq(Profiles) /\ PackInForce)'
  BY <1>2 DEF PolicyInv, PackInForce
<1>6. track' = track /\ verdict' = verdict => AllowlistBounded'
  BY <1>2 DEF PolicyInv, AllowlistBounded, Bounded
<1>7. CASE Start
  <2>1. pack' = loadPack /\ track' = track /\ verdict' = verdict
    BY <1>7 DEF Start
  <2>2. pack'.status = "running" =>
           /\ pack'.profiles \in Seq(Profiles)
           /\ \A i \in DOMAIN pack'.profiles :
                 pack'.profiles[i] \in Profiles /\ pack'.profiles[i] \in InForce
    BY <2>1, LoadInForce DEF PolicyInv
  <2>3. (pack.status = "running" => pack.profiles \in Seq(Profiles) /\ PackInForce)'
    BY <2>2, <1>2 DEF PackInForce
  <2> QED
    BY <2>1, <2>3, <1>4, <1>6 DEF PolicyInv
<1>8. CASE Score
  <2>1. PICK t \in TrackSet : track' = t /\ verdict' = Evaluate(t)
    BY <1>8 DEF Score
  <2>2. pack.profiles \in Seq(Profiles) /\ PackInForce /\ pack' = pack
    BY <1>8 DEF Score, PolicyInv
  <2>3. Bounded(t, Evaluate(t))
    BY <2>2, VerdictBounded
  <2>4. AllowlistBounded'
    BY <2>1, <2>3, <1>2 DEF AllowlistBounded, Bounded
  <2> QED
    BY <2>2, <2>4, <1>4, <1>5 DEF PolicyInv
<1>9. CASE Release
  <2>1. pack' = pack /\ track' = NoTrack
    BY <1>9 DEF Release
  <2>2. AllowlistBounded'
    BY <2>1 DEF AllowlistBounded
  <2> QED
    BY <2>1, <2>2, <1>4, <1>5 DEF PolicyInv
<1>10. CASE UNCHANGED policyVars
  BY <1>10, <1>4, <1>5, <1>6 DEF policyVars, PolicyInv
<1> QED
  BY <1>7, <1>8, <1>9, <1>10 DEF PolicyNext

\* Whatever the files, the ids enabled, the clues and the commands, each
\* verdict is one the entries in force explain: see AllowlistBounded.
THEOREM VerdictsBounded == PolicySpec => []AllowlistBounded
<1>1. PolicyInv => AllowlistBounded
  BY DEF PolicyInv
<1> QED
  BY <1>1, PolicyStarts, PolicySteps, PTL DEF PolicySpec

=============================================================================
