----------------------------- MODULE TailProofs -----------------------------
(***************************************************************************)
(* Proofs about AuditTail, for any number of lines, of files, of read      *)
(* errors and of restarts.                                                 *)
(***************************************************************************)
EXTENDS AuditTail, TLAPS

-----------------------------------------------------------------------------
(***************************************************************************)
(* The inductive invariant: the files of auditd.                           *)
(***************************************************************************)
Half(n) == n \div 2
\* The line at an offset, and the one after the complete lines of a file.
LineAt(i, off) == file[i].first + Half(off)
Ends(i) == LineAt(i, file[i].size)
Newest == IF log # None THEN log ELSE old

World ==
    /\ file \in [Inode -> [first : Nat, size : Nat]]
    /\ log \in Inode \cup {None} /\ old \in Inode \cup {None} /\ lines \in Nat
    /\ Newest \in Inode
    /\ \A i \in Inode : IF i <= Newest THEN file[i].first > 0 ELSE file[i] = NoFile
    \* The files follow each other, and only the newest one ends inside a line.
    /\ \A i, j \in Inode : i < j /\ j <= Newest => ~MidLine(i) /\ Ends(i) <= file[j].first
    /\ lines + 1 = Ends(Newest) + (IF MidLine(Newest) THEN 1 ELSE 0)
    /\ log = None => ~MidLine(old) /\ old + 1 \in Inode
    /\ log # None /\ old # None => old < log /\ Ends(old) = file[log].first

(***************************************************************************)
(* The position of the reader, and of the one before in a file that was    *)
(* rotated away: the lines due next and those before them.                 *)
(***************************************************************************)
Gap(l) == next..(l - 1) \subseteq excused

Placed(t) ==
    /\ t.ino \in Inode /\ t.ino <= Newest /\ t.h \in {None, t.ino}
    /\ t.off \in Nat /\ t.pos \in Nat /\ t.half \in BOOLEAN /\ t.pos <= file[t.ino].size
    /\ IF t.half THEN t.pos = t.off + 1 /\ ~Odd(t.off) ELSE t.pos = t.off
    /\ Odd(t.off) => joined = LineAt(t.ino, t.off)
Reached(t) == next <= LineAt(t.ino, t.off) /\ Gap(LineAt(t.ino, t.off))

\* Where the lines of audit.log begin that nobody has passed over.
Frontier == IF log # None THEN file[log].first ELSE lines + 1
Beyond(i, front) == Ends(i)..(front - 1) \subseteq excused

Shape(t) ==
    t = [pc |-> t.pc, h |-> t.h, pos |-> t.pos, half |-> t.half, off |-> t.off, ino |-> t.ino,
         stat |-> t.stat, prev |-> t.prev]

Reading ==
    /\ Placed(tail)
    /\ tail.pc \in {"drain", "poll", "open", "finish"}
    /\ Beyond(tail.ino, Frontier)
    /\ tail.pc = "open" =>
           /\ tail.stat.ino \in Inode /\ tail.stat.rotated \in BOOLEAN
           /\ tail.stat.rotated <=> tail.stat.ino # tail.ino
    /\ IF tail.pc = "finish"
       THEN /\ Placed(tail.prev) /\ Reached(tail.prev) /\ tail.prev.ino < tail.ino
            /\ tail.off = 0 /\ Beyond(tail.prev.ino, file[tail.ino].first)
       ELSE Reached(tail)

\* The position in the state file is not ahead of the reader.
Saved ==
    /\ saved.off \in Nat /\ saved.ino \in Inode \cup {None}
    /\ saved.ino # None => saved.ino <= Newest
    /\ saved.off > 0 =>
           /\ saved.ino # None /\ saved.off <= file[saved.ino].size
           /\ Odd(saved.off) => joined = LineAt(saved.ino, saved.off)
           /\ Gap(LineAt(saved.ino, saved.off))
           /\ ~Up => next <= LineAt(saved.ino, saved.off)

Fed ==
    /\ next \in Nat /\ skipped \subseteq excused /\ flaw = FALSE /\ joined \in Nat

IInv ==
    /\ raced \in BOOLEAN /\ World
    /\ ~raced => Fed /\ Saved /\ Shape(tail) /\ (Up => Reading)
-----------------------------------------------------------------------------
(***************************************************************************)
(* Numbers.                                                                *)
(***************************************************************************)
\* An offset is in the first or the second half of a line.
LEMMA HalfFacts ==
    ASSUME NEW n \in Nat
    PROVE  /\ Half(n) \in Nat
           /\ Odd(n) => n = 2 * Half(n) + 1
           /\ ~Odd(n) => n = 2 * Half(n)
  BY DEF Half, Odd

\* The half of a number that is not below another is not below its half.
LEMMA HalfGrows ==
    ASSUME NEW m \in Nat, NEW n \in Nat, m <= n
    PROVE  Half(m) <= Half(n)
  BY DEF Half

\* A number is the double of its half, or one more.
LEMMA HalfOf ==
    ASSUME NEW n \in Nat, NEW h \in Nat
    PROVE  /\ n = 2 * h => Half(n) = h /\ ~Odd(n)
           /\ n = 2 * h + 1 => Half(n) = h /\ Odd(n)
  BY DEF Half, Odd

\* The numbers of inodes.
LEMMA InodeFacts ==
    /\ Inode \subseteq Nat /\ None \notin Inode /\ 1 \in Inode
    /\ \A i \in Inode : i > 0
    /\ \A i \in Inode, j \in Nat : j > 0 /\ j <= i => j \in Inode
  BY TailAssumption DEF Inode, None

\* The order of inodes.
LEMMA InodeOrder ==
    ASSUME NEW i \in Inode, NEW j \in Inode, NEW k \in Inode, j <= k
    PROVE  /\ i <= j => i <= k
           /\ i < j => i < k
  BY InodeFacts

\* The files.
LEMMA FileFacts ==
    ASSUME World, NEW i \in Inode
    PROVE  /\ file[i].first \in Nat /\ file[i].size \in Nat /\ Ends(i) \in Nat
           /\ Ends(i) = file[i].first + Half(file[i].size)
           /\ \A n \in Nat : LineAt(i, n) = file[i].first + Half(n) /\ LineAt(i, n) \in Nat
           /\ MidLine(i) <=> Odd(file[i].size)
  <1>1. file[i].first \in Nat /\ file[i].size \in Nat
    BY DEF World
  <1>2. \A n \in Nat : Half(n) \in Nat
    BY HalfFacts
  <1> QED
    BY <1>1, <1>2 DEF Ends, LineAt, MidLine

-----------------------------------------------------------------------------
(***************************************************************************)
(* auditd keeps its files in order.                                        *)
(***************************************************************************)
LEMMA InitWorld == ASSUME Init PROVE World
  <1>1. /\ file = [i \in Inode |-> IF i = 1 THEN [first |-> 1, size |-> 0] ELSE NoFile]
        /\ log = 1 /\ old = None /\ lines = 0
    BY DEF Init
  <1>2. NoFile \in [first : Nat, size : Nat]
    BY DEF NoFile
  <1>3. file \in [Inode -> [first : Nat, size : Nat]]
    BY <1>1, <1>2
  <1>4. Newest = 1 /\ 1 \in Inode /\ file[1].first = 1 /\ file[1].size = 0
    BY <1>1, InodeFacts DEF Newest, None
  <1>5. Half(0) = 0 /\ ~Odd(0)
    BY HalfOf
  <1>6. \A i \in Inode : IF i <= Newest THEN file[i].first > 0 ELSE file[i] = NoFile
    BY <1>1, <1>4, InodeFacts
  <1>7. \A i, j \in Inode : ~(i < j /\ j <= Newest)
    BY <1>4, InodeFacts
  <1>8. lines + 1 = Ends(Newest) + (IF MidLine(Newest) THEN 1 ELSE 0)
    BY <1>1, <1>4, <1>5 DEF Ends, LineAt, MidLine
  <1>9. log \in Inode \cup {None} /\ old \in Inode \cup {None} /\ lines \in Nat /\ log # None
    BY <1>1, <1>4 DEF None
  <1> QED
    BY <1>1, <1>3, <1>4, <1>6, <1>7, <1>8, <1>9 DEF World

\* A line, or half of one, at the end of audit.log.
LEMMA WriteFacts ==
    ASSUME World, Write
    PROVE  /\ log \in Inode /\ Newest = log
           /\ file' \in [Inode -> [first : Nat, size : Nat]]
           /\ \A i \in Inode : file'[i].first = file[i].first
                               /\ file'[i].size >= file[i].size /\ (i # log => file'[i] = file[i])
           /\ lines' \in Nat /\ UNCHANGED <<log, old>>
           /\ LET size == file'[log].size
              IN  lines' + 1 = file[log].first + Half(size) + (IF Odd(size) THEN 1 ELSE 0)
  <1>1. PICK n \in {1, 2} :
            /\ n = 2 => ~MidLine(log)
            /\ file' = [file EXCEPT ![log].size = @ + n]
            /\ lines' = IF MidLine(log) THEN lines ELSE lines + 1
    BY DEF Write
  <1>2. log \in Inode /\ Newest = log /\ UNCHANGED <<log, old>> /\ lines \in Nat
    BY DEF Write, World, Newest
  <1>3. PICK r : r = [file[log] EXCEPT !.size = @ + n]
    OBVIOUS
  <1>4. /\ r \in [first : Nat, size : Nat] /\ r.first = file[log].first
        /\ r.size = file[log].size + n /\ file[log].size \in Nat
    BY <1>2, <1>3 DEF World
  <1>5. file' = [file EXCEPT ![log] = r]
    BY <1>1, <1>3
  <1>6. /\ file' \in [Inode -> [first : Nat, size : Nat]] /\ file'[log] = r
        /\ \A i \in Inode : i # log => file'[i] = file[i]
    BY <1>2, <1>4, <1>5 DEF World
  <1>7. \A i \in Inode : file'[i].first = file[i].first /\ file'[i].size >= file[i].size
    BY <1>2, <1>4, <1>6, FileFacts
  <1>8. lines + 1 = file[log].first + Half(file[log].size) + (IF Odd(file[log].size) THEN 1 ELSE 0)
    BY <1>2, FileFacts DEF World
  <1> DEFINE z == file[log].size
  <1>9. lines' + 1 = file[log].first + Half(z + n) + (IF Odd(z + n) THEN 1 ELSE 0)
    <2>1. z \in Nat /\ Half(z) \in Nat /\ file[log].first \in Nat /\ (MidLine(log) <=> Odd(z))
      BY <1>2, FileFacts, HalfFacts
    <2> HIDE DEF z
    <2>2. CASE Odd(z)
      <3>1. n = 1 /\ z = 2 * Half(z) + 1 /\ lines' = lines
        BY <1>1, <2>1, <2>2, HalfFacts
      <3>2. z + n = 2 * (Half(z) + 1) /\ Half(z) + 1 \in Nat /\ z + n \in Nat
        BY <2>1, <3>1
      <3>3. Half(z + n) = Half(z) + 1 /\ ~Odd(z + n)
        BY <3>2, HalfOf
      <3> QED
        BY <1>2, <1>8, <2>1, <2>2, <3>1, <3>3 DEF z
    <2>3. CASE ~Odd(z) /\ n = 1
      <3>1. z = 2 * Half(z) /\ lines' = lines + 1
        BY <1>1, <2>1, <2>3, HalfFacts
      <3>2. z + n = 2 * Half(z) + 1 /\ z + n \in Nat
        BY <2>1, <2>3, <3>1
      <3>3. Half(z + n) = Half(z) /\ Odd(z + n)
        BY <2>1, <3>2, HalfOf
      <3> QED
        BY <1>2, <1>8, <2>1, <2>3, <3>1, <3>3 DEF z
    <2>4. CASE ~Odd(z) /\ n = 2
      <3>1. z = 2 * Half(z) /\ lines' = lines + 1
        BY <1>1, <2>1, <2>4, HalfFacts
      <3>2. z + n = 2 * (Half(z) + 1) /\ Half(z) + 1 \in Nat /\ z + n \in Nat
        BY <2>1, <2>4, <3>1
      <3>3. Half(z + n) = Half(z) + 1 /\ ~Odd(z + n)
        BY <3>2, HalfOf
      <3> QED
        BY <1>2, <1>8, <2>1, <2>4, <3>1, <3>3 DEF z
    <2> QED
      BY <2>2, <2>3, <2>4
  <1>10. lines' \in Nat
    BY <1>1, <1>2
  <1> QED
    BY <1>2, <1>4, <1>6, <1>7, <1>9, <1>10

\* The new audit.log begins where the one before ends.
LEMMA CreateFacts ==
    ASSUME World, Create
    PROVE  /\ log = None /\ old \in Inode /\ old + 1 \in Inode /\ Newest = old
           /\ log' = old + 1 /\ UNCHANGED <<old, lines>>
           /\ file' \in [Inode -> [first : Nat, size : Nat]]
           /\ \A i \in Inode : i # log' => file'[i] = file[i]
           /\ file'[log'].first = lines + 1 /\ file'[log'].size = 0 /\ Ends(old) = lines + 1
  <1>1. log = None /\ old \in Inode /\ old + 1 \in Inode /\ Newest = old /\ ~MidLine(old) /\ lines \in Nat
    BY DEF World, Create, Newest
  <1> DEFINE Free(i) == file[i] = NoFile /\ \A j \in Inode : file[j] = NoFile => i <= j
             i == CHOOSE i \in Inode : Free(i)
  <1>2. \A k \in Inode : file[k] = NoFile <=> k > old
    <2>1. \A k \in Inode : k <= old => file[k].first # 0
      BY <1>1, InodeFacts DEF World
    <2>2. NoFile.first = 0
      BY DEF NoFile
    <2>3. \A k \in Inode : k > old => file[k] = NoFile
      BY <1>1, InodeFacts DEF World
    <2> QED
      BY <1>1, <2>1, <2>2, <2>3, InodeFacts
  <1>3. Free(old + 1)
    BY <1>1, <1>2, InodeFacts
  <1>4. i \in Inode /\ Free(i)
    BY <1>1, <1>3
  <1> HIDE DEF i
  <1>5. i = old + 1
    <2>1. i > old /\ file[old + 1] = NoFile
      BY <1>1, <1>2, <1>4, InodeFacts
    <2>2. i <= old + 1
      BY <1>1, <1>4, <2>1
    <2> QED
      BY <1>1, <1>4, <2>1, <2>2, InodeFacts
  <1>6. log' = i /\ file' = [file EXCEPT ![i] = [first |-> lines + 1, size |-> 0]]
        /\ UNCHANGED <<old, lines>>
    BY DEF Create, i, Free
  <1> HIDE DEF Free
  <1>7. Ends(old) = lines + 1
    BY <1>1, FileFacts DEF World
  <1> QED
    BY <1>1, <1>4, <1>5, <1>6, <1>7 DEF World

\* The files stay in order.
LEMMA WorldStep ==
    ASSUME World, [Next]_vars
    PROVE  World'
  <1>1. CASE Write
    <2>1. /\ log \in Inode /\ Newest = log
          /\ file' \in [Inode -> [first : Nat, size : Nat]]
          /\ \A i \in Inode : file'[i].first = file[i].first /\ (i # log => file'[i] = file[i])
          /\ lines' \in Nat /\ UNCHANGED <<log, old>>
      BY <1>1, WriteFacts
    <2>2. log # None /\ Newest' = log /\ log' = log
      BY <2>1, InodeFacts DEF Newest
    <2>3. lines' + 1 = Ends(Newest)' + (IF MidLine(Newest)' THEN 1 ELSE 0)
      BY <1>1, <2>1, <2>2, WriteFacts DEF Ends, LineAt, MidLine
    <2>4. \A i \in Inode : IF i <= log THEN file'[i].first > 0 ELSE file'[i] = NoFile
      BY <2>1, InodeFacts DEF World
    <2>5. \A i, j \in Inode : i < j /\ j <= log =>
              ~Odd(file'[i].size) /\ file'[i].first + Half(file'[i].size) <= file'[j].first
      <3> SUFFICES ASSUME NEW i \in Inode, NEW j \in Inode, i < j, j <= log
                   PROVE  ~Odd(file'[i].size)
                          /\ file'[i].first + Half(file'[i].size) <= file'[j].first
        OBVIOUS
      <3>1. ~MidLine(i) /\ Ends(i) <= file[j].first
        BY <2>1 DEF World
      <3>2. i # log /\ file'[i] = file[i] /\ file'[j].first = file[j].first
        BY <2>1, InodeFacts
      <3> QED
        BY <3>1, <3>2 DEF Ends, LineAt, MidLine
    <2>6. old # None => old < log /\ file'[old].first + Half(file'[old].size) = file'[log].first
      <3> SUFFICES ASSUME old # None
                   PROVE  old < log /\ file'[old].first + Half(file'[old].size) = file'[log].first
        OBVIOUS
      <3>1. old < log /\ Ends(old) = file[log].first /\ old \in Inode
        BY <2>2 DEF World
      <3>2. old # log /\ file'[old] = file[old] /\ file'[log].first = file[log].first
        BY <2>1, <3>1, InodeFacts
      <3> QED
        BY <3>1, <3>2 DEF Ends, LineAt
    <2> QED
      BY <2>1, <2>2, <2>3, <2>4, <2>5, <2>6 DEF World, Ends, LineAt, MidLine
  <1>2. CASE Rename
    <2>1. log # None /\ ~MidLine(log) /\ old' = log /\ log' = None /\ UNCHANGED <<file, lines>>
      BY <1>2 DEF Rename
    <2>2. log \in Inode /\ Newest = log /\ Newest' = log
      BY <2>1 DEF World, Newest
    <2>3. log + 1 \in Inode
      <3>1. PICK i \in Inode : file[i] = NoFile
        BY <1>2 DEF Rename
      <3>2. ~(i <= log)
        BY <2>2, <3>1 DEF World, NoFile
      <3> QED
        BY <2>2, <3>2, InodeFacts
    <2> QED
      BY <2>1, <2>2, <2>3 DEF World, Ends, LineAt, MidLine
  <1>3. CASE Create
    <2>1. /\ log = None /\ old \in Inode /\ old + 1 \in Inode /\ Newest = old
          /\ log' = old + 1 /\ UNCHANGED <<old, lines>>
          /\ file' \in [Inode -> [first : Nat, size : Nat]]
          /\ \A i \in Inode : i # log' => file'[i] = file[i]
          /\ file'[log'].first = lines + 1 /\ file'[log'].size = 0 /\ Ends(old) = lines + 1
      BY <1>3, CreateFacts
    <2> DEFINE k == old + 1
    <2>2. /\ k \in Inode /\ Newest' = k /\ log' = k /\ k # None /\ log' # None /\ old \in Nat
          /\ k \in Nat /\ old # k /\ k > old /\ lines \in Nat
          /\ \A i \in Inode : i <= k <=> i <= old \/ i = k
      BY <2>1, InodeFacts DEF Newest, World
    <2> HIDE DEF k
    <2>3. \A i \in Inode : i <= old => file'[i] = file[i]
      BY <2>1, <2>2, InodeFacts
    <2>4. \A i \in Inode : IF i <= k THEN file'[i].first > 0 ELSE file'[i] = NoFile
      <3> SUFFICES ASSUME NEW i \in Inode PROVE IF i <= k THEN file'[i].first > 0 ELSE file'[i] = NoFile
        OBVIOUS
      <3>1. CASE i = k
        BY <2>1, <2>2, <3>1
      <3>2. CASE i # k
        BY <2>1, <2>2, <3>2, InodeFacts DEF World
      <3> QED
        BY <3>1, <3>2
    <2>5. ~Odd(file[old].size) /\ \A i \in Inode : i <= old => Ends(i) <= lines + 1 /\ ~MidLine(i)
      <3>1. ~MidLine(old)
        BY <2>1 DEF World
      <3>2. ASSUME NEW i \in Inode, i < old PROVE Ends(i) <= lines + 1 /\ ~MidLine(i)
        <4>1. Ends(i) <= file[old].first /\ ~MidLine(i)
          BY <2>1, <2>2, <3>2 DEF World
        <4>2. file[old].first <= Ends(old) /\ file[old].first \in Nat /\ Ends(i) \in Nat
          BY <2>1, FileFacts, HalfFacts
        <4> QED
          BY <2>1, <2>2, <4>1, <4>2
      <3> QED
        <4>1. \A i \in Inode : i <= old => i < old \/ i = old
          BY <2>1, InodeFacts
        <4>2. Ends(old) <= lines + 1
          BY <2>1, <2>2
        <4> QED
          BY <3>1, <3>2, <4>1, <4>2 DEF MidLine
    <2>6. \A i, j \in Inode : i < j /\ j <= k =>
              ~Odd(file'[i].size) /\ file'[i].first + Half(file'[i].size) <= file'[j].first
      <3> SUFFICES ASSUME NEW i \in Inode, NEW j \in Inode, i < j, j <= k
                   PROVE  ~Odd(file'[i].size)
                          /\ file'[i].first + Half(file'[i].size) <= file'[j].first
        OBVIOUS
      <3>1. i <= old /\ file'[i] = file[i]
        BY <2>2, <2>3, InodeFacts
      <3>2. CASE j = k
        BY <2>1, <2>2, <2>5, <3>1, <3>2 DEF Ends, LineAt, MidLine
      <3>3. CASE j # k
        <4>1. j <= old /\ file'[j] = file[j]
          BY <2>2, <2>3, <3>3
        <4>2. ~MidLine(i) /\ Ends(i) <= file[j].first
          BY <2>1, <4>1 DEF World
        <4> QED
          BY <3>1, <4>1, <4>2 DEF Ends, LineAt, MidLine
      <3> QED
        BY <3>2, <3>3
    <2>7. Half(0) = 0 /\ ~Odd(0)
      BY HalfOf
    <2>8. /\ lines' + 1 = Ends(Newest)' + (IF MidLine(Newest)' THEN 1 ELSE 0)
          /\ file'[old].first + Half(file'[old].size) = file'[k].first
      BY <2>1, <2>2, <2>7 DEF Ends, LineAt, MidLine
    <2> QED
      BY <2>1, <2>2, <2>4, <2>6, <2>8 DEF World, Ends, LineAt, MidLine
  <1>4. CASE UNCHANGED world
    BY <1>4 DEF world, World, Newest, Ends, LineAt, MidLine
  <1> QED
    BY <1>1, <1>2, <1>3, <1>4 DEF Next, Auditd, Poll, Run, Drain, Stat, Open, Finish, Save, Crash, vars, world

-----------------------------------------------------------------------------
(***************************************************************************)
(* Lines and intervals of them.                                            *)
(***************************************************************************)
\* The half after a whole line is in the line that follows.
LEMMA HalfNext ==
    ASSUME NEW n \in Nat, ~Odd(n)
    PROVE  Half(n + 1) = Half(n) /\ Odd(n + 1)
  <1>1. Half(n) \in Nat /\ n + 1 = 2 * Half(n) + 1 /\ n + 1 \in Nat
    BY HalfFacts
  <1> QED
    BY <1>1, HalfOf

\* No file ends after the newest line.
LEMMA EndBound ==
    ASSUME World, NEW i \in Inode, i <= Newest
    PROVE  Ends(i) <= lines + 1
  <1>1. Newest \in Inode /\ lines \in Nat /\ lines + 1 = Ends(Newest) + (IF MidLine(Newest) THEN 1 ELSE 0)
    BY DEF World
  <1>2. Ends(Newest) \in Nat /\ Ends(i) \in Nat /\ file[Newest].first \in Nat
        /\ file[Newest].first <= Ends(Newest)
    <2>1. Half(file[Newest].size) \in Nat
      BY <1>1, FileFacts, HalfFacts
    <2> QED
      BY <1>1, <2>1, FileFacts
  <1>3. CASE i = Newest
    BY <1>1, <1>2, <1>3
  <1>4. CASE i # Newest
    <2>1. i < Newest
      BY <1>1, <1>4, InodeFacts
    <2>2. Ends(i) <= file[Newest].first
      BY <1>1, <2>1, InodeFacts DEF World
    <2> QED
      BY <1>1, <1>2, <2>2
  <1> QED
    BY <1>3, <1>4

\* The line of an offset that is not behind the end of its file.
LEMMA LineBound ==
    ASSUME World, NEW i \in Inode, NEW n \in Nat, n <= file[i].size
    PROVE  file[i].first <= LineAt(i, n) /\ LineAt(i, n) <= Ends(i) /\ LineAt(i, 0) = file[i].first
  <1>1. file[i].first \in Nat /\ file[i].size \in Nat
    BY FileFacts
  <1>2. Half(n) <= Half(file[i].size) /\ Half(n) \in Nat /\ Half(file[i].size) \in Nat
    BY <1>1, HalfGrows, HalfFacts
  <1>3. Half(0) = 0
    BY HalfOf
  <1> QED
    BY <1>1, <1>2, <1>3 DEF LineAt, Ends

\* The parser is fed lines from the one due, or from a later one when those
\* between are excused.
LEMMA FeedFacts ==
    ASSUME Fed, NEW a \in Nat, NEW b \in Nat, a <= b, NEW cut, Feed(a..(b - 1), cut),
           next <= a, Gap(a), cut => a = joined
    PROVE  /\ Fed' /\ UNCHANGED <<joined, raced, excused>>
           /\ next <= next' /\ next' <= b /\ next'..(b - 1) \subseteq excused'
  <1>1. next \in Nat /\ skipped \subseteq excused /\ flaw = FALSE /\ joined \in Nat
    BY DEF Fed
  <1>2. CASE a = b
    <2>1. a..(b - 1) = {}
      BY <1>2
    <2>2. UNCHANGED history
      BY <2>1 DEF Feed
    <2>3. UNCHANGED <<next, skipped, excused, joined, flaw, raced>>
      BY <2>2 DEF history
    <2>4. next'..(b - 1) \subseteq excused'
      BY <1>2, <2>3 DEF Gap
    <2>5. next <= next' /\ next' <= b
      BY <1>1, <1>2, <2>3
    <2>6. Fed'
      BY <1>1, <2>3 DEF Fed
    <2> QED
      BY <2>3, <2>4, <2>5, <2>6
  <1>3. CASE a < b
    <2>1. a..(b - 1) # {}
      BY <1>3
    <2>2. Min(a..(b - 1)) = a
      BY <1>3 DEF Min
    <2>3. Max((a..(b - 1)) \cup {next - 1}) = b - 1
      BY <1>1, <1>3 DEF Max
    <2>4. /\ next' = Max((a..(b - 1)) \cup {next - 1}) + 1
          /\ skipped' = skipped \cup next..(Min(a..(b - 1)) - 1)
          /\ flaw' = (flaw \/ (cut /\ Min(a..(b - 1)) # joined) \/ Min(a..(b - 1)) < next)
          /\ UNCHANGED <<excused, joined, raced>>
      BY <2>1 DEF Feed
    <2>5. next' = b
      BY <2>3, <2>4
    <2>6. skipped' = skipped \cup next..(a - 1)
      BY <2>2, <2>4
    <2>7. flaw' = FALSE
      <3>1. ~(cut /\ a # joined) /\ ~(a < next)
        BY <1>1
      <3> QED
        BY <1>1, <2>2, <2>4, <3>1, Zenon
    <2>8. skipped' \subseteq excused'
      BY <1>1, <2>4, <2>6 DEF Gap
    <2>9. next'..(b - 1) \subseteq excused'
      BY <2>5
    <2>10. next <= next' /\ next' <= b
      BY <1>1, <1>3, <2>5
    <2>11. Fed'
      BY <1>1, <2>4, <2>5, <2>7, <2>8 DEF Fed
    <2> QED
      BY <2>4, <2>9, <2>10, <2>11
  <1> QED
    BY <1>2, <1>3

-----------------------------------------------------------------------------
(***************************************************************************)
(* A step of auditd leaves the reader where it is.                         *)
(***************************************************************************)
\* What auditd leaves of its files.
LEMMA AuditdFacts ==
    ASSUME World, Auditd
    PROVE  /\ UNCHANGED <<tail, saved, next, skipped, joined, flaw, raced>> /\ excused \subseteq excused'
           /\ Newest \in Inode /\ Newest' \in Inode /\ Newest <= Newest'
           /\ \A i \in Inode : i <= Newest =>
                  file'[i].first = file[i].first /\ file'[i].size \in Nat /\ file[i].size <= file'[i].size
           /\ \A i \in Inode : i < Newest => file'[i] = file[i]
  <1>1. CASE Write
    <2>1. UNCHANGED <<tail, saved, next, skipped, joined, flaw, raced, excused>>
      BY <1>1 DEF Write, history
    <2>2. /\ log \in Inode /\ Newest = log /\ UNCHANGED <<log, old>>
          /\ file' \in [Inode -> [first : Nat, size : Nat]]
          /\ \A i \in Inode : file'[i].first = file[i].first
                              /\ file'[i].size >= file[i].size /\ (i # log => file'[i] = file[i])
      BY <1>1, WriteFacts
    <2>3. Newest' = Newest
      BY <2>2 DEF Newest
    <2>4. \A i \in Inode : file'[i].size \in Nat /\ file[i].size \in Nat
      BY <2>2 DEF World
    <2>5. Newest <= Newest /\ \A i \in Inode : i < Newest => i # log
      BY <2>2, InodeFacts
    <2> QED
      BY <2>1, <2>2, <2>3, <2>4, <2>5
  <1>2. CASE Rename
    <2>1. /\ UNCHANGED <<tail, saved, next, skipped, joined, flaw, raced, file>>
          /\ excused \subseteq excused' /\ log # None /\ old' = log /\ log' = None
      BY <1>2 DEF Rename
    <2>2. Newest' = Newest /\ Newest \in Inode
      BY <2>1 DEF Newest, World
    <2>3. Newest <= Newest
      BY <2>2, InodeFacts
    <2>4. \A i \in Inode : file[i].size \in Nat /\ file[i].size <= file[i].size
      BY FileFacts
    <2> QED
      BY <2>1, <2>2, <2>3, <2>4
  <1>3. CASE Create
    <2>1. UNCHANGED <<tail, saved, next, skipped, joined, flaw, raced, excused>>
      BY <1>3 DEF Create, history
    <2>2. /\ log = None /\ old \in Inode /\ old + 1 \in Inode /\ Newest = old
          /\ log' = old + 1 /\ UNCHANGED old
          /\ \A i \in Inode : i # log' => file'[i] = file[i]
      BY <1>3, CreateFacts
    <2>3. Newest' = old + 1
      BY <2>2, InodeFacts DEF Newest
    <2>4. \A i \in Inode : i <= old => file'[i] = file[i]
      BY <2>2, InodeFacts
    <2>5. \A i \in Inode : file[i].size \in Nat /\ file[i].size <= file[i].size
      BY FileFacts
    <2>6. old <= old + 1 /\ \A i \in Inode : i < old => i <= old
      BY <2>2, InodeFacts
    <2>7. \A i \in Inode : i <= Newest =>
              file'[i].first = file[i].first /\ file'[i].size \in Nat /\ file[i].size <= file'[i].size
      BY <2>2, <2>4, <2>5
    <2> QED
      BY <2>1, <2>2, <2>3, <2>4, <2>6, <2>7
  <1> QED
    BY <1>1, <1>2, <1>3 DEF Auditd

\* The position of the reader stays one, and the lines due there.
LEMMA PlacedAuditd ==
    ASSUME World, Auditd
    PROVE  /\ Placed(tail) => Placed(tail)' /\ (Reached(tail) => Reached(tail)')
           /\ Placed(tail.prev) => Placed(tail.prev)' /\ (Reached(tail.prev) => Reached(tail.prev)')
  <1>1. /\ UNCHANGED <<tail, next, joined>> /\ excused \subseteq excused'
        /\ Newest \in Inode /\ Newest' \in Inode /\ Newest <= Newest'
        /\ \A i \in Inode : i <= Newest =>
               file'[i].first = file[i].first /\ file'[i].size \in Nat /\ file[i].size <= file'[i].size
    BY AuditdFacts
  <1>2. ASSUME Placed(tail)
        PROVE  Placed(tail)' /\ (Reached(tail) => Reached(tail)')
    <2>0. tail.ino \in Inode /\ tail.ino <= Newest
      BY <1>2 DEF Placed
    <2>1. tail.ino \in Inode /\ tail.ino <= Newest /\ tail.ino <= Newest' /\ file[tail.ino].size \in Nat
      BY <1>1, <2>0, InodeOrder, FileFacts
    <2>2. /\ file'[tail.ino].first = file[tail.ino].first
          /\ tail.pos \in Nat /\ tail.pos <= file'[tail.ino].size
      BY <1>1, <1>2, <2>1 DEF Placed
    <2>3. LineAt(tail.ino, tail.off)' = LineAt(tail.ino, tail.off)
      BY <1>1, <2>2 DEF LineAt
    <2>4. Placed(tail)'
      BY <1>1, <1>2, <2>1, <2>2, <2>3 DEF Placed
    <2>5. Reached(tail) => Reached(tail)'
      BY <1>1, <2>3 DEF Reached, Gap
    <2> QED
      BY <2>4, <2>5
  <1>3. ASSUME Placed(tail.prev)
        PROVE  Placed(tail.prev)' /\ (Reached(tail.prev) => Reached(tail.prev)')
    <2> DEFINE t == tail.prev
    <2>0. t.ino \in Inode /\ t.ino <= Newest
      BY <1>3 DEF Placed
    <2>1. t.ino \in Inode /\ t.ino <= Newest /\ t.ino <= Newest' /\ file[t.ino].size \in Nat
      BY <1>1, <2>0, InodeOrder, FileFacts
    <2>2. file'[t.ino].first = file[t.ino].first /\ t.pos \in Nat /\ t.pos <= file'[t.ino].size
      BY <1>1, <1>3, <2>1 DEF Placed
    <2>3. LineAt(t.ino, t.off)' = LineAt(t.ino, t.off)
      BY <1>1, <2>2 DEF LineAt
    <2>4. Placed(t)'
      BY <1>1, <1>3, <2>1, <2>2, <2>3 DEF Placed
    <2>5. Reached(t) => Reached(t)'
      BY <1>1, <2>3 DEF Reached, Gap
    <2> QED
      BY <2>4, <2>5
  <1> QED
    BY <1>2, <1>3

\* The lines past the file of the reader that nobody has passed over still
\* begin at audit.log.
LEMMA BeyondAuditd ==
    ASSUME World, Auditd, Up, Placed(tail), Beyond(tail.ino, Frontier)
    PROVE  Beyond(tail.ino, Frontier)'
  <1>1. /\ UNCHANGED tail /\ tail.ino \in Inode /\ tail.ino <= Newest /\ tail.ino \in Nat
        /\ lines \in Nat /\ Ends(tail.ino) \in Nat
    BY AuditdFacts, InodeFacts, FileFacts DEF Placed, World
  <1>2. CASE Write
    <2>1. /\ log \in Inode /\ Newest = log /\ UNCHANGED <<log, old>> /\ log # None /\ log \in Nat
          /\ file' \in [Inode -> [first : Nat, size : Nat]] /\ file'[log].first = file[log].first
          /\ \A i \in Inode : i # log => file'[i] = file[i]
          /\ excused' = excused
      BY <1>2, WriteFacts, InodeFacts DEF Write, history
    <2>2. Frontier = file[log].first /\ Frontier' = Frontier /\ Frontier \in Nat
      BY <2>1, FileFacts DEF Frontier
    <2>3. CASE tail.ino = log
      <3>1. Half(file'[log].size) \in Nat
        BY <2>1, HalfFacts
      <3>2. Ends(tail.ino)' >= Frontier' /\ Ends(tail.ino)' \in Nat
        BY <1>1, <2>1, <2>2, <2>3, <3>1 DEF Ends, LineAt
      <3>3. (Ends(tail.ino)..(Frontier - 1))' = {}
        BY <2>2, <3>2
      <3> QED
        BY <3>3 DEF Beyond
    <2>4. CASE tail.ino # log
      <3>1. Ends(tail.ino)' = Ends(tail.ino)
        BY <1>1, <2>1, <2>4 DEF Ends, LineAt
      <3> QED
        BY <2>1, <2>2, <3>1 DEF Beyond
    <2> QED
      BY <2>3, <2>4
  <1>3. CASE Rename
    <2>1. /\ log # None /\ log \in Inode /\ Newest = log /\ ~MidLine(log) /\ old' = log /\ log' = None
          /\ UNCHANGED <<file, lines>> /\ excused' = excused \cup OutOfReach
      BY <1>3 DEF Rename, World, Newest
    <2>2. Frontier = file[log].first /\ Frontier' = lines + 1 /\ Ends(log) = lines + 1 /\ Frontier \in Nat
          /\ Frontier > 0
      <3>1. Ends(log) = lines + 1
        BY <1>1, <2>1, FileFacts DEF World
      <3>2. file[log].first > 0 /\ file[log].first \in Nat
        BY <2>1, FileFacts, InodeFacts DEF World
      <3> QED
        BY <2>1, <3>1, <3>2 DEF Frontier
    <2>3. Ends(tail.ino)' = Ends(tail.ino)
      BY <1>1, <2>1 DEF Ends, LineAt
    <2>4. CASE tail.ino = log
      <3>1. (Ends(tail.ino)..(Frontier - 1))' = {}
        BY <1>1, <2>2, <2>3, <2>4
      <3> QED
        BY <3>1 DEF Beyond
    <2>5. CASE tail.ino # log
      <3>1. file[log].first + 0 \div 2 = Frontier /\ file[log].first + file[log].size \div 2 = lines + 1
        BY <2>2 DEF Ends, LineAt, Half
      <3>2. OutOfReach = {l \in 1..lines : l >= Frontier /\ l < lines + 1}
        BY <2>5, <3>1 DEF OutOfReach, Unread
      <3>3. \A l \in Ends(tail.ino)..((lines + 1) - 1) : l \in excused \/ l \in OutOfReach
        <4> SUFFICES ASSUME NEW l \in Ends(tail.ino)..((lines + 1) - 1), l \notin excused
                     PROVE  l \in OutOfReach
          OBVIOUS
        <4>1. ~(l \in Ends(tail.ino)..(Frontier - 1))
          BY DEF Beyond
        <4> QED
          BY <1>1, <2>2, <3>2, <4>1
      <3> QED
        BY <2>1, <2>2, <2>3, <3>3 DEF Beyond
    <2> QED
      BY <2>4, <2>5
  <1>4. CASE Create
    <2>1. /\ log = None /\ old \in Inode /\ Newest = old /\ log' = old + 1
          /\ \A i \in Inode : i # log' => file'[i] = file[i]
          /\ file'[log'].first = lines + 1 /\ excused' = excused
      BY <1>4, CreateFacts DEF Create, history
    <2>2. Frontier = lines + 1 /\ Frontier' = lines + 1
      BY <2>1, InodeFacts DEF Frontier, None
    <2>3. tail.ino # log' /\ Ends(tail.ino)' = Ends(tail.ino)
      <3>1. tail.ino # log'
        BY <1>1, <2>1, InodeFacts
      <3> QED
        BY <1>1, <2>1, <3>1 DEF Ends, LineAt
    <2> QED
      BY <2>1, <2>2, <2>3 DEF Beyond
  <1> QED
    BY <1>2, <1>3, <1>4 DEF Auditd

\* The whole of the invariant.
LEMMA AuditdStep ==
    ASSUME World, Auditd, Fed, Saved, Shape(tail), Up => Reading
    PROVE  Fed' /\ Saved' /\ Shape(tail)' /\ (Up => Reading)'
  <1>1. /\ UNCHANGED <<tail, saved, next, skipped, joined, flaw, raced>> /\ excused \subseteq excused'
        /\ Newest \in Inode /\ Newest' \in Inode /\ Newest <= Newest'
        /\ \A i \in Inode : i <= Newest =>
               file'[i].first = file[i].first /\ file'[i].size \in Nat /\ file[i].size <= file'[i].size
        /\ \A i \in Inode : i < Newest => file'[i] = file[i]
    BY AuditdFacts
  <1>2. Fed' /\ Shape(tail)'
    BY <1>1 DEF Fed, Shape
  <1>3. Saved'
    <2>1. saved.off \in Nat /\ saved.ino \in Inode \cup {None} /\ UNCHANGED saved
      BY <1>1 DEF Saved
    <2>2. (saved.ino # None => saved.ino <= Newest)'
      <3> SUFFICES ASSUME saved.ino # None PROVE saved.ino <= Newest'
        BY <1>1
      <3>1. saved.ino \in Inode /\ saved.ino <= Newest
        BY DEF Saved
      <3> QED
        BY <1>1, <3>1, InodeOrder
    <2>3. ASSUME saved.off > 0
          PROVE  /\ saved.ino # None /\ saved.off <= file'[saved.ino].size
                 /\ LineAt(saved.ino, saved.off)' = LineAt(saved.ino, saved.off)
      <3>1. saved.ino \in Inode /\ saved.ino <= Newest /\ saved.ino # None /\ saved.off <= file[saved.ino].size
        BY <2>1, <2>3 DEF Saved
      <3>2. file'[saved.ino].first = file[saved.ino].first /\ saved.off <= file'[saved.ino].size
        BY <1>1, <2>1, <3>1, FileFacts
      <3> QED
        BY <1>1, <3>1, <3>2 DEF LineAt
    <2>4. saved.off > 0 =>
              /\ Odd(saved.off) => joined = LineAt(saved.ino, saved.off)
              /\ Gap(LineAt(saved.ino, saved.off))
              /\ ~Up => next <= LineAt(saved.ino, saved.off)
      BY DEF Saved
    <2>5. Up' <=> Up
      BY <1>1 DEF Up
    <2>6. (saved.off > 0 =>
              /\ saved.ino # None /\ saved.off <= file[saved.ino].size
              /\ Odd(saved.off) => joined = LineAt(saved.ino, saved.off)
              /\ Gap(LineAt(saved.ino, saved.off))
              /\ ~Up => next <= LineAt(saved.ino, saved.off))'
      BY <1>1, <2>3, <2>4, <2>5 DEF Gap
    <2> QED
      BY <2>1, <2>2, <2>6 DEF Saved
  <1>4. ASSUME Up' PROVE Reading'
    <2>1. Up /\ Reading
      BY <1>1, <1>4 DEF Up
    <2>2. Placed(tail)' /\ Beyond(tail.ino, Frontier)'
      BY <2>1, PlacedAuditd, BeyondAuditd DEF Reading
    <2>3. (tail.pc = "open" =>
              /\ tail.stat.ino \in Inode /\ tail.stat.rotated \in BOOLEAN
              /\ tail.stat.rotated <=> tail.stat.ino # tail.ino)'
      BY <1>1, <2>1 DEF Reading
    <2>4. CASE tail.pc = "finish"
      <3>1. /\ Placed(tail.prev) /\ Reached(tail.prev) /\ tail.prev.ino < tail.ino
            /\ tail.off = 0 /\ Beyond(tail.prev.ino, file[tail.ino].first)
        BY <2>1, <2>4 DEF Reading
      <3>2. Placed(tail.prev)' /\ Reached(tail.prev)'
        BY <3>1, PlacedAuditd
      <3>3. tail.prev.ino \in Inode /\ tail.ino \in Inode /\ tail.ino <= Newest /\ tail.prev.ino < Newest
        <4>1. tail.prev.ino \in Inode /\ tail.ino \in Inode /\ tail.ino <= Newest
          BY <2>1, <3>1 DEF Reading, Placed
        <4> QED
          BY <1>1, <3>1, <4>1, InodeOrder
      <3>4. Ends(tail.prev.ino)' = Ends(tail.prev.ino) /\ file'[tail.ino].first = file[tail.ino].first
        BY <1>1, <3>3 DEF Ends, LineAt
      <3>5. Beyond(tail.prev.ino, file[tail.ino].first)'
        BY <1>1, <3>1, <3>4 DEF Beyond
      <3> QED
        BY <1>1, <2>1, <2>2, <2>3, <2>4, <3>1, <3>2, <3>5 DEF Reading
    <2>5. CASE tail.pc # "finish"
      <3>1. Reached(tail)'
        BY <2>1, <2>5, PlacedAuditd DEF Reading
      <3> QED
        BY <1>1, <2>1, <2>2, <2>3, <2>5, <3>1 DEF Reading
    <2> QED
      BY <2>4, <2>5
  <1> QED
    BY <1>2, <1>3, <1>4

-----------------------------------------------------------------------------
(***************************************************************************)
(* The reader moves, auditd does not.                                      *)
(***************************************************************************)
\* The saved position is not ahead of a reader that has moved on.
LEMMA SavedStays ==
    ASSUME Saved, UNCHANGED <<world, saved, joined>>, next \in Nat, next' \in Nat, next <= next',
           excused \subseteq excused', World, Up'
    PROVE  Saved'
  <1>1. UNCHANGED <<file, log, old, lines, saved, joined>>
    BY DEF world
  <1>2. /\ saved.off \in Nat /\ saved.ino \in Inode \cup {None} /\ (saved.ino # None => saved.ino <= Newest)
        /\ saved.off > 0 =>
               /\ saved.ino # None /\ saved.off <= file[saved.ino].size
               /\ Odd(saved.off) => joined = LineAt(saved.ino, saved.off)
               /\ Gap(LineAt(saved.ino, saved.off))
    BY DEF Saved
  <1>3. (saved.ino # None => saved.ino <= Newest)'
    BY <1>1, <1>2 DEF Newest
  <1>4. LineAt(saved.ino, saved.off)' = LineAt(saved.ino, saved.off)
    BY <1>1 DEF LineAt
  <1>5. ASSUME saved.off > 0 PROVE Gap(LineAt(saved.ino, saved.off))'
    <2>1. saved.ino \in Inode /\ Gap(LineAt(saved.ino, saved.off))
      BY <1>2, <1>5
    <2>2. LineAt(saved.ino, saved.off) \in Nat
      BY <1>2, <2>1, FileFacts
    <2> DEFINE l == LineAt(saved.ino, saved.off)
    <2> HIDE DEF l
    <2>3. next'..(l - 1) \subseteq next..(l - 1)
      BY <2>2 DEF l
    <2>4. next..(l - 1) \subseteq excused
      BY <2>1 DEF Gap, l
    <2> QED
      BY <1>4, <2>3, <2>4 DEF Gap, l
  <1>6. (saved.off > 0 =>
            /\ saved.ino # None /\ saved.off <= file[saved.ino].size
            /\ Odd(saved.off) => joined = LineAt(saved.ino, saved.off)
            /\ Gap(LineAt(saved.ino, saved.off))
            /\ ~Up => next <= LineAt(saved.ino, saved.off))'
    BY <1>1, <1>2, <1>4, <1>5
  <1> QED
    BY <1>1, <1>2, <1>3, <1>6 DEF Saved

\* Nothing lies between the end of audit.log and its first line.
LEMMA BeyondLog ==
    ASSUME World, log # None
    PROVE  /\ log \in Inode /\ Newest = log /\ Frontier = file[log].first /\ Beyond(log, Frontier)
           /\ file[log].first \in Nat /\ Ends(log) \in Nat /\ file[log].first <= Ends(log)
  <1>1. log \in Inode /\ Newest = log /\ Frontier = file[log].first
    BY DEF World, Newest, Frontier
  <1>2. file[log].first \in Nat /\ Ends(log) \in Nat /\ file[log].first <= Ends(log)
    BY <1>1, FileFacts, HalfFacts
  <1>3. Ends(log)..(file[log].first - 1) = {}
    BY <1>2
  <1> QED
    BY <1>1, <1>2, <1>3 DEF Beyond

\* A gap and the lines past a file make a longer gap.
LEMMA GapGrows ==
    ASSUME NEW n \in Nat, NEW a \in Nat, NEW b \in Nat, n <= a, a <= b, NEW S,
           n..(a - 1) \subseteq S, a..(b - 1) \subseteq S
    PROVE  n..(b - 1) \subseteq S
  <1>1. \A l \in n..(b - 1) : l \in n..(a - 1) \/ l \in a..(b - 1)
    OBVIOUS
  <1> QED
    BY <1>1

\* Run starts at the saved position, at the beginning of a new file once the
\* rest of the old one is fed, or at the end.
LEMMA RunStep ==
    ASSUME World, Run, Fed, Saved, ~raced'
    PROVE  Fed' /\ Saved' /\ Shape(tail)' /\ Reading'
  <1>1. /\ log # None /\ UNCHANGED <<file, log, old, lines, saved>> /\ ~Up /\ UNCHANGED world
    BY DEF Run, world, Up
  <1> DEFINE end == file[log].size
             start == IF Resumes THEN saved.off ELSE IF Missed THEN 0 ELSE end
             d == [Down EXCEPT !.pc = "drain", !.h = log]
  <1>2. tail' = Reset(d, start, log)
    BY DEF Run
  <1>3. Shape(d) /\ d.pc = "drain" /\ d.h = log
    <2>1. d = [pc |-> "drain", h |-> log, pos |-> 0, half |-> FALSE, off |-> 0, ino |-> None,
               stat |-> NoStat, prev |-> NoPrev]
      <3>1. PICK e : e = [Down EXCEPT !.pc = "drain"]
        OBVIOUS
      <3>2. e = [pc |-> "drain", h |-> None, pos |-> 0, half |-> FALSE, off |-> 0, ino |-> None,
                 stat |-> NoStat, prev |-> NoPrev]
        BY <3>1 DEF Down
      <3>3. d = [e EXCEPT !.h = log]
        BY <3>1
      <3> HIDE DEF d
      <3> QED
        BY <3>2, <3>3
    <2> HIDE DEF d
    <2> QED
      BY <2>1 DEF Shape
  <1> HIDE DEF d, start
  <1>4. /\ Shape(tail)' /\ tail'.pc = "drain" /\ tail'.h = log /\ tail'.ino = log
        /\ tail'.pos = start /\ tail'.off = start /\ tail'.half = FALSE
    <2>1. tail' = [pc |-> "drain", h |-> log, pos |-> start, half |-> FALSE, off |-> start, ino |-> log,
                   stat |-> d.stat, prev |-> d.prev]
      BY <1>2, <1>3 DEF Reset, Shape
    <2> QED
      BY <2>1 DEF Shape
  <1>5. /\ log \in Inode /\ Newest = log /\ Frontier = file[log].first /\ Beyond(log, Frontier)
        /\ file[log].first \in Nat /\ Ends(log) \in Nat /\ file[log].first <= Ends(log)
        /\ end \in Nat /\ log \in Nat
    BY <1>1, BeyondLog, FileFacts, InodeFacts
  <1>6. Up' /\ Newest' = log /\ Frontier' = Frontier /\ Ends(log)' = Ends(log)
    BY <1>1, <1>4, <1>5 DEF Up, Newest, Frontier, Ends, LineAt
  <1>7. saved.off \in Nat /\ saved.ino \in Inode \cup {None} /\ (saved.ino # None => saved.ino <= log)
    BY <1>5 DEF Saved
  <1>8. next \in Nat /\ skipped \subseteq excused /\ flaw = FALSE /\ joined \in Nat
    BY DEF Fed
  <1>9. ASSUME start \in Nat, start <= end, Odd(start) => joined' = LineAt(log, start),
               next' <= LineAt(log, start), next'..(LineAt(log, start) - 1) \subseteq excused',
               excused \subseteq excused'
        PROVE  Reading'
    <2>2. LineAt(tail.ino, tail.off)' = LineAt(log, start)
      BY <1>1, <1>4 DEF LineAt
    <2>3. Placed(tail)'
      <3>1. /\ log \in Inode /\ log <= Newest' /\ start <= file'[log].size
            /\ FALSE \in BOOLEAN
        BY <1>1, <1>5, <1>6, <1>9
      <3>2. Odd(tail'.off) => joined' = LineAt(tail.ino, tail.off)'
        BY <1>4, <1>9, <2>2
      <3> QED
        BY <1>4, <1>9, <3>1, <3>2 DEF Placed
    <2>4. Reached(tail)'
      BY <1>9, <2>2 DEF Reached, Gap
    <2>5. Beyond(tail.ino, Frontier)'
      <3>1. Ends(tail.ino)' = Ends(log) /\ Frontier' = Frontier
        BY <1>1, <1>4, <1>6 DEF Ends, LineAt
      <3> QED
        BY <1>5, <1>9, <3>1 DEF Beyond
    <2> QED
      BY <1>4, <2>3, <2>4, <2>5 DEF Reading
  <1>10. LineAt(log, 0) = file[log].first /\ LineAt(log, end) = Ends(log) /\ ~Odd(0)
    BY <1>5, LineBound, HalfOf DEF Ends
  <1>11. CASE saved.off = 0
    <2>1. /\ joined' = IF MidLine(log) THEN lines ELSE 0
          /\ next' = IF MidLine(log) THEN lines ELSE lines + 1
          /\ skipped' = skipped \cup next..(next' - 1)
          /\ excused' = excused \cup next..(next' - 1)
          /\ UNCHANGED <<flaw, raced>>
      BY <1>11 DEF Run
    <2>2. start = end
      BY <1>11, <1>7 DEF Resumes, Missed, start
    <2>3. /\ lines \in Nat /\ lines + 1 = Ends(log) + (IF MidLine(log) THEN 1 ELSE 0)
          /\ (MidLine(log) <=> Odd(end))
      BY <1>5, FileFacts DEF World
    <2>4. next' = Ends(log) /\ (Odd(end) => joined' = Ends(log)) /\ next' \in Nat /\ joined' \in Nat
      BY <1>5, <2>1, <2>3
    <2>5. Fed'
      BY <1>8, <2>1, <2>4 DEF Fed
    <2>6. Ends(log)..(Ends(log) - 1) = {}
      BY <1>5
    <2>7. Reading'
      BY <1>5, <1>9, <1>10, <2>1, <2>2, <2>4, <2>6
    <2>8. Saved'
      BY <1>1, <1>5, <1>6, <1>7, <1>11 DEF Saved
    <2> QED
      BY <1>4, <2>5, <2>7, <2>8
  <1>12. CASE saved.off > 0
    <2>1. /\ saved.ino # None /\ saved.ino \in Inode /\ saved.off <= file[saved.ino].size
          /\ Odd(saved.off) => joined = LineAt(saved.ino, saved.off)
          /\ Gap(LineAt(saved.ino, saved.off)) /\ next <= LineAt(saved.ino, saved.off)
      BY <1>1, <1>7, <1>12 DEF Saved
    <2>2. /\ LineAt(saved.ino, saved.off) <= Ends(saved.ino) /\ Ends(saved.ino) \in Nat
          /\ LineAt(saved.ino, saved.off) \in Nat
      BY <1>7, <2>1, LineBound, FileFacts
    <2>3. ~(saved.off = 0)
      BY <1>7, <1>12
    <2>4. CASE saved.ino \notin {log, old}
      <3>1. /\ excused' = excused \cup next..(file[log].first - 1)
            /\ UNCHANGED <<next, skipped, joined, flaw>>
        BY <2>3, <2>4 DEF Run
      <3>2. start = 0
        BY <1>12, <2>1, <2>4 DEF Resumes, Missed, start
      <3>3. saved.ino < log
        <4>1. saved.ino # log /\ saved.ino <= log
          BY <1>7, <2>1, <2>4
        <4>2. saved.ino \in Nat /\ log \in Nat
          BY <1>5, <2>1, InodeFacts
        <4> QED
          BY <4>1, <4>2
      <3>4. Ends(saved.ino) <= file[log].first
        <4>1. log <= Newest
          BY <1>5
        <4> QED
          BY <1>5, <2>1, <3>3, <4>1 DEF World
      <3>5. next' <= file[log].first
        BY <1>5, <1>8, <2>1, <2>2, <3>1, <3>4
      <3>6. Reading'
        BY <1>5, <1>9, <1>10, <3>1, <3>2, <3>5
      <3>7. Fed'
        BY <1>8, <3>1 DEF Fed
      <3>8. Saved'
        BY <1>1, <1>6, <1>8, <3>1, SavedStays
      <3> QED
        BY <1>4, <3>6, <3>7, <3>8
    <2>5. CASE saved.ino = old /\ saved.ino # log
      <3>1. start = 0 /\ Missed /\ old # None /\ old \in Inode
        BY <1>12, <2>1, <2>5 DEF Resumes, Missed, start
      <3>2. Feed(Rotated(saved.ino, saved.off), Odd(saved.off))
        BY <2>3, <2>5, <3>1 DEF Run
      <3>3. PICK a, b : a = LineAt(saved.ino, saved.off) /\ b = Ends(saved.ino)
        OBVIOUS
      <3>4. PICK cut \in BOOLEAN : cut <=> Odd(saved.off)
        OBVIOUS
      <3>5. /\ a \in Nat /\ b \in Nat /\ a <= b /\ next <= a /\ Gap(a) /\ (cut => a = joined)
            /\ b = file[log].first
        BY <1>1, <2>1, <2>2, <2>5, <3>1, <3>3, <3>4 DEF World
      <3>6. Feed(a..(b - 1), cut)
        <4>1. Rotated(saved.ino, saved.off) = a..(b - 1)
          BY <1>7, <2>1, <2>5, <3>1, <3>3, FileFacts DEF Rotated, Complete, LineAt, Ends, Half
        <4> QED
          BY <3>2, <3>4, <4>1 DEF Feed
      <3>7. /\ Fed' /\ UNCHANGED <<joined, raced, excused>>
            /\ next <= next' /\ next' <= b /\ next'..(b - 1) \subseteq excused'
        BY <3>5, <3>6, FeedFacts, Zenon
      <3>8. next'..(file[log].first - 1) \subseteq excused' /\ next' <= file[log].first
        BY <3>5, <3>7
      <3>9. Reading'
        BY <1>5, <1>9, <1>10, <3>1, <3>7, <3>8
      <3>10. next' \in Nat
        BY <3>7 DEF Fed
      <3>11. Saved'
        BY <1>1, <1>6, <1>8, <3>7, <3>10, SavedStays
      <3> QED
        BY <1>4, <3>7, <3>9, <3>11
    <2>6. CASE saved.ino = log
      <3>1. start = saved.off /\ ~Missed
        BY <1>12, <2>1, <2>6 DEF Resumes, Missed, start
      <3>2. UNCHANGED history
        BY <2>3, <2>6, <3>1 DEF Run
      <3>3. UNCHANGED <<next, skipped, excused, joined, flaw, raced>>
        BY <3>2 DEF history
      <3>4. Reading'
        BY <1>7, <1>9, <2>1, <2>6, <3>1, <3>3 DEF Gap
      <3>5. Fed'
        BY <1>8, <3>3 DEF Fed
      <3>6. Saved'
        BY <1>1, <1>6, <1>8, <3>3, SavedStays
      <3> QED
        BY <1>4, <3>4, <3>5, <3>6
    <2> QED
      BY <2>4, <2>5, <2>6
  <1> QED
    BY <1>7, <1>11, <1>12

\* What stays of a position while auditd does not move.
LEMMA StillFacts ==
    ASSUME UNCHANGED world
    PROVE  /\ UNCHANGED <<file, log, old, lines>> /\ Newest' = Newest /\ Frontier' = Frontier
           /\ \A i : Ends(i)' = Ends(i) /\ \A n : LineAt(i, n)' = LineAt(i, n)
  BY DEF world, Newest, Frontier, Ends, LineAt

\* A reader that has moved within its file is still in it.
LEMMA ReadingInFile ==
    ASSUME World, Reading, UNCHANGED <<world, excused>>, UNCHANGED tail.ino,
           tail'.pc \in {"drain", "poll"}, Placed(tail)', Reached(tail)'
    PROVE  Reading'
  <1>1. tail.ino \in Inode /\ Beyond(tail.ino, Frontier)
    BY DEF Reading, Placed
  <1>2. Ends(tail.ino)' = Ends(tail.ino) /\ Frontier' = Frontier /\ excused' = excused
    BY DEF world, Ends, LineAt, Frontier
  <1>3. Beyond(tail.ino, Frontier)'
    BY <1>1, <1>2 DEF Beyond
  <1> QED
    BY <1>3 DEF Reading

\* The reader is fed what there is up to an offset, and stands there.
LEMMA DrainStep ==
    ASSUME World, Drain, Fed, Saved, Shape(tail), Up, Reading, ~raced'
    PROVE  Fed' /\ Saved' /\ Shape(tail)' /\ Reading'
  <1>1. tail.pc = "drain" /\ UNCHANGED <<world, saved>>
    BY DEF Drain
  <1>2. /\ UNCHANGED <<file, log, old, lines>> /\ Newest' = Newest
    BY <1>1, StillFacts
  <1>3. /\ Placed(tail) /\ Reached(tail) /\ tail.ino \in Inode
    BY <1>1 DEF Reading, Placed
  <1>4. CASE ~Held
    <2>1. tail' = [tail EXCEPT !.pc = "poll"] /\ UNCHANGED history
      BY <1>4 DEF Drain
    <2>2. UNCHANGED <<next, skipped, excused, joined, flaw, raced>>
      BY <2>1 DEF history
    <2>3. /\ Shape(tail)' /\ tail'.pc = "poll" /\ tail'.ino = tail.ino /\ tail'.h = tail.h
          /\ tail'.pos = tail.pos /\ tail'.off = tail.off /\ tail'.half = tail.half
      BY <2>1 DEF Shape
    <2>4. LineAt(tail.ino, tail.off)' = LineAt(tail.ino, tail.off)
      BY <1>2, <2>3 DEF LineAt
    <2>5. Placed(tail)' /\ Reached(tail)'
      BY <1>2, <1>3, <2>2, <2>3, <2>4 DEF Placed, Reached, Gap
    <2>6. Reading'
      BY <1>1, <2>2, <2>3, <2>5, ReadingInFile
    <2>7. Fed' /\ next \in Nat
      BY <2>2 DEF Fed
    <2>8. Up'
      BY <2>3 DEF Up
    <2>9. Saved'
      BY <1>1, <2>2, <2>7, <2>8, SavedStays
    <2> QED
      BY <2>3, <2>6, <2>7, <2>9
  <1>5. CASE Held
    <2>1. PICK to \in {tail.pos} \cup tail.pos..file[tail.h].size :
              /\ Feed(Complete(tail.h, tail.pos, to), Odd(tail.pos) /\ ~tail.half)
              /\ \/ tail' = [Drained(tail, to) EXCEPT !.pc = "poll"]
                 \/ tail' = [Drained(tail, to) EXCEPT !.pc = "poll", !.h = None]
      BY <1>1, <1>5 DEF Drain
    <2>2. /\ tail.h = tail.ino /\ tail.off \in Nat /\ tail.pos \in Nat /\ tail.pos <= file[tail.ino].size
          /\ IF tail.half THEN tail.pos = tail.off + 1 /\ ~Odd(tail.off) ELSE tail.pos = tail.off
          /\ Odd(tail.off) => joined = LineAt(tail.ino, tail.off)
      BY <1>3, <1>5 DEF Placed, Held
    <2>3. to \in Nat /\ tail.pos <= to /\ to <= file[tail.ino].size
      BY <1>3, <2>1, <2>2, FileFacts
    <2>4. PICK a, b : a = LineAt(tail.ino, tail.pos) /\ b = LineAt(tail.ino, to)
      OBVIOUS
    <2>5. a \in Nat /\ b \in Nat /\ a <= b
      <3>1. Half(tail.pos) <= Half(to)
        BY <2>2, <2>3, HalfGrows
      <3>2. Half(tail.pos) \in Nat /\ Half(to) \in Nat /\ file[tail.ino].first \in Nat
        BY <1>3, <2>2, <2>3, HalfFacts, FileFacts
      <3> QED
        BY <2>4, <3>1, <3>2 DEF LineAt
    <2>6. a = LineAt(tail.ino, tail.off)
      <3>1. Half(tail.pos) = Half(tail.off)
        BY <2>2, HalfNext
      <3> QED
        BY <2>4, <3>1 DEF LineAt
    <2>7. PICK cut \in BOOLEAN : cut <=> Odd(tail.pos) /\ ~tail.half
      OBVIOUS
    <2>8. cut => a = joined
      BY <2>2, <2>6, <2>7
    <2>9. Feed(a..(b - 1), cut)
      <3>1. Complete(tail.h, tail.pos, to) = a..(b - 1)
        <4> DEFINE f == file[tail.h].first
                   p == tail.pos \div 2
                   q == to \div 2
        <4>1. a = f + p /\ b = f + q /\ f \in Nat /\ p \in Nat /\ q \in Nat
          BY <1>3, <2>2, <2>3, <2>4, FileFacts DEF LineAt, Half
        <4>2. Complete(tail.h, tail.pos, to) = (f + p)..(f + q - 1)
          BY DEF Complete
        <4> HIDE DEF f, p, q
        <4>3. f + q - 1 = b - 1
          BY <4>1
        <4> QED
          BY <4>1, <4>2, <4>3
      <3> QED
        BY <2>1, <2>7, <3>1 DEF Feed
    <2>10. next <= a /\ Gap(a)
      BY <1>3, <2>6 DEF Reached
    <2>11. /\ Fed' /\ UNCHANGED <<joined, raced, excused>>
           /\ next <= next' /\ next' <= b /\ next'..(b - 1) \subseteq excused'
      BY <2>5, <2>8, <2>9, <2>10, FeedFacts, Zenon
    <2>12. PICK d : d = Drained(tail, to)
      OBVIOUS
    <2>13. /\ Shape(d) /\ d.ino = tail.ino /\ d.h = tail.h /\ d.pos = to /\ d.off \in Nat /\ d.half \in BOOLEAN
           /\ LineAt(tail.ino, d.off) = b
           /\ IF d.half THEN to = d.off + 1 /\ ~Odd(d.off) ELSE to = d.off
           /\ Odd(d.off) => joined = LineAt(tail.ino, d.off)
      <3>1. CASE to = tail.pos
        <4>1. d = tail
          BY <2>12, <3>1 DEF Drained
        <4>2. b = a
          BY <2>4, <3>1
        <4> QED
          <5>1. Shape(d) /\ d.half \in BOOLEAN /\ LineAt(tail.ino, d.off) = b
            BY <1>3, <2>6, <4>1, <4>2 DEF Placed
          <5> QED
            BY <2>2, <3>1, <4>1, <5>1
      <3>2. CASE to # tail.pos
        <4>1. PICK o : o = to - (to % 2)
          OBVIOUS
        <4>2. d = [tail EXCEPT !.pos = to, !.off = o, !.half = Odd(to)]
          BY <2>12, <3>2, <4>1 DEF Drained
        <4>3. /\ Shape(d) /\ d.ino = tail.ino /\ d.h = tail.h /\ d.pos = to /\ d.off = o
              /\ d.half \in BOOLEAN /\ (d.half <=> Odd(to))
          BY <4>2 DEF Shape, Odd
        <4>4. o \in Nat /\ ~Odd(o) /\ Half(o) = Half(to) /\ (IF Odd(to) THEN to = o + 1 ELSE to = o)
          <5>1. o = 2 * Half(to) /\ Half(to) \in Nat /\ o \in Nat
            BY <2>3, <4>1 DEF Half
          <5>2. ~Odd(o) /\ Half(o) = Half(to)
            BY <5>1, HalfOf
          <5>3. IF Odd(to) THEN to = o + 1 ELSE to = o
            BY <2>3, <5>1, HalfFacts
          <5> QED
            BY <5>1, <5>2, <5>3
        <4>5. LineAt(tail.ino, o) = b
          BY <2>4, <4>4 DEF LineAt
        <4> QED
          BY <4>3, <4>4, <4>5
      <3> QED
        BY <3>1, <3>2
    <2>14. /\ Shape(tail)' /\ tail'.pc = "poll" /\ tail'.ino = tail.ino /\ tail'.h \in {None, tail.ino}
           /\ tail'.pos = to /\ tail'.off = d.off /\ tail'.half = d.half
      <3>1. \/ tail' = [d EXCEPT !.pc = "poll"]
            \/ tail' = [d EXCEPT !.pc = "poll", !.h = None]
        BY <2>1, <2>12
      <3>2. CASE tail' = [d EXCEPT !.pc = "poll"]
        BY <2>2, <2>13, <3>2 DEF Shape
      <3>3. CASE tail' = [d EXCEPT !.pc = "poll", !.h = None]
        <4>1. PICK e : e = [d EXCEPT !.pc = "poll"]
          OBVIOUS
        <4>2. /\ Shape(e) /\ e.pc = "poll" /\ e.ino = tail.ino
              /\ e.pos = to /\ e.off = d.off /\ e.half = d.half
          BY <2>13, <4>1 DEF Shape
        <4>3. tail' = [e EXCEPT !.h = None]
          BY <3>3, <4>1
        <4> QED
          BY <4>2, <4>3 DEF Shape
      <3> QED
        BY <3>1, <3>2, <3>3
    <2>15. LineAt(tail.ino, tail.off)' = b
      BY <1>2, <2>13, <2>14 DEF LineAt
    <2>16. Placed(tail)'
      <3>1. tail.ino \in Inode /\ tail.ino <= Newest' /\ to <= file'[tail.ino].size
        BY <1>2, <1>3, <2>3 DEF Placed
      <3>2. (Odd(tail.off) => joined = LineAt(tail.ino, tail.off))'
        BY <2>11, <2>13, <2>14, <2>15
      <3> QED
        BY <2>3, <2>13, <2>14, <3>1, <3>2 DEF Placed
    <2>17. Reached(tail)'
      BY <2>11, <2>15 DEF Reached, Gap
    <2>18. Reading'
      BY <1>1, <2>11, <2>14, <2>16, <2>17, ReadingInFile
    <2>19. next \in Nat /\ next' \in Nat
      BY <2>11 DEF Fed
    <2>20. Up'
      BY <2>14 DEF Up
    <2>21. Saved'
      BY <1>1, <2>11, <2>19, <2>20, SavedStays
    <2> QED
      BY <2>11, <2>14, <2>18, <2>21
  <1> QED
    BY <1>4, <1>5

\* The stat tells a rotated file by its inode.
LEMMA StatStep ==
    ASSUME World, Stat, Fed, Saved, Shape(tail), Up, Reading, ~raced'
    PROVE  Fed' /\ Saved' /\ Shape(tail)' /\ Reading'
  <1>1. tail.pc = "poll" /\ UNCHANGED <<world, saved, history>>
    BY DEF Stat
  <1>2. UNCHANGED <<file, log, old, lines, next, skipped, excused, joined, flaw, raced>> /\ Newest' = Newest
    BY <1>1, StillFacts DEF history
  <1>3. /\ Placed(tail) /\ Reached(tail) /\ tail.ino \in Inode /\ Beyond(tail.ino, Frontier)
    BY <1>1 DEF Reading, Placed
  <1>4. /\ Shape(tail)' /\ tail'.ino = tail.ino /\ tail'.h = tail.h /\ tail'.prev = tail.prev
        /\ tail'.pos = tail.pos /\ tail'.off = tail.off /\ tail'.half = tail.half
        /\ \/ tail'.pc = "drain"
           \/ tail'.pc = "open" /\ log # None
              /\ tail'.stat.ino = log /\ tail'.stat.rotated = IsRotated(tail)
    <2>1. \/ tail' = [tail EXCEPT !.pc = "drain"]
          \/ /\ log # None
             /\ tail' = [tail EXCEPT !.pc = "open", !.stat = [ino |-> log, rotated |-> IsRotated(tail)]]
      BY DEF Stat
    <2>2. CASE tail' = [tail EXCEPT !.pc = "drain"]
      BY <2>2 DEF Shape
    <2>3. CASE log # None
               /\ tail' = [tail EXCEPT !.pc = "open", !.stat = [ino |-> log, rotated |-> IsRotated(tail)]]
      <3>1. PICK e : e = [tail EXCEPT !.pc = "open"]
        OBVIOUS
      <3>2. PICK st : st = [ino |-> log, rotated |-> IsRotated(tail)]
        OBVIOUS
      <3>3. tail' = [e EXCEPT !.stat = st] /\ st.ino = log /\ st.rotated = IsRotated(tail)
        BY <2>3, <3>1, <3>2
      <3>4. /\ Shape(e) /\ e.pc = "open" /\ e.ino = tail.ino /\ e.h = tail.h /\ e.prev = tail.prev
            /\ e.pos = tail.pos /\ e.off = tail.off /\ e.half = tail.half
        BY <3>1 DEF Shape
      <3>5. /\ Shape(tail)' /\ tail'.pc = "open" /\ tail'.ino = tail.ino /\ tail'.h = tail.h
            /\ tail'.prev = tail.prev
            /\ tail'.pos = tail.pos /\ tail'.off = tail.off /\ tail'.half = tail.half /\ tail'.stat = st
        BY <3>3, <3>4 DEF Shape
      <3> QED
        BY <2>3, <3>3, <3>5
    <2> QED
      BY <2>1, <2>2, <2>3
  <1>5. LineAt(tail.ino, tail.off)' = LineAt(tail.ino, tail.off)
    BY <1>2, <1>4 DEF LineAt
  <1>6. Placed(tail)' /\ Reached(tail)'
    BY <1>2, <1>3, <1>4, <1>5 DEF Placed, Reached, Gap
  <1>7. Beyond(tail.ino, Frontier)'
    <2>1. Ends(tail.ino)' = Ends(tail.ino) /\ Frontier' = Frontier
      BY <1>2, <1>4 DEF Ends, LineAt, Frontier
    <2> QED
      BY <1>2, <1>3, <2>1 DEF Beyond
  <1>8. ASSUME log # None PROVE IsRotated(tail) \in BOOLEAN /\ (IsRotated(tail) <=> log # tail.ino)
    <2>1. IsRotated(tail) = (log # tail.ino \/ file[log].size < tail.off)
      BY DEF IsRotated
    <2>2. ASSUME log = tail.ino PROVE ~(file[log].size < tail.off)
      <3>1. /\ tail.off \in Nat /\ tail.pos \in Nat /\ tail.pos <= file[log].size /\ file[log].size \in Nat
            /\ IF tail.half THEN tail.pos = tail.off + 1 ELSE tail.pos = tail.off
        BY <1>3, <2>2, FileFacts DEF Placed
      <3> QED
        BY <3>1
    <2> QED
      BY <2>1, <2>2
  <1>9. (tail.pc = "open" =>
            /\ tail.stat.ino \in Inode /\ tail.stat.rotated \in BOOLEAN
            /\ tail.stat.rotated <=> tail.stat.ino # tail.ino)'
    <2> SUFFICES ASSUME tail'.pc = "open"
                 PROVE  /\ tail'.stat.ino \in Inode /\ tail'.stat.rotated \in BOOLEAN
                        /\ tail'.stat.rotated <=> tail'.stat.ino # tail'.ino
      BY <1>2
    <2>1. log # None /\ tail'.stat.ino = log /\ tail'.stat.rotated = IsRotated(tail)
      BY <1>4
    <2>2. log \in Inode
      BY <2>1, BeyondLog
    <2> QED
      BY <1>4, <1>8, <2>1, <2>2
  <1>10. Reading'
    <2>1. tail'.pc \in {"drain", "open"}
      BY <1>4
    <2> QED
      BY <1>6, <1>7, <1>9, <2>1 DEF Reading
  <1>11. Fed' /\ next \in Nat
    BY <1>2 DEF Fed
  <1>12. Up'
    BY <1>4 DEF Up
  <1>13. Saved'
    BY <1>1, <1>2, <1>11, <1>12, SavedStays
  <1> QED
    BY <1>4, <1>10, <1>11, <1>13

\* The new file is read from its beginning, the old one is finished first; a
\* file that is not a new one is opened where the reader stood.
LEMMA OpenStep ==
    ASSUME World, Open, Fed, Saved, Shape(tail), Up, Reading, ~raced'
    PROVE  Fed' /\ Saved' /\ Shape(tail)' /\ Reading'
  <1>1. /\ tail.pc = "open" /\ UNCHANGED <<world, saved, next, skipped, excused, joined, flaw>>
    BY DEF Open
  <1>2. UNCHANGED <<file, log, old, lines>> /\ Newest' = Newest /\ Frontier' = Frontier
    BY <1>1, StillFacts
  <1>3. /\ Placed(tail) /\ Reached(tail) /\ tail.ino \in Inode /\ Beyond(tail.ino, Frontier)
        /\ tail.stat.rotated <=> tail.stat.ino # tail.ino
    BY <1>1 DEF Reading, Placed
  <1>4. /\ tail.ino <= Newest /\ tail.h \in {None, tail.ino}
        /\ tail.off \in Nat /\ tail.pos \in Nat /\ tail.half \in BOOLEAN /\ tail.pos <= file[tail.ino].size
        /\ IF tail.half THEN tail.pos = tail.off + 1 /\ ~Odd(tail.off) ELSE tail.pos = tail.off
        /\ Odd(tail.off) => joined = LineAt(tail.ino, tail.off)
        /\ file[tail.ino].size \in Nat
    BY <1>3, FileFacts DEF Placed
  <1>5. Fed' /\ next \in Nat
    BY <1>1 DEF Fed
  <1>6. ASSUME Up' PROVE Saved'
    BY <1>1, <1>5, <1>6, SavedStays
  <1>7. CASE log = None
    <2>1. tail' = [tail EXCEPT !.pc = "drain", !.stat = NoStat]
      BY <1>7 DEF Open
    <2>2. PICK e : e = [tail EXCEPT !.pc = "drain"]
      OBVIOUS
    <2>3. /\ Shape(e) /\ e.pc = "drain" /\ e.ino = tail.ino /\ e.h = tail.h
          /\ e.pos = tail.pos /\ e.off = tail.off /\ e.half = tail.half
      BY <2>2 DEF Shape
    <2>4. tail' = [e EXCEPT !.stat = NoStat]
      BY <2>1, <2>2
    <2>5. /\ Shape(tail)' /\ tail'.pc = "drain" /\ tail'.ino = tail.ino /\ tail'.h = tail.h
          /\ tail'.pos = tail.pos /\ tail'.off = tail.off /\ tail'.half = tail.half
      BY <2>3, <2>4 DEF Shape
    <2>6. LineAt(tail.ino, tail.off)' = LineAt(tail.ino, tail.off)
      BY <1>2, <2>5 DEF LineAt
    <2>7. Placed(tail)' /\ Reached(tail)'
      BY <1>1, <1>2, <1>3, <2>5, <2>6 DEF Placed, Reached, Gap
    <2>8. Reading'
      BY <1>1, <2>5, <2>7, ReadingInFile
    <2> QED
      BY <1>5, <1>6, <2>5, <2>8 DEF Up
  <1>8. CASE log # None
    <2> DEFINE start == IF tail.stat.rotated THEN 0 ELSE tail.off
               r == [tail EXCEPT !.h = log, !.stat = NoStat]
               t == Reset(r, start, tail.stat.ino)
               p == [k \in DOMAIN NoPrev |-> tail[k]]
    <2>1. /\ tail' = IF tail.stat.rotated THEN [t EXCEPT !.pc = "finish", !.prev = p]
                     ELSE [t EXCEPT !.pc = "drain"]
          /\ raced' = (raced \/ log # tail.stat.ino)
      BY <1>8 DEF Open
    <2>2. log = tail.stat.ino /\ (tail.stat.rotated <=> log # tail.ino)
      BY <1>3, <2>1
    <2>3. /\ p.h = tail.h /\ p.pos = tail.pos /\ p.half = tail.half /\ p.off = tail.off /\ p.ino = tail.ino
      BY DEF NoPrev
    <2>4. Shape(r) /\ r.h = log
      <3>1. PICK e : e = [tail EXCEPT !.h = log]
        OBVIOUS
      <3>2. Shape(e) /\ e.h = log /\ r = [e EXCEPT !.stat = NoStat]
        BY <3>1 DEF Shape
      <3> HIDE DEF r
      <3> QED
        BY <3>2 DEF Shape
    <2> HIDE DEF r, start, p
    <2>5. Shape(t) /\ t.h = log /\ t.pos = start /\ t.off = start /\ t.half = FALSE /\ t.ino = log
      <3>1. t = Reset(r, start, log)
        BY <2>2
      <3> HIDE DEF t
      <3>2. t = [pc |-> r.pc, h |-> log, pos |-> start, half |-> FALSE, off |-> start, ino |-> log,
                 stat |-> r.stat, prev |-> r.prev]
        BY <2>4, <3>1 DEF Reset, Shape
      <3> QED
        BY <3>2 DEF Shape
    <2> HIDE DEF t
    <2>6. /\ Shape(tail)' /\ tail'.h = log /\ tail'.pos = start /\ tail'.off = start
          /\ tail'.half = FALSE /\ tail'.ino = log
          /\ IF log # tail.ino THEN tail'.pc = "finish" /\ tail'.prev = p ELSE tail'.pc = "drain"
      <3>1. CASE log # tail.ino
        <4>1. PICK e : e = [t EXCEPT !.pc = "finish"]
          OBVIOUS
        <4>2. /\ Shape(e) /\ e.h = log /\ e.pos = start /\ e.off = start /\ e.half = FALSE /\ e.ino = log
              /\ e.pc = "finish"
          BY <2>5, <4>1 DEF Shape
        <4>3. tail' = [e EXCEPT !.prev = p]
          BY <2>1, <2>2, <3>1, <4>1
        <4> QED
          BY <3>1, <4>2, <4>3 DEF Shape
      <3>2. CASE log = tail.ino
        <4>1. tail' = [t EXCEPT !.pc = "drain"]
          BY <2>1, <2>2, <3>2
        <4> QED
          BY <2>5, <3>2, <4>1 DEF Shape
      <3> QED
        BY <3>1, <3>2
    <2>7. /\ log \in Inode /\ Newest = log /\ Frontier = file[log].first /\ Beyond(log, Frontier)
      BY <1>8, BeyondLog
    <2>8. Up'
      <3>1. tail'.pc # "down"
        BY <2>6
      <3> QED
        BY <3>1 DEF Up
    <2>9. Beyond(tail.ino, Frontier)'
      <3>1. Ends(tail.ino)' = Ends(log)
        BY <1>2, <2>6 DEF Ends, LineAt
      <3> QED
        BY <1>1, <1>2, <2>7, <3>1 DEF Beyond
    <2>10. ~(tail'.pc = "open")
      BY <2>6
    <2>11. CASE log # tail.ino
      <3>1. start = 0 /\ tail'.pc = "finish" /\ tail'.prev = p
        BY <2>2, <2>6, <2>11 DEF start
      <3>2. ~Odd(0)
        BY HalfOf
      <3>3. Placed(tail)'
        <4>1. log \in Inode /\ log <= Newest' /\ 0 <= file'[log].size /\ 0 \in Nat /\ FALSE \in BOOLEAN
          BY <1>2, <2>7, FileFacts, InodeFacts
        <4> QED
          BY <2>6, <3>1, <3>2, <4>1 DEF Placed
      <3>4. /\ tail'.prev.h = tail.h /\ tail'.prev.pos = tail.pos /\ tail'.prev.half = tail.half
            /\ tail'.prev.off = tail.off /\ tail'.prev.ino = tail.ino
        BY <2>3, <3>1
      <3>5. LineAt(tail.prev.ino, tail.prev.off)' = LineAt(tail.ino, tail.off)
        BY <1>2, <3>4 DEF LineAt
      <3>6. Placed(tail.prev)'
        BY <1>1, <1>2, <1>3, <1>4, <3>4, <3>5 DEF Placed
      <3>7. Reached(tail.prev)'
        BY <1>1, <1>3, <3>5 DEF Reached, Gap
      <3>8. tail'.prev.ino < tail'.ino
        <4>1. tail.ino <= log /\ tail.ino # log
          BY <1>4, <2>7, <2>11
        <4>2. tail.ino \in Nat /\ log \in Nat
          BY <1>3, <2>7, InodeFacts
        <4>3. tail.ino < log
          BY <4>1, <4>2
        <4> QED
          BY <2>6, <3>4, <4>3
      <3>9. Beyond(tail.prev.ino, file[tail.ino].first)'
        <4>1. Ends(tail.prev.ino)' = Ends(tail.ino) /\ file'[tail'.ino].first = Frontier
          BY <1>2, <2>6, <2>7, <3>4 DEF Ends, LineAt
        <4> QED
          BY <1>1, <1>3, <4>1 DEF Beyond
      <3>10. Reading'
        BY <2>6, <2>9, <2>10, <3>1, <3>3, <3>6, <3>7, <3>8, <3>9 DEF Reading
      <3> QED
        BY <1>5, <1>6, <2>6, <2>8, <3>10
    <2>12. CASE log = tail.ino
      <3>1. start = tail.off /\ tail'.pc = "drain"
        BY <2>2, <2>6, <2>12 DEF start
      <3>2. LineAt(tail.ino, tail.off)' = LineAt(tail.ino, tail.off)
        BY <1>2, <2>6, <2>12, <3>1 DEF LineAt
      <3>3. Placed(tail)'
        <4>1. tail.off <= file'[log].size /\ FALSE \in BOOLEAN /\ log <= Newest'
          <5>1. tail.off <= tail.pos
            BY <1>4
          <5> QED
            BY <1>2, <1>4, <2>12, <5>1
        <4>2. (Odd(tail.off) => joined = LineAt(tail.ino, tail.off))'
          BY <1>1, <1>4, <2>6, <3>1, <3>2
        <4> QED
          BY <1>4, <2>6, <2>7, <3>1, <4>1, <4>2 DEF Placed
      <3>4. Reached(tail)'
        BY <1>1, <1>3, <3>2 DEF Reached, Gap
      <3>5. Reading'
        BY <2>9, <2>10, <3>1, <3>3, <3>4 DEF Reading
      <3> QED
        BY <1>5, <1>6, <2>6, <2>8, <3>5
    <2> QED
      BY <2>11, <2>12
  <1> QED
    BY <1>7, <1>8

\* What is left of the file before is fed, unless it is out of reach.
LEMMA FinishStep ==
    ASSUME World, Finish, Fed, Saved, Shape(tail), Up, Reading, ~raced'
    PROVE  Fed' /\ Saved' /\ Shape(tail)' /\ Reading'
  <1> DEFINE p == tail.prev
  <1>1. /\ tail.pc = "finish" /\ UNCHANGED <<world, saved>>
        /\ tail' = [tail EXCEPT !.pc = "drain", !.prev = NoPrev]
    BY DEF Finish
  <1>2. UNCHANGED <<file, log, old, lines>> /\ Newest' = Newest /\ Frontier' = Frontier
    BY <1>1, StillFacts
  <1>3. /\ Placed(tail) /\ tail.ino \in Inode /\ Beyond(tail.ino, Frontier)
        /\ Placed(p) /\ Reached(p) /\ p.ino < tail.ino /\ tail.off = 0 /\ tail.ino <= Newest
        /\ Beyond(p.ino, file[tail.ino].first)
    BY <1>1 DEF Reading, Placed
  <1>4. /\ p.ino \in Inode /\ p.ino <= Newest /\ p.h \in {None, p.ino} /\ p.off \in Nat /\ p.pos \in Nat
        /\ p.half \in BOOLEAN /\ p.pos <= file[p.ino].size /\ file[p.ino].size \in Nat
        /\ IF p.half THEN p.pos = p.off + 1 /\ ~Odd(p.off) ELSE p.pos = p.off
        /\ Odd(p.off) => joined = LineAt(p.ino, p.off)
    BY <1>3, FileFacts DEF Placed
  <1>5. p.off <= file[p.ino].size
    BY <1>4
  <1>6. /\ Shape(tail)' /\ tail'.pc = "drain" /\ tail'.ino = tail.ino /\ tail'.h = tail.h
        /\ tail'.pos = tail.pos /\ tail'.off = tail.off /\ tail'.half = tail.half
    <2>1. PICK e : e = [tail EXCEPT !.pc = "drain"]
      OBVIOUS
    <2>2. /\ Shape(e) /\ e.pc = "drain" /\ e.ino = tail.ino /\ e.h = tail.h
          /\ e.pos = tail.pos /\ e.off = tail.off /\ e.half = tail.half
      BY <2>1 DEF Shape
    <2>3. tail' = [e EXCEPT !.prev = NoPrev]
      BY <1>1, <2>1
    <2> QED
      BY <2>2, <2>3 DEF Shape
  <1>7. Up'
    BY <1>6 DEF Up
  <1>8. PICK a, b, c : /\ a = LineAt(p.ino, p.off) /\ b = Ends(p.ino) /\ c = file[tail.ino].first
    OBVIOUS
  <1>9. /\ a \in Nat /\ b \in Nat /\ c \in Nat /\ a <= b /\ b <= c /\ file[p.ino].first <= a
        /\ b <= lines + 1 /\ file[p.ino].first > 0 /\ file[p.ino].first \in Nat /\ lines \in Nat
    <2>1. file[p.ino].first <= a /\ a <= b
      BY <1>4, <1>5, <1>8, LineBound
    <2>2. a \in Nat /\ b \in Nat /\ c \in Nat /\ file[p.ino].first \in Nat
      BY <1>3, <1>4, <1>8, FileFacts
    <2>3. b <= c
      BY <1>3, <1>4, <1>8 DEF World
    <2>4. b <= lines + 1
      BY <1>4, <1>8, EndBound
    <2>5. file[p.ino].first > 0 /\ lines \in Nat
      BY <1>4 DEF World
    <2> QED
      BY <2>1, <2>2, <2>3, <2>4, <2>5
  <1>10. /\ next \in Nat /\ next <= a /\ next..(a - 1) \subseteq excused /\ b..(c - 1) \subseteq excused
         /\ skipped \subseteq excused /\ flaw = FALSE /\ joined \in Nat
    BY <1>3, <1>8 DEF Reached, Gap, Beyond, Fed
  <1>11. ASSUME Fed', UNCHANGED joined, excused \subseteq excused', next <= next', next' <= b,
                next'..(b - 1) \subseteq excused'
         PROVE  Fed' /\ Saved' /\ Shape(tail)' /\ Reading'
    <2>1. next' \in Nat
      BY <1>11 DEF Fed
    <2>2. Saved'
      BY <1>1, <1>7, <1>10, <1>11, <2>1, SavedStays
    <2>3. LineAt(tail.ino, tail.off)' = LineAt(tail.ino, tail.off) /\ Ends(tail.ino)' = Ends(tail.ino)
      BY <1>2, <1>6 DEF LineAt, Ends
    <2>4. Placed(tail)'
      BY <1>2, <1>3, <1>6, <1>11, <2>3 DEF Placed
    <2>5. Reached(tail)'
      <3>1. LineAt(tail.ino, tail.off) = c
        <4>1. Half(0) = 0
          BY HalfOf
        <4> QED
          BY <1>3, <1>8, <1>9, <4>1 DEF LineAt
      <3>2. next' <= c
        BY <1>9, <1>11, <2>1
      <3>3. b..(c - 1) \subseteq excused'
        BY <1>10, <1>11
      <3>4. next'..(c - 1) \subseteq excused'
        BY <1>9, <1>11, <2>1, <3>3, GapGrows
      <3> QED
        BY <2>3, <3>1, <3>2, <3>4 DEF Reached, Gap
    <2>6. Beyond(tail.ino, Frontier)'
      BY <1>2, <1>3, <1>11, <2>3 DEF Beyond
    <2>7. Reading'
      BY <1>6, <2>4, <2>5, <2>6 DEF Reading
    <2> QED
      BY <1>6, <1>11, <2>2, <2>7
  <1>12. CASE p.h # None
    <2>1. Feed(Complete(p.h, p.pos, file[p.h].size), Odd(p.pos) /\ ~p.half)
      BY <1>12 DEF Finish
    <2>2. p.h = p.ino
      BY <1>4, <1>12
    <2>3. PICK cut \in BOOLEAN : cut <=> Odd(p.pos) /\ ~p.half
      OBVIOUS
    <2>4. a = LineAt(p.ino, p.pos)
      <3>1. Half(p.pos) = Half(p.off)
        BY <1>4, HalfNext
      <3> QED
        BY <1>8, <3>1 DEF LineAt
    <2>5. cut => a = joined
      BY <1>4, <1>8, <2>3
    <2>6. Feed(a..(b - 1), cut)
      <3>1. Complete(p.h, p.pos, file[p.h].size) = a..(b - 1)
        <4> DEFINE f == file[p.h].first
                   m == p.pos \div 2
                   n == file[p.h].size \div 2
        <4>1. a = f + m /\ b = f + n /\ f \in Nat /\ m \in Nat /\ n \in Nat
          BY <1>4, <1>8, <2>2, <2>4, FileFacts DEF LineAt, Ends, Half
        <4>2. Complete(p.h, p.pos, file[p.h].size) = (f + m)..(f + n - 1)
          BY DEF Complete
        <4> HIDE DEF f, m, n
        <4>3. f + n - 1 = b - 1
          BY <4>1
        <4> QED
          BY <4>1, <4>2, <4>3
      <3> QED
        BY <2>1, <2>3, <3>1 DEF Feed
    <2>7. Gap(a)
      BY <1>10 DEF Gap
    <2>8. /\ Fed' /\ UNCHANGED <<joined, raced, excused>>
          /\ next <= next' /\ next' <= b /\ next'..(b - 1) \subseteq excused'
      BY <1>9, <1>10, <2>5, <2>6, <2>7, FeedFacts, Zenon
    <2> QED
      BY <1>11, <2>8
  <1>13. CASE p.h = None /\ p.ino = old
    <2>1. Feed(Rotated(p.ino, p.off), Odd(p.off))
      BY <1>13 DEF Finish
    <2>2. PICK cut \in BOOLEAN : cut <=> Odd(p.off)
      OBVIOUS
    <2>3. cut => a = joined
      BY <1>4, <1>8, <2>2
    <2>4. Feed(a..(b - 1), cut)
      <3>1. Rotated(p.ino, p.off) = Complete(p.ino, p.off, file[p.ino].size)
        BY <1>4, <1>5, <1>13, InodeFacts DEF Rotated
      <3>2. Complete(p.ino, p.off, file[p.ino].size) = a..(b - 1)
        <4> DEFINE f == file[p.ino].first
                   m == p.off \div 2
                   n == file[p.ino].size \div 2
        <4>1. a = f + m /\ b = f + n /\ f \in Nat /\ m \in Nat /\ n \in Nat
          BY <1>4, <1>8, FileFacts DEF LineAt, Ends, Half
        <4>2. Complete(p.ino, p.off, file[p.ino].size) = (f + m)..(f + n - 1)
          BY DEF Complete
        <4> HIDE DEF f, m, n
        <4>3. f + n - 1 = b - 1
          BY <4>1
        <4> QED
          BY <4>1, <4>2, <4>3
      <3> QED
        BY <2>1, <2>2, <3>1, <3>2 DEF Feed
    <2>5. Gap(a)
      BY <1>10 DEF Gap
    <2>6. /\ Fed' /\ UNCHANGED <<joined, raced, excused>>
          /\ next <= next' /\ next' <= b /\ next'..(b - 1) \subseteq excused'
      BY <1>9, <1>10, <2>3, <2>4, <2>5, FeedFacts, Zenon
    <2> QED
      BY <1>11, <2>6
  <1>14. CASE p.h = None /\ p.ino # old
    <2>1. /\ excused' = excused \cup Unread(p.ino, p.off)
          /\ UNCHANGED <<next, skipped, joined, flaw, raced>>
      BY <1>14 DEF Finish
    <2>2. a = file[p.ino].first + p.off \div 2 /\ b = file[p.ino].first + file[p.ino].size \div 2
      BY <1>8 DEF LineAt, Ends, Half
    <2>3. Unread(p.ino, p.off) = {l \in 1..lines : l >= a /\ l < b}
      BY <2>2 DEF Unread
    <2>4. a..(b - 1) \subseteq excused'
      <3> SUFFICES ASSUME NEW l \in a..(b - 1) PROVE l \in Unread(p.ino, p.off)
        BY <2>1
      <3> QED
        BY <1>9, <2>3
    <2>5. next'..(b - 1) \subseteq excused' /\ next' <= b
      <3>1. next..(a - 1) \subseteq excused'
        BY <1>10, <2>1
      <3>2. next..(b - 1) \subseteq excused'
        BY <1>9, <1>10, <2>4, <3>1, GapGrows
      <3> QED
        BY <1>9, <1>10, <2>1, <3>2
    <2>6. Fed'
      BY <1>10, <2>1 DEF Fed
    <2>7. next <= next' /\ excused \subseteq excused'
      BY <1>10, <2>1
    <2> QED
      BY <1>11, <2>1, <2>5, <2>6, <2>7
  <1> QED
    BY <1>12, <1>13, <1>14

\* What is saved is the position of the reader.
LEMMA SaveStep ==
    ASSUME World, Save, Fed, Shape(tail), Up, Reading
    PROVE  Fed' /\ Saved' /\ Shape(tail)' /\ Reading'
  <1>1. /\ saved' = Position /\ UNCHANGED <<world, tail, history>>
    BY DEF Save
  <1>2. /\ UNCHANGED <<file, log, old, lines, next, skipped, excused, joined, flaw, raced>>
        /\ saved'.off = tail.off /\ saved'.ino = tail.ino
    BY <1>1 DEF world, history, Position
  <1>3. Fed' /\ Shape(tail)' /\ Up'
    BY <1>1, <1>2 DEF Fed, Shape, Up
  <1>4. Reading'
    BY <1>1, <1>2 DEF Reading, Placed, Reached, Gap, Beyond, Ends, LineAt, Frontier, Newest
  <1>5. /\ tail.ino \in Inode /\ tail.ino <= Newest /\ tail.ino # None
        /\ tail.off \in Nat /\ tail.pos \in Nat /\ tail.pos <= file[tail.ino].size /\ file[tail.ino].size \in Nat
        /\ IF tail.half THEN tail.pos = tail.off + 1 ELSE tail.pos = tail.off
        /\ Odd(tail.off) => joined = LineAt(tail.ino, tail.off)
    BY FileFacts, InodeFacts DEF Reading, Placed
  <1>6. tail.off <= file[tail.ino].size
    BY <1>5
  <1>7. tail.off > 0 => Gap(LineAt(tail.ino, tail.off))
    <2>1. CASE tail.pc = "finish"
      BY <2>1 DEF Reading
    <2>2. CASE tail.pc # "finish"
      BY <2>2 DEF Reading, Reached
    <2> QED
      BY <2>1, <2>2
  <1>8. LineAt(saved.ino, saved.off)' = LineAt(tail.ino, tail.off) /\ Newest' = Newest
    BY <1>2 DEF LineAt, Newest
  <1>9. (saved.off > 0 =>
            /\ saved.ino # None /\ saved.off <= file[saved.ino].size
            /\ Odd(saved.off) => joined = LineAt(saved.ino, saved.off)
            /\ Gap(LineAt(saved.ino, saved.off))
            /\ ~Up => next <= LineAt(saved.ino, saved.off))'
    BY <1>2, <1>3, <1>5, <1>6, <1>7, <1>8 DEF Gap
  <1>10. Saved'
    BY <1>2, <1>5, <1>8, <1>9 DEF Saved
  <1> QED
    BY <1>3, <1>4, <1>10

\* After a crash the lines due are those from the saved position on.
LEMMA CrashStep ==
    ASSUME World, Crash, Fed, Saved
    PROVE  Fed' /\ Saved' /\ Shape(tail)' /\ ~Up'
  <1>1. /\ tail' = Down /\ UNCHANGED <<world, saved, skipped, excused, joined, flaw, raced>>
        /\ next' = IF saved.ino = None THEN next ELSE Min({next, file[saved.ino].first + saved.off \div 2})
    BY DEF Crash
  <1>2. UNCHANGED <<file, log, old, lines>> /\ Newest' = Newest
    BY <1>1, StillFacts
  <1>3. Shape(tail)' /\ ~Up'
    BY <1>1 DEF Shape, Down, Up
  <1>4. /\ next \in Nat /\ skipped \subseteq excused /\ flaw = FALSE /\ joined \in Nat
        /\ saved.off \in Nat /\ saved.ino \in Inode \cup {None}
    BY DEF Fed, Saved
  <1>5. PICK l : l = LineAt(saved.ino, saved.off)
    OBVIOUS
  <1>6. ASSUME saved.ino # None
        PROVE  next' \in Nat /\ next' <= next /\ next' <= l /\ l \in Nat /\ (next' = next \/ next' = l)
    <2>1. l \in Nat /\ l = file[saved.ino].first + saved.off \div 2
      BY <1>4, <1>5, <1>6, FileFacts DEF LineAt, Half
    <2>2. next' = Min({next, l})
      BY <1>1, <1>6, <2>1
    <2>3. \A m, n \in Nat : Min({m, n}) = IF m <= n THEN m ELSE n
      <3> SUFFICES ASSUME NEW m \in Nat, NEW n \in Nat PROVE Min({m, n}) = IF m <= n THEN m ELSE n
        OBVIOUS
      <3> DEFINE x == IF m <= n THEN m ELSE n
      <3>1. x \in {m, n} /\ \A y \in {m, n} : x <= y
        OBVIOUS
      <3>2. \A z \in {m, n} : (\A y \in {m, n} : z <= y) => z = x
        BY <3>1
      <3> QED
        BY <3>1, <3>2 DEF Min
    <2> QED
      BY <1>4, <2>1, <2>2, <2>3
  <1>7. next' \in Nat
    BY <1>1, <1>4, <1>6
  <1>8. Fed'
    BY <1>1, <1>4, <1>7 DEF Fed
  <1>9. LineAt(saved.ino, saved.off)' = l
    BY <1>1, <1>2, <1>5 DEF LineAt
  <1>10. /\ saved.ino # None => saved.ino <= Newest
         /\ saved.off > 0 =>
                /\ saved.ino # None /\ saved.off <= file[saved.ino].size
                /\ Odd(saved.off) => joined = l
                /\ next..(l - 1) \subseteq excused
    BY <1>5 DEF Saved, Gap
  <1>11. ASSUME saved.off > 0 PROVE next'..(l - 1) \subseteq excused /\ next' <= l
    <2>1. CASE next' = next
      BY <1>6, <1>10, <1>11, <2>1
    <2>2. CASE next' = l
      <3>1. l..(l - 1) = {}
        BY <1>6, <1>10, <1>11
      <3> QED
        BY <1>6, <1>10, <1>11, <2>2, <3>1
    <2> QED
      BY <1>6, <1>10, <1>11, <2>1, <2>2
  <1>12. (saved.off > 0 =>
            /\ saved.ino # None /\ saved.off <= file[saved.ino].size
            /\ Odd(saved.off) => joined = LineAt(saved.ino, saved.off)
            /\ Gap(LineAt(saved.ino, saved.off))
            /\ ~Up => next <= LineAt(saved.ino, saved.off))'
    BY <1>1, <1>2, <1>9, <1>10, <1>11 DEF Gap
  <1>13. Saved'
    BY <1>1, <1>2, <1>4, <1>10, <1>12 DEF Saved
  <1> QED
    BY <1>3, <1>8, <1>13

-----------------------------------------------------------------------------
(***************************************************************************)
(* The invariant.                                                          *)
(***************************************************************************)
\* No line is written, and the reader is down.
LEMMA InitIInv == Init => IInv
  <1> SUFFICES ASSUME Init PROVE IInv
    OBVIOUS
  <1>1. World
    BY InitWorld
  <1>2. /\ tail = Down /\ saved = [off |-> 0, ino |-> None]
        /\ next = 1 /\ skipped = {} /\ excused = {} /\ joined = 0 /\ flaw = FALSE /\ raced = FALSE
    BY DEF Init
  <1>3. Shape(tail) /\ ~Up
    BY <1>2 DEF Shape, Down, Up
  <1>4. Fed
    BY <1>2 DEF Fed
  <1>5. Saved
    BY <1>2 DEF Saved, None
  <1>6. FALSE \in BOOLEAN
    OBVIOUS
  <1> QED
    BY <1>1, <1>2, <1>3, <1>4, <1>5, <1>6 DEF IInv

\* Once a poll raced with a rotation it did.
LEMMA RacedStays ==
    ASSUME raced \in BOOLEAN, [Next]_vars
    PROVE  raced' \in BOOLEAN /\ (raced => raced')
  <1>1. ASSUME NEW S, NEW cut, Feed(S, cut) PROVE UNCHANGED raced
    BY <1>1 DEF Feed, history
  <1>2. CASE Auditd
    BY <1>2 DEF Auditd, Write, Rename, Create, history
  <1>3. CASE Run
    BY <1>1, <1>3 DEF Run, history
  <1>4. CASE Drain
    <2>1. UNCHANGED history \/ \E to : Feed(Complete(tail.h, tail.pos, to), Odd(tail.pos) /\ ~tail.half)
      BY <1>4 DEF Drain
    <2> QED
      BY <2>1 DEF Feed, history
  <1>5. CASE Open
    BY <1>5 DEF Open
  <1>6. CASE Finish
    <2>1. \/ UNCHANGED raced
          \/ Feed(Complete(tail.prev.h, tail.prev.pos, file[tail.prev.h].size),
                  Odd(tail.prev.pos) /\ ~tail.prev.half)
          \/ Feed(Rotated(tail.prev.ino, tail.prev.off), Odd(tail.prev.off))
      BY <1>6 DEF Finish
    <2> QED
      BY <2>1 DEF Feed, history
  <1>7. CASE Stat \/ Save \/ Crash \/ UNCHANGED vars
    BY <1>7 DEF Stat, Save, Crash, vars, history
  <1> QED
    BY <1>2, <1>3, <1>4, <1>5, <1>6, <1>7 DEF Next, Poll

\* Each step keeps it.
LEMMA StepIInv == IInv /\ [Next]_vars => IInv'
  <1> SUFFICES ASSUME IInv, [Next]_vars PROVE IInv'
    OBVIOUS
  <1>1. raced \in BOOLEAN /\ World
    BY DEF IInv
  <1>2. World' /\ raced' \in BOOLEAN
    BY <1>1, WorldStep, RacedStays
  <1>3. ASSUME ~raced' PROVE Fed' /\ Saved' /\ Shape(tail)' /\ (Up => Reading)'
    <2>1. ~raced
      BY <1>1, <1>3, RacedStays
    <2>2. Fed /\ Saved /\ Shape(tail) /\ (Up => Reading)
      BY <2>1 DEF IInv
    <2>3. CASE Auditd
      BY <1>1, <2>2, <2>3, AuditdStep
    <2>4. CASE Run
      BY <1>1, <1>3, <2>2, <2>4, RunStep
    <2>5. CASE Poll
      <3>1. Up /\ Reading
        BY <2>2, <2>5 DEF Poll, Drain, Stat, Open, Finish, Up
      <3>2. CASE Drain
        BY <1>1, <1>3, <2>2, <3>1, <3>2, DrainStep
      <3>3. CASE Stat
        BY <1>1, <1>3, <2>2, <3>1, <3>3, StatStep
      <3>4. CASE Open
        BY <1>1, <1>3, <2>2, <3>1, <3>4, OpenStep
      <3>5. CASE Finish
        BY <1>1, <1>3, <2>2, <3>1, <3>5, FinishStep
      <3> QED
        BY <2>5, <3>2, <3>3, <3>4, <3>5 DEF Poll
    <2>6. CASE Save
      <3>1. Up /\ Reading
        BY <2>2, <2>6 DEF Save
      <3> QED
        BY <1>1, <2>2, <2>6, <3>1, SaveStep
    <2>7. CASE Crash
      BY <1>1, <2>2, <2>7, CrashStep
    <2>8. CASE UNCHANGED vars
      <3>1. UNCHANGED <<file, log, old, lines, tail, saved, next, skipped, excused, joined, flaw, raced>>
        BY <2>8 DEF vars
      <3>2. Fed' /\ Shape(tail)'
        BY <2>2, <3>1 DEF Fed, Shape
      <3>3. Saved'
        BY <2>2, <3>1 DEF Saved, Gap, LineAt, Newest, Up
      <3>4. (Up => Reading)'
        BY <2>2, <3>1 DEF Up, Reading, Placed, Reached, Gap, Beyond, Ends, LineAt, Frontier, Newest
      <3> QED
        BY <3>2, <3>3, <3>4
    <2> QED
      BY <2>3, <2>4, <2>5, <2>6, <2>7, <2>8 DEF Next
  <1> QED
    BY <1>2, <1>3 DEF IInv

\* IInv holds in every state.
LEMMA TailInvariant == Spec => []IInv
  BY InitIInv, StepIInv, PTL DEF Spec

-----------------------------------------------------------------------------
(***************************************************************************)
(* No line of the audit log is passed over by FileTail, whatever rotations,*)
(* failed reads and restarts come between two polls, except lines out of   *)
(* its reach and those Run leaves out; unless a rotation fell between the  *)
(* stat and the open of reopenIfNeeded.                                    *)
(***************************************************************************)
THEOREM NoLineSkipped == Spec => []NothingSkipped
  <1>1. IInv => NothingSkipped
    BY DEF IInv, Fed, NothingSkipped
  <1> QED
    BY <1>1, TailInvariant, PTL

(***************************************************************************)
(* FileTail feeds the parser no line twice in a run of the daemon and cuts *)
(* none, however auditd cuts its writes and wherever a read stops; but for *)
(* that same race.                                                         *)
(***************************************************************************)
THEOREM NoLineCut == Spec => []LinesWhole
  <1>1. IInv => LinesWhole
    BY DEF IInv, Fed, LinesWhole
  <1> QED
    BY <1>1, TailInvariant, PTL
-----------------------------------------------------------------------------
(***************************************************************************)
(* The types of the tail: what the reader holds of files there are or      *)
(* were, and what it fed of lines that were written.                       *)
(***************************************************************************)
\* An inode the reader holds or remembers is the one of a file there was.
Known(i) == i = None \/ (i \in Inode /\ i <= Newest)

\* The types of the reader's state, after a race of a rotation with a poll too.
Typed ==
    /\ World /\ Shape(tail) /\ tail.pc \in {"down", "drain", "poll", "open", "finish"}
    /\ tail.off \in Nat /\ tail.pos \in Nat /\ tail.off <= tail.pos
    /\ tail.half \in BOOLEAN /\ (tail.half => Odd(tail.pos))
    /\ Known(tail.h) /\ Known(tail.ino) /\ Known(tail.stat.ino)
    /\ Known(tail.prev.h) /\ Known(tail.prev.ino) /\ tail.prev.pos \in Nat /\ tail.prev.off \in Nat
    /\ saved.off \in Nat /\ Known(saved.ino)
    /\ next \in 1..(lines + 1) /\ lines <= MaxLines

\* A range grows with its end.
LEMMA RangeGrows ==
    ASSUME NEW m \in Nat, NEW n \in Nat, m <= n, NEW x \in 1..(m + 1)
    PROVE  x \in 1..(n + 1)
OBVIOUS

\* What is fed ends with a line that is written.
LEMMA FedLines ==
    ASSUME lines \in Nat, next \in 1..(lines + 1), NEW a \in Nat, NEW b \in Nat, b <= lines + 1,
           NEW cut, Feed(a..(b - 1), cut)
    PROVE  next' \in 1..(lines + 1)
<1>1. CASE a >= b
  <2>1. a..(b - 1) = {}
    BY <1>1
  <2> QED
    BY <2>1 DEF Feed, history
<1>2. CASE a < b
  <2> DEFINE S == (a..(b - 1)) \cup {next - 1}
             m == IF b - 1 >= next - 1 THEN b - 1 ELSE next - 1
  <2>1. m \in S /\ \A y \in S : m >= y
    BY <1>2
  <2>2. S \subseteq Int
    OBVIOUS
  <2>3. a..(b - 1) # {}
    BY <1>2
  <2>4. next' = Max(S) + 1
    BY <2>3 DEF Feed
  <2> HIDE DEF S
  <2>5. Max(S) \in S /\ \A y \in S : Max(S) >= y
    BY <2>1 DEF Max
  <2>6. m \in Int /\ Max(S) \in Int /\ m <= Max(S) /\ Max(S) <= m
    <3> HIDE DEF m
    <3> QED
      BY <2>1, <2>2, <2>5
  <2>7. m \in 0..lines
    BY <1>2
  <2> HIDE DEF m
  <2> QED
    BY <2>4, <2>6, <2>7
<1> QED
  BY <1>1, <1>2

\* Lines read up to an offset that is not behind the end of the file are written.
LEMMA LinesWritten ==
    ASSUME Typed, NEW i \in Inode, i <= Newest, NEW m \in Nat, NEW n \in Nat, n <= file[i].size,
           NEW cut, Feed(Complete(i, m, n), cut)
    PROVE  next' \in 1..(lines + 1)
<1>1. LineAt(i, n) <= Ends(i) /\ Ends(i) <= lines + 1
  BY LineBound, EndBound DEF Typed
<1>2. /\ LineAt(i, m) \in Nat /\ LineAt(i, n) \in Nat /\ Ends(i) \in Nat /\ lines \in Nat
      /\ next \in 1..(lines + 1)
  BY FileFacts DEF Typed, World
<1>3. Complete(i, m, n) = LineAt(i, m)..(LineAt(i, n) - 1)
  <2>1. file[i].first \in Nat /\ Half(m) \in Nat /\ Half(n) \in Nat
    BY FileFacts, HalfFacts DEF Typed
  <2>2. Complete(i, m, n) = (file[i].first + Half(m))..(file[i].first + (Half(n) - 1))
    BY DEF Complete, Half
  <2> QED
    BY <2>1, <2>2 DEF LineAt
<1> DEFINE a == LineAt(i, m)
           b == LineAt(i, n)
<1> HIDE DEF a, b
<1>4. a \in Nat /\ b \in Nat /\ b <= lines + 1 /\ Feed(a..(b - 1), cut)
  BY <1>1, <1>2, <1>3 DEF a, b
<1> QED
  BY <1>2, <1>4, FedLines

\* The rest of a file that was rotated.
LEMMA RotatedWritten ==
    ASSUME Typed, NEW ino, NEW off \in Nat, NEW cut, Feed(Rotated(ino, off), cut)
    PROVE  next' \in 1..(lines + 1)
<1>1. CASE old # None /\ old = ino /\ file[old].size >= off
  <2>1. old \in Inode /\ old <= Newest /\ file[old].size \in Nat
    <3>1. old \in Inode
      BY <1>1 DEF Typed, World
    <3>2. old <= Newest
      BY <3>1, <1>1, InodeFacts DEF Typed, World, Newest
    <3> QED
      BY <3>1, <3>2, FileFacts DEF Typed
  <2>2. Feed(Complete(old, off, file[old].size), cut)
    BY <1>1 DEF Rotated
  <2> QED
    BY <2>1, <2>2, LinesWritten
<1>2. CASE ~(old # None /\ old = ino /\ file[old].size >= off)
  <2>1. UNCHANGED next
    BY <1>2 DEF Rotated, Feed, history
  <2> QED
    BY <2>1 DEF Typed
<1> QED
  BY <1>1, <1>2

\* The newest line of a file that ends in the middle of one.
LEMMA MidLineFacts ==
    ASSUME World, log # None
    PROVE  /\ log \in Inode /\ Newest = log /\ lines \in Nat /\ file[log].size \in Nat
           /\ MidLine(log) => lines > 0
<1>1. log \in Inode /\ Newest = log /\ lines \in Nat
  BY DEF World, Newest
<1>2. file[log].first > 0 /\ lines + 1 = Ends(log) + (IF MidLine(log) THEN 1 ELSE 0)
  BY <1>1, InodeFacts DEF World
<1>3. file[log].first \in Nat /\ file[log].size \in Nat /\ Ends(log) = file[log].first + Half(file[log].size)
  BY <1>1, FileFacts
<1>4. Half(file[log].size) \in Nat
  BY <1>3, HalfFacts
<1> QED
  BY <1>1, <1>2, <1>3, <1>4

\* The types hold in the beginning.
LEMMA InitTyped == Init => Typed
<1> SUFFICES ASSUME Init PROVE Typed
  OBVIOUS
<1>1. World
  BY InitWorld
<1>2. tail = Down /\ saved = [off |-> 0, ino |-> None] /\ next = 1 /\ lines = 0
  BY DEF Init
<1>3. MaxLines \in Nat
  BY TailAssumption
<1> QED
  BY <1>1, <1>2, <1>3 DEF Typed, Down, NoStat, NoPrev, Known, Shape

\* Every step keeps them, a read that fails half way and a restart too.
LEMMA TypedStep == Typed /\ [Next]_vars => Typed'
<1> SUFFICES ASSUME Typed, [Next]_vars PROVE Typed'
  OBVIOUS
<1>1. World /\ World'
  BY WorldStep DEF Typed
<1>2. ASSUME UNCHANGED world PROVE Newest' = Newest /\ lines' = lines /\ \A i : Known(i)' <=> Known(i)
  BY <1>2 DEF world, Newest, Known
<1>3. CASE Auditd
  <2>1. /\ UNCHANGED <<tail, saved, next>> /\ Newest \in Inode /\ Newest' \in Inode
        /\ Newest <= Newest'
    BY <1>1, <1>3, AuditdFacts
  <2>2. \A i \in Inode : i <= Newest => i <= Newest'
    BY <2>1, InodeFacts
  <2>3. lines \in Nat /\ lines' \in Nat /\ lines <= lines' /\ lines' <= MaxLines
    <3>1. lines \in Nat /\ lines' \in Nat /\ MaxLines \in Nat /\ lines <= MaxLines
      BY <1>1, TailAssumption DEF World, Typed
    <3>2. lines' = lines \/ (lines < MaxLines /\ lines' = lines + 1)
      <4>1. CASE Write
        BY <4>1 DEF Write
      <4>2. CASE Rename
        BY <4>2 DEF Rename
      <4>3. CASE Create
        BY <4>3 DEF Create
      <4> QED
        BY <1>3, <4>1, <4>2, <4>3 DEF Auditd
    <3> QED
      BY <3>1, <3>2
  <2>4. next' \in 1..(lines' + 1)
    <3>1. next' \in 1..(lines + 1)
      BY <2>1 DEF Typed
    <3> QED
      BY <3>1, <2>3, RangeGrows
  <2>5. ASSUME NEW i, Known(i) PROVE i = None \/ (i \in Inode /\ i <= Newest')
    BY <2>2, <2>5 DEF Known
  <2> QED
    BY <1>1, <2>1, <2>3, <2>4, <2>5 DEF Typed, Known, Shape
<1>4. CASE Run
  <2>1. log # None /\ UNCHANGED world /\ UNCHANGED saved
    BY <1>4 DEF Run
  <2>2. log \in Inode /\ Newest = log /\ lines \in Nat /\ file[log].size \in Nat
        /\ (MidLine(log) => lines > 0)
    BY <1>1, <2>1, MidLineFacts
  <2>3. PICK start \in Nat : tail' = Reset([Down EXCEPT !.pc = "drain", !.h = log], start, log)
    <3> DEFINE end == file[log].size
               start == IF Resumes THEN saved.off ELSE IF Missed THEN 0 ELSE end
    <3>1. start \in Nat
      BY <2>2 DEF Typed
    <3>2. tail' = Reset([Down EXCEPT !.pc = "drain", !.h = log], start, log)
      BY <1>4 DEF Run
    <3> QED
      BY <3>1, <3>2
  <2>4. tail' = [pc |-> "drain", h |-> log, pos |-> start, half |-> FALSE, off |-> start,
                 ino |-> log, stat |-> NoStat, prev |-> NoPrev]
    BY <2>3 DEF Reset, Down
  <2>5. next' \in 1..(lines + 1)
    <3>1. CASE saved.off = 0
      <4>1. next' = IF MidLine(log) THEN lines ELSE lines + 1
        BY <1>4, <3>1 DEF Run
      <4> QED
        BY <4>1, <2>2
    <3>2. CASE saved.off # 0 /\ saved.ino \in {log, old} /\ Missed
      <4>1. Feed(Rotated(saved.ino, saved.off), Odd(saved.off))
        BY <1>4, <3>2 DEF Run
      <4>2. saved.off \in Nat
        BY DEF Typed
      <4> QED
        BY <4>1, <4>2, RotatedWritten
    <3>3. CASE saved.off # 0 /\ ~(saved.ino \in {log, old} /\ Missed)
      <4>1. next' = next
        BY <1>4, <3>3 DEF Run, history
      <4> QED
        BY <4>1 DEF Typed
    <3> QED
      BY <3>1, <3>2, <3>3
  <2>6. log <= Newest
    BY <2>2, InodeFacts
  <2>7. lines' = lines /\ \A i : Known(i)' <=> Known(i)
    BY <1>2, <2>1
  <2>8. Known(log) /\ Known(None)
    BY <2>2, <2>6 DEF Known
  <2> QED
    <3>1. /\ tail'.pc = "drain" /\ tail'.h = log /\ tail'.pos = start /\ tail'.half = FALSE
          /\ tail'.off = start /\ tail'.ino = log /\ tail'.stat = NoStat /\ tail'.prev = NoPrev
          /\ Shape(tail')
      BY <2>4 DEF Shape
    <3>2. /\ NoStat.ino = None /\ NoPrev.h = None /\ NoPrev.ino = None /\ NoPrev.pos = 0
          /\ NoPrev.off = 0
      BY DEF NoStat, NoPrev
    <3> QED
      <4>1. saved' = saved /\ saved.off \in Nat /\ Known(saved.ino) /\ lines <= MaxLines
        BY <2>1 DEF Typed
      <4>2. tail'.off \in Nat /\ tail'.pos \in Nat /\ tail'.off <= tail'.pos
        BY <2>3, <3>1
      <4>3. /\ Known(tail'.h) /\ Known(tail'.ino) /\ Known(tail'.stat.ino)
            /\ Known(tail'.prev.h) /\ Known(tail'.prev.ino)
            /\ tail'.prev.pos \in Nat /\ tail'.prev.off \in Nat
        BY <2>8, <3>1, <3>2
      <4> QED
        BY <1>1, <2>5, <2>7, <3>1, <4>1, <4>2, <4>3 DEF Typed, Shape
<1>5. CASE Drain
  <2>1. UNCHANGED world /\ UNCHANGED saved
    BY <1>5 DEF Drain
  <2>2. lines' = lines /\ \A i : Known(i)' <=> Known(i)
    BY <1>2, <2>1
  <2>3. CASE ~Held
    <3>1. tail' = [tail EXCEPT !.pc = "poll"] /\ next' = next
      BY <1>5, <2>3 DEF Drain, history
    <3>2. /\ tail'.pc = "poll" /\ tail'.h = tail.h /\ tail'.pos = tail.pos /\ tail'.half = tail.half
          /\ tail'.off = tail.off /\ tail'.ino = tail.ino /\ tail'.stat = tail.stat
          /\ tail'.prev = tail.prev /\ Shape(tail')
      BY <3>1 DEF Typed, Shape
    <3> QED
      BY <1>1, <2>1, <2>2, <3>1, <3>2 DEF Typed, Shape, Known
  <2>4. CASE Held
    <3>1. PICK to \in {tail.pos} \cup tail.pos..file[tail.h].size :
             /\ Feed(Complete(tail.h, tail.pos, to), Odd(tail.pos) /\ ~tail.half)
             /\ \/ tail' = [Drained(tail, to) EXCEPT !.pc = "poll"]
                \/ tail' = [Drained(tail, to) EXCEPT !.pc = "poll", !.h = None]
      BY <1>5, <2>4 DEF Drain
    <3>2. tail.h \in Inode /\ tail.h <= Newest /\ file[tail.h].size \in Nat /\ tail.pos \in Nat
      BY <2>4, <1>1, FileFacts DEF Held, Typed, Known
    <3>3. to \in Nat /\ to >= tail.pos /\ (to = tail.pos \/ to <= file[tail.h].size)
      BY <3>1, <3>2
    <3>4. next' \in 1..(lines + 1)
      <4>1. CASE to <= file[tail.h].size
        BY <3>1, <3>2, <3>3, <4>1, LinesWritten
      <4>2. CASE to = tail.pos
        <5>1. Complete(tail.h, tail.pos, to) = {}
          <6> DEFINE f == file[tail.h].first
                     k == tail.pos \div 2
          <6>1. f \in Nat /\ k \in Nat
            BY <1>1, <3>2, FileFacts
          <6>2. Complete(tail.h, tail.pos, to) = (f + k)..(f + (k - 1))
            BY <4>2 DEF Complete
          <6> HIDE DEF f, k
          <6> QED
            BY <6>1, <6>2
        <5>2. next' = next
          BY <3>1, <5>1 DEF Feed, history
        <5> QED
          BY <5>2 DEF Typed
      <4> QED
        BY <3>3, <4>1, <4>2
    <3> DEFINE d == Drained(tail, to)
    <3>5. /\ Shape(d) /\ d.off \in Nat /\ d.pos \in Nat /\ d.off <= d.pos
          /\ d.half \in BOOLEAN /\ (d.half => Odd(d.pos))
          /\ d.h = tail.h /\ d.ino = tail.ino /\ d.stat = tail.stat /\ d.prev = tail.prev
      <4>1. CASE to = tail.pos
        BY <4>1 DEF Drained, Typed
      <4>2. CASE to # tail.pos
        <5>1. d = [tail EXCEPT !.pos = to, !.off = to - (to % 2), !.half = Odd(to)]
          BY <4>2 DEF Drained
        <5>2. to - (to % 2) \in Nat /\ to - (to % 2) <= to
          BY <3>3
        <5> HIDE DEF d
        <5>3. d = [pc |-> tail.pc, h |-> tail.h, pos |-> to, half |-> Odd(to),
                   off |-> to - (to % 2), ino |-> tail.ino, stat |-> tail.stat, prev |-> tail.prev]
          BY <5>1 DEF Typed, Shape
        <5> QED
          BY <3>3, <5>2, <5>3 DEF Shape, Odd
      <4> QED
        BY <4>1, <4>2
    <3> HIDE DEF d
    <3>6. tail' = [d EXCEPT !.pc = "poll"] \/ tail' = [d EXCEPT !.pc = "poll", !.h = None]
      BY <3>1 DEF d
    <3>7. /\ tail'.pc = "poll" /\ tail'.h \in {tail.h, None} /\ tail'.pos = d.pos /\ tail'.half = d.half
          /\ tail'.off = d.off /\ tail'.ino = tail.ino /\ tail'.stat = tail.stat
          /\ tail'.prev = tail.prev /\ Shape(tail')
      BY <3>5, <3>6 DEF Shape
    <3>8. Known(tail'.h)
      BY <3>7 DEF Typed, Known
    <3> QED
      BY <1>1, <2>1, <2>2, <3>4, <3>5, <3>7, <3>8 DEF Typed, Shape
  <2> QED
    BY <2>3, <2>4
<1>6. CASE Stat
  <2>1. UNCHANGED world /\ UNCHANGED <<saved, next>>
    BY <1>6 DEF Stat, history
  <2>2. lines' = lines /\ \A i : Known(i)' <=> Known(i)
    BY <1>2, <2>1
  <2>3. PICK st : /\ Known(st.ino)
                  /\ \/ tail' = [tail EXCEPT !.pc = "drain"] /\ st = tail.stat
                     \/ tail' = [tail EXCEPT !.pc = "open", !.stat = st]
    <3>1. CASE tail' = [tail EXCEPT !.pc = "drain"]
      BY <3>1 DEF Typed
    <3>2. CASE tail' # [tail EXCEPT !.pc = "drain"]
      <4> DEFINE st == [ino |-> log, rotated |-> IsRotated(tail)]
      <4>1. tail' = [tail EXCEPT !.pc = "open", !.stat = st] /\ log # None
        BY <1>6, <3>2 DEF Stat
      <4>2. log \in Inode /\ log <= Newest
        BY <1>1, <4>1, MidLineFacts, InodeFacts
      <4>3. Known(st.ino)
        BY <4>2 DEF Known
      <4> HIDE DEF st
      <4> QED
        BY <4>1, <4>3
    <3> QED
      BY <3>1, <3>2
  <2>4. /\ tail'.pc \in {"drain", "open"} /\ tail'.h = tail.h /\ tail'.pos = tail.pos
        /\ tail'.half = tail.half /\ tail'.off = tail.off /\ tail'.ino = tail.ino
        /\ tail'.stat = st /\ tail'.prev = tail.prev /\ Shape(tail')
    BY <2>3 DEF Typed, Shape
  <2> QED
    BY <1>1, <2>1, <2>2, <2>3, <2>4 DEF Typed, Shape
<1>7. CASE Open
  <2>1. UNCHANGED world /\ UNCHANGED <<saved, next>>
    BY <1>7 DEF Open
  <2>2. lines' = lines /\ \A i : Known(i)' <=> Known(i)
    BY <1>2, <2>1
  <2>3. CASE log = None
    <3>1. tail' = [tail EXCEPT !.pc = "drain", !.stat = NoStat]
      BY <1>7, <2>3 DEF Open
    <3>2. /\ tail'.pc = "drain" /\ tail'.h = tail.h /\ tail'.pos = tail.pos
          /\ tail'.half = tail.half /\ tail'.off = tail.off /\ tail'.ino = tail.ino
          /\ tail'.stat = NoStat /\ tail'.prev = tail.prev /\ Shape(tail')
      BY <3>1 DEF Typed, Shape
    <3>3. Known(NoStat.ino)
      BY DEF Known, NoStat
    <3> QED
      BY <1>1, <2>1, <2>2, <3>2, <3>3 DEF Typed, Shape
  <2>4. CASE log # None
    <3> DEFINE start == IF tail.stat.rotated THEN 0 ELSE tail.off
               t == Reset([tail EXCEPT !.h = log, !.stat = NoStat], start, tail.stat.ino)
               p == [k \in DOMAIN NoPrev |-> tail[k]]
    <3>1. tail' = [t EXCEPT !.pc = "finish", !.prev = p] \/ tail' = [t EXCEPT !.pc = "drain"]
      BY <1>7, <2>4 DEF Open
    <3>2. start \in Nat
      BY DEF Typed
    <3>3. p.h = tail.h /\ p.ino = tail.ino /\ p.pos = tail.pos /\ p.off = tail.off
      BY DEF NoPrev
    <3> HIDE DEF start
    <3>4. t = [pc |-> tail.pc, h |-> log, pos |-> start, half |-> FALSE, off |-> start,
               ino |-> tail.stat.ino, stat |-> NoStat, prev |-> tail.prev]
      <4> DEFINE e == [tail EXCEPT !.h = log, !.stat = NoStat]
      <4>1. e = [pc |-> tail.pc, h |-> log, pos |-> tail.pos, half |-> tail.half, off |-> tail.off,
                 ino |-> tail.ino, stat |-> NoStat, prev |-> tail.prev]
        <5>1. PICK d : d = [tail EXCEPT !.h = log]
          OBVIOUS
        <5>2. d = [pc |-> tail.pc, h |-> log, pos |-> tail.pos, half |-> tail.half,
                   off |-> tail.off, ino |-> tail.ino, stat |-> tail.stat, prev |-> tail.prev]
          BY <5>1 DEF Typed, Shape
        <5>3. e = [d EXCEPT !.stat = NoStat]
          BY <5>1
        <5> HIDE DEF e
        <5> QED
          BY <5>2, <5>3
      <4>2. t = [e EXCEPT !.pos = start, !.off = start, !.ino = tail.stat.ino, !.half = FALSE]
        BY DEF Reset
      <4> HIDE DEF e, t
      <4> QED
        BY <4>1, <4>2
    <3> HIDE DEF t, p
    <3>5. /\ tail'.pc \in {"finish", "drain"} /\ tail'.h = log /\ tail'.pos = start
          /\ tail'.half = FALSE /\ tail'.off = start /\ tail'.ino = tail.stat.ino
          /\ tail'.stat = NoStat /\ tail'.prev \in {p, tail.prev} /\ Shape(tail')
      <4>1. ASSUME NEW q, NEW pc,
                   tail' = [pc |-> pc, h |-> log, pos |-> start, half |-> FALSE, off |-> start,
                            ino |-> tail.stat.ino, stat |-> NoStat, prev |-> q],
                   pc \in {"finish", "drain"}, q \in {p, tail.prev}
            PROVE  /\ tail'.pc \in {"finish", "drain"} /\ tail'.h = log /\ tail'.pos = start
                   /\ tail'.half = FALSE /\ tail'.off = start /\ tail'.ino = tail.stat.ino
                   /\ tail'.stat = NoStat /\ tail'.prev \in {p, tail.prev} /\ Shape(tail')
        BY ONLY <4>1 DEF Shape
      <4>2. CASE tail' = [t EXCEPT !.pc = "finish", !.prev = p]
        BY <4>1, <4>2, <3>4
      <4>3. CASE tail' = [t EXCEPT !.pc = "drain"]
        BY <4>1, <4>3, <3>4
      <4> QED
        BY <3>1, <4>2, <4>3
    <3>6. Known(log) /\ Known(NoStat.ino)
      <4>1. log \in Inode /\ log <= Newest
        <5>1. log \in Inode /\ Newest = log
          BY <1>1, <2>4, MidLineFacts
        <5> QED
          BY <5>1, InodeFacts
      <4>2. NoStat.ino = None
        BY DEF NoStat
      <4> QED
        BY <4>1, <4>2 DEF Known
    <3>7. Known(tail'.prev.h) /\ Known(tail'.prev.ino) /\ tail'.prev.pos \in Nat
          /\ tail'.prev.off \in Nat
      BY <3>3, <3>5 DEF Typed
    <3> QED
      <4>1. Known(tail'.h) /\ Known(tail'.ino) /\ Known(tail'.stat.ino)
        BY <3>5, <3>6 DEF Typed
      <4>2. tail'.off \in Nat /\ tail'.pos \in Nat /\ tail'.off <= tail'.pos /\ tail'.half = FALSE
        BY <3>2, <3>5
      <4> QED
        BY <1>1, <2>1, <2>2, <3>5, <3>7, <4>1, <4>2 DEF Typed, Shape
  <2> QED
    BY <2>3, <2>4
<1>8. CASE Finish
  <2> DEFINE p == tail.prev
  <2>1. UNCHANGED world /\ UNCHANGED saved /\ tail' = [tail EXCEPT !.pc = "drain", !.prev = NoPrev]
    BY <1>8 DEF Finish
  <2>2. lines' = lines /\ \A i : Known(i)' <=> Known(i)
    BY <1>2, <2>1
  <2>3. next' \in 1..(lines + 1)
    <3>1. CASE p.h # None
      <4>1. Feed(Complete(p.h, p.pos, file[p.h].size), Odd(p.pos) /\ ~p.half)
        BY <1>8, <3>1 DEF Finish
      <4>2. p.h \in Inode /\ p.h <= Newest /\ file[p.h].size \in Nat /\ p.pos \in Nat
        BY <1>1, <3>1, FileFacts DEF Typed, Known
      <4> QED
        BY <4>1, <4>2, LinesWritten
    <3>2. CASE p.h = None /\ p.ino = old
      <4>1. Feed(Rotated(p.ino, p.off), Odd(p.off)) /\ p.off \in Nat
        BY <1>8, <3>2 DEF Finish, Typed
      <4> QED
        BY <4>1, RotatedWritten
    <3>3. CASE p.h = None /\ p.ino # old
      <4>1. next' = next
        BY <1>8, <3>3 DEF Finish
      <4> QED
        BY <4>1 DEF Typed
    <3> QED
      BY <3>1, <3>2, <3>3
  <2>4. /\ tail'.pc = "drain" /\ tail'.h = tail.h /\ tail'.pos = tail.pos
        /\ tail'.half = tail.half /\ tail'.off = tail.off /\ tail'.ino = tail.ino
        /\ tail'.stat = tail.stat /\ tail'.prev = NoPrev /\ Shape(tail')
    BY <2>1 DEF Typed, Shape
  <2>5. Known(NoPrev.h) /\ Known(NoPrev.ino) /\ NoPrev.pos \in Nat /\ NoPrev.off \in Nat
    BY DEF Known, NoPrev
  <2> QED
    BY <1>1, <2>1, <2>2, <2>3, <2>4, <2>5 DEF Typed, Shape
<1>9. CASE Save
  <2>1. UNCHANGED world /\ UNCHANGED <<tail, next>> /\ saved' = Position
    BY <1>9 DEF Save, history
  <2>2. lines' = lines /\ \A i : Known(i)' <=> Known(i)
    BY <1>2, <2>1
  <2>3. saved'.off = tail.off /\ saved'.ino = tail.ino
    BY <2>1 DEF Position
  <2> QED
    BY <1>1, <2>1, <2>2, <2>3 DEF Typed, Shape
<1>10. CASE Crash
  <2>1. UNCHANGED world /\ UNCHANGED saved /\ tail' = Down
    BY <1>10 DEF Crash
  <2>2. lines' = lines /\ \A i : Known(i)' <=> Known(i)
    BY <1>2, <2>1
  <2>3. next' \in 1..(lines + 1)
    <3>1. CASE saved.ino = None
      BY <1>10, <3>1 DEF Crash, Typed
    <3>2. CASE saved.ino # None
      <4> DEFINE l == file[saved.ino].first + saved.off \div 2
                 S == {next, l}
      <4>1. next' = Min(S)
        BY <1>10, <3>2 DEF Crash
      <4>2. saved.ino \in Inode /\ saved.ino <= Newest /\ saved.off \in Nat
        BY <3>2 DEF Typed, Known
      <4>3. file[saved.ino].first > 0 /\ file[saved.ino].first \in Nat
        BY <1>1, <4>2, FileFacts DEF World
      <4>4. l \in Nat /\ l > 0
        BY <4>2, <4>3
      <4>5. next \in Nat /\ next > 0 /\ next <= lines + 1 /\ lines \in Nat
        BY <1>1 DEF Typed, World
      <4> HIDE DEF l
      <4>6. Min(S) = IF next <= l THEN next ELSE l
        BY <4>4, <4>5 DEF Min
      <4> QED
        BY <4>1, <4>4, <4>5, <4>6
    <3> QED
      BY <3>1, <3>2
  <2> QED
    BY <1>1, <2>1, <2>2, <2>3 DEF Typed, Down, NoStat, NoPrev, Known, Shape
<1>11. CASE UNCHANGED vars
  BY <1>1, <1>2, <1>11 DEF vars, world, Typed, Shape, Known
<1> QED
  BY <1>3, <1>4, <1>5, <1>6, <1>7, <1>8, <1>9, <1>10, <1>11 DEF Next, Poll

\* A file has as many bytes as its lines take.
LEMMA TypedTypeOK == Typed => TypeOK
<1> SUFFICES ASSUME Typed PROVE TypeOK
  OBVIOUS
<1>1. World /\ lines \in Nat /\ lines <= MaxLines /\ MaxLines \in Nat
  BY TailAssumption DEF Typed, World
<1>2. ASSUME NEW i \in Inode
      PROVE  file[i].first \in 0..(MaxLines + 1) /\ file[i].size \in 0..(2 * MaxLines)
  <2>1. CASE i <= Newest
    <3>1. /\ file[i].first \in Nat /\ file[i].size \in Nat
          /\ Ends(i) = file[i].first + Half(file[i].size) /\ (MidLine(i) <=> Odd(file[i].size))
      BY <1>1, FileFacts
    <3>2. file[i].first > 0 /\ Newest \in Inode
      BY <1>1, <2>1 DEF World
    <3> DEFINE h == Half(file[i].size)
    <3>3. h \in Nat /\ (Odd(file[i].size) => file[i].size = 2 * h + 1)
          /\ (~Odd(file[i].size) => file[i].size = 2 * h)
      BY <3>1, HalfFacts
    <3>4. Ends(i) <= lines + 1
      BY <1>1, <2>1, EndBound
    <3>5. MidLine(i) => i = Newest
      BY <1>1, <2>1, <3>2, InodeFacts DEF World
    <3>6. MidLine(i) => Ends(i) + 1 = lines + 1
      BY <1>1, <3>5 DEF World
    <3> HIDE DEF h
    <3>7. Ends(i) = file[i].first + h
      BY <3>1 DEF h
    <3> QED
      BY <1>1, <3>1, <3>2, <3>3, <3>4, <3>6, <3>7
  <2>2. CASE ~(i <= Newest)
    BY <1>1, <2>2 DEF World, NoFile
  <2> QED
    BY <2>1, <2>2
<1>3. file \in [Inode -> [first : 0..(MaxLines + 1), size : 0..(2 * MaxLines)]]
  <2>1. file \in [Inode -> [first : Nat, size : Nat]]
    BY <1>1 DEF World
  <2> QED
    BY <2>1, <1>2
<1> QED
  BY <1>1, <1>3 DEF Typed, TypeOK, World

\* The files, the reader and its history hold values of their types, for any
\* number of lines, files, read errors and restarts, and whatever the reader took
\* a rotated file for: no file holds more than its lines, the offset is not ahead
\* of the position, and no line is due that was not written.
THEOREM TailStateTyped == Spec => []TypeOK
<1>1. Spec => []Typed
  BY InitTyped, TypedStep, PTL DEF Spec
<1> QED
  BY <1>1, TypedTypeOK, PTL
=============================================================================
