-------------------------- MODULE DisplayDriverProofs --------------------------
(***************************************************************************)
(* Proofs about DisplayDriver, for any digits, times and readings and any  *)
(* number of failing accesses: the types; that threads which do not        *)
(* overlap never write a digit in the place of another; and that, when no  *)
(* access fails either, every call leaves the display as it should be.     *)
(***************************************************************************)
EXTENDS DisplayDriver, SequenceTheorems, TLAPS

--------------------------------------------------------------------------------
(* The invariant.                                                          *)

\* The steps there are.
Orders ==
  ({"select", "on", "off", "time"} \X Positions) \cup ({"show"} \X (0..Blank))
    \cup ({"dmode"} \X Modes) \cup ({"position"} \X (0..3 \cup {None}))
    \cup ({"clear", "time?", "reading?", "blink?", "which?"} \X {0}) \cup ({"stopwatch?"} \X Readings)

\* Those that act on the digit that is selected.
Writes == {"show", "on", "off"}

\* What may be done with the digit at p: show what may be meant for it, or have
\* it blink or not.
Fits(p, x) ==
  /\ x[1] \in Writes
  /\ x[1] = "show" => x[2] \in Meant(p)
  /\ x[1] # "show" => x[2] = p

\* Every selection is followed by what is to be done with that digit, and
\* nothing is done with a digit but right after its selection.
Paired(s) ==
  \A i \in 1..Len(s) :
    /\ s[i][1] = "select" => i < Len(s) /\ Fits(s[i][2], s[i + 1])
    /\ s[i][1] \in Writes /\ i > 1 => s[i - 1][1] = "select"

\* A thread about to write a digit has selected the one it is meant for.
Aimed(t) == At(t, Writes) => Fits(selected, Head(todo[t]))

IInv ==
  /\ TypeOK
  /\ todo \in [Threads -> Seq(Orders)]
  /\ \A t \in Threads : Paired(todo[t])
  /\ serial => (\E t \in Threads : Idle(t)) /\ (\A t \in Threads : Aimed(t))
  /\ InPlace
--------------------------------------------------------------------------------
(* Sequences of steps.                                                     *)

\* What the operand of a step is.
LEMMA Operands ==
  ASSUME NEW x \in Orders
  PROVE  /\ x[1] \in {"select", "on", "off", "time"} => x[2] \in Positions
         /\ x[1] = "show" => x[2] \in 0..Blank
         /\ x[1] = "dmode" => x[2] \in Modes
         /\ x[1] = "position" => x[2] \in 0..3 \cup {None}
         /\ x[1] = "stopwatch?" => x[2] \in Readings
  BY DEF Orders

\* What a call has to do: it does not begin in the middle of a digit.
Block(s) == s \in Seq(Orders) /\ Paired(s) /\ (s # <<>> => s[1][1] \notin Writes)

LEMMA NoBlock == Block(<<>>)
  BY EmptySeq DEF Block, Paired

LEMMA OneBlock ==
  ASSUME NEW x \in Orders, x[1] \notin Writes, x[1] # "select"
  PROVE  Block(<<x>>)
<1> DEFINE s == <<x>>
<1>1. s \in Seq(Orders) /\ Len(s) = 1 /\ s[1] = x
  OBVIOUS
<1> HIDE DEF s
<1>2. \A i \in 1..Len(s) : i = 1
  BY <1>1
<1> QED
  BY <1>1, <1>2 DEF Block, Paired, s

LEMMA PairBlock ==
  ASSUME NEW p \in Positions, NEW y \in Orders, Fits(p, y)
  PROVE  Block(<<<<"select", p>>, y>>)
<1> DEFINE x == <<"select", p>>
           s == <<x, y>>
<1>1. x \in Orders /\ x[1] = "select" /\ x[2] = p
  BY DEF Orders
<1> HIDE DEF x
<1>2. s \in Seq(Orders) /\ Len(s) = 2 /\ s[1] = x /\ s[2] = y /\ s # <<>>
  BY <1>1
<1> HIDE DEF s
<1>3. \A i \in 1..Len(s) : i = 1 \/ i = 2
  BY <1>2
<1>4. "select" \notin Writes /\ y[1] \in Writes
  BY DEF Writes, Fits
<1>5. Block(s)
  BY <1>1, <1>2, <1>3, <1>4 DEF Block, Paired
<1> QED
  BY <1>5 DEF s, x

LEMMA BlockThenBlock ==
  ASSUME NEW s, NEW r, Block(s), Block(r)
  PROVE  Block(s \o r)
<1> DEFINE sr == s \o r
           m == Len(s)   n == Len(r)
<1>1. s \in Seq(Orders) /\ r \in Seq(Orders) /\ m \in Nat /\ n \in Nat
  BY DEF Block
<1>2. /\ sr \in Seq(Orders) /\ Len(sr) = m + n
      /\ \A i \in 1..(m + n) : sr[i] = IF i <= m THEN s[i] ELSE r[i - m]
  BY <1>1, ConcatProperties
<1>3. (n > 0 => r[1][1] \notin Writes) /\ (m > 0 => s[1][1] \notin Writes)
  BY <1>1 DEF Block
<1>4. /\ \A i \in 1..m : /\ s[i][1] = "select" => i < m /\ Fits(s[i][2], s[i + 1])
                         /\ s[i][1] \in Writes /\ i > 1 => s[i - 1][1] = "select"
      /\ \A i \in 1..n : /\ r[i][1] = "select" => i < n /\ Fits(r[i][2], r[i + 1])
                         /\ r[i][1] \in Writes /\ i > 1 => r[i - 1][1] = "select"
  BY DEF Block, Paired
<1> HIDE DEF sr, m, n
<1>5. ASSUME NEW i \in 1..(m + n)
      PROVE  /\ sr[i][1] = "select" => i < m + n /\ Fits(sr[i][2], sr[i + 1])
             /\ sr[i][1] \in Writes /\ i > 1 => sr[i - 1][1] = "select"
  <2>1. CASE i <= m
    <3>1. sr[i] = s[i] /\ (i < m => sr[i + 1] = s[i + 1]) /\ (i > 1 => sr[i - 1] = s[i - 1])
      BY <1>1, <1>2, <2>1
    <3>2. i \in 1..m /\ (i < m => i < m + n)
      BY <1>1, <2>1
    <3> QED
      BY <1>4, <3>1, <3>2
  <2>2. CASE i > m
    <3>1. /\ sr[i] = r[i - m] /\ i - m \in 1..n
          /\ i < m + n => sr[i + 1] = r[(i - m) + 1]
          /\ i - m > 1 => sr[i - 1] = r[(i - m) - 1]
      <4>1. \A j \in 1..(m + n) : j > m => sr[j] = r[j - m]
        BY <1>1, <1>2
      <4>2. sr[i] = r[i - m] /\ i - m \in 1..n
        BY <1>1, <2>2, <4>1
      <4>3. ASSUME i < m + n PROVE sr[i + 1] = r[(i - m) + 1]
        <5>1. i + 1 \in 1..(m + n) /\ i + 1 > m /\ (i + 1) - m = (i - m) + 1
          BY <1>1, <2>2, <4>3
        <5> QED
          BY <4>1, <5>1
      <4>4. ASSUME i - m > 1 PROVE sr[i - 1] = r[(i - m) - 1]
        <5>1. i - 1 \in 1..(m + n) /\ i - 1 > m /\ (i - 1) - m = (i - m) - 1
          BY <1>1, <2>2, <4>4
        <5> QED
          BY <4>1, <5>1
      <4> QED
        BY <4>2, <4>3, <4>4
    <3>2. sr[i][1] \in Writes => i - m > 1
      BY <1>1, <1>3, <2>2, <3>1
    <3> QED
      BY <1>1, <1>4, <2>2, <3>1, <3>2
  <2> QED
    BY <1>1, <2>1, <2>2
<1>6. Paired(sr)
  BY <1>2, <1>5 DEF Paired
<1>7. sr # <<>> => sr[1][1] \notin Writes
  <2> SUFFICES ASSUME sr # <<>> PROVE sr[1][1] \notin Writes
    OBVIOUS
  <2>1. m + n > 0
    BY <1>1, <1>2, EmptySeq
  <2>2. sr[1] = IF m > 0 THEN s[1] ELSE r[1]
    BY <1>1, <1>2, <2>1
  <2> QED
    BY <1>1, <1>3, <2>1, <2>2
<1> QED
  BY <1>2, <1>6, <1>7 DEF Block, sr

\* What is left when the first n steps are done.
LEMMA Left ==
  ASSUME NEW s \in Seq(Orders), Paired(s), NEW n \in 1..2, n <= Len(s)
  PROVE  LET r == SubSeq(s, n + 1, Len(s))
         IN  /\ r \in Seq(Orders) /\ Paired(r)
             /\ s[n][1] # "select" => Block(r)
             /\ s[n][1] = "select" => r # <<>> /\ Head(r) = r[1] /\ Fits(s[n][2], r[1])
<1> DEFINE r == SubSeq(s, n + 1, Len(s))
           m == Len(s)
<1>1. m \in Nat /\ n \in Nat /\ \A i \in (n + 1)..m : s[i] \in Orders
  BY ElementOfSeq
<1>2. /\ r \in Seq(Orders) /\ Len(r) = m - n
      /\ \A i \in 1..(m - n) : r[i] = s[n + i]
  <2>1. /\ r \in Seq(Orders) /\ Len(r) = IF n + 1 <= m THEN m - (n + 1) + 1 ELSE 0
        /\ \A i \in 1..(m - (n + 1) + 1) : r[i] = s[(n + 1) + i - 1]
    BY <1>1, SubSeqProperties
  <2> HIDE DEF r, m
  <2>2. m >= n
    BY DEF m
  <2> QED
    BY <1>1, <2>1, <2>2
<1>3. \A i \in 1..m : /\ s[i][1] = "select" => i < m /\ Fits(s[i][2], s[i + 1])
                      /\ s[i][1] \in Writes /\ i > 1 => s[i - 1][1] = "select"
  BY DEF Paired
<1>4. n <= m
  OBVIOUS
<1> HIDE DEF r, m
<1>5. ASSUME NEW i \in 1..(m - n)
      PROVE  /\ r[i][1] = "select" => i < m - n /\ Fits(r[i][2], r[i + 1])
             /\ r[i][1] \in Writes /\ i > 1 => r[i - 1][1] = "select"
  <2>1. /\ r[i] = s[n + i] /\ n + i \in 1..m
        /\ i < m - n => r[i + 1] = s[(n + i) + 1]
        /\ i > 1 => r[i - 1] = s[(n + i) - 1]
    <3>1. r[i] = s[n + i] /\ n + i \in 1..m
      BY <1>1, <1>2, <1>4
    <3>2. ASSUME i < m - n PROVE r[i + 1] = s[(n + i) + 1]
      <4>1. i + 1 \in 1..(m - n) /\ n + (i + 1) = (n + i) + 1
        BY <1>1, <3>2
      <4> QED
        BY <1>2, <4>1
    <3>3. ASSUME i > 1 PROVE r[i - 1] = s[(n + i) - 1]
      <4>1. i - 1 \in 1..(m - n) /\ n + (i - 1) = (n + i) - 1
        BY <1>1, <3>3
      <4> QED
        BY <1>2, <4>1
    <3> QED
      BY <3>1, <3>2, <3>3
  <2> QED
    BY <1>1, <1>3, <1>4, <2>1
<1>6. Paired(r)
  BY <1>2, <1>5 DEF Paired
<1>7. r # <<>> => m - n >= 1 /\ r[1] = s[n + 1]
  BY <1>1, <1>2, <1>4, EmptySeq
<1>8. n \in 1..m
  BY <1>1, <1>4
<1>9. s[n][1] # "select" => Block(r)
  <2> SUFFICES ASSUME s[n][1] # "select", r # <<>> PROVE r[1][1] \notin Writes
    BY <1>2, <1>6 DEF Block
  <2> DEFINE i == n + 1
  <2>1. i \in 1..m /\ i > 1 /\ i - 1 = n
    BY <1>1, <1>7
  <2> HIDE DEF i
  <2>2. s[i][1] \in Writes => s[n][1] = "select"
    BY <1>3, <2>1
  <2> QED
    BY <1>7, <2>2 DEF i
<1>10. s[n][1] = "select" => r # <<>> /\ Head(r) = r[1] /\ Fits(s[n][2], r[1])
  <2> SUFFICES ASSUME s[n][1] = "select" PROVE r # <<>> /\ Head(r) = r[1] /\ Fits(s[n][2], r[1])
    OBVIOUS
  <2>1. n < m /\ Fits(s[n][2], s[n + 1])
    BY <1>3, <1>8
  <2>2. Len(r) > 0 /\ r[1] = s[n + 1]
    BY <1>1, <1>2, <2>1
  <2>3. r # <<>> /\ Head(r) = r[1]
    BY <1>2, <2>2
  <2> QED
    BY <2>1, <2>2, <2>3
<1> QED
  BY <1>2, <1>6, <1>9, <1>10 DEF r, m
--------------------------------------------------------------------------------
(* What the calls have to do.                                              *)

LEMMA ReadingDigitMeant ==
  ASSUME NEW p \in 0..3, NEW n \in Readings
  PROVE  ReadingDigit(p, n) \in Meant(p) /\ ReadingDigit(p, n) \in 0..Blank
<1>1. n \in Nat
  BY DisplayAssumption
<1> DEFINE s == (n \div 1000) % 100
           c == (n % 1000) \div 10
<1>2. s \in 0..99 /\ c \in 0..99
  BY <1>1
<1>3. ReadingDigit(p, n) = CASE p = 3 -> s \div 10 [] p = 2 -> s % 10
                             [] p = 1 -> c \div 10 [] p = 0 -> c % 10
  BY DEF ReadingDigit
<1> HIDE DEF s, c
<1>4. s \div 10 \in 0..9 /\ s % 10 \in 0..9 /\ c \div 10 \in 0..9 /\ c % 10 \in 0..9
  BY <1>2
<1>5. ReadingDigit(p, n) \in 0..9
  BY <1>3, <1>4
<1> QED
  BY <1>5 DEF Meant, Blank

LEMMA TimeDigitMeant ==
  ASSUME NEW p \in 0..3, time \in [hour : Hours, minute : Minutes]
  PROVE  TimeDigit(p) \in Meant(p) /\ TimeDigit(p) \in 0..Blank
<1> DEFINE h == time.hour   m == time.minute
<1>1. h \in Hours /\ m \in Minutes /\ h \in 0..23 /\ m \in 0..59
  BY DisplayAssumption
<1>2. TimeDigit(p) = CASE p = 3 -> h \div 10 [] p = 2 -> h % 10
                       [] p = 1 -> m \div 10 [] p = 0 -> m % 10
  BY DEF TimeDigit
<1> HIDE DEF h, m
<1>3. h \div 10 \in 0..9 /\ h % 10 \in 0..9 /\ m \div 10 \in 0..9 /\ m % 10 \in 0..9
  BY <1>1
<1>4. TimeDigit(p) \in 0..9
  BY <1>2, <1>3
<1>5. TimeDigit(p) \in CASE p = 3 -> {x \div 10 : x \in Hours}   [] p = 2 -> {x % 10 : x \in Hours}
                         [] p = 1 -> {x \div 10 : x \in Minutes} [] p = 0 -> {x % 10 : x \in Minutes}
  BY <1>1, <1>2
<1> QED
  BY <1>4, <1>5 DEF Meant, Blank

LEMMA OnBlock == ASSUME NEW p, NEW s, p \in Positions => Block(s) PROVE Block(On(p, s))
  BY NoBlock DEF On

LEMMA SetDigitBlock ==
  ASSUME NEW p, NEW n \in 0..Blank, n \in Meant(p)
  PROVE  Block(SetDigit(p, n))
<1>1. <<"show", n>> \in Orders /\ <<"show", n>>[1] = "show" /\ <<"show", n>>[2] = n
  BY DEF Orders
<1> QED
  BY <1>1, PairBlock, OnBlock DEF SetDigit, Writes, Fits

LEMMA BlinkBlock ==
  ASSUME NEW p \in 0..3, NEW op \in {"on", "off"}
  PROVE  Block(On(p, <<<<"select", p>>, <<op, p>>>>)) /\ Block(<<<<"position", p>>>>)
<1>1. Block(On(p, <<<<"select", p>>, <<op, p>>>>))
  <2> SUFFICES ASSUME p \in Positions PROVE Block(<<<<"select", p>>, <<op, p>>>>)
    BY OnBlock
  <2>1. <<op, p>> \in Orders /\ Fits(p, <<op, p>>)
    BY DEF Orders, Writes, Fits
  <2> QED
    BY <2>1, PairBlock
<1>2. <<"position", p>> \in Orders /\ <<"position", p>>[1] = "position"
  BY DEF Orders
<1> QED
  BY <1>1, <1>2, OneBlock DEF Writes

LEMMA BlinkBlocks ==
  /\ \A p \in 0..3 : Block(Blink(p)) /\ Block(Still(p))
  /\ Block(BlinkNone)
<1>1. ASSUME NEW p \in 0..3 PROVE Block(Blink(p)) /\ Block(Still(p))
  BY BlinkBlock, BlockThenBlock DEF Blink, Still
<1>2. <<"position", None>> \in Orders /\ <<"position", None>>[1] = "position"
  BY DEF Orders
<1>3. Block(<<<<"position", None>>>>)
  BY <1>2, OneBlock DEF Writes
<1>4. Block(Still(0)) /\ Block(Still(1)) /\ Block(Still(2)) /\ Block(Still(3))
  BY <1>1
<1> QED
  BY <1>1, <1>3, <1>4, BlockThenBlock DEF BlinkNone

\* The steps that stand alone.
LEMMA StepBlocks ==
  /\ Block(Clear) /\ Block(UpdateTime) /\ Block(UpdateReading)
  /\ Block(<<<<"blink?", 0>>>>) /\ Block(<<<<"which?", 0>>>>) /\ Block(<<<<"position", 0>>>>)
  /\ \A n \in Readings : Block(UpdateStopwatch(n))
  /\ \A m \in Modes : Block(<<<<"dmode", m>>>>)
  /\ \A p \in Positions : Block(<<<<"time", p>>>>)
<1>1. ASSUME NEW op \in {"clear", "time?", "reading?", "blink?", "which?", "position"} PROVE Block(<<<<op, 0>>>>)
  <2>1. <<op, 0>> \in Orders /\ <<op, 0>>[1] = op
    BY DEF Orders
  <2> QED
    BY <2>1, OneBlock DEF Writes
<1>2. ASSUME NEW n \in Readings PROVE Block(<<<<"stopwatch?", n>>>>)
  <2>1. <<"stopwatch?", n>> \in Orders /\ <<"stopwatch?", n>>[1] = "stopwatch?"
    BY DEF Orders
  <2> QED
    BY <2>1, OneBlock DEF Writes
<1>3. ASSUME NEW m \in Modes PROVE Block(<<<<"dmode", m>>>>)
  <2>1. <<"dmode", m>> \in Orders /\ <<"dmode", m>>[1] = "dmode"
    BY DEF Orders
  <2> QED
    BY <2>1, OneBlock DEF Writes
<1>4. ASSUME NEW p \in Positions PROVE Block(<<<<"time", p>>>>)
  <2>1. <<"time", p>> \in Orders /\ <<"time", p>>[1] = "time"
    BY DEF Orders
  <2> QED
    BY <2>1, OneBlock DEF Writes
<1> QED
  BY <1>1, <1>2, <1>3, <1>4 DEF Clear, UpdateTime, UpdateReading, UpdateStopwatch

LEMMA DrawingBlocks ==
  /\ Block(Zeros) /\ Block(Test) /\ Block(TimeDigits)
  /\ \A n \in Readings : Block(ReadingDigits(n))
<1>1. ASSUME NEW p PROVE Block(SetDigit(p, 0)) /\ Block(SetDigit(p, 8))
  <2>1. 0 \in 0..Blank /\ 8 \in 0..Blank /\ 0 \in Meant(p) /\ 8 \in Meant(p)
    BY DEF Blank, Meant
  <2> QED
    BY <2>1, SetDigitBlock
<1>2. ASSUME NEW p PROVE Block(On(p, <<<<"time", p>>>>))
  BY StepBlocks, OnBlock
<1>3. ASSUME NEW n \in Readings, NEW p \in 0..3 PROVE Block(SetDigit(p, ReadingDigit(p, n)))
  BY ReadingDigitMeant, SetDigitBlock
<1>4. Block(Zeros) /\ Block(Test)
  BY <1>1, BlockThenBlock DEF Zeros, Test
<1>5. Block(TimeDigits)
  BY <1>2, BlockThenBlock DEF TimeDigits
<1>6. ASSUME NEW n \in Readings PROVE Block(ReadingDigits(n))
  <2>1. /\ Block(SetDigit(3, ReadingDigit(3, n))) /\ Block(SetDigit(2, ReadingDigit(2, n)))
        /\ Block(SetDigit(1, ReadingDigit(1, n))) /\ Block(SetDigit(0, ReadingDigit(0, n)))
    BY <1>3
  <2> QED
    BY <2>1, BlockThenBlock DEF ReadingDigits
<1> QED
  BY <1>4, <1>5, <1>6

LEMMA SetModeBlock == ASSUME NEW m \in Modes PROVE Block(SetMode(m))
<1>1. Block(<<<<"dmode", m>>>>) /\ Block(Clear) /\ Block(BlinkNone)
  BY StepBlocks, BlinkBlocks
<1>2. Block(CASE m = "NORMAL" -> <<>> [] m = "SETTING" -> <<<<"position", 0>>>> [] m = "STOPWATCH" -> Zeros)
  BY NoBlock, StepBlocks, DrawingBlocks DEF Modes
<1> QED
  BY <1>1, <1>2, BlockThenBlock DEF SetMode

\* Whatever the globals hold, the answer to a question is a block.
LEMMA AnswerBlock ==
  ASSUME TypeOK, NEW x \in Orders, x[1] \in Questions
  PROVE  Block(Answer(x[1], x[2]))
<1> DEFINE n == x[2]
<1>1. CASE x[1] = "time?"
  <2>1. Block(TimeDigits \o <<<<"blink?", 0>>>>)
    BY StepBlocks, DrawingBlocks, BlockThenBlock
  <2> QED
    BY <1>1, <2>1, NoBlock DEF Answer
<1>2. CASE x[1] = "stopwatch?"
  <2>1. n \in Readings
    BY <1>2, Operands
  <2> QED
    BY <1>2, <2>1, DrawingBlocks, NoBlock DEF Answer
<1>3. CASE x[1] = "time"
  <2>1. n \in 0..3
    BY <1>3, Operands, DisplayAssumption
  <2>2. TimeDigit(n) \in Meant(n) /\ TimeDigit(n) \in 0..Blank
    BY <2>1, TimeDigitMeant DEF TypeOK
  <2> QED
    BY <1>3, <2>2, SetDigitBlock DEF Answer
<1>4. CASE x[1] = "blink?"
  BY <1>4, StepBlocks, NoBlock DEF Answer
<1>5. CASE x[1] = "which?"
  <2>1. Block(Blink(2)) /\ Block(Blink(3)) /\ Block(Blink(0)) /\ Block(Blink(1))
    BY BlinkBlocks
  <2>2. Block(Blink(2) \o Blink(3)) /\ Block(Blink(0) \o Blink(1))
    BY <2>1, BlockThenBlock
  <2> QED
    BY <1>5, <2>2 DEF Answer
<1>6. CASE x[1] = "reading?"
  BY <1>6, StepBlocks DEF Answer, TypeOK
<1> QED
  BY <1>1, <1>2, <1>3, <1>4, <1>5, <1>6 DEF Questions
--------------------------------------------------------------------------------
(* The steps.                                                              *)

\* The programs of the threads, and what a thread is about to do.
Programs == /\ todo \in [Threads -> Seq(Orders)]
            /\ \A t \in Threads : Paired(todo[t])

LEMMA AtHead ==
  ASSUME Programs, NEW t \in Threads, todo[t] # <<>>
  PROVE  /\ todo[t] \in Seq(Orders) /\ Paired(todo[t]) /\ 1 <= Len(todo[t])
         /\ Head(todo[t]) = todo[t][1] /\ todo[t][1] \in Orders
<1>1. todo[t] \in Seq(Orders) /\ Paired(todo[t])
  BY DEF Programs
<1> QED
  BY <1>1, EmptySeq, ElementOfSeq

\* A thread whose program becomes a block is not about to write a digit.
LEMMA NewProgram ==
  ASSUME Programs, NEW t \in Threads, NEW s, Block(s), todo' = [todo EXCEPT ![t] = s]
  PROVE  Programs' /\ Aimed(t)'
<1>1. todo'[t] = s /\ \A u \in Threads \ {t} : todo'[u] = todo[u]
  BY DEF Programs
<1>2. Programs'
  BY <1>1 DEF Programs, Block
<1>3. s # <<>> => Head(s)[1] \notin Writes
  BY DEF Block
<1> QED
  BY <1>1, <1>2, <1>3 DEF Aimed, At

\* A thread goes on; it is not about to write a digit unless it has selected one.
LEMMA SkipEffect ==
  ASSUME Programs, NEW t \in Threads, NEW n \in 1..2, n <= Len(todo[t]), Skip(t, n)
  PROVE  /\ Programs'
         /\ todo[t][n][1] # "select" => Aimed(t)'
         /\ todo[t][n][1] = "select" /\ selected' = todo[t][n][2] => Aimed(t)'
<1> DEFINE r == SubSeq(todo[t], n + 1, Len(todo[t]))
<1>1. todo' = [todo EXCEPT ![t] = r]
  BY DEF Skip
<1>2. todo'[t] = r /\ \A u \in Threads \ {t} : todo'[u] = todo[u]
  BY <1>1 DEF Programs
<1>3. /\ r \in Seq(Orders) /\ Paired(r)
      /\ todo[t][n][1] # "select" => Block(r)
      /\ todo[t][n][1] = "select" => r # <<>> /\ Head(r) = r[1] /\ Fits(todo[t][n][2], r[1])
  BY Left DEF Programs
<1> HIDE DEF r
<1>4. Programs'
  BY <1>1, <1>2, <1>3 DEF Programs
<1>5. ASSUME todo[t][n][1] # "select" PROVE Aimed(t)'
  BY <1>1, <1>3, <1>5, NewProgram
<1>6. ASSUME todo[t][n][1] = "select", selected' = todo[t][n][2] PROVE Aimed(t)'
  BY <1>2, <1>3, <1>6 DEF Aimed
<1> QED
  BY <1>4, <1>5, <1>6

\* Giving up an access is either: going on, or the end of the program.
LEMMA GiveUpEffect ==
  ASSUME Programs, life \in {"starting", "ready", "up", "closed"},
         NEW t \in Threads, NEW n \in 1..2, n <= Len(todo[t]), GiveUp(t, n),
         todo[t][n][1] # "select"
  PROVE  Programs' /\ Aimed(t)' /\ life' \in {"starting", "ready", "up", "closed"}
<1>1. CASE Skip(t, n) /\ UNCHANGED life
  BY <1>1, SkipEffect
<1>2. CASE life' = "closed" /\ todo' = [todo EXCEPT ![t] = <<>>]
  BY <1>2, NewProgram, NoBlock
<1> QED
  BY <1>1, <1>2 DEF GiveUp

\* A step of a thread leaves it about to do what it may do, the types right and,
\* if it has the display to itself, the digits in their places.
LEMMA StepEffect ==
  ASSUME TypeOK, Programs, NEW t \in Threads, Step(t), Watch
  PROVE  /\ TypeOK' /\ Programs' /\ Aimed(t)' /\ todo[t] # <<>>
         /\ \A u \in Threads \ {t} : todo'[u] = todo[u]
         /\ InPlace /\ (serial => Aimed(t)) => InPlace'
<1> DEFINE x == todo[t][1]
           Lives == {"starting", "ready", "up", "closed"}
           Answered == Answer(x[1], x[2]) \o Tail(todo[t])
<1>1. todo[t] # <<>>
  BY DEF Step, Ask, Assign, Select, Show, SetBlink, ClearAll, ClearWhileWaiting, At
<1>2. /\ todo[t] \in Seq(Orders) /\ Paired(todo[t]) /\ 1 <= Len(todo[t])
      /\ Head(todo[t]) = x /\ x \in Orders /\ Operand(t) = x[2]
      /\ \A ops : At(t, ops) <=> x[1] \in ops
  BY <1>1, AtHead DEF At, Operand
<1>3. serial' \in BOOLEAN /\ (serial' => serial)
  BY DEF Watch
<1>4. Len(todo[t]) \in Nat /\ 1 \in 1..2 /\ 2 \in 1..2 /\ life \in Lives
  BY <1>2 DEF TypeOK
<1>5. faults \in 0..MaxFaults /\ (Fault => faults' \in 0..MaxFaults)
  BY DisplayAssumption DEF TypeOK, Fault
<1>6. ASSUME UNCHANGED digits PROVE InPlace => InPlace'
  BY <1>3, <1>6 DEF InPlace
<1>7. ASSUME NEW n \in 1..2, Skip(t, n) \/ GiveUp(t, n) PROVE \A u \in Threads \ {t} : todo'[u] = todo[u]
  BY <1>7 DEF Skip, GiveUp, Programs
<1> HIDE DEF x
<1>8. CASE Ask(t)
  <2>1. x[1] \in Questions /\ todo' = [todo EXCEPT ![t] = Answered] /\ UNCHANGED <<device, statics, clock, life, faults>>
    BY <1>2, <1>8 DEF Ask
  <2>2. Block(Answer(x[1], x[2]))
    BY <1>2, <2>1, AnswerBlock
  <2>3. x[1] # "select"
    BY <2>1 DEF Questions
  <2>4. Block(Tail(todo[t]))
    <3>1. Tail(todo[t]) = SubSeq(todo[t], 1 + 1, Len(todo[t]))
      BY <1>1, <1>2, TailIsSubSeq
    <3> QED
      BY <1>2, <1>4, <2>3, <3>1, Left DEF x
  <2>5. Block(Answered)
    BY <2>2, <2>4, BlockThenBlock
  <2> HIDE DEF Answered
  <2>6. Programs' /\ Aimed(t)'
    BY <2>1, <2>5, NewProgram
  <2>7. \A u \in Threads \ {t} : todo'[u] = todo[u]
    BY <2>1 DEF Programs
  <2>8. TypeOK'
    BY <1>3, <2>1 DEF TypeOK, device, statics, clock
  <2> QED
    BY <1>1, <1>6, <2>1, <2>6, <2>7, <2>8 DEF device
<1>9. CASE Assign(t)
  <2>1. /\ x[1] \in {"dmode", "position"} /\ Skip(t, 1) /\ UNCHANGED <<device, clock, life, faults>>
        /\ \/ x[1] = "dmode" /\ dmode' = x[2] /\ UNCHANGED bpos
           \/ x[1] = "position" /\ bpos' = x[2] /\ UNCHANGED dmode
    BY <1>2, <1>9 DEF Assign
  <2>2. Programs' /\ Aimed(t)'
    BY <1>2, <1>4, <2>1, SkipEffect DEF x
  <2>3. TypeOK'
    BY <1>2, <1>3, <2>1, Operands DEF TypeOK, device, clock
  <2> QED
    BY <1>1, <1>4, <1>6, <1>7, <2>1, <2>2, <2>3 DEF device
<1>10. CASE Select(t)
  <2>1. /\ x[1] = "select" /\ x[2] \in Positions
        /\ UNCHANGED <<digits, blinking, statics, clock>>
    BY <1>2, <1>10, Operands DEF Select
  <2>2. \/ Skip(t, 1) /\ selected' = x[2] /\ UNCHANGED <<life, faults>>
        \/ Fault /\ GiveUp(t, 2) /\ selected' \in {selected, x[2]}
    BY <1>2, <1>10 DEF Select
  <2>3. 2 <= Len(todo[t]) /\ todo[t][2][1] \in Writes
    BY <1>2, <1>4, <2>1 DEF Paired, Fits, x
  <2>4. todo[t][2][1] # "select"
    BY <2>3 DEF Writes
  <2>5. Programs' /\ Aimed(t)' /\ life' \in Lives
    <3>1. CASE Skip(t, 1) /\ selected' = x[2] /\ UNCHANGED <<life, faults>>
      BY <1>2, <1>4, <2>1, <3>1, SkipEffect DEF x
    <3>2. CASE GiveUp(t, 2)
      BY <1>4, <2>3, <2>4, <3>2, GiveUpEffect
    <3> QED
      BY <2>2, <3>1, <3>2
  <2>6. TypeOK'
    BY <1>3, <1>5, <2>1, <2>2, <2>5 DEF TypeOK, statics, clock
  <2> QED
    BY <1>1, <1>4, <1>6, <1>7, <2>1, <2>2, <2>5, <2>6
<1>11. CASE Show(t)
  <2> DEFINE shown == [digits EXCEPT ![selected] = x[2]]
  <2>1. /\ x[1] = "show" /\ x[2] \in 0..Blank
        /\ UNCHANGED <<selected, blinking, statics, clock>>
    BY <1>2, <1>11, Operands DEF Show
  <2>2. \/ Skip(t, 1) /\ digits' = shown /\ UNCHANGED <<life, faults>>
        \/ Fault /\ GiveUp(t, 1) /\ digits' \in {digits, shown}
    BY <1>2, <1>11 DEF Show
  <2>3. Programs' /\ Aimed(t)' /\ life' \in Lives
    BY <1>2, <1>4, <2>1, <2>2, SkipEffect, GiveUpEffect DEF x
  <2>4. shown \in [Positions -> 0..Blank]
    BY <2>1 DEF TypeOK
  <2>5. TypeOK'
    BY <1>3, <1>5, <2>1, <2>2, <2>3, <2>4 DEF TypeOK, statics, clock
  <2>6. ASSUME InPlace, serial => Aimed(t), serial' PROVE \A p \in Positions : digits'[p] \in Meant(p)
    <3>1. x[2] \in Meant(selected)
      BY <1>2, <1>3, <2>1, <2>6 DEF Aimed, Writes, Fits
    <3>2. \A p \in Positions : digits[p] \in Meant(p) /\ shown[p] \in Meant(p)
      BY <1>3, <2>6, <3>1 DEF InPlace, TypeOK
    <3> QED
      BY <2>2, <3>2
  <2> QED
    BY <1>1, <1>4, <1>7, <2>2, <2>3, <2>5, <2>6 DEF InPlace
<1>12. CASE SetBlink(t)
  <2> DEFINE set == IF At(t, {"on"}) THEN blinking \cup {selected} ELSE blinking \ {selected}
  <2>1. x[1] \in {"on", "off"} /\ UNCHANGED <<selected, digits, statics, clock>>
    BY <1>2, <1>12 DEF SetBlink
  <2>2. \/ Skip(t, 1) /\ blinking' = set /\ UNCHANGED <<life, faults>>
        \/ Fault /\ GiveUp(t, 1) /\ blinking' \in {blinking, set}
    BY <1>12 DEF SetBlink
  <2>3. Programs' /\ Aimed(t)' /\ life' \in Lives
    BY <1>2, <1>4, <2>1, <2>2, SkipEffect, GiveUpEffect DEF x
  <2>4. TypeOK'
    BY <1>3, <1>5, <2>1, <2>2, <2>3 DEF TypeOK, statics, clock
  <2> QED
    BY <1>1, <1>4, <1>6, <1>7, <2>1, <2>2, <2>3, <2>4
<1>13. ASSUME digits' \in {digits, AllBlank} PROVE (digits' \in [Positions -> 0..Blank]) /\ (InPlace => InPlace')
  <2>1. AllBlank \in [Positions -> 0..Blank] /\ \A p \in Positions : AllBlank[p] \in Meant(p)
    BY DEF AllBlank, Blank, Meant
  <2> QED
    BY <1>3, <1>13, <2>1 DEF TypeOK, InPlace
<1>14. CASE ClearAll(t)
  <2>1. x[1] = "clear" /\ UNCHANGED <<selected, blinking, statics, clock>> /\ digits' \in {digits, AllBlank}
    BY <1>2, <1>14 DEF ClearAll
  <2>2. \/ Skip(t, 1) /\ UNCHANGED <<life, faults>>
        \/ Fault /\ GiveUp(t, 1)
    BY <1>14 DEF ClearAll
  <2>3. Programs' /\ Aimed(t)' /\ life' \in Lives
    BY <1>2, <1>4, <2>1, <2>2, SkipEffect, GiveUpEffect DEF x
  <2>4. TypeOK'
    BY <1>3, <1>5, <1>13, <2>1, <2>2, <2>3 DEF TypeOK, statics, clock
  <2> QED
    BY <1>1, <1>4, <1>7, <1>13, <2>1, <2>2, <2>3, <2>4
<1>15. CASE ClearWhileWaiting(t)
  <2>1. /\ x[1] \in {"select", "clear"} /\ Fault /\ digits' = AllBlank
        /\ UNCHANGED <<selected, blinking, statics, clock, todo, life>>
    BY <1>2, <1>15 DEF ClearWhileWaiting
  <2>2. Programs' /\ Aimed(t)'
    BY <1>2, <2>1 DEF Programs, Aimed, At, Writes, x
  <2>3. TypeOK'
    BY <1>3, <1>5, <1>13, <2>1 DEF TypeOK, statics, clock
  <2> QED
    BY <1>1, <1>13, <2>1, <2>2, <2>3
<1> QED
  BY <1>8, <1>9, <1>10, <1>11, <1>12, <1>14, <1>15 DEF Step

\* What a call, or the start, leaves alone.
Starts(t) == \E s : Block(s) /\ todo' = [todo EXCEPT ![t] = s]

\* A call of the clock driver gives an idle thread a program, and no more.
LEMMA CallEffect ==
  ASSUME TypeOK, Programs, Watch,
         \/ Start \/ Increment \/ StopwatchKey \/ Refresh \/ Close
         \/ \E m \in Modes : ChangeMode(m)
  PROVE  /\ TypeOK' /\ UNCHANGED device
         /\ todo' = todo \/ \E t \in Threads : Starts(t)
<1> USE DEF Threads
<1>1. serial' \in BOOLEAN
  BY DEF Watch
<1>2. ASSUME NEW t \in Threads, NEW s, Block(s), Call(t, s) PROVE Starts(t) /\ UNCHANGED <<device, statics, faults>>
  BY <1>2 DEF Call, Starts
<1>3. CASE Start
  <2>1. todo' = todo \/ Starts("main")
    BY <1>3, StepBlocks DEF Start, Starts
  <2>2. life' \in {"ready", "up"} /\ UNCHANGED <<device, statics, clock, faults>>
    BY <1>3 DEF Start
  <2> QED
    BY <1>1, <2>1, <2>2 DEF TypeOK, device, statics, clock
<1>4. CASE \E m \in Modes : ChangeMode(m)
  <2>1. PICK m \in Modes : ChangeMode(m)
    BY <1>4
  <2> DEFINE then == CASE m = "NORMAL"    -> UpdateTime
                       [] m = "SETTING"   -> <<>>
                       [] m = "STOPWATCH" -> UpdateReading
  <2>2. Block(then)
    BY NoBlock, StepBlocks DEF TypeOK, Modes
  <2>3. Call("main", SetMode(m) \o then)
    BY <2>1 DEF ChangeMode
  <2>4. Block(SetMode(m) \o then)
    BY <2>2, SetModeBlock, BlockThenBlock
  <2> HIDE DEF then
  <2>5. Starts("main") /\ UNCHANGED <<device, statics, faults>>
    BY <1>2, <2>3, <2>4
  <2>6. mode' \in Modes /\ time' \in [hour : Hours, minute : Minutes] /\ UNCHANGED <<reading, life>>
    BY <2>1 DEF ChangeMode, TypeOK
  <2> QED
    BY <1>1, <2>5, <2>6 DEF TypeOK, device, statics
<1>5. CASE Increment
  <2>1. Starts("main") /\ UNCHANGED <<device, statics, faults>>
    BY <1>2, <1>5, StepBlocks DEF Increment
  <2>2. time' \in [hour : Hours, minute : Minutes] /\ UNCHANGED <<mode, reading, life>>
    BY <1>5 DEF Increment, TypeOK
  <2> QED
    BY <1>1, <2>1, <2>2 DEF TypeOK, device, statics
<1>6. CASE StopwatchKey
  <2>1. PICK n \in {reading, 0} : reading' = n /\ Call("main", UpdateStopwatch(n))
    BY <1>6 DEF StopwatchKey
  <2>2. n \in Readings
    BY DisplayAssumption DEF TypeOK
  <2>3. Starts("main") /\ UNCHANGED <<device, statics, faults>>
    BY <1>2, <2>1, <2>2, StepBlocks
  <2>4. UNCHANGED <<mode, time, life>>
    BY <1>6 DEF StopwatchKey
  <2> QED
    BY <1>1, <2>1, <2>2, <2>3, <2>4 DEF TypeOK, device, statics
<1>7. CASE Refresh
  <2>1. PICK s : Block(s) /\ Call("timer", s)
    BY <1>7, StepBlocks DEF Refresh
  <2>2. Starts("timer") /\ UNCHANGED <<device, statics, faults>>
    BY <1>2, <2>1
  <2>3. time' \in [hour : Hours, minute : Minutes] /\ reading' \in Readings /\ UNCHANGED <<mode, life>>
    BY <1>7 DEF Refresh, TypeOK
  <2> QED
    BY <1>1, <2>2, <2>3 DEF TypeOK, device, statics
<1>8. CASE Close
  <2>1. Starts("main") /\ UNCHANGED <<device, statics, faults>>
    BY <1>2, <1>8, StepBlocks DEF Close
  <2>2. life' = "closed" /\ UNCHANGED clock
    BY <1>8 DEF Close
  <2> QED
    BY <1>1, <2>1, <2>2 DEF TypeOK, device, statics, clock
<1> QED
  BY <1>3, <1>4, <1>5, <1>6, <1>7, <1>8

LEMMA Initially == ASSUME Init PROVE IInv
<1>1. Block(Clear \o Test \o Clear)
  BY StepBlocks, DrawingBlocks, BlockThenBlock
<1>2. Programs /\ \A t \in Threads : Aimed(t)
  <2> DEFINE s == Clear \o Test \o Clear
  <2>1. todo = [main |-> s, timer |-> <<>>]
    BY DEF Init
  <2>2. Block(s) /\ Block(<<>>)
    BY <1>1, NoBlock
  <2> HIDE DEF s
  <2>3. todo["main"] = s /\ todo["timer"] = <<>> /\ todo = [t \in Threads |-> todo[t]]
    BY <2>1 DEF Threads
  <2>4. \A t \in Threads : Block(todo[t])
    BY <2>2, <2>3 DEF Threads
  <2> QED
    BY <2>3, <2>4 DEF Programs, Aimed, At, Block, Writes
<1>3. TypeOK
  BY DisplayAssumption DEF Init, TypeOK, Modes, Blank
<1>4. InPlace
  BY DEF Init, InPlace, Meant
<1>5. Idle("timer")
  BY DEF Init, Idle
<1> QED
  BY <1>2, <1>3, <1>4, <1>5 DEF IInv, Programs, Threads

LEMMA Inductive == ASSUME IInv, [Next]_vars PROVE IInv'
<1>1. /\ TypeOK /\ Programs /\ InPlace
      /\ serial => (\E t \in Threads : Idle(t)) /\ (\A t \in Threads : Aimed(t))
  BY DEF IInv, Programs
<1>2. ASSUME Watch PROVE serial' => serial /\ \E t \in Threads : Idle(t)'
  BY <1>2 DEF Watch, Idle
<1>3. ASSUME NEW t \in Threads, Step(t), Watch PROVE IInv'
  <2>1. /\ TypeOK' /\ Programs' /\ Aimed(t)' /\ todo[t] # <<>> /\ InPlace'
        /\ \A u \in Threads \ {t} : todo'[u] = todo[u]
    BY <1>1, <1>3, StepEffect
  <2>2. ASSUME serial', NEW u \in Threads \ {t} PROVE Aimed(u)'
    <3>1. todo[u] = <<>>
      BY <1>1, <1>2, <1>3, <2>1, <2>2 DEF Threads, Idle
    <3> QED
      BY <2>1, <3>1 DEF Aimed, At
  <2> QED
    BY <1>2, <1>3, <2>1, <2>2 DEF IInv, Programs
<1>4. ASSUME \/ Start \/ Increment \/ StopwatchKey \/ Refresh \/ Close
             \/ \E m \in Modes : ChangeMode(m),
             Watch
      PROVE  IInv'
  <2>1. TypeOK' /\ UNCHANGED device /\ (todo' = todo \/ \E t \in Threads : Starts(t))
    BY <1>1, <1>4, CallEffect
  <2>2. InPlace'
    BY <1>1, <1>2, <1>4, <2>1 DEF InPlace, device
  <2>3. Programs' /\ (serial' => \A u \in Threads : Aimed(u)')
    <3>1. CASE todo' = todo
      BY <1>1, <1>2, <1>4, <2>1, <3>1 DEF Programs, Aimed, At, device
    <3>2. CASE \E t \in Threads : Starts(t)
      <4>1. PICK t \in Threads : Starts(t)
        BY <3>2
      <4>2. PICK s : Block(s) /\ todo' = [todo EXCEPT ![t] = s]
        BY <4>1 DEF Starts
      <4>3. Programs' /\ Aimed(t)'
        BY <1>1, <4>2, NewProgram
      <4>4. \A u \in Threads \ {t} : todo'[u] = todo[u]
        BY <1>1, <4>2 DEF Programs
      <4>5. \A u \in Threads \ {t} : Aimed(u) => Aimed(u)'
        BY <2>1, <4>4 DEF Aimed, At, device
      <4> QED
        BY <1>1, <1>2, <1>4, <4>3, <4>5
    <3> QED
      BY <2>1, <3>1, <3>2
  <2> QED
    BY <1>2, <1>4, <2>1, <2>2, <2>3 DEF IInv, Programs
<1>5. CASE UNCHANGED vars
  BY <1>5 DEF IInv, vars, device, statics, clock, TypeOK, Aimed, At, Idle, InPlace
<1> QED
  BY <1>3, <1>4, <1>5 DEF Next

LEMMA Invariant == Spec => []IInv
<1>1. IInv /\ [Next]_vars => IInv'
  BY Inductive
<1> QED
  BY <1>1, Initially, PTL DEF Spec

--------------------------------------------------------------------------------
(* The theorems.                                                           *)

\* Every digit shows a digit or nothing, and the globals hold what they may,
\* however the threads interleave and whichever accesses fail.
THEOREM TypeCorrect == Spec => []TypeOK
  BY Invariant, PTL DEF IInv

\* Threads that did not overlap have never written a digit in the place of
\* another: an access that fails takes what depends on it with it.
THEOREM InPlaceHolds == Spec => []InPlace
  BY Invariant, PTL DEF IInv
--------------------------------------------------------------------------------
(* What the display shows in the end: the invariant.                       *)

\* What the digits should show, and the digit that is selected.
Scene == [mode |-> mode, reading |-> reading, due |-> [p \in 0..3 |-> Due(p)], selected |-> selected]

\* The digit that step i of s acts on, if it is one of Writes.
Target(v, s, i) == IF i = 1 THEN v.selected ELSE s[i - 1][2]

\* Step i of s changes what p shows, by itself or by the steps it turns into; ...
Touches(v, s, i, p) ==
  \/ s[i][1] \in {"clear", "time?", "stopwatch?", "reading?"}
  \/ s[i][1] = "time" /\ s[i][2] = p
  \/ s[i][1] = "show" /\ Target(v, s, i) = p

\* ... it makes p show what it should.
Hits(v, s, i, p) ==
  \/ s[i][1] = "time?" /\ v.mode # "STOPWATCH"
  \/ s[i][1] = "stopwatch?" /\ v.mode = "STOPWATCH" /\ s[i][2] = v.reading
  \/ s[i][1] = "reading?" /\ v.mode = "STOPWATCH"
  \/ s[i][1] = "time" /\ s[i][2] = p /\ v.mode # "STOPWATCH"
  \/ s[i][1] = "show" /\ Target(v, s, i) = p /\ s[i][2] = v.due[p]

\* From step k on, p is only made to show what it should.
FineFrom(v, s, k, p) == \A i \in k..Len(s) : Touches(v, s, i, p) => Hits(v, s, i, p)

\* Some step sees to it that p shows what it should, and none after it undoes that.
Settles(v, s, p) == \E k \in 1..Len(s) : Hits(v, s, k, p) /\ FineFrom(v, s, k + 1, p)

\* In the end p, which shows n, shows what it should.
Right(v, n, s, p) == Settles(v, s, p) \/ (n = v.due[p] /\ FineFrom(v, s, 1, p))

\* Nothing but clearing is left to do on entering the SETTING mode.
Dark(s) ==
  /\ mode = "SETTING"
  /\ \A x \in Range(s) : x[1] \notin Questions \cup {"show"}
  /\ digits = AllBlank \/ <<"clear", 0>> \in Range(s)

\* Nothing starts to blink.
Calm(s) == \A x \in Range(s) : x[1] \notin {"on", "which?"}

\* The display's mode d is the clock's m, or the first thing that is made so.
SameMode(s, m, d) ==
  /\ \A i \in 2..Len(s) : s[i][1] # "dmode"
  /\ m = IF s # <<>> /\ s[1][1] = "dmode" THEN s[1][2] ELSE d

\* When s is done, the display is as it should be.
Will(s) ==
  /\ SameMode(s, mode, dmode)
  /\ mode # "SETTING" => Calm(s) /\ \A p \in blinking : <<"off", p>> \in Range(s)
  /\ life \in {"ready", "up"} => Dark(s) \/ \A p \in Positions : Right(Scene, digits[p], s, p)

Alone(t) == \A u \in Threads \ {t} : Idle(u)

\* As long as the threads do not overlap and no access fails, the thread at work
\* is on its way to a display that is as it should be.
DInv ==
  /\ IInv
  /\ life \in {"starting", "ready"} => mode = "NORMAL"
  /\ serial /\ faults = 0 => \E t \in Threads : Alone(t) /\ Will(todo[t])
--------------------------------------------------------------------------------
(* One sequence of steps after another.                                    *)

LEMMA RangeIs ==
  ASSUME NEW s \in Seq(Orders)
  PROVE  Range(s) = {s[i] : i \in 1..Len(s)}
  BY RangeEquality

LEMMA Ranges ==
  /\ Range(<<>>) = {}
  /\ \A x \in Orders : Range(<<x>>) = {x}
  /\ \A x, y \in Orders : Range(<<x, y>>) = {x, y}
<1>1. Range(<<>>) = {}
  BY DEF Range
<1>2. ASSUME NEW x \in Orders PROVE Range(<<x>>) = {x}
  BY DEF Range
<1>3. ASSUME NEW x \in Orders, NEW y \in Orders PROVE Range(<<x, y>>) = {x, y}
  BY DEF Range
<1> QED
  BY <1>1, <1>2, <1>3

\* What the steps of s \o r do is what they do in s and in r.
LEMMA JoinedSteps ==
  ASSUME NEW s, NEW r, Block(s), Block(r), NEW v, NEW p
  PROVE  /\ Len(s \o r) = Len(s) + Len(r) /\ Len(s) \in Nat /\ Len(r) \in Nat
         /\ \A i \in 1..Len(s) : /\ Touches(v, s \o r, i, p) <=> Touches(v, s, i, p)
                                 /\ Hits(v, s \o r, i, p) <=> Hits(v, s, i, p)
         /\ \A i \in 1..Len(r) : /\ Touches(v, s \o r, Len(s) + i, p) <=> Touches(v, r, i, p)
                                 /\ Hits(v, s \o r, Len(s) + i, p) <=> Hits(v, r, i, p)
<1> DEFINE sr == s \o r
           m == Len(s)   n == Len(r)
<1>1. s \in Seq(Orders) /\ r \in Seq(Orders) /\ m \in Nat /\ n \in Nat
  BY DEF Block
<1>2. /\ Len(sr) = m + n
      /\ \A i \in 1..(m + n) : sr[i] = IF i <= m THEN s[i] ELSE r[i - m]
  BY <1>1, ConcatProperties
<1>3. n > 0 => r[1][1] # "show"
  BY <1>1 DEF Block, Writes
<1> HIDE DEF sr, m, n
<1>4. ASSUME NEW i \in 1..m
      PROVE  /\ Touches(v, sr, i, p) <=> Touches(v, s, i, p)
             /\ Hits(v, sr, i, p) <=> Hits(v, s, i, p)
  <2>1. sr[i] = s[i] /\ (i # 1 => sr[i - 1] = s[i - 1])
    BY <1>1, <1>2
  <2>2. Target(v, sr, i) = Target(v, s, i)
    BY <2>1 DEF Target
  <2> QED
    BY <2>1, <2>2 DEF Touches, Hits
<1>5. ASSUME NEW i \in 1..n
      PROVE  /\ Touches(v, sr, m + i, p) <=> Touches(v, r, i, p)
             /\ Hits(v, sr, m + i, p) <=> Hits(v, r, i, p)
  <2>1. sr[m + i] = r[i]
    <3> DEFINE j == m + i
    <3>1. j \in 1..(m + n) /\ ~(j <= m) /\ j - m = i
      BY <1>1
    <3> HIDE DEF j
    <3>2. sr[j] = r[i]
      BY <1>2, <3>1
    <3> QED
      BY <3>2 DEF j
  <2>2. i # 1 => sr[(m + i) - 1] = r[i - 1] /\ m + i # 1
    <3> SUFFICES ASSUME i # 1 PROVE sr[(m + i) - 1] = r[i - 1] /\ m + i # 1
      OBVIOUS
    <3> DEFINE j == (m + i) - 1
    <3>1. j \in 1..(m + n) /\ ~(j <= m) /\ j - m = i - 1 /\ m + i # 1
      BY <1>1
    <3> HIDE DEF j
    <3>2. sr[j] = r[i - 1]
      BY <1>2, <3>1
    <3> QED
      BY <3>1, <3>2 DEF j
  <2>3. i # 1 => Target(v, sr, m + i) = Target(v, r, i)
    BY <2>2 DEF Target
  <2>4. i = 1 => r[i][1] # "show"
    BY <1>1, <1>3
  <2> QED
    BY <2>1, <2>3, <2>4 DEF Touches, Hits
<1> QED
  BY <1>1, <1>2, <1>4, <1>5 DEF sr, m, n

\* p shows what it should after s \o r if r sees to that, or if s does and r is fine.
LEMMA Joined ==
  ASSUME NEW s, NEW r, Block(s), Block(r), NEW v, NEW p
  PROVE  /\ Settles(v, r, p) => Settles(v, s \o r, p)
         /\ Settles(v, s, p) /\ FineFrom(v, r, 1, p) => Settles(v, s \o r, p)
         /\ FineFrom(v, s, 1, p) /\ FineFrom(v, r, 1, p) => FineFrom(v, s \o r, 1, p)
<1> DEFINE sr == s \o r
           m == Len(s)   n == Len(r)
<1>1. /\ Len(sr) = m + n /\ m \in Nat /\ n \in Nat
      /\ \A i \in 1..m : /\ Touches(v, sr, i, p) <=> Touches(v, s, i, p)
                         /\ Hits(v, sr, i, p) <=> Hits(v, s, i, p)
      /\ \A i \in 1..n : /\ Touches(v, sr, m + i, p) <=> Touches(v, r, i, p)
                         /\ Hits(v, sr, m + i, p) <=> Hits(v, r, i, p)
  BY JoinedSteps
<1> HIDE DEF sr, m, n
<1>2. \A j \in 1..(m + n) : j > m => j - m \in 1..n /\ m + (j - m) = j
  BY <1>1
<1>3. \A j \in 1..(m + n) : j > m => /\ Touches(v, sr, j, p) <=> Touches(v, r, j - m, p)
                                     /\ Hits(v, sr, j, p) <=> Hits(v, r, j - m, p)
  BY <1>1, <1>2
<1>4. ASSUME Settles(v, r, p) PROVE Settles(v, sr, p)
  <2>1. PICK k \in 1..n : Hits(v, r, k, p) /\ FineFrom(v, r, k + 1, p)
    BY <1>4 DEF Settles, n
  <2>2. Hits(v, sr, m + k, p) /\ m + k \in 1..(m + n)
    BY <1>1, <2>1
  <2>3. ASSUME NEW j \in (m + k + 1)..(m + n), Touches(v, sr, j, p) PROVE Hits(v, sr, j, p)
    <3>1. j \in 1..(m + n) /\ j > m /\ j - m \in (k + 1)..n
      BY <1>1
    <3>2. Touches(v, r, j - m, p)
      BY <1>3, <2>3, <3>1
    <3>3. Hits(v, r, j - m, p)
      BY <2>1, <3>1, <3>2 DEF FineFrom, n
    <3> QED
      BY <1>3, <3>1, <3>3
  <2> QED
    BY <1>1, <2>2, <2>3 DEF Settles, FineFrom
<1>5. ASSUME FineFrom(v, r, 1, p), NEW j \in (m + 1)..(m + n), Touches(v, sr, j, p) PROVE Hits(v, sr, j, p)
  <2>1. j \in 1..(m + n) /\ j > m /\ j - m \in 1..n
    BY <1>1
  <2> QED
    BY <1>3, <1>5, <2>1 DEF FineFrom, n
<1>6. ASSUME Settles(v, s, p), FineFrom(v, r, 1, p) PROVE Settles(v, sr, p)
  <2>1. PICK k \in 1..m : Hits(v, s, k, p) /\ FineFrom(v, s, k + 1, p)
    BY <1>6 DEF Settles, m
  <2>2. Hits(v, sr, k, p) /\ k \in 1..(m + n)
    BY <1>1, <2>1
  <2>3. ASSUME NEW j \in (k + 1)..(m + n), Touches(v, sr, j, p) PROVE Hits(v, sr, j, p)
    <3>1. CASE j <= m
      <4>1. j \in 1..m /\ j \in (k + 1)..m
        BY <1>1, <3>1
      <4> QED
        BY <1>1, <2>1, <2>3, <4>1 DEF FineFrom, m
    <3>2. CASE j > m
      BY <1>1, <1>5, <1>6, <2>3, <3>2
    <3> QED
      BY <1>1, <3>1, <3>2
  <2> QED
    BY <1>1, <2>2, <2>3 DEF Settles, FineFrom
<1>7. ASSUME FineFrom(v, s, 1, p), FineFrom(v, r, 1, p) PROVE FineFrom(v, sr, 1, p)
  <2>1. ASSUME NEW j \in 1..(m + n), Touches(v, sr, j, p) PROVE Hits(v, sr, j, p)
    <3>1. CASE j <= m
      <4>1. j \in 1..m
        BY <1>1, <3>1
      <4> QED
        BY <1>1, <1>7, <2>1, <4>1 DEF FineFrom, m
    <3>2. CASE j > m
      BY <1>1, <1>5, <1>7, <2>1, <3>2
    <3> QED
      BY <1>1, <3>1, <3>2
  <2> QED
    BY <1>1, <2>1 DEF FineFrom
<1> QED
  BY <1>4, <1>6, <1>7 DEF sr

\* What is left when the first step of s is done, and the scene then.
Rest(s) == SubSeq(s, 2, Len(s))

Follows(w, v, s) ==
  /\ w.mode = v.mode /\ w.reading = v.reading /\ w.due = v.due
  /\ s[1][1] = "select" => w.selected = s[1][2]

\* The first step is what makes p show what it should, or it is the rest that
\* does, or p shows it already.
LEMMA FirstStep ==
  ASSUME NEW s \in Seq(Orders), Paired(s), s # <<>>, NEW v, NEW w, NEW p, NEW a, Right(v, a, s, p),
         Follows(w, v, s)
  PROVE  \/ Settles(w, Rest(s), p)
         \/ FineFrom(w, Rest(s), 1, p) /\ Hits(v, s, 1, p)
         \/ FineFrom(w, Rest(s), 1, p) /\ ~Touches(v, s, 1, p) /\ a = v.due[p]
<1> USE DEF Follows
<1> DEFINE r == Rest(s)
           m == Len(s)
<1>1. m \in Nat /\ m >= 1
  BY EmptySeq
<1>2. Len(r) = m - 1 /\ \A i \in 1..(m - 1) : r[i] = s[i + 1]
  <2>1. \A i \in 2..m : s[i] \in Orders
    BY <1>1, ElementOfSeq
  <2>2. /\ Len(r) = IF 2 <= m THEN m - 2 + 1 ELSE 0
        /\ \A i \in 1..(m - 2 + 1) : r[i] = s[2 + i - 1]
    BY <1>1, <2>1, SubSeqProperties DEF Rest
  <2> HIDE DEF r, m
  <2> QED
    BY <1>1, <2>2
<1>3. m > 1 /\ s[1][1] # "select" => r[1][1] # "show"
  <2> SUFFICES ASSUME m > 1, s[1][1] # "select" PROVE r[1][1] # "show"
    OBVIOUS
  <2> DEFINE j == 2
  <2>1. j \in 1..m /\ j > 1 /\ j - 1 = 1 /\ r[1] = s[j]
    BY <1>1, <1>2
  <2> HIDE DEF j
  <2>2. s[j][1] \in Writes => s[1][1] = "select"
    BY <2>1 DEF Paired
  <2> QED
    BY <2>1, <2>2 DEF Writes
<1> HIDE DEF r, m
<1>4. ASSUME NEW i \in 1..(m - 1)
      PROVE  /\ Touches(w, r, i, p) <=> Touches(v, s, i + 1, p)
             /\ Hits(w, r, i, p) <=> Hits(v, s, i + 1, p)
  <2>1. r[i] = s[i + 1] /\ i + 1 # 1 /\ (i + 1) - 1 = i
    BY <1>1, <1>2
  <2>2. r[i][1] = "show" => Target(w, r, i) = Target(v, s, i + 1)
    <3>1. CASE i = 1
      BY <1>1, <1>3, <2>1, <3>1 DEF Target
    <3>2. CASE i # 1
      <4>1. r[i - 1] = s[(i - 1) + 1] /\ (i - 1) + 1 = i
        BY <1>1, <1>2, <3>2
      <4> QED
        BY <2>1, <3>2, <4>1 DEF Target
    <3> QED
      BY <3>1, <3>2
  <2> QED
    BY <2>1, <2>2 DEF Touches, Hits
<1>5. ASSUME NEW j \in 2..m
      PROVE  /\ j - 1 \in 1..(m - 1)
             /\ Touches(w, r, j - 1, p) <=> Touches(v, s, j, p)
             /\ Hits(w, r, j - 1, p) <=> Hits(v, s, j, p)
  <2>1. j - 1 \in 1..(m - 1) /\ (j - 1) + 1 = j
    BY <1>1
  <2> QED
    BY <1>4, <2>1
<1>6. ASSUME FineFrom(v, s, 2, p) PROVE FineFrom(w, r, 1, p)
  <2> SUFFICES ASSUME NEW i \in 1..(m - 1), Touches(w, r, i, p) PROVE Hits(w, r, i, p)
    BY <1>2 DEF FineFrom
  <2>1. i + 1 \in 2..m
    BY <1>1
  <2> QED
    BY <1>4, <1>6, <2>1 DEF FineFrom, m
<1>7. ASSUME Settles(v, s, p) PROVE Settles(w, r, p) \/ (FineFrom(w, r, 1, p) /\ Hits(v, s, 1, p))
  <2>1. PICK k \in 1..m : Hits(v, s, k, p) /\ FineFrom(v, s, k + 1, p)
    BY <1>7 DEF Settles, m
  <2>2. CASE k = 1
    BY <1>6, <2>1, <2>2
  <2>3. CASE k # 1
    <3>1. k \in 2..m /\ k - 1 \in 1..(m - 1)
      BY <1>1, <2>3
    <3>2. Hits(w, r, k - 1, p)
      BY <1>5, <2>1, <3>1
    <3>3. FineFrom(w, r, (k - 1) + 1, p)
      <4> SUFFICES ASSUME NEW i \in ((k - 1) + 1)..(m - 1), Touches(w, r, i, p) PROVE Hits(w, r, i, p)
        BY <1>2 DEF FineFrom
      <4>1. i \in 1..(m - 1) /\ i + 1 \in (k + 1)..m
        BY <1>1, <3>1
      <4> QED
        BY <1>4, <2>1, <4>1 DEF FineFrom, m
    <3> QED
      BY <1>2, <3>1, <3>2, <3>3 DEF Settles
  <2> QED
    BY <2>2, <2>3
<1>8. ASSUME FineFrom(v, s, 1, p)
      PROVE  FineFrom(w, r, 1, p) /\ (Touches(v, s, 1, p) => Hits(v, s, 1, p))
  <2>1. FineFrom(v, s, 2, p) /\ 1 \in 1..m
    BY <1>1, <1>8 DEF FineFrom, m
  <2> QED
    BY <1>6, <1>8, <2>1 DEF FineFrom, m
<1> QED
  BY <1>7, <1>8 DEF Right, r

\* A step is done: what it makes p show, or does not, is what it says.
LEMMA FirstDone ==
  ASSUME NEW s \in Seq(Orders), Paired(s), s # <<>>, NEW v, NEW w, NEW p, NEW a, Right(v, a, s, p),
         Follows(w, v, s),
         NEW b, Hits(v, s, 1, p) => b = v.due[p], ~Touches(v, s, 1, p) => b = a
  PROVE  Right(w, b, Rest(s), p)
<1>1. \/ Settles(w, Rest(s), p)
      \/ FineFrom(w, Rest(s), 1, p) /\ Hits(v, s, 1, p)
      \/ FineFrom(w, Rest(s), 1, p) /\ ~Touches(v, s, 1, p) /\ a = v.due[p]
  BY FirstStep
<1> QED
  BY <1>1 DEF Right, Follows

\* A question is answered: the answer makes p show what the question promised.
LEMMA FirstAnswered ==
  ASSUME NEW s \in Seq(Orders), Paired(s), s # <<>>, NEW v, NEW p, NEW a, Right(v, a, s, p),
         s[1][1] \in Questions, NEW c, Block(c),
         Hits(v, s, 1, p) => Settles(v, c, p), ~Touches(v, s, 1, p) => FineFrom(v, c, 1, p)
  PROVE  Right(v, a, c \o Tail(s), p)
<1> DEFINE r == Rest(s)
<1>1. Tail(s) = r
  BY TailIsSubSeq DEF Rest
<1>2. s[1][1] # "select"
  BY DEF Questions
<1>3. Block(r)
  <2>1. 1 <= Len(s) /\ 1 \in 1..2 /\ 1 + 1 = 2
    BY EmptySeq
  <2> QED
    BY <1>2, <2>1, Left DEF Rest
<1>4. Follows(v, v, s)
  BY <1>2 DEF Follows
<1>5. \/ Settles(v, r, p)
      \/ FineFrom(v, r, 1, p) /\ Hits(v, s, 1, p)
      \/ FineFrom(v, r, 1, p) /\ ~Touches(v, s, 1, p) /\ a = v.due[p]
  BY <1>4, FirstStep
<1> HIDE DEF r
<1> QED
  BY <1>1, <1>3, <1>5, Joined DEF Right
--------------------------------------------------------------------------------
(* What the programs draw.                                                 *)

\* One step: it leaves p alone or makes it show what it should.
LEMMA OneFine ==
  ASSUME NEW v, NEW p, NEW x \in Orders,
         \/ x[1] \notin {"clear", "time?", "stopwatch?", "reading?", "time", "show"}
         \/ x[1] = "time" /\ (x[2] = p => v.mode # "STOPWATCH")
  PROVE  /\ FineFrom(v, <<x>>, 1, p)
         /\ x[1] = "time" /\ x[2] = p => Settles(v, <<x>>, p)
<1> DEFINE s == <<x>>
<1>1. Len(s) = 1 /\ s[1] = x
  OBVIOUS
<1> HIDE DEF s
<1>2. FineFrom(v, s, 1, p)
  <2> SUFFICES ASSUME NEW i \in 1..1, Touches(v, s, i, p) PROVE Hits(v, s, i, p)
    BY <1>1 DEF FineFrom
  <2>1. i = 1
    OBVIOUS
  <2> QED
    BY <1>1, <2>1 DEF Touches, Hits
<1>3. ASSUME x[1] = "time", x[2] = p PROVE Settles(v, s, p)
  <2>1. Hits(v, s, 1, p)
    BY <1>1, <1>3 DEF Hits
  <2>2. FineFrom(v, s, 1 + 1, p)
    BY <1>1 DEF FineFrom
  <2> QED
    BY <1>1, <2>1, <2>2 DEF Settles
<1> QED
  BY <1>2, <1>3 DEF s

\* One digit: the same.
LEMMA PairFine ==
  ASSUME NEW v, NEW p, NEW q, NEW y, y[1] # "select",
         \/ y[1] \in {"on", "off"}
         \/ y[1] = "show" /\ (q = p => y[2] = v.due[p])
  PROVE  /\ FineFrom(v, <<<<"select", q>>, y>>, 1, p)
         /\ y[1] = "show" /\ q = p => Settles(v, <<<<"select", q>>, y>>, p)
<1> DEFINE s == <<<<"select", q>>, y>>
<1>1. Len(s) = 2 /\ s[1][1] = "select" /\ s[1][2] = q /\ s[2] = y
  OBVIOUS
<1> HIDE DEF s
<1>2. Target(v, s, 2) = q
  BY <1>1 DEF Target
<1>3. FineFrom(v, s, 1, p)
  <2> SUFFICES ASSUME NEW i \in 1..2, Touches(v, s, i, p) PROVE Hits(v, s, i, p)
    BY <1>1 DEF FineFrom
  <2>1. i = 1 \/ i = 2
    OBVIOUS
  <2> QED
    BY <1>1, <1>2, <2>1 DEF Touches, Hits
<1>4. ASSUME y[1] = "show", q = p PROVE Settles(v, s, p)
  <2>1. Hits(v, s, 2, p)
    BY <1>1, <1>2, <1>4 DEF Hits
  <2>2. FineFrom(v, s, 2 + 1, p)
    BY <1>1 DEF FineFrom
  <2> QED
    BY <1>1, <2>1, <2>2 DEF Settles
<1> QED
  BY <1>3, <1>4 DEF s

LEMMA NothingFine == ASSUME NEW v, NEW p PROVE FineFrom(v, <<>>, 1, p)
  BY DEF FineFrom

LEMMA SetDigitFine ==
  ASSUME NEW v, NEW p \in Positions, NEW q, NEW n \in 0..Blank, q = p => n = v.due[p]
  PROVE  /\ FineFrom(v, SetDigit(q, n), 1, p)
         /\ q = p => Settles(v, SetDigit(q, n), p)
<1> DEFINE y == <<"show", n>>
<1>1. y[1] = "show" /\ y[2] = n
  OBVIOUS
<1> HIDE DEF y
<1>2. /\ FineFrom(v, <<<<"select", q>>, y>>, 1, p)
      /\ q = p => Settles(v, <<<<"select", q>>, y>>, p)
  BY <1>1, PairFine
<1> QED
  BY <1>2, NothingFine DEF SetDigit, On, y

LEMMA BlinkFine == ASSUME NEW v, NEW p, NEW q \in 0..3 PROVE FineFrom(v, Blink(q), 1, p)
<1>1. FineFrom(v, On(q, <<<<"select", q>>, <<"on", q>>>>), 1, p)
  <2> DEFINE y == <<"on", q>>
  <2>1. y[1] = "on"
    OBVIOUS
  <2> HIDE DEF y
  <2>2. FineFrom(v, <<<<"select", q>>, y>>, 1, p)
    BY <2>1, PairFine
  <2> QED
    BY <2>2, NothingFine DEF On, y
<1>2. FineFrom(v, <<<<"position", q>>>>, 1, p)
  <2>1. <<"position", q>> \in Orders /\ <<"position", q>>[1] = "position"
    BY DEF Orders
  <2> QED
    BY <2>1, OneFine
<1> QED
  BY <1>1, <1>2, BlinkBlock, Joined DEF Blink

\* Four digits in a row.
LEMMA FourSettle ==
  ASSUME NEW v, NEW p, NEW a, NEW b, NEW c, NEW d, Block(a), Block(b), Block(c), Block(d),
         FineFrom(v, a, 1, p), FineFrom(v, b, 1, p), FineFrom(v, c, 1, p), FineFrom(v, d, 1, p),
         Settles(v, a, p) \/ Settles(v, b, p) \/ Settles(v, c, p) \/ Settles(v, d, p)
  PROVE  Settles(v, a \o b \o c \o d, p)
<1>1. /\ Block(a \o b) /\ FineFrom(v, a \o b, 1, p)
      /\ Settles(v, a, p) \/ Settles(v, b, p) => Settles(v, a \o b, p)
  BY BlockThenBlock, Joined
<1>2. /\ Block(a \o b \o c) /\ FineFrom(v, a \o b \o c, 1, p)
      /\ Settles(v, a \o b, p) \/ Settles(v, c, p) => Settles(v, a \o b \o c, p)
  BY <1>1, BlockThenBlock, Joined
<1> QED
  BY <1>1, <1>2, Joined

LEMMA TimeSettles ==
  ASSUME NEW v, v.mode # "STOPWATCH", NEW p \in Positions
  PROVE  Settles(v, TimeDigits \o <<<<"blink?", 0>>>>, p)
<1>1. ASSUME NEW q \in 0..3
      PROVE  /\ Block(On(q, <<<<"time", q>>>>)) /\ FineFrom(v, On(q, <<<<"time", q>>>>), 1, p)
             /\ q = p => Settles(v, On(q, <<<<"time", q>>>>), p)
  <2>1. Block(On(q, <<<<"time", q>>>>))
    BY StepBlocks, OnBlock
  <2>2. CASE q \in Positions
    <3>1. <<"time", q>> \in Orders /\ <<"time", q>>[1] = "time" /\ <<"time", q>>[2] = q
      BY <2>2 DEF Orders
    <3>2. FineFrom(v, <<<<"time", q>>>>, 1, p) /\ (q = p => Settles(v, <<<<"time", q>>>>, p))
      BY <3>1, OneFine
    <3> QED
      BY <2>1, <2>2, <3>2 DEF On
  <2>3. CASE q \notin Positions
    BY <2>1, <2>3, NothingFine DEF On
  <2> QED
    BY <2>2, <2>3
<1>2. p = 0 \/ p = 1 \/ p = 2 \/ p = 3
  BY DisplayAssumption
<1>3. Settles(v, TimeDigits, p)
  BY <1>1, <1>2, FourSettle DEF TimeDigits
<1>4. <<"blink?", 0>> \in Orders /\ <<"blink?", 0>>[1] = "blink?"
  BY DEF Orders
<1>5. FineFrom(v, <<<<"blink?", 0>>>>, 1, p)
  BY <1>4, OneFine
<1> QED
  BY <1>3, <1>5, DrawingBlocks, StepBlocks, Joined

LEMMA ReadingSettles ==
  ASSUME NEW v, NEW n \in Readings, NEW p \in Positions, v.due[p] = ReadingDigit(p, n)
  PROVE  Settles(v, ReadingDigits(n), p)
<1>1. ASSUME NEW q \in 0..3
      PROVE  /\ Block(SetDigit(q, ReadingDigit(q, n))) /\ FineFrom(v, SetDigit(q, ReadingDigit(q, n)), 1, p)
             /\ q = p => Settles(v, SetDigit(q, ReadingDigit(q, n)), p)
  <2>1. ReadingDigit(q, n) \in 0..Blank /\ ReadingDigit(q, n) \in Meant(q)
    BY ReadingDigitMeant
  <2> QED
    BY <2>1, SetDigitBlock, SetDigitFine
<1>2. p = 0 \/ p = 1 \/ p = 2 \/ p = 3
  BY DisplayAssumption
<1> QED
  BY <1>1, <1>2, FourSettle DEF ReadingDigits

\* The programs that end in what is due.
LEMMA UpdatesSettle ==
  ASSUME NEW v, NEW p
  PROVE  /\ v.mode # "STOPWATCH" => Settles(v, UpdateTime, p)
         /\ \A n : v.mode = "STOPWATCH" /\ n = v.reading => Settles(v, UpdateStopwatch(n), p)
         /\ v.mode = "STOPWATCH" => Settles(v, UpdateReading, p)
<1>1. ASSUME NEW x, \/ x[1] = "time?" /\ v.mode # "STOPWATCH"
                    \/ x[1] = "stopwatch?" /\ v.mode = "STOPWATCH" /\ x[2] = v.reading
                    \/ x[1] = "reading?" /\ v.mode = "STOPWATCH"
      PROVE  Settles(v, <<x>>, p)
  <2> DEFINE s == <<x>>
  <2>1. Len(s) = 1 /\ s[1] = x
    OBVIOUS
  <2> HIDE DEF s
  <2>2. Hits(v, s, 1, p) /\ FineFrom(v, s, 1 + 1, p)
    BY <1>1, <2>1 DEF Hits, FineFrom
  <2>3. Settles(v, s, p)
    BY <2>1, <2>2 DEF Settles
  <2> QED
    BY <2>3 DEF s
<1>2. v.mode # "STOPWATCH" => Settles(v, <<<<"time?", 0>>>>, p)
  <2>1. <<"time?", 0>>[1] = "time?"
    OBVIOUS
  <2> QED
    BY <1>1, <2>1
<1>3. ASSUME NEW n, v.mode = "STOPWATCH", n = v.reading PROVE Settles(v, <<<<"stopwatch?", n>>>>, p)
  <2>1. <<"stopwatch?", n>>[1] = "stopwatch?" /\ <<"stopwatch?", n>>[2] = n
    OBVIOUS
  <2> QED
    BY <1>1, <1>3, <2>1
<1>4. v.mode = "STOPWATCH" => Settles(v, <<<<"reading?", 0>>>>, p)
  <2>1. <<"reading?", 0>>[1] = "reading?"
    OBVIOUS
  <2> QED
    BY <1>1, <2>1
<1> QED
  BY <1>2, <1>3, <1>4 DEF UpdateTime, UpdateReading, UpdateStopwatch
--------------------------------------------------------------------------------
(* What the programs consist of.                                           *)

\* Only these operations occur in s.
Only(s, operations) == \A x \in Range(s) : x[1] \in operations

LEMMA RangeJoined ==
  ASSUME NEW s, NEW r, Block(s), Block(r)
  PROVE  Range(s \o r) = Range(s) \cup Range(r)
  BY RangeConcatenation DEF Block

LEMMA OnlyJoined ==
  ASSUME NEW s, NEW r, Block(s), Block(r), NEW K, Only(s, K), Only(r, K)
  PROVE  Only(s \o r, K)
  BY RangeJoined DEF Only

LEMMA OnlyParts ==
  ASSUME NEW K
  PROVE  /\ Only(<<>>, K)
         /\ \A x : x[1] \in K => Only(<<x>>, K)
         /\ \A x, y : x[1] \in K /\ y[1] \in K => Only(<<x, y>>, K)
<1>1. Only(<<>>, K)
  BY DEF Only, Range
<1>2. ASSUME NEW x, x[1] \in K PROVE Only(<<x>>, K)
  BY <1>2 DEF Only, Range
<1>3. ASSUME NEW x, NEW y, x[1] \in K, y[1] \in K PROVE Only(<<x, y>>, K)
  BY <1>3 DEF Only, Range
<1> QED
  BY <1>1, <1>2, <1>3

LEMMA OnlyDigits ==
  ASSUME NEW K, "select" \in K
  PROVE  /\ "show" \in K => \A p, n : Only(SetDigit(p, n), K)
         /\ "off" \in K => \A p : Only(Still(p), K)
         /\ "on" \in K /\ "position" \in K => \A p \in 0..3 : Only(Blink(p), K)
<1>1. ASSUME NEW op \in K, NEW p, NEW n PROVE Only(On(p, <<<<"select", p>>, <<op, n>>>>), K)
  <2>1. <<"select", p>>[1] = "select" /\ <<op, n>>[1] = op
    OBVIOUS
  <2>2. Only(<<<<"select", p>>, <<op, n>>>>, K)
    BY <2>1, OnlyParts
  <2> QED
    BY <2>2, OnlyParts DEF On
<1>2. ASSUME "on" \in K, "position" \in K, NEW p \in 0..3 PROVE Only(Blink(p), K)
  <2>1. <<"position", p>>[1] = "position"
    OBVIOUS
  <2>2. Only(<<<<"position", p>>>>, K)
    BY <1>2, <2>1, OnlyParts
  <2> QED
    BY <1>1, <1>2, <2>2, BlinkBlock, OnlyJoined DEF Blink
<1> QED
  BY <1>1, <1>2 DEF SetDigit, Still

LEMMA FourOnly ==
  ASSUME NEW K, NEW a, NEW b, NEW c, NEW d, Block(a), Block(b), Block(c), Block(d),
         Only(a, K), Only(b, K), Only(c, K), Only(d, K)
  PROVE  Only(a \o b \o c \o d, K)
<1>1. Block(a \o b) /\ Only(a \o b, K)
  BY BlockThenBlock, OnlyJoined
<1>2. Block(a \o b \o c) /\ Only(a \o b \o c, K)
  BY <1>1, BlockThenBlock, OnlyJoined
<1> QED
  BY <1>2, OnlyJoined

LEMMA OnlyDrawing ==
  ASSUME NEW K
  PROVE  /\ "select" \in K /\ "show" \in K => /\ Only(Zeros, K) /\ Only(Test, K)
                                              /\ \A n \in Readings : Only(ReadingDigits(n), K)
         /\ "time" \in K /\ "blink?" \in K => Only(TimeDigits \o <<<<"blink?", 0>>>>, K)
<1>1. ASSUME "select" \in K, "show" \in K
      PROVE  Only(Zeros, K) /\ Only(Test, K) /\ \A n \in Readings : Only(ReadingDigits(n), K)
  <2>1. ASSUME NEW p PROVE Block(SetDigit(p, 0)) /\ Block(SetDigit(p, 8))
    <3>1. 0 \in 0..Blank /\ 8 \in 0..Blank /\ 0 \in Meant(p) /\ 8 \in Meant(p)
      BY DEF Blank, Meant
    <3> QED
      BY <3>1, SetDigitBlock
  <2>2. ASSUME NEW n \in Readings, NEW p \in 0..3 PROVE Block(SetDigit(p, ReadingDigit(p, n)))
    BY ReadingDigitMeant, SetDigitBlock
  <2>3. \A p, n : Only(SetDigit(p, n), K)
    BY <1>1, OnlyDigits
  <2>4. Only(Zeros, K) /\ Only(Test, K)
    BY <2>1, <2>3, FourOnly DEF Zeros, Test
  <2>5. ASSUME NEW n \in Readings PROVE Only(ReadingDigits(n), K)
    BY <2>2, <2>3, FourOnly DEF ReadingDigits
  <2> QED
    BY <2>4, <2>5
<1>2. ASSUME "time" \in K, "blink?" \in K PROVE Only(TimeDigits \o <<<<"blink?", 0>>>>, K)
  <2>1. ASSUME NEW p PROVE Block(On(p, <<<<"time", p>>>>)) /\ Only(On(p, <<<<"time", p>>>>), K)
    <3>1. <<"time", p>>[1] = "time"
      OBVIOUS
    <3> QED
      BY <1>2, <3>1, StepBlocks, OnBlock, OnlyParts DEF On
  <2>2. Only(TimeDigits, K)
    BY <2>1, FourOnly DEF TimeDigits
  <2>3. <<"blink?", 0>>[1] = "blink?"
    OBVIOUS
  <2>4. Only(<<<<"blink?", 0>>>>, K)
    BY <1>2, <2>3, OnlyParts
  <2> QED
    BY <2>2, <2>4, DrawingBlocks, StepBlocks, OnlyJoined
<1> QED
  BY <1>1, <1>2

\* display_set_blink_position(0xFF) stops the blinking of every digit.
LEMMA BlinkNoneIs ==
  /\ Only(BlinkNone, {"position", "select", "off"})
  /\ \A p \in Positions : <<"off", p>> \in Range(BlinkNone)
<1> DEFINE K == {"position", "select", "off"}
           a == <<<<"position", None>>>>
<1>1. /\ Block(Still(0)) /\ Block(Still(1)) /\ Block(Still(2)) /\ Block(Still(3))
  BY BlinkBlocks
<1>2. Block(a) /\ Only(a, K)
  <2>1. /\ <<"position", None>> \in Orders /\ <<"position", None>>[1] = "position"
        /\ "position" \in K
    BY DEF Orders
  <2>2. Block(a)
    BY <2>1, OneBlock DEF Writes
  <2> HIDE DEF K
  <2>3. Only(a, K)
    BY <2>1, OnlyParts
  <2> QED
    BY <2>2, <2>3
<1>3. \A p : Only(Still(p), K)
  BY OnlyDigits
<1> HIDE DEF K, a
<1>4. /\ Block(a \o Still(0)) /\ Only(a \o Still(0), K)
      /\ Range(Still(0)) \subseteq Range(a \o Still(0))
  BY <1>1, <1>2, <1>3, BlockThenBlock, OnlyJoined, RangeJoined
<1>5. /\ Block(a \o Still(0) \o Still(1)) /\ Only(a \o Still(0) \o Still(1), K)
      /\ Range(Still(0)) \cup Range(Still(1)) \subseteq Range(a \o Still(0) \o Still(1))
  BY <1>1, <1>3, <1>4, BlockThenBlock, OnlyJoined, RangeJoined
<1>6. /\ Block(a \o Still(0) \o Still(1) \o Still(2)) /\ Only(a \o Still(0) \o Still(1) \o Still(2), K)
      /\ Range(Still(0)) \cup Range(Still(1)) \cup Range(Still(2))
           \subseteq Range(a \o Still(0) \o Still(1) \o Still(2))
  BY <1>1, <1>3, <1>5, BlockThenBlock, OnlyJoined, RangeJoined
<1>7. /\ Only(BlinkNone, K)
      /\ Range(Still(0)) \cup Range(Still(1)) \cup Range(Still(2)) \cup Range(Still(3)) \subseteq Range(BlinkNone)
  BY <1>1, <1>3, <1>6, BlockThenBlock, OnlyJoined, RangeJoined DEF BlinkNone, a
<1>8. ASSUME NEW p \in Positions PROVE <<"off", p>> \in Range(Still(p))
  <2> DEFINE y == <<"off", p>>
             s == <<<<"select", p>>, y>>
  <2>1. s[2] = y /\ 2 \in DOMAIN s
    OBVIOUS
  <2>2. Still(p) = s
    BY DEF Still, On
  <2> HIDE DEF s, y
  <2>3. y \in Range(s)
    BY <2>1 DEF Range
  <2> QED
    BY <2>2, <2>3 DEF y
<1>9. \A p \in Positions : p = 0 \/ p = 1 \/ p = 2 \/ p = 3
  BY DisplayAssumption
<1> QED
  BY <1>7, <1>8, <1>9 DEF K

\* s makes the display's mode m, first of all and then no more.
LedBy(s, m) == s # <<>> /\ s[1] = <<"dmode", m>> /\ \A i \in 2..Len(s) : s[i][1] # "dmode"

LEMMA LedJoined ==
  ASSUME NEW m, NEW s, NEW r, Block(s), Block(r), LedBy(s, m), \A x \in Range(r) : x[1] # "dmode"
  PROVE  LedBy(s \o r, m)
<1> DEFINE sr == s \o r
           k == Len(s)   n == Len(r)
<1>1. s \in Seq(Orders) /\ r \in Seq(Orders) /\ k \in Nat /\ n \in Nat /\ k >= 1
  BY EmptySeq DEF Block, LedBy
<1>2. /\ sr \in Seq(Orders) /\ Len(sr) = k + n
      /\ \A i \in 1..(k + n) : sr[i] = IF i <= k THEN s[i] ELSE r[i - k]
  BY <1>1, ConcatProperties
<1>3. \A i \in 1..n : r[i][1] # "dmode"
  BY <1>1, RangeIs
<1> HIDE DEF sr, k, n
<1>4. sr # <<>>
  BY <1>1, <1>2, EmptySeq
<1>5. sr[1] = s[1]
  BY <1>1, <1>2
<1>6. ASSUME NEW i \in 2..(k + n) PROVE sr[i][1] # "dmode"
  <2>1. CASE i <= k
    BY <1>1, <1>2, <2>1 DEF LedBy, k
  <2>2. CASE i > k
    <3>1. i - k \in 1..n /\ sr[i] = r[i - k]
      BY <1>1, <1>2, <2>2
    <3> QED
      BY <1>3, <3>1
  <2> QED
    BY <1>1, <2>1, <2>2
<1> QED
  BY <1>2, <1>4, <1>5, <1>6 DEF LedBy, sr

LEMMA SetModeIs ==
  ASSUME NEW m \in Modes
  PROVE  /\ LedBy(SetMode(m), m) /\ <<"clear", 0>> \in Range(SetMode(m))
         /\ \A p \in Positions : <<"off", p>> \in Range(SetMode(m))
         /\ Only(SetMode(m), {"dmode", "clear", "position", "select", "off"} \cup (IF m = "SETTING" THEN {} ELSE {"show"}))
<1> DEFINE K == {"dmode", "clear", "position", "select", "off"} \cup (IF m = "SETTING" THEN {} ELSE {"show"})
           a == <<<<"dmode", m>>>>
           d == CASE m = "NORMAL" -> <<>> [] m = "SETTING" -> <<<<"position", 0>>>> [] m = "STOPWATCH" -> Zeros
<1>1. <<"dmode", m>> \in Orders /\ <<"clear", 0>> \in Orders /\ <<"position", 0>> \in Orders
  BY DEF Orders
<1>2. Block(a) /\ Block(Clear) /\ Block(BlinkNone)
  BY StepBlocks, BlinkBlocks
<1>3. Block(d)
  BY NoBlock, StepBlocks, DrawingBlocks DEF Modes
<1>4. /\ <<"dmode", m>>[1] = "dmode" /\ <<"clear", 0>>[1] = "clear" /\ <<"position", 0>>[1] = "position"
  OBVIOUS
<1>5. Only(a, K) /\ Only(Clear, K) /\ <<"clear", 0>> \in Range(Clear)
  BY <1>1, <1>4, OnlyParts, Ranges DEF Clear
<1>6. Only(BlinkNone, K)
  BY BlinkNoneIs DEF Only
<1>7. Only(d, K \ {"dmode"})
  <2>1. CASE m = "NORMAL"
    BY <2>1, OnlyParts
  <2>2. CASE m = "SETTING"
    BY <1>4, <2>2, OnlyParts
  <2>3. CASE m = "STOPWATCH"
    BY <2>3, OnlyDrawing
  <2> QED
    BY <2>1, <2>2, <2>3 DEF Modes
<1>8. LedBy(a, m)
  <2>1. a # <<>> /\ a[1] = <<"dmode", m>> /\ Len(a) = 1
    OBVIOUS
  <2> QED
    BY <2>1 DEF LedBy
<1>9. /\ \A x \in Range(Clear) : x[1] # "dmode"
      /\ \A x \in Range(BlinkNone) : x[1] # "dmode"
      /\ \A x \in Range(d) : x[1] # "dmode"
  <2>1. \A x \in Range(Clear) : x[1] # "dmode"
    BY <1>1, <1>4, Ranges DEF Clear
  <2> HIDE DEF d
  <2> QED
    BY <1>7, <2>1, BlinkNoneIs DEF Only
<1>10. Only(d, K)
  BY <1>7 DEF Only
<1> HIDE DEF K, a, d
<1>11. /\ Block(a \o Clear) /\ Only(a \o Clear, K) /\ LedBy(a \o Clear, m)
       /\ <<"clear", 0>> \in Range(a \o Clear)
  BY <1>2, <1>5, <1>8, <1>9, BlockThenBlock, OnlyJoined, LedJoined, RangeJoined
<1>12. /\ Block(a \o Clear \o BlinkNone) /\ Only(a \o Clear \o BlinkNone, K) /\ LedBy(a \o Clear \o BlinkNone, m)
       /\ <<"clear", 0>> \in Range(a \o Clear \o BlinkNone)
       /\ \A p \in Positions : <<"off", p>> \in Range(a \o Clear \o BlinkNone)
  BY <1>2, <1>6, <1>9, <1>11, BlinkNoneIs, BlockThenBlock, OnlyJoined, LedJoined, RangeJoined
<1>13. SetMode(m) = a \o Clear \o BlinkNone \o d
  BY DEF SetMode, a, d
<1> QED
  BY <1>3, <1>9, <1>10, <1>12, <1>13, OnlyJoined, LedJoined, RangeJoined DEF K
--------------------------------------------------------------------------------
(* A step takes the display on its way.                                    *)

LEMMA RestIs ==
  ASSUME NEW s \in Seq(Orders), s # <<>>
  PROVE  /\ s[1] \in Range(s) /\ s[1] \in Orders
         /\ Len(Rest(s)) = Len(s) - 1
         /\ \A i \in 1..Len(Rest(s)) : i + 1 \in 2..Len(s) /\ Rest(s)[i] = s[i + 1]
         /\ Range(Rest(s)) \subseteq Range(s)
         /\ \A x \in Range(s) : x = s[1] \/ x \in Range(Rest(s))
<1> DEFINE r == Rest(s)
           m == Len(s)
<1>1. m \in Nat /\ m >= 1 /\ \A i \in 1..m : s[i] \in Orders
  BY EmptySeq, ElementOfSeq
<1>2. r \in Seq(Orders) /\ Len(r) = m - 1 /\ \A i \in 1..(m - 1) : r[i] = s[i + 1]
  <2>1. \A i \in 2..m : s[i] \in Orders
    BY <1>1
  <2>2. /\ r \in Seq(Orders) /\ Len(r) = IF 2 <= m THEN m - 2 + 1 ELSE 0
        /\ \A i \in 1..(m - 2 + 1) : r[i] = s[2 + i - 1]
    BY <1>1, <2>1, SubSeqProperties DEF Rest
  <2> HIDE DEF r, m
  <2> QED
    BY <1>1, <2>2
<1>3. Range(s) = {s[i] : i \in 1..m} /\ Range(r) = {r[i] : i \in 1..(m - 1)}
  BY <1>2, RangeIs
<1> HIDE DEF r, m
<1>4. \A i \in 1..(m - 1) : i + 1 \in 2..m /\ i + 1 \in 1..m
  BY <1>1
<1>5. s[1] \in Range(s) /\ s[1] \in Orders
  BY <1>1, <1>3
<1>6. Range(r) \subseteq Range(s)
  BY <1>2, <1>3, <1>4
<1>7. ASSUME NEW x \in Range(s), x # s[1] PROVE x \in Range(r)
  <2>1. PICK i \in 1..m : x = s[i]
    BY <1>3
  <2>2. i - 1 \in 1..(m - 1) /\ (i - 1) + 1 = i
    BY <1>1, <1>7, <2>1
  <2>3. r[i - 1] = x
    BY <1>2, <2>1, <2>2
  <2> QED
    BY <1>3, <2>2, <2>3
<1> QED
  BY <1>2, <1>4, <1>5, <1>6, <1>7 DEF r, m

\* A program that leaves the mode of the display alone keeps it the clock's.
LEMMA ModeKept ==
  ASSUME NEW s \in Seq(Orders), \A x \in Range(s) : x[1] # "dmode", NEW m
  PROVE  SameMode(s, m, m)
<1>1. \A i \in 1..Len(s) : s[i][1] # "dmode"
  BY RangeIs
<1>2. \A i \in 2..Len(s) : i \in 1..Len(s)
  OBVIOUS
<1>3. s # <<>> => 1 \in 1..Len(s)
  BY EmptySeq
<1> QED
  BY <1>1, <1>2, <1>3 DEF SameMode

\* A step that is no question does what it says.
Does(t) ==
  LET x == todo[t][1] IN
  /\ x[1] \notin Questions
  /\ todo'[t] = Rest(todo[t]) /\ UNCHANGED <<clock, life>>
  /\ dmode' = IF x[1] = "dmode" THEN x[2] ELSE dmode
  /\ selected' = IF x[1] = "select" THEN x[2] ELSE selected
  /\ x[1] # "on" => blinking' \subseteq blinking /\ (x[1] = "off" => x[2] \notin blinking')
  /\ \A p \in Positions :
       digits'[p] = IF x[1] = "clear" THEN Blank
                    ELSE IF x[1] = "show" /\ selected = p THEN x[2] ELSE digits[p]
  /\ x[1] = "clear" => digits' = AllBlank
  /\ x[1] \notin {"clear", "show"} => digits' = digits

LEMMA WillGoOn ==
  ASSUME Programs, NEW t \in Threads, todo[t] # <<>>, Does(t), Will(todo[t])
  PROVE  Will(todo[t])'
<1> DEFINE s == todo[t]
           r == Rest(todo[t])
           x == s[1]
<1>1. s \in Seq(Orders) /\ Paired(s) /\ s # <<>>
  BY DEF Programs
<1>2. /\ x \in Range(s) /\ x \in Orders
      /\ \A i \in 1..Len(r) : i + 1 \in 2..Len(s) /\ r[i] = s[i + 1]
      /\ Range(r) \subseteq Range(s)
      /\ \A y \in Range(s) : y = x \/ y \in Range(r)
  BY <1>1, RestIs
<1>3. /\ x[1] \notin Questions
      /\ todo'[t] = r /\ UNCHANGED <<clock, life>>
      /\ dmode' = IF x[1] = "dmode" THEN x[2] ELSE dmode
      /\ selected' = IF x[1] = "select" THEN x[2] ELSE selected
      /\ x[1] # "on" => blinking' \subseteq blinking /\ (x[1] = "off" => x[2] \notin blinking')
      /\ \A p \in Positions :
           digits'[p] = IF x[1] = "clear" THEN Blank
                        ELSE IF x[1] = "show" /\ selected = p THEN x[2] ELSE digits[p]
      /\ x[1] = "clear" => digits' = AllBlank
      /\ x[1] \notin {"clear", "show"} => digits' = digits
  BY DEF Does
<1>4. /\ SameMode(s, mode, dmode)
      /\ mode # "SETTING" => Calm(s) /\ \A p \in blinking : <<"off", p>> \in Range(s)
      /\ life \in {"ready", "up"} => Dark(s) \/ \A p \in Positions : Right(Scene, digits[p], s, p)
  BY DEF Will
<1> HIDE DEF s, r, x
<1>5. mode' = mode /\ life' = life /\ \A p : Due(p)' = Due(p)
  BY <1>3 DEF clock, Due, TimeDigit
<1>6. SameMode(r, mode', dmode')
  <2>1. \A i \in 1..Len(r) : r[i][1] # "dmode"
    BY <1>2, <1>4 DEF SameMode
  <2>2. r # <<>> => r[1][1] # "dmode"
    <3>1. r \in Seq(Orders)
      BY <1>1, SubSeqProperties, ElementOfSeq DEF r, Rest, s
    <3>2. r # <<>> => 1 \in 1..Len(r)
      BY <3>1, EmptySeq
    <3> QED
      BY <2>1, <3>2
  <2>3. mode = dmode'
    BY <1>1, <1>3, <1>4 DEF SameMode, x
  <2>4. \A i \in 2..Len(r) : i \in 1..Len(r)
    OBVIOUS
  <2> QED
    BY <1>5, <2>1, <2>2, <2>3, <2>4 DEF SameMode
<1>7. ASSUME mode # "SETTING" PROVE Calm(r) /\ \A p \in blinking' : <<"off", p>> \in Range(r)
  <2>1. Calm(s) /\ Calm(r)
    BY <1>2, <1>4, <1>7 DEF Calm
  <2>2. x[1] # "on"
    BY <1>2, <2>1 DEF Calm
  <2>3. ASSUME NEW p \in blinking' PROVE <<"off", p>> \in Range(r)
    <3>1. <<"off", p>> \in Range(s)
      BY <1>3, <1>4, <1>7, <2>2
    <3>2. <<"off", p>>[1] = "off" /\ <<"off", p>>[2] = p
      OBVIOUS
    <3>3. <<"off", p>> # x
      BY <1>3, <2>2, <3>2
    <3> QED
      BY <1>2, <3>1, <3>3
  <2> QED
    BY <2>1, <2>3
<1>8. ASSUME Dark(s) PROVE Dark(todo[t])'
  <2>1. x[1] # "show" /\ \A y \in Range(r) : y[1] \notin Questions \cup {"show"}
    BY <1>2, <1>8 DEF Dark
  <2>2. digits' = AllBlank \/ <<"clear", 0>> \in Range(r)
    <3>1. CASE x[1] = "clear"
      BY <1>3, <3>1
    <3>2. CASE x[1] # "clear"
      <4>1. digits' = digits /\ <<"clear", 0>>[1] = "clear"
        BY <1>3, <2>1, <3>2
      <4>2. <<"clear", 0>> # x
        BY <3>2, <4>1
      <4> QED
        BY <1>2, <1>8, <4>1, <4>2 DEF Dark
    <3> QED
      BY <3>1, <3>2
  <2> QED
    BY <1>3, <1>5, <1>8, <2>1, <2>2 DEF Dark, AllBlank
<1>9. ASSUME NEW p \in Positions, Right(Scene, digits[p], s, p) PROVE Right(Scene', digits'[p], r, p)
  <2>1. /\ Scene.mode = mode /\ Scene.reading = reading /\ Scene.selected = selected
        /\ Scene'.mode = mode' /\ Scene'.reading = reading' /\ Scene'.selected = selected'
        /\ Scene'.due = Scene.due
    BY <1>5 DEF Scene
  <2>2. Follows(Scene', Scene, s)
    BY <1>3, <2>1 DEF Follows, clock, x
  <2>3. Hits(Scene, s, 1, p) => digits'[p] = Scene.due[p]
    BY <1>3, <2>1 DEF Hits, Target, Questions, x
  <2>4. ~Touches(Scene, s, 1, p) => digits'[p] = digits[p]
    BY <1>3, <2>1 DEF Touches, Target, x
  <2> HIDE DEF Scene
  <2>5. Right(Scene', digits'[p], Rest(s), p)
    BY <1>1, <1>9, <2>2, <2>3, <2>4, FirstDone
  <2> QED
    BY <2>5 DEF r, s
<1>10. ASSUME life \in {"ready", "up"} PROVE Dark(todo[t])' \/ \A p \in Positions : Right(Scene', digits'[p], r, p)
  BY <1>4, <1>8, <1>9, <1>10
<1> QED
  BY <1>3, <1>5, <1>6, <1>7, <1>10 DEF Will, Calm

\* So does every step but a question, when no access fails.
LEMMA StepDoes ==
  ASSUME TypeOK, Programs, NEW t \in Threads, Aimed(t), Step(t), ~Ask(t), faults' = faults
  PROVE  Does(t)
<1> DEFINE x == todo[t][1]
<1>1. todo[t] # <<>>
  BY DEF Step, Ask, Assign, Select, Show, SetBlink, ClearAll, ClearWhileWaiting, At
<1>2. /\ Head(todo[t]) = x /\ x \in Orders /\ Operand(t) = x[2]
      /\ \A ops : At(t, ops) <=> x[1] \in ops
  BY <1>1, AtHead DEF At, Operand
<1>3. ~Fault
  BY DisplayAssumption DEF Fault, TypeOK
<1>4. ASSUME Skip(t, 1) PROVE todo'[t] = Rest(todo[t])
  BY <1>4 DEF Skip, Programs, Rest
<1> HIDE DEF x
<1> SUFFICES /\ x[1] \notin Questions
             /\ todo'[t] = Rest(todo[t]) /\ UNCHANGED <<clock, life>>
             /\ dmode' = IF x[1] = "dmode" THEN x[2] ELSE dmode
             /\ selected' = IF x[1] = "select" THEN x[2] ELSE selected
             /\ x[1] # "on" => blinking' \subseteq blinking /\ (x[1] = "off" => x[2] \notin blinking')
             /\ \A p \in Positions :
                  digits'[p] = IF x[1] = "clear" THEN Blank
                               ELSE IF x[1] = "show" /\ selected = p THEN x[2] ELSE digits[p]
             /\ x[1] = "clear" => digits' = AllBlank
             /\ x[1] \notin {"clear", "show"} => digits' = digits
  BY DEF Does, x
<1>5. CASE Assign(t)
  <2>1. /\ x[1] \in {"dmode", "position"} /\ Skip(t, 1) /\ UNCHANGED <<device, clock, life>>
        /\ dmode' = IF x[1] = "dmode" THEN x[2] ELSE dmode
    BY <1>2, <1>5 DEF Assign
  <2> QED
    BY <1>4, <2>1 DEF device, Questions
<1>6. CASE Select(t)
  <2>1. x[1] = "select" /\ Skip(t, 1) /\ selected' = x[2] /\ UNCHANGED <<digits, blinking, statics, clock, life>>
    BY <1>2, <1>3, <1>6 DEF Select
  <2> QED
    BY <1>4, <2>1 DEF statics, Questions
<1>7. CASE Show(t)
  <2>1. /\ x[1] = "show" /\ Skip(t, 1) /\ digits' = [digits EXCEPT ![selected] = x[2]]
        /\ UNCHANGED <<selected, blinking, statics, clock, life>>
    BY <1>2, <1>3, <1>7 DEF Show
  <2> QED
    BY <1>4, <2>1 DEF statics, Questions, TypeOK
<1>8. CASE SetBlink(t)
  <2>1. /\ x[1] \in {"on", "off"} /\ Skip(t, 1) /\ UNCHANGED <<selected, digits, statics, clock, life>>
        /\ blinking' = IF x[1] = "on" THEN blinking \cup {selected} ELSE blinking \ {selected}
    BY <1>2, <1>3, <1>8 DEF SetBlink
  <2>2. x[2] = selected
    BY <1>2, <2>1 DEF Aimed, Fits, Writes
  <2> QED
    BY <1>4, <2>1, <2>2 DEF statics, Questions
<1>9. CASE ClearAll(t)
  <2>1. x[1] = "clear" /\ Skip(t, 1) /\ digits' = AllBlank /\ UNCHANGED <<selected, blinking, statics, clock, life>>
    BY <1>2, <1>3, <1>9 DEF ClearAll
  <2> QED
    BY <1>4, <2>1 DEF statics, Questions, AllBlank
<1>10. ~ClearWhileWaiting(t)
  BY <1>3 DEF ClearWhileWaiting
<1> QED
  BY <1>5, <1>6, <1>7, <1>8, <1>9, <1>10 DEF Step

\* The answer to a question draws what the question promised, and keeps the rest.
LEMMA AnswerIs ==
  ASSUME TypeOK, NEW x \in Orders, x[1] \in Questions, mode = dmode
  PROVE  /\ Only(Answer(x[1], x[2]), {"time", "blink?", "select", "show", "stopwatch?", "which?", "position", "on"})
         /\ mode # "SETTING" /\ x[1] # "which?"
              => Only(Answer(x[1], x[2]), {"time", "blink?", "select", "show", "stopwatch?"})
<1> DEFINE n == x[2]
           K == {"time", "blink?", "select", "show", "stopwatch?"}
           L == {"time", "blink?", "select", "show", "stopwatch?", "which?", "position", "on"}
<1>1. ASSUME NEW s, Only(s, K) PROVE Only(s, L)
  BY <1>1 DEF Only
<1>2. Only(<<>>, K)
  BY OnlyParts
<1> SUFFICES Only(Answer(x[1], n), K) \/ (Only(Answer(x[1], n), L) /\ (mode = "SETTING" \/ x[1] = "which?"))
  BY <1>1
<1>3. CASE x[1] = "time?"
  <2>1. Only(TimeDigits \o <<<<"blink?", 0>>>>, K)
    BY OnlyDrawing
  <2> HIDE DEF K, L
  <2> QED
    BY <1>2, <1>3, <2>1 DEF Answer
<1>4. CASE x[1] = "stopwatch?"
  <2>1. n \in Readings
    BY <1>4, Operands
  <2>2. Only(ReadingDigits(n), K)
    BY <2>1, OnlyDrawing
  <2> HIDE DEF K, L
  <2> QED
    BY <1>2, <1>4, <2>2 DEF Answer
<1>5. CASE x[1] = "time"
  <2>1. Only(SetDigit(n, TimeDigit(n)), K)
    BY OnlyDigits
  <2> HIDE DEF K, L
  <2> QED
    BY <1>5, <2>1 DEF Answer
<1>6. CASE x[1] = "blink?"
  <2>1. <<"which?", 0>>[1] = "which?" /\ "which?" \in L
    OBVIOUS
  <2> HIDE DEF K, L
  <2>2. Only(<<<<"which?", 0>>>>, L)
    BY <2>1, OnlyParts
  <2> QED
    BY <1>2, <1>6, <2>2 DEF Answer
<1>7. CASE x[1] = "which?"
  <2>1. \A p \in 0..3 : Only(Blink(p), L) /\ Block(Blink(p))
    BY OnlyDigits, BlinkBlocks
  <2>2. Only(Blink(2), L) /\ Only(Blink(3), L) /\ Only(Blink(0), L) /\ Only(Blink(1), L)
    BY <2>1
  <2>3. Block(Blink(2)) /\ Block(Blink(3)) /\ Block(Blink(0)) /\ Block(Blink(1))
    BY <2>1
  <2> HIDE DEF K, L
  <2>4. Only(Blink(2) \o Blink(3), L) /\ Only(Blink(0) \o Blink(1), L)
    BY <2>2, <2>3, OnlyJoined
  <2> QED
    BY <1>7, <2>4 DEF Answer
<1>8. CASE x[1] = "reading?"
  <2>1. <<"stopwatch?", reading>>[1] = "stopwatch?" /\ "stopwatch?" \in K
    OBVIOUS
  <2> HIDE DEF K, L
  <2> QED
    BY <1>8, <2>1, OnlyParts DEF Answer, UpdateStopwatch
<1> QED
  BY <1>3, <1>4, <1>5, <1>6, <1>7, <1>8 DEF Questions

LEMMA AnswerDraws ==
  ASSUME TypeOK, NEW s, NEW x \in Orders, s[1] = x, x[1] \in Questions, mode = dmode, NEW p \in Positions
  PROVE  /\ Hits(Scene, s, 1, p) => Settles(Scene, Answer(x[1], x[2]), p)
         /\ ~Touches(Scene, s, 1, p) => FineFrom(Scene, Answer(x[1], x[2]), 1, p)
<1> DEFINE n == x[2]
<1>1. p \in 0..3
  BY DisplayAssumption
<1>2. /\ Scene.mode = mode /\ Scene.reading = reading
      /\ Scene.due[p] = IF mode = "STOPWATCH" THEN ReadingDigit(p, reading) ELSE TimeDigit(p)
  BY <1>1 DEF Scene, Due
<1> HIDE DEF Scene
<1>3. CASE x[1] = "time?"
  <2>1. Touches(Scene, s, 1, p) /\ (Hits(Scene, s, 1, p) => mode # "STOPWATCH")
    BY <1>2, <1>3 DEF Touches, Hits
  <2>2. mode # "STOPWATCH" => Settles(Scene, TimeDigits \o <<<<"blink?", 0>>>>, p)
    BY <1>2, TimeSettles
  <2> QED
    BY <1>3, <2>1, <2>2 DEF Answer
<1>4. CASE x[1] = "stopwatch?"
  <2>1. Touches(Scene, s, 1, p) /\ (Hits(Scene, s, 1, p) => mode = "STOPWATCH" /\ n = reading)
    BY <1>2, <1>4 DEF Touches, Hits
  <2>2. n \in Readings
    BY <1>4, Operands
  <2>3. ASSUME mode = "STOPWATCH", n = reading PROVE Settles(Scene, ReadingDigits(n), p)
    BY <1>2, <2>2, <2>3, ReadingSettles
  <2> QED
    BY <1>4, <2>1, <2>3 DEF Answer
<1>5. CASE x[1] = "time"
  <2>1. /\ Hits(Scene, s, 1, p) => n = p /\ mode # "STOPWATCH"
        /\ ~Touches(Scene, s, 1, p) => n # p
    BY <1>2, <1>5 DEF Touches, Hits
  <2>2. n \in 0..3 /\ n \in Positions
    BY <1>5, Operands, DisplayAssumption
  <2>3. TimeDigit(n) \in 0..Blank
    BY <2>2, TimeDigitMeant DEF TypeOK
  <2>4. n = p /\ mode # "STOPWATCH" => Settles(Scene, SetDigit(n, TimeDigit(n)), p)
    BY <1>2, <2>3, SetDigitFine
  <2>5. n # p => FineFrom(Scene, SetDigit(n, TimeDigit(n)), 1, p)
    BY <2>3, SetDigitFine
  <2> QED
    BY <1>5, <2>1, <2>4, <2>5 DEF Answer
<1>6. CASE x[1] = "blink?"
  <2>1. ~Hits(Scene, s, 1, p)
    BY <1>6 DEF Hits
  <2>2. <<"which?", 0>> \in Orders /\ <<"which?", 0>>[1] = "which?"
    BY DEF Orders
  <2>3. FineFrom(Scene, <<<<"which?", 0>>>>, 1, p) /\ FineFrom(Scene, <<>>, 1, p)
    BY <2>2, OneFine, NothingFine
  <2> QED
    BY <1>6, <2>1, <2>3 DEF Answer
<1>7. CASE x[1] = "which?"
  <2>1. ~Hits(Scene, s, 1, p)
    BY <1>7 DEF Hits
  <2>2. /\ FineFrom(Scene, Blink(2), 1, p) /\ FineFrom(Scene, Blink(3), 1, p)
        /\ FineFrom(Scene, Blink(0), 1, p) /\ FineFrom(Scene, Blink(1), 1, p)
    BY BlinkFine
  <2>3. Block(Blink(2)) /\ Block(Blink(3)) /\ Block(Blink(0)) /\ Block(Blink(1))
    BY BlinkBlocks
  <2>4. FineFrom(Scene, Blink(2) \o Blink(3), 1, p) /\ FineFrom(Scene, Blink(0) \o Blink(1), 1, p)
    BY <2>2, <2>3, Joined
  <2> QED
    BY <1>7, <2>1, <2>4 DEF Answer
<1>8. CASE x[1] = "reading?"
  <2>1. Touches(Scene, s, 1, p) /\ (Hits(Scene, s, 1, p) => mode = "STOPWATCH")
    BY <1>2, <1>8 DEF Touches, Hits
  <2>2. mode = "STOPWATCH" => Settles(Scene, UpdateStopwatch(reading), p)
    BY <1>2, UpdatesSettle
  <2> QED
    BY <1>8, <2>1, <2>2 DEF Answer
<1> QED
  BY <1>3, <1>4, <1>5, <1>6, <1>7, <1>8 DEF Questions

LEMMA WillAnswer ==
  ASSUME TypeOK, Programs, NEW t \in Threads, Ask(t), Will(todo[t])
  PROVE  Will(todo[t])'
<1> DEFINE s == todo[t]
           r == Rest(todo[t])
           x == s[1]
           c == Answer(x[1], x[2])
<1>1. s # <<>> /\ s \in Seq(Orders) /\ Paired(s) /\ Head(s) = x
  BY AtHead DEF Ask, At
<1>2. /\ x \in Range(s) /\ x \in Orders
      /\ Range(r) \subseteq Range(s)
      /\ \A y \in Range(s) : y = x \/ y \in Range(r)
      /\ \A i \in 1..Len(r) : i + 1 \in 2..Len(s) /\ r[i] = s[i + 1]
  BY <1>1, RestIs
<1>3. x[1] \in Questions /\ todo'[t] = c \o Tail(s) /\ UNCHANGED <<device, statics, clock, life>>
  BY <1>1, DisplayAssumption DEF Ask, At, Programs
<1>4. Tail(s) = r
  BY <1>1, TailIsSubSeq DEF Rest
<1>5. Block(c)
  BY <1>2, <1>3, AnswerBlock
<1>6. Block(r)
  <2>1. 1 <= Len(s) /\ 1 \in 1..2 /\ 1 + 1 = 2
    BY <1>1, EmptySeq
  <2>2. x[1] # "select"
    BY <1>3 DEF Questions
  <2> QED
    BY <1>1, <2>1, <2>2, Left DEF Rest
<1>7. /\ SameMode(s, mode, dmode)
      /\ mode # "SETTING" => Calm(s) /\ \A p \in blinking : <<"off", p>> \in Range(s)
      /\ life \in {"ready", "up"} => Dark(s) \/ \A p \in Positions : Right(Scene, digits[p], s, p)
  BY DEF Will
<1> HIDE DEF c, r
<1>8. Block(c \o r) /\ Range(c \o r) = Range(c) \cup Range(r)
  BY <1>5, <1>6, BlockThenBlock, RangeJoined
<1>9. mode = dmode
  BY <1>3, <1>7 DEF SameMode, Questions
<1>10. /\ Only(c, {"time", "blink?", "select", "show", "stopwatch?", "which?", "position", "on"})
       /\ mode # "SETTING" /\ x[1] # "which?" => Only(c, {"time", "blink?", "select", "show", "stopwatch?"})
  BY <1>2, <1>3, <1>9, AnswerIs DEF c
<1>11. SameMode(c \o r, mode, dmode)
  <2>1. \A y \in Range(c) : y[1] # "dmode"
    BY <1>10 DEF Only
  <2>2. \A y \in Range(r) : y[1] # "dmode"
    <3>1. \A i \in 1..Len(r) : r[i][1] # "dmode"
      BY <1>2, <1>7 DEF SameMode
    <3> QED
      BY <1>6, <3>1, RangeIs DEF Block
  <2> QED
    BY <1>8, <1>9, <2>1, <2>2, ModeKept DEF Block
<1>12. ASSUME mode # "SETTING" PROVE Calm(c \o r) /\ \A p \in blinking : <<"off", p>> \in Range(c \o r)
  <2>1. x[1] # "which?" /\ Calm(r)
    BY <1>2, <1>7, <1>12 DEF Calm
  <2>2. Calm(c)
    BY <1>10, <1>12, <2>1 DEF Calm, Only
  <2>3. ASSUME NEW p \in blinking PROVE <<"off", p>> \in Range(r)
    <3>1. <<"off", p>> \in Range(s) /\ <<"off", p>>[1] = "off"
      BY <1>7, <1>12
    <3>2. x # <<"off", p>>
      BY <1>3, <3>1 DEF Questions
    <3> QED
      BY <1>2, <3>1, <3>2
  <2> QED
    BY <1>8, <2>1, <2>2, <2>3 DEF Calm
<1>13. ~Dark(s)
  BY <1>2, <1>3 DEF Dark
<1>14. ASSUME NEW p \in Positions, Right(Scene, digits[p], s, p) PROVE Right(Scene, digits[p], c \o r, p)
  <2>1. /\ Hits(Scene, s, 1, p) => Settles(Scene, c, p)
        /\ ~Touches(Scene, s, 1, p) => FineFrom(Scene, c, 1, p)
    BY <1>2, <1>3, <1>9, AnswerDraws DEF c
  <2> HIDE DEF Scene
  <2> QED
    BY <1>1, <1>3, <1>4, <1>5, <1>14, <2>1, FirstAnswered
<1>15. /\ todo'[t] = c \o r /\ mode' = mode /\ dmode' = dmode /\ blinking' = blinking
       /\ life' = life /\ digits' = digits /\ Scene' = Scene
  <2>1. todo'[t] = c \o r
    BY <1>3, <1>4
  <2>2. /\ mode' = mode /\ dmode' = dmode /\ blinking' = blinking /\ life' = life
        /\ digits' = digits /\ reading' = reading /\ time' = time /\ selected' = selected
    BY <1>3 DEF device, statics, clock
  <2>3. \A p : Due(p)' = Due(p)
    BY <2>2 DEF Due, TimeDigit
  <2>4. Scene' = Scene
    BY <2>2, <2>3 DEF Scene
  <2> QED
    BY <2>1, <2>2, <2>4
<1>16. life' \in {"ready", "up"} => \A p \in Positions : Right(Scene', digits'[p], todo'[t], p)
  BY <1>7, <1>13, <1>14, <1>15
<1>17. SameMode(todo'[t], mode', dmode')
  BY <1>11, <1>15
<1>18. mode' # "SETTING" => Calm(todo[t])' /\ \A p \in blinking' : <<"off", p>> \in Range(todo'[t])
  BY <1>12, <1>15 DEF Calm
<1> QED
  BY <1>16, <1>17, <1>18 DEF Will

\* A step of the thread at work, if no access fails.
LEMMA WillStep ==
  ASSUME TypeOK, Programs, NEW t \in Threads, Aimed(t), Step(t), faults' = faults, Will(todo[t])
  PROVE  Will(todo[t])'
<1>1. todo[t] # <<>>
  BY DEF Step, Ask, Assign, Select, Show, SetBlink, ClearAll, ClearWhileWaiting, At
<1>2. CASE Ask(t)
  BY <1>2, WillAnswer
<1>3. CASE ~Ask(t)
  BY <1>1, <1>3, StepDoes, WillGoOn
<1> QED
  BY <1>2, <1>3
--------------------------------------------------------------------------------
(* A call sets the display on its way.                                     *)

\* Between two calls the display is as it should be.
LEMMA WillNothing ==
  ASSUME Will(<<>>)
  PROVE  /\ mode = dmode
         /\ mode # "SETTING" => blinking = {}
         /\ life \in {"ready", "up"} =>
              (mode = "SETTING" /\ digits = AllBlank) \/ \A p \in Positions : digits[p] = Due(p)
<1>1. Range(<<>>) = {}
  BY Ranges
<1>2. ASSUME NEW p \in Positions, Right(Scene, digits[p], <<>>, p) PROVE digits[p] = Due(p)
  <2>1. Scene.due[p] = Due(p)
    BY DisplayAssumption DEF Scene
  <2> HIDE DEF Scene
  <2>2. Len(<<>>) = 0 /\ 1..0 = {}
    OBVIOUS
  <2>3. ~Settles(Scene, <<>>, p)
    BY <2>2 DEF Settles
  <2> QED
    BY <1>2, <2>1, <2>3 DEF Right
<1>3. Dark(<<>>) => mode = "SETTING" /\ digits = AllBlank
  BY <1>1 DEF Dark
<1> QED
  BY <1>1, <1>2, <1>3 DEF Will, SameMode

\* The programs that draw the time or a reading set the display on its way, and
\* so does the last one, that just clears it.
LEMMA WillUpdate ==
  ASSUME Programs, NEW t \in Threads, NEW x \in Orders, todo'[t] = <<x>>,
         mode' = dmode', mode' # "SETTING" => blinking' = {},
         \/ x[1] = "time?" /\ mode' # "STOPWATCH"
         \/ x[1] = "stopwatch?" /\ mode' = "STOPWATCH" /\ x[2] = reading'
         \/ x[1] = "clear" /\ life' = "closed"
  PROVE  Will(todo[t])'
<1> DEFINE s == <<x>>
<1>1. s \in Seq(Orders) /\ Range(s) = {x}
  BY Ranges
<1>2. s[1] = x /\ Len(s) = 1
  OBVIOUS
<1> HIDE DEF s
<1>3. SameMode(s, mode', dmode')
  BY <1>1, ModeKept
<1>4. mode' # "SETTING" => Calm(todo[t])' /\ \A p \in blinking' : <<"off", p>> \in Range(s)
  BY <1>1 DEF Calm, s
<1>5. ASSUME life' \in {"ready", "up"}, NEW p \in Positions PROVE Right(Scene', digits'[p], s, p)
  <2>1. Scene'.mode = mode' /\ Scene'.reading = reading'
    BY DEF Scene
  <2> HIDE DEF Scene
  <2>2. Hits(Scene', s, 1, p) /\ FineFrom(Scene', s, 1 + 1, p)
    BY <1>2, <1>5, <2>1 DEF Hits, FineFrom
  <2> QED
    BY <1>2, <2>2 DEF Right, Settles
<1> QED
  BY <1>3, <1>4, <1>5 DEF Will, s

\* So does a change of mode.
LEMMA WillChange ==
  ASSUME Programs, NEW t \in Threads, NEW m \in Modes, mode' = m, NEW s, todo'[t] = SetMode(m) \o s, Block(s),
         m # "SETTING" => /\ Only(s, {"time?", "reading?"})
                          /\ \A p \in Positions : Settles(Scene', s, p),
         m = "SETTING" => s = <<>>,
         blinking' \subseteq Positions
  PROVE  Will(todo[t])'
<1> DEFINE a == SetMode(m)
<1>1. Block(a) /\ Range(a \o s) = Range(a) \cup Range(s)
  BY SetModeBlock, RangeJoined
<1>2. /\ LedBy(a, m) /\ <<"clear", 0>> \in Range(a)
      /\ \A p \in Positions : <<"off", p>> \in Range(a)
      /\ Only(a, {"dmode", "clear", "position", "select", "off"} \cup (IF m = "SETTING" THEN {} ELSE {"show"}))
  BY SetModeIs
<1>3. Only(s, {"time?", "reading?"})
  BY OnlyParts
<1> HIDE DEF a
<1>4. LedBy(a \o s, m)
  BY <1>1, <1>2, <1>3, LedJoined DEF Only
<1>5. SameMode(todo'[t], mode', dmode')
  <2>1. <<"dmode", m>>[1] = "dmode" /\ <<"dmode", m>>[2] = m
    OBVIOUS
  <2> QED
    BY <1>4, <2>1 DEF SameMode, LedBy, a
<1>6. mode' # "SETTING" => Calm(todo[t])' /\ \A p \in blinking' : <<"off", p>> \in Range(todo'[t])
  BY <1>1, <1>2, <1>3 DEF Calm, Only, a
<1>7. CASE m = "SETTING"
  <2>1. Range(a \o s) = Range(a)
    BY <1>1, <1>7, Ranges
  <2>2. Dark(todo[t])'
    BY <1>2, <1>7, <2>1 DEF Dark, Only, Questions, a
  <2> QED
    BY <1>5, <1>6, <2>2 DEF Will
<1>8. CASE m # "SETTING"
  <2>1. \A p \in Positions : Settles(Scene', a \o s, p)
    BY <1>1, <1>8, Joined
  <2>2. \A p \in Positions : Right(Scene', digits'[p], todo'[t], p)
    BY <2>1 DEF Right, a
  <2> QED
    BY <1>5, <1>6, <2>2 DEF Will
<1> QED
  BY <1>7, <1>8

\* What follows a change of mode, and what a call gives an idle thread to do.
Then(m) == CASE m = "NORMAL"    -> UpdateTime
             [] m = "SETTING"   -> <<>>
             [] m = "STOPWATCH" -> UpdateReading

Gives(s) ==
  \/ s = UpdateTime /\ mode # "STOPWATCH" /\ UNCHANGED mode
  \/ s = UpdateStopwatch(reading') /\ mode = "STOPWATCH" /\ UNCHANGED mode
  \/ s = Clear /\ life' = "closed" /\ UNCHANGED mode
  \/ s = SetMode(mode') \o Then(mode') /\ mode' \in Modes /\ UNCHANGED reading

LEMMA WillCall ==
  ASSUME TypeOK, Programs, Will(<<>>), reading' \in Readings,
         NEW t \in Threads, NEW s, todo'[t] = s, Gives(s), UNCHANGED <<device, statics>>
  PROVE  Will(todo[t])'
<1>1. mode = dmode /\ (mode # "SETTING" => blinking = {}) /\ dmode' = dmode /\ blinking' = blinking
  BY WillNothing DEF statics, device
<1>2. /\ <<"time?", 0>> \in Orders /\ <<"time?", 0>>[1] = "time?"
      /\ <<"clear", 0>> \in Orders /\ <<"clear", 0>>[1] = "clear"
  BY DEF Orders
<1>3. ASSUME NEW n \in Readings
      PROVE  <<"stopwatch?", n>> \in Orders /\ <<"stopwatch?", n>>[1] = "stopwatch?" /\ <<"stopwatch?", n>>[2] = n
  BY DEF Orders
<1>4. CASE s = UpdateTime /\ mode # "STOPWATCH" /\ UNCHANGED mode
  BY <1>1, <1>2, <1>4, WillUpdate DEF UpdateTime
<1>5. CASE s = UpdateStopwatch(reading') /\ mode = "STOPWATCH" /\ UNCHANGED mode
  BY <1>1, <1>3, <1>5, WillUpdate DEF UpdateStopwatch
<1>6. CASE s = Clear /\ life' = "closed" /\ UNCHANGED mode
  BY <1>1, <1>2, <1>6, WillUpdate DEF Clear
<1>7. CASE s = SetMode(mode') \o Then(mode') /\ mode' \in Modes /\ UNCHANGED reading
  <2> DEFINE then == Then(mode')
             m == mode'
  <2>1. reading \in Readings /\ blinking' \subseteq Positions
    BY <1>1 DEF TypeOK
  <2>2. Block(then) /\ (m = "SETTING" => then = <<>>)
    BY <1>7, <2>1, NoBlock, StepBlocks DEF Modes, Then
  <2>3. m # "SETTING" => Only(then, {"time?", "reading?"})
    <3> DEFINE K == {"time?", "reading?"}
    <3>1. <<"time?", 0>>[1] \in K /\ <<"reading?", 0>>[1] \in K
      OBVIOUS
    <3> HIDE DEF K
    <3>2. Only(<<<<"time?", 0>>>>, K) /\ Only(<<<<"reading?", 0>>>>, K)
      BY <3>1, OnlyParts
    <3> QED
      BY <1>7, <3>2 DEF Modes, Then, UpdateTime, UpdateReading, K
  <2>4. ASSUME m # "SETTING", NEW p \in Positions PROVE Settles(Scene', then, p)
    <3>1. Scene'.mode = m /\ Scene'.reading = reading
      BY <1>7 DEF Scene
    <3> HIDE DEF Scene
    <3>2. CASE m = "NORMAL"
      BY <3>1, <3>2, UpdatesSettle DEF Then
    <3>3. CASE m = "STOPWATCH"
      BY <3>1, <3>3, UpdatesSettle DEF Then
    <3> QED
      BY <1>7, <2>4, <3>2, <3>3 DEF Modes
  <2>5. todo'[t] = SetMode(m) \o then /\ m \in Modes
    BY <1>7
  <2> HIDE DEF then
  <2> QED
    BY <2>1, <2>2, <2>3, <2>4, <2>5, WillChange
<1> QED
  BY <1>4, <1>5, <1>6, <1>7 DEF Gives

\* That is what every call does.
LEMMA Calls ==
  ASSUME TypeOK, life \in {"starting", "ready"} => mode = "NORMAL",
         \/ Start \/ Increment \/ StopwatchKey \/ Refresh \/ Close
         \/ \E m \in Modes : ChangeMode(m)
  PROVE  /\ UNCHANGED <<device, statics, faults>>
         /\ life' \in {"starting", "ready"} => mode' = "NORMAL"
         /\ \/ todo' = todo /\ life = "ready" /\ life' = "up" /\ UNCHANGED clock
            \/ \E t \in Threads : \E s :
                 Idle(t) /\ todo' = [todo EXCEPT ![t] = s] /\ s # <<>> /\ Gives(s)
<1>1. UpdateTime # <<>> /\ Clear # <<>> /\ \A n : UpdateStopwatch(n) # <<>>
  BY DEF UpdateTime, Clear, UpdateStopwatch
<1>2. "main" \in Threads /\ "timer" \in Threads
  BY DEF Threads
<1>3. CASE Start
  <2>1. Idle("main") /\ UNCHANGED <<device, statics, clock, faults>> /\ mode = "NORMAL" /\ mode' = mode
    BY <1>3 DEF Start, clock
  <2>2. \/ life' = "ready" /\ todo' = [todo EXCEPT !["main"] = UpdateTime]
        \/ life = "ready" /\ life' = "up" /\ todo' = todo
    BY <1>3 DEF Start
  <2> QED
    BY <1>1, <1>2, <2>1, <2>2 DEF Gives
<1>4. ASSUME NEW t \in Threads, NEW s, s # <<>>, Call(t, s), life' \in {life, "closed"}
      PROVE  /\ UNCHANGED <<device, statics, faults>> /\ life' \notin {"starting", "ready"}
             /\ Idle(t) /\ todo' = [todo EXCEPT ![t] = s]
  BY <1>4 DEF Call
<1>5. CASE \E m \in Modes : ChangeMode(m)
  <2>1. PICK m \in Modes : ChangeMode(m)
    BY <1>5
  <2>2. mode' = m /\ Call("main", SetMode(m) \o Then(m)) /\ UNCHANGED <<reading, life>>
    BY <2>1 DEF ChangeMode, Then
  <2>3. SetMode(m) \o Then(m) # <<>>
    <3>1. Block(SetMode(m)) /\ LedBy(SetMode(m), m)
      BY SetModeBlock, SetModeIs
    <3>2. Block(Then(m))
      BY NoBlock, StepBlocks DEF Modes, TypeOK, Then
    <3>3. Len(SetMode(m)) > 0 /\ Len(SetMode(m) \o Then(m)) = Len(SetMode(m)) + Len(Then(m)) /\ Len(Then(m)) \in Nat
      BY <3>1, <3>2, ConcatProperties, EmptySeq DEF Block, LedBy
    <3>4. Len(SetMode(m) \o Then(m)) > 0
      BY <3>3
    <3> QED
      BY <3>4
  <2>4. Gives(SetMode(m) \o Then(m))
    BY <2>2 DEF Gives
  <2> QED
    BY <1>2, <1>4, <2>2, <2>3, <2>4
<1>6. CASE Increment
  <2>1. Call("main", UpdateTime) /\ mode = "SETTING" /\ UNCHANGED <<mode, life>>
    BY <1>6 DEF Increment
  <2> QED
    BY <1>1, <1>2, <1>4, <2>1 DEF Gives
<1>7. CASE StopwatchKey
  <2>1. PICK n \in {reading, 0} : reading' = n /\ Call("main", UpdateStopwatch(n))
    BY <1>7 DEF StopwatchKey
  <2>2. mode = "STOPWATCH" /\ UNCHANGED <<mode, life>>
    BY <1>7 DEF StopwatchKey
  <2> QED
    BY <1>1, <1>2, <1>4, <2>1, <2>2 DEF Gives
<1>8. CASE Refresh
  <2>1. UNCHANGED <<mode, life>>
    BY <1>8 DEF Refresh
  <2>2. \/ mode # "STOPWATCH" /\ Call("timer", UpdateTime)
        \/ mode = "STOPWATCH" /\ Call("timer", UpdateStopwatch(reading'))
    BY <1>8 DEF Refresh
  <2> QED
    BY <1>1, <1>2, <1>4, <2>1, <2>2 DEF Gives
<1>9. CASE Close
  <2>1. Call("main", Clear) /\ life' = "closed" /\ UNCHANGED mode
    BY <1>9 DEF Close, clock
  <2> QED
    BY <1>1, <1>2, <1>4, <2>1 DEF Gives
<1> QED
  BY <1>3, <1>5, <1>6, <1>7, <1>8, <1>9
--------------------------------------------------------------------------------
(* What the display shows in the end: the proof.                           *)

LEMMA DrawnInitially == ASSUME Init PROVE DInv
<1> DEFINE s == Clear \o Test \o Clear
           K == {"clear", "select", "show"}
<1>1. todo = [main |-> s, timer |-> <<>>] /\ life = "starting" /\ mode = "NORMAL" /\ dmode = "NORMAL" /\ blinking = {}
  BY DEF Init
<1>2. Block(Clear) /\ Block(Test) /\ Block(Clear \o Test) /\ Block(s)
  BY StepBlocks, DrawingBlocks, BlockThenBlock
<1>3. <<"clear", 0>>[1] \in K /\ "select" \in K /\ "show" \in K /\ "on" \notin K /\ "which?" \notin K /\ "dmode" \notin K
  OBVIOUS
<1> HIDE DEF K
<1>4. Only(Clear, K) /\ Only(Test, K)
  BY <1>3, OnlyParts, OnlyDrawing DEF Clear
<1>5. Only(s, K)
  <2>1. Only(Clear \o Test, K)
    BY <1>2, <1>4, OnlyJoined
  <2> QED
    BY <1>2, <1>4, <2>1, OnlyJoined
<1> HIDE DEF s
<1>6. todo["main"] = s /\ todo["timer"] = <<>>
  BY <1>1
<1>7. SameMode(s, mode, dmode) /\ Calm(s)
  <2>1. \A x \in Range(s) : x[1] \in K
    BY <1>5 DEF Only
  <2>2. \A x \in Range(s) : x[1] # "dmode" /\ x[1] \notin {"on", "which?"}
    BY <1>3, <2>1
  <2> QED
    BY <1>1, <1>2, <2>2, ModeKept DEF Calm, Block
<1>8. Will(todo["main"]) /\ Alone("main")
  BY <1>1, <1>6, <1>7 DEF Will, Alone, Threads, Idle
<1> QED
  BY <1>1, <1>8, Initially DEF DInv, Threads

LEMMA DrawnInductive == ASSUME DInv, [Next]_vars PROVE DInv'
<1>1. /\ TypeOK /\ Programs /\ IInv'
      /\ serial => \A t \in Threads : Aimed(t)
      /\ life \in {"starting", "ready"} => mode = "NORMAL"
      /\ serial /\ faults = 0 => \E t \in Threads : Alone(t) /\ Will(todo[t])
  BY Inductive DEF DInv, IInv, Programs
<1>2. ASSUME Watch, serial' PROVE serial /\ \E t \in Threads : todo'[t] = <<>>
  BY <1>2 DEF Watch
<1>3. ASSUME NEW t \in Threads, Step(t), Watch PROVE DInv'
  <2>1. todo[t] # <<>> /\ \A u \in Threads \ {t} : todo'[u] = todo[u]
    BY <1>1, <1>3, StepEffect
  <2>2. /\ UNCHANGED clock /\ life' \in {life, "closed"}
        /\ faults' = faults \/ faults' = faults + 1
    BY <1>3 DEF Step, Ask, Assign, Select, Show, SetBlink, ClearAll, ClearWhileWaiting, GiveUp, Fault
  <2>3. ASSUME serial', faults' = 0 PROVE Alone(t)' /\ Will(todo[t])'
    <3>1. faults' = faults /\ serial
      BY <1>1, <1>2, <1>3, <2>2, <2>3, DisplayAssumption DEF TypeOK
    <3>2. PICK u \in Threads : Alone(u) /\ Will(todo[u])
      BY <1>1, <2>3, <3>1
    <3>3. u = t
      BY <2>1, <3>2 DEF Alone, Idle
    <3>4. Will(todo[t])'
      BY <1>1, <1>3, <3>1, <3>2, <3>3, WillStep
    <3>5. Alone(t)'
      BY <2>1, <3>2, <3>3 DEF Alone, Idle
    <3> QED
      BY <3>4, <3>5
  <2> QED
    BY <1>1, <2>2, <2>3 DEF DInv, clock
<1>4. ASSUME \/ Start \/ Increment \/ StopwatchKey \/ Refresh \/ Close
             \/ \E m \in Modes : ChangeMode(m),
             Watch
      PROVE  DInv'
  <2>1. UNCHANGED <<device, statics, faults>> /\ (life' \in {"starting", "ready"} => mode' = "NORMAL")
    BY <1>1, <1>4, Calls
  <2>2. CASE todo' = todo /\ life = "ready" /\ life' = "up" /\ UNCHANGED clock
    <3>1. \A p : Due(p)' = Due(p)
      BY <2>2 DEF Due, TimeDigit, clock
    <3>2. Scene' = Scene
      BY <2>1, <2>2, <3>1 DEF Scene, clock, device
    <3>3. ASSUME NEW t \in Threads, Will(todo[t]) PROVE Will(todo[t])'
      <4>1. /\ SameMode(todo[t], mode, dmode)
            /\ mode # "SETTING" => Calm(todo[t]) /\ \A p \in blinking : <<"off", p>> \in Range(todo[t])
            /\ Dark(todo[t]) \/ \A p \in Positions : Right(Scene, digits[p], todo[t], p)
        BY <2>2, <3>3 DEF Will
      <4>2. mode' = mode /\ dmode' = dmode /\ blinking' = blinking /\ digits' = digits /\ todo' = todo
        BY <2>1, <2>2 DEF device, statics, clock
      <4>3. Dark(todo[t]) => Dark(todo[t])'
        BY <4>2 DEF Dark, AllBlank
      <4>4. Calm(todo[t]) => Calm(todo[t])'
        BY <4>2 DEF Calm
      <4> QED
        BY <3>2, <4>1, <4>2, <4>3, <4>4 DEF Will
    <3>4. \A t \in Threads : Alone(t) => Alone(t)'
      BY <2>2 DEF Alone, Idle
    <3>5. serial' /\ faults' = 0 => \E t \in Threads : Alone(t)' /\ Will(todo[t])'
      BY <1>1, <1>2, <1>4, <2>1, <3>3, <3>4
    <3> QED
      BY <1>1, <2>1, <3>5 DEF DInv
  <2>3. CASE \E t \in Threads : \E s : Idle(t) /\ todo' = [todo EXCEPT ![t] = s] /\ s # <<>> /\ Gives(s)
    <3> PICK t \in Threads : \E s : Idle(t) /\ todo' = [todo EXCEPT ![t] = s] /\ s # <<>> /\ Gives(s)
      BY <2>3
    <3>1. PICK s : Idle(t) /\ todo' = [todo EXCEPT ![t] = s] /\ s # <<>> /\ Gives(s)
      OBVIOUS
    <3>2. todo'[t] = s /\ \A u \in Threads \ {t} : todo'[u] = todo[u]
      BY <1>1, <3>1 DEF Programs
    <3>3. ASSUME serial', faults' = 0 PROVE Alone(t)' /\ Will(todo[t])'
      <4>1. serial /\ faults = 0 /\ \E u \in Threads : todo'[u] = <<>>
        BY <1>2, <1>4, <2>1, <3>3
      <4>2. \A u \in Threads : todo[u] = <<>>
        BY <3>1, <3>2, <4>1 DEF Threads, Idle
      <4>3. Will(<<>>)
        BY <1>1, <4>1, <4>2
      <4>4. reading' \in Readings
        BY <1>1 DEF IInv, TypeOK
      <4>5. Will(todo[t])'
        BY <1>1, <2>1, <3>1, <3>2, <4>3, <4>4, WillCall
      <4> QED
        BY <3>2, <4>2, <4>5 DEF Alone, Idle
    <3> QED
      BY <1>1, <2>1, <3>3 DEF DInv
  <2> QED
    BY <1>1, <1>4, <2>2, <2>3, Calls
<1>5. CASE UNCHANGED vars
  <2>1. /\ selected' = selected /\ digits' = digits /\ blinking' = blinking /\ dmode' = dmode /\ mode' = mode
        /\ time' = time /\ reading' = reading /\ todo' = todo /\ life' = life /\ faults' = faults /\ serial' = serial
    BY <1>5 DEF vars, device, statics, clock
  <2>2. \A p : Due(p)' = Due(p)
    BY <2>1 DEF Due, TimeDigit
  <2>3. Scene' = Scene
    BY <2>1, <2>2 DEF Scene
  <2>4. \A t \in Threads : Will(todo[t]) => Will(todo[t])'
    BY <2>1, <2>3 DEF Will, Calm, Dark, AllBlank
  <2>5. \A t \in Threads : Alone(t) => Alone(t)'
    BY <2>1 DEF Alone, Idle
  <2> QED
    BY <1>1, <2>1, <2>4, <2>5 DEF DInv
<1> QED
  BY <1>3, <1>4, <1>5 DEF Next

\* As long as the threads have not overlapped and no access has failed, the
\* display shows between two calls the digits that are due, and nothing blinks but
\* in the SETTING mode: display_set_mode and the two updates draw all there is.
THEOREM DrawnHolds == Spec => []Drawn
<1>1. DInv /\ [Next]_vars => DInv'
  BY DrawnInductive
<1>2. DInv => Drawn
  <2> SUFFICES ASSUME DInv, serial, faults = 0, life = "up", Idle("main"), Idle("timer")
               PROVE  /\ (mode = "SETTING" /\ digits = AllBlank) \/ \A p \in Positions : digits[p] = Due(p)
                      /\ mode # "SETTING" => blinking = {}
    BY DEF Drawn
  <2>1. Will(<<>>)
    BY DEF DInv, Idle, Threads
  <2> QED
    BY <2>1, WillNothing
<1> QED
  BY <1>1, <1>2, DrawnInitially, PTL DEF Spec
================================================================================
