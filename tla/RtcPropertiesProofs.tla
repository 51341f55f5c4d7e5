-------------------------- MODULE RtcPropertiesProofs --------------------------
(***************************************************************************)
(* Proofs about RtcDriver and RtcProperties, for any times, any number of  *)
(* seconds and any number of calls: the types, what a set leaves in the    *)
(* chip, and how far the time kept by hand can run ahead.                  *)
(***************************************************************************)
EXTENDS RtcProperties, TLAPS

--------------------------------------------------------------------------------
(* The invariant.                                                          *)

\* Three bytes that hold a time of day in BCD.
BcdTime(r) == r \in {Bcd(t) : t \in {Decode(r)} \cap Time}

LocalsOK ==
  /\ loc \in [for : {"none", "init", "chip", "cache"}, bytes : {loc.bytes},
              at : 0..MaxSec, arg : Time, ctrl : Control]
  /\ BcdTime(loc.bytes)

\* The time is kept by hand from the first set on, never while rtc_init runs.
ByHand ==
  /\ pc \in {"init", "off"} \/ loc.for = "init" => ~manual
  /\ loc.for = "cache" => manual

\* The registers that have been written to a chip that stands still.
WrittenSoFar ==
  ctrl.halt /\ ~ctrl.wp =>
    /\ pc \in {"wminute", "whour", "resume"} => Decode(chip).second = loc.arg.second
    /\ pc \in {"whour", "resume"} => Decode(chip).minute = loc.arg.minute
    /\ pc = "resume" => Decode(chip).hour = loc.arg.hour

\* How far the seconds from the one reading to the other are.
Ahead(a, b) == (a - b) % 60

Setting == pc \in {"halt", "wsecond", "wminute", "whour", "undo", "resume"}
Looking == pc \in {"minute", "hour", "decode"} /\ loc.for = "cache"

\* What the kept time may have moved on by.
Allowance == (beats - setAt) + jolts * MaxJump + guesses

\* The seconds alone decide: a look that is believed moves the kept time on by
\* less than a minute, and so by what the seconds register moved on by, whatever
\* was torn in the minutes and hours.  What the next look could add by that is
\* still within the allowance; while rtc_set_time writes to the chip, MaxJump is.
Lead ==
  LET now  == Decode(chip).second
      seen == Decode(loc.bytes).second
  IN
    /\ setAt \in 0..beats /\ setTo \in Time /\ jolts \in Nat /\ guesses \in Nat
    /\ manual =>
         /\ Advance <= Allowance
         /\ Setting => Advance + MaxJump <= Allowance
         /\ ~Setting /\ Ahead(now, lastHw.second) <= MaxJump =>
              Advance + Ahead(now, lastHw.second) <= Allowance
         /\ Looking =>
              /\ Advance + Ahead(now, seen) <= Allowance
              /\ Ahead(seen, lastHw.second) <= MaxJump =>
                   Advance + Ahead(seen, lastHw.second) + Ahead(now, seen) <= Allowance

IInv == TypeOK /\ LocalsOK /\ ByHand /\ WrittenSoFar /\ Lead
--------------------------------------------------------------------------------
(* Bytes and times.                                                        *)

\* A number of two digits is what its BCD byte stands for.
LEMMA BcdRoundTrip ==
  ASSUME NEW n \in 0..59
  PROVE  /\ bin_to_bcd(n) \in 0..127
         /\ bcd_to_bin(bin_to_bcd(n) % 128) = n
         /\ n \in 0..23 => bcd_to_bin(bin_to_bcd(n) % 64) = n
  BY DEF bin_to_bcd, bcd_to_bin

LEMMA TimeFields ==
  ASSUME NEW t \in Time
  PROVE  /\ t.hour \in 0..23 /\ t.minute \in 0..59 /\ t.second \in 0..59
         /\ t = [hour |-> t.hour, minute |-> t.minute, second |-> t.second]
  BY DEF Time

LEMMA BcdFields ==
  ASSUME NEW t \in Time
  PROVE  Bcd(t) = [hour |-> bin_to_bcd(t.hour), minute |-> bin_to_bcd(t.minute),
                   second |-> bin_to_bcd(t.second)]
<1>1. DOMAIN t = {"hour", "minute", "second"}
  BY DEF Time
<1> QED
  BY <1>1 DEF Bcd

\* What is written to the time registers is what is read back from them.
LEMMA DecodeBcd ==
  ASSUME NEW t \in Time
  PROVE  Decode(Bcd(t)) = t /\ BcdTime(Bcd(t))
<1>1. Decode(Bcd(t)) = [second |-> t.second, minute |-> t.minute, hour |-> t.hour]
  BY TimeFields, BcdFields, BcdRoundTrip DEF Decode
<1>2. Decode(Bcd(t)) = t
  BY <1>1, TimeFields
<1> QED
  BY <1>2 DEF BcdTime

LEMMA BcdTimeIs ==
  ASSUME NEW r, BcdTime(r)
  PROVE  Decode(r) \in Time /\ r = Bcd(Decode(r))
  BY DEF BcdTime

\* One field of a time, or one register, gets another value.
Put(r, f, v) == [r EXCEPT ![f] = v]

\* A register that is written, or a byte that is read, leaves the others as they are.
LEMMA PutBcd ==
  ASSUME NEW t \in Time, NEW a \in Time, NEW f \in {"hour", "minute", "second"}
  PROVE  /\ Put(t, f, a[f]) \in Time
         /\ Put(Bcd(t), f, bin_to_bcd(a[f])) = Bcd(Put(t, f, a[f]))
<1> DEFINE r == Bcd(t)
           u == [t EXCEPT ![f] = a[f]]
<1>1. u \in Time
  BY TimeFields DEF Time
<1>2. r = [hour |-> bin_to_bcd(t.hour), minute |-> bin_to_bcd(t.minute), second |-> bin_to_bcd(t.second)]
  BY BcdFields
<1>3. Bcd(u) = [hour |-> bin_to_bcd(u.hour), minute |-> bin_to_bcd(u.minute), second |-> bin_to_bcd(u.second)]
  BY <1>1, BcdFields
<1>4. t = [hour |-> t.hour, minute |-> t.minute, second |-> t.second]
  BY TimeFields
<1>5. [r EXCEPT ![f] = bin_to_bcd(a[f])] = Bcd(u)
  <2>1. CASE f = "hour"
    BY <1>2, <1>3, <1>4, <2>1
  <2>2. CASE f = "minute"
    BY <1>2, <1>3, <1>4, <2>2
  <2>3. CASE f = "second"
    BY <1>2, <1>3, <1>4, <2>3
  <2> QED
    BY <2>1, <2>2, <2>3
<1> QED
  BY <1>1, <1>5 DEF Put

LEMMA PutByte ==
  ASSUME NEW r, BcdTime(r), NEW a \in Time, NEW f \in {"hour", "minute", "second"}
  PROVE  /\ BcdTime(Put(r, f, bin_to_bcd(a[f])))
         /\ Decode(Put(r, f, bin_to_bcd(a[f]))) = Put(Decode(r), f, a[f])
<1> DEFINE t == Decode(r)
           u == Put(t, f, a[f])
<1>1. t \in Time /\ r = Bcd(t)
  BY BcdTimeIs
<1> HIDE DEF t
<1>2. u \in Time /\ Put(r, f, bin_to_bcd(a[f])) = Bcd(u)
  BY <1>1, PutBcd
<1> HIDE DEF u
<1>3. BcdTime(Bcd(u)) /\ Decode(Bcd(u)) = u
  BY <1>2, DecodeBcd
<1> QED
  BY <1>2, <1>3 DEF u, t

\* Hours, minutes and seconds make up the seconds of the day, and the other way round.
LEMMA Sexagesimal ==
  ASSUME NEW n \in Int, 0 <= n, n < Day
  PROVE  /\ 0 <= n \div 3600 /\ n \div 3600 < 24
         /\ 3600 * (n \div 3600) + 60 * ((n \div 60) % 60) + (n % 60) = n
  BY SMT DEF Day

LEMMA SecsTimeAt ==
  ASSUME NEW n \in Int, 0 <= n, n < Day
  PROVE  TimeAt(n) \in Time /\ Secs(TimeAt(n)) = n /\ TimeAt(n).second = n % 60
<1> DEFINE h == n \div 3600   m == (n \div 60) % 60   s == n % 60
<1>1. h \in Int /\ 0 <= h /\ h < 24 /\ m \in Int /\ 0 <= m /\ m < 60 /\ s \in Int /\ 0 <= s /\ s < 60
  BY Sexagesimal, SMT
<1>2. TimeAt(n) = [hour |-> h, minute |-> m, second |-> s]
  BY DEF TimeAt
<1>3. 3600 * h + 60 * m + s = n
  BY Sexagesimal
<1> HIDE DEF h, m, s
<1>4. h \in 0..23 /\ m \in 0..59 /\ s \in 0..59
  BY <1>1, SMT
<1>5. TimeAt(n) \in Time
  BY <1>2, <1>4 DEF Time
<1>6. Secs(TimeAt(n)) = 3600 * h + 60 * m + s
  BY <1>2 DEF Secs
<1>7. TimeAt(n).second = s
  BY <1>2
<1> QED
  BY <1>3, <1>5, <1>6, <1>7 DEF s

LEMMA SecsInDay ==
  ASSUME NEW t \in Time
  PROVE  Secs(t) \in Int /\ 0 <= Secs(t) /\ Secs(t) < Day /\ Secs(t) % 60 = t.second
<1> DEFINE h == t.hour   m == t.minute   s == t.second
           n == 3600 * h + 60 * m + s
<1>1. h \in Int /\ 0 <= h /\ h < 24 /\ m \in Int /\ 0 <= m /\ m < 60 /\ s \in Int /\ 0 <= s /\ s < 60
  BY TimeFields, SMT
<1> HIDE DEF h, m, s
<1>2. n \in Int /\ 0 <= n /\ n < Day
  BY <1>1, SMT DEF Day
<1>3. n % 60 = s
  BY <1>1, SMT
<1>4. Secs(t) = n
  BY DEF Secs, h, m, s
<1> QED
  BY <1>2, <1>3, <1>4 DEF s

\* A second later the seconds register shows the next second.
LEMMA NextSecond ==
  ASSUME NEW x \in Int, 0 <= x, x < Day
  PROVE  LET y == (x + 1) % Day
         IN  y \in Int /\ 0 <= y /\ y < Day /\ y % 60 = ((x % 60) + 1) % 60
  BY SMT DEF Day

\* A time n seconds on is at most n seconds further from where it was.
LEMMA AtMostOn ==
  ASSUME NEW c \in Int, NEW s \in Int, NEW n \in Int
  PROVE  LET y == (c + n) % Day
         IN  /\ y \in Int /\ 0 <= y /\ y < Day
             /\ (y - s) % Day \in Int /\ 0 <= (y - s) % Day
             /\ 0 <= n => (y - s) % Day <= ((c - s) % Day) + n
  BY SMT DEF Day

\* Two times of day less than a minute apart are as far apart as their seconds.
LEMMA WithinMinute ==
  ASSUME NEW x \in Int, NEW y \in Int
  PROVE  LET d == (x - y) % Day
         IN  d \in Int /\ 0 <= d /\ (d < 60 => d = Ahead(x % 60, y % 60))
  BY SMT DEF Day, Ahead

\* How far one seconds register is ahead of another, of itself, and a second later.
LEMMA AheadIs ==
  ASSUME NEW a \in Int, NEW b \in Int
  PROVE  /\ Ahead(a, b) \in Int /\ 0 <= Ahead(a, b) /\ Ahead(a, b) < 60 /\ Ahead(a, a) = 0
         /\ Ahead((a + 1) % 60, b) = Ahead(a, b) + 1 \/ Ahead((a + 1) % 60, b) = 0
  BY SMT DEF Ahead
--------------------------------------------------------------------------------
(* Type correctness.                                                       *)

Registers == {"hour", "minute", "second"}

LEMMA Zeros ==
  /\ Zero \in Time /\ NoBytes = Bcd(Zero) /\ BcdTime(NoBytes) /\ Decode(NoBytes) = Zero
<1>1. Zero \in Time /\ Zero.hour = 0 /\ Zero.minute = 0 /\ Zero.second = 0
  BY DEF Zero, Time
<1>2. bin_to_bcd(0) = 0
  BY SMT DEF bin_to_bcd
<1>3. NoBytes = Bcd(Zero)
  BY <1>1, <1>2, BcdFields DEF NoBytes
<1> QED
  BY <1>1, <1>3, DecodeBcd

LEMMA NoLocalsOK ==
  /\ NoLocals \in [for : {"none", "init", "chip", "cache"}, bytes : {NoBytes},
                   at : 0..MaxSec, arg : Time, ctrl : Control]
  /\ NoLocals.bytes = NoBytes /\ NoLocals.for = "none"
<1>1. 0 \in 0..MaxSec /\ Running \in Control
  BY RtcAssumption DEF Running, Control
<1> QED
  BY <1>1, Zeros DEF NoLocals

\* A returned call has left its locals in order.
LEMMA ReturnOK == ASSUME NEW from, Return(from) PROVE LocalsOK' /\ loc'.for = "none" /\ pc = from /\ pc' = "idle"
<1>1. loc' = NoLocals /\ pc = from /\ pc' = "idle"
  BY DEF Return, Goto
<1> QED
  BY <1>1, NoLocalsOK, Zeros DEF LocalsOK, BcdTime

\* A register that is read adds its byte to those read before.
LEMMA ReadEffect ==
  ASSUME BcdTime(chip), LocalsOK, NEW from, NEW f \in Registers, NEW to, ReadByte(from, f, to)
  PROVE  /\ LocalsOK' /\ pc = from /\ UNCHANGED <<world, statics>>
         /\ \/ /\ pc' = to /\ loc'.for = loc.for /\ out' = out
               /\ Decode(loc'.bytes) = Put(Decode(loc.bytes), f, Decode(chip)[f])
            \/ /\ pc' = "idle" /\ loc'.for = "none" /\ out' \in {cache, out}
<1>1. CASE Goto(from, to) /\ loc' = [loc EXCEPT !.bytes[f] = chip[f]] /\ UNCHANGED out
  <2> DEFINE p == Put(loc.bytes, f, chip[f])
  <2>1. Decode(chip) \in Time /\ chip = Bcd(Decode(chip))
    BY BcdTimeIs
  <2>2. chip[f] = bin_to_bcd(Decode(chip)[f])
    BY <2>1, BcdFields DEF Registers
  <2>3. BcdTime(p) /\ Decode(p) = Put(Decode(loc.bytes), f, Decode(chip)[f])
    BY <2>1, <2>2, PutByte DEF LocalsOK, Registers
  <2>4. loc' = [loc EXCEPT !.bytes = p]
    BY <1>1 DEF Put
  <2> HIDE DEF p
  <2>5. /\ loc' \in [for : {"none", "init", "chip", "cache"}, bytes : {p},
                     at : 0..MaxSec, arg : Time, ctrl : Control]
        /\ loc'.bytes = p /\ loc'.for = loc.for
    <3>1. loc \in [for : {"none", "init", "chip", "cache"}, bytes : {loc.bytes},
                   at : 0..MaxSec, arg : Time, ctrl : Control]
      BY DEF LocalsOK
    <3> QED
      BY <2>4, <3>1
  <2>6. LocalsOK'
    BY <2>3, <2>5 DEF LocalsOK, BcdTime
  <2> QED
    BY <1>1, <2>3, <2>5, <2>6 DEF ReadByte, Goto
<1>2. CASE Return(from) /\ out' = IF loc.for = "cache" THEN cache ELSE out
  BY <1>2, ReturnOK DEF ReadByte
<1> QED
  BY <1>1, <1>2 DEF ReadByte

\* A register that is written, or not, if the chip is protected or the write fails.
LEMMA WriteEffect ==
  ASSUME TypeOK, LocalsOK, NEW from, NEW f \in Registers, NEW to, WriteByte(from, f, to)
  PROVE  /\ BcdTime(chip') /\ pc = from /\ pc' \in {to, "undo"}
         /\ UNCHANGED <<ctrl, beats, mono, statics, loc, out>>
         /\ pc' = to /\ ~ctrl.wp /\ to # "undo" =>
              Decode(chip') = Put(Decode(chip), f, loc.arg[f])
<1> DEFINE patched == Put(chip, f, bin_to_bcd(loc.arg[f]))
           written == IF ctrl.wp THEN chip ELSE patched
<1>1. BcdTime(patched) /\ Decode(patched) = Put(Decode(chip), f, loc.arg[f])
  <2>1. BcdTime(chip) /\ loc.arg \in Time
    BY DEF TypeOK, BcdTime, LocalsOK
  <2> QED
    BY <2>1, PutByte DEF Registers
<1>2. BcdTime(chip)
  BY DEF TypeOK, BcdTime
<1>3. \/ pc = from /\ pc' = to /\ chip' = written
      \/ pc = from /\ pc' = "undo" /\ chip' \in {chip, written}
  BY DEF WriteByte, Goto, Put
<1>4. UNCHANGED <<ctrl, beats, mono, statics, loc, out>>
  BY DEF WriteByte
<1> HIDE DEF patched
<1> QED
  BY <1>1, <1>2, <1>3, <1>4

\* The kept time that is moved on is a time of day.
LEMMA MovedOn ==
  ASSUME cache \in Time, NEW n \in Int
  PROVE  Moved(n) \in Time /\ Secs(Moved(n)) = (Secs(cache) + n) % Day
  BY SecsInDay, SecsTimeAt, AtMostOn DEF Moved

LEMMA ElapsedIs ==
  ASSUME NEW hw \in Time, lastHw \in Time
  PROVE  Elapsed(hw) \in Int /\ 0 <= Elapsed(hw)
<1> DEFINE d == (Secs(hw) - Secs(lastHw)) % Day
<1>1. d \in Int /\ 0 <= d
  BY SecsInDay, WithinMinute
<1>2. Elapsed(hw) = IF lastHw = Zero \/ d > MaxJump THEN 1 ELSE d
  BY DEF Elapsed
<1> HIDE DEF d
<1> QED
  BY <1>1, <1>2
\* The chip's next second.
LEMMA TickEffect ==
  ASSUME BcdTime(chip)
  PROVE  LET n == (Secs(Decode(chip)) + 1) % Day
         IN  /\ BcdTime(Bcd(TimeAt(n))) /\ Decode(Bcd(TimeAt(n))) = TimeAt(n)
             /\ TimeAt(n).second = (Decode(chip).second + 1) % 60
<1> DEFINE x == Secs(Decode(chip))
           n == (x + 1) % Day
<1>1. x \in Int /\ 0 <= x /\ x < Day /\ x % 60 = Decode(chip).second
  BY BcdTimeIs, SecsInDay
<1>2. n \in Int /\ 0 <= n /\ n < Day /\ n % 60 = ((x % 60) + 1) % 60
  <2> HIDE DEF x
  <2> QED
    BY <1>1, NextSecond
<1>3. TimeAt(n) \in Time /\ TimeAt(n).second = (Decode(chip).second + 1) % 60
  <2> HIDE DEF n
  <2>1. TimeAt(n) \in Time /\ TimeAt(n).second = n % 60
    BY <1>2, SecsTimeAt
  <2> QED
    BY <1>1, <1>2, <2>1
<1> QED
  <2> HIDE DEF n
  <2>1. BcdTime(Bcd(TimeAt(n))) /\ Decode(Bcd(TimeAt(n))) = TimeAt(n)
    BY <1>3, DecodeBcd
  <2> QED
    BY <1>3, <2>1 DEF n

LEMMA TypeStep == ASSUME TypeOK, LocalsOK, [Next]_vars PROVE TypeOK' /\ LocalsOK'
<1> USE DEF Labels
<1>1. BcdTime(chip) /\ Decode(loc.bytes) \in Time
  BY BcdTimeIs DEF TypeOK, LocalsOK, BcdTime
<1>2. loc \in [for : {"none", "init", "chip", "cache"}, bytes : {loc.bytes},
               at : 0..MaxSec, arg : Time, ctrl : Control] /\ BcdTime(loc.bytes)
  BY DEF LocalsOK
<1>3. CASE RtcInit
  <2>1. loc' = [loc EXCEPT !.for = "init"] \/ loc' = loc
    BY <1>3 DEF RtcInit
  <2>2. LocalsOK'
    BY <1>2, <2>1 DEF LocalsOK, BcdTime
  <2>3. Running \in Control
    BY DEF Running, Control
  <2> QED
    BY <1>3, <2>2, <2>3 DEF RtcInit, Goto, TypeOK, statics
<1>4. CASE Get
  <2>1. LocalsOK'
    <3>1. CASE \/ loc' = [loc EXCEPT !.for = "chip"]
               \/ loc' = [loc EXCEPT !.for = "cache", !.at = mono]
      BY <1>2, <3>1 DEF LocalsOK, BcdTime, TypeOK
    <3>2. CASE Return("idle")
      BY <3>2, ReturnOK
    <3> QED
      BY <1>4, <3>1, <3>2 DEF Get
  <2>2. pc' \in {"idle", "second"} /\ out' \in Time
    BY <1>4, Zeros DEF Get, Goto, Return, TypeOK
  <2> QED
    BY <1>4, <2>1, <2>2 DEF Get, TypeOK, statics, world
<1>5. ASSUME NEW t \in SetTimes, Set(t) PROVE TypeOK' /\ LocalsOK'
  <2>1. LocalsOK'
    BY <1>2, <1>5 DEF Set, LocalsOK, BcdTime
  <2> QED
    BY <1>5, <2>1, Zeros DEF Set, Goto, TypeOK, statics, world
<1>6. ASSUME NEW f \in Registers, NEW from, NEW to \in Labels, ReadByte(from, f, to)
      PROVE  TypeOK' /\ LocalsOK'
  <2>1. LocalsOK' /\ UNCHANGED <<world, statics>> /\ pc' \in {to, "idle"} /\ out' \in {cache, out}
    BY <1>1, <1>6, ReadEffect
  <2> QED
    BY <2>1 DEF TypeOK, statics, world
<1>7. CASE UseTime
  <2>1. LocalsOK' /\ pc' = "idle" /\ UNCHANGED world
    BY <1>7, ReturnOK DEF UseTime
  <2>2. Moved(Elapsed(Decode(loc.bytes))) \in Time
    BY <1>1, ElapsedIs, MovedOn DEF TypeOK
  <2>3. /\ cache' \in Time /\ out' \in Time /\ lastHw' \in Time
        /\ manual' = manual /\ lastRead' \in 0..MaxSec
    BY <1>1, <1>2, <1>7, <2>2 DEF UseTime, TypeOK, statics
  <2> QED
    BY <2>1, <2>3 DEF TypeOK, world
<1>8. CASE Halt
  <2>1. PICK c \in Control : loc' = [loc EXCEPT !.ctrl = c] /\ ctrl' \in {ctrl, c}
    <3>1. ASSUME NEW c \in {ctrl, AllSet} PROVE [c EXCEPT !.halt = TRUE] \in Control
      <4>1. c \in Control
        <5>1. ctrl \in Control
          BY DEF TypeOK
        <5>2. AllSet \in Control
          BY DEF AllSet, Control
        <5> QED
          BY <5>1, <5>2
      <4> QED
        BY <4>1 DEF Control
    <3> QED
      BY <1>8, <3>1 DEF Halt
  <2>2. LocalsOK' /\ ctrl' \in Control
    BY <1>2, <2>1 DEF LocalsOK, BcdTime, TypeOK
  <2> QED
    BY <1>8, <2>2 DEF Halt, Goto, TypeOK, statics
<1>9. ASSUME NEW f \in Registers, NEW from, NEW to \in Labels, WriteByte(from, f, to)
      PROVE  TypeOK' /\ LocalsOK'
  <2>1. BcdTime(chip') /\ pc' \in {to, "undo"} /\ UNCHANGED <<ctrl, beats, mono, statics, loc, out>>
    BY <1>9, WriteEffect
  <2>2. LocalsOK'
    BY <2>1 DEF LocalsOK, BcdTime
  <2>3. chip' \in {Bcd(t) : t \in {Decode(chip')} \cap Time}
    BY <2>1 DEF BcdTime
  <2> HIDE DEF Registers
  <2> QED
    BY <2>1, <2>2, <2>3 DEF TypeOK, statics
<1>10. ASSUME Restart PROVE ctrl' \in Control
  <2>1. [loc.ctrl EXCEPT !.halt = FALSE] \in Control
    BY <1>2 DEF Control
  <2> QED
    BY <1>10, <2>1 DEF Restart, TypeOK
<1>11. CASE Undo
  BY <1>10, <1>11, ReturnOK DEF Undo, TypeOK, statics
<1>12. CASE Resume
  BY <1>2, <1>10, <1>12, ReturnOK DEF Resume, TypeOK, statics
<1>13. CASE ChipTick
  <2>1. BcdTime(chip')
    BY <1>1, <1>13, TickEffect DEF ChipTick
  <2>2. LocalsOK'
    BY <1>13 DEF ChipTick, LocalsOK, BcdTime
  <2>3. beats' \in 0..MaxSec
    BY <1>13, RtcAssumption DEF ChipTick, TypeOK
  <2> QED
    BY <1>13, <2>1, <2>2, <2>3 DEF ChipTick, TypeOK, statics, BcdTime
<1>14. CASE MonoTick
  <2>1. LocalsOK'
    BY <1>14 DEF MonoTick, LocalsOK, BcdTime
  <2>2. mono' \in 0..MaxSec
    BY <1>14, RtcAssumption DEF MonoTick, TypeOK
  <2> QED
    BY <1>14, <2>1, <2>2 DEF MonoTick, TypeOK, statics
<1>15. CASE UNCHANGED vars
  BY <1>15 DEF vars, world, statics, TypeOK, LocalsOK, BcdTime
<1> QED
  BY <1>3, <1>4, <1>5, <1>6, <1>7, <1>8, <1>9, <1>11, <1>12, <1>13, <1>14, <1>15
     DEF Next, Driver, ReadSecond, ReadMinute, ReadHour, WriteSecond, WriteMinute, WriteHour, Registers
\* The types hold in every run of the driver.
LEMMA TypeInit == ASSUME Init PROVE TypeOK /\ LocalsOK
<1>1. \A t \in StartTimes : BcdTime(Bcd(t))
  BY RtcAssumption, DecodeBcd
<1>2. BcdTime(chip)
  BY <1>1 DEF Init
<1>3. LocalsOK
  BY NoLocalsOK, Zeros DEF Init, LocalsOK
<1>4. 0 \in 0..MaxSec
  BY RtcAssumption
<1> QED
  BY <1>2, <1>3, <1>4, Zeros DEF Init, TypeOK, Labels, BcdTime

\* The time registers always hold two BCD digits each of a time of day, and the
\* kept time, carries done, is one too, whatever was read torn or not at all.
THEOREM TypeCorrect == Spec => []TypeOK
<1>1. TypeOK /\ LocalsOK /\ [Next]_vars => TypeOK' /\ LocalsOK'
  BY TypeStep
<1> QED
  BY <1>1, TypeInit, PTL DEF Spec
--------------------------------------------------------------------------------
(* What a set leaves in the chip.                                          *)

\* Which branch a call is in agrees with whether the time was set by hand.
LEMMA ByHandStep ==
  ASSUME TypeOK, LocalsOK, ByHand, [Next]_vars
  PROVE  ByHand'
<1>1. loc.for \in {"none", "init", "chip", "cache"}
  BY DEF LocalsOK
<1>2. CASE RtcInit
  BY <1>1, <1>2 DEF RtcInit, ByHand, Goto, statics, LocalsOK
<1>3. CASE Get
  BY <1>1, <1>3, ReturnOK DEF Get, ByHand, Goto, statics, LocalsOK
<1>4. ASSUME NEW t \in SetTimes, Set(t) PROVE ByHand'
  BY <1>1, <1>4 DEF Set, ByHand, Goto, statics, LocalsOK
<1>5. ASSUME NEW f \in Registers, NEW from, NEW to \in Labels \ {"init", "off"}, ReadByte(from, f, to)
      PROVE  ByHand'
  BY <1>5, ReadEffect DEF TypeOK, BcdTime, ByHand, statics
<1>6. CASE UseTime
  BY <1>1, <1>6, ReturnOK DEF UseTime, ByHand, statics
<1>7. CASE Halt
  <2>1. loc'.for = loc.for
    BY <1>7 DEF Halt, LocalsOK
  <2> QED
    BY <1>7, <2>1 DEF Halt, ByHand, Goto, statics
<1>8. ASSUME NEW f \in Registers, NEW from, NEW to \in Labels \ {"init", "off"}, WriteByte(from, f, to)
      PROVE  ByHand'
  BY <1>8, WriteEffect DEF ByHand, statics
<1>9. CASE Undo \/ Resume
  BY <1>9, ReturnOK DEF Undo, Resume, ByHand, statics
<1>10. CASE ChipTick \/ MonoTick \/ UNCHANGED vars
  BY <1>10 DEF ChipTick, MonoTick, vars, statics, ByHand
<1> QED
  BY <1>2, <1>3, <1>4, <1>5, <1>6, <1>7, <1>8, <1>9, <1>10
     DEF Next, Driver, ReadSecond, ReadMinute, ReadHour, WriteSecond, WriteMinute, WriteHour,
         Registers, Labels

\* A chip that stands still keeps the registers that were written.
LEMMA WrittenStep ==
  ASSUME TypeOK, LocalsOK, WrittenSoFar, [Next]_vars
  PROVE  WrittenSoFar'
<1> DEFINE Writing == {"wminute", "whour", "resume"}
<1>1. BcdTime(chip) /\ Decode(chip) \in Time /\ loc.arg \in Time
  BY BcdTimeIs DEF TypeOK, BcdTime, LocalsOK
<1>2. CASE pc' \notin Writing
  BY <1>2 DEF WrittenSoFar
<1>3. CASE WriteSecond
  <2>1. \/ pc' = "undo"
        \/ ctrl'.wp
        \/ pc' = "wminute" /\ Decode(chip') = Put(Decode(chip), "second", loc.arg.second) /\ loc' = loc
    BY <1>3, WriteEffect DEF WriteSecond, Registers
  <2>2. Put(Decode(chip), "second", loc.arg.second).second = loc.arg.second
    BY <1>1, TimeFields DEF Put
  <2> QED
    BY <2>1, <2>2 DEF WrittenSoFar
<1>4. CASE WriteMinute
  <2>1. \/ pc' = "undo"
        \/ ctrl'.wp
        \/ /\ pc = "wminute" /\ pc' = "whour" /\ loc' = loc /\ ctrl' = ctrl
           /\ Decode(chip') = Put(Decode(chip), "minute", loc.arg.minute)
    BY <1>4, WriteEffect DEF WriteMinute, Registers
  <2>2. /\ Put(Decode(chip), "minute", loc.arg.minute).minute = loc.arg.minute
        /\ Put(Decode(chip), "minute", loc.arg.minute).second = Decode(chip).second
    BY <1>1, TimeFields DEF Put
  <2> QED
    BY <2>1, <2>2 DEF WrittenSoFar
<1>5. CASE WriteHour
  <2>1. \/ pc' = "undo"
        \/ ctrl'.wp
        \/ /\ pc = "whour" /\ pc' = "resume" /\ loc' = loc /\ ctrl' = ctrl
           /\ Decode(chip') = Put(Decode(chip), "hour", loc.arg.hour)
    BY <1>5, WriteEffect DEF WriteHour, Registers
  <2>2. /\ Put(Decode(chip), "hour", loc.arg.hour).hour = loc.arg.hour
        /\ Put(Decode(chip), "hour", loc.arg.hour).minute = Decode(chip).minute
        /\ Put(Decode(chip), "hour", loc.arg.hour).second = Decode(chip).second
    BY <1>1, TimeFields DEF Put
  <2> QED
    BY <2>1, <2>2 DEF WrittenSoFar
<1>6. CASE pc' = pc /\ ctrl' = ctrl /\ loc' = loc /\ (ctrl.halt => chip' = chip)
  BY <1>6 DEF WrittenSoFar
<1>7. ASSUME NEW from, NEW f, NEW to, to \notin Writing, ReadByte(from, f, to)
      PROVE  pc' \notin Writing
  BY <1>7 DEF ReadByte, Goto, Return
<1>8. CASE RtcInit \/ Get \/ (\E t \in SetTimes : Set(t)) \/ UseTime \/ Halt \/ Undo \/ Resume
  BY <1>8, <1>2 DEF RtcInit, Get, Set, UseTime, Halt, Undo, Resume, Goto, Return
<1>9. CASE ReadSecond \/ ReadMinute \/ ReadHour
  BY <1>9, <1>2, <1>7 DEF ReadSecond, ReadMinute, ReadHour
<1>10. CASE ChipTick \/ MonoTick \/ UNCHANGED vars
  BY <1>10, <1>6 DEF ChipTick, MonoTick, vars, world
<1> QED
  BY <1>3, <1>4, <1>5, <1>8, <1>9, <1>10 DEF Next, Driver
--------------------------------------------------------------------------------
(* How far the kept time can run ahead.                                    *)

\* What the seconds registers say, and the two sums that Lead compares.
LEMMA LeadNumbers ==
  ASSUME TypeOK, LocalsOK, Lead
  PROVE  /\ Decode(chip).second \in Int /\ lastHw.second \in Int /\ Decode(loc.bytes).second \in Int
         /\ cache \in Time /\ Advance \in Int /\ 0 <= Advance /\ Allowance \in Int
         /\ beats \in Int /\ setAt \in Int /\ jolts * MaxJump \in Int /\ MaxJump \in Int
         /\ 0 <= MaxJump /\ MaxJump < 60
<1>1. Decode(chip) \in Time /\ Decode(loc.bytes) \in Time /\ lastHw \in Time /\ cache \in Time
  BY BcdTimeIs DEF TypeOK, LocalsOK, BcdTime
<1>2. setTo \in Time /\ beats \in Int /\ setAt \in Int /\ jolts \in Nat /\ guesses \in Nat
  BY DEF Lead, TypeOK
<1>3. MaxJump \in Int /\ 0 <= MaxJump /\ MaxJump < 60
  BY RtcAssumption, SMT
<1>4. Advance \in Int /\ 0 <= Advance
  BY <1>1, <1>2, SecsInDay, WithinMinute DEF Advance
<1>5. jolts * MaxJump \in Int
  BY <1>2, <1>3
<1>6. Allowance \in Int
  BY <1>2, <1>5 DEF Allowance
<1> QED
  BY <1>1, <1>2, <1>3, <1>4, <1>5, <1>6, TimeFields

\* A step that is no set, no end of one and no guess.
LEMMA Unwatched ==
  ASSUME Watch, ~Sets, ~Done, ~Guesses
  PROVE  UNCHANGED <<setAt, setTo, jolts, guesses>>
  BY DEF Watch

\* A step that leaves both sums alone, and what the chip shows too unless it
\* is being set.
LEMMA LeadKept ==
  ASSUME Lead, UNCHANGED <<setAt, setTo, jolts, guesses, beats, manual, cache, lastHw>>,
         Setting' <=> Setting, Setting \/ Decode(chip') = Decode(chip), ~(Setting /\ Looking'),
         Looking' => Looking /\ Decode(loc'.bytes).second = Decode(loc.bytes).second
  PROVE  Lead'
<1>1. Advance' = Advance /\ Allowance' = Allowance
  BY DEF Advance, Allowance
<1> QED
  BY <1>1 DEF Lead

LEMMA LeadStep ==
  ASSUME TypeOK, LocalsOK, ByHand, Lead, Next, Watch
  PROVE  Lead'
<1> DEFINE now  == Decode(chip).second
           last == lastHw.second
           seen == Decode(loc.bytes).second
<1> USE DEF Sets, Done, Guesses
<1>1. /\ now \in Int /\ last \in Int /\ seen \in Int
      /\ cache \in Time /\ Advance \in Int /\ 0 <= Advance /\ Allowance \in Int
      /\ beats \in Int /\ setAt \in Int /\ jolts * MaxJump \in Int /\ MaxJump \in Int
      /\ 0 <= MaxJump /\ MaxJump < 60
  BY LeadNumbers
<1>2. BcdTime(chip) /\ lastHw \in Time /\ Decode(loc.bytes) \in Time /\ setTo \in Time
  BY BcdTimeIs DEF TypeOK, BcdTime, LocalsOK, Lead
<1>3. ASSUME RtcInit \/ Get \/ Halt \/ MonoTick PROVE Lead'
  <2>1. UNCHANGED <<setAt, setTo, jolts, guesses>>
    BY <1>3, Unwatched DEF RtcInit, Get, Halt, MonoTick, Goto, Return
  <2>2. UNCHANGED <<beats, manual, cache, lastHw, chip>>
    BY <1>3 DEF RtcInit, Get, Halt, MonoTick, world, statics
  <2>3. (Setting' <=> Setting) /\ (Looking' => Looking /\ loc' = loc) /\ ~(Setting /\ Looking')
    BY <1>3 DEF RtcInit, Get, Halt, MonoTick, Goto, Return, Setting, Looking
  <2> QED
    BY <2>1, <2>2, <2>3, LeadKept
<1>4. ASSUME NEW t \in SetTimes, Set(t) PROVE Lead'
  <2>1. /\ UNCHANGED <<setAt, setTo, guesses, beats, manual, cache>> /\ jolts' = jolts + 1
        /\ Setting' /\ ~Looking'
    BY <1>4 DEF Set, Goto, Watch, world, statics, Setting, Looking
  <2>2. Advance' = Advance
    BY <2>1 DEF Advance
  <2>3. Allowance' = Allowance + MaxJump
    <3>1. (jolts + 1) * MaxJump = jolts * MaxJump + MaxJump
      BY <1>1 DEF Lead
    <3>2. Allowance' = (beats - setAt) + (jolts + 1) * MaxJump + guesses
      BY <2>1 DEF Allowance
    <3>3. guesses \in Int
      BY DEF Lead
    <3> DEFINE p == jolts * MaxJump
               q == (jolts + 1) * MaxJump
    <3> HIDE DEF p, q
    <3>4. Allowance = (beats - setAt) + p + guesses /\ p \in Int
      BY <1>1 DEF p, Allowance
    <3>5. Allowance' = (beats - setAt) + q + guesses /\ q = p + MaxJump
      BY <3>1, <3>2 DEF p, q
    <3> QED
      BY <1>1, <3>3, <3>4, <3>5
  <2> QED
    BY <1>1, <2>1, <2>2, <2>3 DEF Lead
<1>5. CASE ReadSecond
  <2>1. /\ LocalsOK' /\ pc = "second" /\ UNCHANGED <<world, statics>>
        /\ \/ /\ pc' = "minute" /\ loc'.for = loc.for
              /\ Decode(loc'.bytes) = Put(Decode(loc.bytes), "second", now)
           \/ pc' = "idle" /\ loc'.for = "none"
    BY <1>2, <1>5, ReadEffect DEF ReadSecond, Registers
  <2>2. UNCHANGED <<setAt, setTo, jolts, guesses, beats, manual, cache, lastHw, chip>>
    BY <2>1, Unwatched DEF world, statics
  <2>3. Put(Decode(loc.bytes), "second", now).second = now
    BY <1>2, TimeFields DEF Put
  <2>4. ~Setting /\ ~Setting' /\ (Looking' => Decode(loc'.bytes).second = now)
    BY <2>1, <2>3 DEF Setting, Looking
  <2>5. Advance' = Advance /\ Allowance' = Allowance
    BY <2>2 DEF Advance, Allowance
  <2>6. Ahead(now, now) = 0 /\ Ahead(now, last) \in Int
    BY <1>1, AheadIs
  <2> QED
    BY <1>1, <2>2, <2>4, <2>5, <2>6 DEF Lead
<1>6. CASE ReadMinute \/ ReadHour
  <2>1. PICK f \in {"minute", "hour"} :
          /\ LocalsOK' /\ pc \in {"minute", "hour"} /\ UNCHANGED <<world, statics>>
          /\ \/ /\ pc' \in {"hour", "decode"} /\ loc'.for = loc.for
                /\ Decode(loc'.bytes) = Put(Decode(loc.bytes), f, Decode(chip)[f])
             \/ pc' = "idle" /\ loc'.for = "none"
    BY <1>2, <1>6, ReadEffect DEF ReadMinute, ReadHour, Registers
  <2>2. UNCHANGED <<setAt, setTo, jolts, guesses, beats, manual, cache, lastHw, chip>>
    BY <2>1, Unwatched DEF world, statics
  <2>3. Put(Decode(loc.bytes), f, Decode(chip)[f]).second = Decode(loc.bytes).second
    BY <1>2, TimeFields DEF Put
  <2>4. ~Setting /\ ~Setting' /\ (Looking' => Looking /\ Decode(loc'.bytes).second = seen)
    BY <2>1, <2>3 DEF Setting, Looking
  <2> QED
    BY <2>2, <2>4, LeadKept
<1>7. CASE UseTime /\ loc.for # "cache"
  <2>1. UNCHANGED <<beats, chip, lastHw>> /\ manual' = manual /\ (manual => cache' = cache)
    BY <1>7 DEF UseTime, world, statics, ByHand
  <2>2. pc = "decode" /\ pc' = "idle"
    BY <1>7 DEF UseTime, Return, Goto
  <2>3. UNCHANGED <<setAt, setTo, jolts, guesses>>
    BY <1>7, <2>2, Unwatched
  <2>4. ~Setting /\ ~Setting' /\ ~Looking'
    BY <2>2 DEF Setting, Looking
  <2>5. CASE manual
    BY <2>1, <2>3, <2>4, <2>5, LeadKept
  <2>6. CASE ~manual
    BY <2>1, <2>3, <2>6 DEF Lead
  <2> QED
    BY <2>5, <2>6
<1>8. CASE UseTime /\ loc.for = "cache"
  <2> DEFINE hw == Decode(loc.bytes)
  <2>1. /\ pc = "decode" /\ pc' = "idle" /\ UNCHANGED <<beats, chip, manual>>
        /\ cache' = Moved(Elapsed(hw)) /\ lastHw' = hw
    BY <1>8 DEF UseTime, Return, Goto, world
  <2>2. UNCHANGED <<setAt, setTo, jolts>> /\ guesses' = IF Guessed THEN guesses + 1 ELSE guesses
    BY <1>8, <2>1 DEF Watch
  <2>3. manual /\ Looking /\ ~Setting /\ ~Setting' /\ ~Looking'
    BY <1>8, <2>1 DEF Setting, Looking, ByHand
  <2>4. Elapsed(hw) = IF Guessed THEN 1 ELSE Ahead(seen, last)
    <3> DEFINE d == (Secs(hw) - Secs(lastHw)) % Day
    <3>1. d \in Int /\ (d < 60 => d = Ahead(seen, last))
      BY <1>2, SecsInDay, WithinMinute
    <3>2. Guessed <=> lastHw = Zero \/ d > MaxJump
      BY DEF Guessed
    <3>3. Elapsed(hw) = IF lastHw = Zero \/ d > MaxJump THEN 1 ELSE d
      BY DEF Elapsed
    <3> HIDE DEF d
    <3> QED
      BY <1>1, <3>1, <3>2, <3>3
  <2>5. ~Guessed => Ahead(seen, last) <= MaxJump
    <3> DEFINE d == (Secs(hw) - Secs(lastHw)) % Day
    <3>1. d \in Int /\ (d < 60 => d = Ahead(seen, last))
      BY <1>2, SecsInDay, WithinMinute
    <3>2. Guessed <=> lastHw = Zero \/ d > MaxJump
      BY DEF Guessed
    <3> HIDE DEF d
    <3> QED
      BY <1>1, <3>1, <3>2
  <2>6. Elapsed(hw) \in Int /\ 0 <= Elapsed(hw)
    BY <1>2, ElapsedIs
  <2>7. Advance' <= Advance + Elapsed(hw) /\ Advance' \in Int
    <3> DEFINE c == Secs(cache)   s == Secs(setTo)   n == Elapsed(hw)
    <3>1. Secs(cache') = (c + n) % Day
      BY <1>1, <2>1, <2>6, MovedOn
    <3>2. Advance' = (((c + n) % Day) - s) % Day /\ Advance = (c - s) % Day
      BY <2>2, <3>1 DEF Advance
    <3>3. c \in Int /\ s \in Int
      BY <1>1, <1>2, SecsInDay
    <3> HIDE DEF c, s, n
    <3> QED
      BY <2>6, <3>2, <3>3, AtMostOn DEF n
  <2>8. Allowance' = Allowance + (IF Guessed THEN 1 ELSE 0)
    <3> DEFINE p == jolts * MaxJump
    <3> HIDE DEF p
    <3>1. Allowance = (beats - setAt) + p + guesses /\ Allowance' = (beats - setAt) + p + guesses'
      BY <2>1, <2>2 DEF p, Allowance
    <3>2. guesses \in Int /\ p \in Int
      BY <1>1 DEF Lead, p
    <3> QED
      BY <1>1, <2>2, <3>1, <3>2
  <2>9. /\ Ahead(now, seen) \in Int /\ 0 <= Ahead(now, seen)
        /\ Ahead(seen, last) \in Int /\ 0 <= Ahead(seen, last)
    BY <1>1, AheadIs
  <2>10. /\ Advance + Ahead(now, seen) <= Allowance
         /\ Ahead(seen, last) <= MaxJump =>
              Advance + Ahead(seen, last) + Ahead(now, seen) <= Allowance
    BY <2>3 DEF Lead
  <2>11. Advance' <= Allowance' /\ Advance' + Ahead(now, seen) <= Allowance'
    BY <1>1, <2>4, <2>5, <2>7, <2>8, <2>9, <2>10
  <2>12. setAt' \in 0..beats' /\ setTo' \in Time /\ jolts' \in Nat /\ guesses' \in Nat
    BY <2>1, <2>2 DEF Lead
  <2> QED
    BY <2>1, <2>3, <2>11, <2>12 DEF Lead
<1>9. CASE WriteSecond \/ WriteMinute \/ WriteHour
  <2>1. /\ pc \in {"wsecond", "wminute", "whour"} /\ pc' \in {"wminute", "whour", "resume", "undo"}
        /\ UNCHANGED <<ctrl, beats, mono, statics, loc, out>>
    BY <1>9, WriteEffect DEF WriteSecond, WriteMinute, WriteHour, Registers
  <2>2. UNCHANGED <<setAt, setTo, jolts, guesses>>
    BY <2>1, Unwatched
  <2>3. Setting /\ Setting' /\ ~Looking'
    BY <2>1 DEF Setting, Looking
  <2> QED
    BY <2>1, <2>2, <2>3, LeadKept DEF statics
<1>10. CASE Undo
  <2>1. pc = "undo" /\ pc' = "idle" /\ UNCHANGED <<beats, chip, manual, cache, lastHw>>
    BY <1>10 DEF Undo, Return, Goto, statics
  <2>2. UNCHANGED <<setAt, setTo, jolts, guesses>>
    BY <2>1, Unwatched
  <2>3. Setting /\ ~Setting' /\ ~Looking'
    BY <2>1 DEF Setting, Looking
  <2>4. Advance' = Advance /\ Allowance' = Allowance
    BY <2>1, <2>2 DEF Advance, Allowance
  <2>5. Ahead(now, last) \in Int
    BY <1>1, AheadIs
  <2> QED
    BY <1>1, <2>1, <2>2, <2>3, <2>4, <2>5 DEF Lead
<1>11. CASE Resume
  <2>1. /\ pc = "resume" /\ pc' = "idle" /\ UNCHANGED <<beats, chip, lastHw>>
        /\ cache' = loc.arg
    BY <1>11 DEF Resume, Return, Goto
  <2>2. setAt' = beats /\ setTo' = cache' /\ jolts' = 1 /\ guesses' = 0
    BY <2>1 DEF Watch
  <2>3. cache' \in Time
    BY <2>1 DEF LocalsOK
  <2>4. Advance' = 0
    <3> DEFINE c == Secs(cache')
    <3>1. Advance' = (c - c) % Day
      BY <2>2 DEF Advance
    <3>2. c \in Int
      BY <2>3, SecsInDay
    <3> HIDE DEF c
    <3>3. (c - c) % Day = 0
      BY <3>2, SMT DEF Day
    <3> QED
      BY <3>1, <3>3
  <2>5. Allowance' = MaxJump
    <3>1. Allowance' = (beats - beats) + 1 * MaxJump + 0
      BY <2>1, <2>2 DEF Allowance
    <3> QED
      BY <1>1, <3>1
  <2>6. ~Setting' /\ ~Looking'
    BY <2>1 DEF Setting, Looking
  <2>7. Ahead(now, last) \in Int
    BY <1>1, AheadIs
  <2>8. setAt' \in 0..beats'
    BY <2>1, <2>2 DEF TypeOK
  <2> QED
    BY <1>1, <2>1, <2>2, <2>3, <2>4, <2>5, <2>6, <2>7, <2>8 DEF Lead
<1>12. CASE ChipTick
  <2>1. /\ UNCHANGED <<pc, loc, cache, manual, lastHw>> /\ beats' = beats + 1
        /\ chip' = IF ctrl.halt THEN chip ELSE Bcd(TimeAt((Secs(Decode(chip)) + 1) % Day))
    BY <1>12 DEF ChipTick, statics
  <2>2. UNCHANGED <<setAt, setTo, jolts, guesses>>
    BY <2>1, Unwatched
  <2> DEFINE then == Decode(chip').second
  <2>3. then = now \/ then = (now + 1) % 60
    BY <1>2, <2>1, TickEffect
  <2>4. (Setting' <=> Setting) /\ (Looking' <=> Looking)
    BY <2>1 DEF Setting, Looking
  <2>5. Advance' = Advance
    BY <2>1, <2>2 DEF Advance
  <2>6. Allowance' = Allowance + 1
    <3> DEFINE p == jolts * MaxJump
    <3>1. Allowance = (beats - setAt) + p + guesses /\ Allowance' = ((beats + 1) - setAt) + p + guesses
      BY <2>1, <2>2, Zenon DEF Allowance
    <3> HIDE DEF p
    <3>2. guesses \in Int /\ p \in Int
      BY <1>1 DEF Lead, p
    <3> QED
      BY <1>1, <3>1, <3>2
  <2> HIDE DEF now, then, seen, last
  <2>7. ASSUME NEW b \in Int
        PROVE  /\ Ahead(now, b) \in Int /\ 0 <= Ahead(now, b) /\ Ahead(then, b) \in Int
               /\ Ahead(then, b) \in {Ahead(now, b), Ahead(now, b) + 1, 0}
    <3>1. Ahead(now, b) \in Int /\ 0 <= Ahead(now, b)
      BY <1>1, AheadIs
    <3>2. Ahead((now + 1) % 60, b) \in {Ahead(now, b) + 1, 0}
      BY <1>1, AheadIs
    <3> QED
      BY <2>3, <3>1, <3>2
  <2>8. Ahead(seen, last) \in Int /\ 0 <= Ahead(seen, last)
    BY <1>1, AheadIs
  <2>9. setAt' \in 0..beats'
    BY <1>1, <2>1, <2>2 DEF Lead
  <2>10. ASSUME manual
         PROVE  /\ Advance' <= Allowance'
                /\ Setting => Advance' + MaxJump <= Allowance'
                /\ ~Setting /\ Ahead(then, last) <= MaxJump => Advance' + Ahead(then, last) <= Allowance'
                /\ Looking =>
                     /\ Advance' + Ahead(then, seen) <= Allowance'
                     /\ Ahead(seen, last) <= MaxJump =>
                          Advance' + Ahead(seen, last) + Ahead(then, seen) <= Allowance'
    <3>1. /\ Advance <= Allowance
          /\ Setting => Advance + MaxJump <= Allowance
          /\ ~Setting /\ Ahead(now, last) <= MaxJump => Advance + Ahead(now, last) <= Allowance
          /\ Looking =>
               /\ Advance + Ahead(now, seen) <= Allowance
               /\ Ahead(seen, last) <= MaxJump =>
                    Advance + Ahead(seen, last) + Ahead(now, seen) <= Allowance
      BY <2>10 DEF Lead, now, seen, last
    <3> QED
      BY <1>1, <2>5, <2>6, <2>7, <2>8, <3>1
  <2> QED
    BY <2>1, <2>2, <2>4, <2>9, <2>10 DEF Lead, then, seen, last
<1> QED
  BY <1>3, <1>4, <1>5, <1>6, <1>7, <1>8, <1>9, <1>10, <1>11, <1>12 DEF Next, Driver
--------------------------------------------------------------------------------
(* The theorems.                                                           *)

LEMMA Initially == ASSUME HInit PROVE IInv
<1>1. TypeOK /\ LocalsOK
  BY TypeInit DEF HInit
<1>2. ByHand /\ WrittenSoFar
  BY NoLocalsOK DEF HInit, Init, ByHand, WrittenSoFar
<1>3. Lead
  BY Zeros DEF HInit, Init, Lead
<1> QED
  BY <1>1, <1>2, <1>3 DEF IInv

LEMMA Inductive == ASSUME IInv, [HNext]_hvars PROVE IInv'
<1>1. TypeOK /\ LocalsOK /\ ByHand /\ WrittenSoFar /\ Lead
  BY DEF IInv
<1>2. [Next]_vars
  BY DEF HNext, hvars
<1>3. TypeOK' /\ LocalsOK'
  BY <1>1, <1>2, TypeStep
<1>4. ByHand' /\ WrittenSoFar'
  BY <1>1, <1>2, ByHandStep, WrittenStep
<1>5. ASSUME HNext PROVE Lead'
  BY <1>1, <1>5, LeadStep DEF HNext
<1>6. ASSUME UNCHANGED hvars PROVE Lead'
  <2>1. UNCHANGED <<setAt, setTo, jolts, guesses, beats, manual, cache, lastHw, chip, loc, pc>>
    BY <1>6 DEF hvars, history, vars, world, statics
  <2>2. (Setting' <=> Setting) /\ (Looking' <=> Looking) /\ ~(Setting /\ Looking')
    BY <2>1 DEF Setting, Looking
  <2> QED
    BY <1>1, <2>1, <2>2, LeadKept
<1>7. Lead'
  BY <1>5, <1>6
<1> QED
  BY <1>3, <1>4, <1>7 DEF IInv

LEMMA Invariant == HSpec => []IInv
<1>1. IInv /\ [HNext]_hvars => IInv'
  BY Inductive
<1> QED
  BY <1>1, Initially, PTL DEF HSpec

\* A time written to a chip that stands still and is not protected is the time
\* it is started again with, whatever sets before it failed half-way.
THEOREM SetTakesHolds == HSpec => []SetTakes
<1>1. IInv => SetTakes
  <2> SUFFICES ASSUME IInv, pc = "resume", ctrl.halt, ~ctrl.wp PROVE Decode(chip) = loc.arg
    BY DEF SetTakes
  <2>1. Decode(chip) \in Time /\ loc.arg \in Time
    BY BcdTimeIs DEF IInv, TypeOK, BcdTime, LocalsOK
  <2>2. /\ Decode(chip).second = loc.arg.second /\ Decode(chip).minute = loc.arg.minute
        /\ Decode(chip).hour = loc.arg.hour
    BY DEF IInv, WrittenSoFar
  <2> HIDE DEF IInv
  <2> QED
    BY <2>1, <2>2, TimeFields
<1> QED
  BY <1>1, Invariant, PTL

\* However often the chip ticks between two registers, however many accesses
\* fail and however often the time is set, a time kept by hand has moved on by no
\* more than the seconds that passed, MaxJump a set and one a guess.
THEOREM LeadBounded == HSpec => []BoundedLead
<1>1. IInv => BoundedLead
  BY DEF IInv, Lead, BoundedLead, Allowance
<1> QED
  BY <1>1, Invariant, PTL
================================================================================
