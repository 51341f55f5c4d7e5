------------------------------- MODULE RtcDriver -------------------------------
(***************************************************************************)
(* src/rtc_driver.c, called by one thread, with the clock chip ticking     *)
(* between any two of its register accesses and every access able to fail. *)
(* Once the time has been set by hand the driver keeps the time itself, in *)
(* g_rtc_cache, and only takes from the chip how far it moved on.          *)
(*                                                                         *)
(* The chip is modelled from its use: it counts in BCD unless halted, and  *)
(* ignores writes to the time registers while write-protected.             *)
(***************************************************************************)
EXTENDS Integers

CONSTANTS
  StartTimes,   \* the times the chip may show at power-on
  SetTimes,     \* the times rtc_set_time is called with
  MaxJump,      \* the longest gap the driver believes, s: 10
  MaxSec,       \* bound of the model on CLOCK_MONOTONIC, s
  MaxSets       \* bound of the model on the calls of rtc_set_time

VARIABLES
  chip,      \* time registers of the chip, BCD
  ctrl,      \* its control register
  beats,     \* seconds that passed for the chip
  mono,      \* CLOCK_MONOTONIC, s
  cache,     \* g_rtc_cache
  manual,    \* g_rtc_set_manually
  lastHw,    \* last_hw_time, static in rtc_get_time
  lastRead,  \* last_read_time, static in rtc_get_time, s
  pc,        \* where the caller is; "idle" outside the driver
  loc,       \* the locals of the call
  out        \* the time the last call handed out, Zero if none

Time == [hour : 0..23, minute : 0..59, second : 0..59]
Zero == [hour |-> 0, minute |-> 0, second |-> 0]
Day  == 24 * 3600
Secs(t) == 3600 * t.hour + 60 * t.minute + t.second
TimeAt(n) == [hour |-> n \div 3600, minute |-> (n \div 60) % 60, second |-> n % 60]

ASSUME RtcAssumption ==
  /\ StartTimes \subseteq Time
  /\ SetTimes \subseteq [hour : 0..255, minute : 0..255, second : 0..255]
  /\ MaxJump \in 1..59 /\ MaxSec \in Nat /\ MaxSets \in Nat

statics == <<cache, manual, lastHw, lastRead>>
world   == <<chip, ctrl, beats, mono>>
vars    == <<world, statics, pc, loc, out>>

--------------------------------------------------------------------------------
(* Bytes.                                                                  *)

bcd_to_bin(b) == (b % 16) + (b \div 16) * 10

\* Slip: the number is written as it is.
bin_to_bcdPlain(n) == n

bin_to_bcd(n) == (n \div 10) * 16 + (n % 10)

Bcd(t) == [f \in DOMAIN t |-> bin_to_bcd(t[f])]

\* The time in three register bytes, the CH bit and the unused bits cut off.
Decode(r) == [second |-> bcd_to_bin(r.second % 128),
              minute |-> bcd_to_bin(r.minute % 128),
              hour   |-> bcd_to_bin(r.hour % 64)]

\* The two bits of the control register that matter.
Running == [halt |-> FALSE, wp |-> FALSE]
AllSet  == [halt |-> TRUE, wp |-> TRUE]     \* 0xFF, from a failed read
Control == [halt : BOOLEAN, wp : BOOLEAN]

NoBytes == [hour |-> 0, minute |-> 0, second |-> 0]
NoLocals == [for |-> "none", bytes |-> NoBytes, at |-> 0, arg |-> Zero, ctrl |-> Running]

Init ==
  /\ chip \in {Bcd(t) : t \in StartTimes}
  /\ ctrl \in Control
  /\ beats = 0 /\ mono = 0
  /\ cache = Zero /\ manual = FALSE /\ lastHw = Zero /\ lastRead = 0
  /\ pc = "init" /\ loc = NoLocals /\ out = Zero

Goto(from, to) == pc = from /\ pc' = to
Return(from)   == Goto(from, "idle") /\ loc' = NoLocals

--------------------------------------------------------------------------------
(* rtc_read_hw_time, for rtc_init and for both branches of rtc_get_time.   *)

\* One time register is read; a failed read, 0xFF, ends the call.  A failure
\* of rtc_get_time is reported, unless the time is kept by hand.
ReadByte(from, field, to) ==
  /\ \/ /\ Goto(from, to)
        /\ loc' = [loc EXCEPT !.bytes[field] = chip[field]]
        /\ UNCHANGED out
     \/ /\ Return(from)
        /\ out' = IF loc.for = "cache" THEN cache ELSE out
  /\ UNCHANGED <<world, statics>>

ReadSecond == ReadByte("second", "second", "minute")
ReadMinute == ReadByte("minute", "minute", "hour")
ReadHour   == ReadByte("hour", "hour", "decode")

\* Slip: any gap is believed.
ElapsedUncapped(hw) == (Secs(hw) - Secs(lastHw)) % Day

\* What the chip moved on by since it was last looked at: a jump, a step back
\* over midnight or no earlier look count as one second.
Elapsed(hw) ==
  LET d == (Secs(hw) - Secs(lastHw)) % Day
  IN  IF lastHw = Zero \/ d > MaxJump THEN 1 ELSE d

\* Slip: the hours are not wrapped.
MovedPastMidnight(n) == TimeAt(Secs(cache) + n)

\* The cached time moved on by n seconds, with the carries.
Moved(n) == TimeAt((Secs(cache) + n) % Day)

\* The time is used: cached by rtc_init, returned as it is by rtc_get_time, or
\* taken for the difference by which the cached time moves on.
UseTime ==
  /\ Return("decode")
  /\ LET hw == Decode(loc.bytes) IN
       \/ /\ loc.for = "init"
          /\ cache' = hw
          /\ UNCHANGED <<manual, lastHw, lastRead, out>>
       \/ /\ loc.for = "chip"
          /\ out' = hw
          /\ UNCHANGED statics
       \/ /\ loc.for = "cache"
          /\ cache' = Moved(Elapsed(hw))
          /\ out' = cache'
          /\ lastHw' = hw
          /\ lastRead' = loc.at
          /\ UNCHANGED manual
  /\ UNCHANGED world

--------------------------------------------------------------------------------
(* The operations.                                                         *)

\* rtc_init starts the chip and lifts its write protection.
RtcInit ==
  /\ \/ /\ Goto("init", "second")
        /\ loc' = [loc EXCEPT !.for = "init"]
        /\ ctrl' = Running
     \/ /\ Goto("init", "off")
        /\ ctrl' \in {ctrl, Running}
        /\ UNCHANGED loc
  /\ UNCHANGED <<chip, beats, mono, statics, out>>

\* rtc_get_time: a time set by hand is brought up to date once a second.
Get ==
  /\ \/ /\ ~manual
        /\ Goto("idle", "second")
        /\ loc' = [loc EXCEPT !.for = "chip"]
        /\ out' = Zero
     \/ /\ manual /\ mono - lastRead >= 1
        /\ Goto("idle", "second")
        /\ loc' = [loc EXCEPT !.for = "cache", !.at = mono]
        /\ out' = Zero
     \/ /\ manual /\ mono - lastRead < 1
        /\ Return("idle")
        /\ out' = cache
  /\ UNCHANGED <<world, statics>>

\* rtc_set_time turns an invalid time down, ...
Set(t) ==
  /\ t \in Time
  /\ Goto("idle", "halt")
  /\ loc' = [loc EXCEPT !.arg = t]
  /\ out' = Zero
  /\ UNCHANGED <<world, statics>>

\* ... halts the chip, taking a failed read of the control register for a
\* value and a failed write of it for done, ...
Halt ==
  /\ Goto("halt", "wsecond")
  /\ \E c \in {ctrl, AllSet} :
       LET halted == [c EXCEPT !.halt = TRUE]
       IN  loc' = [loc EXCEPT !.ctrl = halted] /\ ctrl' \in {ctrl, halted}
  /\ UNCHANGED <<chip, beats, mono, statics, out>>

\* ... writes the time registers up to the first failure, ...
WriteByte(from, field, to) ==
  /\ LET written == IF ctrl.wp THEN chip
                    ELSE [chip EXCEPT ![field] = bin_to_bcd(loc.arg[field])]
     IN  \/ Goto(from, to) /\ chip' = written
         \/ Goto(from, "undo") /\ chip' \in {chip, written}
  /\ UNCHANGED <<ctrl, beats, mono, statics, loc, out>>

WriteSecond == WriteByte("wsecond", "second", "wminute")
WriteMinute == WriteByte("wminute", "minute", "whour")
WriteHour   == WriteByte("whour", "hour", "resume")

\* ... and starts the chip again, or tries to.
Restart == ctrl' \in {ctrl, [loc.ctrl EXCEPT !.halt = FALSE]}

Undo ==
  /\ Return("undo")
  /\ Restart
  /\ UNCHANGED <<chip, beats, mono, statics, out>>

Resume ==
  /\ Return("resume")
  /\ Restart
  /\ manual' = TRUE
  /\ cache' = loc.arg
  /\ UNCHANGED <<chip, beats, mono, lastHw, lastRead, out>>

Driver == \/ RtcInit \/ Get \/ (\E t \in SetTimes : Set(t))
          \/ ReadSecond \/ ReadMinute \/ ReadHour \/ UseTime
          \/ Halt \/ WriteSecond \/ WriteMinute \/ WriteHour \/ Undo \/ Resume
--------------------------------------------------------------------------------
(* The chip and the monotonic clock count the same seconds, out of phase.  *)

ChipTick ==
  /\ beats <= mono /\ beats < MaxSec
  /\ beats' = beats + 1
  /\ chip' = IF ctrl.halt THEN chip ELSE Bcd(TimeAt((Secs(Decode(chip)) + 1) % Day))
  /\ UNCHANGED <<ctrl, mono, statics, pc, loc, out>>

MonoTick ==
  /\ mono <= beats /\ mono < MaxSec
  /\ mono' = mono + 1
  /\ UNCHANGED <<chip, ctrl, beats, statics, pc, loc, out>>

Next == Driver \/ ChipTick \/ MonoTick

Spec == Init /\ [][Next]_vars
--------------------------------------------------------------------------------
Labels == {"init", "off", "idle", "second", "minute", "hour", "decode",
           "halt", "wsecond", "wminute", "whour", "undo", "resume"}

\* The types; the chip holds two BCD digits in each time register, and the
\* cached time has all its carries done.
TypeOK ==
  /\ chip \in {Bcd(t) : t \in {Decode(chip)} \cap Time}
  /\ ctrl \in Control
  /\ beats \in 0..MaxSec /\ mono \in 0..MaxSec
  /\ cache \in Time /\ out \in Time /\ lastHw \in Time
  /\ manual \in BOOLEAN
  /\ lastRead \in 0..MaxSec
  /\ pc \in Labels
================================================================================
