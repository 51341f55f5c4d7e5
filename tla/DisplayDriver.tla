----------------------------- MODULE DisplayDriver -----------------------------
(***************************************************************************)
(* src/display_driver.c: two threads draw on one display of four digits,   *)
(* each digit through a position register that selects it and a data or    *)
(* control register that acts on what is selected.  Nothing keeps the      *)
(* other thread out in between, nor from storing the time that is being    *)
(* drawn.  Any access may fail, and is then given up.                      *)
(*                                                                         *)
(* The device is modelled from its use: CLEAR blanks the digits, BLINK and *)
(* 0 start and stop the blinking of the selected one.  The calls are those *)
(* of clock_driver.c: the keys in "main", the refresh in "timer".          *)
(***************************************************************************)
EXTENDS Integers, Sequences

CONSTANTS
  Hours, Minutes,   \* what the fields of the time of day may be
  Readings,         \* what the stopwatch may show, ms
  Positions,        \* bound of the model: the digits drawn, out of 0..3
  MaxFaults         \* bound of the model on the failing accesses

ASSUME DisplayAssumption ==
  /\ Hours \subseteq 0..23 /\ Minutes \subseteq 0..59
  /\ Readings \subseteq Nat /\ 0 \in Readings
  /\ Positions \subseteq 0..3 /\ Positions # {} /\ MaxFaults \in Nat

Threads   == {"main", "timer"}
Modes     == {"NORMAL", "SETTING", "STOPWATCH"}   \* DISPLAY_MODE_CLOCK is NORMAL
Blank     == 10          \* a digit that shows nothing
None      == 255         \* 0xFF, no blink position

VARIABLES
  selected,   \* position register
  digits,     \* what each digit shows
  blinking,   \* the digits that blink
  dmode,      \* g_current_display_mode
  bpos,       \* g_blink_position
  mode,       \* g_current_mode of the clock driver
  time,       \* g_current_time, hour and minute
  reading,    \* g_stopwatch_ms
  todo,       \* what each thread still has to do, <<>> outside the driver
  life,       \* "starting", "ready", "up", or "closed"
  faults,     \* how many accesses failed
  serial      \* history: has there only been one thread at a time?

device  == <<selected, digits, blinking>>
statics == <<dmode, bpos>>
clock   == <<mode, time, reading>>
vars    == <<device, statics, clock, todo, life, faults, serial>>
--------------------------------------------------------------------------------
(* What a call has to do, as a sequence of steps <<operation, operand>>.   *)

On(p, steps) == IF p \in Positions THEN steps ELSE <<>>

\* display_set_digit selects a digit and writes it; update_time works each of
\* its digits out just before.
SetDigit(p, n) == On(p, <<<<"select", p>>, <<"show", n>>>>)

\* Slip: the leftmost digit is left out.
TimeDigitsButFirst == On(2, <<<<"time", 2>>>>) \o On(1, <<<<"time", 1>>>>) \o On(0, <<<<"time", 0>>>>)

TimeDigits     == On(3, <<<<"time", 3>>>>) \o On(2, <<<<"time", 2>>>>)
                    \o On(1, <<<<"time", 1>>>>) \o On(0, <<<<"time", 0>>>>)

\* display_set_blink_position, for a digit and for 0xFF.
Blink(p)  == <<<<"position", p>>>> \o On(p, <<<<"select", p>>, <<"on", p>>>>)
Still(p)  == On(p, <<<<"select", p>>, <<"off", p>>>>)
BlinkNone == <<<<"position", None>>>> \o Still(0) \o Still(1) \o Still(2) \o Still(3)

Clear == <<<<"clear", 0>>>>
Zeros == SetDigit(0, 0) \o SetDigit(1, 0) \o SetDigit(2, 0) \o SetDigit(3, 0)
Test  == SetDigit(0, 8) \o SetDigit(1, 8) \o SetDigit(2, 8) \o SetDigit(3, 8)

\* Slip: the old mode keeps blinking.
SetModeBlinking(m) ==
  <<<<"dmode", m>>>> \o Clear
    \o CASE m = "NORMAL"    -> <<>>
         [] m = "SETTING"   -> <<<<"position", 0>>>>
         [] m = "STOPWATCH" -> Zeros

\* display_set_mode
SetMode(m) ==
  <<<<"dmode", m>>>> \o Clear \o BlinkNone
    \o CASE m = "NORMAL"    -> <<>>
         [] m = "SETTING"   -> <<<<"position", 0>>>>
         [] m = "STOPWATCH" -> Zeros

UpdateTime         == <<<<"time?", 0>>>>        \* display_update_time
UpdateStopwatch(n) == <<<<"stopwatch?", n>>>>   \* display_update_stopwatch
UpdateReading      == <<<<"reading?", 0>>>>     \* the same, of the reading by then

\* What a digit of the time or of a reading is.
TimeDigit(p) == CASE p = 3 -> time.hour \div 10   [] p = 2 -> time.hour % 10
                  [] p = 1 -> time.minute \div 10 [] p = 0 -> time.minute % 10

\* Slip: the seconds are not cut off at 99.
ReadingDigitUncut(p, n) ==
  LET seconds == n \div 1000   centiseconds == (n % 1000) \div 10
  IN  CASE p = 3 -> seconds \div 10      [] p = 2 -> seconds % 10
        [] p = 1 -> centiseconds \div 10 [] p = 0 -> centiseconds % 10

ReadingDigit(p, n) ==
  LET seconds == (n \div 1000) % 100   centiseconds == (n % 1000) \div 10
  IN  CASE p = 3 -> seconds \div 10      [] p = 2 -> seconds % 10
        [] p = 1 -> centiseconds \div 10 [] p = 0 -> centiseconds % 10

ReadingDigits(n) == SetDigit(3, ReadingDigit(3, n)) \o SetDigit(2, ReadingDigit(2, n))
                      \o SetDigit(1, ReadingDigit(1, n)) \o SetDigit(0, ReadingDigit(0, n))

\* The questions on the way, answered from what the globals hold just then.
Questions == {"time?", "stopwatch?", "reading?", "blink?", "which?", "time"}

Answer(question, n) ==
  CASE question = "time?"      -> IF dmode = "STOPWATCH" THEN <<>>
                                  ELSE TimeDigits \o <<<<"blink?", 0>>>>
    [] question = "stopwatch?" -> IF dmode = "STOPWATCH" THEN ReadingDigits(n) ELSE <<>>
    [] question = "reading?"   -> UpdateStopwatch(reading)
    [] question = "time"       -> SetDigit(n, TimeDigit(n))
    [] question = "blink?"     -> IF dmode = "SETTING" THEN <<<<"which?", 0>>>> ELSE <<>>
    [] question = "which?"     -> IF bpos = 0 THEN Blink(2) \o Blink(3)
                                  ELSE Blink(0) \o Blink(1)

Init ==
  /\ selected \in Positions /\ digits = [p \in Positions |-> Blank] /\ blinking = {}
  /\ dmode = "NORMAL" /\ bpos = None
  /\ mode = "NORMAL" /\ time \in [hour : Hours, minute : Minutes] /\ reading \in Readings
  /\ todo = [main |-> Clear \o Test \o Clear, timer |-> <<>>]
  /\ life = "starting" /\ faults = 0 /\ serial = TRUE

Idle(t) == todo[t] = <<>>
--------------------------------------------------------------------------------
(* One step of a thread in the driver.                                     *)

At(t, operations) == todo[t] # <<>> /\ Head(todo[t])[1] \in operations
Operand(t) == Head(todo[t])[2]

\* The thread goes on, having done, or without doing, its first n steps.
Skip(t, n) == todo' = [todo EXCEPT ![t] = SubSeq(@, n + 1, Len(@))]

Fault == faults < MaxFaults /\ faults' = faults + 1

\* An access failed: the rest of the digit is left out.  While the display is
\* being initialised that is the end of the program.
GiveUp(t, n) ==
  IF life = "starting"
  THEN life' = "closed" /\ todo' = [todo EXCEPT ![t] = <<>>]
  ELSE Skip(t, n) /\ UNCHANGED life

Ask(t) ==
  /\ At(t, Questions)
  /\ todo' = [todo EXCEPT ![t] = Answer(Head(@)[1], Head(@)[2]) \o Tail(@)]
  /\ UNCHANGED <<device, statics, clock, life, faults>>

Assign(t) ==
  /\ At(t, {"dmode", "position"})
  /\ Skip(t, 1)
  /\ \/ At(t, {"dmode"}) /\ dmode' = Operand(t) /\ UNCHANGED bpos
     \/ At(t, {"position"}) /\ bpos' = Operand(t) /\ UNCHANGED dmode
  /\ UNCHANGED <<device, clock, life, faults>>

\* Slip: a digit that could not be selected is written all the same.
SelectAnyway(t) ==
  /\ At(t, {"select"})
  /\ \/ Skip(t, 1) /\ selected' = Operand(t) /\ UNCHANGED <<life, faults>>
     \/ Fault /\ GiveUp(t, 1) /\ selected' \in {selected, Operand(t)}
  /\ UNCHANGED <<digits, blinking, statics, clock>>

Select(t) ==
  /\ At(t, {"select"})
  /\ \/ Skip(t, 1) /\ selected' = Operand(t) /\ UNCHANGED <<life, faults>>
     \/ Fault /\ GiveUp(t, 2) /\ selected' \in {selected, Operand(t)}
  /\ UNCHANGED <<digits, blinking, statics, clock>>

Show(t) ==
  /\ At(t, {"show"})
  /\ LET shown == [digits EXCEPT ![selected] = Operand(t)] IN
       \/ Skip(t, 1) /\ digits' = shown /\ UNCHANGED <<life, faults>>
       \/ Fault /\ GiveUp(t, 1) /\ digits' \in {digits, shown}
  /\ UNCHANGED <<selected, blinking, statics, clock>>

SetBlink(t) ==
  /\ At(t, {"on", "off"})
  /\ LET set == IF At(t, {"on"}) THEN blinking \cup {selected} ELSE blinking \ {selected} IN
       \/ Skip(t, 1) /\ blinking' = set /\ UNCHANGED <<life, faults>>
       \/ Fault /\ GiveUp(t, 1) /\ blinking' \in {blinking, set}
  /\ UNCHANGED <<selected, digits, statics, clock>>

AllBlank == [p \in Positions |-> Blank]

\* display_clear
ClearAll(t) ==
  /\ At(t, {"clear"})
  /\ \/ Skip(t, 1) /\ digits' = AllBlank /\ UNCHANGED <<life, faults>>
     \/ Fault /\ GiveUp(t, 1) /\ digits' \in {digits, AllBlank}
  /\ UNCHANGED <<selected, blinking, statics, clock>>

\* display_wait_ready before a selection or a CLEAR reads a status of 0xFF,
\* from a failed read, and sends a CLEAR before it looks again.
ClearWhileWaiting(t) ==
  /\ At(t, {"select", "clear"})
  /\ Fault
  /\ digits' = AllBlank
  /\ UNCHANGED <<selected, blinking, statics, clock, todo, life>>

Step(t) == \/ Ask(t) \/ Assign(t) \/ Select(t) \/ Show(t)
           \/ SetBlink(t) \/ ClearAll(t) \/ ClearWhileWaiting(t)
--------------------------------------------------------------------------------
(* The calls of the clock driver.                                          *)

Call(t, steps) ==
  /\ life = "up" /\ Idle(t)
  /\ todo' = [todo EXCEPT ![t] = steps]
  /\ UNCHANGED <<device, statics, faults>>

\* After display_init the time is drawn, then the timer is started.
Start ==
  /\ Idle("main")
  /\ \/ life = "starting" /\ life' = "ready" /\ todo' = [todo EXCEPT !["main"] = UpdateTime]
     \/ life = "ready" /\ life' = "up" /\ UNCHANGED todo
  /\ UNCHANGED <<device, statics, clock, faults>>

\* A mode key, clock_set_mode: to and from NORMAL only.
ChangeMode(m) ==
  /\ m # mode /\ "NORMAL" \in {m, mode} /\ mode' = m
  /\ Call("main", SetMode(m) \o CASE m = "NORMAL"    -> UpdateTime
                                  [] m = "SETTING"   -> <<>>
                                  [] m = "STOPWATCH" -> UpdateReading)
  /\ time' \in IF mode = "SETTING" /\ m = "NORMAL"
               THEN [hour : Hours, minute : Minutes] ELSE {time}
  /\ UNCHANGED <<reading, life>>

\* One of the fields of the time is incremented and shown.
Increment ==
  /\ mode = "SETTING" /\ Call("main", UpdateTime)
  /\ \/ \E h \in Hours : time' = [time EXCEPT !.hour = h]
     \/ \E m \in Minutes : time' = [time EXCEPT !.minute = m]
  /\ UNCHANGED <<mode, reading, life>>

\* The stopwatch is started, paused or reset.
StopwatchKey ==
  /\ mode = "STOPWATCH"
  /\ \E n \in {reading, 0} : reading' = n /\ Call("main", UpdateStopwatch(n))
  /\ UNCHANGED <<mode, time, life>>

\* The timer callback refreshes the display.
Refresh ==
  /\ \/ /\ mode = "NORMAL" /\ Call("timer", UpdateTime)
        /\ time' \in [hour : Hours, minute : Minutes]
        /\ UNCHANGED reading
     \/ /\ mode = "SETTING" /\ Call("timer", UpdateTime)
        /\ UNCHANGED <<time, reading>>
     \/ /\ mode = "STOPWATCH"
        /\ \E n \in Readings : reading' = n /\ Call("timer", UpdateStopwatch(n))
        /\ UNCHANGED time
  /\ UNCHANGED <<mode, life>>

\* display_close
Close ==
  /\ Call("main", Clear)
  /\ life' = "closed"
  /\ UNCHANGED clock

\* Whether the threads overlap is put on record.
Watch == serial' = (serial /\ \E t \in Threads : todo'[t] = <<>>)

Next ==
  /\ \/ \E t \in Threads : Step(t)
     \/ \E m \in Modes : ChangeMode(m)
     \/ Start \/ Increment \/ StopwatchKey \/ Refresh \/ Close
  /\ Watch

\* The service thread runs on, and the timer interrupt keeps coming.
Fairness == WF_vars((Step("timer") \/ Refresh) /\ Watch)

Spec == Init /\ [][Next]_vars /\ Fairness
--------------------------------------------------------------------------------
TypeOK ==
  /\ selected \in Positions /\ digits \in [Positions -> 0..Blank]
  /\ blinking \subseteq Positions
  /\ dmode \in Modes /\ bpos \in 0..3 \cup {None}
  /\ mode \in Modes /\ time \in [hour : Hours, minute : Minutes] /\ reading \in Readings
  /\ life \in {"starting", "ready", "up", "closed"} /\ faults \in 0..MaxFaults /\ serial \in BOOLEAN

\* The digit that belongs at a position.
Due(p) == IF mode = "STOPWATCH" THEN ReadingDigit(p, reading) ELSE TimeDigit(p)

\* What is ever meant for a position, the zeros and the test pattern included.
Meant(p) ==
  {Blank, 0, 8}
    \cup {ReadingDigit(p, n) : n \in Readings}
    \cup (CASE p = 3 -> {h \div 10 : h \in Hours}   [] p = 2 -> {h % 10 : h \in Hours}
            [] p = 1 -> {m \div 10 : m \in Minutes} [] p = 0 -> {m % 10 : m \in Minutes})

\* As long as the threads did not overlap, a digit shows what is meant for its
\* position, if not always the latest, or nothing, whichever accesses failed: one
\* that could not be selected is not written in the place of another.
InPlace == serial => \A p \in Positions : digits[p] \in Meant(p)

\* As long as they did not overlap and no access failed, the display shows
\* between two calls what it should, and blinks in the SETTING mode only.
\* (On entering SETTING it is blank.)
Drawn ==
  serial /\ faults = 0 /\ life = "up" /\ Idle("main") /\ Idle("timer") =>
    /\ (mode = "SETTING" /\ digits = AllBlank) \/ \A p \in Positions : digits[p] = Due(p)
    /\ mode # "SETTING" => blinking = {}

\* Threads that overlap draw digits in each other's place, and mix the digits of
\* two times; failing accesses leave digits out.  But once the user lets go of
\* the keys, the display comes back to the right digits again and again.
FaceRecovers ==
  []<>(life = "up" /\ Idle("main") => \A p \in Positions : digits[p] = Due(p))

\* In the SETTING mode the hours are edited by default, so they blink.
HoursBlink ==
  serial /\ faults = 0 /\ mode = "SETTING" /\ Idle("main") /\ Idle("timer") =>
    blinking \subseteq {2, 3}
================================================================================
