------------------------------ MODULE ClockDriver ------------------------------
(***************************************************************************)
(* src/clock_driver.c as two threads that share its globals without a      *)
(* lock:                                                                   *)
(*                                                                         *)
(*   "main"   polls the keypad and runs clock_keypad_callback;             *)
(*   "timer"  is the interrupt service thread inside                       *)
(*            clock_timer_callback.                                        *)
(*                                                                         *)
(* Each load and each store of a shared global that the other thread can   *)
(* disturb is a step of its own; everything private to a thread is merged  *)
(* into the step next to it.  The RTC, the display and the record memory   *)
(* appear as their callers see them: the time rtc_get_time returns, the    *)
(* face the four digits show, the record a save leaves behind.  A time of  *)
(* day is copied in one step, and a face of four digits is drawn in one.   *)
(***************************************************************************)
EXTENDS Integers

CONSTANTS
  Hours, Minutes,   \* 24 and 60
  RefreshTicks,     \* callbacks between two refreshes of the display: 100
  MaxStep,          \* cap on the time one callback may account, ms: 100
  RolloverStep,     \* time accounted when the clock seems to go back, ms: 10
  Word,             \* 2^32, the range of a uint32_t
  MaxNow            \* bound of the model on CLOCK_MONOTONIC, ms

ASSUME ClockAssumption ==
  /\ Hours \in Nat \ {0}
  /\ Minutes \in Nat \ {0}
  /\ RefreshTicks \in Nat \ {0}
  /\ MaxStep \in Nat
  /\ RolloverStep \in 0..MaxStep
  /\ Word \in Nat
  /\ MaxStep < Word
  /\ Hours <= Word /\ Minutes <= Word
  /\ MaxNow \in Nat

VARIABLES
  mode,       \* g_current_mode
  running,    \* g_stopwatch_running
  ms,         \* g_stopwatch_ms
  last,       \* g_last_timer_tick
  time,       \* g_current_time
  tick,       \* tick_count, static in clock_timer_callback
  dispMode,   \* g_current_display_mode of the display driver
  screen,     \* what the four digits show
  rtc,        \* the time of day the RTC driver returns
  record,     \* record 0 of the storage module
  now,        \* CLOCK_MONOTONIC, ms
  pc,         \* where each thread is
  kp,         \* locals and arguments of "main" in the keypad callback
  tm          \* locals and arguments of "timer" in the timer callback

stopwatch == <<running, ms, last>>
display   == <<dispMode, screen>>
world     == <<rtc, record, now>>
vars == <<mode, running, ms, last, time, tick, dispMode, screen,
          rtc, record, now, pc, kp, tm>>

--------------------------------------------------------------------------------
Modes == {"NORMAL", "SETTING", "STOPWATCH"}
Time  == [hour : 0..(Hours - 1), minute : 0..(Minutes - 1)]
Size  == [hour |-> Hours, minute |-> Minutes]   \* of each field of a Time
Count == 0..(Word - 1)                          \* the values of a uint32_t

Blank            == <<"blank">>
TimeFace(t)      == <<"time", t>>
StopwatchFace(n) == <<"stopwatch", n>>
Face == {Blank} \cup ({"time"} \X Time) \cup ({"stopwatch"} \X Count)

\* clock_gettime(CLOCK_MONOTONIC) in milliseconds, cut to 32 bits.
Clock == now % Word

MainLabels == {"idle", "reload", "restore", "setmode", "dispmode", "clear", "inc", "set",
               "start", "run", "pause", "reset", "save", "show", "write"}
TimerLabels == {"idle", "first", "elapse", "sub", "stamp", "switch", "get", "store",
                "load", "add", "showTime", "showMs", "write"}

MainLocals  == [target : Modes, field : {"hour", "minute"}, arg : Count, time : Time, out : Face]
TimerLocals == [cur : Count, step : 0..MaxStep, first : BOOLEAN, ms : Count,
                time : Time, out : Face]

Midnight  == [hour |-> 0, minute |-> 0]
MainIdle  == [target |-> "NORMAL", field |-> "hour", arg |-> 0,
              time |-> Midnight, out |-> Blank]
TimerIdle == [cur |-> 0, step |-> 0, first |-> FALSE, ms |-> 0,
              time |-> Midnight, out |-> Blank]

\* clock_driver_init has shown the time it read from the RTC.
Init ==
  /\ mode = "NORMAL" /\ running = FALSE /\ ms = 0 /\ last = 0 /\ tick = 0
  /\ rtc \in Time /\ time = rtc
  /\ dispMode = "NORMAL" /\ screen = TimeFace(time)
  /\ record = 0 /\ now \in 0..MaxNow
  /\ pc = [main |-> "idle", timer |-> "idle"]
  /\ kp = MainIdle /\ tm = TimerIdle

Goto(th, from, to) ==
  /\ pc[th] = from
  /\ pc' = [pc EXCEPT ![th] = to]

\* A callback returns: its thread is idle and its locals are gone.
MainDone(from)  == Goto("main", from, "idle") /\ kp' = MainIdle
TimerDone(from) == Goto("timer", from, "idle") /\ tm' = TimerIdle

--------------------------------------------------------------------------------
(* Thread "main": clock_keypad_callback and what it calls.                 *)

\* A pressed key is dispatched on the mode; mode and running are written by
\* this thread only, so the test of g_stopwatch_running cannot go stale.
NormalKey(k) ==
  /\ mode = "NORMAL"
  /\ k \in {1, 2}
  /\ Goto("main", "idle", "setmode")
  /\ kp' = [kp EXCEPT !.target = IF k = 1 THEN "SETTING" ELSE "STOPWATCH"]

SettingKey(k) ==
  /\ mode = "SETTING"
  /\ \/ /\ k = 1
        /\ Goto("main", "idle", "reload")
        /\ kp' = [kp EXCEPT !.target = "NORMAL"]
     \/ /\ k \in {2, 3}
        /\ Goto("main", "idle", "inc")
        /\ LET f == IF k = 2 THEN "hour" ELSE "minute"
           IN  kp' = [kp EXCEPT !.field = f, !.arg = time[f]]

StopwatchKey(k) ==
  /\ mode = "STOPWATCH"
  /\ \/ /\ k = 1
        /\ Goto("main", "idle", "setmode")
        /\ kp' = [kp EXCEPT !.target = "NORMAL"]
     \/ /\ k = 2 /\ ~running
        /\ Goto("main", "idle", "start")
        /\ kp' = [kp EXCEPT !.arg = Clock]
     \/ /\ k = 2 /\ running
        /\ Goto("main", "idle", "pause")
        /\ UNCHANGED kp
     \/ /\ k = 3 /\ ~running
        /\ Goto("main", "idle", "reset")
        /\ UNCHANGED kp
     \/ /\ k = 3 /\ running
        /\ Goto("main", "idle", "save")
        /\ kp' = [kp EXCEPT !.arg = ms]

Press ==
  /\ \E k \in 1..3 : NormalKey(k) \/ SettingKey(k) \/ StopwatchKey(k)
  /\ UNCHANGED <<mode, time, tick, tm, stopwatch, display, world>>

\* clock_set_mode: back from SETTING the RTC is read again and, if it answers,
\* the time is stored.
Reload ==
  /\ \/ Goto("main", "reload", "restore") /\ kp' = [kp EXCEPT !.time = rtc]
     \/ Goto("main", "reload", "setmode") /\ UNCHANGED kp
  /\ UNCHANGED <<mode, time, tick, tm, stopwatch, display, world>>

Restore ==
  /\ Goto("main", "restore", "setmode")
  /\ time' = kp.time
  /\ kp' = [kp EXCEPT !.time = Midnight]
  /\ UNCHANGED <<mode, tick, tm, stopwatch, display, world>>

SetMode ==
  /\ Goto("main", "setmode", "dispmode")
  /\ mode' = kp.target
  /\ kp' = MainIdle
  /\ UNCHANGED <<time, tick, tm, stopwatch, display, world>>

\* display_set_mode stores the mode and then wipes the digits.
SetDisplayMode ==
  /\ Goto("main", "dispmode", "clear")
  /\ dispMode' = mode
  /\ UNCHANGED <<mode, time, tick, screen, kp, tm, stopwatch, world>>

\* Slip: nothing is drawn on the wiped digits.
ClearOnly ==
  /\ screen' = IF dispMode = "STOPWATCH" THEN StopwatchFace(0) ELSE Blank
  /\ MainDone("clear")
  /\ UNCHANGED <<mode, time, tick, dispMode, tm, stopwatch, world>>

ClearDisplay ==
  /\ screen' = IF dispMode = "STOPWATCH" THEN StopwatchFace(0) ELSE Blank
  /\ IF mode = "SETTING"
       THEN MainDone("clear")
       ELSE Goto("main", "clear", "show") /\ UNCHANGED kp
  /\ UNCHANGED <<mode, time, tick, dispMode, tm, stopwatch, world>>

\* Slip: the incremented field is not wrapped.
IncrementUnwrapped ==
  /\ Goto("main", "inc", "set")
  /\ time' = [time EXCEPT ![kp.field] = kp.arg + 1]
  /\ kp' = MainIdle
  /\ UNCHANGED <<mode, tick, tm, stopwatch, display, world>>

\* In SETTING a key adds one to a field loaded by SettingKey, then sets the RTC.
Increment ==
  /\ Goto("main", "inc", "set")
  /\ time' = [time EXCEPT ![kp.field] = (kp.arg + 1) % Size[kp.field]]
  /\ kp' = MainIdle
  /\ UNCHANGED <<mode, tick, tm, stopwatch, display, world>>

\* clock_set_time(&g_current_time).  A failed rtc_set_time may have written
\* some of the time registers; g_current_time keeps the incremented field.
SetTime ==
  /\ \/ Goto("main", "set", "show") /\ rtc' = time /\ UNCHANGED kp
     \/ /\ MainDone("set")
        /\ rtc' \in [hour : {rtc.hour, time.hour}, minute : {rtc.minute, time.minute}]
  /\ UNCHANGED <<mode, time, tick, record, now, tm, stopwatch, display>>

\* Slip: starting keeps the base line of the last callback.
StartBaseKept ==
  /\ Goto("main", "start", "run")
  /\ kp' = MainIdle
  /\ UNCHANGED <<mode, time, tick, tm, stopwatch, display, world>>

\* clock_stopwatch_start: the base line read by StopwatchKey, then the flag.
StartBase ==
  /\ Goto("main", "start", "run")
  /\ last' = kp.arg
  /\ kp' = MainIdle
  /\ UNCHANGED <<mode, running, ms, time, tick, tm, display, world>>

StartRun ==
  /\ Goto("main", "run", "show")
  /\ running' = TRUE
  /\ UNCHANGED <<mode, ms, last, time, tick, kp, tm, display, world>>

Pause ==
  /\ Goto("main", "pause", "show")
  /\ running' = FALSE
  /\ UNCHANGED <<mode, ms, last, time, tick, kp, tm, display, world>>

Reset ==
  /\ Goto("main", "reset", "show")
  /\ running' = FALSE
  /\ ms' = 0
  /\ UNCHANGED <<mode, last, time, tick, kp, tm, display, world>>

\* clock_stopwatch_save_record(0) with the reading loaded by StopwatchKey.
Save ==
  /\ MainDone("save")
  /\ record' \in {kp.arg, record}
  /\ UNCHANGED <<mode, time, tick, rtc, now, tm, stopwatch, display>>

\* The handler ends by showing what it changed: the value is loaded, then the
\* digits are written.
Show ==
  /\ Goto("main", "show", "write")
  /\ kp' = [kp EXCEPT !.out = IF mode = "STOPWATCH" THEN StopwatchFace(ms)
                                                   ELSE TimeFace(time)]
  /\ UNCHANGED <<mode, time, tick, tm, stopwatch, display, world>>

Write ==
  /\ MainDone("write")
  /\ screen' = kp.out
  /\ UNCHANGED <<mode, time, tick, dispMode, tm, stopwatch, world>>

Main == \/ Reload \/ Restore \/ SetMode \/ SetDisplayMode \/ ClearDisplay
        \/ Increment \/ SetTime
        \/ StartBase \/ StartRun \/ Pause \/ Reset \/ Save
        \/ Show \/ Write
--------------------------------------------------------------------------------
(* Thread "timer": clock_timer_callback.                                   *)

\* The callback runs and reads the clock.
Fire ==
  /\ Goto("timer", "idle", "first")
  /\ tm' = [tm EXCEPT !.cur = Clock]
  /\ UNCHANGED <<mode, time, tick, kp, stopwatch, display, world>>

\* The base line is loaded three times.  The first callback, which finds it 0,
\* only takes it.
TestFirst ==
  /\ \/ /\ last = 0
        /\ Goto("timer", "first", "stamp")
        /\ tm' = [tm EXCEPT !.first = TRUE]
     \/ /\ last # 0
        /\ Goto("timer", "first", "elapse")
        /\ UNCHANGED tm
  /\ UNCHANGED <<mode, time, tick, kp, stopwatch, display, world>>

\* A clock behind the base line counts as RolloverStep.
Elapse ==
  /\ \/ /\ tm.cur >= last
        /\ Goto("timer", "elapse", "sub")
        /\ UNCHANGED tm
     \/ /\ tm.cur < last
        /\ Goto("timer", "elapse", "stamp")
        /\ tm' = [tm EXCEPT !.step = RolloverStep]
  /\ UNCHANGED <<mode, time, tick, kp, stopwatch, display, world>>

\* Slip: the step is not capped.
SubtractUncapped ==
  /\ Goto("timer", "sub", "stamp")
  /\ tm' = [tm EXCEPT !.step = (tm.cur - last) % Word]
  /\ UNCHANGED <<mode, time, tick, kp, stopwatch, display, world>>

\* The base line is loaded once more, subtracted modulo Word, and the step is capped.
Subtract ==
  /\ Goto("timer", "sub", "stamp")
  /\ LET d == (tm.cur - last) % Word
     IN  tm' = [tm EXCEPT !.step = IF d > MaxStep THEN MaxStep ELSE d]
  /\ UNCHANGED <<mode, time, tick, kp, stopwatch, display, world>>

\* Slip: only the first callback stores the base line.
StampFirst ==
  /\ last' = IF tm.first THEN tm.cur ELSE last
  /\ Goto("timer", "stamp", IF tm.first THEN "idle" ELSE "switch")
  /\ tm' = [TimerIdle EXCEPT !.step = tm.step]
  /\ UNCHANGED <<mode, running, ms, time, tick, kp, display, world>>

Stamp ==
  /\ last' = tm.cur
  /\ Goto("timer", "stamp", IF tm.first THEN "idle" ELSE "switch")
  /\ tm' = [TimerIdle EXCEPT !.step = tm.step]
  /\ UNCHANGED <<mode, running, ms, time, tick, kp, display, world>>

\* Slip: SETTING reads the RTC as NORMAL does.
RefreshFromRtc == [NORMAL |-> "get", SETTING |-> "get", STOPWATCH |-> "showMs"]

\* Where the refresh of each mode starts.
Refresh == [NORMAL |-> "get", SETTING |-> "showTime", STOPWATCH |-> "showMs"]

\* Slip: the stopwatch counts while it is paused, too.
SwitchCounting ==
  /\ tick' = (tick + 1) % RefreshTicks
  /\ \/ /\ mode = "STOPWATCH"
        /\ Goto("timer", "switch", "load")
        /\ UNCHANGED tm
     \/ /\ mode # "STOPWATCH"
        /\ Goto("timer", "switch", IF tick' = 0 THEN Refresh[mode] ELSE "idle")
        /\ tm' = TimerIdle
  /\ UNCHANGED <<mode, time, kp, stopwatch, display, world>>

\* switch (g_current_mode): every RefreshTicks-th callback refreshes the
\* display, and a running stopwatch is brought up to date by each one.
Switch ==
  /\ tick' = (tick + 1) % RefreshTicks
  /\ \/ /\ mode = "STOPWATCH" /\ running
        /\ Goto("timer", "switch", "load")
        /\ UNCHANGED tm
     \/ /\ ~(mode = "STOPWATCH" /\ running)
        /\ Goto("timer", "switch", IF tick' = 0 THEN Refresh[mode] ELSE "idle")
        /\ tm' = TimerIdle
  /\ UNCHANGED <<mode, time, kp, stopwatch, display, world>>

\* rtc_get_time(&g_current_time): read, if the RTC answers, then store.
GetTime ==
  /\ \/ Goto("timer", "get", "store") /\ tm' = [tm EXCEPT !.time = rtc]
     \/ Goto("timer", "get", "showTime") /\ UNCHANGED tm
  /\ UNCHANGED <<mode, time, tick, kp, stopwatch, display, world>>

StoreTime ==
  /\ Goto("timer", "store", "showTime")
  /\ time' = tm.time
  /\ tm' = TimerIdle
  /\ UNCHANGED <<mode, tick, kp, stopwatch, display, world>>

\* g_stopwatch_ms += elapsed_ms is a load and a store.
LoadMs ==
  /\ Goto("timer", "load", "add")
  /\ tm' = [tm EXCEPT !.ms = ms]
  /\ UNCHANGED <<mode, time, tick, kp, stopwatch, display, world>>

AddMs ==
  /\ Goto("timer", "add", "showMs")
  /\ ms' = (tm.ms + tm.step) % Word
  /\ tm' = TimerIdle
  /\ UNCHANGED <<mode, running, last, time, tick, kp, display, world>>

\* Slip: the time of the RTC is drawn, which is not the edited one when the RTC
\* has refused it.
ShowTimeOfRtc ==
  /\ IF dispMode \in {"NORMAL", "SETTING"}
       THEN Goto("timer", "showTime", "write") /\ tm' = [tm EXCEPT !.out = TimeFace(rtc)]
       ELSE TimerDone("showTime")
  /\ UNCHANGED <<mode, time, tick, kp, stopwatch, display, world>>

\* display_update_time and display_update_stopwatch return at once when the
\* display is in a mode of the other kind.
ShowTime ==
  /\ IF dispMode \in {"NORMAL", "SETTING"}
       THEN Goto("timer", "showTime", "write") /\ tm' = [tm EXCEPT !.out = TimeFace(time)]
       ELSE TimerDone("showTime")
  /\ UNCHANGED <<mode, time, tick, kp, stopwatch, display, world>>

ShowMs ==
  /\ IF dispMode = "STOPWATCH"
       THEN Goto("timer", "showMs", "write") /\ tm' = [tm EXCEPT !.out = StopwatchFace(ms)]
       ELSE TimerDone("showMs")
  /\ UNCHANGED <<mode, time, tick, kp, stopwatch, display, world>>

WriteScreen ==
  /\ TimerDone("write")
  /\ screen' = tm.out
  /\ UNCHANGED <<mode, time, tick, dispMode, kp, stopwatch, world>>

Timer == \/ Fire \/ TestFirst \/ Elapse \/ Subtract \/ Stamp \/ Switch
         \/ GetTime \/ StoreTime \/ LoadMs \/ AddMs
         \/ ShowTime \/ ShowMs \/ WriteScreen
--------------------------------------------------------------------------------
(* The world: the monotonic clock and the RTC move on their own.           *)

ClockTick ==
  /\ now < MaxNow
  /\ now' = now + 1
  /\ UNCHANGED <<mode, time, tick, rtc, record, pc, kp, tm, stopwatch, display>>

RtcMinute ==
  /\ rtc' = [minute |-> (rtc.minute + 1) % Minutes,
             hour   |-> IF rtc.minute = Minutes - 1 THEN (rtc.hour + 1) % Hours
                                                    ELSE rtc.hour]
  /\ UNCHANGED <<mode, time, tick, record, now, pc, kp, tm, stopwatch, display>>

Next == Press \/ Main \/ Timer \/ ClockTick \/ RtcMinute

Spec == Init /\ [][Next]_vars

\* The scheduler runs both threads, the timer interrupt keeps coming and time
\* passes; nobody promises that a key is ever pressed.
Fairness == WF_vars(Main) /\ WF_vars(Timer) /\ WF_vars(ClockTick)
FairSpec == Spec /\ Fairness
--------------------------------------------------------------------------------
\* The type of every variable; among others no key and no overlap of the
\* threads ever takes the time of day out of range.
TypeOK ==
  /\ mode \in Modes /\ dispMode \in Modes
  /\ running \in BOOLEAN
  /\ ms \in Count /\ last \in Count
  /\ tick \in 0..(RefreshTicks - 1)
  /\ time \in Time /\ rtc \in Time
  /\ screen \in Face
  /\ record \in Count
  /\ now \in Nat
  /\ pc \in [main : MainLabels, timer : TimerLabels]
  /\ kp \in MainLocals
  /\ tm \in TimerLocals

\* When the user lets go of the keys, the display comes back again and again
\* to the time or the reading of the current mode, whatever stale face the
\* last callback wrote over it, and whatever the RTC made of the last edit.
ScreenRecovers ==
  []<>(pc["main"] = "idle" =>
         screen = IF mode = "STOPWATCH" THEN StopwatchFace(ms) ELSE TimeFace(time))

Panel == INSTANCE ClockPanel

\* The two threads together implement the panel the user was promised.  The
\* timer callback loads g_stopwatch_ms, adds to it and stores it, with a pause,
\* a reset or a restart by a key anywhere in between, and it loads the base
\* line twice; still no reading is ever smaller than the one before it, unless
\* the user reset a paused stopwatch or the counter wrapped.
ImplementsPanel == Panel!Spec
================================================================================
