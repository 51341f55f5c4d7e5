--------------------------- MODULE ClockDriverProofs ---------------------------
(***************************************************************************)
(* Proofs about ClockDriver, for every size of the clock, the counter and  *)
(* the steps: its types, and that its two unlocked threads implement       *)
(* ClockPanel.                                                             *)
(***************************************************************************)
EXTENDS ClockDriver, TLAPS

--------------------------------------------------------------------------------
(* The value domains.                                                      *)

\* A remainder by Word is a value of the counter.
LEMMA CountMod == ASSUME NEW n \in Int PROVE n % Word \in Count
  BY ClockAssumption DEF Count

\* Zero is a value of the counter, and midnight a time of day.
LEMMA Zeros == 0 \in Count /\ Midnight \in Time
  BY ClockAssumption DEF Count, Time, Midnight

\* Everything the code draws is a face.
LEMMA Faces ==
  /\ Blank \in Face
  /\ \A t \in Time : TimeFace(t) \in Face
  /\ \A n \in Count : StopwatchFace(n) \in Face
  BY DEF Face, Blank, TimeFace, StopwatchFace

\* A thread that is done has the locals of an idle thread.
LEMMA Idle ==
  /\ MainIdle \in MainLocals
  /\ TimerIdle \in TimerLocals
  BY Zeros, Faces, ClockAssumption
  DEF MainIdle, TimerIdle, MainLocals, TimerLocals, Modes

--------------------------------------------------------------------------------
(* Type correctness.                                                       *)

\* Every initial state is well typed.
LEMMA TypeInit == Init => TypeOK
<1> SUFFICES ASSUME Init PROVE TypeOK
  OBVIOUS
<1>1. /\ mode \in Modes /\ dispMode \in Modes
      /\ running \in BOOLEAN
      /\ pc \in [main : MainLabels, timer : TimerLabels]
  BY DEF Init, Modes, MainLabels, TimerLabels
<1>2. /\ ms \in Count /\ last \in Count /\ record \in Count
      /\ tick \in 0..(RefreshTicks - 1) /\ now \in Nat
  BY Zeros, ClockAssumption DEF Init
<1>3. time \in Time /\ rtc \in Time /\ screen \in Face
  BY Faces DEF Init
<1>4. kp \in MainLocals /\ tm \in TimerLocals
  BY Idle DEF Init
<1> QED
  BY <1>1, <1>2, <1>3, <1>4 DEF TypeOK

\* Every step keeps the types.
LEMMA TypeStep == TypeOK /\ [Next]_vars => TypeOK'
<1> SUFFICES ASSUME TypeOK, [Next]_vars PROVE TypeOK'
  OBVIOUS
<1> USE Zeros, Faces, Idle, ClockAssumption
    DEF TypeOK, Modes, MainLabels, TimerLabels, Goto, MainDone, TimerDone,
        stopwatch, display, world, MainLocals, TimerLocals
<1>a. Clock \in Count
  BY CountMod DEF Clock
<1>1. CASE Press
  <2> SUFFICES ASSUME NEW k \in 1..3, NormalKey(k) \/ SettingKey(k) \/ StopwatchKey(k)
               PROVE  kp' \in MainLocals /\ pc' \in [main : MainLabels, timer : TimerLabels]
    BY <1>1 DEF Press
  <2>1. CASE NormalKey(k)
    BY <2>1 DEF NormalKey
  <2>2. CASE SettingKey(k)
    <3>1. \A f \in {"hour", "minute"} : time[f] \in Count
      BY DEF Time, Count
    <3>2. CASE k = 1
      BY <2>2, <3>2 DEF SettingKey
    <3>3. CASE k # 1
      <4> DEFINE f == IF k = 2 THEN "hour" ELSE "minute"
      <4>1. kp' = [kp EXCEPT !.field = f, !.arg = time[f]] /\ f \in {"hour", "minute"}
        BY <2>2, <3>3 DEF SettingKey
      <4> HIDE DEF f
      <4>2. kp' \in MainLocals
        BY <3>1, <4>1
      <4> QED
        BY <2>2, <3>3, <4>2 DEF SettingKey
    <3> QED
      BY <3>2, <3>3
  <2>3. CASE StopwatchKey(k)
    BY <2>3, <1>a DEF StopwatchKey
  <2> QED
    BY <2>1, <2>2, <2>3
<1>2. CASE Reload \/ Restore
  BY <1>2 DEF Reload, Restore
<1>3. CASE SetMode
  BY <1>3 DEF SetMode
<1>4. CASE SetDisplayMode
  BY <1>4 DEF SetDisplayMode
<1>5. CASE ClearDisplay
  BY <1>5 DEF ClearDisplay
<1>6. CASE Increment
  <2>1. time' \in Time
    <3> DEFINE f == kp.field
               v == (kp.arg + 1) % Size[f]
    <3>1. f \in {"hour", "minute"} /\ kp.arg \in Nat
      BY DEF Count
    <3>2. time' = [time EXCEPT ![f] = v]
      BY <1>6 DEF Increment
    <3>3. CASE f = "hour"
      <4>1. v \in 0..(Hours - 1)
        BY <3>1, <3>3 DEF Size
      <4> QED
        BY <3>2, <3>3, <4>1 DEF Time
    <3>4. CASE f = "minute"
      <4>1. v \in 0..(Minutes - 1)
        BY <3>1, <3>4 DEF Size
      <4> QED
        BY <3>2, <3>4, <4>1 DEF Time
    <3> QED
      BY <3>1, <3>3, <3>4
  <2> QED
    BY <1>6, <2>1 DEF Increment
<1>7. CASE SetTime
  <2>1. rtc' \in Time
    BY <1>7 DEF SetTime, Time
  <2> QED
    BY <1>7, <2>1 DEF SetTime
<1>8. CASE StartBase
  BY <1>8 DEF StartBase
<1>9. CASE StartRun
  BY <1>9 DEF StartRun
<1>10. CASE Pause
  BY <1>10 DEF Pause
<1>11. CASE Reset
  BY <1>11 DEF Reset
<1>12. CASE Save
  BY <1>12 DEF Save
<1>13. CASE Show
  BY <1>13 DEF Show
<1>14. CASE Write
  BY <1>14 DEF Write
<1>15. CASE Fire
  BY <1>15, <1>a DEF Fire
<1>16. CASE TestFirst \/ Elapse
  <2>1. tm' \in TimerLocals
    <3>1. CASE TestFirst
      BY <3>1 DEF TestFirst
    <3>2. CASE Elapse
      BY <3>2 DEF Elapse
    <3> QED
      BY <1>16, <3>1, <3>2
  <2>2. pc' \in [main : MainLabels, timer : TimerLabels]
    BY <1>16 DEF TestFirst, Elapse
  <2>3. UNCHANGED <<mode, running, ms, last, time, tick, dispMode, screen, rtc, record, now, kp>>
    BY <1>16 DEF TestFirst, Elapse
  <2> QED
    BY <2>1, <2>2, <2>3
<1>17. CASE Subtract
  <2> DEFINE d == (tm.cur - last) % Word
             n == IF d > MaxStep THEN MaxStep ELSE d
  <2>1. n \in 0..MaxStep
    <3>1. tm.cur - last \in Int
      BY DEF Count
    <3> HIDE DEF TypeOK
    <3>2. d \in Nat
      BY <3>1, CountMod DEF Count
    <3> HIDE DEF d
    <3> QED
      BY <3>2
  <2>2. tm' = [tm EXCEPT !.step = n]
    BY <1>17 DEF Subtract
  <2> HIDE DEF n
  <2>3. tm' \in TimerLocals
    BY <2>1, <2>2
  <2> QED
    BY <1>17, <2>3 DEF Subtract
<1>18. CASE Stamp
  BY <1>18 DEF Stamp
<1>19. CASE Switch
  <2>1. tick' \in 0..(RefreshTicks - 1)
    BY <1>19 DEF Switch
  <2>2. Refresh[mode] \in TimerLabels
    BY DEF Refresh
  <2>3. pc' \in [main : MainLabels, timer : TimerLabels] /\ tm' \in TimerLocals
    BY <1>19, <2>2 DEF Switch
  <2> QED
    BY <1>19, <2>1, <2>3 DEF Switch
<1>20. CASE GetTime
  BY <1>20 DEF GetTime
<1>21. CASE StoreTime
  BY <1>21 DEF StoreTime
<1>22. CASE LoadMs
  BY <1>22 DEF LoadMs
<1>23. CASE AddMs
  <2>1. tm.ms + tm.step \in Int
    BY DEF Count
  <2>2. (tm.ms + tm.step) % Word \in Count
    BY <2>1, CountMod
  <2> QED
    BY <1>23, <2>2 DEF AddMs
<1>24. CASE ShowTime
  BY <1>24 DEF ShowTime
<1>25. CASE ShowMs
  BY <1>25 DEF ShowMs
<1>26. CASE WriteScreen
  BY <1>26 DEF WriteScreen
<1>27. CASE ClockTick
  BY <1>27 DEF ClockTick
<1>28. CASE RtcMinute
  BY <1>28 DEF RtcMinute, Time
<1>29. CASE UNCHANGED vars
  BY <1>29 DEF vars
<1> QED
  BY <1>1, <1>2, <1>3, <1>4, <1>5, <1>6, <1>7, <1>8, <1>9, <1>10, <1>11, <1>12, <1>13, <1>14, <1>15, <1>16, <1>17, <1>18, <1>19, <1>20, <1>21, <1>22, <1>23, <1>24, <1>25, <1>26, <1>27, <1>28, <1>29 DEF Next, Main, Timer

\* Every reachable state is well typed.
THEOREM TypeCorrect == Spec => []TypeOK
<1>1. Init => TypeOK
  BY TypeInit
<1>2. TypeOK /\ [Next]_vars => TypeOK'
  BY TypeStep
<1> QED
  BY <1>1, <1>2, PTL DEF Spec

--------------------------------------------------------------------------------
(* What a thread in the middle of a handler may rely on.                   *)

\* A key keeps what it was dispatched on until it is carried out, because only
\* thread "main" changes the mode and the running flag; and of the reading that
\* the timer has loaded, at worst a reset has been stored over it since.
InFlight ==
  /\ pc["main"] \in {"reload", "restore"} => mode = "SETTING" /\ kp.target = "NORMAL"
  /\ pc["main"] = "setmode" => (mode = "NORMAL" <=> kp.target # "NORMAL")
  /\ pc["main"] \in {"start", "run", "reset"} => mode = "STOPWATCH" /\ running = FALSE
  /\ pc["main"] = "pause" => mode = "STOPWATCH" /\ running = TRUE
  /\ pc["timer"] = "add" => ms = 0 \/ ms = tm.ms

Inv == TypeOK /\ InFlight

\* InFlight holds at the start, when no handler runs.
LEMMA InFlightInit == Init => InFlight
  BY DEF Init, InFlight

\* InFlight is inductive on the well-typed states.
LEMMA InFlightStep == Inv /\ [Next]_vars => InFlight'
<1> SUFFICES ASSUME TypeOK, InFlight, [Next]_vars PROVE InFlight'
  BY DEF Inv
<1>a. /\ pc \in [main : MainLabels, timer : TimerLabels]
      /\ kp \in MainLocals /\ tm \in TimerLocals
      /\ mode \in Modes /\ running \in BOOLEAN
  BY DEF TypeOK
<1> USE <1>a DEF InFlight, Goto, MainDone, TimerDone, MainIdle, stopwatch, Modes,
                 MainLocals, TimerLocals
<1>1. CASE Press
  BY <1>1 DEF Press, NormalKey, SettingKey, StopwatchKey
<1>2. CASE Reload \/ Restore
  BY <1>2 DEF Reload, Restore
<1>3. CASE SetMode
  BY <1>3 DEF SetMode
<1>4. CASE SetDisplayMode
  BY <1>4 DEF SetDisplayMode
<1>5. CASE ClearDisplay
  BY <1>5 DEF ClearDisplay
<1>6. CASE Increment
  BY <1>6 DEF Increment
<1>7. CASE SetTime
  BY <1>7 DEF SetTime
<1>8. CASE StartBase
  BY <1>8 DEF StartBase
<1>9. CASE StartRun
  BY <1>9 DEF StartRun
<1>10. CASE Pause
  BY <1>10 DEF Pause
<1>11. CASE Reset
  BY <1>11 DEF Reset
<1>12. CASE Save
  BY <1>12 DEF Save
<1>13. CASE Show
  BY <1>13 DEF Show
<1>14. CASE Write
  BY <1>14 DEF Write
<1>15. CASE Fire
  BY <1>15 DEF Fire
<1>16. CASE TestFirst \/ Elapse
  BY <1>16 DEF TestFirst, Elapse
<1>17. CASE Subtract
  BY <1>17 DEF Subtract
<1>18. CASE Stamp
  BY <1>18 DEF Stamp
<1>19. CASE Switch
  <2>1. Refresh[mode] # "add"
    BY DEF Refresh
  <2>2. pc'["timer"] # "add" /\ pc'["main"] = pc["main"]
    BY <1>19, <2>1 DEF Switch
  <2>3. UNCHANGED <<mode, running, ms, kp>>
    BY <1>19 DEF Switch
  <2> QED
    BY <2>2, <2>3
<1>20. CASE GetTime
  BY <1>20 DEF GetTime
<1>21. CASE StoreTime
  BY <1>21 DEF StoreTime
<1>22. CASE LoadMs
  BY <1>22 DEF LoadMs
<1>23. CASE AddMs
  BY <1>23 DEF AddMs
<1>24. CASE ShowTime
  BY <1>24 DEF ShowTime
<1>25. CASE ShowMs
  BY <1>25 DEF ShowMs
<1>26. CASE WriteScreen
  BY <1>26 DEF WriteScreen
<1>27. CASE ClockTick
  BY <1>27 DEF ClockTick
<1>28. CASE RtcMinute
  BY <1>28 DEF RtcMinute
<1>29. CASE UNCHANGED vars
  BY <1>29 DEF vars
<1> QED
  BY <1>1, <1>2, <1>3, <1>4, <1>5, <1>6, <1>7, <1>8, <1>9, <1>10, <1>11, <1>12, <1>13, <1>14, <1>15, <1>16, <1>17, <1>18, <1>19, <1>20, <1>21, <1>22, <1>23, <1>24, <1>25, <1>26, <1>27, <1>28, <1>29 DEF Next, Main, Timer

\* Every reachable state satisfies the invariant.
THEOREM Invariant == Spec => []Inv
<1>1. Init => Inv
  BY TypeInit, InFlightInit DEF Inv
<1>2. Inv /\ [Next]_vars => Inv'
  BY TypeStep, InFlightStep DEF Inv
<1> QED
  BY <1>1, <1>2, PTL DEF Spec

--------------------------------------------------------------------------------
(* The driver implements the panel.                                        *)

\* The steps that the user cannot see.
Hidden == \/ Press \/ Reload \/ Restore \/ SetDisplayMode \/ ClearDisplay \/ Increment \/ SetTime
          \/ StartBase \/ Save \/ Show \/ Write
          \/ Fire \/ TestFirst \/ Elapse \/ Subtract \/ Stamp \/ Switch \/ GetTime \/ StoreTime
          \/ LoadMs \/ ShowTime \/ ShowMs \/ WriteScreen \/ ClockTick \/ RtcMinute

\* A hidden step leaves the panel as it is.
LEMMA HiddenStutters == Hidden => UNCHANGED Panel!panel
  BY DEF Hidden, Panel!panel, stopwatch, Press, Reload, Restore, SetDisplayMode, ClearDisplay, Increment, SetTime, StartBase, Save, Show, Write, Fire, TestFirst, Elapse, Subtract, Stamp, Switch, GetTime, StoreTime, LoadMs, ShowTime, ShowMs, WriteScreen, ClockTick, RtcMinute

\* The one store that moves the reading, from a reading loaded earlier.
LEMMA AddMsCounts == Inv /\ AddMs => Panel!Count
<1> SUFFICES ASSUME Inv, AddMs PROVE Panel!Count
  OBVIOUS
<1>1. /\ ms = 0 \/ ms = tm.ms
      /\ ms' = (tm.ms + tm.step) % Word
      /\ UNCHANGED <<mode, running>>
  BY DEF Inv, InFlight, AddMs, Goto
<1>2. tm.ms \in 0..(Word - 1) /\ tm.step \in 0..MaxStep /\ ms \in 0..(Word - 1)
  BY DEF Inv, TypeOK, TimerLocals, Count
<1> DEFINE sum == tm.ms + tm.step
<1>3. sum \in Nat /\ sum >= tm.ms /\ sum <= tm.ms + MaxStep
  BY <1>2, ClockAssumption
<1>4. sum % Word \in 0..(Word - 1)
  BY <1>3, CountMod DEF Count
<1>5. CASE sum < Word
  <2>1. sum % Word = sum
    BY <1>3, <1>5, ClockAssumption
  <2> HIDE DEF sum
  <2> QED
    BY <1>1, <1>2, <1>3, <1>4, <2>1, ClockAssumption DEF Panel!Count, sum
<1>6. CASE sum >= Word
  <2>1. ms = 0 \/ ms + MaxStep >= Word
    BY <1>1, <1>2, <1>3, <1>6, ClockAssumption
  <2>2. ms' \in 0..(Word - 1)
    BY <1>1, <1>4
  <2> QED
    BY <1>1, <1>2, <2>1, <2>2, ClockAssumption DEF Panel!Count
<1> QED
  BY <1>3, <1>5, <1>6, ClockAssumption

\* Every step of the driver is a step of the panel or leaves it as it is.
LEMMA PanelStep == Inv /\ [Next]_vars => [Panel!Next]_(Panel!panel)
<1> SUFFICES ASSUME Inv, [Next]_vars PROVE [Panel!Next]_(Panel!panel)
  OBVIOUS
<1> USE DEF Panel!Next, Panel!panel
<1>1. CASE Hidden
  BY <1>1, HiddenStutters
<1>2. CASE SetMode
  <2>1. /\ mode \in Modes /\ kp.target \in Modes
        /\ mode = "NORMAL" <=> kp.target # "NORMAL"
    BY <1>2 DEF Inv, TypeOK, InFlight, MainLocals, SetMode, Goto
  <2> QED
    BY <1>2, <2>1 DEF SetMode, stopwatch, Panel!ChangeMode, Modes
<1>3. CASE StartRun
  BY <1>3 DEF StartRun, Goto, Inv, InFlight, Panel!StartOrPause
<1>4. CASE Pause
  BY <1>4 DEF Pause, Goto, Inv, InFlight, Panel!StartOrPause
<1>5. CASE Reset
  BY <1>5 DEF Reset, Goto, Inv, InFlight, Panel!Reset
<1>6. CASE AddMs
  BY <1>6, AddMsCounts
<1>7. CASE UNCHANGED vars
  BY <1>7 DEF vars
<1> QED
  BY <1>1, <1>2, <1>3, <1>4, <1>5, <1>6, <1>7 DEF Hidden, Next, Main, Timer

\* The driver implements ClockPanel, whatever the sizes: no interleaving of a
\* key and a timer callback makes the stopwatch run backwards, start, stop,
\* reset or change the mode in any way the user did not ask for.
THEOREM PanelImplemented == Spec => ImplementsPanel
<1>1. Init => Panel!Init
  BY DEF Init, Panel!Init
<1>2. Inv /\ [Next]_vars => [Panel!Next]_(Panel!panel)
  BY PanelStep
<1> QED
  BY <1>1, <1>2, Invariant, PTL DEF Spec, ImplementsPanel, Panel!Spec

================================================================================
