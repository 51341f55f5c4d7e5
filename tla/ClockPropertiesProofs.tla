------------------------- MODULE ClockPropertiesProofs -------------------------
(***************************************************************************)
(* Proofs about ClockProperties, for every size of the clock, the counter  *)
(* and the steps, and any number of starts: what holds of the stopwatch    *)
(* and of the time setting in spite of the races, and what a lock would    *)
(* give them.                                                              *)
(***************************************************************************)
EXTENDS ClockProperties, ClockDriverProofs

--------------------------------------------------------------------------------
(* The invariants, of the driver without a lock.                           *)

\* What a callback accounts for d milliseconds.
Capped(d) == IF d > MaxStep THEN MaxStep ELSE d

\* The time the stopwatch may show: that for which it was started, and two
\* steps for each start.
Budget == ran + 2 * MaxStep * starts

\* Is the base line in use?
Counting == running \/ pc["main"] = "run"

\* Where the timer is when it has no step in hand.
Calm == {"idle", "get", "store", "showTime", "showMs", "write"}

\* A refresh in flight when SETTING is entered is the only one it will see.
ReloadInv ==
  /\ reloads \in Nat
  /\ mode # "SETTING" => reloads = 0
  /\ pc["timer"] \in {"get", "store"} => reloads = 0
  /\ reloads <= 1

\* A stopwatch that was reset is not running, nor about to; once a callback has
\* stored a reading in it, none is left to store another.
ResetInv ==
  cleared =>
    /\ ~running /\ pc["main"] # "run"
    /\ ms # 0 => pc["timer"] \notin {"load", "add"}

\* The samples of the clock lie in the past.
Past ==
  /\ now <= MaxNow /\ last <= now
  /\ pc["main"] = "start" => kp.arg <= now
  /\ pc["timer"] \in {"first", "elapse", "sub", "stamp"} => tm.cur <= now

\* The reading, what the callback is about to add to it, and what the next one
\* will add at most, are within the budget: by the time that has passed, or,
\* when the base line or the sample is older than the start, by its two steps.
BudgetInv ==
  /\ ran \in Nat /\ starts \in Nat /\ ms <= Budget
  /\ pc["timer"] = "load" => ms + tm.step <= Budget
  /\ pc["timer"] = "add" => tm.ms + tm.step <= Budget
  /\ Counting =>
       /\ pc["timer"] \in Calm => ms + Capped(now - last) <= Budget
       /\ pc["timer"] \in {"first", "elapse", "sub"} =>
            \/ ms + 2 * MaxStep <= Budget
            \/ last <= tm.cur /\ ms + Capped(tm.cur - last) + (now - tm.cur) <= Budget
       /\ pc["timer"] = "stamp" =>
            ms + 2 * MaxStep <= Budget \/ ms + tm.step + (now - tm.cur) <= Budget
       /\ pc["timer"] \in {"switch", "load"} => ms + tm.step + Capped(now - last) <= Budget
       /\ pc["timer"] = "add" => tm.ms + tm.step + Capped(now - last) <= Budget

\* A callback, the first one above all, starts with nothing to account.
Fresh ==
  /\ pc["timer"] \in {"idle", "first", "elapse", "sub"} => ~tm.first
  /\ pc["timer"] \in {"idle", "first", "elapse"} \/ tm.first => tm.step = 0

RaceInv == Inv /\ Past /\ Fresh /\ BudgetInv

--------------------------------------------------------------------------------
(* And with one.                                                           *)

\* While the timer is in its callback, no key changes what it was dispatched on.
SerialRefresh ==
  /\ Serial
  /\ pc["timer"] \in {"get", "store"} => mode = "NORMAL"
  /\ pc["timer"] = "showTime" => mode # "STOPWATCH"
  /\ pc["timer"] \in {"load", "add", "showMs"} => mode = "STOPWATCH"
  /\ pc["timer"] \in {"load", "add"} => running
  /\ pc["timer"] = "add" => tm.ms = ms

\* A stopwatch that was reset is not running, nor about to.
SerialReset == cleared => ms = 0 /\ ~running /\ pc["main"] # "run"

\* The reading and what is still to be added to it is time that has passed.
SerialCount ==
  /\ ran \in Nat /\ ms <= ran
  /\ pc["timer"] \in {"first", "elapse", "sub", "stamp"} => last <= tm.cur
  /\ pc["main"] = "start" => ms + (now - kp.arg) <= ran
  /\ Counting =>
       /\ pc["timer"] \in Calm \cup {"first", "elapse", "sub"} => ms + (now - last) <= ran
       /\ pc["timer"] = "stamp" => ms + tm.step + (now - tm.cur) <= ran
       /\ pc["timer"] \in {"switch", "load", "add"} => ms + tm.step + (now - last) <= ran

\* What the display shows for the current mode.
Current == IF mode = "STOPWATCH" THEN StopwatchFace(ms) ELSE TimeFace(time)

\* Every handler that changes what is shown ends by showing it.
SerialScreen ==
  /\ pc["main"] # "dispmode" => dispMode = mode
  /\ pc["main"] \in {"inc", "set"} => mode = "SETTING"
  /\ pc["main"] = "save" => screen = Current /\ mode = "STOPWATCH"
  /\ pc["main"] = "write" => kp.out = Current
  /\ pc["timer"] = "write" => tm.out = Current
  /\ /\ pc["main"] = "idle" /\ mode # "SETTING"
     /\ pc["timer"] \notin {"showTime", "showMs", "write"}
     => screen = Current

LockInv == Inv /\ SerialRefresh /\ SerialReset /\ SerialScreen
--------------------------------------------------------------------------------
(* What the steps of each side leave alone.                                *)

\* The values the clock arithmetic is about are natural numbers.
LEMMA Naturals ==
  ASSUME TypeOK
  PROVE  /\ ms \in Nat /\ last \in Nat /\ now \in Nat /\ MaxStep \in Nat
         /\ kp.arg \in Nat /\ tm.cur \in Nat /\ tm.ms \in Nat
         /\ tm.step \in Nat /\ tm.step <= MaxStep
         /\ pc \in [main : MainLabels, timer : TimerLabels]
  BY ClockAssumption DEF TypeOK, Count, MainLocals, TimerLocals

\* The keypad callback leaves the timer where it is and touches the stopwatch
\* in four places only.
LEMMA MainEffect ==
  ASSUME TypeOK, Press \/ Main
  PROVE  /\ UNCHANGED <<now, tick, tm>> /\ pc'["timer"] = pc["timer"]
         /\ last' = last \/ StartBase
         /\ ms' = ms \/ Reset
         /\ running' = running \/ StartRun \/ Pause \/ Reset
         /\ pc["main"] = "run" => StartRun
         /\ pc'["main"] = "run" => StartBase
         /\ pc'["main"] = "start" => kp'.arg = Clock
<1> USE DEF TypeOK, MainLabels, TimerLabels, Goto, MainDone, stopwatch, display, world
<1>1. CASE Press
  BY <1>1 DEF Press, NormalKey, SettingKey, StopwatchKey, MainLocals
<1>2. CASE Main
  <2>1. CASE StartBase \/ StartRun \/ Pause \/ Reset
    BY <2>1 DEF StartBase, StartRun, Pause, Reset
  <2>2. CASE Reload \/ Restore \/ SetMode \/ SetDisplayMode \/ ClearDisplay \/ Increment \/ SetTime
    BY <2>2 DEF Reload, Restore, SetMode, SetDisplayMode, ClearDisplay, Increment, SetTime
  <2>3. CASE Save \/ Show \/ Write
    BY <2>3 DEF Save, Show, Write
  <2> QED
    BY <1>2, <2>1, <2>2, <2>3 DEF Main
<1> QED
  BY <1>1, <1>2

\* The timer callback leaves thread "main" where it is, and the mode and the
\* running flag alone.
LEMMA TimerEffect ==
  ASSUME TypeOK, Timer
  PROVE  /\ UNCHANGED <<mode, running, dispMode, rtc, record, now, kp>>
         /\ pc'["main"] = pc["main"]
         /\ last' = last \/ Stamp
         /\ ms' = ms \/ AddMs
         /\ time' = time \/ StoreTime
         /\ screen' = screen \/ WriteScreen
<1> USE DEF TypeOK, MainLabels, TimerLabels, Goto, TimerDone, stopwatch, display, world
<1>1. CASE Fire \/ TestFirst \/ Elapse \/ Subtract \/ Stamp
  BY <1>1 DEF Fire, TestFirst, Elapse, Subtract, Stamp
<1>2. CASE Switch
  BY <1>2 DEF Switch
<1>3. CASE GetTime \/ StoreTime \/ LoadMs \/ AddMs
  BY <1>3 DEF GetTime, StoreTime, LoadMs, AddMs
<1>4. CASE ShowTime \/ ShowMs \/ WriteScreen
  BY <1>4 DEF ShowTime, ShowMs, WriteScreen
<1> QED
  BY <1>1, <1>2, <1>3, <1>4 DEF Timer

\* The world touches nothing of the driver.
LEMMA WorldEffect ==
  ASSUME ClockTick \/ RtcMinute
  PROVE  UNCHANGED <<mode, running, ms, last, time, tick, dispMode, screen, record, pc, kp, tm>>
  BY DEF ClockTick, RtcMinute, stopwatch, display

\* The time goes on by steps of one, up to the bound.
LEMMA NowMoves ==
  ASSUME TypeOK, [Next]_vars
  PROVE  now' = now \/ (ClockTick /\ now' = now + 1 /\ now < MaxNow)
<1>1. CASE ClockTick \/ RtcMinute
  BY <1>1 DEF ClockTick, RtcMinute
<1> QED
  BY <1>1, MainEffect, TimerEffect DEF Next, vars

\* Where each step of the timer leads.
LEMMA TimerPath ==
  ASSUME TypeOK, Timer
  PROVE  \/ pc["timer"] = "idle" /\ pc'["timer"] = "first" /\ Fire
         \/ pc["timer"] = "first" /\ pc'["timer"] \in {"elapse", "stamp"} /\ TestFirst
         \/ pc["timer"] = "elapse" /\ pc'["timer"] \in {"sub", "stamp"} /\ Elapse
         \/ pc["timer"] = "sub" /\ pc'["timer"] = "stamp" /\ Subtract
         \/ pc["timer"] = "stamp" /\ pc'["timer"] \in {"idle", "switch"} /\ Stamp
         \/ pc["timer"] = "switch" /\ pc'["timer"] \in {"load", "get", "showTime", "showMs", "idle"} /\ Switch
         \/ pc["timer"] = "get" /\ pc'["timer"] \in {"store", "showTime"} /\ GetTime
         \/ pc["timer"] = "store" /\ pc'["timer"] = "showTime" /\ StoreTime
         \/ pc["timer"] = "load" /\ pc'["timer"] = "add" /\ LoadMs
         \/ pc["timer"] = "add" /\ pc'["timer"] = "showMs" /\ AddMs
         \/ pc["timer"] = "showTime" /\ pc'["timer"] \in {"write", "idle"} /\ ShowTime
         \/ pc["timer"] = "showMs" /\ pc'["timer"] \in {"write", "idle"} /\ ShowMs
         \/ pc["timer"] = "write" /\ pc'["timer"] = "idle" /\ WriteScreen
<1> USE DEF TypeOK, MainLabels, TimerLabels, Goto, TimerDone
<1>1. CASE Fire \/ TestFirst \/ Elapse \/ Subtract \/ Stamp
  BY <1>1 DEF Fire, TestFirst, Elapse, Subtract, Stamp
<1>2. CASE Switch
  <2>1. Refresh[mode] \in {"get", "showTime", "showMs"}
    BY DEF Refresh, Modes
  <2> QED
    BY <1>2, <2>1 DEF Switch
<1>3. CASE GetTime \/ StoreTime \/ LoadMs \/ AddMs
  BY <1>3 DEF GetTime, StoreTime, LoadMs, AddMs
<1>4. CASE ShowTime \/ ShowMs \/ WriteScreen
  BY <1>4 DEF ShowTime, ShowMs, WriteScreen
<1> QED
  BY <1>1, <1>2, <1>3, <1>4 DEF Timer
--------------------------------------------------------------------------------
(* Without a lock.                                                         *)

\* The reloads are counted in a natural number, and one refresh is under way
\* at most once the SETTING mode is entered: there it reads the RTC no more.
LEMMA ReloadStep == ASSUME TypeOK, ReloadInv, HNext PROVE ReloadInv'
<1>1. Next /\ reloads' = IF mode' # "SETTING" THEN 0 ELSE IF StoreTime THEN reloads + 1 ELSE reloads
  BY DEF HNext, Watch
<1>2. CASE Timer
  <2>1. mode' = mode
    BY <1>2, TimerEffect
  <2>2. CASE StoreTime
    <3>1. pc["timer"] = "store" /\ pc'["timer"] = "showTime"
      BY <1>2, <2>2, TimerPath DEF StoreTime, Goto
    <3> QED
      BY <1>1, <2>1, <2>2, <3>1 DEF ReloadInv
  <2>3. CASE ~StoreTime
    <3>1. pc'["timer"] \in {"get", "store"} => pc["timer"] \in {"get", "store"} \/ mode = "NORMAL"
      <4>1. CASE Switch
        BY <4>1 DEF Switch, Goto, Refresh, TypeOK, TimerLabels, Modes
      <4> QED
        BY <1>2, <4>1, TimerPath
    <3> QED
      BY <1>1, <2>1, <2>3, <3>1 DEF ReloadInv
  <2> QED
    BY <2>2, <2>3
<1>3. CASE ~Timer
  <2>1. pc'["timer"] = pc["timer"]
    BY <1>1, <1>3, MainEffect, WorldEffect DEF Next
  <2>2. ~StoreTime
    BY <1>3 DEF Timer
  <2>3. reloads' \in {0, reloads}
    BY <1>1, <2>2
  <2>4. mode' = "SETTING" \/ reloads' = 0
    BY <1>1
  <2> QED
    BY <2>1, <2>3, <2>4 DEF ReloadInv
<1> QED
  BY <1>2, <1>3

\* A sample of the clock is never ahead of it, as long as it has not wrapped.
LEMMA PastStep ==
  ASSUME MaxNow < Word, TypeOK, Past, [Next]_vars
  PROVE  Past'
<1>1. Clock = now
  BY ClockAssumption, Naturals DEF Past, Clock
<1>2. now' \in Nat /\ now <= now' /\ now' <= MaxNow
  BY NowMoves, Naturals, ClockAssumption DEF Past
<1>3. last' <= now' /\ (pc'["timer"] \in {"first", "elapse", "sub", "stamp"} => tm'.cur <= now')
  <2>1. CASE Press \/ Main
    <3>1. last' = last \/ (pc["main"] = "start" /\ last' = kp.arg)
      BY <2>1, MainEffect DEF StartBase, Goto
    <3> QED
      BY <1>2, <2>1, <3>1, MainEffect, Naturals DEF Past
  <2>2. CASE Timer
    <3>1. last' = last \/ (pc["timer"] = "stamp" /\ last' = tm.cur)
      BY <2>2, TimerEffect DEF Stamp, Goto
    <3>2. Fire => tm'.cur = now
      BY <1>1 DEF Fire, TypeOK, TimerLocals
    <3>3. TestFirst \/ Elapse \/ Subtract => tm'.cur = tm.cur
      BY DEF TestFirst, Elapse, Subtract, TypeOK, TimerLocals
    <3> QED
      BY <1>2, <2>2, <3>1, <3>2, <3>3, TimerPath, Naturals DEF Past
  <2>3. CASE ClockTick \/ RtcMinute \/ UNCHANGED vars
    BY <1>2, <2>3, WorldEffect, Naturals DEF Past, vars
  <2> QED
    BY <2>1, <2>2, <2>3 DEF Next
<1>4. pc'["main"] = "start" => kp'.arg <= now'
  <2>1. CASE Press \/ Main
    BY <1>1, <1>2, <2>1, MainEffect, Naturals
  <2>2. CASE Timer
    BY <1>2, <2>2, TimerEffect, Naturals DEF Past
  <2>3. CASE ClockTick \/ RtcMinute \/ UNCHANGED vars
    BY <1>2, <2>3, WorldEffect, Naturals DEF Past, vars
  <2> QED
    BY <2>1, <2>2, <2>3 DEF Next
<1> QED
  BY <1>2, <1>3, <1>4 DEF Past

\* A callback starts with nothing to account, and the first one ends with it.
LEMMA FreshStep == ASSUME TypeOK, Fresh, [Next]_vars PROVE Fresh'
<1>1. CASE Fire \/ TestFirst \/ Elapse \/ Subtract \/ Stamp
  <2> USE DEF Goto, TypeOK, TimerLabels, TimerLocals, Fresh
  <2>1. CASE Fire
    BY <2>1 DEF Fire
  <2>2. CASE TestFirst \/ Elapse
    BY <2>2 DEF TestFirst, Elapse
  <2>3. CASE Subtract
    BY <2>3 DEF Subtract
  <2>4. CASE Stamp
    BY <2>4 DEF Stamp, TimerIdle
  <2> QED
    BY <1>1, <2>1, <2>2, <2>3, <2>4
<1>2. CASE Timer /\ ~(Fire \/ TestFirst \/ Elapse \/ Subtract \/ Stamp)
  <2> USE DEF Goto, TimerDone, TypeOK, TimerLabels, TimerLocals
  <2>1. CASE Switch
    <3>1. tm' = TimerIdle \/ (tm' = tm /\ pc'["timer"] # "idle")
      BY <2>1 DEF Switch
    <3>2. pc'["timer"] \notin {"first", "elapse", "sub"}
      BY <2>1 DEF Switch, Refresh, Modes
    <3> QED
      BY <3>1, <3>2 DEF Fresh, TimerIdle
  <2>2. CASE GetTime \/ StoreTime \/ LoadMs \/ AddMs
    BY <2>2 DEF GetTime, StoreTime, LoadMs, AddMs, Fresh, TimerIdle
  <2>3. CASE ShowTime
    BY <2>3 DEF ShowTime, Fresh, TimerIdle
  <2>4. CASE ShowMs
    BY <2>4 DEF ShowMs, Fresh, TimerIdle
  <2>5. CASE WriteScreen
    BY <2>5 DEF WriteScreen, Fresh, TimerIdle
  <2> QED
    BY <1>2, <2>1, <2>2, <2>3, <2>4, <2>5 DEF Timer
<1>3. CASE ~Timer
  BY <1>3, MainEffect, WorldEffect DEF Fresh, Next, vars
<1> QED
  BY <1>1, <1>2, <1>3
\* No step takes from the budget; time that passes while the stopwatch is started
\* adds to it, and so does a start: two steps.
LEMMA BudgetGrows ==
  ASSUME TypeOK, ran \in Nat, starts \in Nat, HNext
  PROVE  /\ ran' \in Nat /\ starts' \in Nat /\ Budget \in Nat /\ Budget' \in Nat
         /\ Budget' >= Budget
         /\ Counting => Budget' >= Budget + (now' - now)
         /\ StartBase => Budget' >= Budget + 2 * MaxStep
<1>1. /\ ran' = IF Started THEN ran + (now' - now) ELSE ran
      /\ starts' = IF StartBase THEN starts + 1 ELSE starts
      /\ [Next]_vars
  BY DEF HNext, Watch
<1>2. now \in Nat /\ now' \in Nat /\ now <= now' /\ MaxStep \in Nat
  <2>1. now \in Nat /\ MaxStep \in Nat
    BY Naturals
  <2>2. now' = now \/ now' = now + 1
    BY <1>1, NowMoves
  <2> QED
    BY <2>1, <2>2
<1> DEFINE later == now'
           ran1  == ran'
<1>3. ran1 \in Nat /\ ran1 >= ran /\ (Counting => ran1 = ran + (later - now))
  <2>1. later \in Nat /\ now <= later
    BY <1>2
  <2>2. ran1 = IF Started THEN ran + (later - now) ELSE ran
    BY <1>1
  <2> HIDE DEF later, ran1
  <2>3. CASE Started
    BY <1>2, <2>1, <2>2, <2>3
  <2>4. CASE ~Started
    BY <2>2, <2>4 DEF Counting, Started
  <2> QED
    BY <2>3, <2>4
<1> DEFINE two == 2 * MaxStep
<1>4. two \in Nat /\ two * (starts + 1) = two * starts + two /\ two * starts \in Nat
  BY <1>2
<1> HIDE DEF two
<1>5. /\ starts' \in Nat /\ two * starts' \in Nat /\ two * starts' >= two * starts
      /\ StartBase => two * starts' = two * starts + two
  <2>1. CASE StartBase
    <3>1. starts' = starts + 1
      BY <1>1, <2>1
    <3> QED
      BY <1>4, <3>1
  <2>2. CASE ~StartBase
    <3>1. starts' = starts
      BY <1>1, <2>2
    <3> QED
      BY <1>4, <2>2, <3>1
  <2> QED
    BY <2>1, <2>2
<1>6. Budget = ran + two * starts /\ Budget' = ran' + two * starts'
  BY DEF Budget, two
<1> DEFINE here    == two * starts
           next    == two * starts'
           budget1 == Budget'
<1>7. /\ here \in Nat /\ next \in Nat /\ next >= here /\ (StartBase => next = here + two)
      /\ Budget = ran + here /\ budget1 = ran1 + next
  BY <1>4, <1>5, <1>6
<1>8. later \in Nat /\ now <= later
  BY <1>2
<1> HIDE DEF here, next, budget1, ran1, later
<1>9. Budget \in Nat /\ budget1 \in Nat /\ budget1 >= Budget
  BY <1>3, <1>7
<1>10. Counting => budget1 >= Budget + (later - now)
  BY <1>2, <1>3, <1>7, <1>8
<1>11. StartBase => budget1 >= Budget + two
  BY <1>3, <1>4, <1>7
<1> QED
  BY <1>3, <1>5, <1>9, <1>10, <1>11 DEF two, budget1, ran1, later

\* The keys leave the reading within the budget: a start pays for whatever the
\* callback and the next one make of the base line it replaces.
LEMMA BudgetMain ==
  ASSUME TypeOK, Past, BudgetInv, HNext, Press \/ Main
  PROVE  BudgetInv'
<1>a. /\ ran' \in Nat /\ starts' \in Nat /\ Budget \in Nat /\ Budget' \in Nat /\ Budget' >= Budget
      /\ StartBase => Budget' >= Budget + 2 * MaxStep
  BY BudgetGrows DEF BudgetInv
<1>b. /\ now' = now /\ tm' = tm /\ pc'["timer"] = pc["timer"]
  BY MainEffect
<1> USE <1>a, <1>b, Naturals DEF Capped
<1>1. CASE StartBase
  <2>1. ms' = ms /\ last' = kp.arg /\ kp.arg <= now
    BY <1>1 DEF StartBase, Goto, Past
  <2>2. ms' + 2 * MaxStep <= Budget'
    BY <1>1, <2>1 DEF BudgetInv
  <2>3. pc["timer"] = "add" => tm.ms + tm.step + MaxStep <= Budget'
    BY <1>1 DEF BudgetInv
  <2>4. pc["timer"] = "load" => ms' + tm.step <= Budget'
    BY <2>1, <2>2
  <2>5. Capped(now - last') <= MaxStep /\ Capped(now - last') \in Nat
    BY <2>1
  <2> HIDE DEF Capped
  <2> QED
    BY <2>1, <2>2, <2>3, <2>4, <2>5 DEF BudgetInv
<1>2. CASE ~StartBase
  <2>1. last' = last /\ (ms' = ms \/ ms' = 0)
    BY <1>2, MainEffect DEF Reset
  <2>a. Counting' => Counting
    BY <1>2, MainEffect DEF Counting, StartRun, Pause, Reset, Goto
  <2>2. ms' \in Nat /\ ms' <= ms
    BY <2>1
  <2> QED
    BY <2>1, <2>2, <2>a DEF BudgetInv, Past
<1> QED
  BY <1>1, <1>2

\* So does the callback, whatever became of the stopwatch since it was called.
LEMMA BudgetTimer ==
  ASSUME MaxNow < Word, TypeOK, TypeOK', InFlight, Past, Fresh, BudgetInv, HNext, Timer
  PROVE  BudgetInv'
<1>a. ran' \in Nat /\ starts' \in Nat /\ Budget \in Nat /\ Budget' \in Nat /\ Budget' >= Budget
  BY BudgetGrows DEF BudgetInv
<1>b. now' = now /\ Counting' = Counting
  BY TimerEffect DEF Counting
<1>c. /\ ms' \in Nat /\ last' \in Nat /\ tm'.cur \in Nat /\ tm'.ms \in Nat
      /\ tm'.step \in Nat /\ tm'.step <= MaxStep
  BY ClockAssumption DEF TypeOK, Count, MainLocals, TimerLocals
<1>d. tm \in TimerLocals /\ last <= now /\ now < Word /\ Clock = now
  BY Naturals, ClockAssumption DEF TypeOK, Past, Clock
<1> USE <1>a, <1>b, <1>c, <1>d, Naturals DEF Capped, Calm, stopwatch, Goto
<1>1. CASE Fire
  <2>1. /\ pc["timer"] = "idle" /\ pc'["timer"] = "first" /\ tm'.cur = now /\ ms' = ms /\ last' = last
    BY <1>1, TimerPath DEF Fire, TimerLocals
  <2> QED
    BY <2>1 DEF BudgetInv
<1>2. CASE TestFirst \/ Elapse
  <2>1. /\ pc["timer"] \in {"first", "elapse"} /\ ms' = ms /\ last' = last
        /\ tm'.cur = tm.cur /\ tm.step = 0
        /\ \/ pc'["timer"] = "stamp" /\ tm'.step = tm.step
           \/ pc'["timer"] = "stamp" /\ tm.cur < last
           \/ pc'["timer"] \in {"elapse", "sub"}
    BY <1>2 DEF TestFirst, Elapse, TypeOK, TimerLabels, TimerLocals, Fresh
  <2> QED
    BY <2>1 DEF BudgetInv, Past
<1>3. CASE Subtract
  <2>1. /\ pc["timer"] = "sub" /\ pc'["timer"] = "stamp" /\ ms' = ms /\ last' = last
        /\ tm'.cur = tm.cur /\ tm'.step = Capped((tm.cur - last) % Word)
    BY <1>3, TimerPath DEF Subtract, TimerLocals
  <2>2. last <= tm.cur => (tm.cur - last) % Word = tm.cur - last
    BY <2>1, ClockAssumption DEF Past
  <2> QED
    BY <2>1, <2>2 DEF BudgetInv, Past
<1>4. CASE Stamp
  <2>1. /\ pc["timer"] = "stamp" /\ pc'["timer"] \in {"idle", "switch"} /\ ms' = ms
        /\ last' = tm.cur /\ tm'.step = tm.step
    BY <1>4, TimerPath DEF Stamp, TimerIdle
  <2> QED
    BY <2>1 DEF BudgetInv, Past
<1>5. CASE Switch
  <2>1. /\ pc["timer"] = "switch" /\ ms' = ms /\ last' = last
        /\ \/ pc'["timer"] = "load" /\ running /\ tm' = tm
           \/ pc'["timer"] \in Calm
    <3>1. Refresh[mode] \in Calm
      BY DEF Refresh, Modes, TypeOK
    <3> QED
      BY <1>5, <3>1 DEF Switch, TypeOK, TimerLabels
  <2> QED
    BY <2>1 DEF BudgetInv, Past, Counting
<1>6. CASE LoadMs
  <2>1. /\ pc["timer"] = "load" /\ pc'["timer"] = "add" /\ ms' = ms /\ last' = last
        /\ tm'.ms = ms /\ tm'.step = tm.step
    BY <1>6, TimerPath DEF LoadMs, TimerLocals
  <2> QED
    BY <2>1 DEF BudgetInv
<1>7. CASE AddMs
  <2>1. /\ pc["timer"] = "add" /\ pc'["timer"] = "showMs" /\ last' = last
        /\ ms' = (tm.ms + tm.step) % Word
    BY <1>7, TimerPath DEF AddMs
  <2>2. ms' <= tm.ms + tm.step
    BY <2>1, ClockAssumption
  <2> QED
    BY <2>1, <2>2 DEF BudgetInv
<1>8. CASE GetTime \/ StoreTime \/ ShowTime \/ ShowMs \/ WriteScreen
  <2>1. pc["timer"] \in Calm /\ pc'["timer"] \in Calm /\ last' = last /\ ms' = ms
    BY <1>8, TimerPath, TimerEffect
    DEF GetTime, StoreTime, ShowTime, ShowMs, WriteScreen, TimerDone, Stamp, AddMs
  <2> QED
    BY <2>1 DEF BudgetInv
<1> QED
  BY <1>1, <1>2, <1>3, <1>4, <1>5, <1>6, <1>7, <1>8 DEF Timer
\* So does the time: what passes while the stopwatch counts is in the budget.
LEMMA BudgetWorld ==
  ASSUME TypeOK, Past, BudgetInv, HNext, ClockTick \/ RtcMinute
  PROVE  BudgetInv'
<1> DEFINE later   == now'
           budget1 == Budget'
<1>1. /\ ran' \in Nat /\ starts' \in Nat /\ Budget \in Nat /\ budget1 \in Nat /\ budget1 >= Budget
      /\ Counting => budget1 >= Budget + (later - now)
  BY BudgetGrows DEF BudgetInv
<1>2. Counting' = Counting /\ UNCHANGED <<ms, last, tm>> /\ pc' = pc
  BY WorldEffect DEF Counting
<1>3. later = now \/ later = now + 1
  BY NowMoves DEF HNext
<1> HIDE DEF later, budget1
<1>4. Capped(later - last) <= Capped(now - last) + (later - now) /\ Capped(now - last) \in Nat
      /\ Capped(later - last) \in Nat /\ later \in Nat
  BY <1>3, Naturals DEF Capped, Past
<1>5. /\ ms <= budget1
      /\ pc["timer"] = "load" => ms + tm.step <= budget1
      /\ pc["timer"] = "add" => tm.ms + tm.step <= budget1
  BY <1>1, Naturals DEF BudgetInv
<1>6. Counting /\ pc["timer"] \in Calm => ms + Capped(later - last) <= budget1
  BY <1>1, <1>3, <1>4, Naturals DEF BudgetInv
<1>7. Counting /\ pc["timer"] \in {"first", "elapse", "sub"} =>
        \/ ms + 2 * MaxStep <= budget1
        \/ last <= tm.cur /\ ms + Capped(tm.cur - last) + (later - tm.cur) <= budget1
  BY <1>1, <1>3, Naturals DEF BudgetInv, Past, Capped
<1>8. Counting /\ pc["timer"] = "stamp" =>
        ms + 2 * MaxStep <= budget1 \/ ms + tm.step + (later - tm.cur) <= budget1
  BY <1>1, <1>3, Naturals DEF BudgetInv, Past
<1>9. Counting /\ pc["timer"] \in {"switch", "load"} => ms + tm.step + Capped(later - last) <= budget1
  BY <1>1, <1>3, <1>4, Naturals DEF BudgetInv
<1>10. Counting /\ pc["timer"] = "add" => tm.ms + tm.step + Capped(later - last) <= budget1
  BY <1>1, <1>3, <1>4, Naturals DEF BudgetInv
<1>11. Capped(now - last)' = Capped(later - last) /\ Capped(tm.cur - last)' = Capped(tm.cur - last)
  BY <1>2 DEF Capped, later
<1> QED
  BY <1>1, <1>2, <1>5, <1>6, <1>7, <1>8, <1>9, <1>10, <1>11 DEF BudgetInv, later, budget1

\* A step that changes nothing keeps everything.
LEMMA BudgetStutter == BudgetInv /\ UNCHANGED hvars => BudgetInv'
  BY DEF BudgetInv, hvars, vars, history, Budget, Counting, Capped

\* Without a lock every state keeps the types, what is in flight, and at most one
\* stale refresh.
LEMMA ReloadInductive == HSpec => [](Inv /\ ReloadInv)
<1>1. HInit => Inv /\ ReloadInv
  BY TypeInit, InFlightInit DEF HInit, Init, Inv, ReloadInv
<1>2. Inv /\ ReloadInv /\ [HNext]_hvars => (Inv /\ ReloadInv)'
  <2> SUFFICES ASSUME Inv, ReloadInv, [HNext]_hvars PROVE Inv' /\ ReloadInv'
    OBVIOUS
  <2>1. Inv'
    BY TypeStep, InFlightStep DEF Inv, HNext, hvars
  <2>2. ReloadInv'
    <3>1. CASE HNext
      BY <3>1, ReloadStep DEF Inv
    <3>2. CASE UNCHANGED hvars
      BY <3>2 DEF hvars, vars, history, ReloadInv
    <3> QED
      BY <3>1, <3>2
  <2> QED
    BY <2>1, <2>2
<1> QED
  BY <1>1, <1>2, PTL DEF HSpec

\* At most one refresh of the NORMAL mode is in flight when the user enters the
\* SETTING mode, so that the RTC overwrites at most one edit.
THEOREM OneStaleReloadHolds == HSpec => []OneStaleReload
<1>1. ReloadInv => OneStaleReload
  BY DEF ReloadInv, OneStaleReload
<1> QED
  BY <1>1, ReloadInductive, PTL

\* No callback starts to count on a stopwatch that was reset, and the one that
\* has started stores once.
LEMMA ResetStep == ASSUME TypeOK, ResetInv, HNext PROVE ResetInv'
<1>a. Next /\ cleared' = ((cleared \/ Reset) /\ ~StartBase)
  BY DEF HNext, Watch
<1>1. CASE Reset
  BY <1>a, <1>1 DEF Reset, Goto, TypeOK, MainLabels, ResetInv
<1>2. CASE ~Reset
  <2> SUFFICES ASSUME cleared, ~StartBase, ~running, pc["main"] # "run",
                      ms # 0 => pc["timer"] \notin {"load", "add"}
               PROVE  /\ ~running' /\ pc'["main"] # "run"
                      /\ ms' # 0 => pc'["timer"] \notin {"load", "add"}
    BY <1>a, <1>2 DEF ResetInv
  <2>1. CASE Press \/ Main
    <3>1. ms' = ms /\ pc'["main"] # "run" /\ pc'["timer"] = pc["timer"]
      BY <1>a, <1>2, <2>1, MainEffect
    <3>2. running' = running \/ running' = FALSE
      BY <1>a, <1>2, <2>1, MainEffect DEF StartRun, Pause, Goto
    <3> QED
      BY <3>1, <3>2
  <2>2. CASE Timer
    <3>1. ~running' /\ pc'["main"] # "run"
      BY <1>a, <2>2, TimerEffect
    <3>2. ms' = ms \/ (AddMs /\ pc'["timer"] = "showMs")
      BY <1>a, <2>2, TimerEffect, TimerPath DEF AddMs, Goto
    <3>3. pc'["timer"] \in {"load", "add"} => pc["timer"] = "load"
      <4>1. CASE Switch
        BY <4>1 DEF Switch, Goto, Refresh, TypeOK, TimerLabels, Modes
      <4> QED
        BY <2>2, <4>1, TimerPath
    <3> QED
      BY <3>1, <3>2, <3>3
  <2>3. CASE ClockTick \/ RtcMinute
    BY <2>3, WorldEffect
  <2> QED
    BY <1>a, <2>1, <2>2, <2>3 DEF Next
<1> QED
  BY <1>1, <1>2

\* A reset is undone by one callback at most, without a lock.
THEOREM UndoneOnceHolds == HSpec => UndoneOnce
<1>1. HInit => TypeOK /\ ResetInv
  BY TypeInit DEF HInit, ResetInv
<1>2. TypeOK /\ ResetInv /\ [HNext]_hvars => (TypeOK /\ ResetInv)'
  <2> SUFFICES ASSUME TypeOK, ResetInv, [HNext]_hvars PROVE TypeOK' /\ ResetInv'
    OBVIOUS
  <2>1. TypeOK'
    BY TypeStep DEF HNext, hvars
  <2>2. CASE HNext
    BY <2>1, <2>2, ResetStep
  <2>3. CASE UNCHANGED hvars
    BY <2>1, <2>3 DEF hvars, vars, history, ResetInv
  <2> QED
    BY <2>2, <2>3
<1>3. TypeOK /\ ResetInv /\ [HNext]_hvars => [cleared /\ ms # 0 => ms' \in {0, ms}]_hvars
  <2> SUFFICES ASSUME TypeOK, ResetInv, HNext, cleared, ms # 0 PROVE ms' \in {0, ms}
    OBVIOUS
  <2>1. CASE Reset
    BY <2>1 DEF Reset
  <2>2. CASE (Press \/ Main) /\ ~Reset
    BY <2>2, MainEffect
  <2>3. CASE Timer
    <3>1. ~AddMs
      BY DEF ResetInv, AddMs, Goto
    <3> QED
      BY <2>3, <3>1, TimerEffect
  <2>4. CASE ClockTick \/ RtcMinute
    BY <2>4, WorldEffect
  <2> QED
    BY <2>1, <2>2, <2>3, <2>4 DEF HNext, Next
<1> QED
  BY <1>1, <1>2, <1>3, PTL DEF HSpec, UndoneOnce

\* Without a lock every reading is within the budget, until the millisecond
\* counter wraps.
LEMMA BudgetInductive == ASSUME MaxNow < Word PROVE HSpec => []RaceInv
<1>1. HInit => RaceInv
  <2> SUFFICES ASSUME HInit PROVE RaceInv
    OBVIOUS
  <2>1. Inv
    BY TypeInit, InFlightInit DEF HInit, Inv
  <2>2. Past /\ Fresh
    BY ClockAssumption DEF HInit, Init, Past, Fresh, TimerIdle
  <2>3. Budget = 0
    BY ClockAssumption DEF HInit, Budget
  <2>4. BudgetInv
    BY <2>3 DEF HInit, Init, BudgetInv, Counting
  <2> QED
    BY <2>1, <2>2, <2>4 DEF RaceInv
<1>2. RaceInv /\ [HNext]_hvars => RaceInv'
  <2> SUFFICES ASSUME RaceInv, [HNext]_hvars PROVE RaceInv'
    OBVIOUS
  <2>1. [Next]_vars /\ TypeOK /\ InFlight /\ Past /\ Fresh /\ BudgetInv
    BY DEF RaceInv, Inv, HNext, hvars
  <2>2. Inv'
    BY <2>1, TypeStep, InFlightStep DEF Inv
  <2>3. Past' /\ Fresh'
    BY <2>1, PastStep, FreshStep
  <2>4. BudgetInv'
    <3>1. CASE HNext
      BY <2>1, <2>2, <3>1, BudgetMain, BudgetTimer, BudgetWorld DEF HNext, Next, Inv
    <3>2. CASE UNCHANGED hvars
      BY <2>1, <3>2, BudgetStutter
    <3> QED
      BY <3>1, <3>2
  <2> QED
    BY <2>2, <2>3, <2>4 DEF RaceInv
<1> QED
  BY <1>1, <1>2, PTL DEF HSpec

\* However the keys overlap the timer callback, the stopwatch never shows more
\* than the time for which it was started and two steps for each start, until
\* CLOCK_MONOTONIC, cut to 32 bits, wraps.
THEOREM Overcount == ASSUME MaxNow < Word PROVE HSpec => []BoundedOvercount
<1>1. RaceInv => BoundedOvercount
  BY DEF RaceInv, BudgetInv, BoundedOvercount, Budget
<1> QED
  BY <1>1, BudgetInductive, PTL
--------------------------------------------------------------------------------
(* With a lock.                                                            *)

\* A key is handled while the timer is idle, and the callback runs while no key
\* is handled.
LEMMA OneHandler ==
  ASSUME TypeOK, Serial, Serial'
  PROVE  /\ Press \/ Main => pc["timer"] = "idle" /\ pc'["timer"] = "idle"
         /\ Timer => pc["main"] = "idle" /\ pc'["main"] = "idle"
<1> USE DEF TypeOK, MainLabels, TimerLabels
<1>1. Press => pc'["main"] # "idle"
  BY DEF Press, NormalKey, SettingKey, StopwatchKey, Goto
<1>2. Main => pc["main"] # "idle"
  BY DEF Main, Reload, Restore, SetMode, SetDisplayMode, ClearDisplay, Increment, SetTime, StartBase, StartRun,
         Pause, Reset, Save, Show, Write, Goto, MainDone
<1>3. Timer => pc["timer"] # "idle" \/ pc'["timer"] # "idle"
  BY TimerPath
<1> QED
  BY <1>1, <1>2, <1>3, MainEffect, TimerEffect DEF Serial

\* The time of day is changed by the timer, in the NORMAL mode, and by the keys.
LEMMA TimeMoves ==
  ASSUME TypeOK, [Next]_vars
  PROVE  time' = time \/ Restore \/ Increment \/ StoreTime
<1>1. CASE Press \/ Main
  BY <1>1 DEF Press, Main, Reload, SetMode, SetDisplayMode, ClearDisplay, SetTime, StartBase, StartRun, Pause,
              Reset, Save, Show, Write
<1> QED
  BY <1>1, TimerEffect, WorldEffect DEF Next, vars

\* A locked callback works on the mode it was dispatched on, and on the reading it
\* has loaded.
LEMMA SerialRefreshStep ==
  ASSUME Inv, SerialRefresh, Next, Serial'
  PROVE  SerialRefresh'
<1>a. TypeOK
  BY DEF Inv
<1>1. CASE Press \/ Main
  <2>1. pc'["timer"] = "idle"
    BY <1>a, <1>1, OneHandler DEF SerialRefresh
  <2> QED
    BY <2>1 DEF SerialRefresh
<1>2. CASE Timer
  <2>1. UNCHANGED <<mode, running>>
    BY <1>a, <1>2, TimerEffect
  <2>2. CASE Switch
    <3>1. Refresh[mode] = IF mode = "NORMAL" THEN "get" ELSE IF mode = "SETTING" THEN "showTime" ELSE "showMs"
      BY <1>a DEF Refresh, Modes, TypeOK
    <3>2. CASE mode = "STOPWATCH" /\ running
      <4>1. pc'["timer"] = "load"
        BY <1>a, <2>2, <3>2 DEF Switch, Goto, TypeOK, TimerLabels
      <4> QED
        BY <2>1, <3>2, <4>1 DEF SerialRefresh
    <3>3. CASE ~(mode = "STOPWATCH" /\ running)
      <4>1. pc'["timer"] \in {"idle", Refresh[mode]}
        BY <1>a, <2>2, <3>3 DEF Switch, Goto, TypeOK, TimerLabels
      <4>2. mode \in {"NORMAL", "SETTING", "STOPWATCH"}
        BY <1>a DEF TypeOK, Modes
      <4> QED
        BY <2>1, <3>1, <4>1, <4>2 DEF SerialRefresh
    <3> QED
      BY <3>2, <3>3
  <2>3. CASE LoadMs
    BY <1>a, <2>1, <2>3 DEF LoadMs, Goto, SerialRefresh, TypeOK, TimerLabels, TimerLocals, stopwatch
  <2>4. CASE ~Switch /\ ~LoadMs
    BY <1>a, <1>2, <2>1, <2>4, TimerPath DEF SerialRefresh
  <2> QED
    BY <2>2, <2>3, <2>4
<1>3. CASE ClockTick \/ RtcMinute
  BY <1>3, WorldEffect DEF SerialRefresh
<1> QED
  BY <1>1, <1>2, <1>3 DEF Next

\* Only a start sets a stopwatch going that was reset.
LEMMA SerialResetStep ==
  ASSUME Inv, SerialRefresh, SerialReset, HNext, Serial'
  PROVE  SerialReset'
<1>a. TypeOK /\ Next /\ cleared' = ((cleared \/ Reset) /\ ~StartBase)
  BY DEF Inv, HNext, Watch
<1>1. CASE Reset
  BY <1>a, <1>1 DEF Reset, Goto, SerialReset, TypeOK, MainLabels
<1>2. CASE ~Reset
  <2> SUFFICES ASSUME cleared, ~StartBase, ms = 0, ~running, pc["main"] # "run"
               PROVE  ms' = 0 /\ ~running' /\ pc'["main"] # "run"
    BY <1>a, <1>2 DEF SerialReset
  <2>1. CASE Press \/ Main
    <3>1. ms' = ms /\ pc'["main"] # "run"
      BY <1>a, <1>2, <2>1, MainEffect
    <3>2. running' = running \/ running' = FALSE
      BY <1>a, <1>2, <2>1, MainEffect DEF StartRun, Pause, Goto
    <3> QED
      BY <3>1, <3>2
  <2>2. CASE Timer
    <3>1. pc["timer"] # "add"
      BY DEF SerialRefresh
    <3>2. ~AddMs
      BY <3>1 DEF AddMs, Goto
    <3> QED
      BY <1>a, <2>2, <3>2, TimerEffect
  <2>3. CASE ClockTick \/ RtcMinute
    BY <2>3, WorldEffect
  <2> QED
    BY <1>a, <2>1, <2>2, <2>3 DEF Next
<1> QED
  BY <1>1, <1>2

\* The history of a step that takes no time.
LEMMA SameRan ==
  ASSUME TypeOK, ran \in Nat, HNext
  PROVE  /\ now' = now => ran' = ran
         /\ Started /\ now' = now + 1 => ran' = ran + 1
         /\ ran' \in Nat /\ ran' >= ran
<1>1. ran' = IF Started THEN ran + (now' - now) ELSE ran
  BY DEF HNext, Watch
<1>2. now' = now \/ now' = now + 1
  BY NowMoves DEF HNext
<1> DEFINE later == now'
           ran1  == ran'
<1>3. ran1 = (IF Started THEN ran + (later - now) ELSE ran) /\ (later = now \/ later = now + 1)
  BY <1>1, <1>2
<1> HIDE DEF later, ran1
<1>4. /\ later = now => ran1 = ran
      /\ Started /\ later = now + 1 => ran1 = ran + 1
      /\ ran1 \in Nat /\ ran1 >= ran
  BY <1>3, Naturals
<1> QED
  BY <1>4 DEF later, ran1

\* The stopwatch counts the time that passes and no more.
LEMMA SerialCountStep ==
  ASSUME MaxNow < Word, Inv, Inv', Past, Fresh, SerialRefresh, SerialCount, HNext, Serial'
  PROVE  SerialCount'
<1>a. TypeOK /\ Next /\ ran \in Nat
  BY DEF Inv, HNext, SerialCount
<1>b. Clock = now /\ MaxNow \in Nat
  BY <1>a, Naturals, ClockAssumption DEF Past, Clock
<1>c. ms' \in Nat
  BY Naturals, ClockAssumption DEF Inv, TypeOK, Count
<1> USE Naturals, <1>a, <1>b, <1>c
<1>1. CASE Press \/ Main
  <2>1. pc["timer"] = "idle" /\ pc'["timer"] = "idle" /\ now' = now /\ ran' = ran
    BY <1>1, OneHandler, MainEffect, SameRan DEF SerialRefresh
  <2>2. CASE StartBase
    BY <2>1, <2>2 DEF StartBase, Goto, SerialCount, Calm, TypeOK, MainLabels
  <2>3. CASE ~StartBase
    <3>1. last' = last /\ (ms' = ms \/ (Reset /\ ms' = 0))
      BY <1>1, <2>3, MainEffect DEF Reset
    <3>2. Counting' => Counting /\ ~Reset
      BY <1>1, <2>3, MainEffect DEF Counting, StartRun, Pause, Reset, Goto
    <3>3. pc'["main"] = "start" => kp'.arg = now
      BY <1>1, MainEffect
    <3>4. ms' <= ms
      BY <3>1
    <3> QED
      BY <2>1, <3>1, <3>2, <3>3, <3>4 DEF SerialCount, Calm, Past
  <2> QED
    BY <2>2, <2>3
<1>2. CASE Timer
  <2>1. pc["main"] = "idle" /\ pc'["main"] = "idle" /\ now' = now /\ ran' = ran /\ running' = running
    BY <1>2, OneHandler, TimerEffect, SameRan DEF SerialRefresh
  <2>2. Counting = running /\ Counting' = running
    BY <2>1 DEF Counting, Inv, TypeOK
  <2> USE <2>1, <2>2 DEF Goto, Calm, stopwatch
  <2>3. CASE Fire
    <3>1. pc["timer"] = "idle" /\ pc'["timer"] = "first" /\ tm'.cur = now /\ ms' = ms /\ last' = last
      BY <2>3, TimerPath DEF Fire, TypeOK, TimerLocals
    <3> QED
      BY <3>1 DEF SerialCount, Past
  <2>4. CASE TestFirst \/ Elapse
    <3>1. /\ pc["timer"] \in {"first", "elapse"} /\ ms' = ms /\ last' = last /\ tm'.cur = tm.cur
          /\ \/ pc'["timer"] = "stamp" /\ tm'.step = 0
             \/ pc'["timer"] \in {"elapse", "sub"}
      BY <2>4 DEF TestFirst, Elapse, TypeOK, TimerLabels, TimerLocals, Fresh, SerialCount
    <3> QED
      BY <3>1 DEF SerialCount, Past
  <2>5. CASE Subtract
    <3>1. /\ pc["timer"] = "sub" /\ pc'["timer"] = "stamp" /\ ms' = ms /\ last' = last
          /\ tm'.cur = tm.cur /\ tm'.step = Capped((tm.cur - last) % Word)
      BY <2>5, TimerPath DEF Subtract, TypeOK, TimerLocals, Capped
    <3>2. (tm.cur - last) % Word = tm.cur - last /\ tm.cur - last \in Nat
      BY <3>1, ClockAssumption DEF Past, SerialCount
    <3>3. tm'.step <= tm.cur - last /\ tm'.step \in Nat
      BY <3>1, <3>2 DEF Capped
    <3> QED
      BY <3>1, <3>3 DEF SerialCount, Past
  <2>6. CASE Stamp
    <3>1. /\ pc["timer"] = "stamp" /\ pc'["timer"] \in {"idle", "switch"} /\ ms' = ms
          /\ last' = tm.cur /\ tm'.step = tm.step
      BY <2>6, TimerPath DEF Stamp, TimerIdle
    <3> QED
      BY <3>1 DEF SerialCount, Past
  <2>7. CASE Switch
    <3>1. /\ pc["timer"] = "switch" /\ ms' = ms /\ last' = last
          /\ \/ pc'["timer"] = "load" /\ tm' = tm
             \/ pc'["timer"] \in Calm
      <4>1. Refresh[mode] \in Calm
        BY DEF Refresh, Modes, TypeOK
      <4> QED
        BY <2>7, <4>1 DEF Switch, TypeOK, TimerLabels
    <3> QED
      BY <3>1 DEF SerialCount, Past
  <2>8. CASE LoadMs
    <3>1. /\ pc["timer"] = "load" /\ pc'["timer"] = "add" /\ ms' = ms /\ last' = last
          /\ tm'.step = tm.step
      BY <2>8, TimerPath DEF LoadMs, TypeOK, TimerLocals
    <3> QED
      BY <3>1 DEF SerialCount
  <2>9. CASE AddMs
    <3>1. /\ pc["timer"] = "add" /\ pc'["timer"] = "showMs" /\ last' = last
          /\ ms' = (ms + tm.step) % Word /\ running
      BY <2>9, TimerPath DEF AddMs, SerialRefresh
    <3>2. ms' <= ms + tm.step
      BY <3>1, ClockAssumption
    <3> QED
      BY <3>1, <3>2 DEF SerialCount, Past
  <2>10. CASE GetTime \/ StoreTime \/ ShowTime \/ ShowMs \/ WriteScreen
    <3>1. pc["timer"] \in Calm /\ pc'["timer"] \in Calm /\ last' = last /\ ms' = ms
      BY <2>10, TimerPath, TimerEffect
      DEF GetTime, StoreTime, ShowTime, ShowMs, WriteScreen, TimerDone, Stamp, AddMs
    <3> QED
      BY <3>1 DEF SerialCount
  <2> QED
    BY <1>2, <2>3, <2>4, <2>5, <2>6, <2>7, <2>8, <2>9, <2>10 DEF Timer
<1>3. CASE ClockTick \/ RtcMinute
  <2>1. UNCHANGED <<running, ms, last, pc, kp, tm>> /\ (now' = now \/ now' = now + 1)
    BY <1>3, WorldEffect, NowMoves
  <2>2. /\ Counting' = Counting /\ (Counting \/ pc["main"] = "start" => Started)
    BY <2>1 DEF Counting, Started
  <2>3. CASE now' = now
    BY <2>1, <2>2, <2>3, SameRan DEF SerialCount
  <2>4. CASE now' = now + 1
    <3>1. /\ ran' \in Nat /\ ran' >= ran /\ (Started => ran' = ran + 1)
      BY <2>4, SameRan
    <3> QED
      BY <2>1, <2>2, <2>4, <3>1 DEF SerialCount, Past
  <2> QED
    BY <2>1, <2>3, <2>4
<1> QED
  BY <1>1, <1>2, <1>3 DEF Next
\* A key ends by showing what it changed, or leaves the driver in SETTING.
LEMMA ScreenMain ==
  ASSUME Inv, SerialScreen, Press \/ Main, pc["timer"] = "idle"
  PROVE  SerialScreen'
<1>1. TypeOK /\ pc'["timer"] = "idle"
  BY MainEffect DEF Inv
<1> USE <1>1 DEF SerialScreen, Current, TypeOK, MainLabels, MainLocals, Goto, MainDone,
             stopwatch, display, world
<1>2. CASE Press
  <2>1. pc["main"] = "idle" /\ UNCHANGED <<mode, dispMode, screen, time, ms>>
    BY <1>2 DEF Press, NormalKey, SettingKey, StopwatchKey
  <2>2. /\ pc'["main"] \in {"setmode", "reload", "inc", "start", "pause", "reset", "save"}
        /\ pc'["main"] = "inc" => mode = "SETTING"
        /\ pc'["main"] = "save" => mode = "STOPWATCH"
    BY <1>2 DEF Press, NormalKey, SettingKey, StopwatchKey
  <2> QED
    BY <2>1, <2>2
<1>3. CASE Reload \/ Restore \/ SetMode
  BY <1>3 DEF Reload, Restore, SetMode
<1>4. CASE SetDisplayMode
  BY <1>4 DEF SetDisplayMode
<1>5. CASE ClearDisplay
  BY <1>5 DEF ClearDisplay
<1>6. CASE Increment
  BY <1>6 DEF Increment
<1>7. CASE SetTime
  BY <1>7 DEF SetTime
<1>8. CASE StartBase \/ StartRun \/ Pause \/ Reset
  BY <1>8 DEF StartBase, StartRun, Pause, Reset
<1>9. CASE Save
  BY <1>9 DEF Save
<1>10. CASE Show
  BY <1>10 DEF Show
<1>11. CASE Write
  BY <1>11 DEF Write
<1> QED
  BY <1>2, <1>3, <1>4, <1>5, <1>6, <1>7, <1>8, <1>9, <1>10, <1>11 DEF Main

\* So does a callback of the timer, in the mode it was dispatched on.
LEMMA ScreenTimer ==
  ASSUME Inv, SerialRefresh, SerialScreen, Timer, pc["main"] = "idle"
  PROVE  SerialScreen'
<1>1. /\ TypeOK /\ UNCHANGED <<mode, dispMode>> /\ pc'["main"] = "idle" /\ dispMode = mode
  BY TimerEffect DEF Inv, SerialScreen
<1> USE <1>1 DEF SerialScreen, Current
<1>2. CASE ShowTime
  <2>1. pc["timer"] = "showTime" /\ mode \in {"NORMAL", "SETTING"}
    BY <1>2 DEF ShowTime, Goto, TimerDone, SerialRefresh, TypeOK, Modes
  <2>2. pc'["timer"] = "write" /\ tm'.out = TimeFace(time) /\ time' = time
    BY <1>2, <2>1 DEF ShowTime, Goto, TypeOK, TimerLabels, TimerLocals
  <2> QED
    BY <2>1, <2>2
<1>3. CASE ShowMs
  <2>1. pc["timer"] = "showMs" /\ mode = "STOPWATCH"
    BY <1>3 DEF ShowMs, Goto, TimerDone, SerialRefresh
  <2>2. pc'["timer"] = "write" /\ tm'.out = StopwatchFace(ms) /\ ms' = ms
    BY <1>3, <2>1 DEF ShowMs, Goto, TypeOK, TimerLabels, TimerLocals, stopwatch
  <2> QED
    BY <2>1, <2>2
<1>4. CASE WriteScreen
  <2>1. /\ pc["timer"] = "write" /\ pc'["timer"] = "idle" /\ screen' = tm.out
        /\ UNCHANGED <<time, ms>>
    BY <1>4 DEF WriteScreen, Goto, TimerDone, TypeOK, TimerLabels, stopwatch
  <2> QED
    BY <2>1
<1>5. CASE StoreTime \/ AddMs
  <2>1. pc'["timer"] \in {"showTime", "showMs"}
    BY <1>5 DEF StoreTime, AddMs, Goto, TypeOK, TimerLabels
  <2> QED
    BY <2>1
<1>6. CASE ~(ShowTime \/ ShowMs \/ WriteScreen \/ StoreTime \/ AddMs)
  <2>1. UNCHANGED <<time, ms, screen>>
    BY <1>6, TimerEffect
  <2>2. pc["timer"] \notin {"showTime", "showMs", "write"} /\ pc'["timer"] # "write"
    BY <1>6, TimerPath
  <2> QED
    BY <2>1, <2>2
<1> QED
  BY <1>2, <1>3, <1>4, <1>5, <1>6

\* What a lock makes of the driver is an invariant of it.
LEMMA LockInductive == SerialSpec => []LockInv
<1>1. HInit => LockInv
  BY TypeInit, InFlightInit
  DEF HInit, Init, Inv, LockInv, SerialRefresh, Serial, SerialReset, SerialScreen, Current
<1>2. LockInv /\ [HNext /\ Serial']_hvars => LockInv'
  <2> SUFFICES ASSUME LockInv, [HNext /\ Serial']_hvars PROVE LockInv'
    OBVIOUS
  <2>1. Inv /\ TypeOK /\ SerialRefresh /\ SerialReset /\ SerialScreen /\ [Next]_vars
    BY DEF LockInv, Inv, HNext, hvars
  <2>2. Inv'
    BY <2>1, TypeStep, InFlightStep DEF Inv
  <2>3. CASE HNext /\ Serial'
    <3>1. Next
      BY <2>3 DEF HNext
    <3>2. SerialRefresh' /\ SerialReset'
      BY <2>1, <2>3, <3>1, SerialRefreshStep, SerialResetStep
    <3>3. Serial
      BY <2>1 DEF SerialRefresh
    <3>4. CASE Press \/ Main
      BY <2>1, <2>2, <2>3, <3>2, <3>3, <3>4, OneHandler, ScreenMain DEF LockInv
    <3>5. CASE Timer
      BY <2>1, <2>2, <2>3, <3>2, <3>3, <3>5, OneHandler, ScreenTimer DEF LockInv
    <3>6. CASE ClockTick \/ RtcMinute
      <4>1. SerialScreen'
        BY <2>1, <3>6, WorldEffect DEF SerialScreen, Current
      <4> QED
        BY <2>2, <3>2, <4>1 DEF LockInv
    <3> QED
      BY <3>1, <3>4, <3>5, <3>6 DEF Next
  <2>4. CASE UNCHANGED hvars
    <3>1. SerialRefresh' /\ SerialReset'
      BY <2>1, <2>4 DEF hvars, vars, history, SerialRefresh, Serial, SerialReset
    <3>2. SerialScreen'
      BY <2>1, <2>4 DEF hvars, vars, SerialScreen, Current
    <3> QED
      BY <2>2, <3>1, <3>2 DEF LockInv
  <2> QED
    BY <2>3, <2>4
<1> QED
  BY <1>1, <1>2, PTL DEF SerialSpec

\* With a lock the stopwatch stays at zero from a reset to the next start: no
\* callback puts a reading back that it loaded before.
THEOREM ResetHolds == SerialSpec => []ResetSticks
<1>1. LockInv => ResetSticks
  BY DEF LockInv, SerialReset, ResetSticks
<1> QED
  BY <1>1, LockInductive, PTL

\* With a lock the display shows what the driver holds whenever no handler runs.
THEOREM QuietScreenHolds == SerialSpec => []QuietScreen
<1>1. LockInv => QuietScreen
  BY DEF LockInv, SerialScreen, Current, QuietScreen
<1> QED
  BY <1>1, LockInductive, PTL

\* With a lock the RTC never overwrites the time the user is setting.
THEOREM EditHolds == SerialSpec => EditKept
<1>1. ASSUME LockInv, [HNext /\ Serial']_hvars
      PROVE  [mode = "SETTING" => time' = time \/ Increment \/ Restore]_hvars
  <2> SUFFICES ASSUME HNext, mode = "SETTING" PROVE time' = time \/ Increment \/ Restore
    BY <1>1
  <2>1. time' = time \/ Restore \/ Increment \/ StoreTime
    BY <1>1, TimeMoves DEF LockInv, Inv, HNext
  <2>2. ~StoreTime
    BY <1>1 DEF StoreTime, Goto, LockInv, SerialRefresh
  <2> QED
    BY <2>1, <2>2
<1> QED
  BY <1>1, LockInductive, PTL DEF SerialSpec, EditKept

\* With a lock the reading is at most the time for which the stopwatch was
\* started, until CLOCK_MONOTONIC, cut to 32 bits, wraps.
THEOREM AccurateHolds == ASSUME MaxNow < Word PROVE SerialSpec => []Accurate
<1> DEFINE CInv == LockInv /\ Past /\ Fresh /\ SerialCount
<1>1. HInit => CInv /\ LockInv
  <2> SUFFICES ASSUME HInit PROVE CInv
    OBVIOUS
  <2>1. LockInv
    BY TypeInit, InFlightInit
    DEF HInit, Init, Inv, LockInv, SerialRefresh, Serial, SerialReset, SerialScreen, Current
  <2>2. Past /\ Fresh /\ SerialCount
    BY ClockAssumption DEF HInit, Init, Past, Fresh, SerialCount, Counting, TimerIdle
  <2> QED
    BY <2>1, <2>2
<1>2. CInv /\ LockInv' /\ [HNext /\ Serial']_hvars => CInv'
  <2> SUFFICES ASSUME LockInv, Past, Fresh, SerialCount, LockInv', [HNext /\ Serial']_hvars
               PROVE  Past' /\ Fresh' /\ SerialCount'
    OBVIOUS
  <2>1. Inv /\ Inv' /\ TypeOK /\ SerialRefresh /\ [Next]_vars
    BY DEF LockInv, Inv, HNext, hvars
  <2>2. Past' /\ Fresh'
    BY <2>1, PastStep, FreshStep
  <2>3. CASE HNext /\ Serial'
    BY <2>1, <2>2, <2>3, SerialCountStep
  <2>4. CASE UNCHANGED hvars
    <3>1. SerialCount'
      BY <2>4 DEF hvars, vars, history, SerialCount, Counting
    <3> QED
      BY <2>2, <3>1
  <2> QED
    BY <2>2, <2>3, <2>4
<1>3. CInv => Accurate
  BY DEF SerialCount, Accurate
<1> HIDE DEF CInv
<1> QED
  BY <1>1, <1>2, <1>3, LockInductive, PTL DEF SerialSpec
================================================================================
