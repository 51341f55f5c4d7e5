--------------------------- MODULE ClockProperties ---------------------------
(***************************************************************************)
(* What the overlap of the two threads of ClockDriver can and cannot do,   *)
(* stated with history variables that watch the stopwatch and the time     *)
(* setting.  SerialSpec is the same driver with the two callbacks under    *)
(* one lock, which the code does not have: what fails under HSpec and      *)
(* holds under SerialSpec fails because of the missing lock and nothing    *)
(* else.                                                                   *)
(***************************************************************************)
EXTENDS ClockDriver

CONSTANT MaxStarts   \* bound of the model on the starts of the stopwatch

VARIABLES
  ran,       \* how long the stopwatch has been started, in all, ms
  starts,    \* how often it has been started
  cleared,   \* was it reset, and not started since?
  reloads    \* RTC times stored by the timer since SETTING was entered

history == <<ran, starts, cleared, reloads>>
hvars == <<vars, history>>

HInit == Init /\ ran = 0 /\ starts = 0 /\ cleared = FALSE /\ reloads = 0

\* From the key that starts the stopwatch to the store that pauses it.
Started == running \/ pc["main"] \in {"start", "run"}

\* What one step of the driver adds to the history.
Watch ==
  /\ ran' = IF Started THEN ran + (now' - now) ELSE ran
  /\ starts' = IF StartBase THEN starts + 1 ELSE starts
  /\ cleared' = ((cleared \/ Reset) /\ ~StartBase)
  /\ reloads' = IF mode' # "SETTING" THEN 0
                ELSE IF StoreTime THEN reloads + 1 ELSE reloads

HNext == Next /\ Watch /\ (pc'["main"] = "start" => starts < MaxStarts)

HSpec == HInit /\ [][HNext]_hvars

\* One handler at a time.
Serial == pc["main"] = "idle" \/ pc["timer"] = "idle"
SerialSpec == HInit /\ [][HNext /\ Serial']_hvars
--------------------------------------------------------------------------------
(* What holds in spite of the races.                                       *)

\* A start that overlaps a timer callback makes the stopwatch count time that
\* never passed: a callback that sampled the clock before the start finds the
\* new base line ahead of its sample, accounts up to MaxStep and puts the old
\* base line back, from which the next callback counts once more.  It is never
\* worse than that: each start is worth at most two steps too many.  (Where
\* the counter does not wrap.)
BoundedOvercount == ms <= ran + 2 * MaxStep * starts

\* Entering the SETTING mode leaves at most one refresh of the NORMAL mode in
\* flight, so at most one edit of the user can be overwritten by the RTC.
OneStaleReload == reloads <= 1

\* A reset can be undone, by the one callback that was about to store the reading
\* it had loaded before, or to add its step.  After that a reading of a stopwatch
\* that was reset changes no more: the next reset is for good.
UndoneOnce == [][cleared /\ ms # 0 => ms' \in {0, ms}]_hvars

--------------------------------------------------------------------------------
(* What only holds when the handlers do not overlap.                       *)

\* Starting takes a new base line, so that time is counted from that moment
\* on: the reading never exceeds the time the stopwatch was started for.
Accurate == ms <= ran

\* Reset clears the stopwatch: until the next start the reading stays at zero.
ResetSticks == cleared => ms = 0

\* In the SETTING mode the RTC does not overwrite the time the user sets: it
\* is changed by the increment keys, and read back on leaving the mode.
EditKept ==
  [][mode = "SETTING" => time' = time \/ Increment \/ Restore]_hvars

\* Between two handlers the display shows what the driver holds (on entering
\* SETTING it is blank, and it lags behind an RTC that refuses a new time).
QuietScreen ==
  pc["main"] = "idle" /\ pc["timer"] = "idle" /\ mode # "SETTING"
    => screen = IF mode = "STOPWATCH" THEN StopwatchFace(ms) ELSE TimeFace(time)
===============================================================================
