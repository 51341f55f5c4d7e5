------------------------------ MODULE ClockPanel ------------------------------
(***************************************************************************)
(* What the clock promises to the person at the keypad: three keys drive a *)
(* three-mode panel with a stopwatch whose reading never runs backwards    *)
(* except when a paused stopwatch is reset, or when the 32-bit counter     *)
(* wraps.  The threads, callbacks and drivers that make it so are not      *)
(* visible here: ClockDriver implements this module.                       *)
(***************************************************************************)
EXTENDS Integers

CONSTANTS
  Word,      \* the stopwatch counts modulo Word (2^32 for a uint32_t)
  MaxStep    \* the largest step of one timer callback, in milliseconds

VARIABLES
  mode,      \* "NORMAL", "SETTING" or "STOPWATCH"
  running,   \* is the stopwatch running?
  ms         \* the reading of the stopwatch

panel == <<mode, running, ms>>

Init == mode = "NORMAL" /\ running = FALSE /\ ms = 0

\* The panel moves between NORMAL and each of the two other modes only; the
\* stopwatch keeps its state while the panel shows something else.
ChangeMode ==
  /\ \/ mode = "NORMAL" /\ mode' \in {"SETTING", "STOPWATCH"}
     \/ mode \in {"SETTING", "STOPWATCH"} /\ mode' = "NORMAL"
  /\ UNCHANGED <<running, ms>>

StartOrPause ==
  /\ mode = "STOPWATCH"
  /\ running' = ~running
  /\ UNCHANGED <<mode, ms>>

Reset ==
  /\ mode = "STOPWATCH"
  /\ ~running
  /\ ms' = 0
  /\ UNCHANGED <<mode, running>>

\* Time is accounted at any moment, a late timer callback included; the
\* reading drops only by wrapping, within MaxStep of the end of the word.
Count ==
  /\ ms' \in 0..(Word - 1)
  /\ ms' >= ms \/ ms + MaxStep >= Word
  /\ UNCHANGED <<mode, running>>

Next == ChangeMode \/ StartOrPause \/ Reset \/ Count

Spec == Init /\ [][Next]_panel
===============================================================================
