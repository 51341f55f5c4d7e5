----------------------------- MODULE RtcProperties -----------------------------
(***************************************************************************)
(* How far the time that RtcDriver keeps by hand can run ahead of the      *)
(* seconds that really passed since it was set.                            *)
(***************************************************************************)
EXTENDS RtcDriver

VARIABLES
  setAt,    \* the beat at which the time was last set by hand
  setTo,    \* and what it was set to
  jolts,    \* calls of rtc_set_time since then that wrote to the chip, that one too
  guesses,  \* looks at the chip since then that were taken for one second
  sets      \* how often rtc_set_time was called at all

history == <<setAt, setTo, jolts, guesses, sets>>
hvars == <<vars, history>>

HInit == Init /\ setAt = 0 /\ setTo = Zero /\ jolts = 0 /\ guesses = 0 /\ sets = 0

Guessed ==
  LET d == (Secs(Decode(loc.bytes)) - Secs(lastHw)) % Day
  IN  lastHw = Zero \/ d > MaxJump

Sets    == pc = "idle" /\ pc' = "halt"
Done    == pc = "resume" /\ pc' = "idle"
Guesses == pc = "decode" /\ pc' = "idle" /\ loc.for = "cache" /\ Guessed

Watch ==
  /\ setAt' = IF Done THEN beats ELSE setAt
  /\ setTo' = IF Done THEN cache' ELSE setTo
  /\ jolts' = IF Done THEN 1 ELSE IF Sets THEN jolts + 1 ELSE jolts
  /\ guesses' = IF Done THEN 0 ELSE IF Guesses THEN guesses + 1 ELSE guesses
  /\ sets' = IF Sets THEN sets + 1 ELSE sets

HNext == Next /\ Watch /\ sets' <= MaxSets
HSpec == HInit /\ [][HNext]_hvars

Advance == (Secs(cache) - Secs(setTo)) % Day

\* Since the time was set, the kept time has moved on by no more than the
\* seconds that passed, plus MaxJump for every call of rtc_set_time that wrote
\* to the chip behind the driver's back (last_hw_time is not refreshed by a set,
\* and a set that fails half-way has moved the chip all the same), plus one for
\* every look at the chip that made no sense: the torn reads of a chip that
\* ticks between two registers, and the failing reads, add nothing more.
BoundedLead ==
  manual => Advance <= (beats - setAt) + jolts * MaxJump + guesses

\* A time that is written to a chip that stands still and is not protected is
\* the time the chip shows when it is started again: nothing of what the calls
\* before left behind, or of a tick in the middle, is mixed into it.  So a set
\* reported as done can leave another time in the chip only when its own halt
\* failed, or when an earlier set read the control register as 0xFF and left
\* the protection on.
SetTakes == pc = "resume" /\ ctrl.halt /\ ~ctrl.wp => Decode(chip) = loc.arg
================================================================================
