------------------------------ MODULE KeypadDriver ------------------------------
(***************************************************************************)
(* src/keypad_driver.c, polled by the main thread: an event of the keypad  *)
(* is seen in the status register, fetched from the data register and      *)
(* acknowledged in the control register, while the keypad may latch        *)
(* another event at any moment and any access may fail.                    *)
(*                                                                         *)
(* The keypad is modelled from its use: it holds one event, the latest,    *)
(* with a flag that is set by an event and cleared by an acknowledgement.  *)
(* The data register keeps the event after that.                           *)
(***************************************************************************)
EXTENDS Integers, Sequences

CONSTANTS
  Keys,        \* the key codes
  Tries,       \* PC104_TIMEOUT: 1000
  MaxEvents,   \* bound of the model on the events
  MaxFaults    \* bound of the model on the failing accesses and error states

ASSUME KeypadAssumption ==
  /\ Keys \subseteq 0..62 /\ Tries \in Nat \ {0} /\ MaxEvents \in Nat \ {0} /\ MaxFaults \in Nat

Kinds   == {"press", "release", "long"}
Events  == [key : Keys, kind : Kinds]
NoEvent == [key |-> 0, kind |-> "none"]       \* 0, before the first event
Garbage == [key |-> 63, kind |-> "long"]      \* 0xFF, from a failed read

VARIABLES
  enabled,    \* is the keypad scanned?
  new,        \* KEYPAD_STATUS_NEW
  latched,    \* data register
  pc,         \* where main is: in keypad_init, "idle", in keypad_poll, or done
  tries,      \* timeout, local to keypad_init
  key_data,   \* local to keypad_poll
  made,       \* history: the events of the keypad, in order
  handled,    \* history: the events handed to the callback, in order
  garbled,    \* history: how many of them were not events of the keypad
  faults,     \* history: how many accesses failed or found the keypad in error
  overruns    \* history: how many events came before the last one was acknowledged

keypad  == <<enabled, new, latched>>
locals  == <<tries, key_data>>
seen    == <<handled, garbled>>
history == <<made, seen, faults, overruns>>
vars    == <<keypad, pc, locals, history>>

\* The keypad may hold an event from before the program was started, fetched or
\* not; keypad_init does not acknowledge it.
Init ==
  /\ enabled = FALSE /\ new \in BOOLEAN /\ latched \in Events \cup {NoEvent}
  /\ pc = "init" /\ tries = Tries /\ key_data = NoEvent
  /\ \/ ~new /\ made = <<>>
     \/ new /\ latched \in Events /\ made = <<latched>>
  /\ handled = <<>> /\ garbled = 0 /\ faults = 0 /\ overruns = 0

Fault == faults < MaxFaults /\ faults' = faults + 1
Works == UNCHANGED faults
Goto(from, to) == pc = from /\ pc' = to
--------------------------------------------------------------------------------
(* keypad_init.                                                            *)

\* Slip: the loop goes on at zero.
ProbeOnceMore ==
  /\ \/ Works /\ Goto("init", "enable") /\ UNCHANGED tries
     \/ Fault /\ Goto("init", "off") /\ UNCHANGED tries
     \/ /\ Fault /\ pc = "init"
        /\ tries' = tries - 1
        /\ pc' = IF tries' >= 0 THEN "init" ELSE "idle"
  /\ UNCHANGED <<keypad, key_data, made, seen, overruns>>

\* A status that cannot be read is the end of the program; a keypad in error
\* is reset and tried again.  Out of tries, the keypad is left as it is and
\* the call returns success.
Probe ==
  /\ \/ Works /\ Goto("init", "enable") /\ UNCHANGED tries
     \/ Fault /\ Goto("init", "off") /\ UNCHANGED tries
     \/ /\ Fault /\ pc = "init"
        /\ tries' = tries - 1
        /\ pc' = IF tries' > 0 THEN "init" ELSE "idle"
  /\ UNCHANGED <<keypad, key_data, made, seen, overruns>>

\* Slip: whether enabling the keypad worked is not looked at.
EnableUnchecked ==
  /\ \/ Works /\ Goto("enable", "idle") /\ enabled' = TRUE
     \/ Fault /\ Goto("enable", "idle") /\ enabled' \in {enabled, TRUE}
  /\ UNCHANGED <<new, latched, locals, made, seen, overruns>>

Enable ==
  /\ \/ Works /\ Goto("enable", "idle") /\ enabled' = TRUE
     \/ Fault /\ Goto("enable", "off") /\ enabled' \in {enabled, TRUE}
  /\ UNCHANGED <<new, latched, locals, made, seen, overruns>>
--------------------------------------------------------------------------------
(* keypad_poll.                                                            *)

\* Slip: the NEW bit is not looked at.
PollUnchecked ==
  /\ Goto("idle", "fetch") /\ Works
  /\ UNCHANGED <<keypad, locals, made, seen, overruns>>

\* Slip: an event that equals the last one, in g_last_key_state, is left alone.
PollChanged ==
  /\ \/ /\ Works /\ new /\ Goto("idle", "fetch")
        /\ handled # <<>> => latched # handled[Len(handled)]
     \/ Fault /\ Goto("idle", "fetch")
  /\ UNCHANGED <<keypad, locals, made, seen, overruns>>

\* The status is read: without the NEW bit nothing is done.  A failed read is
\* 0xFF, which has it set.
Poll ==
  /\ \/ Works /\ new /\ Goto("idle", "fetch")
     \/ Fault /\ Goto("idle", "fetch")
  /\ UNCHANGED <<keypad, locals, made, seen, overruns>>

Fetch ==
  /\ Goto("fetch", "ack")
  /\ \/ Works /\ key_data' = latched
     \/ Fault /\ key_data' = Garbage
  /\ UNCHANGED <<keypad, tries, made, seen, overruns>>

\* Slip: the event is not acknowledged.
AcknowledgeNot ==
  /\ Goto("ack", "call") /\ Works
  /\ UNCHANGED <<keypad, locals, made, seen, overruns>>

\* Whether the acknowledgement worked is not looked at.
Acknowledge ==
  /\ Goto("ack", "call")
  /\ \/ Works /\ new' = FALSE
     \/ Fault /\ new' \in {new, FALSE}
  /\ UNCHANGED <<enabled, latched, locals, made, seen, overruns>>

\* The event is handed to the callback, unless its kind is unknown.
Callback ==
  /\ Goto("call", "idle")
  /\ handled' = IF key_data.kind \in Kinds THEN Append(handled, key_data) ELSE handled
  /\ garbled' = IF key_data = Garbage THEN garbled + 1 ELSE garbled
  /\ key_data' = NoEvent
  /\ UNCHANGED <<keypad, tries, made, faults, overruns>>

\* keypad_close: whether disabling it worked is not looked at.
Close ==
  /\ Goto("idle", "off")
  /\ \/ Works /\ enabled' = FALSE
     \/ Fault /\ UNCHANGED enabled
  /\ UNCHANGED <<new, latched, locals, made, seen, overruns>>

Driver == Probe \/ Enable \/ Poll \/ Fetch \/ Acknowledge \/ Callback \/ Close
--------------------------------------------------------------------------------
\* A key is pressed, held or released.  An event that has not been fetched is
\* overwritten; one that comes between the fetch of the last one and its
\* acknowledgement is acknowledged with it.
Event ==
  /\ enabled /\ Len(made) < MaxEvents
  /\ \E e \in Events : made' = Append(made, e) /\ latched' = e
  /\ new' = TRUE
  /\ overruns' = IF new THEN overruns + 1 ELSE overruns
  /\ UNCHANGED <<enabled, pc, locals, seen, faults>>

Next == Driver \/ Event

\* Main runs through keypad_init and then keeps polling.
Fairness == WF_vars(Probe \/ Enable \/ (new /\ Poll) \/ Fetch \/ Acknowledge \/ Callback)

Spec == Init /\ [][Next]_vars /\ Fairness
--------------------------------------------------------------------------------
TypeOK ==
  /\ enabled \in BOOLEAN /\ new \in BOOLEAN /\ latched \in Events \cup {NoEvent}
  /\ pc \in {"init", "enable", "idle", "fetch", "ack", "call", "off"}
  /\ tries \in 0..Tries
  /\ key_data \in Events \cup {NoEvent, Garbage}
  /\ made \in Seq(Events) /\ handled \in Seq(Events \cup {Garbage}) /\ garbled \in 0..MaxFaults
  /\ faults \in 0..MaxFaults /\ overruns \in 0..MaxEvents

\* The events on their way to the callback.
InFlight == (IF pc = "call" THEN <<key_data>> ELSE <<>>) \o (IF new THEN <<latched>> ELSE <<>>)

\* While no access fails and every event finds the last one acknowledged, each
\* event is handed over once, as it is, in the order of the keys.
ExactlyOnce == faults = 0 /\ overruns = 0 => made = handled \o InFlight

\* How many events of the keypad the callback was given.
Genuine == Len(handled) - garbled

\* At the worst a failed access delivers one event again (the status read as
\* 0xFF, a lost acknowledgement) or destroys one (the data read as 0xFF), and an
\* event that comes too soon destroys one, itself or the last: the difference
\* between what the keys did and what the callback saw is never more than that.
Accounted ==
  pc = "idle" /\ ~new =>
    /\ Genuine <= Len(made) + faults
    /\ Len(made) <= Genuine + faults + overruns

\* keypad_init returns success with the keypad not enabled only when it found it
\* in error as often as it tried.
DeafOnlyInError == pc \in {"idle", "fetch", "ack", "call"} /\ ~enabled => faults >= Tries

\* As long as main polls, an event does not stay latched for ever.
EventServed == new ~> ~new \/ pc = "off"
================================================================================
