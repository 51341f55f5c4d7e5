------------------------------- MODULE ClockApp -------------------------------
(***************************************************************************)
(* src/main.c: the life of the program from start to exit, with the        *)
(* service thread of InterruptHandler beside it and a signal at any time.  *)
(* The timer callback and the key callback are what the life of the        *)
(* program can see of them: they use the bus and light the display.        *)
(***************************************************************************)
EXTENDS InterruptHandler

VARIABLES
  gRunning,   \* g_running
  bus,        \* "closed" or "open": the file descriptor of pc104_bus.c
  lit         \* do the digits show anything?

app  == <<gRunning, bus, lit>>
vars == <<interrupts, pc, app>>

MainLabels == {"start", "devices", "intr", "first", "register", "enable",
               "loop", "poll", "stop", "display", "keypad", "halt", "join",
               "destroy", "bus", "exited"}

Init ==
  /\ InterruptInit
  /\ pc = [main |-> "start", isr |-> "none"]
  /\ gRunning = TRUE /\ bus = "closed" /\ lit \in BOOLEAN
--------------------------------------------------------------------------------
(* clock_driver_init.  A failure ends the program with nothing shut down.  *)

BusInit ==
  /\ \/ Goto("main", "start", "devices") /\ bus' = "open"
     \/ Goto("main", "start", "exited") /\ bus' = bus
  /\ UNCHANGED <<interrupts, gRunning, lit>>

\* rtc_init, display_init (a test pattern, then wiped), keypad_init, storage_init.
DevicesInit ==
  /\ \/ Goto("main", "devices", "intr") /\ lit' = FALSE
     \/ Goto("main", "devices", "exited") /\ lit' \in BOOLEAN
  /\ UNCHANGED <<interrupts, gRunning, bus>>

\* interrupt_init, if pthread_create succeeds.
StartInterrupts ==
  \/ InitHandler("intr", "first") /\ UNCHANGED app
  \/ Goto("main", "intr", "exited") /\ UNCHANGED <<interrupts, app>>

\* The key callback is registered, the time read and shown.
FirstShow ==
  /\ Goto("main", "first", "register")
  /\ lit' \in Writes(lit, TRUE)
  /\ UNCHANGED <<interrupts, gRunning, bus>>

--------------------------------------------------------------------------------
(* clock_start, and the main loop.                                         *)

RegisterTimer == Register("TIMER", "register", "enable") /\ UNCHANGED app
EnableTimer   == Enable("TIMER", "enable", "loop") /\ UNCHANGED app

LoopTest ==
  /\ Goto("main", "loop", IF gRunning THEN "poll" ELSE "stop")
  /\ UNCHANGED <<interrupts, app>>

\* keypad_poll, and the key callback if there is a key.
Poll ==
  /\ Goto("main", "poll", "loop")
  /\ lit' \in {lit, TRUE}
  /\ UNCHANGED <<interrupts, gRunning, bus>>

--------------------------------------------------------------------------------
(* The way out: clock_stop and the close functions, in main's order.       *)

ClockStop == Disable("TIMER", "stop", "display") /\ UNCHANGED app

DisplayClose ==
  /\ Goto("main", "display", "keypad")
  /\ lit' \in Writes(lit, FALSE)
  /\ UNCHANGED <<interrupts, gRunning, bus>>

KeypadClose == Goto("main", "keypad", "halt") /\ UNCHANGED <<interrupts, app>>
HaltIsr     == StopThread("halt", "join") /\ UNCHANGED app
JoinIsr     == Join("join", "destroy") /\ UNCHANGED app
DestroyIsr  == Destroy("destroy", "bus") /\ UNCHANGED app

\* storage_close and rtc_close do nothing; pc104_close closes the port.
BusClose ==
  /\ Goto("main", "bus", "exited")
  /\ bus' = "closed"
  /\ UNCHANGED <<interrupts, gRunning, lit>>

Main == \/ BusInit \/ DevicesInit \/ StartInterrupts \/ FirstShow
        \/ RegisterTimer \/ EnableTimer \/ LoopTest \/ Poll
        \/ ClockStop \/ DisplayClose \/ KeypadClose \/ HaltIsr \/ JoinIsr
        \/ DestroyIsr \/ BusClose
--------------------------------------------------------------------------------
\* clock_timer_callback redraws the display, or not.
TimerCallback ==
  /\ Handler
  /\ lit' \in {lit, TRUE}
  /\ UNCHANGED <<gRunning, bus>>

Isr == \/ TimerCallback
       \/ /\ Loop \/ ReadStatus \/ Lock \/ Sleep \/ Unlock \/ Ack
          /\ UNCHANGED app

\* SIGINT or SIGTERM: signal_handler clears the flag.
Signal == gRunning /\ gRunning' = FALSE /\ UNCHANGED <<interrupts, pc, bus, lit>>

RaiseAny == (\E t \in Type : Raise(t)) /\ UNCHANGED app

\* When main returns, the process and all its threads are gone.
Next == /\ pc["main"] # "exited"
        /\ Main \/ Isr \/ Signal \/ RaiseAny

Spec == Init /\ [][Next]_vars

\* Both threads are scheduled.  The service thread sleeps between two rounds,
\* which lets a registration waiting for the mutex have it.
Fairness == WF_vars(Main) /\ WF_vars(Isr) /\ SF_vars(RegisterTimer)
FairSpec == Spec /\ Fairness
--------------------------------------------------------------------------------
TypeOK ==
  /\ mask \in SUBSET Type /\ pending \in SUBSET Type
  /\ handlers \in SUBSET Type /\ todo \in SUBSET Type
  /\ running \in BOOLEAN /\ gRunning \in BOOLEAN /\ lit \in BOOLEAN
  /\ mutex \in {"none", "free", "isr"}
  /\ bus \in {"closed", "open"}
  /\ pc \in [main : MainLabels, isr : IsrLabels]

\* As long as the service thread lives it may be about to lock the mutex, to
\* use the bus or to run the callback, so neither is taken away from under it:
\* the flag, the join and the order of the close functions see to that.
ServiceSafe ==
  pc["isr"] \notin {"none", "ended"} => mutex # "none" /\ bus = "open"

\* A signal, even one during initialisation, ends the program: no lock and no
\* join is waited for in vain, however many register accesses fail.
SignalExits == ~gRunning ~> pc["main"] = "exited"

\* While the program is in its main loop with the timer enabled, a timer
\* that keeps raising its interrupt keeps having its callback run.
TimerServed ==
  <>[](pc["main"] \in {"loop", "poll"} /\ "TIMER" \in mask) =>
    ([]<>("TIMER" \in pending) => []<>(pc["isr"] = "handler"))
===============================================================================
