--------------------------- MODULE InterruptHandler ---------------------------
(***************************************************************************)
(* src/interrupt_handler.c: the interrupt service thread "isr", and the    *)
(* operations that its client, the thread "main", calls.  An operation     *)
(* takes the labels of its client it moves between; ClockApp puts them in  *)
(* the order of the program.                                               *)
(*                                                                         *)
(* The interrupt controller is modelled from its use: a status bit is a    *)
(* raised and enabled interrupt, an acknowledgement clears it.             *)
(***************************************************************************)
EXTENDS Integers

CONSTANT Faults   \* may a register access fail?

ASSUME FaultsAssumption == Faults \in BOOLEAN

Type == {"TIMER", "KEYPAD", "RTC_ALARM"}   \* interrupt_type_t

VARIABLES
  mask,      \* INT_CTRL_MASK: the enabled types
  pending,   \* the types raised and not acknowledged
  handlers,  \* the types with an entry in g_int_handlers
  running,   \* g_int_thread_running
  mutex,     \* g_int_mutex: its holder, "free", or "none" where it does not exist
  todo,      \* int_status of the service thread: the bits left to serve
  pc         \* where each thread is

interrupts == <<mask, pending, handlers, running, mutex, todo>>

IsrLabels == {"none", "loop", "read", "next", "handler", "unlock", "ack", "ended"}

Goto(th, from, to) ==
  /\ pc[th] = from
  /\ pc' = [pc EXCEPT ![th] = to]

\* A failed read yields 0xFF, every bit set; a failed write has no effect.
Reads(value)      == IF Faults THEN {value, Type} ELSE {value}
Writes(old, new)  == IF Faults THEN {old, new} ELSE {new}

\* The registers come up with anything in them.
InterruptInit ==
  /\ mask \in SUBSET Type /\ pending \in SUBSET Type
  /\ handlers = {} /\ running = FALSE /\ mutex = "none" /\ todo = {}
--------------------------------------------------------------------------------
(* The operations of the client.                                           *)

\* interrupt_init: no thread but the caller exists until pthread_create.
InitHandler(from, to) ==
  /\ pc["main"] = from
  /\ pc' = [pc EXCEPT !["main"] = to, !["isr"] = "loop"]
  /\ mutex' = "free"
  /\ mask' \in Writes(mask, {})
  /\ pending' \in Writes(pending, {})
  /\ running' = TRUE
  /\ UNCHANGED <<handlers, todo>>

\* interrupt_register_handler: one store under the mutex.
Register(t, from, to) ==
  /\ Goto("main", from, to)
  /\ mutex = "free"
  /\ handlers' = handlers \cup {t}
  /\ UNCHANGED <<mask, pending, running, mutex, todo>>

\* interrupt_enable and interrupt_disable read the mask, change a bit, and
\* write it back; only the client writes the mask.
Enable(t, from, to) ==
  /\ Goto("main", from, to)
  /\ \E m \in Reads(mask) : mask' \in Writes(mask, m \cup {t})
  /\ UNCHANGED <<pending, handlers, running, mutex, todo>>

Disable(t, from, to) ==
  /\ Goto("main", from, to)
  /\ \E m \in Reads(mask) : mask' \in Writes(mask, m \ {t})
  /\ UNCHANGED <<pending, handlers, running, mutex, todo>>

\* Slip: the thread is not told to stop.
StopThreadNot(from, to) == Goto("main", from, to) /\ UNCHANGED interrupts

\* interrupt_close: clear the flag, join the thread, and only then mask every
\* type and destroy the mutex.
StopThread(from, to) ==
  /\ Goto("main", from, to)
  /\ running' = FALSE
  /\ UNCHANGED <<mask, pending, handlers, mutex, todo>>

\* Slip: the thread is not waited for.
JoinNot(from, to) == Goto("main", from, to) /\ UNCHANGED interrupts

Join(from, to) ==
  /\ Goto("main", from, to)
  /\ pc["isr"] = "ended"
  /\ UNCHANGED interrupts

\* Slip: the mutex is taken to be destroyed, and kept.
DestroyLocked(from, to) ==
  /\ Goto("main", from, to)
  /\ mask' \in Writes(mask, {})
  /\ mutex' = "main"
  /\ UNCHANGED <<pending, handlers, running, todo>>

Destroy(from, to) ==
  /\ Goto("main", from, to)
  /\ mask' \in Writes(mask, {})
  /\ mutex' = "none"
  /\ UNCHANGED <<pending, handlers, running, todo>>
--------------------------------------------------------------------------------
(* The service thread.                                                     *)

Loop ==
  /\ Goto("isr", "loop", IF running THEN "read" ELSE "ended")
  /\ UNCHANGED interrupts

ReadStatus ==
  /\ Goto("isr", "read", "next")
  /\ todo' \in Reads(pending \cap mask)
  /\ UNCHANGED <<mask, pending, handlers, running, mutex>>

\* The bits are served in a fixed order.
First(S) == IF "TIMER" \in S THEN "TIMER"
            ELSE IF "KEYPAD" \in S THEN "KEYPAD" ELSE "RTC_ALARM"

Lock ==
  /\ todo # {} /\ mutex = "free"
  /\ Goto("isr", "next", IF First(todo) \in handlers THEN "handler" ELSE "unlock")
  /\ mutex' = "isr"
  /\ UNCHANGED <<mask, pending, handlers, running, todo>>

\* usleep, and round again.
Sleep ==
  /\ todo = {}
  /\ Goto("isr", "next", "loop")
  /\ UNCHANGED interrupts

\* The registered function returns; what it does is the business of ClockApp.
Handler == Goto("isr", "handler", "unlock") /\ UNCHANGED interrupts

\* Slip: a type without a handler leaves the mutex locked.
UnlockHandled ==
  /\ Goto("isr", "unlock", "ack")
  /\ mutex' = IF First(todo) \in handlers THEN "free" ELSE mutex
  /\ UNCHANGED <<mask, pending, handlers, running, todo>>

Unlock ==
  /\ Goto("isr", "unlock", "ack")
  /\ mutex' = "free"
  /\ UNCHANGED <<mask, pending, handlers, running, todo>>

\* The acknowledgement comes after the handler, so that it also clears what
\* was raised in the meantime.
Ack ==
  /\ Goto("isr", "ack", "next")
  /\ pending' \in Writes(pending, pending \ {First(todo)})
  /\ todo' = todo \ {First(todo)}
  /\ UNCHANGED <<mask, handlers, running, mutex>>
--------------------------------------------------------------------------------
\* A device raises its interrupt.
Raise(t) ==
  /\ t \notin pending
  /\ pending' = pending \cup {t}
  /\ UNCHANGED <<mask, handlers, running, mutex, todo, pc>>
===============================================================================
