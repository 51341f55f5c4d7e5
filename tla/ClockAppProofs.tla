---------------------------- MODULE ClockAppProofs ----------------------------
(***************************************************************************)
(* Proofs about the life of the program: in every interleaving of main,    *)
(* the service thread, the devices and a signal, with and without faults,  *)
(* the mutex and the bus outlive the thread that uses them.                *)
(***************************************************************************)
EXTENDS ClockApp, TLAPS

\* Whatever a faulty access makes of a set of types is a set of types.
LEMMA Accesses ==
  /\ \A v \in SUBSET Type : Reads(v) \subseteq SUBSET Type
  /\ \A v, w \in SUBSET Type : Writes(v, w) \subseteq SUBSET Type
  /\ \A v, w \in BOOLEAN : Writes(v, w) \subseteq BOOLEAN
  BY DEF Reads, Writes

\* Every initial state is well typed.
LEMMA TypeInit == Init => TypeOK
<1> SUFFICES ASSUME Init PROVE TypeOK
  OBVIOUS
<1>1. pc \in [main : MainLabels, isr : IsrLabels]
  BY DEF Init, MainLabels, IsrLabels
<1>2. /\ mask \in SUBSET Type /\ pending \in SUBSET Type
      /\ handlers \in SUBSET Type /\ todo \in SUBSET Type
  BY DEF Init, InterruptInit
<1>3. /\ running \in BOOLEAN /\ gRunning \in BOOLEAN /\ lit \in BOOLEAN
      /\ mutex \in {"none", "free", "isr"} /\ bus \in {"closed", "open"}
  BY DEF Init, InterruptInit
<1> QED
  BY <1>1, <1>2, <1>3 DEF TypeOK

\* Every step keeps the types.
LEMMA TypeStep == TypeOK /\ [Next]_vars => TypeOK'
<1> SUFFICES ASSUME TypeOK, [Next]_vars PROVE TypeOK'
  OBVIOUS
<1> USE Accesses DEF TypeOK, Goto, interrupts, app, MainLabels, IsrLabels
<1>1. CASE BusInit
  BY <1>1 DEF BusInit
<1>2. CASE DevicesInit
  BY <1>2 DEF DevicesInit
<1>3. CASE StartInterrupts
  BY <1>3 DEF StartInterrupts, InitHandler
<1>4. CASE FirstShow
  BY <1>4 DEF FirstShow
<1>5. CASE RegisterTimer
  BY <1>5 DEF RegisterTimer, Register, Type
<1>6. CASE EnableTimer
  <2>1. PICK m \in Reads(mask) : mask' \in Writes(mask, m \cup {"TIMER"})
    BY <1>6 DEF EnableTimer, Enable
  <2>2. m \cup {"TIMER"} \in SUBSET Type
    BY DEF Type, Reads
  <2>3. mask' \in SUBSET Type
    BY <2>1, <2>2
  <2> QED
    BY <1>6, <2>3 DEF EnableTimer, Enable
<1>7. CASE LoopTest
  BY <1>7 DEF LoopTest
<1>8. CASE Poll
  BY <1>8 DEF Poll
<1>9. CASE ClockStop
  BY <1>9 DEF ClockStop, Disable
<1>10. CASE DisplayClose
  BY <1>10 DEF DisplayClose
<1>11. CASE KeypadClose
  BY <1>11 DEF KeypadClose
<1>12. CASE HaltIsr
  BY <1>12 DEF HaltIsr, StopThread
<1>13. CASE JoinIsr
  BY <1>13 DEF JoinIsr, Join
<1>14. CASE DestroyIsr
  BY <1>14 DEF DestroyIsr, Destroy
<1>15. CASE BusClose
  BY <1>15 DEF BusClose
<1>16. CASE TimerCallback
  BY <1>16 DEF TimerCallback, Handler
<1>17. CASE Loop /\ UNCHANGED app
  BY <1>17 DEF Loop
<1>18. CASE ReadStatus /\ UNCHANGED app
  BY <1>18 DEF ReadStatus
<1>19. CASE Lock /\ UNCHANGED app
  BY <1>19 DEF Lock
<1>20. CASE Sleep /\ UNCHANGED app
  BY <1>20 DEF Sleep
<1>21. CASE Unlock /\ UNCHANGED app
  BY <1>21 DEF Unlock
<1>22. CASE Ack /\ UNCHANGED app
  BY <1>22 DEF Ack
<1>23. CASE Signal
  <2>1. gRunning' = FALSE /\ UNCHANGED <<mask, pending, handlers, running, mutex, todo, pc, bus, lit>>
    BY <1>23 DEF Signal
  <2> HIDE DEF Goto, interrupts, app, MainLabels, IsrLabels
  <2> QED
    BY <2>1, Zenon
<1>24. CASE RaiseAny
  BY <1>24 DEF RaiseAny, Raise
<1>25. CASE UNCHANGED vars
  BY <1>25 DEF vars
<1> QED
  BY <1>1, <1>2, <1>3, <1>4, <1>5, <1>6, <1>7, <1>8, <1>9, <1>10, <1>11,
     <1>12, <1>13, <1>14, <1>15, <1>16, <1>17, <1>18, <1>19, <1>20, <1>21,
     <1>22, <1>23, <1>24, <1>25 DEF Next, Main, Isr

\* Every reachable state is well typed.
THEOREM TypeCorrect == Spec => []TypeOK
<1>1. Init => TypeOK
  BY TypeInit
<1>2. TypeOK /\ [Next]_vars => TypeOK'
  BY TypeStep
<1> QED
  BY <1>1, <1>2, PTL DEF Spec

--------------------------------------------------------------------------------
\* Where main is bounds where the service thread may be, and says whether the
\* mutex and the bus exist.
Lifetime ==
  /\ pc["main"] \in {"start", "devices", "intr"} => pc["isr"] = "none"
  /\ pc["main"] \in {"destroy", "bus", "exited"} => pc["isr"] \in {"none", "ended"}
  /\ pc["main"] \notin {"start", "devices", "intr", "bus", "exited"} => mutex # "none"
  /\ pc["main"] \notin {"start", "exited"} => bus = "open"

Inv == TypeOK /\ Lifetime

\* Lifetime is inductive on the well-typed states.
LEMMA LifetimeStep == Inv /\ [Next]_vars => Lifetime'
<1> SUFFICES ASSUME TypeOK, Lifetime, [Next]_vars PROVE Lifetime'
  BY DEF Inv
<1>a. pc \in [main : MainLabels, isr : IsrLabels]
  BY DEF TypeOK
<1> USE <1>a DEF Lifetime, Goto, interrupts, app, MainLabels, IsrLabels
<1>1. CASE BusInit
  BY <1>1 DEF BusInit
<1>2. CASE DevicesInit
  BY <1>2 DEF DevicesInit
<1>3. CASE StartInterrupts
  BY <1>3 DEF StartInterrupts, InitHandler
<1>4. CASE FirstShow
  BY <1>4 DEF FirstShow
<1>5. CASE RegisterTimer
  BY <1>5 DEF RegisterTimer, Register
<1>6. CASE EnableTimer
  BY <1>6 DEF EnableTimer, Enable
<1>7. CASE LoopTest
  BY <1>7 DEF LoopTest
<1>8. CASE Poll
  BY <1>8 DEF Poll
<1>9. CASE ClockStop
  BY <1>9 DEF ClockStop, Disable
<1>10. CASE DisplayClose
  BY <1>10 DEF DisplayClose
<1>11. CASE KeypadClose
  BY <1>11 DEF KeypadClose
<1>12. CASE HaltIsr
  BY <1>12 DEF HaltIsr, StopThread
<1>13. CASE JoinIsr
  BY <1>13 DEF JoinIsr, Join
<1>14. CASE DestroyIsr
  BY <1>14 DEF DestroyIsr, Destroy
<1>15. CASE BusClose
  BY <1>15 DEF BusClose
<1>16. CASE TimerCallback
  BY <1>16 DEF TimerCallback, Handler
<1>17. CASE Loop /\ UNCHANGED app
  BY <1>17 DEF Loop
<1>18. CASE ReadStatus /\ UNCHANGED app
  BY <1>18 DEF ReadStatus
<1>19. CASE Lock /\ UNCHANGED app
  BY <1>19 DEF Lock
<1>20. CASE Sleep /\ UNCHANGED app
  BY <1>20 DEF Sleep
<1>21. CASE Unlock /\ UNCHANGED app
  BY <1>21 DEF Unlock
<1>22. CASE Ack /\ UNCHANGED app
  BY <1>22 DEF Ack
<1>23. CASE Signal
  BY <1>23 DEF Signal
<1>24. CASE RaiseAny
  BY <1>24 DEF RaiseAny, Raise
<1>25. CASE UNCHANGED vars
  BY <1>25 DEF vars
<1> QED
  BY <1>1, <1>2, <1>3, <1>4, <1>5, <1>6, <1>7, <1>8, <1>9, <1>10, <1>11,
     <1>12, <1>13, <1>14, <1>15, <1>16, <1>17, <1>18, <1>19, <1>20, <1>21,
     <1>22, <1>23, <1>24, <1>25 DEF Next, Main, Isr

\* Every reachable state satisfies the invariant.
THEOREM Invariant == Spec => []Inv
<1>1. Init => Inv
  BY TypeInit DEF Init, InterruptInit, Inv, Lifetime
<1>2. Inv /\ [Next]_vars => Inv'
  BY TypeStep, LifetimeStep DEF Inv
<1> QED
  BY <1>1, <1>2, PTL DEF Spec

\* The service thread never finds its mutex destroyed or its bus closed.
THEOREM ServiceAlwaysSafe == Spec => []ServiceSafe
<1>1. Inv => ServiceSafe
  BY DEF Inv, Lifetime, ServiceSafe
<1> QED
  BY <1>1, Invariant, PTL
===============================================================================
