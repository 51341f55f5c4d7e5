-------------------------- MODULE KeypadDriverProofs --------------------------
(***************************************************************************)
(* Proofs about KeypadDriver, for any keys, any number of tries, events    *)
(* and failing accesses: what the callback is given, against what the keys *)
(* did.                                                                    *)
(***************************************************************************)
EXTENDS KeypadDriver, SequenceTheorems, TLAPS

--------------------------------------------------------------------------------
(* The invariant.                                                          *)

Bit(condition) == IF condition THEN 1 ELSE 0

\* What the events and the faults bound, and what the latches hold.
Bounded ==
  /\ Len(made) <= MaxEvents /\ overruns <= Len(made)
  /\ garbled + Bit(key_data = Garbage) <= faults
  /\ new => latched \in Events
  /\ pc \notin {"ack", "call"} => key_data = NoEvent

\* keypad_init has taken a fault for every try it has used up.
TriedOut ==
  /\ pc = "init" => tries >= 1 /\ tries + faults >= Tries
  /\ pc \in {"idle", "fetch", "ack", "call"} /\ ~enabled => faults >= Tries

\* Without faults and overruns an event is on its way in one place at a time.
Undisturbed ==
  faults = 0 /\ overruns = 0 =>
    /\ made = handled \o InFlight
    /\ pc \in {"fetch", "ack"} => new
    /\ pc = "ack" => key_data = latched
    /\ pc = "call" => key_data \in Events

\* What the callback has been and may be given is paid for by an event or a fault ...
NotTooMany ==
  LET all == Len(made) + faults IN
    /\ pc \in {"fetch", "ack"} => Genuine + 1 <= all
    /\ pc = "call" => Genuine + 1 + Bit(new) <= all
    /\ pc \notin {"fetch", "ack", "call"} => Genuine + Bit(new) <= all

\* ... and an event it has not been given is still on its way, or by a fault or
\* an overrun.
NotTooFew ==
  LET all == Genuine + faults + overruns + Bit(new) IN
    /\ Len(made) <= all + Bit(pc = "call" /\ key_data \in Events)
    /\ pc = "fetch" /\ ~new => Len(made) + 1 <= all
    /\ pc = "ack" /\ key_data \notin Events => Len(made) + 1 <= all

IInv == TypeOK /\ Bounded /\ TriedOut /\ Undisturbed /\ NotTooMany /\ NotTooFew
--------------------------------------------------------------------------------
(* Type correctness, and what the counters are bounded by.                 *)

\* The pseudo-events are no events of the keypad, nor each other.
LEMMA Pseudo ==
  /\ NoEvent \notin Events /\ Garbage \notin Events /\ NoEvent # Garbage
  /\ NoEvent.kind \notin Kinds /\ Garbage.kind \in Kinds /\ \A e \in Events : e.kind \in Kinds
<1>1. "none" \notin Kinds /\ "long" \in Kinds
  BY DEF Kinds
<1>2. 63 \notin Keys
  BY KeypadAssumption
<1>3. \A e \in Events : e.key \in Keys /\ e.kind \in Kinds
  BY DEF Events
<1>4. NoEvent.kind = "none" /\ Garbage.kind = "long" /\ Garbage.key = 63
  BY DEF NoEvent, Garbage
<1> QED
  BY <1>1, <1>2, <1>3, <1>4

\* A failing access is one of MaxFaults.
LEMMA FaultCounts ==
  ASSUME faults \in 0..MaxFaults, Works \/ Fault
  PROVE  faults' \in 0..MaxFaults /\ (faults' = faults \/ faults' = faults + 1)
  BY KeypadAssumption DEF Works, Fault

\* The events made before the start: none, or the one the keypad still holds.
LEMMA MadeBefore ==
  ASSUME Init
  PROVE  /\ made \in Seq(Events)
         /\ ~new => made = <<>> /\ Len(made) = 0
         /\ new  => latched \in Events /\ made = <<latched>> /\ Len(made) = 1
<1>1. CASE ~new /\ made = <<>>
  BY <1>1, EmptySeq
<1>2. CASE new /\ latched \in Events /\ made = <<latched>>
  BY <1>2
<1> QED
  BY <1>1, <1>2 DEF Init

LEMMA TypeInit == Init => TypeOK /\ Bounded
<1> SUFFICES ASSUME Init PROVE TypeOK /\ Bounded
  OBVIOUS
<1>1. <<>> \in Seq(Events \cup {Garbage}) /\ Len(<<>>) = 0
  BY EmptySeq
<1>2. enabled \in BOOLEAN /\ new \in BOOLEAN
  BY DEF Init
<1>3. 0 \in 0..MaxFaults /\ 0 \in 0..MaxEvents /\ Tries \in 0..Tries /\ 1 <= MaxEvents
  BY KeypadAssumption
<1>4. TypeOK
  BY <1>1, <1>2, <1>3, MadeBefore DEF Init, TypeOK
<1>5. Len(made) <= MaxEvents
  BY <1>2, <1>3, MadeBefore, KeypadAssumption
<1>6. overruns = 0 /\ handled = <<>> /\ garbled = 0
  BY DEF Init
<1>7. Bounded
  BY <1>1, <1>2, <1>3, <1>5, <1>6, Pseudo, MadeBefore DEF Init, Bounded, Bit
<1> QED
  BY <1>4, <1>7

\* The driver never makes an event, and never takes one back.
LEMMA BoundedStep ==
  ASSUME TypeOK, Bounded, TriedOut, [Next]_vars
  PROVE  TypeOK' /\ Bounded'
<1> USE KeypadAssumption, Pseudo DEF TypeOK, Bounded, Bit, Goto, keypad, locals, seen
<1>1. CASE Probe
  BY <1>1, FaultCounts DEF Probe, TriedOut, Works, Fault
<1>2. CASE Enable
  <2>1. /\ enabled' \in BOOLEAN /\ pc' \in {"idle", "off"} /\ pc = "enable" /\ (Works \/ Fault)
        /\ UNCHANGED <<new, latched, locals, made, seen, overruns>>
    BY <1>2 DEF Enable
  <2> QED
    BY <2>1, FaultCounts
<1>3. CASE Poll
  BY <1>3, FaultCounts DEF Poll, Works, Fault
<1>4. CASE Fetch
  BY <1>4, FaultCounts DEF Fetch, Works, Fault, Bit
<1>5. CASE Acknowledge
  <2>1. /\ new' = new \/ new' = FALSE
        /\ pc = "ack" /\ pc' = "call" /\ (Works \/ Fault)
        /\ UNCHANGED <<enabled, latched, locals, made, seen, overruns>>
    BY <1>5 DEF Acknowledge
  <2>2. new' => latched' \in Events
    BY <2>1
  <2>3. faults' \in 0..MaxFaults /\ (faults' = faults \/ faults' = faults + 1)
    BY <2>1, FaultCounts
  <2>4. new' \in BOOLEAN
    BY <2>1
  <2>5. TypeOK'
    BY <2>1, <2>3, <2>4
  <2> QED
    BY <2>1, <2>2, <2>3, <2>5
<1>6. CASE Callback
  <2>1. handled' \in Seq(Events \cup {Garbage})
    BY <1>6 DEF Callback
  <2> QED
    BY <1>6, <2>1 DEF Callback, Bit
<1>7. CASE Close
  <2>1. /\ enabled' \in BOOLEAN /\ pc = "idle" /\ pc' = "off" /\ (Works \/ Fault)
        /\ UNCHANGED <<new, latched, locals, made, seen, overruns>>
    BY <1>7 DEF Close
  <2> QED
    BY <2>1, FaultCounts
<1>8. CASE Event
  <2>1. PICK e \in Events : made' = Append(made, e) /\ latched' = e
    BY <1>8 DEF Event
  <2>2. made' \in Seq(Events) /\ Len(made') = Len(made) + 1
    BY <2>1
  <2> QED
    BY <1>8, <2>1, <2>2 DEF Event
<1>9. CASE UNCHANGED vars
  BY <1>9 DEF vars, history, Bit
<1> QED
  BY <1>1, <1>2, <1>3, <1>4, <1>5, <1>6, <1>7, <1>8, <1>9 DEF Next, Driver
\* keypad_init gives up, or has the keypad enabled, or has found it in error as
\* often as it tries.
LEMMA TriedOutStep ==
  ASSUME TypeOK, TriedOut, [Next]_vars
  PROVE  TriedOut'
<1> USE KeypadAssumption DEF TypeOK, TriedOut, Goto, keypad, locals
<1>1. CASE Probe
  <2>1. CASE pc' \in {"enable", "off"}
    BY <2>1
  <2>2. CASE pc' \notin {"enable", "off"}
    <3>1. /\ pc = "init" /\ faults' = faults + 1 /\ tries' = tries - 1
          /\ pc' = IF tries' > 0 THEN "init" ELSE "idle"
      BY <1>1, <2>2 DEF Probe, Fault
    <3> QED
      BY <3>1
  <2> QED
    BY <2>1, <2>2
<1>2. CASE Enable
  <2>1. pc' = "off" \/ (pc' = "idle" /\ enabled')
    BY <1>2 DEF Enable
  <2> QED
    BY <2>1
<1>3. CASE Poll \/ Fetch \/ Acknowledge \/ Callback
  <2>1. /\ pc \in {"idle", "fetch", "ack", "call"} /\ pc' # "init" /\ enabled' = enabled
        /\ (Works \/ Fault)
    BY <1>3 DEF Poll, Fetch, Acknowledge, Callback, Works
  <2> QED
    BY <2>1, FaultCounts
<1>4. CASE Close
  BY <1>4 DEF Close
<1>5. CASE Event \/ UNCHANGED vars
  BY <1>5 DEF Event, vars, history
<1> QED
  BY <1>1, <1>2, <1>3, <1>4, <1>5 DEF Next, Driver
--------------------------------------------------------------------------------
(* Once each, in order.                                                    *)

LEMMA Single ==
  ASSUME NEW S, NEW s \in Seq(S), NEW e \in S
  PROVE  <<e>> \in Seq(S) /\ s \o <<e>> = Append(s, e)
  OBVIOUS

\* Moving the first element of the second half of a sequence to the first.
LEMMA HandOver ==
  ASSUME NEW S, NEW s \in Seq(S), NEW e \in S, NEW t \in Seq(S)
  PROVE  s \o (<<e>> \o t) = Append(s, e) \o t
<1>1. <<e>> \in Seq(S) /\ s \o <<e>> = Append(s, e)
  BY Single
<1>2. s \o (<<e>> \o t) = (s \o <<e>>) \o t
  BY <1>1, ConcatAssociative
<1> QED
  BY <1>1, <1>2

\* An event goes from the latch to the local and on to the callback, in a system
\* where nothing fails and no event comes too soon.
LEMMA UndisturbedStep ==
  ASSUME TypeOK, Bounded, Undisturbed, [Next]_vars
  PROVE  Undisturbed'
<1> SUFFICES ASSUME faults' = 0, overruns' = 0
             PROVE  /\ made' = handled' \o InFlight'
                    /\ pc' \in {"fetch", "ack"} => new'
                    /\ pc' = "ack" => key_data' = latched'
                    /\ pc' = "call" => key_data' \in Events
  BY DEF Undisturbed
<1>0. ~Fault /\ faults = 0 /\ overruns = 0
  <2>1. faults \in Nat /\ overruns \in Nat
    BY DEF TypeOK
  <2>2. faults' = faults \/ faults' = faults + 1
    BY DEF Next, Driver, Probe, Enable, Poll, Fetch, Acknowledge, Callback, Close, Event, Works, Fault,
           vars, history
  <2>3. overruns' = overruns \/ overruns' = overruns + 1
    BY DEF Next, Driver, Probe, Enable, Poll, Fetch, Acknowledge, Callback, Close, Event,
           vars, history
  <2> QED
    BY <2>1, <2>2, <2>3 DEF Fault
<1>a. /\ made = handled \o InFlight
      /\ pc \in {"fetch", "ack"} => new
      /\ pc = "ack" => key_data = latched
      /\ pc = "call" => key_data \in Events
  BY <1>0 DEF Undisturbed
<1> DEFINE S == Events \cup {Garbage}
<1>b. /\ handled \in Seq(S) /\ made \in Seq(S) /\ <<>> \in Seq(S)
      /\ \A s \in Seq(S) : <<>> \o s = s /\ s \o <<>> = s
      /\ new => latched \in S /\ <<latched>> \in Seq(S)
  BY ConcatEmptySeq DEF TypeOK, Bounded
<1> HIDE DEF S
<1> USE <1>0, <1>a DEF Goto, keypad, locals, seen
<1>1. CASE Probe \/ Enable \/ Close
  <2>1. /\ pc # "call" /\ pc' \notin {"fetch", "ack", "call"}
        /\ UNCHANGED <<new, latched, made, handled>>
    BY <1>1 DEF Probe, Enable, Close
  <2> QED
    BY <2>1 DEF InFlight
<1>2. CASE Poll
  BY <1>2 DEF Poll, InFlight
<1>3. CASE Fetch
  BY <1>3 DEF Fetch, InFlight
<1>4. CASE Acknowledge
  <2>1. /\ pc = "ack" /\ pc' = "call" /\ new' = FALSE /\ new /\ key_data = latched
        /\ UNCHANGED <<latched, key_data, made, handled>>
    BY <1>4 DEF Acknowledge
  <2>2. InFlight = <<>> \o <<latched>> /\ InFlight' = <<latched>> \o <<>>
    BY <2>1 DEF InFlight
  <2>3. InFlight' = InFlight
    BY <1>b, <2>1, <2>2
  <2>4. latched \in Events
    BY <2>1 DEF Bounded
  <2> QED
    BY <2>1, <2>3, <2>4
<1>5. CASE Callback
  <2>1. pc = "call" /\ pc' = "idle" /\ key_data \in Events /\ UNCHANGED <<new, latched, made>>
    BY <1>5 DEF Callback
  <2>2. handled' = Append(handled, key_data)
    BY <1>5, <2>1, Pseudo DEF Callback
  <2> DEFINE rest == IF new THEN <<latched>> ELSE <<>>
  <2>3. InFlight = <<key_data>> \o rest /\ InFlight' = <<>> \o rest
    BY <2>1 DEF InFlight
  <2>4. rest \in Seq(S) /\ key_data \in S
    BY <1>b, <2>1 DEF S
  <2> HIDE DEF rest
  <2>5. made = Append(handled, key_data) \o rest
    <3>1. made = handled \o (<<key_data>> \o rest)
      BY <2>3
    <3> QED
      BY <1>b, <2>4, <3>1, HandOver
  <2> QED
    BY <1>b, <2>1, <2>2, <2>3, <2>4, <2>5
<1>6. CASE Event
  <2>1. ~new /\ new' /\ UNCHANGED <<pc, key_data, handled>>
    BY <1>6 DEF Event
  <2>2. PICK e \in Events : made' = Append(made, e) /\ latched' = e
    BY <1>6 DEF Event
  <2> DEFINE front == IF pc = "call" THEN <<key_data>> ELSE <<>>
  <2>3. InFlight = front \o <<>> /\ InFlight' = front \o <<e>>
    BY <2>1, <2>2 DEF InFlight
  <2>4. front \in Seq(S) /\ e \in S /\ <<e>> \in Seq(S)
    <3>1. e \in S /\ (pc = "call" => key_data \in S)
      BY DEF S
    <3> QED
      BY <1>b, <3>1, Single
  <2> HIDE DEF front
  <2>5. made = handled \o front
    BY <1>b, <2>3, <2>4
  <2>6. made' = made \o <<e>>
    BY <1>b, <2>2, <2>4, Single
  <2>7. made' = handled \o (front \o <<e>>)
    BY <1>b, <2>4, <2>5, <2>6, ConcatAssociative
  <2> QED
    BY <2>1, <2>3, <2>7
<1>7. CASE UNCHANGED vars
  BY <1>7 DEF vars, history, InFlight
<1> QED
  BY <1>1, <1>2, <1>3, <1>4, <1>5, <1>6, <1>7 DEF Next, Driver
--------------------------------------------------------------------------------
(* Faults and overruns.                                                    *)

\* What each step does to the accounts.
LEMMA Moves ==
  ASSUME TypeOK, Bounded, [Next]_vars
  PROVE  \/ /\ pc \notin {"fetch", "ack", "call"} /\ pc' \notin {"fetch", "ack", "call"}
            /\ UNCHANGED <<new, made, handled, garbled, overruns>>
            /\ faults' = faults \/ faults' = faults + 1
         \/ /\ pc = "idle" /\ pc' = "fetch"
            /\ UNCHANGED <<new, made, handled, garbled, overruns>>
            /\ faults' = faults + 1 \/ (new /\ faults' = faults)
         \/ /\ pc = "fetch" /\ pc' = "ack"
            /\ UNCHANGED <<new, made, handled, garbled, overruns>>
            /\ faults' = faults + 1 \/ (faults' = faults /\ (new => key_data' \in Events))
         \/ /\ pc = "ack" /\ pc' = "call"
            /\ UNCHANGED <<made, handled, garbled, overruns, key_data>>
            /\ \/ ~new' /\ faults' = faults
               \/ (~new' \/ new' = new) /\ faults' = faults + 1
         \/ /\ pc = "call" /\ pc' = "idle"
            /\ UNCHANGED <<new, made, faults, overruns>>
            /\ Genuine' = IF key_data \in Events THEN Genuine + 1 ELSE Genuine
         \/ /\ UNCHANGED <<pc, key_data, faults, handled, garbled>> /\ new'
            /\ Len(made') = Len(made) + 1
            /\ (new /\ overruns' = overruns + 1) \/ (~new /\ overruns' = overruns)
         \/ UNCHANGED vars
<1> USE DEF Goto, keypad, locals, seen
<1>1. CASE Probe \/ Enable \/ Close
  BY <1>1 DEF Probe, Enable, Close, Works, Fault
<1>2. CASE Poll
  BY <1>2 DEF Poll, Works, Fault
<1>3. CASE Fetch
  BY <1>3 DEF Fetch, Works, Fault, Bounded
<1>4. CASE Acknowledge
  BY <1>4 DEF Acknowledge, Works, Fault
<1>5. CASE Callback
  <2>1. /\ pc = "call" /\ pc' = "idle" /\ UNCHANGED <<new, made, faults, overruns>>
        /\ handled' = IF key_data.kind \in Kinds THEN Append(handled, key_data) ELSE handled
        /\ garbled' = IF key_data = Garbage THEN garbled + 1 ELSE garbled
    BY <1>5 DEF Callback
  <2>2. key_data \in Events \/ key_data = NoEvent \/ key_data = Garbage
    BY DEF TypeOK
  <2>3. /\ Len(handled) \in Nat /\ garbled \in Nat
        /\ Len(Append(handled, key_data)) = Len(handled) + 1
    BY DEF TypeOK
  <2>4. key_data \in Events => Genuine' = Genuine + 1
    BY <2>1, <2>3, Pseudo DEF Genuine
  <2>5. key_data = NoEvent => Genuine' = Genuine
    BY <2>1, <2>3, Pseudo DEF Genuine
  <2>6. key_data = Garbage => Genuine' = Genuine
    BY <2>1, <2>3, Pseudo DEF Genuine
  <2>7. Genuine' = IF key_data \in Events THEN Genuine + 1 ELSE Genuine
    BY <2>2, <2>4, <2>5, <2>6, Pseudo
  <2> QED
    BY <2>1, <2>7
<1>6. CASE Event
  <2>1. Len(made') = Len(made) + 1
    BY <1>6 DEF Event, TypeOK
  <2> QED
    BY <1>6, <2>1 DEF Event
<1> QED
  BY <1>1, <1>2, <1>3, <1>4, <1>5, <1>6 DEF Next, Driver

\* The accounts stay balanced.
LEMMA BalanceStep ==
  ASSUME TypeOK, TypeOK', Bounded, NotTooMany, NotTooFew, [Next]_vars
  PROVE  NotTooMany' /\ NotTooFew'
<1>a. Genuine \in Int /\ Len(made) \in Nat /\ faults \in Nat /\ overruns \in Nat
  BY DEF TypeOK, Genuine
<1>b. UNCHANGED <<handled, garbled>> => Genuine' = Genuine
  BY DEF Genuine
<1> HIDE DEF Genuine
<1> DEFINE many == Len(made)   many1 == Len(made)'
           given == Genuine    given1 == Genuine'
           fault1 == faults'   over1 == overruns'
           fresh == Bit(new)   fresh1 == Bit(new)'
           good == Bit(key_data \in Events)   good1 == Bit(key_data \in Events)'
<1>c. /\ fresh \in {0, 1} /\ fresh1 \in {0, 1} /\ good \in {0, 1} /\ good1 \in {0, 1}
      /\ new <=> fresh = 1
      /\ key_data \in Events <=> good = 1
  BY DEF Bit
<1>d. /\ pc \in {"fetch", "ack"} => given + 1 <= many + faults
      /\ pc = "call" => given + 1 + fresh <= many + faults
      /\ pc \notin {"fetch", "ack", "call"} => given + fresh <= many + faults
      /\ pc = "call" => many <= given + faults + overruns + fresh + good
      /\ pc # "call" => many <= given + faults + overruns + fresh
      /\ pc = "fetch" /\ fresh = 0 => many + 1 <= given + faults + overruns
      /\ pc = "ack" /\ good = 0 => many + 1 <= given + faults + overruns + fresh
  BY <1>a DEF NotTooMany, NotTooFew, Bit
<1>e. /\ many \in Nat /\ given \in Int /\ faults \in Nat /\ overruns \in Nat
      /\ given1 \in Int /\ many1 \in Nat /\ fault1 \in Nat /\ over1 \in Nat
  BY <1>a DEF TypeOK, Genuine
<1>f. \/ /\ pc \notin {"fetch", "ack", "call"} /\ pc' \notin {"fetch", "ack", "call"}
         /\ fresh1 = fresh /\ many1 = many /\ given1 = given /\ over1 = overruns
         /\ fault1 = faults \/ fault1 = faults + 1
      \/ /\ pc = "idle" /\ pc' = "fetch"
         /\ fresh1 = fresh /\ many1 = many /\ given1 = given /\ over1 = overruns
         /\ fault1 = faults + 1 \/ (fresh = 1 /\ fault1 = faults)
      \/ /\ pc = "fetch" /\ pc' = "ack"
         /\ fresh1 = fresh /\ many1 = many /\ given1 = given /\ over1 = overruns
         /\ fault1 = faults + 1 \/ (fault1 = faults /\ (fresh = 1 => good1 = 1))
      \/ /\ pc = "ack" /\ pc' = "call"
         /\ good1 = good /\ many1 = many /\ given1 = given /\ over1 = overruns
         /\ \/ fresh1 = 0 /\ fault1 = faults
            \/ fresh1 \in {0, fresh} /\ fault1 = faults + 1
      \/ /\ pc = "call" /\ pc' = "idle"
         /\ fresh1 = fresh /\ many1 = many /\ given1 = given + good /\ over1 = overruns /\ fault1 = faults
      \/ /\ pc' = pc /\ good1 = good /\ given1 = given /\ fault1 = faults
         /\ fresh1 = 1 /\ many1 = many + 1 /\ over1 = overruns + fresh
      \/ /\ pc' = pc /\ good1 = good /\ given1 = given /\ fault1 = faults
         /\ fresh1 = fresh /\ many1 = many /\ over1 = overruns
  BY <1>a, <1>b, Moves DEF Bit, vars, keypad, locals, history, seen
<1> HIDE DEF many, many1, given, given1, fault1, over1, fresh, fresh1, good, good1
<1>1. /\ pc' \in {"fetch", "ack"} => given1 + 1 <= many1 + fault1
      /\ pc' = "call" => given1 + 1 + fresh1 <= many1 + fault1
      /\ pc' \notin {"fetch", "ack", "call"} => given1 + fresh1 <= many1 + fault1
  BY <1>c, <1>d, <1>e, <1>f
<1>2. /\ pc' = "call" => many1 <= given1 + fault1 + over1 + fresh1 + good1
      /\ pc' # "call" => many1 <= given1 + fault1 + over1 + fresh1
      /\ pc' = "fetch" /\ fresh1 = 0 => many1 + 1 <= given1 + fault1 + over1 + fresh1
      /\ pc' = "ack" /\ good1 = 0 => many1 + 1 <= given1 + fault1 + over1 + fresh1
  BY <1>c, <1>d, <1>e, <1>f
<1>3. NotTooMany'
  BY <1>1 DEF NotTooMany, many1, given1, fault1, fresh1
<1>4. given1 + fault1 + over1 + fresh1 = given1 + fault1 + over1 + fresh1 + 0
  BY <1>c, <1>e
<1>5. NotTooFew'
  BY <1>2, <1>4 DEF NotTooFew, many1, given1, fault1, over1, fresh1, good1, Bit
<1> QED
  BY <1>3, <1>5
--------------------------------------------------------------------------------
(* The theorems.                                                           *)

\* IInv holds at the start.
LEMMA InvInit == Init => IInv
<1> SUFFICES ASSUME Init PROVE IInv
  OBVIOUS
<1>1. TypeOK /\ Bounded
  BY TypeInit
<1>2. TriedOut
  BY KeypadAssumption DEF Init, TriedOut
<1>3. /\ pc = "init" /\ handled = <<>> /\ Len(handled) = 0 /\ Len(made) = Bit(new)
      /\ garbled = 0 /\ faults = 0 /\ overruns = 0
  BY EmptySeq, MadeBefore DEF Init, Bit
<1>4. Undisturbed
  <2>1. CASE ~new
    BY <2>1, <1>3, MadeBefore, ConcatEmptySeq, EmptySeq DEF Undisturbed, InFlight
  <2>2. CASE new
    <3>1. InFlight = <<>> \o <<latched>>
      BY <2>2, <1>3 DEF InFlight
    <3>2. <<latched>> \in Seq(Events)
      BY <2>2, MadeBefore
    <3>3. handled \o InFlight = <<latched>>
      BY <1>3, <3>1, <3>2, ConcatEmptySeq
    <3> QED
      BY <2>2, <1>3, <3>3, MadeBefore DEF Undisturbed
  <2> QED
    BY <2>1, <2>2
<1>5. NotTooMany /\ NotTooFew
  BY <1>3 DEF NotTooMany, NotTooFew, Genuine, Bit
<1> QED
  BY <1>1, <1>2, <1>4, <1>5 DEF IInv

\* IInv is inductive.
LEMMA Inductive == Spec => []IInv
<1>1. IInv /\ [Next]_vars => IInv'
  BY BoundedStep, TriedOutStep, UndisturbedStep, BalanceStep DEF IInv
<1> QED
  BY InvInit, <1>1, PTL DEF Spec

\* Every variable keeps its type: among others, keypad_init does not count its
\* tries below zero, and no more events are destroyed than there were.
THEOREM TypeCorrect == Spec => []TypeOK
<1>1. IInv => TypeOK
  BY DEF IInv
<1> QED
  BY <1>1, Inductive, PTL

\* As long as no access fails and each event finds the last one acknowledged, the
\* callback is given every event once, as it is, in the order of the keys.
THEOREM OnceEach == Spec => []ExactlyOnce
<1>1. IInv => ExactlyOnce
  BY DEF IInv, Undisturbed, ExactlyOnce
<1> QED
  BY <1>1, Inductive, PTL

\* What the callback is given too much or too little is no more than the accesses
\* that failed and the events that came too soon.
THEOREM AccountsBalance == Spec => []Accounted
<1>1. ASSUME IInv PROVE Accounted
  <2> SUFFICES ASSUME pc = "idle", ~new
               PROVE  /\ Genuine <= Len(made) + faults
                      /\ Len(made) <= Genuine + faults + overruns
    BY DEF Accounted
  <2>1. Genuine \in Int /\ faults \in Nat /\ overruns \in Nat
    BY <1>1 DEF IInv, TypeOK, Genuine
  <2> QED
    BY <1>1, <2>1 DEF IInv, NotTooMany, NotTooFew, Bit
<1> QED
  BY <1>1, Inductive, PTL

\* A keypad that is polled without having been enabled was in error every time
\* keypad_init looked at it.
THEOREM DeafInError == Spec => []DeafOnlyInError
<1>1. IInv => DeafOnlyInError
  BY DEF IInv, TriedOut, DeafOnlyInError
<1> QED
  BY <1>1, Inductive, PTL
================================================================================
