----------------------------- MODULE PC104BusProofs -----------------------------
(***************************************************************************)
(* Proofs about PC104Bus, for every set of threads, of addresses and of    *)
(* bytes: behind a lock, which the code does not have, four ports and a    *)
(* file position are a file of registers.                                  *)
(***************************************************************************)
EXTENDS PC104Bus, TLAPS

Labels == Waits \cup Writes \cup Starting \cup Outside \cup {"check", "fetch"}

Types ==
  /\ mem \in [Addresses -> Data] /\ data \in 0..255
  /\ pc \in [Threads -> Labels]
  /\ seeking \in [Threads -> BOOLEAN]
  /\ op \in [Threads -> Access \cup {None}]
  /\ DOMAIN result = Threads

\* Only Main opens and closes the bus, and a thread has a call when it is in one.
Control ==
  \A t \in Threads :
    /\ pc[t] \in Starting \cup {"off", "closed"} => t = Main
    /\ op[t] = None <=> pc[t] \in Starting \cup Outside

\* A thread that has sought is on the port it sought, and the device has in its
\* latches what the thread in a call has sent it.
Latched ==
  \A t \in Threads :
    /\ pc[t] \in Outside => seeking[t]
    /\ ~seeking[t] => pos = Port(pc[t])
    /\ pc[t] \in {"high", "data", "cmd"} => low = op[t].addr[2]
    /\ pc[t] \in {"data", "cmd"} => high = op[t].addr[1]
    /\ pc[t] = "cmd" /\ ~Reading(t) => data = op[t].value
    /\ pc[t] = "fetch" => Reading(t)

IInv == Types /\ Control /\ Locked /\ Latched
--------------------------------------------------------------------------------
(* The accesses to the ports.                                              *)

\* The port of each access.
LEMMA Ports ==
  /\ \A label \in Waits \cup {"check", "probe"} : Port(label) = StatusPort
  /\ Port("low") = AddrPort
  /\ \A label \in {"high", "cmd", "reset", "start", "restart"} : Port(label) = CmdPort
  /\ Port("data") = DataPort /\ Port("fetch") = DataPort
  BY DEF Port, Waits

\* Where each access of a call leads.
LEMMA AfterAccess ==
  ASSUME NEW t \in Threads
  PROVE  /\ pc[t] = "ready" => After(t) = "low"
         /\ pc[t] = "low"   => After(t) = "high"
         /\ pc[t] = "high"  => After(t) = IF Reading(t) THEN "cmd" ELSE "data"
         /\ pc[t] = "data"  => After(t) = "cmd"
         /\ pc[t] = "cmd"   => After(t) = "done"
         /\ pc[t] = "done"  => After(t) = "check"
         /\ pc[t] \in {"check", "reset"} => After(t) = Finish(t)
  BY DEF After

\* A thread in pc104_read_reg or pc104_write_reg has the arguments of its call.
LEMMA Arguments ==
  ASSUME IInv, NEW t \in Threads, pc[t] \notin Starting \cup Outside
  PROVE  /\ op[t] \in Access /\ op[t].addr = <<op[t].addr[1], op[t].addr[2]>>
         /\ op[t].addr[1] \in 3..255 /\ op[t].addr[2] \in 0..255 /\ op[t].value \in 0..255
         /\ op[t].addr \in Addresses /\ op[t].value \in Data /\ op[t].kind \in {"read", "write"}
<1>1. op[t] \in Access
  BY DEF IInv, Types, Control
<1>2. op[t].addr \in Pages \X Lows
  BY <1>1 DEF Access, Addresses
<1>3. PICK page \in Pages, byte \in Lows : op[t].addr = <<page, byte>>
  BY <1>2
<1>4. op[t].addr[1] = page /\ op[t].addr[2] = byte
  BY <1>3
<1>5. page \in 3..255 /\ byte \in 0..255
  BY BusAssumption
<1>6. op[t].value \in Data /\ op[t].value \in 0..255 /\ op[t].kind \in {"read", "write"}
  BY <1>1, BusAssumption DEF Access
<1> QED
  BY <1>1, <1>2, <1>3, <1>4, <1>5, <1>6 DEF Addresses

\* What writing a byte to a port does, to the device and to the call.
LEMMA PutEffect ==
  ASSUME IInv, NEW t \in Threads, Put(t)
  PROVE  \/ /\ pc[t] = "low" /\ low' = op[t].addr[2] /\ UNCHANGED <<high, data, mem>>
            /\ Continue(t, "high")
         \/ /\ pc[t] = "high" /\ high' = op[t].addr[1] /\ UNCHANGED <<low, data, mem>>
            /\ Continue(t, IF Reading(t) THEN "cmd" ELSE "data")
         \/ /\ pc[t] = "data" /\ data' = op[t].value /\ UNCHANGED <<low, high, mem>>
            /\ Continue(t, "cmd")
         \/ /\ pc[t] = "cmd" /\ Reading(t) /\ data' = mem[op[t].addr] /\ UNCHANGED <<low, high, mem>>
            /\ Continue(t, "done")
         \/ /\ pc[t] = "cmd" /\ ~Reading(t) /\ UNCHANGED <<low, high, data>>
            /\ mem' = [mem EXCEPT ![op[t].addr] = op[t].value]
            /\ Continue(t, "done")
         \/ pc[t] = "reset" /\ UNCHANGED device /\ Continue(t, Finish(t))
<1>1. /\ pc[t] \in Writes /\ ~seeking[t] /\ pos = Port(pc[t])
      /\ DeviceTakes(pos, Byte(t)) /\ Continue(t, After(t))
  BY DEF Put, Transfer, IInv, Latched
<1>2. pc[t] \notin Starting \cup Outside /\ op[t].addr[1] \in 3..255
  <2>1. pc[t] \notin Starting \cup Outside
    BY <1>1 DEF Writes, Starting, Outside
  <2> QED
    BY <2>1, Arguments
<1> USE DEF DeviceTakes, AddrPort, CmdPort, DataPort, ResetCmd, ReadCmd, WriteCmd
<1>3. CASE pc[t] = "low"
  <2>1. pos = AddrPort /\ Byte(t) = op[t].addr[2]
    BY <1>1, <1>3, Ports DEF Byte
  <2>2. low' = op[t].addr[2] /\ UNCHANGED <<high, data, mem>>
    BY <1>1, <2>1
  <2>3. Continue(t, "high")
    BY <1>1, <1>3, AfterAccess
  <2> QED
    BY <1>3, <2>2, <2>3
<1>4. CASE pc[t] = "high"
  <2>1. pos = CmdPort /\ Byte(t) = op[t].addr[1]
    BY <1>1, <1>4, Ports DEF Byte
  <2>2. op[t].addr[1] \notin {0, 1, 2}
    BY <1>2
  <2>3. high' = op[t].addr[1] /\ UNCHANGED <<low, data, mem>>
    BY <1>1, <2>1, <2>2
  <2>4. Continue(t, IF Reading(t) THEN "cmd" ELSE "data")
    BY <1>1, <1>4, AfterAccess
  <2> QED
    BY <1>4, <2>3, <2>4
<1>5. CASE pc[t] = "data"
  <2>1. pos = DataPort /\ Byte(t) = op[t].value
    BY <1>1, <1>5, Ports DEF Byte
  <2>2. data' = op[t].value /\ UNCHANGED <<low, high, mem>>
    BY <1>1, <2>1
  <2>3. Continue(t, "cmd")
    BY <1>1, <1>5, AfterAccess
  <2> QED
    BY <1>5, <2>2, <2>3
<1>6. CASE pc[t] = "cmd"
  <2>1. pos = CmdPort /\ Byte(t) = IF Reading(t) THEN ReadCmd ELSE WriteCmd
    BY <1>1, <1>6, Ports DEF Byte
  <2>2. <<high, low>> = op[t].addr /\ op[t].addr \in Addresses
    <3>1. op[t].addr = <<op[t].addr[1], op[t].addr[2]>> /\ op[t].addr \in Addresses
      BY <1>2, Arguments
    <3>2. low = op[t].addr[2] /\ high = op[t].addr[1]
      BY <1>6 DEF IInv, Latched
    <3> QED
      BY <3>1, <3>2
  <2>3. ~Reading(t) => data = op[t].value
    BY <1>6 DEF IInv, Latched
  <2>4. Continue(t, "done")
    BY <1>1, <1>6, AfterAccess
  <2>5. CASE Reading(t)
    <3>1. Byte(t) = ReadCmd
      BY <2>1, <2>5
    <3>2. data' = mem[op[t].addr] /\ UNCHANGED <<low, high, mem>>
      BY <1>1, <2>1, <2>2, <3>1
    <3> QED
      BY <1>6, <2>4, <2>5, <3>2
  <2>6. CASE ~Reading(t)
    <3>1. Byte(t) = WriteCmd
      BY <2>1, <2>6
    <3>2. DeviceTakes(CmdPort, WriteCmd)
      BY <1>1, <2>1, <3>1
    <3>3. UNCHANGED <<low, high, data>>
      BY <3>2
    <3>4. mem' = [mem EXCEPT ![<<high, low>>] = data]
      BY <2>2, <3>2
    <3>5. mem' = [mem EXCEPT ![op[t].addr] = op[t].value]
      BY <2>2, <2>3, <2>6, <3>4, Zenon
    <3> QED
      BY <1>6, <2>4, <2>6, <3>3, <3>5
  <2> QED
    BY <2>5, <2>6
<1>7. CASE pc[t] = "reset"
  <2>1. pos = CmdPort /\ Byte(t) = ResetCmd
    BY <1>1, <1>7, Ports DEF Byte
  <2> QED
    BY <1>1, <1>7, <2>1, AfterAccess DEF device
<1> QED
  BY <1>1, <1>3, <1>4, <1>5, <1>6, <1>7 DEF Writes
--------------------------------------------------------------------------------
(* The inductive invariant.                                                *)

\* While a thread is in a call or opens the bus, all others are outside.
LEMMA Alone ==
  ASSUME IInv, NEW t \in Threads, pc[t] \notin Outside
  PROVE  \A u \in Threads \ {t} : pc[u] \in Outside /\ seeking[u]
  BY DEF IInv, Locked, Latched

\* What the end of one system call of a thread must establish, for the thread
\* itself: all others stay where they are.
LEMMA OneMoves ==
  ASSUME IInv, Locked', NEW t \in Threads, pc[t] \notin Outside, NEW label \in Labels,
         pc' = [pc EXCEPT ![t] = label], seeking' = [seeking EXCEPT ![t] = TRUE],
         mem' \in [Addresses -> Data], data' \in 0..255, DOMAIN result' = Threads,
         op' = [op EXCEPT ![t] = None] \/ op' = op,
         label \in Starting \cup {"off", "closed"} => t = Main,
         op'[t] = None <=> label \in Starting \cup Outside,
         label \in {"high", "data", "cmd"} => low' = op'[t].addr[2],
         label \in {"data", "cmd"} => high' = op'[t].addr[1],
         label = "cmd" /\ op'[t].kind # "read" => data' = op'[t].value,
         label = "fetch" => op'[t].kind = "read"
  PROVE  IInv'
<1>1. \A u \in Threads \ {t} : pc[u] \in Outside /\ seeking[u]
  BY Alone
<1>2. Types'
  BY DEF IInv, Types
<1>3. /\ pc'[t] = label /\ seeking'[t]
      /\ \A u \in Threads \ {t} : pc'[u] = pc[u] /\ seeking'[u] = seeking[u] /\ op'[u] = op[u]
  BY DEF IInv, Types
<1>4. Control'
  BY <1>3 DEF IInv, Control
<1>5. Latched'
  BY <1>1, <1>3 DEF Latched, Reading, Outside
<1> QED
  BY <1>2, <1>4, <1>5 DEF IInv

\* A call that goes on needs no more than what it has latched.
LEMMA OneContinues ==
  ASSUME IInv, Locked', NEW t \in Threads, pc[t] \notin Starting \cup Outside,
         NEW label \in Labels \ Starting, label \in Outside => label = "idle",
         Continue(t, label), Transfer(t),
         mem' \in [Addresses -> Data], data' \in 0..255,
         label \in {"high", "data", "cmd"} => low' = op[t].addr[2],
         label \in {"data", "cmd"} => high' = op[t].addr[1],
         label = "cmd" /\ ~Reading(t) => data' = op[t].value,
         label = "fetch" => Reading(t)
  PROVE  IInv'
<1>1. op[t] # None
  BY DEF IInv, Control
<1>2. CASE label = "idle"
  <2>1. /\ pc' = [pc EXCEPT ![t] = "idle"] /\ op' = [op EXCEPT ![t] = None]
        /\ result' = [result EXCEPT ![t] = Ok]
    BY <1>2 DEF Continue, Return
  <2>2. op'[t] = None /\ DOMAIN result' = Threads
    BY <2>1 DEF IInv, Types
  <2> QED
    BY <1>2, <2>1, <2>2, OneMoves DEF Transfer, Outside, Starting
<1>3. CASE label # "idle"
  <2>1. pc' = [pc EXCEPT ![t] = label] /\ op' = op /\ result' = result
    BY <1>3 DEF Continue
  <2>2. label \notin Starting \cup Outside
    BY <1>3
  <2>3. op'[t] # None /\ DOMAIN result' = Threads
    BY <1>1, <2>1 DEF IInv, Types
  <2> QED
    BY <2>1, <2>2, <2>3, OneMoves DEF Transfer, Reading, Outside
<1> QED
  BY <1>2, <1>3

\* A call returns.
LEMMA OneReturns ==
  ASSUME IInv, Locked', NEW t \in Threads, pc[t] \notin Starting \cup Outside,
         NEW r, Return(t, r), Transfer(t), UNCHANGED device
  PROVE  IInv'
<1>1. /\ pc' = [pc EXCEPT ![t] = "idle"] /\ op' = [op EXCEPT ![t] = None]
      /\ result' = [result EXCEPT ![t] = r]
  BY DEF Return
<1>2. op'[t] = None /\ DOMAIN result' = Threads /\ mem' \in [Addresses -> Data] /\ data' \in 0..255
  BY <1>1 DEF IInv, Types, device
<1>3. "idle" \in Labels /\ "idle" \in Outside /\ "idle" \notin Starting \cup {"off", "closed"}
  BY DEF Labels, Outside, Starting
<1> QED
  BY <1>1, <1>2, <1>3, OneMoves DEF Transfer
\* Initially nobody is in a call.
LEMMA BusInit == Init => IInv
<1> SUFFICES ASSUME Init PROVE IInv
  OBVIOUS
<1>1. Types
  BY DEF Init, Types, Labels, Outside
<1>2. Control /\ Locked /\ Latched
  BY DEF Init, Control, Locked, Latched, Outside, Starting
<1> QED
  BY <1>1, <1>2 DEF IInv

\* Every byte put on a port keeps the invariant.
LEMMA PutKeeps == ASSUME IInv, Locked', NEW t \in Threads, Put(t) PROVE IInv'
<1>1. pc[t] \notin Starting \cup Outside /\ Transfer(t)
  BY DEF Put, Writes, Starting, Outside
<1>2. /\ op[t].addr \in Addresses /\ op[t].value \in Data
      /\ op[t].addr[2] \in 0..255 /\ op[t].value \in 0..255
  BY <1>1, Arguments
<1>3. /\ mem[op[t].addr] \in 0..255
      /\ mem \in [Addresses -> Data] /\ data \in 0..255
      /\ [mem EXCEPT ![op[t].addr] = op[t].value] \in [Addresses -> Data]
  BY <1>2, BusAssumption DEF IInv, Types
<1>4. {"idle", "low", "high", "data", "cmd", "done", "fetch"} \subseteq Labels \ Starting
  BY DEF Labels, Starting, Waits, Writes, Outside
<1>5. {"low", "high", "data", "cmd", "done", "fetch"} \cap Outside = {}
  BY DEF Outside
<1>6. CASE /\ pc[t] = "low" /\ low' = op[t].addr[2] /\ UNCHANGED <<high, data, mem>>
           /\ Continue(t, "high")
  BY <1>1, <1>3, <1>4, <1>5, <1>6, OneContinues
<1>7. CASE /\ pc[t] = "high" /\ high' = op[t].addr[1] /\ UNCHANGED <<low, data, mem>>
           /\ Continue(t, IF Reading(t) THEN "cmd" ELSE "data")
  <2>1. low' = op[t].addr[2]
    BY <1>7 DEF IInv, Latched
  <2>2. CASE Reading(t)
    BY <1>1, <1>3, <1>4, <1>5, <1>7, <2>1, <2>2, OneContinues
  <2>3. CASE ~Reading(t)
    BY <1>1, <1>3, <1>4, <1>5, <1>7, <2>1, <2>3, OneContinues
  <2> QED
    BY <2>2, <2>3
<1>8. CASE /\ pc[t] = "data" /\ data' = op[t].value /\ UNCHANGED <<low, high, mem>>
           /\ Continue(t, "cmd")
  <2>1. low' = op[t].addr[2] /\ high' = op[t].addr[1]
    BY <1>8 DEF IInv, Latched
  <2> QED
    BY <1>1, <1>2, <1>3, <1>4, <1>5, <1>8, <2>1, OneContinues
<1>9. CASE pc[t] = "cmd" /\ data' = mem[op[t].addr] /\ UNCHANGED mem /\ Continue(t, "done")
  BY <1>1, <1>3, <1>4, <1>5, <1>9, OneContinues
<1>10. CASE /\ pc[t] = "cmd" /\ mem' = [mem EXCEPT ![op[t].addr] = op[t].value] /\ UNCHANGED data
            /\ Continue(t, "done")
  BY <1>1, <1>3, <1>4, <1>5, <1>10, OneContinues
<1>11. CASE pc[t] = "reset" /\ UNCHANGED device /\ Continue(t, Finish(t))
  BY <1>1, <1>3, <1>4, <1>5, <1>11, OneContinues DEF Finish, device
<1> QED
  BY <1>6, <1>7, <1>8, <1>9, <1>10, <1>11, PutEffect
\* Every step of a thread in a call, or of Main while it opens the bus, keeps it.
LEMMA StepKeeps == ASSUME IInv, Locked', NEW t \in Threads, Step(t) PROVE IInv'
<1> USE DEF device
<1>a. mem \in [Addresses -> Data] /\ data \in 0..255 /\ DOMAIN result = Threads
  BY DEF IInv, Types
<1>b. {"idle", "low", "check", "reset", "fetch"} \subseteq Labels \ Starting
  BY DEF Labels, Starting, Waits, Writes, Outside
<1>c. {"low", "check", "reset", "fetch"} \cap Outside = {}
  BY DEF Outside
<1>1. CASE Seek(t)
  <2>1. /\ pc[t] \notin Outside /\ pos' = Port(pc[t])
        /\ seeking' = [seeking EXCEPT ![t] = FALSE]
        /\ UNCHANGED <<mem, data, low, high, pc, op, result>>
    BY <1>1 DEF Seek, locals
  <2>2. \A u \in Threads \ {t} : seeking[u] /\ seeking'[u]
    BY <2>1, Alone DEF IInv, Types
  <2>3. Types' /\ Control'
    BY <2>1 DEF IInv, Types, Control
  <2>4. Latched'
    BY <2>1, <2>2 DEF IInv, Types, Latched, Reading
  <2> QED
    BY <2>3, <2>4 DEF IInv
<1>2. CASE Put(t)
  BY <1>2, PutKeeps
<1>3. CASE Wait(t)
  <2>1. pc[t] \in {"ready", "done"} /\ pc[t] \notin Starting \cup Outside /\ Transfer(t) /\ UNCHANGED device
    BY <1>3 DEF Wait, Waits, Starting, Outside
  <2>2. CASE Continue(t, After(t))
    <3>1. After(t) \in {"low", "check"}
      BY <2>1, AfterAccess
    <3> QED
      BY <1>a, <1>b, <1>c, <2>1, <2>2, <3>1, OneContinues
  <2>3. CASE Return(t, Failed)
    BY <2>1, <2>3, OneReturns
  <2>4. CASE UNCHANGED <<pc, op, result>>
    <3>1. pc' = [pc EXCEPT ![t] = pc[t]] /\ pc[t] \in Labels
      BY <2>4 DEF IInv, Types
    <3>2. pc[t] \notin {"off", "closed", "high", "data", "cmd", "fetch"} /\ pc[t] \notin Outside
      BY <2>1 DEF Outside
    <3>3. op'[t] # None /\ op' = op /\ result' = result
      BY <2>1, <2>4 DEF IInv, Control
    <3>4. seeking' = [seeking EXCEPT ![t] = TRUE]
      BY <2>1 DEF Transfer
    <3> QED
      BY <1>a, <2>1, <3>1, <3>2, <3>3, <3>4, OneMoves
  <2> QED
    BY <1>3, <2>2, <2>3, <2>4 DEF Wait
<1>4. CASE Check(t)
  <2>1. pc[t] = "check" /\ pc[t] \notin Starting \cup Outside /\ Transfer(t) /\ UNCHANGED device
    BY <1>4 DEF Check, Starting, Outside
  <2>2. CASE Continue(t, "reset")
    BY <1>a, <1>b, <1>c, <2>1, <2>2, OneContinues
  <2>3. CASE Return(t, Failed)
    BY <2>1, <2>3, OneReturns
  <2>4. CASE Continue(t, After(t))
    <3>1. After(t) \in {"fetch", "idle"} /\ (After(t) = "fetch" => Reading(t))
      BY <2>1, AfterAccess DEF Finish
    <3> QED
      BY <1>a, <1>b, <1>c, <2>1, <2>4, <3>1, OneContinues
  <2> QED
    BY <1>4, <2>2, <2>3, <2>4 DEF Check
<1>5. CASE Fetch(t)
  BY <1>5, OneReturns DEF Fetch, Starting, Outside
<1>6. CASE t = Main /\ Reset
  <2>1. /\ pc[t] \in {"start", "restart"} /\ pc[t] \notin Outside /\ Transfer(t) /\ op' = op /\ result' = result
        /\ DeviceTakes(CmdPort, ResetCmd)
    BY <1>6, Ports DEF Reset, MainGoto, Transfer, IInv, Latched, Outside, locals
  <2>2. UNCHANGED device
    BY <2>1 DEF DeviceTakes, AddrPort, CmdPort, DataPort, ResetCmd, ReadCmd, WriteCmd
  <2>3. PICK label \in {"probe", "idle"} : pc' = [pc EXCEPT ![t] = label]
    BY <1>6 DEF Reset, MainGoto
  <2>4. label \in Labels /\ label \in Starting \cup Outside /\ op'[t] = None
    BY <2>1 DEF Labels, Starting, Outside, IInv, Control
  <2>5. seeking' = [seeking EXCEPT ![t] = TRUE]
    BY <2>1 DEF Transfer
  <2> QED
    BY <1>a, <1>6, <2>1, <2>2, <2>3, <2>4, <2>5, OneMoves
<1>7. CASE t = Main /\ Probe
  <2>1. /\ pc[t] = "probe" /\ pc[t] \notin Outside /\ Transfer(t) /\ op' = op /\ result' = result
        /\ UNCHANGED device
    BY <1>7 DEF Probe, Outside, locals
  <2>2. PICK label \in {"restart", "idle", "start", "closed"} : pc' = [pc EXCEPT ![t] = label]
    BY <1>7 DEF Probe, MainGoto
  <2>3. label \in Labels /\ label \in Starting \cup Outside /\ op'[t] = None
    BY <2>1 DEF Labels, Starting, Outside, IInv, Control
  <2>4. seeking' = [seeking EXCEPT ![t] = TRUE]
    BY <2>1 DEF Transfer
  <2> QED
    BY <1>a, <1>7, <2>1, <2>2, <2>3, <2>4, OneMoves
<1> QED
  BY <1>1, <1>2, <1>3, <1>4, <1>5, <1>6, <1>7 DEF Step

\* Every step of the bus behind its lock keeps it.
LEMMA BusStep == IInv /\ [Next /\ Locked']_vars => IInv'
<1> SUFFICES ASSUME IInv, [Next /\ Locked']_vars PROVE IInv'
  OBVIOUS
<1> USE DEF device
<1>1. CASE DeviceChange
  <2>1. mem' \in [Addresses -> Data] /\ UNCHANGED <<pos, low, high, data, pc, seeking, locals>>
    BY <1>1 DEF DeviceChange, IInv, Types
  <2> QED
    BY <2>1 DEF locals, IInv, Types, Control, Locked, Latched, Reading
<1>2. CASE (Open \/ Close) /\ Locked'
  <2>1. PICK label \in {"start", "closed"} :
          pc[Main] \in Outside /\ pc' = [pc EXCEPT ![Main] = label]
    BY <1>2 DEF Open, Close, MainGoto, Outside
  <2>2. UNCHANGED <<pos, device, seeking, locals>>
    BY <1>2 DEF Open, Close
  <2>3. Types'
    BY <2>1, <2>2 DEF locals, IInv, Types, Labels, Starting, Outside
  <2>4. op[Main] = None
    BY <2>1, BusAssumption DEF IInv, Control
  <2>5. Control'
    BY <2>1, <2>2, <2>4 DEF locals, IInv, Types, Control, Starting, Outside
  <2>6. Latched'
    BY <2>1, <2>2, BusAssumption DEF locals, IInv, Types, Latched, Reading
  <2> QED
    BY <1>2, <2>3, <2>5, <2>6 DEF IInv
<1>3. ASSUME NEW t \in Threads, Call(t), Locked' PROVE IInv'
  <2>1. PICK a \in Access : op' = [op EXCEPT ![t] = a]
    BY <1>3 DEF Call
  <2>2. /\ pc[t] = "idle" /\ pc' = [pc EXCEPT ![t] = "ready"]
        /\ UNCHANGED <<pos, device, seeking, result>>
    BY <1>3 DEF Call
  <2>3. Types'
    BY <2>1, <2>2 DEF IInv, Types, Labels, Waits
  <2>4. a # None
    BY NoneAssumption
  <2>5. Control'
    BY <2>1, <2>2, <2>4 DEF IInv, Types, Control, Starting, Outside
  <2>6. seeking[t]
    BY <2>2 DEF IInv, Latched, Outside
  <2>7. Latched'
    BY <2>1, <2>2, <2>6 DEF IInv, Types, Latched, Reading, Outside
  <2> QED
    BY <1>3, <2>3, <2>5, <2>7 DEF IInv
<1>4. CASE UNCHANGED vars
  BY <1>4 DEF vars, locals, IInv, Types, Control, Locked, Latched, Reading
<1> QED
  BY <1>1, <1>2, <1>3, <1>4, StepKeeps DEF Next
\* Behind the lock every state is as the invariant says.
LEMMA Inductive == LockedSpec => []IInv
  BY BusInit, BusStep, PTL DEF LockedSpec

--------------------------------------------------------------------------------
(* Behind a lock, the bus implements RegisterFile.                         *)

Performed == {"done", "check", "reset", "fetch"}
Yield(t)  == IF Reading(t) THEN data ELSE Ok
Done      == [t \in Threads |-> IF pc[t] \notin Performed THEN None ELSE Yield(t)]

\* While one thread moves, nothing the others have yielded changes.
LEMMA DoneMoves ==
  ASSUME IInv, NEW t \in Threads, pc[t] \notin Outside, NEW label, pc' = [pc EXCEPT ![t] = label]
  PROVE  /\ Done' = [Done EXCEPT ![t] = IF label \notin Performed THEN None ELSE Yield(t)']
         /\ Done[t] = IF pc[t] \notin Performed THEN None ELSE Yield(t)
<1>1. \A u \in Threads \ {t} : pc[u] \in Outside /\ pc'[u] = pc[u]
  BY Alone DEF IInv, Types
<1>2. \A u \in Threads \ {t} : Done[u] = None /\ Done'[u] = None
  BY <1>1 DEF Done, Performed, Outside
<1>3. Done'[t] = IF label \notin Performed THEN None ELSE Yield(t)'
  BY DEF Done, IInv, Types
<1> QED
  BY <1>2, <1>3 DEF Done

\* A call that is performed and still goes on changes no register.
LEMMA GoesOn ==
  ASSUME IInv, NEW t \in Threads, pc[t] \notin Outside, NEW label, label # "idle",
         Continue(t, label), UNCHANGED mem,
         label \in Performed <=> pc[t] \in Performed,
         label \in Performed => UNCHANGED data
  PROVE  UNCHANGED Registers!registers
<1>1. pc' = [pc EXCEPT ![t] = label] /\ op' = op /\ result' = result
  BY DEF Continue
<1>2. label \in Performed => Yield(t)' = Yield(t)
  BY <1>1 DEF Yield, Reading
<1>3. Done' = [Done EXCEPT ![t] = Done[t]]
  BY <1>1, <1>2, DoneMoves
<1>4. Done' = Done
  BY <1>3 DEF Done
<1> QED
  BY <1>1, <1>4 DEF Registers!registers, Done, Performed, Yield

\* A call that returns Failed, or what it has yielded, returns as it should.
LEMMA Returns ==
  ASSUME IInv, NEW t \in Threads, pc[t] \notin Starting \cup Outside,
         NEW r, r = Failed \/ (pc[t] \in Performed /\ r = Yield(t)),
         Return(t, r), UNCHANGED device
  PROVE  Registers!Return(t)
<1>1. /\ pc' = [pc EXCEPT ![t] = "idle"] /\ op' = [op EXCEPT ![t] = None]
      /\ result' = [result EXCEPT ![t] = r] /\ UNCHANGED mem
  BY DEF Return, device
<1>a. "idle" \notin Performed /\ pc[t] \notin Outside
  BY DEF Performed
<1>b. /\ Done' = [Done EXCEPT ![t] = IF "idle" \notin Performed THEN None ELSE Yield(t)']
      /\ Done[t] = IF pc[t] \notin Performed THEN None ELSE Yield(t)
  BY <1>1, <1>a, DoneMoves
<1>2. Done' = [Done EXCEPT ![t] = None]
  BY <1>a, <1>b
<1>3. r = Failed \/ (r = Done[t] /\ Done[t] # None)
  <2>1. Yield(t) # None
    BY NoneAssumption DEF Yield, Ok, IInv, Types
  <2> QED
    BY <1>b, <2>1
<1>4. op[t] # None
  BY DEF IInv, Control
<1> QED
  BY <1>1, <1>2, <1>3, <1>4 DEF Registers!Return, Done, Performed, Yield
\* The command performs the call, once.
LEMMA CommandPerforms ==
  ASSUME IInv, NEW t \in Threads, pc[t] = "cmd", Put(t)
  PROVE  Registers!Perform(t)
<1>1. pc[t] \notin Starting \cup Outside /\ pc[t] \notin Performed
  BY DEF Starting, Outside, Performed
<1>2. op[t] # None /\ op[t].kind \in {"read", "write"}
  BY <1>1, Arguments DEF IInv, Control
<1>3. Continue(t, "done")
  BY PutEffect
<1>4. pc' = [pc EXCEPT ![t] = "done"] /\ op' = op /\ result' = result
  BY <1>3 DEF Continue
<1>5. "done" \in Performed
  BY DEF Performed
<1>6. Done[t] = None /\ Done' = [Done EXCEPT ![t] = Yield(t)']
  BY <1>1, <1>4, <1>5, DoneMoves
<1>7. CASE Reading(t)
  <2>1. data' = mem[op[t].addr] /\ UNCHANGED mem
    BY <1>7, PutEffect
  <2>2. Yield(t)' = mem[op[t].addr]
    BY <1>4, <1>7, <2>1 DEF Yield, Reading
  <2> QED
    BY <1>2, <1>4, <1>6, <1>7, <2>1, <2>2 DEF Registers!Perform, Reading, Done, Performed, Yield
<1>8. CASE ~Reading(t)
  <2>1. mem' = [mem EXCEPT ![op[t].addr] = op[t].value]
    BY <1>8, PutEffect
  <2>2. Yield(t)' = Ok
    BY <1>4, <1>8 DEF Yield, Reading
  <2> QED
    BY <1>2, <1>4, <1>6, <1>8, <2>1, <2>2 DEF Registers!Perform, Reading, Done, Performed, Yield
<1> QED
  BY <1>7, <1>8

\* Every step of a thread in a call is a step of its register access, or changes
\* nothing in it.
LEMMA StepImplements ==
  ASSUME IInv, NEW t \in Threads, Step(t)
  PROVE  Registers!Perform(t) \/ Registers!Return(t) \/ UNCHANGED Registers!registers
<1> USE DEF device
<1>1. CASE Seek(t)
  BY <1>1 DEF Seek, locals, Registers!registers, Reading
<1>2. CASE Put(t)
  <2>1. pc[t] \notin Starting \cup Outside
    BY <1>2 DEF Put, Writes, Starting, Outside
  <2>2. CASE pc[t] = "cmd"
    BY <1>2, <2>2, CommandPerforms
  <2>3. CASE pc[t] \in {"low", "high", "data"}
    <3>1. PICK label \in {"high", "cmd", "data"} : Continue(t, label) /\ UNCHANGED mem
      BY <1>2, <2>3, PutEffect
    <3>2. label # "idle" /\ label \notin Performed /\ pc[t] \notin Performed
      BY <2>3 DEF Performed
    <3> QED
      BY <2>1, <3>1, <3>2, GoesOn
  <2>4. CASE pc[t] = "reset"
    <3>1. UNCHANGED device /\ Continue(t, Finish(t))
      BY <1>2, <2>4, PutEffect
    <3>2. pc[t] \in Performed /\ "fetch" \in Performed
      BY <2>4 DEF Performed
    <3>3. CASE Reading(t)
      BY <2>1, <3>1, <3>2, <3>3, GoesOn DEF Finish
    <3>4. CASE ~Reading(t)
      BY <2>1, <3>1, <3>2, <3>4, Returns DEF Finish, Continue, Yield
    <3> QED
      BY <3>3, <3>4
  <2> QED
    BY <1>2, <2>2, <2>3, <2>4 DEF Put, Writes
<1>3. CASE Wait(t)
  <2>1. pc[t] \in {"ready", "done"} /\ pc[t] \notin Starting \cup Outside /\ UNCHANGED device
    BY <1>3 DEF Wait, Waits, Starting, Outside
  <2>2. CASE Continue(t, After(t))
    <3>1. After(t) # "idle" /\ (After(t) \in Performed <=> pc[t] \in Performed)
      BY <2>1, AfterAccess DEF Performed
    <3> QED
      BY <2>1, <2>2, <3>1, GoesOn
  <2>3. CASE Return(t, Failed)
    BY <2>1, <2>3, Returns
  <2>4. CASE UNCHANGED <<pc, op, result>>
    BY <2>1, <2>4 DEF Registers!registers, Reading
  <2> QED
    BY <1>3, <2>2, <2>3, <2>4 DEF Wait
<1>4. CASE Check(t)
  <2>1. pc[t] = "check" /\ pc[t] \notin Starting \cup Outside /\ UNCHANGED device
    BY <1>4 DEF Check, Starting, Outside
  <2>2. {"check", "reset", "fetch"} \subseteq Performed
    BY DEF Performed
  <2>3. CASE Continue(t, "reset")
    BY <2>1, <2>2, <2>3, GoesOn
  <2>4. CASE Return(t, Failed)
    BY <2>1, <2>4, Returns
  <2>5. CASE Continue(t, Finish(t))
    <3>1. CASE Reading(t)
      BY <2>1, <2>2, <2>5, <3>1, GoesOn DEF Finish
    <3>2. CASE ~Reading(t)
      BY <2>1, <2>2, <2>5, <3>2, Returns DEF Finish, Continue, Yield
    <3> QED
      BY <3>1, <3>2
  <2> QED
    BY <1>4, <2>1, <2>3, <2>4, <2>5, AfterAccess DEF Check
<1>5. CASE Fetch(t)
  <2>1. pc[t] = "fetch" /\ pc[t] \notin Starting \cup Outside /\ pos = DataPort /\ Reading(t) /\ UNCHANGED device
    BY <1>5, Ports DEF Fetch, Transfer, Starting, Outside, IInv, Latched
  <2>2. Answers(pos) = {data}
    BY <2>1 DEF Answers, DataPort, StatusPort
  <2>3. Return(t, data)
    BY <1>5, <2>2 DEF Fetch
  <2> QED
    BY <2>1, <2>3, Returns DEF Performed, Yield
<1>6. CASE t = Main /\ (Reset \/ Probe)
  <2>1. /\ pc[t] \in Starting /\ op' = op /\ result' = result
        /\ \E label \in {"start", "probe", "restart", "closed", "idle"} : pc' = [pc EXCEPT ![t] = label]
    BY <1>6 DEF Reset, Probe, MainGoto, Starting, locals
  <2>2. UNCHANGED device
    BY <1>6, Ports DEF Reset, Probe, MainGoto, Transfer, IInv, Latched,
       DeviceTakes, AddrPort, CmdPort, DataPort, ResetCmd, ReadCmd, WriteCmd
  <2>3. pc[t] \notin Outside /\ pc[t] \notin Performed
    BY <2>1 DEF Starting, Outside, Performed
  <2>4. Done' = [Done EXCEPT ![t] = None] /\ Done[t] = None
    BY <2>1, <2>3, DoneMoves DEF Performed
  <2>5. Done' = Done
    BY <2>4 DEF Done
  <2> QED
    BY <2>1, <2>2, <2>5 DEF Registers!registers, Done, Performed, Yield
<1> QED
  BY <1>1, <1>2, <1>3, <1>4, <1>5, <1>6 DEF Step
\* Initially no register access is under way.
LEMMA RegistersInit == Init => Registers!Init
  BY DEF Init, Registers!Init, Outside

\* Every step of the bus behind its lock is a step of the registers, or changes
\* nothing in them.
LEMMA RegistersStep == IInv /\ [Next /\ Locked']_vars => [Registers!Next]_(Registers!registers)
<1> SUFFICES ASSUME IInv, [Next /\ Locked']_vars
             PROVE  Registers!Next \/ UNCHANGED Registers!registers
  OBVIOUS
<1> USE DEF device
<1>1. CASE DeviceChange
  <2>1. Registers!Device
    BY <1>1 DEF DeviceChange, Registers!Device, Reading, locals
  <2> QED
    BY <2>1 DEF Registers!Next
<1>2. CASE Open \/ Close
  <2>1. PICK label \in {"start", "closed"} :
          pc[Main] \in {"off", "idle"} /\ pc' = [pc EXCEPT ![Main] = label]
    BY <1>2 DEF Open, Close, MainGoto
  <2>2. UNCHANGED <<pos, device, seeking, locals>>
    BY <1>2 DEF Open, Close
  <2>3. \A t \in Threads : /\ pc'[t] \in Performed <=> pc[t] \in Performed
                           /\ Yield(t)' = Yield(t)
    BY <2>1, <2>2 DEF IInv, Types, Performed, Yield, Reading, locals
  <2>4. Done' = Done
    BY <2>3 DEF Done
  <2> QED
    BY <2>2, <2>4 DEF Registers!registers, Done, Performed, Yield, locals
<1>3. ASSUME NEW t \in Threads, Call(t) PROVE Registers!Next
  <2>1. /\ pc[t] = "idle" /\ pc' = [pc EXCEPT ![t] = "ready"]
        /\ UNCHANGED <<device, result>>
        /\ \E a \in Access : op' = [op EXCEPT ![t] = a]
    BY <1>3 DEF Call
  <2>2. \E a \in Registers!Access : op' = [op EXCEPT ![t] = a]
    BY <2>1 DEF Access, Registers!Access
  <2>3. op[t] = None
    BY <2>1 DEF IInv, Control, Outside
  <2>4. \A u \in Threads : /\ pc'[u] \in Performed <=> pc[u] \in Performed
                           /\ pc[u] \in Performed => Yield(u)' = Yield(u)
    BY <2>1 DEF IInv, Types, Performed, Yield, Reading
  <2>5. Done' = Done
    BY <2>4 DEF Done
  <2>6. Registers!Call(t)
    BY <2>1, <2>2, <2>3, <2>5 DEF Registers!Call, Done, Performed, Yield
  <2> QED
    BY <2>6 DEF Registers!Next
<1>4. ASSUME NEW t \in Threads, Step(t) PROVE Registers!Next \/ UNCHANGED Registers!registers
  BY <1>4, StepImplements DEF Registers!Next
<1>5. CASE UNCHANGED vars
  BY <1>5 DEF vars, locals, Registers!registers, Reading
<1> QED
  BY <1>1, <1>2, <1>3, <1>4, <1>5 DEF Next

\* One call at a time, pc104_read_reg and pc104_write_reg are atomic accesses to
\* the register they are asked for, each performed at most once, and they report
\* a failure when they may not have performed it: for every number of threads,
\* all addresses whose high byte is no command, and every status of the device.
THEOREM RegistersImplemented == LockedSpec => ImplementsRegisters
  BY RegistersInit, RegistersStep, Inductive, PTL DEF LockedSpec, ImplementsRegisters, Registers!Spec

\* Nor do they write anything that was not asked for: what is found violated
\* when two threads use the bus at once cannot happen behind a lock.
THEOREM LockedWritesAsAsked == LockedSpec => WritesAsAsked
<1> DEFINE Asked == \A t \in Threads, a \in Addresses :
                      Put(t) /\ mem'[a] # mem[a] =>
                        op[t].kind = "write" /\ op[t].addr = a /\ op[t].value = mem'[a]
<1>1. IInv => Asked
  <2> SUFFICES ASSUME IInv, NEW t \in Threads, NEW a \in Addresses, Put(t), mem'[a] # mem[a]
               PROVE  op[t].kind = "write" /\ op[t].addr = a /\ op[t].value = mem'[a]
    OBVIOUS
  <2>1. /\ pc[t] = "cmd" /\ ~Reading(t)
        /\ mem' = [mem EXCEPT ![op[t].addr] = op[t].value]
    BY PutEffect DEF device
  <2>2. op[t].kind = "write"
    BY <2>1, Arguments DEF Reading, Starting, Outside
  <2> QED
    BY <2>1, <2>2 DEF IInv, Types
<1>2. LockedSpec => [][Asked]_vars
  BY <1>1, Inductive, PTL DEF LockedSpec
<1> QED
  BY <1>2 DEF WritesAsAsked
================================================================================
