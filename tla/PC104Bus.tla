------------------------------- MODULE PC104Bus -------------------------------
(***************************************************************************)
(* src/pc104_bus.c: pc104_read_reg and pc104_write_reg, made of accesses   *)
(* to four ports through one file descriptor, by threads that share it     *)
(* without a lock, between pc104_init and pc104_close.  A port access is   *)
(* two system calls: lseek sets the file position, read or write uses it   *)
(* and moves it on.                                                        *)
(*                                                                         *)
(* The device behind the ports is modelled from its use: an address latch, *)
(* a data latch, and a command that moves a byte between the data latch    *)
(* and the addressed register.  The code writes the high address byte to   *)
(* PC104_ADDR_PORT + 1, which is PC104_CMD_PORT; the device is taken to    *)
(* tell it from a command by its value.  It is also taken to keep its      *)
(* latches through a reset, and to carry out a command whatever status it  *)
(* shows: the code relies on both when it goes on after a status of 0xFF.  *)
(***************************************************************************)
EXTENDS Integers

CONSTANTS
  Threads, Main, \* the threads, and the one that opens and closes the bus
  Pages, Lows,   \* high and low bytes of the register addresses
  Data,          \* the bytes the registers hold
  Timeout,       \* PC104_TIMEOUT: 1000
  Tries,         \* retry_count of pc104_init: 3
  None           \* no call, or no result

DataPort   == 0   \* from PC104_BASE_ADDR
AddrPort   == 1
CmdPort    == 2
StatusPort == 3

ResetCmd == 0
ReadCmd  == 1
WriteCmd == 2

Ok     == 0
Failed == -1

ASSUME BusAssumption ==
  /\ Main \in Threads
  /\ Timeout \in Nat \ {0} /\ Tries \in Nat \ {0}
  /\ Pages \subseteq 3..255      \* 0x04 to 0x08: none of them is a command
  /\ Lows \subseteq 0..255 /\ Data \subseteq 0..255

VARIABLES
  open,     \* is g_pc104_fd a descriptor, not -1?
  pos,      \* position of the file descriptor
  low,      \* address latch of the device, low byte
  high,     \* and high byte
  data,     \* data latch of the device
  mem,      \* the registers behind it
  pc,       \* where each thread is; "idle" outside the functions, Main "off"
            \* before pc104_init and "closed" when the bus is given up
  seeking,  \* is the next system call of the thread an lseek?
  op,       \* the arguments of each thread's call
  left,     \* timeout, local to pc104_wait_ready
  tries,    \* retry_count, local to pc104_init
  result    \* what each thread's last call returned

device == <<low, high, data, mem>>
locals == <<op, left, result>>
life   == <<open, tries>>
vars   == <<life, pos, device, pc, seeking, locals>>

Addresses == Pages \X Lows
Access == [kind : {"read", "write"}, addr : Addresses, value : Data]

ASSUME NoneAssumption == None \notin Access \cup 0..255

Init ==
  /\ open = FALSE /\ tries = Tries
  /\ pos = 0 /\ low = 0 /\ high = 0 /\ data = 0
  /\ mem \in [Addresses -> Data]
  /\ pc = [t \in Threads |-> IF t = Main THEN "off" ELSE "idle"]
  /\ seeking = [t \in Threads |-> TRUE]
  /\ op = [t \in Threads |-> None]
  /\ left = [t \in Threads |-> Timeout]
  /\ result = [t \in Threads |-> None]
--------------------------------------------------------------------------------
(* The port accesses of a call, by label: wait until the bus is ready,     *)
(* write the address, the data of a write, and the command, wait until it  *)
(* is carried out, check for an error, and fetch the data of a read.       *)

Waits  == {"ready", "done"}
Writes == {"low", "high", "data", "cmd", "reset"}
Starting == {"start", "probe", "restart"}        \* pc104_init
Outside  == {"idle", "off", "closed"}

Port(label) == CASE label \in Waits \cup {"check", "probe"} -> StatusPort
                 [] label = "low"                          -> AddrPort
                 [] label \in {"high", "cmd", "reset", "start", "restart"} -> CmdPort
                 [] label \in {"data", "fetch"}             -> DataPort

Reading(t) == op[t].kind = "read"

Byte(t) == CASE pc[t] = "low"   -> op[t].addr[2]
             [] pc[t] = "high"  -> op[t].addr[1]
             [] pc[t] = "data"  -> op[t].value
             [] pc[t] = "cmd"   -> IF Reading(t) THEN ReadCmd ELSE WriteCmd
             [] pc[t] = "reset" -> ResetCmd

Finish(t) == IF Reading(t) THEN "fetch" ELSE "idle"   \* after the error check

\* Slip: the high byte of the address is not written.
AfterLowOnly(t) == CASE pc[t] = "ready" -> "low"
                     [] pc[t] = "low"   -> IF Reading(t) THEN "cmd" ELSE "data"
                     [] pc[t] = "data"  -> "cmd"
                     [] pc[t] = "cmd"   -> "done"
                     [] pc[t] = "done"  -> "check"
                     [] pc[t] \in {"check", "reset"} -> Finish(t)

\* Slip: a write sends its command without the data.
AfterNoData(t) == CASE pc[t] = "ready" -> "low"
                    [] pc[t] = "low"   -> "high"
                    [] pc[t] = "high"  -> "cmd"
                    [] pc[t] = "cmd"   -> "done"
                    [] pc[t] = "done"  -> "check"
                    [] pc[t] \in {"check", "reset"} -> Finish(t)

After(t) == CASE pc[t] = "ready" -> "low"
              [] pc[t] = "low"   -> "high"
              [] pc[t] = "high"  -> IF Reading(t) THEN "cmd" ELSE "data"
              [] pc[t] = "data"  -> "cmd"
              [] pc[t] = "cmd"   -> "done"
              [] pc[t] = "done"  -> "check"
              [] pc[t] \in {"check", "reset"} -> Finish(t)

\* What the device makes of a byte written to a port.
DeviceTakes(port, byte) ==
  LET here == <<high, low>> IN
  /\ low'  = IF port = AddrPort THEN byte ELSE low
  /\ high' = IF port = CmdPort /\ byte \notin {ResetCmd, ReadCmd, WriteCmd} THEN byte ELSE high
  /\ data' = IF port = DataPort THEN byte
             ELSE IF port = CmdPort /\ byte = ReadCmd /\ here \in Addresses THEN mem[here]
             ELSE data
  /\ mem'  = IF port = CmdPort /\ byte = WriteCmd /\ here \in Addresses
             THEN [mem EXCEPT ![here] = data] ELSE mem

\* What it answers: the status is ready, busy, in error, or 0xFF before the
\* first reset; the other ports cannot be read.
Answers(port) == CASE port = DataPort   -> {data}
                   [] port = StatusPort -> {0, 1, 2, 255}
                   [] OTHER             -> {255}

Busy(status)  == status % 2 = 1
Error(status) == (status \div 2) % 2 = 1
--------------------------------------------------------------------------------
\* Thread t calls pc104_read_reg or pc104_write_reg.  The calls lie between
\* pc104_init and pc104_close: ClockApp shows that the service thread is started
\* after the one and joined before the other.
Call(t) ==
  /\ pc[t] = "idle" /\ open /\ pc[Main] \notin Starting
  /\ \E a \in Access : /\ a.kind = "read" => a.value = CHOOSE b \in Data : TRUE
                     /\ op' = [op EXCEPT ![t] = a]
  /\ pc' = [pc EXCEPT ![t] = "ready"]
  /\ UNCHANGED <<life, pos, device, seeking, left, result>>

Seek(t) ==
  /\ pc[t] \notin Outside /\ seeking[t]
  /\ pos' = Port(pc[t])
  /\ seeking' = [seeking EXCEPT ![t] = FALSE]
  /\ UNCHANGED <<life, device, pc, locals>>

\* The other system call of a port access, on whatever port the position is.
Transfer(t) ==
  /\ ~seeking[t]
  /\ seeking' = [seeking EXCEPT ![t] = TRUE]
  /\ pos' = pos + 1

\* The call returns, and its locals are gone.
Return(t, r) ==
  /\ pc' = [pc EXCEPT ![t] = "idle"]
  /\ op' = [op EXCEPT ![t] = None]
  /\ left' = [left EXCEPT ![t] = Timeout]
  /\ result' = [result EXCEPT ![t] = r]

Continue(t, label) ==
  IF label = "idle" THEN Return(t, Ok)
  ELSE /\ pc' = [pc EXCEPT ![t] = label]
       /\ left' = [left EXCEPT ![t] = Timeout]
       /\ UNCHANGED <<op, result>>

\* port_write_byte
Put(t) ==
  /\ pc[t] \in Writes
  /\ Transfer(t)
  /\ DeviceTakes(pos, Byte(t))
  /\ Continue(t, After(t))
  /\ UNCHANGED life

\* Slip: the time is never up.
WaitForever(t) ==
  /\ pc[t] \in Waits
  /\ Transfer(t)
  /\ \E s \in Answers(pos) :
       \/ ~Busy(s) /\ Continue(t, After(t))
       \/ Busy(s) /\ UNCHANGED <<pc, locals>>
  /\ UNCHANGED <<life, device>>

\* pc104_wait_ready: one look at the status, and another while it is busy and
\* the time is not up.
Wait(t) ==
  /\ pc[t] \in Waits
  /\ Transfer(t)
  /\ \E s \in Answers(pos) :
       \/ ~Busy(s) /\ Continue(t, After(t))
       \/ Busy(s) /\ left[t] = 1 /\ Return(t, Failed)
       \/ /\ Busy(s) /\ left[t] > 1
          /\ left' = [left EXCEPT ![t] = @ - 1]
          /\ UNCHANGED <<pc, op, result>>
  /\ UNCHANGED <<life, device>>

\* pc104_check_error: 0xFF is answered with a reset and taken for no error.
Check(t) ==
  /\ pc[t] = "check"
  /\ Transfer(t)
  /\ \E s \in Answers(pos) :
       \/ s = 255 /\ Continue(t, "reset")
       \/ s # 255 /\ Error(s) /\ Return(t, Failed)
       \/ ~Error(s) /\ Continue(t, After(t))
  /\ UNCHANGED <<life, device>>

Fetch(t) ==
  /\ pc[t] = "fetch"
  /\ Transfer(t)
  /\ \E b \in Answers(pos) : Return(t, b)
  /\ UNCHANGED <<life, device>>

\* A device changes one of its registers.
DeviceChange ==
  /\ \E a \in Addresses, b \in Data : mem' = [mem EXCEPT ![a] = b]
  /\ UNCHANGED <<life, pos, low, high, data, pc, seeking, locals>>
--------------------------------------------------------------------------------
(* pc104_init and pc104_close, by Main.                                    *)

MainGoto(from, to) == pc[Main] = from /\ pc' = [pc EXCEPT ![Main] = to]

Open ==
  /\ \/ MainGoto("off", "start") /\ open' = TRUE
     \/ MainGoto("off", "closed") /\ UNCHANGED open
  /\ UNCHANGED <<tries, pos, device, seeking, locals>>

\* The bus is reset, or a second time by pc104_check_error.
Reset ==
  /\ MainGoto("start", "probe") \/ MainGoto("restart", "idle")
  /\ Transfer(Main)
  /\ DeviceTakes(pos, ResetCmd)
  /\ UNCHANGED <<life, locals>>

\* pc104_check_error decides: ready, another try, or give up.
Probe ==
  /\ pc[Main] = "probe" /\ Transfer(Main)
  /\ \E s \in Answers(pos) :
       \/ s = 255 /\ MainGoto("probe", "restart") /\ UNCHANGED life
       \/ ~Error(s) /\ MainGoto("probe", "idle") /\ UNCHANGED life
       \/ /\ s # 255 /\ Error(s) /\ tries > 1
          /\ MainGoto("probe", "start")
          /\ tries' = tries - 1 /\ UNCHANGED open
       \/ /\ s # 255 /\ Error(s) /\ tries = 1
          /\ MainGoto("probe", "closed")
          /\ tries' = 0 /\ open' = FALSE
  /\ UNCHANGED <<device, locals>>

\* pc104_close
Close ==
  /\ \A t \in Threads : pc[t] = "idle"
  /\ MainGoto("idle", "closed")
  /\ open' = FALSE
  /\ UNCHANGED <<tries, pos, device, seeking, locals>>

Step(t) == \/ Seek(t) \/ Put(t) \/ Wait(t) \/ Check(t) \/ Fetch(t)
           \/ t = Main /\ (Reset \/ Probe)

Next == DeviceChange \/ Open \/ Close \/ \E t \in Threads : Call(t) \/ Step(t)

Spec == Init /\ [][Next]_vars

\* The bus behind a lock, which the code does not have: one call at a time.
Locked == \A t, u \in Threads : pc[t] \notin Outside /\ pc[u] \notin Outside => t = u
LockedSpec == Init /\ [][Next /\ Locked']_vars

\* A thread that is in a call keeps running.
Fairness == \A t \in Threads : WF_vars(Step(t))
FairLockedSpec == LockedSpec /\ Fairness
--------------------------------------------------------------------------------
Registers == INSTANCE RegisterFile WITH
  Bytes <- Data,
  regs  <- mem,
  call  <- op,
  done  <- [t \in Threads |->
              IF pc[t] \notin {"done", "check", "reset", "fetch"} THEN None
              ELSE IF Reading(t) THEN data ELSE Ok]

\* A register access behaves as one atomic access to the register it names,
\* in spite of the four ports, the two latches and the file position it goes
\* through, and reports a failure when it may not have been performed.
ImplementsRegisters == Registers!Spec

\* What a call of the program changes in a register is what pc104_write_reg was
\* asked to write, where it was asked to write it.
WritesAsAsked ==
  [][\A t \in Threads, a \in Addresses :
       Put(t) /\ mem'[a] # mem[a] =>
         op[t].kind = "write" /\ op[t].addr = a /\ op[t].value = mem'[a]]_vars

\* Every call returns: a bus that stays busy is given up, before the command
\* and after it, and one that stays in error when it is opened.
CallsReturn == \A t \in Threads : pc[t] \notin Outside ~> pc[t] \in Outside
================================================================================
