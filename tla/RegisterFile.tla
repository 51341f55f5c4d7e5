----------------------------- MODULE RegisterFile -----------------------------
(***************************************************************************)
(* What the drivers take pc104_read_reg and pc104_write_reg to be: an      *)
(* access to a register of a device is performed at one moment between     *)
(* call and return, at most once, and a failure is reported.  A failed     *)
(* write may or may not have been performed.  PC104Bus implements this     *)
(* module as long as only one thread at a time uses the bus.               *)
(***************************************************************************)
CONSTANTS
  Threads,     \* the threads of the program
  Addresses,   \* of the registers
  Bytes,       \* what a register holds
  None,        \* no call, nothing performed, no result yet
  Ok,          \* the result of a write that was performed: 0
  Failed       \* the result of an access that failed: -1

VARIABLES
  regs,     \* the contents of the registers
  call,     \* the access each thread is in
  done,     \* what the access yielded, once performed
  result    \* of the last access of each thread

registers == <<regs, call, done, result>>

Access == [kind : {"read", "write"}, addr : Addresses, value : Bytes]

Init ==
  /\ regs \in [Addresses -> Bytes]
  /\ call = [t \in Threads |-> None]
  /\ done = [t \in Threads |-> None]
  /\ result = [t \in Threads |-> None]

Call(t) ==
  /\ call[t] = None
  /\ \E a \in Access : call' = [call EXCEPT ![t] = a]
  /\ UNCHANGED <<regs, done, result>>

Perform(t) ==
  /\ call[t] # None /\ done[t] = None
  /\ LET a == call[t] IN
       \/ /\ a.kind = "write"
          /\ regs' = [regs EXCEPT ![a.addr] = a.value]
          /\ done' = [done EXCEPT ![t] = Ok]
       \/ /\ a.kind = "read"
          /\ done' = [done EXCEPT ![t] = regs[a.addr]]
          /\ UNCHANGED regs
  /\ UNCHANGED <<call, result>>

Return(t) ==
  /\ call[t] # None
  /\ \/ result' = [result EXCEPT ![t] = Failed]
     \/ done[t] # None /\ result' = [result EXCEPT ![t] = done[t]]
  /\ call' = [call EXCEPT ![t] = None]
  /\ done' = [done EXCEPT ![t] = None]
  /\ UNCHANGED regs

\* A device changes a register of its own.
Device ==
  /\ \E a \in Addresses, b \in Bytes : regs' = [regs EXCEPT ![a] = b]
  /\ UNCHANGED <<call, done, result>>

Next == Device \/ \E t \in Threads : Call(t) \/ Perform(t) \/ Return(t)

Spec == Init /\ [][Next]_registers
===============================================================================
