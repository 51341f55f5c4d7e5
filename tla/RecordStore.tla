------------------------------ MODULE RecordStore ------------------------------
(***************************************************************************)
(* What the stopwatch may expect of the storage: numbered records that     *)
(* survive the program.  A save replaces its record byte by byte from the  *)
(* first to the last, and only a save that replaced them all succeeds.     *)
(* One that fails, or is cut off by the end of the program, leaves the     *)
(* first bytes of the new record before the last bytes of the old one; a   *)
(* save reported as failed may have been complete.  StorageDriver          *)
(* implements this module.                                                 *)
(***************************************************************************)
EXTENDS Naturals

CONSTANTS
  Ids,      \* of the records
  Size,     \* of a record, in bytes
  Bytes,    \* what a byte can be
  None      \* no call

VARIABLES
  store,    \* the records
  call,     \* the operation in progress, or None
  written,  \* how many bytes of a save are in place
  result    \* of the last operation

storage == <<store, call, written, result>>

Record == [0..Size - 1 -> Bytes]
Call   == [kind : {"save", "read"}, id : Ids, value : Record]

Outcome(s, r) == [status |-> s, record |-> r]

Init ==
  /\ store \in [Ids -> Record]
  /\ call = None /\ written = 0
  /\ result \in [status : {"none"}, record : Record]

Begin ==
  /\ call = None
  /\ call' \in Call
  /\ result'.status = "none"
  /\ UNCHANGED <<store, written>>

Put ==
  /\ written < Size
  /\ store' = [store EXCEPT ![call.id][written] = call.value[written]]

PutByte ==
  /\ call # None /\ call.kind = "save"
  /\ Put
  /\ written' = written + 1
  /\ UNCHANGED <<call, result>>

End == call # None /\ call' = None /\ written' = 0

Saved ==
  /\ End /\ call.kind = "save" /\ written = Size
  /\ result'.status = "ok"
  /\ UNCHANGED store

Found ==
  /\ End /\ call.kind = "read"
  /\ result' = Outcome("ok", store[call.id])
  /\ UNCHANGED store

Failed ==
  /\ End
  /\ result'.status = "failed"
  /\ \/ UNCHANGED store
     \/ call.kind = "save" /\ Put

\* There is no such record.
Refused ==
  /\ call = None
  /\ result'.status = "failed"
  /\ UNCHANGED <<store, call, written>>

\* The program ends, whatever it was doing.
Stop ==
  /\ call' = None /\ written' = 0
  /\ result'.status = "none"
  /\ UNCHANGED store

Next == Begin \/ PutByte \/ Saved \/ Found \/ Failed \/ Refused \/ Stop

Spec == Init /\ [][Next]_storage
================================================================================
