----------------------------- MODULE StorageDriver -----------------------------
(***************************************************************************)
(* src/storage_driver.c, called by the main thread: a record is saved and  *)
(* read byte by byte through the address, data and control registers of    *)
(* the storage, any access to which may fail, and the program may end at   *)
(* any of them and start again.                                            *)
(*                                                                         *)
(* The storage is modelled from its use: a data latch, an address latch of *)
(* two bytes, and a write command that stores the data at the address.     *)
(* storage_read gives one read command and then sets the address of each   *)
(* byte; the model takes a read of the data register to yield the byte at  *)
(* the address in the latch, and the command to do nothing of its own.     *)
(***************************************************************************)
EXTENDS Integers

CONSTANTS
  MaxRecords,   \* STORAGE_MAX_RECORDS: 16
  RecordSize,   \* STORAGE_RECORD_SIZE: 4
  RecordBase,   \* STORAGE_RECORD_BASE_ADDR: 256
  StorageSize,  \* STORAGE_SIZE: 4096
  Page,         \* the addresses that share a high byte: 256
  Bytes,        \* the bytes that occur
  Blank,        \* those that fill a storage never written to
  AllOnes,      \* 0xFF, what a failed register read is cut down to
  None          \* no call

ASSUME StorageAssumption ==
  /\ MaxRecords \in Nat \ {0} /\ RecordSize \in Nat \ {0} /\ RecordBase \in Nat
  /\ StorageSize \in Nat /\ RecordBase + MaxRecords * RecordSize <= StorageSize
  /\ Page \in Nat \ {0}
  /\ Blank \subseteq Bytes /\ Blank # {} /\ AllOnes \in Bytes
  /\ None \notin [kind : {"save", "read"}, id : 0..MaxRecords - 1,
                  value : [0..RecordSize - 1 -> Bytes]]

Cells  == 0..StorageSize - 1
Ids    == 0..MaxRecords - 1
Record == [0..RecordSize - 1 -> Bytes]
Lows   == 0..Page - 1
Highs  == 0..(StorageSize - 1) \div Page

VARIABLES
  mem,            \* the bytes stored
  low, high,      \* the address latch
  data,           \* the data latch
  pc,             \* where the caller is: "off" before storage_init, "idle" after
  call,           \* its arguments
  i,              \* the loop variable of storage_read and storage_write
  buffer,         \* of storage_read
  result,         \* what the last call returned
  clean           \* history: has every access of this call worked so far?

latches == <<low, high, data>>
locals  == <<call, i, buffer>>
vars    == <<mem, latches, pc, locals, result, clean>>

NoRecord == [k \in 0..RecordSize - 1 |-> AllOnes]
Outcome(status, record) == [status |-> status, record |-> record]

Init ==
  /\ mem \in {[a \in Cells |-> b] : b \in Blank}
  /\ low = 0 /\ high = 0 /\ data \in Blank
  /\ pc = "off" /\ call = None /\ i = 0 /\ buffer = NoRecord
  /\ result = Outcome("none", NoRecord) /\ clean = TRUE
--------------------------------------------------------------------------------
(* Where the accesses of storage_read ("r...") and storage_write ("w...")  *)
(* lead.  storage_read sets the address once before its command and again  *)
(* for each byte.                                                          *)

Waits == {"rwait", "rbusy", "wwait", "wbusy"}
SetsLow  == {"rlow", "rlow2", "wlow"}
SetsHigh == {"rhigh", "rhigh2", "whigh"}
Labels == Waits \cup SetsLow \cup SetsHigh
            \cup {"off", "idle", "rcmd", "rdata", "wdata", "wcmd"}

Reading == pc \in {"rwait", "rlow", "rhigh", "rcmd", "rbusy", "rlow2", "rhigh2", "rdata"}
Saving  == call # None /\ call.kind = "save"

\* Slip: the high byte of the address is not set again for each byte.
AfterLowOnly == [rwait |-> "rlow", rlow |-> "rhigh", rhigh |-> "rcmd", rcmd |-> "rbusy",
                 rbusy |-> "rlow2", rlow2 |-> "rdata",
                 wwait |-> "wlow", wlow |-> "whigh", whigh |-> "wdata", wdata |-> "wcmd",
                 wcmd |-> "wbusy"]

After == [rwait |-> "rlow", rlow |-> "rhigh", rhigh |-> "rcmd", rcmd |-> "rbusy",
          rbusy |-> "rlow2", rlow2 |-> "rhigh2", rhigh2 |-> "rdata",
          wwait |-> "wlow", wlow |-> "whigh", whigh |-> "wdata", wdata |-> "wcmd",
          wcmd |-> "wbusy"]

\* Slip: the records overlap by a byte.
AddressOverlapping == RecordBase + call.id * (RecordSize - 1) + i

Address == RecordBase + call.id * RecordSize + i

\* Slip: the byte is not cut out of the address.
LowByteUncut == Address

LowByte  == Address % Page
HighByte == Address \div Page

Goto(label) == pc' = label /\ UNCHANGED <<locals, result>>

Return(outcome) ==
  /\ pc' = "idle" /\ result' = outcome
  /\ call' = None /\ i' = 0 /\ buffer' = NoRecord

\* storage_save_record goes on to storage_write, whatever storage_read returned.
Overwrite == pc' = "wwait" /\ i' = 0 /\ buffer' = NoRecord /\ UNCHANGED <<call, result>>

GiveUp == IF Saving /\ Reading THEN Overwrite ELSE Return(Outcome("failed", NoRecord))
--------------------------------------------------------------------------------
(* The register accesses.  A failed one is noticed and ends the call; a    *)
(* failed write may or may not have been performed.                        *)

Works == UNCHANGED clean
Fails == clean' = FALSE /\ GiveUp

\* storage_wait_ready: ready in time, or busy for too long or in error.  (0xFF
\* is answered with a control byte 0, which is no command.)
Wait ==
  /\ pc \in Waits
  /\ \/ Works /\ pc # "wbusy" /\ Goto(After[pc])
     \/ /\ Works /\ pc = "wbusy" /\ i + 1 < RecordSize
        /\ pc' = "wlow" /\ i' = i + 1 /\ UNCHANGED <<call, buffer, result>>
     \/ Works /\ pc = "wbusy" /\ i + 1 = RecordSize /\ Return(Outcome("ok", NoRecord))
     \/ Fails
  /\ UNCHANGED <<mem, latches>>

\* storage_set_address
SetLow ==
  /\ pc \in SetsLow
  /\ \/ Works /\ Goto(After[pc]) /\ low' = LowByte
     \/ Fails /\ low' \in {low, LowByte}
  /\ UNCHANGED <<mem, high, data>>

SetHigh ==
  /\ pc \in SetsHigh
  /\ \/ Works /\ Goto(After[pc]) /\ high' = HighByte
     \/ Fails /\ high' \in {high, HighByte}
  /\ UNCHANGED <<mem, low, data>>

SetData ==
  /\ pc = "wdata"
  /\ \/ Works /\ Goto("wcmd") /\ data' = call.value[i]
     \/ Fails /\ data' \in {data, call.value[i]}
  /\ UNCHANGED <<mem, low, high>>

\* What the write command does to the storage.
Stored == LET cell == high * Page + low
          IN  IF cell \in Cells THEN [mem EXCEPT ![cell] = data] ELSE mem

Command ==
  /\ \/ pc = "rcmd" /\ Works /\ Goto("rbusy") /\ UNCHANGED mem
     \/ pc = "rcmd" /\ Fails /\ UNCHANGED mem
     \/ pc = "wcmd" /\ Works /\ Goto("wbusy") /\ mem' = Stored
     \/ pc = "wcmd" /\ Fails /\ mem' \in {mem, Stored}
  /\ UNCHANGED latches

\* Slip: any byte that is not set counts as a failed read.
MissingZero(b) == b \in {0, AllOnes}

Missing(b) == b = AllOnes

\* One byte of the record is fetched; a byte 0xFF is taken for a failure.
Fetch ==
  /\ pc = "rdata"
  /\ \E b \in {mem[high * Page + low], AllOnes} :
       LET got == [buffer EXCEPT ![i] = b] IN
       /\ clean' = (clean /\ b = mem[high * Page + low])
       /\ \/ Missing(b) /\ GiveUp
          \/ /\ ~Missing(b) /\ i + 1 < RecordSize
             /\ pc' = "rlow2" /\ i' = i + 1 /\ buffer' = got /\ UNCHANGED <<call, result>>
          \/ /\ ~Missing(b) /\ i + 1 = RecordSize
             /\ IF Saving THEN Overwrite ELSE Return(Outcome("ok", got))
  /\ UNCHANGED <<mem, latches>>
--------------------------------------------------------------------------------
(* The operations.                                                         *)

\* The program starts, the latches holding anything, and storage_init succeeds.
\* When it fails, the program ends.
Start ==
  /\ pc = "off" /\ pc' = "idle"
  /\ low' \in Lows /\ high' \in Highs /\ data' \in Bytes
  /\ UNCHANGED <<mem, locals, result, clean>>

Begin(kind, id, value) ==
  /\ pc = "idle"
  /\ IF id < MaxRecords
     THEN /\ pc' = "rwait"
          /\ call' = [kind |-> kind, id |-> id, value |-> value]
          /\ clean' = TRUE
          /\ result' = Outcome("none", NoRecord)
     ELSE /\ result' = Outcome("failed", NoRecord)
          /\ UNCHANGED <<pc, call, clean>>
  /\ UNCHANGED <<mem, latches, i, buffer>>

storage_save_record(id, value) == Begin("save", id, value)
storage_read_record(id)        == Begin("read", id, NoRecord)

\* The program ends, or the power fails, anywhere; storage_close does nothing.
Stop ==
  /\ pc # "off" /\ pc' = "off"
  /\ call' = None /\ i' = 0 /\ buffer' = NoRecord
  /\ result' = Outcome("none", NoRecord)
  /\ UNCHANGED <<mem, latches, clean>>

Next ==
  \/ Start \/ Stop
  \/ \E id \in 0..MaxRecords : storage_read_record(id)
                               \/ \E value \in Record : storage_save_record(id, value)
  \/ Wait \/ SetLow \/ SetHigh \/ SetData \/ Command \/ Fetch

Spec == Init /\ [][Next]_vars
--------------------------------------------------------------------------------
TypeOK ==
  /\ mem \in [Cells -> Bytes]
  /\ low \in Lows /\ high \in Highs /\ data \in Bytes
  /\ pc \in Labels
  /\ call \in [kind : {"save", "read"}, id : Ids, value : Record] \cup {None}
  /\ call = None <=> pc \in {"off", "idle"}
  /\ i \in 0..RecordSize - 1 /\ buffer \in Record
  /\ result \in [status : {"none", "ok", "failed"}, record : Record]
  /\ clean \in BOOLEAN

\* What the latches held before, from another call, a failed access or an earlier
\* run of the program, never gets into a record: when storage_read takes a byte
\* from the data register, and when storage_write gives its command, the address
\* latch holds the address of the byte that is due, and at the write command the
\* data latch holds that byte.
RightByte ==
  /\ pc \in {"rdata", "wcmd"} => high * Page + low = RecordBase + call.id * RecordSize + i
  /\ pc = "wcmd" => call.kind = "save" /\ data = call.value[i]

RecordOf(id) == [k \in 0..RecordSize - 1 |-> mem[RecordBase + id * RecordSize + k]]

Records == INSTANCE RecordStore WITH
  Size <- RecordSize,
  store <- [id \in Ids |-> RecordOf(id)],
  written <- IF call = None \/ Reading THEN 0 ELSE IF pc = "wbusy" THEN i + 1 ELSE i

\* Saving and reading through three registers that may fail, with the program
\* ending anywhere in between, is saving and reading records: a save replaces
\* its own record only, first byte first, and succeeds only when all of it is
\* in place; a successful read returns what is stored.
ImplementsRecords == Records!Spec

\* A call in which every register access worked succeeds: a failure is never
\* invented.  The exception is the byte 0xFF, which storage_read cannot tell
\* from a failed access: a record that holds one (255 ms, say) is saved with
\* success and cannot be read back, ever.
FailsOnlyFor255 ==
  [][call # None /\ pc' = "idle" /\ clean' /\ result'.status = "failed" =>
       call.kind = "read" /\ \E k \in DOMAIN NoRecord : RecordOf(call.id)[k] = AllOnes]_vars
================================================================================
