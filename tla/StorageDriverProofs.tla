-------------------------- MODULE StorageDriverProofs --------------------------
(***************************************************************************)
(* Proofs about StorageDriver, for every size of the storage, its pages    *)
(* and its records: its types, that it implements RecordStore through      *)
(* failing accesses and crashes, and that it invents no failure but one.   *)
(***************************************************************************)
EXTENDS StorageDriver, TLAPS

--------------------------------------------------------------------------------
(* Addresses.                                                              *)

AddressOf(id, k) == RecordBase + id * RecordSize + k

\* Multiplication by a natural number is monotonic.
LEMMA Monotonic == ASSUME NEW a \in Nat, NEW b \in Nat, NEW c \in Nat, a <= b
                   PROVE  a * c \in Nat /\ b * c \in Nat /\ a * c <= b * c
  OBVIOUS

\* A record lies inside the storage.
LEMMA AddressInside == ASSUME NEW id \in Ids, NEW k \in 0..RecordSize - 1
                       PROVE  AddressOf(id, k) \in Cells
<1>1. id + 1 \in Nat /\ MaxRecords \in Nat /\ RecordSize \in Nat /\ id + 1 <= MaxRecords
  BY StorageAssumption DEF Ids
<1>2. (id + 1) * RecordSize <= MaxRecords * RecordSize
  BY <1>1, Monotonic
<1>3. id * RecordSize \in Nat /\ (id + 1) * RecordSize = id * RecordSize + RecordSize
  BY <1>1 DEF Ids
<1>4. MaxRecords * RecordSize \in Nat
  BY <1>1
<1> QED
  BY <1>2, <1>3, <1>4, StorageAssumption DEF AddressOf, Cells

\* No two bytes of the records share an address.
LEMMA AddressInjective ==
  ASSUME NEW id1 \in Ids, NEW k1 \in 0..RecordSize - 1,
         NEW id2 \in Ids, NEW k2 \in 0..RecordSize - 1,
         AddressOf(id1, k1) = AddressOf(id2, k2)
  PROVE  id1 = id2 /\ k1 = k2
<1>1. \A a, b \in Ids : a < b => a * RecordSize + RecordSize <= b * RecordSize
  <2> SUFFICES ASSUME NEW a \in Ids, NEW b \in Ids, a < b
               PROVE  a * RecordSize + RecordSize <= b * RecordSize
    OBVIOUS
  <2>1. a + 1 \in Nat /\ b \in Nat /\ a + 1 <= b /\ RecordSize \in Nat
    BY StorageAssumption DEF Ids
  <2>2. (a + 1) * RecordSize <= b * RecordSize
    BY <2>1, Monotonic
  <2> QED
    BY <2>1, <2>2 DEF Ids
<1>2. /\ id1 * RecordSize \in Nat /\ id2 * RecordSize \in Nat
      /\ id1 \in Nat /\ id2 \in Nat
  BY StorageAssumption DEF Ids
<1>3. id1 * RecordSize + k1 = id2 * RecordSize + k2
  BY <1>2, StorageAssumption DEF AddressOf
<1>4. ~(id1 < id2)
  BY <1>1, <1>2, <1>3, StorageAssumption
<1>5. ~(id2 < id1)
  BY <1>1, <1>2, <1>3, StorageAssumption
<1> QED
  BY <1>2, <1>3, <1>4, <1>5

\* The two bytes written to the address latch make up the address again.
LEMMA AddressSplit ==
  ASSUME NEW a \in Cells
  PROVE  a % Page \in Lows /\ a \div Page \in Highs /\ (a \div Page) * Page + (a % Page) = a
<1>1. a \in Nat /\ Page \in Nat /\ Page > 0 /\ StorageSize - 1 \in Nat /\ a <= StorageSize - 1
  BY StorageAssumption DEF Cells
<1>2. a % Page \in 0..Page - 1
  BY <1>1
<1>3. (a \div Page) * Page + (a % Page) = a
  BY <1>1
<1>4. a \div Page \in Nat
  BY <1>1
<1>5. a \div Page <= (StorageSize - 1) \div Page
  BY <1>1
<1>6. (StorageSize - 1) \div Page \in Nat
  BY <1>1
<1> QED
  BY <1>2, <1>3, <1>4, <1>5, <1>6 DEF Lows, Highs

\* Such is the address of the byte a call is at.
LEMMA CallAddress == ASSUME TypeOK, call # None PROVE Address = AddressOf(call.id, i) /\ Address \in Cells
<1>1. call.id \in Ids /\ i \in 0..RecordSize - 1
  BY DEF TypeOK
<1> QED
  BY <1>1, AddressInside DEF Address, AddressOf

\* Nothing has been fetched into the buffer of an idle driver.
LEMMA Empty == NoRecord \in Record /\ 0 \in 0..RecordSize - 1
  BY StorageAssumption DEF NoRecord, Record

--------------------------------------------------------------------------------
(* The inductive invariant.                                                *)

\* The address and the data a call has sent are still in the latches when it
\* gives its command, only a save gets as far as a write, and a byte that was
\* fetched is the byte of the record, in its place.
Latched ==
  /\ pc \in {"rhigh", "rhigh2", "rdata", "whigh", "wdata", "wcmd"} => low = LowByte
  /\ pc \in {"rdata", "wdata", "wcmd"} => high = HighByte
  /\ pc = "wcmd" => data = call.value[i]
  /\ pc \in {"wwait", "wlow", "whigh", "wdata", "wcmd", "wbusy"} => call.kind = "save"
  /\ call = None \/ pc \in {"rwait", "rlow", "rhigh", "rcmd", "rbusy", "wwait"} => i = 0
  /\ pc \in {"rlow2", "rhigh2", "rdata"} =>
       \A k \in 0..RecordSize - 1 : k < i => buffer[k] = RecordOf(call.id)[k]

IInv == TypeOK /\ Latched

\* The byte under the address latch, once it is set.
LEMMA LatchedByte ==
  ASSUME IInv, pc \in {"rdata", "wdata", "wcmd"}
  PROVE  high * Page + low = AddressOf(call.id, i) /\ high * Page + low \in Cells
<1>1. call # None
  BY DEF IInv, TypeOK
<1>2. Address = AddressOf(call.id, i) /\ Address \in Cells
  BY <1>1, CallAddress DEF IInv
<1>3. low = Address % Page /\ high = Address \div Page
  BY DEF IInv, Latched, LowByte, HighByte
<1> QED
  BY <1>2, <1>3, AddressSplit

--------------------------------------------------------------------------------
(* Type correctness.                                                       *)

\* Every initial state is well typed.
LEMMA TypeInit == Init => TypeOK
<1> SUFFICES ASSUME Init PROVE TypeOK
  OBVIOUS
<1>1. mem \in [Cells -> Bytes] /\ data \in Bytes
  BY StorageAssumption DEF Init
<1>2. low \in Lows /\ high \in Highs
  <2>1. StorageSize - 1 \in Nat
    BY StorageAssumption, Empty, AddressInside DEF Ids, Cells
  <2>2. (StorageSize - 1) \div Page \in Nat
    BY <2>1, StorageAssumption
  <2> QED
    BY <2>2, StorageAssumption DEF Init, Lows, Highs
<1>3. pc \in Labels /\ (call = None <=> pc \in {"off", "idle"}) /\ call = None
  BY DEF Init, Labels
<1>4. i \in 0..RecordSize - 1 /\ buffer \in Record /\ result \in [status : {"none", "ok", "failed"}, record : Record]
  BY Empty DEF Init, Outcome
<1> QED
  BY <1>1, <1>2, <1>3, <1>4 DEF TypeOK, Init

\* What the places a call can end at do to the types.
LEMMA ControlTypes ==
  ASSUME TypeOK, call # None, NEW outcome \in [status : {"none", "ok", "failed"}, record : Record],
         \/ \E label \in Labels \ {"off", "idle"} : Goto(label)
         \/ Return(outcome)
         \/ Overwrite
         \/ GiveUp
  PROVE  /\ pc' \in Labels
         /\ call' \in [kind : {"save", "read"}, id : Ids, value : Record] \cup {None}
         /\ call' = None <=> pc' \in {"off", "idle"}
         /\ i' \in 0..RecordSize - 1 /\ buffer' \in Record
         /\ result' \in [status : {"none", "ok", "failed"}, record : Record]
<1> USE Empty DEF TypeOK, Labels, Waits, SetsLow, SetsHigh
<1>1. CASE \E label \in Labels \ {"off", "idle"} : Goto(label)
  BY <1>1 DEF Goto, locals
<1>2. Outcome("failed", NoRecord) \in [status : {"none", "ok", "failed"}, record : Record]
  BY DEF Outcome
<1>3. ASSUME NEW o \in [status : {"none", "ok", "failed"}, record : Record], Return(o)
      PROVE  /\ pc' = "idle" /\ call' = None /\ i' = 0 /\ buffer' = NoRecord /\ result' = o
  BY <1>3 DEF Return
<1>4. CASE Overwrite
  BY <1>4 DEF Overwrite
<1> QED
  BY <1>1, <1>2, <1>3, <1>4 DEF GiveUp

\* Every step keeps the types.
LEMMA TypeStep == IInv /\ [Next]_vars => TypeOK'
<1> SUFFICES ASSUME IInv, TypeOK, [Next]_vars PROVE TypeOK'
  BY DEF IInv
<1>a. ASSUME call # None
      PROVE  LowByte \in Lows /\ HighByte \in Highs
  BY <1>a, CallAddress, AddressSplit DEF LowByte, HighByte
<1>b. Outcome("ok", NoRecord) \in [status : {"none", "ok", "failed"}, record : Record]
  BY Empty DEF Outcome
<1>c. ASSUME NEW label \in Waits \cup SetsLow \cup SetsHigh
      PROVE  label \in DOMAIN After => After[label] \in Labels \ {"off", "idle"}
  BY DEF After, Labels, Waits, SetsLow, SetsHigh
<1> USE DEF latches
<1>1. CASE Start
  BY <1>1 DEF Start, TypeOK, Labels, locals
<1>2. CASE Stop
  BY <1>2, Empty DEF Stop, TypeOK, Labels, Outcome
<1>3. ASSUME NEW kind \in {"save", "read"}, NEW id \in 0..MaxRecords, NEW value \in Record,
             Begin(kind, id, value)
      PROVE  TypeOK'
  <2>1. CASE id < MaxRecords
    <3>1. id \in Ids
      BY <2>1, StorageAssumption DEF Ids
    <3>2. call' \in [kind : {"save", "read"}, id : Ids, value : Record] /\ call' # None
      BY <1>3, <2>1, <3>1, StorageAssumption DEF Begin, Ids, Record
    <3> QED
      BY <1>3, <2>1, <3>2, Empty DEF Begin, TypeOK, Labels, Waits, Outcome
  <2>2. CASE ~(id < MaxRecords)
    BY <1>3, <2>2, Empty DEF Begin, TypeOK, Outcome
  <2> QED
    BY <2>1, <2>2
<1>4. CASE Wait
  <2>1. call # None /\ UNCHANGED <<mem, latches>> /\ clean' \in BOOLEAN
    BY <1>4 DEF Wait, TypeOK, Waits, Works, Fails
  <2>2. \/ \E label \in Labels \ {"off", "idle"} : Goto(label)
        \/ pc' = "wlow" /\ i + 1 < RecordSize /\ i' = i + 1 /\ UNCHANGED <<call, buffer, result>>
        \/ Return(Outcome("ok", NoRecord))
        \/ GiveUp
    BY <1>4, <1>c DEF Wait, Fails, Waits, After
  <2>3. CASE pc' = "wlow" /\ i + 1 < RecordSize /\ i' = i + 1 /\ UNCHANGED <<call, buffer, result>>
    BY <2>1, <2>3, StorageAssumption DEF TypeOK, Labels, SetsLow
  <2> QED
    BY <1>b, <2>1, <2>2, <2>3, ControlTypes DEF TypeOK
<1>5. CASE SetLow
  <2>1. call # None /\ low' \in Lows /\ clean' \in BOOLEAN /\ UNCHANGED <<mem, high, data>>
    BY <1>5, <1>a DEF SetLow, TypeOK, SetsLow, Works, Fails
  <2>2. (\E label \in Labels \ {"off", "idle"} : Goto(label)) \/ GiveUp
    BY <1>5, <1>c DEF SetLow, Fails, SetsLow, After
  <2> QED
    BY <1>b, <2>1, <2>2, ControlTypes DEF TypeOK
<1>6. CASE SetHigh
  <2>1. call # None /\ high' \in Highs /\ clean' \in BOOLEAN /\ UNCHANGED <<mem, low, data>>
    BY <1>6, <1>a DEF SetHigh, TypeOK, SetsHigh, Works, Fails
  <2>2. (\E label \in Labels \ {"off", "idle"} : Goto(label)) \/ GiveUp
    BY <1>6, <1>c DEF SetHigh, Fails, SetsHigh, After
  <2> QED
    BY <1>b, <2>1, <2>2, ControlTypes DEF TypeOK
<1>7. CASE SetData
  <2>1. call # None /\ clean' \in BOOLEAN /\ UNCHANGED <<mem, low, high>>
    BY <1>7 DEF SetData, TypeOK, Works, Fails
  <2>2. data' \in Bytes
    <3>1. call.value \in Record /\ i \in 0..RecordSize - 1 /\ data \in Bytes
      BY <2>1 DEF TypeOK
    <3>2. call.value[i] \in Bytes
      BY <3>1 DEF Record
    <3> QED
      BY <1>7, <3>1, <3>2 DEF SetData
  <2>3. (\E label \in Labels \ {"off", "idle"} : Goto(label)) \/ GiveUp
    BY <1>7 DEF SetData, Fails, Labels
  <2> QED
    BY <1>b, <2>1, <2>2, <2>3, ControlTypes DEF TypeOK
<1>8. CASE Command
  <2>1. call # None /\ clean' \in BOOLEAN /\ UNCHANGED latches
    BY <1>8 DEF Command, TypeOK, Works, Fails
  <2>2. mem' \in [Cells -> Bytes]
    BY <1>8 DEF Command, Stored, TypeOK
  <2>3. (\E label \in Labels \ {"off", "idle"} : Goto(label)) \/ GiveUp
    BY <1>8 DEF Command, Fails, Labels, Waits
  <2> QED
    BY <1>b, <2>1, <2>2, <2>3, ControlTypes DEF TypeOK
<1>9. CASE Fetch
  <2> DEFINE stored == mem[high * Page + low]
  <2>1. PICK b \in {stored, AllOnes} :
          /\ clean' = (clean /\ b = stored)
          /\ \/ Missing(b) /\ GiveUp
             \/ /\ ~Missing(b) /\ i + 1 < RecordSize
                /\ pc' = "rlow2" /\ i' = i + 1 /\ buffer' = [buffer EXCEPT ![i] = b] /\ UNCHANGED <<call, result>>
             \/ /\ ~Missing(b) /\ i + 1 = RecordSize
                /\ IF Saving THEN Overwrite ELSE Return(Outcome("ok", [buffer EXCEPT ![i] = b]))
    BY <1>9 DEF Fetch
  <2>2. pc = "rdata" /\ call # None /\ UNCHANGED <<mem, latches>>
    BY <1>9 DEF Fetch, TypeOK
  <2>3. b \in Bytes
    BY <2>2, LatchedByte, StorageAssumption DEF TypeOK
  <2> DEFINE got == [buffer EXCEPT ![i] = b]
  <2>4. got \in Record
    BY <2>3 DEF TypeOK, Record
  <2>5. Outcome("ok", got) \in [status : {"none", "ok", "failed"}, record : Record]
    BY <2>4 DEF Outcome
  <2>6. clean' \in BOOLEAN
    BY <2>1
  <2>7. \/ pc' = "rlow2" /\ i + 1 < RecordSize /\ i' = i + 1 /\ buffer' = got /\ UNCHANGED <<call, result>>
        \/ Return(Outcome("ok", got))
        \/ Overwrite
        \/ GiveUp
    BY <2>1
  <2> HIDE DEF got
  <2>8. CASE pc' = "rlow2" /\ i + 1 < RecordSize /\ i' = i + 1 /\ buffer' = got /\ UNCHANGED <<call, result>>
    BY <2>2, <2>4, <2>6, <2>8, StorageAssumption DEF TypeOK, Labels, SetsLow
  <2> QED
    BY <1>b, <2>2, <2>5, <2>6, <2>7, <2>8, ControlTypes DEF TypeOK
<1>10. CASE UNCHANGED vars
  BY <1>10 DEF vars, locals, TypeOK
<1> QED
  BY <1>1, <1>2, <1>3, <1>4, <1>5, <1>6, <1>7, <1>8, <1>9, <1>10, Empty
  DEF Next, storage_read_record, storage_save_record

\* A call that ends leaves nothing to rely on.
LEMMA LatchedAtEnd == ASSUME NEW outcome, Return(outcome) PROVE Latched'
  BY DEF Return, Latched

\* Nor does one that goes on to the write.
LEMMA LatchedAtWrite == Saving /\ Overwrite => Latched'
  BY DEF Overwrite, Saving, Latched

\* Nor does a failed access.
LEMMA LatchedAfterFailure == GiveUp => Latched'
<1>1. Return(Outcome("failed", NoRecord)) => Latched'
  BY LatchedAtEnd
<1> QED
  BY <1>1, LatchedAtWrite DEF GiveUp

\* Every step keeps the latches as the call needs them.
LEMMA LatchedStep == IInv /\ [Next]_vars => Latched'
<1> SUFFICES ASSUME IInv, [Next]_vars PROVE Latched'
  OBVIOUS
<1> USE DEF latches
<1>1. CASE Start
  BY <1>1 DEF Start, IInv, TypeOK, Latched, locals
<1>2. CASE Stop
  BY <1>2 DEF Stop, Latched
<1>3. ASSUME NEW kind \in {"save", "read"}, NEW id \in 0..MaxRecords, NEW value \in Record,
             Begin(kind, id, value)
      PROVE  Latched'
  <2>1. i = 0 /\ i' = 0
    BY <1>3 DEF Begin, IInv, TypeOK, Latched
  <2>2. pc' \in {"idle", "rwait"}
    BY <1>3 DEF Begin
  <2> QED
    BY <2>1, <2>2 DEF Latched
<1>4. CASE Wait
  <2>1. CASE Works /\ pc # "wbusy" /\ Goto(After[pc])
    BY <1>4, <2>1 DEF Wait, Waits, Goto, After, IInv, TypeOK, Latched, locals
  <2>2. CASE pc = "wbusy" /\ pc' = "wlow" /\ UNCHANGED <<call, buffer, result>>
    BY <2>2 DEF IInv, TypeOK, Latched
  <2>3. Return(Outcome("ok", NoRecord)) => Latched'
    BY LatchedAtEnd
  <2> QED
    BY <1>4, <2>1, <2>2, <2>3, LatchedAfterFailure DEF Wait, Fails
<1>5. CASE SetLow
  <2>1. CASE Fails
    BY <2>1, LatchedAfterFailure DEF Fails
  <2>2. CASE Goto(After[pc]) /\ low' = LowByte
    <3>1. LowByte' = LowByte /\ UNCHANGED <<mem, high, data, call, i, buffer>>
      BY <1>5, <2>2 DEF SetLow, Goto, locals, LowByte, Address
    <3>2. \/ pc = "rlow" /\ pc' = "rhigh"
          \/ pc = "rlow2" /\ pc' = "rhigh2"
          \/ pc = "wlow" /\ pc' = "whigh"
      BY <1>5, <2>2 DEF SetLow, SetsLow, Goto, After
    <3> QED
      BY <2>2, <3>1, <3>2 DEF IInv, TypeOK, Latched, RecordOf
  <2> QED
    BY <1>5, <2>1, <2>2 DEF SetLow
<1>6. CASE SetHigh
  <2>1. CASE Fails
    BY <2>1, LatchedAfterFailure DEF Fails
  <2>2. CASE Goto(After[pc]) /\ high' = HighByte
    <3>1. /\ HighByte' = HighByte /\ LowByte' = LowByte
          /\ UNCHANGED <<mem, low, data, call, i, buffer>>
      BY <1>6, <2>2 DEF SetHigh, Goto, locals, LowByte, HighByte, Address
    <3>2. \/ pc = "rhigh" /\ pc' = "rcmd"
          \/ pc = "rhigh2" /\ pc' = "rdata"
          \/ pc = "whigh" /\ pc' = "wdata"
      BY <1>6, <2>2 DEF SetHigh, SetsHigh, Goto, After
    <3> QED
      BY <2>2, <3>1, <3>2 DEF IInv, TypeOK, Latched, RecordOf
  <2> QED
    BY <1>6, <2>1, <2>2 DEF SetHigh
<1>7. CASE SetData
  <2>1. CASE Fails
    BY <2>1, LatchedAfterFailure DEF Fails
  <2>2. CASE Goto("wcmd") /\ data' = call.value[i]
    <3>1. /\ HighByte' = HighByte /\ LowByte' = LowByte
          /\ UNCHANGED <<mem, low, high, call, i, buffer>>
      BY <1>7, <2>2 DEF SetData, Goto, locals, LowByte, HighByte, Address
    <3> QED
      BY <1>7, <2>2, <3>1 DEF SetData, Goto, IInv, TypeOK, Latched
  <2> QED
    BY <1>7, <2>1, <2>2 DEF SetData
<1>8. CASE Command
  <2>1. CASE Fails
    BY <2>1, LatchedAfterFailure DEF Fails
  <2>2. CASE pc = "rcmd" /\ Goto("rbusy")
    BY <2>2 DEF Goto, locals, IInv, TypeOK, Latched
  <2>3. CASE pc = "wcmd" /\ Goto("wbusy")
    BY <2>3 DEF Goto, locals, IInv, TypeOK, Latched
  <2> QED
    BY <1>8, <2>1, <2>2, <2>3 DEF Command
<1>9. CASE Fetch
  <2> DEFINE stored == mem[high * Page + low]
  <2>1. PICK b \in {stored, AllOnes} :
          \/ Missing(b) /\ GiveUp
          \/ /\ ~Missing(b) /\ i + 1 < RecordSize
             /\ pc' = "rlow2" /\ i' = i + 1 /\ buffer' = [buffer EXCEPT ![i] = b] /\ UNCHANGED <<call, result>>
          \/ /\ ~Missing(b) /\ i + 1 = RecordSize
             /\ IF Saving THEN Overwrite ELSE Return(Outcome("ok", [buffer EXCEPT ![i] = b]))
    BY <1>9 DEF Fetch
  <2>2. CASE /\ ~Missing(b) /\ i + 1 < RecordSize
             /\ pc' = "rlow2" /\ i' = i + 1 /\ buffer' = [buffer EXCEPT ![i] = b] /\ UNCHANGED <<call, result>>
    <3>1. pc = "rdata" /\ UNCHANGED mem
      BY <1>9 DEF Fetch
    <3>2. b = RecordOf(call.id)[i] /\ i \in 0..RecordSize - 1 /\ buffer \in Record
      BY <2>2, <3>1, LatchedByte DEF IInv, TypeOK, Missing, RecordOf, AddressOf
    <3>3. \A k \in 0..RecordSize - 1 : k < i => buffer[k] = RecordOf(call.id)[k]
      BY <3>1 DEF IInv, Latched
    <3>4. RecordOf(call.id)' = RecordOf(call.id)
      BY <2>2, <3>1 DEF RecordOf
    <3>5. \A k \in 0..RecordSize - 1 : k < i' => buffer'[k] = RecordOf(call.id)'[k]
      BY <2>2, <3>2, <3>3, <3>4 DEF Record
    <3>6. call # None
      BY <3>1 DEF IInv, TypeOK
    <3> QED
      BY <2>2, <3>5, <3>6 DEF Latched
  <2>3. Return(Outcome("ok", [buffer EXCEPT ![i] = b])) => Latched'
    BY LatchedAtEnd
  <2> QED
    BY <2>1, <2>2, <2>3, LatchedAtWrite, LatchedAfterFailure
<1>10. CASE UNCHANGED vars
  <2>1. LowByte' = LowByte /\ HighByte' = HighByte /\ RecordOf(call.id)' = RecordOf(call.id)
    BY <1>10 DEF vars, locals, LowByte, HighByte, Address, RecordOf
  <2> QED
    BY <1>10, <2>1 DEF vars, locals, IInv, Latched
<1> QED
  BY <1>1, <1>2, <1>3, <1>4, <1>5, <1>6, <1>7, <1>8, <1>9, <1>10, Empty
  DEF Next, storage_read_record, storage_save_record
\* The types and the latches are right in every state of the driver: initially
\* there is no call, and every step keeps them.
LEMMA Inductive == Spec => []IInv
<1>1. Init => IInv
  BY TypeInit DEF Init, IInv, Latched
<1>2. IInv /\ [Next]_vars => IInv'
  BY TypeStep, LatchedStep DEF IInv
<1> QED
  BY <1>1, <1>2, PTL DEF Spec

\* The storage driver is well typed, for every size of the storage.
THEOREM TypeCorrect == Spec => []TypeOK
<1>1. IInv => TypeOK
  BY DEF IInv
<1> QED
  BY <1>1, Inductive, PTL

\* Whenever storage_read takes a byte or storage_write gives its command, the
\* latches hold the address, and the byte, that the call is at.
THEOREM RightByteHolds == Spec => []RightByte
<1>1. IInv => RightByte
  <2> SUFFICES ASSUME IInv PROVE RightByte
    OBVIOUS
  <2>1. pc \in {"rdata", "wcmd"} => high * Page + low = AddressOf(call.id, i)
    BY LatchedByte
  <2>2. pc = "wcmd" => call.kind = "save" /\ data = call.value[i]
    BY DEF IInv, Latched
  <2> QED
    BY <2>1, <2>2 DEF RightByte, AddressOf
<1> QED
  BY <1>1, Inductive, PTL

--------------------------------------------------------------------------------
(* A failure is never invented.                                            *)

\* Where a call that ends without a failed access ends.
LEMMA FailureStep ==
  ASSUME IInv, [Next]_vars
  PROVE  call # None /\ pc' = "idle" /\ clean' /\ result'.status = "failed" =>
           call.kind = "read" /\ \E k \in DOMAIN NoRecord : RecordOf(call.id)[k] = AllOnes
<1> SUFFICES ASSUME call # None, pc' = "idle", clean', result'.status = "failed"
             PROVE  call.kind = "read" /\ \E k \in DOMAIN NoRecord : RecordOf(call.id)[k] = AllOnes
  OBVIOUS
<1>1. ASSUME Fails PROVE FALSE
  BY <1>1 DEF Fails
<1>2. ASSUME NEW record, Return(Outcome("ok", record)) PROVE FALSE
  BY <1>2 DEF Return, Outcome
<1>3. ASSUME NEW label \in Labels \ {"off", "idle"}, Goto(label) PROVE FALSE
  BY <1>3 DEF Goto
<1>4. pc # "off" /\ pc # "idle" /\ pc \in Labels
  BY DEF IInv, TypeOK
<1>5. ASSUME NEW label \in Waits \cup SetsLow \cup SetsHigh, label # "wbusy"
      PROVE  After[label] \in Labels \ {"off", "idle"}
  BY <1>5 DEF After, Labels, Waits, SetsLow, SetsHigh
<1>6. ~Wait
  BY <1>1, <1>2, <1>3, <1>5 DEF Wait
<1>7. ~SetLow /\ ~SetHigh
  <2>1. After[pc] # "idle" \/ pc \notin SetsLow \cup SetsHigh
    BY <1>5 DEF SetsLow, SetsHigh, Waits
  <2> QED
    BY <1>1, <2>1 DEF SetLow, SetHigh, Goto
<1>8. ~SetData /\ ~Command
  BY <1>1 DEF SetData, Command, Goto
<1>9. ~Start /\ ~Stop /\ vars' # vars
  BY <1>4 DEF Start, Stop, vars
<1>10. ASSUME NEW kind \in {"save", "read"}, NEW id \in 0..MaxRecords, NEW value \in Record,
              Begin(kind, id, value)
       PROVE  FALSE
  BY <1>4, <1>10 DEF Begin
<1>11. Fetch
  BY <1>6, <1>7, <1>8, <1>9, <1>10, Empty DEF Next, storage_read_record, storage_save_record
<1>12. PICK b \in {mem[high * Page + low], AllOnes} :
         /\ clean' = (clean /\ b = mem[high * Page + low])
         /\ \/ Missing(b) /\ GiveUp
            \/ pc' = "rlow2"
            \/ IF Saving THEN Overwrite ELSE Return(Outcome("ok", [buffer EXCEPT ![i] = b]))
  BY <1>11 DEF Fetch
<1>13. Missing(b) /\ GiveUp /\ pc = "rdata"
  BY <1>2, <1>11, <1>12 DEF Overwrite, Fetch
<1>14. mem[high * Page + low] = AllOnes /\ ~Saving
  BY <1>12, <1>13 DEF Missing, GiveUp, Overwrite, Reading
<1>15. call.kind = "read" /\ i \in 0..RecordSize - 1
  BY <1>14 DEF Saving, IInv, TypeOK
<1>16. RecordOf(call.id)[i] = AllOnes
  BY <1>13, <1>14, <1>15, LatchedByte DEF RecordOf, AddressOf
<1> QED
  BY <1>15, <1>16 DEF NoRecord

\* A call of which every register access worked fails only when it reads a
\* record that holds a byte 0xFF.
THEOREM OnlyFor255Fails == Spec => FailsOnlyFor255
<1>1. IInv /\ [Next]_vars =>
        [call # None /\ pc' = "idle" /\ clean' /\ result'.status = "failed" =>
           call.kind = "read" /\ \E k \in DOMAIN NoRecord : RecordOf(call.id)[k] = AllOnes]_vars
  BY FailureStep
<1> QED
  BY <1>1, Inductive, PTL DEF Spec, FailsOnlyFor255
--------------------------------------------------------------------------------
(* The storage driver implements RecordStore.                              *)

\* The records, and how many bytes of a save are in place.
Store   == [id \in Ids |-> RecordOf(id)]
Written == IF call = None \/ Reading THEN 0 ELSE IF pc = "wbusy" THEN i + 1 ELSE i

\* Initially the storage holds records.
LEMMA RecordsInit == Init => Records!Init
<1> SUFFICES ASSUME Init PROVE Records!Init
  OBVIOUS
<1>1. TypeOK
  BY TypeInit
<1>2. Store \in [Ids -> Record]
  <2>1. ASSUME NEW id \in Ids, NEW k \in 0..RecordSize - 1 PROVE mem[AddressOf(id, k)] \in Bytes
    BY <1>1, <2>1, AddressInside DEF TypeOK
  <2> QED
    BY <2>1 DEF Store, RecordOf, Record, AddressOf
<1>3. result \in [status : {"none"}, record : Record]
  BY Empty DEF Init, Outcome
<1> QED
  BY <1>2, <1>3 DEF Init, Records!Init, Records!Record, Record, Store

\* As long as no byte is written, the records stay what they are.
LEMMA SameStore == UNCHANGED mem => Store' = Store
  BY DEF Store, RecordOf

\* The byte written is the next one of the record saved, and no other record
\* changes.
LEMMA StoredByte ==
  ASSUME IInv, pc = "wcmd", mem' = Stored
  PROVE  Store' = [Store EXCEPT ![call.id][i] = call.value[i]]
<1>1. call # None /\ call.id \in Ids /\ i \in 0..RecordSize - 1 /\ mem \in [Cells -> Bytes]
  BY DEF IInv, TypeOK
<1>2. mem' = [mem EXCEPT ![AddressOf(call.id, i)] = call.value[i]]
  BY LatchedByte DEF Stored, IInv, Latched
<1>3. ASSUME NEW id \in Ids, NEW k \in 0..RecordSize - 1
      PROVE  mem'[AddressOf(id, k)] =
               IF id = call.id /\ k = i THEN call.value[i] ELSE mem[AddressOf(id, k)]
  <2>1. AddressOf(id, k) \in Cells
    BY AddressInside
  <2>2. AddressOf(id, k) = AddressOf(call.id, i) => id = call.id /\ k = i
    BY <1>1, AddressInjective
  <2> QED
    BY <1>1, <1>2, <2>1, <2>2
<1>4. ASSUME NEW id \in Ids
      PROVE  RecordOf(id)' = IF id = call.id THEN [RecordOf(id) EXCEPT ![i] = call.value[i]] ELSE RecordOf(id)
  BY <1>1, <1>3 DEF RecordOf, AddressOf
<1>5. Store' = [id \in Ids |-> IF id = call.id THEN [RecordOf(id) EXCEPT ![i] = call.value[i]] ELSE RecordOf(id)]
  BY <1>4 DEF Store
<1> QED
  BY <1>1, <1>5 DEF Store

\* A call that fails is a call that fails.
LEMMA FailedRecords ==
  ASSUME IInv, call # None, Return(Outcome("failed", NoRecord)),
         \/ UNCHANGED mem
         \/ pc = "wcmd" /\ mem' = Stored
  PROVE  Records!Failed
<1>1. Records!End /\ result'.status = "failed"
  BY DEF Records!End, Return, Outcome
<1>2. CASE UNCHANGED mem
  BY <1>1, <1>2, SameStore DEF Records!Failed, Store
<1>3. CASE pc = "wcmd" /\ mem' = Stored
  <2>1. call.kind = "save" /\ Written = i /\ i < RecordSize /\ i \in Nat
    BY <1>3, StorageAssumption DEF IInv, TypeOK, Latched, Written, Reading
  <2>2. Records!Put
    BY <1>3, <2>1, StoredByte DEF Records!Put, Store, Written
  <2> QED
    BY <1>1, <2>1, <2>2 DEF Records!Failed
<1> QED
  BY <1>2, <1>3
\* Moving on inside a call, with the storage left alone, changes no record.
LEMMA SameRecords ==
  ASSUME UNCHANGED <<mem, call, result>>, Written' = Written
  PROVE  UNCHANGED Records!storage
  BY SameStore DEF Records!storage, Store, Written

\* A failed access is the failure of the call, or nothing at all when a save
\* goes on to its write.
LEMMA GivenUp ==
  ASSUME IInv, call # None, GiveUp,
         \/ UNCHANGED mem
         \/ pc = "wcmd" /\ mem' = Stored
  PROVE  Records!Failed \/ UNCHANGED Records!storage
<1>1. CASE Saving /\ Reading
  <2>1. Overwrite /\ UNCHANGED mem
    BY <1>1 DEF GiveUp, Reading
  <2>2. Written = 0 /\ Written' = 0
    BY <1>1, <2>1 DEF Overwrite, Written, Reading
  <2> QED
    BY <2>1, <2>2, SameRecords DEF Overwrite
<1>2. CASE ~(Saving /\ Reading)
  BY <1>2, FailedRecords DEF GiveUp
<1> QED
  BY <1>1, <1>2

\* Every step of the driver is a step of the records, or changes nothing in them.
LEMMA RecordsStep ==
  ASSUME IInv, [Next]_vars
  PROVE  [Records!Next]_(Records!storage)
<1> USE DEF latches
<1>a. call # None <=> pc \notin {"off", "idle"}
  BY DEF IInv, TypeOK
<1>b. /\ call # None /\ Fails
      /\ UNCHANGED mem \/ (pc = "wcmd" /\ mem' = Stored)
      => [Records!Next]_(Records!storage)
  BY GivenUp DEF Fails, Records!Next
<1>1. CASE Start
  <2>1. Written = 0 /\ Written' = 0
    BY <1>1, <1>a DEF Start, locals, Written
  <2> QED
    BY <1>1, <2>1, SameRecords DEF Start, locals
<1>2. CASE Stop
  <2>1. Records!Stop
    BY <1>2, SameStore DEF Stop, Records!Stop, Store, Outcome
  <2> QED
    BY <2>1 DEF Records!Next
<1>3. ASSUME NEW kind \in {"save", "read"}, NEW id \in 0..MaxRecords, NEW value \in Record,
             Begin(kind, id, value)
      PROVE  [Records!Next]_(Records!storage)
  <2>1. call = None
    BY <1>3, <1>a DEF Begin
  <2>2. CASE id < MaxRecords
    <3>1. id \in Ids
      BY <2>2, StorageAssumption DEF Ids
    <3>2. call' \in Records!Call
      BY <1>3, <2>2, <3>1 DEF Begin, Records!Call, Records!Record, Record
    <3>3. UNCHANGED mem /\ result'.status = "none" /\ Written = 0 /\ Written' = 0
      BY <1>3, <2>1, <2>2 DEF Begin, Outcome, Written, Reading
    <3>4. Records!Begin
      BY <2>1, <3>2, <3>3, SameStore DEF Records!Begin, Store, Written
    <3> QED
      BY <3>4 DEF Records!Next
  <2>3. CASE ~(id < MaxRecords)
    <3>1. UNCHANGED <<mem, call>> /\ result'.status = "failed" /\ Written = 0 /\ Written' = 0
      BY <1>3, <2>1, <2>3 DEF Begin, Outcome, Written
    <3>2. Records!Refused
      BY <2>1, <3>1, SameStore DEF Records!Refused, Store, Written
    <3> QED
      BY <3>2 DEF Records!Next
  <2> QED
    BY <2>2, <2>3
<1>4. CASE Wait
  <2>1. call # None /\ UNCHANGED mem
    BY <1>4, <1>a DEF Wait, Waits
  <2>2. CASE pc # "wbusy" /\ Goto(After[pc])
    <3>1. Written' = Written
      BY <1>4, <2>1, <2>2 DEF Wait, Waits, Goto, locals, After, Written, Reading
    <3> QED
      BY <2>1, <2>2, <3>1, SameRecords DEF Goto, locals
  <2>3. CASE pc = "wbusy" /\ pc' = "wlow" /\ i' = i + 1 /\ UNCHANGED <<call, result>>
    BY <2>1, <2>3, SameRecords DEF Written, Reading
  <2>4. CASE pc = "wbusy" /\ i + 1 = RecordSize /\ Return(Outcome("ok", NoRecord))
    <3>1. call.kind = "save" /\ Written = RecordSize
      BY <2>1, <2>4 DEF IInv, Latched, Written, Reading
    <3>2. call' = None /\ Written' = 0 /\ result'.status = "ok"
      BY <2>4 DEF Return, Outcome, Written
    <3>3. Records!Saved
      BY <2>1, <3>1, <3>2, SameStore DEF Records!Saved, Records!End, Store, Written
    <3> QED
      BY <3>3 DEF Records!Next
  <2> QED
    BY <1>4, <1>b, <2>1, <2>2, <2>3, <2>4 DEF Wait
<1>5. CASE SetLow
  <2>1. call # None /\ UNCHANGED mem
    BY <1>5, <1>a DEF SetLow, SetsLow
  <2>2. CASE Goto(After[pc])
    <3>1. Written' = Written
      BY <1>5, <2>1, <2>2 DEF SetLow, SetsLow, Goto, locals, After, Written, Reading
    <3> QED
      BY <2>1, <2>2, <3>1, SameRecords DEF Goto, locals
  <2> QED
    BY <1>5, <1>b, <2>1, <2>2 DEF SetLow
<1>6. CASE SetHigh
  <2>1. call # None /\ UNCHANGED mem
    BY <1>6, <1>a DEF SetHigh, SetsHigh
  <2>2. CASE Goto(After[pc])
    <3>1. Written' = Written
      BY <1>6, <2>1, <2>2 DEF SetHigh, SetsHigh, Goto, locals, After, Written, Reading
    <3> QED
      BY <2>1, <2>2, <3>1, SameRecords DEF Goto, locals
  <2> QED
    BY <1>6, <1>b, <2>1, <2>2 DEF SetHigh
<1>7. CASE SetData
  <2>1. call # None /\ pc = "wdata" /\ UNCHANGED mem
    BY <1>7, <1>a DEF SetData
  <2>2. CASE Goto("wcmd")
    <3>1. Written' = Written
      BY <2>1, <2>2 DEF Goto, locals, Written, Reading
    <3> QED
      BY <2>1, <2>2, <3>1, SameRecords DEF Goto, locals
  <2> QED
    BY <1>7, <1>b, <2>1, <2>2 DEF SetData
<1>8. CASE Command
  <2>1. call # None
    BY <1>8, <1>a DEF Command
  <2>2. CASE pc = "rcmd" /\ Goto("rbusy") /\ UNCHANGED mem
    <3>1. Written' = Written
      BY <2>2 DEF Goto, locals, Written, Reading
    <3> QED
      BY <2>2, <3>1, SameRecords DEF Goto, locals
  <2>3. CASE pc = "wcmd" /\ Goto("wbusy") /\ mem' = Stored
    <3>1. call.kind = "save" /\ Written = i /\ Written' = i + 1 /\ UNCHANGED <<call, result>>
      BY <2>1, <2>3 DEF Goto, locals, Written, Reading, IInv, Latched
    <3>2. i < RecordSize
      BY StorageAssumption DEF IInv, TypeOK
    <3>3. Records!PutByte
      BY <2>1, <2>3, <3>1, <3>2, StoredByte DEF Records!PutByte, Records!Put, Store, Written
    <3> QED
      BY <3>3 DEF Records!Next
  <2> QED
    BY <1>8, <1>b, <2>1, <2>2, <2>3 DEF Command
<1>9. CASE Fetch
  <2> DEFINE stored == mem[high * Page + low]
  <2>1. PICK b \in {stored, AllOnes} :
          \/ Missing(b) /\ GiveUp
          \/ pc' = "rlow2" /\ UNCHANGED <<call, result>>
          \/ /\ ~Missing(b) /\ i + 1 = RecordSize
             /\ IF Saving THEN Overwrite ELSE Return(Outcome("ok", [buffer EXCEPT ![i] = b]))
    BY <1>9 DEF Fetch
  <2>2. pc = "rdata" /\ call # None /\ UNCHANGED mem /\ Written = 0
    BY <1>9, <1>a DEF Fetch, Written, Reading
  <2>3. CASE pc' = "rlow2" /\ UNCHANGED <<call, result>>
    <3>1. Written' = 0
      BY <2>3 DEF Written, Reading
    <3> QED
      BY <2>2, <2>3, <3>1, SameRecords
  <2>4. CASE Overwrite
    <3>1. Written' = 0
      BY <2>4 DEF Overwrite, Written, Reading
    <3> QED
      BY <2>2, <2>4, <3>1, SameRecords DEF Overwrite
  <2>5. CASE ~Missing(b) /\ i + 1 = RecordSize /\ ~Saving /\ Return(Outcome("ok", [buffer EXCEPT ![i] = b]))
    <3>1. call.kind = "read" /\ call.id \in Ids /\ i \in 0..RecordSize - 1 /\ buffer \in Record
      BY <2>2, <2>5 DEF Saving, IInv, TypeOK
    <3>2. b = RecordOf(call.id)[i]
      BY <2>2, <2>5, <3>1, LatchedByte DEF Missing, RecordOf, AddressOf
    <3>3. \A k \in 0..RecordSize - 1 : k < i => buffer[k] = RecordOf(call.id)[k]
      BY <2>2 DEF IInv, Latched
    <3>4. \A k \in 0..RecordSize - 1 : k < i \/ k = i
      BY <2>5, <3>1, StorageAssumption
    <3>5. \A k \in 0..RecordSize - 1 : [buffer EXCEPT ![i] = b][k] = RecordOf(call.id)[k]
      BY <3>1, <3>2, <3>3, <3>4 DEF Record
    <3>6. [buffer EXCEPT ![i] = b] = RecordOf(call.id)
      BY <3>1, <3>5 DEF Record, RecordOf
    <3>7. Store[call.id] = RecordOf(call.id)
      BY <3>1 DEF Store
    <3>8. result' = Outcome("ok", Store[call.id]) /\ call' = None /\ Written' = 0
      BY <2>5, <3>6, <3>7 DEF Return, Written
    <3>9. Records!Found
      BY <2>2, <3>1, <3>8, SameStore DEF Records!Found, Records!End, Records!Outcome, Outcome, Store, Written
    <3> QED
      BY <3>9 DEF Records!Next
  <2> QED
    BY <2>1, <2>2, <2>3, <2>4, <2>5, GivenUp DEF Records!Next
<1>10. CASE UNCHANGED vars
  <2>1. Written' = Written
    BY <1>10 DEF vars, locals, Written, Reading
  <2> QED
    BY <1>10, <2>1, SameRecords DEF vars, locals
<1> QED
  BY <1>1, <1>2, <1>3, <1>4, <1>5, <1>6, <1>7, <1>8, <1>9, <1>10, Empty
  DEF Next, storage_read_record, storage_save_record

\* Saving and reading through registers that may fail, with the program ending
\* anywhere in between, is saving and reading records: RecordStore is what the
\* stopwatch may rely on, for every size of the storage, its pages and records.
THEOREM RecordsImplemented == Spec => ImplementsRecords
<1>1. IInv /\ [Next]_vars => [Records!Next]_(Records!storage)
  BY RecordsStep
<1> QED
  BY <1>1, RecordsInit, Inductive, PTL DEF Spec, ImplementsRecords, Records!Spec
================================================================================
