--------------------------- MODULE MultiHalProofs ---------------------------
(***************************************************************************)
(* Theorems about the sensors' multi-HAL, for every number of sub-HALs and *)
(* every capacity of the queues.                                           *)
(***************************************************************************)
EXTENDS MultiHal, SequenceTheorems, TLAPS

(* The queue q lies in its array, and the region its writer holds begins     *)
(* behind the last event and ends before the first one and before the end.   *)
QueueInv(q) ==
  /\ mStart[q] \in Slots /\ mSize[q] \in 0 .. Capacity
  /\ first[q] \in Slots /\ len[q] \in 0 .. Capacity /\ count[q] \in 0 .. len[q]
  /\ writer[q] \in {"poll", "mark"} =>
       /\ first[q] = Slot(mStart[q], mSize[q])
       /\ first[q] + len[q] <= Capacity
       /\ mSize[q] + len[q] <= Capacity
       /\ \A i \in 0 .. count[q] - 1 : mData[q][first[q] + i] \in Events
  /\ writer[q] = "mark" => count[q] # 0
  /\ writer[q] = "blocked" => mSize[q] = Capacity
  /\ q >= Len(opened) => writer[q] = "none" /\ mSize[q] = 0

(* How long ago poll has looked into queue q of n, if next is to be the next  *)
(* one: 1 for the last one.                                                  *)
Ago(q, next, n) == IF q < next THEN next - q ELSE next - q + n

(* What poll knows: the queues it has found empty since it last found an     *)
(* event still are; it sleeps with the flag set, and on empty queues only.   *)
ScanInv ==
  /\ reader # "idle" => opening = Modules
  /\ waiting_for_data <=> reader \in {"wait", "woken"}
  /\ empties \in 0 .. Len(opened)
  /\ reader = "scan" => \A q \in Queues :
       q < Len(opened) /\ Ago(q, nextReadIndex, Len(opened)) <= empties => mSize[q] = 0
  /\ reader = "wait" => \A q \in Queues : mSize[q] = 0

(* The inductive invariant. *)
IInv == TypeOK /\ ScanInv /\ \A q \in Queues : QueueInv(q)

-----------------------------------------------------------------------------
(* Slot stays in the array, and wraps once. *)
LEMMA SlotRange ==
  ASSUME NEW s \in Slots, NEW k \in 0 .. Capacity
  PROVE  /\ Slot(s, k) \in Slots
         /\ s + k < Capacity => Slot(s, k) = s + k
         /\ s + k >= Capacity => Slot(s, k) = s + k - Capacity
<1>1. s \in Int /\ 0 <= s /\ s < Capacity /\ k \in Int /\ 0 <= k /\ k <= Capacity /\ Capacity \in Int
  BY CapacityAssumption DEF Slots
<1>2. CASE s + k < Capacity
  <2>1. (s + k) % Capacity = s + k
    BY <1>1, <1>2, Z3
  <2> QED  BY <1>1, <1>2, <2>1 DEF Slot, Slots
<1>3. CASE s + k >= Capacity
  <2>1. (s + k) % Capacity = s + k - Capacity
    BY <1>1, <1>3, Z3
  <2> QED  BY <1>1, <1>3, <2>1 DEF Slot, Slots
<1> QED  BY <1>1, <1>2, <1>3

(* getWritableRegion: the region lies in the array and fits the free space. *)
LEMMA RegionFits ==
  ASSUME NEW s \in Slots, NEW n \in 0 .. Capacity - 1
  PROVE  /\ RegionLength(s, n) \in 1 .. Capacity
         /\ Slot(s, n) + RegionLength(s, n) <= Capacity
         /\ n + RegionLength(s, n) <= Capacity
<1>1. s \in Int /\ 0 <= s /\ s < Capacity /\ n \in Int /\ 0 <= n /\ n < Capacity /\ Capacity \in Int
  BY CapacityAssumption DEF Slots
<1>2. /\ s + n < Capacity => Slot(s, n) = s + n
      /\ s + n >= Capacity => Slot(s, n) = s + n - Capacity
  BY <1>1, SlotRange
<1> QED  BY <1>1, <1>2 DEF RegionLength, LastWritable

(* dequeue moves the start but not the slot behind the last event. *)
LEMMA EndStays ==
  ASSUME NEW s \in Slots, NEW n \in 1 .. Capacity
  PROVE  /\ Slot(s, 1) \in Slots
         /\ Slot(Slot(s, 1), n - 1) = Slot(s, n)
<1>1. s \in Int /\ 0 <= s /\ s < Capacity /\ n \in Int /\ 1 <= n /\ n <= Capacity /\ Capacity \in Int
  BY CapacityAssumption DEF Slots
<1>2. /\ Slot(s, 1) \in Slots
      /\ s + 1 < Capacity => Slot(s, 1) = s + 1
      /\ s + 1 >= Capacity => Slot(s, 1) = s + 1 - Capacity
  BY <1>1, SlotRange
<1>3. \A t \in Slots :
        /\ t + (n - 1) < Capacity => Slot(t, n - 1) = t + (n - 1)
        /\ t + (n - 1) >= Capacity => Slot(t, n - 1) = t + (n - 1) - Capacity
  <2>1. n - 1 \in 0 .. Capacity
    BY <1>1
  <2> QED  BY <2>1, SlotRange
<1>4. /\ s + n < Capacity => Slot(s, n) = s + n
      /\ s + n >= Capacity => Slot(s, n) = s + n - Capacity
  BY <1>1, SlotRange
<1> QED  BY <1>1, <1>2, <1>3, <1>4 DEF Slots

(* A region behind the last event that fits the free space holds no event. *)
LEMMA RegionIsBehind ==
  ASSUME NEW s \in Slots, NEW n \in 0 .. Capacity, NEW l \in 0 .. Capacity,
         n + l <= Capacity,
         NEW k \in 0 .. n - 1
  PROVE  Slot(s, k) \notin Slot(s, n) .. Slot(s, n) + l - 1
<1>1. s \in Int /\ 0 <= s /\ s < Capacity /\ n \in Int /\ n <= Capacity
      /\ l \in Int /\ 0 <= l /\ k \in Int /\ 0 <= k /\ k < n /\ Capacity \in Int
  BY CapacityAssumption DEF Slots
<1>2. /\ s + n < Capacity => Slot(s, n) = s + n
      /\ s + n >= Capacity => Slot(s, n) = s + n - Capacity
  BY <1>1, SlotRange
<1>3. /\ s + k < Capacity => Slot(s, k) = s + k
      /\ s + k >= Capacity => Slot(s, k) = s + k - Capacity
  BY <1>1, SlotRange
<1> QED  BY <1>1, <1>2, <1>3

(* A place the reader has passed lies at least one read back. *)
LEMMA AgoIsPositive ==
  ASSUME NEW q \in Queues, NEW next \in Nat, NEW n \in Nat, q < n
  PROVE  Ago(q, next, n) \in Int /\ Ago(q, next, n) >= 1
<1>1. q \in Int
  BY MultiHalAssumption DEF Queues
<1> QED  BY <1>1 DEF Ago

-----------------------------------------------------------------------------
(* The initial state. *)
LEMMA InitOK == Init => IInv
<1> SUFFICES ASSUME Init PROVE IInv
  OBVIOUS
<1>1. /\ 0 \in Slots /\ 0 \in 0 .. Capacity /\ Capacity # 0
      /\ Modules \in Nat /\ MaxReads \in Nat /\ Len(SensorList) \in Nat
  BY CapacityAssumption, MultiHalAssumption DEF Slots
<1>2. /\ opened \in Seq(Queues) /\ Len(opened) = 0
      /\ batch \in Seq(ReadEvents) /\ Len(batch) = 0
  BY DEF Init
<1>3. OpenTypeOK
  BY <1>1, <1>2 DEF Init, OpenTypeOK
<1>4. QueueTypeOK
  BY <1>1 DEF Init, QueueTypeOK
<1>5. WriterTypeOK
  BY <1>1 DEF Init, WriterTypeOK
<1>6. ReaderTypeOK
  <2>1. /\ reader \in {"idle", "scan", "wait", "woken"} /\ empties \in 0 .. Modules
        /\ nextReadIndex \in Nat /\ ~(nextReadIndex > 0) /\ Len(batch) <= MaxReads
    BY <1>1, <1>2 DEF Init
  <2>2. waiting_for_data \in BOOLEAN
    BY DEF Init
  <2> QED  BY <1>2, <2>1, <2>2 DEF ReaderTypeOK
<1>7. ScanInv
  BY <1>2 DEF Init, ScanInv
<1>8. \A q \in Queues : QueueInv(q)
  BY <1>1 DEF Init, QueueInv
<1> QED  BY <1>3, <1>4, <1>5, <1>6, <1>7, <1>8 DEF IInv, TypeOK

(* Each action preserves the inductive invariant. *)
LEMMA open_sensorsOK == IInv /\ open_sensors => IInv'
<1> SUFFICES ASSUME IInv, open_sensors PROVE IInv'
  OBVIOUS
<1> USE DEF IInv, TypeOK
<1>1. Modules \in Nat /\ opening \in Nat /\ opening < Modules /\ opening' = opening + 1
      /\ opened \in Seq(Queues) /\ Len(opened) \in Nat /\ Len(opened) <= opening
  BY MultiHalAssumption DEF open_sensors, OpenTypeOK
<1>2. opening \in Queues /\ Len(opened) \in Queues
  BY <1>1 DEF Queues
<1>3. /\ opened' \in Seq(Queues) /\ Len(opened') \in Nat
      /\ Len(opened') = Len(opened) \/ Len(opened') = Len(opened) + 1
  <2>1. CASE opened' = opened
    BY <1>1, <2>1
  <2>2. CASE opened' = Append(opened, opening)
    BY <1>1, <1>2, <2>2
  <2> QED  BY <2>1, <2>2 DEF open_sensors
<1>4. reader = "idle" /\ UNCHANGED <<readerVars, queueVars, first, len, count, assigned>>
  BY <1>1 DEF open_sensors, ScanInv, ReaderTypeOK
<1>5. OpenTypeOK'
  BY <1>1, <1>3, <1>4 DEF OpenTypeOK
<1>6. QueueTypeOK'
  BY <1>4 DEF QueueTypeOK, queueVars
<1>7. WriterTypeOK'
  BY <1>2, <1>4 DEF WriterTypeOK, open_sensors
<1>8. ReaderTypeOK'
  BY <1>1, <1>3, <1>4 DEF ReaderTypeOK, readerVars
<1>9. ScanInv'
  BY <1>1, <1>3, <1>4 DEF ScanInv, readerVars, queueVars
<1>10. ASSUME NEW q \in Queues PROVE QueueInv(q)'
  <2>1. q \in Int
    BY DEF Queues
  <2>2. CASE opened' = opened /\ writer' = writer
    BY <1>4, <2>2 DEF QueueInv, queueVars
  <2>3. CASE opened' = Append(opened, opening) /\ writer' = [writer EXCEPT ![Len(opened)] = "start"]
    <3>1. Len(opened') = Len(opened) + 1
      BY <1>1, <2>3
    <3>2. CASE q = Len(opened)
      BY <1>1, <1>4, <2>3, <3>1, <3>2 DEF QueueInv, queueVars, WriterTypeOK
    <3>3. CASE q # Len(opened)
      BY <1>1, <1>4, <2>1, <2>3, <3>1, <3>3 DEF QueueInv, queueVars, WriterTypeOK
    <3> QED  BY <3>2, <3>3
  <2> QED  BY <2>2, <2>3 DEF open_sensors
<1> QED  BY <1>5, <1>6, <1>7, <1>8, <1>9, <1>10

(* A writer that finds room, or waits for it. *)
LEMMA waitForSpaceOK == ASSUME IInv, NEW q \in Queues, waitForSpace(q) PROVE IInv'
<1> USE DEF IInv, TypeOK, OpenTypeOK, QueueTypeOK, WriterTypeOK, ReaderTypeOK
<1>0. mStart[q] \in Slots /\ mSize[q] \in 0 .. Capacity /\ Capacity \in Nat \ {0}
  BY CapacityAssumption DEF QueueInv
<1>1. UNCHANGED <<openVars, queueVars, readerVars>>
  BY DEF waitForSpace
<1>2. CASE mSize[q] = Capacity
  <2>1. writer' = [writer EXCEPT ![q] = "blocked"] /\ UNCHANGED <<first, len, count>>
    BY <1>2 DEF waitForSpace
  <2>2. TypeOK'
    BY <1>1, <2>1 DEF TypeOK, openVars, queueVars, readerVars
  <2>3. ScanInv'
    BY <1>1 DEF ScanInv, Ago, openVars, queueVars, readerVars
  <2>4. \A p \in Queues : QueueInv(p)'
    BY <1>1, <1>2, <2>1 DEF QueueInv, TypeOK, openVars, queueVars, waitForSpace
  <2> QED  BY <2>2, <2>3, <2>4
<1>3. CASE mSize[q] # Capacity
  <2> DEFINE f == Slot(mStart[q], mSize[q])
             l == RegionLength(mStart[q], mSize[q])
  <2>1. /\ writer' = [writer EXCEPT ![q] = "poll"]
        /\ first' = [first EXCEPT ![q] = f]
        /\ len' = [len EXCEPT ![q] = l]
        /\ count' = [count EXCEPT ![q] = 0]
    BY <1>3 DEF waitForSpace
  <2>2. mSize[q] \in 0 .. Capacity - 1
    BY <1>0, <1>3
  <2>3. f \in Slots /\ l \in 1 .. Capacity /\ f + l <= Capacity /\ mSize[q] + l <= Capacity
    BY <1>0, <2>2, SlotRange, RegionFits
  <2>4. TypeOK'
    <3> HIDE DEF f, l
    <3> QED  BY <1>0, <1>1, <2>1, <2>3 DEF TypeOK, openVars, queueVars, readerVars
  <2>5. ScanInv'
    BY <1>1 DEF ScanInv, Ago, openVars, queueVars, readerVars
  <2>6. ASSUME NEW p \in Queues PROVE QueueInv(p)'
    <3>1. CASE p = q
      <4>1. first'[q] = f /\ len'[q] = l /\ count'[q] = 0 /\ writer'[q] = "poll"
        BY <2>1 DEF TypeOK
      <4>2. q < Len(opened)
        <5>1. writer[q] # "none" /\ QueueInv(q) /\ q \in Int /\ Len(opened) \in Int
          BY MultiHalAssumption DEF waitForSpace, Queues
        <5> QED  BY <5>1 DEF QueueInv
      <4>3. \A i \in 0 .. count'[q] - 1 : mData'[q][first'[q] + i] \in Events
        BY <4>1
      <4>4. mStart'[q] = mStart[q] /\ mSize'[q] = mSize[q] /\ Len(opened') = Len(opened)
        BY <1>1 DEF queueVars, openVars
      <4>5. q \in Int /\ Len(opened) \in Int /\ 0 \in 0 .. l
        BY <2>3, MultiHalAssumption DEF Queues
      <4>6. QueueInv(q)'
        BY <1>0, <2>3, <4>1, <4>2, <4>3, <4>4, <4>5 DEF QueueInv
      <4> QED  BY <3>1, <4>6
    <3>2. CASE p # q
      BY <1>1, <2>1, <3>2 DEF QueueInv, TypeOK, openVars, queueVars
    <3> QED  BY <3>1, <3>2
  <2> QED  BY <2>4, <2>5, <2>6
<1> QED  BY <1>2, <1>3

(* The module fills the next slot of its batch. *)
LEMMA pollWritesOK == ASSUME IInv, NEW q \in Queues, pollWrites(q) PROVE IInv'
<1> USE DEF IInv, TypeOK
<1>1. UNCHANGED <<openVars, mStart, mSize, writer, first, len, readerVars>>
  BY DEF pollWrites
<1>2. count[q] \in Nat /\ count[q] < len[q] /\ len[q] \in 0 .. Capacity
      /\ count' = [count EXCEPT ![q] = @ + 1] /\ count[q] + 1 \in 0 .. len[q]
  BY DEF pollWrites, QueueInv
<1>3. PICK e \in Delivers(q) : mData' = [mData EXCEPT ![q][first[q] + count[q]] = e]
  BY DEF pollWrites
<1>4. e \in Events
  BY MultiHalAssumption
<1>5. mData' \in [Queues -> [Slots -> Events \cup {NoEvent}]]
  BY <1>3, <1>4 DEF QueueTypeOK
<1>6. count[q] + 1 \in 0 .. Capacity
  BY <1>2, CapacityAssumption
<1>7. count' \in [Queues -> 0 .. Capacity]
  BY <1>2, <1>6 DEF WriterTypeOK
<1>8. TypeOK'
  BY <1>1, <1>5, <1>7 DEF OpenTypeOK, QueueTypeOK, WriterTypeOK, ReaderTypeOK, openVars, readerVars
<1>9. ScanInv'
  BY <1>1 DEF ScanInv, Ago, openVars, readerVars
<1>10. ASSUME NEW p \in Queues PROVE QueueInv(p)'
  <2>1. CASE p = q
    <3> DEFINE s == first[q] + count[q]
    <3>1. count'[q] = count[q] + 1 /\ s \in Slots /\ first[q] \in Nat
      BY <1>2, CapacityAssumption DEF WriterTypeOK, QueueInv, pollWrites, Slots
    <3>2. mData'[q][s] = e /\ \A t \in Slots : t # s => mData'[q][t] = mData[q][t]
      BY <1>3, <3>1 DEF QueueTypeOK
    <3>3. ASSUME NEW i \in 0 .. count'[q] - 1 PROVE mData'[q][first[q] + i] \in Events
      <4>1. CASE i = count[q]
        BY <1>4, <3>2, <4>1
      <4>2. CASE i # count[q]
        <5>1. i \in 0 .. count[q] - 1 /\ first[q] + i # s /\ first[q] + i \in Slots
          BY <1>2, <3>1, <4>2, CapacityAssumption DEF Slots
        <5>2. mData[q][first[q] + i] \in Events
          BY <5>1 DEF QueueInv, pollWrites
        <5> QED  BY <3>2, <5>1, <5>2
      <4> QED  BY <4>1, <4>2
    <3>4. QueueInv(q) /\ writer[q] = "poll" /\ count'[q] \in 0 .. len[q]
      BY <1>2, <3>1 DEF pollWrites
    <3> HIDE DEF s
    <3> QED  BY <1>1, <2>1, <3>3, <3>4 DEF QueueInv, openVars
  <2>2. CASE p # q
    <3>1. mData'[p] = mData[p] /\ count'[p] = count[p]
      BY <1>2, <1>3, <2>2 DEF QueueTypeOK, WriterTypeOK
    <3> QED  BY <1>1, <3>1 DEF QueueInv, openVars
  <2> QED  BY <2>1, <2>2
<1> QED  BY <1>8, <1>9, <1>10

(* The module returns what it wrote. *)
LEMMA pollReturnsOK == ASSUME IInv, NEW q \in Queues, pollReturns(q) PROVE IInv'
<1> USE DEF IInv, TypeOK
<1>1. UNCHANGED <<openVars, queueVars, readerVars>> /\ writer[q] = "poll"
  BY DEF pollReturns
<1>2. 0 \in Slots /\ 0 \in 0 .. Capacity
  BY CapacityAssumption DEF Slots
<1>3. WriterTypeOK'
  BY <1>2 DEF pollReturns, NextRound, WriterTypeOK
<1>4. TypeOK'
  BY <1>1, <1>3 DEF OpenTypeOK, QueueTypeOK, ReaderTypeOK, openVars, queueVars, readerVars
<1>5. ScanInv'
  BY <1>1 DEF ScanInv, Ago, openVars, queueVars, readerVars
<1>6. \A p \in Queues : QueueInv(p)'
  BY <1>1, <1>2 DEF pollReturns, NextRound, QueueInv, WriterTypeOK, openVars, queueVars
<1> QED  BY <1>4, <1>5, <1>6

(* The batch becomes visible and a waiting reader is woken. *)
LEMMA markAsWrittenOK == ASSUME IInv, NEW q \in Queues, markAsWritten(q) PROVE IInv'
<1> USE DEF IInv, TypeOK
<1>1. /\ UNCHANGED <<openVars, mStart, mData, empties, batch, nextReadIndex, waiting_for_data>>
      /\ writer[q] = "mark" /\ reader # "scan"
      /\ reader' = IF waiting_for_data THEN "woken" ELSE reader
  BY DEF markAsWritten, Unlocked
<1>2. 0 \in Slots /\ 0 \in 0 .. Capacity
  BY CapacityAssumption DEF Slots
<1>3. mSize' = [mSize EXCEPT ![q] = @ + count[q]] /\ mSize[q] + count[q] \in 0 .. Capacity
  BY CapacityAssumption, <1>1 DEF markAsWritten, QueueInv
<1>4. WriterTypeOK'
  BY <1>2 DEF markAsWritten, NextRound, WriterTypeOK
<1>5. QueueTypeOK'
  BY <1>1, <1>3 DEF QueueTypeOK
<1>6. reader' \in {"idle", "wait", "woken"} /\ (reader = "idle" <=> reader' = "idle")
      /\ reader' # "wait" /\ (waiting_for_data <=> reader' = "woken")
  BY <1>1 DEF ScanInv, ReaderTypeOK
<1>7. ReaderTypeOK' /\ OpenTypeOK'
  BY <1>1, <1>6 DEF ReaderTypeOK, OpenTypeOK, openVars
<1>8. ScanInv'
  BY <1>1, <1>6 DEF ScanInv, openVars
<1>9. ASSUME NEW p \in Queues PROVE QueueInv(p)'
  <2>1. CASE p = q
    <3>1. mSize'[q] \in 0 .. Capacity /\ writer'[q] = "start" /\ first'[q] = 0 /\ len'[q] = 0
          /\ count'[q] = 0
      BY <1>3 DEF markAsWritten, NextRound, WriterTypeOK, QueueTypeOK
    <3>2. ~(q >= Len(opened))
      BY <1>1 DEF QueueInv
    <3> QED  BY <1>1, <1>2, <2>1, <3>1, <3>2 DEF QueueInv, openVars
  <2>2. CASE p # q
    BY <1>1, <1>3, <2>2 DEF markAsWritten, NextRound, QueueInv, WriterTypeOK, QueueTypeOK, openVars
  <2> QED  BY <2>1, <2>2
<1> QED  BY <1>4, <1>5, <1>7, <1>8, <1>9

(* The actions of poll that do not touch a queue. *)
LEMMA ReaderFrame ==
  ASSUME IInv, UNCHANGED <<openVars, queueVars, writerVars>>, ReaderTypeOK', ScanInv'
  PROVE  IInv'
<1> USE DEF openVars, queueVars, writerVars
<1>1. OpenTypeOK' /\ QueueTypeOK' /\ WriterTypeOK'
  BY DEF IInv, TypeOK, OpenTypeOK, QueueTypeOK, WriterTypeOK
<1>2. \A q \in Queues : QueueInv(q)'
  BY DEF IInv, QueueInv
<1> QED  BY <1>1, <1>2 DEF IInv, TypeOK

(* One more sensor gets its global handle. *)
LEMMA assign_global_handleOK == IInv /\ assign_global_handle => IInv'
<1> SUFFICES ASSUME IInv, assign_global_handle PROVE IInv'
  OBVIOUS
<1> USE DEF IInv, TypeOK, queueVars, writerVars, readerVars
<1>1. assigned' \in 0 .. Len(SensorList)
  BY MultiHalAssumption DEF assign_global_handle, OpenTypeOK
<1>2. UNCHANGED <<opening, opened, queueVars, writerVars, readerVars>>
  BY DEF assign_global_handle
<1>3. TypeOK'
  BY <1>1, <1>2 DEF OpenTypeOK, QueueTypeOK, WriterTypeOK, ReaderTypeOK
<1>4. ScanInv'
  BY <1>2 DEF ScanInv, Ago
<1>5. \A q \in Queues : QueueInv(q)'
  BY <1>2 DEF QueueInv
<1> QED  BY <1>3, <1>4, <1>5

(* The framework calls poll. *)
LEMMA pollOK == IInv /\ poll => IInv'
<1> SUFFICES ASSUME IInv, poll PROVE IInv'
  OBVIOUS
<1>1. UNCHANGED <<openVars, queueVars, writerVars, nextReadIndex, waiting_for_data>>
      /\ reader = "idle" /\ reader' = "scan" /\ empties' = 0 /\ batch' = <<>>
      /\ opening = Modules
  BY DEF poll
<1>2. batch' \in Seq(ReadEvents) /\ Len(batch') = 0 /\ 0 <= MaxReads /\ 0 \in 0 .. Modules
  BY <1>1, MultiHalAssumption
<1>3. ReaderTypeOK'
  BY <1>1, <1>2 DEF IInv, TypeOK, ReaderTypeOK, openVars
<1>5. ScanInv'
  BY SMTT(30), <1>1, AgoIsPositive DEF IInv, TypeOK, OpenTypeOK, ReaderTypeOK, ScanInv, openVars, queueVars
<1> QED  BY <1>1, <1>3, <1>5, ReaderFrame

(* A reader that was woken scans again. *)
LEMMA resumeOK == IInv /\ resume => IInv'
<1> SUFFICES ASSUME IInv, resume PROVE IInv'
  OBVIOUS
<1>1. UNCHANGED <<openVars, queueVars, writerVars, nextReadIndex, batch>>
      /\ reader \in {"wait", "woken"} /\ reader' = "scan" /\ empties' = 0
      /\ waiting_for_data' = FALSE
  BY DEF resume
<1>2. 0 \in 0 .. Modules /\ opening = Modules
  BY <1>1, MultiHalAssumption DEF IInv, ScanInv
<1>3. ReaderTypeOK'
  BY <1>1, <1>2 DEF IInv, TypeOK, ReaderTypeOK, openVars
<1>5. ScanInv'
  BY <1>1, <1>2, AgoIsPositive DEF IInv, TypeOK, OpenTypeOK, ReaderTypeOK, ScanInv, openVars, queueVars
<1> QED  BY <1>1, <1>3, <1>5, ReaderFrame

(* poll returns what it has read. *)
LEMMA pollEndsOK == IInv /\ pollEnds => IInv'
<1> SUFFICES ASSUME IInv, pollEnds PROVE IInv'
  OBVIOUS
<1>1. UNCHANGED <<openVars, queueVars, writerVars, empties, batch, nextReadIndex, waiting_for_data>>
      /\ reader = "scan" /\ reader' = "idle"
  BY DEF pollEnds
<1>2. ReaderTypeOK'
  BY <1>1 DEF IInv, TypeOK, ReaderTypeOK, openVars
<1>3. ScanInv'
  BY <1>1 DEF IInv, ScanInv, openVars, queueVars
<1> QED  BY <1>1, <1>2, <1>3, ReaderFrame

(* poll sleeps after a full round of empty queues only. *)
LEMMA waitForDataOK == IInv /\ waitForData => IInv'
<1> SUFFICES ASSUME IInv, waitForData PROVE IInv'
  OBVIOUS
<1>1. UNCHANGED <<openVars, queueVars, writerVars, empties, batch, nextReadIndex>>
      /\ reader = "scan" /\ reader' = "wait" /\ waiting_for_data' = TRUE /\ ~Scanning
      /\ batch = <<>>
  BY DEF waitForData
<1>2. ReaderTypeOK'
  BY <1>1 DEF IInv, TypeOK, ReaderTypeOK, openVars
<1>3. empties = Len(opened) /\ Len(opened) \in Nat
  BY <1>1, MultiHalAssumption DEF Scanning, IInv, ScanInv, TypeOK, OpenTypeOK
<1>4. ASSUME NEW q \in Queues PROVE mSize[q] = 0
  <2>1. CASE q < Len(opened)
    <3>1. Ago(q, nextReadIndex, Len(opened)) <= Len(opened)
      BY <1>3, <2>1 DEF Ago, IInv, TypeOK, ReaderTypeOK, Queues
    <3> QED  BY <1>1, <1>3, <2>1, <3>1 DEF IInv, ScanInv
  <2>2. CASE ~(q < Len(opened))
    BY <1>3, <2>2 DEF IInv, QueueInv, Queues
  <2> QED  BY <2>1, <2>2
<1>5. ScanInv'
  BY <1>1, <1>4 DEF IInv, ScanInv, openVars, queueVars
<1> QED  BY <1>1, <1>2, <1>5, ReaderFrame

(* What poll has read is an event of a queue, with a handle or -1. *)
LEMMA RemapType ==
  ASSUME NEW q \in Queues, NEW e \in Events \cup {NoEvent}, assigned \in 0 .. Len(SensorList)
  PROVE  copy_event_remap_handle(q, e) \in ReadEvents
<1>1. Len(SensorList) \in Nat /\ assigned \in Nat /\ assigned <= Len(SensorList)
  BY MultiHalAssumption
<1>2. e.local \in Locals \cup {0} /\ e.meta \in BOOLEAN
  <2>1. CASE e \in Events
    BY <2>1 DEF Events
  <2>2. CASE e = NoEvent
    <3>1. e.local = 0 /\ e.meta = FALSE
      BY <2>2 DEF NoEvent
    <3> QED  BY <3>1
  <2> QED  BY <2>1, <2>2
<1>3. get_global_handle(q, e.local) \in -1 .. Len(SensorList)
  <2> DEFINE found == {g \in 1 .. assigned : SensorList[g] = [module |-> q, local |-> e.local]}
  <2>1. CASE found = {}
    BY <1>1, <2>1 DEF get_global_handle
  <2>2. CASE found # {}
    <3>1. (CHOOSE g \in found : TRUE) \in found
      BY <2>2
    <3>2. (CHOOSE g \in found : TRUE) \in 1 .. assigned
      BY <3>1
    <3>3. get_global_handle(q, e.local) = CHOOSE g \in found : TRUE
      BY <2>2 DEF get_global_handle
    <3> QED  BY <1>1, <3>2, <3>3
  <2> QED  BY <2>1, <2>2
<1> QED  BY <1>2, <1>3 DEF copy_event_remap_handle, ReadEvents

(* The queue that poll looks at exists, and so does the one after it. *)
LEMMA NextQueue ==
  ASSUME IInv, scan
  PROVE  /\ nextReadIndex \in Queues /\ nextReadIndex < Len(opened) /\ Len(opened) \in Nat
         /\ nextReadIndex' \in Nat /\ nextReadIndex' < Len(opened)
         /\ nextReadIndex + 1 < Len(opened) => nextReadIndex' = nextReadIndex + 1
         /\ nextReadIndex + 1 >= Len(opened) => nextReadIndex' = 0
<1>1. /\ Len(opened) \in Int /\ empties \in Int /\ 0 <= empties /\ empties < Len(opened)
      /\ Len(opened) <= Modules /\ nextReadIndex \in Int /\ 0 <= nextReadIndex
      /\ nextReadIndex < Len(opened) /\ Modules \in Int
  <2>1. empties < Len(opened) /\ empties \in 0 .. Len(opened)
    BY DEF IInv, ScanInv, scan, Scanning
  <2>2. /\ opened \in Seq(Queues) /\ Len(opened) <= opening /\ opening \in 0 .. Modules
        /\ Modules \in Nat
    BY MultiHalAssumption DEF IInv, TypeOK, OpenTypeOK
  <2>3. nextReadIndex \in Nat /\ (nextReadIndex > 0 => nextReadIndex < Len(opened))
    BY DEF IInv, TypeOK, ReaderTypeOK
  <2>4. Len(opened) \in Nat
    BY <2>2
  <2> QED  BY <2>1, <2>2, <2>3, <2>4
<1>2. nextReadIndex' = (nextReadIndex + 1) % Len(opened)
  BY DEF scan
<1>3. CASE nextReadIndex + 1 < Len(opened)
  <2>1. (nextReadIndex + 1) % Len(opened) = nextReadIndex + 1
    BY <1>1, <1>3, Z3
  <2> QED  BY <1>1, <1>2, <1>3, <2>1 DEF Queues
<1>4. CASE nextReadIndex + 1 = Len(opened)
  <2>1. (nextReadIndex + 1) % Len(opened) = 0
    BY <1>1, <1>4, Z3
  <2> QED  BY <1>1, <1>2, <1>4, <2>1 DEF Queues
<1> QED  BY <1>1, <1>3, <1>4

(* The reader takes one event, or passes an empty queue. *)
LEMMA scanOK == IInv /\ scan => IInv'
<1> SUFFICES ASSUME IInv, scan PROVE IInv'
  OBVIOUS
<1> USE DEF IInv, TypeOK
<1> DEFINE q == nextReadIndex
           d == copy_event_remap_handle(q, mData[q][mStart[q]])
<1>1. /\ UNCHANGED <<openVars, mData, first, len, count, reader, waiting_for_data>>
      /\ reader = "scan" /\ Len(batch) < MaxReads /\ empties < Len(opened)
  BY DEF scan, Scanning
<1>2. /\ q \in Queues /\ q \in Nat /\ q < Len(opened) /\ Len(opened) \in Nat /\ q' \in Nat
      /\ q' < Len(opened)
      /\ q + 1 < Len(opened) => q' = q + 1
      /\ q + 1 >= Len(opened) => q' = 0
  BY NextQueue DEF Queues
<1>3. /\ Capacity \in Nat /\ mStart[q] \in Slots /\ mSize[q] \in 0 .. Capacity
      /\ Len(opened) <= Modules /\ Modules \in Nat /\ empties \in 0 .. Len(opened)
  BY <1>2, CapacityAssumption, MultiHalAssumption DEF QueueTypeOK, OpenTypeOK, ScanInv
<1>4. OpenTypeOK' /\ UNCHANGED <<opening, opened>>
  BY <1>1 DEF OpenTypeOK, openVars
<1>5. CASE mSize[q] = 0
  <2>1. empties' = empties + 1 /\ UNCHANGED <<batch, mStart, mSize, writer>>
    BY <1>5 DEF scan
  <2>2. QueueTypeOK' /\ WriterTypeOK'
    BY <1>1, <2>1 DEF QueueTypeOK, WriterTypeOK
  <2>3. ReaderTypeOK'
    BY <1>1, <1>2, <1>3, <1>4, <2>1 DEF ReaderTypeOK
  <2>4. ASSUME NEW p \in Queues, p < Len(opened)', Ago(p, nextReadIndex', Len(opened')) <= empties' PROVE mSize'[p] = 0
    <3>1. CASE p = q
      BY <1>5, <2>1, <3>1
    <3>2. CASE p # q
      <4>1. Ago(p, nextReadIndex, Len(opened)) <= empties
        BY <1>2, <1>3, <1>4, <2>1, <2>4, <3>2 DEF Ago, Queues
      <4> QED  BY <1>1, <1>4, <2>1, <2>4, <4>1 DEF ScanInv
    <3> QED  BY <3>1, <3>2
  <2>5. ScanInv'
    BY <1>1, <1>3, <1>4, <2>1, <2>4 DEF ScanInv
  <2>6. \A p \in Queues : QueueInv(p)'
    BY <1>1, <1>4, <2>1 DEF QueueInv
  <2> QED  BY <1>4, <2>2, <2>3, <2>5, <2>6
<1>6. CASE mSize[q] # 0
  <2>1. /\ empties' = 0
        /\ mSize' = [mSize EXCEPT ![q] = @ - 1]
        /\ mStart' = [mStart EXCEPT ![q] = Slot(@, 1)]
        /\ writer' = [writer EXCEPT ![q] = IF @ = "blocked" /\ mSize[q] = Capacity THEN "woken" ELSE @]
        /\ batch' = IF d.handle = -1 /\ ~d.meta THEN batch ELSE Append(batch, d)
    BY <1>6 DEF scan, dequeue
  <2>2. mSize[q] \in 1 .. Capacity /\ mSize[q] - 1 \in 0 .. Capacity
    BY <1>3, <1>6
  <2>3. Slot(mStart[q], 1) \in Slots /\ Slot(Slot(mStart[q], 1), mSize[q] - 1) = Slot(mStart[q], mSize[q])
    BY <1>3, <2>2, EndStays
  <2>4. QueueTypeOK'
    BY <1>1, <1>2, <2>1, <2>2, <2>3 DEF QueueTypeOK
  <2>5. WriterTypeOK'
    BY <1>1, <1>2, <2>1 DEF WriterTypeOK
  <2>6. ReaderTypeOK'
    <3>1. d \in ReadEvents
      BY <1>2, <1>3, RemapType DEF QueueTypeOK, OpenTypeOK
    <3>2. batch' \in Seq(ReadEvents) /\ Len(batch') <= MaxReads
      <4> HIDE DEF d
      <4>1. batch \in Seq(ReadEvents) /\ MaxReads \in Nat /\ Len(batch) < MaxReads
        BY <1>1, MultiHalAssumption DEF ReaderTypeOK
      <4>2. CASE batch' = batch
        BY <4>1, <4>2
      <4>3. CASE batch' = Append(batch, d)
        BY <3>1, <4>1, <4>3
      <4> QED  BY <2>1, <4>2, <4>3
    <3> HIDE DEF d
    <3> QED  BY <1>1, <1>2, <1>3, <1>4, <2>1, <3>2 DEF ReaderTypeOK
  <2>7. ScanInv'
    <3>1. ASSUME NEW p \in Queues, p < Len(opened')
          PROVE  ~(Ago(p, nextReadIndex', Len(opened')) <= empties')
      <4>1. nextReadIndex' \in Nat /\ Len(opened') \in Nat /\ empties' = 0
        BY <1>2, <1>4, <2>1
      <4>2. Ago(p, nextReadIndex', Len(opened')) \in Int /\ Ago(p, nextReadIndex', Len(opened')) >= 1
        BY <3>1, <4>1, AgoIsPositive
      <4> QED  BY <4>1, <4>2
    <3>2. empties' \in 0 .. Len(opened)' /\ reader' = "scan" /\ ~waiting_for_data' /\ opening' = Modules
      BY <1>1, <1>2, <1>4, <2>1 DEF ScanInv
    <3> QED  BY <3>1, <3>2 DEF ScanInv
  <2>8. ASSUME NEW p \in Queues PROVE QueueInv(p)'
    <3>1. CASE p = q
      <4>1. mSize'[q] = mSize[q] - 1 /\ mStart'[q] = Slot(mStart[q], 1)
            /\ writer'[q] = IF writer[q] = "blocked" /\ mSize[q] = Capacity THEN "woken" ELSE writer[q]
        BY <1>2, <2>1 DEF QueueTypeOK, WriterTypeOK
      <4>2. QueueInv(q)
        BY <1>2
      <4>3. Len(opened') = Len(opened)
        BY <1>4
      <4>4. writer'[q] # "blocked" /\ (writer'[q] \in {"poll", "mark"} => writer[q] \in {"poll", "mark"})
        BY <4>1, <4>2 DEF QueueInv
      <4> QED  BY SMTT(30), <1>1, <1>2, <1>3, <2>2, <2>3, <3>1, <4>1, <4>2, <4>3, <4>4 DEF QueueInv
    <3>2. CASE p # q
      BY <1>1, <1>4, <2>1, <3>2 DEF QueueInv, QueueTypeOK, WriterTypeOK
    <3> QED  BY <3>1, <3>2
  <2> QED  BY <1>4, <2>4, <2>5, <2>6, <2>7, <2>8
<1> QED  BY <1>5, <1>6

(* The invariant is inductive. *)
LEMMA NextOK == IInv /\ [Next]_vars => IInv'
<1> SUFFICES ASSUME IInv, [Next]_vars PROVE IInv'
  OBVIOUS
<1>1. CASE Next
  BY <1>1, open_sensorsOK, assign_global_handleOK, pollOK, scanOK, waitForDataOK, resumeOK, pollEndsOK,
     waitForSpaceOK, pollWritesOK, pollReturnsOK, markAsWrittenOK DEF Next, Reader, Writer
<1>2. CASE UNCHANGED vars
  <2>1. UNCHANGED <<openVars, queueVars, writerVars, readerVars>>
    BY <1>2 DEF vars
  <2>2. ReaderTypeOK' /\ ScanInv'
    BY <2>1 DEF IInv, TypeOK, ReaderTypeOK, ScanInv, Ago, openVars, queueVars, readerVars
  <2> QED  BY <2>1, <2>2, ReaderFrame
<1> QED  BY <1>1, <1>2

(* The inductive invariant holds throughout, whatever order the writers and  *)
(* poll take queue_mutex in.                                                 *)
THEOREM Invariance == Spec => []IInv
BY InitOK, NextOK, PTL DEF Spec

(* poll and the writers keep every index of a queue within its array, and    *)
(* poll only ever looks into a queue that exists.                            *)
THEOREM TypeCorrect == Spec => []TypeOK
<1>1. IInv => TypeOK
  BY DEF IInv
<1> QED  BY <1>1, Invariance, PTL

(* No wake-up is lost, for any number of sub-HALs: poll sleeps only while all *)
(* queues are empty, and a writer only while its queue is full.               *)
THEOREM WakeUps == Spec => []NoLostWakeup
<1>1. IInv => NoLostWakeup
  BY DEF IInv, ScanInv, QueueInv, NoLostWakeup
<1> QED  BY <1>1, Invariance, PTL

(* A writer's region lies in the array and is free of events. *)
LEMMA RegionHoldsNoEvent ==
  ASSUME IInv, NEW q \in Queues, writer[q] \in {"poll", "mark"}
  PROVE  /\ Region(q) \subseteq Slots
         /\ Region(q) \cap Readable(mStart[q], mSize[q]) = {}
<1>1. /\ mStart[q] \in Slots /\ mSize[q] \in 0 .. Capacity /\ len[q] \in 0 .. Capacity
      /\ mSize[q] + len[q] <= Capacity /\ first[q] = Slot(mStart[q], mSize[q])
      /\ first[q] + len[q] <= Capacity /\ first[q] \in Slots /\ Capacity \in Nat
  BY CapacityAssumption DEF IInv, QueueInv
<1>2. Region(q) \subseteq Slots
  BY <1>1 DEF Region, Slots
<1>3. ASSUME NEW k \in 0 .. mSize[q] - 1 PROVE Slot(mStart[q], k) \notin Region(q)
  <2>1. Slot(mStart[q], k) \notin Slot(mStart[q], mSize[q]) .. Slot(mStart[q], mSize[q]) + len[q] - 1
    BY <1>1, RegionIsBehind
  <2> QED  BY <1>1, <2>1 DEF Region
<1> QED  BY <1>2, <1>3 DEF Readable

(* The region that a sub-HAL fills without queue_mutex lies in the array and  *)
(* holds no event that poll may still read.                                   *)
THEOREM Regions == Spec => []RegionIsFree
<1>1. IInv => RegionIsFree
  BY RegionHoldsNoEvent DEF RegionIsFree
<1> QED  BY <1>1, Invariance, PTL


-----------------------------------------------------------------------------
(* The queues implement SensorFifo. *)

(* A ring of n events, read from its start, is a sequence of n events. *)
LEMMA ContentsAreASequence ==
  ASSUME NEW s, NEW n \in Nat, NEW d
  PROVE  /\ DOMAIN Contents(s, n, d) = 1 .. n
         /\ Len(Contents(s, n, d)) = n
         /\ \A k \in 1 .. n : Contents(s, n, d)[k] = d[Slot(s, k - 1)]
BY DEF Contents

(* What is written outside of the readable slots does not change the contents. *)
LEMMA ContentsStay ==
  ASSUME NEW s, NEW n \in Nat, NEW d, NEW e,
         \A t \in Readable(s, n) : d[t] = e[t]
  PROVE  Contents(s, n, d) = Contents(s, n, e)
<1>1. ASSUME NEW k \in 1 .. n PROVE d[Slot(s, k - 1)] = e[Slot(s, k - 1)]
  <2>1. k - 1 \in 0 .. n - 1
    OBVIOUS
  <2> QED  BY <2>1 DEF Readable
<1> QED  BY <1>1 DEF Contents

(* dequeue takes the head. *)
LEMMA ContentsTail ==
  ASSUME NEW s \in Slots, NEW n \in 1 .. Capacity, NEW d
  PROVE  /\ Contents(s, n, d) # <<>>
         /\ Head(Contents(s, n, d)) = d[s]
         /\ Tail(Contents(s, n, d)) = Contents(Slot(s, 1), n - 1, d)
<1>1. n \in Nat /\ n >= 1 /\ n - 1 \in Nat /\ n <= Capacity /\ Capacity \in Nat
  BY CapacityAssumption
<1>2. ASSUME NEW k \in 1 .. n - 1 PROVE Slot(Slot(s, 1), k - 1) = Slot(s, k)
  <2>1. k \in 1 .. Capacity
    BY <1>1
  <2> QED  BY <2>1, EndStays
<1>3. Slot(s, 0) = s
  BY <1>1, SlotRange DEF Slots
<1> QED  BY <1>1, <1>2, <1>3 DEF Contents

(* markAsWritten appends what the region begins with. *)
LEMMA ContentsAppend ==
  ASSUME NEW s \in Slots, NEW n \in 0 .. Capacity, NEW c \in 0 .. Capacity, NEW d,
         n + c <= Capacity, Slot(s, n) + c <= Capacity
  PROVE  Contents(s, n + c, d) = Contents(s, n, d) \o [i \in 1 .. c |-> d[Slot(s, n) + i - 1]]
<1> DEFINE w == [i \in 1 .. c |-> d[Slot(s, n) + i - 1]]
<1>1. n \in Nat /\ c \in Nat /\ n + c \in Nat /\ Capacity \in Nat
  BY CapacityAssumption
<1>2. ASSUME NEW k \in 1 .. n + c, k > n PROVE Slot(s, k - 1) = Slot(s, n) + (k - n) - 1
  <2>1. k - 1 \in 0 .. Capacity
    BY <1>1
  <2>2. /\ s + n < Capacity => Slot(s, n) = s + n
        /\ s + n >= Capacity => Slot(s, n) = s + n - Capacity
    BY SlotRange
  <2>3. /\ s + (k - 1) < Capacity => Slot(s, k - 1) = s + (k - 1)
        /\ s + (k - 1) >= Capacity => Slot(s, k - 1) = s + (k - 1) - Capacity
    BY <2>1, SlotRange
  <2> QED  BY <1>1, <1>2, <2>2, <2>3 DEF Slots
<1>3. Len(w) = c /\ Len(Contents(s, n, d)) = n
  BY <1>1, ContentsAreASequence
<1>4. ASSUME NEW k \in 1 .. n + c
      PROVE  Contents(s, n + c, d)[k] =
               IF k <= n THEN Contents(s, n, d)[k] ELSE w[k - n]
  BY <1>1, <1>2 DEF Contents
<1> DEFINE T == {d[t] : t \in Int}
           u == Contents(s, n, d)
           v == Contents(s, n + c, d)
<1>5. u \in Seq(T) /\ v \in Seq(T) /\ w \in Seq(T) /\ Len(v) = n + c
  <2>1. \A k \in Int : d[k] \in T
    OBVIOUS
  <2>2. Slot(s, n) \in Int /\ \A k \in 1 .. n + c : Slot(s, k - 1) \in Int
    <3>1. \A k \in 0 .. Capacity : Slot(s, k) \in Int
      BY SlotRange DEF Slots
    <3>2. \A k \in 1 .. n + c : k - 1 \in 0 .. Capacity
      BY <1>1
    <3> QED  BY <1>1, <3>1, <3>2
  <2> HIDE DEF T
  <2>3. u \in [1 .. n -> T] /\ v \in [1 .. n + c -> T] /\ w \in [1 .. c -> T]
    BY <1>1, <2>1, <2>2 DEF Contents
  <2> QED  BY <1>1, <2>3
<1>6. u \o w \in Seq(T) /\ Len(u \o w) = n + c
  <2> HIDE DEF T, u, v, w
  <2> QED  BY <1>1, <1>3, <1>5, ConcatProperties DEF u
<1>7. \A k \in 1 .. n + c : (u \o w)[k] = IF k <= n THEN u[k] ELSE w[k - n]
  <2> HIDE DEF T, u, v, w
  <2> QED  BY <1>1, <1>3, <1>5, ConcatProperties DEF u
<1> HIDE DEF T, u, v, w
<1>8. \A k \in 1 .. Len(v) : v[k] = (u \o w)[k]
  BY <1>4, <1>5, <1>7 DEF u, v
<1>9. v = u \o w
  BY <1>5, <1>6, <1>8, SeqEqual
<1> QED  BY <1>9 DEF u, v, w

(* Initial states. *)
LEMMA FifoInit == Init => Fifo!Init
<1> SUFFICES ASSUME Init PROVE Fifo!Init
  OBVIOUS
<1>1. ASSUME NEW q \in Queues PROVE Contents(mStart[q], mSize[q], mData[q]) = <<>>
  BY DEF Init, Contents
<1>2. Unread = [q \in Queues |-> <<>>]
  BY <1>1 DEF Unread
<1>3. Read = <<>>
  <2>1. Len(batch) = 0
    BY DEF Init
  <2> QED  BY <2>1 DEF Read
<1>4. Listed = {}
  BY DEF Init, Listed
<1> QED  BY <1>2, <1>3, <1>4 DEF Fifo!Init

(* Steps that the FIFOs do not see. *)
LEMMA FifoStutter ==
  ASSUME UNCHANGED <<mStart, mSize, mData, batch, assigned>>
  PROVE  UNCHANGED Fifo!vars
BY DEF Fifo!vars, Unread, Read, Listed

(* poll empties the batch. *)
LEMMA FifoPoll == poll => Fifo!Poll
<1> SUFFICES ASSUME poll PROVE Fifo!Poll
  OBVIOUS
<1>1. Len(batch') = 0 /\ UNCHANGED <<mStart, mSize, mData, assigned>>
  BY DEF poll, queueVars, openVars
<1>2. Read' = <<>>
  BY <1>1 DEF Read
<1>3. UNCHANGED <<Unread, Listed>>
  BY <1>1 DEF Unread, Listed
<1> QED  BY <1>2, <1>3 DEF Fifo!Poll

(* A new global handle extends the list. *)
LEMMA FifoList == IInv /\ assign_global_handle => Fifo!List
<1> SUFFICES ASSUME IInv, assign_global_handle PROVE Fifo!List
  OBVIOUS
<1>1. assigned \in Int /\ assigned' = assigned + 1 /\ UNCHANGED <<mStart, mSize, mData, batch>>
  BY MultiHalAssumption
     DEF IInv, TypeOK, OpenTypeOK, assign_global_handle, queueVars, readerVars
<1>2. Listed \subseteq Listed'
  BY <1>1 DEF Listed
<1>3. UNCHANGED <<Unread, Read>>
  BY <1>1 DEF Unread, Read
<1> QED  BY <1>2, <1>3 DEF Fifo!List

(* A sub-HAL that writes to its region changes nothing that is readable. *)
LEMMA FifoWrites ==
  ASSUME IInv, NEW q \in Queues, pollWrites(q)
  PROVE  UNCHANGED Fifo!vars
<1> DEFINE s == first[q] + count[q]
<1>1. UNCHANGED <<mStart, mSize, batch, assigned>>
  BY DEF pollWrites, openVars, readerVars
<1>2. PICK e : mData' = [mData EXCEPT ![q][s] = e]
  BY DEF pollWrites
<1>3. s \in Region(q) /\ writer[q] = "poll"
  BY DEF IInv, QueueInv, pollWrites, Region, Slots
<1>4. s \notin Readable(mStart[q], mSize[q])
  BY <1>3, RegionHoldsNoEvent
<1>5. ASSUME NEW p \in Queues
      PROVE  Contents(mStart'[p], mSize'[p], mData'[p]) = Contents(mStart[p], mSize[p], mData[p])
  <2>1. mSize[p] \in Nat
    BY CapacityAssumption DEF IInv, TypeOK, QueueTypeOK
  <2>2. CASE p = q
    <3>1. mData'[q] = [mData[q] EXCEPT ![s] = e]
      BY <1>2 DEF IInv, TypeOK, QueueTypeOK
    <3>2. ASSUME NEW t \in Readable(mStart[q], mSize[q]) PROVE mData'[q][t] = mData[q][t]
      <4>1. t \in Slots
        <5>1. PICK k \in 0 .. mSize[q] - 1 : t = Slot(mStart[q], k)
          BY DEF Readable
        <5>2. k \in 0 .. Capacity /\ mStart[q] \in Slots
          BY CapacityAssumption DEF IInv, TypeOK, QueueTypeOK
        <5> QED  BY <5>1, <5>2, SlotRange
      <4>2. t # s
        BY <1>4
      <4> HIDE DEF s
      <4> QED  BY <3>1, <4>1, <4>2 DEF IInv, TypeOK, QueueTypeOK
    <3> QED  BY <1>1, <2>1, <2>2, <3>2, ContentsStay
  <2>3. CASE p # q
    BY <1>1, <1>2, <2>3 DEF IInv, TypeOK, QueueTypeOK
  <2> QED  BY <2>2, <2>3
<1>6. Unread' = Unread
  BY <1>5 DEF Unread
<1>7. UNCHANGED <<Read, Listed>>
  BY <1>1 DEF Read, Listed
<1> QED  BY <1>6, <1>7 DEF Fifo!vars

(* markAsWritten hands the written events to poll, all at once. *)
LEMMA FifoPut ==
  ASSUME IInv, NEW q \in Queues, markAsWritten(q)
  PROVE  Fifo!Put(q)
<1> DEFINE w == [i \in 1 .. count[q] |-> mData[q][first[q] + i - 1]]
           c == Contents(mStart[q], mSize[q], mData[q])
<1>1. /\ UNCHANGED <<mStart, mData, batch, assigned>>
      /\ mSize' = [mSize EXCEPT ![q] = mSize[q] + count[q]]
  BY DEF markAsWritten, openVars
<1>2. /\ mStart[q] \in Slots /\ mSize[q] \in 0 .. Capacity /\ count[q] \in 0 .. len[q]
      /\ len[q] \in 0 .. Capacity /\ count[q] # 0
      /\ first[q] \in Slots /\ first[q] = Slot(mStart[q], mSize[q])
      /\ first[q] + len[q] <= Capacity /\ mSize[q] + len[q] <= Capacity /\ Capacity \in Nat
      /\ \A i \in 0 .. count[q] - 1 : mData[q][first[q] + i] \in Events
  BY CapacityAssumption DEF IInv, QueueInv, markAsWritten
<1>3. /\ count[q] \in Int /\ 1 <= count[q] /\ count[q] <= len[q] /\ mSize[q] \in Nat
      /\ first[q] \in Int
  BY <1>2 DEF Slots
<1>4. Contents(mStart[q], mSize[q] + count[q], mData[q]) = c \o w
  <2>1. /\ count[q] \in 0 .. Capacity /\ mSize[q] + count[q] <= Capacity
        /\ Slot(mStart[q], mSize[q]) + count[q] <= Capacity
        /\ mStart[q] \in Slots /\ mSize[q] \in 0 .. Capacity
    BY <1>2, <1>3
  <2>2. Contents(mStart[q], mSize[q] + count[q], mData[q]) =
          Contents(mStart[q], mSize[q], mData[q])
            \o [i \in 1 .. count[q] |-> mData[q][Slot(mStart[q], mSize[q]) + i - 1]]
    BY ZenonT(30), <2>1, ContentsAppend
  <2> QED  BY <1>2, <2>2
<1>5. w \in [1 .. count[q] -> Events]
  <2>1. ASSUME NEW i \in 1 .. count[q] PROVE mData[q][first[q] + i - 1] \in Events
    <3>1. i - 1 \in 0 .. count[q] - 1 /\ first[q] + i - 1 = first[q] + (i - 1)
      BY <1>3
    <3> QED  BY <1>2, <3>1
  <2> QED  BY <2>1
<1>6. Unread[q] = c /\ Len(Unread[q]) = mSize[q]
  BY <1>3, ContentsAreASequence DEF Unread
<1>7. count[q] \in 1 .. Capacity - Len(Unread[q])
  BY <1>2, <1>3, <1>6
<1>8. Unread' = [Unread EXCEPT ![q] = Unread[q] \o w]
  <2> HIDE DEF w
  <2>1. ASSUME NEW p \in Queues
        PROVE  Contents(mStart'[p], mSize'[p], mData'[p]) =
                 IF p = q THEN c \o w ELSE Contents(mStart[p], mSize[p], mData[p])
    BY <1>1, <1>4 DEF IInv, TypeOK, QueueTypeOK
  <2> QED  BY <1>6, <2>1 DEF Unread
<1>9. UNCHANGED <<Read, Listed>>
  BY <1>1 DEF Read, Listed
<1> HIDE DEF w
<1> QED  BY <1>5, <1>7, <1>8, <1>9 DEF Fifo!Put

(* An event is dropped if and only if its sensor is not listed. *)
LEMMA HandleIsListed ==
  ASSUME NEW q \in Queues, NEW local, assigned \in 0 .. Len(SensorList)
  PROVE  get_global_handle(q, local) # -1 <=> <<q, local>> \in Listed
<1> DEFINE found == {g \in 1 .. assigned : SensorList[g] = [module |-> q, local |-> local]}
<1>1. ASSUME NEW g \in 1 .. assigned
      PROVE  SensorList[g] = [module |-> q, local |-> local] <=>
               <<q, local>> = <<SensorList[g].module, SensorList[g].local>>
  <2>1. g \in 1 .. Len(SensorList)
    BY MultiHalAssumption
  <2>2. SensorList[g] \in Sensors
    BY <2>1, MultiHalAssumption
  <2> QED  BY <2>2 DEF Sensors
<1>2. <<q, local>> \in Listed <=> found # {}
  BY <1>1 DEF Listed
<1>3. CASE found = {}
  BY <1>2, <1>3 DEF get_global_handle
<1>4. CASE found # {}
  <2>1. (CHOOSE g \in found : TRUE) \in 1 .. assigned
    <3>1. (CHOOSE g \in found : TRUE) \in found
      BY <1>4
    <3> QED  BY <3>1
  <2>2. get_global_handle(q, local) = CHOOSE g \in found : TRUE
    BY <1>4 DEF get_global_handle
  <2>3. get_global_handle(q, local) # -1
    <3>1. \A g \in 1 .. assigned : g # -1
      BY MultiHalAssumption
    <3> HIDE DEF found
    <3> QED  BY <2>1, <2>2, <3>1
  <2> QED  BY <1>2, <1>4, <2>3
<1> QED  BY <1>3, <1>4

(* poll takes the oldest event of the queue it looks at. *)
LEMMA FifoGet ==
  ASSUME IInv, scan, mSize[nextReadIndex] # 0
  PROVE  Fifo!Get(nextReadIndex)
<1> DEFINE q == nextReadIndex
           e == mData[q][mStart[q]]
           d == copy_event_remap_handle(q, e)
<1>1. /\ UNCHANGED <<mData, assigned>> /\ Len(batch) < MaxReads
      /\ mSize' = [mSize EXCEPT ![q] = mSize[q] - 1]
      /\ mStart' = [mStart EXCEPT ![q] = Slot(mStart[q], 1)]
      /\ batch' = IF d.handle = -1 /\ ~d.meta THEN batch ELSE Append(batch, d)
  BY DEF scan, dequeue, Scanning, openVars
<1>2. q \in Queues
  BY NextQueue
<1>3. mStart[q] \in Slots /\ mSize[q] \in 1 .. Capacity
  BY <1>2, CapacityAssumption DEF IInv, TypeOK, QueueTypeOK
<1>4. e \in Events \cup {NoEvent}
  BY <1>2, <1>3 DEF IInv, TypeOK, QueueTypeOK
<1>5. assigned \in 0 .. Len(SensorList) /\ batch \in Seq(ReadEvents)
  BY DEF IInv, TypeOK, OpenTypeOK, ReaderTypeOK
<1>6. d \in ReadEvents
  BY <1>2, <1>4, <1>5, RemapType
<1>7. d.queue = q /\ d.local = e.local /\ d.meta = e.meta
      /\ d.handle = get_global_handle(q, e.local)
  BY DEF copy_event_remap_handle
<1>8. e = [local |-> e.local, meta |-> e.meta] /\ e.meta \in BOOLEAN
  <2>1. CASE e \in Events
    BY <2>1 DEF Events
  <2>2. CASE e = NoEvent
    <3>1. e.local = 0 /\ e.meta = FALSE
      BY <2>2 DEF NoEvent
    <3>2. e.meta \in BOOLEAN
      BY <3>1
    <3> HIDE DEF e
    <3> QED  BY <2>2, <3>1, <3>2 DEF NoEvent
  <2> QED  BY <1>4, <2>1, <2>2
<1>9. Unread[q] = Contents(mStart[q], mSize[q], mData[q])
  BY <1>2 DEF Unread
<1>10. Unread[q] # <<>> /\ Head(Unread[q]) = e
       /\ Tail(Unread[q]) = Contents(Slot(mStart[q], 1), mSize[q] - 1, mData[q])
  BY SMTT(30), <1>3, <1>9, ContentsTail
<1>11. Unread' = [Unread EXCEPT ![q] = Tail(Unread[q])]
  <2>1. ASSUME NEW p \in Queues
        PROVE  Contents(mStart'[p], mSize'[p], mData'[p]) =
                 IF p = q THEN Tail(Unread[q]) ELSE Contents(mStart[p], mSize[p], mData[p])
    BY <1>1, <1>10 DEF IInv, TypeOK, QueueTypeOK
  <2> QED  BY <2>1 DEF Unread
<1>12. Len(Read) = Len(batch)
  BY <1>5 DEF Read
<1>13. CASE d.handle = -1 /\ ~d.meta
  <2>1. ~(e.meta \/ <<q, e.local>> \in Listed)
    BY <1>2, <1>5, <1>7, <1>13, HandleIsListed
  <2>2. Read' = Read /\ Listed' = Listed
    BY <1>1, <1>13 DEF Read, Listed
  <2> HIDE DEF e, d
  <2> QED  BY <1>1, <1>10, <1>11, <1>12, <2>1, <2>2 DEF Fifo!Get
<1>14. CASE ~(d.handle = -1 /\ ~d.meta)
  <2>1. e.meta \/ <<q, e.local>> \in Listed
    BY <1>2, <1>5, <1>7, <1>14, HandleIsListed
  <2>2. batch' = Append(batch, d)
    BY <1>1, <1>14
  <2>3. Read' = Append(Read, <<q, e>>)
    <3> DEFINE Pair(x) == <<x.queue, [local |-> x.local, meta |-> x.meta]>>
    <3>1. Pair(d) = <<q, e>>
      BY <1>7, <1>8
    <3> HIDE DEF e, d, Pair
    <3>2. Len(batch) \in Nat /\ Len(batch') = Len(batch) + 1 /\ batch'[Len(batch) + 1] = d
          /\ \A i \in 1 .. Len(batch) : batch'[i] = batch[i]
      BY <1>5, <1>6, <2>2
    <3>3. Read = [i \in 1 .. Len(batch) |-> Pair(batch[i])]
          /\ Read' = [i \in 1 .. Len(batch') |-> Pair(batch'[i])]
      BY DEF Read, Pair
    <3>4. ASSUME NEW x PROVE Append([i \in 1 .. Len(batch) |-> Pair(batch[i])], x) =
            [i \in 1 .. Len(batch) + 1 |-> IF i = Len(batch) + 1 THEN x ELSE Pair(batch[i])]
      BY <3>2
    <3>5. Read' = [i \in 1 .. Len(batch) + 1 |-> IF i = Len(batch) + 1 THEN Pair(d) ELSE Pair(batch[i])]
      BY <3>2, <3>3
    <3> QED  BY SMTT(30), <3>1, <3>3, <3>4, <3>5
  <2>4. Listed' = Listed
    BY <1>1 DEF Listed
  <2> HIDE DEF e, d
  <2> QED  BY <1>1, <1>10, <1>11, <1>12, <2>1, <2>3, <2>4 DEF Fifo!Get
<1> QED  BY <1>13, <1>14

(* Every step of the multi-HAL is a step of SensorFifo, or is not seen there. *)
LEMMA FifoNext == IInv /\ [Next]_vars => [Fifo!Next]_(Fifo!vars)
<1> SUFFICES ASSUME IInv, [Next]_vars PROVE Fifo!Next \/ UNCHANGED Fifo!vars
  OBVIOUS
<1> USE DEF openVars, queueVars, readerVars
<1>1. CASE open_sensors \/ waitForData \/ resume \/ pollEnds \/ UNCHANGED vars
  BY <1>1, FifoStutter DEF open_sensors, waitForData, resume, pollEnds, vars
<1>2. CASE assign_global_handle
  BY <1>2, FifoList DEF Fifo!Next
<1>3. CASE poll
  BY <1>3, FifoPoll DEF Fifo!Next
<1>4. CASE scan
  <2>1. CASE mSize[nextReadIndex] = 0
    BY <1>4, <2>1, FifoStutter DEF scan
  <2>2. CASE mSize[nextReadIndex] # 0
    BY <1>4, <2>2, FifoGet, NextQueue DEF Fifo!Next
  <2> QED  BY <2>1, <2>2
<1>5. ASSUME NEW q \in Queues, Writer(q) PROVE Fifo!Next \/ UNCHANGED Fifo!vars
  <2>1. CASE waitForSpace(q) \/ pollReturns(q)
    BY <2>1, FifoStutter DEF waitForSpace, pollReturns
  <2>2. CASE pollWrites(q)
    BY <2>2, FifoWrites
  <2>3. CASE markAsWritten(q)
    BY <2>3, FifoPut DEF Fifo!Next
  <2> QED  BY <1>5, <2>1, <2>2, <2>3 DEF Writer
<1> QED  BY <1>1, <1>2, <1>3, <1>4, <1>5 DEF Next, Reader

(* The multi-HAL implements a FIFO for each sub-HAL: no event is lost,        *)
(* repeated, reordered or overwritten, although the sub-HALs write to the     *)
(* slots without queue_mutex, and only events of unlisted sensors are dropped. *)
THEOREM Implements == Spec => FifoSpec
<1>1. IInv /\ [Next]_vars => [Fifo!Next]_(Fifo!vars)
  BY FifoNext
<1> QED  BY <1>1, FifoInit, Invariance, PTL DEF Spec, FifoSpec, Fifo!Spec
=============================================================================
