------------------------------ MODULE MultiHal ------------------------------
(***************************************************************************)
(* The sensors' multi-HAL (multihal.cpp): one writer thread for each       *)
(* sub-HAL polls it into a SensorEventQueue, and poll of the multi-HAL     *)
(* collects the events of all queues.  Sensors are renumbered: a global    *)
(* handle stands for a module and its local handle.                        *)
(*                                                                         *)
(* queue_mutex is held for several steps by poll alone; what a writer does *)
(* under it is one step.                                                   *)
(***************************************************************************)
EXTENDS SensorEventQueue

CONSTANTS
  Modules,      \* number of sub_hw_modules
  SensorList,   \* the sensors of all modules, in their order
  Locals,       \* local handles that events may carry
  Delivers(_),  \* the events that the sub-HAL of a queue may deliver
  MaxReads      \* maxReads of poll

Queues  == 0 .. Modules - 1
Events  == [local : Locals, meta : BOOLEAN]
Sensors == [module : Queues, local : Locals]

ASSUME MultiHalAssumption ==
  /\ Modules \in Nat
  /\ SensorList \in Seq(Sensors)
  /\ \A i, j \in 1 .. Len(SensorList) : SensorList[i] = SensorList[j] => i = j
  /\ \A q \in Queues : Delivers(q) \subseteq Events
  /\ MaxReads \in Nat \ {0}

VARIABLES
  opening,           \* modules open_sensors has been through
  opened,            \* sub_hw_devices: the module of each device
  assigned,          \* next_global_handle - 1
  mStart, mSize, mData,  \* the SensorEventQueues
  writer,            \* where each writerTask is
  first, len, count, \* its region, and the events it has written there
  reader,            \* where poll is
  empties, batch,    \* empties; the events read into data
  nextReadIndex, waiting_for_data

queueVars  == <<mStart, mSize, mData>>
writerVars == <<writer, first, len, count>>
readerVars == <<reader, empties, batch, nextReadIndex, waiting_for_data>>
openVars   == <<opening, opened, assigned>>
vars       == <<openVars, queueVars, writerVars, readerVars>>

NoEvent == [local |-> 0, meta |-> FALSE]

(* queue_mutex is free, or taken by the writer for one step. *)
Unlocked == reader # "scan"

-----------------------------------------------------------------------------
(* Opening, and the handles. *)

(* open_sensors opens the next module; addSubHwDevice starts its writer.  A *)
(* module that fails to open leaves no gap: the next one takes its index.   *)
open_sensors ==
  /\ opening < Modules
  /\ opening' = opening + 1
  /\ \/ /\ opened' = Append(opened, opening)
        /\ writer' = [writer EXCEPT ![Len(opened)] = "start"]
     \/ UNCHANGED <<opened, writer>>
  /\ UNCHANGED <<assigned, queueVars, first, len, count, readerVars>>

(* lazy_init_sensors_list gives the next sensor its global handle. *)
assign_global_handle ==
  /\ assigned < Len(SensorList)
  /\ assigned' = assigned + 1
  /\ UNCHANGED <<opening, opened, queueVars, writerVars, readerVars>>

(* The global handle of a module's sensor, or -1. *)
get_global_handle(module, local) ==
  LET found == {g \in 1 .. assigned : SensorList[g] = [module |-> module, local |-> local]}
  IN IF found = {} THEN -1 ELSE CHOOSE g \in found : TRUE

-----------------------------------------------------------------------------
(* writerTask *)

(* waitForSpace, and then getWritableRegion. *)
waitForSpace(q) ==
  /\ writer[q] \in {"start", "woken"} /\ Unlocked
  /\ IF mSize[q] = Capacity
     THEN /\ writer' = [writer EXCEPT ![q] = "blocked"]
          /\ UNCHANGED <<first, len, count>>
     ELSE /\ writer' = [writer EXCEPT ![q] = "poll"]
          /\ first' = [first EXCEPT ![q] = Slot(mStart[q], mSize[q])]
          /\ len' = [len EXCEPT ![q] = RegionLength(mStart[q], mSize[q])]
          /\ count' = [count EXCEPT ![q] = 0]
  /\ UNCHANGED <<openVars, queueVars, readerVars>>

(* device->poll writes an event to the region, without the lock. *)
pollWrites(q) ==
  /\ writer[q] = "poll" /\ count[q] < len[q]
  /\ \E e \in Delivers(q) : mData' = [mData EXCEPT ![q][first[q] + count[q]] = e]
  /\ count' = [count EXCEPT ![q] = @ + 1]
  /\ UNCHANGED <<openVars, mStart, mSize, writer, first, len, readerVars>>

(* The writer begins its next round; its local variables are dead. *)
NextRound(q) ==
  /\ writer' = [writer EXCEPT ![q] = "start"]
  /\ first' = [first EXCEPT ![q] = 0]
  /\ len' = [len EXCEPT ![q] = 0]
  /\ count' = [count EXCEPT ![q] = 0]

(* device->poll returns: nothing was polled, or the events are to be marked. *)
pollReturns(q) ==
  /\ writer[q] = "poll"
  /\ IF count[q] = 0
     THEN NextRound(q)
     ELSE /\ writer' = [writer EXCEPT ![q] = "mark"]
          /\ UNCHANGED <<first, len, count>>
  /\ UNCHANGED <<openVars, queueVars, readerVars>>

(* Mutant: the whole region is taken for written. *)
markAsWritten_Region(q) ==
  /\ writer[q] = "mark" /\ Unlocked
  /\ mSize' = [mSize EXCEPT ![q] = @ + len[q]]
  /\ NextRound(q)
  /\ reader' = IF waiting_for_data THEN "woken" ELSE reader
  /\ UNCHANGED <<openVars, mStart, mData, empties, batch, nextReadIndex,
                 waiting_for_data>>

(* markAsWritten, and a broadcast to a poll that waits. *)
markAsWritten(q) ==
  /\ writer[q] = "mark" /\ Unlocked
  /\ mSize' = [mSize EXCEPT ![q] = @ + count[q]]
  /\ NextRound(q)
  /\ reader' = IF waiting_for_data THEN "woken" ELSE reader
  /\ UNCHANGED <<openVars, mStart, mData, empties, batch, nextReadIndex,
                 waiting_for_data>>

-----------------------------------------------------------------------------
(* poll *)

(* Mutant: every poll begins with the first queue. *)
poll_First ==
  /\ reader = "idle" /\ opening = Modules
  /\ reader' = "scan"
  /\ empties' = 0
  /\ batch' = <<>>
  /\ nextReadIndex' = 0
  /\ UNCHANGED <<openVars, queueVars, writerVars, waiting_for_data>>

poll ==
  /\ reader = "idle" /\ opening = Modules
  /\ reader' = "scan"
  /\ empties' = 0
  /\ batch' = <<>>
  /\ UNCHANGED <<openVars, queueVars, writerVars, nextReadIndex, waiting_for_data>>

(* An event with its handle made global; queue and local tell its origin. *)
copy_event_remap_handle(q, e) ==
  [handle |-> get_global_handle(q, e.local), meta |-> e.meta, queue |-> q, local |-> e.local]

(* Mutant: a writer that waits for space is told when the queue runs empty. *)
dequeue_TellsLate(q) ==
  /\ mSize' = [mSize EXCEPT ![q] = @ - 1]
  /\ mStart' = [mStart EXCEPT ![q] = Slot(@, 1)]
  /\ writer' = [writer EXCEPT ![q] = IF @ = "blocked" /\ mSize[q] = 1 THEN "woken" ELSE @]

(* dequeue tells a writer that waits for space. *)
dequeue(q) ==
  /\ mSize' = [mSize EXCEPT ![q] = @ - 1]
  /\ mStart' = [mStart EXCEPT ![q] = Slot(@, 1)]
  /\ writer' = [writer EXCEPT ![q] = IF @ = "blocked" /\ mSize[q] = Capacity THEN "woken" ELSE @]

Scanning == empties < Len(opened) /\ Len(batch) < MaxReads

(* One round of the inner loop; an event of an unknown sensor is dropped. *)
scan ==
  /\ reader = "scan" /\ Scanning
  /\ LET q == nextReadIndex
         d == copy_event_remap_handle(q, mData[q][mStart[q]])
     IN IF mSize[q] = 0
        THEN /\ empties' = empties + 1
             /\ UNCHANGED <<batch, mStart, mSize, writer>>
        ELSE /\ empties' = 0
             /\ batch' = IF d.handle = -1 /\ ~d.meta THEN batch ELSE Append(batch, d)
             /\ dequeue(q)
  /\ nextReadIndex' = (nextReadIndex + 1) % Len(opened)
  /\ UNCHANGED <<openVars, mData, first, len, count, reader, waiting_for_data>>

(* No queue had data: poll waits. *)
waitForData ==
  /\ reader = "scan" /\ ~Scanning /\ batch = <<>>
  /\ reader' = "wait"
  /\ waiting_for_data' = TRUE
  /\ UNCHANGED <<openVars, queueVars, writerVars, empties, batch, nextReadIndex>>

(* pthread_cond_wait returns, spuriously too.  (A writer that is woken     *)
(* without cause finds its queue still full and waits again.)              *)
resume ==
  /\ reader \in {"wait", "woken"}
  /\ reader' = "scan"
  /\ waiting_for_data' = FALSE
  /\ empties' = 0
  /\ UNCHANGED <<openVars, queueVars, writerVars, batch, nextReadIndex>>

pollEnds ==
  /\ reader = "scan" /\ ~Scanning /\ batch # <<>>
  /\ reader' = "idle"
  /\ UNCHANGED <<openVars, queueVars, writerVars, empties, batch, nextReadIndex,
                 waiting_for_data>>

Init ==
  /\ opening = 0 /\ opened = <<>> /\ assigned = 0
  /\ mStart = [q \in Queues |-> 0] /\ mSize = [q \in Queues |-> 0]
  /\ mData = [q \in Queues |-> [s \in Slots |-> NoEvent]]
  /\ writer = [q \in Queues |-> "none"]
  /\ first = [q \in Queues |-> 0] /\ len = [q \in Queues |-> 0]
  /\ count = [q \in Queues |-> 0]
  /\ reader = "idle" /\ empties = 0 /\ batch = <<>>
  /\ nextReadIndex = 0 /\ waiting_for_data = FALSE

Writer(q) == waitForSpace(q) \/ pollWrites(q) \/ pollReturns(q) \/ markAsWritten(q)
Reader    == poll \/ scan \/ waitForData \/ resume \/ pollEnds

Next ==
  \/ open_sensors \/ assign_global_handle
  \/ Reader
  \/ \E q \in Queues : Writer(q)

Spec == Init /\ [][Next]_vars

(* The caller polls for ever, and a thread that can run does. The sub-HALs owe *)
(* nothing, and a wait may last until there is a broadcast.                    *)
FairSpec ==
  /\ Spec
  /\ WF_vars(open_sensors)
  /\ WF_vars(poll) /\ WF_vars(scan \/ waitForData \/ pollEnds)
  /\ WF_vars(reader = "woken" /\ resume)

-----------------------------------------------------------------------------
OpenTypeOK ==
  /\ opening \in 0 .. Modules
  /\ opened \in Seq(Queues) /\ Len(opened) <= opening
  /\ assigned \in 0 .. Len(SensorList)

QueueTypeOK ==
  /\ mStart \in [Queues -> Slots]
  /\ mSize \in [Queues -> 0 .. Capacity]
  /\ mData \in [Queues -> [Slots -> Events \cup {NoEvent}]]

WriterTypeOK ==
  /\ writer \in [Queues -> {"none", "start", "poll", "mark", "blocked", "woken"}]
  /\ first \in [Queues -> Slots]
  /\ len \in [Queues -> 0 .. Capacity]
  /\ count \in [Queues -> 0 .. Capacity]

ReadEvents == [handle : -1 .. Len(SensorList), meta : BOOLEAN, queue : Queues,
               local : Locals \cup {0}]

ReaderTypeOK ==
  /\ reader \in {"idle", "scan", "wait", "woken"}
  /\ empties \in 0 .. Modules
  /\ batch \in Seq(ReadEvents) /\ Len(batch) <= MaxReads
  /\ nextReadIndex \in Nat
  /\ nextReadIndex > 0 => nextReadIndex < Len(opened)
  /\ waiting_for_data \in BOOLEAN

(* Type correctness of the multi-HAL's state: the queues' indices stay in the *)
(* array, and poll indexes a queue that exists.                               *)
TypeOK == OpenTypeOK /\ QueueTypeOK /\ WriterTypeOK /\ ReaderTypeOK

Region(q) == first[q] .. first[q] + len[q] - 1

(* The region a sub-HAL fills without queue_mutex (writerTask: "Do blocking   *)
(* poll outside of lock") lies in the array and holds no event that poll may  *)
(* still read, whatever poll has dequeued since the region was handed out.    *)
RegionIsFree ==
  \A q \in Queues : writer[q] \in {"poll", "mark"} =>
    /\ Region(q) \subseteq Slots
    /\ Region(q) \cap Readable(mStart[q], mSize[q]) = {}

(* No wake-up is lost: poll sleeps on data_available_cond only while every    *)
(* queue is empty, and a writer on mSpaceAvailableCondition only while its    *)
(* queue is full, although each side broadcasts only when it sees a reason to. *)
NoLostWakeup ==
  /\ reader = "wait" => \A q \in Queues : mSize[q] = 0
  /\ \A q \in Queues : writer[q] = "blocked" => mSize[q] = Capacity

(* Round robin: the oldest event of a queue is read in the end, even if the   *)
(* other sub-HALs deliver all the time and poll returns after few events.     *)
OldestEventIsRead ==
  \A q \in Queues, s \in Slots :
    (mSize[q] > 0 /\ mStart[q] = s) ~> (mStart[q] # s)

(* What the queues, data and the list of sensors stand for in SensorFifo. *)
Unread == [q \in Queues |-> Contents(mStart[q], mSize[q], mData[q])]
Read   == [i \in 1 .. Len(batch) |->
            <<batch[i].queue, [local |-> batch[i].local, meta |-> batch[i].meta]>>]
Listed == {<<SensorList[g].module, SensorList[g].local>> : g \in 1 .. assigned}

Fifo == INSTANCE SensorFifo WITH fifo <- Unread, batch <- Read, listed <- Listed

(* The queues and poll implement a FIFO for each sub-HAL: no event is lost,   *)
(* repeated, reordered or overwritten while writers fill slots without the    *)
(* lock; only events of sensors that were not listed are dropped.             *)
FifoSpec == Fifo!Spec
=============================================================================
