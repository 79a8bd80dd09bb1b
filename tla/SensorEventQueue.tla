-------------------------- MODULE SensorEventQueue --------------------------
(***************************************************************************)
(* The circular queue of sensor events (SensorEventQueue.cpp): a writer    *)
(* asks for a contiguous region of free slots and fills it without the     *)
(* lock, then reports how many slots it has written.                       *)
(***************************************************************************)
EXTENDS Integers, Sequences

CONSTANT Capacity   \* SENSOR_EVENT_QUEUE_CAPACITY

ASSUME CapacityAssumption == Capacity \in Nat \ {0}

Slots == 0 .. Capacity - 1

(* Mutant: the position is not wrapped. *)
Slot_NoWrap(s, k) == s + k

(* The slot that is k places behind slot s. *)
Slot(s, k) == (s + k) % Capacity

(* Mutant: the region may run into the readable events. *)
LastWritable_Overruns(start, first) == Capacity - 1

(* The last slot of the region that begins at first, when Capacity slots are *)
(* asked for: neither past the end of the array nor into what is readable.   *)
LastWritable(start, first) == IF first < start THEN start - 1 ELSE Capacity - 1

(* getWritableRegion of a queue that is not full: the length of the region. *)
RegionLength(start, size) ==
  LastWritable(start, Slot(start, size)) - Slot(start, size) + 1

(* The readable slots, and the events in them, oldest first. *)
Readable(start, size)       == {Slot(start, k) : k \in 0 .. size - 1}
Contents(start, size, data) == [k \in 1 .. size |-> data[Slot(start, k - 1)]]
=============================================================================
