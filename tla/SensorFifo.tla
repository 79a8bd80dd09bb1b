---------------------------- MODULE SensorFifo ----------------------------
(***************************************************************************)
(* What the sensors' multi-HAL promises: the events of each sub-HAL reach  *)
(* the caller of poll in their order, each once, in batches of at most     *)
(* MaxReads.  Only an event that names no listed sensor is dropped.        *)
(***************************************************************************)
EXTENDS Integers, Sequences

CONSTANTS
  Queues,     \* one queue for each sub-HAL that was opened
  Events,     \* [local : a handle of the sub-HAL, meta : BOOLEAN]
  Capacity,   \* events a queue holds
  MaxReads    \* events a caller of poll has room for

VARIABLES
  fifo,    \* the events of each queue that have not been read
  batch,   \* what the running poll has read: <<queue, event>>
  listed   \* the sensors that have a global handle: <<queue, local handle>>

vars == <<fifo, batch, listed>>

Init ==
  /\ fifo = [q \in Queues |-> <<>>]
  /\ batch = <<>>
  /\ listed = {}

(* A sub-HAL has polled some events. *)
Put(q) ==
  /\ \E n \in 1 .. Capacity - Len(fifo[q]) : \E s \in [1 .. n -> Events] :
       fifo' = [fifo EXCEPT ![q] = @ \o s]
  /\ UNCHANGED <<batch, listed>>

(* The oldest event of a queue is read, or dropped. *)
Get(q) ==
  /\ fifo[q] # <<>>
  /\ Len(batch) < MaxReads
  /\ LET e == Head(fifo[q])
     IN IF e.meta \/ <<q, e.local>> \in listed
        THEN batch' = Append(batch, <<q, e>>)
        ELSE UNCHANGED batch
  /\ fifo' = [fifo EXCEPT ![q] = Tail(@)]
  /\ UNCHANGED listed

(* The caller has taken the events and polls again. *)
Poll ==
  /\ batch' = <<>>
  /\ UNCHANGED <<fifo, listed>>

List ==
  /\ listed \subseteq listed'
  /\ UNCHANGED <<fifo, batch>>

Next == Poll \/ List \/ \E q \in Queues : Put(q) \/ Get(q)

Spec == Init /\ [][Next]_vars
=============================================================================
