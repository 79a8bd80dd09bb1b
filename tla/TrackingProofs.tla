--------------------------- MODULE TrackingProofs ---------------------------
(***************************************************************************)
(* Proofs about Tracking, for any clients, intervals and setups.           *)
(*                                                                         *)
(* The properties are proved one after the other on top of the types.      *)
(* What they need of the message queue are facts about the order of its    *)
(* messages; each is an operator on sequences with lemmas on what Tail     *)
(* and Append do to it.                                                    *)
(***************************************************************************)
EXTENDS Tracking, TLAPS

(* What may be in the queue of the MsgTask.                                *)
Msgs ==
       [kind : {"AddClient"}, client : Clients, cb : SUBSET Bits]
  \cup [kind : {"RemoveClient"}, client : Clients]
  \cup [kind : {"StartTracking", "UpdateTracking"}, key : Keys, options : Options]
  \cup [kind : {"StopTracking"}, key : Keys]
  \cup [kind : {"LocOpen"}, mask : SUBSET (Bits \cup {Server})]
  \cup [kind : {"LocSsr", "RestartSessions", "AgpsMsgInit"}]

TypeInv == setup \in Setups /\ queue \in Seq(Msgs) /\ TypeOK

-----------------------------------------------------------------------------
(* Types. *)

(* A session id is in range, and so is the next.                           *)
LEMMA NextIdType ==
  ASSUME setup \in Setups, idCounter \in Ids
  PROVE  NextId \in Ids
BY TrackingAssumption DEF NextId, Ids, TrackingAssumption

(* The masks of clients are sets of bits.                                  *)
LEMMA MaskType ==
  ASSUME NEW C \in SUBSET Clients, NEW cb \in [Clients -> SUBSET Bits]
  PROVE  ClientsMask(C, cb) \subseteq Bits
BY DEF ClientsMask

(* Every message that is posted is one of Msgs.                            *)
LEMMA MsgTypes ==
  /\ \A c \in Clients : RemoveMsg(c) \in Msgs
  /\ \A c \in Clients, cb \in SUBSET Bits : AddMsg(c, cb) \in Msgs
  /\ \A k \in Keys, o \in Options :
       {StartMsg(k, o), UpdateMsg(k, o), StopMsg(k)} \subseteq Msgs
  /\ \A mask \in SUBSET (Bits \cup {Server}) : OpenMsg(mask) \in Msgs
  /\ {SsrMsg, RestartMsg, AgpsInitMsg} \subseteq Msgs
BY DEF Msgs, RemoveMsg, AddMsg, StartMsg, UpdateMsg, StopMsg, OpenMsg, SsrMsg, RestartMsg,
       AgpsInitMsg

(* What the message at the head of the queue carries.                      *)
LEMMA HeadType ==
  ASSUME TypeInv, queue # <<>>
  PROVE  /\ Tail(queue) \in Seq(Msgs)
         /\ Head(queue) \in Msgs
         /\ Proc("AddClient") => Head(queue).client \in Clients /\ Head(queue).cb \in SUBSET Bits
         /\ Proc("RemoveClient") => Head(queue).client \in Clients
         /\ Proc("StartTracking") \/ Proc("UpdateTracking")
              => Head(queue).key \in Keys /\ Head(queue).options \in Options
         /\ Proc("StopTracking") => Head(queue).key \in Keys
         /\ Proc("LocOpen") => Head(queue).mask \in SUBSET (Bits \cup {Server})
<1>1. Tail(queue) \in Seq(Msgs) /\ Head(queue) \in Msgs
  BY DEF TypeInv
<1> QED  BY <1>1 DEF Proc, Msgs

(* The sessions stay sessions, the fix a fix.                              *)
LEMMA SaveType ==
  ASSUME TypeInv, NEW k \in Keys, NEW o \in Options
  PROVE  /\ DOMAIN Save(k, o) = DOMAIN sessions \cup {k}
         /\ \A j \in DOMAIN Save(k, o) : Save(k, o)[j] = IF j = k THEN o ELSE sessions[j]
         /\ DOMAIN Save(k, o) \subseteq Keys
         /\ \A j \in DOMAIN Save(k, o) : Save(k, o)[j] \in Options
BY DEF Save, TypeInv, TypeOK

(* Erasing a session leaves the others. *)
LEMMA EraseType ==
  ASSUME TypeInv, NEW k
  PROVE  /\ DOMAIN Erase(k) = DOMAIN sessions \ {k}
         /\ \A j \in DOMAIN Erase(k) : Erase(k)[j] = sessions[j]
         /\ DOMAIN Erase(k) \subseteq Keys
         /\ \A j \in DOMAIN Erase(k) : Erase(k)[j] \in Options
BY DEF Erase, Restrict, TypeInv, TypeOK

(* Whatever the multiplexer decides, the engine runs options it knows. *)
LEMMA MultiplexTypes ==
  ASSUME TypeInv, NEW k, NEW o \in Options, NEW ok \in BOOLEAN,
         \/ startTrackingMultiplex(o, ok)
         \/ updateTrackingMultiplex(k, o, ok)
         \/ stopTrackingMultiplex(k, ok)
  PROVE  fix' \in Options \cup {NoFix}
BY DEF TypeInv, TypeOK, startTrackingMultiplex, updateTrackingMultiplex, stopTrackingMultiplex,
       startTracking, stopTracking, Smallest

(* TypeInv does not depend on what the environment has left to do.         *)
LEMMA TypesStep ==
  ASSUME TypeInv, [Next]_vars
  PROVE  TypeInv'
<1> USE DEF TypeInv
<1>1. CASE UNCHANGED vars
  BY <1>1 DEF vars, TypeOK, Keys, Ids, Msgs
<1> SUFFICES ASSUME ProcMsg \/ Commands, UNCHANGED setup PROVE TypeInv'
  BY <1>1 DEF Next
<1>2. Keys' = Keys /\ Ids' = Ids /\ Msgs' = Msgs
  BY DEF Keys, Ids, Msgs
<1>3. ASSUME Proc("AddClient") \/ Proc("RemoveClient") \/ Proc("StartTracking")
             \/ Proc("UpdateTracking") \/ Proc("StopTracking") \/ Proc("LocOpen")
             \/ Proc("LocSsr") \/ Proc("RestartSessions") \/ Proc("AgpsMsgInit")
      PROVE  Tail(queue) \in Seq(Msgs)
  BY <1>3, HeadType DEF Proc
<1>4. ASSUME NEW mask \in SUBSET (Bits \cup {Server}), NEW Q \in Seq(Msgs), updateEvtMask(mask, Q)
      PROVE  mEvtMask' \subseteq Bits \cup {Server} /\ queue' \in Seq(Msgs)
  BY <1>4, MsgTypes DEF updateEvtMask
<1>5. ASSUME NEW m \in Msgs, Post(m)
      PROVE  queue' \in Seq(Msgs)
  BY <1>5 DEF Post
<1>6. Ok \subseteq BOOLEAN
  BY DEF Ok
<1>11. ASSUME MsgAddClient PROVE TypeInv'
  <2>1. Head(queue).client \in Clients /\ Head(queue).cb \in SUBSET Bits
    BY <1>11, HeadType DEF MsgAddClient, Proc
  <2>2. [callbacks EXCEPT ![Head(queue).client] = Head(queue).cb] \in [Clients -> SUBSET Bits]
    BY <2>1 DEF TypeOK
  <2>3. ClientsMask(clients \cup {Head(queue).client},
                    [callbacks EXCEPT ![Head(queue).client] = Head(queue).cb]) \subseteq Bits
    BY <2>1, <2>2, MaskType DEF TypeOK
  <2>4. mEvtMask' \subseteq Bits \cup {Server} /\ queue' \in Seq(Msgs)
    BY <1>11, <1>3, <1>4, <2>3 DEF MsgAddClient
  <2> QED  BY <1>11, <1>2, <2>1, <2>2, <2>4 DEF MsgAddClient, TypeOK
<1>12. ASSUME StopClientSession PROVE TypeInv'
  <2>1. PICK k \in ClientKeys(Head(queue).client) \ skipped, ok \in BOOLEAN :
          /\ stopTrackingMultiplex(k, ok)
          /\ IF ok THEN sessions' = Erase(k) /\ UNCHANGED skipped
                   ELSE skipped' = skipped \cup {k} /\ UNCHANGED sessions
    BY <1>12, <1>6 DEF StopClientSession
  <2>2. k \in Keys
    BY DEF ClientKeys, TypeOK
  <2>3. /\ skipped' \subseteq Keys /\ DOMAIN sessions' \subseteq Keys
        /\ \A j \in DOMAIN sessions' : sessions'[j] \in Options
    BY <2>1, <2>2, EraseType DEF TypeOK
  <2>4. fix' \in Options \cup {NoFix}
    BY <2>1 DEF TypeOK, stopTrackingMultiplex, startTracking, stopTracking, Smallest
  <2> QED  BY <1>12, <1>2, <2>3, <2>4 DEF StopClientSession, TypeOK
<1>13. ASSUME EraseClient PROVE TypeInv'
  <2>1. ClientsMask(clients \ {Head(queue).client}, callbacks) \subseteq Bits
    BY MaskType DEF TypeOK
  <2>2. mEvtMask' \subseteq Bits \cup {Server} /\ queue' \in Seq(Msgs)
    BY <1>13, <1>3, <1>4, <2>1 DEF EraseClient
  <2>3. orphans' \subseteq Keys
    BY <1>13 DEF EraseClient, ClientKeys, TypeOK
  <2> QED  BY <1>13, <1>2, <2>2, <2>3 DEF EraseClient, TypeOK
<1>14. ASSUME MsgStartTracking PROVE TypeInv'
  <2>1. Head(queue).key \in Keys /\ Head(queue).options \in Options
    BY <1>14, HeadType DEF MsgStartTracking, Proc
  <2>2. CASE UNCHANGED <<sessions, fix>>
    BY <1>14, <1>2, <1>3, <2>2 DEF MsgStartTracking, TypeOK
  <2>3. CASE \E ok \in Ok : /\ startTrackingMultiplex(Head(queue).options, ok)
                            /\ sessions' = IF ok THEN Save(Head(queue).key, Head(queue).options)
                                                 ELSE sessions
    <3>1. fix' \in Options \cup {NoFix}
      BY <1>6, <2>1, <2>3, MultiplexTypes
    <3>2. DOMAIN sessions' \subseteq Keys /\ \A j \in DOMAIN sessions' : sessions'[j] \in Options
      <4> DEFINE saved == Save(Head(queue).key, Head(queue).options)
      <4>1. DOMAIN saved \subseteq Keys /\ \A j \in DOMAIN saved : saved[j] \in Options
        BY <2>1, SaveType
      <4> HIDE DEF saved
      <4>2. sessions' = saved \/ sessions' = sessions
        BY <2>3 DEF saved
      <4>3. DOMAIN sessions \subseteq Keys /\ \A j \in DOMAIN sessions : sessions[j] \in Options
        BY DEF TypeInv, TypeOK
      <4> QED  BY <4>1, <4>2, <4>3
    <3> QED  BY <1>14, <1>2, <1>3, <3>1, <3>2 DEF MsgStartTracking, TypeOK
  <2> QED  BY <1>14, <2>2, <2>3 DEF MsgStartTracking
<1>15. ASSUME MsgUpdateTracking PROVE TypeInv'
  <2>1. Head(queue).key \in Keys /\ Head(queue).options \in Options
    BY <1>15, HeadType DEF MsgUpdateTracking, Proc
  <2>2. CASE UNCHANGED <<sessions, fix>>
    BY <1>15, <1>2, <1>3, <2>2 DEF MsgUpdateTracking, TypeOK
  <2>3. CASE \E ok \in Ok :
               /\ updateTrackingMultiplex(Head(queue).key, Head(queue).options, ok)
               /\ sessions' = IF ok THEN Save(Head(queue).key, Head(queue).options) ELSE sessions
    <3>1. fix' \in Options \cup {NoFix}
      BY <1>6, <2>1, <2>3, MultiplexTypes
    <3>2. DOMAIN sessions' \subseteq Keys /\ \A j \in DOMAIN sessions' : sessions'[j] \in Options
      <4> DEFINE saved == Save(Head(queue).key, Head(queue).options)
      <4>1. DOMAIN saved \subseteq Keys /\ \A j \in DOMAIN saved : saved[j] \in Options
        BY <2>1, SaveType
      <4> HIDE DEF saved
      <4>2. sessions' = saved \/ sessions' = sessions
        BY <2>3 DEF saved
      <4>3. DOMAIN sessions \subseteq Keys /\ \A j \in DOMAIN sessions : sessions[j] \in Options
        BY DEF TypeInv, TypeOK
      <4> QED  BY <4>1, <4>2, <4>3
    <3> QED  BY <1>15, <1>2, <1>3, <3>1, <3>2 DEF MsgUpdateTracking, TypeOK
  <2> QED  BY <1>15, <2>2, <2>3 DEF MsgUpdateTracking
<1>16. ASSUME MsgStopTracking PROVE TypeInv'
  <2>1. CASE UNCHANGED <<sessions, fix>>
    BY <1>16, <1>2, <1>3, <2>1 DEF MsgStopTracking, TypeOK
  <2>2. CASE \E ok \in Ok : /\ stopTrackingMultiplex(Head(queue).key, ok)
                            /\ sessions' = IF ok THEN Erase(Head(queue).key) ELSE sessions
    <3>1. fix' \in Options \cup {NoFix}
      BY <1>6, <2>2 DEF TypeOK, stopTrackingMultiplex, startTracking, stopTracking, Smallest
    <3>2. DOMAIN sessions' \subseteq Keys /\ \A j \in DOMAIN sessions' : sessions'[j] \in Options
      BY <1>6, <2>2, EraseType DEF TypeOK
    <3> QED  BY <1>16, <1>2, <1>3, <3>1, <3>2 DEF MsgStopTracking, TypeOK
  <2> QED  BY <1>16, <2>1, <2>2 DEF MsgStopTracking
<1>17. ASSUME LocOpen PROVE TypeInv'
  BY <1>17, <1>2, <1>3, HeadType DEF LocOpen, TypeOK
<1>18. ASSUME LocSsr PROVE TypeInv'
  BY <1>18, <1>2, <1>3 DEF LocSsr, TypeOK
<1>19. ASSUME RestartSessions PROVE TypeInv'
  <2>1. fix' \in Options \cup {NoFix}
    BY <1>19, <1>6 DEF RestartSessions, TypeOK, startTracking, Smallest
  <2> QED  BY <1>19, <1>2, <1>3, <2>1 DEF RestartSessions, TypeOK
<1>20. ASSUME AgpsMsgInit PROVE TypeInv'
  <2>1. mEvtMask \cup {Server} \subseteq Bits \cup {Server}
    BY DEF TypeOK
  <2>2. mEvtMask' \subseteq Bits \cup {Server} /\ queue' \in Seq(Msgs)
    BY <1>20, <1>3, <1>4, <2>1 DEF AgpsMsgInit
  <2> QED  BY <1>20, <1>2, <2>2 DEF AgpsMsgInit, TypeOK
<1>21. ASSUME NEW c \in Clients, NEW cb \in setup.callbackSets, addClientCommand(c, cb)
       PROVE  TypeInv'
  <2>1. cb \in SUBSET Bits
    BY TrackingAssumption DEF TrackingAssumption
  <2>2. queue' \in Seq(Msgs)
    BY <1>5, <1>21, <2>1, MsgTypes DEF addClientCommand
  <2> QED  BY <1>21, <1>2, <2>2 DEF addClientCommand, TypeOK
<1>22. ASSUME NEW c \in Clients, removeClientCommand(c) PROVE TypeInv'
  <2>1. queue' \in Seq(Msgs)
    BY <1>5, <1>22, MsgTypes DEF removeClientCommand
  <2> QED  BY <1>22, <1>2, <2>1 DEF removeClientCommand, TypeOK
<1>23. ASSUME NEW c \in Clients, NEW o \in Options, startTrackingCommand(c, o) PROVE TypeInv'
  <2>1. NextId \in Ids
    BY NextIdType DEF TypeOK
  <2>2. <<c, NextId>> \in Keys
    BY <2>1 DEF Keys
  <2>3. StartMsg(<<c, NextId>>, o) \in Msgs
    BY <2>2, MsgTypes
  <2>4. queue' \in Seq(Msgs)
    BY <1>5, <1>23, <2>3 DEF startTrackingCommand
  <2> QED  BY <1>23, <1>2, <2>1, <2>4 DEF startTrackingCommand, TypeOK
<1>24. ASSUME NEW k \in DOMAIN sessions, NEW o \in Options, updateTrackingOptionsCommand(k, o)
       PROVE  TypeInv'
  <2>1. UpdateMsg(k, o) \in Msgs
    BY MsgTypes DEF TypeOK
  <2>2. queue' \in Seq(Msgs)
    BY <1>5, <1>24, <2>1 DEF updateTrackingOptionsCommand
  <2> QED  BY <1>24, <1>2, <2>2 DEF updateTrackingOptionsCommand, TypeOK
<1>25. ASSUME NEW k \in DOMAIN sessions, stopTrackingCommand(k) PROVE TypeInv'
  <2>1. StopMsg(k) \in Msgs
    BY MsgTypes DEF TypeOK
  <2>2. queue' \in Seq(Msgs)
    BY <1>5, <1>25, <2>1 DEF stopTrackingCommand
  <2> QED  BY <1>25, <1>2, <2>2 DEF stopTrackingCommand, TypeOK
<1>26. ASSUME initAgpsCommand PROVE TypeInv'
  <2>1. queue' \in Seq(Msgs)
    BY <1>5, <1>26, MsgTypes DEF initAgpsCommand
  <2> QED  BY <1>26, <1>2, <2>1 DEF initAgpsCommand, TypeOK
<1>27. ASSUME handleEngineUpEvent PROVE TypeInv'
  <2>1. queue' \in Seq(Msgs)
    BY <1>27, MsgTypes DEF handleEngineUpEvent
  <2>2. setup.maxResets \in Nat
    BY TrackingAssumption DEF TrackingAssumption
  <2>3. resets' \in 0..setup.maxResets
    BY <1>27, <2>2 DEF handleEngineUpEvent, TypeOK
  <2> QED  BY <1>27, <1>2, <2>1, <2>3 DEF handleEngineUpEvent, TypeOK
<1> QED
  BY <1>11, <1>12, <1>13, <1>14, <1>15, <1>16, <1>17, <1>18, <1>19, <1>20, <1>21, <1>22,
     <1>23, <1>24, <1>25, <1>26, <1>27 DEF ProcMsg, Commands

(* What Init sets up is well typed.                                        *)
LEMMA TypesInit == Init => TypeInv
<1> SUFFICES ASSUME Init PROVE TypeInv
  OBVIOUS
<1>1. setup.sessionIdMax \in Nat \ {0, 1} /\ setup.maxResets \in Nat
  BY TrackingAssumption DEF Init, TrackingAssumption
<1> QED  BY <1>1 DEF Init, TypeInv, TypeOK, Ids

(* The state of the adapter and of the engine, and every message between   *)
(* them, are what the code takes them to be; session ids stay below their  *)
(* limit when the counter wraps (generateSessionId).                       *)
THEOREM TypeCorrect == Spec => []TypeOK
<1>1. Spec => []TypeInv
  BY TypesInit, TypesStep, PTL DEF Spec
<1> QED  BY <1>1, PTL DEF TypeInv

-----------------------------------------------------------------------------
(* The order of messages. *)

(* A message of one of these kinds is under way: Queued(kinds) is           *)
(* Under(queue, kinds).                                                    *)
Under(q, kinds) == \E i \in DOMAIN q : q[i].kind \in kinds

(* Every LocSsr has its RestartSessions behind it.                         *)
RestartFollows(q) ==
  \A i \in DOMAIN q : q[i].kind = "LocSsr" =>
    \E j \in DOMAIN q : i < j /\ q[j].kind = "RestartSessions"

(* The last mask under way is mask.                                        *)
LastMask(q, mask) ==
  \A i \in DOMAIN q : q[i].kind = "LocOpen" =>
    q[i].mask = mask \/ \E j \in DOMAIN q : i < j /\ q[j].kind = "LocOpen"

(* The sessions to be started have ids of their own.                       *)
FreshIds(q, S) ==
  \A i \in DOMAIN q : q[i].kind = "StartTracking" =>
    /\ \A k \in S : k[2] # q[i].key[2]
    /\ \A j \in DOMAIN q : i < j /\ q[j].kind = "StartTracking" => q[j].key[2] # q[i].key[2]

(* A queue without its head, index by index. *)
LEMMA TailFacts ==
  ASSUME NEW q \in Seq(Msgs), q # <<>>
  PROVE  /\ DOMAIN q = 1..Len(q) /\ DOMAIN Tail(q) = 1..(Len(q) - 1)
         /\ \A i \in DOMAIN Tail(q) : i + 1 \in DOMAIN q /\ Tail(q)[i] = q[i + 1]
         /\ \A i \in DOMAIN q : i = 1 \/ (i - 1 \in DOMAIN Tail(q) /\ q[i] = Tail(q)[i - 1])
         /\ Len(q) \in Nat \ {0} /\ Head(q) = q[1] /\ Tail(q) \in Seq(Msgs)
OBVIOUS

(* A queue with one more message, index by index. *)
LEMMA AppendFacts ==
  ASSUME NEW q \in Seq(Msgs), NEW m \in Msgs
  PROVE  /\ DOMAIN q = 1..Len(q) /\ DOMAIN Append(q, m) = 1..(Len(q) + 1)
         /\ Len(q) \in Nat
         /\ \A i \in DOMAIN q : Append(q, m)[i] = q[i]
         /\ Append(q, m)[Len(q) + 1] = m /\ Append(q, m) \in Seq(Msgs)
OBVIOUS

(* A kind is queued if it is at the head or behind it. *)
LEMMA UnderTail ==
  ASSUME NEW q \in Seq(Msgs), q # <<>>, NEW kinds
  PROVE  Under(q, kinds) <=> Head(q).kind \in kinds \/ Under(Tail(q), kinds)
<1>1. ASSUME NEW i \in DOMAIN q, q[i].kind \in kinds
      PROVE  Head(q).kind \in kinds \/ Under(Tail(q), kinds)
  BY <1>1, TailFacts DEF Under
<1>2. ASSUME Under(Tail(q), kinds) PROVE Under(q, kinds)
  BY <1>2, TailFacts DEF Under
<1>3. 1 \in DOMAIN q
  BY TailFacts
<1> QED  BY <1>1, <1>2, <1>3, TailFacts DEF Under

(* A posted message is queued, and nothing else new is. *)
LEMMA UnderAppend ==
  ASSUME NEW q \in Seq(Msgs), NEW m \in Msgs, NEW kinds
  PROVE  Under(Append(q, m), kinds) <=> Under(q, kinds) \/ m.kind \in kinds
<1>1. ASSUME NEW i \in DOMAIN Append(q, m), Append(q, m)[i].kind \in kinds
      PROVE  Under(q, kinds) \/ m.kind \in kinds
  BY <1>1, AppendFacts DEF Under
<1>2. ASSUME Under(q, kinds) PROVE Under(Append(q, m), kinds)
  BY <1>2, AppendFacts DEF Under
<1>3. ASSUME m.kind \in kinds PROVE Under(Append(q, m), kinds)
  BY <1>3, AppendFacts DEF Under
<1> QED  BY <1>1, <1>2, <1>3 DEF Under

(* handleEngineUpEvent posts two messages.                                 *)
LEMMA TwoAppends ==
  ASSUME NEW q \in Seq(Msgs), NEW m \in Msgs, NEW n \in Msgs
  PROVE  q \o <<m, n>> = Append(Append(q, m), n)
OBVIOUS

(* The restart queued behind an engine-up message stays behind it. *)
LEMMA RestartTail ==
  ASSUME NEW q \in Seq(Msgs), q # <<>>, RestartFollows(q)
  PROVE  /\ RestartFollows(Tail(q))
         /\ Head(q).kind = "LocSsr" => Under(Tail(q), {"RestartSessions"})
<1> USE DEF RestartFollows
<1>1. ASSUME NEW i \in DOMAIN Tail(q), Tail(q)[i].kind = "LocSsr"
      PROVE  \E j \in DOMAIN Tail(q) : i < j /\ Tail(q)[j].kind = "RestartSessions"
  <2>1. PICK j \in DOMAIN q : i + 1 < j /\ q[j].kind = "RestartSessions"
    BY <1>1, TailFacts
  <2>2. j - 1 \in DOMAIN Tail(q) /\ i < j - 1 /\ Tail(q)[j - 1].kind = "RestartSessions"
    BY <1>1, <2>1, TailFacts
  <2> QED  BY <2>2
<1>2. ASSUME Head(q).kind = "LocSsr" PROVE Under(Tail(q), {"RestartSessions"})
  <2>1. PICK j \in DOMAIN q : 1 < j /\ q[j].kind = "RestartSessions"
    BY <1>2, TailFacts
  <2>2. j - 1 \in DOMAIN Tail(q) /\ Tail(q)[j - 1].kind = "RestartSessions"
    BY <2>1, TailFacts
  <2> QED  BY <2>2 DEF Under
<1> QED  BY <1>1, <1>2

(* A posted message does not come between the two. *)
LEMMA RestartAppend ==
  ASSUME NEW q \in Seq(Msgs), NEW m \in Msgs, RestartFollows(q), m.kind # "LocSsr"
  PROVE  RestartFollows(Append(q, m))
<1> SUFFICES ASSUME NEW i \in DOMAIN Append(q, m), Append(q, m)[i].kind = "LocSsr"
             PROVE  \E j \in DOMAIN Append(q, m) :
                      i < j /\ Append(q, m)[j].kind = "RestartSessions"
  BY DEF RestartFollows
<1>1. i \in DOMAIN q /\ q[i].kind = "LocSsr"
  BY AppendFacts
<1>2. PICK j \in DOMAIN q : i < j /\ q[j].kind = "RestartSessions"
  BY <1>1 DEF RestartFollows
<1> QED  BY <1>2, AppendFacts

(* The two are posted together. *)
LEMMA RestartReset ==
  ASSUME NEW q \in Seq(Msgs), RestartFollows(q)
  PROVE  RestartFollows(q \o <<SsrMsg, RestartMsg>>)
<1> DEFINE r == q \o <<SsrMsg, RestartMsg>>
<1>1. {SsrMsg, RestartMsg} \subseteq Msgs
  BY MsgTypes
<1>2. /\ r \in Seq(Msgs) /\ Len(q) \in Nat /\ DOMAIN r = 1..(Len(q) + 2)
      /\ DOMAIN q = 1..Len(q) /\ \A i \in DOMAIN q : r[i] = q[i]
      /\ r[Len(q) + 2] = RestartMsg
  BY <1>1
<1>3. RestartMsg.kind = "RestartSessions"
  BY DEF RestartMsg
<1>4. ASSUME NEW i \in DOMAIN r, r[i].kind = "LocSsr"
      PROVE  \E j \in DOMAIN r : i < j /\ r[j].kind = "RestartSessions"
  <2>1. i # Len(q) + 2
    BY <1>2, <1>3, <1>4
  <2> QED  BY <1>2, <1>3, <2>1
<1> QED  BY <1>4 DEF RestartFollows

(* The last mask queued stays the last, and is the head when it is alone. *)
LEMMA MaskTail ==
  ASSUME NEW q \in Seq(Msgs), q # <<>>, NEW mask, LastMask(q, mask)
  PROVE  /\ LastMask(Tail(q), mask)
         /\ Head(q).kind = "LocOpen" /\ ~Under(Tail(q), {"LocOpen"}) => Head(q).mask = mask
<1> USE DEF LastMask
<1>1. ASSUME NEW i \in DOMAIN Tail(q), Tail(q)[i].kind = "LocOpen", Tail(q)[i].mask # mask
      PROVE  \E j \in DOMAIN Tail(q) : i < j /\ Tail(q)[j].kind = "LocOpen"
  <2>1. PICK j \in DOMAIN q : i + 1 < j /\ q[j].kind = "LocOpen"
    BY <1>1, TailFacts
  <2>2. j - 1 \in DOMAIN Tail(q) /\ i < j - 1 /\ Tail(q)[j - 1].kind = "LocOpen"
    BY <1>1, <2>1, TailFacts
  <2> QED  BY <2>2
<1>2. ASSUME Head(q).kind = "LocOpen", Head(q).mask # mask PROVE Under(Tail(q), {"LocOpen"})
  <2>1. PICK j \in DOMAIN q : 1 < j /\ q[j].kind = "LocOpen"
    BY <1>2, TailFacts
  <2>2. j - 1 \in DOMAIN Tail(q) /\ Tail(q)[j - 1].kind = "LocOpen"
    BY <2>1, TailFacts
  <2> QED  BY <2>2 DEF Under
<1> QED  BY <1>1, <1>2

(* A new mask becomes the last. *)
LEMMA MaskAppend ==
  ASSUME NEW q \in Seq(Msgs), NEW m \in Msgs, NEW mask,
         \/ LastMask(q, mask) /\ m.kind # "LocOpen"
         \/ m.kind = "LocOpen" /\ m.mask = mask
  PROVE  LastMask(Append(q, m), mask)
<1> SUFFICES ASSUME NEW i \in DOMAIN Append(q, m), Append(q, m)[i].kind = "LocOpen",
                    Append(q, m)[i].mask # mask
             PROVE  \E j \in DOMAIN Append(q, m) : i < j /\ Append(q, m)[j].kind = "LocOpen"
  BY DEF LastMask
<1>1. i \in DOMAIN q /\ q[i].kind = "LocOpen" /\ q[i].mask # mask
  BY AppendFacts
<1>2. CASE m.kind = "LocOpen"
  BY <1>1, <1>2, AppendFacts
<1>3. CASE LastMask(q, mask)
  BY <1>1, <1>3, AppendFacts DEF LastMask
<1> QED  BY <1>2, <1>3

(* The id of a start taken off the queue is not queued again. *)
LEMMA FreshTail ==
  ASSUME NEW q \in Seq(Msgs), q # <<>>, NEW S, FreshIds(q, S)
  PROVE  /\ FreshIds(Tail(q), S)
         /\ Head(q).kind = "StartTracking" =>
              /\ Head(q).key \notin S
              /\ FreshIds(Tail(q), S \cup {Head(q).key})
<1> USE DEF FreshIds
<1>1. FreshIds(Tail(q), S)
  BY TailFacts
<1>2. ASSUME Head(q).kind = "StartTracking"
      PROVE  /\ \A k \in S : k[2] # Head(q).key[2]
             /\ \A i \in DOMAIN Tail(q) :
                  Tail(q)[i].kind = "StartTracking" => Tail(q)[i].key[2] # Head(q).key[2]
  <2>1. 1 \in DOMAIN q /\ q[1] = Head(q)
    BY TailFacts
  <2>2. \A i \in DOMAIN Tail(q) : i + 1 \in DOMAIN q /\ 1 < i + 1 /\ Tail(q)[i] = q[i + 1]
    BY TailFacts
  <2> QED  BY <1>2, <2>1, <2>2
<1>3. ASSUME Head(q).kind = "StartTracking" PROVE FreshIds(Tail(q), S \cup {Head(q).key})
  BY <1>1, <1>2, <1>3
<1> QED  BY <1>1, <1>2, <1>3

(* A command posts an id nobody has. *)
LEMMA FreshAppend ==
  ASSUME NEW q \in Seq(Msgs), NEW m \in Msgs, NEW S, FreshIds(q, S),
         m.kind = "StartTracking" =>
           /\ \A k \in S : k[2] # m.key[2]
           /\ \A i \in DOMAIN q : q[i].kind = "StartTracking" => q[i].key[2] # m.key[2]
  PROVE  FreshIds(Append(q, m), S)
<1> USE DEF FreshIds
<1> SUFFICES ASSUME NEW i \in DOMAIN Append(q, m), Append(q, m)[i].kind = "StartTracking"
             PROVE  /\ \A k \in S : k[2] # Append(q, m)[i].key[2]
                    /\ \A j \in DOMAIN Append(q, m) :
                         i < j /\ Append(q, m)[j].kind = "StartTracking"
                           => Append(q, m)[j].key[2] # Append(q, m)[i].key[2]
  OBVIOUS
<1>1. CASE i = Len(q) + 1
  BY <1>1, AppendFacts
<1>2. CASE i \in DOMAIN q
  BY <1>2, AppendFacts
<1> QED  BY <1>1, <1>2, AppendFacts

(* Sessions that end leave the rest fresh.                                 *)
LEMMA FreshFewer ==
  ASSUME NEW q, NEW S, NEW T \in SUBSET S, FreshIds(q, S)
  PROVE  FreshIds(q, T)
BY DEF FreshIds

(* Every command but the report of a reset posts one message and, session  *)
(* ids aside, changes nothing else.  The session of a StartTracking has an *)
(* id of its own.                                                          *)
LEMMA CommandPosts ==
  ASSUME TypeInv, Commands, ~handleEngineUpEvent
  PROVE  /\ UNCHANGED <<clients, callbacks, sessions, mEvtMask, skipped, fix, engineMask,
                        orphans, resets>>
         /\ \E m \in Msgs :
              /\ queue' = Append(queue, m)
              /\ m.kind \notin {"LocOpen", "LocSsr", "RestartSessions"}
              /\ m.kind = "StartTracking" =>
                   /\ \A k \in DOMAIN sessions : k[2] # m.key[2]
                   /\ \A i \in DOMAIN queue :
                        queue[i].kind = "StartTracking" => queue[i].key[2] # m.key[2]
<1> USE DEF TypeInv, Post
<1>1. CASE \E c \in Clients : \E cb \in setup.callbackSets : addClientCommand(c, cb)
  <2>1. PICK c \in Clients, cb \in setup.callbackSets : addClientCommand(c, cb)
    BY <1>1
  <2>2. cb \in SUBSET Bits
    BY TrackingAssumption DEF TrackingAssumption
  <2>3. AddMsg(c, cb) \in Msgs /\ AddMsg(c, cb).kind = "AddClient"
    BY <2>2, MsgTypes DEF AddMsg
  <2> QED  BY <2>1, <2>3 DEF addClientCommand
<1>2. CASE \E c \in Clients : removeClientCommand(c)
  <2>1. PICK c \in Clients : removeClientCommand(c)
    BY <1>2
  <2>2. RemoveMsg(c) \in Msgs /\ RemoveMsg(c).kind = "RemoveClient"
    BY MsgTypes DEF RemoveMsg
  <2> QED  BY <2>1, <2>2 DEF removeClientCommand
<1>3. CASE \E c \in Clients : \E o \in Options : startTrackingCommand(c, o)
  <2>1. PICK c \in Clients, o \in Options : startTrackingCommand(c, o)
    BY <1>3
  <2>2. <<c, NextId>> \in Keys
    BY NextIdType DEF Keys, TypeOK
  <2>3. /\ StartMsg(<<c, NextId>>, o) \in Msgs
        /\ StartMsg(<<c, NextId>>, o).key[2] = NextId
        /\ StartMsg(<<c, NextId>>, o).kind = "StartTracking"
    BY <2>2, MsgTypes DEF StartMsg
  <2>4. /\ \A k \in DOMAIN sessions : k[2] # NextId
        /\ \A i \in DOMAIN queue : queue[i].kind = "StartTracking" => queue[i].key[2] # NextId
        /\ queue' = Append(queue, StartMsg(<<c, NextId>>, o))
        /\ UNCHANGED <<clients, callbacks, sessions, mEvtMask, skipped, fix, engineMask,
                       orphans, resets>>
    BY <2>1 DEF startTrackingCommand
  <2> QED  BY <2>3, <2>4
<1>4. CASE \E k \in DOMAIN sessions : \E o \in Options : updateTrackingOptionsCommand(k, o)
  <2>1. PICK k \in DOMAIN sessions, o \in Options : updateTrackingOptionsCommand(k, o)
    BY <1>4
  <2>2. UpdateMsg(k, o) \in Msgs
    BY MsgTypes DEF TypeOK
  <2>3. UpdateMsg(k, o).kind = "UpdateTracking"
    BY DEF UpdateMsg
  <2> QED  BY <2>1, <2>2, <2>3 DEF updateTrackingOptionsCommand
<1>5. CASE \E k \in DOMAIN sessions : stopTrackingCommand(k)
  <2>1. PICK k \in DOMAIN sessions : stopTrackingCommand(k)
    BY <1>5
  <2>2. StopMsg(k) \in Msgs
    BY <2>1, MsgTypes DEF TypeOK
  <2>3. StopMsg(k).kind = "StopTracking"
    BY DEF StopMsg
  <2> QED  BY <2>1, <2>2, <2>3 DEF stopTrackingCommand
<1>6. CASE initAgpsCommand
  <2>1. AgpsInitMsg \in Msgs /\ AgpsInitMsg.kind = "AgpsMsgInit"
    BY MsgTypes DEF AgpsInitMsg
  <2> QED  BY <1>6, <2>1 DEF initAgpsCommand
<1> QED  BY <1>1, <1>2, <1>3, <1>4, <1>5, <1>6 DEF Commands

-----------------------------------------------------------------------------
(* The event mask. *)

MaskInv ==
  /\ LastMask(queue, mEvtMask)
  /\ ~Under(queue, {"LocOpen", "LocSsr"}) => engineMask = mEvtMask

(* updateEvtMask stores the mask and posts it.                             *)
LEMMA MaskUpdated ==
  ASSUME NEW mask \in SUBSET (Bits \cup {Server}), NEW Q \in Seq(Msgs), updateEvtMask(mask, Q)
  PROVE  LastMask(queue', mEvtMask') /\ Under(queue', {"LocOpen", "LocSsr"})
<1>1. OpenMsg(mask) \in Msgs /\ OpenMsg(mask).kind = "LocOpen" /\ OpenMsg(mask).mask = mask
  BY MsgTypes DEF OpenMsg
<1>2. LastMask(Append(Q, OpenMsg(mask)), mask)
  BY <1>1, MaskAppend
<1>3. Under(Append(Q, OpenMsg(mask)), {"LocOpen", "LocSsr"})
  BY <1>1, UnderAppend
<1> QED  BY <1>2, <1>3 DEF updateEvtMask

(* The messages that are about something else leave the mask alone.        *)
LEMMA MaskStays ==
  ASSUME TypeInv, MaskInv, UNCHANGED <<mEvtMask, engineMask>>,
         \/ UNCHANGED queue
         \/ /\ queue # <<>> /\ Head(queue).kind \notin {"LocOpen", "LocSsr"}
            /\ queue' = Tail(queue)
         \/ \E m \in Msgs : m.kind # "LocOpen" /\ queue' = Append(queue, m)
  PROVE  MaskInv'
<1> USE DEF MaskInv, TypeInv
<1>1. CASE UNCHANGED queue
  BY <1>1 DEF LastMask, Under
<1>2. CASE queue # <<>> /\ Head(queue).kind \notin {"LocOpen", "LocSsr"} /\ queue' = Tail(queue)
  <2>1. LastMask(Tail(queue), mEvtMask)
    BY <1>2, MaskTail
  <2>2. Under(queue, {"LocOpen", "LocSsr"}) <=> Under(Tail(queue), {"LocOpen", "LocSsr"})
    BY <1>2, UnderTail
  <2> QED  BY <1>2, <2>1, <2>2
<1>3. CASE \E m \in Msgs : m.kind # "LocOpen" /\ queue' = Append(queue, m)
  <2>1. PICK m \in Msgs : m.kind # "LocOpen" /\ queue' = Append(queue, m)
    BY <1>3
  <2>2. LastMask(Append(queue, m), mEvtMask)
    BY <2>1, MaskAppend
  <2>3. Under(queue, {"LocOpen", "LocSsr"}) => Under(Append(queue, m), {"LocOpen", "LocSsr"})
    BY UnderAppend
  <2> QED  BY <2>1, <2>2, <2>3
<1> QED  BY <1>1, <1>2, <1>3

(* The inductive step for the mask. *)
LEMMA MaskStep ==
  ASSUME TypeInv, MaskInv, [Next]_vars
  PROVE  MaskInv'
<1> USE DEF TypeInv
<1>1. CASE UNCHANGED vars
  BY <1>1, MaskStays DEF vars
<1> SUFFICES ASSUME ProcMsg \/ Commands PROVE MaskInv'
  BY <1>1 DEF Next
<1>2. CASE MsgAddClient \/ EraseClient \/ AgpsMsgInit
  <2>1. ASSUME queue # <<>> PROVE Tail(queue) \in Seq(Msgs)
    BY <2>1
  <2>2. CASE MsgAddClient
    <3>1. /\ Head(queue).client \in Clients /\ Head(queue).cb \in SUBSET Bits
          /\ Tail(queue) \in Seq(Msgs)
      BY <2>1, <2>2, HeadType DEF MsgAddClient, Proc
    <3>2. [callbacks EXCEPT ![Head(queue).client] = Head(queue).cb] \in [Clients -> SUBSET Bits]
      BY <3>1 DEF TypeOK
    <3>3. ClientsMask(clients \cup {Head(queue).client},
                      [callbacks EXCEPT ![Head(queue).client] = Head(queue).cb]) \subseteq Bits
      BY <3>1, <3>2, MaskType DEF TypeOK
    <3> QED  BY <2>2, <3>1, <3>3, MaskUpdated DEF MsgAddClient, MaskInv
  <2>3. CASE EraseClient
    <3>1. Tail(queue) \in Seq(Msgs)
      BY <2>1, <2>3 DEF EraseClient, Proc
    <3>2. ClientsMask(clients \ {Head(queue).client}, callbacks) \subseteq Bits
      BY MaskType DEF TypeOK
    <3> QED  BY <2>3, <3>1, <3>2, MaskUpdated DEF EraseClient, MaskInv
  <2>4. CASE AgpsMsgInit
    <3>1. Tail(queue) \in Seq(Msgs)
      BY <2>1, <2>4 DEF AgpsMsgInit, Proc
    <3>2. mEvtMask \cup {Server} \in SUBSET (Bits \cup {Server})
      BY DEF TypeOK
    <3> QED  BY <2>4, <3>1, <3>2, MaskUpdated DEF AgpsMsgInit, MaskInv
  <2> QED  BY <1>2, <2>2, <2>3, <2>4
<1>3. CASE LocOpen
  <2>1. queue # <<>> /\ Head(queue).kind = "LocOpen" /\ queue' = Tail(queue)
        /\ engineMask' = Head(queue).mask /\ mEvtMask' = mEvtMask
    BY <1>3 DEF LocOpen, Proc
  <2>2. /\ LastMask(Tail(queue), mEvtMask)
        /\ ~Under(Tail(queue), {"LocOpen"}) => Head(queue).mask = mEvtMask
    BY <2>1, MaskTail DEF MaskInv
  <2>3. Under(Tail(queue), {"LocOpen"}) => Under(Tail(queue), {"LocOpen", "LocSsr"})
    BY DEF Under
  <2> QED  BY <2>1, <2>2, <2>3 DEF MaskInv
<1>4. CASE LocSsr
  <2>1. queue # <<>> /\ queue' = Tail(queue) /\ engineMask' = mEvtMask /\ mEvtMask' = mEvtMask
    BY <1>4 DEF LocSsr, Proc
  <2>2. LastMask(Tail(queue), mEvtMask)
    BY <2>1, MaskTail DEF MaskInv
  <2> QED  BY <2>1, <2>2 DEF MaskInv
<1>5. CASE handleEngineUpEvent
  <2>1. /\ queue' = Append(Append(queue, SsrMsg), RestartMsg) /\ mEvtMask' = mEvtMask
        /\ {SsrMsg, RestartMsg} \subseteq Msgs /\ Append(queue, SsrMsg) \in Seq(Msgs)
    BY <1>5, TwoAppends, MsgTypes DEF handleEngineUpEvent
  <2>2. SsrMsg.kind = "LocSsr" /\ RestartMsg.kind = "RestartSessions"
    BY DEF SsrMsg, RestartMsg
  <2>3. LastMask(queue', mEvtMask)
    BY <2>1, <2>2, MaskAppend DEF MaskInv
  <2>4. Under(Append(queue, SsrMsg), {"LocOpen", "LocSsr"})
    BY <2>1, <2>2, UnderAppend
  <2>5. Under(queue', {"LocOpen", "LocSsr"})
    BY <2>1, <2>4, UnderAppend
  <2> QED  BY <2>1, <2>3, <2>5 DEF MaskInv
<1>6. CASE MsgStartTracking \/ MsgUpdateTracking \/ MsgStopTracking \/ RestartSessions
  BY <1>6, MaskStays DEF MsgStartTracking, MsgUpdateTracking, MsgStopTracking, RestartSessions, Proc
<1>7. CASE StopClientSession
  BY <1>7, MaskStays DEF StopClientSession
<1>8. CASE Commands /\ ~handleEngineUpEvent
  BY <1>8, CommandPosts, MaskStays
<1> QED
  BY <1>2, <1>3, <1>4, <1>5, <1>6, <1>7, <1>8 DEF ProcMsg

(* Once the masks under way have arrived, the engine is open for exactly   *)
(* the events the adapter wants, whatever clients came and went and        *)
(* however often the engine was reset (updateEvtMask, LocSsrMsg).          *)
THEOREM MasksArrive == Spec => []MaskReachesEngine
<1>1. Init => MaskInv
  BY DEF Init, MaskInv, LastMask
<1>2. Spec => [](TypeInv /\ MaskInv)
  BY <1>1, TypesInit, TypesStep, MaskStep, PTL DEF Spec
<1>3. MaskInv => MaskReachesEngine
  BY DEF MaskInv, MaskReachesEngine, Queued, Under
<1> QED  BY <1>2, <1>3, PTL

-----------------------------------------------------------------------------
(* The multiplexing of the sessions onto one fix. *)

(* f is the fix for the sessions S.                                        *)
RightFix(f, S) ==
  IF DOMAIN S = {} THEN f = NoFix
  ELSE /\ f # NoFix
       /\ \A k \in DOMAIN S : f.interval <= S[k].interval
       /\ \E k \in DOMAIN S : f.interval = S[k].interval

ResetKinds == {"LocSsr", "RestartSessions"}

(* The engine has never both refused and been reset: restartSessions does  *)
(* not look at the result of startFix, so that a refused restart leaves    *)
(* the sessions without a fix.                                             *)
RestartsSucceed == setup.fixMayFail => resets = 0

(* Without sessions the engine is idle, reset or refusing as it may be.    *)
IdleWithoutSessions == DOMAIN sessions = {} => fix = NoFix

MultiInv ==
  /\ RestartFollows(queue)
  /\ IdleWithoutSessions
  /\ FreshIds(queue, DOMAIN sessions)
  /\ resets = 0 => ~Under(queue, ResetKinds)
  /\ RestartsSucceed /\ ~Under(queue, ResetKinds) => RightFix(fix, sessions)

(* The options of a session have an interval; NoFix is none of them. *)
LEMMA OptionsFacts ==
  ASSUME NEW o \in Options
  PROVE  o # NoFix /\ o.interval \in Nat
<1>1. o.interval \in Nat
  BY TrackingAssumption DEF Options, TrackingAssumption
<1>2. DOMAIN o = {"interval", "mode"} /\ DOMAIN NoFix = {"interval"}
  BY DEF Options, NoFix
<1> QED  BY <1>1, <1>2

(* Only the last session that is stopped stops the fix, and it does.       *)
LEMMA IdleStays ==
  ASSUME TypeInv, IdleWithoutSessions, NEW k, NEW o, NEW ok \in BOOLEAN,
         \/ /\ startTrackingMultiplex(o, ok)
            /\ sessions' = IF ok THEN Save(k, o) ELSE sessions
         \/ /\ k \in DOMAIN sessions
            /\ updateTrackingMultiplex(k, o, ok)
            /\ sessions' = IF ok THEN Save(k, o) ELSE sessions
         \/ /\ k \in DOMAIN sessions
            /\ stopTrackingMultiplex(k, ok)
            /\ sessions' = IF ok THEN Erase(k) ELSE sessions
  PROVE  IdleWithoutSessions'
<1>1. CASE startTrackingMultiplex(o, ok) /\ sessions' = IF ok THEN Save(k, o) ELSE sessions
  <2>1. ok => DOMAIN sessions' # {}
    BY <1>1 DEF Save
  <2> QED  BY <1>1, <2>1 DEF IdleWithoutSessions, startTrackingMultiplex, startTracking, Smallest
<1>2. CASE /\ k \in DOMAIN sessions
           /\ sessions' = IF ok THEN Save(k, o) ELSE sessions
  <2>1. DOMAIN sessions' # {}
    BY <1>2 DEF Save
  <2> QED  BY <2>1 DEF IdleWithoutSessions
<1>3. CASE /\ k \in DOMAIN sessions
           /\ stopTrackingMultiplex(k, ok)
           /\ sessions' = IF ok THEN Erase(k) ELSE sessions
  <2>1. CASE ~ok
    BY <1>3, <2>1 DEF IdleWithoutSessions
  <2>2. CASE ok
    <3>1. DOMAIN sessions' = DOMAIN sessions \ {k}
      BY <1>3, <2>2, EraseType
    <3>2. DOMAIN sessions = {k} => fix' = NoFix
      BY <1>3, <2>2 DEF stopTrackingMultiplex, stopTracking, Smallest
    <3> QED  BY <1>3, <3>1, <3>2 DEF IdleWithoutSessions
  <2> QED  BY <2>1, <2>2
<1> QED  BY <1>1, <1>2, <1>3

(* Starting a new session.                                                 *)
LEMMA StartRight ==
  ASSUME TypeInv, RightFix(fix, sessions),
         NEW k \in Keys \ DOMAIN sessions, NEW o \in Options, NEW ok \in BOOLEAN,
         startTrackingMultiplex(o, ok),
         sessions' = IF ok THEN Save(k, o) ELSE sessions
  PROVE  RightFix(fix', sessions')
<1> USE DEF RightFix
<1>0. \A j \in DOMAIN sessions : sessions[j] \in Options
  BY DEF TypeInv, TypeOK
<1>1. CASE ~ok
  BY <1>1 DEF startTrackingMultiplex, startTracking
<1>2. CASE ok
  <2>1. /\ DOMAIN sessions' = DOMAIN sessions \cup {k}
        /\ sessions'[k] = o /\ \A j \in DOMAIN sessions : sessions'[j] = sessions[j]
    BY <1>2 DEF Save
  <2>2. o # NoFix /\ o.interval \in Nat
    BY OptionsFacts
  <2>3. CASE DOMAIN sessions = {} /\ fix' = o
    BY <2>1, <2>2, <2>3
  <2>4. CASE \E s \in Smallest(DOMAIN sessions) :
               fix' = IF o.interval < s.interval THEN o ELSE fix
    <3>1. PICK i \in DOMAIN sessions :
            /\ \A j \in DOMAIN sessions : sessions[i].interval <= sessions[j].interval
            /\ fix' = IF o.interval < sessions[i].interval THEN o ELSE fix
      BY <2>4 DEF Smallest
    <3>2. /\ \A j \in DOMAIN sessions : sessions[j].interval \in Nat
          /\ \A j \in DOMAIN sessions : fix.interval <= sessions[j].interval
          /\ fix # NoFix /\ \E j \in DOMAIN sessions : fix.interval = sessions[j].interval
      BY <1>0, OptionsFacts
    <3>3. fix.interval = sessions[i].interval
      BY <3>1, <3>2
    <3>4. CASE o.interval < sessions[i].interval
      BY <2>1, <2>2, <3>1, <3>2, <3>4
    <3>5. CASE ~(o.interval < sessions[i].interval)
      BY <2>1, <2>2, <3>1, <3>2, <3>3, <3>5
    <3> QED  BY <3>4, <3>5
  <2> QED  BY <1>2, <2>3, <2>4 DEF startTrackingMultiplex, startTracking
<1> QED  BY <1>1, <1>2

(* Updating a session: the others' smallest may take over, or lose.        *)
LEMMA UpdateRight ==
  ASSUME TypeInv, RightFix(fix, sessions),
         NEW k \in DOMAIN sessions, NEW o \in Options, NEW ok \in BOOLEAN,
         updateTrackingMultiplex(k, o, ok),
         sessions' = IF ok THEN Save(k, o) ELSE sessions
  PROVE  RightFix(fix', sessions')
<1> USE DEF RightFix
<1>0. \A j \in DOMAIN sessions : sessions[j] \in Options /\ j \in Keys
  BY DEF TypeInv, TypeOK
<1>1. CASE ~ok
  BY <1>1 DEF updateTrackingMultiplex, startTracking
<1>2. CASE ok
  <2>1. /\ DOMAIN sessions' = DOMAIN sessions
        /\ sessions'[k] = o
        /\ \A j \in DOMAIN sessions : j # k => sessions'[j] = sessions[j]
    BY <1>2 DEF Save
  <2>2. /\ o # NoFix /\ o.interval \in Nat
        /\ \A j \in DOMAIN sessions : sessions[j].interval \in Nat /\ sessions[j] # NoFix
    BY <1>0, OptionsFacts
  <2>3. CASE DOMAIN sessions = {k} /\ fix' = o
    BY <2>1, <2>2, <2>3
  <2>4. CASE \E s \in Smallest(DOMAIN sessions \ {k}) :
               fix' = IF o.interval < s.interval THEN o
                      ELSE IF sessions[k].interval < s.interval THEN s ELSE fix
    <3>1. PICK i \in DOMAIN sessions \ {k} :
            /\ \A j \in DOMAIN sessions \ {k} : sessions[i].interval <= sessions[j].interval
            /\ fix' = IF o.interval < sessions[i].interval THEN o
                      ELSE IF sessions[k].interval < sessions[i].interval THEN sessions[i]
                      ELSE fix
      BY <2>4 DEF Smallest
    <3>2. CASE o.interval < sessions[i].interval
      BY <2>1, <2>2, <3>1, <3>2
    <3>3. CASE ~(o.interval < sessions[i].interval) /\ sessions[k].interval < sessions[i].interval
      BY <2>1, <2>2, <3>1, <3>3
    <3>4. CASE ~(o.interval < sessions[i].interval) /\ ~(sessions[k].interval < sessions[i].interval)
      <4>1. fix' = fix /\ fix.interval = sessions[i].interval
        BY <2>2, <3>1, <3>4
      <4> QED  BY <2>1, <2>2, <3>1, <3>4, <4>1
    <3> QED  BY <3>2, <3>3, <3>4
  <2> QED  BY <1>2, <2>3, <2>4 DEF updateTrackingMultiplex, startTracking
<1> QED  BY <1>1, <1>2

(* Stopping a session.                                                     *)
LEMMA StopRight ==
  ASSUME TypeInv, RightFix(fix, sessions),
         NEW k \in DOMAIN sessions, NEW ok \in BOOLEAN,
         stopTrackingMultiplex(k, ok),
         sessions' = IF ok THEN Erase(k) ELSE sessions
  PROVE  RightFix(fix', sessions')
<1> USE DEF RightFix
<1>0. \A j \in DOMAIN sessions : sessions[j] \in Options
  BY DEF TypeInv, TypeOK
<1>1. CASE ~ok
  BY <1>1 DEF stopTrackingMultiplex, startTracking, stopTracking
<1>2. CASE ok
  <2>1. /\ DOMAIN sessions' = DOMAIN sessions \ {k}
        /\ \A j \in DOMAIN sessions \ {k} : sessions'[j] = sessions[j]
    BY <1>2, EraseType
  <2>2. \A j \in DOMAIN sessions : sessions[j].interval \in Nat /\ sessions[j] # NoFix
    BY <1>0, OptionsFacts
  <2>3. CASE DOMAIN sessions = {k} /\ fix' = NoFix
    BY <2>1, <2>3
  <2>4. CASE \E s \in Smallest(DOMAIN sessions \ {k}) :
               fix' = IF sessions[k].interval < s.interval THEN s ELSE fix
    <3>1. PICK i \in DOMAIN sessions \ {k} :
            /\ \A j \in DOMAIN sessions \ {k} : sessions[i].interval <= sessions[j].interval
            /\ fix' = IF sessions[k].interval < sessions[i].interval THEN sessions[i] ELSE fix
      BY <2>4 DEF Smallest
    <3>2. CASE sessions[k].interval < sessions[i].interval
      BY <2>1, <2>2, <3>1, <3>2
    <3>3. CASE ~(sessions[k].interval < sessions[i].interval)
      <4>1. fix' = fix /\ fix.interval = sessions[i].interval
        BY <2>2, <3>1, <3>3
      <4> QED  BY <2>1, <2>2, <3>1, <4>1
    <3> QED  BY <3>2, <3>3
  <2> QED  BY <1>2, <2>3, <2>4 DEF stopTrackingMultiplex, startTracking, stopTracking
<1> QED  BY <1>1, <1>2

(* Starting the smallest of all sessions is right whatever was before.     *)
LEMMA RestartRight ==
  ASSUME TypeInv, NEW s \in Smallest(DOMAIN sessions)
  PROVE  RightFix(s, sessions)
<1>1. PICK i \in DOMAIN sessions :
        s = sessions[i] /\ \A j \in DOMAIN sessions : sessions[i].interval <= sessions[j].interval
  BY DEF Smallest
<1>2. s # NoFix
  BY <1>1, OptionsFacts DEF TypeInv, TypeOK
<1> QED  BY <1>1, <1>2 DEF RightFix

(* The messages that leave the sessions and the fix alone, commands and    *)
(* the removal of a message from the queue.                                *)
LEMMA QueueMoves ==
  ASSUME TypeInv, MultiInv, UNCHANGED <<setup, resets>>,
         \/ UNCHANGED queue
         \/ queue # <<>> /\ Head(queue).kind # "RestartSessions" /\ queue' = Tail(queue)
         \/ \E m \in Msgs : m.kind \notin ResetKinds /\ queue' = Append(queue, m)
  PROVE  /\ RestartFollows(queue')
         /\ resets' = 0 => ~Under(queue', ResetKinds)
         /\ Under(queue, ResetKinds) => Under(queue', ResetKinds)
<1> USE DEF MultiInv, TypeInv
<1>1. CASE UNCHANGED queue
  BY <1>1
<1>2. CASE queue # <<>> /\ Head(queue).kind # "RestartSessions" /\ queue' = Tail(queue)
  <2>1. /\ RestartFollows(Tail(queue))
        /\ Head(queue).kind = "LocSsr" => Under(Tail(queue), {"RestartSessions"})
    BY <1>2, RestartTail
  <2>2. Under(queue, ResetKinds) <=> Head(queue).kind \in ResetKinds \/ Under(Tail(queue), ResetKinds)
    BY <1>2, UnderTail
  <2>3. Under(Tail(queue), {"RestartSessions"}) => Under(Tail(queue), ResetKinds)
    BY DEF Under, ResetKinds
  <2> QED  BY <1>2, <2>1, <2>2, <2>3 DEF ResetKinds
<1>3. CASE \E m \in Msgs : m.kind \notin ResetKinds /\ queue' = Append(queue, m)
  <2>1. PICK m \in Msgs : m.kind \notin ResetKinds /\ queue' = Append(queue, m)
    BY <1>3
  <2>2. RestartFollows(Append(queue, m))
    BY <2>1, RestartAppend DEF ResetKinds
  <2>3. Under(Append(queue, m), ResetKinds) <=> Under(queue, ResetKinds)
    BY <2>1, UnderAppend
  <2> QED  BY <2>1, <2>2, <2>3
<1> QED  BY <1>1, <1>2, <1>3

(* updateEvtMask removes a message and posts one.                          *)
LEMMA MaskMoves ==
  ASSUME TypeInv, MultiInv, UNCHANGED <<setup, resets, sessions, fix>>,
         queue # <<>>, Head(queue).kind \notin ResetKinds \cup {"StartTracking"},
         NEW mask \in SUBSET (Bits \cup {Server}), updateEvtMask(mask, Tail(queue))
  PROVE  MultiInv'
<1> DEFINE m == OpenMsg(mask)
<1>1. m \in Msgs /\ m.kind = "LocOpen" /\ queue' = Append(Tail(queue), m)
  BY MsgTypes DEF OpenMsg, updateEvtMask
<1>2. Tail(queue) \in Seq(Msgs)
  BY DEF TypeInv
<1>3. RestartFollows(queue')
  <2>1. RestartFollows(Tail(queue))
    BY RestartTail DEF MultiInv, TypeInv
  <2> QED  BY <1>1, <1>2, <2>1, RestartAppend
<1>4. FreshIds(queue', DOMAIN sessions)
  <2>1. FreshIds(Tail(queue), DOMAIN sessions)
    BY FreshTail DEF MultiInv, TypeInv
  <2> QED  BY <1>1, <1>2, <2>1, FreshAppend
<1>5. Under(queue', ResetKinds) <=> Under(queue, ResetKinds)
  <2>1. Under(queue, ResetKinds) <=> Under(Tail(queue), ResetKinds)
    BY UnderTail DEF TypeInv
  <2>2. Under(Append(Tail(queue), m), ResetKinds) <=> Under(Tail(queue), ResetKinds)
    BY <1>1, <1>2, UnderAppend DEF ResetKinds
  <2> QED  BY <1>1, <2>1, <2>2
<1> QED  BY <1>3, <1>4, <1>5 DEF MultiInv, RestartsSucceed, IdleWithoutSessions

(* The inductive step for the multiplexer. *)
LEMMA MultiStep ==
  ASSUME TypeInv, MultiInv, [Next]_vars
  PROVE  MultiInv'
<1> USE DEF TypeInv
<1>1. CASE UNCHANGED vars
  BY <1>1 DEF vars, MultiInv, RestartsSucceed, IdleWithoutSessions
<1> SUFFICES ASSUME ProcMsg \/ Commands, UNCHANGED setup PROVE MultiInv'
  BY <1>1 DEF Next
<1>2. CASE MsgAddClient
  <2>1. Head(queue).client \in Clients /\ Head(queue).cb \in SUBSET Bits
    BY <1>2, HeadType DEF MsgAddClient, Proc
  <2>2. [callbacks EXCEPT ![Head(queue).client] = Head(queue).cb] \in [Clients -> SUBSET Bits]
    BY <2>1 DEF TypeOK
  <2>3. ClientsMask(clients \cup {Head(queue).client},
                    [callbacks EXCEPT ![Head(queue).client] = Head(queue).cb]) \subseteq Bits
    BY <2>1, <2>2, MaskType DEF TypeOK
  <2> QED  BY <1>2, <2>3, MaskMoves DEF MsgAddClient, Proc, ResetKinds
<1>3. CASE EraseClient
  <2>1. ClientsMask(clients \ {Head(queue).client}, callbacks) \subseteq Bits
    BY MaskType DEF TypeOK
  <2> QED  BY <1>3, <2>1, MaskMoves DEF EraseClient, Proc, ResetKinds
<1>4. CASE AgpsMsgInit
  <2>1. mEvtMask \cup {Server} \in SUBSET (Bits \cup {Server})
    BY DEF TypeOK
  <2> QED  BY <1>4, <2>1, MaskMoves DEF AgpsMsgInit, Proc, ResetKinds
<1>5. CASE StopClientSession
  <2>1. PICK k \in DOMAIN sessions, ok \in BOOLEAN :
          /\ stopTrackingMultiplex(k, ok)
          /\ sessions' = IF ok THEN Erase(k) ELSE sessions
    BY <1>5 DEF StopClientSession, ClientKeys, Ok
  <2>2. FreshIds(queue, DOMAIN sessions')
    <3>1. DOMAIN sessions' \subseteq DOMAIN sessions
      BY <2>1, EraseType
    <3> QED  BY <3>1, FreshFewer DEF MultiInv
  <2>3. RightFix(fix, sessions) => RightFix(fix', sessions')
    BY <2>1, StopRight
  <2>4. IdleWithoutSessions'
    BY <2>1, IdleStays DEF MultiInv
  <2> QED  BY <1>5, <2>2, <2>3, <2>4 DEF StopClientSession, MultiInv, RestartsSucceed
<1>6. CASE MsgStartTracking \/ MsgUpdateTracking \/ MsgStopTracking
  <2> DEFINE k == Head(queue).key
             o == Head(queue).options
  <2>1. /\ queue # <<>> /\ Head(queue).kind \notin ResetKinds /\ queue' = Tail(queue)
        /\ UNCHANGED resets
    BY <1>6 DEF MsgStartTracking, MsgUpdateTracking, MsgStopTracking, Proc, ResetKinds
  <2>2. /\ RestartFollows(queue')
        /\ resets' = 0 => ~Under(queue', ResetKinds)
        /\ Under(queue, ResetKinds) => Under(queue', ResetKinds)
    BY <2>1, QueueMoves DEF ResetKinds
  <2>3. FreshIds(Tail(queue), DOMAIN sessions)
    BY <2>1, FreshTail DEF MultiInv
  <2>4. CASE UNCHANGED <<sessions, fix>>
    BY <2>1, <2>2, <2>3, <2>4 DEF MultiInv, RestartsSucceed, IdleWithoutSessions
  <2>5. CASE MsgStartTracking /\ ~UNCHANGED <<sessions, fix>>
    <3>1. k \in Keys /\ o \in Options /\ Head(queue).kind = "StartTracking"
      BY <2>5, HeadType DEF MsgStartTracking, Proc
    <3>2. PICK ok \in BOOLEAN : /\ startTrackingMultiplex(o, ok)
                                /\ sessions' = IF ok THEN Save(k, o) ELSE sessions
      BY <2>5 DEF MsgStartTracking, Ok
    <3>3. k \notin DOMAIN sessions /\ FreshIds(Tail(queue), DOMAIN sessions \cup {k})
      BY <2>1, <3>1, FreshTail DEF MultiInv
    <3>4. DOMAIN sessions' \subseteq DOMAIN sessions \cup {k}
      BY <3>2 DEF Save
    <3>5. FreshIds(queue', DOMAIN sessions')
      BY <2>1, <3>3, <3>4, FreshFewer
    <3>6. RightFix(fix, sessions) => RightFix(fix', sessions')
      BY <3>1, <3>2, <3>3, StartRight
    <3>7. IdleWithoutSessions'
      BY <3>1, <3>2, IdleStays DEF MultiInv
    <3> QED  BY <2>1, <2>2, <3>5, <3>6, <3>7 DEF MultiInv, RestartsSucceed
  <2>6. CASE MsgUpdateTracking /\ ~UNCHANGED <<sessions, fix>>
    <3>1. o \in Options /\ k \in DOMAIN sessions
      BY <2>6, HeadType DEF MsgUpdateTracking, Proc
    <3>2. PICK ok \in BOOLEAN : /\ updateTrackingMultiplex(k, o, ok)
                                /\ sessions' = IF ok THEN Save(k, o) ELSE sessions
      BY <2>6 DEF MsgUpdateTracking, Ok
    <3>3. DOMAIN sessions' = DOMAIN sessions
      BY <3>1, <3>2 DEF Save
    <3>4. RightFix(fix, sessions) => RightFix(fix', sessions')
      BY <3>1, <3>2, UpdateRight
    <3>5. IdleWithoutSessions'
      BY <3>1, <3>2, IdleStays DEF MultiInv
    <3> QED  BY <2>1, <2>2, <2>3, <3>3, <3>4, <3>5 DEF MultiInv, RestartsSucceed
  <2>7. CASE MsgStopTracking /\ ~UNCHANGED <<sessions, fix>>
    <3>1. k \in DOMAIN sessions
      BY <2>7 DEF MsgStopTracking
    <3>2. PICK ok \in BOOLEAN : /\ stopTrackingMultiplex(k, ok)
                                /\ sessions' = IF ok THEN Erase(k) ELSE sessions
      BY <2>7 DEF MsgStopTracking, Ok
    <3>3. DOMAIN sessions' \subseteq DOMAIN sessions
      BY <3>2, EraseType
    <3>4. FreshIds(queue', DOMAIN sessions')
      BY <2>1, <2>3, <3>3, FreshFewer
    <3>5. RightFix(fix, sessions) => RightFix(fix', sessions')
      BY <3>1, <3>2, StopRight
    <3>6. IdleWithoutSessions'
      BY <3>1, <3>2, IdleStays DEF MultiInv
    <3> QED  BY <2>1, <2>2, <3>4, <3>5, <3>6 DEF MultiInv, RestartsSucceed
  <2> QED  BY <1>6, <2>4, <2>5, <2>6, <2>7
<1>7. CASE LocOpen
  <2>1. /\ RestartFollows(queue')
        /\ resets' = 0 => ~Under(queue', ResetKinds)
        /\ Under(queue, ResetKinds) => Under(queue', ResetKinds)
    BY <1>7, QueueMoves DEF LocOpen, Proc
  <2>2. FreshIds(Tail(queue), DOMAIN sessions)
    BY <1>7, FreshTail DEF MultiInv, LocOpen, Proc
  <2> QED  BY <1>7, <2>1, <2>2 DEF LocOpen, MultiInv, RestartsSucceed, IdleWithoutSessions
<1>8. CASE LocSsr
  <2>0. queue # <<>> /\ Head(queue).kind = "LocSsr" /\ queue' = Tail(queue)
    BY <1>8 DEF LocSsr, Proc
  <2>1. RestartFollows(queue') /\ Under(queue', {"RestartSessions"})
    BY <2>0, RestartTail DEF MultiInv
  <2>2. Under(queue', ResetKinds) /\ Under(queue, ResetKinds)
    <3>1. Under(queue, ResetKinds)
      BY <2>0, UnderTail DEF ResetKinds
    <3> QED  BY <2>1, <3>1 DEF Under, ResetKinds
  <2>3. FreshIds(Tail(queue), DOMAIN sessions)
    BY <2>0, FreshTail DEF MultiInv
  <2> QED  BY <1>8, <2>0, <2>1, <2>2, <2>3 DEF LocSsr, MultiInv, IdleWithoutSessions
<1>9. CASE RestartSessions
  <2>0. queue # <<>> /\ Head(queue).kind = "RestartSessions" /\ queue' = Tail(queue)
    BY <1>9 DEF RestartSessions, Proc
  <2>1. RestartFollows(queue')
    BY <2>0, RestartTail DEF MultiInv
  <2>2. Under(queue, ResetKinds)
    BY <2>0, UnderTail DEF ResetKinds
  <2>3. resets' # 0
    BY <1>9, <2>2 DEF MultiInv, RestartSessions
  <2>4. FreshIds(Tail(queue), DOMAIN sessions)
    BY <2>0, FreshTail DEF MultiInv
  <2>5. RestartsSucceed' /\ ~Under(queue', ResetKinds) => RightFix(fix', sessions')
    <3> SUFFICES ASSUME RestartsSucceed', ~Under(queue', ResetKinds) PROVE RightFix(fix', sessions')
      OBVIOUS
    <3>1. Ok = {TRUE}
      BY <2>3 DEF RestartsSucceed, Ok
    <3>2. CASE \E s \in Smallest(DOMAIN sessions) : fix' = s
      BY <1>9, <3>2, RestartRight DEF RestartSessions
    <3>3. CASE DOMAIN sessions = {} /\ fix' = fix
      BY <1>9, <3>3 DEF RestartSessions, MultiInv, IdleWithoutSessions, RightFix
    <3> QED  BY <1>9, <3>1, <3>2, <3>3 DEF RestartSessions, startTracking
  <2>6. IdleWithoutSessions'
    BY <1>9 DEF RestartSessions, MultiInv, IdleWithoutSessions, Smallest
  <2> QED  BY <1>9, <2>0, <2>1, <2>3, <2>4, <2>5, <2>6 DEF RestartSessions, MultiInv
<1>10. CASE handleEngineUpEvent
  <2>1. queue' = queue \o <<SsrMsg, RestartMsg>> /\ fix' = NoFix /\ sessions' = sessions
        /\ resets' = resets + 1 /\ resets \in Nat
    BY <1>10 DEF handleEngineUpEvent, TypeOK
  <2>2. RestartFollows(queue')
    BY <2>1, RestartReset DEF MultiInv
  <2>3. /\ queue' = Append(Append(queue, SsrMsg), RestartMsg)
        /\ {SsrMsg, RestartMsg} \subseteq Msgs /\ Append(queue, SsrMsg) \in Seq(Msgs)
        /\ SsrMsg.kind = "LocSsr" /\ RestartMsg.kind = "RestartSessions"
    BY <2>1, TwoAppends, MsgTypes DEF SsrMsg, RestartMsg
  <2>4. FreshIds(queue', DOMAIN sessions)
    <3>1. FreshIds(Append(queue, SsrMsg), DOMAIN sessions)
      BY <2>3, FreshAppend DEF MultiInv
    <3> QED  BY <2>3, <3>1, FreshAppend
  <2>5. Under(queue', ResetKinds)
    BY <2>3, UnderAppend DEF ResetKinds
  <2> QED  BY <2>1, <2>2, <2>4, <2>5 DEF MultiInv, IdleWithoutSessions
<1>11. CASE Commands /\ ~handleEngineUpEvent
  <2>1. PICK m \in Msgs :
          /\ queue' = Append(queue, m) /\ m.kind \notin {"LocOpen", "LocSsr", "RestartSessions"}
          /\ m.kind = "StartTracking" =>
               /\ \A k \in DOMAIN sessions : k[2] # m.key[2]
               /\ \A i \in DOMAIN queue :
                    queue[i].kind = "StartTracking" => queue[i].key[2] # m.key[2]
    BY <1>11, CommandPosts
  <2>2. UNCHANGED <<sessions, fix, resets>>
    BY <1>11, CommandPosts
  <2>3. /\ RestartFollows(queue')
        /\ resets' = 0 => ~Under(queue', ResetKinds)
        /\ Under(queue, ResetKinds) => Under(queue', ResetKinds)
    BY <2>1, <2>2, QueueMoves DEF ResetKinds
  <2>4. FreshIds(queue', DOMAIN sessions)
    BY <2>1, FreshAppend DEF MultiInv
  <2> QED  BY <2>2, <2>3, <2>4 DEF MultiInv, RestartsSucceed, IdleWithoutSessions
<1> QED
  BY <1>2, <1>3, <1>4, <1>5, <1>6, <1>7, <1>8, <1>9, <1>10, <1>11 DEF ProcMsg

(* So it holds in every reachable state. *)
LEMMA MultiAlways == Spec => [](TypeInv /\ MultiInv)
<1>1. Init => MultiInv
  BY DEF Init, MultiInv, RestartFollows, FreshIds, Under, RightFix, IdleWithoutSessions
<1> QED  BY <1>1, TypesInit, TypesStep, MultiStep, PTL DEF Spec

(* Whatever mixture of starts, updates, stops and removed clients came in, *)
(* the engine runs with the smallest interval of the sessions there are,   *)
(* also when it has refused some of them; after resets if it refuses       *)
(* nothing (the three Multiplex methods, restartSessions).                 *)
THEOREM Multiplexing == Spec => [](RestartsSucceed => EngineRunsSmallestInterval)
<1>1. MultiInv => (RestartsSucceed => EngineRunsSmallestInterval)
  BY DEF MultiInv, EngineRunsSmallestInterval, Queued, Under, ResetKinds, RightFix
<1> QED  BY <1>1, MultiAlways, PTL

(* When the last session has ended the engine is idle, in the middle of a  *)
(* reset and after refusals too: no fix is left running for nobody.        *)
THEOREM EngineIdles == Spec => []IdleWithoutSessions
<1>1. MultiInv => IdleWithoutSessions
  BY DEF MultiInv
<1> QED  BY <1>1, MultiAlways, PTL

-----------------------------------------------------------------------------
(* Sessions and their clients. *)

(* Only an engine that refuses to stop a session can leave one behind.     *)
ClientInv ==
  /\ SessionHasClient
  /\ ~setup.fixMayFail => skipped = {} /\ orphans = {}

(* The inductive step for clients and sessions. *)
LEMMA ClientStep ==
  ASSUME TypeInv, ClientInv, [Next]_vars
  PROVE  ClientInv'
<1> USE DEF ClientInv, SessionHasClient
<1>1. CASE UNCHANGED <<clients, sessions, skipped, orphans, setup>>
  BY <1>1
<1> SUFFICES ASSUME ProcMsg \/ Commands, UNCHANGED setup PROVE ClientInv'
  BY <1>1 DEF Next, vars
<1>2. Ok \subseteq BOOLEAN /\ (~setup.fixMayFail => Ok = {TRUE})
  BY DEF Ok
<1>3. CASE MsgAddClient
  BY <1>3 DEF MsgAddClient
<1>4. CASE StopClientSession
  <2>1. PICK k \in DOMAIN sessions, ok \in Ok :
          IF ok THEN sessions' = Erase(k) /\ UNCHANGED skipped
                ELSE skipped' = skipped \cup {k} /\ UNCHANGED sessions
    BY <1>4 DEF StopClientSession, ClientKeys
  <2>2. DOMAIN sessions' \subseteq DOMAIN sessions
    BY <1>2, <2>1, EraseType
  <2>3. ~setup.fixMayFail => skipped' = skipped
    BY <1>2, <2>1
  <2> QED  BY <1>4, <2>2, <2>3 DEF StopClientSession
<1>5. CASE EraseClient
  <2> DEFINE c == Head(queue).client
  <2>1. /\ ClientKeys(c) \subseteq skipped /\ clients' = clients \ {c} /\ sessions' = sessions
        /\ orphans' = (orphans \cap DOMAIN sessions) \cup ClientKeys(c) /\ skipped' = {}
    BY <1>5 DEF EraseClient
  <2>2. \A k \in DOMAIN sessions' : k[1] \in clients' \/ k \in orphans'
    BY <2>1 DEF ClientKeys
  <2> QED  BY <2>1, <2>2
<1>6. CASE MsgStartTracking
  <2>1. \A k \in DOMAIN sessions' : k \in DOMAIN sessions \/ k[1] \in clients
    BY <1>6 DEF MsgStartTracking, HasTrackingCallback, Save
  <2> QED  BY <1>6, <2>1 DEF MsgStartTracking
<1>7. CASE MsgUpdateTracking
  <2>1. DOMAIN sessions' \subseteq DOMAIN sessions
    BY <1>7 DEF MsgUpdateTracking, Save
  <2> QED  BY <1>7, <2>1 DEF MsgUpdateTracking
<1>8. CASE MsgStopTracking
  <2>1. DOMAIN sessions' \subseteq DOMAIN sessions
    BY <1>8, EraseType DEF MsgStopTracking
  <2> QED  BY <1>8, <2>1 DEF MsgStopTracking
<1>9. CASE LocOpen \/ LocSsr \/ RestartSessions \/ AgpsMsgInit
  BY <1>1, <1>9 DEF LocOpen, LocSsr, RestartSessions, AgpsMsgInit
<1>10. CASE Commands /\ ~handleEngineUpEvent
  BY <1>1, <1>10, CommandPosts
<1>11. CASE handleEngineUpEvent
  BY <1>1, <1>11 DEF handleEngineUpEvent
<1> QED
  BY <1>3, <1>4, <1>5, <1>6, <1>7, <1>8, <1>9, <1>10, <1>11 DEF ProcMsg

(* So it holds in every reachable state. *)
LEMMA ClientAlways == Spec => []ClientInv
<1>1. Init => ClientInv
  BY DEF Init, ClientInv, SessionHasClient
<1> QED  BY <1>1, TypesInit, TypesStep, ClientStep, PTL DEF Spec

(* No session outlives its client but those the engine has refused to stop *)
(* (stopClientSessions, hasTrackingCallback).                              *)
THEOREM SessionsHaveClients == Spec => []SessionHasClient
<1>1. ClientInv => SessionHasClient
  BY DEF ClientInv
<1> QED  BY <1>1, ClientAlways, PTL

(* No session is left of a client that is gone. *)
NoSessionOutlivesItsClient ==
  ~setup.fixMayFail => \A k \in DOMAIN sessions : k[1] \in clients

(* With an engine that refuses nothing every session has its client:       *)
(* removing a client stops all of its sessions, also those whose start was *)
(* still in the queue (stopClientSessions, eraseClient).                   *)
THEOREM RemovalIsComplete == Spec => []NoSessionOutlivesItsClient
<1>1. ClientInv => NoSessionOutlivesItsClient
  BY DEF ClientInv, SessionHasClient, NoSessionOutlivesItsClient
<1> QED  BY <1>1, ClientAlways, PTL
=============================================================================
