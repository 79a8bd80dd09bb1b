----------------------------- MODULE AgpsProofs -----------------------------
(***************************************************************************)
(* Proofs about Agps, for any set of handles, any configuration and any    *)
(* bounds: type correctness, the agreement between a NIF's AgpsState and   *)
(* its subscriber list, that a framework NIF which is PENDING will hear of *)
(* it, and that a handle the modem was told is open is served by an        *)
(* acquired NIF.                                                           *)
(*                                                                         *)
(* The agreement is proved for the state and the list of one NIF (NifInv); *)
(* the lemmas take one event handler each, and NifFrame carries the result *)
(* to the NIFs the handler leaves alone.                                   *)
(***************************************************************************)
EXTENDS Agps, FiniteSetTheorems, TLAPS

NifInv(n, state, S) ==
  /\ \A s, t \in S : s.conn = t.conn => s = t
  /\ state \in {"PENDING", "ACQUIRED"} => \E s \in S : ~s.inactive
  /\ state = "RELEASING" => InactiveSubscribers(S) # {}
  /\ state = "RELEASED" => InactiveSubscribers(S) = {}
  /\ \A s \in S : s.inactive => s.wait
  /\ n # "ds" /\ state = "RELEASED" => S = {}

ConnStates == {"idle", "opening", "open", "closing"}

(* TypeOK and the agreement, for everything the event handlers may change. *)
MachineTypeOK ==
  /\ mState \in [Nifs -> States]
  /\ subs \in [Nifs -> SUBSET AgpsSubscriber]
  /\ mRetries \in 0..MaxRetries
  /\ timers \in 0..MaxTimers
  /\ queue \in Seq(Msgs)
  /\ modem \in [Handles -> ConnStates]
  /\ conn \in [Nifs -> ConnStates]

MachineInv == MachineTypeOK /\ \A n \in Nifs : NifInv(n, mState[n], subs[n])

IInv == nif \subseteq Nifs /\ MachineInv

(* The inductive invariant is the conjunction of TypeOK and the four       *)
(* invariants on AgpsState and mSubscriberList.                            *)
LEMMA IInvParts ==
  IInv <=> /\ TypeOK /\ OneSubscriberPerHandle /\ ReleasedListIsEmpty
           /\ HeldConnectionHasActiveSubscriber /\ ReleasingHasWaiter
BY DEF IInv, MachineInv, MachineTypeOK, TypeOK, ConnStates, NifInv, OneSubscriberPerHandle, ReleasedListIsEmpty,
       HeldConnectionHasActiveSubscriber, ReleasingHasWaiter, Nifs

(* A handler changes the state and the list of one NIF only. *)
LEMMA NifFrame ==
  ASSUME MachineInv,
         NEW n \in Nifs, NEW state \in States, NEW S \in SUBSET AgpsSubscriber,
         NifInv(n, state, S),
         mState' = [mState EXCEPT ![n] = state],
         subs' = [subs EXCEPT ![n] = S]
  PROVE  /\ mState' \in [Nifs -> States]
         /\ subs' \in [Nifs -> SUBSET AgpsSubscriber]
         /\ \A m \in Nifs : NifInv(m, mState'[m], subs'[m])
<1>1. mState' \in [Nifs -> States] /\ subs' \in [Nifs -> SUBSET AgpsSubscriber]
  BY DEF MachineInv, MachineTypeOK
<1>2. \A m \in Nifs : NifInv(m, mState'[m], subs'[m])
  <2> TAKE m \in Nifs
  <2>1. CASE m = n
    <3>1. mState'[m] = state /\ subs'[m] = S
      BY <2>1 DEF MachineInv, MachineTypeOK
    <3> QED  BY <3>1, <2>1
  <2>2. CASE m # n
    <3>1. mState'[m] = mState[m] /\ subs'[m] = subs[m]
      BY <2>2 DEF MachineInv, MachineTypeOK
    <3> QED  BY <3>1 DEF MachineInv
  <2> QED  BY <2>1, <2>2
<1> QED  BY <1>1, <1>2

-----------------------------------------------------------------------------
(* Messages and queues. *)

(* Every message the handlers post is one the adapter knows. *)
LEMMA MsgTypes ==
  /\ \A h \in Handles : /\ ReleaseATLMsg(h) \in Msgs
                        /\ \A t \in AllTypes : RequestATLMsg(h, t) \in Msgs
  /\ \A n \in Nifs, e \in Events : EventMsg(n, e) \in Msgs
  /\ InitMsg \in Msgs
BY DEF ReleaseATLMsg, RequestATLMsg, EventMsg, InitMsg, Msgs

(* Posting keeps the queue a sequence of messages. *)
LEMMA AppendType ==
  ASSUME NEW Q \in Seq(Msgs), NEW m \in Msgs
  PROVE  Append(Q, m) \in Seq(Msgs)
OBVIOUS

(* The fall-back requests of the DS NIF form a sequence of messages. *)
LEMMA FallbackType ==
  ASSUME NEW S \in SUBSET Handles, NEW o \in Orders(S), NEW Q \in Seq(Msgs)
  PROVE  Q \o [i \in DOMAIN o |-> RequestATLMsg(o[i], "SUPL")] \in Seq(Msgs)
<1>1. Cardinality(S) \in Nat
  BY AgpsAssumption, FS_Subset, FS_CardinalityType DEF AgpsAssumption
<1>2. o \in [1..Cardinality(S) -> S]
  BY DEF Orders
<1>3. \A i \in 1..Cardinality(S) : RequestATLMsg(o[i], "SUPL") \in Msgs
  BY <1>2, MsgTypes DEF AllTypes
<1>4. [i \in DOMAIN o |-> RequestATLMsg(o[i], "SUPL")]
         \in [1..Cardinality(S) -> Msgs]
  BY <1>2, <1>3
<1>5. [i \in DOMAIN o |-> RequestATLMsg(o[i], "SUPL")] \in Seq(Msgs)
  BY <1>1, <1>4
<1> QED  BY <1>5

(* The handles of a subscriber list are handles. *)
LEMMA ConnsType == \A S \in SUBSET AgpsSubscriber : Conns(S) \in SUBSET Handles
BY DEF Conns, AgpsSubscriber

(* What the modem is told leaves its view well typed. *)
LEMMA ModemTypes ==
  ASSUME MachineInv, NEW H, NEW b \in BOOLEAN
  PROVE  /\ AtlOpenStatus(H, b) \in [Handles -> ConnStates]
         /\ AtlCloseStatus(H) \in [Handles -> ConnStates]
BY DEF MachineInv, MachineTypeOK, ConnStates, AtlOpenStatus, AtlCloseStatus

-----------------------------------------------------------------------------
(* The data connection. *)

(* Asking for a connection keeps the retry counter, the timers, the queue  *)
(* and the connections well typed.                                         *)
LEMMA RequestTypes ==
  ASSUME MachineInv, NEW n \in Nifs, NEW S \in SUBSET AgpsSubscriber,
         NEW C \in [Nifs -> ConnStates], NEW Q \in Seq(Msgs),
         NEW ok \in BOOLEAN, requestDataConn(n, S, C, Q, ok)
  PROVE  /\ mRetries' \in 0..MaxRetries
         /\ timers' \in 0..MaxTimers
         /\ queue' \in Seq(Msgs)
         /\ conn' \in [Nifs -> ConnStates]
<1>0. mRetries \in 0..MaxRetries /\ timers \in 0..MaxTimers
  BY DEF MachineInv, MachineTypeOK
<1>1. CASE UNCHANGED <<mRetries, timers>> /\ queue' = Q /\ conn' = C
  BY <1>0, <1>1
<1>2. CASE n # "ds"
  BY <1>0, <1>2 DEF requestDataConn, ConnStates
<1>3. CASE n = "ds" /\ anyActiveSubscribers(S)
  <2>1. PICK first \in ActiveSubscribers(S) : openAndStartDataCall(first, C, Q, ok)
    BY <1>3 DEF requestDataConn
  <2>2. RequestATLMsg(first.conn, "SUPL") \in Msgs
    BY MsgTypes DEF ActiveSubscribers, AgpsSubscriber, AllTypes
  <2>3. Append(Q, RequestATLMsg(first.conn, "SUPL")) \in Seq(Msgs)
    BY <2>2, AppendType
  <2>4. [C EXCEPT !["ds"] = "opening"] \in [Nifs -> ConnStates]
    BY DEF ConnStates
  <2> QED
    BY SMTT(30), <1>0, <2>1, <2>3, <2>4, AgpsAssumption
    DEF openAndStartDataCall, MayRetry, AgpsAssumption
<1> QED  BY <1>1, <1>2, <1>3 DEF requestDataConn

-----------------------------------------------------------------------------
(* One lemma for each event handler. *)

(* A new subscriber is active and keeps the list free of duplicates. *)
LEMMA SubscribeInv ==
  ASSUME MachineInv, NEW n \in Nifs, NEW s \in AgpsSubscriber, s.inactive = FALSE,
         NEW Q \in Seq(Msgs), processAgpsEventSubscribe(n, s, Q)
  PROVE  MachineInv'
<1> DEFINE S == addSubscriber(subs[n], s)
<1>0. NifInv(n, mState[n], subs[n]) /\ subs[n] \in SUBSET AgpsSubscriber
        /\ mState[n] \in States
  BY DEF MachineInv, MachineTypeOK
<1>1. S \in SUBSET AgpsSubscriber
  BY <1>0 DEF addSubscriber
<1>2. /\ \A x, y \in S : x.conn = y.conn => x = y
      /\ \A x \in S : x.inactive => x.wait
      /\ InactiveSubscribers(S) = InactiveSubscribers(subs[n])
      /\ ActiveSubscribers(subs[n]) \subseteq ActiveSubscribers(S)
  BY <1>0 DEF addSubscriber, NifInv, HasConn, InactiveSubscribers, ActiveSubscribers
<1>3. InactiveSubscribers(S) = {} => ActiveSubscribers(S) # {}
  BY DEF addSubscriber, HasConn, InactiveSubscribers, ActiveSubscribers
<1>4. CASE mState[n] = "RELEASED"
  <2>1. PICK ok \in BOOLEAN :
          /\ requestDataConn(n, S, conn, Q, ok)
          /\ mState' = [mState EXCEPT ![n] = IF ok THEN "PENDING" ELSE @]
    BY <1>4 DEF processAgpsEventSubscribe
  <2>2. n # "ds" => ok
    BY <2>1 DEF requestDataConn
  <2> DEFINE state == IF ok THEN "PENDING" ELSE "RELEASED"
  <2>3. NifInv(n, state, S) /\ state \in States
    BY <1>0, <1>2, <1>3, <1>4, <2>2 DEF NifInv, ActiveSubscribers, States
  <2>4. subs' = [subs EXCEPT ![n] = S] /\ mState' = [mState EXCEPT ![n] = state]
        /\ modem' = modem
    BY <1>4, <2>1 DEF processAgpsEventSubscribe
  <2>5. conn \in [Nifs -> ConnStates] /\ modem \in [Handles -> ConnStates]
    BY DEF MachineInv, MachineTypeOK
  <2> HIDE DEF state, S
  <2>6. /\ mState' \in [Nifs -> States]
        /\ subs' \in [Nifs -> SUBSET AgpsSubscriber]
        /\ \A m \in Nifs : NifInv(m, mState'[m], subs'[m])
    BY <1>1, <2>3, <2>4, NifFrame
  <2>7. /\ mRetries' \in 0..MaxRetries
        /\ timers' \in 0..MaxTimers
        /\ queue' \in Seq(Msgs)
        /\ conn' \in [Nifs -> ConnStates]
    BY <1>1, <2>1, <2>5, RequestTypes
  <2> QED  BY <2>4, <2>5, <2>6, <2>7 DEF MachineInv, MachineTypeOK
<1>5. CASE mState[n] # "RELEASED"
  <2>1. NifInv(n, mState[n], S)
    BY <1>0, <1>2, <1>5 DEF NifInv, ActiveSubscribers
  <2>2. /\ subs' = [subs EXCEPT ![n] = S]
        /\ mState' = [mState EXCEPT ![n] = mState[n]]
        /\ queue' = Q
        /\ UNCHANGED <<conn, mRetries, timers>>
        /\ modem' \in {modem, AtlOpenStatus({s.conn}, TRUE)}
    BY <1>5 DEF processAgpsEventSubscribe, MachineInv, MachineTypeOK
  <2> HIDE DEF S
  <2>3. /\ mState' \in [Nifs -> States]
        /\ subs' \in [Nifs -> SUBSET AgpsSubscriber]
        /\ \A m \in Nifs : NifInv(m, mState'[m], subs'[m])
    BY <1>0, <1>1, <2>1, <2>2, NifFrame
  <2>4. modem' \in [Handles -> ConnStates]
    BY <2>2, ModemTypes DEF MachineInv, MachineTypeOK
  <2> QED  BY <2>2, <2>3, <2>4 DEF MachineInv, MachineTypeOK
<1> QED  BY <1>4, <1>5

(* Leaving keeps at least one active subscriber, or releases the           *)
(* connection; only a subscriber that waits is left inactive.              *)
LEMMA UnsubscribeInv ==
  ASSUME MachineInv, NEW n \in Nifs, NEW s \in subs[n],
         NEW Q \in Seq(Msgs), processAgpsEventUnsubscribe(n, s, Q)
  PROVE  MachineInv'
<1> DEFINE S == Unsubscribed(n, s)
           told == IF s.wait /\ mState[n] # "RELEASED" THEN {} ELSE {s.conn}
<1>0. NifInv(n, mState[n], subs[n]) /\ subs[n] \in SUBSET AgpsSubscriber
        /\ mState[n] \in States /\ conn \in [Nifs -> ConnStates]
  BY DEF MachineInv, MachineTypeOK
<1>1. s \in AgpsSubscriber /\ [s EXCEPT !.inactive = TRUE] \in AgpsSubscriber
  BY <1>0 DEF AgpsSubscriber
<1>2. S \in SUBSET AgpsSubscriber
  BY <1>0, <1>1 DEF Unsubscribed, deleteSubscriber
<1>3. /\ \A x, y \in S : x.conn = y.conn => x = y
      /\ \A x \in S : x.inactive => x.wait
  BY <1>0, <1>1 DEF Unsubscribed, deleteSubscriber, NifInv, AgpsSubscriber
<1>4. modem' \in [Handles -> ConnStates]
  BY ModemTypes DEF processAgpsEventUnsubscribe
<1>5. /\ queue' = Q
      /\ UNCHANGED <<mRetries, timers>>
  BY DEF processAgpsEventUnsubscribe
<1>6. CASE mState[n] = "RELEASED"
  <2>1. UNCHANGED <<subs, mState, conn>>
    BY <1>6 DEF processAgpsEventUnsubscribe
  <2> QED  BY <1>4, <1>5, <2>1 DEF MachineInv, MachineTypeOK
<1>7. CASE mState[n] \in {"PENDING", "ACQUIRED"}
  <2> DEFINE state == StateAfterUnsubscribe(mState[n], S)
  <2>1. NifInv(n, state, S) /\ state \in States
    BY <1>0, <1>3, <1>7 DEF NifInv, StateAfterUnsubscribe, anyActiveSubscribers,
         InactiveSubscribers, ActiveSubscribers, States
  <2>2. /\ subs' = [subs EXCEPT ![n] = S]
        /\ mState' = [mState EXCEPT ![n] = state]
        /\ conn' \in {conn, [conn EXCEPT ![n] = "closing"]}
    BY <1>7 DEF processAgpsEventUnsubscribe, releaseDataConn
  <2>3. conn' \in [Nifs -> ConnStates]
    BY <1>0, <2>2 DEF ConnStates
  <2> HIDE DEF state, S
  <2>4. /\ mState' \in [Nifs -> States]
        /\ subs' \in [Nifs -> SUBSET AgpsSubscriber]
        /\ \A m \in Nifs : NifInv(m, mState'[m], subs'[m])
    BY <1>2, <2>1, <2>2, NifFrame
  <2> QED  BY <1>4, <1>5, <2>3, <2>4 DEF MachineInv, MachineTypeOK
<1>8. CASE mState[n] = "RELEASING"
  <2> DEFINE state == IF S = {} THEN "RELEASED" ELSE "RELEASING"
  <2>1. state = "RELEASING" => InactiveSubscribers(S) # {}
    <3> HAVE state = "RELEASING"
    <3>1. CASE s.wait
      BY <3>1, <1>1 DEF Unsubscribed, InactiveSubscribers, ActiveSubscribers, AgpsSubscriber
    <3>2. CASE ~s.wait
      <4>1. PICK x \in subs[n] : x.inactive
        BY <1>0, <1>8 DEF NifInv, InactiveSubscribers, ActiveSubscribers
      <4>2. x.wait /\ x # s
        BY <1>0, <4>1, <3>2 DEF NifInv
      <4>3. x.conn # s.conn
        BY <1>0, <4>2 DEF NifInv
      <4>4. x \in S
        BY <3>2, <4>1, <4>3 DEF Unsubscribed, deleteSubscriber
      <4> QED  BY <4>1, <4>4 DEF InactiveSubscribers, ActiveSubscribers
    <3> QED  BY <3>1, <3>2
  <2>2. NifInv(n, state, S) /\ state \in States
    BY <1>0, <1>3, <1>8, <2>1 DEF NifInv, InactiveSubscribers, States
  <2>3. /\ subs' = [subs EXCEPT ![n] = S]
        /\ mState' = [mState EXCEPT ![n] = state]
        /\ conn' = conn
    BY <1>8 DEF processAgpsEventUnsubscribe
  <2> HIDE DEF state, S
  <2>4. /\ mState' \in [Nifs -> States]
        /\ subs' \in [Nifs -> SUBSET AgpsSubscriber]
        /\ \A m \in Nifs : NifInv(m, mState'[m], subs'[m])
    BY <1>2, <2>2, <2>3, NifFrame
  <2> QED  BY <1>0, <1>4, <1>5, <2>3, <2>4 DEF MachineInv, MachineTypeOK
<1> QED  BY <1>0, <1>6, <1>7, <1>8 DEF States

(* A grant finds the active subscribers the PENDING state guarantees. *)
LEMMA GrantedInv ==
  ASSUME MachineInv, NEW n \in Nifs, NEW Q \in Seq(Msgs),
         processAgpsEventGranted(n, Q)
  PROVE  MachineInv'
<1>1. queue' = Q /\ UNCHANGED <<conn, mRetries, timers>>
  BY DEF processAgpsEventGranted
<1>2. CASE mState[n] = "PENDING"
  <2>1. /\ NifInv(n, "ACQUIRED", subs[n])
        /\ subs' = [subs EXCEPT ![n] = subs[n]]
        /\ mState' = [mState EXCEPT ![n] = "ACQUIRED"]
        /\ subs[n] \in SUBSET AgpsSubscriber
    BY <1>2 DEF processAgpsEventGranted, MachineInv, MachineTypeOK, NifInv
  <2>2. modem' \in [Handles -> ConnStates]
    BY <1>2, ModemTypes DEF processAgpsEventGranted
  <2>3. "ACQUIRED" \in States
    BY DEF States
  <2>4. /\ mState' \in [Nifs -> States]
        /\ subs' \in [Nifs -> SUBSET AgpsSubscriber]
        /\ \A m \in Nifs : NifInv(m, mState'[m], subs'[m])
    BY <2>1, <2>3, NifFrame
  <2> QED  BY <1>1, <2>2, <2>4 DEF MachineInv, MachineTypeOK
<1>3. CASE mState[n] # "PENDING"
  <2>1. UNCHANGED <<mState, subs, modem>>
    BY <1>3 DEF processAgpsEventGranted
  <2> QED  BY <1>1, <2>1 DEF MachineInv, MachineTypeOK
<1> QED  BY <1>2, <1>3

(* A list with no subscriber agrees with RELEASED. *)
LEMMA EmptyReleased == \A n \in Nifs : NifInv(n, "RELEASED", {})
BY DEF NifInv, InactiveSubscribers, ActiveSubscribers

(* Closing the data call leaves the connections well typed. *)
LEMMA CloseType ==
  ASSUME NEW n, NEW S, NEW C \in [Nifs -> ConnStates]
  PROVE  ConnAfterClose(n, S, C) \in [Nifs -> ConnStates]
BY DEF ConnAfterClose, ConnStates

(* At the end of a release exactly the active subscribers remain, and they *)
(* are why the NIF becomes PENDING again.                                  *)
LEMMA FinishReleasingInv ==
  ASSUME MachineInv, NEW n \in Nifs, NEW C \in [Nifs -> ConnStates],
         NEW Q \in Seq(Msgs), finishReleasing(n, C, Q)
  PROVE  MachineInv'
<1> DEFINE gone == InactiveSubscribers(subs[n])
           S == ActiveSubscribers(subs[n])
           state == IF S # {} THEN "PENDING" ELSE "RELEASED"
           closed == ConnAfterClose(n, gone, C)
<1>1. /\ NifInv(n, mState[n], subs[n])
      /\ subs[n] \in SUBSET AgpsSubscriber
      /\ S \in SUBSET AgpsSubscriber
  BY DEF MachineInv, MachineTypeOK, ActiveSubscribers
<1>2. NifInv(n, state, S) /\ state \in States
  BY <1>1 DEF NifInv, anyActiveSubscribers, InactiveSubscribers,
              ActiveSubscribers, States
<1>3. /\ subs' = [subs EXCEPT ![n] = S]
      /\ mState' = [mState EXCEPT ![n] = state]
  BY DEF finishReleasing
<1>4. modem' \in [Handles -> ConnStates]
  BY ModemTypes DEF finishReleasing
<1>5. closed \in [Nifs -> ConnStates]
  BY CloseType
<1>6. /\ mRetries' \in 0..MaxRetries
      /\ timers' \in 0..MaxTimers
      /\ queue' \in Seq(Msgs)
      /\ conn' \in [Nifs -> ConnStates]
  <2>1. CASE S # {}
    <3>1. PICK ok \in BOOLEAN : requestDataConn(n, S, closed, Q, ok)
      BY <2>1 DEF finishReleasing
    <3> HIDE DEF S, closed
    <3> QED  BY <1>1, <1>5, <3>1, RequestTypes
  <2>2. CASE S = {}
    BY <2>2, <1>5 DEF finishReleasing, MachineInv, MachineTypeOK
  <2> QED  BY <2>1, <2>2
<1> HIDE DEF S, state
<1>7. /\ mState' \in [Nifs -> States]
      /\ subs' \in [Nifs -> SUBSET AgpsSubscriber]
      /\ \A m \in Nifs : NifInv(m, mState'[m], subs'[m])
  BY <1>1, <1>2, <1>3, NifFrame
<1> QED  BY <1>4, <1>6, <1>7 DEF MachineInv, MachineTypeOK

(* A forced release empties the list. *)
LEMMA ReleasedInv ==
  ASSUME MachineInv, NEW n \in Nifs, NEW C \in [Nifs -> ConnStates],
         NEW Q \in Seq(Msgs), processAgpsEventReleased(n, C, Q)
  PROVE  MachineInv'
<1>1. CASE mState[n] = "ACQUIRED"
  <2>1. /\ mState' = [mState EXCEPT ![n] = "RELEASED"]
        /\ subs' = [subs EXCEPT ![n] = {}]
        /\ modem' = AtlCloseStatus(Conns(subs[n]))
        /\ conn' = ConnAfterClose(n, subs[n], C)
        /\ queue' = Q
        /\ UNCHANGED <<mRetries, timers>>
    BY <1>1 DEF processAgpsEventReleased
  <2>2. "RELEASED" \in States /\ {} \in SUBSET AgpsSubscriber
    BY DEF States
  <2>3. /\ mState' \in [Nifs -> States]
        /\ subs' \in [Nifs -> SUBSET AgpsSubscriber]
        /\ \A m \in Nifs : NifInv(m, mState'[m], subs'[m])
    BY <2>1, <2>2, EmptyReleased, NifFrame
  <2>4. modem' \in [Handles -> ConnStates] /\ conn' \in [Nifs -> ConnStates]
    BY <2>1, ModemTypes, CloseType
  <2> QED  BY <2>1, <2>3, <2>4 DEF MachineInv, MachineTypeOK
<1>2. CASE mState[n] = "RELEASING"
  BY <1>2, FinishReleasingInv DEF processAgpsEventReleased
<1>3. CASE mState[n] \in {"RELEASED", "PENDING"}
  <2>1. conn' = C /\ queue' = Q /\ UNCHANGED <<mState, subs, modem, mRetries, timers>>
    BY <1>3 DEF processAgpsEventReleased
  <2> QED  BY <2>1 DEF MachineInv, MachineTypeOK
<1> QED  BY <1>1, <1>2, <1>3 DEF processAgpsEventReleased

(* A denial empties the list. *)
LEMMA DeniedInv ==
  ASSUME MachineInv, NEW n \in Nifs, NEW Q \in Seq(Msgs),
         processAgpsEventDenied(n, Q)
  PROVE  MachineInv'
<1>0. conn \in [Nifs -> ConnStates] /\ mRetries \in 0..MaxRetries
        /\ subs[n] \in SUBSET AgpsSubscriber /\ modem \in [Handles -> ConnStates]
        /\ timers \in 0..MaxTimers
  BY DEF MachineInv, MachineTypeOK
<1>1. CASE mState[n] = "PENDING"
  <2>1. /\ mState' = [mState EXCEPT ![n] = "RELEASED"]
        /\ subs' = [subs EXCEPT ![n] = {}]
        /\ UNCHANGED <<conn, timers>>
    BY <1>1 DEF processAgpsEventDenied
  <2>2. "RELEASED" \in States /\ {} \in SUBSET AgpsSubscriber
    BY DEF States
  <2>3. /\ mState' \in [Nifs -> States]
        /\ subs' \in [Nifs -> SUBSET AgpsSubscriber]
        /\ \A m \in Nifs : NifInv(m, mState'[m], subs'[m])
    BY <2>1, <2>2, EmptyReleased, NifFrame
  <2>4. /\ mRetries' \in 0..MaxRetries
        /\ queue' \in Seq(Msgs)
        /\ modem' \in [Handles -> ConnStates]
    <3>1. CASE n = "ds"
      <4>1. PICK o \in Orders(Conns(subs[n])) :
              queue' = Q \o [i \in DOMAIN o |-> RequestATLMsg(o[i], "SUPL")]
        BY <1>1, <3>1 DEF processAgpsEventDenied
      <4>2. queue' \in Seq(Msgs)
        BY <1>0, <4>1, ConnsType, FallbackType
      <4>3. mRetries' \in {mRetries, 0} /\ modem' = modem
        BY <1>1, <3>1 DEF processAgpsEventDenied
      <4>4. mRetries' \in 0..MaxRetries
        BY <1>0, <4>3, AgpsAssumption DEF AgpsAssumption
      <4> QED  BY <1>0, <4>2, <4>3, <4>4
    <3>2. CASE n # "ds"
      <4>1. /\ queue' = Q /\ mRetries' = mRetries
            /\ modem' = AtlOpenStatus(Conns(subs[n]), FALSE)
        BY <1>1, <3>2 DEF processAgpsEventDenied
      <4> QED  BY <1>0, <4>1, ModemTypes
    <3> QED  BY <3>1, <3>2
  <2> QED  BY <1>0, <2>1, <2>3, <2>4 DEF MachineInv, MachineTypeOK
<1>2. CASE mState[n] = "RELEASING"
  BY <1>0, <1>2, FinishReleasingInv DEF processAgpsEventDenied
<1>3. CASE mState[n] \in {"RELEASED", "ACQUIRED"}
  <2>1. queue' = Q /\ UNCHANGED <<mState, subs, modem, conn, mRetries, timers>>
    BY <1>3 DEF processAgpsEventDenied
  <2> QED  BY <2>1 DEF MachineInv, MachineTypeOK
<1> QED  BY <1>1, <1>2, <1>3 DEF processAgpsEventDenied

(* Every event of a data connection, of either kind of state machine. *)
LEMMA EventInv ==
  ASSUME MachineInv, NEW n \in Nifs, NEW e, NEW C \in [Nifs -> ConnStates],
         NEW Q \in Seq(Msgs), processAgpsEvent(n, e, C, Q)
  PROVE  MachineInv'
BY GrantedInv, ReleasedInv, DeniedInv DEF processAgpsEvent

-----------------------------------------------------------------------------
(* The messages of the adapter. *)

(* createAgpsStateMachines only adds NIFs. *)
LEMMA CreateType ==
  ASSUME nif \subseteq Nifs
  PROVE  \A N \in createAgpsStateMachines : N \subseteq Nifs
BY DEF createAgpsStateMachines, Nifs

(* Taking a message off the queue leaves messages. *)
LEMMA QueueTypes ==
  ASSUME MachineInv, queue # <<>>
  PROVE  Head(queue) \in Msgs /\ Tail(queue) \in Seq(Msgs)
BY DEF MachineInv, MachineTypeOK

(* Each message kind of ProcMsg keeps the invariant. *)
LEMMA ProcMsgInv ==
  ASSUME IInv, ProcMsg
  PROVE  IInv'
<1> DEFINE m == Head(queue)
           Q == Tail(queue)
<1>0. /\ MachineInv
      /\ nif \subseteq Nifs
      /\ conn \in [Nifs -> ConnStates]
      /\ subs \in [Nifs -> SUBSET AgpsSubscriber]
  BY DEF IInv, MachineInv, MachineTypeOK
<1>1. m \in Msgs /\ Q \in Seq(Msgs)
  BY <1>0, QueueTypes DEF ProcMsg
<1>2. CASE m.kind = "AgpsMsgInit"
  <2>1. /\ nif' \in createAgpsStateMachines
        /\ queue' = Q
        /\ UNCHANGED <<mState, subs, conn, modem, mRetries, timers>>
    BY <1>2 DEF ProcMsg
  <2>2. nif' \subseteq Nifs
    BY <1>0, <2>1, CreateType
  <2> QED  BY <1>0, <1>1, <2>1, <2>2 DEF IInv, MachineInv, MachineTypeOK
<1>3. CASE m.kind = "RequestATL"
  <2>1. m.conn \in Handles /\ requestATL(m.conn, m.type, Q)
    BY <1>1, <1>3 DEF ProcMsg, Msgs
  <2>2. PICK N \in NifsAfterLookup(m.type) :
          /\ nif' = N
          /\ \/ /\ NifOf(m.type) \notin N
                /\ modem' = AtlOpenStatus({m.conn}, FALSE)
                /\ queue' = Q
                /\ UNCHANGED <<mState, subs, conn, mRetries, timers>>
             \/ /\ NifOf(m.type) \in N
                /\ processAgpsEventSubscribe(NifOf(m.type),
                     [conn |-> m.conn, wait |-> m.type = "SUPL_ES", inactive |-> FALSE], Q)
    BY <2>1 DEF requestATL
  <2>3. N \subseteq Nifs
    BY <1>0, <2>2, CreateType DEF NifsAfterLookup
  <2>4. CASE NifOf(m.type) \notin N
    <3>1. modem' \in [Handles -> ConnStates]
      BY <1>0, <2>2, <2>4, ModemTypes
    <3> QED
      BY <1>0, <1>1, <2>2, <2>3, <2>4, <3>1 DEF IInv, MachineInv, MachineTypeOK
  <2>5. CASE NifOf(m.type) \in N
    <3> DEFINE s == [conn |-> m.conn, wait |-> m.type = "SUPL_ES", inactive |-> FALSE]
    <3>1. s \in AgpsSubscriber /\ s.inactive = FALSE
      BY <2>1 DEF AgpsSubscriber
    <3>2. NifOf(m.type) \in Nifs /\ processAgpsEventSubscribe(NifOf(m.type), s, Q)
      BY <2>2, <2>3, <2>5
    <3> HIDE DEF s, m, Q
    <3>3. MachineInv'
      BY <1>0, <1>1, <3>1, <3>2, SubscribeInv
    <3> QED  BY <2>2, <2>3, <3>3 DEF IInv
  <2> QED  BY <2>4, <2>5
<1>4. CASE m.kind = "ReleaseATL"
  <2> DEFINE n == FirstNifWith(m.conn)
  <2>1. n \in Nifs
    BY DEF FirstNifWith, Nifs
  <2>2. releaseATL(m.conn, Q)
    BY <1>4 DEF ProcMsg
  <2>3. CASE ~HasConn(subs[n], m.conn)
    <3>1. /\ modem' = AtlCloseStatus({m.conn})
          /\ queue' = Q
          /\ UNCHANGED <<nif, mState, subs, conn, mRetries, timers>>
      BY <2>2, <2>3 DEF releaseATL, HasConn
    <3>2. modem' \in [Handles -> ConnStates]
      BY <1>0, <3>1, ModemTypes
    <3> QED  BY <1>0, <1>1, <3>1, <3>2 DEF IInv, MachineInv, MachineTypeOK
  <2>4. CASE HasConn(subs[n], m.conn)
    <3>1. PICK s \in subs[n] : processAgpsEventUnsubscribe(n, s, Q)
      BY <2>2, <2>4 DEF releaseATL
    <3>2. nif' = nif
      BY <2>2 DEF releaseATL
    <3> HIDE DEF n, m, Q
    <3>3. MachineInv'
      BY <1>0, <1>1, <2>1, <3>1, UnsubscribeInv
    <3> QED  BY <1>0, <3>2, <3>3 DEF IInv
  <2> QED  BY <2>3, <2>4
<1>5. CASE m.kind = "Event"
  <2>1. m.nif \in Nifs /\ processAgpsEvent(m.nif, m.event, conn, Q) /\ nif' = nif
    BY <1>1, <1>5 DEF ProcMsg, Msgs
  <2> HIDE DEF m, Q
  <2>2. MachineInv'
    BY <1>0, <1>1, <2>1, EventInv
  <2> QED  BY <1>0, <2>1, <2>2 DEF IInv
<1> QED  BY <1>1, <1>2, <1>3, <1>4, <1>5 DEF Msgs

(* The outside posts known messages and touches no NIF. *)
LEMMA PostInv ==
  ASSUME IInv, NEW msg \in Msgs, Post(msg), UNCHANGED <<nif, mState, subs, mRetries, timers>>,
         modem' \in [Handles -> ConnStates], conn' \in [Nifs -> ConnStates]
  PROVE  IInv'
<1>1. queue' \in Seq(Msgs)
  BY AppendType DEF IInv, MachineInv, MachineTypeOK, Post
<1> QED  BY <1>1 DEF IInv, MachineInv, MachineTypeOK

(* The inductive step. *)
LEMMA NextInv == IInv /\ [Next]_vars => IInv'
<1> SUFFICES ASSUME IInv, [Next]_vars PROVE IInv'
  OBVIOUS
<1>0. /\ MachineInv
      /\ nif \subseteq Nifs
      /\ queue \in Seq(Msgs)
      /\ conn \in [Nifs -> ConnStates]
      /\ modem \in [Handles -> ConnStates]
      /\ timers \in 0..MaxTimers
      /\ subs \in [Nifs -> SUBSET AgpsSubscriber]
  BY DEF IInv, MachineInv, MachineTypeOK
<1>1. CASE ProcMsg
  BY <1>1, ProcMsgInv
<1>2. CASE RetryCallback
  <2>1. timers' \in 0..MaxTimers
    BY <1>0, <1>2, AgpsAssumption DEF RetryCallback, AgpsAssumption
  <2>2. queue' \in Seq(Msgs)
    <3>1. CASE anyActiveSubscribers(subs["ds"])
      <4>1. PICK first \in ActiveSubscribers(subs["ds"]) :
              queue' = Append(queue, RequestATLMsg(first.conn, "SUPL_ES"))
        BY <1>2, <3>1 DEF RetryCallback
      <4>2. first.conn \in Handles
        BY <1>0 DEF ActiveSubscribers, AgpsSubscriber, Nifs
      <4>3. RequestATLMsg(first.conn, "SUPL_ES") \in Msgs
        BY <4>2, MsgTypes DEF AllTypes
      <4> QED  BY <1>0, <4>1, <4>3, AppendType
    <3>2. CASE ~anyActiveSubscribers(subs["ds"])
      BY <1>0, <1>2, <3>2 DEF RetryCallback
    <3> QED  BY <3>1, <3>2
  <2>3. UNCHANGED <<nif, mState, subs, mRetries, modem, conn>>
    BY <1>2 DEF RetryCallback
  <2> QED  BY <2>1, <2>2, <2>3 DEF IInv, MachineInv, MachineTypeOK
<1>3. CASE InitAgps
  BY <1>0, <1>3, MsgTypes, PostInv DEF InitAgps
<1>4. ASSUME NEW h \in Handles, NEW t \in Types, ModemOpen(h, t)
      PROVE  IInv'
  <2>1. RequestATLMsg(h, t) \in Msgs
    BY MsgTypes, AgpsAssumption DEF AgpsAssumption, AllTypes
  <2>2. modem' \in [Handles -> ConnStates] /\ conn' = conn
    BY <1>0, <1>4 DEF ModemOpen, ConnStates
  <2> QED  BY <1>0, <1>4, <2>1, <2>2, PostInv DEF ModemOpen
<1>5. ASSUME NEW h \in Handles, ModemClose(h)
      PROVE  IInv'
  <2>1. ReleaseATLMsg(h) \in Msgs
    BY MsgTypes
  <2>2. modem' \in [Handles -> ConnStates] /\ conn' = conn
    BY <1>0, <1>5 DEF ModemClose, ConnStates
  <2> QED  BY <1>0, <1>5, <2>1, <2>2, PostInv DEF ModemClose
<1>6. ASSUME NEW n \in Nifs, ConnOpened(n) \/ ConnClosed(n) \/ ConnFailed(n)
      PROVE  IInv'
  <2>1. \A e \in Events : EventMsg(n, e) \in Msgs
    BY MsgTypes
  <2>2. conn' \in [Nifs -> ConnStates] /\ modem' = modem
    BY <1>0, <1>6 DEF ConnOpened, ConnClosed, ConnFailed, ConnStates
  <2>3. /\ \E e \in Events : Post(EventMsg(n, e))
        /\ UNCHANGED <<nif, mState, subs, mRetries, timers>>
    BY <1>6 DEF ConnOpened, ConnClosed, ConnFailed, Events
  <2> QED  BY <1>0, <2>1, <2>2, <2>3, PostInv
<1>7. ASSUME NEW n \in Nifs, ConnOpenedBadApn(n)
      PROVE  IInv'
  <2>1. [conn EXCEPT ![n] = "open"] \in [Nifs -> ConnStates]
    BY <1>0 DEF ConnStates
  <2>2. MachineInv' /\ nif' = nif
    BY <1>0, <1>7, <2>1, EventInv DEF ConnOpenedBadApn
  <2> QED  BY <1>0, <2>2 DEF IInv
<1>8. CASE UNCHANGED vars
  BY <1>8 DEF vars, IInv, MachineInv, MachineTypeOK
<1> QED
  BY <1>1, <1>2, <1>3, <1>4, <1>5, <1>6, <1>7, <1>8 DEF Next

(* The initial state. *)
LEMMA InitInv == Init => IInv
<1> SUFFICES ASSUME Init PROVE IInv
  OBVIOUS
<1>1. MachineTypeOK /\ nif \subseteq Nifs
  BY AgpsAssumption DEF Init, MachineTypeOK, AgpsAssumption, States, ConnStates
<1>2. \A n \in Nifs : NifInv(n, mState[n], subs[n])
  BY EmptyReleased DEF Init
<1> QED  BY <1>1, <1>2 DEF IInv, MachineInv

-----------------------------------------------------------------------------
(* The theorems. *)

(* Every reachable state is well typed; in particular the DS retry counter *)
(* is bounded by MAX_START_DATA_CALL_RETRIES.                              *)
THEOREM TypeCorrect == Spec => []TypeOK
<1>1. IInv => TypeOK
  BY IInvParts
<1> QED  BY <1>1, InitInv, NextInv, PTL DEF Spec

(* In every reachable state the AgpsState of each NIF agrees with its      *)
(* mSubscriberList: a held connection has an active subscriber, a release  *)
(* in progress has a subscriber waiting for it, no handle is listed twice, *)
(* and a framework NIF that is RELEASED has no subscriber.                 *)
THEOREM StateMatchesSubscribers ==
  Spec => [](/\ OneSubscriberPerHandle
             /\ HeldConnectionHasActiveSubscriber
             /\ ReleasingHasWaiter
             /\ ReleasedListIsEmpty)
<1>1. IInv => /\ OneSubscriberPerHandle
              /\ HeldConnectionHasActiveSubscriber
              /\ ReleasingHasWaiter
              /\ ReleasedListIsEmpty
  BY IInvParts
<1> QED  BY <1>1, InitInv, NextInv, PTL DEF Spec

(* In particular a NIF that releases its connection has a subscriber to    *)
(* tell at the end of it (AGPS_EVENT_RELEASED in RELEASING), and nobody    *)
(* waits for a close in RELEASED, where no event would come.               *)
THEOREM ReleasingIsAwaited == Spec => []ReleasingHasWaiter
<1>1. IInv => ReleasingHasWaiter
  BY IInvParts
<1> QED  BY <1>1, InitInv, NextInv, PTL DEF Spec

-----------------------------------------------------------------------------
(* PendingAwaitsAnswer. *)

(* The answer to the request of NIF n, with its connection in state c: the *)
(* framework still has it, or it is among the messages q.                  *)
AnswerEvents(n) == {EventMsg(n, "GRANTED"), EventMsg(n, "DENIED")}
Awaits(n, c, q) == c = "opening" \/ \E i \in DOMAIN q : q[i] \in AnswerEvents(n)

PendingInv == \A n \in Nifs \ {"ds"} :
                mState[n] = "PENDING" => Awaits(n, conn[n], queue)

(* q with more messages behind it. *)
Extended(q, r) == \A i \in DOMAIN q : i \in DOMAIN r /\ r[i] = q[i]

(* A message posted behind others leaves those in place. *)
LEMMA ExtendedAppend ==
  ASSUME NEW Q \in Seq(Msgs), NEW m
  PROVE  Extended(Q, Q) /\ Extended(Q, Append(Q, m))
BY DEF Extended

(* So do the fall-back requests of the DS NIF. *)
LEMMA ExtendedConcat ==
  ASSUME NEW S \in SUBSET Handles, NEW o \in Orders(S), NEW Q \in Seq(Msgs)
  PROVE  Extended(Q, Q \o [i \in DOMAIN o |-> RequestATLMsg(o[i], "SUPL")])
<1>1. Cardinality(S) \in Nat
  BY AgpsAssumption, FS_Subset, FS_CardinalityType DEF AgpsAssumption
<1>2. o \in [1..Cardinality(S) -> S]
  BY DEF Orders
<1>3. \A i \in 1..Cardinality(S) : RequestATLMsg(o[i], "SUPL") \in Msgs
  BY <1>2, MsgTypes DEF AllTypes
<1>4. [i \in DOMAIN o |-> RequestATLMsg(o[i], "SUPL")] \in Seq(Msgs)
  BY <1>1, <1>2, <1>3
<1> QED  BY <1>4 DEF Extended

(* An answer in the queue stays there until it is processed. *)
LEMMA AwaitsExtended ==
  ASSUME NEW n, NEW c, NEW q, NEW r, Extended(q, r), Awaits(n, c, q)
  PROVE  Awaits(n, c, r)
BY DEF Awaits, Extended

(* Taking a message that is no answer leaves the answer in the queue. *)
LEMMA AwaitsTail ==
  ASSUME NEW n, NEW c, NEW q \in Seq(Msgs), q # <<>>,
         Head(q) \notin AnswerEvents(n), Awaits(n, c, q)
  PROVE  Awaits(n, c, Tail(q))
<1>1. CASE c = "opening"
  BY <1>1 DEF Awaits
<1>2. CASE c # "opening"
  <2>1. PICK i \in DOMAIN q : q[i] \in AnswerEvents(n)
    BY <1>2 DEF Awaits
  <2>2. i # 1
    BY <2>1
  <2>3. i - 1 \in DOMAIN Tail(q) /\ Tail(q)[i - 1] = q[i]
    BY <2>2
  <2> QED  BY <2>1, <2>3 DEF Awaits
<1> QED  BY <1>1, <1>2

(* A handler of NIF n that starts with the connections C and the queue Q   *)
(* asks for a connection when it makes a framework NIF PENDING, and takes  *)
(* nothing from another NIF; kept says that it may also leave n PENDING.   *)
AsksWhenPending(n, C, Q, kept) ==
  /\ Extended(Q, queue')
  /\ \A m \in Nifs \ {n, "ds"} : mState'[m] = mState[m] /\ conn'[m] = C[m]
  /\ n # "ds" /\ mState'[n] = "PENDING" =>
        \/ conn'[n] = "opening"
        \/ kept /\ mState[n] = "PENDING" /\ conn'[n] = C[n]

(* The request for the connection. *)
LEMMA RequestAsks ==
  ASSUME NEW n \in Nifs, NEW S, NEW C \in [Nifs -> ConnStates], NEW Q \in Seq(Msgs),
         NEW ok \in BOOLEAN, requestDataConn(n, S, C, Q, ok)
  PROVE  /\ Extended(Q, queue')
         /\ \A m \in Nifs \ {n, "ds"} : conn'[m] = C[m]
         /\ n # "ds" => ok /\ conn'[n] = "opening"
<1>1. CASE n # "ds"
  BY <1>1, ExtendedAppend DEF requestDataConn
<1>2. CASE n = "ds" /\ anyActiveSubscribers(S)
  <2>1. PICK first \in ActiveSubscribers(S) : openAndStartDataCall(first, C, Q, ok)
    BY <1>2 DEF requestDataConn
  <2>2. conn' \in {C, [C EXCEPT !["ds"] = "opening"]}
    BY <2>1 DEF openAndStartDataCall
  <2>3. queue' \in {Q, Append(Q, RequestATLMsg(first.conn, "SUPL"))}
    BY <2>1 DEF openAndStartDataCall
  <2>4. Extended(Q, queue')
    BY <2>3, ExtendedAppend
  <2>5. \A m \in Nifs \ {"ds"} : conn'[m] = C[m]
    BY <2>2
  <2> QED  BY <1>2, <2>4, <2>5
<1>3. CASE n = "ds" /\ ~anyActiveSubscribers(S)
  BY <1>3, ExtendedAppend DEF requestDataConn
<1> QED  BY <1>1, <1>2, <1>3

(* A RELEASED framework NIF asks as it becomes PENDING. *)
LEMMA SubscribeAsks ==
  ASSUME MachineInv, NEW n \in Nifs, NEW s, NEW Q \in Seq(Msgs),
         processAgpsEventSubscribe(n, s, Q)
  PROVE  AsksWhenPending(n, conn, Q, TRUE)
<1>0. conn \in [Nifs -> ConnStates] /\ mState \in [Nifs -> States]
  BY DEF MachineInv, MachineTypeOK
<1>1. CASE mState[n] = "RELEASED"
  <2>1. PICK ok \in BOOLEAN :
          /\ requestDataConn(n, addSubscriber(subs[n], s), conn, Q, ok)
          /\ mState' = [mState EXCEPT ![n] = IF ok THEN "PENDING" ELSE @]
    BY <1>1 DEF processAgpsEventSubscribe
  <2>2. /\ Extended(Q, queue')
        /\ \A m \in Nifs \ {n, "ds"} : conn'[m] = conn[m]
        /\ n # "ds" => conn'[n] = "opening"
    BY <1>0, <2>1, RequestAsks
  <2> QED  BY <1>0, <2>1, <2>2 DEF AsksWhenPending
<1>2. CASE mState[n] # "RELEASED"
  BY <1>0, <1>2, ExtendedAppend DEF processAgpsEventSubscribe, AsksWhenPending
<1> QED  BY <1>1, <1>2

(* A NIF that gives its connection up is not PENDING any more. *)
LEMMA UnsubscribeAsks ==
  ASSUME MachineInv, NEW n \in Nifs, NEW s, NEW Q \in Seq(Msgs),
         processAgpsEventUnsubscribe(n, s, Q)
  PROVE  AsksWhenPending(n, conn, Q, TRUE)
<1> DEFINE S == Unsubscribed(n, s)
<1>0. /\ conn \in [Nifs -> ConnStates] /\ mState \in [Nifs -> States]
      /\ queue' = Q /\ Extended(Q, Q)
  BY ExtendedAppend DEF processAgpsEventUnsubscribe, MachineInv, MachineTypeOK
<1>1. CASE mState[n] = "RELEASED"
  BY <1>0, <1>1 DEF processAgpsEventUnsubscribe, AsksWhenPending
<1>2. CASE mState[n] \in {"PENDING", "ACQUIRED"}
  <2>1. /\ mState' = [mState EXCEPT ![n] = StateAfterUnsubscribe(@, S)]
        /\ conn' = IF anyActiveSubscribers(S) THEN conn
                                              ELSE [conn EXCEPT ![n] = "closing"]
    BY <1>2 DEF processAgpsEventUnsubscribe, releaseDataConn
  <2>2. ~anyActiveSubscribers(S) => StateAfterUnsubscribe(mState[n], S) # "PENDING"
    BY DEF StateAfterUnsubscribe
  <2>3. anyActiveSubscribers(S) => StateAfterUnsubscribe(mState[n], S) = mState[n]
    BY DEF StateAfterUnsubscribe, anyActiveSubscribers, ActiveSubscribers
  <2> HIDE DEF S
  <2> QED  BY <1>0, <2>1, <2>2, <2>3 DEF AsksWhenPending
<1>3. CASE mState[n] = "RELEASING"
  BY <1>0, <1>3 DEF processAgpsEventUnsubscribe, AsksWhenPending
<1> QED  BY <1>0, <1>1, <1>2, <1>3 DEF States

(* Subscribers left at the end of a release get a new request. *)
LEMMA FinishAsks ==
  ASSUME MachineInv, NEW n \in Nifs, NEW C \in [Nifs -> ConnStates],
         NEW Q \in Seq(Msgs), finishReleasing(n, C, Q)
  PROVE  AsksWhenPending(n, C, Q, FALSE)
<1> DEFINE S == ActiveSubscribers(subs[n])
           closed == ConnAfterClose(n, InactiveSubscribers(subs[n]), C)
<1>0. /\ mState \in [Nifs -> States]
      /\ closed \in [Nifs -> ConnStates]
      /\ \A m \in Nifs \ {"ds"} : closed[m] = C[m]
  BY CloseType DEF ConnAfterClose, MachineInv, MachineTypeOK
<1>1. CASE S # {}
  <2>1. PICK ok \in BOOLEAN : requestDataConn(n, S, closed, Q, ok)
    BY <1>1 DEF finishReleasing
  <2>2. mState' = [mState EXCEPT ![n] = "PENDING"]
    BY <1>1 DEF finishReleasing
  <2> HIDE DEF S, closed
  <2>3. /\ Extended(Q, queue')
        /\ \A m \in Nifs \ {n, "ds"} : conn'[m] = closed[m]
        /\ n # "ds" => conn'[n] = "opening"
    BY <1>0, <2>1, RequestAsks
  <2> QED  BY <1>0, <2>2, <2>3 DEF AsksWhenPending
<1>2. CASE S = {}
  BY <1>0, <1>2, ExtendedAppend DEF finishReleasing, AsksWhenPending
<1> QED  BY <1>1, <1>2

(* An answer ends PENDING; RELEASED is ignored there by a framework NIF. *)
LEMMA EventAsks ==
  ASSUME MachineInv, NEW n \in Nifs, NEW e, NEW Q \in Seq(Msgs),
         processAgpsEvent(n, e, conn, Q)
  PROVE  AsksWhenPending(n, conn, Q, e \notin {"GRANTED", "DENIED"})
<1>0. /\ conn \in [Nifs -> ConnStates]
      /\ mState \in [Nifs -> States]
      /\ subs \in [Nifs -> SUBSET AgpsSubscriber]
      /\ Extended(Q, Q)
  BY ExtendedAppend DEF MachineInv, MachineTypeOK
<1>1. CASE processAgpsEventGranted(n, Q)
  BY <1>0, <1>1 DEF processAgpsEventGranted, AsksWhenPending
<1>2. CASE finishReleasing(n, conn, Q)
  BY <1>0, <1>2, FinishAsks DEF AsksWhenPending
<1>3. CASE processAgpsEventDenied(n, Q) /\ mState[n] # "RELEASING"
  <2>1. CASE mState[n] = "PENDING"
    <3>1. mState' = [mState EXCEPT ![n] = "RELEASED"] /\ conn' = conn
      BY <1>3, <2>1 DEF processAgpsEventDenied
    <3>2. Extended(Q, queue')
      <4>1. CASE n = "ds"
        <5>1. PICK o \in Orders(Conns(subs[n])) :
                queue' = Q \o [i \in DOMAIN o |-> RequestATLMsg(o[i], "SUPL")]
          BY <1>3, <2>1, <4>1 DEF processAgpsEventDenied
        <5>2. Conns(subs[n]) \in SUBSET Handles
          BY <1>0, ConnsType
        <5> QED  BY <5>1, <5>2, ExtendedConcat
      <4>2. CASE n # "ds"
        BY <1>0, <1>3, <2>1, <4>2 DEF processAgpsEventDenied
      <4> QED  BY <4>1, <4>2
    <3> QED  BY <1>0, <3>1, <3>2 DEF AsksWhenPending
  <2>2. CASE mState[n] # "PENDING"
    BY <1>0, <1>3, <2>2 DEF processAgpsEventDenied, AsksWhenPending
  <2> QED  BY <2>1, <2>2
<1>4. CASE /\ processAgpsEventReleased(n, conn, Q)
           /\ mState[n] # "RELEASING"
           /\ n = "ds" \/ e = "RELEASED"
  BY <1>0, <1>4 DEF processAgpsEventReleased, AsksWhenPending, ConnAfterClose
<1> QED  BY <1>1, <1>2, <1>3, <1>4
         DEF processAgpsEvent, processAgpsEventReleased, processAgpsEventDenied

(* A handler whose message, taken off the queue, was not an answer it kept *)
(* waiting for leaves every PENDING NIF with its answer to come.           *)
LEMMA AsksKeepsPending ==
  ASSUME IInv, PendingInv, NEW n \in Nifs, NEW kept \in BOOLEAN, queue # <<>>,
         \A m \in Nifs \ {n} : Head(queue) \notin AnswerEvents(m),
         kept => Head(queue) \notin AnswerEvents(n),
         AsksWhenPending(n, conn, Tail(queue), kept)
  PROVE  PendingInv'
<1>0. queue \in Seq(Msgs)
  BY DEF IInv, MachineInv, MachineTypeOK
<1> SUFFICES ASSUME NEW m \in Nifs \ {"ds"}, mState'[m] = "PENDING"
             PROVE  Awaits(m, conn'[m], queue')
  BY DEF PendingInv
<1>1. CASE m = n /\ conn'[n] = "opening"
  BY <1>1 DEF Awaits
<1>2. CASE (m # n) \/ conn'[n] # "opening"
  <2>1. /\ mState[m] = "PENDING" /\ conn'[m] = conn[m]
        /\ Head(queue) \notin AnswerEvents(m)
    BY <1>2 DEF AsksWhenPending
  <2>2. Awaits(m, conn[m], Tail(queue))
    BY <1>0, <2>1, AwaitsTail DEF PendingInv
  <2> QED  BY <2>1, <2>2, AwaitsExtended DEF AsksWhenPending
<1> QED  BY <1>1, <1>2

(* Steps that only post a message, whatever they do to the connections, as *)
(* long as a connection that stops being "opening" leaves its answer.      *)
LEMMA PostKeepsPending ==
  ASSUME PendingInv, queue \in Seq(Msgs), mState' = mState,
         NEW msg, queue' = Append(queue, msg),
         \A n \in Nifs \ {"ds"} :
           conn[n] = "opening" => conn'[n] = "opening" \/ msg \in AnswerEvents(n)
  PROVE  PendingInv'
<1> SUFFICES ASSUME NEW n \in Nifs \ {"ds"}, mState'[n] = "PENDING"
             PROVE  Awaits(n, conn'[n], queue')
  BY DEF PendingInv
<1>1. Awaits(n, conn[n], queue)
  BY DEF PendingInv
<1>2. CASE conn[n] = "opening"
  <2>1. CASE conn'[n] = "opening"
    BY <2>1 DEF Awaits
  <2>2. CASE msg \in AnswerEvents(n)
    <3>1. /\ Len(queue) + 1 \in DOMAIN queue'
          /\ queue'[Len(queue) + 1] = msg
      OBVIOUS
    <3> QED  BY <2>2, <3>1 DEF Awaits
  <2> QED  BY <1>2, <2>1, <2>2
<1>3. CASE conn[n] # "opening"
  <2>1. PICK i \in DOMAIN queue : queue[i] \in AnswerEvents(n)
    BY <1>1, <1>3 DEF Awaits
  <2>2. i \in DOMAIN queue' /\ queue'[i] = queue[i]
    OBVIOUS
  <2> QED  BY <2>1, <2>2 DEF Awaits
<1> QED  BY <1>2, <1>3

(* The message thread. *)
LEMMA ProcMsgPending ==
  ASSUME IInv, PendingInv, ProcMsg
  PROVE  PendingInv'
<1> DEFINE m == Head(queue)
           Q == Tail(queue)
<1>0. /\ MachineInv
      /\ nif \subseteq Nifs
      /\ queue \in Seq(Msgs)
      /\ subs \in [Nifs -> SUBSET AgpsSubscriber]
  BY DEF IInv, MachineInv, MachineTypeOK
<1>1. queue # <<>> /\ m \in Msgs /\ Q \in Seq(Msgs)
  BY <1>0, QueueTypes DEF ProcMsg
<1>2. m.kind # "Event" => \A k \in Nifs : m \notin AnswerEvents(k)
  BY DEF AnswerEvents, EventMsg
<1>3. ASSUME m.kind # "Event", UNCHANGED <<mState, conn>>, queue' = Q
      PROVE  PendingInv'
  BY <1>0, <1>1, <1>2, <1>3, AwaitsTail DEF PendingInv
<1>4. CASE m.kind = "AgpsMsgInit"
  BY <1>3, <1>4 DEF ProcMsg
<1>5. CASE m.kind = "RequestATL"
  <2>1. requestATL(m.conn, m.type, Q)
    BY <1>5 DEF ProcMsg
  <2>2. CASE UNCHANGED <<mState, conn>> /\ queue' = Q
    BY <1>3, <1>5, <2>2
  <2>3. ASSUME NEW k \in Nifs, NEW s, processAgpsEventSubscribe(k, s, Q)
        PROVE  PendingInv'
    <3>1. AsksWhenPending(k, conn, Q, TRUE)
      BY <1>0, <1>1, <2>3, SubscribeAsks
    <3> QED  BY <1>1, <1>2, <1>5, <3>1, AsksKeepsPending
  <2>4. NifOf(m.type) \in Nifs
    BY DEF NifOf, Nifs
  <2> HIDE DEF m, Q
  <2> QED  BY <2>1, <2>2, <2>3, <2>4 DEF requestATL
<1>6. CASE m.kind = "ReleaseATL"
  <2>1. releaseATL(m.conn, Q)
    BY <1>6 DEF ProcMsg
  <2>2. CASE UNCHANGED <<mState, conn>> /\ queue' = Q
    BY <1>3, <1>6, <2>2
  <2>3. ASSUME NEW k \in Nifs, NEW s, processAgpsEventUnsubscribe(k, s, Q)
        PROVE  PendingInv'
    <3>1. AsksWhenPending(k, conn, Q, TRUE)
      BY <1>0, <1>1, <2>3, UnsubscribeAsks
    <3> QED  BY <1>1, <1>2, <1>6, <3>1, AsksKeepsPending
  <2>4. FirstNifWith(m.conn) \in Nifs
    BY DEF FirstNifWith, Nifs
  <2> HIDE DEF m, Q
  <2> QED  BY <2>1, <2>2, <2>3, <2>4 DEF releaseATL
<1>7. CASE m.kind = "Event"
  <2>1. m.nif \in Nifs /\ m.event \in Events /\ processAgpsEvent(m.nif, m.event, conn, Q)
    BY <1>1, <1>7 DEF ProcMsg, Msgs
  <2>2. /\ \A k \in Nifs \ {m.nif} : m \notin AnswerEvents(k)
        /\ m.event \notin {"GRANTED", "DENIED"} => m \notin AnswerEvents(m.nif)
    BY DEF AnswerEvents, EventMsg
  <2>3. AsksWhenPending(m.nif, conn, Q, m.event \notin {"GRANTED", "DENIED"})
    BY <1>0, <1>1, <2>1, EventAsks
  <2> QED  BY <1>1, <2>1, <2>2, <2>3, AsksKeepsPending
<1> QED  BY <1>1, <1>4, <1>5, <1>6, <1>7 DEF Msgs

(* Only a framework thread that finds an unusable APN takes a request away *)
(* without an answer in the queue.                                         *)
LEMMA NextPending ==
  ASSUME ApnValid, IInv, PendingInv, [Next]_vars
  PROVE  PendingInv'
<1>0. /\ queue \in Seq(Msgs)
      /\ subs \in [Nifs -> SUBSET AgpsSubscriber]
      /\ conn \in [Nifs -> ConnStates]
  BY DEF IInv, MachineInv, MachineTypeOK
<1>1. CASE ProcMsg
  BY <1>1, ProcMsgPending
<1>2. CASE RetryCallback
  <2>1. mState' = mState /\ conn' = conn
    BY <1>2 DEF RetryCallback
  <2>2. queue' = queue \/ \E msg : queue' = Append(queue, msg)
    BY <1>2 DEF RetryCallback
  <2>3. CASE queue' = queue
    BY <2>1, <2>3 DEF PendingInv
  <2>4. CASE \E msg : queue' = Append(queue, msg)
    BY <1>0, <2>1, <2>4, PostKeepsPending
  <2> QED  BY <2>2, <2>3, <2>4
<1>3. CASE InitAgps
  BY <1>0, <1>3, PostKeepsPending DEF InitAgps, Post
<1>4. ASSUME NEW h \in Handles, NEW t \in Types, ModemOpen(h, t)
      PROVE  PendingInv'
  BY <1>0, <1>4, PostKeepsPending DEF ModemOpen, Post
<1>5. ASSUME NEW h \in Handles, ModemClose(h)
      PROVE  PendingInv'
  BY <1>0, <1>5, PostKeepsPending DEF ModemClose, Post
<1>6. ASSUME NEW n \in Nifs, NEW e, queue' = Append(queue, EventMsg(n, e)),
             mState' = mState, NEW c, conn' = [conn EXCEPT ![n] = c],
             \/ e \in {"GRANTED", "DENIED"}
             \/ n = "ds" \/ conn[n] # "opening"
      PROVE  PendingInv'
  <2>1. \A k \in Nifs \ {"ds"} :
          conn[k] = "opening" => conn'[k] = "opening" \/ EventMsg(n, e) \in AnswerEvents(k)
    BY <1>0, <1>6 DEF AnswerEvents
  <2> QED  BY <1>0, <1>6, <2>1, PostKeepsPending
<1>7. ASSUME NEW n \in Nifs, ConnOpened(n) \/ ConnClosed(n) \/ ConnFailed(n)
      PROVE  PendingInv'
  <2>1. CASE ConnOpened(n)
    BY <1>6, <2>1 DEF ConnOpened, Post
  <2>2. CASE ConnClosed(n)
    <3>1. n = "ds" \/ conn[n] # "opening"
      BY <2>2 DEF ConnClosed
    <3> QED  BY <1>6, <2>2, <3>1 DEF ConnClosed, Post
  <2>3. CASE ConnFailed(n)
    BY <1>6, <2>3 DEF ConnFailed, Post
  <2> QED  BY <1>7, <2>1, <2>2, <2>3
<1>8. ASSUME NEW n \in Nifs, ConnOpenedBadApn(n)
      PROVE  PendingInv'
  BY <1>8 DEF ConnOpenedBadApn
<1>9. CASE UNCHANGED vars
  BY <1>9 DEF vars, PendingInv
<1> QED
  BY <1>1, <1>2, <1>3, <1>4, <1>5, <1>7, <1>8, <1>9 DEF Next

(* As long as the framework only hands over usable APNs, a framework NIF   *)
(* that is PENDING has its request with the framework or the answer in the *)
(* queue: no interleaving of open, close, grant, denial and drop leaves    *)
(* AgpsStateMachine waiting for an event nobody will send.                 *)
THEOREM PendingIsAnswered ==
  ASSUME ApnValid
  PROVE  Spec => []PendingAwaitsAnswer
<1>1. Init => PendingInv
  BY DEF Init, PendingInv
<1>2. IInv /\ PendingInv /\ [Next]_vars => PendingInv'
  BY NextPending
<1>3. PendingInv => PendingAwaitsAnswer
  BY DEF PendingInv, PendingAwaitsAnswer, Awaits, AnswerEvents
<1> QED  BY <1>1, <1>2, <1>3, InitInv, NextInv, PTL DEF Spec

-----------------------------------------------------------------------------
(* OpenHandleIsServed, as long as no request is made of the DS NIF: the    *)
(* device takes emergency SUPL over the framework's connection, or the     *)
(* modem does not ask for it.  The invariant ties three views of a handle  *)
(* together: what the modem knows of it, which of its requests are still   *)
(* queued, and which NIF lists it.                                         *)
NoDsRequests == \A t \in Types : NifOf(t) # "ds"

HasReq(q, h) == \E i \in DOMAIN q : q[i].kind = "RequestATL" /\ q[i].conn = h
HasRel(q, h) == \E i \in DOMAIN q : q[i].kind = "ReleaseATL" /\ q[i].conn = h

(* Of one handle at most an open and then a close are queued. *)
Ordered(q) ==
  \A i, j \in DOMAIN q :
    /\ i < j
    /\ q[i].kind \in {"RequestATL", "ReleaseATL"}
    /\ q[j].kind \in {"RequestATL", "ReleaseATL"}
    /\ q[i].conn = q[j].conn
    => q[i].kind = "RequestATL" /\ q[j].kind = "ReleaseATL"

(* h is a handle of an active subscriber of n. *)
Serves(n, h) == mState[n] = "ACQUIRED" /\ \E s \in subs[n] : s.conn = h /\ ~s.inactive

(* The queued requests are the modem's own. *)
TypesKnown(q) == \A i \in DOMAIN q : q[i].kind = "RequestATL" => q[i].type \in Types

NoDsNif == subs["ds"] = {} /\ mState["ds"] = "RELEASED"

ListsExist == \A n \in Nifs : subs[n] # {} => n \in nif

OneNifPerHandle ==
  \A n, k \in Nifs : \A s \in subs[n], t \in subs[k] : s.conn = t.conn => n = k

(* A subscriber's request has been processed and not been answered with a  *)
(* close; an inactive one is closing.  Q is the queue without the message  *)
(* in progress.                                                            *)
SubscribersKnown(Q) ==
  \A n \in Nifs : \A s \in subs[n] :
    /\ ~HasReq(Q, s.conn)
    /\ modem[s.conn] # "idle"
    /\ s.inactive => modem[s.conn] = "closing"

HandlesKnown(Q) ==
  \A h \in Handles :
    /\ HasRel(Q, h) => modem[h] \in {"closing", "idle"}
    /\ modem[h] = "idle" => ~HasReq(Q, h)
    /\ modem[h] = "open" => \E n \in Nifs : Serves(n, h)

ServedInv(Q) ==
  /\ NoDsNif /\ ListsExist /\ OneNifPerHandle
  /\ Ordered(Q) /\ TypesKnown(Q) /\ SubscribersKnown(Q) /\ HandlesKnown(Q)

(* The parts of the invariant say less of a shorter queue. *)
LEMMA ServedTail ==
  ASSUME NEW q \in Seq(Msgs), q # <<>>, ServedInv(q)
  PROVE  ServedInv(Tail(q))
<1>1. \A i \in DOMAIN Tail(q) : i + 1 \in DOMAIN q /\ Tail(q)[i] = q[i + 1]
  OBVIOUS
<1>2. \A h : (HasReq(Tail(q), h) => HasReq(q, h)) /\ (HasRel(Tail(q), h) => HasRel(q, h))
  BY <1>1 DEF HasReq, HasRel
<1>3. Ordered(Tail(q))
  <2> SUFFICES ASSUME NEW i \in DOMAIN Tail(q), NEW j \in DOMAIN Tail(q), i < j,
                      Tail(q)[i].kind \in {"RequestATL", "ReleaseATL"},
                      Tail(q)[j].kind \in {"RequestATL", "ReleaseATL"},
                      Tail(q)[i].conn = Tail(q)[j].conn
               PROVE  Tail(q)[i].kind = "RequestATL" /\ Tail(q)[j].kind = "ReleaseATL"
    BY DEF Ordered
  <2>1. i + 1 < j + 1
    OBVIOUS
  <2> QED  BY <1>1, <2>1 DEF ServedInv, Ordered
<1>4. TypesKnown(Tail(q))
  BY <1>1 DEF ServedInv, TypesKnown
<1> QED  BY <1>2, <1>3, <1>4 DEF ServedInv, SubscribersKnown, HandlesKnown

(* A request at the head is the last one queued of its handle. *)
LEMMA HeadAlone ==
  ASSUME NEW q \in Seq(Msgs), q # <<>>, Ordered(q),
         Head(q).kind \in {"RequestATL", "ReleaseATL"}
  PROVE  /\ ~HasReq(Tail(q), Head(q).conn)
         /\ Head(q).kind = "ReleaseATL" => ~HasRel(Tail(q), Head(q).conn)
         /\ Head(q).kind = "RequestATL" => HasReq(q, Head(q).conn)
         /\ Head(q).kind = "ReleaseATL" => HasRel(q, Head(q).conn)
<1>1. 1 \in DOMAIN q /\ q[1] = Head(q)
  OBVIOUS
<1>2. \A i \in DOMAIN Tail(q) : i + 1 \in DOMAIN q /\ 1 < i + 1 /\ Tail(q)[i] = q[i + 1]
  OBVIOUS
<1> QED  BY <1>1, <1>2 DEF Ordered, HasReq, HasRel

(* The types of the queued requests, with one more message. *)
LEMMA AppendTypes ==
  ASSUME NEW q \in Seq(Msgs), NEW m, TypesKnown(q), m.kind = "RequestATL" => m.type \in Types
  PROVE  TypesKnown(Append(q, m))
<1>1. DOMAIN Append(q, m) = DOMAIN q \cup {Len(q) + 1}
  OBVIOUS
<1>2. /\ \A i \in DOMAIN q : Append(q, m)[i] = q[i]
      /\ Append(q, m)[Len(q) + 1] = m
  OBVIOUS
<1> QED  BY <1>1, <1>2 DEF TypesKnown

(* What a posted message adds to the queue. *)
LEMMA AppendHas ==
  ASSUME NEW q \in Seq(Msgs), NEW m, NEW h
  PROVE  /\ HasReq(Append(q, m), h) <=> HasReq(q, h) \/ (m.kind = "RequestATL" /\ m.conn = h)
         /\ HasRel(Append(q, m), h) <=> HasRel(q, h) \/ (m.kind = "ReleaseATL" /\ m.conn = h)
<1>1. DOMAIN Append(q, m) = DOMAIN q \cup {Len(q) + 1}
  OBVIOUS
<1>2. /\ \A i \in DOMAIN q : Append(q, m)[i] = q[i]
      /\ Append(q, m)[Len(q) + 1] = m
  OBVIOUS
<1> QED  BY <1>1, <1>2 DEF HasReq, HasRel

(* What the modem may post without disturbing the order. *)
LEMMA AppendOrdered ==
  ASSUME NEW q \in Seq(Msgs), NEW m, Ordered(q),
         m.kind = "RequestATL" => ~HasReq(q, m.conn) /\ ~HasRel(q, m.conn),
         m.kind = "ReleaseATL" => ~HasRel(q, m.conn)
  PROVE  Ordered(Append(q, m))
<1> DEFINE r == Append(q, m)
<1>1. DOMAIN r = DOMAIN q \cup {Len(q) + 1} /\ \A i \in DOMAIN q : i < Len(q) + 1
  OBVIOUS
<1>2. /\ \A i \in DOMAIN q : r[i] = q[i]
      /\ r[Len(q) + 1] = m
  OBVIOUS
<1> HIDE DEF r
<1>3. Ordered(r)
  <2> SUFFICES ASSUME NEW i \in DOMAIN r, NEW j \in DOMAIN r, i < j,
                      r[i].kind \in {"RequestATL", "ReleaseATL"},
                      r[j].kind \in {"RequestATL", "ReleaseATL"},
                      r[i].conn = r[j].conn
               PROVE  r[i].kind = "RequestATL" /\ r[j].kind = "ReleaseATL"
    BY DEF Ordered
  <2>1. DOMAIN q \subseteq Nat /\ Len(q) \in Nat
    OBVIOUS
  <2>2. i \in DOMAIN q
    BY <1>1, <2>1
  <2>3. CASE j \in DOMAIN q
    BY <1>2, <2>2, <2>3 DEF Ordered
  <2>4. CASE j = Len(q) + 1
    BY <1>2, <2>2, <2>4 DEF HasReq, HasRel
  <2> QED  BY <1>1, <2>3, <2>4
<1> QED  BY <1>3 DEF r

-----------------------------------------------------------------------------
(* The handlers of a framework NIF. *)

(* What a handler that gives NIF n the list S and a new state, and changes *)
(* the modem's view of some handles, has to respect.                       *)
Respects(n, state, S, Q) ==
  /\ \A s \in S : /\ ~HasReq(Q, s.conn)
                  /\ modem'[s.conn] # "idle"
                  /\ s.inactive => modem'[s.conn] = "closing"
  /\ \A k \in Nifs \ {n} : \A t \in subs[k] :
        /\ \A s \in S : s.conn # t.conn
        /\ modem'[t.conn] = modem[t.conn]
  /\ \A h \in Handles :
        /\ HasRel(Q, h) => modem'[h] \in {"closing", "idle"}
        /\ modem'[h] = "idle" => ~HasReq(Q, h)
        /\ modem'[h] = "open" =>
              \/ state = "ACQUIRED" /\ \E s \in S : s.conn = h /\ ~s.inactive
              \/ \E k \in Nifs \ {n} : Serves(k, h)

(* Such a handler keeps the invariant. *)
LEMMA HandlerServes ==
  ASSUME MachineInv, NEW Q \in Seq(Msgs), ServedInv(Q),
         NEW n \in Nifs \ {"ds"}, NEW state, NEW S \in SUBSET AgpsSubscriber,
         mState' = [mState EXCEPT ![n] = state],
         subs' = [subs EXCEPT ![n] = S],
         queue' = Q, nif \subseteq nif', S # {} => n \in nif',
         Respects(n, state, S, Q)
  PROVE  ServedInv(queue)'
<1>0. mState \in [Nifs -> States] /\ subs \in [Nifs -> SUBSET AgpsSubscriber]
  BY DEF MachineInv, MachineTypeOK
<1>1. /\ mState'[n] = state /\ subs'[n] = S
      /\ \A k \in Nifs \ {n} : mState'[k] = mState[k] /\ subs'[k] = subs[k]
  BY <1>0
<1>2. "ds" \in Nifs \ {n}
  BY DEF Nifs
<1>3. NoDsNif'
  BY <1>1, <1>2 DEF NoDsNif, ServedInv
<1>4. ListsExist'
  <2> SUFFICES ASSUME NEW k \in Nifs, subs'[k] # {} PROVE k \in nif'
    BY DEF ListsExist
  <2> QED  BY <1>1 DEF ListsExist, ServedInv
<1>5. OneNifPerHandle'
  <2> SUFFICES ASSUME NEW j \in Nifs, NEW k \in Nifs, NEW s \in subs'[j],
                      NEW t \in subs'[k], s.conn = t.conn
               PROVE  j = k
    BY DEF OneNifPerHandle
  <2> QED  BY <1>1 DEF OneNifPerHandle, ServedInv, Respects
<1>6. Ordered(queue)' /\ TypesKnown(queue)'
  BY DEF ServedInv, Ordered, TypesKnown
<1>7. SubscribersKnown(queue)'
  <2> SUFFICES ASSUME NEW k \in Nifs, NEW s \in subs'[k]
               PROVE  /\ ~HasReq(Q, s.conn)
                      /\ modem'[s.conn] # "idle"
                      /\ s.inactive => modem'[s.conn] = "closing"
    BY DEF SubscribersKnown, HasReq
  <2> QED  BY <1>1 DEF SubscribersKnown, ServedInv, Respects
<1>8. HandlesKnown(queue)'
  <2> SUFFICES ASSUME NEW h \in Handles, modem'[h] = "open"
               PROVE  \E k \in Nifs : Serves(k, h)'
    BY DEF HandlesKnown, HasReq, HasRel, Respects
  <2>1. CASE state = "ACQUIRED" /\ \E s \in S : s.conn = h /\ ~s.inactive
    BY <1>1, <2>1 DEF Serves
  <2>2. CASE \E k \in Nifs \ {n} : Serves(k, h)
    BY <1>1, <2>2 DEF Serves
  <2> QED  BY <2>1, <2>2 DEF Respects
<1> QED  BY <1>3, <1>4, <1>5, <1>6, <1>7, <1>8 DEF ServedInv

(* What every handler knows when it starts. *)
LEMMA ServedFacts ==
  ASSUME MachineInv, NEW Q, ServedInv(Q), NEW n \in Nifs
  PROVE  /\ subs[n] \in SUBSET AgpsSubscriber
         /\ modem \in [Handles -> ConnStates]
         /\ \A s \in subs[n] : /\ s.conn \in Handles
                               /\ ~HasReq(Q, s.conn)
                               /\ modem[s.conn] # "idle"
                               /\ s.inactive => modem[s.conn] = "closing"
         /\ \A s, t \in subs[n] : s.conn = t.conn => s = t
         /\ \A k \in Nifs \ {n} : \A s \in subs[n], t \in subs[k] : s.conn # t.conn
         /\ subs[n] # {} => n \in nif
         /\ n # "ds" /\ mState[n] = "RELEASED" => subs[n] = {}
BY DEF MachineInv, MachineTypeOK, NifInv, ServedInv, SubscribersKnown, OneNifPerHandle,
       ListsExist, AgpsSubscriber

(* What every handler knows of a handle. *)
LEMMA HandleFacts ==
  ASSUME NEW Q, ServedInv(Q), NEW h \in Handles
  PROVE  /\ HasRel(Q, h) => modem[h] \in {"closing", "idle"}
         /\ modem[h] = "idle" => ~HasReq(Q, h)
         /\ modem[h] = "open" => \E n \in Nifs : Serves(n, h)
BY DEF ServedInv, HandlesKnown

(* A handle that asks for an open is listed nowhere yet; it is told at     *)
(* once only by a NIF that has its connection.                             *)
LEMMA SubscribeServes ==
  ASSUME MachineInv, NEW n \in Nifs \ {"ds"}, NEW s \in AgpsSubscriber, s.inactive = FALSE,
         NEW Q \in Seq(Msgs), ServedInv(Q), processAgpsEventSubscribe(n, s, Q),
         nif \subseteq nif', n \in nif', modem[s.conn] # "idle", ~HasReq(Q, s.conn),
         \A k \in Nifs : ~HasConn(subs[k], s.conn)
  PROVE  ServedInv(queue)'
<1> DEFINE S == addSubscriber(subs[n], s)
<1>0. /\ S = subs[n] \cup {s} /\ S \in SUBSET AgpsSubscriber /\ s.conn \in Handles
      /\ \A k \in Nifs : \A t \in subs[k] : t.conn # s.conn
      /\ mState \in [Nifs -> States]
  BY ServedFacts DEF addSubscriber, HasConn, AgpsSubscriber, MachineInv, MachineTypeOK
<1>1. PICK state : /\ mState' = [mState EXCEPT ![n] = state]
                   /\ mState[n] = "ACQUIRED" => state = "ACQUIRED"
                   /\ modem' = modem \/ (state = "ACQUIRED" /\ modem' = AtlOpenStatus({s.conn}, TRUE))
                   /\ queue' = Q
  <2>1. CASE mState[n] = "RELEASED"
    BY <2>1 DEF processAgpsEventSubscribe, requestDataConn
  <2>2. CASE mState[n] # "RELEASED"
    <3>1. mState' = mState
      BY <2>2 DEF processAgpsEventSubscribe
    <3>2. mState' = [mState EXCEPT ![n] = mState[n]]
      BY <1>0, <3>1
    <3> QED  BY <2>2, <3>2 DEF processAgpsEventSubscribe
  <2> QED  BY <2>1, <2>2
<1>2. subs' = [subs EXCEPT ![n] = S]
  BY DEF processAgpsEventSubscribe
<1>3. \A h \in Handles : /\ h # s.conn => modem'[h] = modem[h]
                         /\ modem'[h] # modem[h] => /\ h = s.conn /\ modem[h] = "opening"
                                                    /\ modem'[h] = "open" /\ state = "ACQUIRED"
  BY <1>1 DEF AtlOpenStatus
<1>4. \A x \in S : /\ ~HasReq(Q, x.conn)
                   /\ modem'[x.conn] # "idle"
                   /\ x.inactive => modem'[x.conn] = "closing"
  BY <1>0, <1>3, ServedFacts
<1>5. \A k \in Nifs \ {n} : \A t \in subs[k] : /\ \A x \in S : x.conn # t.conn
                                               /\ modem'[t.conn] = modem[t.conn]
  BY <1>0, <1>3, ServedFacts
<1>6. ASSUME NEW h \in Handles
      PROVE  /\ HasRel(Q, h) => modem'[h] \in {"closing", "idle"}
             /\ modem'[h] = "idle" => ~HasReq(Q, h)
             /\ modem'[h] = "open" =>
                  \/ state = "ACQUIRED" /\ \E x \in S : x.conn = h /\ ~x.inactive
                  \/ \E k \in Nifs \ {n} : Serves(k, h)
  <2>1. CASE modem'[h] = modem[h]
    BY <1>0, <1>1, <2>1, HandleFacts DEF Serves
  <2>2. CASE modem'[h] # modem[h]
    BY <1>0, <1>3, <2>2, HandleFacts
  <2> QED  BY <2>1, <2>2
<1>7. S \in SUBSET AgpsSubscriber
  BY <1>0
<1>8. mState' = [mState EXCEPT ![n] = state] /\ queue' = Q
  BY <1>1
<1> HIDE DEF S
<1>9. nif \subseteq nif' /\ (S # {} => n \in nif')
  OBVIOUS
<1>10. Respects(n, state, S, Q)
  BY <1>4, <1>5, <1>6 DEF Respects
<1> QED  BY <1>2, <1>7, <1>8, <1>9, <1>10, HandlerServes

(* A handle that is being closed: the modem no longer thinks it open, so   *)
(* the open handles keep their subscribers and with them their connection. *)
LEMMA UnsubscribeServes ==
  ASSUME MachineInv, NEW n \in Nifs \ {"ds"}, NEW s \in subs[n],
         NEW Q \in Seq(Msgs), ServedInv(Q), processAgpsEventUnsubscribe(n, s, Q),
         nif' = nif, modem[s.conn] \in {"closing", "idle"}
  PROVE  ServedInv(queue)'
<1> DEFINE S == Unsubscribed(n, s)
<1>0. /\ mState \in [Nifs -> States] /\ s \in AgpsSubscriber /\ s.conn \in Handles
      /\ n \in nif /\ mState[n] # "RELEASED" /\ modem[s.conn] = "closing"
  BY ServedFacts DEF MachineInv, MachineTypeOK
<1>1. /\ [s EXCEPT !.inactive = TRUE] \in AgpsSubscriber
      /\ [s EXCEPT !.inactive = TRUE].conn = s.conn
      /\ [s EXCEPT !.inactive = TRUE].inactive
  BY <1>0 DEF AgpsSubscriber
<1>2. /\ S \in SUBSET AgpsSubscriber
      /\ \A x \in S : /\ x.conn = s.conn => (s.wait /\ x.inactive)
                      /\ x.conn # s.conn => x \in subs[n]
      /\ \A x \in subs[n] : x.conn # s.conn => x \in S
  BY <1>1, ServedFacts DEF Unsubscribed, deleteSubscriber
<1>3. /\ queue' = Q
      /\ modem' = AtlCloseStatus(IF s.wait THEN {} ELSE {s.conn})
  BY <1>0 DEF processAgpsEventUnsubscribe
<1>4. PICK state : /\ mState' = [mState EXCEPT ![n] = state]
                   /\ mState[n] = "ACQUIRED" /\ ActiveSubscribers(S) # {} => state = "ACQUIRED"
  <2>1. mState[n] = "RELEASING" \/ mState[n] \in {"PENDING", "ACQUIRED"}
    BY <1>0 DEF States
  <2>2. CASE mState[n] \in {"PENDING", "ACQUIRED"}
    <3>1. mState' = [mState EXCEPT ![n] = StateAfterUnsubscribe(mState[n], S)]
      BY <1>0, <2>2 DEF processAgpsEventUnsubscribe
    <3>2. ActiveSubscribers(S) # {} => StateAfterUnsubscribe(mState[n], S) = mState[n]
      BY DEF StateAfterUnsubscribe, anyActiveSubscribers, ActiveSubscribers
    <3> QED  BY <3>1, <3>2
  <2>3. CASE mState[n] = "RELEASING"
    BY <2>3 DEF processAgpsEventUnsubscribe
  <2> QED  BY <2>1, <2>2, <2>3
<1>5. subs' = [subs EXCEPT ![n] = S]
  BY <1>0 DEF processAgpsEventUnsubscribe
<1> HIDE DEF S
<1>6. \A h \in Handles : /\ h # s.conn => modem'[h] = modem[h]
                         /\ s.wait => modem'[h] = modem[h]
                         /\ modem'[h] # modem[h] => modem'[h] = "idle"
  BY <1>0, <1>3, ServedFacts DEF AtlCloseStatus
<1>7. \A x \in S : /\ ~HasReq(Q, x.conn)
                   /\ modem'[x.conn] # "idle"
                   /\ x.inactive => modem'[x.conn] = "closing"
  BY <1>0, <1>2, <1>6, ServedFacts
<1>8. \A k \in Nifs \ {n} : \A t \in subs[k] : /\ \A x \in S : x.conn # t.conn
                                               /\ modem'[t.conn] = modem[t.conn]
  BY <1>0, <1>2, <1>6, ServedFacts
<1>9. ASSUME NEW h \in Handles
      PROVE  /\ HasRel(Q, h) => modem'[h] \in {"closing", "idle"}
             /\ modem'[h] = "idle" => ~HasReq(Q, h)
             /\ modem'[h] = "open" =>
                  \/ state = "ACQUIRED" /\ \E x \in S : x.conn = h /\ ~x.inactive
                  \/ \E k \in Nifs \ {n} : Serves(k, h)
  <2>1. CASE h = s.conn
    BY <1>0, <1>6, <2>1, HandleFacts, ServedFacts
  <2>2. CASE h # s.conn
    <3>1. modem'[h] = modem[h]
      BY <1>6, <2>2
    <3>2. ASSUME Serves(n, h)
          PROVE  state = "ACQUIRED" /\ \E x \in S : x.conn = h /\ ~x.inactive
      BY <1>2, <1>4, <2>2, <3>2 DEF Serves, ActiveSubscribers
    <3> QED  BY <3>1, <3>2, HandleFacts
  <2> QED  BY <2>1, <2>2
<1>10. Respects(n, state, S, Q)
  BY <1>7, <1>8, <1>9 DEF Respects
<1> QED  BY <1>0, <1>2, <1>3, <1>4, <1>5, <1>10, HandlerServes

(* A step that leaves every list and AgpsState alone. *)
LEMMA ListsServe ==
  ASSUME NEW P, ServedInv(P), NEW Q, queue' = Q, nif \subseteq nif', UNCHANGED <<mState, subs>>,
         Ordered(Q), TypesKnown(Q),
         \A n \in Nifs : \A s \in subs[n] : /\ ~HasReq(Q, s.conn)
                                            /\ modem'[s.conn] # "idle"
                                            /\ s.inactive => modem'[s.conn] = "closing",
         \A h \in Handles : /\ HasRel(Q, h) => modem'[h] \in {"closing", "idle"}
                            /\ modem'[h] = "idle" => ~HasReq(Q, h)
                            /\ modem'[h] = "open" => \E n \in Nifs : Serves(n, h)
  PROVE  ServedInv(queue)'
<1>1. NoDsNif' /\ OneNifPerHandle' /\ ListsExist'
  BY DEF ServedInv, NoDsNif, OneNifPerHandle, ListsExist
<1>2. Ordered(queue)' /\ TypesKnown(queue)'
  BY DEF Ordered, TypesKnown
<1>3. SubscribersKnown(queue)'
  BY DEF SubscribersKnown, HasReq
<1>4. HandlesKnown(queue)'
  BY DEF HandlesKnown, HasReq, HasRel, Serves
<1> QED  BY <1>1, <1>2, <1>3, <1>4 DEF ServedInv

(* Nothing but the queue, or the NIFs that exist, changes. *)
LEMMA SameServes ==
  ASSUME NEW Q, ServedInv(Q), queue' = Q, nif \subseteq nif',
         UNCHANGED <<mState, subs, modem>>
  PROVE  ServedInv(queue)'
<1>1. Ordered(Q) /\ TypesKnown(Q) /\ SubscribersKnown(Q) /\ HandlesKnown(Q)
  BY DEF ServedInv
<1> QED  BY <1>1, ListsServe DEF SubscribersKnown, HandlesKnown

(* The modem is told of a handle that no NIF lists. *)
LEMMA ToldServes ==
  ASSUME MachineInv, NEW Q, ServedInv(Q), queue' = Q, UNCHANGED <<nif, mState, subs>>,
         NEW h \in Handles, ~HasReq(Q, h), \A n \in Nifs : \A s \in subs[n] : s.conn # h,
         \A x \in Handles \ {h} : modem'[x] = modem[x],
         modem'[h] \in {modem[h], "idle"}
  PROVE  ServedInv(queue)'
<1>1. \A n \in Nifs : \A s \in subs[n] : /\ ~HasReq(Q, s.conn)
                                         /\ modem'[s.conn] # "idle"
                                         /\ s.inactive => modem'[s.conn] = "closing"
  BY ServedFacts
<1>2. \A x \in Handles : /\ HasRel(Q, x) => modem'[x] \in {"closing", "idle"}
                         /\ modem'[x] = "idle" => ~HasReq(Q, x)
                         /\ modem'[x] = "open" => \E n \in Nifs : Serves(n, x)
  BY HandleFacts
<1>3. Ordered(Q) /\ TypesKnown(Q)
  BY DEF ServedInv
<1> QED  BY <1>1, <1>2, <1>3, ListsServe

(* A grant opens the handles of the active subscribers of a NIF that       *)
(* becomes ACQUIRED with it.                                               *)
LEMMA GrantedServes ==
  ASSUME MachineInv, NEW n \in Nifs \ {"ds"}, NEW Q \in Seq(Msgs), ServedInv(Q),
         processAgpsEventGranted(n, Q), nif' = nif
  PROVE  ServedInv(queue)'
<1>1. CASE mState[n] # "PENDING"
  BY <1>1, SameServes DEF processAgpsEventGranted
<1>2. CASE mState[n] = "PENDING"
  <2> DEFINE S == subs[n]
  <2>1. /\ mState' = [mState EXCEPT ![n] = "ACQUIRED"]
        /\ subs' = [subs EXCEPT ![n] = S] /\ queue' = Q
        /\ modem' = AtlOpenStatus(Conns(ActiveSubscribers(S)), TRUE)
        /\ S \in SUBSET AgpsSubscriber
    BY <1>2 DEF processAgpsEventGranted, MachineInv, MachineTypeOK
  <2>2. \A h \in Handles :
          modem'[h] # modem[h] => /\ modem[h] = "opening" /\ modem'[h] = "open"
                                  /\ \E s \in S : s.conn = h /\ ~s.inactive
    BY <2>1 DEF AtlOpenStatus, Conns, ActiveSubscribers
  <2>3. \A s \in S : /\ ~HasReq(Q, s.conn)
                     /\ modem'[s.conn] # "idle"
                     /\ s.inactive => modem'[s.conn] = "closing"
    BY <2>2, ServedFacts
  <2>4. \A k \in Nifs \ {n} : \A t \in subs[k] : /\ \A s \in S : s.conn # t.conn
                                                 /\ modem'[t.conn] = modem[t.conn]
    BY <2>2, ServedFacts
  <2>5. \A h \in Handles :
          /\ HasRel(Q, h) => modem'[h] \in {"closing", "idle"}
          /\ modem'[h] = "idle" => ~HasReq(Q, h)
          /\ modem'[h] = "open" => \/ \E s \in S : s.conn = h /\ ~s.inactive
                                   \/ \E k \in Nifs \ {n} : Serves(k, h)
    BY <1>2, <2>2, HandleFacts DEF Serves
  <2>6. Respects(n, "ACQUIRED", S, Q)
    BY <2>3, <2>4, <2>5 DEF Respects
  <2>7. S # {} => n \in nif'
    BY ServedFacts
  <2> HIDE DEF S
  <2> QED  BY <2>1, <2>6, <2>7, HandlerServes
<1> QED  BY <1>1, <1>2

(* A NIF that is not ACQUIRED, or stops being so, loses the subscribers    *)
(* whose handles it leaves neither opening nor open.                       *)
LEMMA LeaveServes ==
  ASSUME MachineInv, NEW n \in Nifs \ {"ds"}, NEW Q \in Seq(Msgs), ServedInv(Q),
         queue' = Q, nif' = nif, NEW state, NEW S \in SUBSET subs[n],
         mState' = [mState EXCEPT ![n] = state],
         subs' = [subs EXCEPT ![n] = S],
         \A h \in Handles :
           \/ modem'[h] = modem[h]
           \/ /\ modem'[h] = "idle"
              /\ \E s \in subs[n] \ S : s.conn = h,
         \A s \in subs[n] : mState[n] = "ACQUIRED" => modem'[s.conn] = "idle"
  PROVE  ServedInv(queue)'
<1>0. /\ S \in SUBSET AgpsSubscriber
      /\ S # {} => n \in nif'
  BY ServedFacts
<1>1. \A s \in S : modem'[s.conn] = modem[s.conn]
  BY ServedFacts
<1>2. \A s \in S : /\ ~HasReq(Q, s.conn)
                   /\ modem'[s.conn] # "idle"
                   /\ s.inactive => modem'[s.conn] = "closing"
  BY <1>1, ServedFacts
<1>3. \A k \in Nifs \ {n} : \A t \in subs[k] : /\ \A s \in S : s.conn # t.conn
                                               /\ modem'[t.conn] = modem[t.conn]
  BY ServedFacts
<1>4. ASSUME NEW h \in Handles
      PROVE  /\ HasRel(Q, h) => modem'[h] \in {"closing", "idle"}
             /\ modem'[h] = "idle" => ~HasReq(Q, h)
             /\ modem'[h] = "open" => \E k \in Nifs \ {n} : Serves(k, h)
  <2>1. CASE modem'[h] = modem[h]
    BY <2>1, HandleFacts DEF Serves
  <2>2. CASE modem'[h] # modem[h]
    BY <2>2, ServedFacts
  <2> QED  BY <2>1, <2>2
<1>5. Respects(n, state, S, Q)
  BY <1>2, <1>3, <1>4 DEF Respects
<1> QED  BY <1>0, <1>5, HandlerServes

(* The end of a release: the handles told are closing, and the ones that   *)
(* stay are not open, because the NIF was not ACQUIRED.                    *)
LEMMA FinishServes ==
  ASSUME MachineInv, NEW n \in Nifs \ {"ds"}, NEW C, NEW Q \in Seq(Msgs), ServedInv(Q),
         finishReleasing(n, C, Q), mState[n] = "RELEASING", nif' = nif
  PROVE  ServedInv(queue)'
<1> DEFINE gone == InactiveSubscribers(subs[n])
           S == ActiveSubscribers(subs[n])
           state == IF S # {} THEN "PENDING" ELSE "RELEASED"
<1>1. /\ mState' = [mState EXCEPT ![n] = state]
      /\ subs' = [subs EXCEPT ![n] = S]
      /\ modem' = AtlCloseStatus(Conns(gone))
      /\ queue' = Q
  BY DEF finishReleasing, requestDataConn
<1>2. S \in SUBSET subs[n] /\ gone = subs[n] \ S
  BY DEF InactiveSubscribers, ActiveSubscribers
<1>3. \A h \in Handles : \/ modem'[h] = modem[h]
                         \/ /\ modem'[h] = "idle"
                            /\ \E s \in subs[n] \ S : s.conn = h
  BY <1>1, <1>2 DEF AtlCloseStatus, Conns
<1> HIDE DEF gone, S, state
<1> QED  BY ZenonT(40), <1>1, <1>2, <1>3, LeaveServes

(* A forced release, the end of one, and a RELEASED that is ignored. *)
LEMMA ReleasedServes ==
  ASSUME MachineInv, NEW n \in Nifs \ {"ds"}, NEW C, NEW Q \in Seq(Msgs), ServedInv(Q),
         processAgpsEventReleased(n, C, Q), nif' = nif
  PROVE  ServedInv(queue)'
<1>1. CASE mState[n] = "ACQUIRED"
  <2>1. /\ mState' = [mState EXCEPT ![n] = "RELEASED"]
        /\ subs' = [subs EXCEPT ![n] = {}]
        /\ modem' = AtlCloseStatus(Conns(subs[n])) /\ queue' = Q
    BY <1>1 DEF processAgpsEventReleased
  <2>2. /\ \A h \in Handles : \/ modem'[h] = modem[h]
                              \/ /\ modem'[h] = "idle"
                                 /\ \E s \in subs[n] \ {} : s.conn = h
        /\ \A s \in subs[n] : modem'[s.conn] = "idle"
    BY <2>1, ServedFacts DEF AtlCloseStatus, Conns
  <2>3. {} \in SUBSET subs[n]
    OBVIOUS
  <2> QED  BY ZenonT(40), <2>1, <2>2, <2>3, LeaveServes
<1>2. CASE mState[n] = "RELEASING"
  BY <1>2, FinishServes DEF processAgpsEventReleased
<1>3. CASE mState[n] \notin {"ACQUIRED", "RELEASING"}
  BY <1>3, SameServes DEF processAgpsEventReleased
<1> QED  BY <1>1, <1>2, <1>3

(* A denial of the open tells every subscriber; none of them was open. *)
LEMMA DeniedServes ==
  ASSUME MachineInv, NEW n \in Nifs \ {"ds"}, NEW Q \in Seq(Msgs), ServedInv(Q),
         processAgpsEventDenied(n, Q), nif' = nif
  PROVE  ServedInv(queue)'
<1>1. CASE mState[n] = "PENDING"
  <2>1. /\ mState' = [mState EXCEPT ![n] = "RELEASED"]
        /\ subs' = [subs EXCEPT ![n] = {}]
        /\ modem' = AtlOpenStatus(Conns(subs[n]), FALSE) /\ queue' = Q
    BY <1>1 DEF processAgpsEventDenied
  <2>2. \A h \in Handles : \/ modem'[h] = modem[h]
                           \/ /\ modem'[h] = "idle"
                              /\ \E s \in subs[n] \ {} : s.conn = h
    BY <2>1 DEF AtlOpenStatus, Conns
  <2>3. {} \in SUBSET subs[n]
    OBVIOUS
  <2> QED  BY <1>1, <2>1, <2>2, <2>3, LeaveServes
<1>2. CASE mState[n] = "RELEASING"
  BY <1>2, FinishServes DEF processAgpsEventDenied
<1>3. CASE mState[n] \notin {"PENDING", "RELEASING"}
  BY <1>3, SameServes DEF processAgpsEventDenied
<1> QED  BY <1>1, <1>2, <1>3

(* No event finds the DS state machine with anything to do. *)
LEMMA EventServes ==
  ASSUME MachineInv, NEW n \in Nifs, NEW e, NEW C, NEW Q \in Seq(Msgs), ServedInv(Q),
         processAgpsEvent(n, e, C, Q), nif' = nif
  PROVE  ServedInv(queue)'
<1>1. CASE n # "ds"
  BY <1>1, GrantedServes, ReleasedServes, DeniedServes DEF processAgpsEvent
<1>2. CASE n = "ds"
  <2>1. mState[n] = "RELEASED"
    BY <1>2 DEF ServedInv, NoDsNif
  <2>2. UNCHANGED <<mState, subs, modem>> /\ queue' = Q
    BY <1>2, <2>1 DEF processAgpsEvent, processAgpsEventGranted, processAgpsEventReleased,
       processAgpsEventDenied
  <2> QED  BY <2>2, SameServes
<1> QED  BY <1>1, <1>2

(* The message thread.  A request at the head of the queue is the last of  *)
(* its handle: an open finds the handle listed nowhere, a close finds the  *)
(* modem's view closing.                                                   *)
LEMMA ProcMsgServes ==
  ASSUME NoDsRequests, IInv, ServedInv(queue), ProcMsg
  PROVE  ServedInv(queue)'
<1> DEFINE m == Head(queue)
           Q == Tail(queue)
<1>0. /\ MachineInv
      /\ nif \subseteq Nifs
      /\ queue \in Seq(Msgs)
      /\ modem \in [Handles -> ConnStates]
  BY DEF IInv, MachineInv, MachineTypeOK
<1>1. queue # <<>> /\ m \in Msgs /\ Q \in Seq(Msgs) /\ ServedInv(Q)
  BY <1>0, QueueTypes, ServedTail DEF ProcMsg
<1>2. CASE m.kind = "AgpsMsgInit"
  <2>1. /\ nif' \in createAgpsStateMachines /\ queue' = Q
        /\ UNCHANGED <<mState, subs, modem>>
    BY <1>2 DEF ProcMsg
  <2>2. nif \subseteq nif'
    BY <2>1 DEF createAgpsStateMachines
  <2> HIDE DEF m, Q
  <2> QED  BY <1>1, <2>1, <2>2, SameServes
<1>3. CASE m.kind = "RequestATL"
  <2> DEFINE h == m.conn
             n == NifOf(m.type)
             s == [conn |-> h, wait |-> m.type = "SUPL_ES", inactive |-> FALSE]
  <2>1. h \in Handles /\ requestATL(h, m.type, Q)
    BY <1>1, <1>3 DEF ProcMsg, Msgs
  <2>2. /\ ~HasReq(Q, h) /\ HasReq(queue, h)
    BY <1>0, <1>1, <1>3, HeadAlone DEF ServedInv
  <2>3. modem[h] # "idle" /\ \A k \in Nifs : \A t \in subs[k] : t.conn # h
    BY <2>1, <2>2 DEF ServedInv, HandlesKnown, SubscribersKnown
  <2>4. n \in Nifs \ {"ds"} /\ nif' = nif
    <3>1. 1 \in DOMAIN queue /\ queue[1] = m
      BY <1>0, <1>1
    <3>2. m.type \in Types
      BY <1>3, <3>1 DEF ServedInv, TypesKnown
    <3>3. n # "ds" /\ n \in Nifs
      BY <3>2 DEF NoDsRequests, NifOf, Nifs
    <3> QED  BY <2>1, <3>3 DEF NifsAfterLookup, requestATL
  <2>5. s \in AgpsSubscriber /\ s.conn = h /\ s.inactive = FALSE
    BY <2>1 DEF AgpsSubscriber
  <2>6. \A k \in Nifs : ~HasConn(subs[k], s.conn)
    BY <2>3 DEF HasConn
  <2>7. CASE n \in nif
    <3>1. processAgpsEventSubscribe(n, s, Q)
      BY <2>1, <2>4, <2>7 DEF requestATL
    <3> HIDE DEF s, n, h, m, Q
    <3> QED  BY <1>0, <1>1, <2>2, <2>3, <2>4, <2>5, <2>6, <2>7, <3>1, SubscribeServes
  <2>8. CASE n \notin nif
    <3>1. /\ modem' = AtlOpenStatus({h}, FALSE) /\ queue' = Q
          /\ UNCHANGED <<mState, subs>>
      BY <2>1, <2>4, <2>8 DEF requestATL
    <3>2. /\ \A x \in Handles \ {h} : modem'[x] = modem[x]
          /\ modem'[h] \in {modem[h], "idle"}
      BY <1>0, <2>1, <3>1 DEF AtlOpenStatus
    <3> HIDE DEF h, m, Q
    <3> QED  BY <1>0, <1>1, <2>1, <2>2, <2>3, <2>4, <3>1, <3>2, ToldServes
  <2> QED  BY <2>7, <2>8
<1>4. CASE m.kind = "ReleaseATL"
  <2> DEFINE h == m.conn
             n == FirstNifWith(h)
  <2>1. h \in Handles /\ releaseATL(h, Q) /\ nif' = nif
    BY <1>1, <1>4 DEF ProcMsg, Msgs, releaseATL
  <2>2. ~HasReq(Q, h) /\ HasRel(queue, h)
    BY <1>0, <1>1, <1>4, HeadAlone DEF ServedInv
  <2>3. modem[h] \in {"closing", "idle"}
    BY <2>1, <2>2 DEF ServedInv, HandlesKnown
  <2>4. subs["ds"] = {}
    BY DEF ServedInv, NoDsNif
  <2>5. CASE HasConn(subs[n], h)
    <3>1. n \in Nifs \ {"ds"}
      BY <2>4, <2>5 DEF FirstNifWith, Nifs, HasConn
    <3>2. PICK s \in subs[n] : s.conn = h /\ processAgpsEventUnsubscribe(n, s, Q)
      BY <2>1, <2>5 DEF releaseATL
    <3> HIDE DEF n, h, m, Q
    <3> QED  BY <1>0, <1>1, <2>1, <2>3, <3>1, <3>2, UnsubscribeServes
  <2>6. CASE ~HasConn(subs[n], h)
    <3>1. /\ modem' = AtlCloseStatus({h}) /\ queue' = Q
          /\ UNCHANGED <<mState, subs>>
      BY <2>1, <2>6 DEF releaseATL, HasConn
    <3>2. \A k \in Nifs : \A t \in subs[k] : t.conn # h
      BY <2>4, <2>6 DEF FirstNifWith, HasConn, Nifs
    <3>3. /\ \A x \in Handles \ {h} : modem'[x] = modem[x]
          /\ modem'[h] \in {modem[h], "idle"}
      BY <1>0, <2>1, <3>1 DEF AtlCloseStatus
    <3> HIDE DEF h, m, Q
    <3> QED  BY <1>0, <1>1, <2>1, <2>2, <3>1, <3>2, <3>3, ToldServes
  <2> QED  BY <2>5, <2>6
<1>5. CASE m.kind = "Event"
  <2>1. m.nif \in Nifs /\ processAgpsEvent(m.nif, m.event, conn, Q) /\ nif' = nif
    BY <1>1, <1>5 DEF ProcMsg, Msgs
  <2> HIDE DEF m, Q
  <2> QED  BY <1>0, <1>1, <2>1, EventServes
<1> QED  BY <1>1, <1>2, <1>3, <1>4, <1>5 DEF Msgs

(* A posted message that is no request of a handle. *)
LEMMA PostServes ==
  ASSUME IInv, ServedInv(queue), NEW msg, msg.kind \notin {"RequestATL", "ReleaseATL"},
         queue' = Append(queue, msg), UNCHANGED <<nif, mState, subs, modem>>
  PROVE  ServedInv(queue)'
<1>0. queue \in Seq(Msgs) /\ MachineInv
  BY DEF IInv, MachineInv, MachineTypeOK
<1>1. PICK Q : Q = Append(queue, msg)
  OBVIOUS
<1>2. \A h : (HasReq(Q, h) <=> HasReq(queue, h)) /\ (HasRel(Q, h) <=> HasRel(queue, h))
  BY <1>0, <1>1, AppendHas
<1>3. Ordered(Q) /\ TypesKnown(Q)
  BY <1>0, <1>1, AppendOrdered, AppendTypes DEF ServedInv
<1>4. ServedInv(Q)
  BY <1>2, <1>3 DEF ServedInv, SubscribersKnown, HandlesKnown
<1> QED  BY <1>1, <1>4, SameServes

(* The modem opens a handle only when it is done with it, and closes it    *)
(* once.                                                                   *)
LEMMA ModemServes ==
  ASSUME IInv, ServedInv(queue), NEW h \in Handles,
         (\E t \in Types : ModemOpen(h, t)) \/ ModemClose(h)
  PROVE  ServedInv(queue)'
<1>0. /\ queue \in Seq(Msgs) /\ MachineInv
      /\ modem \in [Handles -> ConnStates]
      /\ UNCHANGED <<nif, mState, subs>>
  BY DEF IInv, MachineInv, MachineTypeOK, ModemOpen, ModemClose
<1>1. CASE \E t \in Types : ModemOpen(h, t)
  <2>1. PICK t \in Types : ModemOpen(h, t)
    BY <1>1
  <2>2. /\ modem[h] = "idle" /\ ~HasReq(queue, h) /\ ~HasRel(queue, h)
        /\ modem' = [modem EXCEPT ![h] = "opening"]
        /\ queue' = Append(queue, RequestATLMsg(h, t))
    BY <2>1 DEF ModemOpen, Outstanding, HasReq, HasRel, Post
  <2>3. PICK Q : Q = Append(queue, RequestATLMsg(h, t))
    OBVIOUS
  <2>4. \A x : /\ HasReq(Q, x) <=> (HasReq(queue, x) \/ x = h)
               /\ HasRel(Q, x) <=> HasRel(queue, x)
    BY <1>0, <2>3, AppendHas DEF RequestATLMsg
  <2>5. Ordered(Q) /\ TypesKnown(Q)
    BY <1>0, <2>2, <2>3, AppendOrdered, AppendTypes DEF ServedInv, RequestATLMsg
  <2>6. \A n \in Nifs : \A s \in subs[n] : s.conn # h /\ s.conn \in Handles
    BY <1>0, <2>2, ServedFacts
  <2>7. \A n \in Nifs : \A s \in subs[n] : /\ ~HasReq(Q, s.conn)
                                           /\ modem'[s.conn] # "idle"
                                           /\ s.inactive => modem'[s.conn] = "closing"
    BY <1>0, <2>2, <2>4, <2>6, ServedFacts
  <2>8. \A x \in Handles : /\ HasRel(Q, x) => modem'[x] \in {"closing", "idle"}
                           /\ modem'[x] = "idle" => ~HasReq(Q, x)
                           /\ modem'[x] = "open" => \E n \in Nifs : Serves(n, x)
    BY <1>0, <2>2, <2>4, HandleFacts
  <2> QED  BY <1>0, <2>2, <2>3, <2>5, <2>7, <2>8, ListsServe
<1>2. CASE ModemClose(h)
  <2>1. /\ modem[h] \in {"opening", "open"}
        /\ modem' = [modem EXCEPT ![h] = "closing"]
        /\ queue' = Append(queue, ReleaseATLMsg(h))
    BY <1>2 DEF ModemClose, Post
  <2>2. ~HasRel(queue, h)
    BY <2>1, HandleFacts
  <2>3. PICK Q : Q = Append(queue, ReleaseATLMsg(h))
    OBVIOUS
  <2>4. \A x : /\ HasReq(Q, x) <=> HasReq(queue, x)
               /\ HasRel(Q, x) <=> (HasRel(queue, x) \/ x = h)
    BY <1>0, <2>3, AppendHas DEF ReleaseATLMsg
  <2>5. Ordered(Q) /\ TypesKnown(Q)
    BY <1>0, <2>2, <2>3, AppendOrdered, AppendTypes DEF ServedInv, ReleaseATLMsg
  <2>6. \A n \in Nifs : \A s \in subs[n] : /\ ~HasReq(Q, s.conn)
                                           /\ modem'[s.conn] # "idle"
                                           /\ s.inactive => modem'[s.conn] = "closing"
    BY <1>0, <2>1, <2>4, ServedFacts
  <2>7. \A x \in Handles : /\ HasRel(Q, x) => modem'[x] \in {"closing", "idle"}
                           /\ modem'[x] = "idle" => ~HasReq(Q, x)
                           /\ modem'[x] = "open" => \E n \in Nifs : Serves(n, x)
    BY <1>0, <2>1, <2>4, HandleFacts
  <2> QED  BY <1>0, <2>1, <2>3, <2>5, <2>6, <2>7, ListsServe
<1> QED  BY <1>1, <1>2

(* The inductive step. *)
LEMMA NextServes ==
  ASSUME NoDsRequests, IInv, ServedInv(queue), [Next]_vars
  PROVE  ServedInv(queue)'
<1>0. queue \in Seq(Msgs) /\ MachineInv
  BY DEF IInv, MachineInv, MachineTypeOK
<1>1. CASE ProcMsg
  BY <1>1, ProcMsgServes
<1>2. CASE RetryCallback
  <2>1. ~anyActiveSubscribers(subs["ds"])
    BY DEF ServedInv, NoDsNif, anyActiveSubscribers, ActiveSubscribers
  <2>2. UNCHANGED <<queue, nif, mState, subs, modem>>
    BY <1>2, <2>1 DEF RetryCallback
  <2> QED  BY <2>2, SameServes
<1>3. CASE InitAgps
  BY <1>3, PostServes DEF InitAgps, Post, InitMsg
<1>4. ASSUME NEW h \in Handles, (\E t \in Types : ModemOpen(h, t)) \/ ModemClose(h)
      PROVE  ServedInv(queue)'
  BY <1>4, ModemServes
<1>5. ASSUME NEW n \in Nifs, ConnOpened(n) \/ ConnClosed(n) \/ ConnFailed(n)
      PROVE  ServedInv(queue)'
  <2>1. PICK e \in Events : queue' = Append(queue, EventMsg(n, e))
    BY <1>5 DEF ConnOpened, ConnClosed, ConnFailed, Post, Events
  <2>2. UNCHANGED <<nif, mState, subs, modem>>
    BY <1>5 DEF ConnOpened, ConnClosed, ConnFailed
  <2>3. EventMsg(n, e).kind = "Event"
    BY DEF EventMsg
  <2> QED  BY <2>1, <2>2, <2>3, PostServes
<1>6. ASSUME NEW n \in Nifs, ConnOpenedBadApn(n)
      PROVE  ServedInv(queue)'
  <2>1. processAgpsEvent(n, "RELEASED", [conn EXCEPT ![n] = "open"], queue) /\ nif' = nif
    BY <1>6 DEF ConnOpenedBadApn
  <2> QED  BY <1>0, <2>1, EventServes
<1>7. CASE UNCHANGED vars
  <2>1. UNCHANGED <<queue, nif, mState, subs, modem>>
    BY <1>7 DEF vars
  <2> QED  BY <2>1, SameServes
<1> QED
  BY <1>1, <1>2, <1>3, <1>4, <1>5, <1>6, <1>7 DEF Next

(* The initial state. *)
LEMMA InitServes == Init => ServedInv(queue)
<1> SUFFICES ASSUME Init PROVE ServedInv(queue)
  OBVIOUS
<1>1. NoDsNif /\ ListsExist /\ OneNifPerHandle
  BY DEF Init, NoDsNif, ListsExist, OneNifPerHandle, Nifs
<1>2. Ordered(queue) /\ TypesKnown(queue) /\ SubscribersKnown(queue) /\ HandlesKnown(queue)
  BY DEF Init, Ordered, TypesKnown, SubscribersKnown, HandlesKnown, HasReq, HasRel
<1> QED  BY <1>1, <1>2 DEF ServedInv

(* On a device that takes emergency SUPL over the framework's connection,  *)
(* and on any device while no emergency SUPL is asked for, a handle the    *)
(* modem was told is open belongs to an active subscriber of an ACQUIRED   *)
(* NIF, whatever the order of opens, closes, grants, denials, forced       *)
(* releases and unusable APNs: processAgpsEventGranted opens no handle     *)
(* that is being released, and processAgpsEventReleased tells every one it *)
(* takes the connection from.                                              *)
THEOREM OpenHandlesAreServed ==
  ASSUME ~UseEmergencyPdn \/ "SUPL_ES" \notin Types
  PROVE  Spec => []OpenHandleIsServed
<1>1. NoDsRequests
  BY DEF NoDsRequests, NifOf
<1>2. IInv /\ ServedInv(queue) /\ [Next]_vars => ServedInv(queue)'
  BY <1>1, NextServes
<1>3. ServedInv(queue) => OpenHandleIsServed
  BY DEF ServedInv, HandlesKnown, ListsExist, Serves, OpenHandleIsServed
<1> QED  BY <1>2, <1>3, InitInv, NextInv, InitServes, PTL DEF Spec
=============================================================================
