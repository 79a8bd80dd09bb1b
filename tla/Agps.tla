-------------------------------- MODULE Agps --------------------------------
(***************************************************************************)
(* The AGPS data-connection manager of the GNSS HAL                        *)
(* (src/hardware/gps/gnss/Agps.cpp, Agps.h and the Agps messages of        *)
(* GnssAdapter.cpp).                                                       *)
(*                                                                         *)
(* The modem opens and closes ATL connections, each named by a connHandle. *)
(* AgpsManager maps every request to one of three network interfaces       *)
(* (NIFs): "agnss" and "internet" ask the Android framework for a data     *)
(* connection, "ds" asks the modem's data-service client for an emergency  *)
(* data call and retries it from a timer.  A NIF is shared by all the      *)
(* handles subscribed to it.                                               *)
(*                                                                         *)
(* Every AgpsManager method runs in the adapter's MsgTask, one LocMsg at a *)
(* time, so one message is one action.  The modem, the framework, the data *)
(* service and the retry timer run beside it and only post messages; the   *)
(* one exception, a framework thread that calls reportAtlClosed directly,  *)
(* is an action of its own.                                                *)
(*                                                                         *)
(* mSubscriberList is modelled as a set of subscribers: its order decides  *)
(* only which active subscriber getFirstSubscriber finds and in which      *)
(* order the fall-back requests of several subscribers are posted, and     *)
(* both are left open here.  The APN and the bearer that are handed on     *)
(* with a grant are left out.                                              *)
(***************************************************************************)
EXTENDS Naturals, Sequences, FiniteSets

CONSTANTS
  Handles,            \* connHandles the modem uses
  Types,              \* agpsTypes it asks for: "SUPL", "WWAN_ANY", "SUPL_ES"
  AgpsCapable,        \* mGps_conf.CAPABILITIES has MSA or MSB
  UseEmergencyPdn,    \* mGps_conf.USE_EMERGENCY_PDN_FOR_EMERGENCY_SUPL
  ApnValid,           \* the framework only hands over usable APNs
  MaxRetries,         \* MAX_START_DATA_CALL_RETRIES
  MaxQueue,           \* bound: outsiders post while the queue is shorter
  MaxTimers           \* bound: retry timers running at once

ASSUME AgpsAssumption ==
  /\ IsFiniteSet(Handles)
  /\ Types \subseteq {"SUPL", "WWAN_ANY", "SUPL_ES"}
  /\ AgpsCapable \in BOOLEAN
  /\ UseEmergencyPdn \in BOOLEAN
  /\ ApnValid \in BOOLEAN
  /\ MaxRetries \in Nat
  /\ MaxQueue \in Nat
  /\ MaxTimers \in Nat

VARIABLES
  nif,        \* the NIFs that exist: mInternetNif, mAgnssNif, mDsNif non-NULL
  mState,     \* AgpsState of each NIF
  subs,       \* mSubscriberList of each NIF
  mRetries,   \* DSStateMachine::mRetries
  timers,     \* retry timers started and not yet fired
  queue,      \* the adapter's message queue
  modem,      \* external: what the modem knows of each connHandle
  conn        \* external: the data connection behind each NIF

vars == <<nif, mState, subs, mRetries, timers, queue, modem, conn>>

Nifs == {"agnss", "internet", "ds"}
States == {"RELEASED", "PENDING", "ACQUIRED", "RELEASING"}
Events == {"GRANTED", "DENIED", "RELEASED"}

AgpsSubscriber == [conn : Handles, wait : BOOLEAN, inactive : BOOLEAN]

RequestATLMsg(h, t) == [kind |-> "RequestATL", conn |-> h, type |-> t]
ReleaseATLMsg(h)    == [kind |-> "ReleaseATL", conn |-> h]
EventMsg(n, e)      == [kind |-> "Event", nif |-> n, event |-> e]
InitMsg             == [kind |-> "AgpsMsgInit"]

AllTypes == {"SUPL", "WWAN_ANY", "SUPL_ES"}
Msgs ==
       [kind : {"RequestATL"}, conn : Handles, type : AllTypes]
  \cup [kind : {"ReleaseATL"}, conn : Handles]
  \cup [kind : {"Event"}, nif : Nifs, event : Events]
  \cup [kind : {"AgpsMsgInit"}]

-----------------------------------------------------------------------------
(* The subscriber list. *)

HasConn(S, h) == \E s \in S : s.conn = h

(* Faulty variants used to test the properties carry the suffix Bug.       *)
addSubscriber(S, s) == IF HasConn(S, s.conn) THEN S ELSE S \cup {s}

deleteSubscriber(S, s) == {x \in S : x.conn # s.conn}

ActiveSubscribers(S) == {s \in S : ~s.inactive}
InactiveSubscribers(S) == S \ ActiveSubscribers(S)
anyActiveSubscribersBug(S) == S # {}
anyActiveSubscribers(S) == ActiveSubscribers(S) # {}

Conns(S) == {s.conn : s \in S}

(* The orders in which the messages of several subscribers may be posted. *)
Orders(S) == {f \in [1..Cardinality(S) -> S] :
                \A i, j \in 1..Cardinality(S) : f[i] = f[j] => i = j}

-----------------------------------------------------------------------------
(* mAtlOpenStatusCb and mAtlCloseStatusCb as the modem sees them: an open  *)
(* status ends an open in progress, a close status ends the connection.    *)

AtlOpenStatus(H, success) ==
  [h \in Handles |->
     IF h \in H /\ modem[h] = "opening"
     THEN IF success THEN "open" ELSE "idle"
     ELSE modem[h]]

AtlCloseStatus(H) == [h \in Handles |-> IF h \in H THEN "idle" ELSE modem[h]]

-----------------------------------------------------------------------------
(* requestOrReleaseDataConn.  C is the connections before the call, Q the  *)
(* queue, S the NIF's subscribers, ok whether it returns 0.                *)

MayRetryBug == mRetries <= MaxRetries
MayRetry == mRetries < MaxRetries

(* mDSClientOpenAndStartDataCallFn, then the switch on what it returned;   *)
(* the data call is made for the first active subscriber.                  *)
openAndStartDataCall(first, C, Q, ok) ==
  LET fallback == RequestATLMsg(first.conn, "SUPL")
  IN  \/ /\ ok                                  \* LOC_API_ADAPTER_ERR_SUCCESS
         /\ conn' = [C EXCEPT !["ds"] = "opening"]
         /\ queue' = Q
         /\ UNCHANGED <<mRetries, timers>>
      \/ /\ ~ok                                 \* ENGINE_BUSY, retries left
         /\ MayRetry
         /\ timers < MaxTimers
         /\ mRetries' = mRetries + 1
         /\ timers' = timers + 1
         /\ conn' = C
         /\ queue' = Q
      \/ /\ ~ok                                 \* ENGINE_BUSY, loc_timer_start fails
         /\ MayRetry
         /\ mRetries' = mRetries + 1
         /\ conn' = C
         /\ queue' = Q
         /\ UNCHANGED timers
      \/ /\ ~ok            \* ENGINE_BUSY, retries exhausted, or UNSUPPORTED
         /\ mRetries' = 0
         /\ conn' = C
         /\ queue' = Append(Q, fallback)
         /\ UNCHANGED timers
      \/ /\ ~ok                                 \* any other return value
         /\ conn' = C
         /\ queue' = Q
         /\ UNCHANGED <<mRetries, timers>>

requestDataConn(n, S, C, Q, ok) ==
  IF n # "ds"
  THEN /\ ok
       /\ conn' = [C EXCEPT ![n] = "opening"]
       /\ queue' = Q
       /\ UNCHANGED <<mRetries, timers>>
  ELSE IF anyActiveSubscribers(S)
       THEN \E first \in ActiveSubscribers(S) :
              openAndStartDataCall(first, C, Q, ok)
       ELSE /\ ~ok
            /\ conn' = C
            /\ queue' = Q
            /\ UNCHANGED <<mRetries, timers>>

releaseDataConn(n) == conn' = [conn EXCEPT ![n] = "closing"]

-----------------------------------------------------------------------------
(* The event handlers of AgpsStateMachine.  Q is the queue after the       *)
(* message being processed has been taken off it, C the connections when   *)
(* the handler starts.                                                     *)

processAgpsEventSubscribe(n, s, Q) ==
  LET S == addSubscriber(subs[n], s)
  IN  /\ subs' = [subs EXCEPT ![n] = S]
      /\ \/ /\ mState[n] = "RELEASED"
            /\ \E ok \in BOOLEAN :
                 /\ requestDataConn(n, S, conn, Q, ok)
                 /\ mState' = [mState EXCEPT
                                 ![n] = IF ok THEN "PENDING" ELSE @]
            /\ UNCHANGED modem
         \/ /\ mState[n] = "ACQUIRED"
            /\ modem' = AtlOpenStatus({s.conn}, TRUE)
            /\ queue' = Q
            /\ UNCHANGED <<mState, conn, mRetries, timers>>
         \/ /\ mState[n] \in {"PENDING", "RELEASING"}
            /\ queue' = Q
            /\ UNCHANGED <<mState, modem, conn, mRetries, timers>>

UnsubscribedBug(n, s) ==
  deleteSubscriber(subs[n], s) \cup {[s EXCEPT !.inactive = TRUE]}

(* A subscriber that waits for the close stays in the list, inactive;      *)
(* another one is told at once and deleted.                                *)
Unsubscribed(n, s) ==
  IF s.wait THEN deleteSubscriber(subs[n], s) \cup {[s EXCEPT !.inactive = TRUE]}
            ELSE deleteSubscriber(subs[n], s)

(* The data connection is released when its last active subscriber leaves; *)
(* while RELEASING that has been asked for already.                        *)
StateAfterUnsubscribe(state, S) ==
  CASE S = {}                  -> "RELEASED"
    [] anyActiveSubscribers(S) -> state
    [] OTHER                   -> "RELEASING"

processAgpsEventUnsubscribe(n, s, Q) ==
  LET S    == Unsubscribed(n, s)
      told == IF s.wait /\ mState[n] # "RELEASED" THEN {} ELSE {s.conn}
  IN  /\ modem' = AtlCloseStatus(told)
      /\ queue' = Q
      /\ UNCHANGED <<mRetries, timers>>
      /\ \/ /\ mState[n] = "RELEASED"
            /\ UNCHANGED <<subs, mState, conn>>
         \/ /\ mState[n] \in {"PENDING", "ACQUIRED"}
            /\ subs' = [subs EXCEPT ![n] = S]
            /\ mState' = [mState EXCEPT ![n] = StateAfterUnsubscribe(@, S)]
            /\ IF anyActiveSubscribers(S) THEN UNCHANGED conn
                                          ELSE releaseDataConn(n)
         \/ /\ mState[n] = "RELEASING"
            /\ subs' = [subs EXCEPT ![n] = S]
            /\ mState' = [mState EXCEPT ![n] = IF S = {} THEN "RELEASED" ELSE @]
            /\ UNCHANGED conn

processAgpsEventGrantedBug(n, Q) ==
  /\ queue' = Q
  /\ mState' = [mState EXCEPT ![n] = IF @ = "PENDING" THEN "ACQUIRED" ELSE @]
  /\ modem' = AtlOpenStatus(Conns(ActiveSubscribers(subs[n])), TRUE)
  /\ UNCHANGED <<subs, conn, mRetries, timers>>

processAgpsEventGranted(n, Q) ==
  /\ queue' = Q
  /\ UNCHANGED <<subs, conn, mRetries, timers>>
  /\ \/ /\ mState[n] = "PENDING"
        /\ mState' = [mState EXCEPT ![n] = "ACQUIRED"]
        /\ modem' = AtlOpenStatus(Conns(ActiveSubscribers(subs[n])), TRUE)
     \/ /\ mState[n] # "PENDING"
        /\ UNCHANGED <<mState, modem>>

(* notifyEventToSubscriber(AGPS_EVENT_RELEASED) of the DS state machine    *)
(* also closes the data call.                                              *)
ConnAfterClose(n, S, C) ==
  IF n = "ds" /\ S # {} THEN [C EXCEPT !["ds"] = "idle"] ELSE C

finishReleasingBug(n, C, Q) ==
  LET gone == InactiveSubscribers(subs[n])
      S    == ActiveSubscribers(subs[n])
  IN  /\ modem' = AtlCloseStatus(Conns(gone))
      /\ subs' = [subs EXCEPT ![n] = S]
      /\ mState' = [mState EXCEPT ![n] = IF S = {} THEN "RELEASED" ELSE "PENDING"]
      /\ conn' = ConnAfterClose(n, gone, C)
      /\ queue' = Q
      /\ UNCHANGED <<mRetries, timers>>

(* RELEASED or DENIED while RELEASING: the inactive subscribers are told   *)
(* and deleted; the active ones, if any, arrived meanwhile and need a new  *)
(* connection.                                                             *)
finishReleasing(n, C, Q) ==
  LET gone   == InactiveSubscribers(subs[n])
      S      == ActiveSubscribers(subs[n])
      closed == ConnAfterClose(n, gone, C)
  IN  /\ modem' = AtlCloseStatus(Conns(gone))
      /\ subs' = [subs EXCEPT ![n] = S]
      /\ \/ /\ S # {}
            /\ mState' = [mState EXCEPT ![n] = "PENDING"]
            /\ \E ok \in BOOLEAN : requestDataConn(n, S, closed, Q, ok)
         \/ /\ S = {}
            /\ mState' = [mState EXCEPT ![n] = "RELEASED"]
            /\ conn' = closed
            /\ queue' = Q
            /\ UNCHANGED <<mRetries, timers>>

processAgpsEventReleased(n, C, Q) ==
  \/ /\ mState[n] = "ACQUIRED"                 \* force release
     /\ mState' = [mState EXCEPT ![n] = "RELEASED"]
     /\ subs' = [subs EXCEPT ![n] = {}]
     /\ modem' = AtlCloseStatus(Conns(subs[n]))
     /\ conn' = ConnAfterClose(n, subs[n], C)
     /\ queue' = Q
     /\ UNCHANGED <<mRetries, timers>>
  \/ /\ mState[n] = "RELEASING"
     /\ finishReleasing(n, C, Q)
  \/ /\ mState[n] \in {"RELEASED", "PENDING"}
     /\ conn' = C
     /\ queue' = Q
     /\ UNCHANGED <<mState, subs, modem, mRetries, timers>>

(* DENIED tells every subscriber: a failed open status, or for the DS      *)
(* state machine a new request for the regular SUPL connection.            *)
processAgpsEventDenied(n, Q) ==
  \/ /\ mState[n] = "PENDING"
     /\ mState' = [mState EXCEPT ![n] = "RELEASED"]
     /\ subs' = [subs EXCEPT ![n] = {}]
     /\ UNCHANGED <<conn, timers>>
     /\ IF n = "ds"
        THEN /\ \E o \in Orders(Conns(subs[n])) :
                  queue' = Q \o [i \in DOMAIN o |-> RequestATLMsg(o[i], "SUPL")]
             /\ mRetries' = IF subs[n] = {} THEN mRetries ELSE 0
             /\ UNCHANGED modem
        ELSE /\ modem' = AtlOpenStatus(Conns(subs[n]), FALSE)
             /\ queue' = Q
             /\ UNCHANGED mRetries
  \/ /\ mState[n] = "RELEASING"
     /\ finishReleasing(n, conn, Q)
  \/ /\ mState[n] \in {"RELEASED", "ACQUIRED"}
     /\ queue' = Q
     /\ UNCHANGED <<mState, subs, modem, conn, mRetries, timers>>

(* DSStateMachine::processAgpsEvent turns RELEASED into DENIED while       *)
(* PENDING, because the data service reports both the same way.            *)
processAgpsEvent(n, e, C, Q) ==
  LET event == IF n = "ds" /\ e = "RELEASED" /\ mState[n] = "PENDING"
               THEN "DENIED" ELSE e
  IN  \/ event = "GRANTED"  /\ processAgpsEventGranted(n, Q)
      \/ event = "RELEASED" /\ processAgpsEventReleased(n, C, Q)
      \/ event = "DENIED"   /\ processAgpsEventDenied(n, Q)

-----------------------------------------------------------------------------
(* AgpsManager. *)

(* The NIFs that may exist after a call: the DS one only when the data     *)
(* service client initialises.                                             *)
createAgpsStateMachines ==
  LET base == nif \cup {"internet"} \cup (IF AgpsCapable THEN {"agnss"} ELSE {})
  IN  IF AgpsCapable /\ UseEmergencyPdn /\ "ds" \notin nif
      THEN {base, base \cup {"ds"}} ELSE {base}

(* getAgpsStateMachine: the NIF of a type, and the NIFs after the lookup.  *)
NifOf(t) == CASE t = "SUPL"    -> "agnss"
              [] t = "SUPL_ES" -> IF UseEmergencyPdn THEN "ds" ELSE "agnss"
              [] OTHER         -> "internet"

NifsAfterLookup(t) ==
  IF NifOf(t) = "ds" /\ "ds" \notin nif THEN createAgpsStateMachines ELSE {nif}

requestATL(h, t, Q) ==
  \E N \in NifsAfterLookup(t) :
    /\ nif' = N
    /\ \/ /\ NifOf(t) \notin N
          /\ modem' = AtlOpenStatus({h}, FALSE)
          /\ queue' = Q
          /\ UNCHANGED <<mState, subs, conn, mRetries, timers>>
       \/ /\ NifOf(t) \in N
          /\ processAgpsEventSubscribe(NifOf(t),
               [conn |-> h, wait |-> t = "SUPL_ES", inactive |-> FALSE], Q)

(* The state machine releaseATL finds the handle in. *)
FirstNifWith(h) ==
  IF HasConn(subs["agnss"], h) THEN "agnss"
  ELSE IF HasConn(subs["internet"], h) THEN "internet" ELSE "ds"

releaseATL(h, Q) ==
  /\ UNCHANGED nif
  /\ LET n == FirstNifWith(h)
     IN  \/ /\ ~HasConn(subs[n], h)
            /\ modem' = AtlCloseStatus({h})
            /\ queue' = Q
            /\ UNCHANGED <<mState, subs, conn, mRetries, timers>>
         \/ \E s \in subs[n] : /\ s.conn = h
                               /\ processAgpsEventUnsubscribe(n, s, Q)

(* MsgTask::run takes one message and runs its proc(). *)
ProcMsg ==
  /\ queue # <<>>
  /\ LET m == Head(queue)
         Q == Tail(queue)
     IN  \/ /\ m.kind = "AgpsMsgInit"
            /\ nif' \in createAgpsStateMachines
            /\ queue' = Q
            /\ UNCHANGED <<mState, subs, conn, modem, mRetries, timers>>
         \/ /\ m.kind = "RequestATL"
            /\ requestATL(m.conn, m.type, Q)
         \/ /\ m.kind = "ReleaseATL"
            /\ releaseATL(m.conn, Q)
         \/ /\ m.kind = "Event"
            /\ processAgpsEvent(m.nif, m.event, conn, Q)
            /\ UNCHANGED nif

(* DSStateMachine::retryCallback, on the timer thread. *)
RetryCallback ==
  /\ timers > 0
  /\ timers' = timers - 1
  /\ IF anyActiveSubscribers(subs["ds"])
     THEN \E first \in ActiveSubscribers(subs["ds"]) :
            queue' = Append(queue, RequestATLMsg(first.conn, "SUPL_ES"))
     ELSE UNCHANGED queue
  /\ UNCHANGED <<nif, mState, subs, mRetries, modem, conn>>

-----------------------------------------------------------------------------
(* The outside: each step posts one message (external). *)

Post(m) == /\ Len(queue) < MaxQueue
           /\ queue' = Append(queue, m)

(* initAgpsCommand; the modem's server requests are enabled by its message. *)
InitAgps ==
  /\ Post(InitMsg)
  /\ UNCHANGED <<nif, mState, subs, mRetries, timers, modem, conn>>

(* A connHandle is used again only once no request on it is outstanding.   *)
Outstanding(h) == \E i \in DOMAIN queue :
                    queue[i].kind \in {"RequestATL", "ReleaseATL"} /\ queue[i].conn = h

ModemOpen(h, t) ==
  /\ "internet" \in nif
  /\ modem[h] = "idle"
  /\ ~Outstanding(h)
  /\ modem' = [modem EXCEPT ![h] = "opening"]
  /\ Post(RequestATLMsg(h, t))
  /\ UNCHANGED <<nif, mState, subs, mRetries, timers, conn>>

ModemClose(h) ==
  /\ modem[h] \in {"opening", "open"}
  /\ modem' = [modem EXCEPT ![h] = "closing"]
  /\ Post(ReleaseATLMsg(h))
  /\ UNCHANGED <<nif, mState, subs, mRetries, timers, conn>>

(* The framework or the data service answers the last request made of it,  *)
(* or drops a connection that is open.                                     *)
ConnOpened(n) ==
  /\ conn[n] = "opening"
  /\ conn' = [conn EXCEPT ![n] = "open"]
  /\ Post(EventMsg(n, "GRANTED"))
  /\ UNCHANGED <<nif, mState, subs, mRetries, timers, modem>>

ConnClosed(n) ==
  /\ conn[n] \in IF n = "ds" THEN {"opening", "open", "closing"}
                             ELSE {"open", "closing"}
  /\ conn' = [conn EXCEPT ![n] = "idle"]
  /\ Post(EventMsg(n, "RELEASED"))
  /\ UNCHANGED <<nif, mState, subs, mRetries, timers, modem>>

ConnFailedBug(n) ==
  /\ n # "ds"
  /\ conn[n] \in {"opening", "closing"}
  /\ conn' = [conn EXCEPT ![n] = "idle"]
  /\ Post(EventMsg(n, "RELEASED"))
  /\ UNCHANGED <<nif, mState, subs, mRetries, timers, modem>>

(* dataConnFailedCommand: an open, or a close, that the framework reports  *)
(* as failed.                                                              *)
ConnFailed(n) ==
  /\ n # "ds"
  /\ conn[n] \in {"opening", "closing"}
  /\ conn' = [conn EXCEPT ![n] = "idle"]
  /\ Post(EventMsg(n, "DENIED"))
  /\ UNCHANGED <<nif, mState, subs, mRetries, timers, modem>>

(* dataConnOpenCommand with an unusable APN: reportAtlClosed is called on  *)
(* the framework's own thread, past the messages in the queue.             *)
ConnOpenedBadApn(n) ==
  /\ ~ApnValid
  /\ n # "ds"
  /\ conn[n] = "opening"
  /\ processAgpsEvent(n, "RELEASED", [conn EXCEPT ![n] = "open"], queue)
  /\ UNCHANGED nif

-----------------------------------------------------------------------------
Init ==
  /\ nif = {}
  /\ mState = [n \in Nifs |-> "RELEASED"]
  /\ subs = [n \in Nifs |-> {}]
  /\ mRetries = 0
  /\ timers = 0
  /\ queue = <<>>
  /\ modem = [h \in Handles |-> "idle"]
  /\ conn = [n \in Nifs |-> "idle"]

Next ==
  \/ ProcMsg
  \/ RetryCallback
  \/ InitAgps
  \/ \E h \in Handles : \/ \E t \in Types : ModemOpen(h, t)
                        \/ ModemClose(h)
  \/ \E n \in Nifs : \/ ConnOpened(n)
                     \/ ConnClosed(n)
                     \/ ConnFailed(n)
                     \/ ConnOpenedBadApn(n)

Spec == Init /\ [][Next]_vars

-----------------------------------------------------------------------------
(* Fairness: the message thread keeps running, and the framework and the   *)
(* data service answer each request.  Strong fairness stands in for the    *)
(* unbounded queue of the code: an answer is never kept out of a full one. *)
ConnAnswer(n) == \/ ConnOpened(n)
                 \/ ConnFailed(n)
                 \/ conn[n] = "closing" /\ ConnClosed(n)

FairSpec == Spec /\ WF_vars(ProcMsg) /\ \A n \in Nifs : SF_vars(ConnAnswer(n))

-----------------------------------------------------------------------------
(* Properties. *)

(* Type correctness; in particular the retry counter of DSStateMachine     *)
(* never passes MAX_START_DATA_CALL_RETRIES.                               *)
TypeOK ==
  /\ nif \subseteq Nifs
  /\ mState \in [Nifs -> States]
  /\ subs \in [Nifs -> SUBSET AgpsSubscriber]
  /\ mRetries \in 0..MaxRetries
  /\ timers \in 0..MaxTimers
  /\ queue \in Seq(Msgs)
  /\ modem \in [Handles -> {"idle", "opening", "open", "closing"}]
  /\ conn \in [Nifs -> {"idle", "opening", "open", "closing"}]

(* A NIF's list never holds two subscribers for one connHandle, however    *)
(* requests, retries and fall-backs for the handle are interleaved         *)
(* (addSubscriber's scan): deleteSubscriber and getSubscriber rely on it.  *)
OneSubscriberPerHandle ==
  \A n \in Nifs : \A s, t \in subs[n] : s.conn = t.conn => s = t

(* A NIF that asks for or holds a data connection has an active subscriber *)
(* to hold it for: the last one to leave, whether deleted or left waiting  *)
(* as inactive, releases the connection.                                   *)
HeldConnectionHasActiveSubscriber ==
  \A n \in Nifs : mState[n] \in {"PENDING", "ACQUIRED"} =>
                      \E s \in subs[n] : ~s.inactive

(* A RELEASING NIF has a subscriber waiting for the close, so the RELEASED *)
(* event finds someone to tell; none is left waiting in RELEASED, where no *)
(* event would tell it; and only a subscriber that asked to waits.         *)
ReleasingHasWaiter ==
  \A n \in Nifs :
    /\ mState[n] = "RELEASING" => InactiveSubscribers(subs[n]) # {}
    /\ mState[n] = "RELEASED"  => InactiveSubscribers(subs[n]) = {}
    /\ \A s \in subs[n] : s.inactive => s.wait

(* The framework NIFs have no subscriber while RELEASED.  (Agps.cpp:208    *)
(* expects it of every NIF; a DS NIF keeps one whose data call could not   *)
(* be started.)                                                            *)
ReleasedListIsEmpty ==
  \A n \in Nifs \ {"ds"} : mState[n] = "RELEASED" => subs[n] = {}

(* A framework NIF that is PENDING will hear of it: its request is with    *)
(* the framework or the answer is in the queue.                            *)
PendingAwaitsAnswer ==
  \A n \in Nifs \ {"ds"} : mState[n] = "PENDING" =>
    \/ conn[n] = "opening"
    \/ \E i \in DOMAIN queue :
         queue[i] \in {EventMsg(n, "GRANTED"), EventMsg(n, "DENIED")}

(* A handle the modem was told is open belongs to an active subscriber of  *)
(* an acquired NIF: no grant reaches a handle whose connection is being    *)
(* released, and a forced release leaves no handle believing it is open.   *)
OpenHandleIsServed ==
  \A h \in Handles : modem[h] = "open" =>
    \E n \in nif : /\ mState[n] = "ACQUIRED"
                   /\ \E s \in subs[n] : s.conn = h /\ ~s.inactive

(* Every ATL open request of the modem is answered, or withdrawn by it,    *)
(* also one that arrives while the connection is being released.           *)
OpenIsAnswered ==
  \A h \in Handles : modem[h] = "opening" ~> modem[h] # "opening"
=============================================================================
