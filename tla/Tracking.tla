------------------------------ MODULE Tracking ------------------------------
(***************************************************************************)
(* Tracking sessions of the GNSS HAL (src/hardware/gps/gnss/GnssAdapter.cpp*)
(* with the event masks of LocAdapterBase and LocApiBase).                 *)
(*                                                                         *)
(* The positioning engine runs one fix at a time, so GnssAdapter           *)
(* multiplexes the sessions of all clients onto it: the engine should run  *)
(* with the smallest interval any session asks for.  Every command is a    *)
(* message of the adapter's MsgTask; the engine may reset at any time, and *)
(* the messages it then causes restart the sessions.                       *)
(*                                                                         *)
(* LocationOptions is an interval and a mode.  The ULP proxy is the        *)
(* default UlpProxyBase, which leaves every call to the adapter.           *)
(***************************************************************************)
EXTENDS Naturals, Sequences, FiniteSets, Functions

CONSTANTS
  Clients,          \* LocationAPI clients
  Intervals, Modes, \* of LocationOptions
  Setups            \* the environments a run chooses from, each a record of
                    \*   callbackSets  the sets of event bits clients register
                    \*                 callbacks for
                    \*   fixMayFail    the engine may refuse to start or stop a fix
                    \*   agps          the AGPS initialisation may be called
                    \*   sessionIdMax  bound: 0xFFFFFFFF in generateSessionId
                    \*   maxResets     bound: engine resets
                    \*   maxQueue      bound: outsiders post while the queue is shorter

Bits == {"POSITION", "NI", "SV", "NMEA", "MEASUREMENT"}
Server == "SERVER_REQUEST"

ASSUME TrackingAssumption ==
  /\ Intervals \subseteq Nat
  /\ \A e \in Setups :
       /\ e.callbackSets \subseteq SUBSET Bits
       /\ e.sessionIdMax \in Nat \ {0, 1}
       /\ {e.fixMayFail, e.agps} \subseteq BOOLEAN
       /\ {e.maxResets, e.maxQueue} \subseteq Nat

VARIABLES
  setup,        \* the environment, one of Setups
  clients,      \* the clients in mClientData
  callbacks,    \* and the bits of the callbacks of each
  sessions,     \* mTrackingSessions: LocationSessionKey -> LocationOptions
  idCounter,    \* mSessionIdCounter
  mEvtMask,     \* LocAdapterBase::mEvtMask
  queue,        \* the MsgTask queue
  skipped,      \* stopClientSessions: sessions whose stop has failed
  fix,          \* external: the options the engine runs with, or NoFix
  engineMask,   \* external: the events the engine is open for
  orphans,      \* history: sessions left when their client was removed,
                \* because the engine refused to stop them
  resets        \* bound: engine resets so far

vars == <<setup, clients, callbacks, sessions, idCounter, mEvtMask, queue, skipped,
          fix, engineMask, orphans, resets>>

Ids     == 1..(setup.sessionIdMax - 1)
Keys    == Clients \X Ids
Options == [interval : Intervals, mode : Modes]
NoFix   == [interval |-> "none"]

AddMsg(c, cb)       == [kind |-> "AddClient", client |-> c, cb |-> cb]
RemoveMsg(c)        == [kind |-> "RemoveClient", client |-> c]
StartMsg(k, o)      == [kind |-> "StartTracking", key |-> k, options |-> o]
UpdateMsg(k, o)     == [kind |-> "UpdateTracking", key |-> k, options |-> o]
StopMsg(k)          == [kind |-> "StopTracking", key |-> k]
OpenMsg(mask)       == [kind |-> "LocOpen", mask |-> mask]
SsrMsg              == [kind |-> "LocSsr"]
RestartMsg          == [kind |-> "RestartSessions"]
AgpsInitMsg         == [kind |-> "AgpsMsgInit"]

-----------------------------------------------------------------------------
(* Sessions.  The faulty variants used to test the properties carry the    *)
(* suffix Bug.                                                             *)

Save(k, o) == [j \in DOMAIN sessions \cup {k} |-> IF j = k THEN o ELSE sessions[j]]
Erase(k)   == Restrict(sessions, DOMAIN sessions \ {k})

(* The options of a session among K with the smallest interval.  The code  *)
(* takes the first in the order of the map; the order is left open.        *)
Smallest(K) ==
  {sessions[k] : k \in {j \in K : \A i \in K : sessions[j].interval <= sessions[i].interval}}

(* startTracking and stopTracking: ok is whether the engine accepts.       *)
startTracking(o, ok) == fix' = IF ok THEN o ELSE fix
stopTracking(ok)     == fix' = IF ok THEN NoFix ELSE fix

Ok == IF setup.fixMayFail THEN BOOLEAN ELSE {TRUE}

startTrackingMultiplex(o, ok) ==
  \/ /\ DOMAIN sessions = {}
     /\ startTracking(o, ok)
  \/ \E s \in Smallest(DOMAIN sessions) :
       IF o.interval < s.interval THEN startTracking(o, ok)
                                  ELSE ok /\ UNCHANGED fix

(* The session being updated may have been, or become, the smallest. *)
updateTrackingMultiplex(k, o, ok) ==
  \/ /\ DOMAIN sessions = {k}
     /\ startTracking(o, ok)
  \/ \E s \in Smallest(DOMAIN sessions \ {k}) :
       IF o.interval < s.interval THEN startTracking(o, ok)
       ELSE IF sessions[k].interval < s.interval THEN startTracking(s, ok)
       ELSE ok /\ UNCHANGED fix

stopTrackingMultiplexBug(k, ok) ==
  \/ /\ DOMAIN sessions = {k}
     /\ stopTracking(ok)
  \/ /\ DOMAIN sessions # {k}
     /\ ok
     /\ UNCHANGED fix

stopTrackingMultiplex(k, ok) ==
  \/ /\ DOMAIN sessions = {k}
     /\ stopTracking(ok)
  \/ \E s \in Smallest(DOMAIN sessions \ {k}) :
       IF sessions[k].interval < s.interval THEN startTracking(s, ok)
                                            ELSE ok /\ UNCHANGED fix

-----------------------------------------------------------------------------
(* Event masks: updateEvtMask stores the new mask and posts it to the      *)
(* engine in a LocOpenMsg.                                                 *)

updateEvtMask(mask, Q) ==
  /\ mEvtMask' = mask
  /\ queue' = Append(Q, OpenMsg(mask))

(* updateClientsEventMask: LOC_REGISTRATION_MASK_SET. *)
ClientsMask(C, cb) == UNION {cb[c] : c \in C}

-----------------------------------------------------------------------------
(* One action for each message, processed by the MsgTask thread. *)

Proc(kind) == queue # <<>> /\ Head(queue).kind = kind

MsgAddClient ==
  /\ Proc("AddClient")
  /\ LET c  == Head(queue).client
         cb == [callbacks EXCEPT ![c] = Head(queue).cb]
     IN  /\ clients' = clients \cup {c}
         /\ callbacks' = cb
         /\ updateEvtMask(ClientsMask(clients \cup {c}, cb), Tail(queue))
  /\ UNCHANGED <<sessions, idCounter, skipped, fix, engineMask, orphans, resets>>

ClientKeys(c) == {k \in DOMAIN sessions : k[1] = c}

(* MsgRemoveClient, stopClientSessions: one session of the client; a       *)
(* session that cannot be stopped is stepped over.                         *)
StopClientSession ==
  /\ Proc("RemoveClient")
  /\ \E k \in ClientKeys(Head(queue).client) \ skipped, ok \in Ok :
       /\ stopTrackingMultiplex(k, ok)
       /\ IF ok THEN sessions' = Erase(k) /\ UNCHANGED skipped
                ELSE skipped' = skipped \cup {k} /\ UNCHANGED sessions
  /\ UNCHANGED <<clients, callbacks, idCounter, mEvtMask, queue, engineMask, orphans, resets>>

EraseClientBug ==
  /\ Proc("RemoveClient")
  /\ LET c == Head(queue).client
     IN  /\ clients' = clients \ {c}
         /\ updateEvtMask(ClientsMask(clients \ {c}, callbacks), Tail(queue))
  /\ skipped' = {}
  /\ UNCHANGED <<callbacks, sessions, idCounter, fix, engineMask, orphans, resets>>

(* then eraseClient. *)
EraseClient ==
  /\ Proc("RemoveClient")
  /\ LET c == Head(queue).client
     IN  /\ ClientKeys(c) \subseteq skipped
         /\ clients' = clients \ {c}
         /\ orphans' = (orphans \cap DOMAIN sessions) \cup ClientKeys(c)
         /\ updateEvtMask(ClientsMask(clients \ {c}, callbacks), Tail(queue))
  /\ skipped' = {}
  /\ UNCHANGED <<callbacks, sessions, idCounter, fix, engineMask, resets>>

HasTrackingCallback(c) ==
  c \in clients /\ callbacks[c] \cap {"POSITION", "MEASUREMENT"} # {}

MsgStartTracking ==
  /\ Proc("StartTracking")
  /\ LET k == Head(queue).key
         o == Head(queue).options
     IN  \/ /\ ~HasTrackingCallback(k[1])
            /\ UNCHANGED <<sessions, fix>>
         \/ /\ HasTrackingCallback(k[1])
            /\ \E ok \in Ok :
                 /\ startTrackingMultiplex(o, ok)
                 /\ sessions' = IF ok THEN Save(k, o) ELSE sessions
  /\ queue' = Tail(queue)
  /\ UNCHANGED <<clients, callbacks, idCounter, mEvtMask, skipped, engineMask, orphans, resets>>

MsgUpdateTracking ==
  /\ Proc("UpdateTracking")
  /\ LET k == Head(queue).key
         o == Head(queue).options
     IN  \/ /\ k \notin DOMAIN sessions
            /\ UNCHANGED <<sessions, fix>>
         \/ /\ k \in DOMAIN sessions
            /\ \E ok \in Ok :
                 /\ updateTrackingMultiplex(k, o, ok)
                 /\ sessions' = IF ok THEN Save(k, o) ELSE sessions
  /\ queue' = Tail(queue)
  /\ UNCHANGED <<clients, callbacks, idCounter, mEvtMask, skipped, engineMask, orphans, resets>>

MsgStopTracking ==
  /\ Proc("StopTracking")
  /\ LET k == Head(queue).key
     IN  \/ /\ k \notin DOMAIN sessions
            /\ UNCHANGED <<sessions, fix>>
         \/ /\ k \in DOMAIN sessions
            /\ \E ok \in Ok :
                 /\ stopTrackingMultiplex(k, ok)
                 /\ sessions' = IF ok THEN Erase(k) ELSE sessions
  /\ queue' = Tail(queue)
  /\ UNCHANGED <<clients, callbacks, idCounter, mEvtMask, skipped, engineMask, orphans, resets>>

LocOpen ==
  /\ Proc("LocOpen")
  /\ engineMask' = Head(queue).mask
  /\ queue' = Tail(queue)
  /\ UNCHANGED <<clients, callbacks, sessions, idCounter, mEvtMask, skipped, fix, orphans, resets>>

LocSsrBug ==
  /\ Proc("LocSsr")
  /\ engineMask' = {}
  /\ fix' = NoFix
  /\ queue' = Tail(queue)
  /\ UNCHANGED <<clients, callbacks, sessions, idCounter, mEvtMask, skipped, orphans, resets>>

(* LocSsrMsg closes the engine, which ends its fix, and opens it again     *)
(* with the mask of the adapter at that moment.                            *)
LocSsr ==
  /\ Proc("LocSsr")
  /\ engineMask' = mEvtMask
  /\ fix' = NoFix
  /\ queue' = Tail(queue)
  /\ UNCHANGED <<clients, callbacks, sessions, idCounter, mEvtMask, skipped, orphans, resets>>

RestartSessionsBug ==
  /\ Proc("RestartSessions")
  /\ queue' = Tail(queue)
  /\ UNCHANGED <<clients, callbacks, sessions, idCounter, mEvtMask, skipped, fix,
                 engineMask, orphans, resets>>

(* restartSessions; the result of startFix is not looked at.               *)
RestartSessions ==
  /\ Proc("RestartSessions")
  /\ \/ /\ DOMAIN sessions = {}
        /\ UNCHANGED fix
     \/ \E s \in Smallest(DOMAIN sessions), ok \in Ok : startTracking(s, ok)
  /\ queue' = Tail(queue)
  /\ UNCHANGED <<clients, callbacks, sessions, idCounter, mEvtMask, skipped,
                 engineMask, orphans, resets>>

(* AgpsMsgInit registers for the modem's server requests: the mask is      *)
(* LOC_REGISTRATION_MASK_ENABLED, on top of what is set.                   *)
AgpsMsgInit ==
  /\ Proc("AgpsMsgInit")
  /\ updateEvtMask(mEvtMask \cup {Server}, Tail(queue))
  /\ UNCHANGED <<clients, callbacks, sessions, idCounter, skipped, fix, engineMask, orphans, resets>>

-----------------------------------------------------------------------------
(* Commands, posted by the threads of the clients and of the engine. *)

Post(m) == Len(queue) < setup.maxQueue /\ queue' = Append(queue, m)

NextIdBug == idCounter + 1
NextId == IF idCounter + 1 = setup.sessionIdMax THEN 1 ELSE idCounter + 1

addClientCommand(c, cb) ==
  /\ Post(AddMsg(c, cb))
  /\ UNCHANGED <<clients, callbacks, sessions, idCounter, mEvtMask, skipped, fix,
                 engineMask, orphans, resets>>

removeClientCommand(c) ==
  /\ c \in clients
  /\ Post(RemoveMsg(c))
  /\ UNCHANGED <<clients, callbacks, sessions, idCounter, mEvtMask, skipped, fix,
                 engineMask, orphans, resets>>

(* Bound: a session id is used again only when no session of it is left,   *)
(* as its 2^32 values make sure in the code.                               *)
startTrackingCommand(c, o) ==
  /\ \A k \in DOMAIN sessions : k[2] # NextId
  /\ \A i \in DOMAIN queue : queue[i].kind = "StartTracking" => queue[i].key[2] # NextId
  /\ idCounter' = NextId
  /\ Post(StartMsg(<<c, NextId>>, o))
  /\ UNCHANGED <<clients, callbacks, sessions, mEvtMask, skipped, fix, engineMask, orphans, resets>>

updateTrackingOptionsCommand(k, o) ==
  /\ Post(UpdateMsg(k, o))
  /\ UNCHANGED <<clients, callbacks, sessions, idCounter, mEvtMask, skipped, fix,
                 engineMask, orphans, resets>>

stopTrackingCommand(k) ==
  /\ Post(StopMsg(k))
  /\ UNCHANGED <<clients, callbacks, sessions, idCounter, mEvtMask, skipped, fix,
                 engineMask, orphans, resets>>

initAgpsCommand ==
  /\ setup.agps
  /\ Post(AgpsInitMsg)
  /\ UNCHANGED <<clients, callbacks, sessions, idCounter, mEvtMask, skipped, fix,
                 engineMask, orphans, resets>>

(* The engine has reset, and reports that it is up again: it has lost its  *)
(* fix and its mask.  LocApiBase posts LocSsrMsg and GnssAdapter           *)
(* MsgRestartSessions.                                                     *)
handleEngineUpEvent ==
  /\ resets < setup.maxResets
  /\ Len(queue) < setup.maxQueue
  /\ resets' = resets + 1
  /\ fix' = NoFix
  /\ engineMask' = {}
  /\ queue' = queue \o <<SsrMsg, RestartMsg>>
  /\ UNCHANGED <<clients, callbacks, sessions, idCounter, mEvtMask, skipped, orphans>>

-----------------------------------------------------------------------------
Init ==
  /\ setup \in Setups
  /\ clients = {}
  /\ callbacks = [c \in Clients |-> {}]
  /\ sessions = <<>>
  /\ idCounter = 1
  /\ mEvtMask = {}
  /\ queue = <<>>
  /\ skipped = {}
  /\ fix = NoFix
  /\ engineMask = {}
  /\ orphans = {}
  /\ resets = 0

ProcMsg ==
  \/ MsgAddClient
  \/ StopClientSession
  \/ EraseClient
  \/ MsgStartTracking
  \/ MsgUpdateTracking
  \/ MsgStopTracking
  \/ LocOpen
  \/ LocSsr
  \/ RestartSessions
  \/ AgpsMsgInit

Commands ==
  \/ \E c \in Clients : \/ \E cb \in setup.callbackSets : addClientCommand(c, cb)
                        \/ removeClientCommand(c)
                        \/ \E o \in Options : startTrackingCommand(c, o)
  \/ \E k \in DOMAIN sessions : \/ \E o \in Options : updateTrackingOptionsCommand(k, o)
                                \/ stopTrackingCommand(k)
  \/ initAgpsCommand
  \/ handleEngineUpEvent

Next == (ProcMsg \/ Commands) /\ UNCHANGED setup

Spec == Init /\ [][Next]_vars

\* The MsgTask thread runs while there are messages.
FairSpec == Spec /\ WF_vars(ProcMsg /\ UNCHANGED setup)

-----------------------------------------------------------------------------
(* Properties. *)

Queued(kinds) == \E i \in DOMAIN queue : queue[i].kind \in kinds

(* Type correctness. *)
TypeOK ==
  /\ clients \subseteq Clients
  /\ callbacks \in [Clients -> SUBSET Bits]
  /\ DOMAIN sessions \subseteq Keys
  /\ \A k \in DOMAIN sessions : sessions[k] \in Options
  /\ idCounter \in Ids
  /\ mEvtMask \subseteq Bits \cup {Server}
  /\ skipped \subseteq Keys
  /\ fix \in Options \cup {NoFix}
  /\ engineMask \subseteq Bits \cup {Server}
  /\ orphans \subseteq Keys
  /\ resets \in 0..setup.maxResets

(* The multiplexing is right: unless a reset is still to be worked off,    *)
(* the engine is idle exactly when there is no session, and otherwise runs *)
(* with the smallest interval of all sessions, whatever mixture of starts, *)
(* updates, stops and removed clients, some refused by the engine, led     *)
(* there.                                                                  *)
EngineRunsSmallestInterval ==
  ~Queued({"LocSsr", "RestartSessions"}) =>
    IF DOMAIN sessions = {} THEN fix = NoFix
    ELSE /\ fix # NoFix
         /\ \A k \in DOMAIN sessions : fix.interval <= sessions[k].interval
         /\ \E k \in DOMAIN sessions : fix.interval = sessions[k].interval

(* Once the masks under way have arrived, the engine is open for exactly   *)
(* the events the adapter wants, also after a reset.                       *)
MaskReachesEngine ==
  ~Queued({"LocOpen", "LocSsr"}) => engineMask = mEvtMask

(* Removing a client stops its sessions, and a start that is processed     *)
(* after the removal is refused: no session outlives its client but those  *)
(* the engine has refused to stop.                                         *)
SessionHasClient ==
  \A k \in DOMAIN sessions : k[1] \in clients \/ k \in orphans

(* While there are sessions the engine comes back to running a fix, also   *)
(* after a reset.                                                          *)
FixComesBack ==
  DOMAIN sessions # {} ~> (fix # NoFix \/ DOMAIN sessions = {})

-----------------------------------------------------------------------------
(* What a comment of the code says and the code does not do. *)

(* GnssAdapter.cpp:2581: AgpsMsgInit does "Register for AGPS event mask".  *)
(* The registration for the modem's server requests should last.           *)
ServerRequestsStayRegistered ==
  [][(Server \in mEvtMask) => (Server \in mEvtMask')]_vars
=============================================================================
