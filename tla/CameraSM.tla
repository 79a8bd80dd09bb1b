------------------------------ MODULE CameraSM ------------------------------
(***************************************************************************)
(* The state machine of the camera HAL (QCameraStateMachine.cpp) and the   *)
(* threads around it: API callers, which queue an event and wait on a      *)
(* condition variable for a result of that event (QCamera2HWI.cpp), the    *)
(* thread of backend-triggered pictures, the live snapshot thread, the     *)
(* callback notifier, the post processor and the camera daemon.            *)
(*                                                                         *)
(* A call of the API is a sequence of events; with two cameras in sync     *)
(* (Dual) it is the muxer's sequence for one of them.  Events that a state *)
(* only answers are one event, QUERY.                                      *)
(***************************************************************************)
EXTENDS CameraHWI, SequencesExt

CONSTANTS
  AppThreads,   \* threads that may call the API
  IntPic,       \* the thread takePictureInternal starts
  MaxEvents     \* bound: calls start while evt_queue is shorter

(* The rest of a configuration. *)
Callers      == Config[cfg].callers       \* threads that call the API
Calls        == Config[cfg].calls         \* the names of the calls they make
PayloadSet   == Config[cfg].payloads      \* the parameters set_parameters is called with
Retro        == Config[cfg].retro         \* mParameters.getNumOfRetroSnapshots() > 0
EarlyRestart == Config[cfg].earlyRestart  \* isPreviewRestartEnabled()
RegularOnly  == Config[cfg].regularOnly   \* every non-ZSL picture is an isRegularCapture()
MayDie       == Config[cfg].mayDie        \* the camera daemon may die
Notices      == Config[cfg].notices       \* notifications that change nothing come too
MaxPending   == Config[cfg].maxPending    \* bound: calls start while fewer requests and results wait

CallNames ==
  {"set_preview_window", "no_preview_window", "enable_msg_type", "disable_msg_type",
   "set_parameters", "prepare_preview", "start_preview", "stop_preview", "preview_enabled", "query",
   "register_face_image", "start_recording", "stop_recording", "take_picture",
   "cancel_picture", "longshot_on", "longshot_off", "send_command", "release",
   "internal_picture"}

ASSUME CameraAssumption ==
  /\ IntPic \notin AppThreads
  /\ MaxEvents \in Nat
  /\ \A n \in DOMAIN Config :
       LET c == Config[n]
       IN /\ c.callers \subseteq AppThreads
          /\ c.calls \subseteq CallNames
          /\ c.payloads \subseteq Params
          /\ {c.retro, c.earlyRestart, c.regularOnly, c.mayDie, c.notices} \subseteq BOOLEAN
          /\ c.maxPending \in Nat

VARIABLES
  m_state,    \* QCameraStateMachine::m_state
  flags,      \* m_bDelayPreviewMsgs, m_DelayedMsgs, m_bPreviewNeedsRestart,
              \* m_bPreviewDelayedRestart; asked: the last message request
  hw,         \* QCamera2HardwareInterface
  api_queue,  \* events of API calls
  evt_queue,  \* events of the daemon and of the HAL's own threads
  results,    \* m_apiResultList, oldest first
  todo,       \* the events each caller has still to send, the first one sent
  woken,      \* callers that a broadcast of m_cond has released from their wait
  notifier,   \* the callback notifier in processSyncEvt
  daemon      \* external: the camera daemon lives

vars == <<m_state, flags, hw, api_queue, evt_queue, results, todo, woken,
          notifier, daemon, cfg>>

Threads == AppThreads \cup {IntPic}

States == {"STOPPED", "READY", "PREVIEWING", "PREPARE_SNAPSHOT", "PIC_TAKING",
           "RECORDING", "VIDEO_PIC_TAKING", "PREVIEW_PIC_TAKING"}

(* What procEvtPrepareSnapshotState lists, and answers with an error. *)
Listed ==
  {"SET_PREVIEW_WINDOW", "ENABLE_MSG_TYPE", "DISABLE_MSG_TYPE", "SET_PARAMS",
   "PREPARE_PREVIEW", "START_PREVIEW", "STOP_PREVIEW", "PREVIEW_ENABLED", "QUERY",
   "PRE_START_RECORDING", "RESTART_STOP_PREVIEW", "RESTART_START_PREVIEW",
   "START_RECORDING", "STOP_RECORDING", "PRE_TAKE_PICTURE", "TAKE_PICTURE",
   "PREPARE_SNAPSHOT", "LONGSHOT_ON", "LONGSHOT_OFF", "SEND_COMMAND", "CANCEL_PICTURE",
   "RELEASE"}

Commits   == {"COMMIT_PARAMS", "COMMIT_STOP_PREVIEW", "COMMIT_START_PREVIEW"}
ApiEvents == Listed \cup Commits \cup {"SEND_COMMAND_RESTART", "REG_FACE_IMAGE",
                                       "STOP_CAPTURE_CHANNEL", "SNAPSHOT_DONE"}
Events    == {"SNAPSHOT_DONE", "PREP_SNAPSHOT_DONE", "READY_FOR_SNAPSHOT",
              "DAEMON_DIED", "NOTIFY"}
Own       == {"INT_DONE", "INT_CLEAR"}   \* steps of the internal picture thread

(* An event of a call: its payload, and whether its failure ends the call. *)
Ev(e, a, m) == [evt |-> e, arg |-> a, must |-> m]
Do(e)       == Ev(e, FALSE, FALSE)
Must(e)     == Ev(e, FALSE, TRUE)
Queued(v)   == [evt |-> v.evt, arg |-> v.arg]
Async(e)    == Queued(Do(e))

isCaptureRunning == m_state \in {"PIC_TAKING", "VIDEO_PIC_TAKING", "PREVIEW_PIC_TAKING"}
isPreviewRunning == m_state \notin {"STOPPED", "PIC_TAKING"}

-----------------------------------------------------------------------------
(* The handshake. *)

(* waitAPIResult has let go of the lock: these callers hear a broadcast. *)
Waiting == {t \in Threads : todo[t] # <<>> /\ Head(todo[t]).evt \notin Own}

(* A result of event e; the value is that of PREVIEW_RESTART_NEENED. *)
Result(e, ok) ==
  [evt |-> e, ok |-> ok, val |-> e = "PREVIEW_ENABLED" /\ flags.needsRestart]

(* Mutant: pthread_cond_signal for pthread_cond_broadcast. *)
signalAPIResult_WakesOne(e, ok) ==
  /\ results' = Append(results, Result(e, ok))
  /\ woken' = woken \cup (IF Waiting = {} THEN {} ELSE {CHOOSE t \in Waiting : TRUE})

(* signalAPIResult appends to the list and wakes everyone. *)
signalAPIResult(e, ok) ==
  /\ results' = Append(results, Result(e, ok))
  /\ woken' = Waiting

(* signalEvtResult releases the thread in processSyncEvt. *)
signalEvtResult == notifier' = "idle"

(* smEvtProcRoutine: the API queue comes first. *)
Busy == api_queue # <<>> \/ evt_queue # <<>>
Node == IF api_queue # <<>> THEN Head(api_queue) ELSE Head(evt_queue)

(* The state machine is handling event e in a state of S. *)
On(S, E) == m_state \in S /\ Busy /\ Node.evt \in E

(* The state machine leaves state s and data h; what the HAL has queued for *)
(* itself on the way goes to evt_queue.                                     *)
Leave(s, h) ==
  /\ m_state' = s
  /\ hw' = [h EXCEPT !.post = FALSE]
  /\ api_queue' = IF api_queue = <<>> THEN <<>> ELSE Tail(api_queue)
  /\ evt_queue' = (IF api_queue = <<>> THEN Tail(evt_queue) ELSE evt_queue)
                  \o (IF h.post THEN <<Async("SNAPSHOT_DONE")>> ELSE <<>>)
  /\ UNCHANGED <<todo, daemon, cfg>>

Answer(ok) == signalAPIResult(Node.evt, ok)
Silent     == UNCHANGED <<results, woken>>

(* The ordinary end of a handler: outcome r, answered; the flags stay. *)
Goto(r, good, bad) ==
  /\ Leave(IF r.ok THEN good ELSE bad, r.h)
  /\ Answer(r.ok)
  /\ UNCHANGED <<flags, notifier>>

Stay(r)  == Goto(r, m_state, m_state)
Ok       == Stay([h |-> hw, ok |-> TRUE])
Invalid  == Stay([h |-> hw, ok |-> FALSE])   \* INVALID_OPERATION

(* Like Goto, with new flags. *)
GotoWith(r, good, bad, fl) ==
  /\ Leave(IF r.ok THEN good ELSE bad, r.h)
  /\ Answer(r.ok)
  /\ flags' = fl
  /\ UNCHANGED notifier

Restarted == [flags EXCEPT !.needsRestart = FALSE]

(* Mutant: the flags are reset and nothing is enabled. *)
applyDelayedMsgs_Forgets(h) == {h}

(* applyDelayedMsgs: what it may do to the HAL, and the flags after it. *)
applyDelayedMsgs(h) ==
  IF flags.delay /\ flags.delayed THEN {r.h : r \in enableMsgType(h)} ELSE {h}
Applied == [flags EXCEPT !.delay = FALSE, !.delayed = @ /\ ~flags.delay]

-----------------------------------------------------------------------------
(* Events that every state treats alike, or nearly so. *)

Plain == States \ {"PREPARE_SNAPSHOT"}

(* The queries, and registering a face image. *)
Query ==
  \/ On(Plain, {"QUERY"}) /\ Ok
  \/ On(Plain, {"REG_FACE_IMAGE"}) /\ Ok

(* Commands but those of longshots.  Previewing takes whatever sendCommand has *)
(* left in its arguments for an order to restart the preview, and forgets      *)
(* what set_parameters asked for.                                              *)
SendCommand ==
  /\ On(Plain, {"SEND_COMMAND"})
  /\ GotoWith([h |-> hw, ok |-> TRUE], m_state, m_state,
              IF m_state # "PREVIEWING" THEN flags
              ELSE [flags EXCEPT !.needsRestart = FALSE, !.delayedRestart = FALSE])

(* Previewing keeps PREVIEW_FRAME back after a picture. *)
EnableMsg ==
  /\ On(Plain, {"ENABLE_MSG_TYPE"})
  /\ IF m_state = "PREVIEWING" /\ flags.delay
     THEN GotoWith([h |-> hw, ok |-> TRUE], m_state, m_state,
                   [flags EXCEPT !.delayed = TRUE, !.asked = TRUE])
     ELSE \E r \in enableMsgType(hw) :
            GotoWith(r, m_state, m_state, [flags EXCEPT !.asked = TRUE])

DisableMsg ==
  /\ On(Plain, {"DISABLE_MSG_TYPE"})
  /\ LET drop == m_state = "PREVIEWING" /\ flags.delay /\ flags.delayed
     IN GotoWith([h |-> disableMsgType(hw), ok |-> TRUE], m_state, m_state,
                 [flags EXCEPT !.asked = FALSE,
                               !.delayed = @ /\ ~drop, !.delay = @ /\ ~drop])

SetParams ==
  /\ On(Plain, {"SET_PARAMS"})
  /\ GotoWith([h |-> updateParameters(hw, Node.arg), ok |-> TRUE], m_state, m_state,
              [flags EXCEPT !.needsRestart = NeedsRestart(hw, Node.arg)])

(* PREVIEW_ENABLED and PREVIEW_RESTART_NEENED; previewing applies what it has *)
(* kept back.                                                                 *)
PreviewEnabled ==
  /\ On(Plain, {"PREVIEW_ENABLED"})
  /\ IF m_state = "PREVIEWING"
     THEN \E h \in applyDelayedMsgs(hw) :
            GotoWith([h |-> h, ok |-> TRUE], m_state, m_state, Applied)
     ELSE Ok

(* The daemon has died: the backend is closed and the application told.  When *)
(* a picture is being taken its callers are released.                         *)
DaemonDied ==
  /\ On(States, {"DAEMON_DIED"})
  /\ Leave(m_state, hw)
  /\ IF m_state = "PIC_TAKING"
     THEN /\ results' = results \o <<Result("PREPARE_SNAPSHOT", TRUE),
                                    Result("TAKE_PICTURE", TRUE)>>
          /\ woken' = Waiting
     ELSE Silent
  /\ UNCHANGED <<flags, notifier>>

(* Internal, jpeg and thermal notifications change nothing modelled here. *)
Notify ==
  /\ On(States, {"NOTIFY"})
  /\ Leave(m_state, hw)
  /\ Silent
  /\ UNCHANGED <<flags, notifier>>

-----------------------------------------------------------------------------
(* QCAMERA_SM_STATE_PREVIEW_STOPPED *)

StoppedCommit ==
  \/ /\ On({"STOPPED"}, {"COMMIT_PARAMS", "COMMIT_STOP_PREVIEW"})
     /\ \E r \in commitParameterChanges(hw) : GotoWith(r, "STOPPED", "STOPPED", Restarted)
  \/ On({"STOPPED"}, {"COMMIT_START_PREVIEW"}) /\ Ok

StoppedStart ==
  \/ /\ On({"STOPPED"}, {"PREPARE_PREVIEW"})
     /\ \E r \in preparePreview(hw, FALSE) : Goto(r, "READY", "STOPPED")
  \/ /\ On({"STOPPED"}, {"START_PREVIEW"}) /\ ~hw.window
     /\ \E r \in preparePreview(hw, FALSE) : Goto(r, "READY", "STOPPED")
  \/ /\ On({"STOPPED"}, {"START_PREVIEW"}) /\ hw.window
     /\ \E r \in restartPreview(hw, FALSE) : Goto(r, "PREVIEWING", "STOPPED")

StoppedOther ==
  \/ /\ On({"STOPPED"}, {"SET_PREVIEW_WINDOW"})
     /\ Stay([h |-> [hw EXCEPT !.window = Node.arg], ok |-> TRUE])
  \/ On({"STOPPED"}, {"STOP_PREVIEW", "CANCEL_PICTURE"}) /\ Ok
  \/ On({"STOPPED"}, {"RELEASE"}) /\ Stay([h |-> release(hw), ok |-> TRUE])
  \/ /\ On({"STOPPED"}, {"LONGSHOT_ON"})
     /\ \E r \in longshotOn(hw, isCaptureRunning, isPreviewRunning) : Stay(r)
  \/ On({"STOPPED"}, {"LONGSHOT_OFF"}) /\ Stay([h |-> longshotOff(hw, FALSE), ok |-> TRUE])
  \/ /\ On({"STOPPED"}, {"PRE_START_RECORDING", "RESTART_STOP_PREVIEW",
                         "RESTART_START_PREVIEW", "START_RECORDING", "STOP_RECORDING",
                         "PREPARE_SNAPSHOT", "PRE_TAKE_PICTURE", "TAKE_PICTURE"})
     /\ Invalid

-----------------------------------------------------------------------------
(* QCAMERA_SM_STATE_PREVIEW_READY *)

ReadyCommit ==
  \/ /\ On({"READY"}, {"COMMIT_PARAMS"}) /\ flags.needsRestart
     /\ \E c \in commitParameterChanges(unpreparePreview(hw)) :
          \E r \in preparePreview(c.h, FALSE) : GotoWith(r, "READY", "STOPPED", Restarted)
  \/ /\ On({"READY"}, {"COMMIT_PARAMS"}) /\ ~flags.needsRestart
     /\ \E r \in commitParameterChanges(hw) : GotoWith(r, "READY", "READY", Restarted)
  \/ /\ On({"READY"}, {"COMMIT_STOP_PREVIEW"}) /\ (flags.needsRestart \/ Node.arg)
     /\ \E r \in Ignoring(commitParameterChanges(unpreparePreview(hw))) : Stay(r)
  \/ /\ On({"READY"}, {"COMMIT_STOP_PREVIEW"}) /\ ~(flags.needsRestart \/ Node.arg)
     /\ \E r \in commitParameterChanges(hw) : Stay(r)
  \/ /\ On({"READY"}, {"COMMIT_START_PREVIEW"})
     /\ \E r \in IF flags.needsRestart \/ Node.arg THEN preparePreview(hw, FALSE) ELSE Done(hw) :
          GotoWith(r, "READY", "STOPPED", Restarted)

(* startPreview, answered with status ok whatever becomes of it. *)
ReadyStart(h, ok) ==
  \E r \in OnError(startPreview(h), unpreparePreview) :
    /\ Leave(IF r.ok THEN "PREVIEWING" ELSE "STOPPED", r.h)
    /\ Answer(r.ok \/ ok)
    /\ UNCHANGED <<flags, notifier>>

ReadyOther ==
  \/ /\ On({"READY"}, {"SET_PREVIEW_WINDOW"})
     /\ LET h == [hw EXCEPT !.window = Node.arg]
        IN IF h.window THEN ReadyStart(h, FALSE) ELSE Stay([h |-> h, ok |-> TRUE])
  \/ /\ On({"READY"}, {"START_PREVIEW"})
     /\ IF hw.window THEN ReadyStart(hw, TRUE) ELSE Ok
  \/ On({"READY"}, {"PREPARE_PREVIEW"}) /\ Ok
  \/ /\ On({"READY"}, {"STOP_PREVIEW"})
     /\ Goto([h |-> unpreparePreview(hw), ok |-> TRUE], "STOPPED", "STOPPED")
  \/ /\ On({"READY"}, {"LONGSHOT_ON"})
     /\ \E r \in longshotOn(hw, isCaptureRunning, isPreviewRunning) : Stay(r)
  \/ On({"READY"}, {"LONGSHOT_OFF"}) /\ Stay([h |-> longshotOff(hw, FALSE), ok |-> TRUE])
  \/ /\ On({"READY"}, {"PRE_START_RECORDING", "RESTART_STOP_PREVIEW",
                       "RESTART_START_PREVIEW", "START_RECORDING", "STOP_RECORDING",
                       "PREPARE_SNAPSHOT", "PRE_TAKE_PICTURE", "TAKE_PICTURE",
                       "CANCEL_PICTURE", "RELEASE"})
     /\ Invalid

-----------------------------------------------------------------------------
(* QCAMERA_SM_STATE_PREVIEWING, and what QCAMERA_SM_STATE_PREVIEW_PIC_TAKING *)
(* shares with it.  A preview that does not come back leaves the second one  *)
(* to PIC_TAKING.                                                            *)

Running == {"PREVIEWING", "PREVIEW_PIC_TAKING"}
Lost    == IF m_state = "PREVIEWING" THEN "STOPPED" ELSE "PIC_TAKING"

(* Whether a commit of the muxer restarts the preview: one camera may need it *)
(* for both.  Mutant: each camera looks at itself only.                       *)
CommitRestarts_Own == flags.needsRestart
CommitRestarts     == flags.needsRestart \/ Node.arg

PreviewingCommit ==
  \/ /\ On(Running, {"COMMIT_PARAMS"})
     /\ \E r \in IF flags.needsRestart
                 THEN Then(Ignoring(commitParameterChanges(stopPreview(hw))),
                           LAMBDA g : restartPreview(g, isCaptureRunning))
                 ELSE commitParameterChanges(hw) :
          GotoWith(r, m_state, IF flags.needsRestart THEN Lost ELSE m_state, Restarted)
  \/ /\ On(Running, {"COMMIT_STOP_PREVIEW"})
     /\ \E r \in IF flags.needsRestart \/ Node.arg
                 THEN Ignoring(commitParameterChanges(stopPreview(hw)))
                 ELSE commitParameterChanges(hw) : Stay(r)
  \/ /\ On(Running, {"COMMIT_START_PREVIEW"})
     /\ \E r \in IF CommitRestarts THEN restartPreview(hw, isCaptureRunning)
                 ELSE Done(hw) :
          GotoWith(r, m_state, Lost, Restarted)

(* The muxer stops and starts the preview of both cameras; a preview that *)
(* does not start is left prepared.                                       *)
PreviewingRestart ==
  \/ /\ On(Running, {"RESTART_STOP_PREVIEW"})
     /\ Stay([h |-> stopPreview(hw), ok |-> TRUE])
  \/ /\ On(Running, {"RESTART_START_PREVIEW"})
     /\ \E r \in Then(preparePreview(hw, isCaptureRunning), startPreview) : Stay(r)

PreviewingStream ==
  \/ On({"PREVIEWING"}, {"PREPARE_PREVIEW"}) /\ Ok
  \/ /\ On({"PREVIEWING"}, {"START_PREVIEW"})
     /\ \E h \in applyDelayedMsgs(hw) :
          GotoWith([h |-> h, ok |-> TRUE], m_state, m_state, Applied)
  \/ /\ On({"PREVIEWING"}, {"STOP_PREVIEW"})
     /\ \E h \in applyDelayedMsgs(stopPreview(hw)) :
          GotoWith([h |-> h, ok |-> TRUE], "STOPPED", "STOPPED", Applied)

PreviewingRecord ==
  \/ /\ On({"PREVIEWING"}, {"PRE_START_RECORDING"})
     /\ \E r \in preStartRecording(hw, FALSE) : Stay(r)
  \/ /\ On({"PREVIEWING"}, {"START_RECORDING"})
     /\ \E r \in startRecording(hw) :
          IF r.ok THEN \E h \in applyDelayedMsgs(r.h) :
                         GotoWith([h |-> h, ok |-> TRUE], "RECORDING", m_state, Applied)
                  ELSE Stay(r)

(* Mutant: a preparation that fails is not answered. *)
PreviewingPrepare_Mute ==
  /\ On({"PREVIEWING"}, {"PREPARE_SNAPSHOT"})
  /\ \E r \in prepareHardwareForSnapshot(hw) :
       Leave(IF r.ok THEN "PREPARE_SNAPSHOT" ELSE m_state, r.h)
  /\ Silent /\ UNCHANGED <<flags, notifier>>

(* PREPARE_SNAPSHOT is answered when the daemon reports that it is done. *)
PreviewingPrepare ==
  /\ On({"PREVIEWING"}, {"PREPARE_SNAPSHOT"})
  /\ \E r \in prepareHardwareForSnapshot(hw) :
       IF r.ok THEN \E h \in applyDelayedMsgs(r.h) :
                      /\ Leave("PREPARE_SNAPSHOT", h)
                      /\ flags' = Applied
                      /\ Silent /\ UNCHANGED notifier
               ELSE Stay(r)

(* A retro picture is answered when the daemon reports it ready. *)
PreviewingTake ==
  LET plain == IF ~hw.hint THEN Done(hw)
               ELSE Ignoring(Then(Ignoring(updateRecordingHintValue(stopPreview(hw), FALSE)),
                                  LAMBDA g : restartPreview(g, FALSE)))
  IN \/ /\ On({"PREVIEWING"}, {"PRE_TAKE_PICTURE"})
        /\ \E r \in preTakePicture(hw, FALSE) : Stay(r)
     \/ /\ On({"PREVIEWING"}, {"TAKE_PICTURE"})
        /\ \E q \in plain : \E r \in takePicture(q.h) :
             IF q.h.zsl \/ q.h.longshot
             THEN /\ Leave(IF r.ok THEN "PREVIEW_PIC_TAKING" ELSE "PREVIEWING", r.h)
                  /\ flags' = [flags EXCEPT !.delay = TRUE]
                  /\ IF r.ok /\ r.h.retro THEN Silent ELSE Answer(r.ok)
                  /\ UNCHANGED notifier
             ELSE Goto(r, "PIC_TAKING", "STOPPED")

(* The muxer restarts both previews itself, by SEND_COMMAND_RESTART. *)
PreviewingLongshot ==
  \/ /\ On({"PREVIEWING"}, {"LONGSHOT_ON"})
     /\ \E c \in longshotOn(hw, isCaptureRunning, isPreviewRunning) :
          \E r \in IF ~c.restart THEN Done(c.h)
                   ELSE IF Dual THEN Done(stopPreview(c.h))
                   ELSE restartPreview(stopPreview(c.h), FALSE) :
            GotoWith(r, m_state, m_state,
                     [flags EXCEPT !.needsRestart = c.restart,
                                   !.delayedRestart = c.restart /\ Dual])
  \/ /\ On({"PREVIEWING"}, {"LONGSHOT_OFF"})
     /\ GotoWith([h |-> longshotOff(hw, FALSE), ok |-> TRUE], m_state, m_state,
                 [flags EXCEPT !.needsRestart = FALSE, !.delayedRestart = FALSE])
  \/ /\ On({"PREVIEWING"}, {"SEND_COMMAND_RESTART"})
     /\ \E r \in IF flags.needsRestart /\ flags.delayedRestart
                 THEN restartPreview(hw, FALSE) ELSE Done(hw) : Stay(r)

PreviewingInvalid ==
  /\ On({"PREVIEWING"}, {"SET_PREVIEW_WINDOW", "CANCEL_PICTURE", "STOP_RECORDING", "RELEASE"})
  /\ Invalid

-----------------------------------------------------------------------------
(* QCAMERA_SM_STATE_PREPARE_SNAPSHOT *)

PrepareInvalid == On({"PREPARE_SNAPSHOT"}, Listed) /\ Invalid

(* PREP_SNAPSHOT_DONE answers the caller of PREPARE_SNAPSHOT. *)
PrepareDone ==
  /\ On({"PREPARE_SNAPSHOT"}, {"PREP_SNAPSHOT_DONE"})
  /\ Leave("PREVIEWING", hw)
  /\ signalAPIResult("PREPARE_SNAPSHOT", TRUE)
  /\ UNCHANGED <<flags, notifier>>

-----------------------------------------------------------------------------
(* QCAMERA_SM_STATE_PIC_TAKING *)

PicCommit ==
  \/ /\ On({"PIC_TAKING"}, {"COMMIT_PARAMS", "COMMIT_STOP_PREVIEW"})
     /\ \E r \in commitParameterChanges(hw) : GotoWith(r, m_state, m_state, Restarted)
  \/ /\ On({"PIC_TAKING"}, {"COMMIT_START_PREVIEW"})   \* as an event, not as an API
     /\ Leave(m_state, hw)
     /\ signalEvtResult
     /\ Silent /\ UNCHANGED flags

PicCancel ==
  /\ On({"PIC_TAKING"}, {"STOP_PREVIEW", "CANCEL_PICTURE"})
  /\ Goto([h |-> cancelPicture(hw), ok |-> TRUE], "STOPPED", "STOPPED")

(* Either kind of picture goes on under a longshot only. *)
PicTake ==
  LET capturing == {"PIC_TAKING", "PREVIEW_PIC_TAKING"}
  IN \/ On(capturing, {"PRE_TAKE_PICTURE"}) /\ Stay([h |-> hw, ok |-> hw.longshot])
     \/ /\ On(capturing, {"TAKE_PICTURE"})
        /\ \E r \in IF hw.longshot THEN longShot(hw) ELSE Refused(hw) : Stay(r)
     \/ /\ On(capturing, {"LONGSHOT_OFF"})
        /\ Goto([h |-> longshotOff(hw, TRUE), ok |-> TRUE], "PREVIEWING", m_state)
     \/ /\ On(capturing, {"LONGSHOT_ON"})
        /\ \E r \in longshotOn(hw, isCaptureRunning, isPreviewRunning) : Stay(r)

(* The post processor's request, to which nobody listens. *)
PicStopCapture ==
  /\ On({"PIC_TAKING"}, {"STOP_CAPTURE_CHANNEL"})
  /\ \E r \in Then(stopCaptureChannel(hw),
                   LAMBDA g : IF EarlyRestart THEN Then(preparePreview(g, TRUE), startPreview)
                              ELSE Done(g)) : Stay(r)

PicDone ==
  /\ On({"PIC_TAKING"}, {"SNAPSHOT_DONE"})
  /\ Leave(IF EarlyRestart THEN "PREVIEWING" ELSE "STOPPED", cancelPicture(hw))
  /\ signalEvtResult
  /\ Silent /\ UNCHANGED flags

PicInvalid ==
  /\ On({"PIC_TAKING"}, {"SET_PREVIEW_WINDOW", "PREPARE_SNAPSHOT", "PRE_START_RECORDING",
                         "RESTART_STOP_PREVIEW", "RESTART_START_PREVIEW", "START_RECORDING",
                         "STOP_RECORDING", "PREPARE_PREVIEW", "START_PREVIEW", "RELEASE"})
  /\ Invalid

-----------------------------------------------------------------------------
(* QCAMERA_SM_STATE_RECORDING and QCAMERA_SM_STATE_VIDEO_PIC_TAKING *)

Camcorder == {"RECORDING", "VIDEO_PIC_TAKING"}

(* The live snapshot thread is joined: its end comes first. *)
Joined == hw.live # "running"

(* Mutant: a recording restarts the preview as previewing does. *)
RecordingCommit_Restarts ==
  /\ On(Camcorder, {"COMMIT_PARAMS"})
  /\ \E r \in IF flags.needsRestart
              THEN Then(commitParameterChanges(stopPreview(hw)), LAMBDA g : restartPreview(g, TRUE))
              ELSE commitParameterChanges(hw) :
       GotoWith(r, m_state, m_state, Restarted)

(* Parameters that need a restart are refused. *)
RecordingCommit ==
  \/ /\ On(Camcorder, {"COMMIT_PARAMS"})
     /\ \E r \in IF flags.needsRestart THEN Refused(hw) ELSE commitParameterChanges(hw) :
          GotoWith(r, m_state, m_state, Restarted)
  \/ /\ On(Camcorder, {"COMMIT_STOP_PREVIEW"})
     /\ \E r \in IF flags.needsRestart \/ Node.arg THEN Refused(hw)
                 ELSE commitParameterChanges(hw) :
          GotoWith(r, m_state, m_state, Restarted)
  \/ On(Camcorder, {"COMMIT_START_PREVIEW"}) /\ Ok

RecordingStop ==
  \/ /\ On({"RECORDING"}, {"STOP_RECORDING"})
     /\ \E r \in stopRecording(hw) : Goto(r, "PREVIEWING", "PREVIEWING")
  \/ /\ On({"RECORDING"}, {"STOP_PREVIEW"})
     /\ \E r \in stopRecording(hw) :
          Goto([h |-> stopPreview(r.h), ok |-> TRUE], "STOPPED", "STOPPED")

RecordingTake ==
  /\ On({"RECORDING"}, {"TAKE_PICTURE"})
  /\ \E r \in takeLiveSnapshot(hw) : Goto(r, "VIDEO_PIC_TAKING", "RECORDING")

RecordingLongshot ==
  \/ /\ On(Camcorder, {"LONGSHOT_ON"})
     /\ \E r \in longshotOn(hw, isCaptureRunning, isPreviewRunning) : Stay(r)
  \/ /\ On(Camcorder, {"LONGSHOT_OFF"})
     /\ Stay([h |-> longshotOff(hw, isCaptureRunning), ok |-> TRUE])

RecordingOther ==
  \/ /\ On({"RECORDING"}, {"SET_PREVIEW_WINDOW", "PREPARE_PREVIEW", "START_PREVIEW",
                           "PRE_START_RECORDING", "RESTART_STOP_PREVIEW",
                           "RESTART_START_PREVIEW", "START_RECORDING",
                           "PREPARE_SNAPSHOT", "PRE_TAKE_PICTURE"})
     /\ Ok
  \/ On({"RECORDING"}, {"CANCEL_PICTURE", "RELEASE"}) /\ Invalid
  \/ /\ On({"VIDEO_PIC_TAKING"},
           {"SET_PREVIEW_WINDOW", "PREPARE_PREVIEW", "START_PREVIEW", "PRE_START_RECORDING",
            "RESTART_STOP_PREVIEW", "RESTART_START_PREVIEW", "START_RECORDING",
            "PREPARE_SNAPSHOT", "PRE_TAKE_PICTURE", "TAKE_PICTURE", "RELEASE"})
     /\ Invalid

VideoPicStop ==
  \/ /\ On({"VIDEO_PIC_TAKING"}, {"STOP_RECORDING"}) /\ Joined
     /\ \E c \in cancelLiveSnapshot(hw) : \E r \in stopRecording(c.h) :
          Goto(r, "PREVIEWING", "PREVIEWING")
  \/ /\ On({"VIDEO_PIC_TAKING"}, {"STOP_PREVIEW"}) /\ Joined
     /\ \E c \in cancelLiveSnapshot(hw) : \E r \in stopRecording(c.h) :
          Goto([h |-> stopPreview(r.h), ok |-> TRUE], "STOPPED", "STOPPED")
  \/ /\ On({"VIDEO_PIC_TAKING"}, {"CANCEL_PICTURE"}) /\ Joined
     /\ \E c \in cancelLiveSnapshot(hw) : Goto(c, "RECORDING", "RECORDING")

VideoPicDone ==
  /\ On({"VIDEO_PIC_TAKING"}, {"SNAPSHOT_DONE"}) /\ Joined
  /\ \E c \in cancelLiveSnapshot(hw) : Leave("RECORDING", c.h)
  /\ signalEvtResult
  /\ Silent /\ UNCHANGED flags

-----------------------------------------------------------------------------
(* QCAMERA_SM_STATE_PREVIEW_PIC_TAKING *)

ZslCapture == hw.zsl \/ hw.longshot

cancelPreviewPicture ==
  IF ZslCapture THEN Done(cancelPicture(hw)) ELSE cancelLiveSnapshot(hw)

(* Mutant: STOP_PREVIEW of a ZSL picture only cancels the picture. *)
PreviewPicCancel_KeepsPreview ==
  /\ On({"PREVIEW_PIC_TAKING"}, {"CANCEL_PICTURE", "STOP_PREVIEW"}) /\ Joined
  /\ \E c \in cancelPreviewPicture :
       IF Node.evt = "CANCEL_PICTURE" THEN Goto(c, "PREVIEWING", "PREVIEWING")
       ELSE Goto(c, "STOPPED", "STOPPED")

PreviewPicCancel ==
  \/ /\ On({"PREVIEW_PIC_TAKING"}, {"CANCEL_PICTURE"}) /\ Joined
     /\ \E c \in cancelPreviewPicture : Goto(c, "PREVIEWING", "PREVIEWING")
  \/ /\ On({"PREVIEW_PIC_TAKING"}, {"STOP_PREVIEW"}) /\ Joined
     /\ \E c \in cancelPreviewPicture :
          Goto([c EXCEPT !.h = unpreparePreview(c.h)], "STOPPED", "STOPPED")

PreviewPicRecord ==
  \/ /\ On({"PREVIEW_PIC_TAKING"}, {"PRE_START_RECORDING"})
     /\ \E r \in IF ZslCapture THEN Refused(hw) ELSE preStartRecording(hw, TRUE) : Stay(r)
  \/ /\ On({"PREVIEW_PIC_TAKING"}, {"START_RECORDING"})
     /\ \E r \in IF ZslCapture THEN Refused(hw) ELSE startRecording(hw) :
          Goto(r, "VIDEO_PIC_TAKING", m_state)

(* Retro pictures prepare the hardware while they are taken. *)
PreviewPicPrepare ==
  /\ On({"PREVIEW_PIC_TAKING"}, {"PREPARE_SNAPSHOT"})
  /\ \E r \in IF hw.retro THEN prepareHardwareForSnapshot(hw) ELSE Refused(hw) :
       IF r.ok THEN Leave(m_state, r.h) /\ Silent /\ UNCHANGED <<flags, notifier>>
               ELSE Stay(r)

(* The daemon's reports, which answer the callers of retro pictures. *)
PreviewPicReport ==
  /\ On({"PREVIEW_PIC_TAKING"}, {"PREP_SNAPSHOT_DONE", "READY_FOR_SNAPSHOT"})
  /\ Leave(m_state, hw)
  /\ IF hw.retro
     THEN signalAPIResult(IF Node.evt = "PREP_SNAPSHOT_DONE" THEN "PREPARE_SNAPSHOT"
                          ELSE "TAKE_PICTURE", TRUE)
     ELSE Silent
  /\ UNCHANGED <<flags, notifier>>

PreviewPicDone ==
  /\ On({"PREVIEW_PIC_TAKING"}, {"SNAPSHOT_DONE"}) /\ Joined
  /\ \E c \in cancelPreviewPicture : Leave("PREVIEWING", c.h)
  /\ IF hw.retro THEN signalAPIResult("SNAPSHOT_DONE", TRUE) ELSE Silent
  /\ signalEvtResult
  /\ UNCHANGED flags

PreviewPicInvalid ==
  /\ On({"PREVIEW_PIC_TAKING"}, {"SET_PREVIEW_WINDOW", "PREPARE_PREVIEW", "START_PREVIEW",
                                 "STOP_RECORDING", "RELEASE"})
  /\ Invalid

-----------------------------------------------------------------------------
(* What no picture is waiting for, and the default arms. *)

(* Mutant: "No ops", and no notification either. *)
SnapshotDoneUnused_Mute ==
  /\ On({"STOPPED", "READY", "PREVIEWING", "PREPARE_SNAPSHOT", "RECORDING"}, {"SNAPSHOT_DONE"})
  /\ Leave(m_state, hw) /\ Silent /\ UNCHANGED <<flags, notifier>>

SnapshotDoneUnused ==
  /\ On({"STOPPED", "READY", "PREVIEWING", "PREPARE_SNAPSHOT", "RECORDING"}, {"SNAPSHOT_DONE"})
  /\ Leave(m_state, hw)
  /\ signalEvtResult
  /\ Silent /\ UNCHANGED flags

Unanswered ==
  /\ \/ On(States \ {"PREVIEWING"}, {"SEND_COMMAND_RESTART"})
     \/ On(States \ {"PIC_TAKING"}, {"STOP_CAPTURE_CHANNEL"})
     \/ On({"PREPARE_SNAPSHOT"}, Commits \cup {"REG_FACE_IMAGE"})
     \/ On(States \ {"PREVIEW_PIC_TAKING"}, {"READY_FOR_SNAPSHOT"})
     \/ On(States \ {"PREVIEW_PIC_TAKING", "PREPARE_SNAPSHOT"}, {"PREP_SNAPSHOT_DONE"})
  /\ Leave(m_state, hw)
  /\ Silent /\ UNCHANGED <<flags, notifier>>

StateMachine ==
  \/ Query \/ SendCommand \/ EnableMsg \/ DisableMsg \/ SetParams \/ PreviewEnabled
  \/ DaemonDied \/ Notify
  \/ StoppedCommit \/ StoppedStart \/ StoppedOther \/ ReadyCommit \/ ReadyOther
  \/ PreviewingCommit \/ PreviewingRestart \/ PreviewingStream \/ PreviewingRecord
  \/ PreviewingPrepare \/ PreviewingTake \/ PreviewingLongshot \/ PreviewingInvalid
  \/ PrepareInvalid \/ PrepareDone
  \/ PicCommit \/ PicCancel \/ PicTake \/ PicStopCapture \/ PicDone \/ PicInvalid
  \/ RecordingCommit \/ RecordingStop \/ RecordingTake \/ RecordingLongshot \/ RecordingOther
  \/ VideoPicStop \/ VideoPicDone
  \/ PreviewPicCancel \/ PreviewPicRecord \/ PreviewPicPrepare \/ PreviewPicReport
  \/ PreviewPicDone \/ PreviewPicInvalid
  \/ SnapshotDoneUnused \/ Unanswered

-----------------------------------------------------------------------------
(* The callers.  Between two events of a call the lock is free. *)

(* The events of a call.  PREPARE_SNAPSHOT's payload says when it is left out. *)
Prepare(policy, m) == Ev("PREPARE_SNAPSHOT", policy, m)

(* take_picture of a ZSL preview that keeps frames of the past. *)
RetroPicture(c) ==
  c = "take_picture" /\ Retro /\ hw.zsl /\ ~hw.longshot /\ ~Dual
  /\ m_state \notin {"RECORDING", "VIDEO_PIC_TAKING"}

Script(c, p) ==
  CASE c = "set_preview_window"  -> <<Ev("SET_PREVIEW_WINDOW", TRUE, FALSE)>>
    [] c = "no_preview_window"   -> <<Ev("SET_PREVIEW_WINDOW", FALSE, FALSE)>>
    [] c = "enable_msg_type"     -> <<Do("ENABLE_MSG_TYPE")>>
    [] c = "disable_msg_type"    -> <<Do("DISABLE_MSG_TYPE")>>
    [] c = "set_parameters"      ->
         <<Ev("SET_PARAMS", p, TRUE)>> \o
         (IF Dual THEN <<Must("PREVIEW_ENABLED"), Must("COMMIT_STOP_PREVIEW"),
                         Do("COMMIT_START_PREVIEW")>>
                  ELSE <<Do("COMMIT_PARAMS")>>)
    [] c = "prepare_preview"     -> <<Do("PREPARE_PREVIEW")>>
    [] c = "start_preview"       -> <<Do("START_PREVIEW")>>
    [] c = "stop_preview"        -> <<Do("STOP_PREVIEW")>>
    [] c = "preview_enabled"     -> <<Do("PREVIEW_ENABLED")>>
    [] c = "query"               -> <<Do("QUERY")>>
    [] c = "register_face_image" -> <<Do("REG_FACE_IMAGE")>>
    [] c = "start_recording"     -> <<Must("PRE_START_RECORDING"), Do("START_RECORDING")>>
    [] c = "stop_recording"      -> <<Do("STOP_RECORDING")>>
    [] c = "take_picture"        ->
         IF RetroPicture(c)
         THEN <<Must("PRE_TAKE_PICTURE"), Do("TAKE_PICTURE"), Prepare("longshot", FALSE)>>
         ELSE IF Dual THEN <<Prepare("longshot", TRUE), Must("PRE_TAKE_PICTURE"),
                             Prepare("run", FALSE), Ev("TAKE_PICTURE", TRUE, FALSE)>>
         ELSE <<Prepare("run", FALSE), Must("PRE_TAKE_PICTURE"), Ev("TAKE_PICTURE", TRUE, FALSE)>>
    [] c = "cancel_picture"      -> <<Do("CANCEL_PICTURE")>>
    [] c = "longshot_on"         ->
         IF Dual THEN <<Must("LONGSHOT_ON"), Do("SEND_COMMAND_RESTART")>> ELSE <<Do("LONGSHOT_ON")>>
    [] c = "longshot_off"        -> <<Do("LONGSHOT_OFF")>>
    [] c = "send_command"        -> <<Do("SEND_COMMAND")>>
    [] c = "release"             -> <<Do("RELEASE")>>
    [] c = "internal_picture"    ->
         <<Prepare("always", FALSE), Do("TAKE_PICTURE"), Do("INT_DONE"), Do("INT_CLEAR")>>

(* prepare_snapshot needs a flash, and is not repeated for a longshot, or when *)
(* it has run already.                                                         *)
Skips(v, h, flash) ==
  /\ v.evt = "PREPARE_SNAPSHOT"
  /\ \/ ~flash
     \/ v.arg = "run" /\ h.prepRun
     \/ v.arg # "always" /\ h.longshot /\ h.prepRun

(* Whether the first event of a script is sent to the state machine.  Mutant: *)
(* the internal picture's own steps are sent too.                             *)
Sent_Own(s) == s # <<>>
Sent(s)     == s # <<>> /\ Head(s).evt \notin Own

(* Thread t goes on with script s: processAPI of its first event. *)
Proceed(t, s, h) ==
  \E flash \in BOOLEAN :
    LET rest == IF s # <<>> /\ Skips(Head(s), h, flash) THEN Tail(s) ELSE s
    IN /\ flash => s # <<>> /\ Head(s).evt = "PREPARE_SNAPSHOT"
       /\ todo' = [todo EXCEPT ![t] = rest]
       /\ api_queue' = IF Sent(rest) THEN Append(api_queue, Queued(Head(rest)))
                       ELSE api_queue
       /\ hw' = h

(* A call is made while the daemon lives: its death is told the application, *)
(* which then closes the camera.                                             *)
Start(t, c, p) ==
  /\ todo[t] = <<>> /\ daemon
  /\ (c = "internal_picture") <=> (t = IntPic)
  /\ Len(api_queue) + Len(results) < MaxPending /\ Len(evt_queue) < MaxEvents
  /\ Proceed(t, Script(c, p),
             [hw EXCEPT !.retro = IF c \in {"take_picture", "internal_picture"}
                                  THEN RetroPicture(c) ELSE @])
  /\ UNCHANGED <<m_state, flags, evt_queue, results, woken, notifier, daemon, cfg>>

NewCall == \E t \in Callers \cup {IntPic}, c \in Calls, p \in PayloadSet : Start(t, c, p)

(* What the caller does with result r of its event v, before it goes on. *)
AfterResult(v, r) ==
  CASE v.evt = "PREPARE_SNAPSHOT" -> Done([hw EXCEPT !.prepRun = TRUE])
    [] v.evt = "TAKE_PICTURE" /\ v.arg -> Done([hw EXCEPT !.prepRun = hw.longshot /\ @])
    [] v.evt = "RESTART_STOP_PREVIEW" /\ r.ok -> updateRecordingHintValue(hw, v.arg)
    [] v.evt = "RESTART_START_PREVIEW" -> Done([hw EXCEPT !.restart = FALSE])
    [] OTHER -> Done(hw)

(* The muxer looks whether any camera needs a restart and has both restarted. *)
AfterEvent(v, r, s, other) ==
  IF ~Dual THEN s
  ELSE IF v.evt \in {"PRE_START_RECORDING", "PRE_TAKE_PICTURE"} /\ hw.restart
  THEN <<Ev("RESTART_STOP_PREVIEW", v.evt = "PRE_START_RECORDING", TRUE),
         Must("RESTART_START_PREVIEW")>> \o s
  ELSE IF v.evt = "PREVIEW_ENABLED" /\ s # <<>>
  THEN <<Ev("COMMIT_STOP_PREVIEW", r.val \/ other, TRUE),
         Ev("COMMIT_START_PREVIEW", r.val \/ other, FALSE)>>
  ELSE s

(* The results a caller of event e finds, and the list without the one it takes. *)
(* Mutant: the node is not unlinked.                                             *)
ResultsOf(e)  == {i \in 1..Len(results) : results[i].evt = e}
Unlink_Not(i) == results
Unlink(i)     == RemoveAt(results, i)

(* waitAPIResult wakes up: it takes the oldest result of its event, or waits on. *)
Wake(t) ==
  LET v    == Head(todo[t])
      mine == ResultsOf(v.evt)
  IN /\ t \in woken
     /\ woken' = woken \ {t}
     /\ IF mine = {} THEN UNCHANGED <<results, todo, api_queue, hw>>
        ELSE LET i == CHOOSE j \in mine : \A k \in mine : j <= k
                 r == results[i]
             IN /\ results' = Unlink(i)
                /\ \E a \in AfterResult(v, r), other \in BOOLEAN :
                     /\ other => Dual /\ v.evt = "PREVIEW_ENABLED"
                     /\ Proceed(t, IF v.must /\ ~(r.ok /\ a.ok) THEN <<>>
                                   ELSE IF t = IntPic /\ v.evt = "TAKE_PICTURE" /\ ~r.ok
                                   THEN <<Do("INT_CLEAR")>>
                                   ELSE AfterEvent(v, r, Tail(todo[t]), other), a.h)
     /\ UNCHANGED <<m_state, flags, evt_queue, notifier, daemon, cfg>>

(* checkIntPicPending ends, after the picture or 5 seconds, by an event it does *)
(* not wait for; so does clearIntPendingEvents.                                 *)
IntPicStep ==
  /\ todo[IntPic] # <<>> /\ Head(todo[IntPic]).evt \in Own
  /\ todo' = [todo EXCEPT ![IntPic] = Tail(@)]
  /\ api_queue' = IF Head(todo[IntPic]).evt = "INT_DONE"
                  THEN Append(api_queue, Async("SNAPSHOT_DONE"))
                  ELSE IF ~hw.zsl THEN Append(api_queue, Async("START_PREVIEW"))
                  ELSE api_queue
  /\ UNCHANGED <<m_state, flags, hw, evt_queue, results, woken, notifier, daemon, cfg>>

-----------------------------------------------------------------------------
(* The HAL's other threads and the daemon. *)

(* Live_Snapshot_thread: a failure asks for a cancellation, and waits for none. *)
LiveSnapshot ==
  /\ hw.live = "running"
  /\ \E e \in liveSnapshotEnds(hw) :
       /\ hw' = e.h
       /\ api_queue' = IF e.cancel THEN Append(api_queue, Async("CANCEL_PICTURE")) ELSE api_queue
  /\ UNCHANGED <<m_state, flags, evt_queue, results, todo, woken, notifier, daemon, cfg>>

(* Reports of the daemon that end a preparation and announce retro frames. *)
Report ==
  /\ daemon
  /\ \/ /\ hw.prep
        /\ hw' = [hw EXCEPT !.prep = FALSE]
        /\ evt_queue' = Append(evt_queue, Async("PREP_SNAPSHOT_DONE"))
     \/ /\ hw.ready
        /\ hw' = [hw EXCEPT !.ready = FALSE]
        /\ evt_queue' = Append(evt_queue, Async("READY_FOR_SNAPSHOT"))
  /\ UNCHANGED <<m_state, flags, api_queue, results, todo, woken, notifier, daemon, cfg>>

(* The post processor has all frames of a regular capture. *)
StopCapture ==
  /\ hw.jpeg = "busy" /\ ~hw.longshot /\ ~hw.hint /\ ~hw.zsl /\ daemon
  /\ hw' = [hw EXCEPT !.jpeg = "reprocessed"]
  /\ api_queue' = Append(api_queue, Async("STOP_CAPTURE_CHANNEL"))
  /\ UNCHANGED <<m_state, flags, evt_queue, results, todo, woken, notifier, daemon, cfg>>

(* The last picture has been delivered: the callback notifier waits until the *)
(* state machine knows.  A picture that is not regular comes without          *)
(* StopCapture.                                                               *)
SnapshotDone ==
  /\ hw.jpeg # "none" /\ ~hw.longshot /\ ~hw.prep /\ ~hw.ready /\ notifier = "idle" /\ daemon
  /\ RegularOnly /\ ~hw.hint /\ ~hw.zsl => hw.jpeg = "reprocessed"
  /\ hw' = [hw EXCEPT !.jpeg = "none"]
  /\ notifier' = "waiting"
  /\ evt_queue' = Append(evt_queue, Async("SNAPSHOT_DONE"))
  /\ UNCHANGED <<m_state, flags, api_queue, results, todo, woken, daemon, cfg>>

Notification ==
  /\ Notices /\ Len(evt_queue) < MaxEvents /\ daemon
  /\ evt_queue' = Append(evt_queue, Async("NOTIFY"))
  /\ UNCHANGED <<m_state, flags, hw, api_queue, results, todo, woken, notifier, daemon, cfg>>

Die ==
  /\ MayDie /\ daemon
  /\ daemon' = FALSE
  /\ evt_queue' = Append(evt_queue, Async("DAEMON_DIED"))
  /\ UNCHANGED <<m_state, flags, hw, api_queue, results, todo, woken, notifier, cfg>>

Init ==
  /\ cfg \in DOMAIN Config
  /\ m_state = "STOPPED"
  /\ flags = [delay |-> FALSE, delayed |-> FALSE, needsRestart |-> FALSE,
              delayedRestart |-> FALSE, asked |-> FALSE]
  /\ hw = InitHW
  /\ api_queue = <<>> /\ evt_queue = <<>> /\ results = <<>>
  /\ todo = [t \in Threads |-> <<>>]
  /\ woken = {}
  /\ notifier = "idle"
  /\ daemon = TRUE

Next ==
  \/ StateMachine
  \/ NewCall
  \/ \E t \in Threads : Wake(t)
  \/ IntPicStep \/ LiveSnapshot \/ Report \/ StopCapture \/ SnapshotDone \/ Notification \/ Die

Spec == Init /\ [][Next]_vars

(* The state machine's thread, woken callers, the HAL's threads and the daemon *)
(* run; nobody has to call, and pictures may take forever.                     *)
FairSpec ==
  /\ Spec
  /\ WF_vars(StateMachine)
  /\ \A t \in Threads : WF_vars(Wake(t))
  /\ WF_vars(IntPicStep) /\ WF_vars(LiveSnapshot) /\ WF_vars(Report)

-----------------------------------------------------------------------------
(* Properties. *)

(* The variables keep their shapes: a state of the machine, the HAL's data,  *)
(* nodes of known events, results of events that have callers.               *)
TypeOK ==
  /\ m_state \in States
  /\ flags \in [{"delay", "delayed", "needsRestart", "delayedRestart", "asked"} -> BOOLEAN]
  /\ hw \in HW
  /\ \A i \in 1..Len(api_queue) : api_queue[i].evt \in ApiEvents
  /\ \A i \in 1..Len(evt_queue) : evt_queue[i].evt \in Events
  /\ results \in Seq([evt : ApiEvents, ok : BOOLEAN, val : BOOLEAN])
  /\ \A t \in Threads : \A i \in 1..Len(todo[t]) : todo[t][i].evt \in ApiEvents \cup Own
  /\ woken \subseteq Threads
  /\ notifier \in {"idle", "waiting"}
  /\ daemon \in BOOLEAN
  /\ cfg \in DOMAIN Config

Waiters(e) == {t \in Waiting : Head(todo[t]).evt = e}
Answers(e) == {i \in 1..Len(results) : results[i].evt = e}
Requests(e) == {i \in 1..Len(api_queue) : api_queue[i].evt = e}
Reported(e) == \E i \in 1..Len(evt_queue) : evt_queue[i].evt = e

(* What the daemon's reports will still answer. *)
Owed(e) ==
  CASE e = "PREPARE_SNAPSHOT" ->
         /\ m_state = "PREPARE_SNAPSHOT" \/ (m_state = "PREVIEW_PIC_TAKING" /\ hw.retro)
         /\ hw.prep \/ Reported("PREP_SNAPSHOT_DONE")
    [] e = "TAKE_PICTURE" ->
         /\ m_state = "PREVIEW_PIC_TAKING" /\ hw.retro
         /\ hw.ready \/ Reported("READY_FOR_SNAPSHOT")
    [] OTHER -> FALSE

(* Whose callers the code does leave behind.  Of the muxer's events            *)
(* SEND_COMMAND_RESTART is answered by PREVIEWING only, and by PIC_TAKING       *)
(* COMMIT_START_PREVIEW is answered as if it were no API call; the end of a     *)
(* retro picture or of the daemon leaves a caller of prepare_snapshot, and the  *)
(* latter that of a retro picture.                                              *)
Forsaken(e) ==
  \/ Dual /\ e \in {"SEND_COMMAND_RESTART", "COMMIT_START_PREVIEW"}
  \/ (Retro \/ MayDie) /\ e = "PREPARE_SNAPSHOT"
  \/ Retro /\ MayDie /\ e = "TAKE_PICTURE"

(* No call is lost: for every caller that waits in waitAPIResult there is its *)
(* request, a result of that event, or a report of the daemon that will       *)
(* become one.                                                                *)
CallIsAccounted ==
  \A e \in {Head(todo[t]).evt : t \in Waiting} :
    Forsaken(e) \/
    Cardinality(Waiters(e)) <=
      Cardinality(Answers(e)) + Cardinality(Requests(e)) + (IF Owed(e) THEN 1 ELSE 0)

(* "API is in a way sync call": a result in m_apiResultList has a caller that *)
(* waits for it, so that no later call is answered by it.  (Pictures leave    *)
(* the result of STOP_CAPTURE_CHANNEL, which nobody fetches.)                 *)
AnswersAreAwaited ==
  "take_picture" \notin Calls =>
  \A i \in 1..Len(results) :
    Cardinality(Answers(results[i].evt)) <= Cardinality(Waiters(results[i].evt))

(* Every call returns: waitAPIResult is a blocking call that ends, as soon as *)
(* no new calls come in whose callers take the results first, and the daemon  *)
(* lives.                                                                     *)
EveryCallReturns ==
  \/ Retro \/ MayDie
  \/ []<>(\A t \in Threads : todo[t] = <<>>)
  \/ []<><<NewCall>>_vars

(* The callback notifier does not stay in processSyncEvt, once the calls that *)
(* the state machine prefers to its event have ended.                         *)
NotifierReturns == []<>(notifier = "idle") \/ []<><<NewCall>>_vars

Streaming(C) == \E c \in C : hw.ch[c] = "started"

(* A muxer that has stopped the preview and not yet started it again. *)
Restarting ==
  \E t \in Threads : \E i \in 1..Len(todo[t]) :
    todo[t][i].evt \in {"RESTART_STOP_PREVIEW", "RESTART_START_PREVIEW",
                        "COMMIT_STOP_PREVIEW", "COMMIT_START_PREVIEW"}

(* "previewing", "recording (preview running)" and the states of pictures that *)
(* keep the preview running have a preview stream, outside of longshots, which *)
(* take normal pictures in PREVIEW_PIC_TAKING, and as long as the daemon       *)
(* refuses nothing.                                                            *)
PreviewRuns ==
  Faults = {} /\ ~hw.longshot /\ m_state \in {"PREVIEWING", "PREPARE_SNAPSHOT", "RECORDING", "VIDEO_PIC_TAKING",
               "PREVIEW_PIC_TAKING"}
  => (Streaming({"ZSL", "PREVIEW"}) \/ Restarting)

(* A recording has its video stream, whatever parameters are set meanwhile. *)
RecordingIsBacked ==
  m_state \in {"RECORDING", "VIDEO_PIC_TAKING"} => hw.ch["VIDEO"] = "started"

(* "preview is stopped": no stream of a preview or a recording is left running. *)
StoppedIsStopped == m_state = "STOPPED" => ~Streaming(PreviewChannels)

(* A capture channel that runs belongs to the picture being taken: whatever    *)
(* ends the picture has stopped it.  (With set_parameters the ZSL mode may     *)
(* change under the picture, and cancelPicture goes by the mode of now.)       *)
CaptureEnds ==
  "set_parameters" \notin Calls => (Streaming({"CAPTURE", "RAW"}) => m_state = "PIC_TAKING")

(* A preview frame message that the application has enabled last is not lost: *)
(* it is enabled, or kept back until the pictures are done with.              *)
MessageIsKept == flags.asked => hw.msg \/ (flags.delay /\ flags.delayed)
=============================================================================
