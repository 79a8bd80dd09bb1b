----------------------------- MODULE CameraHWI -----------------------------
(***************************************************************************)
(* What the camera HAL does to its channels and parameters                 *)
(* (QCamera2HardwareInterface in QCamera2HWI.cpp, QCameraParameters.cpp).  *)
(*                                                                         *)
(* Every implementation method that the state machine calls is an operator *)
(* from the HAL's data h to the set of its outcomes: the data it leaves    *)
(* and whether it returned NO_ERROR.  The camera daemon may refuse a       *)
(* request of the kinds in Faults.                                         *)
(***************************************************************************)
EXTENDS Naturals, Sequences, FiniteSets

CONSTANT Config   \* the configurations, by name
VARIABLE cfg      \* the name of the one at hand; it never changes

Channels == {"ZSL", "PREVIEW", "CALLBACK", "SNAPSHOT", "VIDEO", "CAPTURE", "RAW"}
FaultKinds == {"configure", "add", "start", "commit", "picture", "advanced", "prepare"}

(* What a configuration says of the device and of the application's settings. *)
Dual     == Config[cfg].dual      \* two cameras in sync (CAM_SYNC_RELATED_SENSORS_ON): a muxer calls
UBWC     == Config[cfg].ubwc      \* mParameters.isUBWCEnabled(), with a UBWC preview format
LowPower == Config[cfg].lowPower  \* isLowPowerMode()
PicCh    == Config[cfg].picCh     \* channel of a non-ZSL picture: "CAPTURE", or "RAW" by its format
Faults   == Config[cfg].faults    \* the kinds of requests the daemon may refuse

ASSUME HWIAssumption ==
  \A n \in DOMAIN Config :
    /\ {Config[n].dual, Config[n].ubwc, Config[n].lowPower} \subseteq BOOLEAN
    /\ Config[n].picCh \in {"CAPTURE", "RAW"}
    /\ Config[n].faults \subseteq FaultKinds

(* The HAL's data: m_channels, mPreviewWindow, PREVIEW_FRAME in mMsgEnabled, *)
(* the parameters (committed, pending, their keys and m_tempMap), the flags  *)
(* of captures, and what the daemon and the jpeg threads still owe.          *)
HW == [ch : [Channels -> {"none", "added", "started"}],
       window : BOOLEAN, msg : BOOLEAN,
       zsl : BOOLEAN, hint : BOOLEAN,          \* m_bZslMode, m_bRecordingHint
       zslNew : BOOLEAN, hintNew : BOOLEAN,    \* m_bZslMode_new, m_bRecordingHint_new
       zslKey : BOOLEAN, hintKey : BOOLEAN,    \* KEY_QC_ZSL, KEY_RECORDING_HINT
       temp : SUBSET BOOLEAN,                  \* KEY_RECORDING_HINT in m_tempMap
       longshot : BOOLEAN, retro : BOOLEAN,    \* mLongshotEnabled, isRetroPicture()
       prepRun : BOOLEAN,                      \* mPrepSnapRun
       restart : BOOLEAN,                      \* mPreviewRestartNeeded
       live : {"none", "running", "ended"},    \* mLiveSnapshotThread
       jpeg : {"none", "busy", "reprocessed"}, \* external: a picture under way
       prep : BOOLEAN, ready : BOOLEAN,        \* external: PREP_SNAPSHOT_DONE,
                                               \* READY_FOR_SNAPSHOT to come
       post : BOOLEAN]                         \* SNAPSHOT_DONE to be queued

(* The HAL after openCamera, before the application has set anything. *)
InitHW ==
  [ch |-> [c \in Channels |-> "none"], window |-> FALSE, msg |-> FALSE,
   zsl |-> FALSE, hint |-> FALSE, zslNew |-> FALSE, hintNew |-> FALSE,
   zslKey |-> FALSE, hintKey |-> FALSE, temp |-> {}, longshot |-> FALSE,
   retro |-> FALSE, prepRun |-> FALSE, restart |-> FALSE, live |-> "none",
   jpeg |-> "none", prep |-> FALSE, ready |-> FALSE, post |-> FALSE]

-----------------------------------------------------------------------------
(* Outcomes and how methods are strung together. *)

Done(h)    == {[h |-> h, ok |-> TRUE]}
Refused(h) == {[h |-> h, ok |-> FALSE]}

(* A request of kind f: it turns h into g, or is refused and leaves h. *)
Request(f, h, g) == Done(g) \cup (IF f \in Faults THEN Refused(h) ELSE {})

(* if (rc == NO_ERROR) rc = F(); *)
Then(R, F(_)) == UNION {IF r.ok THEN F(r.h) ELSE {r} : r \in R}

(* if (rc != NO_ERROR) F(); *)
OnError(R, F(_)) == {IF r.ok THEN r ELSE [r EXCEPT !.h = F(r.h)] : r \in R}

(* The outcome counts, the return value is dropped. *)
Ignoring(R) == {[r EXCEPT !.ok = TRUE] : r \in R}

-----------------------------------------------------------------------------
(* Channels. *)

delChannels(h, C) ==
  [h EXCEPT !.ch = [c \in Channels |-> IF c \in C THEN "none" ELSE h.ch[c]]]

(* addXxxChannel deletes an existing channel of its type first. *)
addChannel(h, c) ==
  LET g == delChannels(h, {c}) IN Request("add", g, [g EXCEPT !.ch[c] = "added"])

startChannel(h, c) ==
  IF h.ch[c] = "none" THEN Refused(h)
  ELSE Request("start", h, [h EXCEPT !.ch[c] = "started"])

stopChannels(h, C) ==
  [h EXCEPT !.ch = [c \in Channels |->
     IF c \in C /\ h.ch[c] = "started" THEN "added" ELSE h.ch[c]]]

PreviewChannels == {"ZSL", "PREVIEW", "VIDEO", "SNAPSHOT", "CALLBACK"}

unpreparePreview(h) == delChannels(h, PreviewChannels)

(* The stopped channels are deleted with the others of preparePreview. *)
stopPreview(h) == unpreparePreview(stopChannels(h, {"CALLBACK", "ZSL", "PREVIEW"}))

(* The picture channel of the mode, and the preview channel of the mode. *)
ZslPreview(h) == h.zsl /\ ~h.hint

startPreview(h) ==
  LET main == startChannel(h, IF ZslPreview(h) THEN "ZSL" ELSE "PREVIEW")
      callback(g) ==
        IF g.msg /\ g.ch["CALLBACK"] # "none"
        THEN OnError(startChannel(g, "CALLBACK"),
                     LAMBDA k : stopChannels(k, {"ZSL", "PREVIEW"}))
        ELSE Done(g)
  IN Then(main, callback)

-----------------------------------------------------------------------------
(* Messages to the application.  Only CAMERA_MSG_PREVIEW_FRAME matters: with *)
(* UBWC it needs a channel of its own.                                       *)

enableMsgType(h) ==
  LET started == IF UBWC /\ ~h.msg /\ h.ch["CALLBACK"] # "none"
                 THEN startChannel(h, "CALLBACK") ELSE Done(h)
  IN {[r EXCEPT !.h.msg = TRUE] : r \in started}

disableMsgType(h) ==
  LET stopped == IF UBWC /\ h.msg THEN stopChannels(h, {"CALLBACK"}) ELSE h
  IN [stopped EXCEPT !.msg = FALSE]

-----------------------------------------------------------------------------
(* Pictures. *)

(* Mutant: the channel of a normal capture is left to the next one. *)
cancelPicture_KeepsChannel(h) == [h EXCEPT !.jpeg = "none"]

(* Either kind of capture ends in the post processor, which is stopped. *)
cancelPicture(h) ==
  LET g == [h EXCEPT !.jpeg = "none"]
  IN IF h.zsl THEN g ELSE delChannels(g, {PicCh})

(* The live snapshot thread has been joined when this runs. *)
cancelLiveSnapshot(h) ==
  LET g == [h EXCEPT !.live = "none", !.jpeg = "none"]
  IN {[h |-> stopChannels(g, {"SNAPSHOT"}), ok |-> h.ch["SNAPSHOT"] # "none"]}

(* CAMERA_CMD_LONGSHOT_OFF; capturing is isCaptureRunning(). *)
longshotOff(h, capturing) ==
  LET cancelled == IF h.longshot /\ capturing
                   THEN [cancelPicture(h) EXCEPT !.post = TRUE] ELSE h
  IN [cancelled EXCEPT !.prepRun = FALSE, !.longshot = FALSE]

(* CAMERA_CMD_LONGSHOT_ON; restart says that ZSL runs with too few buffers. *)
longshotOn(h, capturing, running) ==
  IF capturing THEN {[h |-> h, ok |-> FALSE, restart |-> FALSE]}
  ELSE {[h |-> [h EXCEPT !.longshot = TRUE, !.prepRun = FALSE], ok |-> TRUE,
         restart |-> b] :
           b \in {FALSE} \cup {h.zsl /\ running /\ h.ch["ZSL"] # "none"}}

(* longShot: one more frame of the capture that is running. *)
longShot(h) ==
  IF h.ch[IF h.zsl THEN "ZSL" ELSE "CAPTURE"] = "none" THEN Refused(h)
  ELSE Request("picture", h, [h EXCEPT !.jpeg = "busy"])

takeZslPicture(h) ==
  IF h.ch["ZSL"] = "none" THEN Refused(h)
  ELSE Request("picture", h, [h EXCEPT !.jpeg = "busy", !.ready = h.retro])

(* The preview gives way to the picture channel.  A failure of the advanced *)
(* capture leaves that channel running.                                     *)
takeNormalPicture(h) ==
  LET declared == Request("configure", delChannels(h, {"PREVIEW"}),
                          delChannels(h, {"PREVIEW"}))
      added    == Then(declared, LAMBDA g : addChannel(g, PicCh))
      started  == OnError(Then(added, LAMBDA g : startChannel(g, PicCh)),
                          LAMBDA g : delChannels(g, {PicCh}))
      advanced == Then(started,
                       LAMBDA g : Request("advanced", g, [g EXCEPT !.jpeg = "busy"]))
  IN Then(advanced, LAMBDA g : IF g.longshot /\ PicCh = "CAPTURE"
                               THEN OnError(longShot(g), LAMBDA k : delChannels(k, {PicCh}))
                               ELSE Done(g))

takePicture(h) == IF h.zsl THEN takeZslPicture(h) ELSE takeNormalPicture(h)

(* destroy deletes the channel of the daemon and keeps the HAL's object. *)
stopCaptureChannel(h) ==
  IF PicCh # "CAPTURE" THEN Done(h)
  ELSE {[h |-> stopChannels(h, {"CAPTURE"}), ok |-> h.ch["CAPTURE"] # "none"]}

takeLiveSnapshot(h) == Done([h EXCEPT !.live = "running"])

(* takeLiveSnapshot_internal, on its own thread: whether it failed, and if so *)
(* whether it gets as far as asking for CANCEL_PICTURE.                       *)
liveSnapshotEnds(h) ==
  LET c  == IF LowPower THEN "VIDEO" ELSE "SNAPSHOT"
      g  == [h EXCEPT !.live = "ended"]
      on == IF LowPower THEN g ELSE [g EXCEPT !.ch["SNAPSHOT"] = "started"]
  IN IF h.ch[c] = "none" THEN {[h |-> g, cancel |-> TRUE]}
     ELSE {[h |-> [on EXCEPT !.jpeg = "busy"], cancel |-> FALSE]}
          \cup (IF "picture" \in Faults THEN {[h |-> g, cancel |-> TRUE]} ELSE {})
          \cup (IF "configure" \in Faults /\ ~LowPower
                THEN {[h |-> g, cancel |-> FALSE]} ELSE {})

prepareHardwareForSnapshot(h) == Request("prepare", h, [h EXCEPT !.prep = TRUE])

-----------------------------------------------------------------------------
(* preparePreview adds the channels of the mode. *)

prepareZsl(h) ==
  Then(addChannel(h, "ZSL"),
       LAMBDA g : IF UBWC THEN OnError(addChannel(g, "CALLBACK"),
                                       LAMBDA k : delChannels(k, {"ZSL"}))
                  ELSE Done(g))

prepareCamcorder(h) ==
  LET snapshot == IF LowPower THEN Done(h) ELSE addChannel(h, "SNAPSHOT")
      video(g) == OnError(addChannel(g, "VIDEO"),
                          LAMBDA k : delChannels(k, {"SNAPSHOT"}))
      preview(g) == OnError(addChannel(g, "PREVIEW"),
                            LAMBDA k : delChannels(k, {"SNAPSHOT", "VIDEO"}))
  IN Then(Then(snapshot, video), preview)

(* The result of adding the callback channel replaces that of the preview's. *)
prepareCamera(h) ==
  IF ~UBWC THEN addChannel(h, "PREVIEW")
  ELSE Then(Ignoring(addChannel(h, "PREVIEW")),
            LAMBDA g : OnError(addChannel(g, "CALLBACK"),
                               LAMBDA k : delChannels(k, {"PREVIEW", "SNAPSHOT", "VIDEO"})))

preparePreview(h, capturing) ==
  Then(Request("configure", h, h),
       LAMBDA g : IF ZslPreview(g) THEN prepareZsl(g)
                  ELSE IF g.hint THEN prepareCamcorder(IF g.longshot
                                                       THEN longshotOff(g, capturing) ELSE g)
                  ELSE prepareCamera(g))

(* preparePreview and startPreview, undone when the start fails. *)
restartPreview(h, capturing) ==
  Then(preparePreview(h, capturing),
       LAMBDA g : OnError(startPreview(g), unpreparePreview))

-----------------------------------------------------------------------------
(* Parameters: a set_parameters call gives ZSL mode and recording hint.  The *)
(* ZSL key changes at once, the hint's with the commit.                      *)

Params == [zsl : BOOLEAN, hint : BOOLEAN]

updateParameters(h, p) ==
  [h EXCEPT !.zslKey = p.zsl,
            !.zslNew = IF p.zsl # h.zslKey THEN p.zsl ELSE @,
            !.temp = IF p.hint # h.hintKey THEN {p.hint} ELSE {},
            !.hintNew = IF p.hint # h.hintKey THEN p.hint ELSE @]

(* m_bNeedRestart after updateParameters. *)
NeedsRestart(h, p) ==
  \/ p.zsl # h.zslKey
  \/ p.hint # h.hintKey /\ p.hint # h.hint

commitParamChanges(h) ==
  [h EXCEPT !.hintKey = IF h.temp = {} THEN @ ELSE CHOOSE v \in h.temp : TRUE,
            !.temp = {}, !.hint = h.hintNew, !.zsl = h.zslNew]

commitParameterChanges(h) == Request("commit", h, commitParamChanges(h))

(* updateRecordingHintValue starts a batch of its own and commits it. *)
updateRecordingHintValue(h, v) ==
  commitParameterChanges([h EXCEPT !.temp = {}, !.hintNew = v])

(* Restart the preview with the recording hint v, as a recording or a picture *)
(* needs it; the muxer does it for two cameras.                               *)
withHint(h, v, capturing, Restart(_, _)) ==
  IF h.hint = v THEN Done(h)
  ELSE IF Dual THEN Done([h EXCEPT !.restart = TRUE])
  ELSE Then(Ignoring(updateRecordingHintValue(stopPreview(h), v)),
            LAMBDA g : Restart(g, capturing))

(* A preview that does not start stays prepared. *)
preStartRecording(h, capturing) ==
  withHint(h, TRUE, capturing,
           LAMBDA g, c : Then(preparePreview(g, c), startPreview))

preTakePicture(h, capturing) == withHint(h, FALSE, capturing, restartPreview)

(* linkStream of the low power mode is left to the daemon. *)
startRecording(h) == startChannel(h, "VIDEO")

stopRecording(h) ==
  {[h |-> stopChannels(h, {"VIDEO"}), ok |-> h.ch["VIDEO"] # "none"]}

release(h) == delChannels(h, Channels)
=============================================================================
