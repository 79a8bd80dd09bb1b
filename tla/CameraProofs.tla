---------------------------- MODULE CameraProofs ----------------------------
(***************************************************************************)
(* Proofs about the state machine of the camera HAL, for any               *)
(* configurations, threads and faults of the daemon: its types, that no    *)
(* preview frame message is lost, and that a recording has its video       *)
(* stream.                                                                 *)
(*                                                                         *)
(* First what every method of CameraHWI preserves, whatever the daemon     *)
(* refuses: the shape of the HAL's data, the PREVIEW_FRAME message, and,   *)
(* for the methods a recording may call, its video channel.                *)
(*                                                                         *)
(* Every step of the state machine leaves a state and the HAL's data       *)
(* (Leave).  Handled says what is needed of the two; each handler is shown *)
(* to be such a step, and one lemma takes it to the next invariant.        *)
(***************************************************************************)
EXTENDS CameraSM, WellFoundedInduction, TLAPS

Outcomes == [h : HW, ok : BOOLEAN]

(* What is true of the outcome r of a method that never touches messages.  *)
Sound(h, r) == r \in Outcomes /\ r.h.msg = h.msg

ChannelStates == {"none", "added", "started"}

-----------------------------------------------------------------------------
(* Channels. *)

(* An assignment to the channels.                                          *)
LEMMA SetChannels ==
  ASSUME NEW h \in HW, NEW m \in [Channels -> ChannelStates]
  PROVE  /\ [h EXCEPT !.ch = m] \in HW
         /\ [h EXCEPT !.ch = m].msg = h.msg
         /\ [h EXCEPT !.ch = m].ch = m
BY DEF HW, ChannelStates

(* An assignment to one channel.                                           *)
LEMMA SetChannel ==
  ASSUME NEW h \in HW, NEW c \in Channels, NEW s \in ChannelStates
  PROVE  /\ [h EXCEPT !.ch[c] = s] \in HW
         /\ [h EXCEPT !.ch[c] = s].msg = h.msg
         /\ [h EXCEPT !.ch[c] = s].ch = [h.ch EXCEPT ![c] = s]
BY DEF HW, ChannelStates

(* Deleting channels.                                                      *)
LEMMA DelChannels ==
  ASSUME NEW h \in HW, NEW C
  PROVE  /\ delChannels(h, C) \in HW
         /\ delChannels(h, C).msg = h.msg
         /\ \A c \in Channels : delChannels(h, C).ch[c] = IF c \in C THEN "none" ELSE h.ch[c]
<1> DEFINE m == [c \in Channels |-> IF c \in C THEN "none" ELSE h.ch[c]]
<1>1. m \in [Channels -> ChannelStates]
  BY DEF HW, ChannelStates
<1> HIDE DEF m
<1>2. delChannels(h, C) = [h EXCEPT !.ch = m]
  BY DEF m, delChannels
<1>3. \A c \in Channels : m[c] = IF c \in C THEN "none" ELSE h.ch[c]
  BY DEF m
<1> QED
  BY <1>1, <1>2, <1>3, SetChannels

(* Stopping channels.                                                      *)
LEMMA StopChannels ==
  ASSUME NEW h \in HW, NEW C
  PROVE  /\ stopChannels(h, C) \in HW
         /\ stopChannels(h, C).msg = h.msg
         /\ \A c \in Channels :
              stopChannels(h, C).ch[c] = IF c \in C /\ h.ch[c] = "started" THEN "added" ELSE h.ch[c]
<1> DEFINE m == [c \in Channels |-> IF c \in C /\ h.ch[c] = "started" THEN "added" ELSE h.ch[c]]
<1>1. m \in [Channels -> ChannelStates]
  BY DEF HW, ChannelStates
<1> HIDE DEF m
<1>2. stopChannels(h, C) = [h EXCEPT !.ch = m]
  BY DEF m, stopChannels
<1>3. \A c \in Channels : m[c] = IF c \in C /\ h.ch[c] = "started" THEN "added" ELSE h.ch[c]
  BY DEF m
<1> QED
  BY <1>1, <1>2, <1>3, SetChannels

(* Done, Refused and Request have the outcomes they are given.             *)
LEMMA DoneOutcome ==
  ASSUME NEW h \in HW, NEW r \in Done(h)
  PROVE  Sound(h, r) /\ r.h = h /\ r.ok
<1>1. r = [h |-> h, ok |-> TRUE]
  BY DEF Done
<1> QED
  BY <1>1 DEF Sound, Outcomes

(* A refusal leaves the HAL as it is.                                      *)
LEMMA RefusedOutcome ==
  ASSUME NEW h \in HW, NEW r \in Refused(h)
  PROVE  Sound(h, r) /\ r.h = h /\ ~r.ok
<1>1. r = [h |-> h, ok |-> FALSE]
  BY DEF Refused
<1> QED
  BY <1>1 DEF Sound, Outcomes

(* A request of the daemon succeeds or changes nothing.                    *)
LEMMA RequestOutcome ==
  ASSUME NEW h \in HW, NEW g \in HW, NEW f, NEW r \in Request(f, h, g)
  PROVE  /\ r \in Outcomes
         /\ \/ r.h = g /\ r.ok
            \/ r.h = h /\ ~r.ok
<1>1. r \in Done(g) \/ r \in Refused(h)
  BY DEF Request
<1> QED
  BY <1>1, DoneOutcome, RefusedOutcome DEF Sound

(* Sound outcomes follow one another.                                      *)
LEMMA Chain ==
  ASSUME NEW h, NEW q, NEW r, Sound(h, q), Sound(q.h, r)
  PROVE  Sound(h, r)
BY DEF Sound

(* The data of a sound outcome.                                            *)
LEMMA SoundData ==
  ASSUME NEW h, NEW q, Sound(h, q)
  PROVE  q.h \in HW /\ q.h.msg = h.msg /\ q.ok \in BOOLEAN
BY DEF Sound, Outcomes

(* What a failure is followed by keeps an outcome sound.                   *)
LEMMA Undone ==
  ASSUME NEW h, NEW q, Sound(h, q), NEW g \in HW, g.msg = q.h.msg,
         NEW r, r = IF q.ok THEN q ELSE [q EXCEPT !.h = g]
  PROVE  Sound(h, r)
BY DEF Sound, Outcomes

(* The outcome counts, the return value does not.                          *)
LEMMA Ignored ==
  ASSUME NEW h, NEW q, Sound(h, q), NEW r, r = [q EXCEPT !.ok = TRUE]
  PROVE  Sound(h, r) /\ r.h = q.h
BY DEF Sound, Outcomes

(* Adding a channel.                                                       *)
LEMMA AddChannel ==
  ASSUME NEW h \in HW, NEW c \in Channels, NEW r \in addChannel(h, c)
  PROVE  /\ Sound(h, r)
         /\ \A k \in Channels \ {c} : r.h.ch[k] = h.ch[k]
         /\ r.h.ch[c] = IF r.ok THEN "added" ELSE "none"
<1> DEFINE g == delChannels(h, {c})
           k == [g EXCEPT !.ch[c] = "added"]
<1>1. /\ g \in HW
      /\ g.msg = h.msg
      /\ \A d \in Channels : g.ch[d] = IF d \in {c} THEN "none" ELSE h.ch[d]
  BY DelChannels
<1> HIDE DEF g
<1>2. /\ k \in HW
      /\ k.msg = g.msg
      /\ k.ch = [g.ch EXCEPT ![c] = "added"]
  BY <1>1, SetChannel DEF ChannelStates
<1>3. g.ch \in [Channels -> ChannelStates]
  BY <1>1 DEF HW, ChannelStates
<1>4. r \in Request("add", g, k)
  BY DEF addChannel, g
<1> HIDE DEF k
<1>5. /\ r \in Outcomes
      /\ \/ r.h = k /\ r.ok
         \/ r.h = g /\ ~r.ok
  BY <1>1, <1>2, <1>4, RequestOutcome
<1> QED
  BY <1>1, <1>2, <1>3, <1>5 DEF Sound, Outcomes

(* Starting a channel.                                                     *)
LEMMA StartChannel ==
  ASSUME NEW h \in HW, NEW c \in Channels, NEW r \in startChannel(h, c)
  PROVE  /\ Sound(h, r)
         /\ \A k \in Channels \ {c} : r.h.ch[k] = h.ch[k]
         /\ r.h.ch[c] = IF r.ok THEN "started" ELSE h.ch[c]
         /\ r.ok => h.ch[c] # "none"
<1> DEFINE g == [h EXCEPT !.ch[c] = "started"]
<1>1. /\ g \in HW
      /\ g.msg = h.msg
      /\ g.ch = [h.ch EXCEPT ![c] = "started"]
  BY SetChannel DEF ChannelStates
<1> HIDE DEF g
<1>2. h.ch \in [Channels -> ChannelStates]
  BY DEF HW, ChannelStates
<1>3. IF h.ch[c] = "none" THEN r \in Refused(h) ELSE r \in Request("start", h, g)
  BY DEF startChannel, g
<1>4. /\ r \in Outcomes
      /\ \/ r.h = g /\ r.ok /\ h.ch[c] # "none"
         \/ r.h = h /\ ~r.ok
  <2>1. CASE h.ch[c] = "none"
    BY <1>3, <2>1, RefusedOutcome DEF Sound
  <2>2. CASE h.ch[c] # "none"
    BY <1>1, <1>3, <2>2, RequestOutcome
  <2> QED
    BY <2>1, <2>2
<1> QED
  BY <1>1, <1>2, <1>4 DEF Sound, Outcomes

(* startPreview: the channel of the mode and the one of callbacks.         *)
LEMMA StartPreview ==
  ASSUME NEW h \in HW, NEW r \in startPreview(h)
  PROVE  /\ Sound(h, r)
         /\ r.h.ch["VIDEO"] = h.ch["VIDEO"]
<1> DEFINE main == IF ZslPreview(h) THEN "ZSL" ELSE "PREVIEW"
           callback(g) ==
             IF g.msg /\ g.ch["CALLBACK"] # "none"
             THEN OnError(startChannel(g, "CALLBACK"),
                          LAMBDA k : stopChannels(k, {"ZSL", "PREVIEW"}))
             ELSE Done(g)
<1>1. PICK q \in startChannel(h, main) : r \in (IF q.ok THEN callback(q.h) ELSE {q})
  BY DEF startPreview, Then
<1>2. main \in Channels \ {"VIDEO"} /\ {"CALLBACK", "VIDEO"} \subseteq Channels
  BY DEF Channels
<1> HIDE DEF main
<1>3. Sound(h, q) /\ q.h.ch["VIDEO"] = h.ch["VIDEO"]
  BY <1>1, <1>2, StartChannel
<1>4. q.h \in HW
  BY <1>3 DEF Sound, Outcomes
<1>5. CASE ~q.ok
  BY <1>1, <1>3, <1>5
<1>6. CASE q.ok /\ r \in Done(q.h)
  BY <1>3, <1>4, <1>6, DoneOutcome DEF Sound
<1>7. CASE q.ok /\ r \notin Done(q.h)
  <2>1. PICK c \in startChannel(q.h, "CALLBACK") :
          r = IF c.ok THEN c ELSE [c EXCEPT !.h = stopChannels(c.h, {"ZSL", "PREVIEW"})]
    BY <1>1, <1>7 DEF OnError
  <2>2. Sound(q.h, c) /\ c.h.ch["VIDEO"] = q.h.ch["VIDEO"]
    BY <1>2, <1>4, <2>1, StartChannel
  <2>3. c.h \in HW /\ c \in Outcomes
    BY <2>2 DEF Sound, Outcomes
  <2>4. /\ stopChannels(c.h, {"ZSL", "PREVIEW"}) \in HW
        /\ stopChannels(c.h, {"ZSL", "PREVIEW"}).msg = c.h.msg
        /\ stopChannels(c.h, {"ZSL", "PREVIEW"}).ch["VIDEO"] = c.h.ch["VIDEO"]
    BY <1>2, <2>3, StopChannels
  <2>5. CASE c.ok
    BY <1>3, <2>1, <2>2, <2>5 DEF Sound
  <2>6. CASE ~c.ok
    BY <1>3, <2>1, <2>2, <2>3, <2>4, <2>6 DEF Sound, Outcomes
  <2> QED
    BY <2>5, <2>6
<1> QED
  BY <1>5, <1>6, <1>7

(* Unpreparing the preview deletes its channels and the video's.           *)
LEMMA UnpreparePreview ==
  ASSUME NEW h \in HW
  PROVE  /\ unpreparePreview(h) \in HW
         /\ unpreparePreview(h).msg = h.msg
         /\ stopPreview(h) \in HW
         /\ stopPreview(h).msg = h.msg
<1>1. /\ stopChannels(h, {"CALLBACK", "ZSL", "PREVIEW"}) \in HW
      /\ stopChannels(h, {"CALLBACK", "ZSL", "PREVIEW"}).msg = h.msg
  BY StopChannels
<1> QED
  BY <1>1, DelChannels DEF unpreparePreview, stopPreview

-----------------------------------------------------------------------------
(* Messages. *)

(* Enabling the message enables it, whatever the callback channel does.    *)
LEMMA EnableMsgType ==
  ASSUME NEW h \in HW, NEW r \in enableMsgType(h)
  PROVE  /\ r \in Outcomes /\ r.h.msg
         /\ r.h.ch["VIDEO"] = h.ch["VIDEO"]
<1>1. PICK q \in (IF UBWC /\ ~h.msg /\ h.ch["CALLBACK"] # "none"
                  THEN startChannel(h, "CALLBACK") ELSE Done(h)) :
        r = [q EXCEPT !.h.msg = TRUE]
  BY DEF enableMsgType
<1>2. {"CALLBACK", "VIDEO"} \subseteq Channels
  BY DEF Channels
<1>3. q \in startChannel(h, "CALLBACK") \/ q \in Done(h)
  OBVIOUS
<1>4. Sound(h, q) /\ q.h.ch["VIDEO"] = h.ch["VIDEO"]
  BY <1>2, <1>3, StartChannel, DoneOutcome DEF Sound
<1> QED
  BY <1>1, <1>4 DEF Sound, Outcomes, HW

(* Disabling it touches no channel but that of callbacks.                  *)
LEMMA DisableMsgType ==
  ASSUME NEW h \in HW
  PROVE  /\ disableMsgType(h) \in HW
         /\ disableMsgType(h).ch["VIDEO"] = h.ch["VIDEO"]
<1> DEFINE g == IF UBWC /\ h.msg THEN stopChannels(h, {"CALLBACK"}) ELSE h
<1>1. g \in HW /\ g.ch["VIDEO"] = h.ch["VIDEO"]
  BY StopChannels DEF Channels
<1>2. disableMsgType(h) = [g EXCEPT !.msg = FALSE]
  BY DEF disableMsgType
<1> HIDE DEF g
<1> QED
  BY <1>1, <1>2 DEF HW

-----------------------------------------------------------------------------
(* Pictures. *)

(* An assignment to the jpeg and capture flags touches nothing else.       *)
LEMMA SetPicture ==
  ASSUME NEW h \in HW, NEW j \in {"none", "busy", "reprocessed"}, NEW b \in BOOLEAN
  PROVE  /\ [h EXCEPT !.jpeg = j] \in HW
         /\ [h EXCEPT !.jpeg = j].msg = h.msg
         /\ [h EXCEPT !.jpeg = j].ch = h.ch
         /\ [h EXCEPT !.jpeg = j, !.ready = b] \in HW
         /\ [h EXCEPT !.jpeg = j, !.ready = b].msg = h.msg
         /\ [h EXCEPT !.live = "none", !.jpeg = j] \in HW
         /\ [h EXCEPT !.live = "none", !.jpeg = j].msg = h.msg
         /\ [h EXCEPT !.live = "none", !.jpeg = j].ch = h.ch
         /\ [h EXCEPT !.prep = b] \in HW
         /\ [h EXCEPT !.prep = b].msg = h.msg
BY DEF HW

(* The channel of a picture is not the one of a recording.                 *)
LEMMA PictureChannel ==
  ASSUME cfg \in DOMAIN Config
  PROVE  PicCh \in {"CAPTURE", "RAW"} /\ PicCh \in Channels \ {"VIDEO"}
BY HWIAssumption DEF HWIAssumption, PicCh, Channels

(* Cancelling a picture leaves messages and recordings alone.              *)
LEMMA CancelPicture ==
  ASSUME NEW h \in HW, cfg \in DOMAIN Config
  PROVE  /\ cancelPicture(h) \in HW
         /\ cancelPicture(h).msg = h.msg
         /\ cancelPicture(h).ch["VIDEO"] = h.ch["VIDEO"]
<1> DEFINE g == [h EXCEPT !.jpeg = "none"]
<1>1. g \in HW /\ g.msg = h.msg /\ g.ch = h.ch
  BY SetPicture
<1> HIDE DEF g
<1>2. cancelPicture(h) = IF h.zsl THEN g ELSE delChannels(g, {PicCh})
  BY DEF cancelPicture, g
<1>3. "VIDEO" \in Channels /\ "VIDEO" \notin {PicCh}
  BY PictureChannel DEF Channels
<1>4. /\ delChannels(g, {PicCh}) \in HW
      /\ delChannels(g, {PicCh}).msg = g.msg
      /\ delChannels(g, {PicCh}).ch["VIDEO"] = g.ch["VIDEO"]
  BY <1>1, <1>3, DelChannels
<1> QED
  BY <1>1, <1>2, <1>4

(* Cancelling a live snapshot stops its channel only.                      *)
LEMMA CancelLiveSnapshot ==
  ASSUME NEW h \in HW, NEW r \in cancelLiveSnapshot(h)
  PROVE  Sound(h, r) /\ r.h.ch["VIDEO"] = h.ch["VIDEO"]
<1> DEFINE g == [h EXCEPT !.live = "none", !.jpeg = "none"]
<1>1. g \in HW /\ g.msg = h.msg /\ g.ch = h.ch
  BY SetPicture
<1>2. r = [h |-> stopChannels(g, {"SNAPSHOT"}), ok |-> h.ch["SNAPSHOT"] # "none"]
  BY DEF cancelLiveSnapshot
<1> HIDE DEF g
<1>3. /\ stopChannels(g, {"SNAPSHOT"}) \in HW
      /\ stopChannels(g, {"SNAPSHOT"}).msg = g.msg
      /\ stopChannels(g, {"SNAPSHOT"}).ch["VIDEO"] = g.ch["VIDEO"]
  BY <1>1, StopChannels DEF Channels
<1> QED
  BY <1>1, <1>2, <1>3 DEF Sound, Outcomes

(* The end of a longshot.                                                  *)
LEMMA LongshotOff ==
  ASSUME NEW h \in HW, NEW capturing, cfg \in DOMAIN Config
  PROVE  /\ longshotOff(h, capturing) \in HW
         /\ longshotOff(h, capturing).msg = h.msg
         /\ longshotOff(h, capturing).ch["VIDEO"] = h.ch["VIDEO"]
<1> DEFINE g == IF h.longshot /\ capturing
                THEN [cancelPicture(h) EXCEPT !.post = TRUE] ELSE h
<1>1. /\ [cancelPicture(h) EXCEPT !.post = TRUE] \in HW
      /\ [cancelPicture(h) EXCEPT !.post = TRUE].msg = h.msg
      /\ [cancelPicture(h) EXCEPT !.post = TRUE].ch["VIDEO"] = h.ch["VIDEO"]
  <2>1. PICK k \in HW : /\ k = cancelPicture(h) /\ k.msg = h.msg
                        /\ k.ch["VIDEO"] = h.ch["VIDEO"]
    BY CancelPicture
  <2>2. /\ [k EXCEPT !.post = TRUE] \in HW
        /\ [k EXCEPT !.post = TRUE].msg = k.msg
        /\ [k EXCEPT !.post = TRUE].ch = k.ch
    BY DEF HW
  <2> QED
    BY <2>1, <2>2
<1>2. g \in HW /\ g.msg = h.msg /\ g.ch["VIDEO"] = h.ch["VIDEO"]
  BY <1>1
<1>3. longshotOff(h, capturing) = [g EXCEPT !.prepRun = FALSE, !.longshot = FALSE]
  BY DEF longshotOff
<1> HIDE DEF g
<1>4. /\ [g EXCEPT !.prepRun = FALSE, !.longshot = FALSE] \in HW
      /\ [g EXCEPT !.prepRun = FALSE, !.longshot = FALSE].msg = g.msg
      /\ [g EXCEPT !.prepRun = FALSE, !.longshot = FALSE].ch = g.ch
  BY <1>2 DEF HW
<1> QED
  BY <1>2, <1>3, <1>4

(* The start of a longshot, which may be refused.                          *)
LEMMA LongshotOn ==
  ASSUME NEW h \in HW, NEW capturing, NEW running \in BOOLEAN,
         NEW r \in longshotOn(h, capturing, running)
  PROVE  /\ r.h \in HW /\ r.h.msg = h.msg /\ r.h.ch = h.ch
         /\ r.ok \in BOOLEAN /\ r.restart \in BOOLEAN
<1>1. /\ [h EXCEPT !.longshot = TRUE, !.prepRun = FALSE] \in HW
      /\ [h EXCEPT !.longshot = TRUE, !.prepRun = FALSE].msg = h.msg
      /\ [h EXCEPT !.longshot = TRUE, !.prepRun = FALSE].ch = h.ch
  BY DEF HW
<1>2. h.zsl \in BOOLEAN
  BY DEF HW
<1>3. CASE capturing
  <2>1. r = [h |-> h, ok |-> FALSE, restart |-> FALSE]
    BY <1>3 DEF longshotOn
  <2> QED
    BY <2>1
<1>4. CASE ~capturing
  <2>1. PICK b \in {FALSE} \cup {h.zsl /\ running /\ h.ch["ZSL"] # "none"} :
          r = [h |-> [h EXCEPT !.longshot = TRUE, !.prepRun = FALSE], ok |-> TRUE, restart |-> b]
    BY <1>4 DEF longshotOn
  <2>2. b \in BOOLEAN
    BY <1>2
  <2> QED
    BY <1>1, <2>1, <2>2
<1> QED
  BY <1>3, <1>4

(* One more frame of a longshot.                                           *)
LEMMA LongShot ==
  ASSUME NEW h \in HW, NEW r \in longShot(h)
  PROVE  Sound(h, r)
<1> DEFINE g == [h EXCEPT !.jpeg = "busy"]
<1>1. g \in HW /\ g.msg = h.msg
  BY SetPicture
<1>2. r \in Refused(h) \/ r \in Request("picture", h, g)
  BY DEF longShot
<1> HIDE DEF g
<1>3. CASE r \in Refused(h)
  BY <1>3, RefusedOutcome
<1>4. CASE r \in Request("picture", h, g)
  BY <1>1, <1>4, RequestOutcome DEF Sound
<1> QED
  BY <1>2, <1>3, <1>4

(* A picture of the ZSL stream.                                            *)
LEMMA TakeZslPicture ==
  ASSUME NEW h \in HW, NEW r \in takeZslPicture(h)
  PROVE  Sound(h, r)
<1> DEFINE g == [h EXCEPT !.jpeg = "busy", !.ready = h.retro]
<1>1. h.retro \in BOOLEAN
  BY DEF HW
<1>2. g \in HW /\ g.msg = h.msg
  BY <1>1, SetPicture
<1>3. r \in Refused(h) \/ r \in Request("picture", h, g)
  BY DEF takeZslPicture
<1> HIDE DEF g
<1>4. CASE r \in Refused(h)
  BY <1>4, RefusedOutcome
<1>5. CASE r \in Request("picture", h, g)
  BY <1>2, <1>5, RequestOutcome DEF Sound
<1> QED
  BY <1>3, <1>4, <1>5

(* A normal picture: its channel is added and started, or deleted again.   *)
LEMMA TakeNormalPicture ==
  ASSUME NEW h \in HW, NEW r \in takeNormalPicture(h), cfg \in DOMAIN Config
  PROVE  Sound(h, r)
<1> DEFINE p        == delChannels(h, {"PREVIEW"})
           declared == Request("configure", p, p)
           added    == Then(declared, LAMBDA g : addChannel(g, PicCh))
           begun    == Then(added, LAMBDA g : startChannel(g, PicCh))
           started  == OnError(begun, LAMBDA g : delChannels(g, {PicCh}))
           advanced == Then(started,
                            LAMBDA g : Request("advanced", g, [g EXCEPT !.jpeg = "busy"]))
<1>1. PICK q \in advanced :
        r \in (IF q.ok
               THEN IF q.h.longshot /\ PicCh = "CAPTURE"
                    THEN OnError(longShot(q.h), LAMBDA k : delChannels(k, {PicCh}))
                    ELSE Done(q.h)
               ELSE {q})
  BY DEF takeNormalPicture, Then
<1>2. p \in HW /\ p.msg = h.msg
  BY DelChannels
<1> HIDE DEF p
<1>3. \A d \in declared : Sound(h, d)
  <2> SUFFICES ASSUME NEW d \in declared PROVE Sound(h, d)
    OBVIOUS
  <2> QED
    BY <1>2, RequestOutcome DEF Sound
<1> HIDE DEF declared
<1>4. \A d \in added : Sound(h, d)
  <2> SUFFICES ASSUME NEW d \in added PROVE Sound(h, d)
    OBVIOUS
  <2>1. PICK e \in declared : d \in (IF e.ok THEN addChannel(e.h, PicCh) ELSE {e})
    BY DEF Then
  <2>2. Sound(h, e) /\ e.h \in HW
    BY <1>3, SoundData
  <2>3. CASE e.ok
    <3>1. d \in addChannel(e.h, PicCh)
      BY <2>1, <2>3
    <3>2. Sound(e.h, d)
      BY <2>2, <3>1, AddChannel, PictureChannel
    <3> QED
      BY <2>2, <3>2, Chain
  <2> QED
    BY <2>1, <2>2, <2>3
<1> HIDE DEF added
<1>5. \A d \in begun : Sound(h, d)
  <2> SUFFICES ASSUME NEW d \in begun PROVE Sound(h, d)
    OBVIOUS
  <2>1. PICK e \in added : d \in (IF e.ok THEN startChannel(e.h, PicCh) ELSE {e})
    BY DEF Then
  <2>2. Sound(h, e) /\ e.h \in HW
    BY <1>4, SoundData
  <2>3. CASE e.ok
    <3>1. d \in startChannel(e.h, PicCh)
      BY <2>1, <2>3
    <3>2. Sound(e.h, d)
      BY <2>2, <3>1, StartChannel, PictureChannel
    <3> QED
      BY <2>2, <3>2, Chain
  <2> QED
    BY <2>1, <2>2, <2>3
<1> HIDE DEF begun
<1>6. \A d \in started : Sound(h, d)
  <2> SUFFICES ASSUME NEW d \in started PROVE Sound(h, d)
    OBVIOUS
  <2>1. PICK e \in begun : d = IF e.ok THEN e ELSE [e EXCEPT !.h = delChannels(e.h, {PicCh})]
    BY DEF OnError
  <2>2. Sound(h, e) /\ e.h \in HW
    BY <1>5, SoundData
  <2> QED
    BY <2>1, <2>2, DelChannels, Undone
<1> HIDE DEF started
<1>7. Sound(h, q)
  <2>1. PICK e \in started :
          q \in (IF e.ok THEN Request("advanced", e.h, [e.h EXCEPT !.jpeg = "busy"]) ELSE {e})
    BY DEF Then
  <2>2. Sound(h, e) /\ e.h \in HW
    BY <1>6, SoundData
  <2>3. CASE e.ok
    <3> DEFINE g == [e.h EXCEPT !.jpeg = "busy"]
    <3>1. g \in HW /\ g.msg = e.h.msg
      BY <2>2, SetPicture
    <3>2. q \in Request("advanced", e.h, g)
      BY <2>1, <2>3
    <3> HIDE DEF g
    <3>3. Sound(e.h, q)
      BY <2>2, <3>1, <3>2, RequestOutcome DEF Sound
    <3> QED
      BY <2>2, <3>3, Chain
  <2> QED
    BY <2>1, <2>2, <2>3
<1>8. q.h \in HW
  BY <1>7, SoundData
<1>9. CASE ~q.ok
  BY <1>1, <1>7, <1>9
<1>10. CASE q.ok /\ r \in Done(q.h)
  BY <1>7, <1>8, <1>10, DoneOutcome, Chain
<1>11. CASE q.ok /\ r \notin Done(q.h)
  <2>1. PICK e \in longShot(q.h) :
          r = IF e.ok THEN e ELSE [e EXCEPT !.h = delChannels(e.h, {PicCh})]
    BY <1>1, <1>11 DEF OnError
  <2>2. Sound(q.h, e) /\ e.h \in HW
    BY <1>8, LongShot, SoundData
  <2>3. Sound(q.h, r)
    BY <2>1, <2>2, DelChannels, Undone
  <2> QED
    BY <1>7, <2>3, Chain
<1> QED
  BY <1>9, <1>10, <1>11

(* Either kind of picture.                                                 *)
LEMMA TakePicture ==
  ASSUME NEW h \in HW, NEW r \in takePicture(h), cfg \in DOMAIN Config
  PROVE  Sound(h, r)
BY TakeZslPicture, TakeNormalPicture DEF takePicture

(* The capture channel is stopped.                                         *)
LEMMA StopCaptureChannel ==
  ASSUME NEW h \in HW, NEW r \in stopCaptureChannel(h)
  PROVE  Sound(h, r)
<1>1. CASE r \in Done(h)
  BY <1>1, DoneOutcome
<1>2. CASE r \notin Done(h)
  <2>1. r = [h |-> stopChannels(h, {"CAPTURE"}), ok |-> h.ch["CAPTURE"] # "none"]
    BY <1>2 DEF stopCaptureChannel
  <2> QED
    BY <2>1, StopChannels DEF Sound, Outcomes
<1> QED
  BY <1>1, <1>2

(* The live snapshot thread is started.                                    *)
LEMMA TakeLiveSnapshot ==
  ASSUME NEW h \in HW, NEW r \in takeLiveSnapshot(h)
  PROVE  Sound(h, r) /\ r.h.ch = h.ch
<1> DEFINE g == [h EXCEPT !.live = "running"]
<1>1. g \in HW /\ g.msg = h.msg /\ g.ch = h.ch
  BY DEF HW
<1>2. r \in Done(g)
  BY DEF takeLiveSnapshot
<1> HIDE DEF g
<1> QED
  BY <1>1, <1>2, DoneOutcome DEF Sound

(* The live snapshot thread ends: it starts no channel but the snapshot's. *)
LEMMA LiveSnapshotEnds ==
  ASSUME NEW h \in HW, NEW e \in liveSnapshotEnds(h)
  PROVE  /\ e.h \in HW /\ e.h.msg = h.msg
         /\ e.h.ch["VIDEO"] = h.ch["VIDEO"]
<1> DEFINE g  == [h EXCEPT !.live = "ended"]
           on == IF LowPower THEN g ELSE [g EXCEPT !.ch["SNAPSHOT"] = "started"]
<1>1. e.h = g \/ e.h = [on EXCEPT !.jpeg = "busy"]
  BY DEF liveSnapshotEnds
<1>2. g \in HW /\ g.msg = h.msg /\ g.ch = h.ch
  BY DEF HW
<1>3. "SNAPSHOT" \in Channels /\ "VIDEO" \in Channels /\ "started" \in ChannelStates
  BY DEF Channels, ChannelStates
<1> HIDE DEF g
<1>4. g.ch \in [Channels -> ChannelStates]
  BY <1>2 DEF HW, ChannelStates
<1>5. on \in HW /\ on.msg = h.msg /\ on.ch["VIDEO"] = h.ch["VIDEO"]
  BY <1>2, <1>3, <1>4, SetChannel
<1> HIDE DEF on
<1>6. /\ [on EXCEPT !.jpeg = "busy"] \in HW
      /\ [on EXCEPT !.jpeg = "busy"].msg = on.msg
      /\ [on EXCEPT !.jpeg = "busy"].ch = on.ch
  BY <1>5, SetPicture
<1> QED
  BY <1>1, <1>2, <1>5, <1>6

(* The hardware is prepared for a snapshot.                                *)
LEMMA PrepareHardware ==
  ASSUME NEW h \in HW, NEW r \in prepareHardwareForSnapshot(h)
  PROVE  Sound(h, r)
<1> DEFINE g == [h EXCEPT !.prep = TRUE]
<1>1. g \in HW /\ g.msg = h.msg
  BY SetPicture
<1>2. r \in Request("prepare", h, g)
  BY DEF prepareHardwareForSnapshot
<1> HIDE DEF g
<1> QED
  BY <1>1, <1>2, RequestOutcome DEF Sound

-----------------------------------------------------------------------------
(* Preparing a preview adds the channels of its mode. *)

(* The channels of a ZSL preview.                                          *)
LEMMA PrepareZsl ==
  ASSUME NEW h \in HW, NEW r \in prepareZsl(h)
  PROVE  Sound(h, r)
<1>1. PICK q \in addChannel(h, "ZSL") :
        r \in (IF q.ok
               THEN IF UBWC THEN OnError(addChannel(q.h, "CALLBACK"),
                                         LAMBDA k : delChannels(k, {"ZSL"}))
                    ELSE Done(q.h)
               ELSE {q})
  BY DEF prepareZsl, Then
<1>2. {"ZSL", "CALLBACK"} \subseteq Channels
  BY DEF Channels
<1>3. Sound(h, q) /\ q.h \in HW
  BY <1>2, AddChannel, SoundData
<1>4. CASE ~q.ok
  BY <1>1, <1>3, <1>4
<1>5. CASE q.ok /\ r \in Done(q.h)
  BY <1>3, <1>5, DoneOutcome, Chain
<1>6. CASE q.ok /\ r \notin Done(q.h)
  <2>1. PICK e \in addChannel(q.h, "CALLBACK") :
          r = IF e.ok THEN e ELSE [e EXCEPT !.h = delChannels(e.h, {"ZSL"})]
    BY <1>1, <1>6 DEF OnError
  <2>2. Sound(q.h, e) /\ e.h \in HW
    BY <1>2, <1>3, AddChannel, SoundData
  <2>3. Sound(q.h, r)
    BY <2>1, <2>2, DelChannels, Undone
  <2> QED
    BY <1>3, <2>3, Chain
<1> QED
  BY <1>4, <1>5, <1>6

(* The channels of a camcorder.                                            *)
LEMMA PrepareCamcorder ==
  ASSUME NEW h \in HW, NEW r \in prepareCamcorder(h)
  PROVE  Sound(h, r)
<1> DEFINE snapshot == IF LowPower THEN Done(h) ELSE addChannel(h, "SNAPSHOT")
           video(g) == OnError(addChannel(g, "VIDEO"),
                               LAMBDA k : delChannels(k, {"SNAPSHOT"}))
           preview(g) == OnError(addChannel(g, "PREVIEW"),
                                 LAMBDA k : delChannels(k, {"SNAPSHOT", "VIDEO"}))
           both == Then(snapshot, video)
<1>1. {"SNAPSHOT", "VIDEO", "PREVIEW"} \subseteq Channels
  BY DEF Channels
<1>2. \A d \in snapshot : Sound(h, d)
  <2> SUFFICES ASSUME NEW d \in snapshot PROVE Sound(h, d)
    OBVIOUS
  <2>1. d \in Done(h) \/ d \in addChannel(h, "SNAPSHOT")
    OBVIOUS
  <2>2. CASE d \in Done(h)
    BY <2>2, DoneOutcome
  <2>3. CASE d \in addChannel(h, "SNAPSHOT")
    BY <1>1, <2>3, AddChannel
  <2> QED
    BY <2>1, <2>2, <2>3
<1> HIDE DEF snapshot
<1>3. \A d \in both : Sound(h, d)
  <2> SUFFICES ASSUME NEW d \in both PROVE Sound(h, d)
    OBVIOUS
  <2>1. PICK e \in snapshot : d \in (IF e.ok THEN video(e.h) ELSE {e})
    BY DEF Then
  <2>2. Sound(h, e) /\ e.h \in HW
    BY <1>2, SoundData
  <2>3. CASE e.ok
    <3>1. PICK k \in addChannel(e.h, "VIDEO") :
            d = IF k.ok THEN k ELSE [k EXCEPT !.h = delChannels(k.h, {"SNAPSHOT"})]
      BY <2>1, <2>3 DEF OnError
    <3>2. Sound(e.h, k) /\ k.h \in HW
      BY <1>1, <2>2, AddChannel, SoundData
    <3>3. Sound(e.h, d)
      BY <3>1, <3>2, DelChannels, Undone
    <3> QED
      BY <2>2, <3>3, Chain
  <2> QED
    BY <2>1, <2>2, <2>3
<1>4. PICK q \in both : r \in (IF q.ok THEN preview(q.h) ELSE {q})
  BY DEF prepareCamcorder, Then, snapshot
<1> HIDE DEF both
<1>5. Sound(h, q) /\ q.h \in HW
  BY <1>3, SoundData
<1>6. CASE q.ok
  <2>1. PICK k \in addChannel(q.h, "PREVIEW") :
          r = IF k.ok THEN k ELSE [k EXCEPT !.h = delChannels(k.h, {"SNAPSHOT", "VIDEO"})]
    BY <1>4, <1>6 DEF OnError
  <2>2. Sound(q.h, k) /\ k.h \in HW
    BY <1>1, <1>5, AddChannel, SoundData
  <2>3. Sound(q.h, r)
    BY <2>1, <2>2, DelChannels, Undone
  <2> QED
    BY <1>5, <2>3, Chain
<1> QED
  BY <1>4, <1>5, <1>6

(* The channels of a camera without ZSL.                                   *)
LEMMA PrepareCamera ==
  ASSUME NEW h \in HW, NEW r \in prepareCamera(h)
  PROVE  Sound(h, r)
<1>1. {"PREVIEW", "CALLBACK"} \subseteq Channels
  BY DEF Channels
<1>2. CASE r \in addChannel(h, "PREVIEW")
  BY <1>1, <1>2, AddChannel
<1>3. CASE r \notin addChannel(h, "PREVIEW")
  <2> DEFINE first == Ignoring(addChannel(h, "PREVIEW"))
  <2>1. PICK q \in first :
          r \in (IF q.ok
                 THEN OnError(addChannel(q.h, "CALLBACK"),
                              LAMBDA k : delChannels(k, {"PREVIEW", "SNAPSHOT", "VIDEO"}))
                 ELSE {q})
    BY <1>3 DEF prepareCamera, Then
  <2>2. PICK p \in addChannel(h, "PREVIEW") : q = [p EXCEPT !.ok = TRUE]
    BY DEF Ignoring
  <2>3. Sound(h, q) /\ q.h \in HW
    BY <1>1, <2>2, AddChannel, Ignored, SoundData
  <2>4. CASE q.ok
    <3>1. PICK k \in addChannel(q.h, "CALLBACK") :
            r = IF k.ok THEN k
                ELSE [k EXCEPT !.h = delChannels(k.h, {"PREVIEW", "SNAPSHOT", "VIDEO"})]
      BY <2>1, <2>4 DEF OnError
    <3>2. Sound(q.h, k) /\ k.h \in HW
      BY <1>1, <2>3, AddChannel, SoundData
    <3>3. Sound(q.h, r)
      BY <3>1, <3>2, DelChannels, Undone
    <3> QED
      BY <2>3, <3>3, Chain
  <2> QED
    BY <2>1, <2>3, <2>4
<1> QED
  BY <1>2, <1>3

(* preparePreview, in any mode.                                            *)
LEMMA PreparePreview ==
  ASSUME NEW h \in HW, NEW capturing, NEW r \in preparePreview(h, capturing),
         cfg \in DOMAIN Config
  PROVE  Sound(h, r)
<1> DEFINE mode(g) == IF ZslPreview(g) THEN prepareZsl(g)
                      ELSE IF g.hint THEN prepareCamcorder(IF g.longshot
                                                           THEN longshotOff(g, capturing) ELSE g)
                      ELSE prepareCamera(g)
<1>1. PICK q \in Request("configure", h, h) : r \in (IF q.ok THEN mode(q.h) ELSE {q})
  BY DEF preparePreview, Then
<1>2. Sound(h, q) /\ q.h \in HW
  BY RequestOutcome, SoundData DEF Sound
<1>3. CASE q.ok
  <2> DEFINE g == IF q.h.longshot THEN longshotOff(q.h, capturing) ELSE q.h
  <2>1. g \in HW /\ g.msg = q.h.msg
    BY <1>2, LongshotOff
  <2>2. r \in prepareZsl(q.h) \/ r \in prepareCamcorder(g) \/ r \in prepareCamera(q.h)
    BY <1>1, <1>3
  <2> HIDE DEF g
  <2>3. Sound(q.h, r)
    BY <1>2, <2>1, <2>2, PrepareZsl, PrepareCamcorder, PrepareCamera DEF Sound
  <2> QED
    BY <1>2, <2>3, Chain
<1> QED
  BY <1>1, <1>2, <1>3

(* preparePreview and startPreview, one after the other.                   *)
LEMMA PrepareAndStart ==
  ASSUME NEW h \in HW, NEW capturing, cfg \in DOMAIN Config,
         NEW r \in Then(preparePreview(h, capturing), startPreview)
  PROVE  Sound(h, r)
<1>1. PICK q \in preparePreview(h, capturing) : r \in (IF q.ok THEN startPreview(q.h) ELSE {q})
  BY DEF Then
<1>2. Sound(h, q) /\ q.h \in HW
  BY PreparePreview, SoundData
<1>3. CASE q.ok
  BY <1>1, <1>2, <1>3, StartPreview, Chain
<1> QED
  BY <1>1, <1>2, <1>3

(* startPreview, undone when it fails.                                     *)
LEMMA StartOrUnprepare ==
  ASSUME NEW h \in HW, NEW r \in OnError(startPreview(h), unpreparePreview)
  PROVE  Sound(h, r)
<1>1. PICK q \in startPreview(h) : r = IF q.ok THEN q ELSE [q EXCEPT !.h = unpreparePreview(q.h)]
  BY DEF OnError
<1>2. Sound(h, q) /\ q.h \in HW
  BY StartPreview, SoundData
<1> QED
  BY <1>1, <1>2, UnpreparePreview, Undone

(* A restart of the preview.                                               *)
LEMMA RestartPreview ==
  ASSUME NEW h \in HW, NEW capturing, NEW r \in restartPreview(h, capturing),
         cfg \in DOMAIN Config
  PROVE  Sound(h, r)
<1>1. PICK q \in preparePreview(h, capturing) :
        r \in (IF q.ok THEN OnError(startPreview(q.h), unpreparePreview) ELSE {q})
  BY DEF restartPreview, Then
<1>2. Sound(h, q) /\ q.h \in HW
  BY PreparePreview, SoundData
<1>3. CASE q.ok
  BY <1>1, <1>2, <1>3, StartOrUnprepare, Chain
<1> QED
  BY <1>1, <1>2, <1>3

-----------------------------------------------------------------------------
(* Parameters. *)

(* Setting parameters touches no channel and no message.                   *)
LEMMA UpdateParameters ==
  ASSUME NEW h \in HW, NEW p \in Params
  PROVE  /\ updateParameters(h, p) \in HW
         /\ updateParameters(h, p).msg = h.msg
         /\ updateParameters(h, p).ch = h.ch
         /\ NeedsRestart(h, p) \in BOOLEAN
<1>1. PICK a \in BOOLEAN, b \in BOOLEAN : p = [zsl |-> a, hint |-> b]
  BY DEF Params
<1> DEFINE g1 == [h EXCEPT !.zslKey = a]
           g2 == IF a # h.zslKey THEN [g1 EXCEPT !.zslNew = a] ELSE g1
           g3 == IF b # h.hintKey THEN [g2 EXCEPT !.hintNew = b, !.temp = {b}]
                 ELSE [g2 EXCEPT !.temp = {}]
<1>2. g1 \in HW /\ g1.msg = h.msg /\ g1.ch = h.ch
  BY DEF HW
<1>3. g2 \in HW /\ g2.msg = h.msg /\ g2.ch = h.ch
  <2> HIDE DEF g1
  <2>1. [g1 EXCEPT !.zslNew = a] \in HW
    BY <1>2 DEF HW
  <2>2. [g1 EXCEPT !.zslNew = a].msg = g1.msg /\ [g1 EXCEPT !.zslNew = a].ch = g1.ch
    BY <1>2 DEF HW
  <2> QED
    BY <1>2, <2>1, <2>2
<1>4. g3 \in HW /\ g3.msg = h.msg /\ g3.ch = h.ch
  <2> HIDE DEF g2
  <2>1. CASE b # h.hintKey
    <3>1. [g2 EXCEPT !.hintNew = b, !.temp = {b}] \in HW
      BY <1>3 DEF HW
    <3>2. /\ [g2 EXCEPT !.hintNew = b, !.temp = {b}].msg = g2.msg
          /\ [g2 EXCEPT !.hintNew = b, !.temp = {b}].ch = g2.ch
      BY <1>3 DEF HW
    <3> QED
      BY <1>3, <2>1, <3>1, <3>2
  <2>2. CASE ~(b # h.hintKey)
    <3>1. [g2 EXCEPT !.temp = {}] \in HW
      BY <1>3 DEF HW
    <3>2. [g2 EXCEPT !.temp = {}].msg = g2.msg /\ [g2 EXCEPT !.temp = {}].ch = g2.ch
      BY <1>3 DEF HW
    <3> QED
      BY <1>3, <2>2, <3>1, <3>2
  <2> QED
    BY <2>1, <2>2
<1>5. updateParameters(h, p) = g3
  <2>1. CASE a # h.zslKey /\ b # h.hintKey
    BY <1>1, <2>1 DEF HW, updateParameters
  <2>2. CASE a # h.zslKey /\ ~(b # h.hintKey)
    BY <1>1, <2>2 DEF HW, updateParameters
  <2>3. CASE ~(a # h.zslKey) /\ b # h.hintKey
    BY <1>1, <2>3 DEF HW, updateParameters
  <2>4. CASE ~(a # h.zslKey) /\ ~(b # h.hintKey)
    BY <1>1, <2>4 DEF HW, updateParameters
  <2> QED
    BY <2>1, <2>2, <2>3, <2>4
<1>6. NeedsRestart(h, p) \in BOOLEAN
  BY DEF NeedsRestart
<1> QED
  BY <1>4, <1>5, <1>6

(* Nor does committing them.                                               *)
LEMMA CommitParameterChanges ==
  ASSUME NEW h \in HW, NEW r \in commitParameterChanges(h)
  PROVE  Sound(h, r) /\ r.h.ch = h.ch
<1> DEFINE k == IF h.temp = {} THEN h.hintKey ELSE CHOOSE v \in h.temp : TRUE
<1>1. k \in BOOLEAN
  BY DEF HW
<1>2. commitParamChanges(h) =
        [h EXCEPT !.hintKey = k, !.temp = {}, !.hint = h.hintNew, !.zsl = h.zslNew]
  BY DEF commitParamChanges, HW
<1> HIDE DEF k
<1>3. /\ commitParamChanges(h) \in HW
      /\ commitParamChanges(h).msg = h.msg
      /\ commitParamChanges(h).ch = h.ch
  BY <1>1, <1>2 DEF HW
<1> QED
  BY <1>3, RequestOutcome DEF commitParameterChanges, Sound

(* The recording hint is committed in a batch of its own.                  *)
LEMMA UpdateRecordingHint ==
  ASSUME NEW h \in HW, NEW v \in BOOLEAN, NEW r \in updateRecordingHintValue(h, v)
  PROVE  Sound(h, r) /\ r.h.ch = h.ch
<1> DEFINE g == [h EXCEPT !.temp = {}, !.hintNew = v]
<1>1. g \in HW /\ g.msg = h.msg /\ g.ch = h.ch
  BY DEF HW
<1>2. r \in commitParameterChanges(g)
  BY DEF updateRecordingHintValue
<1> HIDE DEF g
<1> QED
  BY <1>1, <1>2, CommitParameterChanges DEF Sound

(* A stopped preview with a new recording hint.                            *)
LEMMA StopAndHint ==
  ASSUME NEW h \in HW, NEW v \in BOOLEAN,
         NEW q \in Ignoring(updateRecordingHintValue(stopPreview(h), v))
  PROVE  Sound(h, q)
<1> DEFINE g == stopPreview(h)
<1>1. g \in HW /\ g.msg = h.msg
  BY UnpreparePreview
<1> HIDE DEF g
<1>2. PICK p \in updateRecordingHintValue(g, v) : q = [p EXCEPT !.ok = TRUE]
  BY DEF Ignoring, g
<1>3. Sound(g, q)
  BY <1>1, <1>2, UpdateRecordingHint, Ignored
<1> QED
  BY <1>1, <1>3 DEF Sound

(* What a recording does before it starts.                                 *)
LEMMA PreStartRecording ==
  ASSUME NEW h \in HW, NEW capturing, NEW r \in preStartRecording(h, capturing),
         cfg \in DOMAIN Config
  PROVE  Sound(h, r)
<1> DEFINE g == [h EXCEPT !.restart = TRUE]
<1>1. g \in HW /\ g.msg = h.msg
  BY DEF HW
<1>2. \/ r \in Done(h) \/ r \in Done(g)
      \/ r \in Then(Ignoring(updateRecordingHintValue(stopPreview(h), TRUE)),
                    LAMBDA k : Then(preparePreview(k, capturing), startPreview))
  BY DEF preStartRecording, withHint
<1> HIDE DEF g
<1>3. CASE r \in Done(h) \/ r \in Done(g)
  BY <1>1, <1>3, DoneOutcome DEF Sound
<1>4. CASE r \in Then(Ignoring(updateRecordingHintValue(stopPreview(h), TRUE)),
                     LAMBDA k : Then(preparePreview(k, capturing), startPreview))
  <2>1. PICK q \in Ignoring(updateRecordingHintValue(stopPreview(h), TRUE)) :
          r \in (IF q.ok THEN Then(preparePreview(q.h, capturing), startPreview) ELSE {q})
    BY <1>4 DEF Then
  <2>2. Sound(h, q) /\ q.h \in HW
    BY StopAndHint, SoundData
  <2>3. CASE q.ok
    BY <2>1, <2>2, <2>3, PrepareAndStart, Chain
  <2> QED
    BY <2>1, <2>2, <2>3
<1> QED
  BY <1>2, <1>3, <1>4

(* What a picture does before it is taken.                                 *)
LEMMA PreTakePicture ==
  ASSUME NEW h \in HW, NEW capturing, NEW r \in preTakePicture(h, capturing),
         cfg \in DOMAIN Config
  PROVE  Sound(h, r)
<1> DEFINE g == [h EXCEPT !.restart = TRUE]
<1>1. g \in HW /\ g.msg = h.msg
  BY DEF HW
<1>2. \/ r \in Done(h) \/ r \in Done(g)
      \/ r \in Then(Ignoring(updateRecordingHintValue(stopPreview(h), FALSE)),
                    LAMBDA k : restartPreview(k, capturing))
  BY DEF preTakePicture, withHint
<1> HIDE DEF g
<1>3. CASE r \in Done(h) \/ r \in Done(g)
  BY <1>1, <1>3, DoneOutcome DEF Sound
<1>4. CASE r \in Then(Ignoring(updateRecordingHintValue(stopPreview(h), FALSE)),
                     LAMBDA k : restartPreview(k, capturing))
  <2>1. PICK q \in Ignoring(updateRecordingHintValue(stopPreview(h), FALSE)) :
          r \in (IF q.ok THEN restartPreview(q.h, capturing) ELSE {q})
    BY <1>4 DEF Then
  <2>2. Sound(h, q) /\ q.h \in HW
    BY StopAndHint, SoundData
  <2>3. CASE q.ok
    BY <2>1, <2>2, <2>3, RestartPreview, Chain
  <2> QED
    BY <2>1, <2>2, <2>3
<1> QED
  BY <1>2, <1>3, <1>4

(* A recording that starts has its video channel.                          *)
LEMMA StartRecording ==
  ASSUME NEW h \in HW, NEW r \in startRecording(h)
  PROVE  Sound(h, r) /\ (r.ok => r.h.ch["VIDEO"] = "started")
BY StartChannel DEF startRecording, Channels

(* The end of a recording.                                                 *)
LEMMA StopRecording ==
  ASSUME NEW h \in HW, NEW r \in stopRecording(h)
  PROVE  Sound(h, r)
<1>1. r = [h |-> stopChannels(h, {"VIDEO"}), ok |-> h.ch["VIDEO"] # "none"]
  BY DEF stopRecording
<1> QED
  BY <1>1, StopChannels DEF Sound, Outcomes

-----------------------------------------------------------------------------
(* The state machine. *)

FlagSet   == [{"delay", "delayed", "needsRestart", "delayedRestart", "asked"} -> BOOLEAN]
ResultSet == [evt : ApiEvents, ok : BOOLEAN, val : BOOLEAN]

(* The arguments of events; some events have arguments of a kind.          *)
Args == BOOLEAN \cup Params \cup {"run", "longshot", "always"}
HasArg(v) ==
  /\ v.evt = "SET_PARAMS" => v.arg \in Params
  /\ v.evt \in {"SET_PREVIEW_WINDOW", "RESTART_STOP_PREVIEW"} => v.arg \in BOOLEAN

Nodes == {v \in [evt : ApiEvents, arg : Args] : HasArg(v)}
EventNodes == [evt : Events, arg : {FALSE}]
Steps == {v \in [evt : ApiEvents \cup Own, arg : Args, must : BOOLEAN] : HasArg(v)}

QueueInv ==
  /\ api_queue \in Seq(Nodes)
  /\ evt_queue \in Seq(EventNodes)
  /\ todo \in [Threads -> Seq(Steps)]

TypeInv ==
  /\ m_state \in States /\ flags \in FlagSet /\ hw \in HW
  /\ results \in Seq(ResultSet) /\ woken \subseteq Waiting
  /\ notifier \in {"idle", "waiting"} /\ daemon \in BOOLEAN
  /\ cfg \in DOMAIN Config /\ QueueInv

Inv == TypeInv /\ MessageIsKept /\ RecordingIsBacked

(* MessageIsKept, of the data h and the flags fl.                          *)
Kept(h, fl) == fl.asked => h.msg \/ (fl.delay /\ fl.delayed)

(* What a step of the state machine does.                                  *)
Handled ==
  \E s \in States, h \in HW :
    /\ Leave(s, h)
    /\ s \in Camcorder => h.ch["VIDEO"] = "started"
    /\ flags' \in FlagSet /\ Kept(h, flags')
    /\ results' \in Seq(ResultSet) /\ woken' \subseteq Waiting
    /\ notifier' \in {"idle", "waiting"}

-----------------------------------------------------------------------------
(* Events. *)

(* What may be an argument.                                                *)
LEMMA ArgTypes ==
  /\ TRUE \in Args /\ FALSE \in Args /\ Params \subseteq Args
  /\ "run" \in Args /\ "longshot" \in Args /\ "always" \in Args
BY DEF Args

(* An event without arguments.                                             *)
LEMMA DoType ==
  ASSUME NEW e \in ApiEvents \cup Own, e # "SET_PARAMS", NEW a \in BOOLEAN, NEW m \in BOOLEAN
  PROVE  Ev(e, a, m) \in Steps
<1>1. a \in Args
  BY ArgTypes
<1>2. Ev(e, a, m) = [evt |-> e, arg |-> a, must |-> m]
  BY DEF Ev
<1>3. HasArg(Ev(e, a, m))
  BY <1>2 DEF HasArg
<1> QED
  BY <1>1, <1>2, <1>3 DEF Steps

(* An event queued by a call is a node of the API queue.                   *)
LEMMA QueuedType ==
  ASSUME NEW v \in Steps, v.evt \notin Own
  PROVE  Queued(v) \in Nodes
<1>1. v \in [evt : ApiEvents \cup Own, arg : Args, must : BOOLEAN] /\ HasArg(v)
  BY DEF Steps
<1>2. Queued(v) = [evt |-> v.evt, arg |-> v.arg]
  BY DEF Queued
<1>3. HasArg(Queued(v))
  BY <1>1, <1>2 DEF HasArg
<1> QED
  BY <1>1, <1>2, <1>3 DEF Nodes

(* So is an event a thread queues for itself.                              *)
LEMMA AsyncType ==
  ASSUME NEW e \in ApiEvents, e # "SET_PARAMS"
  PROVE  Async(e) \in Nodes
<1>1. Ev(e, FALSE, FALSE) \in Steps /\ Ev(e, FALSE, FALSE).evt = e
  BY DoType DEF Ev
<1>2. e \notin Own
  BY DEF ApiEvents, Own, Listed, Commits
<1> QED
  BY <1>1, <1>2, QueuedType DEF Async, Do

(* And an event of the daemon.                                             *)
LEMMA EventType ==
  ASSUME NEW e \in Events
  PROVE  Async(e) \in EventNodes
BY DEF EventNodes, Async, Do, Ev, Queued

(* The node that is handled.                                               *)
LEMMA NodeType ==
  ASSUME QueueInv, Busy
  PROVE  /\ Node.evt \in ApiEvents \cup Events
         /\ Node.evt \notin Events => Node \in Nodes
<1>1. CASE api_queue # <<>>
  <2>1. Node \in Nodes
    BY <1>1 DEF Node, QueueInv
  <2> QED
    BY <2>1 DEF Nodes
<1>2. CASE api_queue = <<>>
  <2>1. Node \in EventNodes
    BY <1>2 DEF Node, QueueInv, Busy
  <2> QED
    BY <2>1 DEF EventNodes
<1> QED
  BY <1>1, <1>2

-----------------------------------------------------------------------------
(* Leaving a state. *)

(* What a handler that leaves state s and data h does to the variables.    *)
LEMMA LeaveTypes ==
  ASSUME TypeInv, Busy, NEW s \in States, NEW h \in HW, Leave(s, h)
  PROVE  /\ m_state' = s
         /\ hw' \in HW /\ hw'.msg = h.msg /\ hw'.ch = h.ch
         /\ QueueInv'
         /\ daemon' = daemon /\ cfg' = cfg /\ todo' = todo
<1>1. hw' = [h EXCEPT !.post = FALSE] /\ m_state' = s /\ daemon' = daemon /\ cfg' = cfg
  BY DEF Leave
<1>2. hw' \in HW /\ hw'.msg = h.msg /\ hw'.ch = h.ch
  BY <1>1 DEF HW
<1>3. api_queue' \in Seq(Nodes)
  BY DEF Leave, TypeInv, QueueInv
<1>4. evt_queue' \in Seq(EventNodes)
  <2>1. Async("SNAPSHOT_DONE") \in EventNodes
    BY EventType DEF Events
  <2>2. (IF h.post THEN <<Async("SNAPSHOT_DONE")>> ELSE <<>>) \in Seq(EventNodes)
    BY <2>1
  <2>3. (IF api_queue = <<>> THEN Tail(evt_queue) ELSE evt_queue) \in Seq(EventNodes)
    BY DEF TypeInv, QueueInv, Busy
  <2> QED
    BY <2>2, <2>3 DEF Leave
<1>5. todo' = todo
  BY DEF Leave
<1> QED
  BY <1>1, <1>2, <1>3, <1>4, <1>5 DEF TypeInv, QueueInv

(* TypeInv says what TypeOK says, and more of the queues.                  *)
LEMMA TypeInvTypeOK ==
  TypeInv => TypeOK
<1> SUFFICES ASSUME TypeInv
             PROVE  /\ \A i \in 1..Len(api_queue) : api_queue[i].evt \in ApiEvents
                    /\ \A i \in 1..Len(evt_queue) : evt_queue[i].evt \in Events
                    /\ \A t \in Threads : \A i \in 1..Len(todo[t]) :
                         todo[t][i].evt \in ApiEvents \cup Own
  BY DEF TypeInv, TypeOK, FlagSet, ResultSet, Waiting
<1> USE DEF TypeInv
<1>1. \A i \in 1..Len(api_queue) : api_queue[i].evt \in ApiEvents
  <2>1. \A i \in 1..Len(api_queue) : api_queue[i] \in Nodes
    BY DEF QueueInv
  <2> QED
    BY <2>1 DEF Nodes
<1>2. \A i \in 1..Len(evt_queue) : evt_queue[i].evt \in Events
  <2>1. \A i \in 1..Len(evt_queue) : evt_queue[i] \in EventNodes
    BY DEF QueueInv
  <2> QED
    BY <2>1 DEF EventNodes
<1>3. \A t \in Threads : \A i \in 1..Len(todo[t]) : todo[t][i].evt \in ApiEvents \cup Own
  <2>1. \A t \in Threads : \A i \in 1..Len(todo[t]) : todo[t][i] \in Steps
    BY DEF QueueInv
  <2> QED
    BY <2>1 DEF Steps
<1> QED
  BY <1>1, <1>2, <1>3

(* A handled event leads to the invariant.                                 *)
LEMMA HandledInv ==
  ASSUME Inv, Busy, Handled
  PROVE  Inv'
<1>1. PICK s \in States, h \in HW :
        /\ Leave(s, h)
        /\ s \in Camcorder => h.ch["VIDEO"] = "started"
        /\ flags' \in FlagSet /\ Kept(h, flags')
        /\ results' \in Seq(ResultSet) /\ woken' \subseteq Waiting
        /\ notifier' \in {"idle", "waiting"}
  BY DEF Handled
<1>2. /\ m_state' = s
      /\ hw' \in HW /\ hw'.msg = h.msg /\ hw'.ch = h.ch
      /\ QueueInv'
      /\ daemon' = daemon /\ cfg' = cfg /\ todo' = todo
  BY <1>1, LeaveTypes DEF Inv
<1>3. daemon \in BOOLEAN /\ cfg \in DOMAIN Config /\ Waiting' = Waiting
  BY <1>2 DEF Inv, TypeInv, Waiting
<1>4. TypeInv'
  BY <1>1, <1>2, <1>3 DEF TypeInv
<1>5. MessageIsKept'
  BY <1>1, <1>2 DEF MessageIsKept, Kept
<1>6. RecordingIsBacked'
  BY <1>1, <1>2 DEF RecordingIsBacked, Camcorder
<1> QED
  BY <1>4, <1>5, <1>6 DEF Inv

-----------------------------------------------------------------------------
(* The ways a handler ends. *)

(* The flags are booleans.                                                 *)
LEMMA FlagTypes ==
  ASSUME flags \in FlagSet
  PROVE  /\ flags.delay \in BOOLEAN /\ flags.delayed \in BOOLEAN
         /\ flags.needsRestart \in BOOLEAN /\ flags.delayedRestart \in BOOLEAN
         /\ flags.asked \in BOOLEAN
BY DEF FlagSet

(* An answer is a result of its event; those who hear of it are threads.   *)
LEMMA SignalTypes ==
  ASSUME TypeInv, NEW e \in ApiEvents, NEW ok \in BOOLEAN, signalAPIResult(e, ok)
  PROVE  results' \in Seq(ResultSet) /\ woken' \subseteq Waiting
<1>1. Result(e, ok) \in ResultSet
  BY FlagTypes DEF Result, ResultSet, TypeInv
<1> QED
  BY <1>1 DEF signalAPIResult, TypeInv

(* A handler that answers, or does not.                                    *)
LEMMA LeaveHandled ==
  ASSUME Inv, Busy, NEW s \in States, NEW h \in HW, Leave(s, h),
         s \in Camcorder => h.ch["VIDEO"] = "started",
         flags' \in FlagSet, Kept(h, flags'),
         \/ Silent
         \/ \E e \in ApiEvents, ok \in BOOLEAN : signalAPIResult(e, ok),
         notifier' = notifier \/ signalEvtResult
  PROVE  Handled
<1>1. results' \in Seq(ResultSet) /\ woken' \subseteq Waiting
  BY SignalTypes DEF Inv, TypeInv, Silent
<1>2. notifier' \in {"idle", "waiting"}
  BY DEF Inv, TypeInv, signalEvtResult
<1> QED
  BY <1>1, <1>2 DEF Handled

(* A handler with new flags.                                               *)
LEMMA GotoWithHandled ==
  ASSUME Inv, Busy, Node.evt \in ApiEvents, NEW r \in Outcomes,
         NEW good \in States, NEW bad \in States, NEW fl \in FlagSet,
         GotoWith(r, good, bad, fl), Kept(r.h, fl),
         (IF r.ok THEN good ELSE bad) \in Camcorder => r.h.ch["VIDEO"] = "started"
  PROVE  Handled
<1>1. r.h \in HW /\ r.ok \in BOOLEAN /\ (IF r.ok THEN good ELSE bad) \in States
  BY DEF Outcomes
<1>2. signalAPIResult(Node.evt, r.ok) /\ flags' = fl /\ notifier' = notifier
  BY DEF GotoWith, Answer
<1>3. Leave(IF r.ok THEN good ELSE bad, r.h)
  BY DEF GotoWith
<1> QED
  BY <1>1, <1>2, <1>3, LeaveHandled

(* A handler that leaves the flags, and the messages.                      *)
LEMMA GotoHandled ==
  ASSUME Inv, Busy, Node.evt \in ApiEvents, NEW r, Sound(hw, r),
         NEW good \in States, NEW bad \in States, Goto(r, good, bad),
         (IF r.ok THEN good ELSE bad) \in Camcorder => r.h.ch["VIDEO"] = "started"
  PROVE  Handled
<1>1. GotoWith(r, good, bad, flags)
  BY DEF Goto, GotoWith
<1>2. r \in Outcomes /\ Kept(r.h, flags) /\ flags \in FlagSet
  BY DEF Sound, Inv, TypeInv, MessageIsKept, Kept
<1> QED
  BY <1>1, <1>2, GotoWithHandled

(* A handler that stays in its state.                                      *)
LEMMA StayHandled ==
  ASSUME Inv, Busy, Node.evt \in ApiEvents, NEW r, Sound(hw, r), Stay(r),
         m_state \in Camcorder => r.h.ch["VIDEO"] = hw.ch["VIDEO"]
  PROVE  Handled
<1>1. m_state \in States
  BY DEF Inv, TypeInv
<1>2. m_state \in Camcorder => hw.ch["VIDEO"] = "started"
  BY DEF Inv, RecordingIsBacked, Camcorder
<1> QED
  BY <1>1, <1>2, GotoHandled DEF Stay

(* A handler that only answers.                                            *)
LEMMA OkHandled ==
  ASSUME Inv, Busy, Node.evt \in ApiEvents, Ok \/ Invalid
  PROVE  Handled
<1>1. hw \in HW
  BY DEF Inv, TypeInv
<1>2. \A b \in BOOLEAN : Sound(hw, [h |-> hw, ok |-> b]) /\ [h |-> hw, ok |-> b].h = hw
  BY <1>1 DEF Sound, Outcomes
<1> QED
  BY <1>2, StayHandled DEF Ok, Invalid

(* An answer that the flags are reset with.                                *)
LEMMA RestartedTypes ==
  ASSUME Inv
  PROVE  Restarted \in FlagSet /\ \A h : h.msg = hw.msg => Kept(h, Restarted)
BY DEF Inv, TypeInv, FlagSet, Restarted, MessageIsKept, Kept

-----------------------------------------------------------------------------
(* What every state treats alike. *)

(* The event an answering handler is about.                                *)
LEMMA OnTypes ==
  ASSUME Inv, NEW S \in SUBSET States, NEW E \in SUBSET ApiEvents, On(S, E)
  PROVE  /\ m_state \in S /\ Busy /\ Node.evt \in E /\ Node.evt \in ApiEvents
         /\ m_state \in States /\ hw \in HW /\ flags \in FlagSet /\ cfg \in DOMAIN Config
BY DEF On, Inv, TypeInv

(* A query is only answered.                                               *)
LEMMA QueryHandled ==
  ASSUME Inv, Query
  PROVE  Busy /\ Handled
<1>1. {"QUERY"} \in SUBSET ApiEvents /\ {"REG_FACE_IMAGE"} \in SUBSET ApiEvents
      /\ Plain \in SUBSET States
  BY DEF ApiEvents, Listed, Plain
<1> QED
  BY <1>1, OnTypes, OkHandled DEF Query

(* A command touches no stream and no message, only what a restart needs.  *)
LEMMA SendCommandHandled ==
  ASSUME Inv, SendCommand
  PROVE  Busy /\ Handled
<1> DEFINE fl == IF m_state # "PREVIEWING" THEN flags
                 ELSE [flags EXCEPT !.needsRestart = FALSE, !.delayedRestart = FALSE]
           r  == [h |-> hw, ok |-> TRUE]
<1>1. {"SEND_COMMAND"} \in SUBSET ApiEvents /\ Plain \in SUBSET States
  BY DEF ApiEvents, Listed, Plain
<1>2. /\ Busy /\ Node.evt \in ApiEvents
      /\ m_state \in States /\ hw \in HW /\ flags \in FlagSet
  BY <1>1, OnTypes DEF SendCommand
<1>3. m_state \in Camcorder => hw.ch["VIDEO"] = "started"
  BY DEF Inv, RecordingIsBacked, Camcorder
<1>4. fl \in FlagSet /\ fl.asked = flags.asked /\ fl.delay = flags.delay
      /\ fl.delayed = flags.delayed
  BY <1>2 DEF FlagSet
<1>5. r \in Outcomes /\ r.h = hw
  BY <1>2 DEF Outcomes
<1>6. Kept(r.h, fl)
  BY <1>4, <1>5 DEF Inv, MessageIsKept, Kept
<1>7. GotoWith(r, m_state, m_state, fl)
  BY DEF SendCommand
<1> HIDE DEF fl, r
<1> QED
  BY <1>2, <1>3, <1>4, <1>5, <1>6, <1>7, GotoWithHandled

(* Enabling the message enables it or keeps it back.                       *)
LEMMA EnableMsgHandled ==
  ASSUME Inv, EnableMsg
  PROVE  Busy /\ Handled
<1>1. {"ENABLE_MSG_TYPE"} \in SUBSET ApiEvents /\ Plain \in SUBSET States
  BY DEF ApiEvents, Listed, Plain
<1>2. /\ Busy /\ Node.evt \in ApiEvents
      /\ m_state \in States /\ hw \in HW /\ flags \in FlagSet /\ cfg \in DOMAIN Config
  BY <1>1, OnTypes DEF EnableMsg
<1>3. m_state \in Camcorder => hw.ch["VIDEO"] = "started"
  BY DEF Inv, RecordingIsBacked, Camcorder
<1>4. CASE m_state = "PREVIEWING" /\ flags.delay
  <2> DEFINE fl == [flags EXCEPT !.delayed = TRUE, !.asked = TRUE]
             r  == [h |-> hw, ok |-> TRUE]
  <2>1. fl \in FlagSet /\ Kept(hw, fl)
    BY <1>2, <1>4 DEF FlagSet, Kept
  <2>2. GotoWith(r, m_state, m_state, fl)
    BY <1>4 DEF EnableMsg
  <2>3. r \in Outcomes /\ r.h = hw /\ r.ok
    BY <1>2 DEF Outcomes
  <2> HIDE DEF fl, r
  <2> QED
    BY <1>2, <1>3, <2>1, <2>2, <2>3, GotoWithHandled
<1>5. CASE ~(m_state = "PREVIEWING" /\ flags.delay)
  <2> DEFINE fl == [flags EXCEPT !.asked = TRUE]
  <2>1. PICK r \in enableMsgType(hw) : GotoWith(r, m_state, m_state, fl)
    BY <1>5 DEF EnableMsg
  <2>2. r \in Outcomes /\ r.h.msg /\ r.h.ch["VIDEO"] = hw.ch["VIDEO"]
    BY <1>2, EnableMsgType
  <2>3. fl \in FlagSet /\ Kept(r.h, fl)
    BY <1>2, <2>2 DEF FlagSet, Kept
  <2> HIDE DEF fl
  <2> QED
    BY <1>2, <1>3, <2>1, <2>2, <2>3, GotoWithHandled
<1> QED
  BY <1>4, <1>5

(* Disabling it ends the wish for it.                                      *)
LEMMA DisableMsgHandled ==
  ASSUME Inv, DisableMsg
  PROVE  Busy /\ Handled
<1>1. {"DISABLE_MSG_TYPE"} \in SUBSET ApiEvents /\ Plain \in SUBSET States
  BY DEF ApiEvents, Listed, Plain
<1>2. /\ Busy /\ Node.evt \in ApiEvents
      /\ m_state \in States /\ hw \in HW /\ flags \in FlagSet /\ cfg \in DOMAIN Config
  BY <1>1, OnTypes DEF DisableMsg
<1>3. m_state \in Camcorder => hw.ch["VIDEO"] = "started"
  BY DEF Inv, RecordingIsBacked, Camcorder
<1> DEFINE drop == m_state = "PREVIEWING" /\ flags.delay /\ flags.delayed
           fl == [flags EXCEPT !.asked = FALSE, !.delayed = @ /\ ~drop, !.delay = @ /\ ~drop]
           r  == [h |-> disableMsgType(hw), ok |-> TRUE]
<1>4. fl \in FlagSet /\ \A h : Kept(h, fl)
  BY <1>2, FlagTypes DEF FlagSet, Kept
<1>5. GotoWith(r, m_state, m_state, fl)
  BY DEF DisableMsg
<1>6. r \in Outcomes /\ r.h.ch["VIDEO"] = hw.ch["VIDEO"]
  BY <1>2, DisableMsgType DEF Outcomes
<1> HIDE DEF fl, r
<1> QED
  BY <1>2, <1>3, <1>4, <1>5, <1>6, GotoWithHandled

(* Parameters change no stream.                                            *)
LEMMA SetParamsHandled ==
  ASSUME Inv, SetParams
  PROVE  Busy /\ Handled
<1>1. {"SET_PARAMS"} \in SUBSET ApiEvents /\ Plain \in SUBSET States
  BY DEF ApiEvents, Listed, Plain
<1>2. /\ Busy /\ Node.evt \in ApiEvents
      /\ m_state \in States /\ hw \in HW /\ flags \in FlagSet /\ cfg \in DOMAIN Config
  BY <1>1, OnTypes DEF SetParams
<1>3. m_state \in Camcorder => hw.ch["VIDEO"] = "started"
  BY DEF Inv, RecordingIsBacked, Camcorder
<1>4. Node.arg \in Params
  <2>1. Node.evt = "SET_PARAMS"
    BY DEF SetParams, On
  <2>2. Node \in Nodes
    BY <1>2, <2>1, NodeType DEF Inv, TypeInv, Events
  <2> QED
    BY <2>1, <2>2 DEF Nodes, HasArg
<1> DEFINE fl == [flags EXCEPT !.needsRestart = NeedsRestart(hw, Node.arg)]
           r  == [h |-> updateParameters(hw, Node.arg), ok |-> TRUE]
<1>5. NeedsRestart(hw, Node.arg) \in BOOLEAN
  BY <1>2, <1>4, UpdateParameters
<1>6. fl \in FlagSet /\ fl.asked = flags.asked /\ fl.delay = flags.delay
      /\ fl.delayed = flags.delayed
  BY <1>2, <1>5 DEF FlagSet
<1>7. r \in Outcomes /\ r.h.ch = hw.ch /\ r.h.msg = hw.msg
  BY <1>2, <1>4, UpdateParameters DEF Outcomes
<1>8. GotoWith(r, m_state, m_state, fl)
  BY DEF SetParams
<1> HIDE DEF fl, r
<1>9. Kept(r.h, fl)
  BY <1>6, <1>7 DEF Inv, MessageIsKept, Kept
<1> QED
  BY <1>2, <1>3, <1>6, <1>7, <1>8, <1>9, GotoWithHandled

(* Applying what has been kept back keeps the message, and the recording.  *)
LEMMA AppliedTypes ==
  ASSUME flags \in FlagSet, NEW g \in HW, Kept(g, flags), NEW h \in applyDelayedMsgs(g)
  PROVE  /\ h \in HW /\ h.ch["VIDEO"] = g.ch["VIDEO"]
         /\ Applied \in FlagSet /\ Kept(h, Applied)
<1>1. Applied \in FlagSet /\ Applied.asked = flags.asked
  BY FlagTypes DEF Applied, FlagSet
<1>2. CASE flags.delay /\ flags.delayed
  <2>1. PICK r \in enableMsgType(g) : h = r.h
    BY <1>2 DEF applyDelayedMsgs
  <2>2. h \in HW /\ h.msg /\ h.ch["VIDEO"] = g.ch["VIDEO"]
    BY <2>1, EnableMsgType DEF Outcomes
  <2> QED
    BY <1>1, <2>2 DEF Kept
<1>3. CASE ~(flags.delay /\ flags.delayed)
  <2>1. h = g
    BY <1>3 DEF applyDelayedMsgs
  <2> QED
    BY <1>1, <1>3, <2>1 DEF Kept
<1> QED
  BY <1>2, <1>3

(* Asking whether the preview runs applies what has been kept back.        *)
LEMMA PreviewEnabledHandled ==
  ASSUME Inv, PreviewEnabled
  PROVE  Busy /\ Handled
<1>1. {"PREVIEW_ENABLED"} \in SUBSET ApiEvents /\ Plain \in SUBSET States
  BY DEF ApiEvents, Listed, Plain
<1>2. /\ Busy /\ Node.evt \in ApiEvents
      /\ m_state \in States /\ hw \in HW /\ flags \in FlagSet /\ cfg \in DOMAIN Config
  BY <1>1, OnTypes DEF PreviewEnabled
<1>3. CASE m_state = "PREVIEWING"
  <2>1. PICK h \in applyDelayedMsgs(hw) :
          GotoWith([h |-> h, ok |-> TRUE], m_state, m_state, Applied)
    BY <1>3 DEF PreviewEnabled
  <2>2. h \in HW /\ Applied \in FlagSet /\ Kept(h, Applied)
    BY <1>2, AppliedTypes DEF Inv, MessageIsKept, Kept
  <2>3. [h |-> h, ok |-> TRUE] \in Outcomes /\ [h |-> h, ok |-> TRUE].h = h
    BY <2>2 DEF Outcomes
  <2>4. m_state \notin Camcorder
    BY <1>3 DEF Camcorder
  <2> QED
    BY <1>2, <2>1, <2>2, <2>3, <2>4, GotoWithHandled
<1>4. CASE m_state # "PREVIEWING"
  BY <1>2, <1>4, OkHandled DEF PreviewEnabled
<1> QED
  BY <1>3, <1>4

(* Two more elements of a sequence.                                        *)
LEMMA TwoMore ==
  ASSUME NEW S, NEW s \in Seq(S), NEW a \in S, NEW b \in S
  PROVE  s \o <<a, b>> \in Seq(S)
<1>1. <<a, b>> \in Seq(S)
  OBVIOUS
<1> QED
  BY <1>1

(* The death of the daemon and notifications leave the state as it is.     *)
LEMMA EventHandled ==
  ASSUME Inv, DaemonDied \/ Notify
  PROVE  Busy /\ Handled
<1>1. /\ Busy /\ Leave(m_state, hw) /\ flags' = flags /\ notifier' = notifier
  BY DEF DaemonDied, Notify, On
<1>2. m_state \in States /\ hw \in HW /\ flags \in FlagSet
  BY DEF Inv, TypeInv
<1>3. (m_state \in Camcorder => hw.ch["VIDEO"] = "started") /\ Kept(hw, flags')
  BY <1>1 DEF Inv, RecordingIsBacked, Camcorder, MessageIsKept, Kept
<1>4. CASE Silent
  BY <1>1, <1>2, <1>3, <1>4, LeaveHandled
<1>5. CASE ~Silent
  <2>1. /\ results' = results \o <<Result("PREPARE_SNAPSHOT", TRUE), Result("TAKE_PICTURE", TRUE)>>
        /\ woken' = Waiting
    BY <1>5 DEF DaemonDied, Notify
  <2>2. Result("PREPARE_SNAPSHOT", TRUE) \in ResultSet /\ Result("TAKE_PICTURE", TRUE) \in ResultSet
    <3>1. "PREPARE_SNAPSHOT" \in ApiEvents /\ "TAKE_PICTURE" \in ApiEvents
      BY DEF ApiEvents, Listed
    <3> QED
      BY <1>2, <3>1, FlagTypes DEF Result, ResultSet
  <2>3. results' \in Seq(ResultSet) /\ woken' \subseteq Waiting
    <3>1. results \in Seq(ResultSet)
      BY DEF Inv, TypeInv
    <3>2. results' \in Seq(ResultSet)
      BY <2>1, <2>2, <3>1, TwoMore
    <3> QED
      BY <2>1, <3>2
  <2>4. notifier' \in {"idle", "waiting"}
    BY <1>1 DEF Inv, TypeInv
  <2> QED
    BY <1>1, <1>2, <1>3, <2>3, <2>4 DEF Handled
<1> QED
  BY <1>4, <1>5

-----------------------------------------------------------------------------
(* The handlers of a state that is not one of recordings, by their ends. *)

(* An answer and nothing more.                                             *)
LEMMA AnswersOnly ==
  ASSUME Inv, NEW S \in SUBSET States, NEW E \in SUBSET ApiEvents, On(S, E), Ok \/ Invalid
  PROVE  Busy /\ Handled
BY OnTypes, OkHandled

(* A handler that stays.                                                   *)
LEMMA Stays ==
  ASSUME Inv, NEW S \in SUBSET (States \ Camcorder), NEW E \in SUBSET ApiEvents, On(S, E),
         NEW r, Sound(hw, r), Stay(r)
  PROVE  Busy /\ Handled
<1>1. /\ Busy /\ Node.evt \in ApiEvents /\ m_state \notin Camcorder
  BY DEF On
<1> QED
  BY <1>1, StayHandled

(* A handler that goes elsewhere.                                          *)
LEMMA Moves ==
  ASSUME Inv, NEW S \in SUBSET States, NEW E \in SUBSET ApiEvents, On(S, E),
         NEW r, Sound(hw, r), NEW good \in States \ Camcorder, NEW bad \in States \ Camcorder,
         Goto(r, good, bad)
  PROVE  Busy /\ Handled
<1>1. /\ Busy /\ Node.evt \in ApiEvents
  BY DEF On
<1> QED
  BY <1>1, GotoHandled

(* A handler that does what the parameters asked for.                      *)
LEMMA MovesRestarted ==
  ASSUME Inv, NEW S \in SUBSET States, NEW E \in SUBSET ApiEvents, On(S, E),
         NEW r, Sound(hw, r), NEW good \in States \ Camcorder, NEW bad \in States \ Camcorder,
         GotoWith(r, good, bad, Restarted)
  PROVE  Busy /\ Handled
<1>1. /\ Busy /\ Node.evt \in ApiEvents
  BY DEF On
<1>2. r \in Outcomes /\ Kept(r.h, Restarted) /\ Restarted \in FlagSet
  BY RestartedTypes DEF Sound
<1> QED
  BY <1>1, <1>2, GotoWithHandled

(* A change of the data that touches neither messages nor channels.        *)
LEMMA SetWindow ==
  ASSUME NEW h \in HW, NEW b \in BOOLEAN
  PROVE  LET g == [h EXCEPT !.window = b] IN g \in HW /\ g.msg = h.msg /\ g.ch = h.ch
BY DEF HW

(* An outcome that is certain.                                             *)
LEMMA Certain ==
  ASSUME NEW h, NEW g \in HW, g.msg = h.msg, NEW b \in BOOLEAN
  PROVE  Sound(h, [h |-> g, ok |-> b])
BY DEF Sound, Outcomes

-----------------------------------------------------------------------------
(* QCAMERA_SM_STATE_PREVIEW_STOPPED *)

(* Commits of a stopped preview.                                           *)
LEMMA StoppedCommitHandled ==
  ASSUME Inv, StoppedCommit
  PROVE  Busy /\ Handled
<1>1. hw \in HW
  BY DEF Inv, TypeInv
<1>2. /\ {"STOPPED"} \in SUBSET States /\ "STOPPED" \in States \ Camcorder
      /\ {"COMMIT_PARAMS", "COMMIT_STOP_PREVIEW"} \in SUBSET ApiEvents
      /\ {"COMMIT_START_PREVIEW"} \in SUBSET ApiEvents
  BY DEF States, Camcorder, ApiEvents, Commits
<1>3. CASE /\ On({"STOPPED"}, {"COMMIT_PARAMS", "COMMIT_STOP_PREVIEW"})
           /\ \E r \in commitParameterChanges(hw) : GotoWith(r, "STOPPED", "STOPPED", Restarted)
  <2>1. PICK r \in commitParameterChanges(hw) : GotoWith(r, "STOPPED", "STOPPED", Restarted)
    BY <1>3
  <2>2. Sound(hw, r)
    BY <1>1, CommitParameterChanges
  <2> QED
    BY <1>2, <1>3, <2>1, <2>2, MovesRestarted
<1>4. CASE On({"STOPPED"}, {"COMMIT_START_PREVIEW"}) /\ Ok
  BY <1>2, <1>4, AnswersOnly
<1> QED
  BY <1>3, <1>4 DEF StoppedCommit

(* The preview is prepared or started.                                     *)
LEMMA StoppedStartHandled ==
  ASSUME Inv, StoppedStart
  PROVE  Busy /\ Handled
<1>1. hw \in HW /\ cfg \in DOMAIN Config
  BY DEF Inv, TypeInv
<1>2. /\ {"STOPPED"} \in SUBSET States
      /\ {"STOPPED", "READY", "PREVIEWING"} \subseteq States \ Camcorder
      /\ {"PREPARE_PREVIEW"} \in SUBSET ApiEvents /\ {"START_PREVIEW"} \in SUBSET ApiEvents
  BY DEF States, Camcorder, ApiEvents, Listed
<1>3. PICK E \in {{"PREPARE_PREVIEW"}, {"START_PREVIEW"}} :
        /\ On({"STOPPED"}, E)
        /\ \/ \E r \in preparePreview(hw, FALSE) : Goto(r, "READY", "STOPPED")
           \/ \E r \in restartPreview(hw, FALSE) : Goto(r, "PREVIEWING", "STOPPED")
  BY DEF StoppedStart
<1>4. CASE \E r \in preparePreview(hw, FALSE) : Goto(r, "READY", "STOPPED")
  <2>1. PICK r \in preparePreview(hw, FALSE) : Goto(r, "READY", "STOPPED")
    BY <1>4
  <2>2. Sound(hw, r)
    BY <1>1, PreparePreview
  <2> QED
    BY <1>2, <1>3, <2>1, <2>2, Moves
<1>5. CASE \E r \in restartPreview(hw, FALSE) : Goto(r, "PREVIEWING", "STOPPED")
  <2>1. PICK r \in restartPreview(hw, FALSE) : Goto(r, "PREVIEWING", "STOPPED")
    BY <1>5
  <2>2. Sound(hw, r)
    BY <1>1, RestartPreview
  <2> QED
    BY <1>2, <1>3, <2>1, <2>2, Moves
<1> QED
  BY <1>3, <1>4, <1>5

(* The window that SET_PREVIEW_WINDOW gives is there or not.               *)
LEMMA WindowArg ==
  ASSUME Inv, Busy, Node.evt = "SET_PREVIEW_WINDOW"
  PROVE  Node.arg \in BOOLEAN
<1>1. Node \in Nodes
  BY NodeType DEF Inv, TypeInv, Events
<1> QED
  BY <1>1 DEF Nodes, HasArg

(* isCaptureRunning and isPreviewRunning are booleans.                     *)
LEMMA RunningTypes ==
  isCaptureRunning \in BOOLEAN /\ isPreviewRunning \in BOOLEAN
BY DEF isCaptureRunning, isPreviewRunning

(* LONGSHOT_ON in a state that stays.                                      *)
LEMMA LongshotOnStays ==
  ASSUME Inv, NEW S \in SUBSET States, NEW E \in SUBSET ApiEvents, On(S, E),
         NEW r \in longshotOn(hw, isCaptureRunning, isPreviewRunning), Stay(r)
  PROVE  Busy /\ Handled
<1>1. Busy /\ Node.evt \in ApiEvents /\ hw \in HW /\ m_state \in States /\ flags \in FlagSet
  BY OnTypes
<1>2. /\ r.h \in HW /\ r.h.msg = hw.msg /\ r.h.ch = hw.ch /\ r.ok \in BOOLEAN
  BY <1>1, LongshotOn, RunningTypes
<1>3. Leave(m_state, r.h) /\ flags' = flags /\ notifier' = notifier /\ signalAPIResult(Node.evt, r.ok)
  BY DEF Stay, Goto, Answer
<1>4. (m_state \in Camcorder => r.h.ch["VIDEO"] = "started") /\ Kept(r.h, flags)
  BY <1>2 DEF Inv, RecordingIsBacked, Camcorder, MessageIsKept, Kept
<1> QED
  BY <1>1, <1>2, <1>3, <1>4, LeaveHandled

(* The other events of a stopped preview.                                  *)
LEMMA StoppedOtherHandled ==
  ASSUME Inv, StoppedOther
  PROVE  Busy /\ Handled
<1>1. hw \in HW /\ cfg \in DOMAIN Config
  BY DEF Inv, TypeInv
<1>2. /\ {"STOPPED"} \in SUBSET (States \ Camcorder) /\ {"STOPPED"} \in SUBSET States
      /\ {"SET_PREVIEW_WINDOW"} \in SUBSET ApiEvents /\ {"RELEASE"} \in SUBSET ApiEvents
      /\ {"LONGSHOT_ON"} \in SUBSET ApiEvents /\ {"LONGSHOT_OFF"} \in SUBSET ApiEvents
  BY DEF States, Camcorder, ApiEvents, Listed
<1>3. CASE /\ On({"STOPPED"}, {"SET_PREVIEW_WINDOW"})
           /\ Stay([h |-> [hw EXCEPT !.window = Node.arg], ok |-> TRUE])
  <2>1. Node.arg \in BOOLEAN
    BY <1>3, WindowArg DEF On
  <2>2. Sound(hw, [h |-> [hw EXCEPT !.window = Node.arg], ok |-> TRUE])
    BY <1>1, <2>1, SetWindow, Certain
  <2> QED
    BY <1>2, <1>3, <2>2, Stays
<1>4. CASE On({"STOPPED"}, {"STOP_PREVIEW", "CANCEL_PICTURE"}) /\ Ok
  <2>1. {"STOP_PREVIEW", "CANCEL_PICTURE"} \in SUBSET ApiEvents
    BY DEF ApiEvents, Listed
  <2> QED
    BY <1>2, <1>4, <2>1, AnswersOnly
<1>5. CASE On({"STOPPED"}, {"RELEASE"}) /\ Stay([h |-> release(hw), ok |-> TRUE])
  <2>1. Sound(hw, [h |-> release(hw), ok |-> TRUE])
    BY <1>1, DelChannels, Certain DEF release
  <2> QED
    BY <1>2, <1>5, <2>1, Stays
<1>6. CASE /\ On({"STOPPED"}, {"LONGSHOT_ON"})
           /\ \E r \in longshotOn(hw, isCaptureRunning, isPreviewRunning) : Stay(r)
  BY <1>2, <1>6, LongshotOnStays
<1>7. CASE /\ On({"STOPPED"}, {"LONGSHOT_OFF"})
           /\ Stay([h |-> longshotOff(hw, FALSE), ok |-> TRUE])
  <2>1. Sound(hw, [h |-> longshotOff(hw, FALSE), ok |-> TRUE])
    BY <1>1, LongshotOff, Certain
  <2> QED
    BY <1>2, <1>7, <2>1, Stays
<1>8. CASE /\ On({"STOPPED"}, {"PRE_START_RECORDING", "RESTART_STOP_PREVIEW",
                               "RESTART_START_PREVIEW", "START_RECORDING", "STOP_RECORDING",
                               "PREPARE_SNAPSHOT", "PRE_TAKE_PICTURE", "TAKE_PICTURE"})
           /\ Invalid
  <2>1. {"PRE_START_RECORDING", "RESTART_STOP_PREVIEW", "RESTART_START_PREVIEW",
         "START_RECORDING", "STOP_RECORDING", "PREPARE_SNAPSHOT", "PRE_TAKE_PICTURE",
         "TAKE_PICTURE"} \in SUBSET ApiEvents
    BY DEF ApiEvents, Listed
  <2> QED
    BY <1>2, <1>8, <2>1, AnswersOnly
<1> QED
  BY <1>3, <1>4, <1>5, <1>6, <1>7, <1>8 DEF StoppedOther

-----------------------------------------------------------------------------
(* QCAMERA_SM_STATE_PREVIEW_READY *)

(* Outcomes whose return value is dropped.                                 *)
LEMMA IgnoredCommit ==
  ASSUME NEW h, NEW g \in HW, g.msg = h.msg, NEW r \in Ignoring(commitParameterChanges(g))
  PROVE  Sound(h, r)
<1>1. PICK q \in commitParameterChanges(g) : r = [q EXCEPT !.ok = TRUE]
  BY DEF Ignoring
<1>2. Sound(g, r)
  BY <1>1, CommitParameterChanges, Ignored
<1> QED
  BY <1>2 DEF Sound

(* Commits of a prepared preview.                                          *)
LEMMA ReadyCommitHandled ==
  ASSUME Inv, ReadyCommit
  PROVE  Busy /\ Handled
<1>1. hw \in HW /\ cfg \in DOMAIN Config
  BY DEF Inv, TypeInv
<1>2. /\ {"READY"} \in SUBSET (States \ Camcorder) /\ {"READY"} \in SUBSET States
      /\ {"READY", "STOPPED"} \subseteq States \ Camcorder
      /\ {"COMMIT_PARAMS"} \in SUBSET ApiEvents /\ {"COMMIT_STOP_PREVIEW"} \in SUBSET ApiEvents
      /\ {"COMMIT_START_PREVIEW"} \in SUBSET ApiEvents
  BY DEF States, Camcorder, ApiEvents, Commits
<1>3. unpreparePreview(hw) \in HW /\ unpreparePreview(hw).msg = hw.msg
  BY <1>1, UnpreparePreview
<1>4. CASE /\ On({"READY"}, {"COMMIT_PARAMS"})
           /\ \E c \in commitParameterChanges(unpreparePreview(hw)) :
                \E r \in preparePreview(c.h, FALSE) : GotoWith(r, "READY", "STOPPED", Restarted)
  <2>1. PICK c \in commitParameterChanges(unpreparePreview(hw)) :
          \E r \in preparePreview(c.h, FALSE) : GotoWith(r, "READY", "STOPPED", Restarted)
    BY <1>4
  <2>2. PICK r \in preparePreview(c.h, FALSE) : GotoWith(r, "READY", "STOPPED", Restarted)
    BY <2>1
  <2>3. Sound(unpreparePreview(hw), c) /\ c.h \in HW
    BY <1>3, CommitParameterChanges, SoundData
  <2>4. Sound(c.h, r)
    BY <1>1, <2>3, PreparePreview
  <2>5. Sound(hw, r)
    BY <1>3, <2>3, <2>4 DEF Sound
  <2> QED
    BY <1>2, <1>4, <2>2, <2>5, MovesRestarted
<1>5. CASE /\ On({"READY"}, {"COMMIT_PARAMS"})
           /\ \E r \in commitParameterChanges(hw) : GotoWith(r, "READY", "READY", Restarted)
  <2>1. PICK r \in commitParameterChanges(hw) : GotoWith(r, "READY", "READY", Restarted)
    BY <1>5
  <2>2. Sound(hw, r)
    BY <1>1, CommitParameterChanges
  <2> QED
    BY <1>2, <1>5, <2>1, <2>2, MovesRestarted
<1>6. CASE /\ On({"READY"}, {"COMMIT_STOP_PREVIEW"})
           /\ \E r \in Ignoring(commitParameterChanges(unpreparePreview(hw))) : Stay(r)
  <2>1. PICK r \in Ignoring(commitParameterChanges(unpreparePreview(hw))) : Stay(r)
    BY <1>6
  <2>2. Sound(hw, r)
    BY <1>3, IgnoredCommit
  <2> QED
    BY <1>2, <1>6, <2>1, <2>2, Stays
<1>7. CASE /\ On({"READY"}, {"COMMIT_STOP_PREVIEW"})
           /\ \E r \in commitParameterChanges(hw) : Stay(r)
  <2>1. PICK r \in commitParameterChanges(hw) : Stay(r)
    BY <1>7
  <2>2. Sound(hw, r)
    BY <1>1, CommitParameterChanges
  <2> QED
    BY <1>2, <1>7, <2>1, <2>2, Stays
<1>8. CASE /\ On({"READY"}, {"COMMIT_START_PREVIEW"})
           /\ \E r \in IF flags.needsRestart \/ Node.arg THEN preparePreview(hw, FALSE) ELSE Done(hw) :
                GotoWith(r, "READY", "STOPPED", Restarted)
  <2>1. PICK r \in IF flags.needsRestart \/ Node.arg THEN preparePreview(hw, FALSE) ELSE Done(hw) :
          GotoWith(r, "READY", "STOPPED", Restarted)
    BY <1>8
  <2>2. r \in preparePreview(hw, FALSE) \/ r \in Done(hw)
    BY <2>1
  <2>3. Sound(hw, r)
    BY <1>1, <2>2, PreparePreview, DoneOutcome DEF Sound
  <2> QED
    BY <1>2, <1>8, <2>1, <2>3, MovesRestarted
<1> QED
  BY <1>4, <1>5, <1>6, <1>7, <1>8 DEF ReadyCommit

(* A prepared preview is started, or unprepared.                           *)
LEMMA ReadyStartHandled ==
  ASSUME Inv, Busy, Node.evt \in ApiEvents, NEW h \in HW, h.msg = hw.msg,
         NEW ok \in BOOLEAN, ReadyStart(h, ok)
  PROVE  Handled
<1>1. PICK r \in OnError(startPreview(h), unpreparePreview) :
        /\ Leave(IF r.ok THEN "PREVIEWING" ELSE "STOPPED", r.h)
        /\ Answer(r.ok \/ ok)
        /\ UNCHANGED <<flags, notifier>>
  BY DEF ReadyStart
<1>2. r.h \in HW /\ r.h.msg = h.msg /\ r.ok \in BOOLEAN
  BY StartOrUnprepare, SoundData
<1>3. signalAPIResult(Node.evt, r.ok \/ ok) /\ (r.ok \/ ok) \in BOOLEAN
  BY <1>1 DEF Answer
<1>4. /\ (IF r.ok THEN "PREVIEWING" ELSE "STOPPED") \in States
      /\ (IF r.ok THEN "PREVIEWING" ELSE "STOPPED") \notin Camcorder
  BY DEF States, Camcorder
<1>5. flags' \in FlagSet /\ Kept(r.h, flags') /\ notifier' = notifier
  BY <1>1, <1>2 DEF Inv, TypeInv, MessageIsKept, Kept
<1> QED
  BY <1>1, <1>2, <1>3, <1>4, <1>5, LeaveHandled

(* The other events of a prepared preview.                                 *)
LEMMA ReadyOtherHandled ==
  ASSUME Inv, ReadyOther
  PROVE  Busy /\ Handled
<1>1. hw \in HW /\ cfg \in DOMAIN Config
  BY DEF Inv, TypeInv
<1>2. /\ {"READY"} \in SUBSET (States \ Camcorder) /\ {"READY"} \in SUBSET States
      /\ "STOPPED" \in States \ Camcorder
      /\ {"SET_PREVIEW_WINDOW"} \in SUBSET ApiEvents /\ {"START_PREVIEW"} \in SUBSET ApiEvents
      /\ {"PREPARE_PREVIEW"} \in SUBSET ApiEvents /\ {"STOP_PREVIEW"} \in SUBSET ApiEvents
      /\ {"LONGSHOT_ON"} \in SUBSET ApiEvents /\ {"LONGSHOT_OFF"} \in SUBSET ApiEvents
  BY DEF States, Camcorder, ApiEvents, Listed
<1>3. CASE /\ On({"READY"}, {"SET_PREVIEW_WINDOW"})
           /\ LET h == [hw EXCEPT !.window = Node.arg]
              IN IF h.window THEN ReadyStart(h, FALSE) ELSE Stay([h |-> h, ok |-> TRUE])
  <2> DEFINE h == [hw EXCEPT !.window = Node.arg]
  <2>1. Busy /\ Node.evt \in ApiEvents /\ Node.arg \in BOOLEAN
    BY <1>2, <1>3, WindowArg DEF On
  <2>2. h \in HW /\ h.msg = hw.msg
    BY <1>1, <2>1, SetWindow
  <2>3. ReadyStart(h, FALSE) \/ Stay([h |-> h, ok |-> TRUE])
    BY <1>3
  <2> HIDE DEF h
  <2>4. Sound(hw, [h |-> h, ok |-> TRUE])
    BY <2>2, Certain
  <2> QED
    BY <1>2, <1>3, <2>1, <2>2, <2>3, <2>4, Stays, ReadyStartHandled
<1>4. CASE /\ On({"READY"}, {"START_PREVIEW"})
           /\ IF hw.window THEN ReadyStart(hw, TRUE) ELSE Ok
  <2>1. Busy /\ Node.evt \in ApiEvents
    BY <1>2, <1>4 DEF On
  <2> QED
    BY <1>1, <1>4, <2>1, ReadyStartHandled, OkHandled
<1>5. CASE On({"READY"}, {"PREPARE_PREVIEW"}) /\ Ok
  BY <1>2, <1>5, AnswersOnly
<1>6. CASE /\ On({"READY"}, {"STOP_PREVIEW"})
           /\ Goto([h |-> unpreparePreview(hw), ok |-> TRUE], "STOPPED", "STOPPED")
  <2>1. Sound(hw, [h |-> unpreparePreview(hw), ok |-> TRUE])
    BY <1>1, UnpreparePreview, Certain
  <2> QED
    BY <1>2, <1>6, <2>1, Moves
<1>7. CASE /\ On({"READY"}, {"LONGSHOT_ON"})
           /\ \E r \in longshotOn(hw, isCaptureRunning, isPreviewRunning) : Stay(r)
  BY <1>2, <1>7, LongshotOnStays
<1>8. CASE On({"READY"}, {"LONGSHOT_OFF"}) /\ Stay([h |-> longshotOff(hw, FALSE), ok |-> TRUE])
  <2>1. Sound(hw, [h |-> longshotOff(hw, FALSE), ok |-> TRUE])
    BY <1>1, LongshotOff, Certain
  <2> QED
    BY <1>2, <1>8, <2>1, Stays
<1>9. CASE /\ On({"READY"}, {"PRE_START_RECORDING", "RESTART_STOP_PREVIEW",
                             "RESTART_START_PREVIEW", "START_RECORDING", "STOP_RECORDING",
                             "PREPARE_SNAPSHOT", "PRE_TAKE_PICTURE", "TAKE_PICTURE",
                             "CANCEL_PICTURE", "RELEASE"})
           /\ Invalid
  <2>1. {"PRE_START_RECORDING", "RESTART_STOP_PREVIEW", "RESTART_START_PREVIEW",
         "START_RECORDING", "STOP_RECORDING", "PREPARE_SNAPSHOT", "PRE_TAKE_PICTURE",
         "TAKE_PICTURE", "CANCEL_PICTURE", "RELEASE"} \in SUBSET ApiEvents
    BY DEF ApiEvents, Listed
  <2> QED
    BY <1>2, <1>9, <2>1, AnswersOnly
<1> QED
  BY <1>3, <1>4, <1>5, <1>6, <1>7, <1>8, <1>9 DEF ReadyOther

-----------------------------------------------------------------------------
(* QCAMERA_SM_STATE_PREVIEWING and QCAMERA_SM_STATE_PREVIEW_PIC_TAKING *)

(* The states of a running preview, and where they go when it is lost.     *)
LEMMA RunningStates ==
  /\ Running \in SUBSET (States \ Camcorder) /\ Running \in SUBSET States
  /\ {"PREVIEWING"} \in SUBSET (States \ Camcorder) /\ {"PREVIEWING"} \in SUBSET States
  /\ Lost \in States \ Camcorder
  /\ {"STOPPED", "PREVIEWING", "PIC_TAKING", "PREPARE_SNAPSHOT", "PREVIEW_PIC_TAKING"}
       \subseteq States \ Camcorder
BY DEF Running, Lost, States, Camcorder

(* The preview is stopped, what was set committed, and it is restarted.    *)
LEMMA CommitAndRestart ==
  ASSUME NEW h \in HW, cfg \in DOMAIN Config, NEW capturing,
         NEW q \in Ignoring(commitParameterChanges(stopPreview(h))),
         NEW r \in (IF q.ok THEN restartPreview(q.h, capturing) ELSE {q})
  PROVE  Sound(h, r)
<1>1. Sound(h, q) /\ q.h \in HW
  BY UnpreparePreview, IgnoredCommit, SoundData
<1>2. CASE q.ok
  BY <1>1, <1>2, RestartPreview, Chain
<1> QED
  BY <1>1, <1>2

(* Commits of a running preview.                                           *)
LEMMA PreviewingCommitHandled ==
  ASSUME Inv, PreviewingCommit
  PROVE  Busy /\ Handled
<1>1. hw \in HW /\ cfg \in DOMAIN Config /\ m_state \in States
  BY DEF Inv, TypeInv
<1>2. /\ {"COMMIT_PARAMS"} \in SUBSET ApiEvents /\ {"COMMIT_STOP_PREVIEW"} \in SUBSET ApiEvents
      /\ {"COMMIT_START_PREVIEW"} \in SUBSET ApiEvents
  BY DEF ApiEvents, Commits
<1>3. \A E : On(Running, E) => m_state \in States \ Camcorder
  BY RunningStates DEF On
<1>4. CASE /\ On(Running, {"COMMIT_PARAMS"})
           /\ \E r \in IF flags.needsRestart
                       THEN Then(Ignoring(commitParameterChanges(stopPreview(hw))),
                                 LAMBDA g : restartPreview(g, isCaptureRunning))
                       ELSE commitParameterChanges(hw) :
                GotoWith(r, m_state, IF flags.needsRestart THEN Lost ELSE m_state, Restarted)
  <2>1. PICK r \in IF flags.needsRestart
                   THEN Then(Ignoring(commitParameterChanges(stopPreview(hw))),
                             LAMBDA g : restartPreview(g, isCaptureRunning))
                   ELSE commitParameterChanges(hw) :
          GotoWith(r, m_state, IF flags.needsRestart THEN Lost ELSE m_state, Restarted)
    BY <1>4
  <2>2. Sound(hw, r)
    <3>1. CASE flags.needsRestart
      <4>1. PICK q \in Ignoring(commitParameterChanges(stopPreview(hw))) :
              r \in (IF q.ok THEN restartPreview(q.h, isCaptureRunning) ELSE {q})
        BY <2>1, <3>1 DEF Then
      <4> QED
        BY <1>1, <4>1, CommitAndRestart
    <3>2. CASE ~flags.needsRestart
      BY <1>1, <2>1, <3>2, CommitParameterChanges
    <3> QED
      BY <3>1, <3>2
  <2>3. /\ m_state \in States \ Camcorder
        /\ (IF flags.needsRestart THEN Lost ELSE m_state) \in States \ Camcorder
    BY <1>3, <1>4, RunningStates
  <2> QED
    BY <1>2, <1>4, <2>1, <2>2, <2>3, RunningStates, MovesRestarted
<1>5. CASE /\ On(Running, {"COMMIT_STOP_PREVIEW"})
           /\ \E r \in IF flags.needsRestart \/ Node.arg
                       THEN Ignoring(commitParameterChanges(stopPreview(hw)))
                       ELSE commitParameterChanges(hw) : Stay(r)
  <2>1. PICK r \in IF flags.needsRestart \/ Node.arg
                   THEN Ignoring(commitParameterChanges(stopPreview(hw)))
                   ELSE commitParameterChanges(hw) : Stay(r)
    BY <1>5
  <2>2. \/ r \in Ignoring(commitParameterChanges(stopPreview(hw)))
        \/ r \in commitParameterChanges(hw)
    BY <2>1
  <2>3. Sound(hw, r)
    BY <1>1, <2>2, UnpreparePreview, IgnoredCommit, CommitParameterChanges
  <2> QED
    BY <1>2, <1>5, <2>1, <2>3, RunningStates, Stays
<1>6. CASE /\ On(Running, {"COMMIT_START_PREVIEW"})
           /\ \E r \in IF CommitRestarts THEN restartPreview(hw, isCaptureRunning)
                       ELSE Done(hw) :
                GotoWith(r, m_state, Lost, Restarted)
  <2>1. PICK r \in IF CommitRestarts THEN restartPreview(hw, isCaptureRunning) ELSE Done(hw) :
          GotoWith(r, m_state, Lost, Restarted)
    BY <1>6
  <2>2. r \in restartPreview(hw, isCaptureRunning) \/ r \in Done(hw)
    BY <2>1
  <2>3. Sound(hw, r)
    BY <1>1, <2>2, RestartPreview, DoneOutcome
  <2> QED
    BY <1>2, <1>3, <1>6, <2>1, <2>3, RunningStates, MovesRestarted
<1> QED
  BY <1>4, <1>5, <1>6 DEF PreviewingCommit

(* The muxer's restart, and what starts and stops a running preview.       *)
LEMMA PreviewingStreamHandled ==
  ASSUME Inv, PreviewingRestart \/ PreviewingStream
  PROVE  Busy /\ Handled
<1>1. hw \in HW /\ cfg \in DOMAIN Config /\ m_state \in States /\ flags \in FlagSet
      /\ Kept(hw, flags)
  BY DEF Inv, TypeInv, MessageIsKept, Kept
<1>2. /\ {"RESTART_STOP_PREVIEW"} \in SUBSET ApiEvents /\ {"RESTART_START_PREVIEW"} \in SUBSET ApiEvents
      /\ {"PREPARE_PREVIEW"} \in SUBSET ApiEvents
      /\ {"START_PREVIEW"} \in SUBSET ApiEvents /\ {"STOP_PREVIEW"} \in SUBSET ApiEvents
  BY DEF ApiEvents, Listed
<1>3. CASE On(Running, {"RESTART_STOP_PREVIEW"}) /\ Stay([h |-> stopPreview(hw), ok |-> TRUE])
  <2>1. Sound(hw, [h |-> stopPreview(hw), ok |-> TRUE])
    BY <1>1, UnpreparePreview, Certain
  <2> QED
    BY <1>2, <1>3, <2>1, RunningStates, Stays
<1>4. CASE /\ On(Running, {"RESTART_START_PREVIEW"})
           /\ \E r \in Then(preparePreview(hw, isCaptureRunning), startPreview) : Stay(r)
  <2>1. PICK r \in Then(preparePreview(hw, isCaptureRunning), startPreview) : Stay(r)
    BY <1>4
  <2>2. Sound(hw, r)
    BY <1>1, PrepareAndStart
  <2> QED
    BY <1>2, <1>4, <2>1, <2>2, RunningStates, Stays
<1>5. CASE On({"PREVIEWING"}, {"PREPARE_PREVIEW"}) /\ Ok
  BY <1>2, <1>5, RunningStates, AnswersOnly
<1>6. CASE /\ On({"PREVIEWING"}, {"START_PREVIEW"})
           /\ \E h \in applyDelayedMsgs(hw) :
                GotoWith([h |-> h, ok |-> TRUE], m_state, m_state, Applied)
  <2>1. PICK h \in applyDelayedMsgs(hw) : GotoWith([h |-> h, ok |-> TRUE], m_state, m_state, Applied)
    BY <1>6
  <2>2. h \in HW /\ Applied \in FlagSet /\ Kept(h, Applied)
    BY <1>1, AppliedTypes
  <2>3. [h |-> h, ok |-> TRUE] \in Outcomes /\ [h |-> h, ok |-> TRUE].h = h
    BY <2>2 DEF Outcomes
  <2>4. Busy /\ Node.evt \in ApiEvents /\ m_state \notin Camcorder
    BY <1>2, <1>6, RunningStates DEF On
  <2> QED
    BY <1>1, <2>1, <2>2, <2>3, <2>4, GotoWithHandled
<1>7. CASE /\ On({"PREVIEWING"}, {"STOP_PREVIEW"})
           /\ \E h \in applyDelayedMsgs(stopPreview(hw)) :
                GotoWith([h |-> h, ok |-> TRUE], "STOPPED", "STOPPED", Applied)
  <2>1. PICK h \in applyDelayedMsgs(stopPreview(hw)) :
          GotoWith([h |-> h, ok |-> TRUE], "STOPPED", "STOPPED", Applied)
    BY <1>7
  <2>2. stopPreview(hw) \in HW /\ Kept(stopPreview(hw), flags)
    BY <1>1, UnpreparePreview DEF Kept
  <2>3. h \in HW /\ Applied \in FlagSet /\ Kept(h, Applied)
    BY <1>1, <2>2, AppliedTypes
  <2>4. [h |-> h, ok |-> TRUE] \in Outcomes /\ [h |-> h, ok |-> TRUE].h = h
    BY <2>3 DEF Outcomes
  <2>5. Busy /\ Node.evt \in ApiEvents /\ "STOPPED" \in States /\ "STOPPED" \notin Camcorder
    BY <1>2, <1>7, RunningStates DEF On
  <2> QED
    BY <2>1, <2>3, <2>4, <2>5, GotoWithHandled
<1> QED
  BY <1>3, <1>4, <1>5, <1>6, <1>7 DEF PreviewingRestart, PreviewingStream

(* A recording has its video channel from its start on.                    *)
LEMMA PreviewingRecordHandled ==
  ASSUME Inv, PreviewingRecord
  PROVE  Busy /\ Handled
<1>1. hw \in HW /\ cfg \in DOMAIN Config /\ m_state \in States /\ flags \in FlagSet
      /\ Kept(hw, flags)
  BY DEF Inv, TypeInv, MessageIsKept, Kept
<1>2. /\ {"PRE_START_RECORDING"} \in SUBSET ApiEvents /\ {"START_RECORDING"} \in SUBSET ApiEvents
      /\ "RECORDING" \in States
  BY DEF ApiEvents, Listed, States
<1>3. CASE /\ On({"PREVIEWING"}, {"PRE_START_RECORDING"})
           /\ \E r \in preStartRecording(hw, FALSE) : Stay(r)
  <2>1. PICK r \in preStartRecording(hw, FALSE) : Stay(r)
    BY <1>3
  <2>2. Sound(hw, r)
    BY <1>1, PreStartRecording
  <2> QED
    BY <1>2, <1>3, <2>1, <2>2, RunningStates, Stays
<1>4. CASE /\ On({"PREVIEWING"}, {"START_RECORDING"})
           /\ \E r \in startRecording(hw) :
                IF r.ok THEN \E h \in applyDelayedMsgs(r.h) :
                               GotoWith([h |-> h, ok |-> TRUE], "RECORDING", m_state, Applied)
                        ELSE Stay(r)
  <2>1. PICK r \in startRecording(hw) :
          IF r.ok THEN \E h \in applyDelayedMsgs(r.h) :
                         GotoWith([h |-> h, ok |-> TRUE], "RECORDING", m_state, Applied)
                  ELSE Stay(r)
    BY <1>4
  <2>2. /\ Sound(hw, r) /\ (r.ok => r.h.ch["VIDEO"] = "started")
        /\ r.h \in HW /\ r.h.msg = hw.msg
    BY <1>1, StartRecording, SoundData
  <2>3. CASE ~r.ok
    BY <1>2, <1>4, <2>1, <2>2, <2>3, RunningStates, Stays
  <2>4. CASE r.ok
    <3>1. PICK h \in applyDelayedMsgs(r.h) :
            GotoWith([h |-> h, ok |-> TRUE], "RECORDING", m_state, Applied)
      BY <2>1, <2>4
    <3>2. Kept(r.h, flags)
      BY <1>1, <2>2 DEF Kept
    <3>3. /\ h \in HW /\ Applied \in FlagSet /\ Kept(h, Applied)
          /\ h.ch["VIDEO"] = "started"
      BY <1>1, <2>2, <2>4, <3>2, AppliedTypes
    <3>4. [h |-> h, ok |-> TRUE] \in Outcomes /\ [h |-> h, ok |-> TRUE].h = h
      BY <3>3 DEF Outcomes
    <3>5. Busy /\ Node.evt \in ApiEvents
      BY <1>2, <1>4 DEF On
    <3> QED
      BY <1>1, <1>2, <3>1, <3>3, <3>4, <3>5, GotoWithHandled
  <2> QED
    BY <2>3, <2>4
<1> QED
  BY <1>3, <1>4 DEF PreviewingRecord

(* The hardware is prepared for a picture.                                 *)
LEMMA PreviewingPrepareHandled ==
  ASSUME Inv, PreviewingPrepare
  PROVE  Busy /\ Handled
<1>1. hw \in HW /\ flags \in FlagSet /\ Kept(hw, flags)
  BY DEF Inv, TypeInv, MessageIsKept, Kept
<1>2. {"PREPARE_SNAPSHOT"} \in SUBSET ApiEvents
  BY DEF ApiEvents, Listed
<1>3. On({"PREVIEWING"}, {"PREPARE_SNAPSHOT"})
  BY DEF PreviewingPrepare
<1>4. PICK r \in prepareHardwareForSnapshot(hw) :
        IF r.ok THEN \E h \in applyDelayedMsgs(r.h) :
                       /\ Leave("PREPARE_SNAPSHOT", h)
                       /\ flags' = Applied
                       /\ Silent /\ UNCHANGED notifier
                ELSE Stay(r)
  BY DEF PreviewingPrepare
<1>5. Sound(hw, r) /\ r.h \in HW /\ Kept(r.h, flags)
  BY <1>1, PrepareHardware, SoundData DEF Kept
<1>6. CASE ~r.ok
  BY <1>2, <1>3, <1>4, <1>5, <1>6, RunningStates, Stays
<1>7. CASE r.ok
  <2>1. PICK h \in applyDelayedMsgs(r.h) :
          Leave("PREPARE_SNAPSHOT", h) /\ flags' = Applied /\ Silent /\ UNCHANGED notifier
    BY <1>4, <1>7
  <2>2. h \in HW /\ Applied \in FlagSet /\ Kept(h, Applied)
    BY <1>1, <1>5, AppliedTypes
  <2>3. Busy
    BY <1>3 DEF On
  <2> QED
    BY <2>1, <2>2, <2>3, RunningStates, LeaveHandled
<1> QED
  BY <1>6, <1>7

(* The preview before a picture: restarted without the recording hint.     *)
LEMMA PlainPreview ==
  ASSUME NEW h \in HW, cfg \in DOMAIN Config,
         NEW q \in IF ~h.hint THEN Done(h)
                  ELSE Ignoring(Then(Ignoring(updateRecordingHintValue(stopPreview(h), FALSE)),
                                     LAMBDA g : restartPreview(g, FALSE)))
  PROVE  Sound(h, q)
<1>1. CASE ~h.hint
  BY <1>1, DoneOutcome
<1>2. CASE h.hint
  <2>1. PICK e \in Then(Ignoring(updateRecordingHintValue(stopPreview(h), FALSE)),
                       LAMBDA g : restartPreview(g, FALSE)) : q = [e EXCEPT !.ok = TRUE]
    BY <1>2 DEF Ignoring
  <2>2. PICK k \in Ignoring(updateRecordingHintValue(stopPreview(h), FALSE)) :
          e \in (IF k.ok THEN restartPreview(k.h, FALSE) ELSE {k})
    BY <2>1 DEF Then
  <2>3. Sound(h, k) /\ k.h \in HW
    BY StopAndHint, SoundData
  <2>4. Sound(h, e)
    <3>1. CASE k.ok
      BY <1>2, <2>2, <2>3, <3>1, RestartPreview, Chain
    <3>2. CASE ~k.ok
      BY <2>2, <2>3, <3>2
    <3> QED
      BY <3>1, <3>2
  <2> QED
    BY <2>1, <2>4, Ignored
<1> QED
  BY <1>1, <1>2

(* A picture of a running preview.                                         *)
LEMMA PreviewingTakeHandled ==
  ASSUME Inv, PreviewingTake
  PROVE  Busy /\ Handled
<1>1. hw \in HW /\ cfg \in DOMAIN Config /\ flags \in FlagSet /\ Kept(hw, flags)
  BY DEF Inv, TypeInv, MessageIsKept, Kept
<1>2. /\ {"PRE_TAKE_PICTURE"} \in SUBSET ApiEvents /\ {"TAKE_PICTURE"} \in SUBSET ApiEvents
  BY DEF ApiEvents, Listed
<1> DEFINE plain == IF ~hw.hint THEN Done(hw)
                    ELSE Ignoring(Then(Ignoring(updateRecordingHintValue(stopPreview(hw), FALSE)),
                                       LAMBDA g : restartPreview(g, FALSE)))
           zslPicture(q, r) ==
             /\ Leave(IF r.ok THEN "PREVIEW_PIC_TAKING" ELSE "PREVIEWING", r.h)
             /\ flags' = [flags EXCEPT !.delay = TRUE]
             /\ IF r.ok /\ r.h.retro THEN Silent ELSE Answer(r.ok)
             /\ UNCHANGED notifier
<1>3. CASE On({"PREVIEWING"}, {"PRE_TAKE_PICTURE"}) /\ \E r \in preTakePicture(hw, FALSE) : Stay(r)
  <2>1. PICK r \in preTakePicture(hw, FALSE) : Stay(r)
    BY <1>3
  <2>2. Sound(hw, r)
    BY <1>1, PreTakePicture
  <2> QED
    BY <1>2, <1>3, <2>1, <2>2, RunningStates, Stays
<1>4. CASE /\ On({"PREVIEWING"}, {"TAKE_PICTURE"})
           /\ \E q \in plain : \E r \in takePicture(q.h) :
                IF q.h.zsl \/ q.h.longshot THEN zslPicture(q, r)
                ELSE Goto(r, "PIC_TAKING", "STOPPED")
  <2>1. PICK q \in plain : \E r \in takePicture(q.h) :
          IF q.h.zsl \/ q.h.longshot THEN zslPicture(q, r) ELSE Goto(r, "PIC_TAKING", "STOPPED")
    BY <1>4
  <2>2. PICK r \in takePicture(q.h) :
          IF q.h.zsl \/ q.h.longshot THEN zslPicture(q, r) ELSE Goto(r, "PIC_TAKING", "STOPPED")
    BY <2>1
  <2>3. Sound(hw, q) /\ q.h \in HW
    BY <1>1, PlainPreview, SoundData
  <2>4. Sound(hw, r) /\ r.h \in HW /\ r.h.msg = hw.msg /\ r.ok \in BOOLEAN
    BY <1>1, <2>3, TakePicture, Chain, SoundData
  <2>5. CASE Goto(r, "PIC_TAKING", "STOPPED")
    BY <1>2, <1>4, <2>4, <2>5, RunningStates, Moves
  <2>6. CASE zslPicture(q, r)
    <3>1. Leave(IF r.ok THEN "PREVIEW_PIC_TAKING" ELSE "PREVIEWING", r.h)
          /\ (IF r.ok THEN "PREVIEW_PIC_TAKING" ELSE "PREVIEWING") \in States \ Camcorder
      BY <2>6, RunningStates
    <3>2. flags' \in FlagSet /\ Kept(r.h, flags')
      BY <1>1, <2>4, <2>6 DEF FlagSet, Kept
    <3>3. Busy /\ Node.evt \in ApiEvents
      BY <1>2, <1>4 DEF On
    <3>4. Silent \/ signalAPIResult(Node.evt, r.ok)
      BY <2>6 DEF Answer
    <3>5. notifier' = notifier
      BY <2>6
    <3> HIDE DEF zslPicture
    <3> QED
      BY <2>4, <3>1, <3>2, <3>3, <3>4, <3>5, LeaveHandled
  <2> QED
    BY <2>2, <2>5, <2>6
<1> QED
  BY <1>3, <1>4 DEF PreviewingTake

(* Longshots of a running preview.                                         *)
LEMMA PreviewingLongshotHandled ==
  ASSUME Inv, PreviewingLongshot
  PROVE  Busy /\ Handled
<1>1. hw \in HW /\ cfg \in DOMAIN Config /\ flags \in FlagSet /\ Kept(hw, flags)
      /\ m_state \in States
  BY DEF Inv, TypeInv, MessageIsKept, Kept
<1>2. /\ {"LONGSHOT_ON"} \in SUBSET ApiEvents /\ {"LONGSHOT_OFF"} \in SUBSET ApiEvents
      /\ {"SEND_COMMAND_RESTART"} \in SUBSET ApiEvents
  BY DEF ApiEvents, Listed
<1>3. \A E \in SUBSET ApiEvents :
        On({"PREVIEWING"}, E) => Busy /\ Node.evt \in ApiEvents /\ m_state \notin Camcorder
  BY RunningStates DEF On
<1>4. \A a, b \in BOOLEAN :
        /\ [flags EXCEPT !.needsRestart = a, !.delayedRestart = b] \in FlagSet
        /\ \A h : h.msg = hw.msg =>
             Kept(h, [flags EXCEPT !.needsRestart = a, !.delayedRestart = b])
  BY <1>1 DEF FlagSet, Kept
<1>5. CASE /\ On({"PREVIEWING"}, {"LONGSHOT_ON"})
           /\ \E c \in longshotOn(hw, isCaptureRunning, isPreviewRunning) :
                \E r \in IF ~c.restart THEN Done(c.h)
                         ELSE IF Dual THEN Done(stopPreview(c.h))
                         ELSE restartPreview(stopPreview(c.h), FALSE) :
                  GotoWith(r, m_state, m_state,
                           [flags EXCEPT !.needsRestart = c.restart,
                                         !.delayedRestart = c.restart /\ Dual])
  <2>1. PICK c \in longshotOn(hw, isCaptureRunning, isPreviewRunning) :
          \E r \in IF ~c.restart THEN Done(c.h)
                   ELSE IF Dual THEN Done(stopPreview(c.h))
                   ELSE restartPreview(stopPreview(c.h), FALSE) :
            GotoWith(r, m_state, m_state,
                     [flags EXCEPT !.needsRestart = c.restart,
                                   !.delayedRestart = c.restart /\ Dual])
    BY <1>5
  <2> DEFINE fl == [flags EXCEPT !.needsRestart = c.restart, !.delayedRestart = c.restart /\ Dual]
  <2>2. PICK r \in IF ~c.restart THEN Done(c.h)
                   ELSE IF Dual THEN Done(stopPreview(c.h))
                   ELSE restartPreview(stopPreview(c.h), FALSE) :
          GotoWith(r, m_state, m_state, fl)
    BY <2>1
  <2>3. c.h \in HW /\ c.h.msg = hw.msg /\ c.restart \in BOOLEAN
    BY <1>1, LongshotOn, RunningTypes
  <2>4. stopPreview(c.h) \in HW /\ stopPreview(c.h).msg = hw.msg
    BY <2>3, UnpreparePreview
  <2>5. r \in Done(c.h) \/ r \in Done(stopPreview(c.h)) \/ r \in restartPreview(stopPreview(c.h), FALSE)
    BY <2>2
  <2>6. r \in Outcomes /\ r.h.msg = hw.msg
    <3>1. CASE r \in Done(c.h)
      BY <2>3, <3>1, DoneOutcome DEF Sound
    <3>2. CASE r \in Done(stopPreview(c.h))
      BY <2>4, <3>2, DoneOutcome DEF Sound
    <3>3. CASE r \in restartPreview(stopPreview(c.h), FALSE)
      BY <1>1, <2>4, <3>3, RestartPreview DEF Sound
    <3> QED
      BY <2>5, <3>1, <3>2, <3>3
  <2>7. (c.restart /\ Dual) \in BOOLEAN
    OBVIOUS
  <2>8. fl \in FlagSet /\ Kept(r.h, fl)
    BY <1>4, <2>3, <2>6, <2>7
  <2> HIDE DEF fl
  <2> QED
    BY <1>1, <1>2, <1>3, <1>5, <2>2, <2>6, <2>8, GotoWithHandled
<1>6. CASE /\ On({"PREVIEWING"}, {"LONGSHOT_OFF"})
           /\ GotoWith([h |-> longshotOff(hw, FALSE), ok |-> TRUE], m_state, m_state,
                       [flags EXCEPT !.needsRestart = FALSE, !.delayedRestart = FALSE])
  <2> DEFINE fl == [flags EXCEPT !.needsRestart = FALSE, !.delayedRestart = FALSE]
             r  == [h |-> longshotOff(hw, FALSE), ok |-> TRUE]
  <2>1. r \in Outcomes /\ r.h.msg = hw.msg
    BY <1>1, LongshotOff DEF Outcomes
  <2>2. GotoWith(r, m_state, m_state, fl)
    BY <1>6
  <2> HIDE DEF r
  <2>3. fl \in FlagSet /\ Kept(r.h, fl)
    BY <1>4, <2>1
  <2> HIDE DEF fl
  <2> QED
    BY <1>1, <1>2, <1>3, <1>6, <2>1, <2>2, <2>3, GotoWithHandled
<1>7. CASE /\ On({"PREVIEWING"}, {"SEND_COMMAND_RESTART"})
           /\ \E r \in IF flags.needsRestart /\ flags.delayedRestart
                       THEN restartPreview(hw, FALSE) ELSE Done(hw) : Stay(r)
  <2>1. PICK r \in IF flags.needsRestart /\ flags.delayedRestart
                   THEN restartPreview(hw, FALSE) ELSE Done(hw) : Stay(r)
    BY <1>7
  <2>2. r \in restartPreview(hw, FALSE) \/ r \in Done(hw)
    BY <2>1
  <2>3. Sound(hw, r)
    BY <1>1, <2>2, RestartPreview, DoneOutcome
  <2> QED
    BY <1>2, <1>7, <2>1, <2>3, RunningStates, Stays
<1> QED
  BY <1>5, <1>6, <1>7 DEF PreviewingLongshot

(* What a running preview refuses.                                         *)
LEMMA PreviewingInvalidHandled ==
  ASSUME Inv, PreviewingInvalid
  PROVE  Busy /\ Handled
<1>1. {"SET_PREVIEW_WINDOW", "CANCEL_PICTURE", "STOP_RECORDING", "RELEASE"} \in SUBSET ApiEvents
  BY DEF ApiEvents, Listed
<1> QED
  BY <1>1, RunningStates, AnswersOnly DEF PreviewingInvalid

-----------------------------------------------------------------------------
(* QCAMERA_SM_STATE_PREPARE_SNAPSHOT and QCAMERA_SM_STATE_PIC_TAKING *)

(* A handler that does not answer, in a state that is not a recording's.   *)
LEMMA LeavesSilently ==
  ASSUME Inv, Busy, NEW s \in States \ Camcorder, NEW h \in HW, h.msg = hw.msg, Leave(s, h),
         flags' = flags, Silent, notifier' = notifier \/ signalEvtResult
  PROVE  Handled
<1>1. flags' \in FlagSet /\ Kept(h, flags')
  BY DEF Inv, TypeInv, MessageIsKept, Kept
<1> QED
  BY <1>1, LeaveHandled

(* The state of a preparation.                                             *)
LEMMA PrepareHandled ==
  ASSUME Inv, PrepareInvalid \/ PrepareDone
  PROVE  Busy /\ Handled
<1>1. hw \in HW /\ flags \in FlagSet /\ Kept(hw, flags)
  BY DEF Inv, TypeInv, MessageIsKept, Kept
<1>2. /\ Listed \in SUBSET ApiEvents /\ "PREPARE_SNAPSHOT" \in ApiEvents
      /\ {"PREPARE_SNAPSHOT"} \in SUBSET States
  BY DEF ApiEvents, Listed, States
<1>3. CASE PrepareInvalid
  BY <1>2, <1>3, AnswersOnly DEF PrepareInvalid
<1>4. CASE PrepareDone
  <2>1. /\ Busy /\ Leave("PREVIEWING", hw) /\ signalAPIResult("PREPARE_SNAPSHOT", TRUE)
        /\ flags' = flags /\ notifier' = notifier
    BY <1>4 DEF PrepareDone, On
  <2> QED
    BY <1>1, <1>2, <2>1, RunningStates, LeaveHandled
<1> QED
  BY <1>3, <1>4

(* The states of a picture.                                                *)
LEMMA PicStates ==
  /\ {"PIC_TAKING"} \in SUBSET (States \ Camcorder) /\ {"PIC_TAKING"} \in SUBSET States
  /\ {"PIC_TAKING", "PREVIEW_PIC_TAKING"} \in SUBSET (States \ Camcorder)
  /\ {"PIC_TAKING", "PREVIEW_PIC_TAKING"} \in SUBSET States
  /\ {"PREVIEW_PIC_TAKING"} \in SUBSET (States \ Camcorder)
  /\ {"PREVIEW_PIC_TAKING"} \in SUBSET States
BY DEF States, Camcorder

(* Commits during a picture.                                               *)
LEMMA PicCommitHandled ==
  ASSUME Inv, PicCommit
  PROVE  Busy /\ Handled
<1>1. hw \in HW /\ m_state \in States
  BY DEF Inv, TypeInv
<1>2. {"COMMIT_PARAMS", "COMMIT_STOP_PREVIEW"} \in SUBSET ApiEvents
  BY DEF ApiEvents, Commits
<1>3. \A E : On({"PIC_TAKING"}, E) => Busy /\ m_state \in States \ Camcorder
  BY PicStates DEF On
<1>4. CASE /\ On({"PIC_TAKING"}, {"COMMIT_PARAMS", "COMMIT_STOP_PREVIEW"})
           /\ \E r \in commitParameterChanges(hw) : GotoWith(r, m_state, m_state, Restarted)
  <2>1. PICK r \in commitParameterChanges(hw) : GotoWith(r, m_state, m_state, Restarted)
    BY <1>4
  <2>2. Sound(hw, r)
    BY <1>1, CommitParameterChanges
  <2> QED
    BY <1>2, <1>3, <1>4, <2>1, <2>2, PicStates, MovesRestarted
<1>5. CASE /\ On({"PIC_TAKING"}, {"COMMIT_START_PREVIEW"})
           /\ Leave(m_state, hw) /\ signalEvtResult /\ Silent /\ UNCHANGED flags
  BY <1>1, <1>3, <1>5, LeavesSilently
<1> QED
  BY <1>4, <1>5 DEF PicCommit

(* A picture is cancelled.                                                 *)
LEMMA PicCancelHandled ==
  ASSUME Inv, PicCancel
  PROVE  Busy /\ Handled
<1>1. hw \in HW /\ cfg \in DOMAIN Config
  BY DEF Inv, TypeInv
<1>2. {"STOP_PREVIEW", "CANCEL_PICTURE"} \in SUBSET ApiEvents
  BY DEF ApiEvents, Listed
<1>3. Sound(hw, [h |-> cancelPicture(hw), ok |-> TRUE])
  BY <1>1, CancelPicture, Certain
<1> QED
  BY <1>2, <1>3, PicStates, RunningStates, Moves DEF PicCancel

(* Pictures during a picture: longshots.                                   *)
LEMMA PicTakeHandled ==
  ASSUME Inv, PicTake
  PROVE  Busy /\ Handled
<1>1. hw \in HW /\ cfg \in DOMAIN Config /\ m_state \in States
  BY DEF Inv, TypeInv
<1>2. /\ {"PRE_TAKE_PICTURE"} \in SUBSET ApiEvents /\ {"TAKE_PICTURE"} \in SUBSET ApiEvents
      /\ {"LONGSHOT_ON"} \in SUBSET ApiEvents /\ {"LONGSHOT_OFF"} \in SUBSET ApiEvents
  BY DEF ApiEvents, Listed
<1> DEFINE capturing == {"PIC_TAKING", "PREVIEW_PIC_TAKING"}
<1>3. CASE On(capturing, {"PRE_TAKE_PICTURE"}) /\ Stay([h |-> hw, ok |-> hw.longshot])
  <2>1. hw.longshot \in BOOLEAN
    BY <1>1 DEF HW
  <2>2. Sound(hw, [h |-> hw, ok |-> hw.longshot])
    BY <1>1, <2>1 DEF Sound, Outcomes
  <2> QED
    BY <1>2, <1>3, <2>2, PicStates, Stays
<1>4. CASE /\ On(capturing, {"TAKE_PICTURE"})
           /\ \E r \in IF hw.longshot THEN longShot(hw) ELSE Refused(hw) : Stay(r)
  <2>1. PICK r \in IF hw.longshot THEN longShot(hw) ELSE Refused(hw) : Stay(r)
    BY <1>4
  <2>2. r \in longShot(hw) \/ r \in Refused(hw)
    BY <2>1
  <2>3. Sound(hw, r)
    BY <1>1, <2>2, LongShot, RefusedOutcome
  <2> QED
    BY <1>2, <1>4, <2>1, <2>3, PicStates, Stays
<1>5. CASE /\ On(capturing, {"LONGSHOT_OFF"})
           /\ Goto([h |-> longshotOff(hw, TRUE), ok |-> TRUE], "PREVIEWING", m_state)
  <2>1. Sound(hw, [h |-> longshotOff(hw, TRUE), ok |-> TRUE])
    BY <1>1, LongshotOff, Certain
  <2>2. m_state \in States \ Camcorder
    BY <1>5, PicStates DEF On
  <2> QED
    BY <1>2, <1>5, <2>1, <2>2, PicStates, RunningStates, Moves
<1>6. CASE /\ On(capturing, {"LONGSHOT_ON"})
           /\ \E r \in longshotOn(hw, isCaptureRunning, isPreviewRunning) : Stay(r)
  BY <1>2, <1>6, PicStates, LongshotOnStays
<1> QED
  BY <1>3, <1>4, <1>5, <1>6 DEF PicTake

(* The capture channel is stopped, and the preview may come back early.    *)
LEMMA PicStopCaptureHandled ==
  ASSUME Inv, PicStopCapture
  PROVE  Busy /\ Handled
<1>1. hw \in HW /\ cfg \in DOMAIN Config
  BY DEF Inv, TypeInv
<1>2. {"STOP_CAPTURE_CHANNEL"} \in SUBSET ApiEvents
  BY DEF ApiEvents
<1>3. On({"PIC_TAKING"}, {"STOP_CAPTURE_CHANNEL"})
  BY DEF PicStopCapture
<1>4. PICK r \in Then(stopCaptureChannel(hw),
                     LAMBDA g : IF EarlyRestart THEN Then(preparePreview(g, TRUE), startPreview)
                                ELSE Done(g)) : Stay(r)
  BY DEF PicStopCapture
<1>5. PICK q \in stopCaptureChannel(hw) :
        r \in (IF q.ok THEN IF EarlyRestart THEN Then(preparePreview(q.h, TRUE), startPreview)
                           ELSE Done(q.h)
               ELSE {q})
  BY DEF Then
<1>6. Sound(hw, q) /\ q.h \in HW
  BY <1>1, StopCaptureChannel, SoundData
<1>7. r = q \/ r \in Then(preparePreview(q.h, TRUE), startPreview) \/ r \in Done(q.h)
  BY <1>5
<1>8. Sound(hw, r)
  BY <1>1, <1>6, <1>7, PrepareAndStart, DoneOutcome, Chain
<1> QED
  BY <1>2, <1>3, <1>4, <1>8, PicStates, Stays

(* The end of a picture.                                                   *)
LEMMA PicDoneHandled ==
  ASSUME Inv, PicDone
  PROVE  Busy /\ Handled
<1>1. hw \in HW /\ cfg \in DOMAIN Config
  BY DEF Inv, TypeInv
<1>2. /\ Busy /\ Leave(IF EarlyRestart THEN "PREVIEWING" ELSE "STOPPED", cancelPicture(hw))
      /\ signalEvtResult /\ Silent /\ flags' = flags
  BY DEF PicDone, On
<1>3. (IF EarlyRestart THEN "PREVIEWING" ELSE "STOPPED") \in States \ Camcorder
  BY RunningStates
<1>4. cancelPicture(hw) \in HW /\ cancelPicture(hw).msg = hw.msg
  BY <1>1, CancelPicture
<1> QED
  BY <1>2, <1>3, <1>4, LeavesSilently

(* What a picture refuses.                                                 *)
LEMMA PicInvalidHandled ==
  ASSUME Inv, PicInvalid
  PROVE  Busy /\ Handled
<1>1. {"SET_PREVIEW_WINDOW", "PREPARE_SNAPSHOT", "PRE_START_RECORDING", "RESTART_STOP_PREVIEW",
       "RESTART_START_PREVIEW", "START_RECORDING", "STOP_RECORDING", "PREPARE_PREVIEW",
       "START_PREVIEW", "RELEASE"} \in SUBSET ApiEvents
  BY DEF ApiEvents, Listed
<1> QED
  BY <1>1, PicStates, AnswersOnly DEF PicInvalid

-----------------------------------------------------------------------------
(* QCAMERA_SM_STATE_RECORDING and QCAMERA_SM_STATE_VIDEO_PIC_TAKING *)

(* The states of a recording.                                              *)
LEMMA RecordingStates ==
  /\ Camcorder \in SUBSET States /\ {"RECORDING"} \in SUBSET States
  /\ {"VIDEO_PIC_TAKING"} \in SUBSET States
  /\ {"RECORDING", "VIDEO_PIC_TAKING"} \subseteq States
  /\ {"RECORDING"} \subseteq Camcorder /\ {"VIDEO_PIC_TAKING"} \subseteq Camcorder
BY DEF Camcorder, States

(* A recording's handlers that touch no channel of it.                     *)
LEMMA RecordingGoes ==
  ASSUME Inv, NEW S \in SUBSET Camcorder, NEW E \in SUBSET ApiEvents, On(S, E),
         NEW r, Sound(hw, r), r.h.ch["VIDEO"] = hw.ch["VIDEO"],
         NEW good \in States, NEW bad \in States,
         Goto(r, good, bad) \/ GotoWith(r, good, bad, Restarted)
  PROVE  Busy /\ Handled
<1>1. Busy /\ Node.evt \in ApiEvents /\ r.h.ch["VIDEO"] = "started"
  BY DEF On, Inv, RecordingIsBacked, Camcorder
<1>2. r \in Outcomes /\ Kept(r.h, Restarted) /\ Restarted \in FlagSet
  BY RestartedTypes DEF Sound
<1> QED
  BY <1>1, <1>2, GotoHandled, GotoWithHandled

(* Commits refuse what needs a restart, and change no channel.             *)
LEMMA RecordingCommitHandled ==
  ASSUME Inv, RecordingCommit
  PROVE  Busy /\ Handled
<1>1. hw \in HW /\ m_state \in States
  BY DEF Inv, TypeInv
<1>2. /\ {"COMMIT_PARAMS"} \in SUBSET ApiEvents /\ {"COMMIT_STOP_PREVIEW"} \in SUBSET ApiEvents
      /\ {"COMMIT_START_PREVIEW"} \in SUBSET ApiEvents
  BY DEF ApiEvents, Commits
<1>3. PICK E \in {{"COMMIT_PARAMS"}, {"COMMIT_STOP_PREVIEW"}, {"COMMIT_START_PREVIEW"}} :
        /\ On(Camcorder, E)
        /\ \/ \E r \in Refused(hw) \cup commitParameterChanges(hw) :
                GotoWith(r, m_state, m_state, Restarted)
           \/ Ok
  BY DEF RecordingCommit
<1>4. CASE \E r \in Refused(hw) \cup commitParameterChanges(hw) :
             GotoWith(r, m_state, m_state, Restarted)
  <2>1. PICK r \in Refused(hw) \cup commitParameterChanges(hw) :
          GotoWith(r, m_state, m_state, Restarted)
    BY <1>4
  <2>2. Sound(hw, r) /\ r.h.ch = hw.ch
    BY <1>1, RefusedOutcome, CommitParameterChanges
  <2> QED
    BY <1>1, <1>2, <1>3, <2>1, <2>2, RecordingGoes
<1>5. CASE Ok
  BY <1>2, <1>3, <1>5, RecordingStates, AnswersOnly
<1> QED
  BY <1>3, <1>4, <1>5

(* The end of a recording.                                                 *)
LEMMA RecordingStopHandled ==
  ASSUME Inv, RecordingStop
  PROVE  Busy /\ Handled
<1>1. hw \in HW
  BY DEF Inv, TypeInv
<1>2. {"STOP_RECORDING"} \in SUBSET ApiEvents /\ {"STOP_PREVIEW"} \in SUBSET ApiEvents
  BY DEF ApiEvents, Listed
<1>3. CASE /\ On({"RECORDING"}, {"STOP_RECORDING"})
           /\ \E r \in stopRecording(hw) : Goto(r, "PREVIEWING", "PREVIEWING")
  BY <1>1, <1>2, <1>3, StopRecording, RecordingStates, RunningStates, Moves
<1>4. CASE /\ On({"RECORDING"}, {"STOP_PREVIEW"})
           /\ \E r \in stopRecording(hw) :
                Goto([h |-> stopPreview(r.h), ok |-> TRUE], "STOPPED", "STOPPED")
  <2>1. PICK r \in stopRecording(hw) : Goto([h |-> stopPreview(r.h), ok |-> TRUE], "STOPPED", "STOPPED")
    BY <1>4
  <2>2. r.h \in HW /\ r.h.msg = hw.msg
    BY <1>1, StopRecording, SoundData
  <2>3. Sound(hw, [h |-> stopPreview(r.h), ok |-> TRUE])
    BY <2>2, UnpreparePreview, Certain
  <2> QED
    BY <1>2, <1>4, <2>1, <2>3, RecordingStates, RunningStates, Moves
<1> QED
  BY <1>3, <1>4 DEF RecordingStop

(* A live snapshot, and longshots, of a recording.                         *)
LEMMA RecordingTakeHandled ==
  ASSUME Inv, RecordingTake \/ RecordingLongshot
  PROVE  Busy /\ Handled
<1>1. hw \in HW /\ m_state \in States /\ cfg \in DOMAIN Config
  BY DEF Inv, TypeInv
<1>2. /\ {"TAKE_PICTURE"} \in SUBSET ApiEvents /\ {"LONGSHOT_ON"} \in SUBSET ApiEvents
      /\ {"LONGSHOT_OFF"} \in SUBSET ApiEvents
  BY DEF ApiEvents, Listed
<1>3. CASE RecordingTake
  <2>1. On({"RECORDING"}, {"TAKE_PICTURE"})
    BY <1>3 DEF RecordingTake
  <2>2. PICK r \in takeLiveSnapshot(hw) : Goto(r, "VIDEO_PIC_TAKING", "RECORDING")
    BY <1>3 DEF RecordingTake
  <2>3. Sound(hw, r) /\ r.h.ch = hw.ch
    BY <1>1, TakeLiveSnapshot
  <2> QED
    BY <1>2, <2>1, <2>2, <2>3, RecordingStates, RecordingGoes
<1>4. CASE /\ On(Camcorder, {"LONGSHOT_ON"})
           /\ \E r \in longshotOn(hw, isCaptureRunning, isPreviewRunning) : Stay(r)
  BY <1>2, <1>4, RecordingStates, LongshotOnStays
<1>5. CASE /\ On(Camcorder, {"LONGSHOT_OFF"})
           /\ Stay([h |-> longshotOff(hw, isCaptureRunning), ok |-> TRUE])
  <2> DEFINE r == [h |-> longshotOff(hw, isCaptureRunning), ok |-> TRUE]
  <2>1. Sound(hw, r) /\ r.h.ch["VIDEO"] = hw.ch["VIDEO"]
    BY <1>1, LongshotOff, Certain
  <2>2. Goto(r, m_state, m_state)
    BY <1>5 DEF Stay
  <2> HIDE DEF r
  <2> QED
    BY <1>1, <1>2, <1>5, <2>1, <2>2, RecordingGoes
<1> QED
  BY <1>3, <1>4, <1>5 DEF RecordingLongshot

(* What a recording only answers.                                          *)
LEMMA RecordingOtherHandled ==
  ASSUME Inv, RecordingOther
  PROVE  Busy /\ Handled
<1>1. /\ {"SET_PREVIEW_WINDOW", "PREPARE_PREVIEW", "START_PREVIEW", "PRE_START_RECORDING",
          "RESTART_STOP_PREVIEW", "RESTART_START_PREVIEW", "START_RECORDING",
          "PREPARE_SNAPSHOT", "PRE_TAKE_PICTURE"} \in SUBSET ApiEvents
      /\ {"CANCEL_PICTURE", "RELEASE"} \in SUBSET ApiEvents
      /\ {"SET_PREVIEW_WINDOW", "PREPARE_PREVIEW", "START_PREVIEW", "PRE_START_RECORDING",
          "RESTART_STOP_PREVIEW", "RESTART_START_PREVIEW", "START_RECORDING",
          "PREPARE_SNAPSHOT", "PRE_TAKE_PICTURE", "TAKE_PICTURE", "RELEASE"} \in SUBSET ApiEvents
  BY DEF ApiEvents, Listed
<1> QED
  BY <1>1, RecordingStates, AnswersOnly DEF RecordingOther

(* A live snapshot is ended, and with it a recording.                      *)
LEMMA VideoPicStopHandled ==
  ASSUME Inv, VideoPicStop
  PROVE  Busy /\ Handled
<1>1. hw \in HW
  BY DEF Inv, TypeInv
<1>2. /\ {"STOP_RECORDING"} \in SUBSET ApiEvents /\ {"STOP_PREVIEW"} \in SUBSET ApiEvents
      /\ {"CANCEL_PICTURE"} \in SUBSET ApiEvents
  BY DEF ApiEvents, Listed
<1>3. CASE /\ On({"VIDEO_PIC_TAKING"}, {"STOP_RECORDING"})
           /\ \E c \in cancelLiveSnapshot(hw) : \E r \in stopRecording(c.h) :
                Goto(r, "PREVIEWING", "PREVIEWING")
  <2>1. PICK c \in cancelLiveSnapshot(hw) : \E r \in stopRecording(c.h) : Goto(r, "PREVIEWING", "PREVIEWING")
    BY <1>3
  <2>2. PICK r \in stopRecording(c.h) : Goto(r, "PREVIEWING", "PREVIEWING")
    BY <2>1
  <2>3. Sound(hw, c) /\ c.h \in HW
    BY <1>1, CancelLiveSnapshot, SoundData
  <2>4. Sound(hw, r)
    BY <2>3, StopRecording, Chain
  <2> QED
    BY <1>2, <1>3, <2>2, <2>4, RecordingStates, RunningStates, Moves
<1>4. CASE /\ On({"VIDEO_PIC_TAKING"}, {"STOP_PREVIEW"})
           /\ \E c \in cancelLiveSnapshot(hw) : \E r \in stopRecording(c.h) :
                Goto([h |-> stopPreview(r.h), ok |-> TRUE], "STOPPED", "STOPPED")
  <2>1. PICK c \in cancelLiveSnapshot(hw) : \E r \in stopRecording(c.h) :
          Goto([h |-> stopPreview(r.h), ok |-> TRUE], "STOPPED", "STOPPED")
    BY <1>4
  <2>2. PICK r \in stopRecording(c.h) : Goto([h |-> stopPreview(r.h), ok |-> TRUE], "STOPPED", "STOPPED")
    BY <2>1
  <2>3. Sound(hw, c) /\ c.h \in HW
    BY <1>1, CancelLiveSnapshot, SoundData
  <2>4. r.h \in HW /\ r.h.msg = hw.msg
    BY <2>3, StopRecording, Chain, SoundData
  <2>5. Sound(hw, [h |-> stopPreview(r.h), ok |-> TRUE])
    BY <2>4, UnpreparePreview, Certain
  <2> QED
    BY <1>2, <1>4, <2>2, <2>5, RecordingStates, RunningStates, Moves
<1>5. CASE /\ On({"VIDEO_PIC_TAKING"}, {"CANCEL_PICTURE"})
           /\ \E c \in cancelLiveSnapshot(hw) : Goto(c, "RECORDING", "RECORDING")
  <2>1. PICK c \in cancelLiveSnapshot(hw) : Goto(c, "RECORDING", "RECORDING")
    BY <1>5
  <2>2. Sound(hw, c) /\ c.h.ch["VIDEO"] = hw.ch["VIDEO"]
    BY <1>1, CancelLiveSnapshot
  <2> QED
    BY <1>2, <1>5, <2>1, <2>2, RecordingStates, RecordingGoes
<1> QED
  BY <1>3, <1>4, <1>5 DEF VideoPicStop

(* The snapshot is done and the recording goes on.                         *)
LEMMA VideoPicDoneHandled ==
  ASSUME Inv, VideoPicDone
  PROVE  Busy /\ Handled
<1>1. hw \in HW
  BY DEF Inv, TypeInv
<1>2. Busy /\ m_state = "VIDEO_PIC_TAKING" /\ signalEvtResult /\ Silent /\ flags' = flags
  BY DEF VideoPicDone, On
<1>3. PICK c \in cancelLiveSnapshot(hw) : Leave("RECORDING", c.h)
  BY DEF VideoPicDone
<1>4. c.h \in HW /\ c.h.msg = hw.msg /\ c.h.ch["VIDEO"] = hw.ch["VIDEO"]
  BY <1>1, CancelLiveSnapshot, SoundData
<1>5. hw.ch["VIDEO"] = "started"
  BY <1>2 DEF Inv, RecordingIsBacked
<1>6. flags' \in FlagSet /\ Kept(c.h, flags')
  BY <1>2, <1>4 DEF Inv, TypeInv, MessageIsKept, Kept
<1> QED
  BY <1>2, <1>3, <1>4, <1>5, <1>6, RecordingStates, LeaveHandled

-----------------------------------------------------------------------------
(* QCAMERA_SM_STATE_PREVIEW_PIC_TAKING *)

(* A picture of a running preview is cancelled.                            *)
LEMMA CancelPreviewPicture ==
  ASSUME hw \in HW, cfg \in DOMAIN Config, NEW c \in cancelPreviewPicture
  PROVE  Sound(hw, c)
<1>1. CASE c \in Done(cancelPicture(hw))
  <2>1. cancelPicture(hw) \in HW /\ cancelPicture(hw).msg = hw.msg
    BY CancelPicture
  <2> QED
    BY <1>1, <2>1, DoneOutcome DEF Sound
<1>2. CASE c \in cancelLiveSnapshot(hw)
  BY <1>2, CancelLiveSnapshot
<1> QED
  BY <1>1, <1>2 DEF cancelPreviewPicture

(* CANCEL_PICTURE and STOP_PREVIEW.                                        *)
LEMMA PreviewPicCancelHandled ==
  ASSUME Inv, PreviewPicCancel
  PROVE  Busy /\ Handled
<1>1. hw \in HW /\ cfg \in DOMAIN Config
  BY DEF Inv, TypeInv
<1>2. {"CANCEL_PICTURE"} \in SUBSET ApiEvents /\ {"STOP_PREVIEW"} \in SUBSET ApiEvents
  BY DEF ApiEvents, Listed
<1>3. CASE /\ On({"PREVIEW_PIC_TAKING"}, {"CANCEL_PICTURE"})
           /\ \E c \in cancelPreviewPicture : Goto(c, "PREVIEWING", "PREVIEWING")
  BY <1>1, <1>2, <1>3, CancelPreviewPicture, PicStates, RunningStates, Moves
<1>4. CASE /\ On({"PREVIEW_PIC_TAKING"}, {"STOP_PREVIEW"})
           /\ \E c \in cancelPreviewPicture :
                Goto([c EXCEPT !.h = unpreparePreview(c.h)], "STOPPED", "STOPPED")
  <2>1. PICK c \in cancelPreviewPicture :
          Goto([c EXCEPT !.h = unpreparePreview(c.h)], "STOPPED", "STOPPED")
    BY <1>4
  <2>2. Sound(hw, c) /\ c.h \in HW /\ c.h.msg = hw.msg
    BY <1>1, CancelPreviewPicture, SoundData
  <2>3. unpreparePreview(c.h) \in HW /\ unpreparePreview(c.h).msg = hw.msg
    BY <2>2, UnpreparePreview
  <2>4. Sound(hw, [c EXCEPT !.h = unpreparePreview(c.h)])
    BY <2>2, <2>3 DEF Sound, Outcomes
  <2> QED
    BY <1>2, <1>4, <2>1, <2>4, PicStates, RunningStates, Moves
<1> QED
  BY <1>3, <1>4 DEF PreviewPicCancel

(* A recording starts while a picture is taken.                            *)
LEMMA PreviewPicRecordHandled ==
  ASSUME Inv, PreviewPicRecord
  PROVE  Busy /\ Handled
<1>1. hw \in HW /\ cfg \in DOMAIN Config /\ m_state \in States
  BY DEF Inv, TypeInv
<1>2. {"PRE_START_RECORDING"} \in SUBSET ApiEvents /\ {"START_RECORDING"} \in SUBSET ApiEvents
  BY DEF ApiEvents, Listed
<1>3. CASE /\ On({"PREVIEW_PIC_TAKING"}, {"PRE_START_RECORDING"})
           /\ \E r \in IF ZslCapture THEN Refused(hw) ELSE preStartRecording(hw, TRUE) : Stay(r)
  <2>1. PICK r \in IF ZslCapture THEN Refused(hw) ELSE preStartRecording(hw, TRUE) : Stay(r)
    BY <1>3
  <2>2. r \in Refused(hw) \/ r \in preStartRecording(hw, TRUE)
    BY <2>1
  <2>3. Sound(hw, r)
    BY <1>1, <2>2, RefusedOutcome, PreStartRecording
  <2> QED
    BY <1>2, <1>3, <2>1, <2>3, PicStates, Stays
<1>4. CASE /\ On({"PREVIEW_PIC_TAKING"}, {"START_RECORDING"})
           /\ \E r \in IF ZslCapture THEN Refused(hw) ELSE startRecording(hw) :
                Goto(r, "VIDEO_PIC_TAKING", m_state)
  <2>1. PICK r \in IF ZslCapture THEN Refused(hw) ELSE startRecording(hw) :
          Goto(r, "VIDEO_PIC_TAKING", m_state)
    BY <1>4
  <2>2. r \in Refused(hw) \/ r \in startRecording(hw)
    BY <2>1
  <2>3. Sound(hw, r) /\ (r.ok => r.h.ch["VIDEO"] = "started")
    BY <1>1, <2>2, RefusedOutcome, StartRecording
  <2>4. Busy /\ Node.evt \in ApiEvents /\ m_state \notin Camcorder
    BY <1>2, <1>4, PicStates DEF On
  <2> QED
    BY <1>1, <2>1, <2>3, <2>4, RecordingStates, GotoHandled
<1> QED
  BY <1>3, <1>4 DEF PreviewPicRecord

(* The hardware is prepared while retro pictures are taken.                *)
LEMMA PreviewPicPrepareHandled ==
  ASSUME Inv, PreviewPicPrepare
  PROVE  Busy /\ Handled
<1>1. hw \in HW /\ {"PREPARE_SNAPSHOT"} \in SUBSET ApiEvents
  BY DEF Inv, TypeInv, ApiEvents, Listed
<1>2. On({"PREVIEW_PIC_TAKING"}, {"PREPARE_SNAPSHOT"})
  BY DEF PreviewPicPrepare
<1>3. PICK r \in IF hw.retro THEN prepareHardwareForSnapshot(hw) ELSE Refused(hw) :
        IF r.ok THEN Leave(m_state, r.h) /\ Silent /\ UNCHANGED <<flags, notifier>>
                ELSE Stay(r)
  BY DEF PreviewPicPrepare
<1>4. r \in prepareHardwareForSnapshot(hw) \/ r \in Refused(hw)
  BY <1>3
<1>5. Sound(hw, r) /\ r.h \in HW /\ r.h.msg = hw.msg
  BY <1>1, <1>4, PrepareHardware, RefusedOutcome, SoundData
<1>6. Busy /\ m_state \in States \ Camcorder
  BY <1>2, PicStates DEF On
<1>7. CASE r.ok
  BY <1>3, <1>5, <1>6, <1>7, LeavesSilently
<1>8. CASE ~r.ok
  BY <1>1, <1>2, <1>3, <1>5, <1>8, PicStates, Stays
<1> QED
  BY <1>6, <1>7, <1>8

(* The daemon's reports and the end of a picture.                          *)
LEMMA PreviewPicReportHandled ==
  ASSUME Inv, PreviewPicReport \/ PreviewPicDone
  PROVE  Busy /\ Handled
<1>1. hw \in HW /\ cfg \in DOMAIN Config
  BY DEF Inv, TypeInv
<1>2. {"PREPARE_SNAPSHOT", "TAKE_PICTURE", "SNAPSHOT_DONE"} \subseteq ApiEvents
  BY DEF ApiEvents, Listed
<1>3. Busy /\ m_state \in States \ Camcorder /\ flags' = flags
  BY PicStates DEF PreviewPicReport, PreviewPicDone, On
<1>4. flags' \in FlagSet /\ \A h : h.msg = hw.msg => Kept(h, flags')
  BY <1>3 DEF Inv, TypeInv, MessageIsKept, Kept
<1>5. /\ \/ Silent
         \/ \E e \in ApiEvents, ok \in BOOLEAN : signalAPIResult(e, ok)
      /\ notifier' = notifier \/ signalEvtResult
  <2>1. CASE PreviewPicReport
    BY <1>2, <2>1 DEF PreviewPicReport
  <2>2. CASE PreviewPicDone
    BY <1>2, <2>2 DEF PreviewPicDone
  <2> QED
    BY <2>1, <2>2
<1>6. CASE PreviewPicReport
  <2>1. Leave(m_state, hw)
    BY <1>6 DEF PreviewPicReport
  <2> QED
    BY <1>1, <1>3, <1>4, <1>5, <2>1, LeaveHandled
<1>7. CASE PreviewPicDone
  <2>1. PICK c \in cancelPreviewPicture : Leave("PREVIEWING", c.h)
    BY <1>7 DEF PreviewPicDone
  <2>2. c.h \in HW /\ c.h.msg = hw.msg
    BY <1>1, CancelPreviewPicture, SoundData
  <2> QED
    BY <1>3, <1>4, <1>5, <2>1, <2>2, RunningStates, LeaveHandled
<1> QED
  BY <1>6, <1>7

(* What a picture of a running preview refuses.                            *)
LEMMA PreviewPicInvalidHandled ==
  ASSUME Inv, PreviewPicInvalid
  PROVE  Busy /\ Handled
<1>1. {"SET_PREVIEW_WINDOW", "PREPARE_PREVIEW", "START_PREVIEW", "STOP_RECORDING", "RELEASE"}
        \in SUBSET ApiEvents
  BY DEF ApiEvents, Listed
<1> QED
  BY <1>1, PicStates, AnswersOnly DEF PreviewPicInvalid

(* What is not answered.                                                   *)
LEMMA UnansweredHandled ==
  ASSUME Inv, SnapshotDoneUnused \/ Unanswered
  PROVE  Busy /\ Handled
<1>1. /\ Busy /\ Leave(m_state, hw) /\ Silent /\ flags' = flags
      /\ notifier' = notifier \/ signalEvtResult
  BY DEF SnapshotDoneUnused, Unanswered, On
<1>2. hw \in HW /\ m_state \in States
  BY DEF Inv, TypeInv
<1>3. flags' \in FlagSet /\ Kept(hw, flags') /\ (m_state \in Camcorder => hw.ch["VIDEO"] = "started")
  BY <1>1 DEF Inv, TypeInv, MessageIsKept, Kept, RecordingIsBacked, Camcorder
<1> QED
  BY <1>1, <1>2, <1>3, LeaveHandled

(* Every step of the state machine keeps the invariant.                    *)
LEMMA StateMachineInv ==
  ASSUME Inv, StateMachine
  PROVE  Inv'
<1>1. Busy /\ Handled
  BY QueryHandled, SendCommandHandled, EnableMsgHandled, DisableMsgHandled, SetParamsHandled, PreviewEnabledHandled,
     EventHandled, StoppedCommitHandled, StoppedStartHandled, StoppedOtherHandled,
     ReadyCommitHandled, ReadyOtherHandled, PreviewingCommitHandled, PreviewingStreamHandled,
     PreviewingRecordHandled, PreviewingPrepareHandled, PreviewingTakeHandled,
     PreviewingLongshotHandled, PreviewingInvalidHandled, PrepareHandled, PicCommitHandled,
     PicCancelHandled, PicTakeHandled, PicStopCaptureHandled, PicDoneHandled, PicInvalidHandled,
     RecordingCommitHandled, RecordingStopHandled, RecordingTakeHandled, RecordingOtherHandled,
     VideoPicStopHandled, VideoPicDoneHandled, PreviewPicCancelHandled, PreviewPicRecordHandled,
     PreviewPicPrepareHandled, PreviewPicReportHandled, PreviewPicInvalidHandled,
     UnansweredHandled DEF StateMachine
<1> QED
  BY <1>1, HandledInv

-----------------------------------------------------------------------------
(* Calls and the other threads. *)

(* A step that leaves the state, the flags, the message and the video stream. *)
LEMMA QuietInv ==
  ASSUME Inv, m_state' = m_state, flags' = flags, cfg' = cfg,
         hw' \in HW, hw'.msg = hw.msg, hw'.ch["VIDEO"] = hw.ch["VIDEO"],
         results' \in Seq(ResultSet), woken' \subseteq Waiting',
         notifier' \in {"idle", "waiting"}, daemon' \in BOOLEAN, QueueInv'
  PROVE  Inv'
<1>1. TypeInv'
  BY DEF Inv, TypeInv
<1>2. MessageIsKept'
  BY DEF Inv, MessageIsKept
<1>3. RecordingIsBacked'
  BY DEF Inv, RecordingIsBacked
<1> QED
  BY <1>1, <1>2, <1>3 DEF Inv

(* The steps of a call that take pictures.                                 *)
LEMMA PictureSteps ==
  ASSUME NEW m \in BOOLEAN
  PROVE  /\ Prepare("run", m) \in Steps /\ Prepare("longshot", m) \in Steps
         /\ Prepare("always", m) \in Steps
<1>1. \A a \in {"run", "longshot", "always"} :
        /\ Ev("PREPARE_SNAPSHOT", a, m) = [evt |-> "PREPARE_SNAPSHOT", arg |-> a, must |-> m]
        /\ a \in Args
  BY ArgTypes DEF Ev
<1>2. "PREPARE_SNAPSHOT" \in ApiEvents \cup Own
  BY DEF ApiEvents, Listed
<1>3. \A a \in {"run", "longshot", "always"} : HasArg(Ev("PREPARE_SNAPSHOT", a, m))
  BY <1>1 DEF HasArg
<1>4. \A a \in {"run", "longshot", "always"} : Ev("PREPARE_SNAPSHOT", a, m) \in Steps
  BY <1>1, <1>2, <1>3 DEF Steps
<1> QED
  BY <1>4 DEF Prepare

(* Sequences of one to four elements, and one that gets longer.            *)
LEMMA Literals ==
  ASSUME NEW S, NEW a \in S, NEW b \in S, NEW c \in S, NEW d \in S
  PROVE  /\ <<a>> \in Seq(S) /\ <<a, b>> \in Seq(S)
         /\ <<a, b, c>> \in Seq(S) /\ <<a, b, c, d>> \in Seq(S)
<1>1. <<a>> \in Seq(S)
  OBVIOUS
<1>2. <<a, b>> \in Seq(S)
  OBVIOUS
<1>3. <<a, b, c>> \in Seq(S)
  OBVIOUS
<1>4. <<a, b, c, d>> \in Seq(S)
  OBVIOUS
<1> QED
  BY <1>1, <1>2, <1>3, <1>4

(* Every call is a sequence of steps.                                      *)
LEMMA ScriptType ==
  ASSUME NEW c \in CallNames, NEW p \in Params
  PROVE  Script(c, p) \in Seq(Steps)
<1>1. \A e \in (ApiEvents \cup Own) \ {"SET_PARAMS"} :
        /\ Do(e) \in Steps /\ Must(e) \in Steps
        /\ \A a, m \in BOOLEAN : Ev(e, a, m) \in Steps
  BY DoType DEF Do, Must
<1>2. {"SET_PREVIEW_WINDOW", "ENABLE_MSG_TYPE", "DISABLE_MSG_TYPE", "PREPARE_PREVIEW",
       "START_PREVIEW", "STOP_PREVIEW", "PREVIEW_ENABLED", "QUERY", "REG_FACE_IMAGE",
       "PRE_START_RECORDING", "START_RECORDING", "STOP_RECORDING", "PRE_TAKE_PICTURE",
       "TAKE_PICTURE", "CANCEL_PICTURE", "LONGSHOT_ON", "LONGSHOT_OFF", "RELEASE",
       "SEND_COMMAND", "SEND_COMMAND_RESTART", "COMMIT_PARAMS", "COMMIT_STOP_PREVIEW", "COMMIT_START_PREVIEW",
       "INT_DONE", "INT_CLEAR"} \subseteq (ApiEvents \cup Own) \ {"SET_PARAMS"}
  BY DEF ApiEvents, Listed, Commits, Own
<1>3. /\ Prepare("run", FALSE) \in Steps /\ Prepare("longshot", FALSE) \in Steps
      /\ Prepare("longshot", TRUE) \in Steps /\ Prepare("always", FALSE) \in Steps
  BY PictureSteps
<1>4. CASE c \in CallNames \ {"set_parameters", "start_recording", "take_picture",
                                "longshot_on", "internal_picture"}
  <2>1. \E v \in Steps : Script(c, p) = <<v>>
    BY <1>1, <1>2, <1>4 DEF Script, CallNames
  <2> QED
    BY <2>1, Literals
<1>5. CASE c \in {"start_recording", "longshot_on"}
  <2>1. \E v, w \in Steps : Script(c, p) = <<v>> \/ Script(c, p) = <<v, w>>
    BY <1>1, <1>2, <1>5 DEF Script
  <2> QED
    BY <2>1, Literals
<1>6. CASE c = "set_parameters"
  <2>1. Ev("SET_PARAMS", p, TRUE) \in Steps
    BY ArgTypes DEF Steps, Ev, HasArg, ApiEvents, Listed
  <2>2. /\ <<Ev("SET_PARAMS", p, TRUE)>> \in Seq(Steps)
        /\ <<Must("PREVIEW_ENABLED"), Must("COMMIT_STOP_PREVIEW"), Do("COMMIT_START_PREVIEW")>>
             \in Seq(Steps)
        /\ <<Do("COMMIT_PARAMS")>> \in Seq(Steps)
    BY <1>1, <1>2, <2>1, Literals
  <2>3. Script(c, p) =
          <<Ev("SET_PARAMS", p, TRUE)>> \o
          (IF Dual THEN <<Must("PREVIEW_ENABLED"), Must("COMMIT_STOP_PREVIEW"),
                          Do("COMMIT_START_PREVIEW")>>
                   ELSE <<Do("COMMIT_PARAMS")>>)
    BY <1>6 DEF Script
  <2> DEFINE set  == <<Ev("SET_PARAMS", p, TRUE)>>
             dual == <<Must("PREVIEW_ENABLED"), Must("COMMIT_STOP_PREVIEW"),
                       Do("COMMIT_START_PREVIEW")>>
             one  == <<Do("COMMIT_PARAMS")>>
  <2>4. set \in Seq(Steps) /\ dual \in Seq(Steps) /\ one \in Seq(Steps)
    BY <2>2
  <2>5. Script(c, p) = set \o (IF Dual THEN dual ELSE one)
    BY <2>3
  <2> HIDE DEF set, dual, one
  <2> QED
    BY <2>4, <2>5
<1>7. CASE c \in {"take_picture", "internal_picture"}
  <2>1. \E u, v, w, x \in Steps :
          Script(c, p) = <<u, v, w>> \/ Script(c, p) = <<u, v, w, x>>
    BY <1>1, <1>2, <1>3, <1>7 DEF Script
  <2> QED
    BY <2>1, Literals
<1> QED
  BY <1>4, <1>5, <1>6, <1>7 DEF CallNames

(* A caller sends the next event of its call.                              *)
LEMMA ProceedTypes ==
  ASSUME QueueInv, NEW t \in Threads, NEW s \in Seq(Steps), NEW h,
         Proceed(t, s, h), evt_queue' = evt_queue
  PROVE  QueueInv' /\ hw' = h /\ \A u \in Threads \ {t} : todo'[u] = todo[u]
<1>1. PICK flash \in BOOLEAN :
        LET rest == IF s # <<>> /\ Skips(Head(s), h, flash) THEN Tail(s) ELSE s
        IN /\ todo' = [todo EXCEPT ![t] = rest]
           /\ api_queue' = IF Sent(rest) THEN Append(api_queue, Queued(Head(rest)))
                           ELSE api_queue
           /\ hw' = h
  BY DEF Proceed
<1> DEFINE rest == IF s # <<>> /\ Skips(Head(s), h, flash) THEN Tail(s) ELSE s
<1>2. rest \in Seq(Steps)
  OBVIOUS
<1>3. /\ todo' = [todo EXCEPT ![t] = rest]
      /\ api_queue' = IF Sent(rest) THEN Append(api_queue, Queued(Head(rest))) ELSE api_queue
      /\ hw' = h
  BY <1>1
<1> HIDE DEF rest
<1>4. todo' \in [Threads -> Seq(Steps)]
  BY <1>2, <1>3 DEF QueueInv
<1>5. Sent(rest) => Queued(Head(rest)) \in Nodes
  <2> SUFFICES ASSUME Sent(rest)
               PROVE  Queued(Head(rest)) \in Nodes
    OBVIOUS
  <2>1. Head(rest) \in Steps /\ Head(rest).evt \notin Own
    BY <1>2 DEF Sent
  <2> QED
    BY <2>1, QueuedType
<1>6. api_queue' \in Seq(Nodes)
  BY <1>3, <1>5 DEF QueueInv
<1>7. \A u \in Threads \ {t} : todo'[u] = todo[u]
  BY <1>3 DEF QueueInv
<1> QED
  BY <1>3, <1>4, <1>6, <1>7 DEF QueueInv

(* The callers that are woken wait, as long as only others go on.          *)
LEMMA WokenWait ==
  ASSUME woken \subseteq Waiting, NEW t, \A u \in Threads \ {t} : todo'[u] = todo[u],
         woken' \subseteq woken, t \notin woken'
  PROVE  woken' \subseteq Waiting'
BY DEF Waiting

(* A call begins.                                                          *)
LEMMA NewCallInv ==
  ASSUME Inv, NewCall
  PROVE  Inv'
<1>1. PICK t \in Callers \cup {IntPic}, c \in Calls, p \in PayloadSet : Start(t, c, p)
  BY DEF NewCall
<1>2. cfg \in DOMAIN Config /\ hw \in HW /\ QueueInv
  BY DEF Inv, TypeInv
<1>3. t \in Threads /\ c \in CallNames /\ p \in Params
  BY <1>2, CameraAssumption DEF Callers, Calls, PayloadSet, Threads
<1> DEFINE b == RetroPicture(c)
           h == [hw EXCEPT !.retro = IF c \in {"take_picture", "internal_picture"} THEN b ELSE @]
<1>4. b \in BOOLEAN
  BY DEF RetroPicture
<1>5. Proceed(t, Script(c, p), h)
  BY <1>1 DEF Start
<1> HIDE DEF b
<1>6. h \in HW /\ h.msg = hw.msg /\ h.ch = hw.ch
  BY <1>2, <1>4 DEF HW
<1> HIDE DEF h
<1>7. /\ UNCHANGED <<m_state, flags, evt_queue, results, woken, notifier, daemon, cfg>>
  BY <1>1 DEF Start
<1>8. QueueInv' /\ hw' = h /\ \A u \in Threads \ {t} : todo'[u] = todo[u]
  BY <1>2, <1>3, <1>5, <1>7, ScriptType, ProceedTypes
<1>9. woken' \subseteq Waiting'
  <2>1. woken \subseteq Waiting
    BY DEF Inv, TypeInv
  <2>2. t \notin woken
    BY <1>1, <2>1 DEF Start, Waiting
  <2> QED
    BY <1>7, <1>8, <2>1, <2>2, WokenWait
<1> QED
  BY <1>6, <1>7, <1>8, <1>9, QuietInv DEF Inv, TypeInv

(* What a caller does with a result.                                       *)
LEMMA AfterResultTypes ==
  ASSUME hw \in HW, NEW v \in Steps, NEW r, NEW a \in AfterResult(v, r)
  PROVE  Sound(hw, a) /\ a.h.ch = hw.ch
<1>1. CASE a \in Done([hw EXCEPT !.prepRun = TRUE])
  <2>1. /\ [hw EXCEPT !.prepRun = TRUE] \in HW /\ [hw EXCEPT !.prepRun = TRUE].msg = hw.msg
        /\ [hw EXCEPT !.prepRun = TRUE].ch = hw.ch
    BY DEF HW
  <2> QED
    BY <1>1, <2>1, DoneOutcome DEF Sound
<1>2. CASE a \in Done([hw EXCEPT !.prepRun = hw.longshot /\ @])
  <2> DEFINE h == [hw EXCEPT !.prepRun = hw.longshot /\ @]
  <2>1. h \in HW /\ h.msg = hw.msg /\ h.ch = hw.ch
    BY DEF HW
  <2>2. a \in Done(h)
    BY <1>2
  <2> HIDE DEF h
  <2> QED
    BY <2>1, <2>2, DoneOutcome DEF Sound
<1>3. CASE v.evt = "RESTART_STOP_PREVIEW" /\ a \in updateRecordingHintValue(hw, v.arg)
  <2>1. v.arg \in BOOLEAN
    BY <1>3 DEF Steps, HasArg
  <2> QED
    BY <1>3, <2>1, UpdateRecordingHint
<1>4. CASE a \in Done([hw EXCEPT !.restart = FALSE])
  <2>1. /\ [hw EXCEPT !.restart = FALSE] \in HW /\ [hw EXCEPT !.restart = FALSE].msg = hw.msg
        /\ [hw EXCEPT !.restart = FALSE].ch = hw.ch
    BY DEF HW
  <2> QED
    BY <1>4, <2>1, DoneOutcome DEF Sound
<1>5. CASE a \in Done(hw)
  BY <1>5, DoneOutcome
<1> QED
  BY <1>1, <1>2, <1>3, <1>4, <1>5 DEF AfterResult

(* What is left of a call after an event.                                  *)
LEMMA AfterEventTypes ==
  ASSUME NEW v, NEW r \in ResultSet, NEW s \in Seq(Steps), NEW other \in BOOLEAN
  PROVE  AfterEvent(v, r, s, other) \in Seq(Steps)
<1>1. r.val \in BOOLEAN
  BY DEF ResultSet
<1>2. /\ "RESTART_STOP_PREVIEW" \in ApiEvents \cup Own
      /\ "RESTART_START_PREVIEW" \in ApiEvents \cup Own
      /\ "COMMIT_STOP_PREVIEW" \in ApiEvents \cup Own
      /\ "COMMIT_START_PREVIEW" \in ApiEvents \cup Own
  BY DEF ApiEvents, Listed, Commits
<1>3. /\ Ev("RESTART_STOP_PREVIEW", v.evt = "PRE_START_RECORDING", TRUE) \in Steps
      /\ Must("RESTART_START_PREVIEW") \in Steps
      /\ Ev("COMMIT_STOP_PREVIEW", r.val \/ other, TRUE) \in Steps
      /\ Ev("COMMIT_START_PREVIEW", r.val \/ other, FALSE) \in Steps
  BY <1>1, <1>2, DoType DEF Must
<1> DEFINE restart == <<Ev("RESTART_STOP_PREVIEW", v.evt = "PRE_START_RECORDING", TRUE),
                        Must("RESTART_START_PREVIEW")>>
           commit  == <<Ev("COMMIT_STOP_PREVIEW", r.val \/ other, TRUE),
                        Ev("COMMIT_START_PREVIEW", r.val \/ other, FALSE)>>
<1>4. restart \in Seq(Steps) /\ commit \in Seq(Steps)
  BY <1>3, Literals
<1>5. AfterEvent(v, r, s, other) \in {s, restart \o s, commit}
  BY DEF AfterEvent
<1> HIDE DEF restart, commit
<1>6. restart \o s \in Seq(Steps)
  BY <1>4
<1> QED
  BY <1>4, <1>5, <1>6

(* A list from which one entry has been taken.                             *)
LEMMA UnlinkTypes ==
  ASSUME results \in Seq(ResultSet), NEW i \in 1..Len(results)
  PROVE  Unlink(i) \in Seq(ResultSet)
<1>1. SubSeq(results, 1, i - 1) \in Seq(ResultSet)
  OBVIOUS
<1>2. SubSeq(results, i + 1, Len(results)) \in Seq(ResultSet)
  OBVIOUS
<1> QED
  BY <1>1, <1>2 DEF Unlink, RemoveAt

(* The natural numbers are well ordered.                                   *)
LEMMA LessThan ==
  \E R : IsWellFoundedOn(R, Nat) /\ \A ss \in Nat \X Nat : ss[1] < ss[2] => ss \in R
<1> WITNESS OpToRel(<, Nat)
<1> QED
  BY NatLessThanWellFounded, Zenon DEF OpToRel

(* A set of numbers has a least one.                                       *)
LEMMA Least ==
  ASSUME NEW S \in SUBSET Nat, S # {}
  PROVE  \E i \in S : \A j \in S : i <= j
<1>1. PICK R : IsWellFoundedOn(R, Nat) /\ \A ss \in Nat \X Nat : ss[1] < ss[2] => ss \in R
  BY LessThan
<1>2. PICK x \in S : \A y \in S : ~(<<y, x>> \in R)
  BY <1>1, WFMin
<1>3. \A y \in S : y < x => <<y, x>> \in R
  <2> TAKE y \in S
  <2>1. <<y, x>> \in Nat \X Nat /\ <<y, x>>[1] = y /\ <<y, x>>[2] = x
    OBVIOUS
  <2> QED
    BY <1>1, <2>1
<1>4. \A y \in S : ~(y < x)
  BY <1>2, <1>3, Zenon
<1>5. \A y \in S : x \in Nat /\ y \in Nat
  OBVIOUS
<1> QED
  BY <1>4, <1>5

(* A caller that wakes up takes its result, or waits on.                   *)
LEMMA WakeInv ==
  ASSUME Inv, NEW t \in Threads, Wake(t)
  PROVE  Inv'
<1> DEFINE v    == Head(todo[t])
           mine == ResultsOf(v.evt)
<1>1. /\ t \in woken /\ woken' = woken \ {t}
      /\ UNCHANGED <<m_state, flags, evt_queue, notifier, daemon, cfg>>
  BY DEF Wake
<1>2. /\ hw \in HW /\ QueueInv /\ results \in Seq(ResultSet) /\ woken \subseteq Waiting
      /\ notifier \in {"idle", "waiting"} /\ daemon \in BOOLEAN
  BY DEF Inv, TypeInv
<1>3. CASE mine = {}
  <2>1. UNCHANGED <<results, todo, api_queue, hw>>
    BY <1>3 DEF Wake
  <2>2. QueueInv'
    BY <1>1, <1>2, <2>1 DEF QueueInv
  <2>3. woken' \subseteq Waiting'
    BY <1>1, <1>2, <2>1, WokenWait
  <2> QED
    BY <1>1, <1>2, <2>1, <2>2, <2>3, QuietInv
<1>4. CASE mine # {}
  <2> DEFINE i == CHOOSE j \in mine : \A k \in mine : j <= k
             r == results[i]
             rest(a, other) ==
               IF v.must /\ ~(r.ok /\ a.ok) THEN <<>>
               ELSE IF t = IntPic /\ v.evt = "TAKE_PICTURE" /\ ~r.ok
               THEN <<Do("INT_CLEAR")>>
               ELSE AfterEvent(v, r, Tail(todo[t]), other)
  <2>1. mine \subseteq 1..Len(results) /\ mine \in SUBSET Nat
    BY <1>2 DEF ResultsOf
  <2>2. i \in mine
    BY <1>4, <2>1, Least
  <2>3. i \in 1..Len(results)
    BY <2>1, <2>2
  <2>4. r \in ResultSet
    BY <1>2, <2>3
  <2>5. v \in Steps /\ Tail(todo[t]) \in Seq(Steps)
    BY <1>1, <1>2 DEF Waiting, QueueInv
  <2>6. results' = Unlink(i)
    BY <1>4 DEF Wake
  <2>7. PICK a \in AfterResult(v, r), other \in BOOLEAN : Proceed(t, rest(a, other), a.h)
    BY <1>4 DEF Wake
  <2> HIDE DEF v, mine, i, r
  <2>8. Sound(hw, a) /\ a.h \in HW /\ a.h.msg = hw.msg /\ a.h.ch = hw.ch
    BY <1>2, <2>5, <2>7, AfterResultTypes, SoundData
  <2>9. rest(a, other) \in Seq(Steps)
    <3>1. Do("INT_CLEAR") \in Steps
      BY DoType DEF Do, Own
    <3>2. <<Do("INT_CLEAR")>> \in Seq(Steps)
      BY <3>1
    <3>3. AfterEvent(v, r, Tail(todo[t]), other) \in Seq(Steps)
      BY <2>4, <2>5, AfterEventTypes
    <3> QED
      BY <3>2, <3>3
  <2> HIDE DEF rest
  <2>10. QueueInv' /\ hw' = a.h /\ \A u \in Threads \ {t} : todo'[u] = todo[u]
    BY <1>1, <1>2, <2>7, <2>9, ProceedTypes
  <2>11. results' \in Seq(ResultSet)
    BY <1>2, <2>3, <2>6, UnlinkTypes
  <2>12. woken' \subseteq Waiting'
    BY <1>1, <1>2, <2>10, WokenWait
  <2> QED
    BY <1>1, <1>2, <2>8, <2>10, <2>11, <2>12, QuietInv
<1> QED
  BY <1>3, <1>4

(* The end of an internal picture.                                         *)
LEMMA IntPicInv ==
  ASSUME Inv, IntPicStep
  PROVE  Inv'
<1>1. /\ todo[IntPic] # <<>> /\ Head(todo[IntPic]).evt \in Own
      /\ todo' = [todo EXCEPT ![IntPic] = Tail(@)]
      /\ UNCHANGED <<m_state, flags, hw, evt_queue, results, woken, notifier, daemon, cfg>>
  BY DEF IntPicStep
<1>2. IntPic \in Threads /\ QueueInv /\ woken \subseteq Waiting
  BY DEF Threads, Inv, TypeInv
<1>3. Async("SNAPSHOT_DONE") \in Nodes /\ Async("START_PREVIEW") \in Nodes
  BY AsyncType DEF ApiEvents, Listed
<1>4. api_queue' \in Seq(Nodes)
  BY <1>2, <1>3 DEF IntPicStep, QueueInv
<1>5. /\ todo' \in [Threads -> Seq(Steps)]
      /\ \A u \in Threads \ {IntPic} : todo'[u] = todo[u]
  BY <1>1, <1>2 DEF QueueInv
<1>6. woken' \subseteq Waiting'
  BY <1>1, <1>2, <1>5, WokenWait DEF Waiting
<1>7. QueueInv'
  BY <1>1, <1>2, <1>4, <1>5 DEF QueueInv
<1> QED
  BY <1>1, <1>6, <1>7, QuietInv DEF Inv, TypeInv

(* A step that neither calls nor answers.                                  *)
LEMMA OthersInv ==
  ASSUME Inv, UNCHANGED <<m_state, flags, results, todo, woken, cfg>>,
         hw' \in HW, hw'.msg = hw.msg, hw'.ch["VIDEO"] = hw.ch["VIDEO"],
         notifier' \in {"idle", "waiting"}, daemon' \in BOOLEAN,
         api_queue' \in Seq(Nodes), evt_queue' \in Seq(EventNodes)
  PROVE  Inv'
<1>1. QueueInv' /\ woken' \subseteq Waiting'
  BY DEF Inv, TypeInv, QueueInv, Waiting
<1> QED
  BY <1>1, QuietInv DEF Inv, TypeInv

(* The live snapshot thread ends.                                          *)
LEMMA LiveSnapshotInv ==
  ASSUME Inv, LiveSnapshot
  PROVE  Inv'
<1>1. hw \in HW /\ api_queue \in Seq(Nodes) /\ evt_queue \in Seq(EventNodes)
  BY DEF Inv, TypeInv, QueueInv
<1>2. PICK e \in liveSnapshotEnds(hw) :
        /\ hw' = e.h
        /\ api_queue' = IF e.cancel THEN Append(api_queue, Async("CANCEL_PICTURE")) ELSE api_queue
  BY DEF LiveSnapshot
<1>3. e.h \in HW /\ e.h.msg = hw.msg /\ e.h.ch["VIDEO"] = hw.ch["VIDEO"]
  BY <1>1, LiveSnapshotEnds
<1>4. Async("CANCEL_PICTURE") \in Nodes
  BY AsyncType DEF ApiEvents, Listed
<1>5. api_queue' \in Seq(Nodes)
  BY <1>1, <1>2, <1>4
<1>6. UNCHANGED <<m_state, flags, evt_queue, results, todo, woken, notifier, daemon, cfg>>
  BY DEF LiveSnapshot
<1> QED
  BY <1>1, <1>2, <1>3, <1>5, <1>6, OthersInv DEF Inv, TypeInv

(* The daemon reports.                                                     *)
LEMMA ReportInv ==
  ASSUME Inv, Report
  PROVE  Inv'
<1>1. hw \in HW /\ api_queue \in Seq(Nodes) /\ evt_queue \in Seq(EventNodes)
  BY DEF Inv, TypeInv, QueueInv
<1>2. UNCHANGED <<m_state, flags, api_queue, results, todo, woken, notifier, daemon, cfg>>
  BY DEF Report
<1>3. hw' \in HW /\ hw'.msg = hw.msg /\ hw'.ch = hw.ch
  <2>1. hw' = [hw EXCEPT !.prep = FALSE] \/ hw' = [hw EXCEPT !.ready = FALSE]
    BY DEF Report
  <2>2. CASE hw' = [hw EXCEPT !.prep = FALSE]
    BY <1>1, <2>2 DEF HW
  <2>3. CASE hw' = [hw EXCEPT !.ready = FALSE]
    BY <1>1, <2>3 DEF HW
  <2> QED
    BY <2>1, <2>2, <2>3
<1>4. Async("PREP_SNAPSHOT_DONE") \in EventNodes /\ Async("READY_FOR_SNAPSHOT") \in EventNodes
  BY EventType DEF Events
<1>5. evt_queue' \in Seq(EventNodes)
  <2>1. \E e \in EventNodes : evt_queue' = Append(evt_queue, e)
    BY <1>4 DEF Report
  <2> QED
    BY <1>1, <2>1
<1> QED
  BY <1>1, <1>2, <1>3, <1>5, OthersInv DEF Inv, TypeInv

(* The post processor and the notifier.                                    *)
LEMMA PictureEndsInv ==
  ASSUME Inv, StopCapture \/ SnapshotDone
  PROVE  Inv'
<1>1. hw \in HW /\ api_queue \in Seq(Nodes) /\ evt_queue \in Seq(EventNodes)
  BY DEF Inv, TypeInv, QueueInv
<1>2. UNCHANGED <<m_state, flags, results, todo, woken, daemon, cfg>>
  BY DEF StopCapture, SnapshotDone
<1>3. hw' \in HW /\ hw'.msg = hw.msg /\ hw'.ch = hw.ch
  BY <1>1, SetPicture DEF StopCapture, SnapshotDone
<1>4. Async("STOP_CAPTURE_CHANNEL") \in Nodes /\ Async("SNAPSHOT_DONE") \in EventNodes
  BY AsyncType, EventType DEF ApiEvents, Events
<1>5. api_queue' \in Seq(Nodes) /\ evt_queue' \in Seq(EventNodes)
  <2>1. api_queue' = api_queue \/ \E v \in Nodes : api_queue' = Append(api_queue, v)
    BY <1>4 DEF StopCapture, SnapshotDone
  <2>2. evt_queue' = evt_queue \/ \E e \in EventNodes : evt_queue' = Append(evt_queue, e)
    BY <1>4 DEF StopCapture, SnapshotDone
  <2>3. api_queue' \in Seq(Nodes)
    BY <1>1, <2>1
  <2>4. evt_queue' \in Seq(EventNodes)
    BY <1>1, <2>2
  <2> QED
    BY <2>3, <2>4
<1>6. notifier' \in {"idle", "waiting"}
  BY DEF StopCapture, SnapshotDone, Inv, TypeInv
<1> QED
  BY <1>1, <1>2, <1>3, <1>5, <1>6, OthersInv DEF Inv, TypeInv

(* Notifications, and the death of the daemon.                             *)
LEMMA NotificationInv ==
  ASSUME Inv, Notification \/ Die
  PROVE  Inv'
<1>1. hw \in HW /\ api_queue \in Seq(Nodes) /\ evt_queue \in Seq(EventNodes)
  BY DEF Inv, TypeInv, QueueInv
<1>2. UNCHANGED <<m_state, flags, hw, api_queue, results, todo, woken, notifier, cfg>>
  BY DEF Notification, Die
<1>3. Async("NOTIFY") \in EventNodes /\ Async("DAEMON_DIED") \in EventNodes
  BY EventType DEF Events
<1>4. evt_queue' \in Seq(EventNodes) /\ daemon' \in BOOLEAN
  <2>1. \E e \in EventNodes : evt_queue' = Append(evt_queue, e)
    BY <1>3 DEF Notification, Die
  <2>2. daemon' = daemon \/ daemon' = FALSE
    BY DEF Notification, Die
  <2>3. daemon \in BOOLEAN
    BY DEF Inv, TypeInv
  <2>4. evt_queue' \in Seq(EventNodes)
    BY <1>1, <2>1
  <2> QED
    BY <2>2, <2>3, <2>4
<1> QED
  BY <1>1, <1>2, <1>4, OthersInv DEF Inv, TypeInv

-----------------------------------------------------------------------------
(* The specification. *)

(* The camera that has just been opened.                                   *)
LEMMA InitInv ==
  Init => Inv
<1> SUFFICES ASSUME Init
             PROVE  Inv
  OBVIOUS
<1>1. hw \in HW /\ hw.msg = FALSE
  <2>1. [c \in Channels |-> "none"] \in [Channels -> {"none", "added", "started"}]
    OBVIOUS
  <2> QED
    BY <2>1 DEF Init, InitHW, HW
<1>2. flags \in FlagSet /\ flags.asked = FALSE
  <2>1. flags = [delay |-> FALSE, delayed |-> FALSE, needsRestart |-> FALSE,
                 delayedRestart |-> FALSE, asked |-> FALSE]
    BY DEF Init
  <2>2. flags.asked = FALSE
    BY <2>1
  <2>3. flags \in FlagSet
    <3>1. DOMAIN flags = {"delay", "delayed", "needsRestart", "delayedRestart", "asked"}
      BY <2>1
    <3>2. \A x \in {"delay", "delayed", "needsRestart", "delayedRestart", "asked"} :
            flags[x] = FALSE
      BY <2>1
    <3>3. flags = [x \in DOMAIN flags |-> flags[x]]
      BY <2>1, Zenon
    <3> QED
      BY <3>1, <3>2, <3>3 DEF FlagSet
  <2> QED
    BY <2>2, <2>3
<1>3. QueueInv /\ results \in Seq(ResultSet) /\ woken \subseteq Waiting
  BY DEF Init, QueueInv
<1>4. TypeInv
  BY <1>1, <1>2, <1>3 DEF Init, TypeInv, States
<1>5. MessageIsKept /\ RecordingIsBacked
  BY <1>2 DEF Init, MessageIsKept, RecordingIsBacked
<1> QED
  BY <1>4, <1>5 DEF Inv

(* No step leaves the invariant.                                           *)
LEMMA NextInv ==
  ASSUME Inv, [Next]_vars
  PROVE  Inv'
<1>1. CASE UNCHANGED vars
  BY <1>1 DEF vars, Inv, TypeInv, QueueInv, Waiting, MessageIsKept, RecordingIsBacked
<1>2. CASE StateMachine
  BY <1>2, StateMachineInv
<1>3. CASE NewCall
  BY <1>3, NewCallInv
<1>4. CASE \E t \in Threads : Wake(t)
  BY <1>4, WakeInv
<1>5. CASE IntPicStep
  BY <1>5, IntPicInv
<1>6. CASE LiveSnapshot
  BY <1>6, LiveSnapshotInv
<1>7. CASE Report
  BY <1>7, ReportInv
<1>8. CASE StopCapture \/ SnapshotDone
  BY <1>8, PictureEndsInv
<1>9. CASE Notification \/ Die
  BY <1>9, NotificationInv
<1> QED
  BY <1>1, <1>2, <1>3, <1>4, <1>5, <1>6, <1>7, <1>8, <1>9 DEF Next

(* The invariant holds throughout.                                         *)
LEMMA AlwaysInv ==
  Spec => []Inv
<1>1. Inv /\ [Next]_vars => Inv'
  BY NextInv
<1> QED
  BY InitInv, <1>1, PTL DEF Spec

(* The variables of the state machine, the HAL's data, the queues and the  *)
(* results keep their shapes, and every queued event is one that its       *)
(* sender may send.                                                        *)
THEOREM TypeCorrect == Spec => []TypeOK
<1>1. Inv => TypeOK
  BY TypeInvTypeOK DEF Inv
<1> QED
  BY AlwaysInv, <1>1, PTL

(* A preview frame message that the application has enabled last is not    *)
(* lost, through delayed messages, restarts of the preview and refusals of *)
(* the daemon (m_bDelayPreviewMsgs, applyDelayedMsgs).                     *)
THEOREM MessagesAreKept == Spec => []MessageIsKept
<1>1. Inv => MessageIsKept
  BY DEF Inv
<1> QED
  BY AlwaysInv, <1>1, PTL

(* A recording has its video stream, whatever is called, answered late or  *)
(* refused meanwhile (procEvtRecordingState, procEvtVideoPicTakingState).  *)
THEOREM RecordingsAreBacked == Spec => []RecordingIsBacked
<1>1. Inv => RecordingIsBacked
  BY DEF Inv
<1> QED
  BY AlwaysInv, <1>1, PTL

(* A caller that a broadcast has released still waits for its result, so   *)
(* that it always finds the event it called for (waitAPIResult).           *)
THEOREM ReleasedCallersWait == Spec => [](woken \subseteq Waiting)
<1>1. Inv => woken \subseteq Waiting
  BY DEF Inv, TypeInv
<1> QED
  BY AlwaysInv, <1>1, PTL
=============================================================================
