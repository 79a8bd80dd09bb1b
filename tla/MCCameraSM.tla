---------------------------- MODULE MCCameraSM ----------------------------
(* Configurations of the camera's state machine for TLC. *)
EXTENDS CameraSM

CONSTANTS c1, c2   \* two API callers

(* Calls: of the preview, then with what each configuration adds to them. *)
Preview   == {"set_preview_window", "start_preview", "stop_preview"}
Messages  == {"enable_msg_type", "disable_msg_type"}
Recording == {"start_recording", "stop_recording"}
Pictures  == {"take_picture", "cancel_picture"}
PicsParams == Preview \cup Pictures \cup {"set_parameters"}

(* Parameters. *)
Basic     == {[zsl |-> FALSE, hint |-> FALSE]}
ZslOnOff  == {[zsl |-> z, hint |-> FALSE] : z \in BOOLEAN}
HintOnOff == {[zsl |-> FALSE, hint |-> b] : b \in BOOLEAN}

Plainest ==
  [callers |-> {c1}, calls |-> {}, payloads |-> Basic, dual |-> FALSE, ubwc |-> FALSE,
   lowPower |-> FALSE, picCh |-> "CAPTURE", faults |-> {}, retro |-> FALSE,
   earlyRestart |-> FALSE, regularOnly |-> TRUE, mayDie |-> FALSE, notices |-> FALSE,
   maxPending |-> 2]

(* One application: all calls but those of recordings and longshots. *)
Still == [Plainest EXCEPT !.payloads = ZslOnOff, !.maxPending = 3,
            !.calls = CallNames \ (Recording \cup {"longshot_on", "longshot_off",
                                                   "internal_picture"})]

(* Recordings and longshots, with a daemon that refuses anything. *)
Video == [Plainest EXCEPT !.ubwc = TRUE, !.faults = FaultKinds,
            !.calls = Preview \cup Pictures \cup Recording \cup {"longshot_on", "longshot_off"}]

(* Two cameras in sync. *)
TwoCameras == [Plainest EXCEPT !.dual = TRUE, !.payloads = ZslOnOff,
                 !.calls = PicsParams \cup Recording \cup {"longshot_on", "send_command"}]

(* Two callers. *)
TwoCallers == [Plainest EXCEPT !.callers = {c1, c2}, !.payloads = HintOnOff, !.maxPending = 5,
                 !.calls = Preview \cup Recording \cup Messages
                            \cup {"set_parameters", "send_command"}]

(* Pictures of a recording and others; a live snapshot may be refused, and its *)
(* thread then asks for a cancellation.                                        *)
Live == [Plainest EXCEPT !.faults = {"configure", "picture"},
           !.calls = Preview \cup Recording \cup Pictures]

(* Retro pictures, notifications, and a daemon that may die. *)
Mortal == [Plainest EXCEPT !.retro = TRUE, !.mayDie = TRUE, !.notices = TRUE,
             !.payloads = ZslOnOff, !.calls = PicsParams]

(* The early restart of the preview, and internal pictures. *)
Early == [Plainest EXCEPT !.earlyRestart = TRUE, !.regularOnly = FALSE, !.maxPending = 3,
            !.calls = Preview \cup Pictures \cup {"internal_picture"}]

SafetyConfig == [still |-> Still, video |-> Video, dual |-> TwoCameras, callers |-> TwoCallers,
                 mortal |-> Mortal]
ThreadConfig == [early |-> Early, live |-> Live, callers |-> TwoCallers, mortal |-> Mortal]
=============================================================================
