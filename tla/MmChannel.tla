----------------------------- MODULE MmChannel -----------------------------
(***************************************************************************)
(* A camera channel with bundled streams, from the start of its streams to *)
(* the end of mm_channel_stop.  Four kinds of thread meet here: the data   *)
(* poll thread takes frames from the kernel (mm_stream_data_notify), the   *)
(* channel's command thread matches them into super buffers                *)
(* (mm_channel_process_stream_buf), the HAL's threads return buffers       *)
(* (mm_camera_qbuf takes no channel lock), and the caller of the interface *)
(* requests, flushes and stops under ch_lock.                              *)
(*                                                                         *)
(* Only the command thread touches the queue, so a command is one step;    *)
(* the reference counts of the buffers are shared, each change of one is   *)
(* made under its stream's buf_lock.                                       *)
(***************************************************************************)
EXTENDS SuperBufQueue

CONSTANTS Channels,     \* the channels a run chooses from: attr, streams, linked,
                        \* cbs, the streams with a data callback of their own,
                        \* metas, what its metadata frames may announce, and
                        \* two bounds: frames, the last frame index, and calls, the
                        \* calls made before the channel is stopped
          BufNum,       \* buffers of each stream
          MaxFrame,     \* bound: frame indices are 0..MaxFrame for every channel
          Requests,     \* <<num_buf, num_retro>> of the requests
          FlushTo,      \* frame indices given to a flush
          MaxCmds       \* bound: length of the command queue

ASSUME BufNumAssumption == BufNum \in Nat \ {0}

\* What a channel is configured with, and what metadata may announce; -1 says
\* that it announces nothing of the kind.
Attributes ==
    [notify_mode : {"BURST", "CONTINUOUS"}, priority : {"NORMAL", "LOW"},
     water_mark : Nat, look_back : Nat, post_frame_skip : Nat, max_unmatched_frames : Nat]

Announcements ==
    {m \in [prep : {"none", "done", "future"}, good : Nat \cup {-1},
            led_off : Nat \cup {-1}, skip : Nat \cup {-1}, divert : Nat \cup {-1}] :
        m.good # -1 => m.led_off # -1 /\ m.skip # -1}

ASSUME ChannelsAssumption ==
    /\ MaxFrame \in Nat /\ Requests \subseteq Nat \X Nat /\ FlushTo \subseteq Nat
    /\ \A k \in Channels :
        /\ k.attr \in Attributes /\ k.streams \subseteq Streams /\ k.linked \in BOOLEAN
        /\ k.cbs \subseteq Streams /\ k.metas \subseteq Announcements
        /\ k.frames \in Nat /\ k.calls \in Nat

VARIABLES ch,        \* the channel and its super buffer queue
          cmds,      \* cmd_thread.cmd_queue
          thread,    \* the command thread: "running", "leaving" or "gone"
          last,      \* the newest frame each stream has delivered
          refcnt,    \* buf_refcnt of the buffer that holds a frame
          queued,    \* queued_buffer_count of each stream
          active,    \* the streams in MM_STREAM_STATE_ACTIVE
          super,     \* buffers in super buffers handed to the HAL
          app,       \* buffers in stream callbacks of the HAL
          lost,      \* buffers the HAL has given back to no stream
          given,     \* the last super buffer handed to the HAL
          caller,    \* where the caller is: "idle", "flushing", "stopping",
                     \* "unlinking", "unlinked", "joining" or "returned"
          calls      \* calls made, bounded by ch.calls

vars == <<ch, cmds, thread, last, refcnt, queued, active, super, app, lost, given,
          caller, calls>>

Frames == 0..MaxFrame

Plain == [prep |-> "none", good |-> -1, led_off |-> -1, skip |-> -1, divert |-> -1]

NewChannel(k) ==
    [attr |-> k.attr, streams |-> k.streams, linked |-> k.linked,
     cbs |-> k.cbs, metas |-> k.metas, frames |-> k.frames, calls |-> k.calls,
     que |-> <<>>, match_cnt |-> 0, expected_frame_id |-> 0,
     nomatch_frame_id |-> 0, diverted_frame_id |-> 0, pending_cnt |-> 0,
     pending_retro_cnt |-> 0, bWaitForPrepSnapshotDone |-> FALSE,
     needLEDFlash |-> FALSE, startZSlSnapshotCalled |-> FALSE,
     manualZSLSnapshot |-> FALSE, bracketingState |-> "OFF",
     burstSnapNum |-> 0, stopZslSnapshot |-> FALSE, led_off_start_frame_id |-> 0,
     frame_skip_count |-> 0, once |-> FALSE, zsl |-> FALSE, spins |-> FALSE,
     rel |-> {}, out |-> <<>>]

Init ==
    /\ ch \in {NewChannel(k) : k \in Channels}
    /\ cmds = <<>> /\ thread = "running"
    /\ last = [s \in Streams |-> -1]
    /\ refcnt = [s \in Streams |-> [f \in Frames |-> 0]]
    /\ queued = [s \in Streams |-> BufNum]
    /\ active = ch.streams
    /\ super = {} /\ app = {} /\ lost = {}
    /\ given = [s \in Streams |-> 0]
    /\ caller = "idle" /\ calls = 0

-----------------------------------------------------------------------------
(* Buffers.                                                                *)

\* mm_stream_buf_done for a set of buffers: drop one reference of each; the
\* last one queues the buffer again.  A stream that is not active ignores it.
Counts(bufs) == [s \in Streams |-> [f \in Frames |->
    IF <<s, f>> \in bufs /\ s \in active /\ refcnt[s][f] > 0
    THEN refcnt[s][f] - 1 ELSE refcnt[s][f]]]

\* Mutant: every return queues the buffer, not the last one.
Requeued_Each(bufs) == [s \in Streams |-> queued[s] +
    Cardinality({f \in Frames : <<s, f>> \in bufs /\ s \in active})]

Requeued(bufs) == [s \in Streams |-> queued[s] + Cardinality(
    {f \in Frames : <<s, f>> \in bufs /\ s \in active /\ refcnt[s][f] = 1})]

buf_done(bufs) == refcnt' = Counts(bufs) /\ queued' = Requeued(bufs)

\* The metadata stream may belong to another channel, which goes on with it
\* when this one stops.
IsLinked(s) == ch.linked /\ s = Meta

\* The poll thread takes frame f of stream s from the kernel; frames may be
\* lost, so f need not be the next one.
data_notify(s) ==
    /\ s \in active /\ queued[s] > 0
    /\ IsLinked(s) => caller \in {"idle", "flushing", "stopping"}
    /\ Len(cmds) < MaxCmds
    /\ \E f \in Frames, m \in (IF s = Meta /\ ~ch.linked THEN ch.metas ELSE {Plain}) :
        /\ f > last[s] /\ f <= ch.frames
        /\ last' = [last EXCEPT ![s] = f]
        /\ refcnt' = [refcnt EXCEPT ![s][f] = IF s \in ch.cbs THEN 2 ELSE 1]
        /\ queued' = [queued EXCEPT ![s] = @ - 1]
        /\ cmds' = Append(cmds, [op |-> "DATA", s |-> s, f |-> f, m |-> m])
        /\ app' = IF s \in ch.cbs THEN app \cup {<<s, f>>} ELSE app
    /\ UNCHANGED <<ch, thread, active, super, lost, given, caller, calls>>

\* The HAL returns a buffer of a super buffer (QCameraChannel::bufDone), or of
\* a stream callback.  Once QCameraChannel::stop has taken a linked stream off
\* the list that bufDone looks in (the step stop), its buffer is not found.
ReturnSuper ==
    /\ \E b \in super :
        /\ super' = super \ {b}
        /\ \/ /\ ~IsLinked(b[1]) \/ caller \in {"idle", "flushing"}
              /\ buf_done({b}) /\ lost' = lost
           \/ /\ IsLinked(b[1]) /\ caller \notin {"idle", "flushing"}
              /\ lost' = lost \cup {b} /\ UNCHANGED <<refcnt, queued>>
    /\ UNCHANGED <<ch, cmds, thread, last, active, app, given, caller, calls>>

ReturnApp ==
    /\ \E b \in app : app' = app \ {b} /\ buf_done({b})
    /\ UNCHANGED <<ch, cmds, thread, last, active, super, lost, given, caller, calls>>

-----------------------------------------------------------------------------
(* The command thread.                                                     *)

request(c, n, retro) ==
    LET k == IF n = 0 \/ retro > n THEN n ELSE retro
    IN skip([c EXCEPT !.pending_cnt = n, !.pending_retro_cnt = k,
                      !.bWaitForPrepSnapshotDone = FALSE, !.stopZslSnapshot = FALSE,
                      !.needLEDFlash = @ /\ k = 0])

bracketing(c, on) ==
    [flush(c) EXCEPT !.bracketingState =
        IF on THEN "WAIT_GOOD_FRAME_IDX" ELSE "OFF"]

\* A command up to the part that all but FLUSH share.
Command(c, cmd) ==
    CASE cmd.op = "DATA"          -> comp_and_enqueue(c, cmd.s, cmd.f, cmd.m)
      [] cmd.op = "REQ"           -> request(c, cmd.n, cmd.retro)
      [] cmd.op = "START_ZSL"     -> [c EXCEPT !.manualZSLSnapshot = TRUE, !.zsl = TRUE]
      [] cmd.op = "STOP_ZSL"      -> [c EXCEPT !.manualZSLSnapshot = FALSE, !.zsl = FALSE]
      [] cmd.op = "CONFIG_NOTIFY" -> [c EXCEPT !.attr.notify_mode = cmd.mode]
      [] cmd.op = "BRACKETING"    -> bracketing(c, cmd.on)
      [] cmd.op = "FLUSH"         ->
            [flush([c EXCEPT !.expected_frame_id = cmd.f])
                EXCEPT !.rel = {b \in @ : cmd.all \/ b[1] = Meta}]

Processed(c, cmd) ==
    IF cmd.op = "FLUSH" \/ Command(c, cmd).spins THEN Command(c, cmd)
    ELSE AfterCommand(Command(c, cmd))

SlotBufs(slots) == {<<s, slots[s]>> : s \in ch.streams}

\* The command thread takes a command off its queue.
TakeCommand ==
    /\ thread # "gone" /\ ~ch.spins
    /\ cmds # <<>> /\ Head(cmds).op # "EXIT"
    /\ cmds' = Tail(cmds) /\ thread' = thread

\* One command: what it releases goes back to the streams, what it completes
\* goes to the callback thread of the HAL.
process_stream_buf ==
    /\ TakeCommand
    /\ LET c == Processed(ch, Head(cmds))
           n == Len(c.out)
       IN /\ ch' = [c EXCEPT !.rel = {}, !.out = <<>>]
          /\ buf_done(c.rel)
          /\ super' = super \cup UNION {SlotBufs(c.out[i]) : i \in 1..n}
          /\ given' = IF n = 0 THEN given ELSE c.out[n]
    /\ caller' = IF Head(cmds).op # "FLUSH" THEN caller
                 ELSE IF caller = "flushing" THEN "idle" ELSE "unlinked"
    /\ UNCHANGED <<last, active, app, lost, calls>>

\* EXIT ends the thread once the queue is empty.
cmd_thread_exit ==
    /\ thread # "gone" /\ ~ch.spins
    /\ \/ /\ cmds # <<>> /\ Head(cmds).op = "EXIT"
          /\ cmds' = Tail(cmds) /\ thread' = "leaving"
       \/ /\ cmds = <<>> /\ thread = "leaving"
          /\ cmds' = cmds /\ thread' = "gone"
    /\ UNCHANGED <<ch, last, refcnt, queued, active, super, app, lost, given, caller, calls>>

-----------------------------------------------------------------------------
(* The caller, who holds ch_lock during a call.                            *)

Post(cmd) == cmds' = Append(cmds, cmd)

Call(next) ==
    /\ caller = "idle" /\ calls < ch.calls /\ Len(cmds) < MaxCmds
    /\ caller' = next /\ calls' = calls + 1
    /\ UNCHANGED <<ch, thread, last, refcnt, queued, active, super, app, lost, given>>

request_super_buf ==
    Call("idle") /\ \E r \in Requests : Post([op |-> "REQ", n |-> r[1], retro |-> r[2]])

cancel_super_buf_request == Call("idle") /\ Post([op |-> "REQ", n |-> 0, retro |-> 0])

start_zsl_snapshot == Call("idle") /\ Post([op |-> "START_ZSL"])

stop_zsl_snapshot == Call("idle") /\ Post([op |-> "STOP_ZSL"])

config_notify_mode ==
    Call("idle") /\ \E mode \in {"BURST", "CONTINUOUS"} :
        Post([op |-> "CONFIG_NOTIFY", mode |-> mode])

proc_general_cmd ==
    Call("idle") /\ \E on \in BOOLEAN : Post([op |-> "BRACKETING", on |-> on])

\* Waits on sync_sem until the command thread has flushed.
flush_super_buf_queue ==
    Call("flushing") /\ \E f \in FlushTo : Post([op |-> "FLUSH", f |-> f, all |-> TRUE])

\* QCameraChannel::stop.  The step is its removeAt of the linked stream: what
\* comes before, QCameraStream::stop, only ends threads of the HAL.  Then
\* mm_channel_stop: the streams of the channel one by one, the metadata stream
\* last, each with its buffers unregistered.
stop ==
    /\ caller = "idle"
    /\ caller' = "stopping"
    /\ UNCHANGED <<ch, cmds, thread, last, refcnt, queued, active, super, app, lost, given, calls>>

StopStream(s) ==
    /\ caller = "stopping"
    /\ s \in active /\ ~IsLinked(s) /\ (s = Meta => active = {Meta})
    /\ active' = active \ {s}
    /\ refcnt' = [refcnt EXCEPT ![s] = [f \in Frames |-> 0]]
    /\ UNCHANGED <<ch, cmds, thread, last, queued, super, app, lost, given, caller, calls>>

Own(S) == {s \in S : ~IsLinked(s)}

\* A linked stream is let go and its buffers are flushed out of the queue.
Unlink ==
    /\ caller = "stopping" /\ Own(active) = {} /\ ch.linked
    /\ Post([op |-> "FLUSH", f |-> 0, all |-> FALSE]) /\ caller' = "unlinking"
    /\ UNCHANGED <<ch, thread, last, refcnt, queued, active, super, app, lost, given, calls>>

\* Mutant: the thread is joined without an EXIT.
cmd_thread_release_NoExit ==
    /\ \/ caller = "stopping" /\ Own(active) = {} /\ ~ch.linked
       \/ caller = "unlinked"
    /\ caller' = "joining"
    /\ UNCHANGED <<ch, cmds, thread, last, refcnt, queued, active, super, app, lost,
                   given, calls>>

\* The command thread ends ...
cmd_thread_release ==
    /\ \/ caller = "stopping" /\ Own(active) = {} /\ ~ch.linked
       \/ caller = "unlinked"
    /\ Post([op |-> "EXIT"]) /\ caller' = "joining"
    /\ UNCHANGED <<ch, thread, last, refcnt, queued, active, super, app, lost, given, calls>>

\* ... and what is left in the queue is freed.
superbuf_queue_deinit ==
    /\ caller = "joining" /\ thread = "gone"
    /\ ch' = [ch EXCEPT !.que = <<>>] /\ caller' = "returned"
    /\ UNCHANGED <<cmds, thread, last, refcnt, queued, active, super, app, lost, given, calls>>

Next ==
    \/ \E s \in Streams : data_notify(s)
    \/ ReturnSuper \/ ReturnApp
    \/ process_stream_buf \/ cmd_thread_exit
    \/ request_super_buf \/ cancel_super_buf_request
    \/ start_zsl_snapshot \/ stop_zsl_snapshot
    \/ config_notify_mode \/ proc_general_cmd \/ flush_super_buf_queue
    \/ stop \/ \E s \in Streams : StopStream(s)
    \/ Unlink \/ cmd_thread_release \/ superbuf_queue_deinit

Spec == Init /\ [][Next]_vars

\* The command thread runs while it has something to do (process_stream_buf is
\* the TakeCommand step of Next, enabled whenever TakeCommand is), and so does
\* the caller of a stop.
FairSpec ==
    /\ Spec
    /\ WF_<<cmds, thread>>(TakeCommand \/ cmd_thread_exit)
    /\ WF_vars(\/ \E s \in Streams : StopStream(s)
               \/ Unlink \/ cmd_thread_release \/ superbuf_queue_deinit)

-----------------------------------------------------------------------------
TypeOK ==
    /\ ch.attr \in Attributes
    /\ ch.que \in Seq([frame : Frames, slots : [Streams -> Frames],
                       matched : BOOLEAN, expected : BOOLEAN])
    /\ ch.match_cnt \in Nat /\ ch.expected_frame_id \in Nat
    /\ ch.nomatch_frame_id \in Frames /\ ch.diverted_frame_id \in Nat
    /\ ch.pending_cnt \in Nat /\ ch.pending_retro_cnt \in 0..ch.pending_cnt
    /\ ch.burstSnapNum \in Nat /\ ch.led_off_start_frame_id \in Nat
    /\ ch.bracketingState \in {"OFF", "WAIT_GOOD_FRAME_IDX", "ACTIVE"}
    /\ ch.rel = {} /\ ch.out = <<>>
    /\ thread \in {"running", "leaving", "gone"}
    /\ last \in [Streams -> Frames \cup {-1}]
    /\ refcnt \in [Streams -> [Frames -> 0..2]]
    /\ queued \in [Streams -> 0..BufNum]
    /\ active \subseteq Streams
    /\ super \subseteq Streams \X Frames /\ app \subseteq Streams \X Frames
    /\ caller \in {"idle", "flushing", "stopping", "unlinking",
                   "unlinked", "joining", "returned"}
    /\ calls \in 0..ch.calls

(* The loops over the queue end, with que.lock held.  Those of skip and     *)
(* bufdone_overflow take matched super buffers from the head until match_cnt*)
(* is small enough: match_cnt is the number of matched nodes and those come *)
(* before every unmatched one, whatever order the frames came in and        *)
(* whichever nodes were given up meanwhile.  The one that removes unmatched *)
(* nodes has at most one to remove, from which it could not go on.          *)
MatchedComeFirst ==
    /\ ch.match_cnt = Cardinality(DOMAIN ch.que \ Unmatched(ch.que))
    /\ Ready(ch.que) = ch.match_cnt

LoopsEnd ==
    /\ ~ch.spins
    /\ caller # "returned" => MatchedComeFirst
    /\ Cardinality(Unmatched(ch.que)) <= ch.attr.max_unmatched_frames + 1

Holders(s, f) ==
    Cardinality({i \in DOMAIN cmds : cmds[i].op = "DATA" /\ cmds[i].s = s /\ cmds[i].f = f})
    + Cardinality({i \in DOMAIN ch.que : f # 0 /\ ch.que[i].slots[s] = f})
    + Cardinality({i \in 1..3 : <<s, f>> \in <<super, app, lost>>[i]})

(* No buffer of a running stream is lost or returned twice: its reference  *)
(* count is the number of places that hold it (a pending command, a node,  *)
(* a super buffer with the HAL, a stream callback), and the others are     *)
(* queued in the kernel.  That includes a linked metadata stream, which    *)
(* outlives the channel; a buffer the HAL has mislaid counts as held, see  *)
(* NoBufferIsLost.                                                         *)
BuffersAreAccounted ==
    \A s \in active :
        /\ \A f \in Frames : refcnt[s][f] = Holders(s, f)
        /\ queued[s] = BufNum - Cardinality({f \in Frames : refcnt[s][f] > 0})

(* "return a stream buf back to kernel" (QCameraChannel::bufDone): each     *)
(* buffer the HAL gives back reaches its stream.                           *)
NoBufferIsLost == lost = {}

(* The HAL is handed the frames of each stream in the order in which they  *)
(* were taken, no frame twice, and with NORMAL priority only frames of one *)
(* index together.                                                         *)
GivenInOrder ==
    [][given' # given =>
        /\ \A s \in ch.streams : given'[s] > given[s]
        /\ ch.attr.priority = "NORMAL" =>
            \A s, t \in ch.streams : given'[s] = given'[t]]_vars

(* The imaging server collects a ZSL snapshot only while the channel knows *)
(* of it: every start it has sent, for a flash or a bracketing or by       *)
(* order of the HAL, is followed by a stop when the last frame is out or   *)
(* the request is cancelled.                                               *)
ZslSnapshotEnds ==
    ch.zsl => ch.startZSlSnapshotCalled \/ ch.manualZSLSnapshot

(* A flush returns, and so does a stop: the command thread answers the one *)
(* and ends for the other, with any backlog of frames in its queue.        *)
CallsReturn ==
    /\ caller = "flushing" ~> caller # "flushing"
    /\ caller = "stopping" ~> caller = "returned"
=============================================================================
