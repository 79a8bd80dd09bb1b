--------------------------- MODULE SuperBufQueue ---------------------------
(***************************************************************************)
(* The super buffer queue of a camera channel (mm_camera_channel.c): the   *)
(* frames of the bundled streams are matched by frame index into super     *)
(* buffers, which are handed to the HAL at once (CONTINUOUS) or on request *)
(* (BURST).                                                                *)
(*                                                                         *)
(* A channel is a record c: the queue c.que of nodes, match_cnt, the frame *)
(* ids that steer the matching, the capture flags of mm_channel_t, and two *)
(* fields that collect what one command does to buffers: c.rel, those      *)
(* given to mm_channel_qbuf, and c.out, the super buffers sent to the HAL. *)
(* A buffer is named <<stream, frame index>>; a slot with 0 is empty.      *)
(***************************************************************************)
EXTENDS Integers, Sequences, FiniteSets, FiniteSetsExt

CONSTANTS Streams,        \* streams, some of which a channel bundles: c.streams
          Meta,           \* the metadata stream
          FutureOffset    \* max_future_frame_offset, 100 in the code

ASSUME MetaIsStream == Meta \in Streams /\ FutureOffset \in Nat

NewNode(f) == [frame |-> f, slots |-> [s \in Streams |-> 0],
               matched |-> FALSE, expected |-> FALSE]

Bufs(n) == {<<s, n.slots[s]>> : s \in {t \in Streams : n.slots[t] # 0}}

Unmatched(q) == {i \in DOMAIN q : ~q[i].matched}

\* How many nodes mm_channel_superbuf_dequeue_internal(matched_only) can take.
Ready(q) == IF Unmatched(q) = {} THEN Len(q) ELSE Min(Unmatched(q)) - 1

qbuf(c, bufs) == [c EXCEPT !.rel = @ \cup bufs]

\* Free the nodes at positions a..b; match_cnt is the caller's affair.
Drop(c, a, b) ==
    [qbuf(c, UNION {Bufs(c.que[i]) : i \in a..b})
        EXCEPT !.que = SubSeq(c.que, 1, a - 1) \o SubSeq(c.que, b + 1, Len(c.que))]

-----------------------------------------------------------------------------
(* Dequeuing.                                                              *)

\* The while loops of skip and bufdone_overflow: take matched heads until
\* match_cnt is down to limit.  With no matched head left they never end.
Shrink(c, limit) ==
    LET k == c.match_cnt - limit
        r == Ready(c.que)
    IN IF c.attr.notify_mode = "CONTINUOUS" \/ k <= 0 THEN c
       ELSE IF k <= r THEN [Drop(c, 1, k) EXCEPT !.match_cnt = limit]
       ELSE [Drop(c, 1, r) EXCEPT !.match_cnt = @ - r, !.spins = TRUE]

bufdone_overflow(c) == Shrink(c, c.attr.water_mark)

skip(c) == Shrink(c, c.attr.look_back)

\* Mutant: the flushed nodes are still counted.
flush_Counted(c) == Drop(c, 1, Len(c.que))

flush(c) ==
    [Drop(c, 1, Len(c.que))
        EXCEPT !.match_cnt = @ - Cardinality(DOMAIN c.que \ Unmatched(c.que))]

flush_matched(c) ==
    LET r == Ready(c.que) IN [Drop(c, 1, r) EXCEPT !.match_cnt = @ - r]

-----------------------------------------------------------------------------
(* Matching a frame f of stream s; m is what its metadata announces.       *)

divert(c, f, m) ==
    IF m.divert = -1 THEN c
    ELSE [c EXCEPT !.diverted_frame_id = IF m.divert >= f THEN m.divert ELSE 0]

prep_snapshot_done(c, m) ==
    CASE m.prep = "none"   -> c
      [] m.prep = "done"   -> [c EXCEPT !.bWaitForPrepSnapshotDone = FALSE,
                                        !.needLEDFlash = FALSE]
      [] m.prep = "future" -> [flush(c) EXCEPT !.bWaitForPrepSnapshotDone = FALSE,
                                               !.expected_frame_id = @ + FutureOffset,
                                               !.needLEDFlash = TRUE]

good_frame_idx_range(c, m) ==
    IF m.good # -1
    THEN LET burst == c.needLEDFlash /\ c.burstSnapNum > 1
         IN [c EXCEPT !.expected_frame_id = m.good, !.bracketingState = "ACTIVE",
                      !.led_off_start_frame_id = IF burst THEN m.led_off ELSE @,
                      !.frame_skip_count = IF burst THEN m.skip ELSE @,
                      !.once = @ /\ ~burst]
    ELSE IF c.bracketingState = "WAIT_GOOD_FRAME_IDX" /\ m.prep = "none"
    THEN [flush_matched(c) EXCEPT !.expected_frame_id = @ + FutureOffset]
    ELSE c

\* A burst with the flash ends at the first frame after the flash.
led_burst(c, f) ==
    IF /\ c.burstSnapNum > 1 /\ c.needLEDFlash /\ c.bracketingState = "OFF"
       /\ f >= c.led_off_start_frame_id /\ ~c.once
    THEN [c EXCEPT !.expected_frame_id = c.led_off_start_frame_id + c.frame_skip_count,
                   !.once = TRUE, !.stopZslSnapshot = TRUE, !.needLEDFlash = FALSE]
    ELSE c

\* Metadata of a stream linked from another channel steers that channel only.
handle_metadata(c, s, f, m) ==
    IF s = Meta /\ ~c.linked
    THEN led_burst(good_frame_idx_range(prep_snapshot_done(divert(c, f, m), m), m), f)
    ELSE c

\* Mutant: older frames join a newer node whatever the priority.
Fits_AnyPriority(c, n, s, f) ==
    f = n.frame \/ (s # Meta /\ n.slots[s] = 0 /\ n.frame > f)

\* Whether the scan of the queue stops at the unmatched node n.
Fits(c, n, s, f) ==
    \/ f = n.frame
    \/ /\ c.nomatch_frame_id # 0
       /\ c.nomatch_frame_id <= f
       /\ n.slots[s] = 0
       /\ s = Meta
    \/ /\ c.attr.priority = "LOW"
       /\ s # Meta
       /\ n.slots[s] = 0
       /\ n.frame > f

\* The incoming buffer completes node pos or waits in it with the others.
\* Once a super buffer is complete, the nodes from the first older unmatched
\* one up to it are released.
join(c, pos, older, s, f) ==
    LET n     == [c.que[pos] EXCEPT !.slots[s] = f]
        full  == \A t \in c.streams : n.slots[t] # 0
        div   == ~full /\ c.diverted_frame_id = f
        c1    == [c EXCEPT !.que[pos] = [n EXCEPT !.matched = full,
                                                  !.expected = ~full /\ (@ \/ div)],
                           !.nomatch_frame_id = 0,
                           !.diverted_frame_id = IF div THEN 0 ELSE @]
        c2    == [c1 EXCEPT !.expected_frame_id = f + c.attr.post_frame_skip,
                            !.match_cnt = @ + 1]
    IN IF c.que[pos].slots[s] # 0
       THEN [qbuf(c, {<<s, f>>}) EXCEPT !.nomatch_frame_id = 0]
       ELSE IF ~full THEN c1
       ELSE IF older = {} THEN c2 ELSE Drop(c2, Min(older), pos - 1)

\* The node that makes room when too many are unmatched: the first one from
\* the oldest on that no divert announced, or else the oldest.
Victim(c, older, newer) ==
    LET cand == {i \in DOMAIN c.que : /\ i >= Min(older)
                                      /\ ~c.que[i].expected
                                      /\ newer = {} \/ i # Min(newer)}
    IN IF cand = {} THEN Min(older) ELSE Min(cand)

\* A new node, before the first newer unmatched one or at the tail.
insert(c, newer, s, f) ==
    LET div  == c.diverted_frame_id = f
        one  == c.streams = {s}
        n    == [NewNode(f) EXCEPT !.slots[s] = f, !.matched = one,
                                   !.expected = div /\ ~one]
        at   == IF newer = {} THEN Len(c.que) + 1 ELSE Min(newer)
    IN [c EXCEPT !.que = SubSeq(@, 1, at - 1) \o <<n>> \o SubSeq(@, at, Len(@)),
                 !.diverted_frame_id = IF div THEN 0 ELSE @,
                 !.expected_frame_id = IF one THEN f + c.attr.post_frame_skip ELSE @,
                 !.match_cnt = IF one THEN @ + 1 ELSE @,
                 !.nomatch_frame_id =
                     IF c.attr.priority = "LOW" /\ s # Meta THEN f ELSE @]

\* No node takes the frame.  The loop that removes unmatched nodes reads the
\* next pointer of the node it has just freed; it stops there because one
\* removal is enough (property LoopsEnd).
enqueue(c, older, newer, s, f) ==
    LET U    == Unmatched(c.que)
        many == Cardinality(U) > c.attr.max_unmatched_frames
        v    == Victim(c, older, newer)
        left == Drop(c, v, v)
        newerLeft == {IF i > v THEN i - 1 ELSE i : i \in newer}
    IN IF ~many THEN insert(c, newer, s, f)
       ELSE IF older = {} THEN qbuf(c, {<<s, f>>})
       ELSE insert(left, newerLeft, s, f)

comp_and_enqueue(c0, s, f, m) ==
    LET c     == handle_metadata(c0, s, f, m)
        found == {i \in Unmatched(c.que) : Fits(c, c.que[i], s, f)}
        pos   == IF found = {} THEN Len(c.que) + 1 ELSE Min(found)
        seen  == {i \in Unmatched(c.que) : i < pos}
        older == {i \in seen : c.que[i].frame < f}
        newer == {i \in seen : c.que[i].frame > f}
    IN IF f = 0 THEN qbuf(c0, {<<s, f>>})
       ELSE IF \/ f < c.expected_frame_id
               \/ /\ c.nomatch_frame_id # 0 /\ s = Meta
                  /\ c.nomatch_frame_id > f
       THEN qbuf(c, {<<s, f>>})
       ELSE IF found # {} THEN join(c, pos, older, s, f)
       ELSE enqueue(c, older, newer, s, f)

-----------------------------------------------------------------------------
(* What follows every command but FLUSH (mm_channel_process_stream_buf).   *)

\* Mutant: the flags are reset, the server is not told.
ZslStopped_Silent(c) == [c EXCEPT !.startZSlSnapshotCalled = FALSE,
                                  !.needLEDFlash = FALSE, !.bracketingState = "OFF",
                                  !.burstSnapNum = 0, !.stopZslSnapshot = FALSE]

ZslStopped(c) == [c EXCEPT !.zsl = FALSE, !.startZSlSnapshotCalled = FALSE,
                           !.needLEDFlash = FALSE, !.bracketingState = "OFF",
                           !.burstSnapNum = 0, !.stopZslSnapshot = FALSE]

zsl_snapshot(c) ==
    IF c.manualZSLSnapshot THEN c
    ELSE IF /\ c.pending_cnt > 0 /\ ~c.startZSlSnapshotCalled
            /\ c.needLEDFlash \/ c.bracketingState # "OFF"
    THEN [c EXCEPT !.zsl = TRUE, !.startZSlSnapshotCalled = TRUE,
                   !.burstSnapNum = c.pending_cnt, !.bWaitForPrepSnapshotDone = FALSE]
    ELSE IF (c.pending_cnt = 0 \/ c.stopZslSnapshot) /\ c.startZSlSnapshotCalled
    THEN [ZslStopped(c) EXCEPT !.bWaitForPrepSnapshotDone = FALSE]
    ELSE c

\* Mutant: the requests do not limit the loop.
Turns_Unlimited(c) == IF c.bWaitForPrepSnapshotDone THEN 0 ELSE Ready(c.que)

\* How often the dispatch loop turns: to the last matched head, in BURST mode
\* to the last request, or to the last retro frame, where it waits.
Turns(c) ==
    LET r == Ready(c.que)
        k == IF c.pending_retro_cnt > 0 THEN c.pending_retro_cnt ELSE c.pending_cnt
    IN IF c.bWaitForPrepSnapshotDone THEN 0
       ELSE IF c.attr.notify_mode = "CONTINUOUS" THEN r
       ELSE Min({r, k})

dispatch(c) ==
    LET n  == Turns(c)
        c1 == [c EXCEPT !.que = SubSeq(@, n + 1, Len(@)),
                        !.match_cnt = @ - n,
                        !.out = [i \in 1..n |-> c.que[i].slots]]
        c2 == [c1 EXCEPT !.pending_cnt = @ - n,
                         !.pending_retro_cnt = IF @ > n THEN @ - n ELSE 0,
                         !.bWaitForPrepSnapshotDone =
                             c.pending_retro_cnt > 0 /\ n = c.pending_retro_cnt]
    IN IF n = 0 \/ c.attr.notify_mode = "CONTINUOUS" THEN c1
       ELSE IF /\ c2.pending_cnt = 0 \/ c.stopZslSnapshot
               /\ ~c.manualZSLSnapshot /\ c.startZSlSnapshotCalled
       THEN ZslStopped(c2) ELSE c2

AfterCommand(c) == dispatch(bufdone_overflow(zsl_snapshot(c)))
=============================================================================
