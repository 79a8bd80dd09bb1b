---------------------------- MODULE MCMmChannel ----------------------------
EXTENDS MmChannel

Channel(mode, prio, unmatched, streams, linked, cbs, metas, nframes, ncalls) ==
    [attr |-> [notify_mode |-> mode, priority |-> prio, water_mark |-> 1,
               look_back |-> 0, post_frame_skip |-> 1, max_unmatched_frames |-> unmatched],
     streams |-> streams, linked |-> linked, cbs |-> cbs, metas |-> metas,
     frames |-> nframes, calls |-> ncalls]

\* What the metadata of a frame announces.
Future == [Plain EXCEPT !.prep = "future"]
Good   == [Plain EXCEPT !.good = 2, !.led_off = 2, !.skip = 1]
Done   == [Plain EXCEPT !.prep = "done", !.divert = 2]
Both   == [Good EXCEPT !.prep = "done", !.divert = 2]

\* A ZSL channel with few frames and two calls, and with more frames and one
\* call; the snapshot channel of a video, with metadata linked from the preview
\* channel, and the same at 4K, with a single stream: the HAL only stops those.
Zsl(unmatched, metas, nframes, ncalls) ==
    Channel("BURST", "NORMAL", unmatched, Streams, FALSE, {}, metas, nframes, ncalls)
LiveShot == Channel("CONTINUOUS", "LOW", 1, Streams, TRUE, {Meta}, {}, 3, 0)
Live4K   == Channel("CONTINUOUS", "LOW", 0, Streams \ {Meta}, FALSE, {}, {}, 3, 0)

AllChannels == {Zsl(0, {Plain, Future, Both}, 2, 2),
                Zsl(1, {Plain, Future, Good, Done}, 3, 1), LiveShot, Live4K}
LinkedOnly  == {LiveShot}

Bursts == {<<2, 1>>}
=============================================================================
