# Verification of the YTX703 hardware layer

The repository is the device tree of the Lenovo Yoga Tab 3 Plus (YTX703F and
YTX703L).  Its program code is the hardware abstraction layers under
`src/hardware/`: the camera HAL, the GNSS HAL, the IPA connection manager, the
sensors multi-HAL and a few small ones.  This directory holds TLA+ models of the
parts that carry concurrent, stateful logic, the TLC runs that check them on
small instances, and TLAPS proofs of their main invariants for instances of any
size.

    tlc -workers 2 -config MCAgps_supl.cfg MCAgps      a run
    tlapm AgpsProofs.tla                               the proofs of a module

`PROJECT.json` lists components, runs, mutants, theorems, hazards and, for every
definition that models code, the lines it models.

## 1. Inventory

### GNSS HAL (`src/hardware/gps`)

| component | state | operations | hard behaviour |
|---|---|---|---|
| AGPS data connections (`gnss/Agps.cpp`) | three NIFs, each with an `AgpsState` and a list of subscribers; the DS retry counter | `requestATL`, `releaseATL`, `reportAtlOpenSuccess/Failed`, `reportAtlClosed`, `reportDataCallOpened/Closed`, `retryCallback` | answers carry no identity; requests arrive during a release; a timer nobody cancels; one entry point called outside of the message thread |
| Tracking sessions (`gnss/GnssAdapter.cpp`) | clients with callbacks, sessions with options, event mask, session ids | add/remove client, start/update/stop tracking, engine up | multiplexing onto one fix; refusals in the middle; engine resets between commands |
| Timers and message threads (`utils/`) | timer heaps, timerfds, message queues | start, stop, expire | two threads set and clear the timerfds without a lock; a timer stopped while its expiry is queued; delegates deleted by messages |
| Location API (`location/`) | client maps, sessions of a client, pending requests | start/stop/update, responses | responses matched to requests in order |
| NI sessions, system status, core, HIDL service | caches and one pending request | conversions, forwarding | little |

All of `GnssAdapter` runs as messages of one `MsgTask`; clients, the modem, the
framework and timers only post messages to it, with the exception of
`reportAtlClosed` (see `Agps`).

### Camera HAL (`src/hardware/camera`)

| component | state | operations | hard behaviour |
|---|---|---|---|
| State machine (`QCameraStateMachine.cpp`) | eight states, two event queues, delayed messages, restart flags | about 60 events in each state | API events overtake daemon events; some arms give no answer |
| HAL1 interface (`QCamera2HWI.cpp`) | channels, window, parameters, result list | API calls, captures, recordings, live snapshots | callers share one condition variable and one result list; threads join each other |
| Muxer (`QCameraMuxer.cpp`) | two physical cameras | the same calls as sequences of events | the lock is free between the events |
| Parameters (`QCameraParameters.cpp`) | committed and pending values | `updateParameters`, `commitParameterChanges` | two phases |
| Post processor, command threads, queues | job queues | process, stop | synchronous commands, cancelled jobs |
| mm-camera-interface | channels, streams with buffer counts, super buffer queue | frames, requests, flush, stop | frames of several streams out of order or missing; buffers shared by two super buffers and returned by several threads; calls that wait for the command thread |
| mm-jpeg-interface | job queue | encode, abort | in front of a proprietary library |
| HAL3 | pending request list | requests and results | an alternative to HAL1 |

### Sensors (`src/hardware/sensors`)

The multi-HAL merges sub-HALs.  State: one circular queue and one writer thread
for each sub-HAL, the tables of global handles, and the position of `poll`.  A
writer fills slots without the lock; `poll` and the writers wake each other by
two condition variables, and each side broadcasts only under a condition.

### IPA connection manager (`src/hardware/data-ipa-cfg-mgr`)

| component | state | operations | hard behaviour |
|---|---|---|---|
| NAT table (`ipanat/`) | two tables of rules and two of indices, chained through expansion entries; handles | add and delete a rule, create and delete the table | deletions in any order keep two chained hashes and a dead head consistent |
| NAT cache (`IPACM_Conntrack_NATApp.cpp`) | cached and temporary entries, clients in power save, public address now and before | add, delete, cache, flush, restore | entries outlive the table, the client and the WAN address they were made with |
| Connection tracking (`IPACM_ConntrackListener.cpp`) | WAN address, addresses on NAT and non-NAT interfaces | conntrack messages, WAN and client events | what an event means depends on the events before it |
| Events and interfaces | command queue, neighbour cache, interface objects | dispatching, route and filter rules by ioctl | little of its own |
| Offload HAL | one session | start, stop, limits | little |

One thread takes the commands from the queue and runs every handler of a command
to its end, so the components of the manager meet in the order of the queue; a
second thread polls the time stamps of the rules.

### The rest

Lights, power hints, thermal readings and the Wi-Fi address are thin wrappers of
sysfs or proprietary libraries.  Configuration, overlays and policy are data.

## 2. Modules

| module | models | built on |
|---|---|---|
| `Agps` | `Agps.cpp`, `Agps.h`, the AGPS messages of `GnssAdapter.cpp` | |
| `AgpsProofs` | theorems about it | `Agps` |
| `Tracking` | tracking sessions and event masks of `GnssAdapter.cpp`, `LocAdapterBase`, `LocApiBase` | |
| `TrackingProofs` | theorems about it | `Tracking` |
| `LocHeap` | the heap of `LocHeap.cpp` | |
| `LocTimer` | `LocTimer.cpp` with its two threads | `LocHeap` |
| `LocTimerProofs` | theorems about the operations of the heap and about the timers | `LocTimer` |
| `CameraHWI` | the methods of `QCamera2HWI.cpp` and the modes of `QCameraParameters.cpp` that the state machine calls | |
| `CameraSM` | `QCameraStateMachine.cpp`, API calls, the muxer, the threads around it | `CameraHWI` |
| `CameraProofs` | what every method of the HAL preserves; theorems about the state machine | `CameraSM` |
| `SuperBufQueue` | the super buffer queue of `mm_camera_channel.c` | |
| `MmChannel` | a channel, its streams' buffer counts, the command thread, the HAL's side of it | `SuperBufQueue` |
| `MmChannelProofs` | theorems about the channel and its queue | `MmChannel` |
| `SensorEventQueue` | the index arithmetic of `SensorEventQueue.cpp` | |
| `SensorFifo` | abstract: one FIFO for each sub-HAL | |
| `MultiHal` | `multihal.cpp` | `SensorEventQueue`; implements `SensorFifo` |
| `MultiHalProofs` | theorems about it | `MultiHal` |
| `IpaNat` | the NAT table of `ipa_nat_drvi.c` | |
| `NatApp` | the cache of `IPACM_Conntrack_NATApp.cpp` | `IpaNat` |
| `ConntrackListener` | `IPACM_ConntrackListener.cpp` and the events of `IPACM_Wlan.cpp` that reach the NAT | `NatApp` |
| `IpaNatProofs` | theorems about the NAT table's operations | `IpaNat` |
| `ConntrackProofs` | theorems about the listener, its cache and the table | `ConntrackListener`, `IpaNatProofs` |
| `MC*` | instances for TLC | |

### Agps

`mState`, `subs` and `mRetries` are the fields of the same names of the three
state machines; `queue` is the adapter's message queue, `timers` the number of
retry timers running, `modem` and `conn` what the modem and the framework or
data service know (external).  One message is one action (`ProcMsg`), whose body
is the handler with every call it makes.  `mSubscriberList` is a set: its order
decides only which active subscriber is found first and in which order
fall-backs are posted, and both are left open.  `ConnOpenedBadApn` is
`reportAtlClosed` called on the framework's thread, which processes RELEASED past
the queue.

### Tracking

`sessions` is `mTrackingSessions`, `fix` and `engineMask` are what the engine
runs with (external).  Each message is an action and each command that posts one
is another.  Stopping the sessions of a removed client is a message of several
steps (`StopClientSession`, `EraseClient`): the message stays at the head of the
queue until it is done, as no other message can run meanwhile.  The engine may
refuse `startFix` and `stopFix`.  The setup of a run (`Setups`: which callbacks
clients have, whether the engine refuses, whether it may reset, the bounds) is
chosen in the initial state.

### LocTimer

`heap` are the `LocHeap`s of the containers, whose nodes are named by the path from
the top, so that `push`, `pop` and `remove` move data along one path as the code's
swaps do.  `mTimer`, `mClient`, `mFuture` and `alive` are the timers and their
delegates, `mDevFd` and `polled` the timerfds and the epoll set, `queue` the message
thread's.  What happens between two points at which another thread can look is one
step: `task` says where the message thread is in a handler (before the timerfd is
set, before each expiry, in a client's `stop` called from the callback), `poll` where
the poll thread is after `epoll_wait` has returned.  Time passes by `Tick`.

### CameraSM and CameraHWI

Every implementation method that the state machine calls is an operator of
`CameraHWI` from the HAL's data to the set of its outcomes (the data it leaves and
whether it succeeded); `Faults` says which requests the daemon may refuse.  An
arm of the state machine is a disjunct of `CameraSM`, guarded by state and event
(`On`).  The state machine serves `api_queue` before `evt_queue`.

An API call is a sequence of events (`Script`); the caller queues the first,
waits (`Wake`) for a result of that event in `results` and goes on, the lock being
free in between.  `take_picture` and `set_parameters` depend on the muxer, so
`Dual` chooses the muxer's sequences; the other camera appears as the restart it
may ask for.  Which calls are made, by how many callers, what the daemon may refuse and
the rest of a configuration is chosen in the initial state from `Config`.  Events that a state only answers are
one event `QUERY` (`SEND_COMMAND` is another: it clears the restart flags in PREVIEWING), notifications that change nothing modelled another.  Channels are absent, added
or started; the parameters are ZSL mode and recording hint, the two that decide
which channels exist.

### SuperBufQueue and MmChannel

The queue is a sequence of nodes, each with one slot for a stream; the operators
of `SuperBufQueue` take the record of a channel and return it with the buffers the
command released (`rel`) and the super buffers it handed out (`out`).  A command of
the command thread is one step of `MmChannel`: only that thread touches the queue.
The counts of the streams are shared and change by one buffer at a time: the
poll thread delivers a frame (`data_notify`), the HAL returns buffers of super
buffers (`ReturnSuper`) and of stream callbacks (`ReturnApp`), the command thread
releases what it drops.  `caller` is where the caller of the interface is inside a
call that waits: a flush, or the steps of a stop (streams one by one, linked
streams, the command thread's exit, the queue's end).  Loops that could fail to end
are written with a number of turns, and `LoopsEnd` says that they never use it up.

### MultiHal

`mStart`, `mSize`, `mData` are the queues, `writer` with `first`, `len`, `count`
the writer threads and the region they fill, `reader` with `empties`, `batch` and
`nextReadIndex` the `poll` function.  `queue_mutex` is held for several steps by
`poll` only (`reader = "scan"`); what a writer does under it is one step, and what
it does without it (`pollWrites`) is one step for each event.  The refinement
mapping to `SensorFifo` takes the readable slots of a queue, oldest first, as the
FIFO; an event is put when it is marked as written, not when its slot is filled.

### IpaNat, NatApp and ConntrackListener

A NAT table is a record (`table`, `index`, `meta`, `ids`) and its operations are
operators on it; `NatApp` is a record with the table, the cache, the temporary
entries, the power-save list and the public addresses, and its operations are
operators on that, so an event of `ConntrackListener` is one action that makes the
calls of the handler in order (its loops over an array are recursive functions, in
the order of the array).  A rule is a connection and the private address it is filed under.
`KindOf` is what a message is taken to be for, by the addresses known when it is
handled: a client's own rule, a dummy rule, a temporary entry, or nothing.  `open`
(external) is what conntrack knows; a destroy comes once for each opening.

## 3. Runs

| run | distinct states | shows |
|---|---|---|
| `agps_supl` | 127,684 | Two handles of all types on the framework NIFs: what the modem believes of a handle agrees with the NIF that serves it, a pending NIF will hear an answer, every open is answered. |
| `agps_emergency` | 376,002 | With DS NIF, retry timer, fall-back and unusable APNs: state and subscriber list of each NIF agree. |
| `tracking` | 384,487 | Two clients, up to three sessions, refusals, a reset at any point: the fix has the smallest interval of the sessions that exist, fix and mask come back after a reset, no session outlives its client. |
| `tracking_server_requests` | violation | see Findings |
| `loctimer` | 299,737 | Three timers in one container and an alarm in the other, one of them stopped by its owner: no timer sleeps past its time while nothing is on its way to wake it, no delegate is used after its delete, the heaps stay heaps, every timer ends. |
| `loctimer_due` | violation | see Findings |
| `camera_calls` | 991,019 | Previews, pictures, recordings, live snapshots, longshots, retro pictures, with two cameras, two callers, a refusing or dying daemon: every waiting call is accounted for, previews and recordings have their stream, stopped means stopped, no message is lost. |
| `camera_threads` | 392,992 | Early restart and internal pictures, pictures of a recording whose thread is joined, two callers, death of the daemon: no capture channel is left running, no result stays behind, every call returns and the callback notifier is released. |
| `channel` | 769,389 | A ZSL channel that is requested from, flushed and stopped, and the snapshot channels of a video: loops end, no buffer of a running stream is lost or returned twice, a ZSL capture ends, super buffers come in order, calls return. |
| `channel_linked` | violation | see Findings |
| `multihal` | 345,689 | Two sub-HALs, each of which may fail to open: regions are free, no wake-up is lost, nobody starves, and the whole implements one FIFO for each. |
| `conntrack` | 969,878 | Connections of a NAT client, and of a non-NAT client or the device itself, all in one bucket, with two WAN addresses: both chains of the table stay sound, the cache's handles name its own rules and no others exist, closed connections of NAT clients are forgotten. |

Each property has a mutant: a variant of one definition with a plausible fault
(suffix `Bug` or `_What`), under which TLC finds the property violated.

### Bounds

* `Agps`: two handles (one that shares, one that leaves), one retry, one timer,
  outsiders post while the queue is shorter than 2 or 3.  The handlers post beyond
  that bound, so that a fall-back is never lost.  Two handles let a request meet
  the release of another; three add only more sharers of the same NIF.  The
  theorems hold for any number.
* `Tracking`: two clients, two intervals (smaller, larger), session ids up to
  `sessionIdMax - 1` = 3, 2 or 1, one reset, two messages in the queue from outside
  (one beside three sessions).
  Three sessions are what it takes for a stop to leave more than one candidate.
* `CameraSM`: calls start while fewer than `maxPending` requests and results and
  fewer than `MaxEvents` events wait; one caller, or two in one configuration.
* `LocTimer`: four timers due by time 4, two delegates for each (a timer started
  again while the old delegate waits for its delete), two messages from outside.
  Three timers in one heap make the smallest tree with two children and one below.
* `MmChannel`: two streams of two buffers, frames 0..3 of which any may be missing,
  two commands in the queue, one or two calls before the stop; a water mark of one,
  so that overflow, skip and removal of unmatched nodes all happen.  Frame offsets
  of the code (100 frames ahead) are scaled to `FutureOffset` = 2.
* `ConntrackListener`: two connections of one NAT client, interchangeable
  (symmetry), and a third; a base table of three entries, in which all rules share
  one bucket, and expansion tables of two, so that a chain has a head, a middle and
  a last entry, and a dead head makes the table full before the cache of three is;
  one temporary entry, one non-NAT address.
* `MultiHal`: two sub-HALs, two slots, one event for a call of `poll`.  Two slots
  already wrap, fill up and split a region; one event for a call is the case in
  which round robin matters.  The theorems hold for any of these.

`CHECK_DEADLOCK FALSE` is set where the system may stop: in the camera runs, as the
application need not call again and a call may wait for good for an answer that
the code does not give (see Observations); in `loctimer`, when all timers have
ended; in the channel runs, when the channel is stopped.

### Fairness

* `Agps`: weak fairness of the message thread; strong fairness of the answers of
  framework and data service.  The code's queue is unbounded; in the model an
  answer can be kept out of a full queue again and again, and strong fairness
  stands in for the missing bound.
* `Tracking`: weak fairness of the message thread.
* `LocTimer`: weak fairness of the message thread, of the poll thread and of time.
* `MmChannel`: weak fairness of the channel's command thread and of a caller that is
  inside a stop.  Frames, and buffers the HAL holds, may fail to come.
* `CameraSM`: weak fairness of the state machine's thread, of woken callers, of the
  HAL's threads and of the daemon's reports.  Nobody has to call and a picture may
  take for ever.  `EveryCallReturns` and `NotifierReturns` hold unless new calls
  keep coming, since API events overtake the others and any caller may take the
  oldest result of its event.
* `MultiHal`: the framework polls in a loop, and threads that can run do.  Sub-HALs
  owe nothing, and a sleeping `poll` is only scheduled after a broadcast, though it
  may wake spuriously at any time.

## 4. Proofs

**`AgpsProofs`**, for every finite set of handles, configuration and bound
(`AgpsAssumption`).  `TypeCorrect`: `TypeOK`, with the retry counter within its
limit.  `StateMatchesSubscribers`: the four invariants on `AgpsState` and
subscriber list.  None of them is inductive alone: that a RELEASING NIF has a
waiter depends on inactive subscribers being waiters, and that a PENDING one has an
active subscriber depends on there being one subscriber for a handle.  `IInv` is
their conjunction with the types.  It is stated for the state and list of one NIF
(`NifInv`), one lemma for each event handler shows that the handler keeps it, and
`NifFrame` carries it over to the NIFs that the handler leaves alone.
`ReleasingIsAwaited` is the part of it that `agps_emergency` checks as
`ReleasingHasWaiter`.

On top of that invariant:

* `PendingIsAnswered` (`PendingAwaitsAnswer`), if the framework hands over usable
  APNs (`ApnValid`).  An unusable APN turns the grant into RELEASED, which a PENDING
  NIF ignores, so without the assumption TLC finds the NIF waiting for good.  The
  proof follows the request from the handler that makes the NIF PENDING to the
  answer's place in the queue, which only grows at its end (`Extended`).
* `OpenHandlesAreServed` (`OpenHandleIsServed`), if no request is made of the DS NIF:
  emergency SUPL is not asked for, or `USE_EMERGENCY_PDN` is 0.  The assumption is a
  restriction: the code's default is 1 (`ContextBase.cpp:109`), while the
  line for it in `gps.conf` says 0 and is commented out; with the DS NIF TLC finds the property violated, as a
  fall-back leaves a handle in both lists.  Inductive is `ServedInv`: no handle
  is in the lists of two NIFs, at most an open and then a close of it are queued
  (`Ordered`), and what the modem believes of it agrees with them (`SubscribersKnown`,
  `HandlesKnown`).

**`TrackingProofs`**, for any clients, callbacks, intervals, id limits and bounds
(`TrackingAssumption`).

* `TypeCorrect`; the messages under way are typed too.
* `MasksArrive` (`MaskReachesEngine`): the last mask under way is the one the adapter
  wants (`LastMask`).
* `Multiplexing`: `EngineRunsSmallestInterval`, as long as a restart after a reset is
  not refused (`RestartsSucceed`: the engine has not been reset or refuses nothing).
  The assumption is needed as `restartSessions` does not look at the result of
  `startFix`; the run has no setup with both.  `MultiInv` adds to the property that
  each `LocSsr` in the queue is followed by a `RestartSessions`, that sessions about
  to start have ids of their own, and `EngineIdles`, which holds without the
  assumption: when the last session ends the engine is stopped, in the middle of a
  reset too.
* `SessionsHaveClients` (`SessionHasClient`) and `RemovalIsComplete`: with an engine
  that refuses nothing no session is left of a client that is gone.

**`LocTimerProofs`**, first for heaps of any size, shape and times.  `PushAdds`, `PopRemoves`
and `RemoveRemoves`: each operation makes a heap of a heap (`checkNodes`: sizes and
ranks) and adds or takes out what it should and nothing else.  The operators walk
along paths by recursive functions, for which the prover has no induction rule; the
proofs take the least number at which a walk would go wrong (`Least`, `UpTo`).
`PopAtRemoves` gives `pop` and `remove` together: objects move up along the path from
the removed one to a leaf, and the leaf is taken out.  For `push`, `Sinks`
says what an object does that meets the nodes of the free path one after the other.
That `remove` finds an object at all, although it skips subtrees, is `Ranking`: no
object on the way down is later than one below it.

On top of these, for any timers, containers, time-outs and number
of delegates (`TimerAssumption`): `TypeCorrect`, `NoOversleeping`
(`NoTimerOversleeps`), `NothingDangles` (`NoDangling`).  `Inv` consists of

* a ledger of the delegates (`MessageInv`, `OwnerInv`): each is its timer's or has been
  sent a remove, never both; at most one push of it is queued, before the remove, and
  then it is in no heap.  Each message names the container of its timer, so that a
  delegate is looked for where it is;
* the heaps (`HeapInv`): they are heaps, and hold allocated delegates only;
* the threads (`TaskInv`, `PollInv`, `SetInv`): while timers are held the timerfd is
  polled and set no later than the first of them, or an expire message is coming
  (`Coming`), or the message thread is in a handler that will set it.  When it is about
  to set the timerfd, it has the soonest timer and the timerfd is polled or
  the poll thread, which took it out of the poll, will send a message; without that the
  time set would never fire.

**`CameraProofs`**, for any callers, calls, configurations, faults and bounds
(`CameraAssumption`, `HWIAssumption`).  `TypeCorrect`, `MessagesAreKept`
(`MessageIsKept`), `RecordingsAreBacked` (`RecordingIsBacked`), `ReleasedCallersWait`.
The first part has one lemma for each method of the HAL: its outcomes are data of
the HAL, it leaves the message alone, and it keeps the video channel or says which
method may stop it.  The second shows of each arm of the state machine that it
leaves a state and data that agree (`Handled`), and one lemma takes that to the next
invariant; what callers and threads do leaves both alone.  Typing the queues needs
that every event has the kind of argument its handler reads (`HasArg`).

**`MmChannelProofs`**, for any streams, channels, numbers of frames, requests and
buffers (`BufNumAssumption`, `ChannelsAssumption`).  `TypeCorrect`, `NoBufferUnaccounted`
(`BuffersAreAccounted`), `SnapshotsEnd` (`ZslSnapshotEnds`), and for orderly channels
`LoopsTerminate` (`LoopsEnd`) and `SuperBuffersInOrder` (`GivenInOrder`).  One invariant
carries all five, `Inv`: for each stream there is a newest frame that the command thread has
handled (`low`; the code keeps no such number), with which these hold (`Ind`).

* `CmdsOk`: the frames in the command queue lie behind `low` and each stream's come in
  order.  So a frame that is handled is in no node yet.
* `BaseQ`: a frame is in one node at most, nodes hold handled frames, and at most
  `match_cnt` nodes are matched.  It holds for any channel.
* `OrdQ`, for orderly channels: the first `match_cnt` nodes are the matched ones, and their
  frames rise from what the HAL was last given (`Rising`); the others follow sorted
  (`Sorted`), hold frames of one index (`OwnFrame`) and number one more than
  `max_unmatched_frames` at most.  For a node to be completed its frames must lie above all
  matched ones (`Live`).  That is hard with LOW priority, where a snapshot frame may
  pass over metadata: such a node stays in the queue and is never completed (`Dead`), which in
  turn rests on what `nomatch_frame_id` remembers (`NoMatch`).
* `Accounts`: a reference count is the number of holders among the commands, the queue, the
  super buffer on its way and the HAL; what no one holds is queued in the kernel.
* `CallOk`: a flush is in the command queue once, while its caller waits, and when a stop
  gives back the queue nobody is left who could fill it.

One lemma for each operation on the queue says what it does to a list of nodes (`Cut`,
`Put`, `Joined`), one what it does to `OrdQ` (`OrdCut`, `OrdWait`, `OrdCompletes`), and one
takes that to the channel (`St`).

*Orderly* (`Orderly`) is a channel with NORMAL priority, or one whose streams are, beside
metadata, one at most.  The HAL uses LOW only for the live snapshot channel
(`QCamera2HWI.cpp:6654`), which has one stream (line 6663) and links the metadata.  The
hypothesis is needed: with LOW priority and two image streams TLC finds a queue
with a matched node behind an unmatched one, and then `LoopsEnd` is violated.

**`MultiHalProofs`**, for any number of sub-HALs, any capacity above zero, any list
of distinct sensors (`CapacityAssumption`, `MultiHalAssumption`).  `TypeCorrect`,
`WakeUps` (`NoLostWakeup`), `Regions` (`RegionIsFree`) and `Implements`
(`Spec => FifoSpec`).  The inductive invariant adds to the types

* for each queue (`QueueInv`): while a writer holds a region, the region begins
  right behind the last event, fits into both the array and the free space, and
  the slots it has written hold events.  The first part survives `dequeue`
  because `mStart + mSize` does not change modulo the capacity (`EndStays`);
* for `poll` (`ScanInv`): the queues it has looked into during the last `empties`
  steps are empty.  When `empties` reaches the number of queues this makes all of
  them empty, which is what entitles it to sleep.

The refinement proof maps each action to an action of `SensorFifo` or to a
stuttering step; the facts it needs are that the contents do not change when a
writer fills its region, lose their head in `dequeue` and gain the written slots
in `markAsWritten` (`ContentsStay`, `ContentsTail`, `ContentsAppend`).

**`IpaNatProofs`**, for any rules, hashes and table sizes (`IpaNatAssumption`).  `AddRule`
and `DelRule`: to its clients the table is a map from handles to rules; adding a rule
fills one free handle or changes nothing, deleting one frees its handle and leaves the
others their rules, and the table stays sound (`TableInv`).  `Sound` says of the rule
table, and of the index over it, that each is chains: there is a rank for each entry that
increases along `next`, every expansion entry in use has the previous one (`prev`, or the
meta data of the index) pointing to it, and all of a chain hash to the bucket that heads it
(`Ranked`).  Following a chain therefore ends, at an entry with no next (the walk is a
recursive function; again a least number is taken at which it would go wrong).  One lemma
for each thing that is done to a chain (`ChainAdd`, `ChainUnlink`, `ChainDrop`) is used for
both tables.  The hard one is `IndexMoved`: a deleted head of an index chain takes over the
entry behind it, so that a rule elsewhere has to be told its new index, and the entry
that leaves the chain is another one than the entry deleted.  `Cross` (index and live rules
name each other) and `IdsFit` (handles and live rules do) tie the parts together.
`TableIsWhole` takes the invariant to what `TableIsSound` says.

**`ConntrackProofs`**, for any connections, clients, addresses, rules, hashes and sizes
(besides, `NatAppAssumption`, `ListenerAssumption`).  `TypeCorrect`, `TablesAreSound`
(`TableIsSound`), `CacheAndTableMatch` (`CacheMatchesTable`) and `ClosedAreForgotten`
(`ClosedIsForgotten`).  All rest on `NatHolds`, which has two parts:

* `Fits` relates the cache to the table: an enabled entry's handle is that of its own
  rule, no two have the same handle, and every handle of the table is an entry's.  It
  survives `DeleteTable` because that disables all entries with it, and a table which
  refuses a rule in the middle of a restore because the entry is then freed or stays
  disabled.  `OthersFit` adds that there is a table only while `nat.pub` is the WAN's
  address.
* which rules may be held.  `WholeInv` allows all; `HeldInv` (`Known`) those of a NAT client
  only under its own address and while the connection is open.  It needs that no rule
  is twice in the cache (`CacheHolds`), as a destroy removes one entry.

`ClosedAreForgotten` assumes that the clients of NAT interfaces are in a private subnet of
the configuration; the messages about a client outside of them are ignored before it is
known and after it has left, and then TLC finds an entry that stays.  The others need no
such hypothesis.  The loops of `NatApp` are shown to be what their steps do one after the
other (`LoopExists`, `LoopHolds`).

**Only model-checked**

* all liveness, as the prover does not do fairness or ENABLED;
* `NoBufferIsLost`, which the finding on `channel_linked` refutes;
* of `CameraSM`, `CallIsAccounted`, `AnswersAreAwaited`, `StoppedIsStopped`,
  `CaptureEnds` and `PreviewRuns`: the first two compare numbers of queued events and
  results with the callers, and the others hold in the runs' configurations only (early
  restart off, no longshot, a daemon that refuses nothing).

## 5. Findings

`tracking_server_requests`: `AgpsMsgInit` is said to "Register for AGPS event
mask" (`GnssAdapter.cpp:2581`), but `updateClientsEventMask` (line 1093) later
*sets* the mask from the clients' callbacks alone, so the registration is gone
as soon as another client is added or removed.

`loctimer_due`: `MsgTimerExpire::proc` pops the first timer of the heap whatever
its time.  The comments at `LocTimer.cpp:355` and `:367` have it pop what "has time
older than now"; when the timer whose timerfd fired is stopped just before, the
next timer expires early.

`channel_linked`: `QCameraChannel::stop` takes a linked stream off `mStreams`
(`QCameraChannel.cpp:410`) before it stops the channel, and a super buffer handed
out after that comes back to a `bufDone` which finds no stream for the metadata
buffer.  The preview channel, which owns the stream, runs with a buffer less.

### Observations

Met while modelling; the properties are stated so that they say what does hold.

* AGPS: a DS NIF keeps a subscriber in RELEASED when its data call could not be
  started, and can be PENDING with no data call under way; a denial also removes a
  subscriber that waits for its close, with an open status; a DENIED that was queued
  before a release answers the next request.
* AGPS: an unusable APN turns the grant into RELEASED, which a PENDING framework
  NIF ignores.
* Tracking: of two sessions with equal intervals the mode of the first one stays.
* Camera: `PREPARE_SNAPSHOT` does not answer commits and `REG_FACE_IMAGE`, several
  states do not answer `SEND_COMMAND_RESTART`, and a retro picture that ends before
  its preparation leaves its caller; each needs a second caller, two cameras or
  retro pictures.  In `PIC_TAKING` a `COMMIT_START_PREVIEW` is answered by an event
  result (`QCameraStateMachine.cpp:2031`), which no caller waits for.
  `CallIsAccounted` is checked in every configuration and excuses, event by event,
  what `Forsaken` names: the restarts and that commit with two cameras,
  `PREPARE_SNAPSHOT` with retro pictures or a daemon that dies, `TAKE_PICTURE` with
  both.
* Camera: with two cameras and a second caller, a picture or a recording can be
  prepared between the stop and the start that the muxer makes of one preview
  restart; `PreviewRuns` is checked with one caller there.
* Camera: a stale `SNAPSHOT_DONE` ends the next picture; a preview message that
  was kept back and then disabled during a picture is enabled again; parameters
  that were refused are applied by a later commit; the result of
  `STOP_CAPTURE_CHANNEL` is never fetched; when the daemon dies only the callers of
  `PIC_TAKING` are released; `cancelPicture` looks at the ZSL mode of now.
* Channel: metadata that starts an LED burst without a good frame range before it
  (`mm_camera_channel.c:2590`) ends the ZSL capture of the flash; `match_cnt` is not
  reset when a stopped channel is started again; a ZSL start ordered by the HAL
  during the channel's own capture counts as the same one.
* NAT: a dummy rule of a client that has left since, or that was made with another
  WAN address, and the rule of a connection of the device itself after the address
  has changed, are not found by their destroy message, although `AddTable` leaves the
  cache to the "destroy event" (`IPACM_Conntrack_NATApp.cpp:139`); the entry stays.
  `ClosedIsForgotten` is therefore stated for clients of NAT interfaces.
* NAT: a new table is filled with the rules of clients in power save too, which
  `AddEntry` would only cache; a client that recovers while there is no table loses
  its cached entries; when the table cannot be created the WAN counts as up, so that
  its going down is ignored and the same address never gets a table; an entry that
  `AddEntry` refuses in a dummy flush stays a temporary entry under the public
  address; `pub_ip_addr_pre` and `PwrSaveIfs` are not initialised (the first is left
  open in `Init`, the second is taken as empty).
* NAT: if the DMA that enables a rule fails the bucket stays linked to a disabled
  entry, which the next rule is then linked to; the failure of
  `write_next_index` is not reported.
* Sensors: a sub-HAL that fails to open shifts the ones behind it, so that
  `sub_hw_devices` is not "parallel to sub_hw_modules" (`multihal.cpp:720`);
  meta-data of an unlisted sensor is passed on with handle -1.

## 6. Not modelled, and why

* `Agps`: `handleModemSSR` has no caller; APN and bearer are data; races inside a
  handler (`retryCallback` reads the list on the timer thread).
* `Tracking`: the calls of a ULP library, which the repository does not hold;
  batching and geofences, which the base classes only pass on.
* Camera: buffers, frame callbacks, deferred work, dumps, the RAW channel of
  internal pictures, the composition of two pictures; after the death of the daemon
  no further calls are made.
* `LocTimer`: failing system calls; platforms without alarm timers.
* Channel: flash and exposure bracketing, zoom with two super buffers, frame
  configuration and instant capture, frame sync of two cameras, the poll thread's
  own set of descriptors, allocation failures, a stream that fails to start, a
  stopped channel that is started again.
* NAT: STA mode, in which entries wait for the STA client; IPv6 and LAN-to-LAN
  messages; ALG ports; the thread that polls the time stamps (it reads the cache
  without a lock); failing DMA commands.
* Sensors: the commands, which pass one call on, and `close`, which the framework
  does not use.
* The components that `PROJECT.json` lists as `not_modelled`, each with its reason.

## 7. Plan

Order of work; each step ends with its runs, mutants and, where named, proofs.

1. *Done*: `Agps`, `Tracking`, `LocHeap` and `LocTimer`, `CameraHWI` and `CameraSM`,
   `SuperBufQueue` and `MmChannel`, `SensorEventQueue`, `SensorFifo` and `MultiHal`,
   `IpaNat`, `NatApp` and `ConntrackListener`, all with proofs.
2. `LocationAPI` with `LocationAPIClientBase`, and an abstract specification of a
   client's sessions that both should implement; NI sessions.
3. `QCameraQueue`, `QCameraCmdThread`, `QCameraPostProc`; mm-jpeg's job queue; the
   pending request list of HAL3.
4. The commands of the multi-HAL; STA mode and failing DMA commands of the NAT; the
   stream state machine of mm-camera-interface.
5. Theorems: `PreviewRuns`, `StoppedIsStopped` and `AnswersAreAwaited` of `CameraSM`.

A new component takes its runs from those there are: a configuration is chosen in
the initial state instead of by constants (`Setups`, `Config`, `Channels`), so that
one run covers several.
