------------------------------ MODULE LocTimer ------------------------------
(***************************************************************************)
(* The timers of the GNSS stack (gps/utils/LocTimer.cpp).  A LocTimer      *)
(* that is started owns a LocTimerDelegate.  The delegates wait in the     *)
(* heap of a container (one for timers, one for alarms), which only the    *)
(* thread LocTimerMsgTask touches; the container has one timerfd, set to   *)
(* the soonest delegate, and the thread LocTimerPollTask waits for the     *)
(* timerfds with epoll.  start and stop are called by any thread.          *)
(*                                                                         *)
(* Time is absolute, as mFutureTime is; every timer is due by Horizon.     *)
(***************************************************************************)
EXTENDS Naturals, Sequences, FiniteSets, LocHeap

CONSTANTS Timers,      \* the LocTimer objects
          Copies,      \* how many delegates of one timer may exist at once
          Containers,  \* mSwTimers, mHwTimers
          Wakes,       \* the container each timer is started in (wakeOnExpire)
          Delays,      \* the time-outs each timer is started with
          Stopped,     \* the timers that their owners stop
          Horizon,     \* the last time a timer is due
          MaxQueue,    \* callers start and stop timers while fewer messages wait
          None         \* NULL

\* Addresses of LocTimerDelegate objects; one is used again after its delete.
Delegates == Timers \X (1..Copies)

ASSUME TimerAssumption ==
    /\ Wakes \in [Timers -> Containers]
    /\ Stopped \subseteq Timers
    /\ Delays \in [Timers -> SUBSET Nat] /\ Horizon \in Nat \ {0} /\ MaxQueue \in Nat
    /\ Copies \in Nat
    /\ None \notin Timers \union Containers \union Delegates

VARIABLES now,      \* CLOCK_BOOTTIME
          mTimer,   \* LocTimer::mTimer
          mClient,  \* LocTimerDelegate::mClient
          mFuture,  \* LocTimerDelegate::mFutureTime
          alive,    \* the delegates that are allocated
          heap,     \* the LocHeap of each container
          mDevFd,   \* the time each timerfd is set to, Off when it is disarmed
          polled,   \* the containers whose timerfd is in the epoll set
          queue,    \* the messages of LocTimerMsgTask
          task,     \* where LocTimerMsgTask is in a handler, and its locals
          poll      \* where LocTimerPollTask is in run, and its events

clients == << mTimer, mClient, mFuture, alive >>
kernel == << mDevFd, polled >>
vars == << now, clients, heap, kernel, queue, task, poll >>

Off == 0
    \* an it_value of zero disarms a timerfd

MsgTimerPush(c, d) == [type |-> "push", container |-> c, timer |-> d]
MsgTimerRemove(c, d) == [type |-> "remove", container |-> c, timer |-> d]
MsgTimerExpire(c) == [type |-> "expire", container |-> c, timer |-> None]

Idle == [at |-> "idle", container |-> None, timer |-> None, client |-> None, timerOfNow |-> 0]
Waiting == [at |-> "epoll_wait", container |-> None, events |-> {}]

\* LocTimerDelegate::ranks: the smaller time ranks higher
outRanks(d, e) == Outranks(mFuture, d, e)
getSoonestTimer(h) == peek(h, None)

-----------------------------------------------------------------------------
(***************************************************************************)
(* LocTimer::start and LocTimer::stop, each under the timer's lock.        *)
(***************************************************************************)
\* LocTimerDelegate's constructor and LocTimerContainer::add
NewDelegate(t, d, delay) ==
    /\ mTimer' = [mTimer EXCEPT ![t] = d]
    /\ mClient' = [mClient EXCEPT ![d] = t]
    /\ mFuture' = [mFuture EXCEPT ![d] = now + delay]
    /\ alive' = alive \union {d}
    /\ queue' = Append(queue, MsgTimerPush(Wakes[t], d))

start(t, delay) ==
    /\ mTimer[t] = None
    /\ now + delay <= Horizon
    /\ Len(queue) < MaxQueue
    /\ \E i \in 1..Copies :
          /\ << t, i >> \notin alive
          /\ \A j \in 1..i - 1 : << t, j >> \in alive
          /\ NewDelegate(t, << t, i >>, delay)
    /\ UNCHANGED << now, heap, kernel, task, poll >>

\* stop's effect on the timer that owns a delegate, and destroyLocked
destroyLocked(t) ==
    LET d == mTimer[t]
    IN /\ mTimer' = [mTimer EXCEPT ![t] = None]
       /\ mClient' = [mClient EXCEPT ![d] = None]
       /\ queue' = Append(queue, MsgTimerRemove(Wakes[t], d))
       /\ UNCHANGED << mFuture, alive >>

stop(t) ==
    /\ mTimer[t] # None
    /\ Len(queue) < MaxQueue
    /\ destroyLocked(t)
    /\ UNCHANGED << now, heap, kernel, task, poll >>

-----------------------------------------------------------------------------
(***************************************************************************)
(* LocTimerMsgTask.                                                        *)
(***************************************************************************)
Received(type) == task.at = "idle" /\ queue # << >> /\ Head(queue).type = type

\* Mutant: a new soonest time is set, and the timerfd not polled again.
updateSoonestTime_NoPoll(c, h, priorTop) ==
    LET curTop == getSoonestTimer(h)
    IN /\ polled' = IF priorTop = None /\ Members(heap[c]) = {} THEN polled \union {c} ELSE polled
       /\ task' = IF curTop = None THEN Idle
                  ELSE [Idle EXCEPT !.at = "settime", !.container = c, !.timer = curTop]

\* updateSoonestTime: addPoll comes first, timerfd_settime is the next step of
\* the thread.  With an empty heap there is nothing to do: no caller passes a
\* priorTop then, so that the branch that disarms the timerfd is never taken.
updateSoonestTime(c, h, priorTop) ==
    LET curTop == getSoonestTimer(h)
    IN IF /\ curTop # priorTop
          /\ curTop # None
          /\ priorTop = None \/ outRanks(curTop, priorTop)
       THEN /\ polled' = polled \union {c}
            /\ task' = [Idle EXCEPT !.at = "settime", !.container = c, !.timer = curTop]
       ELSE /\ polled' = polled
            /\ task' = Idle

\* LocTimerContainer::add: MsgTimerPush::proc
procPush ==
    /\ Received("push")
    /\ LET c == Head(queue).container
           h == push(heap[c], Head(queue).timer, mFuture)
       IN /\ heap' = [heap EXCEPT ![c] = h]
          /\ updateSoonestTime(c, h, getSoonestTimer(heap[c]))
    /\ queue' = Tail(queue)
    /\ UNCHANGED << now, clients, mDevFd, poll >>

\* Mutant: the delegate is deleted and stays in the heap.
procRemove_Keeps ==
    /\ Received("remove")
    /\ alive' = alive \ {Head(queue).timer}
    /\ queue' = Tail(queue)
    /\ UNCHANGED << now, mTimer, mClient, mFuture, heap, kernel, task, poll >>

\* LocTimerContainer::remove: MsgTimerRemove::proc.  The delete is the last
\* statement of proc; nobody else reaches the delegate before it.
procRemove ==
    /\ Received("remove")
    /\ LET c == Head(queue).container
           d == Head(queue).timer
           h == remove(heap[c], d, mFuture)
           removed == IF h = heap[c] THEN None ELSE d
       IN /\ heap' = [heap EXCEPT ![c] = h]
          /\ IF getSoonestTimer(heap[c]) = removed
             THEN updateSoonestTime(c, h, None)
             ELSE UNCHANGED << polled, task >>
          /\ alive' = alive \ {d}
          /\ mFuture' = [mFuture EXCEPT ![d] = 0]
    /\ queue' = Tail(queue)
    /\ UNCHANGED << now, mTimer, mClient, mDevFd, poll >>

\* timerfd_settime, the end of updateSoonestTime
settime ==
    /\ task.at = "settime"
    /\ mDevFd' = [mDevFd EXCEPT ![task.container] = mFuture[task.timer]]
    /\ task' = Idle
    /\ UNCHANGED << now, clients, heap, polled, queue, poll >>

\* The loop of MsgTimerExpire::proc takes the top of the heap.
Pop(c, timerOfNow) ==
    /\ heap' = [heap EXCEPT ![c] = pop(heap[c], mFuture)]
    /\ task' = [Idle EXCEPT !.at = "expire", !.container = c,
                            !.timer = getSoonestTimer(heap[c]), !.timerOfNow = timerOfNow]
    /\ UNCHANGED polled

\* Mutant: the timerfd is not set again after an expiry.
popIfOutRanks_NoUpdate(c, timerOfNow) ==
    LET top == getSoonestTimer(heap[c])
    IN IF top # None /\ mFuture[top] <= timerOfNow
       THEN Pop(c, timerOfNow)
       ELSE task' = Idle /\ UNCHANGED << heap, polled >>

\* popIfOutRanks, and the end of MsgTimerExpire::proc
popIfOutRanks(c, timerOfNow) ==
    LET top == getSoonestTimer(heap[c])
    IN IF top # None /\ mFuture[top] <= timerOfNow
       THEN Pop(c, timerOfNow)
       ELSE updateSoonestTime(c, heap[c], None) /\ UNCHANGED heap

\* LocTimerContainer::expire: MsgTimerExpire::proc.  The first pop does not
\* look at the time.
procExpire ==
    /\ Received("expire")
    /\ LET c == Head(queue).container
       IN IF getSoonestTimer(heap[c]) = None
          THEN UNCHANGED << heap, polled, task >>
          ELSE Pop(c, now)
    /\ queue' = Tail(queue)
    /\ UNCHANGED << now, clients, mDevFd, poll >>

\* LocTimerDelegate::expire reads mClient, without the lock
expireReads ==
    /\ task.at = "expire"
    /\ IF mClient[task.timer] # None
       THEN /\ task' = [task EXCEPT !.at = "client->stop", !.client = mClient[task.timer]]
            /\ UNCHANGED << heap, polled >>
       ELSE popIfOutRanks(task.container, task.timerOfNow)
    /\ UNCHANGED << now, clients, mDevFd, queue, poll >>

\* LocTimerDelegate::expire calls client->stop() and, if the client had a
\* timer, its timeOutCallback(): the model's client may start again at any time.
expireStops ==
    /\ task.at = "client->stop"
    /\ IF mTimer[task.client] # None
       THEN destroyLocked(task.client)
       ELSE UNCHANGED << clients, queue >>
    /\ popIfOutRanks(task.container, task.timerOfNow)
    /\ UNCHANGED << now, mDevFd, poll >>

-----------------------------------------------------------------------------
(***************************************************************************)
(* LocTimerPollTask: run, and LocTimerContainer::expire for each container *)
(* of whose timerfd epoll_wait reported an event.                          *)
(***************************************************************************)
Readable(c) == c \in polled /\ mDevFd[c] # Off /\ mDevFd[c] <= now

epoll_wait ==
    /\ poll.at = "epoll_wait"
    /\ LET ready == {c \in Containers : Readable(c)}
       IN /\ ready # {}
          /\ \E c \in ready :
                poll' = [at |-> "disarm", container |-> c, events |-> ready \ {c}]
    /\ UNCHANGED << now, clients, heap, kernel, queue, task >>

disarm ==
    /\ poll.at = "disarm"
    /\ mDevFd' = [mDevFd EXCEPT ![poll.container] = Off]
    /\ poll' = [poll EXCEPT !.at = "removePoll"]
    /\ UNCHANGED << now, clients, heap, polled, queue, task >>

removePoll ==
    /\ poll.at = "removePoll"
    /\ polled' = polled \ {poll.container}
    /\ poll' = [poll EXCEPT !.at = "sendMsg"]
    /\ UNCHANGED << now, clients, heap, mDevFd, queue, task >>

sendExpire ==
    /\ poll.at = "sendMsg"
    /\ queue' = Append(queue, MsgTimerExpire(poll.container))
    /\ IF poll.events = {}
       THEN poll' = Waiting
       ELSE \E c \in poll.events :
               poll' = [at |-> "disarm", container |-> c, events |-> poll.events \ {c}]
    /\ UNCHANGED << now, clients, heap, kernel, task >>

-----------------------------------------------------------------------------
Tick ==
    /\ now < Horizon
    /\ now' = now + 1
    /\ UNCHANGED << clients, heap, kernel, queue, task, poll >>

Init ==
    /\ now = 1
    /\ mTimer = [t \in Timers |-> None]
    /\ mClient = [d \in Delegates |-> None]
    /\ mFuture = [d \in Delegates |-> 0]
    /\ alive = {}
    /\ heap = [c \in Containers |-> EmptyHeap]
    /\ mDevFd = [c \in Containers |-> Off]
    /\ polled = {}
    /\ queue = << >>
    /\ task = Idle
    /\ poll = Waiting

MsgTask == procPush \/ procRemove \/ procExpire \/ settime \/ expireReads \/ expireStops
PollTask == epoll_wait \/ disarm \/ removePoll \/ sendExpire

Next ==
    \/ \E t \in Timers : \E delay \in Delays[t] : start(t, delay)
    \/ \E t \in Stopped : stop(t)
    \/ MsgTask
    \/ PollTask
    \/ Tick

Spec == Init /\ [][Next]_vars
FairSpec == Spec /\ WF_vars(MsgTask) /\ WF_vars(PollTask) /\ WF_vars(Tick)

-----------------------------------------------------------------------------
Messages ==
    [type : {"push", "remove"}, container : Containers, timer : Delegates]
        \union {MsgTimerExpire(c) : c \in Containers}

\* The type invariant.  Of the heaps it says that they stay heaps: push, pop and
\* remove, which only swap data along one path and adjust the sizes on it, keep
\* every mSize and the ranking, with equal times too (LocHeapNode::checkNodes is
\* the unit test's condition).
TypeOK ==
    /\ now \in 1..Horizon
    /\ mTimer \in [Timers -> Delegates \union {None}]
    /\ mClient \in [Delegates -> Timers \union {None}]
    /\ mFuture \in [Delegates -> 0..Horizon]
    /\ alive \subseteq Delegates
    /\ \A c \in Containers : /\ Members(heap[c]) \subseteq Delegates
                             /\ checkNodes(heap[c], mFuture)
    /\ mDevFd \in [Containers -> 0..Horizon]
    /\ polled \subseteq Containers
    /\ queue \in Seq(Messages)
    /\ task \in [at : {"idle", "settime", "expire", "client->stop"},
                 container : Containers \union {None}, timer : Delegates \union {None},
                 client : Timers \union {None}, timerOfNow : 0..Horizon]
    /\ poll \in [at : {"epoll_wait", "disarm", "removePoll", "sendMsg"},
                 container : Containers \union {None}, events : SUBSET Containers]

\* MsgTimerExpire is on its way: the poll thread has seen the timerfd of c and
\* not sent the message yet, or the message waits, or its handler runs and will
\* set the timerfd again.
ExpireIsComing(c) ==
    \/ poll.at # "epoll_wait" /\ c \in {poll.container} \union poll.events
    \/ \E i \in DOMAIN queue : queue[i] = MsgTimerExpire(c)
    \/ task.container = c

\* No timer oversleeps: while a delegate is in a heap, the timerfd is polled
\* and set to a time that is not later than its own, unless the handler that
\* sets it is on its way.  The message thread polls and sets the timerfd while
\* the poll thread disarms it and takes it out of the poll, without a lock.
NoTimerOversleeps ==
    \A c \in Containers, d \in Delegates :
        d \in Members(heap[c]) =>
            \/ ExpireIsComing(c)
            \/ c \in polled /\ mDevFd[c] # Off /\ mDevFd[c] <= mFuture[d]

\* Nobody holds a deleted delegate: "all timers are deleted here, and only
\* here" (MsgTimerRemove::proc) is safe because that message is the last one
\* about its delegate, and the delegate is sent exactly one.
NoDangling ==
    /\ \A c \in Containers : Members(heap[c]) \subseteq alive
    /\ \A t \in Timers : mTimer[t] # None => mTimer[t] \in alive
    /\ task.timer # None => task.timer \in alive
    /\ \A i \in DOMAIN queue : queue[i].timer # None => queue[i].timer \in alive
    /\ \A i, j \in DOMAIN queue :
          queue[i].type = "remove" /\ queue[j].timer = queue[i].timer => j <= i

\* Every timer that is started expires or is stopped.
EveryTimerEnds == \A t \in Timers : []<>(mTimer[t] = None)

\* "pop everything in the heap that outRanks now, i.e. has time older than now
\* and then call expire() on that timer" (LocTimer.cpp:367): only a timer whose
\* time has come is popped.
PopsOnlyWhatIsDue == task.at = "expire" => mFuture[task.timer] <= now
============================================================================
