------------------------------- MODULE WaitSet -------------------------------
(***************************************************************************)
(* The wait set of src/waitset_android.c.  One scheduler thread calls      *)
(* ofc_waitset_wait_impl again and again; other threads set events, put    *)
(* items on wait queues, add handles to the set and wake it.  The wait     *)
(* purges the pipe, tests every handle in queue order and sleeps in poll   *)
(* only if none has work; whatever happens after a handle has been tested  *)
(* must therefore reach the scheduler through the pipe.                    *)
(*                                                                         *)
(* Events, their mutexes and the pipe are those of module Event.  Events   *)
(* in a wait set are alive: who destroys an event removes it first.        *)
(***************************************************************************)
EXTENDS Event, Integers

CONSTANTS
    Handles,    \* handles that can be put in the wait set
    Kind,       \* ofc_handle_get_type of each handle
    EventOf,    \* the event by which a handle is awaited
    MaxWait,    \* OFC_MAX_SCHED_WAIT, in ticks
    MaxArm      \* bound: longest interval a timer is armed with

\* The two overlapped kinds that are awaited by an event of their own
\* (FSANDROID and FSRESOLVER) are one kind here.  OTHER is "not synchronizeable".
Kinds == {"EVENT", "WAIT_QUEUE", "FSSMB_OVERLAPPED", "FS_OVERLAPPED",
          "SOCKET", "FILE", "TIMER", "OTHER"}
OfKind(ks) == {h \in Handles : Kind[h] \in ks}

Flagged == OfKind({"EVENT", "FS_OVERLAPPED"})           \* work: the event is signalled
Queues  == OfKind({"WAIT_QUEUE", "FSSMB_OVERLAPPED"})   \* work: the queue is not empty
Awaited == Flagged \cup Queues                          \* awaited through an event
Fds     == OfKind({"SOCKET", "FILE"})                   \* awaited by poll itself
Timers  == OfKind({"TIMER"})

ASSUME WaitSetAssumption ==
    /\ Kind \in [Handles -> Kinds]
    /\ EventOf \in [Awaited -> Events]
    /\ \A h \in OfKind({"EVENT"}) : EventOf[h] = h
    /\ \A g, h \in Awaited : EventOf[g] = EventOf[h] => g = h
    /\ MaxWait \in Nat \ {0}
    /\ MaxArm \in Nat
    /\ NoHandle \notin Handles

VARIABLES
    hq,         \* pWaitSet->hHandleQueue
    qlen,       \* items on each wait queue
    io,         \* what poll would report for each descriptor
    events,     \* OFC_SOCKET_IMPL.events
    revents,    \* OFC_SOCKET_IMPL.revents
    left,       \* ofc_timer_get_wait_time of each timer
    wpc,        \* where the scheduler thread is in ofc_waitset_wait_impl
    idx,        \* position in hq of the handle to be tested next
    evq,        \* handles on eventQueue
    fds,        \* handles on ofc_handle_list
    mask,       \* android_handle_list[].events, as read when the list was built
    least,      \* leastWait; during poll, what is left of it
    timerEv,    \* timer_event
    trig,       \* triggered_event
    tok,        \* the event read from the pipe by PollEvent
    credit      \* history: sets of an AUTO event minus returns of its handle

worldVars  == <<qlen, io, events, left>>
waiterVars == <<wpc, idx, evq, fds, mask, least, timerEv, trig, tok>>
vars == <<eventVars, hq, revents, credit, worldVars, waiterVars>>

Registered(h) == \E i \in 1..Len(hq) : hq[i] = h

-----------------------------------------------------------------------------
(***************************************************************************)
(* The other threads.                                                      *)
(***************************************************************************)
\* History: an AUTO event that is itself in the set has been set once more.
Counted(e) == e \in OfKind({"EVENT"}) /\ EventType[e] = "AUTO"
CountSet(e) == credit' = [credit EXCEPT ![e] = IF Counted(e) THEN @ + 1 ELSE @]

\* ofc_event_set on an event that is not the private event of a queue.
EventSet(t, h) ==
    /\ h \in Flagged
    /\ SetLock(t, EventOf[h])
    /\ CountSet(EventOf[h])
    /\ UNCHANGED <<hq, revents, worldVars, waiterVars>>

\* Others that take the flag down: ofc_event_reset, or ofc_event_wait on the
\* event or through ofc_waitq_block.  Nobody else waits for an SMB response.
EventTake(t, h) ==
    /\ h \in Flagged \cup OfKind({"WAIT_QUEUE"})
    /\ ofc_event_reset_impl(t, EventOf[h]) \/ WaitLock(t, EventOf[h])
    /\ UNCHANGED <<hq, revents, credit, worldVars, waiterVars>>

\* ofc_waitq_enqueue: the item goes on the queue, then the queue's event is set.
ofc_waitq_enqueue(t, h) ==
    /\ h \in Queues
    /\ Call(t)
    /\ qlen' = [qlen EXCEPT ![h] = @ + 1]
    /\ Enter(t, EventOf[h], "enqueued")
    /\ UNCHANGED <<life, signalled, mutex, inSet, pipe, hq, revents, credit,
                   io, events, left, waiterVars>>

EnqueuedSet(t) ==
    /\ pc[t] = "enqueued"
    /\ RaiseFlag(t, ev[t])
    /\ UNCHANGED <<calls, hq, revents, credit, worldVars, waiterVars>>

EventStep(t) ==
    /\ InFlight(t)
    /\ UNCHANGED <<hq, revents, credit, worldVars, waiterVars>>

\* ofc_waitset_wake_impl posts the null handle.
ofc_waitset_wake_impl(t) ==
    /\ Call(t)
    /\ ofc_waitset_signal_impl(NoHandle)
    /\ UNCHANGED <<life, signalled, mutex, inSet, pc, ev,
                   hq, revents, credit, worldVars, waiterVars>>

\* ofc_waitset_add queues the handle, then calls ofc_waitset_add_impl, which has
\* something to do for the handles awaited through an event.
ofc_waitset_add(t, h) ==
    /\ ~Registered(h)
    /\ Call(t)
    /\ hq' = Append(hq, h)
    /\ IF h \in Awaited THEN Enter(t, EventOf[h], "assoc") ELSE UNCHANGED <<pc, ev>>
    /\ UNCHANGED <<life, signalled, mutex, inSet, pipe, revents, credit,
                   worldVars, waiterVars>>

\* Mutant of AddAssoc: the event does not learn of the set.
AddUnassociated(t) ==
    /\ pc[t] = "assoc"
    /\ Goto(t, "addtest")
    /\ UNCHANGED <<life, signalled, mutex, inSet, pipe, ev, calls,
                   hq, revents, credit, worldVars, waiterVars>>

\* ofc_waitset_add_impl: associate the event with the set ...
AddAssoc(t) ==
    /\ pc[t] = "assoc"
    /\ inSet' = [inSet EXCEPT ![ev[t]] = TRUE]
    /\ Goto(t, "addtest")
    /\ UNCHANGED <<life, signalled, mutex, pipe, ev, calls,
                   hq, revents, credit, worldVars, waiterVars>>

\* Mutant of AddTest: a handle that already has work is not noticed.
AddUntested(t) ==
    /\ pc[t] = "addtest"
    /\ Leave(t)
    /\ UNCHANGED <<life, signalled, mutex, inSet, pipe, calls,
                   hq, revents, credit, worldVars, waiterVars>>

\* ... test it: a wait queue by its length, all others by their event ...
AddTest(t) ==
    /\ pc[t] = "addtest"
    /\ \E h \in Awaited :
          /\ EventOf[h] = ev[t]
          /\ Kind[h] # "WAIT_QUEUE" => mutex[ev[t]] = NoThread
          /\ LET ready == IF Kind[h] = "WAIT_QUEUE" THEN qlen[h] > 0
                                                    ELSE ofc_event_test_impl(ev[t])
             IN  \/ ready /\ Goto(t, "addpost") /\ UNCHANGED ev
                 \/ ~ready /\ Leave(t)
    /\ UNCHANGED <<life, signalled, mutex, inSet, pipe, calls,
                   hq, revents, credit, worldVars, waiterVars>>

\* ... and post it if there is work.
AddPost(t) ==
    /\ pc[t] = "addpost"
    /\ ofc_waitset_signal_impl(ev[t])
    /\ Leave(t)
    /\ UNCHANGED <<life, signalled, mutex, inSet, calls,
                   hq, revents, credit, worldVars, waiterVars>>

Adding(h) ==
    \E t \in Threads : pc[t] \in {"assoc", "addtest", "addpost"} /\ ev[t] = EventOf[h]

\* ofc_socket_impl_enable chooses what poll is to report, at any time.
ofc_socket_impl_enable(h, type) ==
    /\ Kind[h] = "SOCKET"
    /\ events' = [events EXCEPT ![h] = type]
    /\ UNCHANGED <<eventVars, hq, revents, credit, qlen, io, left, waiterVars>>

\* Consumers: ofc_waitq_dequeue, and the network and the readers of a descriptor.
ofc_waitq_dequeue(h) ==
    /\ h \in Queues
    /\ qlen[h] > 0
    /\ qlen' = [qlen EXCEPT ![h] = @ - 1]
    /\ UNCHANGED <<eventVars, hq, revents, credit, io, events, left, waiterVars>>

Io(h, now) ==
    /\ h \in Fds
    /\ io' = [io EXCEPT ![h] = now]
    /\ UNCHANGED <<eventVars, hq, revents, credit, qlen, events, left, waiterVars>>

\* A tick of the clock, in which a sleep in poll gets shorter too.
Tick ==
    /\ left' = [h \in Handles |-> IF left[h] > 0 THEN left[h] - 1 ELSE 0]
    /\ least' = IF wpc = "poll" /\ least > 0 THEN least - 1 ELSE least
    /\ UNCHANGED <<eventVars, hq, revents, credit, qlen, io, events,
                   wpc, idx, evq, fds, mask, timerEv, trig, tok>>

-----------------------------------------------------------------------------
(***************************************************************************)
(* The scheduler thread: ofc_waitset_wait_impl.                            *)
(***************************************************************************)
outsideVars == <<life, mutex, inSet, pc, ev, calls, hq, credit, worldVars>>

\* The values the local variables of a call start with.  They are given to
\* them when the previous call returns and frees its lists.
FreshLocals ==
    /\ idx' = 1
    /\ evq' = {}
    /\ fds' = {}
    /\ mask' = [h \in Handles |-> {}]
    /\ least' = MaxWait
    /\ timerEv' = NoHandle
    /\ trig' = NoHandle
    /\ tok' = NoHandle

WaitCall ==
    /\ wpc = "idle"
    /\ wpc' = "purge"
    /\ UNCHANGED <<outsideVars, signalled, pipe, revents,
                   idx, evq, fds, mask, least, timerEv, trig, tok>>

\* One read of the purging loop; it ends when the pipe is empty.
Purge ==
    /\ wpc = "purge"
    /\ \/ /\ pipe # <<>>
          /\ pipe' = Tail(pipe)
          /\ UNCHANGED wpc
       \/ /\ pipe = <<>>
          /\ wpc' = "scan"
          /\ UNCHANGED pipe
    /\ UNCHANGED <<outsideVars, signalled, revents,
                   idx, evq, fds, mask, least, timerEv, trig, tok>>

\* The loop over hHandleQueue is at handle h.
At(h) == wpc = "scan" /\ idx <= Len(hq) /\ hq[idx] = h

Found(h) == trig' = h /\ UNCHANGED <<idx, evq>>
Await(h) == evq' = evq \cup {h} /\ idx' = idx + 1 /\ UNCHANGED <<trig, wpc>>

\* An event, or an overlapped operation with an event: only the former is reset.
ScanFlagged(h) ==
    /\ At(h)
    /\ h \in Flagged
    /\ mutex[EventOf[h]] = NoThread
    /\ \/ /\ ofc_event_test_impl(EventOf[h])
          /\ Found(h)
          /\ wpc' = IF Kind[h] = "EVENT" /\ ofc_event_get_type_impl(h) = "AUTO"
                    THEN "reset" ELSE "ret"
          /\ tok' = EventOf[h]
       \/ /\ ~ofc_event_test_impl(EventOf[h])
          /\ Await(h)
          /\ UNCHANGED tok
    /\ UNCHANGED <<outsideVars, signalled, pipe, revents, fds, mask, least, timerEv>>

\* Mutant of ScanQueue: its event is tested, not its queue.
ScanQueueEvent(h) ==
    /\ At(h)
    /\ h \in Queues
    /\ \/ signalled[EventOf[h]] /\ Found(h) /\ wpc' = "ret"
       \/ ~signalled[EventOf[h]] /\ Await(h)
    /\ UNCHANGED <<outsideVars, signalled, pipe, revents, fds, mask, least, timerEv, tok>>

\* A wait queue, or an SMB operation with a response queue.
ScanQueue(h) ==
    /\ At(h)
    /\ h \in Queues
    /\ \/ qlen[h] > 0 /\ Found(h) /\ wpc' = "ret"
       \/ qlen[h] = 0 /\ Await(h)
    /\ UNCHANGED <<outsideVars, signalled, pipe, revents, fds, mask, least, timerEv, tok>>

\* A socket or a file joins the list for poll, with the events enabled now.
ScanFd(h) ==
    /\ At(h)
    /\ h \in Fds
    /\ fds' = fds \cup {h}
    /\ mask' = [mask EXCEPT ![h] = IF Kind[h] = "SOCKET" THEN events[h] ELSE {}]
    /\ idx' = idx + 1
    /\ UNCHANGED <<outsideVars, signalled, pipe, revents, wpc, evq, least, timerEv, trig, tok>>

\* Mutants of ScanTimer: the last timer is the one that is triggered, whichever
\* set the sleep; and a timer that is due is taken for one that is not armed.
ScanTimerLast(h) ==
    /\ At(h)
    /\ h \in Timers
    /\ \/ left[h] = 0 /\ Found(h) /\ wpc' = "ret" /\ UNCHANGED <<least, timerEv>>
       \/ /\ left[h] > 0
          /\ least' = IF left[h] < least THEN left[h] ELSE least
          /\ timerEv' = h
          /\ idx' = idx + 1
          /\ UNCHANGED <<trig, wpc, evq>>
    /\ UNCHANGED <<outsideVars, signalled, pipe, revents, fds, mask, tok>>

ScanTimerNotDue(h) ==
    /\ At(h)
    /\ h \in Timers
    /\ IF left[h] > 0 /\ left[h] < least THEN least' = left[h] /\ timerEv' = h
                                          ELSE UNCHANGED <<least, timerEv>>
    /\ idx' = idx + 1
    /\ UNCHANGED <<outsideVars, signalled, pipe, revents, trig, wpc, evq, fds, mask, tok>>

\* A timer is due, or may shorten the sleep.
ScanTimer(h) ==
    /\ At(h)
    /\ h \in Timers
    /\ \/ /\ left[h] = 0
          /\ Found(h)
          /\ wpc' = "ret"
          /\ UNCHANGED <<least, timerEv>>
       \/ /\ left[h] > 0
          /\ IF left[h] < least THEN least' = left[h] /\ timerEv' = h
                                ELSE UNCHANGED <<least, timerEv>>
          /\ idx' = idx + 1
          /\ UNCHANGED <<trig, wpc, evq>>
    /\ UNCHANGED <<outsideVars, signalled, pipe, revents, fds, mask, tok>>

ScanOther(h) ==
    /\ At(h)
    /\ Kind[h] = "OTHER"
    /\ idx' = idx + 1
    /\ UNCHANGED <<outsideVars, signalled, pipe, revents,
                   wpc, evq, fds, mask, least, timerEv, trig, tok>>

ScanDone ==
    /\ wpc = "scan"
    /\ idx > Len(hq)
    /\ wpc' = "poll"
    /\ UNCHANGED <<outsideVars, signalled, pipe, revents,
                   idx, evq, fds, mask, least, timerEv, trig, tok>>

\* What poll reports for h: what was asked for, and what it always reports.
Reported(h) == io[h] \cap (mask[h] \cup {"HUP"})
ReadyFds == {h \in fds : Reported(h) # {}}
First(h, S) == h \in S /\ \E i \in 1..Len(hq) :
                             hq[i] = h /\ \A j \in 1..(i - 1) : hq[j] \notin S

\* poll returns because the pipe, first on the list, can be read ...
PollPipe ==
    /\ wpc = "poll"
    /\ pipe # <<>>
    /\ wpc' = "pollevent"
    /\ UNCHANGED <<outsideVars, signalled, pipe, revents,
                   idx, evq, fds, mask, least, timerEv, trig, tok>>

\* ... or because of a descriptor, the first of which is triggered; what poll
\* reports is stored for a file as it is for a socket (422) ...
PollFd ==
    /\ wpc = "poll"
    /\ pipe = <<>>
    /\ \E h \in fds :
          /\ First(h, ReadyFds)
          /\ trig' = h
          /\ revents' = [revents EXCEPT ![h] = Reported(h)]
    /\ wpc' = "ret"
    /\ UNCHANGED <<outsideVars, signalled, pipe,
                   idx, evq, fds, mask, least, timerEv, tok>>

\* ... or because the time is up, which triggers the timer that set it ...
PollTimeout ==
    /\ wpc = "poll"
    /\ least = 0
    /\ pipe = <<>> /\ ReadyFds = {}
    /\ trig' = timerEv
    /\ wpc' = "ret"
    /\ UNCHANGED <<outsideVars, signalled, pipe, revents,
                   idx, evq, fds, mask, least, timerEv, tok>>

\* ... or because a signal interrupts the sleep (EINTR): nothing is triggered.
PollError ==
    /\ wpc = "poll"
    /\ pipe = <<>> /\ ReadyFds = {}
    /\ wpc' = "ret"
    /\ UNCHANGED <<outsideVars, signalled, pipe, revents,
                   idx, evq, fds, mask, least, timerEv, trig, tok>>

\* Mutant of PollEventRead: every handle is tested, the null handle too.
PollEventReadAny ==
    /\ wpc = "pollevent"
    /\ \/ pipe = <<>> /\ wpc' = "ret" /\ UNCHANGED <<pipe, tok>>
       \/ pipe # <<>> /\ pipe' = Tail(pipe) /\ tok' = Head(pipe) /\ wpc' = "polltest"
    /\ UNCHANGED <<outsideVars, signalled, revents, idx, evq, fds, mask, least, timerEv, trig>>

\* PollEvent: read a handle.  The null handle and an empty pipe end the loop; a
\* handle that nothing on eventQueue waits for is skipped.
PollEventRead ==
    /\ wpc = "pollevent"
    /\ \/ /\ pipe = <<>>
          /\ wpc' = "ret"
          /\ UNCHANGED <<pipe, tok>>
       \/ /\ pipe # <<>>
          /\ pipe' = Tail(pipe)
          /\ tok' = Head(pipe)
          /\ wpc' = IF Head(pipe) = NoHandle THEN "ret"
                    ELSE IF \E h \in evq : EventOf[h] = Head(pipe) THEN "polltest"
                    ELSE "pollevent"
    /\ UNCHANGED <<outsideVars, signalled, revents, idx, evq, fds, mask, least, timerEv, trig>>

\* Mutant of PollEventTest: what was posted is taken at its word.
PollEventUntested ==
    /\ wpc = "polltest"
    /\ mutex[tok] = NoThread
    /\ wpc' = IF ofc_event_get_type_impl(tok) = "AUTO" THEN "reset" ELSE "ret"
    /\ \E h \in evq : EventOf[h] = tok /\ trig' = h
    /\ UNCHANGED <<outsideVars, signalled, pipe, revents,
                   idx, evq, fds, mask, least, timerEv, tok>>

\* A handle that something waits for triggers it, if its event is still up.
PollEventTest ==
    /\ wpc = "polltest"
    /\ mutex[tok] = NoThread
    /\ \/ /\ ofc_event_test_impl(tok)
          /\ wpc' = IF ofc_event_get_type_impl(tok) = "AUTO" THEN "reset" ELSE "ret"
          /\ \E h \in evq : EventOf[h] = tok /\ trig' = h
       \/ /\ ~ofc_event_test_impl(tok)
          /\ wpc' = "pollevent"
          /\ UNCHANGED trig
    /\ UNCHANGED <<outsideVars, signalled, pipe, revents,
                   idx, evq, fds, mask, least, timerEv, tok>>

\* Mutant of ResetAuto: the flag stays up.
ResetNothing ==
    /\ wpc = "reset"
    /\ mutex[tok] = NoThread
    /\ wpc' = "ret"
    /\ UNCHANGED <<outsideVars, signalled, pipe, revents,
                   idx, evq, fds, mask, least, timerEv, trig, tok>>

\* The separate call of ofc_event_reset for an AUTO event that has triggered.
ResetAuto ==
    /\ wpc = "reset"
    /\ mutex[tok] = NoThread
    /\ signalled' = [signalled EXCEPT ![tok] = FALSE]
    /\ wpc' = "ret"
    /\ UNCHANGED <<outsideVars, pipe, revents,
                   idx, evq, fds, mask, least, timerEv, trig, tok>>

Return ==
    /\ wpc = "ret"
    /\ wpc' = "idle"
    /\ credit' = [e \in Events |->
                    IF e = trig /\ Counted(e) THEN credit[e] - 1 ELSE credit[e]]
    /\ FreshLocals
    /\ UNCHANGED <<eventVars, hq, revents, worldVars>>

\* Between waits the scheduler takes handles out of the set (ofc_waitset_remove
\* clears an event's own association, ofc_waitset_set_assoc_impl that of the
\* event behind a handle) and arms its timers.
Remove(h) ==
    /\ wpc = "idle"
    /\ h \in Awaited => ~Adding(h)
    /\ \E i \in 1..Len(hq) :
          /\ hq[i] = h
          /\ hq' = SubSeq(hq, 1, i - 1) \o SubSeq(hq, i + 1, Len(hq))
    /\ inSet' = IF h \in Awaited THEN [inSet EXCEPT ![EventOf[h]] = FALSE] ELSE inSet
    /\ UNCHANGED <<life, signalled, mutex, pipe, pc, ev, calls, revents, credit,
                   worldVars, waiterVars>>

ArmTimer(h) ==
    /\ wpc = "idle"
    /\ h \in Timers
    /\ left[h] = 0
    /\ \E n \in 1..MaxArm : left' = [left EXCEPT ![h] = n]
    /\ UNCHANGED <<eventVars, hq, revents, credit, qlen, io, events, waiterVars>>

-----------------------------------------------------------------------------
\* A thread starts a call, or goes on with the one it is in.
ThreadCall(t) ==
    \/ ofc_waitset_wake_impl(t)
    \/ \E h \in Handles : \/ EventSet(t, h) \/ EventTake(t, h)
                          \/ ofc_waitq_enqueue(t, h) \/ ofc_waitset_add(t, h)

ThreadStep(t) ==
    EventStep(t) \/ EnqueuedSet(t) \/ AddAssoc(t) \/ AddTest(t) \/ AddPost(t)

\* What the scheduler thread does whenever it can; that poll times out or is
\* interrupted is not up to it.
WaiterStep ==
    \/ WaitCall \/ Purge \/ ScanDone \/ PollPipe \/ PollFd
    \/ PollEventRead \/ PollEventTest \/ ResetAuto \/ Return
    \/ \E h \in Handles : ScanFlagged(h) \/ ScanQueue(h) \/ ScanFd(h)
                           \/ ScanTimer(h) \/ ScanOther(h)

\* Consumers, timers, descriptors and the clock.
WorldStep ==
    \/ \E h \in Handles :
          \/ ofc_waitq_dequeue(h) \/ ArmTimer(h)
          \/ \E b \in SUBSET {"IN"} : ofc_socket_impl_enable(h, b)
          \/ \E b \in SUBSET {"IN", "HUP"} : Io(h, b)
    \/ Tick

Outside ==
    \/ \E t \in Threads : ThreadCall(t)
    \/ \E h \in Handles : Remove(h)
    \/ WorldStep

Init ==
    /\ QuietInit
    /\ life = [e \in Events |-> "live"]
    /\ inSet = [e \in Events |-> FALSE]
    /\ hq = <<>>
    /\ qlen = [h \in Handles |-> 0]
    /\ io = [h \in Handles |-> {}]
    /\ events = [h \in Handles |-> {}]
    /\ revents = [h \in Handles |-> {}]
    /\ left = [h \in Handles |-> 0]
    /\ wpc = "idle"
    /\ idx = 1
    /\ evq = {}
    /\ fds = {}
    /\ mask = [h \in Handles |-> {}]
    /\ least = MaxWait
    /\ timerEv = NoHandle
    /\ trig = NoHandle
    /\ tok = NoHandle
    /\ credit = [e \in Events |-> 0]

Next ==
    \/ WaiterStep \/ PollTimeout \/ PollError
    \/ \E t \in Threads : ThreadStep(t)
    \/ Outside

\* The scheduler loop and a call under way go on.  Nothing is assumed about the
\* timeout of poll: what is delivered is delivered without its help.
Fairness == WF_vars(WaiterStep) /\ \A t \in Threads : WF_vars(ThreadStep(t))

Spec == Init /\ [][Next]_vars /\ Fairness

\* With a clock that runs and a sleep in poll that ends when its time is up:
\* OFC_MAX_SCHED_WAIT is finite, so that every call of poll has a timeout.
TimedSpec == Spec /\ WF_vars(Tick) /\ WF_vars(WaiterStep \/ PollTimeout)

-----------------------------------------------------------------------------
ThreadPC == (EventPC \ {"hdestroy"}) \cup {"enqueued", "assoc", "addtest", "addpost"}
WaiterPC == {"idle", "purge", "scan", "poll", "pollevent", "polltest", "reset", "ret"}

ThreadTypeOK ==
    /\ life \in [Events -> {"live"}]
    /\ signalled \in [Events -> BOOLEAN]
    /\ mutex \in [Events -> Threads \cup {NoThread}]
    /\ inSet \in [Events -> BOOLEAN]
    /\ pipe \in Seq(Events \cup {NoHandle})
    /\ pc \in [Threads -> ThreadPC]
    /\ ev \in [Threads -> Events \cup {NoHandle}]
    /\ \A t \in Threads : pc[t] = "idle" <=> ev[t] = NoHandle
    /\ calls \in [Threads -> Nat]

WorldTypeOK ==
    /\ hq \in Seq(Handles)
    /\ qlen \in [Handles -> Nat]
    /\ io \in [Handles -> SUBSET {"IN", "HUP"}]
    /\ events \in [Handles -> SUBSET {"IN"}]
    /\ revents \in [Handles -> SUBSET {"IN", "HUP"}]
    /\ left \in [Handles -> Nat]
    /\ credit \in [Events -> Int]

WaiterTypeOK ==
    /\ wpc \in WaiterPC
    /\ idx \in Nat \ {0}
    /\ evq \subseteq Awaited
    /\ fds \subseteq Fds
    /\ mask \in [Handles -> SUBSET {"IN"}]
    /\ least \in Nat
    /\ timerEv \in Timers \cup {NoHandle}
    /\ trig \in Handles \cup {NoHandle}
    /\ tok \in Events \cup {NoHandle}
    /\ wpc \in {"polltest", "reset"} => tok \in Events

\* The type invariant: events alive, threads and scheduler at known places.
TypeOK == ThreadTypeOK /\ WorldTypeOK /\ WaiterTypeOK

Work(h) == IF h \in Queues THEN qlen[h] > 0 ELSE signalled[EventOf[h]]

\* Somebody is still going to post the event of h: a setter inside
\* ofc_event_set_impl, an enqueuer about to call it, or ofc_waitset_add_impl.
PostAhead(h) ==
    \/ \E t \in Threads : pc[t] \in Holding \cup {"enqueued"} /\ ev[t] = EventOf[h]
    \/ Adding(h)

\* No lost wakeup in ofc_waitset_wait_impl: while the scheduler sleeps in poll,
\* no handle it has tested and found idle has work, unless the pipe will wake
\* it or somebody is about to write to the pipe.  Purging the pipe, dropping
\* what does not fit in it and adding handles meanwhile lose nothing.
NoLostSignal ==
    wpc = "poll" => \A h \in evq : (Registered(h) /\ Work(h)) => (pipe # <<>> \/ PostAhead(h))

\* An AUTO event in the set is consumed: ofc_waitset_wait_impl does not return
\* its handle more often than the event has been set, although testing and
\* resetting it are two calls and other threads reset and await it as well.
AutoAtMostOnce == \A e \in Events : credit[e] >= 0

\* A timer that ofc_waitset_wait_impl returns is due, whichever of the handles
\* and timers in the set made the sleep end.
TimerNotEarly == (wpc = "ret" /\ trig \in Timers) => left[trig] = 0

Pos(h) == CHOOSE i \in 1..Len(hq) : hq[i] = h
ReturnsUpTo(h) == wpc = "ret" /\ trig # NoHandle /\ Registered(trig) /\ Pos(trig) <= Pos(h)

\* A registered handle with work is returned, or a handle that is queued before
\* it, without any help of a timeout: the scheduler neither sleeps on it nor
\* lets later handles pass it forever.  This is not so for an SMB operation:
\* ofc_waitset_add_impl tests its event, which a wait may have reset while there
\* is a response on the queue, and then posts nothing.
WorkIsServed ==
    \A h \in Awaited \ OfKind({"FSSMB_OVERLAPPED"}) :
        (Registered(h) /\ Work(h)) ~> (~Registered(h) \/ ~Work(h) \/ ReturnsUpTo(h))

\* What the next look at h would find: a timer that is due, a response on the
\* queue, or a descriptor that has hung up or has what it is enabled for.
Causes(h) == IF h \in Fds THEN {"IN", "HUP"} ELSE {"work"}
Due(h, cause) ==
    CASE h \in Timers -> left[h] = 0
      [] h \in Fds -> cause \in io[h] \cap (events[h] \cup {"HUP"})
      [] OTHER -> Work(h)

\* Nothing is posted for a timer or a descriptor that ofc_waitset_add_impl puts in
\* the set while the scheduler sleeps, nor when ofc_socket_impl_enable asks for an
\* event meanwhile, nor for an SMB operation that is added again with responses on
\* its queue and its event reset.  They make the wait return with some handle to
\* serve all the same, because every sleep ends.  Handles that are queued before
\* may still go first, for as long as they have work.
DueIsServed ==
    \A h \in Fds \cup Timers \cup OfKind({"FSSMB_OVERLAPPED"}) : \A c \in Causes(h) :
        (Registered(h) /\ Due(h, c))
            ~> (~Registered(h) \/ ~Due(h, c) \/ (wpc = "ret" /\ trig # NoHandle))

-----------------------------------------------------------------------------
(***************************************************************************)
(* The wait set as module AtomicWaitSet sees it.                           *)
(***************************************************************************)
\* The flag of h is up and the wait has not taken it yet: an AUTO event that has
\* been found signalled is as good as reset, whoever sets it before it really is.
Raised(h) == signalled[EventOf[h]] /\ ~(wpc = "reset" /\ tok = EventOf[h])

\* A queue has an item or an unread post; a descriptor has what it is asked for
\* now, or what it was asked for when the wait looked at it.
HasWork(h) ==
    \/ h \in Flagged /\ Raised(h)
    \/ h \in Queues /\ (qlen[h] > 0 \/ Raised(h))
    \/ h \in Fds /\ io[h] \cap (events[h] \cup mask[h] \cup {"HUP"}) # {}
    \/ h \in Timers /\ left[h] = 0

Members == {h \in Handles : Registered(h)}
Working == {h \in Handles : HasWork(h)}
AutoEvents == {h \in OfKind({"EVENT"}) : EventType[h] = "AUTO"}
CallState == IF wpc = "idle" THEN "idle"
             ELSE IF wpc \in {"reset", "ret"} THEN "answered" ELSE "waiting"

AtomicSet == INSTANCE AtomicWaitSet WITH
    members <- Members, work <- Working, state <- CallState, answer <- trig

\* The wait of waitset_android.c, with its purge, its loop over the handles, its
\* sleep and its reading of what was posted, while everything changes around it,
\* behaves as a wait that takes effect at one instant: what it answers is in the
\* set and has work at that instant, although posts are stale when they are read,
\* although a timer is taken unseen when the time is up, and although an AUTO
\* event is tested and reset in two calls.
ImplementsAtomicWaitSet == AtomicSet!Spec
=============================================================================
