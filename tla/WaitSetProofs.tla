---------------------------- MODULE WaitSetProofs ----------------------------
(***************************************************************************)
(* Theorems about module WaitSet, for any number of threads and any mix of *)
(* handles: its type invariant, the three safety properties that the runs  *)
(* check on small instances, and that it implements AtomicWaitSet.  Each   *)
(* rests on an inductive invariant of its own, stated next to its proof.   *)
(***************************************************************************)
EXTENDS WaitSet, TLAPS

\* The kinds are disjoint, and each awaited handle has an event of its own.
LEMMA KindFacts ==
    /\ Flagged \subseteq Awaited /\ Queues \subseteq Awaited
    /\ Awaited \subseteq Handles /\ Fds \subseteq Handles /\ Timers \subseteq Handles
    /\ Flagged \cup Queues = Awaited /\ Flagged \cap Queues = {}
    /\ Fds \cap Timers = {} /\ \A h \in Fds \cup Timers : h \notin Awaited
    /\ \A h \in Handles : Kind[h] \in {"EVENT", "FS_OVERLAPPED"} <=> h \in Flagged
    /\ \A h \in Handles : Kind[h] \in {"WAIT_QUEUE", "FSSMB_OVERLAPPED"} <=> h \in Queues
    /\ \A h \in Awaited : EventOf[h] \in Events
    /\ \A g, h \in Awaited : EventOf[g] = EventOf[h] => g = h
    /\ NoHandle \notin Handles /\ NoHandle \notin Events
    /\ MaxWait \in Nat /\ MaxArm \in Nat
    /\ PipeCap \in Nat /\ PipeCap > 0
  BY EventAssumption, WaitSetAssumption DEF Flagged, Queues, Awaited, Fds, Timers, OfKind

\* The thread's side of an event is typed as long as it is given an event.
LEMMA TakeType ==
    ASSUME ThreadTypeOK, NEW t \in Threads, NEW e \in Events,
           ofc_event_reset_impl(t, e) \/ WaitLock(t, e)
    PROVE  ThreadTypeOK'
<1> USE EventAssumption DEF ThreadTypeOK, ThreadPC, EventPC
<1>1. CASE ofc_event_reset_impl(t, e)
  BY <1>1 DEF ofc_event_reset_impl, Call
<1>2. CASE WaitLock(t, e) /\ ClearIfAuto(e) /\ UNCHANGED <<pc, ev>>
  BY <1>2 DEF WaitLock, Call, ClearIfAuto
<1>3. CASE WaitLock(t, e) /\ Enter(t, e, "blocked") /\ UNCHANGED signalled
  BY <1>3 DEF WaitLock, Call, Goto, Enter
<1> QED
  BY <1>1, <1>2, <1>3 DEF WaitLock

\* A write to the pipe leaves a sequence of events and null handles, not empty.
LEMMA SignalPosts ==
    ASSUME ThreadTypeOK, NEW x \in Events \cup {NoHandle}, ofc_waitset_signal_impl(x)
    PROVE  pipe' \in Seq(Events \cup {NoHandle}) /\ pipe' # <<>>
<1>1. pipe \in Seq(Events \cup {NoHandle})
  BY DEF ThreadTypeOK
<1>2. CASE Len(pipe) < PipeCap
  BY <1>1, <1>2 DEF ofc_waitset_signal_impl
<1>3. CASE ~(Len(pipe) < PipeCap)
  <2>1. Len(pipe) # 0 /\ pipe' = pipe
    BY <1>1, <1>3, KindFacts DEF ofc_waitset_signal_impl
  <2> QED
    BY <1>1, <2>1
<1> QED
  BY <1>2, <1>3

\* The events of a wait set are alive: testing one is reading its flag.
LEMMA LiveEvent ==
    ASSUME ThreadTypeOK, NEW e \in Events
    PROVE  (ofc_event_test_impl(e) <=> signalled[e]) /\ ofc_event_get_type_impl(e) = EventType[e]
<1>1. ofc_handle_lock(e)
  BY DEF ThreadTypeOK, ofc_handle_lock
<1> QED
  BY <1>1 DEF ofc_event_test_impl, ofc_event_get_type_impl

\* The other threads touch nothing that belongs to the scheduler's call.
LEMMA ThreadFrame ==
    ASSUME NEW t \in Threads, ThreadCall(t) \/ ThreadStep(t)
    PROVE  UNCHANGED <<io, events, left, revents, waiterVars>>
  BY DEF ThreadCall, ThreadStep, ofc_waitset_wake_impl, EventSet, EventTake,
         ofc_waitq_enqueue, ofc_waitset_add, EventStep, EnqueuedSet, AddAssoc, AddTest,
         AddPost, worldVars

\* The scheduler's call touches nothing that belongs to the threads or the world,
\* except the flags and the pipe.
LEMMA WaiterFrame ==
    ASSUME WaiterStep \/ PollTimeout \/ PollError
    PROVE  UNCHANGED <<life, mutex, inSet, pc, ev, calls, hq, worldVars>>
  BY DEF WaiterStep, PollTimeout, PollError, WaitCall, Purge, ScanDone, PollPipe, PollFd,
         PollEventRead, PollEventTest, ResetAuto, Return, ScanFlagged, ScanQueue, ScanFd,
         ScanTimer, ScanOther, outsideVars, eventVars

\* Consumers, timers, descriptors and the clock touch neither the events nor the
\* pipe, and of the scheduler's variables only the rest of its sleep.
LEMMA WorldFrame ==
    ASSUME WorldStep
    PROVE  UNCHANGED <<eventVars, hq, revents, credit, wpc, idx, evq, fds, mask,
                       timerEv, trig, tok>>
  BY DEF WorldStep, ofc_waitq_dequeue, ArmTimer, ofc_socket_impl_enable, Io, Tick, waiterVars

-----------------------------------------------------------------------------
\* The types of the events and of the threads' control, step by step.
LEMMA ThreadTypeStep ==
    ASSUME TypeOK, [Next]_vars
    PROVE  ThreadTypeOK'
<1>0. ThreadTypeOK /\ WaiterTypeOK
  BY DEF TypeOK
<1> USE <1>0, KindFacts
<1>1. ASSUME NEW t \in Threads, ofc_waitset_wake_impl(t) PROVE ThreadTypeOK'
  BY <1>1, SignalPosts DEF ThreadTypeOK, ofc_waitset_wake_impl, Call
<1>2. ASSUME NEW t \in Threads, NEW h \in Handles, EventSet(t, h) PROVE ThreadTypeOK'
  BY <1>2 DEF ThreadTypeOK, ThreadPC, EventPC, EventSet, SetLock, RaiseFlag, Call, Goto, Enter
<1>3. ASSUME NEW t \in Threads, NEW h \in Handles, EventTake(t, h) PROVE ThreadTypeOK'
  <2>1. EventOf[h] \in Events
    BY <1>3 DEF EventTake, OfKind
  <2> QED
    BY <1>3, <2>1, TakeType DEF EventTake
<1>4. ASSUME NEW t \in Threads, NEW h \in Handles, ofc_waitq_enqueue(t, h) PROVE ThreadTypeOK'
  BY <1>4 DEF ThreadTypeOK, ThreadPC, EventPC, ofc_waitq_enqueue, Call, Goto, Enter
<1>5. ASSUME NEW t \in Threads, NEW h \in Handles, ofc_waitset_add(t, h) PROVE ThreadTypeOK'
  <2>1. CASE h \in Awaited
    <3>1. EventOf[h] \in Events /\ Enter(t, EventOf[h], "assoc") /\ Call(t)
      BY <1>5, <2>1 DEF ofc_waitset_add
    <3> QED
      BY <1>5, <3>1 DEF ThreadTypeOK, ThreadPC, EventPC, ofc_waitset_add, Call, Goto, Enter
  <2>2. CASE h \notin Awaited
    BY <1>5, <2>2 DEF ThreadTypeOK, ofc_waitset_add, Call
  <2> QED
    BY <2>1, <2>2
<1>6. ASSUME NEW t \in Threads, EventStep(t) PROVE ThreadTypeOK'
  <2>1. CASE SetBroadcast(t)
    BY <2>1 DEF ThreadTypeOK, ThreadPC, EventPC, SetBroadcast
  <2>2. CASE SetLookup(t) /\ Goto(t, "post") /\ UNCHANGED <<mutex, ev>>
    BY <2>2 DEF ThreadTypeOK, ThreadPC, EventPC, SetLookup, Goto
  <2>3. CASE SetLookup(t) /\ Leave(t) /\ mutex' = [mutex EXCEPT ![ev[t]] = NoThread]
    BY <2>3 DEF ThreadTypeOK, ThreadPC, EventPC, SetLookup, Goto, Leave
  <2>4. CASE SetPost(t)
    BY <2>4, SignalPosts DEF ThreadTypeOK, ThreadPC, EventPC, SetPost, Goto, Leave
  <2>5. CASE WaitRelock(t)
    BY <2>5 DEF ThreadTypeOK, ThreadPC, EventPC, WaitRelock, ClearIfAuto, Goto, Leave
  <2>6. ~DestroyHandle(t)
    BY DEF ThreadTypeOK, ThreadPC, EventPC, DestroyHandle
  <2> QED
    BY <1>6, <2>1, <2>2, <2>3, <2>4, <2>5, <2>6 DEF EventStep, InFlight, SetLookup
<1>7. ASSUME NEW t \in Threads, EnqueuedSet(t) PROVE ThreadTypeOK'
  BY <1>7 DEF ThreadTypeOK, ThreadPC, EventPC, EnqueuedSet, RaiseFlag, Goto, Enter
<1>8. ASSUME NEW t \in Threads, AddAssoc(t) PROVE ThreadTypeOK'
  BY <1>8 DEF ThreadTypeOK, ThreadPC, EventPC, AddAssoc, Goto
<1>9. ASSUME NEW t \in Threads, AddTest(t) PROVE ThreadTypeOK'
  <2>1. CASE Goto(t, "addpost") /\ UNCHANGED ev
    BY <1>9, <2>1 DEF ThreadTypeOK, ThreadPC, EventPC, AddTest, Goto
  <2>2. CASE Leave(t)
    BY <1>9, <2>2 DEF ThreadTypeOK, ThreadPC, EventPC, AddTest, Goto, Leave
  <2> QED
    BY <1>9, <2>1, <2>2 DEF AddTest
<1>10. ASSUME NEW t \in Threads, AddPost(t) PROVE ThreadTypeOK'
  BY <1>10, SignalPosts DEF ThreadTypeOK, ThreadPC, EventPC, AddPost, Goto, Leave
<1>11. ASSUME NEW h \in Handles, Remove(h) PROVE ThreadTypeOK'
  BY <1>11 DEF ThreadTypeOK, Remove
<1>12. CASE WorldStep
  BY <1>12, WorldFrame DEF ThreadTypeOK, eventVars
<1>13. CASE WaiterStep \/ PollTimeout \/ PollError
  <2>0. UNCHANGED <<life, mutex, inSet, pc, ev, calls>>
    BY <1>13, WaiterFrame
  <2>1. CASE UNCHANGED <<signalled, pipe>>
    BY <2>0, <2>1 DEF ThreadTypeOK
  <2>2. CASE pipe # <<>> /\ pipe' = Tail(pipe) /\ UNCHANGED signalled
    <3>1. pipe' \in Seq(Events \cup {NoHandle})
      BY <2>2 DEF ThreadTypeOK
    <3> QED
      BY <2>0, <2>2, <3>1 DEF ThreadTypeOK
  <2>3. CASE signalled' = [signalled EXCEPT ![tok] = FALSE] /\ UNCHANGED pipe
    <3>1. signalled' \in [Events -> BOOLEAN]
      BY <2>3 DEF ThreadTypeOK
    <3> QED
      BY <2>0, <2>3, <3>1 DEF ThreadTypeOK
  <2> QED
    BY <1>13, <2>1, <2>2, <2>3
       DEF WaiterStep, PollTimeout, PollError, WaitCall, Purge, ScanDone, PollPipe, PollFd,
           PollEventRead, PollEventTest, ResetAuto, Return, ScanFlagged, ScanQueue, ScanFd,
           ScanTimer, ScanOther, outsideVars, eventVars
<1>14. CASE UNCHANGED vars
  BY <1>14 DEF ThreadTypeOK, vars, eventVars
<1> QED
  BY <1>1, <1>2, <1>3, <1>4, <1>5, <1>6, <1>7, <1>8, <1>9, <1>10, <1>11, <1>12, <1>13, <1>14
     DEF Next, ThreadCall, ThreadStep, Outside

\* The types of the queue of handles and of what the world keeps, step by step.
LEMMA WorldTypeStep ==
    ASSUME TypeOK, [Next]_vars
    PROVE  WorldTypeOK'
<1>0. WorldTypeOK /\ WaiterTypeOK
  BY DEF TypeOK
<1> USE <1>0, KindFacts DEF WorldTypeOK
<1>1. ASSUME NEW t \in Threads, NEW h \in Handles, EventSet(t, h) PROVE WorldTypeOK'
  BY <1>1 DEF EventSet, CountSet, worldVars
<1>2. ASSUME NEW t \in Threads, NEW h \in Handles, ofc_waitq_enqueue(t, h) PROVE WorldTypeOK'
  BY <1>2 DEF ofc_waitq_enqueue
<1>3. ASSUME NEW t \in Threads, NEW h \in Handles, ofc_waitset_add(t, h) PROVE WorldTypeOK'
  BY <1>3 DEF ofc_waitset_add, worldVars
<1>4. ASSUME NEW t \in Threads, NEW h \in Handles, EventTake(t, h) PROVE WorldTypeOK'
  BY <1>4 DEF EventTake, worldVars
<1>5. ASSUME NEW t \in Threads, ofc_waitset_wake_impl(t) \/ ThreadStep(t) PROVE WorldTypeOK'
  BY <1>5 DEF ofc_waitset_wake_impl, ThreadStep, EventStep, EnqueuedSet, AddAssoc, AddTest,
              AddPost, worldVars
<1>6. ASSUME NEW h \in Handles, Remove(h) PROVE WorldTypeOK'
  <2>1. PICK i \in 1..Len(hq) : hq' = SubSeq(hq, 1, i - 1) \o SubSeq(hq, i + 1, Len(hq))
    BY <1>6 DEF Remove
  <2>2. hq' \in Seq(Handles)
    <3>1. SubSeq(hq, 1, i - 1) \in Seq(Handles) /\ SubSeq(hq, i + 1, Len(hq)) \in Seq(Handles)
      OBVIOUS
    <3> QED
      BY <2>1, <3>1
  <2> QED
    BY <1>6, <2>2 DEF Remove, worldVars
<1>7. CASE WorldStep
  <2>1. ASSUME NEW h \in Handles, ofc_waitq_dequeue(h) PROVE WorldTypeOK'
    BY <2>1 DEF ofc_waitq_dequeue
  <2>2. ASSUME NEW h \in Handles, ArmTimer(h) PROVE WorldTypeOK'
    BY <2>2 DEF ArmTimer
  <2>3. ASSUME NEW h \in Handles, NEW b \in SUBSET {"IN"}, ofc_socket_impl_enable(h, b)
        PROVE  WorldTypeOK'
    BY <2>3 DEF ofc_socket_impl_enable
  <2>4. ASSUME NEW h \in Handles, NEW b \in SUBSET {"IN", "HUP"}, Io(h, b) PROVE WorldTypeOK'
    BY <2>4 DEF Io
  <2>5. CASE Tick
    BY <2>5 DEF Tick
  <2> QED
    BY <1>7, <2>1, <2>2, <2>3, <2>4, <2>5 DEF WorldStep
<1>8. CASE PollFd
  <2>1. PICK h \in fds : revents' = [revents EXCEPT ![h] = Reported(h)]
    BY <1>8 DEF PollFd
  <2>2. Reported(h) \in SUBSET {"IN", "HUP"} /\ h \in Handles
    BY DEF WaiterTypeOK, Reported
  <2>3. revents' \in [Handles -> SUBSET {"IN", "HUP"}]
    BY <2>1, <2>2
  <2> QED
    BY <1>8, <2>3 DEF PollFd, outsideVars, worldVars
<1>9. CASE Return
  BY <1>9 DEF Return, worldVars
<1>10. CASE (WaiterStep \/ PollTimeout \/ PollError) /\ ~PollFd /\ ~Return
  BY <1>10 DEF WaiterStep, PollTimeout, PollError, WaitCall, Purge, ScanDone, PollPipe,
               PollEventRead, PollEventTest, ResetAuto, ScanFlagged, ScanQueue, ScanFd,
               ScanTimer, ScanOther, outsideVars, worldVars
<1>11. CASE UNCHANGED vars
  BY <1>11 DEF vars, worldVars
<1> QED
  BY <1>1, <1>2, <1>3, <1>4, <1>5, <1>6, <1>7, <1>8, <1>9, <1>10, <1>11
     DEF Next, ThreadCall, Outside

\* The types of the local variables of ofc_waitset_wait_impl, step by step.
LEMMA WaiterTypeStep ==
    ASSUME TypeOK, [Next]_vars
    PROVE  WaiterTypeOK'
<1>0. ThreadTypeOK /\ WorldTypeOK /\ WaiterTypeOK
  BY DEF TypeOK
<1> USE <1>0, KindFacts
<1>1. CASE \E t \in Threads : ThreadCall(t) \/ ThreadStep(t)
  BY <1>1, ThreadFrame DEF WaiterTypeOK, waiterVars
<1>2. CASE \E h \in Handles : Remove(h)
  BY <1>2 DEF WaiterTypeOK, Remove, waiterVars
<1>3. CASE WorldStep
  BY <1>3 DEF WaiterTypeOK, WorldStep, ofc_waitq_dequeue, ArmTimer, ofc_socket_impl_enable, Io,
              Tick, waiterVars
<1>4. CASE WaitCall \/ Purge \/ ScanDone \/ PollPipe \/ PollError \/ ResetAuto
  BY <1>4 DEF WaiterTypeOK, WaiterPC, WaitCall, Purge, ScanDone, PollPipe, PollError, ResetAuto
<1>5. CASE PollFd \/ PollTimeout
  BY <1>5 DEF WaiterTypeOK, WaiterPC, PollFd, PollTimeout
<1>6. CASE PollEventRead
  <2>1. CASE pipe = <<>>
    BY <1>6, <2>1 DEF WaiterTypeOK, WaiterPC, PollEventRead
  <2>2. CASE pipe # <<>>
    <3>1. Head(pipe) \in Events \cup {NoHandle}
      BY <2>2 DEF ThreadTypeOK
    <3>2. tok' = Head(pipe) /\ (wpc' = "polltest" => Head(pipe) # NoHandle)
          /\ wpc' \in {"ret", "polltest", "pollevent"}
      BY <1>6, <2>2 DEF PollEventRead
    <3> QED
      BY <1>6, <3>1, <3>2 DEF WaiterTypeOK, WaiterPC, PollEventRead
  <2> QED
    BY <2>1, <2>2
<1>7. CASE PollEventTest
  BY <1>7 DEF WaiterTypeOK, WaiterPC, PollEventTest
<1>8. CASE Return
  BY <1>8 DEF WaiterTypeOK, WaiterPC, Return, FreshLocals
<1>9. ASSUME NEW h \in Handles, ScanFlagged(h) PROVE WaiterTypeOK'
  BY <1>9 DEF WaiterTypeOK, WaiterPC, ScanFlagged, At, Found, Await
<1>10. ASSUME NEW h \in Handles, ScanQueue(h) PROVE WaiterTypeOK'
  BY <1>10 DEF WaiterTypeOK, WaiterPC, ScanQueue, At, Found, Await
<1>11. ASSUME NEW h \in Handles, ScanFd(h) PROVE WaiterTypeOK'
  <2>1. mask' \in [Handles -> SUBSET {"IN"}]
    BY <1>11 DEF WaiterTypeOK, WorldTypeOK, ScanFd
  <2> QED
    BY <1>11, <2>1 DEF WaiterTypeOK, ScanFd, At
<1>12. ASSUME NEW h \in Handles, ScanTimer(h) PROVE WaiterTypeOK'
  <2>1. CASE left[h] = 0
    BY <1>12, <2>1 DEF WaiterTypeOK, WaiterPC, ScanTimer, At, Found
  <2>2. CASE left[h] > 0
    <3>1. least' \in Nat /\ timerEv' \in Timers \cup {NoHandle}
      BY <1>12, <2>2 DEF WaiterTypeOK, WorldTypeOK, ScanTimer
    <3> QED
      BY <1>12, <2>2, <3>1 DEF WaiterTypeOK, ScanTimer, At
  <2> QED
    BY <1>12, <2>1, <2>2 DEF ScanTimer
<1>13. ASSUME NEW h \in Handles, ScanOther(h) PROVE WaiterTypeOK'
  BY <1>13 DEF WaiterTypeOK, ScanOther, At
<1>14. CASE UNCHANGED vars
  BY <1>14 DEF WaiterTypeOK, vars, waiterVars
<1> QED
  BY <1>1, <1>2, <1>3, <1>4, <1>5, <1>6, <1>7, <1>8, <1>9, <1>10, <1>11, <1>12, <1>13, <1>14
     DEF Next, Outside, WaiterStep

\* The variables of the wait set keep their types in every behaviour: what is
\* read from the pipe is an event or the null handle, the scheduler resets only
\* events, and poll is given only descriptors.
THEOREM TypeCorrect == Spec => []TypeOK
<1>1. Init => TypeOK
  BY EventAssumption, WaitSetAssumption
     DEF Init, QuietInit, TypeOK, ThreadTypeOK, WorldTypeOK, WaiterTypeOK, ThreadPC, EventPC,
         WaiterPC
<1>2. TypeOK /\ [Next]_vars => TypeOK'
  BY ThreadTypeStep, WorldTypeStep, WaiterTypeStep DEF TypeOK
<1> QED
  BY <1>1, <1>2, PTL DEF Spec

-----------------------------------------------------------------------------
(***************************************************************************)
(* The control of ofc_waitset_wait_impl: a call starts with empty lists    *)
(* and nothing triggered, triggered_event is set only on the way to the    *)
(* return, and the event that is reset is the one that triggered.          *)
(***************************************************************************)
Control ==
    /\ wpc \in {"idle", "purge"} => evq = {} /\ timerEv = NoHandle
    /\ wpc \notin {"reset", "ret"} => trig = NoHandle
    /\ wpc = "polltest" => \E h \in evq : EventOf[h] = tok
    /\ wpc = "reset" => trig \in Awaited /\ EventOf[trig] = tok

\* Every step keeps the control of the wait in order.
LEMMA ControlStep ==
    ASSUME TypeOK, Control, [Next]_vars
    PROVE  Control'
<1>0. evq \subseteq Awaited
  BY DEF TypeOK, WaiterTypeOK
<1> USE <1>0, KindFacts DEF Control
<1>1. CASE \E t \in Threads : ThreadCall(t) \/ ThreadStep(t)
  BY <1>1, ThreadFrame DEF waiterVars
<1>2. CASE \E h \in Handles : Remove(h)
  BY <1>2 DEF Remove, waiterVars
<1>3. CASE WorldStep
  BY <1>3, WorldFrame
<1>4. CASE WaitCall \/ Purge \/ ScanDone \/ PollPipe \/ PollFd \/ PollTimeout \/ PollError
  BY <1>4 DEF WaitCall, Purge, ScanDone, PollPipe, PollFd, PollTimeout, PollError
<1>5. CASE PollEventRead \/ PollEventTest
  BY <1>5 DEF PollEventRead, PollEventTest
<1>6. CASE ResetAuto \/ Return
  BY <1>6 DEF ResetAuto, Return, FreshLocals
<1>7. ASSUME NEW h \in Handles, ScanFlagged(h) \/ ScanQueue(h) PROVE Control'
  BY <1>7 DEF ScanFlagged, ScanQueue, At, Found, Await
<1>8. ASSUME NEW h \in Handles, ScanFd(h) \/ ScanTimer(h) \/ ScanOther(h) PROVE Control'
  BY <1>8 DEF ScanFd, ScanTimer, ScanOther, At, Found
<1>9. CASE UNCHANGED vars
  BY <1>9 DEF vars, waiterVars
<1> QED
  BY <1>1, <1>2, <1>3, <1>4, <1>5, <1>6, <1>7, <1>8, <1>9 DEF Next, Outside, WaiterStep

\* The control of the wait is in order in every behaviour.
THEOREM ControlCorrect == Spec => []Control
<1>1. Init => Control
  BY DEF Init, Control
<1> QED
  BY <1>1, ControlStep, TypeCorrect, PTL DEF Spec

(***************************************************************************)
(* Timers.  The sleep in poll is not shorter than what is left of the      *)
(* timer that ends it: the timer had that much left when it was tested,    *)
(* and both run down together from then on, the timer earlier.             *)
(***************************************************************************)
TimerBound ==
    (wpc \in {"scan", "poll"} /\ timerEv # NoHandle) => left[timerEv] <= least

TimerInv == TypeOK /\ Control /\ TimerBound /\ TimerNotEarly

\* Every step keeps the bound, and triggers a timer only when it is due.
LEMMA TimerStep ==
    ASSUME TimerInv, [Next]_vars
    PROVE  TimerBound' /\ TimerNotEarly'
<1>0. /\ left \in [Handles -> Nat] /\ least \in Nat
      /\ timerEv \in Timers \cup {NoHandle} /\ Timers \subseteq Handles /\ NoHandle \notin Handles
      /\ wpc \notin {"reset", "ret"} => trig = NoHandle
      /\ wpc \in {"idle", "purge"} => timerEv = NoHandle
      /\ wpc = "reset" => trig \notin Timers
      /\ TimerBound /\ TimerNotEarly
  BY KindFacts DEF TimerInv, Control, TypeOK, WorldTypeOK, WaiterTypeOK
<1> USE <1>0 DEF TimerBound, TimerNotEarly
<1>1. CASE \E t \in Threads : ThreadCall(t) \/ ThreadStep(t)
  BY <1>1, ThreadFrame DEF waiterVars
<1>2. CASE \E h \in Handles : Remove(h)
  BY <1>2 DEF Remove, worldVars, waiterVars
<1>3. ASSUME NEW h \in Handles, ArmTimer(h) PROVE TimerBound' /\ TimerNotEarly'
  BY <1>3 DEF ArmTimer, waiterVars
<1>4. CASE Tick
  BY <1>4 DEF Tick
<1>5. CASE WorldStep /\ UNCHANGED <<left, least>>
  BY <1>5, WorldFrame
<1>6. CASE WaitCall \/ Purge \/ ScanDone \/ PollPipe \/ PollError
  <2>1. UNCHANGED <<left, trig>> /\ trig = NoHandle
    BY <1>6 DEF WaitCall, Purge, ScanDone, PollPipe, PollError, outsideVars, worldVars
  <2>2. UNCHANGED <<least, timerEv>>
    BY <1>6 DEF WaitCall, Purge, ScanDone, PollPipe, PollError
  <2> QED
    BY <1>6, <2>1, <2>2 DEF WaitCall, Purge, ScanDone, PollPipe, PollError
<1>7. CASE PollFd
  BY <1>7, KindFacts DEF TimerInv, TypeOK, WaiterTypeOK, PollFd
<1>8. CASE PollTimeout
  BY <1>8 DEF PollTimeout, outsideVars, worldVars
<1>9. CASE PollEventRead \/ PollEventTest \/ ResetAuto
  BY <1>9, KindFacts DEF TimerInv, TypeOK, WaiterTypeOK, PollEventRead, PollEventTest, ResetAuto,
                         outsideVars, worldVars
<1>10. CASE Return
  BY <1>10 DEF Return, FreshLocals, worldVars
<1>11. ASSUME NEW h \in Handles, ScanFlagged(h) \/ ScanQueue(h)
       PROVE  TimerBound' /\ TimerNotEarly'
  BY <1>11, KindFacts DEF ScanFlagged, ScanQueue, At, Found, Await, outsideVars, worldVars
<1>12. ASSUME NEW h \in Handles, ScanFd(h) \/ ScanOther(h) PROVE TimerBound' /\ TimerNotEarly'
  BY <1>12 DEF ScanFd, ScanOther, At, outsideVars, worldVars
<1>13. ASSUME NEW h \in Handles, ScanTimer(h) PROVE TimerBound' /\ TimerNotEarly'
  BY <1>13 DEF ScanTimer, At, Found, outsideVars, worldVars
<1>14. CASE UNCHANGED vars
  BY <1>14 DEF vars, worldVars, waiterVars
<1> QED
  BY <1>1, <1>2, <1>3, <1>4, <1>5, <1>6, <1>7, <1>8, <1>9, <1>10, <1>11, <1>12, <1>13, <1>14
     DEF Next, Outside, WaiterStep, WorldStep, ofc_waitq_dequeue, ofc_socket_impl_enable, Io, waiterVars

\* ofc_waitset_wait_impl never returns a timer that is not due.
THEOREM TimerNotEarlyCorrect == Spec => []TimerNotEarly
<1>1. Init => TimerBound /\ TimerNotEarly
  BY KindFacts DEF Init, TimerBound, TimerNotEarly
<1>2. TypeOK /\ Control /\ TimerBound /\ TimerNotEarly /\ [Next]_vars
        => TimerBound' /\ TimerNotEarly'
  BY TimerStep DEF TimerInv
<1> QED
  BY <1>1, <1>2, TypeCorrect, ControlCorrect, PTL DEF Spec

-----------------------------------------------------------------------------
(***************************************************************************)
(* AUTO events.  Every set pays for one return.  While the event is still  *)
(* up, or its handle is on its way to the caller, one set is unspent; while *)
(* both are the case and the flag has already been reset, two are: the     *)
(* flag has been raised again since.                                       *)
(***************************************************************************)
CreditPays ==
    \A e \in Events : Counted(e) =>
        /\ credit[e] >= 0
        /\ signalled[e] => credit[e] >= 1
        /\ (wpc \in {"reset", "ret"} /\ trig = e) => credit[e] >= 1
        /\ (wpc = "ret" /\ trig = e /\ signalled[e]) => credit[e] >= 2

Uncounted == \A e \in Events : ~Counted(e) => credit[e] = 0

\* What ofc_waitq_enqueue goes on to set is the event of a queue.
EnqueuedOnQueue ==
    \A t \in Threads : pc[t] = "enqueued" => \E h \in Queues : ev[t] = EventOf[h]

\* A counted event is a handle of the set, its own event, and not a queue's.
LEMMA CountedFacts ==
    ASSUME NEW e \in Events, Counted(e)
    PROVE  e \in Flagged /\ EventOf[e] = e /\ EventType[e] = "AUTO" /\ Kind[e] = "EVENT"
           /\ \A h \in Queues : EventOf[h] # e
  BY KindFacts, WaitSetAssumption DEF Counted, OfKind, Flagged, Queues, Awaited

\* Only ofc_waitq_enqueue leads to the point where the event of a queue is set.
LEMMA EnqueuedStep ==
    ASSUME TypeOK, EnqueuedOnQueue, [Next]_vars
    PROVE  EnqueuedOnQueue'
<1>0. ThreadTypeOK
  BY DEF TypeOK
<1>a. ASSUME \A u \in Threads : pc'[u] = "enqueued" => pc[u] = "enqueued" /\ ev'[u] = ev[u]
      PROVE  EnqueuedOnQueue'
  BY <1>a DEF EnqueuedOnQueue
<1> USE <1>0 DEF EnqueuedOnQueue
<1>1. ASSUME NEW t \in Threads, NEW h \in Handles, ofc_waitq_enqueue(t, h) PROVE EnqueuedOnQueue'
  BY <1>1 DEF ThreadTypeOK, ofc_waitq_enqueue, Goto, Enter
<1>2. ASSUME NEW t \in Threads, NEW h \in Handles, EventSet(t, h) PROVE EnqueuedOnQueue'
  BY <1>2 DEF ThreadTypeOK, EventSet, SetLock, RaiseFlag, Goto, Enter
<1>3. ASSUME NEW t \in Threads, NEW h \in Handles, EventTake(t, h) PROVE EnqueuedOnQueue'
  BY <1>3 DEF ThreadTypeOK, EventTake, ofc_event_reset_impl, WaitLock, Goto, Enter
<1>4. ASSUME NEW t \in Threads, NEW h \in Handles, ofc_waitset_add(t, h) PROVE EnqueuedOnQueue'
  <2>1. CASE Enter(t, EventOf[h], "assoc")
    BY <1>a, <2>1 DEF ThreadTypeOK, Goto, Enter
  <2>2. CASE UNCHANGED <<pc, ev>>
    BY <1>a, <2>2
  <2> QED
    BY <1>4, <2>1, <2>2 DEF ofc_waitset_add
<1>5. ASSUME NEW t \in Threads, ofc_waitset_wake_impl(t) PROVE EnqueuedOnQueue'
  BY <1>5 DEF ofc_waitset_wake_impl
<1>b. ASSUME NEW t \in Threads, Leave(t) PROVE EnqueuedOnQueue'
  BY <1>a, <1>b DEF ThreadTypeOK, Goto, Leave
<1>c. ASSUME NEW t \in Threads, NEW l \in {"post", "addtest", "addpost"}, Goto(t, l), UNCHANGED ev
      PROVE  EnqueuedOnQueue'
  BY <1>a, <1>c DEF ThreadTypeOK, Goto
<1>6. ASSUME NEW t \in Threads, EventStep(t) PROVE EnqueuedOnQueue'
  <2>1. CASE SetBroadcast(t)
    BY <2>1 DEF ThreadTypeOK, SetBroadcast
  <2> QED
    BY <1>6, <1>b, <1>c, <2>1
       DEF EventStep, InFlight, SetLookup, SetPost, WaitRelock, DestroyHandle
<1>7. ASSUME NEW t \in Threads, EnqueuedSet(t) PROVE EnqueuedOnQueue'
  BY <1>7 DEF ThreadTypeOK, EnqueuedSet, RaiseFlag, Goto, Enter
<1>8. ASSUME NEW t \in Threads, AddAssoc(t) \/ AddTest(t) \/ AddPost(t) PROVE EnqueuedOnQueue'
  BY <1>8, <1>b, <1>c DEF AddAssoc, AddTest, AddPost
<1>9. CASE UNCHANGED <<pc, ev>>
  BY <1>9
<1>10. CASE \E h \in Handles : Remove(h)
  BY <1>10, <1>9 DEF Remove
<1>11. CASE WorldStep
  BY <1>11, <1>9, WorldFrame DEF eventVars
<1>12. CASE WaiterStep \/ PollTimeout \/ PollError
  BY <1>12, <1>9, WaiterFrame
<1>13. CASE UNCHANGED vars
  BY <1>13, <1>9 DEF vars, eventVars
<1> QED
  BY <1>1, <1>2, <1>3, <1>4, <1>5, <1>6, <1>7, <1>8, <1>10, <1>11, <1>12, <1>13
     DEF Next, Outside, ThreadCall, ThreadStep

CreditInv == TypeOK /\ Control /\ EnqueuedOnQueue /\ CreditPays /\ Uncounted

\* Every step keeps the account: only ofc_event_set_impl raises the flag of a
\* counted event, and the scheduler returns it only after it has reset the flag.
LEMMA CreditStep ==
    ASSUME CreditInv, [Next]_vars
    PROVE  CreditPays' /\ Uncounted'
<1>0. /\ signalled \in [Events -> BOOLEAN] /\ credit \in [Events -> Int]
      /\ ev \in [Threads -> Events \cup {NoHandle}] /\ tok \in Events \cup {NoHandle}
      /\ wpc \in {"polltest", "reset"} => tok \in Events
      /\ evq \subseteq Awaited /\ timerEv \in Timers \cup {NoHandle} /\ fds \subseteq Fds
      /\ ThreadTypeOK /\ Control /\ EnqueuedOnQueue /\ CreditPays /\ Uncounted
  BY DEF CreditInv, TypeOK, ThreadTypeOK, WorldTypeOK, WaiterTypeOK
<1> USE <1>0, KindFacts DEF CreditPays, Uncounted
\* Taking flags down, while the scheduler does not move, needs no credit.
<1>1. ASSUME UNCHANGED <<credit, wpc, trig>>, \A e \in Events : signalled'[e] => signalled[e]
      PROVE  CreditPays' /\ Uncounted'
  BY <1>1 DEF Counted
<1>2. ASSUME NEW t \in Threads, NEW h \in Handles, EventSet(t, h) PROVE CreditPays' /\ Uncounted'
  <2>1. /\ EventOf[h] \in Events
        /\ signalled' = [signalled EXCEPT ![EventOf[h]] = TRUE]
        /\ credit' = [credit EXCEPT ![EventOf[h]] = IF Counted(EventOf[h]) THEN @ + 1 ELSE @]
        /\ UNCHANGED <<wpc, trig>>
    BY <1>2 DEF EventSet, SetLock, RaiseFlag, CountSet, waiterVars
  <2> QED
    BY <2>1 DEF Counted
<1>3. ASSUME NEW t \in Threads, NEW h \in Handles, EventTake(t, h) PROVE CreditPays' /\ Uncounted'
  <2>1. \A e \in Events : signalled'[e] => signalled[e]
    BY <1>3 DEF EventTake, ofc_event_reset_impl, WaitLock, ClearIfAuto
  <2> QED
    BY <1>1, <1>3, <2>1 DEF EventTake, waiterVars
<1>4. ASSUME NEW t \in Threads, EnqueuedSet(t) PROVE CreditPays' /\ Uncounted'
  <2>1. /\ \E h \in Queues : ev[t] = EventOf[h]
        /\ signalled' = [signalled EXCEPT ![ev[t]] = TRUE]
        /\ UNCHANGED <<credit, wpc, trig>>
    BY <1>4 DEF EnqueuedSet, EnqueuedOnQueue, RaiseFlag, waiterVars
  <2>2. \A e \in Events : Counted(e) => e # ev[t]
    BY <2>1, CountedFacts
  <2> QED
    BY <2>1, <2>2 DEF Counted
<1>5. ASSUME NEW t \in Threads, EventStep(t) PROVE CreditPays' /\ Uncounted'
  <2>1. \A e \in Events : signalled'[e] => signalled[e]
    BY <1>5 DEF EventStep, InFlight, SetBroadcast, SetLookup, SetPost, WaitRelock, DestroyHandle,
                ClearIfAuto
  <2> QED
    BY <1>1, <1>5, <2>1 DEF EventStep, waiterVars
<1>6. ASSUME NEW t \in Threads, NEW h \in Handles, ofc_waitq_enqueue(t, h) \/ ofc_waitset_add(t, h)
      PROVE  CreditPays' /\ Uncounted'
  BY <1>1, <1>6 DEF ofc_waitq_enqueue, ofc_waitset_add, waiterVars
<1>7. ASSUME NEW t \in Threads,
             ofc_waitset_wake_impl(t) \/ AddAssoc(t) \/ AddTest(t) \/ AddPost(t)
      PROVE  CreditPays' /\ Uncounted'
  BY <1>1, <1>7 DEF ofc_waitset_wake_impl, AddAssoc, AddTest, AddPost, waiterVars
<1>8. CASE \E h \in Handles : Remove(h)
  BY <1>1, <1>8 DEF Remove, waiterVars
<1>9. CASE WorldStep
  BY <1>1, <1>9, WorldFrame DEF eventVars
\* The scheduler moves, but has nothing in hand that is counted.
<1>10. ASSUME UNCHANGED <<credit, signalled>>, trig' \in Events => ~Counted(trig')
       PROVE  CreditPays' /\ Uncounted'
  BY <1>10 DEF Counted
<1>11. CASE WaitCall \/ Purge \/ ScanDone \/ PollPipe \/ PollError \/ PollEventRead
  <2>1. UNCHANGED <<credit, signalled, trig>> /\ trig = NoHandle
    BY <1>11 DEF Control, WaitCall, Purge, ScanDone, PollPipe, PollError, PollEventRead,
                 outsideVars
  <2> QED
    BY <1>10, <2>1
<1>12. CASE PollFd \/ PollTimeout
  <2>1. UNCHANGED <<credit, signalled>> /\ trig' \in Fds \cup Timers \cup {NoHandle}
    BY <1>12 DEF PollFd, PollTimeout, outsideVars
  <2> QED
    BY <1>10, <2>1, CountedFacts
<1>13. ASSUME NEW h \in Handles, ScanQueue(h) \/ ScanFd(h) \/ ScanTimer(h) \/ ScanOther(h)
       PROVE  CreditPays' /\ Uncounted'
  <2>1. UNCHANGED <<credit, signalled>> /\ trig' \in Queues \cup Timers \cup {NoHandle}
    BY <1>13 DEF Control, ScanQueue, ScanFd, ScanTimer, ScanOther, At, Found, Await, outsideVars
  <2> QED
    BY <1>10, <2>1, CountedFacts
<1>14. ASSUME NEW h \in Handles, ScanFlagged(h) PROVE CreditPays' /\ Uncounted'
  <2>1. CASE ~ofc_event_test_impl(EventOf[h])
    BY <1>10, <1>14, <2>1 DEF Control, ScanFlagged, At, Await, outsideVars
  <2>2. CASE ofc_event_test_impl(EventOf[h])
    <3>1. UNCHANGED <<credit, signalled>> /\ trig' = h /\ wpc' \in {"reset", "ret"}
          /\ (Kind[h] = "EVENT" /\ EventType[h] = "AUTO" => wpc' = "reset")
          /\ signalled[EventOf[h]]
      <4>1. h \in Flagged /\ EventOf[h] \in Events /\ (Kind[h] = "EVENT" => EventOf[h] = h)
        BY <1>14, WaitSetAssumption DEF ScanFlagged, OfKind
      <4> QED
        BY <1>14, <2>2, <4>1, LiveEvent DEF ScanFlagged, Found, outsideVars
    <3> QED
      BY <3>1, CountedFacts DEF Counted
  <2> QED
    BY <2>1, <2>2
<1>15. CASE PollEventTest
  <2>1. CASE ~ofc_event_test_impl(tok)
    BY <1>10, <1>15, <2>1 DEF Control, PollEventTest, outsideVars
  <2>2. CASE ofc_event_test_impl(tok)
    <3>1. PICK h \in evq : EventOf[h] = tok /\ trig' = h
      BY <1>15, <2>2 DEF PollEventTest
    <3>2. /\ UNCHANGED <<credit, signalled>> /\ signalled[tok] /\ wpc' \in {"reset", "ret"}
          /\ (EventType[tok] = "AUTO" => wpc' = "reset")
      BY <1>15, <2>2, LiveEvent DEF PollEventTest, outsideVars
    <3> QED
      BY <3>1, <3>2, CountedFacts DEF Counted
  <2> QED
    BY <2>1, <2>2
<1>16. CASE ResetAuto
  <2>1. /\ signalled' = [signalled EXCEPT ![tok] = FALSE] /\ tok \in Events
        /\ UNCHANGED <<credit, trig>> /\ wpc = "reset" /\ wpc' = "ret"
    BY <1>16 DEF ResetAuto, outsideVars
  <2>2. \A e \in Events : Counted(e) /\ trig = e => tok = e
    BY <2>1, CountedFacts DEF Control
  <2> QED
    BY <2>1, <2>2 DEF Counted
<1>17. CASE Return
  <2>1. /\ credit' = [e \in Events |-> IF e = trig /\ Counted(e) THEN credit[e] - 1 ELSE credit[e]]
        /\ UNCHANGED signalled /\ wpc = "ret" /\ wpc' = "idle"
    BY <1>17 DEF Return, eventVars
  <2> QED
    BY <2>1 DEF Counted
<1>18. CASE UNCHANGED vars
  BY <1>1, <1>18 DEF vars, eventVars, waiterVars
<1> QED
  BY <1>2, <1>3, <1>4, <1>5, <1>6, <1>7, <1>8, <1>9, <1>11, <1>12, <1>13, <1>14, <1>15, <1>16,
     <1>17, <1>18
     DEF Next, Outside, ThreadCall, ThreadStep, WaiterStep

\* ofc_waitset_wait_impl returns an AUTO event at most once for each time that
\* the event has been set.
THEOREM AutoAtMostOnceCorrect == Spec => []AutoAtMostOnce
<1>1. Init => EnqueuedOnQueue /\ CreditPays /\ Uncounted
  BY DEF Init, QuietInit, EnqueuedOnQueue, CreditPays, Uncounted
<1>2. TypeOK /\ Control /\ EnqueuedOnQueue /\ CreditPays /\ Uncounted /\ [Next]_vars
        => EnqueuedOnQueue' /\ CreditPays' /\ Uncounted'
  BY EnqueuedStep, CreditStep DEF CreditInv
<1>3. TypeOK /\ CreditPays /\ Uncounted => AutoAtMostOnce
  BY DEF TypeOK, WorldTypeOK, CreditPays, Uncounted, AutoAtMostOnce
<1> QED
  BY <1>1, <1>2, <1>3, TypeCorrect, ControlCorrect, PTL DEF Spec

-----------------------------------------------------------------------------
(***************************************************************************)
(* The set's queue of handles.  No handle is queued twice, so that one     *)
(* removal takes a handle out of the set; and the event of a queued handle *)
(* is associated with the set, or the thread that queued it has the        *)
(* association ahead of it.                                                *)
(***************************************************************************)
QueuedOnce == \A i, j \in 1..Len(hq) : hq[i] = hq[j] => i = j

Associating(h) == \E t \in Threads : pc[t] = "assoc" /\ ev[t] = EventOf[h]
Associated == \A h \in Awaited : Registered(h) => (inSet[EventOf[h]] \/ Associating(h))

\* What is left of a sequence when one element is taken out.
LEMMA TakenOut ==
    ASSUME NEW S, NEW s \in Seq(S), NEW i \in 1..Len(s), NEW r,
           r = SubSeq(s, 1, i - 1) \o SubSeq(s, i + 1, Len(s))
    PROVE  /\ Len(r) = Len(s) - 1
           /\ \A j \in 1..Len(r) : r[j] = IF j < i THEN s[j] ELSE s[j + 1]
<1> DEFINE a == SubSeq(s, 1, i - 1)
           b == SubSeq(s, i + 1, Len(s))
<1>1. a \in Seq(S) /\ Len(a) = i - 1 /\ \A j \in 1..(i - 1) : a[j] = s[j]
  OBVIOUS
<1>2. b \in Seq(S) /\ Len(b) = Len(s) - i /\ \A j \in 1..(Len(s) - i) : b[j] = s[j + i]
  OBVIOUS
<1> HIDE DEF a, b
<1>3. /\ Len(a \o b) = Len(s) - 1
      /\ \A j \in 1..(Len(s) - 1) : (a \o b)[j] = IF j < i THEN s[j] ELSE s[j + 1]
  <2>1. Len(s) \in Nat /\ Len(a \o b) = Len(s) - 1
    <3>1. Len(s) \in Nat
      OBVIOUS
    <3>2. a \in Seq(S) /\ b \in Seq(S)
      BY <1>1, <1>2
    <3>3. Len(a \o b) = Len(a) + Len(b)
      BY <3>2
    <3> QED
      BY <1>1, <1>2, <3>1, <3>3
  <2>2. ASSUME NEW j \in 1..(Len(s) - 1), j < i PROVE (a \o b)[j] = s[j]
    BY <1>1, <1>2, <2>1, <2>2
  <2>3. ASSUME NEW j \in 1..(Len(s) - 1), ~(j < i) PROVE (a \o b)[j] = s[j + 1]
    <3>1. (a \o b)[j] = b[j - Len(a)]
      BY <1>1, <1>2, <2>1, <2>3
    <3>2. j - Len(a) \in 1..(Len(s) - i) /\ (j - Len(a)) + i = j + 1
      BY <1>1, <2>1, <2>3
    <3> QED
      BY <1>2, <3>1, <3>2
  <2> QED
    BY <2>1, <2>2, <2>3
<1> QED
  BY <1>3 DEF a, b

\* Removing a handle leaves the others, each still queued once.
LEMMA RemoveQueue ==
    ASSUME TypeOK, QueuedOnce, NEW h \in Handles, Remove(h)
    PROVE  QueuedOnce' /\ \A g \in Handles : Registered(g)' => Registered(g) /\ g # h
<1>0. hq \in Seq(Handles)
  BY DEF TypeOK, WorldTypeOK
<1>1. PICK i \in 1..Len(hq) :
         hq[i] = h /\ hq' = SubSeq(hq, 1, i - 1) \o SubSeq(hq, i + 1, Len(hq))
  BY DEF Remove
<1>2. /\ Len(hq') = Len(hq) - 1
      /\ \A j \in 1..Len(hq') : hq'[j] = IF j < i THEN hq[j] ELSE hq[j + 1]
  BY <1>0, <1>1, TakenOut
<1> DEFINE k(j) == IF j < i THEN j ELSE j + 1
<1>a. ASSUME NEW j \in 1..Len(hq')
      PROVE  k(j) \in 1..Len(hq) /\ k(j) # i /\ hq'[j] = hq[k(j)]
  BY <1>0, <1>2
<1>b. \A j, l \in 1..Len(hq') : k(j) = k(l) => j = l
  BY <1>0, <1>2
<1> HIDE DEF k
<1>3. QueuedOnce'
  BY <1>a, <1>b DEF QueuedOnce
<1>4. ASSUME NEW g \in Handles, Registered(g)' PROVE Registered(g) /\ g # h
  <2>1. PICK j \in 1..Len(hq') : hq'[j] = g
    BY <1>4 DEF Registered
  <2>2. k(j) \in 1..Len(hq) /\ k(j) # i /\ hq[k(j)] = g
    BY <1>a, <2>1
  <2>3. g # h
    BY <1>1, <2>2 DEF QueuedOnce
  <2> QED
    BY <2>2, <2>3 DEF Registered
<1> QED
  BY <1>3, <1>4

\* Queueing a handle that is not queued keeps every handle queued once.
LEMMA AddQueue ==
    ASSUME TypeOK, QueuedOnce, NEW t \in Threads, NEW h \in Handles, ofc_waitset_add(t, h)
    PROVE  QueuedOnce' /\ \A g \in Handles : Registered(g)' => Registered(g) \/ g = h
<1>0. hq \in Seq(Handles) /\ hq' = Append(hq, h) /\ \A i \in 1..Len(hq) : hq[i] # h
  BY DEF TypeOK, WorldTypeOK, ofc_waitset_add, Registered
<1>1. /\ Len(hq') = Len(hq) + 1
      /\ \A j \in 1..Len(hq') : hq'[j] = IF j <= Len(hq) THEN hq[j] ELSE h
  BY <1>0
<1> QED
  BY <1>0, <1>1 DEF QueuedOnce, Registered

SetInv == TypeOK /\ QueuedOnce /\ Associated

\* Every step keeps the queue and the associations in order.
LEMMA SetStep ==
    ASSUME SetInv, [Next]_vars
    PROVE  QueuedOnce' /\ Associated'
<1>0. TypeOK /\ ThreadTypeOK /\ QueuedOnce /\ Associated
  BY DEF SetInv, TypeOK
<1> USE <1>0, KindFacts
\* A step that neither touches the queue nor ends an association before its time.
<1>1. ASSUME UNCHANGED <<hq, inSet>>,
             \A u \in Threads : pc[u] = "assoc" => pc'[u] = "assoc" /\ ev'[u] = ev[u]
      PROVE  QueuedOnce' /\ Associated'
  BY <1>1 DEF QueuedOnce, Associated, Associating, Registered
<1>2. ASSUME NEW t \in Threads, pc[t] # "assoc", NEW l, Goto(t, l), UNCHANGED <<hq, inSet>>,
             \A u \in Threads : u # t => ev'[u] = ev[u]
      PROVE  QueuedOnce' /\ Associated'
  BY <1>1, <1>2 DEF ThreadTypeOK, Goto
<1>3. ASSUME NEW t \in Threads, NEW h \in Handles, EventSet(t, h)
      PROVE  QueuedOnce' /\ Associated'
  BY <1>2, <1>3 DEF ThreadTypeOK, EventSet, SetLock, RaiseFlag, Enter, Call
<1>4. ASSUME NEW t \in Threads, NEW h \in Handles, EventTake(t, h)
      PROVE  QueuedOnce' /\ Associated'
  <2>1. CASE UNCHANGED <<pc, ev>>
    BY <1>1, <1>4, <2>1 DEF EventTake, ofc_event_reset_impl, WaitLock
  <2>2. CASE Call(t) /\ Enter(t, EventOf[h], "blocked")
    BY <1>2, <1>4, <2>2
       DEF ThreadTypeOK, EventTake, ofc_event_reset_impl, WaitLock, Enter, Call
  <2> QED
    BY <1>4, <2>1, <2>2 DEF EventTake, ofc_event_reset_impl, WaitLock
<1>5. ASSUME NEW t \in Threads, NEW h \in Handles, ofc_waitq_enqueue(t, h)
      PROVE  QueuedOnce' /\ Associated'
  BY <1>2, <1>5 DEF ThreadTypeOK, ofc_waitq_enqueue, Enter, Call
<1>6. ASSUME NEW t \in Threads, NEW h \in Handles, ofc_waitset_add(t, h)
      PROVE  QueuedOnce' /\ Associated'
  <2>1. QueuedOnce' /\ \A g \in Handles : Registered(g)' => Registered(g) \/ g = h
    BY <1>6, AddQueue
  <2>2. \A u \in Threads : pc[u] = "assoc" => pc'[u] = "assoc" /\ ev'[u] = ev[u]
    BY <1>6 DEF ThreadTypeOK, ofc_waitset_add, Call, Goto, Enter
  <2>3. h \in Awaited => pc'[t] = "assoc" /\ ev'[t] = EventOf[h]
    BY <1>6 DEF ThreadTypeOK, ofc_waitset_add, Goto, Enter
  <2>4. UNCHANGED inSet
    BY <1>6 DEF ofc_waitset_add
  <2> QED
    BY <2>1, <2>2, <2>3, <2>4 DEF Associated, Associating
<1>7. ASSUME NEW t \in Threads, EventStep(t) PROVE QueuedOnce' /\ Associated'
  <2>1. CASE SetBroadcast(t)
    BY <1>1, <1>7, <2>1 DEF ThreadTypeOK, EventStep, SetBroadcast
  <2>2. CASE SetLookup(t)
    BY <1>2, <1>7, <2>2 DEF ThreadTypeOK, EventStep, SetLookup, Leave
  <2>3. CASE SetPost(t) \/ WaitRelock(t) \/ DestroyHandle(t)
    BY <1>2, <1>7, <2>3 DEF ThreadTypeOK, EventStep, SetPost, WaitRelock, DestroyHandle, Leave
  <2> QED
    BY <1>7, <2>1, <2>2, <2>3 DEF EventStep, InFlight
<1>8. ASSUME NEW t \in Threads, EnqueuedSet(t) \/ AddTest(t) \/ AddPost(t)
      PROVE  QueuedOnce' /\ Associated'
  BY <1>2, <1>8 DEF ThreadTypeOK, EnqueuedSet, RaiseFlag, AddTest, AddPost, Enter, Leave
<1>9. ASSUME NEW t \in Threads, AddAssoc(t) PROVE QueuedOnce' /\ Associated'
  <2>1. /\ inSet' = [inSet EXCEPT ![ev[t]] = TRUE] /\ UNCHANGED <<hq, ev>>
        /\ \A u \in Threads : pc[u] = "assoc" /\ u # t => pc'[u] = "assoc"
    BY <1>9 DEF ThreadTypeOK, AddAssoc, Goto
  <2>2. inSet'[ev[t]] /\ \A e \in Events : inSet[e] => inSet'[e]
    BY <1>9, <2>1 DEF ThreadTypeOK, AddAssoc
  <2> QED
    BY <2>1, <2>2 DEF QueuedOnce, Associated, Associating, Registered
<1>10. ASSUME NEW t \in Threads, ofc_waitset_wake_impl(t) PROVE QueuedOnce' /\ Associated'
  BY <1>1, <1>10 DEF ofc_waitset_wake_impl
<1>11. ASSUME NEW h \in Handles, Remove(h) PROVE QueuedOnce' /\ Associated'
  <2>1. QueuedOnce' /\ \A g \in Handles : Registered(g)' => Registered(g) /\ g # h
    BY <1>11, RemoveQueue
  <2>2. \A g \in Awaited : g # h /\ inSet[EventOf[g]] => inSet'[EventOf[g]]
    BY <1>11 DEF ThreadTypeOK, Remove
  <2>3. UNCHANGED <<pc, ev>>
    BY <1>11 DEF Remove
  <2> QED
    BY <2>1, <2>2, <2>3 DEF Associated, Associating
<1>12. CASE WorldStep
  BY <1>1, <1>12, WorldFrame DEF eventVars
<1>13. CASE WaiterStep \/ PollTimeout \/ PollError
  BY <1>1, <1>13, WaiterFrame
<1>14. CASE UNCHANGED vars
  BY <1>1, <1>14 DEF vars, eventVars
<1> QED
  BY <1>3, <1>4, <1>5, <1>6, <1>7, <1>8, <1>9, <1>10, <1>11, <1>12, <1>13, <1>14
     DEF Next, Outside, ThreadCall, ThreadStep

\* A handle is queued at most once, and its event associated in time.
THEOREM SetCorrect == Spec => [](QueuedOnce /\ Associated)
<1>1. Init => QueuedOnce /\ Associated
  BY DEF Init, QueuedOnce, Associated, Registered
<1>2. TypeOK /\ (QueuedOnce /\ Associated) /\ [Next]_vars => (QueuedOnce /\ Associated)'
  BY SetStep DEF SetInv
<1> QED
  BY <1>1, <1>2, TypeCorrect, PTL DEF Spec

-----------------------------------------------------------------------------
(***************************************************************************)
(* Signals.  From the moment the scheduler has tested a handle and found   *)
(* it idle, whatever gives it work also announces a write to the pipe, and *)
(* nothing is read from the pipe any more until poll returns.  An SMB      *)
(* operation is tested by its queue when it is awaited, but by its event   *)
(* when it is added: while the scheduler awaits it, its event follows its  *)
(* queue, as nobody else takes the event.                                  *)
(***************************************************************************)
Smb == OfKind({"FSSMB_OVERLAPPED"})

SmbUntaken ==
    \A t \in Threads : \A h \in Smb :
        pc[t] \in {"blocked", "relock"} => ev[t] # EventOf[h]

Enqueuing(h) == \E t \in Threads : pc[t] = "enqueued" /\ ev[t] = EventOf[h]
Testing == wpc \in {"scan", "poll"}

SmbEventUp ==
    Testing => \A h \in evq \cap Smb : qlen[h] > 0 => (signalled[EventOf[h]] \/ Enqueuing(h))

Posted ==
    Testing => \A h \in evq : (Registered(h) /\ Work(h)) => (pipe # <<>> \/ PostAhead(h))

\* The control points from which a thread goes on to write to the pipe.
PostPC == Holding \cup {"enqueued", "assoc", "addtest", "addpost"}

\* Who is about to post a handle is at one of these points, with its event.
LEMMA PostAheadPC ==
    \A h : PostAhead(h) <=> \E t \in Threads : pc[t] \in PostPC /\ ev[t] = EventOf[h]
  BY DEF PostAhead, Adding, PostPC

\* The same in the next state.
LEMMA PostAheadPCNext ==
    \A h : PostAhead(h)' <=> \E t \in Threads : pc'[t] \in PostPC /\ ev'[t] = EventOf[h]
  BY DEF PostAhead, Adding, PostPC

\* Facts about an SMB operation.
LEMMA SmbFacts ==
    /\ Smb \subseteq Queues
    /\ \A h \in Smb : EventOf[h] \in Events
    /\ \A h \in Smb : \A g \in Flagged \cup OfKind({"WAIT_QUEUE"}) : EventOf[g] # EventOf[h]
<1>1. Smb \subseteq Queues /\ OfKind({"WAIT_QUEUE"}) \subseteq Queues
  BY DEF Smb, OfKind, Queues
<1>2. \A h \in Smb : h \notin Flagged \cup OfKind({"WAIT_QUEUE"})
  BY DEF Smb, OfKind, Flagged
<1> QED
  BY <1>1, <1>2, KindFacts

\* Nobody comes to sleep on the event of an SMB operation.
LEMMA SmbUntakenStep ==
    ASSUME TypeOK, SmbUntaken, [Next]_vars
    PROVE  SmbUntaken'
<1>0. ThreadTypeOK
  BY DEF TypeOK
<1> USE <1>0
<1>1. ASSUME \A u \in Threads : pc'[u] \in {"blocked", "relock"} =>
                pc[u] \in {"blocked", "relock"} /\ ev'[u] = ev[u]
      PROVE  SmbUntaken'
  BY <1>1 DEF SmbUntaken
<1>2. ASSUME NEW t \in Threads, NEW l, l \notin {"blocked", "relock"}, Goto(t, l),
             \A u \in Threads : u # t => ev'[u] = ev[u]
      PROVE  SmbUntaken'
  BY <1>1, <1>2 DEF ThreadTypeOK, Goto
<1>3. ASSUME NEW t \in Threads, NEW h \in Handles, EventSet(t, h) PROVE SmbUntaken'
  BY <1>2, <1>3 DEF ThreadTypeOK, EventSet, SetLock, RaiseFlag, Enter
<1>4. ASSUME NEW t \in Threads, NEW h \in Handles, EventTake(t, h) PROVE SmbUntaken'
  <2>1. CASE UNCHANGED <<pc, ev>>
    BY <1>1, <2>1
  <2>2. CASE Enter(t, EventOf[h], "blocked")
    <3>1. \A g \in Smb : EventOf[h] # EventOf[g]
      BY <1>4, SmbFacts DEF EventTake
    <3> QED
      BY <2>2, <3>1 DEF SmbUntaken, ThreadTypeOK, Goto, Enter
  <2> QED
    BY <1>4, <2>1, <2>2 DEF EventTake, ofc_event_reset_impl, WaitLock
<1>5. ASSUME NEW t \in Threads, NEW h \in Handles, ofc_waitq_enqueue(t, h) PROVE SmbUntaken'
  BY <1>2, <1>5 DEF ThreadTypeOK, ofc_waitq_enqueue, Enter
<1>6. ASSUME NEW t \in Threads, NEW h \in Handles, ofc_waitset_add(t, h) PROVE SmbUntaken'
  <2>1. CASE UNCHANGED <<pc, ev>>
    BY <1>1, <2>1
  <2>2. CASE Enter(t, EventOf[h], "assoc")
    BY <1>2, <2>2 DEF ThreadTypeOK, Enter
  <2> QED
    BY <1>6, <2>1, <2>2 DEF ofc_waitset_add
<1>7. ASSUME NEW t \in Threads, EventStep(t) PROVE SmbUntaken'
  <2>1. CASE SetBroadcast(t)
    BY <1>1, <2>1 DEF ThreadTypeOK, SetBroadcast
  <2>2. CASE SetLookup(t)
    BY <1>2, <2>2 DEF ThreadTypeOK, SetLookup, Leave
  <2>3. CASE SetPost(t) \/ WaitRelock(t) \/ DestroyHandle(t)
    BY <1>2, <2>3 DEF ThreadTypeOK, SetPost, WaitRelock, DestroyHandle, Leave
  <2> QED
    BY <1>7, <2>1, <2>2, <2>3 DEF EventStep, InFlight
<1>8. ASSUME NEW t \in Threads, EnqueuedSet(t) \/ AddAssoc(t) \/ AddTest(t) \/ AddPost(t)
      PROVE  SmbUntaken'
  BY <1>2, <1>8 DEF ThreadTypeOK, EnqueuedSet, RaiseFlag, AddAssoc, AddTest, AddPost, Enter, Leave
<1>9. CASE UNCHANGED <<pc, ev>>
  BY <1>1, <1>9
<1>10. ASSUME NEW t \in Threads, ofc_waitset_wake_impl(t) PROVE SmbUntaken'
  BY <1>9, <1>10 DEF ofc_waitset_wake_impl
<1>11. CASE \E h \in Handles : Remove(h)
  BY <1>9, <1>11 DEF Remove
<1>12. CASE WorldStep
  BY <1>9, <1>12, WorldFrame DEF eventVars
<1>13. CASE WaiterStep \/ PollTimeout \/ PollError
  BY <1>9, <1>13, WaiterFrame
<1>14. CASE UNCHANGED vars
  BY <1>9, <1>14 DEF vars, eventVars
<1> QED
  BY <1>3, <1>4, <1>5, <1>6, <1>7, <1>8, <1>10, <1>11, <1>12, <1>13, <1>14
     DEF Next, Outside, ThreadCall, ThreadStep

-----------------------------------------------------------------------------
SignalInv ==
    TypeOK /\ Control /\ QueuedOnce /\ Associated /\ SmbUntaken /\ SmbEventUp /\ Posted

\* What a step of the scheduler can do to its list of awaited handles: it starts
\* with none, adds one that has no work, keeps the list, or stops testing.
LEMMA AwaitedStep ==
    ASSUME TypeOK, Control, WaiterStep \/ PollTimeout \/ PollError
    PROVE  \/ ~Testing'
           \/ evq' = {}
           \/ /\ Testing /\ UNCHANGED <<signalled, pipe>>
              /\ \A h \in evq' \ evq : ~Work(h)
<1>0. ThreadTypeOK /\ WorldTypeOK /\ WaiterTypeOK
  BY DEF TypeOK
<1> USE <1>0, KindFacts
<1>1. CASE WaitCall \/ Purge \/ ScanDone
  BY <1>1 DEF Control, Testing, WaitCall, Purge, ScanDone
<1>2. CASE PollPipe \/ PollFd \/ PollTimeout \/ PollError
  BY <1>2 DEF Testing, PollPipe, PollFd, PollTimeout, PollError
<1>3. CASE PollEventRead \/ PollEventTest \/ ResetAuto \/ Return
  BY <1>3 DEF Testing, PollEventRead, PollEventTest, ResetAuto, Return, FreshLocals
<1>4. ASSUME NEW h \in Handles, ScanFlagged(h)
      PROVE  \/ ~Testing'
             \/ Testing /\ UNCHANGED <<signalled, pipe>> /\ \A g \in evq' \ evq : ~Work(g)
  <2>1. h \in Flagged /\ EventOf[h] \in Events /\ Testing /\ UNCHANGED <<signalled, pipe>>
    BY <1>4 DEF ScanFlagged, At, Testing
  <2>2. CASE ofc_event_test_impl(EventOf[h])
    BY <1>4, <2>2 DEF ScanFlagged, Testing
  <2>3. CASE ~ofc_event_test_impl(EventOf[h])
    <3>1. evq' = evq \cup {h}
      BY <1>4, <2>3 DEF ScanFlagged, Await
    <3>2. ~signalled[EventOf[h]]
      BY <2>1, <2>3, LiveEvent
    <3> QED
      BY <2>1, <3>1, <3>2 DEF Work
  <2> QED
    BY <2>2, <2>3
<1>5. ASSUME NEW h \in Handles, ScanQueue(h)
      PROVE  \/ ~Testing'
             \/ Testing /\ UNCHANGED <<signalled, pipe>> /\ \A g \in evq' \ evq : ~Work(g)
  BY <1>5 DEF WorldTypeOK, ScanQueue, At, Found, Await, Testing, Work
<1>6. ASSUME NEW h \in Handles, ScanFd(h) \/ ScanTimer(h) \/ ScanOther(h)
      PROVE  \/ ~Testing'
             \/ Testing /\ UNCHANGED <<signalled, pipe>> /\ \A g \in evq' \ evq : ~Work(g)
  BY <1>6 DEF ScanFd, ScanTimer, ScanOther, At, Found, Testing
<1> QED
  BY <1>1, <1>2, <1>3, <1>4, <1>5, <1>6 DEF WaiterStep

\* While an SMB operation is awaited, every step keeps its event up with its queue.
LEMMA SmbEventUpStep ==
    ASSUME SignalInv, [Next]_vars
    PROVE  SmbEventUp'
<1>0. /\ TypeOK /\ ThreadTypeOK /\ Control /\ SmbUntaken /\ SmbEventUp
      /\ evq \subseteq Awaited /\ qlen \in [Handles -> Nat]
  BY DEF SignalInv, TypeOK, WorldTypeOK, WaiterTypeOK
<1> USE <1>0, KindFacts, SmbFacts
\* A step of a thread or of the world that takes down no SMB event.
<1>1. ASSUME UNCHANGED <<wpc, evq>>,
             \A h \in Smb : qlen'[h] > 0 => qlen[h] > 0 \/ Enqueuing(h)',
             \A h \in Smb : signalled[EventOf[h]] => signalled'[EventOf[h]],
             \A h \in Smb : Enqueuing(h) => Enqueuing(h)' \/ signalled'[EventOf[h]]
      PROVE  SmbEventUp'
  BY <1>1 DEF SmbEventUp, Testing
<1>2. ASSUME \A u \in Threads : pc[u] = "enqueued" => pc'[u] = "enqueued" /\ ev'[u] = ev[u]
      PROVE  \A h \in Smb : Enqueuing(h) => Enqueuing(h)'
  BY <1>2 DEF Enqueuing
<1>3. ASSUME NEW t \in Threads, pc[t] # "enqueued", NEW l, Goto(t, l),
             \A u \in Threads : u # t => ev'[u] = ev[u]
      PROVE  \A h \in Smb : Enqueuing(h) => Enqueuing(h)'
  BY <1>2, <1>3 DEF ThreadTypeOK, Goto
<1>4. ASSUME NEW t \in Threads, NEW h \in Handles, EventSet(t, h) PROVE SmbEventUp'
  <2>1. \A g \in Smb : Enqueuing(g) => Enqueuing(g)'
    BY <1>3, <1>4 DEF ThreadTypeOK, EventSet, SetLock, RaiseFlag, Enter, Call
  <2>2. \A g \in Smb : signalled[EventOf[g]] => signalled'[EventOf[g]]
    BY <1>4 DEF ThreadTypeOK, EventSet, SetLock, RaiseFlag
  <2> QED
    BY <1>1, <1>4, <2>1, <2>2 DEF EventSet, worldVars, waiterVars
<1>5. ASSUME NEW t \in Threads, NEW h \in Handles, EventTake(t, h) PROVE SmbEventUp'
  <2>1. \A g \in Smb : Enqueuing(g) => Enqueuing(g)'
    <3>1. CASE UNCHANGED <<pc, ev>>
      BY <1>2, <3>1
    <3>2. CASE Call(t) /\ Enter(t, EventOf[h], "blocked")
      BY <1>3, <3>2 DEF ThreadTypeOK, Enter, Call
    <3> QED
      BY <1>5, <3>1, <3>2 DEF EventTake, ofc_event_reset_impl, WaitLock
  <2>2. \A g \in Smb : EventOf[h] # EventOf[g]
    BY <1>5 DEF EventTake
  <2>3. \A g \in Smb : signalled[EventOf[g]] => signalled'[EventOf[g]]
    BY <1>5, <2>2
       DEF ThreadTypeOK, EventTake, ofc_event_reset_impl, WaitLock, ClearIfAuto
  <2> QED
    BY <1>1, <1>5, <2>1, <2>3 DEF EventTake, worldVars, waiterVars
<1>6. ASSUME NEW t \in Threads, NEW h \in Handles, ofc_waitq_enqueue(t, h) PROVE SmbEventUp'
  <2>1. \A g \in Smb : Enqueuing(g) => Enqueuing(g)'
    BY <1>3, <1>6 DEF ThreadTypeOK, ofc_waitq_enqueue, Enter, Call
  <2>2. Enqueuing(h)' /\ \A g \in Smb : g # h => qlen'[g] = qlen[g]
    BY <1>6 DEF ThreadTypeOK, ofc_waitq_enqueue, Enqueuing, Goto, Enter
  <2> QED
    BY <1>1, <1>6, <2>1, <2>2 DEF ofc_waitq_enqueue, waiterVars
<1>7. ASSUME NEW t \in Threads, NEW h \in Handles, ofc_waitset_add(t, h) PROVE SmbEventUp'
  <2>1. \A g \in Smb : Enqueuing(g) => Enqueuing(g)'
    <3>1. CASE UNCHANGED <<pc, ev>>
      BY <1>2, <3>1
    <3>2. CASE Call(t) /\ Enter(t, EventOf[h], "assoc")
      BY <1>3, <3>2 DEF ThreadTypeOK, Enter, Call
    <3> QED
      BY <1>7, <3>1, <3>2 DEF ofc_waitset_add
  <2> QED
    BY <1>1, <1>7, <2>1 DEF ofc_waitset_add, worldVars, waiterVars
<1>8. ASSUME NEW t \in Threads, EventStep(t) PROVE SmbEventUp'
  <2>1. \A g \in Smb : Enqueuing(g) => Enqueuing(g)'
    <3>1. CASE SetBroadcast(t)
      BY <1>2, <3>1 DEF ThreadTypeOK, SetBroadcast
    <3>2. CASE SetLookup(t)
      BY <1>3, <3>2 DEF ThreadTypeOK, SetLookup, Leave
    <3>3. CASE SetPost(t) \/ WaitRelock(t) \/ DestroyHandle(t)
      BY <1>3, <3>3 DEF ThreadTypeOK, SetPost, WaitRelock, DestroyHandle, Leave
    <3> QED
      BY <1>8, <3>1, <3>2, <3>3 DEF EventStep, InFlight
  <2>2. \A g \in Smb : signalled[EventOf[g]] => signalled'[EventOf[g]]
    <3>1. CASE WaitRelock(t)
      BY <3>1 DEF ThreadTypeOK, SmbUntaken, WaitRelock, ClearIfAuto
    <3>2. CASE UNCHANGED signalled
      BY <3>2
    <3> QED
      BY <1>8, <3>1, <3>2
         DEF EventStep, InFlight, SetBroadcast, SetLookup, SetPost, DestroyHandle
  <2> QED
    BY <1>1, <1>8, <2>1, <2>2 DEF EventStep, worldVars, waiterVars
<1>9. ASSUME NEW t \in Threads, EnqueuedSet(t) PROVE SmbEventUp'
  <2>0. /\ pc[t] = "enqueued" /\ signalled' = [signalled EXCEPT ![ev[t]] = TRUE]
        /\ \E l : pc' = [pc EXCEPT ![t] = l]
        /\ \E e : ev' = [ev EXCEPT ![t] = e]
    BY <1>9 DEF EnqueuedSet, RaiseFlag, Goto, Enter
  <2>1. /\ signalled' = [signalled EXCEPT ![ev[t]] = TRUE] /\ ev[t] \in Events
        /\ \A u \in Threads : u # t => pc'[u] = pc[u] /\ ev'[u] = ev[u]
    BY <2>0 DEF ThreadTypeOK
  <2>2. ASSUME NEW g \in Smb, Enqueuing(g) PROVE Enqueuing(g)' \/ signalled'[EventOf[g]]
    <3>1. PICK u \in Threads : pc[u] = "enqueued" /\ ev[u] = EventOf[g]
      BY <2>2 DEF Enqueuing
    <3>2. CASE u = t
      BY <2>1, <3>1, <3>2 DEF ThreadTypeOK
    <3>3. CASE u # t
      BY <2>1, <3>1, <3>3 DEF Enqueuing
    <3> QED
      BY <3>2, <3>3
  <2>3. \A g \in Smb : signalled[EventOf[g]] => signalled'[EventOf[g]]
    BY <2>1 DEF ThreadTypeOK
  <2> QED
    BY <1>1, <1>9, <2>2, <2>3 DEF EnqueuedSet, worldVars, waiterVars
<1>10. ASSUME NEW t \in Threads, AddAssoc(t) \/ AddTest(t) \/ AddPost(t) PROVE SmbEventUp'
  <2>1. \A g \in Smb : Enqueuing(g) => Enqueuing(g)'
    BY <1>3, <1>10 DEF ThreadTypeOK, AddAssoc, AddTest, AddPost, Leave
  <2> QED
    BY <1>1, <1>10, <2>1 DEF AddAssoc, AddTest, AddPost, worldVars, waiterVars
<1>11. ASSUME NEW t \in Threads, ofc_waitset_wake_impl(t) PROVE SmbEventUp'
  BY <1>1, <1>2, <1>11 DEF ofc_waitset_wake_impl, worldVars, waiterVars
<1>12. CASE \E h \in Handles : Remove(h)
  BY <1>1, <1>2, <1>12 DEF Remove, worldVars, waiterVars
<1>13. CASE WorldStep
  <2>1. \A h \in Smb : qlen'[h] > 0 => qlen[h] > 0
    BY <1>13 DEF WorldStep, ofc_waitq_dequeue, ArmTimer, ofc_socket_impl_enable, Io, Tick
  <2> QED
    BY <1>1, <1>2, <1>13, <2>1, WorldFrame DEF eventVars
<1>14. CASE WaiterStep \/ PollTimeout \/ PollError
  <2>1. UNCHANGED <<pc, ev, qlen>>
    BY <1>14, WaiterFrame DEF worldVars
  <2> QED
    BY <1>14, <2>1, AwaitedStep DEF SmbEventUp, Enqueuing, Testing, Work
<1>15. CASE UNCHANGED vars
  BY <1>1, <1>2, <1>15 DEF vars, eventVars, worldVars, waiterVars
<1> QED
  BY <1>4, <1>5, <1>6, <1>7, <1>8, <1>9, <1>10, <1>11, <1>12, <1>13, <1>14, <1>15
     DEF Next, Outside, ThreadCall, ThreadStep

-----------------------------------------------------------------------------
\* Every step keeps what an awaited handle with work relies on.
LEMMA PostedStep ==
    ASSUME SignalInv, [Next]_vars
    PROVE  Posted'
<1>0. /\ TypeOK /\ ThreadTypeOK /\ Control /\ Associated /\ SmbEventUp /\ Posted
      /\ evq \subseteq Awaited /\ qlen \in [Handles -> Nat]
  BY DEF SignalInv, TypeOK, WorldTypeOK, WaiterTypeOK
<1> USE <1>0, KindFacts
\* A step that leaves something in the pipe.
<1>1. ASSUME pipe' # <<>> PROVE Posted'
  BY <1>1 DEF Posted
\* A step of a thread or of the world that takes nothing from the pipe.
<1>2. ASSUME UNCHANGED <<wpc, evq, pipe>>,
             \A h \in evq : (Registered(h) /\ Work(h))'
                               => (Registered(h) /\ Work(h)) \/ PostAhead(h)',
             \A h \in evq : Testing /\ Registered(h) /\ Work(h) /\ PostAhead(h)
                               => PostAhead(h)'
      PROVE  Posted'
  <2>1. (Testing <=> Testing') /\ (pipe = <<>> <=> pipe' = <<>>)
    BY <1>2 DEF Testing
  <2>2. SUFFICES ASSUME Testing, NEW h \in evq, (Registered(h) /\ Work(h))'
                 PROVE  pipe' # <<>> \/ PostAhead(h)'
    BY <1>2, <2>1 DEF Posted
  <2> QED
    BY <1>2, <2>1, <2>2 DEF Posted
\* Nobody who is about to post goes away.
<1>3. ASSUME \A u \in Threads : pc[u] \in PostPC => pc'[u] \in PostPC /\ ev'[u] = ev[u]
      PROVE  \A h : PostAhead(h) => PostAhead(h)'
  BY <1>3, PostAheadPC, PostAheadPCNext
<1>4. ASSUME NEW t \in Threads, NEW l, Goto(t, l),
             \/ pc[t] \notin PostPC
             \/ l \in PostPC /\ ev'[t] = ev[t],
             \A u \in Threads : u # t => ev'[u] = ev[u]
      PROVE  \A h : PostAhead(h) => PostAhead(h)'
  BY <1>3, <1>4 DEF ThreadTypeOK, Goto
<1>5. ASSUME NEW t \in Threads, NEW h \in Handles, EventSet(t, h) PROVE Posted'
  <2>1. \A g : PostAhead(g) => PostAhead(g)'
    BY <1>4, <1>5 DEF ThreadTypeOK, EventSet, SetLock, RaiseFlag, Enter, Call, PostPC, Holding
  <2>2. /\ \A g \in Awaited : g # h => signalled'[EventOf[g]] = signalled[EventOf[g]]
        /\ pc'[t] \in PostPC /\ ev'[t] = EventOf[h]
    <3>1. /\ h \in Awaited /\ EventOf[h] \in Events /\ Enter(t, EventOf[h], "broadcast")
          /\ signalled' = [signalled EXCEPT ![EventOf[h]] = TRUE]
      BY <1>5 DEF EventSet, SetLock, RaiseFlag
    <3>2. pc'[t] \in PostPC /\ ev'[t] = EventOf[h]
      BY <3>1 DEF ThreadTypeOK, Enter, Goto, PostPC, Holding
    <3> QED
      BY <3>1, <3>2 DEF ThreadTypeOK
  <2>3. PostAhead(h)' /\ UNCHANGED <<hq, qlen, wpc, evq, pipe>>
    BY <1>5, <2>2, PostAheadPCNext DEF EventSet, SetLock, RaiseFlag, worldVars, waiterVars
  <2> QED
    BY <1>2, <2>1, <2>2, <2>3 DEF Registered, Work
<1>6. ASSUME NEW t \in Threads, NEW h \in Handles, EventTake(t, h) PROVE Posted'
  <2>1. \A g : PostAhead(g) => PostAhead(g)'
    <3>1. CASE UNCHANGED <<pc, ev>>
      BY <1>3, <3>1
    <3>2. CASE Call(t) /\ Enter(t, EventOf[h], "blocked")
      BY <1>4, <3>2 DEF ThreadTypeOK, Enter, Call, PostPC, Holding
    <3> QED
      BY <1>6, <3>1, <3>2 DEF EventTake, ofc_event_reset_impl, WaitLock
  <2>2. \A g \in Awaited : signalled'[EventOf[g]] => signalled[EventOf[g]]
    <3>1. EventOf[h] \in Events /\ signalled \in [Events -> BOOLEAN]
      <4>1. h \in Flagged \/ (h \in Handles /\ Kind[h] = "WAIT_QUEUE")
        BY <1>6 DEF EventTake, OfKind
      <4>2. h \in Awaited
        BY <4>1
      <4> QED
        BY <4>2 DEF ThreadTypeOK
    <3>2. CASE signalled' = [signalled EXCEPT ![EventOf[h]] = FALSE]
      BY <3>1, <3>2
    <3>3. CASE ClearIfAuto(EventOf[h])
      BY <3>1, <3>3 DEF ClearIfAuto
    <3>4. CASE UNCHANGED signalled
      BY <3>4
    <3> QED
      BY <1>6, <3>2, <3>3, <3>4 DEF EventTake, ofc_event_reset_impl, WaitLock
  <2>3. UNCHANGED <<hq, qlen, wpc, evq, pipe>>
    BY <1>6 DEF EventTake, ofc_event_reset_impl, WaitLock, worldVars, waiterVars
  <2> QED
    BY <1>2, <2>1, <2>2, <2>3 DEF Registered, Work
<1>7. ASSUME NEW t \in Threads, NEW h \in Handles, ofc_waitq_enqueue(t, h) PROVE Posted'
  <2>1. \A g : PostAhead(g) => PostAhead(g)'
    BY <1>4, <1>7 DEF ThreadTypeOK, ofc_waitq_enqueue, Enter, Call, PostPC, Holding
  <2>2. /\ \A g \in Awaited : g # h => qlen'[g] = qlen[g]
        /\ pc'[t] \in PostPC /\ ev'[t] = EventOf[h]
    BY <1>7 DEF ThreadTypeOK, ofc_waitq_enqueue, Enter, Goto, PostPC
  <2>3. PostAhead(h)' /\ UNCHANGED <<hq, signalled, wpc, evq, pipe>>
    BY <1>7, <2>2, PostAheadPCNext DEF ofc_waitq_enqueue, waiterVars
  <2> QED
    BY <1>2, <2>1, <2>2, <2>3 DEF Registered, Work
<1>8. ASSUME NEW t \in Threads, NEW h \in Handles, ofc_waitset_add(t, h) PROVE Posted'
  <2>1. \A g : PostAhead(g) => PostAhead(g)'
    <3>1. CASE UNCHANGED <<pc, ev>>
      BY <1>3, <3>1
    <3>2. CASE Call(t) /\ Enter(t, EventOf[h], "assoc")
      BY <1>4, <3>2 DEF ThreadTypeOK, Enter, Call, PostPC, Holding
    <3> QED
      BY <1>8, <3>1, <3>2 DEF ofc_waitset_add
  <2>2. \A g \in Awaited : Registered(g)' => Registered(g) \/ g = h
    BY <1>8, AddQueue DEF SignalInv
  <2>3. h \in Awaited => PostAhead(h)'
    <3>1. h \in Awaited => pc'[t] \in PostPC /\ ev'[t] = EventOf[h]
      BY <1>8 DEF ThreadTypeOK, ofc_waitset_add, Enter, Goto, PostPC
    <3> QED
      BY <3>1, PostAheadPCNext
  <2>4. UNCHANGED <<qlen, signalled, wpc, evq, pipe>>
    BY <1>8 DEF ofc_waitset_add, worldVars, waiterVars
  <2> QED
    BY <1>2, <2>1, <2>2, <2>3, <2>4 DEF Work
<1>9. ASSUME NEW t \in Threads, EventStep(t) PROVE Posted'
  <2>0. UNCHANGED <<hq, qlen, wpc, evq>>
    BY <1>9 DEF EventStep, worldVars, waiterVars
  <2>1. CASE SetBroadcast(t)
    <3>1. \A g : PostAhead(g) => PostAhead(g)'
      BY <1>3, <2>1 DEF ThreadTypeOK, SetBroadcast, PostPC, Holding
    <3> QED
      BY <1>2, <2>0, <2>1, <3>1 DEF SetBroadcast, Registered, Work
  <2>2. CASE SetLookup(t) /\ inSet[ev[t]]
    <3>1. \A g : PostAhead(g) => PostAhead(g)'
      BY <1>4, <2>2 DEF ThreadTypeOK, SetLookup, PostPC, Holding
    <3> QED
      BY <1>2, <2>0, <2>2, <3>1 DEF SetLookup, Registered, Work
  <2>3. CASE SetLookup(t) /\ ~inSet[ev[t]]
    <3>1. ASSUME NEW g \in evq, Registered(g), PostAhead(g) PROVE PostAhead(g)'
      <4>1. PICK u \in Threads : pc[u] \in PostPC /\ ev[u] = EventOf[g]
        BY <3>1, PostAheadPC
      <4>2. PICK w \in Threads : pc[w] \in PostPC /\ ev[w] = EventOf[g] /\ w # t
        <5>1. CASE u # t
          BY <4>1, <5>1
        <5>2. CASE u = t
          <6>1. Associating(g)
            BY <2>3, <3>1, <4>1, <5>2 DEF Associated
          <6> QED
            BY <2>3, <6>1 DEF Associating, SetLookup, PostPC
        <5> QED
          BY <5>1, <5>2
      <4>3. pc'[w] = pc[w] /\ ev'[w] = ev[w]
        BY <2>3, <4>2 DEF ThreadTypeOK, SetLookup, Leave, Goto
      <4> QED
        BY <4>2, <4>3, PostAheadPCNext
    <3> QED
      BY <1>2, <2>0, <2>3, <3>1 DEF SetLookup, Registered, Work
  <2>4. CASE SetPost(t)
    <3>1. ev[t] \in Events \cup {NoHandle} /\ ofc_waitset_signal_impl(ev[t])
      BY <2>4 DEF ThreadTypeOK, SetPost
    <3> QED
      BY <1>1, <3>1, SignalPosts
  <2>5. CASE WaitRelock(t)
    <3>1. \A g : PostAhead(g) => PostAhead(g)'
      BY <1>4, <2>5 DEF ThreadTypeOK, WaitRelock, Leave, PostPC, Holding
    <3>2. \A g \in Awaited : signalled'[EventOf[g]] => signalled[EventOf[g]]
      BY <2>5 DEF ThreadTypeOK, WaitRelock, ClearIfAuto
    <3> QED
      BY <1>2, <2>0, <2>5, <3>1, <3>2 DEF WaitRelock, Registered, Work
  <2>6. ~DestroyHandle(t)
    BY DEF ThreadTypeOK, ThreadPC, EventPC, DestroyHandle
  <2> QED
    BY <1>9, <2>1, <2>2, <2>3, <2>4, <2>5, <2>6 DEF EventStep, InFlight
<1>10. ASSUME NEW t \in Threads, EnqueuedSet(t) PROVE Posted'
  <2>1. /\ UNCHANGED <<hq, qlen, wpc, evq, pipe, ev>> /\ Goto(t, "broadcast")
        /\ signalled' = [signalled EXCEPT ![ev[t]] = TRUE] /\ ev[t] \in Events
    BY <1>10 DEF ThreadTypeOK, EnqueuedSet, RaiseFlag, Enter, worldVars, waiterVars
  <2>2. \A g : PostAhead(g) => PostAhead(g)'
    BY <1>4, <2>1 DEF ThreadTypeOK, PostPC, Holding
  <2>3. \A g \in Awaited : ev[t] = EventOf[g] => PostAhead(g)'
    <3>1. pc'[t] \in PostPC
      BY <2>1 DEF ThreadTypeOK, Goto, PostPC, Holding
    <3> QED
      BY <2>1, <3>1, PostAheadPCNext
  <2>4. \A g \in Awaited : ev[t] # EventOf[g] => signalled'[EventOf[g]] = signalled[EventOf[g]]
    BY <2>1 DEF ThreadTypeOK
  <2> QED
    BY <1>2, <2>1, <2>2, <2>3, <2>4 DEF Registered, Work
<1>11. ASSUME NEW t \in Threads, AddAssoc(t) PROVE Posted'
  <2>1. \A g : PostAhead(g) => PostAhead(g)'
    BY <1>4, <1>11 DEF ThreadTypeOK, AddAssoc, PostPC
  <2> QED
    BY <1>2, <1>11, <2>1 DEF AddAssoc, Registered, Work, worldVars, waiterVars
<1>12. ASSUME NEW t \in Threads, AddTest(t) PROVE Posted'
  <2>0. UNCHANGED <<hq, qlen, signalled, wpc, evq, pipe>> /\ pc[t] = "addtest"
    BY <1>12 DEF AddTest, worldVars, waiterVars
  <2>1. CASE Goto(t, "addpost") /\ UNCHANGED ev
    <3>1. \A g : PostAhead(g) => PostAhead(g)'
      BY <1>4, <2>1 DEF ThreadTypeOK, PostPC
    <3> QED
      BY <1>2, <2>0, <3>1 DEF Registered, Work
  <2>2. CASE Leave(t) /\ ~Goto(t, "addpost")
    <3>1. PICK h \in Awaited :
             /\ EventOf[h] = ev[t]
             /\ ~(IF Kind[h] = "WAIT_QUEUE" THEN qlen[h] > 0 ELSE ofc_event_test_impl(ev[t]))
      BY <1>12, <2>2 DEF AddTest
    <3>2. h \in Smb \/ ~Work(h)
      <4>1. CASE Kind[h] = "WAIT_QUEUE"
        BY <3>1, <4>1 DEF Work
      <4>2. CASE h \in Flagged
        <5>1. ~signalled[EventOf[h]]
          BY <3>1, <4>2, LiveEvent DEF Flagged, OfKind
        <5> QED
          BY <4>2, <5>1 DEF Work
      <4> QED
        BY <4>1, <4>2 DEF Smb, OfKind, Flagged, Queues, Awaited
    <3>3. h \in Smb => ~signalled[EventOf[h]]
      BY <3>1, LiveEvent DEF Smb, OfKind
    <3>4. \A u \in Threads : u # t => pc'[u] = pc[u] /\ ev'[u] = ev[u]
      BY <2>2 DEF ThreadTypeOK, Leave, Goto
    <3>5. ASSUME NEW g \in evq, Testing, Registered(g), Work(g), PostAhead(g)
          PROVE  PostAhead(g)'
      <4>1. PICK u \in Threads : pc[u] \in PostPC /\ ev[u] = EventOf[g] /\ u # t
        <5>1. PICK v \in Threads : pc[v] \in PostPC /\ ev[v] = EventOf[g]
          BY <3>5, PostAheadPC
        <5>2. CASE v = t
          <6>1. g = h /\ g \in Smb /\ qlen[g] > 0
            BY <3>1, <3>2, <3>5, <5>1, <5>2, SmbFacts DEF Work
          <6>2. Enqueuing(g)
            BY <3>3, <3>5, <6>1 DEF SmbEventUp
          <6> QED
            BY <2>0, <6>2 DEF Enqueuing, PostPC
        <5> QED
          BY <5>1, <5>2
      <4> QED
        BY <3>4, <4>1, PostAheadPCNext
    <3> QED
      BY <1>2, <2>0, <3>5 DEF Registered, Work
  <2> QED
    BY <1>12, <2>1, <2>2 DEF AddTest, ThreadTypeOK, Leave, Goto
<1>13. ASSUME NEW t \in Threads, AddPost(t) PROVE Posted'
  <2>1. ev[t] \in Events \cup {NoHandle} /\ ofc_waitset_signal_impl(ev[t])
    BY <1>13 DEF ThreadTypeOK, AddPost
  <2> QED
    BY <1>1, <2>1, SignalPosts
<1>14. ASSUME NEW t \in Threads, ofc_waitset_wake_impl(t) PROVE Posted'
  BY <1>1, <1>14, SignalPosts DEF ofc_waitset_wake_impl
<1>15. CASE \E h \in Handles : Remove(h)
  BY <1>15 DEF Remove, Posted, Testing, waiterVars
<1>16. CASE WorldStep
  <2>1. \A h \in Awaited : qlen'[h] > 0 => qlen[h] > 0
    BY <1>16 DEF WorldStep, ofc_waitq_dequeue, ArmTimer, ofc_socket_impl_enable, Io, Tick
  <2>2. UNCHANGED <<pc, ev, hq, signalled, wpc, evq, pipe>>
    BY <1>16, WorldFrame DEF eventVars
  <2>3. \A g : PostAhead(g) => PostAhead(g)'
    BY <1>3, <2>2
  <2> QED
    BY <1>2, <2>1, <2>2, <2>3 DEF Registered, Work
<1>17. CASE WaiterStep \/ PollTimeout \/ PollError
  <2>1. UNCHANGED <<pc, ev, hq, qlen>>
    BY <1>17, WaiterFrame DEF worldVars
  <2>2. \A g : PostAhead(g) => PostAhead(g)'
    BY <1>3, <2>1
  <2>3. CASE ~Testing' \/ evq' = {}
    BY <2>3 DEF Posted
  <2>4. CASE Testing /\ UNCHANGED <<signalled, pipe>> /\ \A h \in evq' \ evq : ~Work(h)
    <3>1. \A h : (Registered(h)' <=> Registered(h)) /\ (Work(h)' <=> Work(h))
      BY <2>1, <2>4 DEF Registered, Work
    <3>2. \A h \in evq : Registered(h) /\ Work(h) => pipe # <<>> \/ PostAhead(h)
      BY <2>4 DEF Posted
    <3> QED
      BY <2>2, <2>4, <3>1, <3>2 DEF Posted
  <2> QED
    BY <1>17, <2>3, <2>4, AwaitedStep
<1>18. CASE UNCHANGED vars
  <2>1. UNCHANGED <<pc, ev, hq, qlen, signalled, wpc, evq, pipe>>
    BY <1>18 DEF vars, eventVars, worldVars, waiterVars
  <2>2. \A g : PostAhead(g) => PostAhead(g)'
    BY <1>3, <2>1
  <2> QED
    BY <1>2, <2>1, <2>2 DEF Registered, Work
<1> QED
  BY <1>5, <1>6, <1>7, <1>8, <1>9, <1>10, <1>11, <1>12, <1>13, <1>14, <1>15, <1>16, <1>17, <1>18
     DEF Next, Outside, ThreadCall, ThreadStep

\* The scheduler never sleeps on work: whatever number of threads set events,
\* fill queues and add handles while it tests and sleeps, a handle that it awaits
\* in poll has no work, or a write to its pipe has been made or is announced.
THEOREM NoLostSignalCorrect == Spec => []NoLostSignal
<1>1. Init => SmbUntaken /\ SmbEventUp /\ Posted
  BY DEF Init, QuietInit, SmbUntaken, SmbEventUp, Posted, Testing
<1>2. TypeOK /\ Control /\ (QueuedOnce /\ Associated) /\ (SmbUntaken /\ SmbEventUp /\ Posted)
        /\ [Next]_vars
      => (SmbUntaken /\ SmbEventUp /\ Posted)'
  BY SmbUntakenStep, SmbEventUpStep, PostedStep DEF SignalInv
<1>3. Posted => NoLostSignal
  BY DEF Posted, NoLostSignal, Testing
<1> QED
  BY <1>1, <1>2, <1>3, TypeCorrect, ControlCorrect, SetCorrect, PTL DEF Spec

-----------------------------------------------------------------------------
(***************************************************************************)
(* The wait as one instant.  The steps of the other threads and of the     *)
(* world are changes around the wait; of the scheduler's own steps, the    *)
(* one that finds a handle is the instant, and the others do not show.     *)
(* What is found is in the set, because the lists of a call hold members   *)
(* only and nobody leaves the set during a call.                           *)
(***************************************************************************)
Listed ==
    /\ wpc \in {"idle", "purge"} => fds = {}
    /\ \A h \in evq \cup fds \cup {timerEv} : h # NoHandle => Registered(h)

\* While a wait is under way, no step takes a handle out of the set.
LEMMA MembersStay ==
    ASSUME TypeOK, [Next]_vars, wpc # "idle", NEW g, Registered(g)
    PROVE  Registered(g)'
<1>1. CASE UNCHANGED hq
  BY <1>1 DEF Registered
<1>2. ASSUME NEW t \in Threads, NEW h \in Handles, ofc_waitset_add(t, h)
      PROVE  Registered(g)'
  <2>1. hq \in Seq(Handles) /\ hq' = Append(hq, h)
    BY <1>2 DEF TypeOK, WorldTypeOK, ofc_waitset_add
  <2> QED
    BY <2>1 DEF Registered
<1>3. ASSUME NEW t \in Threads, ThreadStep(t) PROVE UNCHANGED hq
  BY <1>3 DEF ThreadStep, EventStep, EnqueuedSet, AddAssoc, AddTest, AddPost
<1>4. ASSUME NEW t \in Threads, ThreadCall(t), ~\E h \in Handles : ofc_waitset_add(t, h)
      PROVE  UNCHANGED hq
  BY <1>4 DEF ThreadCall, ofc_waitset_wake_impl, EventSet, EventTake, ofc_waitq_enqueue
<1>5. WorldStep => UNCHANGED hq
  BY WorldFrame
<1>6. WaiterStep \/ PollTimeout \/ PollError => UNCHANGED hq
  BY WaiterFrame
<1>7. ~\E h \in Handles : Remove(h)
  BY DEF Remove
<1> QED
  BY <1>1, <1>2, <1>3, <1>4, <1>5, <1>6, <1>7 DEF Next, Outside, vars

\* The lists of a call hold members of the set only.
LEMMA ListedStep ==
    ASSUME TypeOK, Control, Listed, [Next]_vars
    PROVE  Listed'
<1>0. hq \in Seq(Handles) /\ idx \in Nat \ {0}
  BY DEF TypeOK, WorldTypeOK, WaiterTypeOK
\* A step that puts nothing on a list, or the handle that the loop is at.
<1>1. ASSUME wpc # "idle", NEW h, Registered(h), wpc' \in {"idle", "purge"} => fds' = {},
             evq' \cup fds' \cup {timerEv'} \subseteq evq \cup fds \cup {timerEv, h, NoHandle}
      PROVE  Listed'
  BY <1>1, MembersStay DEF Listed
<1>2. ASSUME wpc # "idle", wpc' \in {"idle", "purge"} => fds' = {},
             UNCHANGED <<evq, fds, timerEv>>
      PROVE  Listed'
  BY <1>2, MembersStay DEF Listed
<1>3. ASSUME wpc = "idle", UNCHANGED <<evq, fds, timerEv>> PROVE Listed'
  BY <1>3 DEF Listed, Control
<1>4. ASSUME UNCHANGED <<wpc, evq, fds, timerEv>> PROVE Listed'
  BY <1>2, <1>3, <1>4 DEF Listed
<1>5. CASE \E t \in Threads : ThreadCall(t) \/ ThreadStep(t)
  BY <1>4, <1>5, ThreadFrame DEF waiterVars
<1>6. CASE \E h \in Handles : Remove(h)
  BY <1>4, <1>6 DEF Remove, waiterVars
<1>7. CASE WorldStep
  BY <1>4, <1>7, WorldFrame
<1>8. CASE WaitCall
  BY <1>3, <1>8 DEF WaitCall
<1>9. CASE Purge \/ ScanDone \/ PollPipe \/ PollFd \/ PollTimeout \/ PollError
  BY <1>2, <1>9 DEF Purge, ScanDone, PollPipe, PollFd, PollTimeout, PollError, Listed
<1>10. CASE PollEventRead \/ PollEventTest \/ ResetAuto
  BY <1>2, <1>10 DEF PollEventRead, PollEventTest, ResetAuto
<1>11. CASE Return
  BY <1>11 DEF Return, FreshLocals, Listed
<1>12. ASSUME NEW h \in Handles,
              ScanFlagged(h) \/ ScanQueue(h) \/ ScanFd(h) \/ ScanTimer(h) \/ ScanOther(h)
       PROVE  Listed'
  <2>1. At(h)
    BY <1>12 DEF ScanFlagged, ScanQueue, ScanFd, ScanTimer, ScanOther
  <2>2. Registered(h) /\ wpc = "scan"
    BY <1>0, <2>1 DEF At, Registered
  <2>3. wpc' \notin {"idle", "purge"}
    BY <1>12, <2>2 DEF ScanFlagged, ScanQueue, ScanFd, ScanTimer, ScanOther, Await
  <2>4. evq' \cup fds' \cup {timerEv'} \subseteq evq \cup fds \cup {timerEv, h, NoHandle}
    BY <1>12 DEF ScanFlagged, ScanQueue, ScanFd, ScanTimer, ScanOther, Await, Found
  <2> QED
    BY <1>1, <2>2, <2>3, <2>4
<1>13. CASE UNCHANGED vars
  BY <1>4, <1>13 DEF vars, waiterVars
<1> QED
  BY <1>5, <1>6, <1>7, <1>8, <1>9, <1>10, <1>11, <1>12, <1>13 DEF Next, Outside, WaiterStep

\* A step of the scheduler that takes no flag leaves the work as it is.
LEMMA WorkSame ==
    ASSUME wpc # "reset", wpc' # "reset", UNCHANGED <<signalled, worldVars, mask>>
    PROVE  Working' = Working
  BY DEF Working, HasWork, Raised, worldVars

\* One that takes the flag of h leaves all work but that of h, and that of h only
\* if it is a queue with items.
LEMMA WorkTaken ==
    ASSUME wpc # "reset", wpc' = "reset", NEW h \in Awaited, tok' = EventOf[h],
           UNCHANGED <<signalled, worldVars, mask>>
    PROVE  Working' = Working \ {h} \/ (h \in Queues /\ Working' = Working)
<1>1. ASSUME NEW g \in Handles, g # h PROVE HasWork(g)' <=> HasWork(g)
  <2>1. g \in Awaited => (Raised(g)' <=> Raised(g))
    BY <1>1, KindFacts DEF Raised
  <2> QED
    BY <2>1, KindFacts DEF HasWork, worldVars
<1>2. ~Raised(h)'
  BY DEF Raised
<1>3. CASE h \in Flagged
  <2>1. ~HasWork(h)'
    BY <1>2, <1>3, KindFacts DEF HasWork
  <2> QED
    BY <1>1, <2>1 DEF Working
<1>4. CASE h \in Queues
  <2>1. HasWork(h)' => HasWork(h)
    BY <1>2, <1>4, KindFacts DEF HasWork, worldVars
  <2>2. h \in Handles
    BY KindFacts
  <2> QED
    BY <1>1, <1>4, <2>1, <2>2 DEF Working
<1> QED
  BY <1>3, <1>4, KindFacts

\* The scheduler finds a handle that is in the set and has work, or nobody.
LEMMA FoundStep ==
    ASSUME wpc \notin {"idle", "reset", "ret"}, wpc' = "ret", UNCHANGED <<hq, signalled, worldVars, mask>>,
           trig' = trig \/ (trig' \in Handles /\ HasWork(trig') /\ Registered(trig')
                            /\ trig' \notin AutoEvents)
    PROVE  AtomicSet!Next
<1>1. Working' = Working /\ Members' = Members
  BY WorkSame DEF Members, Registered
<1>2. CallState = "waiting" /\ CallState' = "answered"
  BY DEF CallState
<1>3. CASE trig' = trig
  BY <1>1, <1>2, <1>3 DEF AtomicSet!Next, AtomicSet!AnswerNobody
<1>4. CASE trig' \in Handles /\ HasWork(trig') /\ Registered(trig') /\ trig' \notin AutoEvents
  <2>1. trig' \in Members \cap Working
    BY <1>4 DEF Members, Working
  <2>2. AtomicSet!Answer(trig')
    BY <1>1, <1>2, <1>4, <2>1 DEF AtomicSet!Answer
  <2> QED
    BY <1>4, <2>2 DEF AtomicSet!Next
<1> QED
  BY <1>3, <1>4

\* The scheduler finds a member of the set by its flag, and takes the flag.
LEMMA FlagTakenStep ==
    ASSUME wpc \notin {"idle", "reset", "ret"}, wpc' = "reset",
           UNCHANGED <<hq, signalled, worldVars, mask>>,
           NEW h \in Awaited, Registered(h), signalled[EventOf[h]],
           trig' = h, tok' = EventOf[h]
    PROVE  AtomicSet!Next
<1>0. h \in Handles
  BY KindFacts
<1>1. h \in Members \cap Working
  BY <1>0, KindFacts DEF Members, Working, HasWork, Raised
<1>2. CallState = "waiting" /\ CallState' = "answered" /\ Members' = Members
  BY DEF CallState, Members, Registered
<1>3. Working' = Working \ {h} \/ (h \notin AutoEvents /\ Working' = Working)
  <2>1. h \in Queues => h \notin AutoEvents
    BY DEF Queues, AutoEvents, OfKind
  <2> QED
    BY <2>1, WorkTaken
<1>4. AtomicSet!Answer(h)
  BY <1>1, <1>2, <1>3 DEF AtomicSet!Answer
<1> QED
  BY <1>0, <1>4 DEF AtomicSet!Next

\* Every step is one of the atomic wait set, or does not show there.
LEMMA AtomicSetStep ==
    ASSUME TypeOK, Control, TimerBound, Listed, [Next]_vars
    PROVE  [AtomicSet!Next]_(AtomicSet!vars)
<1>0. /\ ThreadTypeOK /\ evq \subseteq Awaited /\ fds \subseteq Fds
      /\ timerEv \in Timers \cup {NoHandle} /\ left \in [Handles -> Nat] /\ least \in Nat
      /\ hq \in Seq(Handles) /\ idx \in Nat \ {0}
  BY DEF TypeOK, WorldTypeOK, WaiterTypeOK
<1> USE <1>0
\* A step around the wait, or one of the wait that finds nothing.
<1>1. ASSUME CallState' = CallState, trig' = trig PROVE AtomicSet!Next
  <2>1. CallState # "idle" => Members \subseteq Members'
    BY MembersStay DEF CallState, Members
  <2>2. Members' \in SUBSET Handles /\ Working' \in SUBSET Handles
    BY DEF Members, Working
  <2> QED
    BY <1>1, <2>1, <2>2 DEF AtomicSet!Next, AtomicSet!Change
<1>2. CASE \E t \in Threads : ThreadCall(t) \/ ThreadStep(t)
  BY <1>1, <1>2, ThreadFrame DEF waiterVars, CallState
<1>3. CASE \E h \in Handles : Remove(h)
  BY <1>1, <1>3 DEF Remove, waiterVars, CallState
<1>4. CASE WorldStep
  BY <1>1, <1>4, WorldFrame DEF CallState
<1>5. CASE WaitCall
  <2>1. Working' = Working /\ Members' = Members /\ trig' = trig
    BY <1>5, WorkSame DEF WaitCall, outsideVars, Members, Registered
  <2>2. CallState = "idle" /\ CallState' = "waiting"
    BY <1>5 DEF WaitCall, CallState
  <2> QED
    BY <2>1, <2>2 DEF AtomicSet!Next, AtomicSet!Begin
<1>6. CASE Purge \/ ScanDone \/ PollPipe
  BY <1>1, <1>6 DEF Purge, ScanDone, PollPipe, CallState
<1>7. CASE PollFd
  <2>1. PICK h \in fds : First(h, ReadyFds) /\ trig' = h
    BY <1>7 DEF PollFd
  <2>2. h \in Handles /\ Registered(h) /\ h \notin AutoEvents
    BY <2>1, KindFacts DEF First, Registered, AutoEvents, OfKind, Fds
  <2>3. HasWork(h)
    BY <2>1 DEF First, ReadyFds, Reported, HasWork
  <2> QED
    BY <1>7, <2>1, <2>2, <2>3, FoundStep DEF PollFd, outsideVars
<1>8. CASE PollTimeout
  <2>1. timerEv = NoHandle => trig' = trig
    BY <1>8 DEF PollTimeout, Control
  <2>2. ASSUME timerEv # NoHandle
        PROVE  /\ timerEv \in Handles /\ HasWork(timerEv) /\ Registered(timerEv)
               /\ timerEv \notin AutoEvents
    <3>1. timerEv \in Timers /\ timerEv \in Handles /\ Registered(timerEv)
      BY <2>2, KindFacts DEF Listed
    <3>2. left[timerEv] = 0
      BY <1>8, <2>2, <3>1 DEF PollTimeout, TimerBound
    <3> QED
      BY <3>1, <3>2 DEF HasWork, AutoEvents, Timers, OfKind
  <2> QED
    BY <1>8, <2>1, <2>2, FoundStep DEF PollTimeout, outsideVars
<1>9. CASE PollError
  BY <1>9, FoundStep DEF PollError, outsideVars
<1>10. CASE PollEventRead
  <2>1. CASE wpc' = "ret"
    BY <1>10, <2>1, FoundStep DEF PollEventRead, outsideVars
  <2>2. CASE wpc' # "ret"
    BY <1>1, <1>10, <2>2 DEF PollEventRead, CallState
  <2> QED
    BY <2>1, <2>2
<1>11. CASE PollEventTest
  <2>1. tok \in Events
    BY <1>11 DEF PollEventTest, TypeOK, WaiterTypeOK
  <2>2. CASE ~signalled[tok]
    BY <1>1, <1>11, <2>1, <2>2, LiveEvent DEF PollEventTest, CallState
  <2>3. CASE signalled[tok]
    <3>1. PICK h \in evq : EventOf[h] = tok /\ trig' = h
      BY <1>11, <2>1, <2>3, LiveEvent DEF PollEventTest
    <3>2. h \in Awaited /\ h \in Handles /\ h # NoHandle /\ Registered(h)
      BY KindFacts DEF Listed
    <3>3. CASE wpc' = "reset"
      BY <1>11, <2>3, <3>1, <3>2, <3>3, FlagTakenStep DEF PollEventTest, outsideVars
    <3>4. CASE wpc' # "reset"
      <4>1. wpc' = "ret" /\ EventType[tok] # "AUTO"
        BY <1>11, <2>1, <2>3, <3>4, LiveEvent DEF PollEventTest
      <4>2. h \notin AutoEvents
        BY <3>1, <4>1, WaitSetAssumption DEF AutoEvents
      <4>3. HasWork(h)
        BY <1>11, <2>3, <3>1, <3>2, KindFacts DEF PollEventTest, HasWork, Raised
      <4> QED
        BY <1>11, <3>1, <3>2, <4>1, <4>2, <4>3, FoundStep DEF PollEventTest, outsideVars
    <3> QED
      BY <3>3, <3>4
  <2> QED
    BY <2>2, <2>3
<1>12. CASE ResetAuto
  BY <1>1, <1>12 DEF ResetAuto, CallState
<1>13. CASE Return
  <2>1. CallState = "answered" /\ CallState' = "idle" /\ trig' = NoHandle
    BY <1>13 DEF Return, FreshLocals, CallState
  <2>2. Members' = Members /\ Working' \in SUBSET Handles
    BY <1>13 DEF Return, Members, Registered, Working
  <2> QED
    BY <2>1, <2>2 DEF AtomicSet!Next, AtomicSet!Return
<1>14. ASSUME NEW h \in Handles, ScanFlagged(h) PROVE AtomicSet!Next
  <2>1. h \in Awaited /\ EventOf[h] \in Events /\ wpc = "scan" /\ Registered(h)
    BY <1>14, KindFacts DEF ScanFlagged, At, Registered
  <2>2. CASE ~signalled[EventOf[h]]
    BY <1>1, <1>14, <2>1, <2>2, LiveEvent DEF ScanFlagged, Await, CallState
  <2>3. CASE signalled[EventOf[h]]
    <3>1. /\ trig' = h /\ tok' = EventOf[h]
          /\ wpc' = IF Kind[h] = "EVENT" /\ ofc_event_get_type_impl(h) = "AUTO"
                    THEN "reset" ELSE "ret"
      BY <1>14, <2>1, <2>3, LiveEvent DEF ScanFlagged, Found
    <3>2. CASE wpc' = "reset"
      BY <1>14, <2>1, <2>3, <3>1, <3>2, FlagTakenStep DEF ScanFlagged, outsideVars
    <3>3. CASE wpc' # "reset"
      <4>1. h \notin AutoEvents
        <5>1. h \in OfKind({"EVENT"}) => EventOf[h] = h /\ Kind[h] = "EVENT"
          BY WaitSetAssumption DEF OfKind
        <5> QED
          BY <2>1, <3>1, <3>3, <5>1, LiveEvent DEF AutoEvents
      <4>2. HasWork(h)
        BY <1>14, <2>1, <2>3 DEF ScanFlagged, HasWork, Raised
      <4> QED
        BY <1>14, <2>1, <3>1, <3>3, <4>1, <4>2, FoundStep DEF ScanFlagged, outsideVars
    <3> QED
      BY <3>2, <3>3
  <2> QED
    BY <2>2, <2>3
<1>15. ASSUME NEW h \in Handles, ScanQueue(h) \/ ScanTimer(h) PROVE AtomicSet!Next
  <2>1. wpc = "scan" /\ Registered(h) /\ h \notin AutoEvents
    BY <1>15 DEF ScanQueue, ScanTimer, At, Registered, Queues, Timers, AutoEvents, OfKind
  <2>2. CASE wpc' = "ret"
    <3>1. trig' = h /\ HasWork(h)
      BY <1>15, <2>1, <2>2 DEF ScanQueue, ScanTimer, Found, Await, HasWork
    <3> QED
      BY <1>15, <2>1, <2>2, <3>1, FoundStep DEF ScanQueue, ScanTimer, outsideVars
  <2>3. CASE wpc' # "ret"
    BY <1>1, <1>15, <2>1, <2>3 DEF ScanQueue, ScanTimer, Await, CallState
  <2> QED
    BY <2>2, <2>3
<1>16. ASSUME NEW h \in Handles, ScanFd(h) \/ ScanOther(h) PROVE AtomicSet!Next
  BY <1>1, <1>16 DEF ScanFd, ScanOther, CallState
<1>17. CASE UNCHANGED vars
  BY <1>1, <1>17 DEF vars, waiterVars, CallState
<1> QED
  BY <1>2, <1>3, <1>4, <1>5, <1>6, <1>7, <1>8, <1>9, <1>10, <1>11, <1>12, <1>13, <1>14, <1>15,
     <1>16, <1>17 DEF Next, Outside, WaiterStep

\* ofc_waitset_wait_impl implements a wait that takes effect at one instant, for
\* any number of threads and any mix of handles.
THEOREM AtomicWaitSetCorrect == Spec => ImplementsAtomicWaitSet
<1>1. Init => AtomicSet!Init /\ TimerBound /\ Listed
  BY DEF Init, AtomicSet!Init, TimerBound, Listed, Members, Working, Registered, CallState
<1>2. TypeOK /\ Control /\ TimerBound /\ TimerNotEarly /\ [Next]_vars => TimerBound'
  BY TimerStep DEF TimerInv
<1> QED
  BY <1>1, <1>2, TypeCorrect, ControlCorrect, TimerNotEarlyCorrect, ListedStep, AtomicSetStep, PTL
     DEF Spec, ImplementsAtomicWaitSet, AtomicSet!Spec
=============================================================================
