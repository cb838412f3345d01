----------------------------- MODULE StopProofs -----------------------------
(***************************************************************************)
(* Theorems about module ThreadStop: what is proved of the wait set alone  *)
(* still holds when a scheduler loop drives it and another thread deletes  *)
(* the scheduler's thread.  Every step but the deleter's write is a step   *)
(* of the wait set, or leaves it alone; the write of the null handle adds  *)
(* to the pipe and changes nothing else.                                   *)
(***************************************************************************)
EXTENDS ThreadStop, WaitSetProofs

\* The scheduler announces its wait set before it first asks or waits.
WaitSetKnown == spc # "start" => wait_set

\* The inductive invariant of NoLostSignal, and the scheduler's place.
StopInv == SignalInv /\ StopTypeOK /\ WaitSetKnown

\* The deleter's write is the only step that is not one of the wait set's own.
LEMMA StopNextIsNext ==
    ASSUME [StopNext]_allVars, ~DeleteWake
    PROVE  [Next]_vars
  BY DEF StopNext, SchedulerStep, DeleterStep, Around, Waits, ofc_thread_set_waitset_impl,
         ofc_thread_is_deleting_impl, DeleteRaise, DeleteLookup, Next, allVars

\* The write of the null handle takes nothing away from the wait set.
LEMMA DeleteWakeKeeps ==
    ASSUME StopInv, DeleteWake
    PROVE  /\ TypeOK' /\ Control'
           /\ QueuedOnce' /\ Associated'
           /\ SmbUntaken' /\ SmbEventUp' /\ Posted'
<1> USE DEF StopInv, SignalInv
<1>1. /\ pipe' \in Seq(Events \cup {NoHandle}) /\ pipe' # <<>>
      /\ UNCHANGED <<life, signalled, mutex, inSet, pc, ev, calls, hq, revents, credit,
                     worldVars, waiterVars>>
  BY SignalPosts DEF TypeOK, DeleteWake
<1>2. TypeOK'
  BY <1>1 DEF TypeOK, ThreadTypeOK, WorldTypeOK, WaiterTypeOK, worldVars, waiterVars
<1>3. Control'
  BY <1>1 DEF Control, waiterVars
<1>4. QueuedOnce' /\ Associated'
  BY <1>1 DEF QueuedOnce, Associated, Associating, Registered
<1>5. SmbUntaken' /\ SmbEventUp'
  BY <1>1 DEF SmbUntaken, SmbEventUp, Enqueuing, Testing, worldVars, waiterVars
<1>6. Posted'
  BY <1>1 DEF Posted
<1> QED
  BY <1>2, <1>3, <1>4, <1>5, <1>6

\* The scheduler is in a wait only where its loop has called it.
LEMMA StopTypeStep ==
    ASSUME StopTypeOK, WaitSetKnown, [StopNext]_allVars
    PROVE  StopTypeOK' /\ WaitSetKnown'
<1> USE DEF StopTypeOK, WaitSetKnown
<1>1. CASE ofc_thread_set_waitset_impl \/ ofc_thread_is_deleting_impl
  BY <1>1 DEF ofc_thread_set_waitset_impl, ofc_thread_is_deleting_impl, vars, waiterVars
<1>2. CASE Waits(WaiterStep) \/ Waits(PollTimeout) \/ Waits(PollError)
  BY <1>2 DEF Waits
<1>3. CASE DeleteRaise \/ DeleteLookup \/ DeleteWake
  BY <1>3 DEF DeleteRaise, DeleteLookup, DeleteWake, vars, waiterVars
<1>4. CASE Around
  <2>1. UNCHANGED wpc
    <3>1. CASE \E t \in Threads : ThreadCall(t) \/ ThreadStep(t)
      BY <3>1, ThreadFrame DEF waiterVars
    <3>2. CASE \E h \in Handles : Remove(h)
      BY <3>2 DEF Remove, waiterVars
    <3>3. CASE WorldStep
      BY <3>3, WorldFrame
    <3> QED
      BY <1>4, <3>1, <3>2, <3>3 DEF Around, Outside
  <2> QED
    BY <1>4, <2>1 DEF Around, stopVars
<1>5. CASE UNCHANGED allVars
  BY <1>5 DEF allVars, stopVars, vars, waiterVars
<1> QED
  BY <1>1, <1>2, <1>3, <1>4, <1>5 DEF StopNext, SchedulerStep, DeleterStep

\* The invariant holds while a scheduler runs and is deleted.
THEOREM StopCorrect == StopSpec => []StopInv
<1>1. StopInit => StopInv
  <2>1. Init => TypeOK
    BY EventAssumption, WaitSetAssumption
       DEF Init, QuietInit, TypeOK, ThreadTypeOK, WorldTypeOK, WaiterTypeOK, ThreadPC, EventPC,
           WaiterPC
  <2>2. Init => Control /\ QueuedOnce /\ Associated /\ SmbUntaken /\ SmbEventUp /\ Posted
    BY DEF Init, QuietInit, Control, QueuedOnce, Associated, Registered, SmbUntaken,
           SmbEventUp, Posted, Testing
  <2>3. StopInit => StopTypeOK /\ WaitSetKnown
    BY DEF StopInit, StopTypeOK, WaitSetKnown, Init
  <2> QED
    BY <2>1, <2>2, <2>3 DEF StopInit, StopInv, SignalInv
<1>2. StopInv /\ [StopNext]_allVars => StopInv'
  <2> SUFFICES ASSUME StopInv, [StopNext]_allVars
               PROVE  StopInv'
    OBVIOUS
  <2>1. StopTypeOK' /\ WaitSetKnown'
    BY StopTypeStep DEF StopInv, SignalInv
  <2>2. CASE DeleteWake
    BY <2>1, <2>2, DeleteWakeKeeps DEF StopInv, SignalInv
  <2>3. CASE ~DeleteWake
    <3>1. [Next]_vars
      BY <2>3, StopNextIsNext
    <3>2. TypeOK' /\ Control' /\ QueuedOnce' /\ Associated'
      BY <3>1, ThreadTypeStep, WorldTypeStep, WaiterTypeStep, ControlStep, SetStep
         DEF StopInv, SignalInv, TypeOK, SetInv
    <3>3. SmbUntaken' /\ SmbEventUp' /\ Posted'
      BY <3>1, SmbUntakenStep, SmbEventUpStep, PostedStep DEF StopInv, SignalInv
    <3> QED
      BY <2>1, <3>2, <3>3 DEF StopInv, SignalInv
  <2> QED
    BY <2>2, <2>3
<1> QED
  BY <1>1, <1>2, PTL DEF StopSpec

\* During a sleep nothing is taken out of the pipe.
LEMMA PipeStays ==
    ASSUME TypeOK, [Next]_vars, wpc = "poll", wpc' = "poll", pipe # <<>>
    PROVE  pipe' # <<>>
<1>0. ThreadTypeOK /\ WaiterTypeOK
  BY DEF TypeOK
<1> USE <1>0, KindFacts
<1>1. ASSUME NEW t \in Threads, ofc_waitset_wake_impl(t) PROVE pipe' # <<>>
  BY <1>1, SignalPosts DEF ofc_waitset_wake_impl
<1>2. ASSUME NEW t \in Threads, AddPost(t) PROVE pipe' # <<>>
  BY <1>2, SignalPosts DEF AddPost, ThreadTypeOK
<1>3. ASSUME NEW t \in Threads, SetPost(t) PROVE pipe' # <<>>
  BY <1>3, SignalPosts DEF SetPost, ThreadTypeOK
<1>4. ASSUME NEW t \in Threads, NEW h \in Handles,
             EventSet(t, h) \/ EventTake(t, h) \/ ofc_waitq_enqueue(t, h)
                \/ ofc_waitset_add(t, h)
      PROVE  pipe' # <<>>
  BY <1>4 DEF EventSet, SetLock, RaiseFlag, EventTake, ofc_event_reset_impl, WaitLock,
              ofc_waitq_enqueue, ofc_waitset_add
<1>5. ASSUME NEW t \in Threads, ThreadStep(t), ~AddPost(t), ~SetPost(t) PROVE pipe' # <<>>
  BY <1>5 DEF ThreadStep, EventStep, InFlight, SetBroadcast, SetLookup, WaitRelock,
              DestroyHandle, EnqueuedSet, RaiseFlag, AddAssoc, AddTest
<1>6. ASSUME NEW h \in Handles, Remove(h) PROVE pipe' # <<>>
  BY <1>6 DEF Remove
<1>7. CASE WorldStep
  BY <1>7, WorldFrame DEF eventVars
<1>8. ~WaiterStep /\ ~PollTimeout /\ ~PollError
  BY DEF WaiterStep, PollTimeout, PollError, WaitCall, Purge, ScanDone, PollPipe, PollFd,
         PollEventRead, PollEventTest, ResetAuto, Return, ScanFlagged, ScanQueue, ScanFd,
         ScanTimer, ScanOther, At
<1>9. CASE UNCHANGED vars
  BY <1>9 DEF vars, eventVars
<1> QED
  BY <1>1, <1>2, <1>3, <1>4, <1>5, <1>6, <1>7, <1>8, <1>9 DEF Next, Outside, ThreadCall

\* The wake-up of ofc_thread_delete_impl reaches a scheduler asleep in poll, for
\* any number of threads and handles and any capacity of the pipe: the delete finds
\* the wait set, its write leaves the pipe readable, and nobody but the scheduler
\* reads it.
THEOREM WakeReachesSleepCorrect == StopSpec => WakeReachesSleep
<1>1. StopInv /\ [StopNext]_allVars
        => [(wpc = "poll" /\ wpc' = "poll" /\ (pipe # <<>> \/ (dpc' = "done" /\ dpc # "done")))
               => pipe' # <<>>]_allVars
  <2> SUFFICES ASSUME StopInv, [StopNext]_allVars, wpc = "poll", wpc' = "poll",
                      pipe # <<>> \/ (dpc' = "done" /\ dpc # "done")
               PROVE  pipe' # <<>>
    OBVIOUS
  <2>1. CASE DeleteWake
    BY <2>1, SignalPosts DEF DeleteWake, StopInv, SignalInv, TypeOK
  <2>2. CASE ~DeleteWake
    <3>1. ~(dpc' = "done" /\ dpc # "done")
      <4>1. wait_set
        BY DEF StopInv, StopTypeOK, WaitSetKnown
      <4> QED
        BY <2>2, <4>1 DEF StopNext, SchedulerStep, DeleterStep, Around, Waits, DeleteRaise,
           DeleteLookup, ofc_thread_set_waitset_impl, ofc_thread_is_deleting_impl, stopVars,
           allVars
    <3> QED
      BY <2>2, <3>1, StopNextIsNext, PipeStays DEF StopInv, SignalInv
  <2> QED
    BY <2>1, <2>2
<1> QED
  BY <1>1, StopCorrect, PTL DEF StopSpec, WakeReachesSleep

\* The wake-up of ofc_thread_delete_impl costs the other handles nothing: with a
\* deleter that writes into the same pipe, the scheduler still never sleeps on
\* work that it has looked for.
THEOREM StopLosesNoSignal == StopSpec => []NoLostSignal
<1>1. StopInv => NoLostSignal
  BY DEF StopInv, SignalInv, Posted, NoLostSignal, Testing
<1> QED
  BY <1>1, StopCorrect, PTL

\* The write of the null handle does not show in the atomic wait set either.
LEMMA DeleteWakeUnseen ==
    ASSUME DeleteWake
    PROVE  /\ UNCHANGED AtomicSet!vars
           /\ (TimerBound /\ TimerNotEarly /\ Listed) => (TimerBound /\ TimerNotEarly /\ Listed)'
<1>1. UNCHANGED <<signalled, hq, worldVars, waiterVars>>
  BY DEF DeleteWake
<1>2. UNCHANGED AtomicSet!vars
  BY <1>1 DEF AtomicSet!vars, Members, Working, CallState, Registered, HasWork, Raised,
              worldVars, waiterVars
<1>3. (TimerBound /\ TimerNotEarly /\ Listed) => (TimerBound /\ TimerNotEarly /\ Listed)'
  BY <1>1 DEF TimerBound, TimerNotEarly, Listed, Registered, worldVars, waiterVars
<1> QED
  BY <1>2, <1>3

\* The waits of a scheduler that is being deleted still take effect at one instant:
\* the wake-up of ofc_thread_delete_impl makes none of them answer a handle that
\* is not in the set or has no work.
THEOREM StopWaitsAreAtomic == StopSpec => ImplementsAtomicWaitSet
<1> DEFINE Inv == TimerBound /\ TimerNotEarly /\ Listed
<1>1. StopInit => AtomicSet!Init /\ Inv
  BY KindFacts DEF StopInit, Init, AtomicSet!Init, TimerBound, TimerNotEarly, Listed, Members,
                   Working, Registered, CallState
<1>2. StopInv /\ Inv /\ [StopNext]_allVars => Inv' /\ [AtomicSet!Next]_(AtomicSet!vars)
  <2> SUFFICES ASSUME StopInv, Inv, [StopNext]_allVars
               PROVE  Inv' /\ [AtomicSet!Next]_(AtomicSet!vars)
    OBVIOUS
  <2>1. CASE DeleteWake
    BY <2>1, DeleteWakeUnseen
  <2>2. CASE ~DeleteWake
    <3>1. [Next]_vars
      BY <2>2, StopNextIsNext
    <3>2. TypeOK /\ Control
      BY DEF StopInv, SignalInv
    <3>3. TimerBound' /\ TimerNotEarly'
      BY <3>1, <3>2, TimerStep DEF TimerInv
    <3> QED
      BY <3>1, <3>2, <3>3, ListedStep, AtomicSetStep
  <2> QED
    BY <2>1, <2>2
<1> QED
  BY <1>1, <1>2, StopCorrect, PTL DEF StopSpec, ImplementsAtomicWaitSet, AtomicSet!Spec
=============================================================================
