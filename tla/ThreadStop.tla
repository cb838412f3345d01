----------------------------- MODULE ThreadStop -----------------------------
(***************************************************************************)
(* Stopping a scheduler thread: ofc_thread_set_waitset_impl,               *)
(* ofc_thread_delete_impl and ofc_thread_is_deleting_impl of               *)
(* src/thread_android.c, composed with the wait set the thread sleeps on.  *)
(* The scheduler thread tells the thread object about its wait set, then   *)
(* alternates between asking whether it is being deleted and waiting; who  *)
(* deletes it raises a flag and then wakes the wait set.                   *)
(***************************************************************************)
EXTENDS WaitSet

VARIABLES
    deleteMe,   \* ANDROID_THREAD.deleteMe
    wait_set,   \* is ANDROID_THREAD.wait_set known?
    spc,        \* the scheduler's loop: "start", "check", "wait" or "stopped"
    dpc         \* the deleter: "idle", "raised", "wake" or "done"

stopVars == <<deleteMe, wait_set, spc, dpc>>
allVars == <<vars, stopVars>>

-----------------------------------------------------------------------------
\* Mutant of ofc_thread_set_waitset_impl: the wait set is not stored.
SetWaitSetForgets ==
    /\ spc = "start"
    /\ spc' = "check"
    /\ UNCHANGED <<vars, deleteMe, wait_set, dpc>>

\* The scheduler's first act.
ofc_thread_set_waitset_impl ==
    /\ spc = "start"
    /\ wait_set' = TRUE
    /\ spc' = "check"
    /\ UNCHANGED <<vars, deleteMe, dpc>>

\* Mutant of ofc_thread_is_deleting_impl: the answer is always OFC_FALSE.
NeverDeleting ==
    /\ spc = "check"
    /\ spc' = "wait"
    /\ UNCHANGED <<vars, deleteMe, wait_set, dpc>>

\* The head of the scheduler's loop: deleteMe is read, without a lock.
ofc_thread_is_deleting_impl ==
    /\ spc = "check"
    /\ spc' = IF deleteMe THEN "stopped" ELSE "wait"
    /\ UNCHANGED <<vars, deleteMe, wait_set, dpc>>

\* The scheduler waits, once, and goes back to the head of its loop.
Waits(step) ==
    /\ spc = "wait"
    /\ step
    /\ spc' = IF wpc' = "idle" THEN "check" ELSE "wait"
    /\ UNCHANGED <<deleteMe, wait_set, dpc>>

\* ofc_thread_delete_impl raises deleteMe ...
DeleteRaise ==
    /\ dpc = "idle"
    /\ deleteMe' = TRUE
    /\ dpc' = "raised"
    /\ UNCHANGED <<vars, wait_set, spc>>

\* Mutant of DeleteLookup: nobody is woken.
DeleteUnseen ==
    /\ dpc = "raised"
    /\ dpc' = "done"
    /\ UNCHANGED <<vars, deleteMe, wait_set, spc>>

\* ... looks for the wait set ...
DeleteLookup ==
    /\ dpc = "raised"
    /\ dpc' = IF wait_set THEN "wake" ELSE "done"
    /\ UNCHANGED <<vars, deleteMe, wait_set, spc>>

\* ... and wakes it, as ofc_waitset_wake_impl does.
DeleteWake ==
    /\ dpc = "wake"
    /\ dpc' = "done"
    /\ ofc_waitset_signal_impl(NoHandle)
    /\ UNCHANGED <<life, signalled, mutex, inSet, pc, ev, calls,
                   hq, revents, credit, worldVars, waiterVars,
                   deleteMe, wait_set, spc>>

\* Everything else that happens around the thread.
Around == ((\E t \in Threads : ThreadStep(t)) \/ Outside) /\ UNCHANGED stopVars

StopInit ==
    /\ Init
    /\ deleteMe = FALSE
    /\ wait_set = FALSE
    /\ spc = "start"
    /\ dpc = "idle"

SchedulerStep ==
    ofc_thread_set_waitset_impl \/ ofc_thread_is_deleting_impl \/ Waits(WaiterStep)

DeleterStep == DeleteLookup \/ DeleteWake

StopNext ==
    \/ SchedulerStep
    \/ Waits(PollTimeout) \/ Waits(PollError)
    \/ DeleteRaise \/ DeleterStep
    \/ Around

\* The scheduler, the deleter's call and the calls of other threads go on.
\* Nothing is assumed of the timeout of poll ...
StopSpec ==
    /\ StopInit
    /\ [][StopNext]_allVars
    /\ WF_allVars(SchedulerStep)
    /\ WF_allVars(DeleterStep)
    /\ \A t \in Threads : WF_allVars(ThreadStep(t) /\ UNCHANGED stopVars)

\* ... unless a property says so: that the clock runs and poll returns when its
\* time, which is finite, is up.
SleepEnds ==
    /\ WF_allVars(SchedulerStep \/ Waits(PollTimeout))
    /\ WF_allVars(Tick /\ UNCHANGED stopVars)

-----------------------------------------------------------------------------
\* The type invariant; the scheduler is in a wait only in that part of its loop.
StopTypeOK ==
    /\ deleteMe \in BOOLEAN
    /\ wait_set \in BOOLEAN
    /\ spc \in {"start", "check", "wait", "stopped"}
    /\ dpc \in {"idle", "raised", "wake", "done"}
    /\ wpc # "idle" => spc = "wait"

\* The wake-up of ofc_thread_delete_impl reaches a scheduler that is asleep in
\* poll: a delete that returns during the sleep leaves the pipe readable, because
\* the wait set has been announced before the first sleep, and once readable the
\* pipe stays so until the sleep is over, whatever other threads post and however
\* full it is.
WakeReachesSleep ==
    [][(wpc = "poll" /\ wpc' = "poll" /\ (pipe # <<>> \/ (dpc' = "done" /\ dpc # "done")))
           => pipe' # <<>>]_allVars

\* ofc_thread_delete_impl stops the scheduler thread, wherever in its loop, in
\* its wait or before its first look at deleteMe the call finds it, provided that
\* a sleep in poll ends when its time is up.
DeleteStops == SleepEnds => (deleteMe ~> spc = "stopped")

\* A scheduler that is asleep in poll when ofc_thread_delete_impl is called is
\* stopped by the wake-up: it is not left to the timeout of its sleep, whatever
\* else is in the pipe.
DeleteEndsSleep ==
    (wpc = "poll" /\ dpc \in {"raised", "wake"}) ~> spc = "stopped"

\* waitset_android.c:223-226 says of what is purged from the pipe that "We'll
\* get these before we sleep the next time": once ofc_thread_delete_impl has
\* returned, the scheduler does not go to sleep on an empty pipe.
DeleteSeenBeforeSleep == (dpc = "done" /\ wait_set /\ wpc = "poll") => pipe # <<>>
=============================================================================
