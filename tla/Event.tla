-------------------------------- MODULE Event --------------------------------
(***************************************************************************)
(* The event objects of src/event_android.c: a flag, a pthread mutex and a *)
(* pthread condition variable behind a handle.  Threads create, set,       *)
(* reset, wait for and destroy events; setting an event that belongs to a  *)
(* wait set also posts its handle on the wait set's pipe                   *)
(* (ofc_waitset_signal_impl of src/waitset_android.c).                     *)
(*                                                                         *)
(* A call is split where another thread can see the difference: at the     *)
(* acquisition of the event's mutex, at the broadcast, at the look-up of   *)
(* the wait set, at the write to the pipe and at the sleep in              *)
(* pthread_cond_wait.  A call that finds the mutex free and only touches   *)
(* the flag before it releases it again is one step.                       *)
(***************************************************************************)
EXTENDS Naturals, Sequences, FiniteSets

CONSTANTS
    Threads,        \* threads that call into the event API
    Events,         \* event handles
    EventType,      \* eventType of each event, "AUTO" or "MANUAL"
    PipeCap,        \* handles that fit in the wait set's non-blocking pipe
    MaxCalls,       \* bound: calls each thread makes
    Spurious,       \* may pthread_cond_wait return without a broadcast?
    NoThread,       \* owner of a free mutex
    NoHandle        \* OFC_HANDLE_NULL

ASSUME EventAssumption ==
    /\ EventType \in [Events -> {"AUTO", "MANUAL"}]
    /\ PipeCap \in Nat \ {0}
    /\ MaxCalls \in Nat
    /\ Spurious \in BOOLEAN
    /\ NoThread \notin Threads
    /\ NoHandle \notin Events

VARIABLES
    life,       \* "none", "live", "freed" (memory gone, handle not), "destroyed"
    signalled,  \* ANDROID_EVENT.signalled
    mutex,      \* owner of ANDROID_EVENT.pthread_mutex
    inSet,      \* is the event associated with the wait set (ofc_handle_set_app)?
    pipe,       \* handles written to the wait set's pipe and not yet read
    pc,         \* where each thread is in the call it is making
    ev,         \* the hEvent argument of that call, NoHandle outside of one
    calls       \* calls each thread may still make

eventVars == <<life, signalled, mutex, inSet, pipe, pc, ev, calls>>

EventPC == {"idle", "broadcast", "lookup", "post", "blocked", "relock", "hdestroy"}

\* Control points at which a thread owns the mutex of its event.
Holding == {"broadcast", "lookup", "post"}

(***************************************************************************)
(* The handle layer, which is not part of this repository.  ofc_handle_lock *)
(* takes a reference, not a mutex: ofc_event_wait_impl keeps the handle    *)
(* locked while it sleeps and ofc_event_set_impl must lock the same handle *)
(* to wake it.  It answers OFC_NULL once the handle has been destroyed.    *)
(***************************************************************************)
ofc_handle_lock(e) == life[e] \in {"live", "freed"}

\* A thread makes a call, and is in it until it leaves.
Call(t) ==
    /\ pc[t] = "idle"
    /\ calls[t] > 0
    /\ calls' = [calls EXCEPT ![t] = @ - 1]

Goto(t, label) == pc' = [pc EXCEPT ![t] = label]
Enter(t, e, label) == Goto(t, label) /\ ev' = [ev EXCEPT ![t] = e]
Leave(t) == Goto(t, "idle") /\ ev' = [ev EXCEPT ![t] = NoHandle]

\* The users' side of the contract of ofc_event_destroy_impl, which frees the
\* event without looking at who else holds a reference to it.
InCall(e) == {u \in Threads : ev[u] = e}
NotBeingDestroyed(e) == \A u \in InCall(e) : pc[u] # "hdestroy"

-----------------------------------------------------------------------------
\* Mutant of ofc_event_create_impl: the flag is left as malloc found it, and
\* NoHandle stands for every word that is neither OFC_TRUE nor OFC_FALSE.
CreateUninitialized(t, e) ==
    /\ Call(t)
    /\ life[e] = "none"
    /\ \/ /\ life' = [life EXCEPT ![e] = "live"]
          /\ \E word \in BOOLEAN \cup {NoHandle} :
                signalled' = [signalled EXCEPT ![e] = word]
       \/ UNCHANGED <<life, signalled>>
    /\ UNCHANGED <<mutex, inSet, pipe, pc, ev>>

\* ofc_event_create_impl; a failed ofc_malloc returns the null handle.
ofc_event_create_impl(t, e) ==
    /\ Call(t)
    /\ life[e] = "none"
    /\ \/ /\ life' = [life EXCEPT ![e] = "live"]
          /\ signalled' = [signalled EXCEPT ![e] = FALSE]
       \/ UNCHANGED <<life, signalled>>
    /\ UNCHANGED <<mutex, inSet, pipe, pc, ev>>

\* Mutant of ofc_waitset_signal_impl: no write at all.
SignalNothing(tok) == UNCHANGED pipe

\* The write of ofc_waitset_signal_impl: it never blocks, and what does not fit
\* in the pipe is dropped (the result of write is not looked at).
ofc_waitset_signal_impl(tok) ==
    pipe' = IF Len(pipe) < PipeCap THEN Append(pipe, tok) ELSE pipe

\* ofc_event_set_impl: take the mutex and raise the flag ...
RaiseFlag(t, e) ==
    /\ mutex[e] = NoThread
    /\ mutex' = [mutex EXCEPT ![e] = t]
    /\ signalled' = [signalled EXCEPT ![e] = TRUE]
    /\ Enter(t, e, "broadcast")
    /\ UNCHANGED <<life, inSet, pipe>>

SetLock(t, e) ==
    /\ Call(t)
    /\ ofc_handle_lock(e) /\ NotBeingDestroyed(e)
    /\ RaiseFlag(t, e)

\* Mutant of SetBroadcast: pthread_cond_signal in the place of the broadcast.
SignalOne(t) ==
    /\ pc[t] = "broadcast"
    /\ LET asleep == {u \in Threads : pc[u] = "blocked" /\ ev[u] = ev[t]}
       IN  IF asleep = {} THEN Goto(t, "lookup")
           ELSE \E u \in asleep : pc' = [pc EXCEPT ![t] = "lookup", ![u] = "relock"]
    /\ UNCHANGED <<life, signalled, mutex, inSet, pipe, ev, calls>>

\* ... wake every thread that sleeps on the condition ...
SetBroadcast(t) ==
    /\ pc[t] = "broadcast"
    /\ pc' = [u \in Threads |->
                IF u = t THEN "lookup"
                ELSE IF pc[u] = "blocked" /\ ev[u] = ev[t] THEN "relock" ELSE pc[u]]
    /\ UNCHANGED <<life, signalled, mutex, inSet, pipe, ev, calls>>

\* ... look up the wait set (ofc_handle_get_wait_set); without one, unlock ...
SetLookup(t) ==
    /\ pc[t] = "lookup"
    /\ \/ /\ inSet[ev[t]]
          /\ Goto(t, "post")
          /\ UNCHANGED <<mutex, ev>>
       \/ /\ ~inSet[ev[t]]
          /\ Leave(t)
          /\ mutex' = [mutex EXCEPT ![ev[t]] = NoThread]
    /\ UNCHANGED <<life, signalled, inSet, pipe, calls>>

\* ... or post the event on the wait set's pipe and unlock.
SetPost(t) ==
    /\ pc[t] = "post"
    /\ ofc_waitset_signal_impl(ev[t])
    /\ mutex' = [mutex EXCEPT ![ev[t]] = NoThread]
    /\ Leave(t)
    /\ UNCHANGED <<life, signalled, inSet, calls>>

\* ofc_event_reset_impl
ofc_event_reset_impl(t, e) ==
    /\ Call(t)
    /\ ofc_handle_lock(e) /\ NotBeingDestroyed(e)
    /\ mutex[e] = NoThread
    /\ signalled' = [signalled EXCEPT ![e] = FALSE]
    /\ UNCHANGED <<life, mutex, inSet, pipe, pc, ev>>

\* What a waiter does once it owns the mutex and is past the `if`.
ClearIfAuto(e) ==
    signalled' = [signalled EXCEPT ![e] = @ /\ EventType[e] # "AUTO"]

\* ofc_event_wait_impl: return at once if the flag is up, else sleep (the mutex
\* is released in the same step, as pthread_cond_wait promises).
WaitLock(t, e) ==
    /\ Call(t)
    /\ ofc_handle_lock(e) /\ NotBeingDestroyed(e)
    /\ mutex[e] = NoThread
    /\ \/ /\ signalled[e]
          /\ ClearIfAuto(e)
          /\ UNCHANGED <<pc, ev>>
       \/ /\ ~signalled[e]
          /\ Enter(t, e, "blocked")
          /\ UNCHANGED signalled
    /\ UNCHANGED <<life, mutex, inSet, pipe>>

\* pthread_cond_wait may return although nobody called broadcast.
SpuriousWake(t) ==
    /\ Spurious
    /\ pc[t] = "blocked"
    /\ Goto(t, "relock")
    /\ UNCHANGED <<life, signalled, mutex, inSet, pipe, ev, calls>>

\* Mutant of WaitRelock: the flag is tested again, and a waiter whose flag
\* another thread has taken or reset goes back to sleep.
WaitAgain(t) ==
    /\ pc[t] = "relock"
    /\ mutex[ev[t]] = NoThread
    /\ \/ /\ signalled[ev[t]]
          /\ ClearIfAuto(ev[t])
          /\ Leave(t)
       \/ /\ ~signalled[ev[t]]
          /\ Goto(t, "blocked")
          /\ UNCHANGED <<signalled, ev>>
    /\ UNCHANGED <<life, mutex, inSet, pipe, calls>>

\* A woken waiter owns the mutex again.  The flag was tested with `if`, not
\* `while`: it is not looked at again.
WaitRelock(t) ==
    /\ pc[t] = "relock"
    /\ mutex[ev[t]] = NoThread
    /\ ClearIfAuto(ev[t])
    /\ Leave(t)
    /\ UNCHANGED <<life, mutex, inSet, pipe, calls>>

\* ofc_event_destroy_impl: the memory goes first, then the handle.
DestroyFree(t, e) ==
    /\ Call(t)
    /\ life[e] = "live"
    /\ InCall(e) = {}
    /\ life' = [life EXCEPT ![e] = "freed"]
    /\ Enter(t, e, "hdestroy")
    /\ UNCHANGED <<signalled, mutex, inSet, pipe>>

DestroyHandle(t) ==
    /\ pc[t] = "hdestroy"
    /\ life' = [life EXCEPT ![ev[t]] = "destroyed"]
    /\ Leave(t)
    /\ UNCHANGED <<signalled, mutex, inSet, pipe, calls>>

\* Every entry point returns at once when ofc_handle_lock answers OFC_NULL.
NullHandle(t, e) ==
    /\ Call(t)
    /\ life[e] # "none"
    /\ ~ofc_handle_lock(e)
    /\ UNCHANGED <<life, signalled, mutex, inSet, pipe, pc, ev>>

\* ofc_event_test_impl and ofc_event_get_type_impl: the answers they give, for
\* an event whose mutex is free; a destroyed event tests as signalled.
ofc_event_test_impl(e) == ofc_handle_lock(e) => signalled[e]
ofc_event_get_type_impl(e) == IF ofc_handle_lock(e) THEN EventType[e] ELSE "AUTO"

-----------------------------------------------------------------------------
\* The steps of a call that is under way.
InFlight(t) ==
    SetBroadcast(t) \/ SetLookup(t) \/ SetPost(t) \/ WaitRelock(t) \/ DestroyHandle(t)

EventCall(t, e) ==
    SetLock(t, e) \/ ofc_event_reset_impl(t, e) \/ WaitLock(t, e)

\* Nothing is signalled, no call is under way.
QuietInit ==
    /\ signalled = [e \in Events |-> FALSE]
    /\ mutex = [e \in Events |-> NoThread]
    /\ pipe = <<>>
    /\ pc = [t \in Threads |-> "idle"]
    /\ ev = [t \in Threads |-> NoHandle]
    /\ calls = [t \in Threads |-> MaxCalls]

EventInit ==
    /\ QuietInit
    /\ life = [e \in Events |-> "none"]
    /\ inSet \in [Events -> BOOLEAN]

EventNext ==
    \E t \in Threads :
        \/ InFlight(t)
        \/ SpuriousWake(t)
        \/ \E e \in Events :
              \/ EventCall(t, e)
              \/ ofc_event_create_impl(t, e)
              \/ DestroyFree(t, e)
              \/ NullHandle(t, e)

\* A call under way goes on: nothing but the mutex and the condition variable
\* stops it.  No thread is obliged to make a call.
EventFairness == \A t \in Threads : WF_eventVars(InFlight(t))

EventSpec == EventInit /\ [][EventNext]_eventVars /\ EventFairness

-----------------------------------------------------------------------------
\* The type invariant, with the limit of the pipe: ofc_waitset_signal_impl never
\* puts more in it than fits, and a thread has an event in hand while in a call.
EventTypeOK ==
    /\ life \in [Events -> {"none", "live", "freed", "destroyed"}]
    /\ signalled \in [Events -> BOOLEAN]
    /\ mutex \in [Events -> Threads \cup {NoThread}]
    /\ inSet \in [Events -> BOOLEAN]
    /\ pipe \in Seq(Events \cup {NoHandle})
    /\ Len(pipe) <= PipeCap
    /\ pc \in [Threads -> EventPC]
    /\ ev \in [Threads -> Events \cup {NoHandle}]
    /\ \A t \in Threads : pc[t] = "idle" <=> ev[t] = NoHandle
    /\ calls \in [Threads -> Nat]

\* No lost wakeup in ofc_event_wait_impl: a thread sleeps on an event whose
\* flag is up only for as long as the setter, still inside the critical
\* section of ofc_event_set_impl, has its broadcast ahead of it.
NoLostWakeup ==
    \A t \in Threads :
        (pc[t] = "blocked" /\ signalled[ev[t]])
            => \E u \in Threads : pc[u] = "broadcast" /\ ev[u] = ev[t]

\* Every thread asleep in ofc_event_wait_impl when ofc_event_set_impl
\* broadcasts returns to its caller, for AUTO and MANUAL events alike and
\* whatever other threads do with the flag in the meantime.
BroadcastReleases ==
    \A t \in Threads : \A u \in Threads \ {t} :
        (pc[t] = "blocked" /\ pc[u] = "broadcast" /\ ev[u] = ev[t]) ~> pc[t] = "idle"

\* Where a thread stands in its wait, seen from outside: it is let go at the
\* moment the flag is raised, although the setter has yet to broadcast.
Announced(t) == \E u \in Threads : pc[u] = "broadcast" /\ ev[u] = ev[t]
WaitState(t) ==
    CASE pc[t] = "relock" -> "released"
      [] pc[t] = "blocked" -> IF Announced(t) THEN "released" ELSE "waiting"
      [] OTHER -> "out"
WaitsOn(t) == IF WaitState(t) = "out" THEN NoHandle ELSE ev[t]

Atomic == INSTANCE AtomicEvent WITH
    flag <- signalled,
    state <- [t \in Threads |-> WaitState(t)],
    on <- [t \in Threads |-> WaitsOn(t)]

\* The calls of event_android.c, split at their mutexes and condition variables,
\* behave as calls that take effect at one instant: a set lets go of exactly the
\* threads that wait when the flag goes up, and each of them gets out.
ImplementsAtomicEvent == Atomic!Spec
=============================================================================
