----------------------------- MODULE AtomicEvent -----------------------------
(***************************************************************************)
(* What the event API of src/event_android.c promises its callers: each    *)
(* call takes effect at one instant.  A set raises the flag and lets go    *)
(* of every thread that waits at that instant, and no other; a wait on a   *)
(* raised flag does not sleep; whoever leaves a wait on an AUTO event      *)
(* takes the flag down.  There are no mutexes, no condition variables and  *)
(* no calls under way here: module Event shows that they cannot be seen.   *)
(***************************************************************************)
CONSTANTS Threads, Events, EventType, Spurious, NoHandle

VARIABLES
    flag,   \* is each event signalled?
    state,  \* of each thread: "out", "waiting" or "released", but not gone yet
    on      \* the event a thread waits for, NoHandle when it is "out"

vars == <<flag, state, on>>

Init ==
    /\ flag = [e \in Events |-> FALSE]
    /\ state = [t \in Threads |-> "out"]
    /\ on = [t \in Threads |-> NoHandle]

\* The flag that a thread leaves behind when it is through with a wait.
Taken(e) == [flag EXCEPT ![e] = @ /\ EventType[e] # "AUTO"]

Set(e) ==
    /\ flag' = [flag EXCEPT ![e] = TRUE]
    /\ state' = [t \in Threads |->
                   IF state[t] = "waiting" /\ on[t] = e THEN "released" ELSE state[t]]
    /\ UNCHANGED on

Reset(e) ==
    /\ flag' = [flag EXCEPT ![e] = FALSE]
    /\ UNCHANGED <<state, on>>

Wait(t, e) ==
    /\ state[t] = "out"
    /\ \/ /\ flag[e]
          /\ flag' = Taken(e)
          /\ UNCHANGED <<state, on>>
       \/ /\ ~flag[e]
          /\ state' = [state EXCEPT ![t] = "waiting"]
          /\ on' = [on EXCEPT ![t] = e]
          /\ UNCHANGED flag

\* A wait may end by itself.
Release(t) ==
    /\ Spurious
    /\ state[t] = "waiting"
    /\ state' = [state EXCEPT ![t] = "released"]
    /\ UNCHANGED <<flag, on>>

Return(t) ==
    /\ state[t] = "released"
    /\ flag' = Taken(on[t])
    /\ state' = [state EXCEPT ![t] = "out"]
    /\ on' = [on EXCEPT ![t] = NoHandle]

Next ==
    \/ \E e \in Events : Set(e) \/ Reset(e)
    \/ \E t \in Threads : Release(t) \/ Return(t) \/ \E e \in Events : Wait(t, e)

SafeSpec == Init /\ [][Next]_vars

\* A thread that has been let go gets out.
Spec == SafeSpec /\ \A t \in Threads : WF_vars(Return(t))
=============================================================================
