----------------------------- MODULE EventProofs -----------------------------
(***************************************************************************)
(* Theorems about module Event, for any number of threads and events, any  *)
(* capacity of the pipe and any number of calls.                           *)
(***************************************************************************)
EXTENDS Event, TLAPS

\* The constants, the initial values and the type of each variable fit together.
LEMMA EventInitType == EventInit => EventTypeOK
  BY EventAssumption DEF EventInit, QuietInit, EventTypeOK, EventPC

\* Every step of every call of src/event_android.c keeps the variables in their
\* types; in particular a write to the pipe never exceeds its capacity.
LEMMA EventStepType == EventTypeOK /\ [EventNext]_eventVars => EventTypeOK'
<1> SUFFICES ASSUME EventTypeOK, [EventNext]_eventVars
             PROVE  EventTypeOK'
  OBVIOUS
<1> USE EventAssumption DEF EventTypeOK, EventPC
<1>1. ASSUME NEW t \in Threads, SetBroadcast(t) PROVE EventTypeOK'
  BY <1>1 DEF SetBroadcast
<1>2. ASSUME NEW t \in Threads, SetLookup(t) PROVE EventTypeOK'
  BY <1>2 DEF SetLookup, Goto, Leave
<1>3. ASSUME NEW t \in Threads, SetPost(t) PROVE EventTypeOK'
  BY <1>3 DEF SetPost, Goto, Leave, ofc_waitset_signal_impl
<1>4. ASSUME NEW t \in Threads, WaitRelock(t) PROVE EventTypeOK'
  BY <1>4 DEF WaitRelock, Goto, Leave, ClearIfAuto
<1>5. ASSUME NEW t \in Threads, DestroyHandle(t) PROVE EventTypeOK'
  BY <1>5 DEF DestroyHandle, Goto, Leave
<1>6. ASSUME NEW t \in Threads, SpuriousWake(t) PROVE EventTypeOK'
  BY <1>6 DEF SpuriousWake, Goto
<1>7. ASSUME NEW t \in Threads, NEW e \in Events, SetLock(t, e) PROVE EventTypeOK'
  BY <1>7 DEF SetLock, RaiseFlag, Call, Goto, Enter
<1>8. ASSUME NEW t \in Threads, NEW e \in Events, ofc_event_reset_impl(t, e) PROVE EventTypeOK'
  BY <1>8 DEF ofc_event_reset_impl, Call
<1>9. ASSUME NEW t \in Threads, NEW e \in Events, WaitLock(t, e) PROVE EventTypeOK'
  <2>1. CASE ClearIfAuto(e) /\ UNCHANGED <<pc, ev>>
    BY <1>9, <2>1 DEF WaitLock, Call, ClearIfAuto
  <2>2. CASE Enter(t, e, "blocked") /\ UNCHANGED signalled
    BY <1>9, <2>2 DEF WaitLock, Call, Goto, Enter
  <2> QED
    BY <1>9, <2>1, <2>2 DEF WaitLock
<1>10. ASSUME NEW t \in Threads, NEW e \in Events, ofc_event_create_impl(t, e) PROVE EventTypeOK'
  <2>1. CASE /\ life' = [life EXCEPT ![e] = "live"]
             /\ signalled' = [signalled EXCEPT ![e] = FALSE]
    BY <1>10, <2>1 DEF ofc_event_create_impl, Call
  <2>2. CASE UNCHANGED <<life, signalled>>
    BY <1>10, <2>2 DEF ofc_event_create_impl, Call
  <2> QED
    BY <1>10, <2>1, <2>2 DEF ofc_event_create_impl
<1>11. ASSUME NEW t \in Threads, NEW e \in Events, DestroyFree(t, e) PROVE EventTypeOK'
  BY <1>11 DEF DestroyFree, Call, Goto, Enter
<1>12. ASSUME NEW t \in Threads, NEW e \in Events, NullHandle(t, e) PROVE EventTypeOK'
  BY <1>12 DEF NullHandle, Call
<1>13. CASE UNCHANGED eventVars
  BY <1>13 DEF eventVars
<1> QED
  BY <1>1, <1>2, <1>3, <1>4, <1>5, <1>6, <1>7, <1>8, <1>9, <1>10, <1>11, <1>12, <1>13
     DEF EventNext, InFlight, EventCall

\* The event module's variables keep their types in every behaviour.
THEOREM EventTypeCorrect == EventSpec => []EventTypeOK
  BY EventInitType, EventStepType, PTL DEF EventSpec

\* What a step must leave alone for no wakeup to get lost: it makes no sleeper
\* and raises no flag under one, and it drops no broadcast that is ahead.
LEMMA WakeupKept ==
    ASSUME NoLostWakeup,
           \A u \in Threads : pc'[u] = "blocked" =>
              pc[u] = "blocked" /\ ev'[u] = ev[u] /\ (signalled'[ev[u]] => signalled[ev[u]]),
           \A v \in Threads : pc[v] = "broadcast" => pc'[v] = "broadcast" /\ ev'[v] = ev[v]
    PROVE  NoLostWakeup'
  BY DEF NoLostWakeup

\* A step does not put a thread to sleep on a raised flag, nor raise a flag over
\* a sleeper without a broadcast ahead.  The setter of ofc_event_set_impl holds
\* the mutex from the flag to the broadcast, and the broadcast wakes them all.
LEMMA WakeupStep ==
    EventTypeOK /\ NoLostWakeup /\ [EventNext]_eventVars => NoLostWakeup'
<1> SUFFICES ASSUME EventTypeOK, NoLostWakeup, [EventNext]_eventVars
             PROVE  NoLostWakeup'
  OBVIOUS
<1> USE DEF NoLostWakeup
<1>1. ASSUME NEW t \in Threads, SetBroadcast(t) PROVE NoLostWakeup'
  <2> SUFFICES ASSUME NEW u \in Threads, pc'[u] = "blocked", signalled'[ev'[u]]
               PROVE  \E v \in Threads : pc'[v] = "broadcast" /\ ev'[v] = ev'[u]
    OBVIOUS
  <2>1. pc[u] = "blocked" /\ ev[u] # ev[t] /\ ev'[u] = ev[u] /\ signalled[ev[u]]
    BY <1>1 DEF EventTypeOK, SetBroadcast
  <2>2. PICK v \in Threads : pc[v] = "broadcast" /\ ev[v] = ev[u]
    BY <2>1
  <2> QED
    BY <1>1, <2>1, <2>2 DEF EventTypeOK, SetBroadcast
<1>2. ASSUME NEW t \in Threads, SetLookup(t) PROVE NoLostWakeup'
  <2>1. \A u \in Threads : pc'[u] = "blocked" =>
           pc[u] = "blocked" /\ ev'[u] = ev[u] /\ (signalled'[ev[u]] => signalled[ev[u]])
    BY <1>2 DEF EventTypeOK, SetLookup, Goto, Leave
  <2>2. \A v \in Threads : pc[v] = "broadcast" => pc'[v] = "broadcast" /\ ev'[v] = ev[v]
    BY <1>2 DEF EventTypeOK, SetLookup, Goto, Leave
  <2> QED
    BY <2>1, <2>2, WakeupKept
<1>3. ASSUME NEW t \in Threads, SetPost(t) PROVE NoLostWakeup'
  BY <1>3 DEF EventTypeOK, SetPost, Goto, Leave, ofc_waitset_signal_impl
<1>4. ASSUME NEW t \in Threads, WaitRelock(t) PROVE NoLostWakeup'
  <2>1. \A u \in Threads : pc'[u] = "blocked" =>
           pc[u] = "blocked" /\ ev'[u] = ev[u] /\ (signalled'[ev[u]] => signalled[ev[u]])
    BY <1>4 DEF EventTypeOK, WaitRelock, Goto, Leave, ClearIfAuto
  <2>2. \A v \in Threads : pc[v] = "broadcast" => pc'[v] = "broadcast" /\ ev'[v] = ev[v]
    BY <1>4 DEF EventTypeOK, WaitRelock, Goto, Leave, ClearIfAuto
  <2> QED
    BY <2>1, <2>2, WakeupKept
<1>5. ASSUME NEW t \in Threads, DestroyHandle(t) PROVE NoLostWakeup'
  <2>1. \A u \in Threads : pc'[u] = "blocked" =>
           pc[u] = "blocked" /\ ev'[u] = ev[u] /\ (signalled'[ev[u]] => signalled[ev[u]])
    BY <1>5 DEF EventTypeOK, DestroyHandle, Goto, Leave
  <2>2. \A v \in Threads : pc[v] = "broadcast" => pc'[v] = "broadcast" /\ ev'[v] = ev[v]
    BY <1>5 DEF EventTypeOK, DestroyHandle, Goto, Leave
  <2> QED
    BY <2>1, <2>2, WakeupKept
<1>6. ASSUME NEW t \in Threads, SpuriousWake(t) PROVE NoLostWakeup'
  BY <1>6 DEF EventTypeOK, SpuriousWake, Goto
<1>7. ASSUME NEW t \in Threads, NEW e \in Events, SetLock(t, e) PROVE NoLostWakeup'
  BY <1>7 DEF EventTypeOK, SetLock, RaiseFlag, Call, Goto, Enter
<1>8. ASSUME NEW t \in Threads, NEW e \in Events, ofc_event_reset_impl(t, e) PROVE NoLostWakeup'
  BY <1>8 DEF EventTypeOK, ofc_event_reset_impl, Call
<1>9. ASSUME NEW t \in Threads, NEW e \in Events, WaitLock(t, e) PROVE NoLostWakeup'
  <2>1. CASE ClearIfAuto(e) /\ UNCHANGED <<pc, ev>>
    BY <1>9, <2>1, WakeupKept DEF EventTypeOK, ClearIfAuto
  <2>2. CASE ~signalled[e] /\ Enter(t, e, "blocked") /\ UNCHANGED signalled
    BY <1>9, <2>2 DEF EventTypeOK, WaitLock, Call, Goto, Enter
  <2> QED
    BY <1>9, <2>1, <2>2 DEF WaitLock
<1>10. ASSUME NEW t \in Threads, NEW e \in Events, ofc_event_create_impl(t, e) PROVE NoLostWakeup'
  BY <1>10 DEF EventTypeOK, ofc_event_create_impl, Call
<1>11. ASSUME NEW t \in Threads, NEW e \in Events, DestroyFree(t, e) PROVE NoLostWakeup'
  BY <1>11 DEF EventTypeOK, DestroyFree, Call, Goto, Enter
<1>12. ASSUME NEW t \in Threads, NEW e \in Events, NullHandle(t, e) PROVE NoLostWakeup'
  BY <1>12 DEF EventTypeOK, NullHandle, Call
<1>13. CASE UNCHANGED eventVars
  BY <1>13 DEF eventVars
<1> QED
  BY <1>1, <1>2, <1>3, <1>4, <1>5, <1>6, <1>7, <1>8, <1>9, <1>10, <1>11, <1>12, <1>13
     DEF EventNext, InFlight, EventCall

\* No thread sleeps in ofc_event_wait_impl on a raised flag, except while the
\* setter that raised it has its broadcast ahead.
THEOREM NoLostWakeupCorrect == EventSpec => []NoLostWakeup
<1>1. EventInit => NoLostWakeup
  BY DEF EventInit, QuietInit, NoLostWakeup
<1> QED
  BY <1>1, EventTypeCorrect, WakeupStep, PTL DEF EventSpec

\* A thread between the flag and the unlock of ofc_event_set_impl owns the mutex.
HoldersOwn == \A t \in Threads : pc[t] \in Holding => mutex[ev[t]] = t

LEMMA HoldersOwnStep ==
    EventTypeOK /\ HoldersOwn /\ [EventNext]_eventVars => HoldersOwn'
<1> SUFFICES ASSUME EventTypeOK, HoldersOwn, [EventNext]_eventVars
             PROVE  HoldersOwn'
  OBVIOUS
<1> USE EventAssumption DEF HoldersOwn, Holding
<1>1. ASSUME NEW t \in Threads, SetBroadcast(t) PROVE HoldersOwn'
  BY <1>1 DEF EventTypeOK, SetBroadcast
<1>2. ASSUME NEW t \in Threads, SetLookup(t) PROVE HoldersOwn'
  BY <1>2 DEF EventTypeOK, SetLookup, Goto, Leave
<1>3. ASSUME NEW t \in Threads, SetPost(t) PROVE HoldersOwn'
  BY <1>3 DEF EventTypeOK, SetPost, Goto, Leave
<1>4. ASSUME NEW t \in Threads, WaitRelock(t) PROVE HoldersOwn'
  BY <1>4 DEF EventTypeOK, WaitRelock, Goto, Leave
<1>5. ASSUME NEW t \in Threads, DestroyHandle(t) PROVE HoldersOwn'
  BY <1>5 DEF EventTypeOK, DestroyHandle, Goto, Leave
<1>6. ASSUME NEW t \in Threads, SpuriousWake(t) PROVE HoldersOwn'
  BY <1>6 DEF EventTypeOK, SpuriousWake, Goto
<1>7. ASSUME NEW t \in Threads, NEW e \in Events, SetLock(t, e) PROVE HoldersOwn'
  BY <1>7 DEF EventTypeOK, SetLock, RaiseFlag, Call, Goto, Enter
<1>8. ASSUME NEW t \in Threads, NEW e \in Events, ofc_event_reset_impl(t, e) PROVE HoldersOwn'
  BY <1>8 DEF ofc_event_reset_impl
<1>9. ASSUME NEW t \in Threads, NEW e \in Events, WaitLock(t, e) PROVE HoldersOwn'
  <2>1. CASE UNCHANGED <<pc, ev>>
    BY <1>9, <2>1 DEF WaitLock
  <2>2. CASE Enter(t, e, "blocked")
    BY <1>9, <2>2 DEF EventTypeOK, WaitLock, Goto, Enter
  <2> QED
    BY <1>9, <2>1, <2>2 DEF WaitLock
<1>10. ASSUME NEW t \in Threads, NEW e \in Events, ofc_event_create_impl(t, e) PROVE HoldersOwn'
  BY <1>10 DEF ofc_event_create_impl
<1>11. ASSUME NEW t \in Threads, NEW e \in Events, DestroyFree(t, e) PROVE HoldersOwn'
  BY <1>11 DEF EventTypeOK, DestroyFree, Call, Goto, Enter
<1>12. ASSUME NEW t \in Threads, NEW e \in Events, NullHandle(t, e) PROVE HoldersOwn'
  BY <1>12 DEF NullHandle
<1>13. CASE UNCHANGED eventVars
  BY <1>13 DEF eventVars
<1> QED
  BY <1>1, <1>2, <1>3, <1>4, <1>5, <1>6, <1>7, <1>8, <1>9, <1>10, <1>11, <1>12, <1>13
     DEF EventNext, InFlight, EventCall

\* A step that moves no thread into, out of or along a wait, and ends or starts no
\* announcement over a sleeper, leaves the atomic events as they are.
LEMMA SameWaits ==
    ASSUME \A u \in Threads : WaitState(u)' = WaitState(u) /\ WaitsOn(u)' = WaitsOn(u)
    PROVE  /\ [t \in Threads |-> WaitState(t)]' = [t \in Threads |-> WaitState(t)]
           /\ [t \in Threads |-> WaitsOn(t)]' = [t \in Threads |-> WaitsOn(t)]
  OBVIOUS

\* So does a step of a thread that is in no wait and announces nothing, neither
\* before nor after.
LEMMA QuietStep ==
    ASSUME EventTypeOK, NEW t \in Threads, NEW l,
           pc[t] \notin {"broadcast", "blocked", "relock"},
           l \notin {"broadcast", "blocked", "relock"},
           pc' = [pc EXCEPT ![t] = l],
           \A u \in Threads : u # t => ev'[u] = ev[u]
    PROVE  \A u \in Threads : WaitState(u)' = WaitState(u) /\ WaitsOn(u)' = WaitsOn(u)
<1>1. pc'[t] = l /\ \A u \in Threads : u # t => pc'[u] = pc[u]
  BY DEF EventTypeOK
<1>2. WaitState(t)' = WaitState(t) /\ WaitsOn(t)' = WaitsOn(t)
  BY <1>1 DEF WaitState, WaitsOn
<1>3. ASSUME NEW u \in Threads, u # t PROVE Announced(u)' = Announced(u)
  BY <1>1, <1>3 DEF Announced
<1>4. ASSUME NEW u \in Threads, u # t
      PROVE  WaitState(u)' = WaitState(u) /\ WaitsOn(u)' = WaitsOn(u)
  <2>1. WaitState(u)' = WaitState(u)
    BY <1>1, <1>3, <1>4 DEF WaitState
  <2> QED
    BY <2>1, <1>4 DEF WaitsOn
<1> QED
  BY <1>2, <1>4

\* Every step of event_android.c is one step of the atomic events, or none.
LEMMA AtomicStep ==
    EventTypeOK /\ HoldersOwn /\ [EventNext]_eventVars => [Atomic!Next]_(Atomic!vars)
<1> SUFFICES ASSUME EventTypeOK, HoldersOwn, [EventNext]_eventVars
             PROVE  [Atomic!Next]_(Atomic!vars)
  OBVIOUS
<1> DEFINE Stutter == UNCHANGED (Atomic!vars)
<1> USE DEF WaitState, WaitsOn, Announced
<1>1. ASSUME NEW t \in Threads, SetBroadcast(t) PROVE Stutter
  <2>1. \A u \in Threads : WaitState(u)' = WaitState(u) /\ WaitsOn(u)' = WaitsOn(u)
    BY <1>1 DEF EventTypeOK, SetBroadcast
  <2> QED
    BY <1>1, <2>1, SameWaits DEF SetBroadcast, Atomic!vars
<1>2. ASSUME NEW t \in Threads, SetLookup(t) PROVE Stutter
  <2>1. \A u \in Threads : WaitState(u)' = WaitState(u) /\ WaitsOn(u)' = WaitsOn(u)
    <3>1. PICK l \in {"idle", "post"} : pc' = [pc EXCEPT ![t] = l]
      BY <1>2 DEF SetLookup, Goto, Leave
    <3>2. \A u \in Threads : u # t => ev'[u] = ev[u]
      BY <1>2 DEF EventTypeOK, SetLookup, Leave
    <3>3. pc[t] \notin {"broadcast", "blocked", "relock"}
      BY <1>2 DEF SetLookup
    <3> HIDE DEF WaitState, WaitsOn, Announced
    <3> QED
      BY <3>1, <3>2, <3>3, QuietStep
  <2> QED
    BY <1>2, <2>1, SameWaits DEF SetLookup, Atomic!vars
<1>3. ASSUME NEW t \in Threads, SetPost(t) PROVE Stutter
  <2>1. \A u \in Threads : WaitState(u)' = WaitState(u) /\ WaitsOn(u)' = WaitsOn(u)
    <3>1. pc' = [pc EXCEPT ![t] = "idle"] /\ pc[t] \notin {"broadcast", "blocked", "relock"}
      BY <1>3 DEF SetPost, Goto, Leave
    <3>2. \A u \in Threads : u # t => ev'[u] = ev[u]
      BY <1>3 DEF EventTypeOK, SetPost, Leave
    <3> HIDE DEF WaitState, WaitsOn, Announced
    <3> QED
      BY <3>1, <3>2, QuietStep
  <2> QED
    BY <1>3, <2>1, SameWaits DEF SetPost, Atomic!vars
<1>4. ASSUME NEW t \in Threads, WaitRelock(t) PROVE Atomic!Return(t)
  BY <1>4 DEF EventTypeOK, WaitRelock, Goto, Leave, ClearIfAuto, Atomic!Return, Atomic!Taken
<1>5. ASSUME NEW t \in Threads, DestroyHandle(t) PROVE Stutter
  <2>1. \A u \in Threads : WaitState(u)' = WaitState(u) /\ WaitsOn(u)' = WaitsOn(u)
    <3>1. pc' = [pc EXCEPT ![t] = "idle"] /\ pc[t] \notin {"broadcast", "blocked", "relock"}
      BY <1>5 DEF DestroyHandle, Goto, Leave
    <3>2. \A u \in Threads : u # t => ev'[u] = ev[u]
      BY <1>5 DEF EventTypeOK, DestroyHandle, Leave
    <3> HIDE DEF WaitState, WaitsOn, Announced
    <3> QED
      BY <3>1, <3>2, QuietStep
  <2> QED
    BY <1>5, <2>1, SameWaits DEF DestroyHandle, Atomic!vars
<1>6. ASSUME NEW t \in Threads, SpuriousWake(t) PROVE Stutter \/ Atomic!Release(t)
  <2>1. \A u \in Threads \ {t} : WaitState(u)' = WaitState(u) /\ WaitsOn(u)' = WaitsOn(u)
    BY <1>6 DEF EventTypeOK, SpuriousWake, Goto
  <2>2. CASE Announced(t)
    BY <1>6, <2>1, <2>2, SameWaits DEF EventTypeOK, SpuriousWake, Goto, Atomic!vars
  <2>3. CASE ~Announced(t)
    <3>1. WaitState(t) = "waiting" /\ WaitState(t)' = "released" /\ WaitsOn(t)' = WaitsOn(t)
      BY <1>6, <2>3 DEF EventTypeOK, SpuriousWake, Goto
    <3>2. \A u \in Threads : WaitState(u)' = IF u = t THEN "released" ELSE WaitState(u)
      BY <2>1, <3>1
    <3>3. [u \in Threads |-> WaitState(u)]'
             = [[u \in Threads |-> WaitState(u)] EXCEPT ![t] = "released"]
      BY ONLY <3>2
    <3>4. \A u \in Threads : WaitsOn(u)' = WaitsOn(u)
      BY <2>1, <3>1
    <3> HIDE DEF WaitState, WaitsOn
    <3> QED
      BY <1>6, <3>1, <3>3, <3>4 DEF SpuriousWake, Atomic!Release
  <2> QED
    BY <2>2, <2>3
<1>7. ASSUME NEW t \in Threads, NEW e \in Events, SetLock(t, e) PROVE Atomic!Set(e)
  <2>1. pc[t] = "idle" /\ pc' = [pc EXCEPT ![t] = "broadcast"] /\ ev' = [ev EXCEPT ![t] = e]
    BY <1>7 DEF SetLock, RaiseFlag, Call, Goto, Enter
  <2>2. \A u \in Threads : WaitState(u)' = IF WaitState(u) = "waiting" /\ WaitsOn(u) = e
                                            THEN "released" ELSE WaitState(u)
    BY <2>1 DEF EventTypeOK
  <2>3. \A u \in Threads : WaitsOn(u)' = WaitsOn(u)
    BY <2>1 DEF EventTypeOK
  <2> QED
    BY <1>7, <2>2, <2>3 DEF SetLock, RaiseFlag, Atomic!Set
<1>8. ASSUME NEW t \in Threads, NEW e \in Events, ofc_event_reset_impl(t, e) PROVE Atomic!Reset(e)
  <2>1. \A u \in Threads : WaitState(u)' = WaitState(u) /\ WaitsOn(u)' = WaitsOn(u)
    BY <1>8 DEF ofc_event_reset_impl
  <2> QED
    BY <1>8, <2>1, SameWaits DEF ofc_event_reset_impl, Atomic!Reset
<1>9. ASSUME NEW t \in Threads, NEW e \in Events, WaitLock(t, e) PROVE Atomic!Wait(t, e)
  <2>1. CASE signalled[e] /\ ClearIfAuto(e) /\ UNCHANGED <<pc, ev>>
    <3>1. \A u \in Threads : WaitState(u)' = WaitState(u) /\ WaitsOn(u)' = WaitsOn(u)
      BY <2>1
    <3> QED
      BY <1>9, <2>1, <3>1, SameWaits DEF WaitLock, Call, ClearIfAuto, Atomic!Wait, Atomic!Taken
  <2>2. CASE ~signalled[e] /\ Enter(t, e, "blocked") /\ UNCHANGED signalled
    <3>1. pc[t] = "idle" /\ pc' = [pc EXCEPT ![t] = "blocked"] /\ ev' = [ev EXCEPT ![t] = e]
      BY <1>9, <2>2 DEF WaitLock, Call, Goto, Enter
    <3>2. \A u \in Threads : pc[u] = "broadcast" => ev[u] # e
      BY <1>9, EventAssumption DEF WaitLock, HoldersOwn, Holding
    <3>3. WaitState(t)' = "waiting" /\ WaitsOn(t)' = e
      BY <3>1, <3>2 DEF EventTypeOK
    <3>4. \A u \in Threads \ {t} : WaitState(u)' = WaitState(u) /\ WaitsOn(u)' = WaitsOn(u)
      BY <3>1 DEF EventTypeOK
    <3>5. WaitState(t) = "out"
      BY <3>1
    <3>6. \A u \in Threads : /\ WaitState(u)' = IF u = t THEN "waiting" ELSE WaitState(u)
                             /\ WaitsOn(u)' = IF u = t THEN e ELSE WaitsOn(u)
      BY <3>3, <3>4
    <3> HIDE DEF WaitState, WaitsOn
    <3> QED
      BY <2>2, <3>5, <3>6 DEF Atomic!Wait
  <2> QED
    BY <1>9, <2>1, <2>2 DEF WaitLock
<1>10. ASSUME NEW t \in Threads, NEW e \in Events, ofc_event_create_impl(t, e)
       PROVE  Stutter \/ Atomic!Reset(e)
  <2>1. \A u \in Threads : WaitState(u)' = WaitState(u) /\ WaitsOn(u)' = WaitsOn(u)
    BY <1>10 DEF ofc_event_create_impl
  <2> QED
    BY <1>10, <2>1, SameWaits DEF ofc_event_create_impl, Atomic!Reset, Atomic!vars
<1>11. ASSUME NEW t \in Threads, NEW e \in Events, DestroyFree(t, e) PROVE Stutter
  <2>1. \A u \in Threads : WaitState(u)' = WaitState(u) /\ WaitsOn(u)' = WaitsOn(u)
    <3>1. pc' = [pc EXCEPT ![t] = "hdestroy"] /\ pc[t] = "idle" /\ ev' = [ev EXCEPT ![t] = e]
      BY <1>11 DEF DestroyFree, Call, Goto, Enter
    <3>2. \A u \in Threads : u # t => ev'[u] = ev[u]
      BY <3>1 DEF EventTypeOK
    <3> HIDE DEF WaitState, WaitsOn, Announced
    <3> QED
      BY <3>1, <3>2, QuietStep
  <2> QED
    BY <1>11, <2>1, SameWaits DEF DestroyFree, Atomic!vars
<1>12. ASSUME NEW t \in Threads, NEW e \in Events, NullHandle(t, e) PROVE Stutter
  <2>1. \A u \in Threads : WaitState(u)' = WaitState(u) /\ WaitsOn(u)' = WaitsOn(u)
    BY <1>12 DEF NullHandle
  <2> QED
    BY <1>12, <2>1, SameWaits DEF NullHandle, Atomic!vars
<1>13. CASE UNCHANGED eventVars
  <2>1. \A u \in Threads : WaitState(u)' = WaitState(u) /\ WaitsOn(u)' = WaitsOn(u)
    BY <1>13 DEF eventVars
  <2> QED
    BY <1>13, <2>1, SameWaits DEF eventVars, Atomic!vars
<1> QED
  BY <1>1, <1>2, <1>3, <1>4, <1>5, <1>6, <1>7, <1>8, <1>9, <1>10, <1>11, <1>12, <1>13
     DEF EventNext, InFlight, EventCall, Atomic!Next

\* The calls of event_android.c, with their mutexes and condition variables,
\* implement calls that take effect at one instant (the liveness part of
\* ImplementsAtomicEvent is checked by TLC).
THEOREM AtomicEventCorrect == EventSpec => Atomic!SafeSpec
<1>1. EventInit => Atomic!Init /\ HoldersOwn
  BY DEF EventInit, QuietInit, HoldersOwn, Holding, Atomic!Init, WaitState, WaitsOn
<1> QED
  BY <1>1, EventTypeCorrect, HoldersOwnStep, AtomicStep, PTL DEF EventSpec, Atomic!SafeSpec
=============================================================================
