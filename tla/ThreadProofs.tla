---------------------------- MODULE ThreadProofs ----------------------------
(***************************************************************************)
(* Theorems about module Thread: the safety properties of a thread object  *)
(* hold in every step of its life.  The inductive invariant says who holds *)
(* the object alive: a thread on its way holds it, and so does the owner   *)
(* of a thread that has to be joined.                                      *)
(***************************************************************************)
EXTENDS Thread, TLAPS

\* Before the thread is there, and after there was none to be had.
NoThreadYet ==
    /\ opc = "none" => tpc = "none" /\ mem = "none"
    /\ tpc = "none" => opc \in {"none", "done"} /\ detachstate = "JOIN"

\* The thread runs on an object that is there, and sets hNotify before it goes.
ThreadHolds ==
    /\ tpc \in {"run", "notify", "check", "release"} => mem = "live"
    /\ tpc \in {"check", "release", "gone"} => notified
    /\ tpc = "release" => detachstate = "DETACH"

\* The owner holds an object that is there until a wait has freed it.
OwnerHolds ==
    /\ detachstate = "JOIN" /\ opc \notin {"none", "waited", "done"} => mem = "live"
    /\ opc \in {"join", "joined", "waited"} => detachstate = "JOIN"
    /\ opc \in {"joined", "waited"} => tpc = "gone" /\ handle = "destroyed"
    /\ opc = "waited" => mem = "freed"

LifeInv ==
    /\ ObjectTypeOK /\ NoThreadYet /\ ThreadHolds /\ OwnerHolds
    /\ JoinedNotStale /\ FreedOnce

\* Every step of thread and owner keeps the invariant.
LEMMA LifeStep ==
    ASSUME LifeInv, [ThreadNext]_threadVars
    PROVE  LifeInv'
<1> USE DEF LifeInv, ObjectTypeOK, NoThreadYet, ThreadHolds, OwnerHolds, JoinedNotStale, FreedOnce
<1>1. CASE Create
  BY <1>1 DEF Create
<1>2. CASE CreateReturn \/ Delete
  BY <1>2 DEF CreateReturn, Delete, Use
<1>3. CASE DetachState \/ DetachThread
  BY <1>3 DEF DetachState, DetachThread, Use
<1>4. CASE Wait \/ WaitJoin
  BY <1>4 DEF Wait, WaitJoin, Use
<1>5. CASE WaitFree
  BY <1>5 DEF WaitFree, Free
<1>6. CASE ofc_thread_is_deleting_impl \/ SchedulerReturns \/ LaunchNotify
  <2>1. CASE ofc_thread_is_deleting_impl
    BY <2>1 DEF ofc_thread_is_deleting_impl, Use
  <2>2. CASE SchedulerReturns
    BY <2>2 DEF SchedulerReturns
  <2>3. CASE LaunchNotify
    BY <2>3 DEF LaunchNotify, Use
  <2> QED
    BY <1>6, <2>1, <2>2, <2>3
<1>7. CASE LaunchCheck
  BY <1>7 DEF LaunchCheck, Use
<1>8. CASE LaunchFree
  BY <1>8 DEF LaunchFree, Free
<1>9. CASE OwnerCall("delete", "idle") \/ OwnerCall("detach", "done") \/ OwnerCall("wait", "done")
  <2>1. CASE OwnerCall("delete", "idle")
    BY <2>1 DEF OwnerCall
  <2>2. CASE OwnerCall("detach", "done")
    BY <2>2 DEF OwnerCall
  <2>3. CASE OwnerCall("wait", "done")
    BY <2>3 DEF OwnerCall
  <2> QED
    BY <1>9, <2>1, <2>2, <2>3
<1>10. CASE UNCHANGED threadVars
  BY <1>10 DEF threadVars
<1> QED
  BY <1>1, <1>2, <1>3, <1>4, <1>5, <1>6, <1>7, <1>8, <1>9, <1>10
     DEF ThreadNext, LaunchStep, OwnerStep

\* The invariant holds throughout the life of a thread object.
THEOREM LifeCorrect == ThreadSpec => []LifeInv
<1>1. ThreadInit => LifeInv
  BY DEF ThreadInit, LifeInv, ObjectTypeOK, NoThreadYet, ThreadHolds, OwnerHolds,
         JoinedNotStale, FreedOnce
<1> QED
  BY <1>1, LifeStep, PTL DEF ThreadSpec

\* Object, thread and owner are always in one of the known stages, whatever the
\* owner calls.
THEOREM ObjectTypeCorrect == ThreadSpec => []ObjectTypeOK
<1>1. LifeInv => ObjectTypeOK
  BY DEF LifeInv
<1> QED
  BY <1>1, LifeCorrect, PTL

\* A thread that is joined is never used after it has been freed, by whatever
\* interleaving of ofc_thread_launch and the owner's calls.
THEOREM JoinedNotStaleCorrect == ThreadSpec => []JoinedNotStale
<1>1. LifeInv => JoinedNotStale
  BY DEF LifeInv
<1> QED
  BY <1>1, LifeCorrect, PTL

\* ofc_thread_launch and ofc_thread_wait_impl never both free the object, even if
\* ofc_thread_detach_impl comes in between.
THEOREM FreedOnceCorrect == ThreadSpec => []FreedOnce
<1>1. LifeInv => FreedOnce
  BY DEF LifeInv
<1> QED
  BY <1>1, LifeCorrect, PTL

\* A completed ofc_thread_wait_impl leaves nothing behind.
THEOREM WaitIsCompleteCorrect == ThreadSpec => []WaitIsComplete
<1>1. LifeInv => WaitIsComplete
  BY DEF LifeInv, ThreadHolds, OwnerHolds, WaitIsComplete
<1> QED
  BY <1>1, LifeCorrect, PTL
=============================================================================
