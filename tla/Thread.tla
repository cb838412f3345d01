------------------------------- MODULE Thread -------------------------------
(***************************************************************************)
(* The life of one thread object of src/thread_android.c: its creation,    *)
(* the thread that runs it, and the calls of its owner, who may delete it  *)
(* and either waits for it or detaches it.  Whether the owner or the       *)
(* thread itself releases the object depends on detachstate, which the     *)
(* owner may change while the thread exits.  Nothing but the owner's good  *)
(* behaviour keeps the object alive during a call: the handle counts       *)
(* references, but the object's memory is freed without a look at them.    *)
(*                                                                         *)
(* How the owner's delete reaches a thread that sleeps on a wait set is    *)
(* the subject of module ThreadStop.                                       *)
(***************************************************************************)
VARIABLES
    mem,            \* the ANDROID_THREAD: "none", "live", "freed" or "freed twice"
    handle,         \* its handle: "none", "live" or "destroyed"
    detachstate,    \* "JOIN" or "DETACH"
    deleteMe,       \* OFC_TRUE once the thread is being deleted
    notified,       \* has hNotify been set?
    tpc,            \* the new thread: "none", "run", "notify", "check", "release", "gone"
    opc,            \* the owner: "none", "created", "idle", in a call, or "done"
    stale           \* history: has memory been used that was no longer allocated?

threadVars == <<mem, handle, detachstate, deleteMe, notified, tpc, opc, stale>>

\* A use of *androidThread, and ofc_free of it.
Use == stale' = (stale \/ mem # "live")
Free == mem' = IF mem = "live" THEN "freed" ELSE "freed twice"

-----------------------------------------------------------------------------
\* Mutant of Create: detachstate is left as malloc found it.
CreateUninitialized ==
    /\ opc = "none"
    /\ mem' = "live" /\ handle' = "live"
    /\ detachstate' \in {"JOIN", "DETACH", "uninitialized"}
    /\ tpc' = "run" /\ opc' = "created"
    /\ UNCHANGED <<deleteMe, notified, stale>>

\* ofc_thread_create_impl, up to pthread_create.  If there is no memory for the
\* object, or no thread to be had, nothing is left of it.
Create ==
    /\ opc = "none"
    /\ \/ /\ mem' = "live"
          /\ handle' = "live"
          /\ detachstate' \in {"JOIN", "DETACH"}
          /\ tpc' = "run"
          /\ opc' = "created"
       \/ opc' = "done" /\ UNCHANGED <<mem, handle, detachstate, tpc>>
       \/ /\ mem' = "freed"
          /\ handle' = "destroyed"
          /\ opc' = "done"
          /\ UNCHANGED <<detachstate, tpc>>
    /\ UNCHANGED <<deleteMe, notified, stale>>

\* The handle is read from the object while the thread is already running.
CreateReturn ==
    /\ opc = "created"
    /\ Use
    /\ opc' = "idle"
    /\ UNCHANGED <<mem, handle, detachstate, deleteMe, notified, tpc>>

-----------------------------------------------------------------------------
\* ofc_thread_launch: the scheduler function asks now and then whether it is
\* being deleted, and returns when it is, or earlier ...
ofc_thread_is_deleting_impl ==
    /\ tpc = "run"
    /\ handle = "live"
    /\ Use
    /\ tpc' = IF deleteMe THEN "notify" ELSE "run"
    /\ UNCHANGED <<mem, handle, detachstate, deleteMe, notified, opc>>

SchedulerReturns ==
    /\ tpc = "run"
    /\ tpc' = "notify"
    /\ UNCHANGED <<mem, handle, detachstate, deleteMe, notified, opc, stale>>

\* ... its result is stored and hNotify set ...
LaunchNotify ==
    /\ tpc = "notify"
    /\ Use
    /\ notified' = TRUE
    /\ tpc' = "check"
    /\ UNCHANGED <<mem, handle, detachstate, deleteMe, opc>>

\* Mutant of LaunchCheck: detachstate is not looked at.
LaunchUnchecked ==
    /\ tpc = "check"
    /\ tpc' = "release" /\ handle' = "destroyed"
    /\ UNCHANGED <<mem, detachstate, deleteMe, notified, opc, stale>>

\* ... and a detached thread destroys its handle ...
LaunchCheck ==
    /\ tpc = "check"
    /\ Use
    /\ \/ detachstate = "DETACH" /\ tpc' = "release" /\ handle' = "destroyed"
       \/ detachstate # "DETACH" /\ tpc' = "gone" /\ UNCHANGED handle
    /\ UNCHANGED <<mem, detachstate, deleteMe, notified, opc>>

\* ... and its object.
LaunchFree ==
    /\ tpc = "release"
    /\ Free
    /\ tpc' = "gone"
    /\ UNCHANGED <<handle, detachstate, deleteMe, notified, opc, stale>>

-----------------------------------------------------------------------------
\* The owner starts a call; ofc_handle_lock answers OFC_NULL for a handle that
\* has been destroyed, and the call returns at once.
OwnerCall(call, after) ==
    /\ opc = "idle"
    /\ opc' = IF handle = "live" THEN call ELSE after
    /\ UNCHANGED <<mem, handle, detachstate, deleteMe, notified, tpc, stale>>

\* ofc_thread_delete_impl
Delete ==
    /\ opc = "delete"
    /\ Use
    /\ deleteMe' = TRUE
    /\ opc' = "idle"
    /\ UNCHANGED <<mem, handle, detachstate, notified, tpc>>

\* ofc_thread_detach_impl: the state first, then pthread_detach.
DetachState ==
    /\ opc = "detach"
    /\ Use
    /\ detachstate' = "DETACH"
    /\ opc' = "detachos"
    /\ UNCHANGED <<mem, handle, deleteMe, notified, tpc>>

DetachThread ==
    /\ opc = "detachos"
    /\ Use
    /\ opc' = "done"
    /\ UNCHANGED <<mem, handle, detachstate, deleteMe, notified, tpc>>

\* ofc_thread_wait_impl: it does nothing for a detached thread ...
Wait ==
    /\ opc = "wait"
    /\ Use
    /\ opc' = IF detachstate = "JOIN" THEN "join" ELSE "done"
    /\ UNCHANGED <<mem, handle, detachstate, deleteMe, notified, tpc>>

\* Mutant of WaitJoin: without pthread_join.
WaitUnjoined ==
    /\ opc = "join"
    /\ Use
    /\ handle' = "destroyed"
    /\ opc' = "joined"
    /\ UNCHANGED <<mem, detachstate, deleteMe, notified, tpc>>

\* ... and otherwise joins the thread, destroys the handle ...
WaitJoin ==
    /\ opc = "join"
    /\ tpc = "gone"
    /\ Use
    /\ handle' = "destroyed"
    /\ opc' = "joined"
    /\ UNCHANGED <<mem, detachstate, deleteMe, notified, tpc>>

\* Mutant of WaitFree: without ofc_free.
WaitLeak ==
    /\ opc = "joined"
    /\ opc' = "waited"
    /\ UNCHANGED <<mem, handle, detachstate, deleteMe, notified, tpc, stale>>

\* ... and frees the object.
WaitFree ==
    /\ opc = "joined"
    /\ Free
    /\ opc' = "waited"
    /\ UNCHANGED <<handle, detachstate, deleteMe, notified, tpc, stale>>

-----------------------------------------------------------------------------
ThreadInit ==
    /\ mem = "none"
    /\ handle = "none"
    /\ detachstate = "JOIN"
    /\ deleteMe = FALSE
    /\ notified = FALSE
    /\ tpc = "none"
    /\ opc = "none"
    /\ stale = FALSE

LaunchStep == ofc_thread_is_deleting_impl \/ LaunchNotify \/ LaunchCheck \/ LaunchFree
OwnerStep ==
    CreateReturn \/ Delete \/ DetachState \/ DetachThread \/ Wait \/ WaitJoin \/ WaitFree

\* The owner waits for the thread or detaches it, and then is done with it.
ThreadNext ==
    \/ LaunchStep \/ SchedulerReturns
    \/ Create \/ OwnerStep
    \/ OwnerCall("delete", "idle") \/ OwnerCall("detach", "done") \/ OwnerCall("wait", "done")

\* A running thread keeps asking whether it is being deleted, and a call that
\* has been made goes on; a scheduler need not return before it is told to.
ThreadSpec ==
    /\ ThreadInit
    /\ [][ThreadNext]_threadVars
    /\ WF_threadVars(LaunchStep)
    /\ WF_threadVars(OwnerStep)

-----------------------------------------------------------------------------
\* The type invariant of a thread object, its thread and its owner.
ObjectTypeOK ==
    /\ mem \in {"none", "live", "freed", "freed twice"}
    /\ handle \in {"none", "live", "destroyed"}
    /\ detachstate \in {"JOIN", "DETACH"}
    /\ deleteMe \in BOOLEAN
    /\ notified \in BOOLEAN
    /\ stale \in BOOLEAN
    /\ tpc \in {"none", "run", "notify", "check", "release", "gone"}
    /\ opc \in {"none", "created", "idle", "delete", "detach", "detachos",
                "wait", "join", "joined", "waited", "done"}

\* A thread that is joined is safe: neither it nor its owner uses the object
\* after it has been freed, whenever the thread ends and whatever the owner does
\* meanwhile.  (A detached thread frees the object under its owner's hands.)
JoinedNotStale == detachstate = "JOIN" => ~stale

\* Owner and thread between them free the object at most once, though the owner
\* may detach the thread while it looks at detachstate.
FreedOnce == mem # "freed twice"

\* When ofc_thread_wait_impl returns from the wait for a joined thread, the
\* thread is gone, hNotify has been set, and neither object nor handle is left.
WaitIsComplete ==
    opc = "waited" => tpc = "gone" /\ notified /\ mem # "live" /\ handle = "destroyed"

\* A thread that is deleted and waited for, or detached before it looks at
\* detachstate on its way out, is released.
ThreadReleased ==
    /\ (opc = "join" /\ deleteMe) ~> mem = "freed"
    /\ (detachstate = "DETACH" /\ tpc \in {"notify", "check"}) ~> mem = "freed"
=============================================================================
