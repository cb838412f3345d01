---------------------------- MODULE AtomicWaitSet ----------------------------
(***************************************************************************)
(* What ofc_waitset_wait_impl of src/waitset_android.c promises to the     *)
(* scheduler that calls it: a wait takes effect at one instant.  It        *)
(* answers a member of the set that has work at that instant, and takes    *)
(* the work along if it is the flag of an AUTO event; or it answers        *)
(* nobody.  Handles may join the set at any time, but leave it between     *)
(* waits only.  There are no pipe, no lists and no loop over the handles   *)
(* here: module WaitSet shows that they cannot be seen.                    *)
(***************************************************************************)
CONSTANTS
    Handles,    \* handles that can be put in the set
    AutoEvents, \* those that are AUTO events
    NoHandle

VARIABLES
    members,    \* handles in the set
    work,       \* handles, in the set or not, that have work
    state,      \* of the wait: "idle", "waiting" or "answered"
    answer      \* what an "answered" wait is about to return

vars == <<members, work, state, answer>>

Init ==
    /\ members = {}
    /\ work \in SUBSET Handles
    /\ state = "idle"
    /\ answer = NoHandle

Begin ==
    /\ state = "idle"
    /\ state' = "waiting"
    /\ UNCHANGED <<members, work, answer>>

\* What is taken along is the flag of an event; a queue, a timer or a descriptor
\* has its work until somebody sees to it.  The post of a queue may be used up.
Answer(h) ==
    /\ state = "waiting"
    /\ h \in members \cap work
    /\ answer' = h
    /\ state' = "answered"
    /\ \/ work' = work \ {h}
       \/ h \notin AutoEvents /\ UNCHANGED work
    /\ UNCHANGED members

\* Woken, interrupted, or the time is up.
AnswerNobody ==
    /\ state = "waiting"
    /\ state' = "answered"
    /\ UNCHANGED <<members, work, answer>>

\* What a descriptor was asked to report is forgotten with the wait.
Return ==
    /\ state = "answered"
    /\ state' = "idle"
    /\ answer' = NoHandle
    /\ work' \in SUBSET Handles
    /\ UNCHANGED members

\* Work comes and goes, handles join the set and, between waits, leave it.
Change ==
    /\ members' \in SUBSET Handles
    /\ work' \in SUBSET Handles
    /\ state # "idle" => members \subseteq members'
    /\ UNCHANGED <<state, answer>>

Next == Begin \/ AnswerNobody \/ Return \/ Change \/ \E h \in Handles : Answer(h)

Spec == Init /\ [][Next]_vars
=============================================================================
