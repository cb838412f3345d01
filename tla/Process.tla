------------------------------- MODULE Process -------------------------------
(***************************************************************************)
(* Spawning and terminating daemons: src/process_android.c.                *)
(*                                                                         *)
(* ofc_process_exec_impl forks twice.  The first child (vfork) shares the  *)
(* memory of its parent, whose calling thread does not run again until the *)
(* child exits; it forks the daemon, leaves the daemon's pid in the        *)
(* parent's variable pid2 and exits.  The parent learns from the exit      *)
(* status of the first child whether there is a daemon, and makes a handle *)
(* that holds pid2.  Several threads of the program do this at once.       *)
(***************************************************************************)
EXTENDS Integers, FiniteSets

CONSTANTS
    Callers,        \* threads of the program that spawn daemons
    Pids,           \* process ids the system gives to daemons; none is used twice
    NoPid           \* pid 0: as an argument of kill, the caller's whole process group

\* What ofc_process_exec_impl has returned to a caller: nothing that is still a
\* handle, OFC_INVALID_HANDLE_VALUE, or a handle that holds a pid.
NoneHeld == "none"
Invalid == "invalid"

ASSUME ProcessAssumption == {NoPid, NoneHeld, Invalid} \cap Pids = {} /\ NoPid \notin {NoneHeld, Invalid}

VARIABLES
    trap,       \* does the program have a handler for SIGTERM?
    up,         \* has the program not crashed or been terminated?
    cpc,        \* each caller: "idle", "child" and "childexit" (its first child runs), "reap"
    pid2,       \* pid2 of ofc_process_exec_impl
    pidt,       \* pidt of the first child
    status,     \* exit status of the first child
    handle,     \* the handle each caller holds
    daemon,     \* "free", "forked", "running" or "gone", for each pid
    spawner     \* history: the caller whose call forked the daemon, while it holds on to it

procVars == <<trap, up, cpc, pid2, pidt, status, handle, daemon, spawner>>

-----------------------------------------------------------------------------
\* ofc_process_crash_impl prints a message and exits with EXIT_SUCCESS.
CrashStatus == 0

\* ofc_process_term_trap_impl, called when the program starts up.
ofc_process_term_trap_impl ==
    /\ up
    /\ \A c \in Callers : cpc[c] = "idle" /\ handle[c] = NoneHeld
    /\ \A p \in Pids : daemon[p] = "free"
    /\ trap' = TRUE
    /\ UNCHANGED <<up, cpc, pid2, pidt, status, handle, daemon, spawner>>

\* ofc_process_exec_impl: vfork.  If it fails the whole program exits.
VFork(c) ==
    /\ up
    /\ cpc[c] = "idle"
    /\ handle[c] \in {NoneHeld, Invalid}
    /\ pid2' = [pid2 EXCEPT ![c] = NoPid]
    /\ \/ cpc' = [cpc EXCEPT ![c] = "child"] /\ UNCHANGED up
       \/ up' = FALSE /\ UNCHANGED cpc
    /\ UNCHANGED <<trap, pidt, status, handle, daemon, spawner>>

\* Mutant of ChildFork: the -1 of a failed fork is taken for a pid.
ForkUnchecked(c) ==
    /\ cpc[c] = "child"
    /\ pidt' = [pidt EXCEPT ![c] = -1]
    /\ cpc' = [cpc EXCEPT ![c] = "childexit"]
    /\ UNCHANGED <<trap, up, pid2, status, handle, daemon, spawner>>

\* The first child forks the daemon.  If it cannot, it crashes: itself, not the
\* program, whose calling thread runs again with the exit status of the crash.
ChildFork(c) ==
    /\ cpc[c] = "child"
    /\ \/ \E p \in Pids :
             /\ daemon[p] = "free"
             /\ daemon' = [daemon EXCEPT ![p] = "forked"]
             /\ spawner' = [spawner EXCEPT ![p] = {c}]
             /\ pidt' = [pidt EXCEPT ![c] = p]
             /\ cpc' = [cpc EXCEPT ![c] = "childexit"]
             /\ UNCHANGED status
       \/ /\ status' = [status EXCEPT ![c] = CrashStatus]
          /\ cpc' = [cpc EXCEPT ![c] = "reap"]
          /\ UNCHANGED <<daemon, spawner, pidt>>
    /\ UNCHANGED <<trap, up, pid2, handle>>

\* Mutant of ChildExit: the parent's pid2 is not written.
ExitUnreported(c) ==
    /\ cpc[c] = "childexit"
    /\ status' = [status EXCEPT ![c] = 0]
    /\ cpc' = [cpc EXCEPT ![c] = "reap"]
    /\ UNCHANGED <<trap, up, pid2, pidt, handle, daemon, spawner>>

\* The first child reports the pid through the memory it shares, and exits.
ChildExit(c) ==
    /\ cpc[c] = "childexit"
    /\ pid2' = [pid2 EXCEPT ![c] = pidt[c]]
    /\ status' = [status EXCEPT ![c] = 0]
    /\ cpc' = [cpc EXCEPT ![c] = "reap"]
    /\ UNCHANGED <<trap, up, pidt, handle, daemon, spawner>>

\* The parent: waitpid finds the first child already gone.
Reap(c) ==
    /\ up
    /\ cpc[c] = "reap"
    /\ handle' = [handle EXCEPT ![c] = IF status[c] = 0 THEN pid2[c] ELSE Invalid]
    /\ cpc' = [cpc EXCEPT ![c] = "idle"]
    /\ UNCHANGED <<trap, up, pid2, pidt, status, daemon, spawner>>

\* The daemon changes its user and executes the image; if it cannot, it crashes.
DaemonExec(p) ==
    /\ daemon[p] = "forked"
    /\ \/ daemon' = [daemon EXCEPT ![p] = "running"]
       \/ daemon' = [daemon EXCEPT ![p] = "gone"]
    /\ UNCHANGED <<trap, up, cpc, pid2, pidt, status, handle, spawner>>

\* The daemon ends by itself: nobody waits for it.
DaemonExit(p) ==
    /\ daemon[p] = "running"
    /\ daemon' = [daemon EXCEPT ![p] = "gone"]
    /\ UNCHANGED <<trap, up, cpc, pid2, pidt, status, handle, spawner>>

\* kill with SIGTERM.  Pid 0 is every process of the program's group.  A handler
\* is inherited through fork, until execve: it shields the program, its first
\* children and a daemon that has not yet executed its image.
Kill(p) ==
    /\ daemon' = [q \in Pids |->
          IF p \in {q, NoPid} /\ (daemon[q] = "running" \/ (daemon[q] = "forked" /\ ~trap))
          THEN "gone" ELSE daemon[q]]
    /\ up' = (p # NoPid \/ trap)

\* ofc_process_get_id_impl: what the handle holds.
ofc_process_get_id_impl(c) == handle[c]

\* ofc_process_term_impl: signal the daemon, give up the handle.
ofc_process_term_impl(c) ==
    /\ up
    /\ cpc[c] = "idle"
    /\ handle[c] \notin {NoneHeld, Invalid}
    /\ Kill(handle[c])
    /\ handle' = [handle EXCEPT ![c] = NoneHeld]
    /\ spawner' = [p \in Pids |-> spawner[p] \ {c}]
    /\ UNCHANGED <<trap, cpc, pid2, pidt, status>>

\* ofc_process_kill_impl, with a pid that ofc_process_get_id_impl has given out:
\* the handle stays.
ofc_process_kill_impl(c) ==
    /\ up
    /\ cpc[c] = "idle"
    /\ handle[c] \notin {NoneHeld, Invalid}
    /\ Kill(ofc_process_get_id_impl(c))
    /\ UNCHANGED <<trap, cpc, pid2, pidt, status, handle, spawner>>

-----------------------------------------------------------------------------
ProcessInit ==
    /\ trap = FALSE
    /\ up = TRUE
    /\ cpc = [c \in Callers |-> "idle"]
    /\ pid2 = [c \in Callers |-> NoPid]
    /\ pidt = [c \in Callers |-> NoPid]
    /\ status = [c \in Callers |-> 0]
    /\ handle = [c \in Callers |-> NoneHeld]
    /\ daemon = [p \in Pids |-> "free"]
    /\ spawner = [p \in Pids |-> {}]

ProcessNext ==
    \/ ofc_process_term_trap_impl
    \/ \E c \in Callers :
          \/ VFork(c) \/ ChildFork(c) \/ ChildExit(c) \/ Reap(c)
          \/ ofc_process_term_impl(c) \/ ofc_process_kill_impl(c)
    \/ \E p \in Pids : DaemonExec(p) \/ DaemonExit(p)

ProcessSpec == ProcessInit /\ [][ProcessNext]_procVars

-----------------------------------------------------------------------------
\* The type invariant: what ofc_process_exec_impl passes on as a pid is a pid of
\* a daemon or 0.
ProcessTypeOK ==
    /\ trap \in BOOLEAN
    /\ up \in BOOLEAN
    /\ cpc \in [Callers -> {"idle", "child", "childexit", "reap"}]
    /\ pid2 \in [Callers -> Pids \cup {NoPid}]
    /\ pidt \in [Callers -> Pids \cup {NoPid}]
    /\ status \in [Callers -> {0, 1}]
    /\ handle \in [Callers -> Pids \cup {NoPid, NoneHeld, Invalid}]
    /\ daemon \in [Pids -> {"free", "forked", "running", "gone"}]
    /\ spawner \in [Pids -> SUBSET Callers]

\* ofc_process_exec_impl loses no daemon: once its call has returned, a caller
\* that has a daemon it has not terminated holds the handle of this daemon, and
\* of no other caller's, however the calls of several threads interleave.
HandleNamesDaemon ==
    \A c \in Callers : \A p \in Pids :
        cpc[c] = "idle" => (c \in spawner[p] <=> handle[c] = p)

\* process_android.c:153-155 and 161-164: the parent learns from waitpid whether
\* the first child has spawned the daemon.  A caller that gets a handle has one.
HandleMeansDaemon ==
    \A c \in Callers :
        handle[c] \notin {NoneHeld, Invalid} => \E p \in Pids : handle[c] = p
=============================================================================
