---------------------------- MODULE ProcessProofs ----------------------------
(***************************************************************************)
(* Theorems about module Process.  Between the fork of a daemon and the    *)
(* return of ofc_process_exec_impl its pid is handed on three times, from  *)
(* the first child's pidt over the parent's pid2 to the handle.  The       *)
(* inductive invariant says where it is at each step, and that no pid has  *)
(* two spawners and no caller two daemons.                                 *)
(***************************************************************************)
EXTENDS Process, TLAPS

\* A daemon has one spawner, which has one daemon, and a pid that is not in use
\* has none.
Owned ==
    /\ \A p \in Pids : daemon[p] = "free" => spawner[p] = {}
    /\ \A p \in Pids : \A c, d \in spawner[p] : c = d
    /\ \A p, q \in Pids : \A c \in spawner[p] \cap spawner[q] : p = q

\* Where the pid of the daemon of c is.
Carried(c) ==
    /\ cpc[c] # "idle" => handle[c] \in {NoneHeld, Invalid}
    /\ cpc[c] = "child" => pid2[c] = NoPid /\ \A p \in Pids : c \notin spawner[p]
    /\ cpc[c] = "childexit" => \A p \in Pids : c \in spawner[p] <=> pidt[c] = p
    /\ cpc[c] = "reap" =>
          \A p \in Pids : c \in spawner[p] <=> (status[c] = 0 /\ pid2[c] = p)

SpawnInv ==
    /\ ProcessTypeOK
    /\ Owned
    /\ \A c \in Callers : Carried(c)
    /\ HandleNamesDaemon

\* What the types say of a caller and a pid, for the steps below.
LEMMA Distinct ==
    \A p \in Pids : p # NoPid /\ p # NoneHeld /\ p # Invalid
BY ProcessAssumption DEF NoneHeld, Invalid

\* The fork of a daemon makes its caller the only spawner of a fresh pid.
LEMMA ChildForkStep ==
    ASSUME SpawnInv, NEW c \in Callers, ChildFork(c)
    PROVE  SpawnInv'
<1> USE DEF SpawnInv, ProcessTypeOK, CrashStatus
<1>1. CASE \E p \in Pids :
             /\ daemon[p] = "free"
             /\ daemon' = [daemon EXCEPT ![p] = "forked"]
             /\ spawner' = [spawner EXCEPT ![p] = {c}]
             /\ pidt' = [pidt EXCEPT ![c] = p]
             /\ cpc' = [cpc EXCEPT ![c] = "childexit"]
             /\ UNCHANGED status
  <2>1. PICK p \in Pids :
             /\ daemon[p] = "free"
             /\ daemon' = [daemon EXCEPT ![p] = "forked"]
             /\ spawner' = [spawner EXCEPT ![p] = {c}]
             /\ pidt' = [pidt EXCEPT ![c] = p]
             /\ cpc' = [cpc EXCEPT ![c] = "childexit"]
             /\ UNCHANGED status
    BY <1>1
  <2>2. /\ cpc[c] = "child"
        /\ UNCHANGED <<trap, up, pid2, handle>>
        /\ spawner[p] = {}
        /\ \A q \in Pids : c \notin spawner[q]
    BY <2>1 DEF ChildFork, Owned, Carried
  <2>3. ProcessTypeOK'
    BY <2>1, <2>2
  <2>4. Owned'
    BY <2>1, <2>2 DEF Owned
  <2>5. (\A b \in Callers : Carried(b))'
    BY <2>1, <2>2 DEF Carried
  <2>6. HandleNamesDaemon'
    BY <2>1, <2>2 DEF HandleNamesDaemon
  <2> QED
    BY <2>3, <2>4, <2>5, <2>6
<1>2. CASE /\ status' = [status EXCEPT ![c] = CrashStatus]
           /\ cpc' = [cpc EXCEPT ![c] = "reap"]
           /\ UNCHANGED <<daemon, spawner, pidt>>
  <2>1. /\ cpc[c] = "child"
        /\ UNCHANGED <<trap, up, pid2, handle>>
    BY DEF ChildFork
  <2>2. ProcessTypeOK' /\ Owned'
    BY <1>2, <2>1 DEF Owned
  <2>3. (\A b \in Callers : Carried(b))'
    BY <1>2, <2>1, Distinct DEF Carried
  <2>4. HandleNamesDaemon'
    BY <1>2, <2>1 DEF HandleNamesDaemon
  <2> QED
    BY <2>2, <2>3, <2>4
<1> QED
  BY <1>1, <1>2 DEF ChildFork

\* The pid is handed on: by the first child's exit, and by the return of the call.
LEMMA HandOnStep ==
    ASSUME SpawnInv, NEW c \in Callers, ChildExit(c) \/ Reap(c)
    PROVE  SpawnInv'
<1> USE DEF SpawnInv, ProcessTypeOK
<1>1. CASE ChildExit(c)
  <2>1. ProcessTypeOK' /\ Owned'
    BY <1>1 DEF ChildExit, Owned
  <2>2. (\A b \in Callers : Carried(b))'
    BY <1>1 DEF ChildExit, Carried
  <2>3. HandleNamesDaemon'
    BY <1>1 DEF ChildExit, HandleNamesDaemon
  <2> QED
    BY <2>1, <2>2, <2>3
<1>2. CASE Reap(c)
  <2>1. ProcessTypeOK' /\ Owned'
    BY <1>2 DEF Reap, Owned
  <2>2. (\A b \in Callers : Carried(b))'
    BY <1>2 DEF Reap, Carried
  <2>3. HandleNamesDaemon'
    BY <1>2, Distinct DEF Reap, HandleNamesDaemon, Carried
  <2> QED
    BY <2>1, <2>2, <2>3
<1> QED
  BY <1>1, <1>2

\* A kill changes neither a caller nor a spawner, and revives no daemon.
LEMMA KillStep ==
    ASSUME SpawnInv, NEW k, Kill(k)
    PROVE  /\ up' \in BOOLEAN
           /\ daemon' \in [Pids -> {"free", "forked", "running", "gone"}]
           /\ \A p \in Pids : daemon'[p] = "free" => daemon[p] = "free"
BY DEF SpawnInv, ProcessTypeOK, Kill

\* Terminating gives up the handle and what it names; killing keeps both.
LEMMA TermStep ==
    ASSUME SpawnInv, NEW c \in Callers,
           ofc_process_term_impl(c) \/ ofc_process_kill_impl(c)
    PROVE  SpawnInv'
<1> USE DEF SpawnInv, ProcessTypeOK
<1>1. CASE ofc_process_term_impl(c)
  <2>1. /\ up' \in BOOLEAN
        /\ daemon' \in [Pids -> {"free", "forked", "running", "gone"}]
        /\ \A p \in Pids : daemon'[p] = "free" => daemon[p] = "free"
    BY <1>1, KillStep DEF ofc_process_term_impl
  <2>2. /\ cpc[c] = "idle"
        /\ handle' = [handle EXCEPT ![c] = NoneHeld]
        /\ spawner' = [p \in Pids |-> spawner[p] \ {c}]
        /\ UNCHANGED <<trap, cpc, pid2, pidt, status>>
    BY <1>1 DEF ofc_process_term_impl
  <2>3. ProcessTypeOK'
    BY <2>1, <2>2
  <2>4. Owned'
    BY <2>1, <2>2 DEF Owned
  <2>5. (\A b \in Callers : Carried(b))'
    BY <2>2 DEF Carried
  <2>6. HandleNamesDaemon'
    BY <2>2, Distinct DEF HandleNamesDaemon
  <2> QED
    BY <2>3, <2>4, <2>5, <2>6
<1>2. CASE ofc_process_kill_impl(c)
  <2>1. /\ up' \in BOOLEAN
        /\ daemon' \in [Pids -> {"free", "forked", "running", "gone"}]
        /\ \A p \in Pids : daemon'[p] = "free" => daemon[p] = "free"
    BY <1>2, KillStep DEF ofc_process_kill_impl
  <2>2. UNCHANGED <<trap, cpc, pid2, pidt, status, handle, spawner>>
    BY <1>2 DEF ofc_process_kill_impl
  <2> QED
    BY <2>1, <2>2 DEF Owned, Carried, HandleNamesDaemon
<1> QED
  BY <1>1, <1>2

\* Every step of callers, first children and daemons keeps the invariant.
LEMMA SpawnStep ==
    ASSUME SpawnInv, [ProcessNext]_procVars
    PROVE  SpawnInv'
<1> USE DEF SpawnInv, ProcessTypeOK, Owned, Carried, HandleNamesDaemon
<1>1. CASE ofc_process_term_trap_impl
  BY <1>1 DEF ofc_process_term_trap_impl
<1>2. ASSUME NEW c \in Callers, VFork(c)
      PROVE  SpawnInv'
  <2>1. /\ cpc[c] = "idle"
        /\ handle[c] \in {NoneHeld, Invalid}
        /\ \A p \in Pids : c \notin spawner[p]
    BY <1>2, Distinct DEF VFork
  <2>2. ProcessTypeOK'
    BY <1>2 DEF VFork
  <2>3. /\ pid2' = [pid2 EXCEPT ![c] = NoPid]
        /\ cpc' = [cpc EXCEPT ![c] = "child"] \/ cpc' = cpc
        /\ UNCHANGED <<pidt, status, handle, daemon, spawner>>
    BY <1>2 DEF VFork
  <2>4. Owned' /\ HandleNamesDaemon'
    BY <2>1, <2>3
  <2>5. ASSUME NEW b \in Callers
        PROVE  Carried(b)'
    <3>1. CASE b = c
      BY <2>1, <2>3, <3>1
    <3>2. CASE b # c
      <4>1. cpc'[b] = cpc[b] /\ pid2'[b] = pid2[b]
        BY <2>3, <3>2
      <4> QED
        BY <2>3, <4>1
    <3> QED
      BY <3>1, <3>2
  <2> QED
    BY <2>2, <2>4, <2>5
<1>3. ASSUME NEW p \in Pids, DaemonExec(p) \/ DaemonExit(p)
      PROVE  SpawnInv'
  BY <1>3 DEF DaemonExec, DaemonExit
<1>4. CASE UNCHANGED procVars
  BY <1>4 DEF procVars
<1> QED
  BY <1>1, <1>2, <1>3, <1>4, ChildForkStep, HandOnStep, TermStep DEF ProcessNext

\* The invariant holds in every state of the program and its daemons.
THEOREM SpawnCorrect == ProcessSpec => []SpawnInv
<1>1. ProcessInit => SpawnInv
  <2>1. ProcessInit => ProcessTypeOK
    BY DEF ProcessInit, ProcessTypeOK
  <2>2. ProcessInit => Owned /\ \A c \in Callers : Carried(c)
    BY DEF ProcessInit, Owned, Carried
  <2>3. ProcessInit => HandleNamesDaemon
    BY Distinct DEF ProcessInit, HandleNamesDaemon
  <2> QED
    BY <2>1, <2>2, <2>3 DEF SpawnInv
<1> QED
  BY <1>1, SpawnStep, PTL DEF ProcessSpec

\* What ofc_process_exec_impl hands on as a pid is the pid of a daemon or 0.
THEOREM ProcessTypeCorrect == ProcessSpec => []ProcessTypeOK
<1>1. SpawnInv => ProcessTypeOK
  BY DEF SpawnInv
<1> QED
  BY <1>1, SpawnCorrect, PTL

\* ofc_process_exec_impl loses no daemon and gives no caller the handle of another
\* caller's, for any number of threads that spawn daemons at the same time.
THEOREM HandleNamesDaemonCorrect == ProcessSpec => []HandleNamesDaemon
<1>1. SpawnInv => HandleNamesDaemon
  BY DEF SpawnInv
<1> QED
  BY <1>1, SpawnCorrect, PTL
=============================================================================
