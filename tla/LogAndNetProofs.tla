--------------------------- MODULE LogAndNetProofs ---------------------------
(***************************************************************************)
(* Theorems about module LogAndNet, for any number of writers, clients,    *)
(* descriptors and interfaces: what the writers of the log do to the table *)
(* of descriptors, and what they cannot do to it as long as no two of them *)
(* have been in open_log at once.                                          *)
(***************************************************************************)
EXTENDS LogAndNet, FiniteSetTheorems, TLAPS

\* The part of the types that matters for the descriptors.
TableTypeOK ==
    /\ file \in [Fds -> {Log, NoFile} \cup Clients]
    /\ g_fd \in Fds \cup {STDOUT, -1}
    /\ target \in [Threads -> Fds \cup {STDOUT, -1}]
    /\ DOMAIN cpc = Threads
    /\ contended \in BOOLEAN
    /\ DOMAIN npc = Clients /\ DOMAIN sock = Clients

\* Unless a stale number has been closed under its owner's hands: g_fd is the log,
\* or somebody is about to make it so; a number that open has answered, and that is
\* not yet stored, is the log.
LogOrOpening ==
    mishaps \cap {"close", "steal"} = {} =>
        /\ \/ g_fd = STDOUT
           \/ FileAt(g_fd) = Log
           \/ \E t \in Threads : cpc[t] \in {"open", "store"}
           \/ g_fd = -1 /\ \E t \in Threads : cpc[t] = "fix" /\ target[t] = -1
        /\ \A t \in Threads : cpc[t] = "store" => target[t] = -1 \/ FileAt(target[t]) = Log

\* Without contention: one thread at most is in open_log, and before it has opened
\* the log there is none, neither in g_fd, nor in the table, nor in the hands of
\* another thread.
OneOpens ==
    /\ \A t, u \in Threads : (cpc[t] \in Opening /\ cpc[u] \in Opening) => t = u
    /\ \A t \in Threads : cpc[t] \in {"log", "open", "store"} => g_fd = STDOUT
    /\ \A t \in Threads : cpc[t] # "close"
    /\ \A t \in Threads : cpc[t] = "fix" => target[t] = g_fd
OneLog ==
    /\ \A d \in Fds : file[d] = Log =>
          g_fd = d \/ \E t \in Threads : cpc[t] = "store" /\ target[t] = d
    /\ g_fd \in Fds => file[g_fd] = Log
    /\ \A t \in Threads : target[t] \in Fds => target[t] = g_fd \/ cpc[t] = "store"
    /\ written => g_fd \in Fds

SharedInv ==
    /\ TableTypeOK /\ SocketIsOwn /\ LogOrOpening
    /\ ~contended => mishaps = {} /\ OneOpens /\ OneLog

\* The invariant holds at the start.
LEMMA SharedInitInv == SharedInit => SharedInv
<1> SUFFICES ASSUME SharedInit PROVE SharedInv
  OBVIOUS
<1> USE DEF SharedInit, ConsoleInit, NetInit, STDOUT
<1>1. TableTypeOK
  BY DEF TableTypeOK
<1>2. SocketIsOwn
  BY LogAndNetAssumption DEF SocketIsOwn, InQuery
<1>3. LogOrOpening
  BY DEF LogOrOpening
<1>4. OneOpens /\ OneLog
  BY ConsoleAssumption DEF OneOpens, OneLog, Opening
<1> QED
  BY <1>1, <1>2, <1>3, <1>4 DEF SharedInv

\* A step of a writer that changes neither the table nor g_fd, and takes a number
\* from g_fd at most.
LEMMA TestStep ==
    ASSUME SharedInv, NEW t \in Threads, Writes(WriteTest(t))
    PROVE  SharedInv'
<1> USE DEF SharedInv, Writes, WriteTest
<1>1. /\ UNCHANGED <<file, g_fd, target, written, mishaps, npc, sock>>
      /\ cpc[t] \in {"idle", "next"}
      /\ \/ g_fd = STDOUT /\ cpc' = [cpc EXCEPT ![t] = "log"]
            /\ contended' = (contended \/ OthersOpen(t))
         \/ g_fd # STDOUT /\ cpc' = [cpc EXCEPT ![t] = "write"] /\ contended' = contended
  BY DEF CallOrNext, netVars, clientVars
<1>2. TableTypeOK'
  BY <1>1 DEF TableTypeOK
<1>3. SocketIsOwn' /\ LogOrOpening'
  BY <1>1 DEF TableTypeOK, SocketIsOwn, LogOrOpening, FileAt
<1>4. ~contended' => OneOpens' /\ OneLog'
  <2>1. SUFFICES ASSUME ~contended' PROVE OneOpens' /\ OneLog'
    OBVIOUS
  <2>2. ~contended /\ OneOpens /\ OneLog
    BY <1>1, <2>1 DEF TableTypeOK
  <2>3. g_fd = STDOUT => \A u \in Threads \ {t} : cpc[u] \notin Opening
    BY <1>1, <2>1 DEF OthersOpen, TableTypeOK
  <2> QED
    BY <1>1, <2>2, <2>3 DEF TableTypeOK, OneOpens, OneLog, Opening
<1>5. ~contended' => mishaps' = {}
  BY <1>1 DEF TableTypeOK
<1> QED
  BY <1>2, <1>3, <1>4, <1>5

LEMMA LineStepQuiet ==
    ASSUME SharedInv, NEW t \in Threads, Writes(OpenLog(t)) \/ Writes(WriteLoad(t))
    PROVE  SharedInv'
<1> USE DEF SharedInv, Writes, TableTypeOK
<1>1. /\ UNCHANGED <<file, g_fd, written, mishaps, contended, npc, sock>>
      /\ target' = [target EXCEPT ![t] = g_fd]
      /\ \E to \in {"write", "writing", "close", "open"} :
            /\ cpc' = [cpc EXCEPT ![t] = to]
            /\ cpc[t] \in {"log", "write"}
            /\ to \in {"close", "open"} => cpc[t] = "log"
            /\ to = "close" => g_fd # STDOUT
            /\ to = "open" => g_fd = STDOUT
  BY DEF OpenLog, WriteLoad, Step, netVars, clientVars
<1>2. TableTypeOK'
  BY <1>1
<1>3. SocketIsOwn' /\ LogOrOpening'
  BY <1>1 DEF SocketIsOwn, LogOrOpening, FileAt
<1>4. ~contended => OneOpens' /\ OneLog'
  BY <1>1 DEF OneOpens, OneLog, Opening
<1> QED
  BY <1>1, <1>2, <1>3, <1>4

\* close: harmless for the clients, unless it is counted as a mishap.
LEMMA CloseStep ==
    ASSUME SharedInv, NEW t \in Threads, Writes(OpenLogClose(t))
    PROVE  SharedInv'
<1> USE DEF SharedInv, Writes, TableTypeOK
<1>1. PICK d \in {target[t], g_fd} : CloseFd(d) /\ mishaps' = mishaps \cup Harm(t, d)
  BY DEF OpenLogClose
<1>2. /\ UNCHANGED <<g_fd, written, contended, npc, sock>>
      /\ target' = [target EXCEPT ![t] = STDOUT]
      /\ cpc[t] = "close" /\ cpc' = [cpc EXCEPT ![t] = "open"]
  BY DEF OpenLogClose, Step, Forget, netVars, clientVars
<1>3. \A e \in Fds : file'[e] = IF e = d THEN NoFile ELSE file[e]
  BY <1>1 DEF CloseFd
<1>4. TableTypeOK'
  BY <1>1, <1>2 DEF CloseFd
<1>5. SocketIsOwn'
  <2>1. SUFFICES ASSUME "close" \notin mishaps', NEW c \in Clients
                 PROVE  /\ npc[c] \in InQuery => FileAt(sock[c])' = c
                        /\ \A e \in Fds : file'[e] = c => npc[c] \in InQuery /\ sock[c] = e
    BY <1>2 DEF SocketIsOwn
  <2>2. "close" \notin mishaps /\ FileAt(d) \in {Log, NoFile}
    BY <1>1, <2>1 DEF Harm
  <2>3. d \in Fds => file[d] # c
    BY <2>2, LogAndNetAssumption DEF FileAt
  <2> QED
    BY <1>2, <1>3, <2>2, <2>3, LogAndNetAssumption DEF SocketIsOwn, FileAt
<1>6. LogOrOpening'
  <2>1. SUFFICES ASSUME mishaps' \cap {"close", "steal"} = {},
                        NEW u \in Threads, cpc'[u] = "store"
                 PROVE  target'[u] = -1 \/ FileAt(target[u])' = Log
    BY <1>2 DEF LogOrOpening
  <2>2. u # t /\ cpc[u] = "store" /\ target'[u] = target[u]
    BY <1>2, <2>1
  <2>3. target[u] = -1 \/ FileAt(target[u]) = Log
    BY <1>1, <2>1, <2>2 DEF LogOrOpening
  <2>4. FileAt(target[u]) = Log => target[u] # d
    BY <1>1, <2>1, <2>2 DEF Harm, Unstored
  <2> QED
    BY <1>3, <2>2, <2>3, <2>4, ConsoleAssumption DEF FileAt
<1>7. contended
  BY <1>2 DEF OneOpens
<1> QED
  BY <1>2, <1>4, <1>5, <1>6, <1>7

\* open: on a number that is nobody's.
LEMMA OpenStep ==
    ASSUME SharedInv, NEW t \in Threads, Writes(OpenLogOpen(t))
    PROVE  SharedInv'
<1> USE DEF SharedInv, Writes, TableTypeOK
<1>1. /\ UNCHANGED <<g_fd, contended, npc, sock>>
      /\ cpc[t] = "open" /\ cpc' = [cpc EXCEPT ![t] = "store"]
      /\ mishaps' \in {mishaps, mishaps \cup {"truncate"}}
      /\ ~written => mishaps' = mishaps
  BY DEF OpenLogOpen, Step, netVars, clientVars
<1>2. ~contended => g_fd = STDOUT /\ STDOUT \notin Fds
  BY <1>1, ConsoleAssumption DEF OneOpens
<1>3. ~contended => mishaps' = {} /\ OneOpens'
  BY <1>1, <1>2 DEF OneOpens, OneLog, Opening
<1>4. CASE \E d \in Fds : OpenFd(d, Log) /\ target' = [target EXCEPT ![t] = d]
                            /\ written' = FALSE
  <2>1. PICK d \in Fds : OpenFd(d, Log) /\ target' = [target EXCEPT ![t] = d]
                            /\ written' = FALSE
    BY <1>4
  <2>2. /\ file[d] = NoFile
        /\ file' = [file EXCEPT ![d] = Log]
    BY <2>1 DEF OpenFd, NextFd
  <2>3. TableTypeOK'
    BY <1>1, <2>1, <2>2
  <2>4. SocketIsOwn'
    BY <1>1, <2>2, LogAndNetAssumption DEF SocketIsOwn, FileAt
  <2>5. LogOrOpening'
    BY <1>1, <2>1, <2>2, DescriptorsAssumption DEF LogOrOpening, FileAt
  <2>6. ~contended => OneLog'
    BY <1>1, <1>2, <2>1, <2>2 DEF OneLog
  <2> QED
    BY <1>1, <1>3, <2>3, <2>4, <2>5, <2>6
<1>5. CASE target' = [target EXCEPT ![t] = -1] /\ UNCHANGED <<file, written, mishaps>>
  <2>1. TableTypeOK'
    BY <1>1, <1>5
  <2>2. SocketIsOwn' /\ LogOrOpening'
    BY <1>1, <1>5 DEF SocketIsOwn, LogOrOpening, FileAt
  <2>3. -1 \notin Fds
    BY DescriptorsAssumption
  <2>4. ~contended => OneLog'
    BY <1>1, <1>2, <1>5, <2>3 DEF OneLog
  <2> QED
    BY <1>1, <1>3, <2>1, <2>2, <2>4
<1> QED
  BY <1>4, <1>5 DEF OpenLogOpen

\* The store to g_fd of what open has answered.
LEMMA StoreStep ==
    ASSUME SharedInv, NEW t \in Threads, Writes(OpenLogStore(t))
    PROVE  SharedInv'
<1> USE DEF SharedInv, Writes, TableTypeOK
<1>1. /\ UNCHANGED <<file, target, written, mishaps, contended, npc, sock>>
      /\ cpc[t] = "store" /\ cpc' = [cpc EXCEPT ![t] = "fix"]
      /\ g_fd' = target[t]
  BY DEF OpenLogStore, Step, netVars, clientVars
<1>2. TableTypeOK'
  BY <1>1
<1>3. SocketIsOwn' /\ LogOrOpening'
  BY <1>1 DEF SocketIsOwn, LogOrOpening, FileAt
<1>4. ~contended => OneOpens' /\ OneLog'
  <2>1. SUFFICES ASSUME ~contended PROVE OneOpens' /\ OneLog'
    OBVIOUS
  <2>2. g_fd = STDOUT /\ STDOUT \notin Fds
    BY <1>1, <2>1, ConsoleAssumption DEF OneOpens
  <2>3. \A u \in Threads \ {t} : cpc[u] \notin Opening
    BY <1>1, <2>1 DEF OneOpens, Opening
  <2>4. OneOpens'
    BY <1>1, <2>3 DEF OneOpens, Opening
  <2>5. \A u \in Threads \ {t} : target[u] \notin Fds
    BY <2>1, <2>2, <2>3 DEF OneLog, Opening
  <2>6. target[t] \in Fds => file[target[t]] = Log
    BY <1>1, <2>1, DescriptorsAssumption DEF LogOrOpening, FileAt
  <2>7. OneLog'
    BY <1>1, <2>1, <2>2, <2>3, <2>5, <2>6 DEF OneLog, Opening
  <2> QED
    BY <2>4, <2>7
<1> QED
  BY <1>1, <1>2, <1>3, <1>4

LEMMA FixStep ==
    ASSUME SharedInv, NEW t \in Threads, Writes(OpenLogFix(t))
    PROVE  SharedInv'
<1> USE DEF SharedInv, Writes, TableTypeOK
<1>1. /\ UNCHANGED <<file, written, mishaps, contended, npc, sock>>
      /\ target' = [target EXCEPT ![t] = STDOUT]
      /\ cpc[t] = "fix" /\ cpc' = [cpc EXCEPT ![t] = "next"]
  BY DEF OpenLogFix, Step, Forget, netVars, clientVars
<1>2. \/ g_fd' = g_fd /\ (g_fd = -1 => target[t] # -1)
      \/ g_fd' = STDOUT /\ -1 \in {target[t], g_fd}
  <2>1. PICK d \in {target[t], g_fd} : g_fd' = IF d < 0 THEN STDOUT ELSE g_fd
    BY DEF OpenLogFix
  <2>2. d \in Nat \cup {-1}
    BY <2>1, DescriptorsAssumption DEF STDOUT
  <2> QED
    BY <2>1, <2>2
<1>3. TableTypeOK'
  BY <1>1, <1>2
<1>4. SocketIsOwn' /\ LogOrOpening'
  BY <1>1, <1>2 DEF SocketIsOwn, LogOrOpening, FileAt
<1>5. ~contended => OneOpens' /\ OneLog'
  <2>1. SUFFICES ASSUME ~contended PROVE OneOpens' /\ OneLog'
    OBVIOUS
  <2>2. STDOUT \notin Fds /\ -1 \notin Fds
    BY ConsoleAssumption, DescriptorsAssumption
  <2>3. g_fd' = g_fd \/ (g_fd' = STDOUT /\ g_fd = -1)
    BY <1>1, <1>2, <2>1 DEF OneOpens
  <2>4. OneOpens'
    BY <1>1, <2>1, <2>3 DEF OneOpens, Opening
  <2>5. OneLog'
    BY <1>1, <2>1, <2>2, <2>3 DEF OneLog
  <2> QED
    BY <2>4, <2>5
<1> QED
  BY <1>1, <1>3, <1>4, <1>5

\* write: a number that has been read is the log's, unless somebody has been there.
LEMMA LineStepKeeps ==
    ASSUME SharedInv, NEW t \in Threads, Writes(WriteLine(t))
    PROVE  SharedInv'
<1> USE DEF SharedInv, Writes, TableTypeOK
<1>1. /\ UNCHANGED <<file, g_fd, contended, npc, sock>>
      /\ target' = [target EXCEPT ![t] = STDOUT]
      /\ cpc[t] = "writing"
      /\ \E to \in {"idle", "next", "write"} : cpc' = [cpc EXCEPT ![t] = to]
      /\ written' = (written \/ FileAt(target[t]) = Log)
      /\ mishaps' = IF FileAt(target[t]) \in {Log, NoFile} THEN mishaps
                                                      ELSE mishaps \cup {"write"}
  BY DEF WriteLine, Step, Forget, netVars, clientVars
<1>2. TableTypeOK'
  BY <1>1
<1>3. SocketIsOwn' /\ LogOrOpening'
  BY <1>1 DEF SocketIsOwn, LogOrOpening, FileAt
<1>4. ~contended => mishaps' = {} /\ OneOpens' /\ OneLog'
  <2>1. SUFFICES ASSUME ~contended PROVE mishaps' = {} /\ OneOpens' /\ OneLog'
    OBVIOUS
  <2>2. STDOUT \notin Fds
    BY ConsoleAssumption
  <2>3. target[t] \in Fds => FileAt(target[t]) = Log /\ g_fd \in Fds
    BY <1>1, <2>1 DEF OneLog, FileAt
  <2>4. target[t] \notin Fds => FileAt(target[t]) = NoFile
    BY DEF FileAt
  <2>5. mishaps' = {}
    BY <1>1, <2>1, <2>3, <2>4
  <2>6. OneOpens'
    BY <1>1, <2>1 DEF OneOpens, Opening
  <2>7. OneLog'
    BY <1>1, <2>1, <2>2, <2>3, <2>4, ConsoleAssumption DEF OneLog
  <2> QED
    BY <2>5, <2>6, <2>7
<1> QED
  BY <1>1, <1>2, <1>3, <1>4

\* A step that touches neither the table nor what the writers know of it.
LEMMA OtherStep ==
    ASSUME SharedInv,
           UNCHANGED <<file, sock, g_fd, target, cpc, written, contended, mishaps>>,
           \/ UNCHANGED npc
           \/ \E c \in Clients : \E to \in InQuery :
                 npc[c] \in InQuery /\ npc' = [npc EXCEPT ![c] = to]
    PROVE  SharedInv'
<1> USE DEF SharedInv, TableTypeOK
<1>1. TableTypeOK'
  OBVIOUS
<1>2. SocketIsOwn'
  BY DEF SocketIsOwn, FileAt
<1>3. LogOrOpening'
  BY DEF LogOrOpening, FileAt
<1>4. OneOpens /\ OneLog => OneOpens' /\ OneLog'
  BY DEF OneOpens, OneLog
<1> QED
  BY <1>1, <1>2, <1>3, <1>4

\* A client's step outside its query, before the socket or after it.
LEMMA OutsideStep ==
    ASSUME SharedInv, UNCHANGED <<file, sock, g_fd, target, cpc, written, contended, mishaps>>,
           NEW c \in Clients, npc[c] \notin InQuery,
           NEW to, to \notin InQuery, npc' = [npc EXCEPT ![c] = to]
    PROVE  SharedInv'
<1> USE DEF SharedInv, TableTypeOK
<1>1. TableTypeOK'
  OBVIOUS
<1>2. SocketIsOwn'
  BY DEF SocketIsOwn, FileAt
<1>3. LogOrOpening'
  BY DEF LogOrOpening, FileAt
<1>4. OneOpens /\ OneLog => OneOpens' /\ OneLog'
  BY DEF OneOpens, OneLog
<1> QED
  BY <1>1, <1>2, <1>3, <1>4

\* A client opens its socket, on a number that is nobody's, and closes it.
LEMMA SocketStep ==
    ASSUME SharedInv, NEW c \in Clients, Asks(OpenSocket(c)) \/ Asks(CloseSocket(c))
    PROVE  SharedInv'
<1> USE DEF SharedInv, TableTypeOK
<1>1. UNCHANGED <<g_fd, target, cpc, written, contended, mishaps>>
  BY DEF Asks, consoleVars
<1>2. CASE \E d \in Fds : OpenFd(d, c) /\ sock' = [sock EXCEPT ![c] = d]
                            /\ npc[c] = "socket" /\ npc' = [npc EXCEPT ![c] = "conf"]
  <2>1. PICK d \in Fds : OpenFd(d, c) /\ sock' = [sock EXCEPT ![c] = d]
                            /\ npc[c] = "socket" /\ npc' = [npc EXCEPT ![c] = "conf"]
    BY <1>2
  <2>2. file[d] = NoFile /\ file' = [file EXCEPT ![d] = c]
    BY <2>1 DEF OpenFd, NextFd
  <2>3. TableTypeOK'
    BY <1>1, <2>1, <2>2
  <2>4. SocketIsOwn'
    BY <1>1, <2>1, <2>2, LogAndNetAssumption DEF SocketIsOwn, FileAt, InQuery
  <2>5. LogOrOpening'
    BY <1>1, <2>2, ConsoleAssumption DEF LogOrOpening, FileAt
  <2>6. OneOpens /\ OneLog => OneOpens' /\ OneLog'
    BY <1>1, <2>2, ConsoleAssumption, LogAndNetAssumption DEF OneOpens, OneLog
  <2> QED
    BY <1>1, <2>3, <2>4, <2>5, <2>6
<1>3. CASE npc[c] = "socket" /\ npc' = [npc EXCEPT ![c] = "return"] /\ UNCHANGED <<file, sock>>
  BY <1>1, <1>3, OutsideStep DEF InQuery
<1>4. CASE npc[c] = "close" /\ npc' = [npc EXCEPT ![c] = "return"] /\ CloseFd(sock[c])
           /\ sock' = [sock EXCEPT ![c] = NONE]
  <2>1. \A e \in Fds : file'[e] = IF e = sock[c] THEN NoFile ELSE file[e]
    BY <1>4 DEF CloseFd
  <2>2. TableTypeOK'
    BY <1>1, <1>4 DEF CloseFd
  <2>3. "close" \notin mishaps => \A e \in Fds : file[e] = Log => file'[e] = Log
    BY <1>4, <2>1, LogAndNetAssumption DEF SocketIsOwn, FileAt, InQuery
  <2>4. SocketIsOwn'
    BY <1>1, <1>4, <2>1, LogAndNetAssumption DEF SocketIsOwn, FileAt, InQuery
  <2>5. LogOrOpening'
    BY <1>1, <2>3, ConsoleAssumption DEF LogOrOpening, FileAt
  <2>6. ~contended => OneOpens' /\ OneLog'
    BY <1>1, <2>1, <2>3, ConsoleAssumption DEF OneOpens, OneLog
  <2> QED
    BY <1>1, <2>2, <2>4, <2>5, <2>6
<1> QED
  BY <1>2, <1>3, <1>4 DEF Asks, OpenSocket, CloseSocket, NetStep

LEMMA ClientStepKeeps ==
    ASSUME SharedInv, NEW c \in Clients, Asks(ClientStep(c))
    PROVE  SharedInv'
<1>1. UNCHANGED <<g_fd, target, cpc, written, contended, mishaps>>
  BY DEF Asks, consoleVars
<1>2. CASE CallCount(c) \/ CallAddr(c) \/ EnumDone(c) \/ Return(c)
  BY <1>1, <1>2, OutsideStep DEF CallCount, CallAddr, EnumDone, Return, NetStep, InQuery
<1>3. CASE ScanEnd(c)
           \/ Ask(c, "addr", "mask") \/ Ask(c, "mask", "bcast") \/ Ask(c, "bcast", "close")
  BY <1>1, <1>3, OtherStep DEF ScanEnd, Ask, NetStep, InQuery
<1>4. CASE GetList(c) \/ ScanEntry(c)
  <2>1. \E to \in {"addr", "scan", "close"} : npc' = [npc EXCEPT ![c] = to]
    BY <1>4 DEF GetList, ScanEntry, NetStep
  <2> QED
    BY <1>1, <1>4, <2>1, OtherStep DEF GetList, ScanEntry, NetStep, InQuery
<1>5. CASE OpenSocket(c) \/ CloseSocket(c)
  BY <1>5, SocketStep DEF Asks
<1> QED
  BY <1>2, <1>3, <1>4, <1>5 DEF Asks, ClientStep

\* Every step keeps the invariant.
LEMMA SharedStep ==
    ASSUME SharedInv, [SharedNext]_sharedVars
    PROVE  SharedInv'
<1>1. CASE Writes(ofc_set_config_dir)
  BY <1>1, OtherStep DEF Writes, ofc_set_config_dir, netVars, clientVars
<1>2. ASSUME NEW t \in Threads, Writes(WriteTest(t) \/ LineStep(t))
      PROVE  SharedInv'
  BY <1>2, TestStep, LineStepQuiet, CloseStep, OpenStep, StoreStep, FixStep,
     LineStepKeeps DEF Writes, LineStep
<1>3. CASE \E c \in Clients : Asks(ClientStep(c))
  BY <1>3, ClientStepKeeps
<1>4. CASE Asks(SystemStep)
  <2>1. UNCHANGED <<file, npc, sock, g_fd, target, cpc, written, contended, mishaps>>
    BY <1>4 DEF Asks, consoleVars, SystemStep, InterfaceAppears, InterfaceVanishes,
           InterfaceUpDown, AddressChanges, Changed, clientVars
  <2> QED
    BY <2>1, OtherStep
<1>5. CASE UNCHANGED sharedVars
  BY <1>5, OtherStep DEF sharedVars, consoleVars, netVars, clientVars
<1> QED
  BY <1>1, <1>2, <1>3, <1>4, <1>5 DEF SharedNext, ConsoleStep, Writes

\* The invariant holds in every state of every behaviour.
THEOREM SharedCorrect == SharedSpec => []SharedInv
<1> QED
  BY SharedInitInv, SharedStep, PTL DEF SharedSpec

\* As long as no two threads have been in open_log at once, no line and no close goes
\* to a descriptor of somebody else, and no log with lines in it is emptied.
THEOREM OthersAreSafeCorrect == SharedSpec => []OthersAreSafe
<1>1. SharedInv => OthersAreSafe
  BY DEF SharedInv, OthersAreSafe
<1> QED
  BY <1>1, SharedCorrect, PTL

\* When open_log has been left by all, g_fd is an open log or the standard output,
\* however many threads have been in it, as long as no thread with a stale number
\* has closed a descriptor that is not the log's, or a log not yet stored in g_fd.
THEOREM LogIsOpenCorrect == SharedSpec => []LogIsOpen
<1>1. SharedInv => LogIsOpen
  BY DEF SharedInv, LogOrOpening, LogIsOpen, Opening
<1> QED
  BY <1>1, SharedCorrect, PTL

\* A client's socket is its own from the first ioctl to the close, and closed then, as
\* long as no writer of the log has closed a descriptor that is not the log's.
THEOREM SocketIsOwnCorrect == SharedSpec => []SocketIsOwn
<1>1. SharedInv => SocketIsOwn
  BY DEF SharedInv
<1> QED
  BY <1>1, SharedCorrect, PTL

-----------------------------------------------------------------------------
(***************************************************************************)
(* The types of the log and of the interface queries, and the addresses of *)
(* the libraries, which are stored one after the other, each as it is.     *)
(***************************************************************************)
AddressesLoaded == \A l \in Libs : load_addr[l] \in {0, LoadAddr[l]}
ConsoleInv == ConsoleTypeOK /\ AddressesLoaded

\* An open_log has a header and two lines to write.
LEMMA HeaderFacts == Header \in Nat /\ Header > 0
<1>1. IsFiniteSet(Libs)
  <2>1. IsFiniteSet({"core"}) /\ IsFiniteSet({"smb"})
    BY FS_Singleton
  <2>2. Libs = {"core"} \cup {"smb"}
    BY DEF Libs
  <2> QED
    BY <2>1, <2>2, FS_Union
<1>2. Cardinality(Libs) \in Nat
  BY <1>1, FS_CardinalityType
<1> QED
  BY <1>2 DEF Header

\* The last step of a line: back to the caller, to the next line of the open_log or
\* out of it.
LEMMA WriteLineTyped ==
    ASSUME ConsoleInv, NEW t \in Threads, WriteLine(t)
    PROVE  ConsoleInv'
<1> USE HeaderFacts DEF ConsoleInv, ConsoleTypeOK
<1>1. /\ UNCHANGED <<g_fd, configured, lines, fails, contended>>
      /\ target' = [target EXCEPT ![t] = STDOUT]
      /\ written' \in BOOLEAN /\ mishaps' \subseteq {"close", "steal", "write", "truncate"}
      /\ cpc[t] = "writing"
  BY DEF WriteLine, Forget
<1>2. CASE owed[t] = <<>> /\ Step(t, "writing", "idle") /\ UNCHANGED <<owed, load_addr>>
  BY <1>1, <1>2 DEF Step, AddressesLoaded
<1>3. CASE /\ owed[t] # <<>> /\ Head(owed[t]) > 0
           /\ Step(t, "writing", "next")
           /\ owed' = [owed EXCEPT ![t] = <<Head(@) - 1>> \o Tail(@)]
           /\ load_addr' = [load_addr EXCEPT ![Dumped(Head(owed[t]))] =
                               LoadAddr[Dumped(Head(owed[t]))]]
  <2>1. /\ Head(owed[t]) - 1 \in 0..Header - 1
        /\ Tail(owed[t]) \in Seq(0..Header - 1)
    BY <1>3
  <2>2. <<Head(owed[t]) - 1>> \o Tail(owed[t]) \in Seq(0..Header - 1)
    BY <2>1
  <2>3. Dumped(Head(owed[t])) \in Libs
    BY DEF Dumped, Libs
  <2>4. load_addr' \in [Libs -> Nat] /\ AddressesLoaded'
    BY <1>3, <2>3, ConsoleAssumption DEF AddressesLoaded
  <2> QED
    BY <1>1, <1>3, <2>2, <2>4 DEF Step
<1>4. CASE /\ owed[t] # <<>> /\ Head(owed[t]) = 0
           /\ Step(t, "writing", "write")
           /\ owed' = [owed EXCEPT ![t] = Tail(@)]
           /\ UNCHANGED load_addr
  <2>1. Tail(owed[t]) \in Seq(0..Header - 1)
    BY <1>4
  <2> QED
    BY <1>1, <1>4, <2>1 DEF Step, AddressesLoaded
<1> QED
  BY <1>2, <1>3, <1>4 DEF WriteLine

\* Every step of a writer keeps the types of the log.
LEMMA ConsoleStepTyped ==
    ASSUME ConsoleInv, [ConsoleStep]_consoleVars
    PROVE  ConsoleInv'
<1> USE ConsoleAssumption DEF ConsoleInv, ConsoleTypeOK, AddressesLoaded, Opening
<1>1. CASE ofc_set_config_dir
  BY <1>1 DEF ofc_set_config_dir
<1>2. ASSUME NEW t \in Threads, WriteTest(t) PROVE ConsoleInv'
  <2>1. contended' \in BOOLEAN
    BY <1>2, Zenon DEF WriteTest, OthersOpen
  <2>2. /\ \E to \in {"log", "write"} : cpc' = [cpc EXCEPT ![t] = to]
        /\ UNCHANGED <<g_fd, configured, owed, target, fails, load_addr, written, mishaps>>
    BY <1>2 DEF WriteTest
  <2>3. lines' \in [Threads -> Nat]
    <3>1. CallOrNext(t)
      BY <1>2 DEF WriteTest
    <3>2. lines \in [Threads -> Nat]
      OBVIOUS
    <3>3. CASE UNCHANGED lines
      BY <3>2, <3>3
    <3>4. CASE lines[t] > 0 /\ lines' = [lines EXCEPT ![t] = @ - 1]
      <4>1. lines[t] - 1 \in Nat
        BY <3>2, <3>4
      <4> QED
        BY <3>2, <3>4, <4>1
    <3> QED
      BY <3>1, <3>3, <3>4 DEF CallOrNext
  <2>4. cpc' \in [Threads -> Opening \cup {"idle", "next", "write", "writing"}]
    BY SMT, <2>2
  <2> QED
    BY Zenon, <2>1, <2>2, <2>3, <2>4
<1>3. ASSUME NEW t \in Threads, OpenLog(t) PROVE ConsoleInv'
  BY <1>3 DEF OpenLog, Step
<1>4. ASSUME NEW t \in Threads, OpenLogClose(t) PROVE ConsoleInv'
  BY <1>4 DEF OpenLogClose, Step, Forget, Harm
<1>5. ASSUME NEW t \in Threads, OpenLogOpen(t) \/ OpenLogStore(t) PROVE ConsoleInv'
  <2>1. g_fd' \in Fds \cup {STDOUT, -1} /\ fails' \in 0..MaxFails
    BY <1>5 DEF OpenLogOpen, OpenLogStore
  <2>2. target' \in [Threads -> Fds \cup {STDOUT, -1}]
    BY <1>5 DEF OpenLogOpen, OpenLogStore
  <2> QED
    BY <1>5, <2>1, <2>2 DEF OpenLogOpen, OpenLogStore, Step
<1>6. ASSUME NEW t \in Threads, OpenLogFix(t) PROVE ConsoleInv'
  <2>1. Header - 1 \in 0..Header - 1
    BY HeaderFacts
  <2>2. <<Header - 1>> \o owed[t] \in Seq(0..Header - 1)
    BY <2>1
  <2>3. g_fd' \in Fds \cup {STDOUT, -1}
    BY <1>6 DEF OpenLogFix
  <2> QED
    BY <1>6, <2>2, <2>3 DEF OpenLogFix, Step, Forget
<1>7. ASSUME NEW t \in Threads, WriteLoad(t) PROVE ConsoleInv'
  BY <1>7 DEF WriteLoad, Step
<1>8. CASE UNCHANGED consoleVars
  BY <1>8 DEF consoleVars
<1> QED
  BY <1>1, <1>2, <1>3, <1>4, <1>5, <1>6, <1>7, <1>8, WriteLineTyped DEF ConsoleStep, LineStep

\* The types of the log hold, and a load address is its library's or not known yet.
THEOREM ConsoleCorrect == SharedSpec => []ConsoleInv
<1>1. SharedInit => ConsoleInv
  <2>1. \A n \in 0..MaxLines : n \in Nat
    BY ConsoleAssumption
  <2>2. SharedInit => AddressesLoaded
    BY DEF SharedInit, ConsoleInit, AddressesLoaded
  <2>3. SharedInit => ConsoleTypeOK
    <3> SUFFICES ASSUME ConsoleInit PROVE ConsoleTypeOK
      BY DEF SharedInit
    <3>1. <<>> \in Seq(0..Header - 1)
      OBVIOUS
    <3>2. lines \in [Threads -> Nat]
      BY <2>1 DEF ConsoleInit
    <3>3. load_addr \in [Libs -> Nat]
      BY DEF ConsoleInit
    <3>4. owed \in [Threads -> Seq(0..Header - 1)] /\ \A t \in Threads : owed[t] = <<>>
      BY <3>1 DEF ConsoleInit
    <3> QED
      BY <3>2, <3>3, <3>4 DEF ConsoleInit, ConsoleTypeOK
  <2> QED
    BY <2>2, <2>3 DEF ConsoleInv
<1>2. [SharedNext]_sharedVars => [ConsoleStep]_consoleVars
  BY DEF SharedNext, Writes, Asks, sharedVars
<1> QED
  BY <1>1, <1>2, ConsoleStepTyped, PTL DEF SharedSpec

\* The variables of the log and its writers keep their types: open_log calls itself,
\* but returns from each call to the line that is next in the one above it.
THEOREM ConsoleTypeCorrect == SharedSpec => []ConsoleTypeOK
<1>1. ConsoleInv => ConsoleTypeOK
  BY DEF ConsoleInv
<1> QED
  BY <1>1, ConsoleCorrect, PTL

\* ofc_process_relative_addr_impl never gives an address inside one library as an
\* offset in the other, at whatever point of the dump it is called, wherever the
\* libraries are loaded.
THEOREM AddressesTellLibraryCorrect == SharedSpec => []AddressesTellLibrary
<1>1. ConsoleInv => AddressesTellLibrary
  <2> SUFFICES ASSUME AddressesLoaded, NEW l \in Libs,
                      NEW ptr \in LoadAddr[l] + 1 .. LoadAddr[l] + LibSize
               PROVE  ofc_process_relative_addr_impl(ptr) \in {<<>>, <<l, ptr - LoadAddr[l]>>}
    BY DEF ConsoleInv, AddressesTellLibrary
  <2>1. CASE \E k \in Libs : load_addr[k] = 0
    <3>1. load_addr["core"] = 0 \/ load_addr["smb"] = 0
      BY <2>1 DEF Libs
    <3>2. CASE load_addr["core"] > load_addr["smb"]
      BY <3>1, <3>2 DEF ofc_process_relative_addr_impl
    <3>3. CASE ~(load_addr["core"] > load_addr["smb"])
      BY <3>1, <3>3 DEF ofc_process_relative_addr_impl
    <3> QED
      BY <3>2, <3>3
  <2>2. CASE \A k \in Libs : load_addr[k] = LoadAddr[k]
    <3>1. /\ LoadAddr["core"] \in Nat \ {0} /\ LoadAddr["smb"] \in Nat \ {0} /\ LibSize \in Nat
          /\ \/ LoadAddr["core"] + LibSize < LoadAddr["smb"]
             \/ LoadAddr["smb"] + LibSize < LoadAddr["core"]
      BY ConsoleAssumption DEF Libs
    <3>2. load_addr["core"] = LoadAddr["core"] /\ load_addr["smb"] = LoadAddr["smb"]
      BY <2>2 DEF Libs
    <3>3. \A k \in Libs : load_addr[k] # 0
      BY <3>1, <3>2 DEF Libs
    <3>4. CASE l = "core"
      BY <3>1, <3>2, <3>3, <3>4 DEF ofc_process_relative_addr_impl
    <3>5. CASE l = "smb"
      BY <3>1, <3>2, <3>3, <3>5 DEF ofc_process_relative_addr_impl
    <3> QED
      BY <3>4, <3>5 DEF Libs
  <2> QED
    BY <2>1, <2>2 DEF AddressesLoaded
<1> QED
  BY <1>1, ConsoleCorrect, PTL

-----------------------------------------------------------------------------
(***************************************************************************)
(* The types of the interfaces and their clients.                          *)
(***************************************************************************)
\* What has been left out or put in leaves a sequence of interfaces.
LEMMA SystemTyped ==
    ASSUME NetTypeOK, SystemStep
    PROVE  NetTypeOK'
<1> USE DEF NetTypeOK
<1>1. /\ changes' \in 0..MaxChanges
      /\ UNCHANGED clientVars
      /\ up' \subseteq Ifs
      /\ version' \in [Ifs -> Nat]
  <2>1. PICK n \in Ifs : InterfaceAppears(n) \/ InterfaceVanishes(n)
                            \/ InterfaceUpDown(n) \/ AddressChanges(n)
    BY DEF SystemStep
  <2>2. changes' \in 0..MaxChanges /\ UNCHANGED clientVars
    <3>1. Changed
      BY <2>1 DEF InterfaceAppears, InterfaceVanishes, InterfaceUpDown, AddressChanges
    <3> QED
      BY <3>1, NetAssumption DEF Changed
  <2>3. up' \subseteq Ifs
    BY <2>1 DEF InterfaceAppears, InterfaceVanishes, InterfaceUpDown, AddressChanges
  <2>4. version' = version \/ version' = [version EXCEPT ![n] = @ + 1]
    BY <2>1 DEF InterfaceAppears, InterfaceVanishes, InterfaceUpDown, AddressChanges
  <2> QED
    BY <2>2, <2>3, <2>4
<1>2. table' \in Seq(Ifs)
  <2>1. ASSUME NEW n \in Ifs, InterfaceAppears(n) PROVE table' \in Seq(Ifs)
    <3>1. PICK i \in 0..Len(table) :
             table' = SubSeq(table, 1, i) \o <<n>> \o SubSeq(table, i + 1, Len(table))
      BY <2>1 DEF InterfaceAppears
    <3>2. SubSeq(table, 1, i) \in Seq(Ifs) /\ SubSeq(table, i + 1, Len(table)) \in Seq(Ifs)
      OBVIOUS
    <3> QED
      BY <3>1, <3>2
  <2>2. ASSUME NEW n \in Ifs, InterfaceVanishes(n) PROVE table' \in Seq(Ifs)
    <3>1. PICK i \in 1..Len(table) :
             table' = SubSeq(table, 1, i - 1) \o SubSeq(table, i + 1, Len(table))
      BY <2>2 DEF InterfaceVanishes
    <3>2. SubSeq(table, 1, i - 1) \in Seq(Ifs) /\ SubSeq(table, i + 1, Len(table)) \in Seq(Ifs)
      OBVIOUS
    <3> QED
      BY <3>1, <3>2
  <2> QED
    BY <2>1, <2>2 DEF SystemStep, InterfaceUpDown, AddressChanges
<1> QED
  BY <1>1, <1>2 DEF clientVars

\* A client keeps to its types: what it asks the system about is in its list.
LEMMA ClientTyped ==
    ASSUME NetTypeOK, NEW t \in Clients, ClientStep(t)
    PROVE  NetTypeOK'
<1> USE DEF NetTypeOK, NetStep, systemVars, InQuery, Answer, Count, NONE
<1>1. CASE CallCount(t)
  <2>1. enums' \in [Clients -> Nat]
    <3>1. enums[t] - 1 \in Nat /\ enums' = [enums EXCEPT ![t] = @ - 1]
      BY <1>1 DEF CallCount
    <3> QED
      BY <3>1
  <2>2. answers' \in [Clients -> Seq(Addresses)]
    <3>1. <<>> \in Seq(Addresses) /\ answers' = [answers EXCEPT ![t] = <<>>]
      BY <1>1 DEF CallCount
    <3> QED
      BY <3>1
  <2>3. since' \in [Clients -> 0..MaxChanges \cup {NONE}]
    BY <1>1 DEF CallCount
  <2>4. npc' = [npc EXCEPT ![t] = "socket"] /\ index' = [index EXCEPT ![t] = -1]
        /\ UNCHANGED <<systemVars, sock, snap, max_count, ans, number>>
    BY <1>1 DEF CallCount
  <2> QED
    BY <2>1, <2>2, <2>3, <2>4
<1>2. CASE CallAddr(t)
  BY <1>2 DEF CallAddr
<1>3. CASE EnumDone(t) \/ ScanEnd(t)
  BY <1>3 DEF EnumDone, ScanEnd
<1>4. CASE OpenSocket(t)
  <2>1. sock' \in [Clients -> Fds \cup {NONE}]
    <3>1. \/ \E d \in Fds : sock' = [sock EXCEPT ![t] = d]
          \/ sock' = sock
      BY <1>4 DEF OpenSocket
    <3> QED
      BY <3>1
  <2>2. since' \in [Clients -> 0..MaxChanges \cup {NONE}]
    BY <1>4 DEF OpenSocket
  <2>3. \E to \in {"conf", "return"} : npc' = [npc EXCEPT ![t] = to]
    BY <1>4 DEF OpenSocket
  <2> QED
    BY <1>4, <2>1, <2>2, <2>3 DEF OpenSocket
<1>5. CASE GetList(t)
  <2>1. Listed \in Seq(Ifs)
    BY NetAssumption DEF Listed
  <2>2. snap' \in [Clients -> Seq(Ifs)]
    BY <1>5, <2>1 DEF GetList
  <2>3. \E to \in {"scan", "close"} : npc' = [npc EXCEPT ![t] = to]
    BY <1>5 DEF GetList
  <2>4. \A c \in Clients : npc'[c] \in Answer => snap'[c] # <<>>
    BY <1>5, <2>3 DEF GetList
  <2> QED
    BY <1>5, <2>2, <2>3, <2>4 DEF GetList
<1>6. CASE ScanEntry(t)
  <2>1. npc[t] = "scan" /\ snap[t] # <<>>
    BY <1>6 DEF ScanEntry
  <2>2. Tail(snap[t]) \in Seq(Ifs) /\ max_count[t] + 1 \in Nat
    BY <2>1
  <2>3. max_count' = max_count \/ max_count' = [max_count EXCEPT ![t] = @ + 1]
    BY <1>6 DEF ScanEntry
  <2>4. \/ snap' = [snap EXCEPT ![t] = Tail(@)] /\ npc' = npc
        \/ snap' = snap /\ npc' = [npc EXCEPT ![t] = "addr"]
    BY <1>6 DEF ScanEntry
  <2>5. UNCHANGED <<systemVars, sock, index, ans, number, answers, enums, since>>
    BY <1>6 DEF ScanEntry
  <2>6. max_count' \in [Clients -> Nat]
    BY <2>2, <2>3
  <2>7. snap' \in [Clients -> Seq(Ifs)] /\ npc' \in [Clients -> InQuery \cup {"idle", "socket", "return", "enum"}]
    BY <2>2, <2>4
  <2>8. \A c \in Clients : npc'[c] \in Answer => snap'[c] # <<>>
    BY <2>1, <2>4
  <2> QED
    BY <2>5, <2>6, <2>7, <2>8
<1>7. ASSUME NEW what \in Answer, NEW next \in {"mask", "bcast", "close"}, Ask(t, what, next)
      PROVE  NetTypeOK'
  <2>1. snap[t] # <<>> /\ npc[t] = what
    BY <1>7 DEF Ask
  <2>2. Asked(Head(snap[t])) \in Nat \cup {NONE}
    BY <2>1 DEF Asked
  <2>3. [ans[t] EXCEPT ![what] = IF CanAsk(t) THEN Asked(Head(snap[t])) ELSE @] \in Addresses
    BY <2>2 DEF Addresses
  <2>4. ans' \in [Clients -> Addresses]
    BY <1>7, <2>3 DEF Ask
  <2> QED
    BY <1>7, <2>1, <2>4 DEF Ask
<1>8. CASE CloseSocket(t)
  BY <1>8 DEF CloseSocket
<1>9. CASE Return(t)
  <2>1. NoAnswer \in Addresses /\ ans[t] \in Addresses
    BY DEF NoAnswer, Addresses
  <2>2. number' = [number EXCEPT ![t] = max_count[t]] \/ number' = number
    BY <1>9 DEF Return
  <2>3. answers' = [answers EXCEPT ![t] = Append(@, ans[t])] \/ answers' = answers
    BY <1>9 DEF Return
  <2>4. /\ npc[t] = "return" /\ npc' = [npc EXCEPT ![t] = "enum"]
        /\ snap' = [snap EXCEPT ![t] = <<>>]
        /\ max_count' = [max_count EXCEPT ![t] = 0]
        /\ ans' = [ans EXCEPT ![t] = NoAnswer]
        /\ UNCHANGED <<systemVars, sock, index, enums, since>>
    BY <1>9 DEF Return
  <2>5. answers' \in [Clients -> Seq(Addresses)]
    <3>1. Append(answers[t], ans[t]) \in Seq(Addresses)
      BY <2>1
    <3> QED
      BY <2>3, <3>1
  <2>6. snap' \in [Clients -> Seq(Ifs)] /\ ans' \in [Clients -> Addresses]
    <3>1. <<>> \in Seq(Ifs)
      OBVIOUS
    <3> QED
      BY <2>1, <2>4, <3>1
  <2> QED
    BY <2>2, <2>4, <2>5, <2>6
<1> QED
  BY <1>1, <1>2, <1>3, <1>4, <1>5, <1>6, <1>7, <1>8, <1>9 DEF ClientStep

\* The interfaces and the queries keep their types, however the interfaces change
\* under a query: what is asked about one of them is asked about an entry of the list.
THEOREM NetTypeCorrect == SharedSpec => []NetTypeOK
<1>1. SharedInit => NetTypeOK
  <2> SUFFICES ASSUME NetInit PROVE NetTypeOK
    BY DEF SharedInit
  <2>1. table \in Seq(Ifs) /\ up \subseteq Ifs
    <3>1. CASE table = <<>>
      BY <3>1 DEF NetInit, Entries
    <3>2. ASSUME NEW n \in Ifs, table = <<n>>
          PROVE  table \in Seq(Ifs) /\ up \subseteq Ifs
      BY <3>2 DEF NetInit, Entries
    <3> QED
      BY <3>1, <3>2 DEF NetInit
  <2>2. \A n \in 0..MaxEnums : n \in Nat
    BY NetAssumption
  <2>3. 0 \in 0..MaxChanges
    BY NetAssumption
  <2> QED
    BY <2>1, <2>2, <2>3
       DEF NetInit, NetTypeOK, InQuery, Answer, Count, NONE, NoAnswer, Addresses
<1>2. NetTypeOK /\ [SharedNext]_sharedVars => NetTypeOK'
  <2> SUFFICES ASSUME NetTypeOK, [SharedNext]_sharedVars PROVE NetTypeOK'
    OBVIOUS
  <2>1. CASE UNCHANGED netVars
    BY <2>1 DEF NetTypeOK, netVars, systemVars, clientVars
  <2>2. ASSUME NEW t \in Clients, ClientStep(t) PROVE NetTypeOK'
    BY <2>2, ClientTyped
  <2>3. CASE SystemStep
    BY <2>3, SystemTyped
  <2> QED
    BY <2>1, <2>2, <2>3 DEF SharedNext, Writes, Asks, sharedVars
<1> QED
  BY <1>1, <1>2, PTL DEF SharedSpec

-----------------------------------------------------------------------------
(***************************************************************************)
(* The enumeration of the interfaces.  As long as nothing has changed, the *)
(* answers so far are those of the first usable interfaces of the list,    *)
(* and a scan has counted the usable ones among the entries it has passed. *)
(***************************************************************************)
\* The answers to the first indexes are right.
Told(told) ==
    /\ Len(told) <= Total
    /\ \A k \in 1..Len(Listed) :
          Usable(Listed[k]) /\ Rank(k) <= Len(told) => told[Rank(k)] = AddressesOf(Listed[k])

\* Is position k of the list that of the usable interface with this index?
HasIndex(k, ix) == k \in 1..Len(Listed) /\ Usable(Listed[k]) /\ Rank(k) = ix + 1

\* Has the scan that is left with the list s passed k entries?
Passed(k, s) ==
    /\ k \in 0..Len(Listed) /\ Len(s) = Len(Listed) - k
    /\ \A i \in 1..Len(s) : s[i] = Listed[k + i]

\* What has been asked when the client is about to ask for pc.
AskedBefore(pc) == IF pc = "addr" THEN {} ELSE IF pc = "mask" THEN {"addr"} ELSE {"addr", "mask"}

\* A client in a call or between two of them: where it is, its index, what is left
\* of its list, what it has counted and found, and what it has been told.
IndexOK(pc, ix, told, nu) ==
    /\ Told(told)
    /\ pc = "enum" => nu = Total
    /\ pc # "enum" => \/ ix = Count /\ told = <<>>
                      \/ ix = Len(told) /\ ix < Total /\ nu = Total

ScanOK(pc, ix, s, mc) ==
    pc = "scan" => \E k : Passed(k, s) /\ mc = Rank(k) /\ (ix # Count => Rank(k) <= ix)

AskOK(pc, ix, s, an) ==
    pc \in Answer => \E k : /\ HasIndex(k, ix) /\ ix # Count /\ Head(s) = Listed[k]
                            /\ \A w \in AskedBefore(pc) : an[w] = version[Listed[k]]

ReadyOK(pc, ix, mc, an) ==
    pc \in {"close", "return"} =>
        IF ix = Count THEN mc = Total
        ELSE \E k : HasIndex(k, ix) /\ an = AddressesOf(Listed[k])

CallOK(pc, ix, s, mc, an, nu, told) ==
    IndexOK(pc, ix, told, nu) /\ ScanOK(pc, ix, s, mc) /\ AskOK(pc, ix, s, an)
        /\ ReadyOK(pc, ix, mc, an)

\* The inductive invariant.  It says nothing of a client for whom an interface has
\* changed, or a socket was missing, since its enumeration began, and it is kept
\* as long as the socket of every query can be asked.
EnumOK(t) ==
    /\ since[t] <= changes
    /\ npc[t] \in {"idle", "enum", "socket", "conf"} => max_count[t] = 0
    /\ (since[t] = changes /\ npc[t] # "idle") =>
          CallOK(npc[t], index[t], snap[t], max_count[t], ans[t], number[t], answers[t])

EnumInv == \A t \in Clients : EnumOK(t)

\* The list is part of the system's table.
LEMMA ListedFacts ==
    NetTypeOK => /\ Listed \in Seq(Ifs) /\ Len(Listed) \in Nat
                 /\ \A k \in 1..Len(Listed) : Listed[k] \in Entries(table)
<1> SUFFICES ASSUME NetTypeOK
             PROVE  /\ Listed \in Seq(Ifs) /\ Len(Listed) \in Nat
                    /\ \A k \in 1..Len(Listed) : Listed[k] \in Entries(table)
  OBVIOUS
<1> DEFINE n == IF Len(table) < MAX_IFS THEN Len(table) ELSE MAX_IFS
<1>1. table \in Seq(Ifs) /\ n \in 0..Len(table)
  BY NetAssumption DEF NetTypeOK
<1>2. Listed = SubSeq(table, 1, n)
  BY DEF Listed
<1> HIDE DEF n
<1>3. Listed \in Seq(Ifs) /\ Len(Listed) = n /\ \A k \in 1..n : Listed[k] = table[k]
  BY SMT, <1>1, <1>2
<1> QED
  BY SMT, <1>1, <1>3 DEF Entries

\* Rank grows by one at each usable interface.
LEMMA RankType == \A k \in Nat : Rank(k) \in Nat
<1> SUFFICES ASSUME NEW k \in Nat PROVE Rank(k) \in Nat
  OBVIOUS
<1> DEFINE S == {j \in 1..k : Usable(Listed[j])}
<1>1. IsFiniteSet(1..k) /\ S \in SUBSET (1..k)
  BY FS_Interval
<1> HIDE DEF S
<1>2. IsFiniteSet(S)
  BY <1>1, FS_Subset
<1>3. Cardinality(S) \in Nat
  BY <1>2, FS_CardinalityType
<1> QED
  BY Zenon, <1>3 DEF Rank, S

LEMMA RankZero == Rank(0) = 0
<1>1. {j \in 1..0 : Usable(Listed[j])} = {}
  OBVIOUS
<1> QED
  BY <1>1, FS_EmptySet DEF Rank

LEMMA RankStep ==
    \A k \in Nat : Rank(k + 1) = IF Usable(Listed[k + 1]) THEN Rank(k) + 1 ELSE Rank(k)
<1> SUFFICES ASSUME NEW k \in Nat
             PROVE  Rank(k + 1) = IF Usable(Listed[k + 1]) THEN Rank(k) + 1 ELSE Rank(k)
  OBVIOUS
<1> DEFINE S == {j \in 1..k : Usable(Listed[j])}
           T == {j \in 1..(k + 1) : Usable(Listed[j])}
<1>1. IsFiniteSet(1..k) /\ S \in SUBSET (1..k)
  BY FS_Interval
<1>2. (k + 1) \notin S
  OBVIOUS
<1>3. \A j : j \in 1..(k + 1) <=> j \in 1..k \/ j = k + 1
  OBVIOUS
<1>4. T = IF Usable(Listed[k + 1]) THEN S \cup {k + 1} ELSE S
  BY Zenon, <1>3
<1>5. Rank(k) = Cardinality(S) /\ Rank(k + 1) = Cardinality(T)
  BY Zenon DEF Rank
<1> HIDE DEF S, T
<1>6. IsFiniteSet(S)
  BY <1>1, FS_Subset
<1>7. Cardinality(S \cup {k + 1}) = Cardinality(S) + 1
  BY <1>2, <1>6, FS_AddElement
<1> QED
  BY Zenon, <1>4, <1>5, <1>7

LEMMA RankOrder == \A j, k \in Nat : j <= k => Rank(j) <= Rank(k)
<1> SUFFICES ASSUME NEW j \in Nat, NEW k \in Nat, j <= k PROVE Rank(j) <= Rank(k)
  OBVIOUS
<1> DEFINE S == {i \in 1..j : Usable(Listed[i])}
           T == {i \in 1..k : Usable(Listed[i])}
<1>1. IsFiniteSet(1..k) /\ T \in SUBSET (1..k) /\ S \in SUBSET T
  BY FS_Interval
<1>2. Rank(j) = Cardinality(S) /\ Rank(k) = Cardinality(T)
  BY Zenon DEF Rank
<1> HIDE DEF S, T
<1>3. IsFiniteSet(T)
  BY <1>1, FS_Subset
<1>4. Cardinality(S) <= Cardinality(T)
  BY <1>1, <1>3, FS_Subset
<1> QED
  BY <1>2, <1>4

\* The rank of a usable interface is an index of its own, from 1 to Total.
LEMMA RankUsable ==
    ASSUME NetTypeOK, NEW k \in 1..Len(Listed), Usable(Listed[k])
    PROVE  /\ Rank(k) \in 1..Total
           /\ \A j \in 1..Len(Listed) : Rank(j) = Rank(k) /\ Usable(Listed[j]) => j = k
<1>1. Len(Listed) \in Nat
  BY ListedFacts
<1>2. \A i \in 1..Len(Listed) :
         i - 1 \in Nat /\ Rank(i - 1) \in Nat /\ Rank(i) \in Nat
             /\ (Usable(Listed[i]) => Rank(i) = Rank(i - 1) + 1)
  <2> SUFFICES ASSUME NEW i \in 1..Len(Listed)
               PROVE  i - 1 \in Nat /\ Rank(i - 1) \in Nat /\ Rank(i) \in Nat
                         /\ (Usable(Listed[i]) => Rank(i) = Rank(i - 1) + 1)
    OBVIOUS
  <2>1. i - 1 \in Nat /\ i \in Nat /\ (i - 1) + 1 = i
    BY <1>1
  <2>2. Rank((i - 1) + 1)
           = IF Usable(Listed[(i - 1) + 1]) THEN Rank(i - 1) + 1 ELSE Rank(i - 1)
    BY Zenon, <2>1, RankStep
  <2>3. Rank(i - 1) \in Nat /\ Rank(i) \in Nat
    BY Zenon, <2>1, RankType
  <2>4. Rank(i) = IF Usable(Listed[i]) THEN Rank(i - 1) + 1 ELSE Rank(i - 1)
    BY Zenon, <2>1, <2>2
  <2> QED
    BY Zenon, <2>1, <2>3, <2>4
<1>3. Rank(k) >= 1
  BY SMT, <1>2
<1>4. Rank(k) <= Total
  BY SMT, <1>1, RankOrder DEF Total
<1>5. Total \in Nat
  BY Zenon, <1>1, RankType DEF Total
<1>6. ASSUME NEW i \in 1..Len(Listed), NEW j \in 1..Len(Listed), i < j, Usable(Listed[j])
      PROVE  Rank(i) < Rank(j)
  <2>1. Rank(i) <= Rank(j - 1)
    BY SMT, <1>1, <1>2, <1>6, RankOrder
  <2> QED
    BY SMT, <1>2, <1>6, <2>1
<1>7. ASSUME NEW j \in 1..Len(Listed), Rank(j) = Rank(k), Usable(Listed[j])
      PROVE  j = k
  <2>1. ~ (j < k)
    BY SMT, <1>2, <1>6, <1>7
  <2>2. ~ (k < j)
    BY SMT, <1>2, <1>6, <1>7
  <2> QED
    BY SMT, <1>1, <2>1, <2>2
<1> QED
  BY SMT, <1>2, <1>3, <1>4, <1>5, <1>7

LEMMA TotalType == NetTypeOK => Total \in Nat
  BY Zenon, ListedFacts, RankType DEF Total

\* Nothing has been told of an index before the first answer.
LEMMA ToldNothing == NetTypeOK => Told(<<>>)
<1> SUFFICES ASSUME NetTypeOK PROVE Told(<<>>)
  OBVIOUS
<1>1. Len(<<>>) = 0 /\ 0 <= Total
  BY SMT, TotalType
<1>2. ASSUME NEW k \in 1..Len(Listed), Usable(Listed[k]) PROVE ~ (Rank(k) <= 0)
  <2>1. Rank(k) \in 1..Total
    BY Zenon, <1>2, RankUsable
  <2> QED
    BY SMT, <2>1, TotalType
<1> QED
  BY Zenon, <1>1, <1>2 DEF Told

\* Sequences of answers, and the addresses that make one.
LEMMA AnswersFacts ==
    \A told \in Seq(Addresses) :
        /\ Len(told) \in Nat
        /\ \A new \in Addresses :
              /\ Len(Append(told, new)) = Len(told) + 1
              /\ Append(told, new)[Len(told) + 1] = new
              /\ \A i \in 1..Len(told) : Append(told, new)[i] = told[i]
  BY SMT

LEMMA AddressesOfType ==
    NetTypeOK => \A k \in 1..Len(Listed) : AddressesOf(Listed[k]) \in Addresses
<1> SUFFICES ASSUME NetTypeOK, NEW k \in 1..Len(Listed)
             PROVE  AddressesOf(Listed[k]) \in Addresses
  OBVIOUS
<1>1. Listed \in Seq(Ifs)
  BY Zenon, ListedFacts
<1>2. version \in [Ifs -> Nat]
  BY Zenon DEF NetTypeOK
<1>3. Listed[k] \in Ifs
  BY SMT, <1>1
<1>4. version[Listed[k]] \in Nat
  BY Zenon, <1>2, <1>3
<1> QED
  BY SMT, <1>4 DEF AddressesOf, Addresses

\* The next answer is that of the next index.
LEMMA ToldNext ==
    ASSUME NetTypeOK, NEW told \in Seq(Addresses), Told(told), NEW k, HasIndex(k, Len(told))
    PROVE  Told(Append(told, AddressesOf(Listed[k])))
<1> DEFINE new == AddressesOf(Listed[k])
           bs == Append(told, new)
           n == Len(told)
<1>1. k \in 1..Len(Listed) /\ Usable(Listed[k]) /\ Rank(k) = n + 1
  BY Zenon DEF HasIndex
<1>2. Rank(k) \in 1..Total
  BY Zenon, <1>1, RankUsable
<1>3. Total \in Nat
  BY Zenon, TotalType
<1>4. Rank(k) = n + 1
  BY Zenon, <1>1
<1>a. new \in Addresses
  BY Zenon, <1>1, AddressesOfType
<1> HIDE DEF new
<1>5. n \in Nat /\ Len(bs) = n + 1 /\ bs[n + 1] = new /\ \A i \in 1..n : bs[i] = told[i]
  BY Zenon, <1>a, AnswersFacts
<1> HIDE DEF bs, n
<1>6. Len(bs) <= Total
  BY SMT, <1>2, <1>3, <1>4, <1>5
<1>7. ASSUME NEW j \in 1..Len(Listed), Usable(Listed[j]), Rank(j) <= Len(bs)
      PROVE  bs[Rank(j)] = AddressesOf(Listed[j])
  <2>1. Rank(j) \in 1..Total
    BY Zenon, <1>7, RankUsable
  <2>2. CASE Rank(j) = Rank(k)
    <3>1. j = k
      BY Zenon, <1>1, <1>7, <2>2, RankUsable
    <3> QED
      BY Zenon, <1>4, <1>5, <3>1 DEF new
  <2>3. CASE Rank(j) # Rank(k)
    <3>1. Rank(j) <= Len(bs)
      BY Zenon, <1>7
    <3>2. Rank(j) <= n /\ Rank(j) \in 1..n
      BY SMT, <1>3, <1>4, <1>5, <2>1, <2>3, <3>1
    <3>3. told[Rank(j)] = AddressesOf(Listed[j])
      BY Zenon, <1>7, <3>2 DEF Told, n
    <3> QED
      BY Zenon, <1>5, <3>2, <3>3
  <2> QED
    BY Zenon, <2>2, <2>3
<1>8. Told(bs)
  BY Zenon, <1>6, <1>7 DEF Told
<1> QED
  BY Zenon, <1>8 DEF bs, new

\* The calls of a client, step by step, while nothing changes.
LEMMA CallBegins ==
    ASSUME NetTypeOK, NEW s, NEW mc, NEW an, NEW nu
    PROVE  /\ CallOK("socket", Count, s, mc, an, nu, <<>>)
           /\ \A ix : \A told \in Seq(Addresses) :
                 CallOK("enum", ix, s, mc, an, nu, told) /\ Len(told) < nu
                     => CallOK("socket", Len(told), s, mc, an, nu, told)
<1>1. CallOK("socket", Count, s, mc, an, nu, <<>>)
  BY SMT, ToldNothing DEF CallOK, IndexOK, ScanOK, AskOK, ReadyOK, Answer
<1>2. ASSUME NEW ix, NEW told \in Seq(Addresses), CallOK("enum", ix, s, mc, an, nu, told),
             Len(told) < nu
      PROVE  CallOK("socket", Len(told), s, mc, an, nu, told)
  <2>1. Told(told) /\ nu = Total
    BY Zenon, <1>2 DEF CallOK, IndexOK
  <2>2. IndexOK("socket", Len(told), told, nu)
    BY Zenon, <1>2, <2>1 DEF IndexOK
  <2> QED
    BY Zenon, <2>2 DEF CallOK, ScanOK, AskOK, ReadyOK, Answer
<1> QED
  BY SMT, <1>1, <1>2

LEMMA CallGoesOn ==
    ASSUME NetTypeOK, NEW ix, NEW s, NEW mc, NEW an, NEW nu, NEW told
    PROVE  /\ CallOK("socket", ix, s, mc, an, nu, told) => CallOK("conf", ix, s, mc, an, nu, told)
           /\ CallOK("close", ix, s, mc, an, nu, told) => CallOK("return", ix, s, mc, an, nu, told)
  BY Zenon DEF CallOK, IndexOK, ScanOK, AskOK, ReadyOK, Answer

LEMMA ListTaken ==
    ASSUME NetTypeOK, NEW ix, NEW s, NEW an, NEW nu, NEW told \in Seq(Addresses),
           CallOK("conf", ix, s, 0, an, nu, told)
    PROVE  CallOK("scan", ix, Listed, 0, an, nu, told)
<1>1. IndexOK("scan", ix, told, nu)
  BY Zenon DEF CallOK, IndexOK
<1>2. ix # Count => 0 <= ix
  <2>1. ix # Count => ix = Len(told)
    BY Zenon, <1>1 DEF IndexOK
  <2> QED
    BY SMT, <2>1
<1>3. Passed(0, Listed)
  BY SMT, ListedFacts DEF Passed
<1>4. ScanOK("scan", ix, Listed, 0)
  BY SMT, <1>2, <1>3, RankZero DEF ScanOK
<1> QED
  BY Zenon, <1>1, <1>4 DEF CallOK, AskOK, ReadyOK, Answer

\* One entry of the list: the one that is looked for, or one that is passed.
LEMMA EntryPassed ==
    ASSUME NetTypeOK, NEW k, NEW s \in Seq(Ifs), Passed(k, s), s # <<>>
    PROVE  /\ k \in Nat /\ k + 1 \in 1..Len(Listed) /\ Head(s) = Listed[k + 1]
           /\ Passed(k + 1, Tail(s))
<1>1. /\ Len(Listed) \in Nat /\ k \in 0..Len(Listed) /\ Len(s) = Len(Listed) - k
      /\ \A i \in 1..Len(s) : s[i] = Listed[k + i]
  BY SMT, ListedFacts DEF Passed
<1>2. Len(s) \in Nat /\ Len(s) > 0 /\ Head(s) = s[1]
  BY SMT
<1>3. k \in Nat /\ k + 1 \in 1..Len(Listed) /\ Head(s) = Listed[k + 1]
  BY SMT, <1>1, <1>2
<1>4. Len(Tail(s)) = Len(s) - 1 /\ \A i \in 1..Len(Tail(s)) : Tail(s)[i] = s[i + 1]
  BY SMT, <1>2
<1>5. Len(Tail(s)) = Len(Listed) - (k + 1)
  BY SMT, <1>1, <1>4
<1>6. ASSUME NEW i \in 1..Len(Tail(s)) PROVE Tail(s)[i] = Listed[(k + 1) + i]
  <2>1. i + 1 \in 1..Len(s) /\ k + (i + 1) = (k + 1) + i /\ Tail(s)[i] = s[i + 1]
    BY SMT, <1>1, <1>2, <1>4
  <2>2. s[i + 1] = Listed[k + (i + 1)]
    BY Zenon, <1>1, <2>1
  <2> QED
    BY Zenon, <2>1, <2>2
<1>7. Passed(k + 1, Tail(s))
  BY SMT, <1>1, <1>3, <1>5, <1>6 DEF Passed
<1> QED
  BY Zenon, <1>3, <1>7

LEMMA EntryScanned ==
    ASSUME NetTypeOK, NEW ix, NEW s \in Seq(Ifs), NEW mc, NEW an, NEW nu,
           NEW told \in Seq(Addresses), CallOK("scan", ix, s, mc, an, nu, told), s # <<>>
    PROVE  IF Usable(Head(s))
           THEN IF ix = mc THEN CallOK("addr", ix, s, mc + 1, an, nu, told)
                           ELSE CallOK("scan", ix, Tail(s), mc + 1, an, nu, told)
           ELSE CallOK("scan", ix, Tail(s), mc, an, nu, told)
<1>1. PICK k : Passed(k, s) /\ mc = Rank(k) /\ (ix # Count => Rank(k) <= ix)
  BY Zenon DEF CallOK, ScanOK
<1>2. /\ k \in Nat /\ k + 1 \in 1..Len(Listed) /\ Head(s) = Listed[k + 1]
      /\ Passed(k + 1, Tail(s))
  BY Zenon, <1>1, EntryPassed
<1>3. Rank(k) \in Nat
  BY Zenon, <1>2, RankType
<1>4. ix = Count \/ ix \in Nat
  <2>1. ix = Count \/ ix = Len(told)
    BY Zenon DEF CallOK, IndexOK
  <2> QED
    BY Zenon, <2>1, AnswersFacts
<1>5. mc = Rank(k) /\ (ix # Count => Rank(k) <= ix)
  BY Zenon, <1>1
<1>6. IndexOK("scan", ix, told, nu) /\ IndexOK("addr", ix, told, nu)
  BY Zenon DEF CallOK, IndexOK
<1>7. CASE Usable(Head(s)) /\ ix = mc
  <2>1. Rank(k + 1) = ix + 1
    BY Zenon, <1>2, <1>5, <1>7, RankStep
  <2>2. ix # Count
    BY SMT, <1>3, <1>5, <1>7 DEF Count
  <2>3. HasIndex(k + 1, ix)
    BY Zenon, <1>2, <1>7, <2>1 DEF HasIndex
  <2>4. AskOK("addr", ix, s, an)
    BY Zenon, <1>2, <2>2, <2>3 DEF AskOK, AskedBefore
  <2> QED
    BY Zenon, <1>6, <1>7, <2>4 DEF CallOK, ScanOK, ReadyOK
<1>8. CASE Usable(Head(s)) /\ ix # mc
  <2>1. Rank(k + 1) = mc + 1
    BY Zenon, <1>2, <1>5, <1>8, RankStep
  <2>2. ix # mc
    BY Zenon, <1>8
  <2>3. ix # Count => Rank(k + 1) <= ix
    BY SMT, <1>3, <1>4, <1>5, <2>1, <2>2
  <2>4. ScanOK("scan", ix, Tail(s), mc + 1)
    BY Zenon, <1>2, <2>1, <2>3 DEF ScanOK
  <2> QED
    BY Zenon, <1>6, <1>8, <2>4 DEF CallOK, AskOK, ReadyOK, Answer
<1>9. CASE ~ Usable(Head(s))
  <2>1. Rank(k + 1) = Rank(k)
    BY Zenon, <1>2, <1>9, RankStep
  <2>2. ScanOK("scan", ix, Tail(s), mc)
    BY Zenon, <1>2, <1>5, <2>1 DEF ScanOK
  <2> QED
    BY Zenon, <1>6, <1>9, <2>2 DEF CallOK, AskOK, ReadyOK, Answer
<1> QED
  BY Zenon, <1>7, <1>8, <1>9

\* At the end of the list all have been counted, and an index has been found before.
LEMMA ScanEnded ==
    ASSUME NetTypeOK, NEW ix, NEW s \in Seq(Ifs), NEW mc, NEW an, NEW nu,
           NEW told \in Seq(Addresses), CallOK("scan", ix, s, mc, an, nu, told), s = <<>>
    PROVE  CallOK("close", ix, s, mc, an, nu, told)
<1>1. PICK k : Passed(k, s) /\ mc = Rank(k) /\ (ix # Count => Rank(k) <= ix)
  BY Zenon DEF CallOK, ScanOK
<1>2. k = Len(Listed)
  <2>1. k \in 0..Len(Listed) /\ Len(s) = Len(Listed) - k
    BY Zenon, <1>1 DEF Passed
  <2>2. Len(Listed) \in Nat /\ Len(s) = 0
    BY SMT, ListedFacts
  <2> QED
    BY SMT, <2>1, <2>2
<1>3. mc = Total /\ (ix # Count => Total <= ix)
  BY Zenon, <1>1, <1>2 DEF Total
<1>4. ix # Count => ix = Len(told) /\ ix < Total
  BY Zenon DEF CallOK, IndexOK
<1>5. Total \in Nat /\ Len(told) \in Nat
  BY Zenon, TotalType, AnswersFacts
<1>6. Total <= ix => ~ (ix = Len(told) /\ ix < Total)
  BY SMT, <1>5
<1>7. ix = Count
  BY Zenon, <1>3, <1>4, <1>6
<1> QED
  BY Zenon, <1>3, <1>7 DEF CallOK, IndexOK, ScanOK, AskOK, ReadyOK, Answer

\* The three questions about the interface that was found.
AskNext(w) == IF w = "addr" THEN "mask" ELSE IF w = "mask" THEN "bcast" ELSE "close"

LEMMA AddressAsked ==
    ASSUME NetTypeOK, NEW w \in Answer, NEW ix, NEW s, NEW mc, NEW an \in Addresses, NEW nu,
           NEW told, CallOK(w, ix, s, mc, an, nu, told)
    PROVE  CallOK(AskNext(w), ix, s, mc, [an EXCEPT ![w] = Asked(Head(s))], nu, told)
<1>1. PICK k : /\ HasIndex(k, ix) /\ ix # Count /\ Head(s) = Listed[k]
               /\ \A x \in AskedBefore(w) : an[x] = version[Listed[k]]
  BY Zenon DEF CallOK, AskOK
<1> DEFINE v == version[Listed[k]]
           b == [an EXCEPT ![w] = v]
<1>2. Asked(Head(s)) = v
  <2>1. Listed[k] \in Entries(table)
    BY Zenon, <1>1, ListedFacts DEF HasIndex
  <2> QED
    BY Zenon, <1>1, <2>1 DEF Asked
<1>3. \A x \in AskedBefore(w) : an[x] = v
  BY Zenon, <1>1
<1> HIDE DEF v
<1>4. b = [x \in Answer |-> IF x = w THEN v ELSE an[x]]
  BY Zenon DEF Addresses
<1> HIDE DEF b
<1>5. IndexOK(AskNext(w), ix, told, nu)
  BY Zenon DEF CallOK, IndexOK, AskNext, Answer
<1>6. CASE w = "bcast"
  <2>1. b = [x \in Answer |-> v]
    <3>1. \A x \in Answer : (IF x = w THEN v ELSE an[x]) = v
      BY Zenon, <1>3, <1>6 DEF AskedBefore, Answer
    <3> QED
      BY Zenon, <1>4, <3>1
  <2>2. b = AddressesOf(Listed[k])
    BY Zenon, <2>1 DEF AddressesOf, v
  <2>3. AskNext(w) = "close"
    BY Zenon, <1>6 DEF AskNext
  <2>4. ReadyOK("close", ix, mc, b)
    BY Zenon, <1>1, <2>2 DEF ReadyOK
  <2>5. CallOK("close", ix, s, mc, b, nu, told)
    BY Zenon, <1>5, <2>3, <2>4 DEF CallOK, ScanOK, AskOK, Answer
  <2> QED
    BY Zenon, <1>2, <2>3, <2>5 DEF b
<1>7. CASE w \in {"addr", "mask"}
  <2>1. /\ AskNext(w) \in Answer /\ AskNext(w) # "scan"
        /\ AskNext(w) \notin {"close", "return"}
    BY Zenon, <1>7 DEF AskNext, Answer
  <2>2. \A x \in AskedBefore(AskNext(w)) : x \in Answer /\ (x = w \/ x \in AskedBefore(w))
    BY Zenon, <1>7 DEF AskedBefore, AskNext, Answer
  <2>3. \A x \in AskedBefore(AskNext(w)) : b[x] = v
    BY Zenon, <1>3, <1>4, <2>2
  <2>4. AskOK(AskNext(w), ix, s, b)
    BY Zenon, <1>1, <2>3 DEF AskOK, v
  <2>5. CallOK(AskNext(w), ix, s, mc, b, nu, told)
    BY Zenon, <1>5, <2>1, <2>4 DEF CallOK, ScanOK, ReadyOK
  <2> QED
    BY Zenon, <1>2, <2>5 DEF b
<1> QED
  BY Zenon, <1>6, <1>7 DEF Answer

\* The number of interfaces, or one more answer, is returned.
LEMMA CallReturns ==
    ASSUME NetTypeOK, NEW ix, NEW s, NEW mc, NEW an, NEW nu, NEW told \in Seq(Addresses),
           CallOK("return", ix, s, mc, an, nu, told), NEW r, NEW z, NEW b
    PROVE  IF ix = Count THEN CallOK("enum", ix, r, z, b, mc, told)
           ELSE CallOK("enum", ix, r, z, b, nu, Append(told, an))
<1>1. CASE ix = Count
  <2>1. Told(told) /\ mc = Total
    BY Zenon, <1>1 DEF CallOK, IndexOK, ReadyOK
  <2>2. CallOK("enum", ix, r, z, b, mc, told)
    BY Zenon, <2>1 DEF CallOK, IndexOK, ScanOK, AskOK, ReadyOK, Answer
  <2> QED
    BY Zenon, <1>1, <2>2
<1>2. CASE ix # Count
  <2>1. Told(told) /\ ix = Len(told) /\ nu = Total
    BY Zenon, <1>2 DEF CallOK, IndexOK
  <2>2. PICK k : HasIndex(k, ix) /\ an = AddressesOf(Listed[k])
    BY Zenon, <1>2 DEF CallOK, ReadyOK
  <2>3. Told(Append(told, an))
    BY Zenon, <2>1, <2>2, ToldNext
  <2>4. CallOK("enum", ix, r, z, b, nu, Append(told, an))
    BY Zenon, <2>1, <2>3 DEF CallOK, IndexOK, ScanOK, AskOK, ReadyOK, Answer
  <2> QED
    BY Zenon, <1>2, <2>4
<1> QED
  BY Zenon, <1>1, <1>2

-----------------------------------------------------------------------------
\* What is right of a call is right as long as the interfaces stay the same.
LEMMA CallStays ==
    ASSUME UNCHANGED systemVars
    PROVE  \A pc, ix, s, mc, an, nu, told :
               CallOK(pc, ix, s, mc, an, nu, told)' <=> CallOK(pc, ix, s, mc, an, nu, told)
<1>1. table' = table /\ up' = up /\ version' = version
  BY DEF systemVars
<1>2. Listed' = Listed
  BY Zenon, <1>1 DEF Listed
<1>3. \A n : Usable(n)' <=> Usable(n)
  BY Zenon, <1>1 DEF Usable
<1>4. \A k : Rank(k)' = Rank(k)
  <2> SUFFICES ASSUME NEW k PROVE Rank(k)' = Rank(k)
    OBVIOUS
  <2> DEFINE S == {j \in 1..k : Usable(Listed[j])}
             T == {j \in 1..k : Usable(Listed[j])'}
  <2>1. S = T
    BY Zenon, <1>2, <1>3
  <2>2. Rank(k) = Cardinality(S) /\ Rank(k)' = Cardinality(T)
    BY Zenon DEF Rank
  <2> QED
    BY Zenon, <2>1, <2>2
<1>5. Total' = Total
  BY Zenon, <1>2, <1>4 DEF Total
<1>6. \A n : AddressesOf(n)' = AddressesOf(n)
  BY Zenon, <1>1 DEF AddressesOf
<1>7. \A told : Told(told)' <=> Told(told)
  BY Zenon, <1>2, <1>3, <1>4, <1>5, <1>6 DEF Told
<1>8. \A k, ix : HasIndex(k, ix)' <=> HasIndex(k, ix)
  BY Zenon, <1>2, <1>3, <1>4 DEF HasIndex
<1>9. \A k, s : Passed(k, s)' <=> Passed(k, s)
  BY Zenon, <1>2 DEF Passed
<1>10. \A pc, ix, told, nu : IndexOK(pc, ix, told, nu)' <=> IndexOK(pc, ix, told, nu)
  BY Zenon, <1>5, <1>7 DEF IndexOK
<1>11. \A pc, ix, s, mc : ScanOK(pc, ix, s, mc)' <=> ScanOK(pc, ix, s, mc)
  BY Zenon, <1>4, <1>9 DEF ScanOK
<1>12. \A pc, ix, s, an : AskOK(pc, ix, s, an)' <=> AskOK(pc, ix, s, an)
  BY Zenon, <1>1, <1>2, <1>8 DEF AskOK
<1>13. \A pc, ix, mc, an : ReadyOK(pc, ix, mc, an)' <=> ReadyOK(pc, ix, mc, an)
  BY Zenon, <1>2, <1>5, <1>6, <1>8 DEF ReadyOK
<1> SUFFICES ASSUME NEW pc, NEW ix, NEW s, NEW mc, NEW an, NEW nu, NEW told
             PROVE  CallOK(pc, ix, s, mc, an, nu, told)' <=> CallOK(pc, ix, s, mc, an, nu, told)
  OBVIOUS
<1>14. /\ IndexOK(pc, ix, told, nu)' <=> IndexOK(pc, ix, told, nu)
       /\ ScanOK(pc, ix, s, mc)' <=> ScanOK(pc, ix, s, mc)
  BY Zenon, <1>10, <1>11
<1>15. /\ AskOK(pc, ix, s, an)' <=> AskOK(pc, ix, s, an)
       /\ ReadyOK(pc, ix, mc, an)' <=> ReadyOK(pc, ix, mc, an)
  BY Zenon, <1>12, <1>13
<1> QED
  BY Zenon, <1>14, <1>15 DEF CallOK

LEMMA NetDomains ==
    NetTypeOK => /\ DOMAIN npc = Clients /\ DOMAIN index = Clients /\ DOMAIN snap = Clients
                 /\ DOMAIN max_count = Clients /\ DOMAIN ans = Clients
                 /\ DOMAIN number = Clients /\ DOMAIN answers = Clients
                 /\ DOMAIN since = Clients /\ DOMAIN enums = Clients /\ DOMAIN sock = Clients
  BY Zenon DEF NetTypeOK

LEMMA NetValues ==
    ASSUME NetTypeOK, NEW t \in Clients
    PROVE  /\ snap[t] \in Seq(Ifs) /\ answers[t] \in Seq(Addresses) /\ ans[t] \in Addresses
           /\ since[t] \in Int /\ changes \in Nat
<1>1. /\ snap[t] \in Seq(Ifs) /\ answers[t] \in Seq(Addresses) /\ ans[t] \in Addresses
      /\ since[t] \in 0..MaxChanges \cup {NONE} /\ changes \in 0..MaxChanges
  BY Zenon DEF NetTypeOK
<1>2. MaxChanges \in Nat
  BY NetAssumption
<1> QED
  BY SMT, <1>1, <1>2 DEF NONE

\* A client does nothing to the others' calls, nor to the interfaces.
LEMMA OthersCalls ==
    ASSUME NetTypeOK, NEW t \in Clients, NEW u \in Clients, u # t, ClientStep(t)
    PROVE  /\ npc'[u] = npc[u] /\ index'[u] = index[u] /\ snap'[u] = snap[u]
           /\ max_count'[u] = max_count[u] /\ ans'[u] = ans[u] /\ number'[u] = number[u]
           /\ answers'[u] = answers[u] /\ since'[u] = since[u]
<1> DEFINE Same == /\ npc'[u] = npc[u] /\ index'[u] = index[u] /\ snap'[u] = snap[u]
                   /\ max_count'[u] = max_count[u] /\ ans'[u] = ans[u] /\ number'[u] = number[u]
                   /\ answers'[u] = answers[u] /\ since'[u] = since[u]
<1>0. /\ DOMAIN npc = Clients /\ DOMAIN index = Clients /\ DOMAIN snap = Clients
      /\ DOMAIN max_count = Clients /\ DOMAIN ans = Clients
      /\ DOMAIN number = Clients /\ DOMAIN answers = Clients /\ DOMAIN since = Clients
  BY Zenon, NetDomains
<1>1. CallCount(t) => Same
  BY Zenon, <1>0 DEF CallCount, NetStep
<1>2. CallAddr(t) => Same
  BY Zenon, <1>0 DEF CallAddr, NetStep
<1>3. EnumDone(t) \/ ScanEnd(t) => Same
  BY Zenon, <1>0 DEF EnumDone, ScanEnd, NetStep
<1>4. OpenSocket(t) => Same
  BY Zenon, <1>0 DEF OpenSocket, NetStep
<1>5. GetList(t) => Same
  BY Zenon, <1>0 DEF GetList, NetStep
<1>6. ScanEntry(t) => Same
  BY Zenon, <1>0 DEF ScanEntry
<1>7. ASSUME NEW what, NEW next PROVE Ask(t, what, next) => Same
  BY Zenon, <1>0 DEF Ask, NetStep
<1>8. CloseSocket(t) => Same
  BY Zenon, <1>0 DEF CloseSocket, NetStep
<1>9. Return(t) => Same
  BY Zenon, <1>0 DEF Return, NetStep
<1> HIDE DEF Same
<1>10. Same
  BY Zenon, <1>1, <1>2, <1>3, <1>4, <1>5, <1>6, <1>7, <1>8, <1>9 DEF ClientStep
<1> QED
  BY Zenon, <1>10 DEF Same

LEMMA ClientLeavesSystem ==
    ASSUME NEW t, ClientStep(t)
    PROVE  UNCHANGED systemVars
  BY Zenon DEF ClientStep, CallCount, CallAddr, EnumDone, OpenSocket, GetList, ScanEntry,
               ScanEnd, Ask, CloseSocket, Return

\* The others' enumerations go on as they were.
LEMMA OthersEnum ==
    ASSUME NetTypeOK, EnumInv, NEW t \in Clients, ClientStep(t), NEW u \in Clients, u # t
    PROVE  EnumOK(u)'
<1>1. UNCHANGED systemVars /\ changes' = changes
  BY Zenon, ClientLeavesSystem DEF systemVars
<1>2. /\ npc'[u] = npc[u] /\ index'[u] = index[u] /\ snap'[u] = snap[u]
      /\ max_count'[u] = max_count[u] /\ ans'[u] = ans[u] /\ number'[u] = number[u]
      /\ answers'[u] = answers[u] /\ since'[u] = since[u]
  BY Zenon, OthersCalls
<1>3. EnumOK(u)
  BY Zenon DEF EnumInv
<1>4. CallOK(npc[u], index[u], snap[u], max_count[u], ans[u], number[u], answers[u])
         => CallOK(npc[u], index[u], snap[u], max_count[u], ans[u], number[u], answers[u])'
  <2> DEFINE pc == npc[u]
             ix == index[u]
             s == snap[u]
             mc == max_count[u]
             an == ans[u]
             nu == number[u]
             told == answers[u]
  <2>1. /\ npc'[u] = pc /\ index'[u] = ix /\ snap'[u] = s /\ max_count'[u] = mc
        /\ ans'[u] = an /\ number'[u] = nu /\ answers'[u] = told
    BY Zenon, <1>2
  <2> QED
    BY Zenon, <1>1, <2>1, CallStays
<1> QED
  BY Zenon, <1>1, <1>2, <1>3, <1>4 DEF EnumOK

\* The client's own step: it is enough that what it has got is right as of now.
CallNow(t) == CallOK(npc[t], index[t], snap[t], max_count[t], ans[t], number[t], answers[t])
CallNext(t) ==
    CallOK(npc'[t], index'[t], snap'[t], max_count'[t], ans'[t], number'[t], answers'[t])

LEMMA OwnStep ==
    ASSUME NEW t, EnumOK(t), UNCHANGED systemVars, since'[t] = since[t], npc[t] # "idle",
           CallNow(t) => CallNext(t),
           npc'[t] \in {"idle", "enum", "socket", "conf"} => max_count'[t] = 0
    PROVE  EnumOK(t)'
<1>1. changes' = changes
  BY Zenon DEF systemVars
<1>2. CallNext(t) => CallNow(t)'
  BY Zenon, CallStays DEF CallNow, CallNext
<1> QED
  BY Zenon, <1>1, <1>2 DEF EnumOK, CallNow

LEMMA AnswerInQuery == Answer \subseteq InQuery
  BY DEF Answer, InQuery

LEMMA OwnEnum ==
    ASSUME NetTypeOK, EnumInv, NEW t \in Clients, ClientStep(t),
           npc[t] \in InQuery => CanAsk(t)
    PROVE  EnumOK(t)'
<1>0. /\ DOMAIN npc = Clients /\ DOMAIN index = Clients /\ DOMAIN snap = Clients
      /\ DOMAIN max_count = Clients /\ DOMAIN ans = Clients
      /\ DOMAIN number = Clients /\ DOMAIN answers = Clients /\ DOMAIN since = Clients
  BY Zenon, NetDomains
<1>a. UNCHANGED systemVars /\ changes' = changes
  BY Zenon, ClientLeavesSystem DEF systemVars
<1>b. EnumOK(t)
  BY Zenon DEF EnumInv
<1>c. /\ snap[t] \in Seq(Ifs) /\ answers[t] \in Seq(Addresses) /\ ans[t] \in Addresses
      /\ since[t] \in Int /\ changes \in Nat
  BY Zenon, NetValues
<1>1. CASE CallCount(t)
  <2>1. /\ npc[t] = "idle" /\ npc'[t] = "socket" /\ index'[t] = Count /\ snap'[t] = snap[t]
        /\ max_count'[t] = max_count[t] /\ ans'[t] = ans[t] /\ number'[t] = number[t]
        /\ answers'[t] = <<>> /\ since'[t] = changes
    BY Zenon, <1>0, <1>1 DEF CallCount, NetStep
  <2>2. CallNext(t)
    BY Zenon, <2>1, CallBegins DEF CallNext
  <2>3. CallNow(t)'
    BY Zenon, <1>a, <2>2, CallStays DEF CallNow, CallNext
  <2>4. changes <= changes
    BY SMT, <1>c
  <2> QED
    BY Zenon, <1>a, <1>b, <2>1, <2>3, <2>4 DEF EnumOK, CallNow
<1>2. CASE CallAddr(t)
  <2>1. /\ npc[t] = "enum" /\ npc'[t] = "socket" /\ index'[t] = Len(answers[t])
        /\ snap'[t] = snap[t] /\ max_count'[t] = max_count[t] /\ ans'[t] = ans[t]
        /\ number'[t] = number[t] /\ answers'[t] = answers[t] /\ since'[t] = since[t]
        /\ Len(answers[t]) < number[t]
    BY Zenon, <1>0, <1>2 DEF CallAddr, NetStep
  <2>2. CallNow(t) => CallNext(t)
    BY Zenon, <1>c, <2>1, CallBegins DEF CallNow, CallNext
  <2>3. max_count'[t] = 0
    BY Zenon, <1>b, <2>1 DEF EnumOK
  <2> QED
    BY Zenon, <1>a, <1>b, <2>1, <2>2, <2>3, OwnStep
<1>3. CASE EnumDone(t)
  <2>1. /\ npc[t] = "enum" /\ npc'[t] = "idle" /\ max_count'[t] = max_count[t]
        /\ since'[t] = since[t]
    BY Zenon, <1>0, <1>3 DEF EnumDone, NetStep
  <2> QED
    BY Zenon, <1>a, <1>b, <2>1 DEF EnumOK
<1>4. CASE OpenSocket(t)
  <2>1. /\ npc[t] = "socket" /\ index'[t] = index[t]
        /\ snap'[t] = snap[t] /\ max_count'[t] = max_count[t] /\ ans'[t] = ans[t]
        /\ number'[t] = number[t] /\ answers'[t] = answers[t]
        /\ \/ npc'[t] = "conf" /\ since'[t] = since[t]
           \/ npc'[t] = "return" /\ since'[t] = NONE
    BY Zenon, <1>0, <1>4 DEF OpenSocket, NetStep
  <2>2. CASE npc'[t] = "conf" /\ since'[t] = since[t]
    <3>1. CallNow(t) => CallNext(t)
      BY Zenon, <2>1, <2>2, CallGoesOn DEF CallNow, CallNext
    <3>2. max_count'[t] = 0
      BY Zenon, <1>b, <2>1 DEF EnumOK
    <3> QED
      BY Zenon, <1>a, <1>b, <2>1, <2>2, <3>1, <3>2, OwnStep
  <2>3. CASE npc'[t] = "return" /\ since'[t] = NONE
    <3>1. NONE <= changes /\ NONE # changes
      BY SMT, <1>c DEF NONE
    <3> QED
      BY Zenon, <1>a, <2>3, <3>1 DEF EnumOK
  <2> QED
    BY Zenon, <2>1, <2>2, <2>3
<1>5. CASE GetList(t)
  <2>1. /\ npc[t] = "conf" /\ npc'[t] = "scan" /\ index'[t] = index[t]
        /\ snap'[t] = Listed /\ max_count'[t] = max_count[t] /\ ans'[t] = ans[t]
        /\ number'[t] = number[t] /\ answers'[t] = answers[t] /\ since'[t] = since[t]
    BY Zenon, <1>0, <1>5 DEF GetList, NetStep, InQuery
  <2>2. max_count[t] = 0
    BY Zenon, <1>b, <2>1 DEF EnumOK
  <2>3. CallNow(t) => CallNext(t)
    <3>1. CallOK("conf", index[t], snap[t], 0, ans[t], number[t], answers[t])
             => CallOK("scan", index[t], Listed, 0, ans[t], number[t], answers[t])
      BY Zenon, <1>c, ListTaken
    <3> QED
      BY Zenon, <2>1, <2>2, <3>1 DEF CallNow, CallNext
  <2> QED
    BY Zenon, <1>a, <1>b, <2>1, <2>2, <2>3, OwnStep
<1>6. CASE ScanEntry(t)
  <2>1. /\ npc[t] = "scan" /\ snap[t] # <<>> /\ index'[t] = index[t] /\ ans'[t] = ans[t]
        /\ number'[t] = number[t] /\ answers'[t] = answers[t] /\ since'[t] = since[t]
        /\ CanAsk(t)
    BY Zenon, <1>0, <1>6 DEF ScanEntry, InQuery
  <2>2. CASE Usable(Head(snap[t])) /\ index[t] = max_count[t]
    <3>1. npc'[t] = "addr" /\ snap'[t] = snap[t] /\ max_count'[t] = max_count[t] + 1
      BY Zenon, <1>0, <1>6, <2>1, <2>2 DEF ScanEntry
    <3>2. CallNow(t) => CallNext(t)
      <4>1. CallOK("scan", index[t], snap[t], max_count[t], ans[t], number[t], answers[t])
               => CallOK("addr", index[t], snap[t], max_count[t] + 1, ans[t], number[t], answers[t])
        BY Zenon, <1>c, <2>1, <2>2, EntryScanned
      <4> QED
        BY Zenon, <2>1, <3>1, <4>1 DEF CallNow, CallNext
    <3> QED
      BY Zenon, <1>a, <1>b, <2>1, <3>1, <3>2, OwnStep
  <2>3. CASE Usable(Head(snap[t])) /\ index[t] # max_count[t]
    <3>1. npc'[t] = "scan" /\ snap'[t] = Tail(snap[t]) /\ max_count'[t] = max_count[t] + 1
      BY Zenon, <1>0, <1>6, <2>1, <2>3 DEF ScanEntry
    <3>2. CallNow(t) => CallNext(t)
      BY Zenon, <1>c, <2>1, <2>3, <3>1, EntryScanned DEF CallNow, CallNext
    <3> QED
      BY Zenon, <1>a, <1>b, <2>1, <3>1, <3>2, OwnStep
  <2>4. CASE ~ Usable(Head(snap[t]))
    <3>1. npc'[t] = "scan" /\ snap'[t] = Tail(snap[t]) /\ max_count'[t] = max_count[t]
      BY Zenon, <1>0, <1>6, <2>1, <2>4 DEF ScanEntry
    <3>2. CallNow(t) => CallNext(t)
      BY Zenon, <1>c, <2>1, <2>4, <3>1, EntryScanned DEF CallNow, CallNext
    <3> QED
      BY Zenon, <1>a, <1>b, <2>1, <3>1, <3>2, OwnStep
  <2> QED
    BY Zenon, <2>2, <2>3, <2>4
<1>7. CASE ScanEnd(t)
  <2>1. /\ npc[t] = "scan" /\ npc'[t] = "close" /\ snap[t] = <<>> /\ index'[t] = index[t]
        /\ snap'[t] = snap[t] /\ max_count'[t] = max_count[t] /\ ans'[t] = ans[t]
        /\ number'[t] = number[t] /\ answers'[t] = answers[t] /\ since'[t] = since[t]
    BY Zenon, <1>0, <1>7 DEF ScanEnd, NetStep
  <2>2. CallNow(t) => CallNext(t)
    BY Zenon, <1>c, <2>1, ScanEnded DEF CallNow, CallNext
  <2> QED
    BY Zenon, <1>a, <1>b, <2>1, <2>2, OwnStep
<1>8. ASSUME NEW w \in Answer, Ask(t, w, AskNext(w)) PROVE EnumOK(t)'
  <2>1. /\ npc[t] = w /\ npc'[t] = AskNext(w) /\ index'[t] = index[t]
        /\ snap'[t] = snap[t] /\ max_count'[t] = max_count[t]
        /\ ans'[t] = [ans[t] EXCEPT ![w] = Asked(Head(snap[t]))]
        /\ number'[t] = number[t] /\ answers'[t] = answers[t] /\ since'[t] = since[t]
    BY Zenon, <1>0, <1>8, AnswerInQuery DEF Ask, NetStep
  <2>2. CallNow(t) => CallNext(t)
    <3> DEFINE b == [ans[t] EXCEPT ![w] = Asked(Head(snap[t]))]
    <3>1. CallOK(w, index[t], snap[t], max_count[t], ans[t], number[t], answers[t])
             => CallOK(AskNext(w), index[t], snap[t], max_count[t], b, number[t], answers[t])
      BY Zenon, <1>c, <1>8, AddressAsked
    <3> HIDE DEF b
    <3>2. ans'[t] = b
      BY Zenon, <2>1 DEF b
    <3> QED
      BY Zenon, <2>1, <3>1, <3>2 DEF CallNow, CallNext
  <2>3. AskNext(w) \notin {"idle", "enum", "socket", "conf"} /\ w # "idle"
    BY Zenon, <1>8 DEF AskNext, Answer
  <2> QED
    BY Zenon, <1>a, <1>b, <2>1, <2>2, <2>3, OwnStep
<1>9. CASE CloseSocket(t)
  <2>1. /\ npc[t] = "close" /\ npc'[t] = "return" /\ index'[t] = index[t]
        /\ snap'[t] = snap[t] /\ max_count'[t] = max_count[t] /\ ans'[t] = ans[t]
        /\ number'[t] = number[t] /\ answers'[t] = answers[t] /\ since'[t] = since[t]
    BY Zenon, <1>0, <1>9 DEF CloseSocket, NetStep
  <2>2. CallNow(t) => CallNext(t)
    BY Zenon, <2>1, CallGoesOn DEF CallNow, CallNext
  <2> QED
    BY Zenon, <1>a, <1>b, <2>1, <2>2, OwnStep
<1>10. CASE Return(t)
  <2>1. /\ npc[t] = "return" /\ npc'[t] = "enum" /\ index'[t] = index[t]
        /\ max_count'[t] = 0 /\ since'[t] = since[t]
    BY Zenon, <1>0, <1>10 DEF Return, NetStep
  <2>2. IF index[t] = Count
        THEN number'[t] = max_count[t] /\ answers'[t] = answers[t]
        ELSE number'[t] = number[t] /\ answers'[t] = Append(answers[t], ans[t])
    BY Zenon, <1>0, <1>10 DEF Return
  <2>3. CallNow(t) => CallNext(t)
    <3>1. CASE index[t] = Count
      <4>1. CallNow(t) => CallOK("enum", index[t], snap'[t], max_count'[t], ans'[t],
                                 max_count[t], answers[t])
        BY Zenon, <1>c, <2>1, <3>1, CallReturns DEF CallNow
      <4> QED
        BY Zenon, <2>1, <2>2, <3>1, <4>1 DEF CallNext
    <3>2. CASE index[t] # Count
      <4>1. CallNow(t) => CallOK("enum", index[t], snap'[t], max_count'[t], ans'[t],
                                 number[t], Append(answers[t], ans[t]))
        BY Zenon, <1>c, <2>1, <3>2, CallReturns DEF CallNow
      <4> QED
        BY Zenon, <2>1, <2>2, <3>2, <4>1 DEF CallNext
    <3> QED
      BY Zenon, <3>1, <3>2
  <2> QED
    BY Zenon, <1>a, <1>b, <2>1, <2>3, OwnStep
<1>11. Ask(t, "addr", "mask") \/ Ask(t, "mask", "bcast") \/ Ask(t, "bcast", "close")
          => \E w \in Answer : Ask(t, w, AskNext(w))
  BY Zenon DEF AskNext, Answer
<1> QED
  BY Zenon, <1>1, <1>2, <1>3, <1>4, <1>5, <1>6, <1>7, <1>8, <1>9, <1>10, <1>11 DEF ClientStep

\* A change of the interfaces ends what was known of every enumeration.
LEMMA SystemEnum ==
    ASSUME NetTypeOK, EnumInv, SystemStep
    PROVE  EnumInv'
<1>1. Changed
  BY Zenon DEF SystemStep, InterfaceAppears, InterfaceVanishes, InterfaceUpDown, AddressChanges
<1>2. changes' = changes + 1 /\ since' = since /\ npc' = npc /\ max_count' = max_count
  BY Zenon, <1>1 DEF Changed, clientVars
<1>3. ASSUME NEW t \in Clients PROVE EnumOK(t)'
  <2>1. since[t] \in Int /\ changes \in Nat
    BY Zenon, NetValues
  <2>2. since[t] <= changes /\ (npc[t] \in {"idle", "enum", "socket", "conf"} => max_count[t] = 0)
    BY Zenon DEF EnumInv, EnumOK
  <2>3. since[t] <= changes
    BY Zenon, <2>2
  <2>4. since[t] <= changes + 1 /\ since[t] # changes + 1
    BY SMT, <2>1, <2>3
  <2> QED
    BY Zenon, <1>2, <2>2, <2>4 DEF EnumOK
<1> QED
  BY Zenon, <1>3 DEF EnumInv

\* The invariant says of an enumeration that is through that it is exact.
LEMMA EnumExact == NetTypeOK /\ ("close" \notin mishaps => EnumInv) => EnumerationIsExact
<1> SUFFICES ASSUME NetTypeOK, EnumInv, NEW t \in Clients,
                    npc[t] = "enum" /\ Len(answers[t]) = number[t] /\ since[t] = changes
             PROVE  /\ number[t] = Total
                    /\ \A k \in 1..Len(Listed) :
                          Usable(Listed[k]) => answers[t][Rank(k)] = AddressesOf(Listed[k])
  BY Zenon DEF EnumerationIsExact
<1>1. CallNow(t)
  BY Zenon DEF EnumInv, EnumOK, CallNow
<1>2. Told(answers[t]) /\ number[t] = Total
  BY Zenon, <1>1 DEF CallNow, CallOK, IndexOK
<1>3. ASSUME NEW k \in 1..Len(Listed), Usable(Listed[k])
      PROVE  answers[t][Rank(k)] = AddressesOf(Listed[k])
  <2>1. Rank(k) \in 1..Total /\ Total \in Nat
    BY Zenon, <1>3, RankUsable, TotalType
  <2>2. Rank(k) <= Total
    BY SMT, <2>1
  <2> QED
    BY Zenon, <1>2, <1>3, <2>2 DEF Told
<1> QED
  BY Zenon, <1>2, <1>3

\* What a writer has done to a descriptor of somebody else is never undone.
LEMMA MishapsStay ==
    ASSUME [SharedNext]_sharedVars
    PROVE  mishaps \subseteq mishaps'
<1>1. ASSUME NEW t \in Threads, WriteTest(t) \/ LineStep(t) PROVE mishaps \subseteq mishaps'
  BY <1>1 DEF LineStep, WriteTest, OpenLog, OpenLogClose, OpenLogOpen, OpenLogStore,
              OpenLogFix, WriteLoad, WriteLine
<1> QED
  BY <1>1 DEF SharedNext, Writes, Asks, ConsoleStep, ofc_set_config_dir, sharedVars, consoleVars

\* As long as no writer has closed a descriptor that is not the log's, a query that
\* has a socket can ask with it.
LEMMA SocketAnswers ==
    ASSUME SharedInv, "close" \notin mishaps, NEW t \in Clients, npc[t] \in InQuery
    PROVE  CanAsk(t)
  BY DEF SharedInv, SocketIsOwn, CanAsk

\* Every step keeps what is known of the enumerations.
LEMMA EnumStep ==
    ASSUME SharedInv, NetTypeOK, EnumInv, "close" \notin mishaps, [SharedNext]_sharedVars
    PROVE  EnumInv'
<1>1. CASE UNCHANGED netVars
  <2>1. UNCHANGED systemVars
    BY Zenon, <1>1 DEF netVars
  <2>2. /\ npc' = npc /\ index' = index /\ snap' = snap /\ max_count' = max_count
        /\ ans' = ans /\ number' = number /\ answers' = answers /\ since' = since
    BY Zenon, <1>1 DEF netVars, clientVars
  <2>3. ASSUME NEW t \in Clients PROVE EnumOK(t)'
    <3>1. CallNow(t) => CallNow(t)'
      BY Zenon, <2>1, <2>2, CallStays DEF CallNow
    <3>2. EnumOK(t) /\ changes' = changes
      BY Zenon, <2>1 DEF EnumInv, systemVars
    <3> QED
      BY Zenon, <2>2, <3>1, <3>2 DEF EnumOK, CallNow
  <2> QED
    BY Zenon, <2>3 DEF EnumInv
<1>2. ASSUME NEW t \in Clients, ClientStep(t) PROVE EnumInv'
  <2>1. npc[t] \in InQuery => CanAsk(t)
    BY Zenon, SocketAnswers
  <2> QED
    BY Zenon, <1>2, <2>1, OwnEnum, OthersEnum DEF EnumInv
<1>3. CASE SystemStep
  BY Zenon, <1>3, SystemEnum
<1> QED
  BY Zenon, <1>1, <1>2, <1>3 DEF SharedNext, Writes, Asks, sharedVars

\* As long as no writer of the log has closed a descriptor that is not the log's, an
\* enumeration that no change of the interfaces comes between is exact: the number
\* that ofc_net_interface_count_impl gives is that of the usable interfaces in the
\* list, and ofc_net_interface_addr_impl gives each of them its addresses under an
\* index of its own, in the order of the list.
THEOREM EnumerationCorrect == SharedSpec => []EnumerationIsExact
<1> DEFINE Inv == "close" \notin mishaps => EnumInv
<1>1. SharedInit => Inv
  <2> SUFFICES ASSUME NetInit, NEW t \in Clients PROVE EnumOK(t)
    BY Zenon DEF SharedInit, EnumInv
  <2>1. npc[t] = "idle" /\ max_count[t] = 0 /\ since[t] = 0 /\ changes \in 0..MaxChanges
    BY Zenon DEF NetInit
  <2>2. 0 <= changes
    BY SMT, <2>1, NetAssumption
  <2> QED
    BY Zenon, <2>1, <2>2 DEF EnumOK
<1>2. SharedInv /\ NetTypeOK /\ Inv /\ [SharedNext]_sharedVars => Inv'
  <2> SUFFICES ASSUME SharedInv, NetTypeOK, Inv, [SharedNext]_sharedVars,
                      "close" \notin mishaps'
               PROVE  EnumInv'
    OBVIOUS
  <2>1. "close" \notin mishaps
    BY Zenon, MishapsStay
  <2> QED
    BY Zenon, <2>1, EnumStep
<1>3. NetTypeOK /\ Inv => EnumerationIsExact
  BY Zenon, EnumExact
<1> HIDE DEF Inv
<1> QED
  BY <1>1, <1>2, <1>3, NetTypeCorrect, SharedCorrect, PTL DEF SharedSpec
=============================================================================
