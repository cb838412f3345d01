------------------------------- MODULE Console -------------------------------
(***************************************************************************)
(* The log of src/console_android.c: every thread writes its lines to the  *)
(* one descriptor g_fd, without a lock.  As long as g_fd is the standard   *)
(* output, a writer first tries to open the log file; open_log itself      *)
(* writes a header and, through ofc_process_dump_libs, a line for each of  *)
(* the two libraries, by the same function that called it.  The dump also  *)
(* learns the load addresses that ofc_process_relative_addr_impl of        *)
(* src/process_android.c uses.                                             *)
(*                                                                         *)
(* The rotation of ofc_write_stdout_impl is not reachable: fstat never     *)
(* answers more than 0.                                                    *)
(***************************************************************************)
EXTENDS Descriptors, Sequences, FiniteSets

CONSTANTS
    Threads,    \* threads that write lines
    MaxLines,   \* bound: lines each thread writes
    MaxFails,   \* bound: times the log file cannot be opened
    LoadAddr,   \* where libof_core_jni ("core") and libof_smb_jni ("smb") are loaded
    LibSize     \* the size of each of them

STDOUT == 1
Log == "log"
Libs == {"core", "smb"}

ASSUME ConsoleAssumption ==
    /\ STDOUT \notin Fds
    /\ Log # NoFile
    /\ MaxLines \in Nat
    /\ MaxFails \in Nat
    /\ LibSize \in Nat
    /\ LoadAddr \in [Libs -> Nat \ {0}]
    /\ \A k, l \in Libs : k # l =>
          LoadAddr[k] + LibSize < LoadAddr[l] \/ LoadAddr[l] + LibSize < LoadAddr[k]

VARIABLES
    g_fd,       \* the descriptor lines are written to
    configured, \* does ofc_get_config_dir know a directory?
    cpc,        \* where each thread is in the line it writes
    owed,       \* per open_log on the thread's stack, the lines it has yet to write
    target,     \* a descriptor number a thread has read, or got from open
    lines,      \* lines a thread may still write
    fails,      \* failures of open that may still happen
    load_addr,  \* core_load_addr and smb_load_addr
    written,    \* history: has the log file a line in it?
    contended,  \* history: have two threads been in open_log at once?
    mishaps     \* history: what has been done to descriptors and lines of others

consoleVars == <<g_fd, configured, cpc, owed, target, lines, fails, load_addr,
                 written, contended, mishaps>>

Opening == {"log", "close", "open", "store", "fix"}
OthersOpen(t) == \E u \in Threads \ {t} : cpc[u] \in Opening

\* A number that has been used is of no further use.
Forget(t) == target' = [target EXCEPT ![t] = STDOUT]

Step(t, from, to) == cpc[t] = from /\ cpc' = [cpc EXCEPT ![t] = to]

\* The lines of one open_log: the header and one for each library.
Header == 1 + Cardinality(Libs)

-----------------------------------------------------------------------------
\* The application makes its configuration known, after which there is a
\* directory for the log file.
ofc_set_config_dir ==
    /\ ~configured
    /\ configured' = TRUE
    /\ UNCHANGED <<file, g_fd, cpc, owed, target, lines, fails, load_addr,
                   written, contended, mishaps>>

\* A line of the thread's own, or the next one of an open_log.
CallOrNext(t) ==
    \/ /\ cpc[t] = "idle" /\ lines[t] > 0
       /\ lines' = [lines EXCEPT ![t] = @ - 1]
    \/ /\ cpc[t] = "next"
       /\ UNCHANGED lines

\* Mutant of WriteTest: a rotation that works.  The log is too long, is closed
\* and opened again (and open_log closes it once more).
WriteRotates(t) ==
    /\ CallOrNext(t)
    /\ \/ /\ g_fd = STDOUT
          /\ cpc' = [cpc EXCEPT ![t] = "log"]
          /\ contended' = (contended \/ OthersOpen(t))
          /\ UNCHANGED file
       \/ /\ g_fd # STDOUT
          /\ cpc' = [cpc EXCEPT ![t] = "write"]
          /\ UNCHANGED <<file, contended>>
       \/ /\ g_fd # STDOUT
          /\ cpc' = [cpc EXCEPT ![t] = "log"]
          /\ CloseFd(g_fd)
          /\ contended' = (contended \/ OthersOpen(t))
    /\ UNCHANGED <<g_fd, configured, owed, target, fails, load_addr, written, mishaps>>

\* ofc_write_stdout_impl, ofc_write_log_impl and ofc_write_console_impl: the test
\* that they begin with.
WriteTest(t) ==
    /\ CallOrNext(t)
    /\ \/ /\ g_fd = STDOUT
          /\ cpc' = [cpc EXCEPT ![t] = "log"]
          /\ contended' = (contended \/ OthersOpen(t))
       \/ /\ g_fd # STDOUT
          /\ cpc' = [cpc EXCEPT ![t] = "write"]
          /\ UNCHANGED contended
    /\ UNCHANGED <<file, g_fd, configured, owed, target, fails, load_addr, written, mishaps>>

\* Mutant of OpenLog: a lock from here to the last line of the header.
OpenLogLocked(t) ==
    /\ \A u \in Threads : owed[u] = <<>> /\ cpc[u] \notin {"close", "open", "store", "fix"}
    /\ \/ ~configured /\ Step(t, "log", "write")
       \/ configured /\ g_fd # STDOUT /\ Step(t, "log", "close")
       \/ configured /\ g_fd = STDOUT /\ Step(t, "log", "open")
    /\ target' = [target EXCEPT ![t] = g_fd]
    /\ UNCHANGED <<file, g_fd, configured, owed, lines, fails, load_addr,
                   written, contended, mishaps>>

\* open_log: nothing without a directory.  Another thread may have opened the log
\* since the test ...
OpenLog(t) ==
    /\ \/ ~configured /\ Step(t, "log", "write")
       \/ configured /\ g_fd # STDOUT /\ Step(t, "log", "close")
       \/ configured /\ g_fd = STDOUT /\ Step(t, "log", "open")
    /\ target' = [target EXCEPT ![t] = g_fd]
    /\ UNCHANGED <<file, g_fd, configured, owed, lines, fails, load_addr,
                   written, contended, mishaps>>

\* Has another thread opened the log under this number, and not yet stored it?
Unstored(t, d) == \E u \in Threads \ {t} : cpc[u] = "store" /\ target[u] = d

\* What the close of d by thread t does to others.
Harm(t, d) ==
    CASE FileAt(d) \notin {Log, NoFile} -> {"close"}
      [] FileAt(d) = Log /\ Unstored(t, d) -> {"steal"}
      [] OTHER -> {}

\* ... which closes it under the other's hands, whether the compiled code reads
\* g_fd once or twice ...
OpenLogClose(t) ==
    /\ Step(t, "close", "open")
    /\ \E d \in {target[t], g_fd} : CloseFd(d) /\ mishaps' = mishaps \cup Harm(t, d)
    /\ Forget(t)
    /\ UNCHANGED <<g_fd, configured, owed, lines, fails, load_addr, written, contended>>

\* ... open it, emptied, or fail to: for a reason of its own, or because there is
\* no descriptor left ...
OpenLogOpen(t) ==
    /\ Step(t, "open", "store")
    /\ \/ /\ \E d \in Fds : OpenFd(d, Log) /\ target' = [target EXCEPT ![t] = d]
          /\ written' = FALSE
          /\ mishaps' = IF written THEN mishaps \cup {"truncate"} ELSE mishaps
          /\ UNCHANGED fails
       \/ /\ ~TableFull => fails > 0
          /\ fails' = IF TableFull THEN fails ELSE fails - 1
          /\ target' = [target EXCEPT ![t] = -1]
          /\ UNCHANGED <<file, written, mishaps>>
    /\ UNCHANGED <<g_fd, configured, owed, lines, load_addr, contended>>

\* Mutant of OpenLogStore: the global is only given a descriptor that is one, and
\* keeps the number that has just been closed.
OpenLogKeeps(t) ==
    /\ Step(t, "store", "fix")
    /\ g_fd' = IF target[t] < 0 THEN g_fd ELSE target[t]
    /\ UNCHANGED <<file, configured, owed, target, lines, fails, load_addr,
                   written, contended, mishaps>>

\* ... store what open has answered ...
OpenLogStore(t) ==
    /\ Step(t, "store", "fix")
    /\ g_fd' = target[t]
    /\ UNCHANGED <<file, configured, owed, target, lines, fails, load_addr,
                   written, contended, mishaps>>

\* ... and make do with the standard output if that is no descriptor; then write
\* the header.
OpenLogFix(t) ==
    /\ Step(t, "fix", "next")
    /\ \E d \in {target[t], g_fd} : g_fd' = IF d < 0 THEN STDOUT ELSE g_fd
    /\ owed' = [owed EXCEPT ![t] = <<Header - 1>> \o @]
    /\ Forget(t)
    /\ UNCHANGED <<file, configured, lines, fails, load_addr, written, contended, mishaps>>

\* write(g_fd, ...): the number is read, then passed to the system.
WriteLoad(t) ==
    /\ Step(t, "write", "writing")
    /\ target' = [target EXCEPT ![t] = g_fd]
    /\ UNCHANGED <<file, g_fd, configured, owed, lines, fails, load_addr,
                   written, contended, mishaps>>

\* process_dump_libs_callback: the address of a library is stored before its
\* line is written; the libraries come in the order they were loaded.
Dumped(left) == IF left = Header - 1 THEN "core" ELSE "smb"

\* Mutant of WriteLine: an open_log inside an open_log ends the outer one too.
WriteLineLast(t) ==
    /\ cpc[t] = "writing"
    /\ LET f == FileAt(target[t]) IN
          /\ written' = (written \/ f = Log)
          /\ mishaps' = IF f \in {Log, NoFile} THEN mishaps ELSE mishaps \cup {"write"}
    /\ \/ /\ owed[t] # <<>> => Head(owed[t]) = 0
          /\ Step(t, "writing", "idle")
          /\ UNCHANGED <<owed, load_addr>>
       \/ /\ owed[t] # <<>> /\ Head(owed[t]) > 0
          /\ Step(t, "writing", "next")
          /\ owed' = [owed EXCEPT ![t] = <<Head(@) - 1>> \o Tail(@)]
          /\ load_addr' = [load_addr EXCEPT ![Dumped(Head(owed[t]))] =
                              LoadAddr[Dumped(Head(owed[t]))]]
    /\ Forget(t)
    /\ UNCHANGED <<file, g_fd, configured, lines, fails, contended>>

\* A line of an open_log is followed by the next one; after the last of them the
\* line for whose sake the log was opened is written, without another test.
WriteLine(t) ==
    /\ cpc[t] = "writing"
    /\ LET f == FileAt(target[t]) IN
          /\ written' = (written \/ f = Log)
          /\ mishaps' = IF f \in {Log, NoFile} THEN mishaps ELSE mishaps \cup {"write"}
    /\ \/ /\ owed[t] = <<>>
          /\ Step(t, "writing", "idle")
          /\ UNCHANGED <<owed, load_addr>>
       \/ /\ owed[t] # <<>> /\ Head(owed[t]) > 0
          /\ Step(t, "writing", "next")
          /\ owed' = [owed EXCEPT ![t] = <<Head(@) - 1>> \o Tail(@)]
          /\ load_addr' = [load_addr EXCEPT ![Dumped(Head(owed[t]))] =
                              LoadAddr[Dumped(Head(owed[t]))]]
       \/ /\ owed[t] # <<>> /\ Head(owed[t]) = 0
          /\ Step(t, "writing", "write")
          /\ owed' = [owed EXCEPT ![t] = Tail(@)]
          /\ UNCHANGED load_addr
    /\ Forget(t)
    /\ UNCHANGED <<file, g_fd, configured, lines, fails, contended>>

\* Mutant of ofc_process_relative_addr_impl: one known library is enough.
RelativeToKnown(ptr) ==
    LET high == IF load_addr["core"] > load_addr["smb"] THEN "core" ELSE "smb"
        low  == IF high = "core" THEN "smb" ELSE "core"
    IN  IF load_addr[high] = 0 THEN <<>>
        ELSE IF ptr > load_addr[high] THEN <<high, ptr - load_addr[high]>>
        ELSE IF ptr > load_addr[low] THEN <<low, ptr - load_addr[low]>>
        ELSE <<>>

\* ofc_process_relative_addr_impl: an address relative to the library it is in,
\* which the top bit tells; 0 (here <<>>) if that is not known.
ofc_process_relative_addr_impl(ptr) ==
    LET high == IF load_addr["core"] > load_addr["smb"] THEN "core" ELSE "smb"
        low  == IF high = "core" THEN "smb" ELSE "core"
    IN  IF 0 \in {load_addr[high], load_addr[low]} \/ load_addr[high] = load_addr[low] THEN <<>>
        ELSE IF ptr > load_addr[high] THEN <<high, ptr - load_addr[high]>>
        ELSE IF ptr > load_addr[low] THEN <<low, ptr - load_addr[low]>>
        ELSE <<>>

ConsoleInit ==
    /\ g_fd = STDOUT
    /\ configured \in BOOLEAN
    /\ cpc = [t \in Threads |-> "idle"]
    /\ owed = [t \in Threads |-> <<>>]
    /\ target = [t \in Threads |-> STDOUT]
    /\ lines \in [Threads -> 0..MaxLines]
    /\ fails \in 0..MaxFails
    /\ load_addr = [l \in Libs |-> 0]
    /\ written = FALSE
    /\ contended = FALSE
    /\ mishaps = {}

\* A line that is being written.
LineStep(t) ==
    \/ (cpc[t] = "next" /\ WriteTest(t))
    \/ OpenLog(t) \/ OpenLogClose(t) \/ OpenLogOpen(t) \/ OpenLogStore(t) \/ OpenLogFix(t)
    \/ WriteLoad(t) \/ WriteLine(t)

ConsoleStep ==
    ofc_set_config_dir \/ \E t \in Threads : WriteTest(t) \/ LineStep(t)

-----------------------------------------------------------------------------
\* The type invariant of the log and its writers.
ConsoleTypeOK ==
    /\ g_fd \in Fds \cup {STDOUT, -1}
    /\ configured \in BOOLEAN
    /\ cpc \in [Threads -> Opening \cup {"idle", "next", "write", "writing"}]
    /\ owed \in [Threads -> Seq(0..Header - 1)]
    /\ target \in [Threads -> Fds \cup {STDOUT, -1}]
    /\ lines \in [Threads -> Nat]
    /\ fails \in 0..MaxFails
    /\ load_addr \in [Libs -> Nat]
    /\ written \in BOOLEAN
    /\ contended \in BOOLEAN
    /\ mishaps \subseteq {"close", "steal", "write", "truncate"}
    /\ \A t \in Threads : cpc[t] = "idle" => owed[t] = <<>>

\* Unless two threads have been in open_log at the same time, which nothing
\* prevents when the first lines are written: no line goes to a descriptor that
\* has become somebody else's, nobody else's descriptor is closed, and a log
\* with lines in it is not emptied, although g_fd has no lock.
OthersAreSafe == ~contended => mishaps = {}

\* When no thread is in open_log any more, the descriptor that all threads write to
\* is an open log or the standard output: also after several threads have been in
\* it at once, closed each other's log and opened others.  Two mishaps are beyond
\* this: a thread whose number is stale has closed a descriptor that is not the
\* log's, or the log that another thread has opened and not yet stored in g_fd.
LogIsOpen ==
    (/\ mishaps \cap {"close", "steal"} = {}
     /\ g_fd # STDOUT
     /\ \A t \in Threads : cpc[t] \notin Opening)
        => FileAt(g_fd) = Log

\* A line is written in the end, although open_log calls itself for as long as the
\* log cannot be opened: provided that it can be opened some time, or that there
\* is no directory for it.
WriteReturns == \A t \in Threads : (cpc[t] # "idle") ~> (cpc[t] = "idle")

\* ofc_process_relative_addr_impl, called at any moment of the dump that stores
\* the two load addresses one after the other: an address inside a library comes
\* back as nothing or as the offset in that very library.
AddressesTellLibrary ==
    \A l \in Libs : \A ptr \in LoadAddr[l] + 1 .. LoadAddr[l] + LibSize :
        ofc_process_relative_addr_impl(ptr) \in {<<>>, <<l, ptr - LoadAddr[l]>>}
=============================================================================
