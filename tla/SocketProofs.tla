---------------------------- MODULE SocketProofs -----------------------------
(***************************************************************************)
(* Theorems about module Socket, for any number of sockets, descriptors    *)
(* and pieces of data: every open object has its own descriptor, and an    *)
(* end that is told is an end.  The inductive invariant adds what poll     *)
(* knows: the numbers it was given are those of the sockets that are still *)
(* open, and it reports no hang-up for a connection that has not failed.   *)
(***************************************************************************)
EXTENDS Socket, TLAPS

\* What is in poll has been opened, and while it is open the copy has its number; and
\* it is not fresh, for poll would report a hang-up.
PollKnows ==
    \A h \in DOMAIN pollfds :
        /\ life[h] # "none"
        /\ Open(h) => pollfds[h].fd = socket[h] /\ conn[h] # "fresh"

\* A hang-up has been reported only of a connection that has failed.
HupIsReset ==
    \A h \in Socks : (Open(h) /\ ~unreported[h] /\ "HUP" \in revents[h]) => Reset(h)

\* What recv has found is the end, unless it has failed.
ClosedIsOver ==
    \A h \in Socks : (Open(h) /\ remote_closed[h] /\ ~failed[h]) => Ended(h)

SocketInv ==
    /\ SocketTypeOK /\ OneDescriptorEach
    /\ PollKnows /\ HupIsReset /\ ClosedIsOver

\* The invariant holds at the start.
LEMMA SocketInitInv == SocketInit => SocketInv
  BY SocketAssumption, DescriptorsAssumption
     DEF SocketInit, SocketInv, SocketTypeOK, OneDescriptorEach, PollKnows, HupIsReset,
         ClosedIsOver, Open, NoSocket, Bits, Revents

\* A socket is opened on a number that was free.
LEMMA OpenStep ==
    ASSUME SocketInv, NEW n \in Socks, life[n] = "none",
           \E d \in Fds : OpenFd(d, n) /\ socket' = [socket EXCEPT ![n] = d],
           life' = [life EXCEPT ![n] = "open"]
    PROVE  OneDescriptorEach' /\ file' \in [Fds -> Socks \cup {NoFile}]
           /\ socket' \in [Socks -> Fds \cup {NoSocket}]
           /\ \A h \in Socks : life'[h] \in {"open", "closed"} <=> socket'[h] \in Fds
<1>1. PICK d \in Fds : OpenFd(d, n) /\ socket' = [socket EXCEPT ![n] = d]
  OBVIOUS
<1>2. /\ life \in [Socks -> {"none", "open", "closed", "gone"}]
      /\ socket \in [Socks -> Fds \cup {NoSocket}]
      /\ \A h \in Socks : life[h] \in {"open", "closed"} <=> socket[h] \in Fds
  BY DEF SocketInv, SocketTypeOK
<1>3. \A h \in Socks : \A e \in Fds : file[e] = h <=> Open(h) /\ socket[h] = e
  BY DEF SocketInv, OneDescriptorEach
<1>4. \A e \in Fds : file[e] # n
  BY <1>3 DEF Open
<1>5. file[d] = NoFile /\ (\A e \in Fds : file'[e] = IF e = d THEN n ELSE file[e])
  <2>1. file' = [file EXCEPT ![d] = n] /\ file[d] = NoFile
    BY <1>1 DEF OpenFd, NextFd
  <2>2. file \in [Fds -> Socks \cup {NoFile}]
    BY DEF SocketInv, SocketTypeOK
  <2> QED
    BY <2>1, <2>2
<1>6. file' \in [Fds -> Socks \cup {NoFile}]
  BY <1>1 DEF OpenFd, SocketInv, SocketTypeOK
<1> QED
  BY <1>1, <1>2, <1>3, <1>4, <1>5, <1>6, SocketAssumption DEF OneDescriptorEach, Open

\* Each step, conjunct by conjunct where more than one is disturbed.
LEMMA CreateStep ==
    ASSUME SocketInv, NEW h \in Socks, ofc_socket_impl_create(h)
    PROVE  SocketInv'
<1>1. /\ OneDescriptorEach' /\ file' \in [Fds -> Socks \cup {NoFile}]
      /\ socket' \in [Socks -> Fds \cup {NoSocket}]
      /\ \A k \in Socks : life'[k] \in {"open", "closed"} <=> socket'[k] \in Fds
  BY OpenStep DEF ofc_socket_impl_create
<1>2. SocketTypeOK'
  BY <1>1 DEF ofc_socket_impl_create, SocketInv, SocketTypeOK, netVars
<1>3. PollKnows'
  BY DEF ofc_socket_impl_create, SocketInv, SocketTypeOK, PollKnows, netVars, Open
<1>4. HupIsReset' /\ ClosedIsOver'
  BY DEF ofc_socket_impl_create, SocketInv, SocketTypeOK, HupIsReset, ClosedIsOver, netVars,
         Open, Reset, Over, Ended
<1> QED
  BY <1>1, <1>2, <1>3, <1>4 DEF SocketInv

LEMMA AcceptStep ==
    ASSUME SocketInv, NEW h \in Socks, NEW n \in Socks, ofc_socket_impl_accept(h, n)
    PROVE  SocketInv'
<1>1. /\ OneDescriptorEach' /\ file' \in [Fds -> Socks \cup {NoFile}]
      /\ socket' \in [Socks -> Fds \cup {NoSocket}]
      /\ \A k \in Socks : life'[k] \in {"open", "closed"} <=> socket'[k] \in Fds
  BY OpenStep DEF ofc_socket_impl_accept
<1>2. SocketTypeOK'
  <2>1. revents' \in [Socks -> SUBSET Revents]
    BY SocketAssumption DEF ofc_socket_impl_accept, SocketInv, SocketTypeOK, Revents
  <2>2. events' \in [Socks -> SUBSET Bits]
    BY SocketAssumption DEF ofc_socket_impl_accept, SocketInv, SocketTypeOK
  <2> QED
    BY <1>1, <2>1, <2>2 DEF ofc_socket_impl_accept, SocketInv, SocketTypeOK
<1>3. PollKnows'
  BY DEF ofc_socket_impl_accept, SocketInv, SocketTypeOK, PollKnows, Open
<1>4. HupIsReset' /\ ClosedIsOver'
  BY DEF ofc_socket_impl_accept, SocketInv, SocketTypeOK, HupIsReset, ClosedIsOver,
         Open, Reset, Over, Ended, Listening
<1> QED
  BY <1>1, <1>2, <1>3, <1>4 DEF SocketInv

LEMMA CloseStep ==
    ASSUME SocketInv, NEW h \in Socks, ofc_socket_impl_close(h)
    PROVE  SocketInv'
<1>1. /\ Open(h) /\ socket[h] \in Fds
      /\ file' = [e \in Fds |-> IF e = socket[h] THEN NoFile ELSE file[e]]
      /\ socket' = socket
      /\ life' = [life EXCEPT ![h] = "closed"]
  BY DEF ofc_socket_impl_close, CloseFd, SocketInv, SocketTypeOK, Open
<1>2. OneDescriptorEach'
  BY <1>1, SocketAssumption DEF SocketInv, SocketTypeOK, OneDescriptorEach, Open
<1>3. SocketTypeOK'
  BY <1>1 DEF ofc_socket_impl_close, NoConnection, SocketInv, SocketTypeOK, Open
<1>4. PollKnows' /\ HupIsReset' /\ ClosedIsOver'
  BY <1>1 DEF ofc_socket_impl_close, NoConnection, SocketInv, SocketTypeOK, PollKnows,
         HupIsReset, ClosedIsOver, Open, Reset, Over, Ended
<1> QED
  BY <1>2, <1>3, <1>4 DEF SocketInv

LEMMA DestroyStep ==
    ASSUME SocketInv, NEW h \in Socks, ofc_socket_impl_destroy(h)
    PROVE  SocketInv'
<1>1. OneDescriptorEach'
  BY DEF ofc_socket_impl_destroy, Freed, SocketInv, SocketTypeOK, OneDescriptorEach, Open
<1>2. SocketTypeOK'
  BY DescriptorsAssumption
     DEF ofc_socket_impl_destroy, Freed, netVars, SocketInv, SocketTypeOK, NoSocket
<1>3. PollKnows' /\ HupIsReset' /\ ClosedIsOver'
  BY DEF ofc_socket_impl_destroy, Freed, netVars, SocketInv, SocketTypeOK, PollKnows,
         HupIsReset, ClosedIsOver, Open, Reset, Over, Ended
<1> QED
  BY <1>1, <1>2, <1>3 DEF SocketInv

\* The other operations of an owner leave the table and the numbers alone.
LEMMA UseStep ==
    ASSUME SocketInv, NEW h \in Socks,
           \/ ofc_socket_impl_connect(h) \/ ofc_socket_impl_listen(h)
           \/ ofc_socket_impl_enable(h, ToRead) \/ ofc_socket_impl_enable(h, ToWrite)
           \/ ofc_socket_impl_recv(h)
    PROVE  SocketInv'
<1> USE DEF SocketInv, SocketTypeOK, OneDescriptorEach, PollKnows, HupIsReset,
            ClosedIsOver, Open, Reset, Over, Ended
<1>1. CASE ofc_socket_impl_connect(h)
  BY <1>1 DEF ofc_socket_impl_connect, objectVars
<1>2. CASE ofc_socket_impl_listen(h)
  BY <1>2 DEF ofc_socket_impl_listen, objectVars
<1>3. ASSUME NEW type, ofc_socket_impl_enable(h, type)
      PROVE  SocketInv'
  <2>1. PollBits(type) \subseteq Bits
    BY DEF PollBits
  <2> QED
    BY <1>3, <2>1 DEF ofc_socket_impl_enable, netVars
<1>4. CASE ofc_socket_impl_recv(h)
  <2>1. CASE inbox[h] > 0 /\ inbox' = [inbox EXCEPT ![h] = @ - 1]
             /\ UNCHANGED <<remote_closed, failed>>
    BY <1>4, <2>1 DEF ofc_socket_impl_recv
  <2>2. CASE /\ remote_closed' = [remote_closed EXCEPT ![h] = TRUE]
             /\ failed' = [failed EXCEPT ![h] = @ \/ ~Ended(h)]
             /\ UNCHANGED inbox
    <3>1. failed' \in [Socks -> BOOLEAN] /\ (failed'[h] \/ Ended(h))
      BY Zenon, <2>2
    <3>2. \A k \in Socks : k # h => failed'[k] = failed[k]
      BY <2>2
    <3> QED
      BY <1>4, <2>2, <3>1, <3>2 DEF ofc_socket_impl_recv
  <2> QED
    BY <1>4, <2>1, <2>2 DEF ofc_socket_impl_recv
<1> QED
  BY <1>1, <1>2, <1>3, <1>4

LEMMA NetStepKeeps ==
    ASSUME SocketInv, NEW h \in Socks, NetStep(h)
    PROVE  SocketInv'
<1> USE DEF SocketInv, SocketTypeOK, OneDescriptorEach, PollKnows, HupIsReset,
            ClosedIsOver, Open, Reset, Over, Ended, NetUnchanged, objectVars
<1>1. CASE Answered(h)
  BY <1>1 DEF Answered
<1>2. CASE Incoming(h)
  BY <1>2 DEF Incoming
<1>3. CASE Arrives(h)
  BY <1>3, SocketAssumption DEF Arrives, Live
<1>4. CASE Finishes(h)
  BY <1>4 DEF Finishes, Live
<1>5. CASE Resets(h)
  BY <1>5 DEF Resets
<1> QED
  BY <1>1, <1>2, <1>3, <1>4, <1>5 DEF NetStep

\* What poll reports of an open socket is about that socket.
LEMMA ReportStep ==
    ASSUME SocketInv, NEW h \in Socks, Report(h)
    PROVE  SocketInv'
<1> USE DEF SocketInv, SocketTypeOK
<1>1. h \in DOMAIN pollfds /\ pollfds[h].fd \in Fds
  BY DEF Report
<1>2. Reported(pollfds[h]) \subseteq Revents
  BY DEF Reported, State, Revents
<1>3. /\ revents' \in [Socks -> SUBSET Revents]
      /\ unreported' \in [Socks -> BOOLEAN]
      /\ \A k \in Socks : k # h => revents'[k] = revents[k] /\ unreported'[k] = unreported[k]
  BY <1>2 DEF Report
<1>4. Open(h) => revents'[h] = Reported(pollfds[h])
  BY DEF Report, Open
<1>5. (Open(h) /\ "HUP" \in Reported(pollfds[h])) => Reset(h)
  <2>1. SUFFICES ASSUME Open(h), "HUP" \in Reported(pollfds[h])
                 PROVE  Reset(h)
    OBVIOUS
  <2>2. pollfds[h].fd = socket[h] /\ conn[h] # "fresh"
    BY <1>1, <2>1 DEF PollKnows
  <2>3. FileAt(pollfds[h].fd) = h
    BY <1>1, <2>1, <2>2 DEF OneDescriptorEach, FileAt
  <2>4. "HUP" \in State(h)
    BY <2>1, <2>3, SocketAssumption DEF Reported
  <2> QED
    BY <2>2, <2>4 DEF State
<1>6. HupIsReset'
  BY <1>3, <1>4, <1>5 DEF Report, netVars, HupIsReset, Open, Reset
<1>7. SocketTypeOK' /\ PollKnows'
  BY <1>3 DEF Report, Awake, netVars, PollKnows
<1>8. OneDescriptorEach' /\ ClosedIsOver'
  BY DEF Report, netVars, OneDescriptorEach, ClosedIsOver, Open, Over, Reset, Ended
<1> QED
  BY <1>6, <1>7, <1>8

LEMMA WatchStep ==
    ASSUME SocketInv, Watch \/ SleepEnds
    PROVE  SocketInv'
<1> USE DEF SocketInv, SocketTypeOK, OneDescriptorEach, PollKnows, HupIsReset,
            ClosedIsOver, Open, Reset, Over, Ended, objectVars, netVars
<1>1. CASE Watch
  <2>1. /\ DOMAIN pollfds' = Awaited
        /\ \A h \in Awaited : pollfds'[h] = [fd |-> socket[h], events |-> events[h]]
    BY <1>1 DEF Watch
  <2>2. \A h \in Awaited : h \in Socks /\ Open(h) /\ socket[h] \in Fds /\ conn[h] # "fresh"
    BY DEF Awaited
  <2>3. pollfds' \in [DOMAIN pollfds' -> [fd : Fds, events : SUBSET Bits]]
    BY <1>1, <2>1, <2>2 DEF Watch
  <2> QED
    BY <1>1, <2>1, <2>2, <2>3 DEF Watch
<1>2. CASE SleepEnds
  BY <1>2 DEF SleepEnds, Awake
<1> QED
  BY <1>1, <1>2

\* Every step keeps the invariant.
LEMMA SocketStep ==
    ASSUME SocketInv, [SocketNext]_socketVars
    PROVE  SocketInv'
<1>1. ASSUME NEW h \in Socks, OwnerStep(h)
      PROVE  SocketInv'
  BY <1>1, CreateStep, AcceptStep, CloseStep, DestroyStep, UseStep DEF OwnerStep
<1>2. ASSUME NEW h \in Socks, NetStep(h) \/ Report(h)
      PROVE  SocketInv'
  BY <1>2, NetStepKeeps, ReportStep
<1>3. CASE UNCHANGED socketVars
  BY <1>3 DEF socketVars, objectVars, netVars, SocketInv, SocketTypeOK, OneDescriptorEach,
         PollKnows, HupIsReset, ClosedIsOver, Open, Reset, Over, Ended
<1> QED
  BY <1>1, <1>2, <1>3, WatchStep DEF SocketNext

\* The invariant holds in every state of every behaviour.
THEOREM SocketCorrect == SocketSpec => []SocketInv
<1> QED
  BY SocketInitInv, SocketStep, PTL DEF SocketSpec

\* The fields of the objects, the table and the copies in poll have their types.
THEOREM SocketTypeCorrect == SocketSpec => []SocketTypeOK
<1>1. SocketInv => SocketTypeOK
  BY DEF SocketInv
<1> QED
  BY <1>1, SocketCorrect, PTL

\* However the sockets are opened, accepted, closed and destroyed, an open object has
\* a descriptor that is its own, although closed objects keep their old numbers.
THEOREM OneDescriptorEachCorrect == SocketSpec => []OneDescriptorEach
<1>1. SocketInv => OneDescriptorEach
  BY DEF SocketInv
<1> QED
  BY <1>1, SocketCorrect, PTL

\* What ofc_socket_impl_test calls the end of a connection that is up is its end, with
\* nothing left to receive: for every object that poll has reported on, or that was
\* not accepted, and on which no recv has failed for a reason of its own.
THEOREM EndIsRealCorrect == SocketSpec => []EndIsReal
<1>1. SocketInv => EndIsReal
  BY DEF SocketInv, HupIsReset, ClosedIsOver, EndIsReal, Told, ofc_socket_impl_test,
         Open, Over, Reset, Ended
<1> QED
  BY <1>1, SocketCorrect, PTL
=============================================================================
