------------------------------- MODULE Socket --------------------------------
(***************************************************************************)
(* The stream sockets of src/socket_android.c: objects that know the       *)
(* system's sockets by their numbers, are polled by the scheduler of       *)
(* src/waitset_android.c, and tell their owners what has been reported.    *)
(* The network is the environment: connections are made, refused and       *)
(* reset, data arrives, the remote end finishes.                           *)
(*                                                                         *)
(* Owners are modelled by what the code asks of them: an object is closed  *)
(* once, then destroyed; it is awaited from when it connects or listens    *)
(* until it is closed, for WRITE only until it is connected.               *)
(***************************************************************************)
EXTENDS Descriptors, FiniteSets

CONSTANTS
    Socks,      \* socket objects; in file, the system's sockets behind them
    Writers,    \* those whose owners await WRITE until they are connected
    MaxSend,    \* bound: pieces of data the remote ends send
    Junk        \* the events and revents an accepted object may be born with

Bits == {"IN", "OUT", "HUP", "ERR", "PRI"}
Events == {"CLOSE", "ACCEPT", "READ", "WRITE", "ADDRESSCHANGE", "QOS"}
NoSocket == -1

ASSUME SocketAssumption ==
    /\ NoFile \notin Socks
    /\ MaxSend \in Nat
    /\ Junk \subseteq SUBSET Bits

VARIABLES
    life,       \* of the object: "none", "open", "closed" or "gone"
    socket,     \* OFC_SOCKET_IMPL.socket, which is not cleared by close
    events,     \* OFC_SOCKET_IMPL.events
    revents,    \* OFC_SOCKET_IMPL.revents
    remote_closed,  \* OFC_SOCKET_IMPL.remote_closed
    conn,       \* what has become of its connection ("reset": or refused)
    fin,        \* has the remote end finished?
    sent,       \* pieces of data that have been sent, on all connections
    inbox,      \* those a connection has not received yet
    backlog,    \* connections waiting to be accepted
    pollfds,    \* in poll: number and events of each socket, as they were copied
    unreported, \* history: accepted, but not yet reported on by poll
    failed      \* history: has recv failed for a reason of its own?

objectVars == <<life, socket, events, revents, remote_closed, unreported, failed>>
netVars == <<conn, fin, sent, inbox, backlog>>
socketVars == <<file, objectVars, netVars, pollfds>>

Open(h) == life[h] = "open"
Reset(h) == conn[h] = "reset"
Over(h) == Reset(h) \/ fin[h]
Listening(h) == conn[h] = "listening"

\* Bound: an object is kept for every connection that waits to be accepted.
Pending == {h \in Socks : backlog[h]}
Room == Cardinality(Pending) < Cardinality({h \in Socks : life[h] = "none"})

-----------------------------------------------------------------------------
\* The operations of an owner.  A socket the system refuses leaves nothing behind.
ofc_socket_impl_create(h) ==
    /\ life[h] = "none"
    /\ Room
    /\ \E d \in Fds : OpenFd(d, h) /\ socket' = [socket EXCEPT ![h] = d]
    /\ life' = [life EXCEPT ![h] = "open"]
    /\ events' = [events EXCEPT ![h] = {}]
    /\ revents' = [revents EXCEPT ![h] = {}]
    /\ remote_closed' = [remote_closed EXCEPT ![h] = FALSE]
    /\ UNCHANGED <<unreported, failed, netVars, pollfds>>

\* A connection is begun; a socket that blocks waits here until it is made or refused,
\* one that does not is told TRUE before that (EINPROGRESS).
ofc_socket_impl_connect(h) ==
    /\ Open(h) /\ conn[h] = "fresh"
    /\ conn' = [conn EXCEPT ![h] = "connecting"]
    /\ UNCHANGED <<file, objectVars, fin, sent, inbox, backlog, pollfds>>

ofc_socket_impl_listen(h) ==
    /\ Open(h) /\ conn[h] = "fresh"
    /\ conn' = [conn EXCEPT ![h] = "listening"]
    /\ UNCHANGED <<file, objectVars, fin, sent, inbox, backlog, pollfds>>

\* Mutant of ofc_socket_impl_accept: an object also for what is not a connection.
AcceptUnchecked(h, n) ==
    /\ Open(h) /\ Listening(h)
    /\ life[n] = "none"
    /\ IF backlog[h]
       THEN /\ \E d \in Fds : OpenFd(d, n) /\ socket' = [socket EXCEPT ![n] = d]
            /\ conn' = [conn EXCEPT ![n] = "up"]
       ELSE UNCHANGED <<file, socket, conn>>
    /\ backlog' = [backlog EXCEPT ![h] = FALSE]
    /\ life' = [life EXCEPT ![n] = "open"]
    /\ \E junk \in Junk : events' = [events EXCEPT ![n] = junk]
    /\ \E junk \in Junk : revents' = [revents EXCEPT ![n] = junk]
    /\ remote_closed' = [remote_closed EXCEPT ![n] = FALSE]
    /\ unreported' = [unreported EXCEPT ![n] = TRUE]
    /\ UNCHANGED <<failed, fin, sent, inbox, pollfds>>

\* A new object, of which socket and remote_closed are set and nothing else: its
\* events and revents are what its memory held before.
ofc_socket_impl_accept(h, n) ==
    /\ Open(h) /\ Listening(h) /\ backlog[h]
    /\ life[n] = "none"
    /\ \E d \in Fds : OpenFd(d, n) /\ socket' = [socket EXCEPT ![n] = d]
    /\ conn' = [conn EXCEPT ![n] = "up"]
    /\ backlog' = [backlog EXCEPT ![h] = FALSE]
    /\ life' = [life EXCEPT ![n] = "open"]
    /\ \E junk \in Junk : events' = [events EXCEPT ![n] = junk]
    /\ \E junk \in Junk : revents' = [revents EXCEPT ![n] = junk]
    /\ remote_closed' = [remote_closed EXCEPT ![n] = FALSE]
    /\ unreported' = [unreported EXCEPT ![n] = TRUE]
    /\ UNCHANGED <<failed, fin, sent, inbox, pollfds>>

\* The events of poll for what the owner wants to know.
PollBits(type) ==
    {b \in Bits : \/ b = "HUP" /\ "CLOSE" \in type
                  \/ b = "IN"  /\ type \cap {"ACCEPT", "READ"} # {}
                  \/ b = "ERR" /\ "ADDRESSCHANGE" \in type
                  \/ b = "PRI" /\ "QOS" \in type
                  \/ b = "OUT" /\ "WRITE" \in type}

ofc_socket_impl_enable(h, type) ==
    /\ Open(h) /\ conn[h] # "fresh"
    /\ events' = [events EXCEPT ![h] = PollBits(type)]
    /\ UNCHANGED <<file, life, socket, revents, remote_closed, unreported, failed,
                   netVars, pollfds>>

\* What has been reported, and what the last recv has found.
ofc_socket_impl_test(h) ==
    {e \in Events : \/ e = "CLOSE" /\ (remote_closed[h] \/ "HUP" \in revents[h])
                    \/ e \in {"ACCEPT", "READ"} /\ "IN" \in revents[h]
                    \/ e = "ADDRESSCHANGE" /\ "ERR" \in revents[h]
                    \/ e = "QOS" /\ "PRI" \in revents[h]
                    \/ e = "WRITE" /\ "OUT" \in revents[h]}

\* Has the connection ended, and all that was sent been received?
Ended(h) == Over(h) /\ inbox[h] = 0

\* Mutants of ofc_socket_impl_recv: having nothing to read is the end; the end is
\* having nothing to read.
RecvEagainCloses(h) ==
    /\ Open(h)
    /\ \/ /\ inbox[h] > 0
          /\ inbox' = [inbox EXCEPT ![h] = @ - 1]
          /\ UNCHANGED remote_closed
       \/ /\ inbox[h] = 0
          /\ remote_closed' = [remote_closed EXCEPT ![h] = TRUE]
          /\ UNCHANGED inbox
    /\ UNCHANGED <<file, life, socket, events, revents, unreported, failed,
                   conn, fin, sent, backlog, pollfds>>

RecvUnnoticed(h) ==
    /\ Open(h)
    /\ inbox[h] > 0
    /\ inbox' = [inbox EXCEPT ![h] = @ - 1]
    /\ UNCHANGED <<file, objectVars, conn, fin, sent, backlog, pollfds>>

\* Data, or the end; but an error, too, is taken for the end, be it that the socket
\* is not connected or that a signal has come, and so is a buffer of no length: all
\* but EAGAIN, for which nothing changes.
ofc_socket_impl_recv(h) ==
    /\ Open(h)
    /\ \/ /\ inbox[h] > 0
          /\ inbox' = [inbox EXCEPT ![h] = @ - 1]
          /\ UNCHANGED <<remote_closed, failed>>
       \/ /\ remote_closed' = [remote_closed EXCEPT ![h] = TRUE]
          /\ failed' = [failed EXCEPT ![h] = @ \/ ~Ended(h)]
          /\ UNCHANGED inbox
    /\ UNCHANGED <<file, life, socket, events, revents, unreported,
                   conn, fin, sent, backlog, pollfds>>

\* What is left of a system's socket that has been closed, and of an object that
\* has been freed: nothing.
NoConnection(h) ==
    /\ conn' = [conn EXCEPT ![h] = "fresh"]
    /\ fin' = [fin EXCEPT ![h] = FALSE]
    /\ inbox' = [inbox EXCEPT ![h] = 0]
    /\ backlog' = [backlog EXCEPT ![h] = FALSE]

Freed(h) ==
    /\ life' = [life EXCEPT ![h] = "gone"]
    /\ socket' = [socket EXCEPT ![h] = NoSocket]
    /\ events' = [events EXCEPT ![h] = {}]
    /\ revents' = [revents EXCEPT ![h] = {}]
    /\ remote_closed' = [remote_closed EXCEPT ![h] = FALSE]
    /\ unreported' = [unreported EXCEPT ![h] = FALSE]
    /\ failed' = [failed EXCEPT ![h] = FALSE]

\* The number stays in the object.
ofc_socket_impl_close(h) ==
    /\ Open(h)
    /\ CloseFd(socket[h])
    /\ life' = [life EXCEPT ![h] = "closed"]
    /\ NoConnection(h)
    /\ UNCHANGED <<socket, events, revents, remote_closed, unreported, failed, sent, pollfds>>

\* Mutant of ofc_socket_impl_destroy: the socket is closed, too.
DestroyCloses(h) ==
    /\ life[h] = "closed"
    /\ CloseFd(socket[h])
    /\ Freed(h)
    /\ UNCHANGED <<netVars, pollfds>>

ofc_socket_impl_destroy(h) ==
    /\ life[h] = "closed"
    /\ Freed(h)
    /\ UNCHANGED <<file, netVars, pollfds>>

-----------------------------------------------------------------------------
\* The network.
NetUnchanged == UNCHANGED <<file, objectVars, pollfds>>

Answered(h) ==
    /\ Open(h) /\ conn[h] = "connecting"
    /\ \E c \in {"up", "reset"} : conn' = [conn EXCEPT ![h] = c]
    /\ UNCHANGED <<fin, sent, inbox, backlog>> /\ NetUnchanged

Incoming(h) ==
    /\ Open(h) /\ Listening(h) /\ Room
    /\ backlog' = [backlog EXCEPT ![h] = TRUE]
    /\ UNCHANGED <<conn, fin, sent, inbox>> /\ NetUnchanged

Live(h) == Open(h) /\ conn[h] = "up" /\ ~fin[h]

Arrives(h) ==
    /\ Live(h) /\ sent < MaxSend
    /\ sent' = sent + 1
    /\ inbox' = [inbox EXCEPT ![h] = @ + 1]
    /\ UNCHANGED <<conn, fin, backlog>> /\ NetUnchanged

Finishes(h) ==
    /\ Live(h)
    /\ fin' = [fin EXCEPT ![h] = TRUE]
    /\ UNCHANGED <<conn, sent, inbox, backlog>> /\ NetUnchanged

Resets(h) ==
    /\ Open(h) /\ conn[h] = "up"
    /\ conn' = [conn EXCEPT ![h] = "reset"]
    /\ UNCHANGED <<fin, sent, inbox, backlog>> /\ NetUnchanged

-----------------------------------------------------------------------------
\* Sockets are in the wait set from when they connect or listen and are to be
\* awaited for something, until they are closed.
Awaited == {h \in Socks : Open(h) /\ conn[h] # "fresh" /\ events[h] # {}}
Sleeping == DOMAIN pollfds # {}
Awake == pollfds' = [h \in {} |-> {}]

\* The scheduler: number and events of each socket are copied, poll sleeps.
Watch ==
    /\ ~Sleeping
    /\ Awaited # {}
    /\ pollfds' = [h \in Awaited |-> [fd |-> socket[h], events |-> events[h]]]
    /\ UNCHANGED <<file, objectVars, netVars>>

\* The state of a system's socket, as poll sees it.
State(k) ==
    {b \in Bits : \/ b = "IN"  /\ (inbox[k] > 0 \/ Over(k) \/ backlog[k])
                  \/ b = "OUT" /\ (conn[k] \in {"fresh", "up"} \/ Reset(k))
                  \/ b = "HUP" /\ (conn[k] = "fresh" \/ Reset(k))
                  \/ b = "ERR" /\ Reset(k)}

\* What poll reports: always hang-ups and errors, and (NVAL) that a number is free.
Reported(p) ==
    IF FileAt(p.fd) = NoFile THEN {"NVAL"}
                             ELSE State(FileAt(p.fd)) \cap (p.events \cup {"HUP", "ERR"})

\* poll returns for one socket: ofc_socket_impl_set_event, if the object is still
\* there.
Report(h) ==
    /\ h \in DOMAIN pollfds
    /\ Reported(pollfds[h]) # {}
    /\ Awake
    /\ IF life[h] = "gone"
       THEN UNCHANGED <<revents, unreported>>
       ELSE /\ revents' = [revents EXCEPT ![h] = Reported(pollfds[h])]
            /\ unreported' = [unreported EXCEPT ![h] = FALSE]
    /\ UNCHANGED <<file, life, socket, events, remote_closed, failed, netVars>>

\* The sleep ends for another reason.
SleepEnds ==
    /\ Sleeping
    /\ Awake
    /\ UNCHANGED <<file, objectVars, netVars>>
-----------------------------------------------------------------------------
ToRead == {"CLOSE", "ACCEPT", "READ"}
ToWrite == {"CLOSE", "WRITE"}

\* What the owner of a socket does about what it is told.
Told(h, e) == Open(h) /\ e \in ofc_socket_impl_test(h)

Reacts(h) ==
    \/ Told(h, "READ") /\ ofc_socket_impl_recv(h)
    \/ Told(h, "ACCEPT") /\ \E n \in Socks : ofc_socket_impl_accept(h, n)
    \/ Told(h, "WRITE") /\ ofc_socket_impl_enable(h, ToRead)
    \/ Told(h, "CLOSE") /\ ofc_socket_impl_close(h)

OwnerStep(h) ==
    \/ ofc_socket_impl_create(h)
    \/ ofc_socket_impl_connect(h) \/ ofc_socket_impl_listen(h)
    \/ \E n \in Socks : ofc_socket_impl_accept(h, n)
    \/ ofc_socket_impl_enable(h, ToRead)
    \/ h \in Writers /\ conn[h] = "connecting" /\ ofc_socket_impl_enable(h, ToWrite)
    \/ ofc_socket_impl_recv(h) \/ ofc_socket_impl_close(h) \/ ofc_socket_impl_destroy(h)

NetStep(h) == Answered(h) \/ Incoming(h) \/ Arrives(h) \/ Finishes(h) \/ Resets(h)

SocketInit ==
    /\ file = [d \in Fds |-> NoFile]
    /\ life = [h \in Socks |-> "none"]
    /\ socket = [h \in Socks |-> NoSocket]
    /\ events = [h \in Socks |-> {}]
    /\ revents = [h \in Socks |-> {}]
    /\ remote_closed = [h \in Socks |-> FALSE]
    /\ conn = [h \in Socks |-> "fresh"]
    /\ fin = [h \in Socks |-> FALSE]
    /\ sent = 0
    /\ inbox = [h \in Socks |-> 0]
    /\ backlog = [h \in Socks |-> FALSE]
    /\ pollfds = [h \in {} |-> {}]
    /\ unreported = [h \in Socks |-> FALSE]
    /\ failed = [h \in Socks |-> FALSE]

SocketNext ==
    \/ \E h \in Socks : OwnerStep(h) \/ NetStep(h) \/ Report(h)
    \/ Watch \/ SleepEnds

\* The scheduler goes on, its sleeps end (they are bounded by OFC_MAX_SCHED_WAIT),
\* and not every one of them by the pipe, which comes before the sockets.  Owners
\* do something about what they are told.
SocketSpec ==
    /\ SocketInit
    /\ [][SocketNext]_socketVars
    /\ WF_socketVars(Watch \/ SleepEnds)
    /\ SF_socketVars(\E h \in Socks : Report(h))
    /\ \A h \in Socks : WF_socketVars(Reacts(h))

-----------------------------------------------------------------------------
Revents == Bits \cup {"NVAL"}

\* The type invariant of the sockets; an object that can be used has a number.
SocketTypeOK ==
    /\ file \in [Fds -> Socks \cup {NoFile}]
    /\ life \in [Socks -> {"none", "open", "closed", "gone"}]
    /\ socket \in [Socks -> Fds \cup {NoSocket}]
    /\ \A h \in Socks : life[h] \in {"open", "closed"} <=> socket[h] \in Fds
    /\ events \in [Socks -> SUBSET Bits]
    /\ revents \in [Socks -> SUBSET Revents]
    /\ remote_closed \in [Socks -> BOOLEAN]
    /\ unreported \in [Socks -> BOOLEAN]
    /\ failed \in [Socks -> BOOLEAN]
    /\ conn \in [Socks -> {"fresh", "connecting", "up", "reset", "listening"}]
    /\ fin \in [Socks -> BOOLEAN]
    /\ sent \in 0..MaxSend
    /\ inbox \in [Socks -> Nat]
    /\ backlog \in [Socks -> BOOLEAN]
    /\ DOMAIN pollfds \subseteq Socks
    /\ pollfds \in [DOMAIN pollfds -> [fd : Fds, events : SUBSET Bits]]

\* The number in an open object is the number of its own socket, and no socket is
\* left open without one: although ofc_socket_impl_close leaves the number where
\* it is, and the next socket is given the same one.
OneDescriptorEach ==
    \A h \in Socks : \A d \in Fds : file[d] = h <=> Open(h) /\ socket[h] = d

\* An owner that closes its socket because ofc_socket_impl_test tells it CLOSE loses
\* nothing: as long as the connection is up, that is told only when the remote end
\* has finished it and all that was sent has been received, although poll may report
\* on a number that was closed and opened again while it slept.  Two cases are
\* beyond this: a recv that has failed for a reason of its own, and an accepted object
\* that poll has not reported on, whose revents are what its memory held before.
EndIsReal ==
    \A h \in Socks :
        (conn[h] = "up" /\ Told(h, "CLOSE") /\ ~unreported[h] /\ ~failed[h]) => Ended(h)

\* An end that the remote made, or a failure, is told in the end to an owner that
\* awaits the socket for READ: only by way of recv, as poll does not report it as a
\* hang-up.
CloseIsSeen ==
    \A h \in Socks :
        (Open(h) /\ Over(h) /\ "IN" \in events[h])
            ~> (Told(h, "CLOSE") \/ ~Open(h))
=============================================================================
