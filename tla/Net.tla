--------------------------------- MODULE Net ---------------------------------
(***************************************************************************)
(* The interfaces of src/net_android.c.  A client asks for their number    *)
(* and then for the addresses of each index in turn.  Every one of these   *)
(* calls opens a socket of its own, takes a new list of the interfaces     *)
(* from the system, and then asks the system again about one interface at  *)
(* a time; interfaces come and go meanwhile.                               *)
(***************************************************************************)
EXTENDS Descriptors, Sequences, FiniteSets

CONSTANTS
    Clients,    \* threads that enumerate the interfaces
    Ifs,        \* interfaces the system may have
    Wanted,     \* those named wlan*, eth*, tun* or p2p-wlan*, and no loopback
    MAX_IFS,    \* entries that fit in the list
    MaxChanges, \* bound: changes of the interfaces
    MaxEnums    \* bound: enumerations by each client

ASSUME NetAssumption ==
    /\ Wanted \subseteq Ifs
    /\ MAX_IFS \in Nat \ {0}
    /\ MaxChanges \in Nat
    /\ MaxEnums \in Nat

VARIABLES
    table,      \* the interfaces that have an IPv4 address, in the system's order
    up,         \* those whose flags have IFF_UP
    version,    \* the address of each interface, by the times it has changed
    changes,    \* how often any of the three has changed
    npc,        \* where each client is in its call
    sock,       \* the descriptor of the call's socket
    index,      \* the argument of ofc_net_interface_addr_impl, or Count
    snap,       \* what is left of the list, from pifreq on
    max_count,  \* interfaces that have been counted in the list
    ans,        \* the addresses the call has found
    number,     \* the number of interfaces the client was told
    answers,    \* the addresses it was told of each index
    enums,      \* enumerations it may still make
    since       \* history: changes when its enumeration began, NONE once a call
                \* has had no socket to ask with

systemVars == <<table, up, version, changes>>
clientVars == <<npc, sock, index, snap, max_count, ans, number, answers, enums, since>>
netVars == <<systemVars, clientVars>>

Count == -1         \* ofc_net_interface_count_impl in the place of an index
NONE == -1          \* OFC_INADDR_NONE
Answer == {"addr", "mask", "bcast"}
NoAnswer == [w \in Answer |-> NONE]
Entries(s) == {s[i] : i \in 1..Len(s)}

NetStep(t, from, to) == npc[t] = from /\ npc' = [npc EXCEPT ![t] = to]

-----------------------------------------------------------------------------
\* The system: an interface gets its first address or loses it, goes up or down,
\* or gets other addresses.
Changed == changes < MaxChanges /\ changes' = changes + 1 /\ UNCHANGED <<file, clientVars>>

InterfaceAppears(n) ==
    /\ Changed
    /\ n \notin Entries(table)
    /\ \E i \in 0..Len(table) :
          table' = SubSeq(table, 1, i) \o <<n>> \o SubSeq(table, i + 1, Len(table))
    /\ version' = [version EXCEPT ![n] = @ + 1]
    /\ UNCHANGED up

InterfaceVanishes(n) ==
    /\ Changed
    /\ \E i \in 1..Len(table) :
          /\ table[i] = n
          /\ table' = SubSeq(table, 1, i - 1) \o SubSeq(table, i + 1, Len(table))
    /\ UNCHANGED <<up, version>>

InterfaceUpDown(n) ==
    /\ Changed
    /\ up' = IF n \in up THEN up \ {n} ELSE up \cup {n}
    /\ UNCHANGED <<table, version>>

AddressChanges(n) ==
    /\ Changed
    /\ n \in Entries(table)
    /\ version' = [version EXCEPT ![n] = @ + 1]
    /\ UNCHANGED <<table, up>>

\* What the system answers to one ioctl about an address of n.
Asked(n) == IF n \in Entries(table) THEN version[n] ELSE NONE

-----------------------------------------------------------------------------
\* The client asks for the number of interfaces, then for each of them.
CallCount(t) ==
    /\ enums[t] > 0
    /\ NetStep(t, "idle", "socket")
    /\ enums' = [enums EXCEPT ![t] = @ - 1]
    /\ index' = [index EXCEPT ![t] = Count]
    /\ answers' = [answers EXCEPT ![t] = <<>>]
    /\ since' = [since EXCEPT ![t] = changes]
    /\ UNCHANGED <<file, systemVars, sock, snap, max_count, ans, number>>

CallAddr(t) ==
    /\ Len(answers[t]) < number[t]
    /\ NetStep(t, "enum", "socket")
    /\ index' = [index EXCEPT ![t] = Len(answers[t])]
    /\ UNCHANGED <<file, systemVars, sock, snap, max_count, ans, number, answers, enums, since>>

EnumDone(t) ==
    /\ Len(answers[t]) >= number[t]
    /\ NetStep(t, "enum", "idle")
    /\ UNCHANGED <<file, systemVars, sock, index, snap, max_count, ans, number, answers,
                   enums, since>>

\* Both calls: a socket to ask with.  Without one, because the table is full or for
\* a reason of the system's, the answer is that there is nothing.
OpenSocket(t) ==
    /\ \/ /\ \E d \in Fds : OpenFd(d, t) /\ sock' = [sock EXCEPT ![t] = d]
          /\ NetStep(t, "socket", "conf")
          /\ UNCHANGED since
       \/ /\ NetStep(t, "socket", "return")
          /\ since' = [since EXCEPT ![t] = NONE]
          /\ UNCHANGED <<file, sock>>
    /\ UNCHANGED <<systemVars, index, snap, max_count, ans, number, answers, enums>>

\* SIOCGIFCONF: the list, or as much of it as fits.
Listed == SubSeq(table, 1, IF Len(table) < MAX_IFS THEN Len(table) ELSE MAX_IFS)

\* An ioctl succeeds on a socket, whosever it is; the number may have been closed
\* since, or have become the log's (EBADF, ENOTTY).
CanAsk(t) == FileAt(sock[t]) \in Clients

GetList(t) ==
    /\ \/ /\ CanAsk(t)
          /\ NetStep(t, "conf", "scan")
          /\ snap' = [snap EXCEPT ![t] = Listed]
       \/ /\ ~CanAsk(t)
          /\ NetStep(t, "conf", "close")
          /\ UNCHANGED snap
    /\ UNCHANGED <<file, systemVars, sock, index, max_count, ans, number, answers, enums, since>>

Usable(n) == n \in Wanted /\ n \in up

\* Mutant of ScanEntry: an interface that is down is counted, but never found.
ScanAnyway(t) ==
    /\ npc[t] = "scan" /\ snap[t] # <<>>
    /\ LET n == Head(snap[t])
           usable == Usable(n) /\ CanAsk(t)
           found == usable /\ index[t] = max_count[t]
       IN  /\ max_count' = [max_count EXCEPT ![t] = IF n \in Wanted THEN @ + 1 ELSE @]
           /\ snap' = [snap EXCEPT ![t] = IF found THEN @ ELSE Tail(@)]
           /\ npc' = [npc EXCEPT ![t] = IF found THEN "addr" ELSE @]
    /\ UNCHANGED <<file, systemVars, sock, index, ans, number, answers, enums, since>>

\* Mutant of ScanEntry: the list goes on before the entry has been looked at.
ScanAhead(t) ==
    /\ npc[t] = "scan" /\ snap[t] # <<>>
    /\ LET n == Head(snap[t])
           usable == Usable(n) /\ CanAsk(t)
           found == usable /\ index[t] = max_count[t]
       IN  /\ max_count' = [max_count EXCEPT ![t] = IF usable THEN @ + 1 ELSE @]
           /\ snap' = [snap EXCEPT ![t] = Tail(@)]
           /\ npc' = [npc EXCEPT ![t] = IF found THEN "addr" ELSE @]
    /\ UNCHANGED <<file, systemVars, sock, index, ans, number, answers, enums, since>>

\* One entry of the list: SIOCGIFFLAGS for a name that is wanted, which does not
\* count if the system does not answer.  The list stops at the entry that is
\* looked for.
ScanEntry(t) ==
    /\ npc[t] = "scan" /\ snap[t] # <<>>
    /\ LET n == Head(snap[t])
           usable == Usable(n) /\ CanAsk(t)
           found == usable /\ index[t] = max_count[t]
       IN  /\ max_count' = [max_count EXCEPT ![t] = IF usable THEN @ + 1 ELSE @]
           /\ snap' = [snap EXCEPT ![t] = IF found THEN @ ELSE Tail(@)]
           /\ npc' = [npc EXCEPT ![t] = IF found THEN "addr" ELSE @]
    /\ UNCHANGED <<file, systemVars, sock, index, ans, number, answers, enums, since>>

ScanEnd(t) ==
    /\ snap[t] = <<>>
    /\ NetStep(t, "scan", "close")
    /\ UNCHANGED <<file, systemVars, sock, index, snap, max_count, ans, number, answers,
                   enums, since>>

\* SIOCGIFADDR, SIOCGIFNETMASK and SIOCGIFBRDADDR, one after the other; without an
\* answer the address stays what it is, NONE.
Ask(t, what, next) ==
    /\ NetStep(t, what, next)
    /\ ans' = [ans EXCEPT ![t][what] = IF CanAsk(t) THEN Asked(Head(snap[t])) ELSE @]
    /\ UNCHANGED <<file, systemVars, sock, index, snap, max_count, number, answers, enums, since>>

\* Mutant of CloseSocket: the socket is forgotten.
ForgetSocket(t) ==
    /\ NetStep(t, "close", "return")
    /\ UNCHANGED <<file, systemVars, sock, index, snap, max_count, ans, number, answers,
                   enums, since>>

CloseSocket(t) ==
    /\ NetStep(t, "close", "return")
    /\ CloseFd(sock[t])
    /\ sock' = [sock EXCEPT ![t] = NONE]
    /\ UNCHANGED <<systemVars, index, snap, max_count, ans, number, answers, enums, since>>

Return(t) ==
    /\ NetStep(t, "return", "enum")
    /\ IF index[t] = Count
       THEN number' = [number EXCEPT ![t] = max_count[t]] /\ UNCHANGED answers
       ELSE answers' = [answers EXCEPT ![t] = Append(@, ans[t])] /\ UNCHANGED number
    /\ snap' = [snap EXCEPT ![t] = <<>>]
    /\ max_count' = [max_count EXCEPT ![t] = 0]
    /\ ans' = [ans EXCEPT ![t] = NoAnswer]
    /\ UNCHANGED <<file, systemVars, sock, index, enums, since>>

-----------------------------------------------------------------------------
InQuery == {"conf", "scan", "addr", "mask", "bcast", "close"}

ClientStep(t) ==
    \/ CallCount(t) \/ CallAddr(t) \/ EnumDone(t) \/ OpenSocket(t) \/ GetList(t)
    \/ ScanEntry(t) \/ ScanEnd(t)
    \/ Ask(t, "addr", "mask") \/ Ask(t, "mask", "bcast") \/ Ask(t, "bcast", "close")
    \/ CloseSocket(t) \/ Return(t)

SystemStep ==
    \E n \in Ifs : InterfaceAppears(n) \/ InterfaceVanishes(n)
                    \/ InterfaceUpDown(n) \/ AddressChanges(n)

NetInit ==
    /\ table \in {<<>>} \cup {<<n>> : n \in Ifs}
    /\ up = Entries(table)
    /\ version = [n \in Ifs |-> 0]
    /\ changes \in 0..MaxChanges
    /\ npc = [t \in Clients |-> "idle"]
    /\ sock = [t \in Clients |-> NONE]
    /\ index = [t \in Clients |-> Count]
    /\ snap = [t \in Clients |-> <<>>]
    /\ max_count = [t \in Clients |-> 0]
    /\ ans = [t \in Clients |-> NoAnswer]
    /\ number = [t \in Clients |-> 0]
    /\ answers = [t \in Clients |-> <<>>]
    /\ enums \in [Clients -> 0..MaxEnums]
    /\ since = [t \in Clients |-> 0]

-----------------------------------------------------------------------------
Addresses == [Answer -> Nat \cup {NONE}]

\* The type invariant of the interfaces and their clients.
NetTypeOK ==
    /\ table \in Seq(Ifs)
    /\ up \subseteq Ifs
    /\ version \in [Ifs -> Nat]
    /\ changes \in 0..MaxChanges
    /\ npc \in [Clients -> InQuery \cup {"idle", "socket", "return", "enum"}]
    /\ sock \in [Clients -> Fds \cup {NONE}]
    /\ index \in [Clients -> Nat \cup {Count}]
    /\ snap \in [Clients -> Seq(Ifs)]
    /\ \A t \in Clients : npc[t] \in Answer => snap[t] # <<>>
    /\ max_count \in [Clients -> Nat]
    /\ ans \in [Clients -> Addresses]
    /\ number \in [Clients -> Nat]
    /\ answers \in [Clients -> Seq(Addresses)]
    /\ enums \in [Clients -> Nat]
    /\ since \in [Clients -> 0..MaxChanges \cup {NONE}]

\* The index of the interface at position k of the list, counted from 1: the usable
\* interfaces up to there.  All of them, and the addresses of each.
Rank(k) == Cardinality({j \in 1..k : Usable(Listed[j])})
Total == Rank(Len(Listed))
AddressesOf(n) == [w \in Answer |-> version[n]]
=============================================================================
