------------------------------ MODULE LogAndNet ------------------------------
(***************************************************************************)
(* The log (module Console) and the interface queries (module Net) in one  *)
(* process: they share nothing but the table of descriptors, where each    *)
(* may be given a number that the other has just closed.                   *)
(***************************************************************************)
EXTENDS Console, Net

ASSUME LogAndNetAssumption == Clients \cap {Log, NoFile} = {}

sharedVars == <<file, consoleVars, netVars>>

SharedInit ==
    /\ file = [d \in Fds |-> NoFile]
    /\ ConsoleInit
    /\ NetInit

Writes(step) == step /\ UNCHANGED netVars
Asks(step) == step /\ UNCHANGED consoleVars

SharedNext ==
    \/ Writes(ConsoleStep)
    \/ \E t \in Clients : Asks(ClientStep(t))
    \/ Asks(SystemStep)

\* A line that is being written goes on.  Interfaces need not change, nobody is
\* obliged to write or to ask.
SharedSpec ==
    /\ SharedInit
    /\ [][SharedNext]_sharedVars
    /\ \A t \in Threads : WF_sharedVars(Writes(LineStep(t)))

\* ofc_net_interface_count_impl and ofc_net_interface_addr_impl scan the list each
\* on its own, call by call, and take an ioctl that fails for an interface that is
\* not there.  As long as no interface has changed since the client began to ask,
\* and no writer of the log has closed a descriptor that is not the log's, none of
\* them fails: the count is right, and the indexes below it name each usable
\* interface once, in the order of the list, with its own addresses.
EnumerationIsExact ==
    "close" \notin mishaps =>
        \A t \in Clients :
            (npc[t] = "enum" /\ Len(answers[t]) = number[t] /\ since[t] = changes) =>
                /\ number[t] = Total
                /\ \A k \in 1..Len(Listed) :
                      Usable(Listed[k]) => answers[t][Rank(k)] = AddressesOf(Listed[k])

\* The socket that ofc_net_interface_count_impl and ofc_net_interface_addr_impl ask
\* with is their own from the first ioctl to the close, and none is left open,
\* whatever the writers of the log do to the table at the same time (unless one
\* of them closes a descriptor that is not the log's: see OthersAreSafe).
SocketIsOwn ==
    "close" \notin mishaps =>
        \A t \in Clients :
            /\ npc[t] \in InQuery => FileAt(sock[t]) = t
            /\ \A d \in Fds : file[d] = t => npc[t] \in InQuery /\ sock[t] = d
=============================================================================
