----------------------------- MODULE Descriptors -----------------------------
(***************************************************************************)
(* The table of open descriptors of the process, as the C library keeps    *)
(* it: opening takes the lowest number that is free, closing makes the     *)
(* number free for whoever opens next.  The log file of                    *)
(* src/console_android.c, the sockets of src/socket_android.c and the      *)
(* short-lived sockets of src/net_android.c all live in it, each known to  *)
(* its module by nothing but its number.                                   *)
(***************************************************************************)
EXTENDS Integers

CONSTANTS
    Fds,    \* the numbers that are free at the start
    NoFile  \* what a free number refers to

ASSUME DescriptorsAssumption == Fds \subseteq Nat

VARIABLE file   \* what each number refers to

NextFd(d) ==
    /\ d \in Fds
    /\ file[d] = NoFile
    /\ \A e \in Fds : file[e] = NoFile => d <= e

TableFull == \A d \in Fds : file[d] # NoFile

OpenFd(d, what) == NextFd(d) /\ file' = [file EXCEPT ![d] = what]

\* close of any number: one that is not open is left alone (EBADF).
CloseFd(d) == file' = [e \in Fds |-> IF e = d THEN NoFile ELSE file[e]]

FileAt(d) == IF d \in Fds THEN file[d] ELSE NoFile
=============================================================================
