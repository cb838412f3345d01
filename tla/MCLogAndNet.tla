----------------------------- MODULE MCLogAndNet -----------------------------
(***************************************************************************)
(* Model-checking instance of LogAndNet.  The bounds are shared out in     *)
(* four ways, one for each part of what can go wrong: two threads write,   *)
(* and a client asks about interfaces that stay what they are; two threads *)
(* write, and the log cannot always be opened; no thread writes while the  *)
(* interfaces change; three threads write and a client asks, so that a     *)
(* number one of them has read is closed by the second and given to the    *)
(* client or to the third before it is used.  In this last case the        *)
(* threads all enter open_log before anything else happens, and one that   *)
(* has opened it writes its lines before any other goes on.                *)
(***************************************************************************)
EXTENDS LogAndNet

CONSTANT Pair   \* the threads that write in the first two cases

VARIABLE scene  \* which of the four cases this is

MCLoadAddr == [l \in Libs |-> IF l = "core" THEN 10 ELSE 20]

NoEnums == \A t \in Clients : enums[t] = 0
Steady == changes = MaxChanges
OnlyFrom(S) == \A t \in Threads : lines[t] > 0 => t \in S

WritersAndClient == Steady /\ table = <<>> /\ fails = 0 /\ OnlyFrom(Pair)
WritersThatFail == Steady /\ table = <<>> /\ NoEnums /\ fails = MaxFails /\ OnlyFrom(Pair)
Changes == configured /\ fails = 0 /\ OnlyFrom({})
ThreeWriters ==
    /\ Steady /\ fails = 0 /\ configured
    /\ table = <<CHOOSE n \in Wanted : TRUE>>
    /\ lines = [t \in Threads |-> 1]

MCInit ==
    /\ SharedInit
    /\ \/ scene = "client" /\ WritersAndClient
       \/ scene = "fail" /\ WritersThatFail
       \/ scene = "changes" /\ Changes
       \/ scene = "three" /\ ThreeWriters

\* The threads of the last case make for open_log all together, before anything
\* else; whoever has opened it writes its lines at once.
Started == \A t \in Threads : lines[t] = 0
First(t) == IF Started THEN cpc[t] \in {"fix", "next", "write", "writing"} ELSE lines[t] > 0
InTurn ==
    (scene = "three" /\ \E t \in Threads : First(t))
        => \E t \in Threads : First(t) /\ cpc'[t] # cpc[t]

MCNext == SharedNext /\ InTurn /\ UNCHANGED scene

MCSpec ==
    /\ MCInit
    /\ [][MCNext]_<<sharedVars, scene>>
    /\ \A t \in Threads : WF_sharedVars(Writes(LineStep(t)))
=============================================================================
