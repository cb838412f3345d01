------------------------------ MODULE MCProcess ------------------------------
(***************************************************************************)
(* Model-checking instance of Process.                                     *)
(***************************************************************************)
EXTENDS Process, TLC

\* Neither the threads nor the pids differ in any way.
ProcessSymmetry == Permutations(Callers) \cup Permutations(Pids)
=============================================================================
