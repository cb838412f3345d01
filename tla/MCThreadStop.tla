---------------------------- MODULE MCThreadStop ----------------------------
(***************************************************************************)
(* Model-checking instance of ThreadStop: one AUTO event in the wait set.  *)
(***************************************************************************)
EXTENDS ThreadStop

CONSTANT hAuto

MCEvents == {hAuto}
MCEventType == [e \in MCEvents |-> "AUTO"]
MCKind == [h \in MCEvents |-> "EVENT"]
MCEventOf == [h \in MCEvents |-> h]
=============================================================================
