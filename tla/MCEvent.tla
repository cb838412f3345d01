------------------------------- MODULE MCEvent -------------------------------
(***************************************************************************)
(* Model-checking instance of Event: one AUTO and one MANUAL event, either *)
(* of which may or may not belong to a wait set.                           *)
(***************************************************************************)
EXTENDS Event

CONSTANTS eAuto, eManual

MCEvents == {eAuto, eManual}
MCEventType == [e \in MCEvents |-> IF e = eAuto THEN "AUTO" ELSE "MANUAL"]
=============================================================================
