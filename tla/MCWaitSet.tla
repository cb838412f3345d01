------------------------------ MODULE MCWaitSet ------------------------------
(***************************************************************************)
(* Model-checking instances of WaitSet.  The kind of a handle is part of   *)
(* its name, so that a configuration chooses the mix of handles.           *)
(***************************************************************************)
EXTENDS WaitSet

CONSTANTS hAuto, hManual, hOverlapped, hQueue, hSmb, hSocket, hFile, hTimer, hTimer2, hOther,
          eOverlapped, eQueue, eSmb

MCKind == [h \in Handles |->
    CASE h \in {hAuto, hManual} -> "EVENT"
      [] h = hOverlapped -> "FS_OVERLAPPED"
      [] h = hQueue -> "WAIT_QUEUE"
      [] h = hSmb -> "FSSMB_OVERLAPPED"
      [] h = hSocket -> "SOCKET"
      [] h = hFile -> "FILE"
      [] h \in {hTimer, hTimer2} -> "TIMER"
      [] OTHER -> "OTHER"]

\* The event behind each handle that has one.
MCEventOf == [h \in Handles \cap {hAuto, hManual, hOverlapped, hQueue, hSmb} |->
    CASE h = hOverlapped -> eOverlapped
      [] h = hQueue -> eQueue
      [] h = hSmb -> eSmb
      [] OTHER -> h]

MCEvents == {MCEventOf[h] : h \in DOMAIN MCEventOf}

\* An overlapped event is MANUAL, the event of a queue AUTO.
MCEventType == [e \in MCEvents |-> IF e \in {hManual, eOverlapped} THEN "MANUAL" ELSE "AUTO"]
=============================================================================
