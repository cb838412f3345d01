------------------------------- MODULE MCSocket ------------------------------
(* Model-checking instance of Socket. *)
EXTENDS Socket

MCJunk == {{}, {"HUP"}}
=============================================================================
