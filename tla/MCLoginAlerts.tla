--------------------------- MODULE MCLoginAlerts ---------------------------
(* Instances of LoginAlerts for TLC. *)
EXTENDS LoginAlerts
=============================================================================
