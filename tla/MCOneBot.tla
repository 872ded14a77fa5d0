------------------------------ MODULE MCOneBot ------------------------------
(* Instances of OneBot for TLC. *)
EXTENDS OneBot

CONSTANTS e1, e2, c1, c2
=============================================================================
