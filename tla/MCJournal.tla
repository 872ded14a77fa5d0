----------------------------- MODULE MCJournal -----------------------------
(* Instances of Journal for TLC. *)
EXTENDS Journal, TLC

CONSTANTS p1, p2, r1, f1, ok, failed, none, garbage, noRecord
=============================================================================
