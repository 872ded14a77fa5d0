--------------------------- MODULE MCControlPlane ---------------------------
(* Instances of ControlPlane for TLC. *)
EXTENDS ControlPlane, TLC

CONSTANTS n1, e1, e2, s1, s2

OneNapcat   == e1 :> "napcat"
OneSnowluma == e1 :> "snowluma"
TwoNapcat   == e1 :> "napcat" @@ e2 :> "napcat"
NapcatNode   == n1 :> "napcat"
SnowlumaNode == n1 :> "snowluma"

\* Both endpoints are interchangeable in the instances that use them.
Symmetry == Permutations({e1, e2})

CurrentBuild == {[routing |-> TRUE, artifact |-> "current"]}
Upgrade == {[routing |-> FALSE, artifact |-> "old"], [routing |-> TRUE, artifact |-> "current"]}
=============================================================================
