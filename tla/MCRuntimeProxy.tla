--------------------------- MODULE MCRuntimeProxy ---------------------------
(* Instances of RuntimeProxy for TLC. *)
EXTENDS RuntimeProxy, TLC

\* Mounts are interchangeable, and so are requests.
Symmetry == Permutations(Mounts) \cup Permutations(Requests)
=============================================================================
