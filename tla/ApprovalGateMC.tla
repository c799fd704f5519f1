--------------------------- MODULE ApprovalGateMC ---------------------------
(* Instances of ApprovalGate for TLC. *)
EXTENDS ApprovalGate, TLC

\* Gate workers are interchangeable, and so are requests (used by the safety run only).
GateSymmetry == Permutations(Gates) \cup Permutations(Requests)
=============================================================================
