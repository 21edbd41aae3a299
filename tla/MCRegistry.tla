----------------------------- MODULE MCRegistry -----------------------------
(* Registry for TLC.                                                       *)
EXTENDS Registry, TLC

ConnSymmetry == Permutations(AdminConns) \cup Permutations(IoConns)
=============================================================================
