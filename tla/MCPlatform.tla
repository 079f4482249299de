----------------------------- MODULE MCPlatform -----------------------------
(* A small instance of Platform: a downloaded component before a cloned one. *)
EXTENDS Platform, TLC

CONSTANTS openroad, orfs, p1, p2

MCOrder == <<openroad, orfs>>
MCSymmetry == Permutations({p1, p2})
=============================================================================
