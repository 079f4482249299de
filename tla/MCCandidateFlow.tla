--------------------------- MODULE MCCandidateFlow ---------------------------
(* Small instances of CandidateFlow. *)
EXTENDS CandidateFlow

CONSTANTS p1, p2
=============================================================================
