--------------------------- MODULE MCArtifactStore ---------------------------
(* A small instance of ArtifactStore. *)
EXTENDS ArtifactStore

CONSTANTS p1, p2, d1, d2, dir

\* Both contents go into the one fan-out directory.
OneDirectory == [d \in {d1, d2} |-> dir]
=============================================================================
