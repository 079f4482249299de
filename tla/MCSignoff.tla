----------------------------- MODULE MCSignoff -----------------------------
(* Small instances of Signoff. *)
EXTENDS Signoff

MCMilestones == 0 .. 8
============================================================================
