------------------------------ MODULE MCPlanner ------------------------------
(***************************************************************************)
(* Four proposals: two of one edit (1, 2), two of one identifier (1, 4) and *)
(* one that is not authorized (3).  Answers of one token, or of four: what  *)
(* a proposer may take, and more than a critic, the chair or the provider   *)
(* of a single agent may.                                                   *)
(***************************************************************************)
EXTENDS Planner

MCProposals == 1 .. 4
MCId == <<1, 2, 3, 1>>
MCEdit == <<1, 1, 2, 3>>
MCAuthorized == {1, 2, 4}
MCPlanned == <<1, 3>>
MCAdvice == {<<>>, <<1>>, <<2>>, <<3>>, <<1, 4>>, <<2, 4>>}
MCEvidence == {1, 2}
MCGrants == [timing_forensics |-> {1, 2}, domain |-> {2}]
MCObjections == {1}
MCTokens == {1, 4}
=============================================================================
