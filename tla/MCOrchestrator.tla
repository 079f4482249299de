--------------------------- MODULE MCOrchestrator ---------------------------
(* A small instance of Orchestrator. *)
EXTENDS Orchestrator, TLC

CONSTANTS r1, k1, k2, s1, p1, a, b, e, h1, h2

\* a and b were started with the same effective policy, e with another one.
MCPolicyOf == (a :> h1) @@ (b :> h1) @@ (e :> h2)
=============================================================================
