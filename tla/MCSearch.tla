------------------------------ MODULE MCSearch ------------------------------
(***************************************************************************)
(* Small instances of Search: the proposals of two opportunities, in the   *)
(* order a, b, c, d of their priority.  b and c differ only in their id; d *)
(* edits the candidate of a and, alone, asks for two formal jobs.          *)
(***************************************************************************)
EXTENDS Search, TLC

CONSTANTS a, b, c, d, wns, area, s1, s2, s3, h1, h2, h3, i1, i2

On(f) == [p \in Proposals |-> f[p]]

MCOpportunity == On(a :> 1 @@ b :> 2 @@ c :> 2 @@ d :> 1)
MCRank == On(a :> 1 @@ b :> 2 @@ c :> 3 @@ d :> 4)
MCHash == On(a :> 1 @@ b :> 2 @@ c :> 2 @@ d :> 3)
MCParent == On(a :> Root @@ b :> Root @@ c :> Root @@ d :> a)

Amount(n, f, p, t, l) ==
    [r \in Resources |-> CASE r = "candidates" -> n [] r = "formal" -> f
                           [] r = "physical" -> p [] r = "tokens" -> t [] OTHER -> l]

MCCost == On(a :> Amount(1, 1, 1, 0, 1) @@ b :> Amount(1, 0, 0, 1, 0)
             @@ c :> Amount(1, 1, 0, 0, 1) @@ d :> Amount(1, 2, 1, 0, 1))

MCPlannerCosts == {Amount(0, 0, 0, 0, 0), Amount(0, 0, 0, 1, 1)}

Request(budget, window, first, recovery) ==
    [budget |-> budget, window |-> window, firstFeasible |-> first, recovery |-> recovery]

\* Tight and loose budgets, both stop rules, with and without recovery.
MCRequests == {Request(Amount(2, 2, 1, 1, 2), 2, FALSE, TRUE),
               Request(Amount(3, 2, 2, 2, 3), 1, TRUE, FALSE),
               Request(Amount(4, 4, 4, 4, 5), 3, FALSE, TRUE)}

MCMaximize == {wns}

\* The second is better than the third, and neither compares with the first.
ThreeVectors == {wns :> 1 @@ area :> 1, wns :> 2 @@ area :> 2, wns :> 2 @@ area :> 3}

EditSymmetry == Permutations(Sources) \cup Permutations(Patches)
=============================================================================
