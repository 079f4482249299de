----------------------------- MODULE MCScheduler -----------------------------
(* Small instances of Scheduler for TLC. *)
EXTENDS Scheduler, TLC

CONSTANTS j1, j2, j3, r1, c1, c2, l1, synthesis, formal

\* Two jobs compete for one kind, the third has a kind of its own.
MCKindOf == [j \in Jobs |-> IF j = j3 THEN formal ELSE synthesis]
MCRunOf == [j \in Jobs |-> r1]

\* Any two of three jobs fit the run's token budget.
MCDemand == [j \in Jobs |->
    [cpu_cores |-> 1, memory_bytes |-> IF j = j1 THEN 2 ELSE 1,
     wall_time_ms |-> 1, candidate_cost |-> 1,
     token_cost |-> IF j = j3 THEN 2 ELSE 1, retry_depth |-> 0]]

OneAtATime == [k \in Kinds |->
    [max_concurrency |-> 1, cpu_cores |-> 1, memory_bytes |-> 2, wall_time_ms |-> 1]]

\* Concurrency would admit two jobs of a kind, memory admits only j2 and j3.
TwoAtATime == [k \in Kinds |->
    [max_concurrency |-> 2, cpu_cores |-> 2, memory_bytes |-> 2, wall_time_ms |-> 1]]

\* Calling threads differ in nothing but their name.
ThreadSymmetry == Permutations(Callers)
=============================================================================
