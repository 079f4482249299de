----------------------------- MODULE StateTables -----------------------------
(* The state machines of runs and candidates, from orchestrator/state.py.  *)

RunTransitions ==
    [CREATED            |-> {"INGESTING", "FAILED_INPUT", "CANCELLED"},
     INGESTING          |-> {"BASELINING", "FAILED_INPUT", "CANCELLED"},
     BASELINING         |-> {"EVIDENCE_BUILD", "FAILED_BASELINE",
                             "BUDGET_EXHAUSTED", "CANCELLED"},
     EVIDENCE_BUILD     |-> {"SEARCHING", "FAILED_BASELINE",
                             "BUDGET_EXHAUSTED", "CANCELLED"},
     SEARCHING          |-> {"FINAL_PHYSICAL", "BUDGET_EXHAUSTED", "CANCELLED"},
     FINAL_PHYSICAL     |-> {"FINAL_VERIFICATION", "BUDGET_EXHAUSTED", "CANCELLED"},
     FINAL_VERIFICATION |-> {"REPORTING", "BUDGET_EXHAUSTED", "CANCELLED"},
     REPORTING          |-> {"COMPLETED", "BUDGET_EXHAUSTED", "CANCELLED"}]

EvaluationFailures ==
    {"REJECTED", "INCONCLUSIVE", "INFRASTRUCTURE_ERROR", "RECOVERY_ELIGIBLE"}

\* The chain of candidate states; every one after the first may also fail.
CandidateTransitions ==
    [PROPOSED     |-> {"VALIDATED"},
     VALIDATED    |-> {"MATERIALIZED"} \cup EvaluationFailures,
     MATERIALIZED |-> {"PREFLIGHT"} \cup EvaluationFailures,
     PREFLIGHT    |-> {"FAST_SYNTH"} \cup EvaluationFailures,
     FAST_SYNTH   |-> {"FORMAL"} \cup EvaluationFailures,
     FORMAL       |-> {"FULL_STA"} \cup EvaluationFailures,
     FULL_STA     |-> {"PHYSICAL"} \cup EvaluationFailures,
     PHYSICAL     |-> {"FEASIBLE"} \cup EvaluationFailures,
     FEASIBLE     |-> {"PARETO", "DOMINATED", "SELECTED"}]

RunStates == DOMAIN RunTransitions \cup
    {"COMPLETED", "FAILED_INPUT", "FAILED_BASELINE", "BUDGET_EXHAUSTED", "CANCELLED"}

CandidateStates == DOMAIN CandidateTransitions \cup EvaluationFailures \cup
    {"PARETO", "DOMINATED", "SELECTED"}

\* _assert_legal
Legal(transitions, s, t) == s \in DOMAIN transitions /\ t \in transitions[s]
=============================================================================
