----------------------------- MODULE MCRecovery -----------------------------
(* A small instance of Recovery, with the rules of recovery_rules.yaml. *)
EXTENDS Recovery, TLC

Rule(priority, retryable, allowed) ==
    [priority |-> priority, retryable |-> retryable, human |-> FALSE, allowed |-> allowed]

Stop == <<"STOP_RUN_OR_REQUEST_HUMAN">>
Protected == <<"REJECT_CANDIDATE", "STOP_RUN_OR_REQUEST_HUMAN">>
Local == <<"NARROW_TRANSFORM_SCOPE", "SWITCH_TRANSFORM_FAMILY", "REJECT_CANDIDATE">>
Timing == <<"LOCAL_PARAMETER_REVISION", "SWITCH_TRANSFORM_FAMILY", "OPPORTUNITY_REANALYSIS",
            "ABANDON_LINEAGE">>

MCRules ==
    [BASELINE_INPUT_ERROR |-> Rule(0, FALSE, Stop),
     ANALYSIS_VIEW_OR_ACTIVITY_MISMATCH |-> Rule(10, FALSE, Stop),
     INFRASTRUCTURE_TRANSIENT |-> Rule(20, TRUE, <<"RETRY_INFRASTRUCTURE", "STOP_RUN_OR_REQUEST_HUMAN">>),
     ADAPTER_OR_PARSER_ERROR |-> Rule(21, TRUE, <<"CORRECT_EXECUTOR_OUTPUT", "STOP_RUN_OR_REQUEST_HUMAN">>),
     CONSTRAINT_BINDING_DELTA |-> Rule(30, FALSE, Protected),
     CDC_INVARIANT_DELTA |-> Rule(31, FALSE, Protected),
     FORMAL_MODEL_MISMATCH |-> Rule(32, FALSE, Stop),
     INVALID_PROPOSAL_SCHEMA |-> Rule(40, TRUE, <<"REPAIR_SCHEMA", "REJECT_CANDIDATE">>),
     UNKNOWN_OR_INAPPLICABLE_TRANSFORM |-> Rule(41, FALSE, Protected),
     PROTECTED_STRUCTURE_VIOLATION |-> Rule(33, FALSE, Protected),
     RTL_PARSE_OR_ELAB_FAILURE |-> Rule(50, TRUE, Local),
     FAST_SYNTH_STRUCTURAL_FAILURE |-> Rule(51, TRUE, Local),
     FORMAL_SEMANTIC_FAILURE |-> Rule(52, TRUE, Local),
     FORMAL_INCONCLUSIVE |-> Rule(53, TRUE, <<"REPARTITION_FORMAL_PROOF", "SWITCH_TRANSFORM_FAMILY",
                                              "REJECT_CANDIDATE">>),
     TIMING_NO_GAIN |-> Rule(60, TRUE, Timing),
     TIMING_REGRESSION |-> Rule(61, TRUE, <<"SWITCH_TRANSFORM_FAMILY", "BRANCH_FROM_ALTERNATE_PARENT",
                                            "REJECT_CANDIDATE">>),
     CRITICAL_PATH_MIGRATION |-> Rule(62, TRUE, <<"OPPORTUNITY_REANALYSIS", "TARGET_NEW_PATH_CLUSTER",
                                                  "ABANDON_LINEAGE">>),
     HOLD_REGRESSION |-> Rule(63, TRUE, <<"LOCAL_PARAMETER_REVISION", "SWITCH_TRANSFORM_FAMILY",
                                          "REJECT_CANDIDATE">>),
     AREA_POLICY_VIOLATION |-> Rule(64, TRUE, Timing),
     POWER_POLICY_VIOLATION |-> Rule(65, TRUE, Timing),
     PHYSICAL_CORRELATION_MISS |-> Rule(66, TRUE, <<"PHYSICAL_ONLY_RECOMMENDATION",
                                                    "TARGET_NEW_PATH_CLUSTER", "ABANDON_LINEAGE">>),
     CONGESTION_OR_ROUTABILITY_RISK |-> Rule(67, TRUE, Timing),
     REPEATED_NON_PROGRESS |-> Rule(5, TRUE, <<"TARGET_NEW_PATH_CLUSTER",
                                               "BRANCH_FROM_ALTERNATE_PARENT", "ABANDON_LINEAGE">>),
     VALID_BUT_DOMINATED |-> Rule(70, FALSE, <<"ABANDON_LINEAGE">>)]

\* Nothing known, families of every kind of rule, and two at once.
MCDiagnoses ==
    {{}, {"TIMING_NO_GAIN"}, {"CRITICAL_PATH_MIGRATION"}, {"FORMAL_INCONCLUSIVE"},
     {"FORMAL_MODEL_MISMATCH"}, {"TIMING_NO_GAIN", "PROTECTED_STRUCTURE_VIOLATION"}}

Edit == [cone |-> 1, operation |-> 1, ast |-> 1, mapped |-> 1, parameters |-> 1, lineage |-> 1,
         counterexample |-> 1, response |-> 1]

\* The same edit, with another mapping, and of another cone.
MCMechanisms == {Edit, [Edit EXCEPT !.mapped = 2], [Edit EXCEPT !.cone = 2]}

\* The rules above are those of the published policy.
ASSUME RulesAssumption == PublishedPolicy
=============================================================================
