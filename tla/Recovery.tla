------------------------------ MODULE Recovery ------------------------------
(***************************************************************************)
(* recovery/: classification of a failed stage, the stagnation detector,   *)
(* the router with its escalation levels and budgets, the authority checks *)
(* on its decision, and the safety gate before a child is materialized.    *)
(* These are functions without state of their own.  The module follows one *)
(* lineage through a sequence of calls: its owner (external: the functions *)
(* only define what it passes in) hands every call the history and the     *)
(* budgets the earlier decisions left, asks the detector about every       *)
(* failure, and may by mistake hand in the failure or the directive of the *)
(* step before.  A failure is named by its number, a source snapshot by    *)
(* the number of children the lineage has had.                             *)
(***************************************************************************)
EXTENDS Naturals, Sequences, FiniteSets

CONSTANTS Rules,         \* failure family -> its rule in the policy
          MaxDepth,      \* max_recovery_depth
          Threshold,     \* similarity_threshold, in hundredths
          RepeatedCount, \* repeated_failure_count
          Mechanisms,    \* what fingerprints tell apart, see Features
          Diagnoses,     \* sets of families the diagnostics of a stage name
          FamilyBudget, LineageBudget, \* what a lineage starts with
          None

TerminalActions == {"PHYSICAL_ONLY_RECOMMENDATION", "REJECT_CANDIDATE",
                    "ABANDON_LINEAGE", "STOP_RUN_OR_REQUEST_HUMAN"}

NonRtlActions == {"RETRY_INFRASTRUCTURE", "REPAIR_SCHEMA",
                  "CORRECT_EXECUTOR_OUTPUT", "REPARTITION_FORMAL_PROOF"}

Level ==
    [RETRY_INFRASTRUCTURE |-> 0, REPAIR_SCHEMA |-> 1, CORRECT_EXECUTOR_OUTPUT |-> 1,
     LOCAL_PARAMETER_REVISION |-> 2, NARROW_TRANSFORM_SCOPE |-> 2,
     SWITCH_OPERATION_SAME_FAMILY |-> 3, SWITCH_TRANSFORM_FAMILY |-> 3,
     REPARTITION_FORMAL_PROOF |-> 3, OPPORTUNITY_REANALYSIS |-> 5,
     TARGET_NEW_PATH_CLUSTER |-> 5, BRANCH_FROM_ALTERNATE_PARENT |-> 5,
     PHYSICAL_ONLY_RECOMMENDATION |-> 6, REJECT_CANDIDATE |-> 6,
     ABANDON_LINEAGE |-> 6, STOP_RUN_OR_REQUEST_HUMAN |-> 6]

Actions == DOMAIN Level

Default ==
    [BASELINE_INPUT_ERROR |-> "STOP_RUN_OR_REQUEST_HUMAN",
     ANALYSIS_VIEW_OR_ACTIVITY_MISMATCH |-> "STOP_RUN_OR_REQUEST_HUMAN",
     INFRASTRUCTURE_TRANSIENT |-> "RETRY_INFRASTRUCTURE",
     ADAPTER_OR_PARSER_ERROR |-> "CORRECT_EXECUTOR_OUTPUT",
     CONSTRAINT_BINDING_DELTA |-> "REJECT_CANDIDATE",
     CDC_INVARIANT_DELTA |-> "REJECT_CANDIDATE",
     FORMAL_MODEL_MISMATCH |-> "STOP_RUN_OR_REQUEST_HUMAN",
     INVALID_PROPOSAL_SCHEMA |-> "REPAIR_SCHEMA",
     UNKNOWN_OR_INAPPLICABLE_TRANSFORM |-> "REJECT_CANDIDATE",
     PROTECTED_STRUCTURE_VIOLATION |-> "REJECT_CANDIDATE",
     RTL_PARSE_OR_ELAB_FAILURE |-> "NARROW_TRANSFORM_SCOPE",
     FAST_SYNTH_STRUCTURAL_FAILURE |-> "NARROW_TRANSFORM_SCOPE",
     FORMAL_SEMANTIC_FAILURE |-> "NARROW_TRANSFORM_SCOPE",
     FORMAL_INCONCLUSIVE |-> "REPARTITION_FORMAL_PROOF",
     TIMING_NO_GAIN |-> "LOCAL_PARAMETER_REVISION",
     TIMING_REGRESSION |-> "SWITCH_TRANSFORM_FAMILY",
     CRITICAL_PATH_MIGRATION |-> "OPPORTUNITY_REANALYSIS",
     HOLD_REGRESSION |-> "LOCAL_PARAMETER_REVISION",
     AREA_POLICY_VIOLATION |-> "LOCAL_PARAMETER_REVISION",
     POWER_POLICY_VIOLATION |-> "LOCAL_PARAMETER_REVISION",
     PHYSICAL_CORRELATION_MISS |-> "PHYSICAL_ONLY_RECOMMENDATION",
     CONGESTION_OR_ROUTABILITY_RISK |-> "LOCAL_PARAMETER_REVISION",
     REPEATED_NON_PROGRESS |-> "TARGET_NEW_PATH_CLUSTER",
     VALID_BUT_DOMINATED |-> "ABANDON_LINEAGE"]

Families == DOMAIN Default

\* RecoveryPolicyRegistry: every family has a rule.
ASSUME PolicyAssumption ==
    /\ DOMAIN Rules = Families
    /\ \A f \in Families : /\ Rules[f].allowed \in Seq(Actions) \ {<<>>}
                           /\ Rules[f].priority \in Nat
                           /\ Rules[f].retryable \in BOOLEAN /\ Rules[f].human \in BOOLEAN
    /\ MaxDepth \in Nat /\ Threshold \in 0 .. 100 /\ RepeatedCount \in Nat \ {0}
    /\ FamilyBudget \in Nat /\ LineageBudget \in Nat
    /\ Diagnoses \subseteq SUBSET Families

VARIABLES
    pc,          \* evaluating, failed, routed, or how the lineage ended
    source,      \* the snapshot under evaluation
    failure,     \* the last FailureEvent ...
    previous,    \* ... and the one before
    seen,        \* the FailureObservations the detector can still look at
    taken,       \* previous_actions
    depth,       \* recovery_depth
    familyLeft,  \* failure family -> remaining_family_budget
    lineageLeft, \* remaining_lineage_budget
    decision     \* the last RecoveryDecision

vars == <<pc, source, failure, previous, seen, taken, depth, familyLeft, lineageLeft, decision>>

-----------------------------------------------------------------------------
(* Classification and stagnation *)

\* The rule of the lowest priority number among the families the stage's
\* diagnostic codes name.
MostUrgent(named) ==
    CHOOSE f \in named : \A g \in named : Rules[f].priority <= Rules[g].priority

\* A FailureEvent: an outcome nothing names goes to a human.
Event(id, f, unknown) ==
    [id |-> id, family |-> f, human |-> unknown \/ Rules[f].human, snapshot |-> source,
     retryable |-> ~unknown /\ Rules[f].retryable]

\* classify, for a stage that ended with INFRASTRUCTURE_ERROR and for another.
Classify(id, infrastructure, named) ==
    IF infrastructure THEN Event(id, "INFRASTRUCTURE_TRANSIENT", FALSE)
    ELSE IF named = {} THEN Event(id, "ADAPTER_OR_PARSER_ERROR", TRUE)
    ELSE Event(id, MostUrgent(named), FALSE)

\* The weighted features of semantic_similarity, in hundredths.
Weight == [cone |-> 25, operation |-> 20, ast |-> 20, mapped |-> 15,
           parameters |-> 10, lineage |-> 10]

Features == DOMAIN Weight

\* Families in which two failures with another metric response differ.
MeasuredFamilies ==
    {"TIMING_NO_GAIN", "TIMING_REGRESSION", "CRITICAL_PATH_MIGRATION", "HOLD_REGRESSION",
     "AREA_POLICY_VIOLATION", "POWER_POLICY_VIOLATION", "PHYSICAL_CORRELATION_MISS",
     "CONGESTION_OR_ROUTABILITY_RISK"}

Shares(l, r, x) == IF l[x] = r[x] THEN Weight[x] ELSE 0

\* semantic_similarity of two failures of family f with mechanisms l and r.
Similarity(f, l, r) ==
    IF \/ f = "FORMAL_SEMANTIC_FAILURE" /\ l.counterexample # r.counterexample
       \/ f \in MeasuredFamilies /\ l.response # r.response
    THEN 0
    ELSE Shares(l, r, "cone") + Shares(l, r, "operation") + Shares(l, r, "ast")
         + Shares(l, r, "mapped") + Shares(l, r, "parameters") + Shares(l, r, "lineage")

\* Faulty variant: at the threshold two failures are taken for different ones.
RepeatsAbove(o, f, m) ==
    o.family = f /\ Similarity(f, o.mechanism, m) > Threshold /\ o.stalled

\* What one earlier observation must be to count against the present one.
Repeats(o, f, m) ==
    o.family = f /\ Similarity(f, o.mechanism, m) >= Threshold /\ o.stalled

\* The loop of detect_stagnation counts from 1 and looks before it compares.
Lookback == IF RepeatedCount > 1 THEN RepeatedCount - 1 ELSE 1

DetectStagnation(f, m, stalled, observations) ==
    /\ stalled /\ Len(observations) >= Lookback
    /\ \A i \in Len(observations) - Lookback + 1 .. Len(observations) :
          Repeats(observations[i], f, m)

\* Older observations cannot matter any more.
Remember(o) ==
    LET all == Append(seen, o) IN
    IF Len(all) > Lookback + 1 THEN Tail(all) ELSE all

-----------------------------------------------------------------------------
(* The router *)

\* The first action of a rule that is in S, as a set: empty if there is none.
FirstAllowed(f, S) ==
    LET allowed == Rules[f].allowed
        hits == {i \in DOMAIN allowed : allowed[i] \in S} IN
    {allowed[i] : i \in {j \in hits : \A k \in hits : j <= k}}

AllowedActions(f) == {Rules[f].allowed[i] : i \in DOMAIN Rules[f].allowed}

\* _terminal_action; the empty set is its exception.
TerminalAction(f) ==
    IF "ABANDON_LINEAGE" \in AllowedActions(f) THEN {"ABANDON_LINEAGE"}
    ELSE IF "REJECT_CANDIDATE" \in AllowedActions(f) THEN {"REJECT_CANDIDATE"}
    ELSE AllowedActions(f) \cap {"STOP_RUN_OR_REQUEST_HUMAN"}

OrTerminal(f, S) == IF S # {} THEN S ELSE TerminalAction(f)

\* A failure no automatic repair may answer.
NeedsHuman(e) == e.human \/ (~e.retryable /\ Default[e.family] \notin TerminalActions)

Exhausted == lineageLeft = 0 \/ depth >= MaxDepth

\* Faulty variant: a family's budget does not limit it.
WithinAnyBudget(f) == {Default[f]}

\* Without family budget the choice moves on to another target.
WithinFamilyBudget(f) ==
    IF familyLeft[f] = 0 /\ Level[Default[f]] <= 3
    THEN OrTerminal(f, FirstAllowed(f, {a \in Actions \ TerminalActions : Level[a] >= 5}))
    ELSE {Default[f]}

\* Faulty variant: the replacement is the first action of the rule.
EscalatedToFirst(f, S) ==
    IF \E a \in S, b \in taken : Level[a] < Level[b]
    THEN OrTerminal(f, FirstAllowed(f, Actions)) ELSE S

\* The levels a lineage has reached are not left again.
Escalated(f, S) ==
    IF \E a \in S, b \in taken : Level[a] < Level[b]
    THEN OrTerminal(f, FirstAllowed(f, {a \in Actions : \A b \in taken : Level[a] >= Level[b]}))
    ELSE S

\* _select_action, as a set of at most one action.
SelectAction(e) ==
    IF NeedsHuman(e)
    THEN OrTerminal(e.family, AllowedActions(e.family) \cap {"STOP_RUN_OR_REQUEST_HUMAN"})
    ELSE IF Exhausted THEN TerminalAction(e.family)
    ELSE Escalated(e.family, WithinFamilyBudget(e.family))

\* validate_recovery_authority_chain and the validators of its contracts, for
\* a decision on failure e with the directive compiled for failure d.
Authorized(e, d, a) ==
    /\ d.id = e.id
    /\ a \in AllowedActions(e.family)
    /\ e.family = "PROTECTED_STRUCTURE_VIOLATION" =>
          AllowedActions(e.family) \subseteq {"REJECT_CANDIDATE", "STOP_RUN_OR_REQUEST_HUMAN"}
    /\ e.family = "INFRASTRUCTURE_TRANSIENT" =>
          AllowedActions(e.family) \subseteq {"RETRY_INFRASTRUCTURE", "STOP_RUN_OR_REQUEST_HUMAN"}

Spent(n) == IF n = 0 THEN 0 ELSE n - 1

-----------------------------------------------------------------------------
(* One lineage *)

NoFailure == [id |-> 0, family |-> None, human |-> FALSE, snapshot |-> 0, retryable |-> FALSE]

NoDecision == [action |-> None]

Init ==
    /\ pc = "evaluating" /\ source = 0
    /\ failure = NoFailure /\ previous = NoFailure /\ seen = <<>>
    /\ taken = {} /\ depth = 0
    /\ familyLeft = [f \in Families |-> FamilyBudget] /\ lineageLeft = LineageBudget
    /\ decision = NoDecision

\* The candidate is feasible.
Succeed ==
    /\ pc = "evaluating" /\ pc' = "succeeded"
    /\ UNCHANGED <<source, failure, previous, seen, taken, depth, familyLeft, lineageLeft, decision>>

\* A stage fails because of the infrastructure: nothing to fingerprint.
FailTransiently ==
    /\ pc = "evaluating" /\ pc' = "failed"
    /\ failure' = Classify(failure.id + 1, TRUE, {})
    /\ previous' = failure
    /\ UNCHANGED <<source, seen, taken, depth, familyLeft, lineageLeft, decision>>

\* A stage fails with diagnostics of the families in named, by mechanism m,
\* with or without progress on timing or area.
Fail(named, m, stalled) ==
    LET e == Classify(failure.id + 1, FALSE, named) IN
    /\ pc = "evaluating" /\ pc' = "failed"
    /\ failure' = IF DetectStagnation(e.family, m, stalled, seen)
                  THEN Event(e.id, "REPEATED_NON_PROGRESS", FALSE) ELSE e
    /\ previous' = failure
    /\ seen' = Remember([family |-> e.family, mechanism |-> m, stalled |-> stalled])
    /\ UNCHANGED <<source, taken, depth, familyLeft, lineageLeft, decision>>

Refuse == pc' = "refused" /\ UNCHANGED <<source, failure, previous, seen, taken, depth,
                                         familyLeft, lineageLeft, decision>>

\* route_recovery_envelope on failure e and the directive compiled for d.
Route(e, d) ==
    /\ pc = "failed" /\ e # NoFailure /\ d # NoFailure
    /\ \/ /\ \A a \in SelectAction(e) : ~Authorized(e, d, a)
          /\ Refuse
       \/ \E a \in SelectAction(e) :
             /\ Authorized(e, d, a)
             /\ decision' = [action |-> a, failure |-> e]
             /\ taken' = taken \cup {a}
             /\ familyLeft' = IF a \in TerminalActions THEN familyLeft
                              ELSE [familyLeft EXCEPT ![e.family] = Spent(@)]
             /\ lineageLeft' = IF a \in TerminalActions \cup {"RETRY_INFRASTRUCTURE"}
                               THEN lineageLeft ELSE Spent(lineageLeft)
             /\ pc' = "routed"
             /\ UNCHANGED <<source, failure, previous, seen, depth>>

\* Faulty variant: evidence of any snapshot will do.
EvidenceFitsAnyway(e) == TRUE

\* validate_recovery_evidence: the evidence is of the snapshot at hand.
EvidenceFits(e) == e.snapshot = source

\* authorize_recovery_materialization, for the requested source (None, the
\* present one or a new one).
Admits(a, requested) ==
    CASE a \in NonRtlActions -> requested = source
      [] a \in TerminalActions -> requested \in {None, source}
      [] OTHER -> requested \notin {None, source}

Materialize(requested) ==
    /\ pc = "routed"
    /\ IF ~EvidenceFits(decision.failure) \/ ~Admits(decision.action, requested) THEN Refuse
       ELSE /\ pc' = IF decision.action \in TerminalActions THEN "ended" ELSE "evaluating"
            /\ source' = IF requested \in {None, source} THEN source ELSE requested
            /\ depth' = IF requested \in {None, source} THEN depth ELSE depth + 1
            /\ UNCHANGED <<failure, previous, seen, taken, familyLeft, lineageLeft, decision>>

Done == pc \in {"succeeded", "refused", "ended"} /\ UNCHANGED vars

Next ==
    \/ FailTransiently
    \/ \E named \in Diagnoses, m \in Mechanisms, stalled \in BOOLEAN : Fail(named, m, stalled)
    \/ \E e, d \in {failure, previous} : Route(e, d)
    \/ \E requested \in {None, source, source + 1} : Materialize(requested)
    \/ Succeed \/ Done

Spec == Init /\ [][Next]_vars

-----------------------------------------------------------------------------
(* Properties *)

Events == [id : Nat, family : Families, human : BOOLEAN, snapshot : Nat, retryable : BOOLEAN]

TypeOK ==
    /\ pc \in {"evaluating", "failed", "routed", "succeeded", "refused", "ended"}
    /\ source \in Nat /\ depth \in 0 .. MaxDepth
    /\ failure \in Events \cup {NoFailure} /\ previous \in Events \cup {NoFailure}
    /\ seen \in Seq([family : Families, mechanism : Mechanisms, stalled : BOOLEAN])
    /\ taken \subseteq Actions
    /\ familyLeft \in [Families -> 0 .. FamilyBudget] /\ lineageLeft \in 0 .. LineageBudget
    /\ pc = "routed" => decision.action \in Actions

\* A decision that may have a child leaves room for it below the depth limit.
DepthLeft == pc = "routed" /\ decision.action \notin TerminalActions => depth < MaxDepth

\* Escalation is monotonic for a lineage: no decision falls behind the level an
\* earlier one reached, whatever fails next and however budgets run out.
EscalationMonotonic ==
    [][pc = "failed" /\ pc' = "routed" =>
          \A a \in taken : Level[decision'.action] >= Level[a]]_vars

\* The router answers every failure with an action of its policy: nothing but
\* mixed up failures and directives, or a wrong request, is refused.
RoutingTotal == pc = "failed" => \A e \in {failure, previous} \ {NoFailure} :
                                    \E a \in SelectAction(e) : Authorized(e, e, a)

\* RTL changes only by a decision on a failure of the very source it replaces,
\* and never in answer to an infrastructure or protected-structure failure or to
\* one that a human has to look at.
OnlyAuthorizedChildren ==
    [][source' # source =>
          /\ decision.failure.snapshot = source /\ ~decision.failure.human
          /\ decision.failure.family \notin
                {"INFRASTRUCTURE_TRANSIENT", "PROTECTED_STRUCTURE_VIOLATION",
                 "CONSTRAINT_BINDING_DELTA", "CDC_INVARIANT_DELTA"}]_vars

\* What recovery_rules.yaml adds to the checks of the registry: every rule allows
\* the action its family starts with and one that ends a lineage, infrastructure
\* and protected-structure failures have no rule that changes RTL, non-progress
\* none that keeps the target, and two failures that share 85 or more of the
\* 100 weights repeat each other at the second.
PublishedPolicy ==
    /\ \A f \in Families : Default[f] \in AllowedActions(f) /\ TerminalAction(f) # {}
    /\ AllowedActions("PROTECTED_STRUCTURE_VIOLATION")
          \subseteq {"REJECT_CANDIDATE", "STOP_RUN_OR_REQUEST_HUMAN"}
    /\ AllowedActions("INFRASTRUCTURE_TRANSIENT")
          \subseteq {"RETRY_INFRASTRUCTURE", "STOP_RUN_OR_REQUEST_HUMAN"}
    /\ \A a \in AllowedActions("REPEATED_NON_PROGRESS") : Level[a] >= 5
    /\ Threshold <= 85 /\ RepeatedCount <= 2

\* Two observations a reviewer would call the same mechanism: no progress, and
\* of all features at most one of the three light ones differs.
SameMechanism(o, p) ==
    /\ o.family = p.family /\ o.stalled /\ p.stalled
    /\ Cardinality({x \in Features : o.mechanism[x] # p.mechanism[x]}) <= 1
    /\ \A x \in {"cone", "operation", "ast"} : o.mechanism[x] = p.mechanism[x]
    /\ o.mechanism.response = p.mechanism.response
    /\ o.mechanism.counterexample = p.mechanism.counterexample

\* Two similar attempts without progress force the lineage onto another target
\* or to its end: no third variation of the same edit is authorized.
NoThirdVariation ==
    pc = "routed" /\ decision.failure = failure /\ Len(seen) = 2
      /\ failure.family # "INFRASTRUCTURE_TRANSIENT" /\ SameMechanism(seen[1], seen[2])
    => Level[decision.action] >= 5

\* Whatever fails, in whatever order, the router decides, and never for the
\* same edit a third time.
DecisionsSound == TypeOK /\ RoutingTotal /\ NoThirdVariation

\* Every decision that lets a lineage go on spends budget, of the failure's
\* family or of the lineage, even once one of them is gone: whatever fails, in
\* whatever order, a lineage goes on only finitely often.
GoingOnSpends ==
    [][pc = "failed" /\ pc' = "routed" /\ decision'.action \notin TerminalActions =>
          \/ lineageLeft' < lineageLeft
          \/ \E f \in Families : familyLeft'[f] < familyLeft[f]]_vars
=============================================================================
