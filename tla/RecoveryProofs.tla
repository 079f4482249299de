--------------------------- MODULE RecoveryProofs ---------------------------
(***************************************************************************)
(* What Recovery promises for every policy, every budget and every bound:  *)
(* escalation of a lineage is monotonic, and a lineage that goes on spends *)
(* budget; and for every policy that keeps what the published one does:    *)
(* the router answers every failure, and never repeats an edit that did    *)
(* not help twice.                                                         *)
(***************************************************************************)
EXTENDS Recovery, SequenceTheorems, FiniteSetTheorems, WellFoundedInduction, TLAPS

\* The escalation levels, and the terminal actions at their top.
LEMMA LevelFacts ==
    /\ \A a \in Actions : Level[a] \in 0 .. 6
    /\ TerminalActions \subseteq Actions
    /\ \A a \in TerminalActions : Level[a] = 6
    /\ \A a \in Actions : Level[a] = 0 <=> a = "RETRY_INFRASTRUCTURE"
  BY DEF Actions, Level, TerminalActions

\* The action a family starts with is one of the actions.
LEMMA DefaultFacts == \A f \in Families : Default[f] \in Actions
  BY DEF Families, Default, Actions, Level

\* _terminal_action yields terminal actions only.
LEMMA TerminalActionFacts ==
  ASSUME NEW f \in Families
  PROVE  TerminalAction(f) \subseteq TerminalActions
  BY DEF TerminalAction, TerminalActions

\* A selection from the rule of a family lies in what it selects from.
LEMMA FirstAllowedFacts ==
  ASSUME NEW f \in Families, NEW S
  PROVE  FirstAllowed(f, S) \subseteq S
  BY DEF FirstAllowed

\* What _select_action chooses is an action; unless it is terminal there is
\* budget and depth left, and it is no retry once the family's budget is gone.
LEMMA SelectActionFacts ==
  ASSUME NEW e, e.family \in Families, taken \subseteq Actions,
         familyLeft \in [Families -> Nat],
         NEW a \in SelectAction(e)
  PROVE  /\ a \in Actions
         /\ \A b \in taken : Level[a] >= Level[b]
         /\ a \notin TerminalActions => ~Exhausted
         /\ a = "RETRY_INFRASTRUCTURE" => familyLeft[e.family] > 0
<1> DEFINE f == e.family
           W == WithinFamilyBudget(f)
<1>1. CASE a \in TerminalActions
  <2>1. a # "RETRY_INFRASTRUCTURE"
    BY <1>1 DEF TerminalActions
  <2> QED BY <1>1, <2>1, LevelFacts
<1>2. CASE a \notin TerminalActions
  <2>1. ~NeedsHuman(e) /\ ~Exhausted /\ a \in Escalated(f, W)
    <3>1. TerminalAction(f) \subseteq TerminalActions
      BY TerminalActionFacts
    <3>2. OrTerminal(f, AllowedActions(f) \cap {"STOP_RUN_OR_REQUEST_HUMAN"}) \subseteq TerminalActions
      BY <3>1 DEF OrTerminal, TerminalActions
    <3> QED BY <1>2, <3>1, <3>2 DEF SelectAction
  <2>2. \A w \in W : /\ w \in Actions
                     /\ w = "RETRY_INFRASTRUCTURE" => familyLeft[f] > 0
    <3>1. CASE familyLeft[f] = 0 /\ Level[Default[f]] <= 3
      <4>1. W \subseteq TerminalActions \cup {b \in Actions \ TerminalActions : Level[b] >= 5}
        BY <3>1, TerminalActionFacts, FirstAllowedFacts DEF WithinFamilyBudget, OrTerminal
      <4> QED BY <4>1, LevelFacts
    <3>2. CASE ~(familyLeft[f] = 0 /\ Level[Default[f]] <= 3)
      <4>1. W = {Default[f]}
        BY <3>2 DEF WithinFamilyBudget
      <4> QED BY <3>2, <4>1, DefaultFacts, LevelFacts
    <3> QED BY <3>1, <3>2
  <2>a. W \subseteq Actions
    BY <2>2
  <2>b. "RETRY_INFRASTRUCTURE" \in W => familyLeft[f] > 0
    BY <2>2
  <2> HIDE DEF W
  <2>c. \A b \in taken : Level[b] \in 0 .. 6
    BY LevelFacts
  <2>d. \A c \in W : Level[c] \in 0 .. 6
    BY <2>a, LevelFacts
  <2>3. CASE \E c \in W, b \in taken : Level[c] < Level[b]
    <3>1. a \in {c \in Actions : \A b \in taken : Level[c] >= Level[b]}
      BY <1>2, <2>1, <2>3, TerminalActionFacts, FirstAllowedFacts DEF Escalated, OrTerminal
    <3>2. PICK c \in W, b \in taken : Level[c] < Level[b]
      BY <2>3
    <3>3. Level[a] \in 0 .. 6 /\ Level[a] >= Level[b]
      BY <3>1, LevelFacts
    <3>4. Level[a] # 0
      BY <2>c, <2>d, <3>2, <3>3
    <3>5. a # "RETRY_INFRASTRUCTURE"
      BY <3>1, <3>4, LevelFacts
    <3> QED BY <2>1, <3>1, <3>5
  <2>4. CASE ~\E c \in W, b \in taken : Level[c] < Level[b]
    <3>1. a \in W
      BY <2>1, <2>4 DEF Escalated
    <3>2. \A b \in taken : Level[a] >= Level[b]
      BY <2>4, <2>c, <2>d, <3>1
    <3> QED BY <2>1, <2>a, <2>b, <3>1, <3>2
  <2> QED BY <2>3, <2>4
<1> QED BY <1>1, <1>2

\* A set of natural numbers has a least element.
LEMMA LeastNatural ==
  ASSUME NEW T, T \subseteq Nat, T # {}
  PROVE  \E x \in T : \A y \in T : x <= y
<1> DEFINE Less == {p \in Nat \X Nat : p[1] < p[2]}
<1>1. IsWellFoundedOn(Less, Nat)
  BY NatLessThanWellFounded, Zenon DEF OpToRel
<1>2. PICK x \in T : \A y \in T : ~(<<y, x>> \in Less)
  <2> HIDE DEF Less
  <2> QED BY <1>1, WFMin, Zenon
<1>3. ASSUME NEW y \in T PROVE x <= y
  <2>1. <<y, x>> \notin Less
    BY <1>2
  <2> QED BY <2>1
<1> QED BY <1>3

\* The classifier's choice among the families named is one of them.
LEMMA MostUrgentFacts ==
  ASSUME NEW named, named \subseteq Families, named # {}
  PROVE  MostUrgent(named) \in Families
<1> DEFINE T == {Rules[g].priority : g \in named}
<1>1. T \subseteq Nat /\ T # {}
  BY PolicyAssumption
<1>2. PICK x \in T : \A y \in T : x <= y
  BY <1>1, LeastNatural
<1>3. \E g \in named : \A h \in named : Rules[g].priority <= Rules[h].priority
  BY <1>2
<1> QED BY <1>3 DEF MostUrgent

\* The inductive invariant: types, and room below the depth limit for the
\* child that a routed decision may still have.
RecoveryInvariant == TypeOK /\ DepthLeft

\* A classified failure is an event.
LEMMA EventFacts ==
  ASSUME source \in Nat, NEW id \in Nat, NEW f \in Families, NEW unknown \in BOOLEAN
  PROVE  Event(id, f, unknown) \in Events
<1>1. Rules[f].human \in BOOLEAN /\ Rules[f].retryable \in BOOLEAN
  BY PolicyAssumption
<1>2. (unknown \/ Rules[f].human) \in BOOLEAN /\ (~unknown /\ Rules[f].retryable) \in BOOLEAN
  BY <1>1
<1> QED BY <1>1, <1>2 DEF Event, Events

\* The three families a classification can end in without a diagnosis.
LEMMA FixedFamilies ==
    {"INFRASTRUCTURE_TRANSIENT", "ADAPTER_OR_PARSER_ERROR", "REPEATED_NON_PROGRESS"} \subseteq Families
  BY DEF Families, Default

\* classify yields an event for every diagnosis.
LEMMA ClassifyFacts ==
  ASSUME source \in Nat, NEW id \in Nat, NEW infrastructure \in BOOLEAN,
         NEW named, named \subseteq Families
  PROVE  Classify(id, infrastructure, named) \in Events
<1>1. CASE infrastructure
  BY <1>1, EventFacts, FixedFamilies DEF Classify
<1>2. CASE ~infrastructure /\ named = {}
  BY <1>2, EventFacts, FixedFamilies DEF Classify
<1>3. CASE ~infrastructure /\ named # {}
  BY <1>3, EventFacts, MostUrgentFacts DEF Classify
<1> QED BY <1>1, <1>2, <1>3

\* The detector's window stays a sequence of observations.
LEMMA RememberFacts ==
  ASSUME NEW S, seen \in Seq(S), NEW o \in S
  PROVE  Remember(o) \in Seq(S)
<1>1. Append(seen, o) \in Seq(S) /\ Append(seen, o) # <<>>
  BY AppendProperties
<1>2. Tail(Append(seen, o)) \in Seq(S)
  BY <1>1, HeadTailProperties
<1> QED BY <1>1, <1>2 DEF Remember

\* The decision of a step of Route.
LEMMA RouteFacts ==
  ASSUME TypeOK, NEW e \in {failure, previous}, NEW d \in {failure, previous}, Route(e, d),
         pc' = "routed"
  PROVE  \E a \in SelectAction(e) :
            /\ e \in Events
            /\ decision'.action = a /\ taken' = taken \cup {a}
            /\ familyLeft' = IF a \in TerminalActions THEN familyLeft
                             ELSE [familyLeft EXCEPT ![e.family] = Spent(@)]
            /\ lineageLeft' = IF a \in TerminalActions \cup {"RETRY_INFRASTRUCTURE"}
                              THEN lineageLeft ELSE Spent(lineageLeft)
            /\ UNCHANGED <<source, failure, previous, seen, depth>>
  BY DEF Route, Refuse, TypeOK

\* Facts about every decision: what it costs and what it leaves.
LEMMA DecisionFacts ==
  ASSUME RecoveryInvariant, NEW e \in {failure, previous}, NEW d \in {failure, previous},
         Route(e, d), pc' = "routed"
  PROVE  /\ decision'.action \in Actions /\ taken' \subseteq Actions
         /\ familyLeft' \in [Families -> 0 .. FamilyBudget] /\ lineageLeft' \in 0 .. LineageBudget
         /\ UNCHANGED <<source, failure, previous, seen, depth>>
         /\ \A b \in taken : Level[decision'.action] >= Level[b]
         /\ decision'.action \notin TerminalActions =>
               /\ depth < MaxDepth
               /\ \/ lineageLeft' < lineageLeft
                  \/ \E f \in Families : familyLeft'[f] < familyLeft[f]
<1>0. /\ taken \subseteq Actions /\ lineageLeft \in 0 .. LineageBudget /\ depth \in 0 .. MaxDepth
      /\ familyLeft \in [Families -> 0 .. FamilyBudget] /\ familyLeft \in [Families -> Nat]
      /\ MaxDepth \in Nat /\ FamilyBudget \in Nat /\ LineageBudget \in Nat
  BY PolicyAssumption DEF RecoveryInvariant, TypeOK
<1>1. PICK a \in SelectAction(e) :
            /\ e \in Events
            /\ decision'.action = a /\ taken' = taken \cup {a}
            /\ familyLeft' = IF a \in TerminalActions THEN familyLeft
                             ELSE [familyLeft EXCEPT ![e.family] = Spent(@)]
            /\ lineageLeft' = IF a \in TerminalActions \cup {"RETRY_INFRASTRUCTURE"}
                              THEN lineageLeft ELSE Spent(lineageLeft)
            /\ UNCHANGED <<source, failure, previous, seen, depth>>
  BY RouteFacts DEF RecoveryInvariant
<1>2. e.family \in Families
  BY <1>1 DEF Events
<1>3. /\ a \in Actions /\ \A b \in taken : Level[a] >= Level[b]
      /\ a \notin TerminalActions => ~Exhausted
      /\ a = "RETRY_INFRASTRUCTURE" => familyLeft[e.family] > 0
  BY <1>0, <1>2, SelectActionFacts
<1>4. familyLeft[e.family] \in 0 .. FamilyBudget /\ Spent(familyLeft[e.family]) \in 0 .. FamilyBudget
  BY <1>0, <1>2 DEF Spent
<1>5. familyLeft' \in [Families -> 0 .. FamilyBudget]
  BY <1>0, <1>1, <1>2, <1>4
<1>6. lineageLeft' \in 0 .. LineageBudget
  BY <1>0, <1>1 DEF Spent
<1>7. ASSUME a \notin TerminalActions
      PROVE  /\ depth < MaxDepth
             /\ lineageLeft' < lineageLeft \/ \E f \in Families : familyLeft'[f] < familyLeft[f]
  <2>1. lineageLeft # 0 /\ depth < MaxDepth
    BY <1>0, <1>3, <1>7 DEF Exhausted
  <2>2. CASE a = "RETRY_INFRASTRUCTURE"
    <3>1. familyLeft'[e.family] = Spent(familyLeft[e.family])
      BY <1>0, <1>1, <1>2, <1>7
    <3>2. familyLeft'[e.family] < familyLeft[e.family]
      BY <1>3, <1>4, <2>2, <3>1 DEF Spent
    <3> QED BY <1>2, <2>1, <3>2
  <2>3. CASE a # "RETRY_INFRASTRUCTURE"
    <3>1. lineageLeft' = Spent(lineageLeft)
      BY <1>1, <1>7, <2>3
    <3> QED BY <1>0, <2>1, <3>1 DEF Spent
  <2> QED BY <2>2, <2>3
<1> QED BY <1>0, <1>1, <1>3, <1>5, <1>6, <1>7

\* The invariant holds at the start ...
LEMMA RecoveryInit == Init => RecoveryInvariant
  BY PolicyAssumption DEF Init, RecoveryInvariant, TypeOK, DepthLeft, NoFailure

\* ... and every step keeps it.
LEMMA RecoveryStep == RecoveryInvariant /\ [Next]_vars => RecoveryInvariant'
<1> SUFFICES ASSUME RecoveryInvariant, [Next]_vars
             PROVE  RecoveryInvariant'
  OBVIOUS
<1> DEFINE Observations == [family : Families, mechanism : Mechanisms, stalled : BOOLEAN]
<1>0. /\ source \in Nat /\ failure.id \in Nat /\ failure.id + 1 \in Nat
      /\ seen \in Seq(Observations) /\ MaxDepth \in Nat /\ depth \in 0 .. MaxDepth
  BY PolicyAssumption DEF RecoveryInvariant, TypeOK, Events, NoFailure
<1>1. CASE UNCHANGED vars
  BY <1>1 DEF RecoveryInvariant, TypeOK, DepthLeft, vars
<1>2. CASE Succeed
  BY <1>2 DEF Succeed, RecoveryInvariant, TypeOK, DepthLeft
<1>3. CASE FailTransiently
  <2>1. failure' \in Events
    BY <1>0, <1>3, ClassifyFacts DEF FailTransiently
  <2> QED BY <1>3, <2>1 DEF FailTransiently, RecoveryInvariant, TypeOK, DepthLeft
<1>4. ASSUME NEW named \in Diagnoses, NEW m \in Mechanisms, NEW stalled \in BOOLEAN,
             Fail(named, m, stalled)
      PROVE  RecoveryInvariant'
  <2> DEFINE e == Classify(failure.id + 1, FALSE, named)
  <2>1. e \in Events
    BY <1>0, PolicyAssumption, ClassifyFacts
  <2>2. e.id \in Nat /\ e.family \in Families
    BY <2>1 DEF Events
  <2>3. failure' \in Events
    <3>1. Event(e.id, "REPEATED_NON_PROGRESS", FALSE) \in Events
      BY <1>0, <2>2, EventFacts, FixedFamilies
    <3> QED BY <1>4, <2>1, <3>1 DEF Fail
  <2>4. seen' \in Seq(Observations)
    <3> DEFINE o == [family |-> e.family, mechanism |-> m, stalled |-> stalled]
    <3>1. o \in Observations
      BY <2>2
    <3>2. seen' = Remember(o)
      BY <1>4 DEF Fail
    <3> HIDE DEF Observations, o, e
    <3> QED BY <1>0, <3>1, <3>2, RememberFacts
  <2> QED BY <1>4, <2>3, <2>4 DEF Fail, RecoveryInvariant, TypeOK, DepthLeft
<1>5. ASSUME NEW e \in {failure, previous}, NEW d \in {failure, previous}, Route(e, d)
      PROVE  RecoveryInvariant'
  <2>1. CASE pc' = "routed"
    BY <1>5, <2>1, DecisionFacts DEF RecoveryInvariant, TypeOK, DepthLeft
  <2>2. CASE pc' # "routed"
    BY <1>5, <2>2 DEF Route, Refuse, RecoveryInvariant, TypeOK, DepthLeft
  <2> QED BY <2>1, <2>2
<1>6. ASSUME NEW requested \in {None, source, source + 1}, Materialize(requested)
      PROVE  RecoveryInvariant'
  <2>1. CASE Refuse
    BY <2>1 DEF Refuse, RecoveryInvariant, TypeOK, DepthLeft
  <2>2. CASE ~Refuse
    <3>1. /\ pc = "routed" /\ Admits(decision.action, requested)
          /\ pc' \in {"ended", "evaluating"}
          /\ source' = IF requested \in {None, source} THEN source ELSE requested
          /\ depth' = IF requested \in {None, source} THEN depth ELSE depth + 1
          /\ UNCHANGED <<failure, previous, seen, taken, familyLeft, lineageLeft, decision>>
      BY <1>6, <2>2 DEF Materialize
    <3>2. source' \in Nat
      BY <1>0, <3>1
    <3>3. depth' \in 0 .. MaxDepth
      <4>1. CASE requested \in {None, source}
        BY <1>0, <3>1, <4>1
      <4>2. CASE requested \notin {None, source}
        <5>1. decision.action \notin TerminalActions
          BY <3>1, <4>2 DEF Admits, NonRtlActions, TerminalActions
        <5>2. depth < MaxDepth
          BY <3>1, <5>1 DEF RecoveryInvariant, DepthLeft
        <5> QED BY <1>0, <3>1, <4>2, <5>2
      <4> QED BY <4>1, <4>2
    <3> QED BY <3>1, <3>2, <3>3 DEF RecoveryInvariant, TypeOK, DepthLeft
  <2> QED BY <2>1, <2>2
<1>7. CASE Done
  BY <1>1, <1>7 DEF Done
<1> QED BY <1>1, <1>2, <1>3, <1>4, <1>5, <1>6, <1>7 DEF Next

\* Types hold for every policy and every budget, the depth limit of a lineage
\* (max_recovery_depth) among them.
THEOREM TypeCorrect == Spec => []TypeOK
<1>1. RecoveryInvariant => TypeOK
  BY DEF RecoveryInvariant
<1> QED BY <1>1, RecoveryInit, RecoveryStep, PTL DEF Spec

\* A step that routes is a step of Route.
LEMMA RoutedByRoute ==
  ASSUME Next, pc = "failed", pc' = "routed"
  PROVE  \E e, d \in {failure, previous} : Route(e, d)
  BY DEF Next, FailTransiently, Fail, Materialize, Succeed, Done, vars

\* Escalation is monotonic for a lineage (router.py, _select_action): whatever
\* fails next, under every policy, with every budget.
THEOREM EscalationNeverFallsBack == Spec => EscalationMonotonic
<1> DEFINE Keeps == pc = "failed" /\ pc' = "routed" =>
                       \A a \in taken : Level[decision'.action] >= Level[a]
<1>1. RecoveryInvariant /\ [Next]_vars => [Keeps]_vars
  BY RoutedByRoute, DecisionFacts
<1> QED BY <1>1, RecoveryInit, RecoveryStep, PTL DEF Spec, EscalationMonotonic

\* A decision that lets a lineage go on spends budget (router.py,
\* route_recovery_envelope), under every policy: a lineage cannot go on for ever.
THEOREM RecoveryIsBudgeted == Spec => GoingOnSpends
<1> DEFINE Spends == pc = "failed" /\ pc' = "routed" /\ decision'.action \notin TerminalActions =>
                        \/ lineageLeft' < lineageLeft
                        \/ \E f \in Families : familyLeft'[f] < familyLeft[f]
<1>1. RecoveryInvariant /\ [Next]_vars => [Spends]_vars
  BY RoutedByRoute, DecisionFacts
<1> QED BY <1>1, RecoveryInit, RecoveryStep, PTL DEF Spec, GoingOnSpends

-----------------------------------------------------------------------------
(* Under the published policy *)

\* A selection from the rule of a family is one of its actions.
LEMMA SelectionAllowed ==
  ASSUME NEW f \in Families, NEW S
  PROVE  FirstAllowed(f, S) \subseteq AllowedActions(f) /\ TerminalAction(f) \subseteq AllowedActions(f)
  BY DEF FirstAllowed, AllowedActions, TerminalAction

\* An action of the rule is chosen for every failure.
LEMMA AlwaysSelected ==
  ASSUME PublishedPolicy, NEW e, e.family \in Families
  PROVE  SelectAction(e) # {} /\ SelectAction(e) \subseteq AllowedActions(e.family)
<1> DEFINE f == e.family
           Fits(S) == S # {} /\ S \subseteq AllowedActions(f)
<1>1. Fits(TerminalAction(f)) /\ Fits({Default[f]})
  BY SelectionAllowed DEF PublishedPolicy
<1>2. ASSUME NEW S, S \subseteq AllowedActions(f)
      PROVE  Fits(OrTerminal(f, S))
  BY <1>1, <1>2 DEF OrTerminal
<1>3. Fits(WithinFamilyBudget(f))
  <2>1. Fits(OrTerminal(f, FirstAllowed(f, {a \in Actions \ TerminalActions : Level[a] >= 5})))
    BY <1>2, SelectionAllowed
  <2> HIDE DEF Fits
  <2> QED BY <1>1, <2>1 DEF WithinFamilyBudget
<1>4. ASSUME NEW S, Fits(S) PROVE Fits(Escalated(f, S))
  <2>1. Fits(OrTerminal(f, FirstAllowed(f, {a \in Actions : \A b \in taken : Level[a] >= Level[b]})))
    BY <1>2, SelectionAllowed
  <2> HIDE DEF Fits
  <2> QED BY <1>4, <2>1 DEF Escalated
<1>5. Fits(OrTerminal(f, AllowedActions(f) \cap {"STOP_RUN_OR_REQUEST_HUMAN"}))
  BY <1>2
<1>6. Fits(Escalated(f, WithinFamilyBudget(f)))
  <2> HIDE DEF Fits
  <2> QED BY <1>3, <1>4
<1>7. Fits(SelectAction(e))
  <2> HIDE DEF Fits
  <2> QED BY <1>1, <1>5, <1>6 DEF SelectAction
<1> QED BY <1>7

\* The checks of the authority chain pass what the router selects.
LEMMA AlwaysRouted ==
  ASSUME PublishedPolicy, TypeOK
  PROVE  RoutingTotal
<1> SUFFICES ASSUME NEW e \in {failure, previous} \ {NoFailure}
             PROVE  \E a \in SelectAction(e) : Authorized(e, e, a)
  BY DEF RoutingTotal
<1>1. e.family \in Families
  BY DEF TypeOK, Events
<1>2. PICK a \in SelectAction(e) : a \in AllowedActions(e.family)
  BY <1>1, AlwaysSelected
<1>3. Authorized(e, e, a)
  BY <1>2 DEF Authorized, PublishedPolicy
<1> QED BY <1>3

\* Observations of one mechanism repeat each other, up to the threshold.
LEMMA SameMechanismRepeats ==
  ASSUME PublishedPolicy, NEW o, NEW p, SameMechanism(o, p)
  PROVE  Repeats(o, p.family, p.mechanism) /\ p.stalled
<1> DEFINE l == o.mechanism
           r == p.mechanism
           D == {x \in Features : l[x] # r[x]}
<1>1. /\ o.family = p.family /\ o.stalled /\ p.stalled /\ Cardinality(D) <= 1
      /\ l["cone"] = r["cone"] /\ l["operation"] = r["operation"] /\ l["ast"] = r["ast"]
      /\ l.response = r.response /\ l.counterexample = r.counterexample
  BY DEF SameMechanism
<1> HIDE DEF l, r
<1>2. Features = {"cone", "operation", "ast", "mapped", "parameters", "lineage"}
  BY DEF Features, Weight
<1>3. IsFiniteSet(D)
  <2>1. IsFiniteSet(Features)
    <3>1. ASSUME NEW a, NEW b, NEW c PROVE IsFiniteSet({a, b, c})
      <4>1. IsFiniteSet({a}) /\ IsFiniteSet({b}) /\ IsFiniteSet({c})
        BY FS_Singleton
      <4>2. IsFiniteSet({a} \cup {b}) BY <4>1, FS_Union
      <4>3. IsFiniteSet(({a} \cup {b}) \cup {c}) BY <4>1, <4>2, FS_Union
      <4>4. ({a} \cup {b}) \cup {c} = {a, b, c} OBVIOUS
      <4> QED BY <4>3, <4>4
    <3>2. IsFiniteSet({"cone", "operation", "ast"} \cup {"mapped", "parameters", "lineage"})
      BY <3>1, FS_Union
    <3>3. Features = {"cone", "operation", "ast"} \cup {"mapped", "parameters", "lineage"}
      BY <1>2
    <3> QED BY <3>2, <3>3
  <2> QED BY <2>1, FS_Subset
<1>4. ASSUME NEW x \in D, NEW y \in D PROVE x = y
  <2> SUFFICES ASSUME x # y PROVE FALSE
    OBVIOUS
  <2>1. {x, y} \subseteq D OBVIOUS
  <2>2. Cardinality({x, y}) <= Cardinality(D) /\ Cardinality({x, y}) \in Nat /\ Cardinality(D) \in Nat
    BY <1>3, <2>1, FS_Subset, FS_CardinalityType
  <2>3. Cardinality({x, y}) = 2
    <3>1. IsFiniteSet({x}) /\ Cardinality({x}) = 1 /\ y \notin {x} /\ {x} \cup {y} = {x, y}
      BY FS_Singleton
    <3>2. Cardinality({x} \cup {y}) = 1 + 1
      BY <3>1, FS_AddElement
    <3> QED BY <3>1, <3>2
  <2> HIDE DEF D
  <2> QED BY <1>1, <2>2, <2>3
<1>5. \/ l["mapped"] = r["mapped"] /\ l["parameters"] = r["parameters"]
      \/ l["mapped"] = r["mapped"] /\ l["lineage"] = r["lineage"]
      \/ l["parameters"] = r["parameters"] /\ l["lineage"] = r["lineage"]
  <2>1. \A x \in {"mapped", "parameters", "lineage"} : x \in D <=> l[x] # r[x]
    BY <1>2
  <2> HIDE DEF D
  <2> QED BY <1>4, <2>1
<1> HIDE DEF D
<1>6. /\ Shares(l, r, "cone") = 25 /\ Shares(l, r, "operation") = 20 /\ Shares(l, r, "ast") = 20
      /\ Shares(l, r, "mapped") \in {0, 15} /\ Shares(l, r, "parameters") \in {0, 10}
      /\ Shares(l, r, "lineage") \in {0, 10}
      /\ l["mapped"] = r["mapped"] => Shares(l, r, "mapped") = 15
      /\ l["parameters"] = r["parameters"] => Shares(l, r, "parameters") = 10
      /\ l["lineage"] = r["lineage"] => Shares(l, r, "lineage") = 10
  BY <1>1 DEF Shares, Weight
<1>7. Similarity(p.family, l, r) >= 85
  BY <1>1, <1>5, <1>6 DEF Similarity
<1>8. Similarity(p.family, l, r) \in Nat
  BY <1>1, <1>6 DEF Similarity
<1>9. Similarity(p.family, l, r) >= Threshold
  BY <1>7, <1>8, PolicyAssumption DEF PublishedPolicy
<1> QED BY <1>1, <1>9 DEF Repeats, l, r

\* The failure at hand is a repetition if the last two observations are ones of
\* one mechanism.
RepetitionSeen ==
    /\ failure.family # "INFRASTRUCTURE_TRANSIENT" /\ Len(seen) = 2 /\ SameMechanism(seen[1], seen[2])
    => failure.family = "REPEATED_NON_PROGRESS"

\* A decision takes an action of the rule of its failure.
DecisionAllowed ==
    pc = "routed" => decision.action \in AllowedActions(decision.failure.family)

PublishedInvariant == RecoveryInvariant /\ RepetitionSeen /\ DecisionAllowed

\* The detector finds what RepetitionSeen promises, when a second observation
\* is remembered.
LEMMA FailDetects ==
  ASSUME PublishedPolicy, TypeOK, NEW named \in Diagnoses, NEW m \in Mechanisms,
         NEW stalled \in BOOLEAN, Fail(named, m, stalled)
  PROVE  RepetitionSeen'
<1> DEFINE Observations == [family : Families, mechanism : Mechanisms, stalled : BOOLEAN]
           e == Classify(failure.id + 1, FALSE, named)
           o == [family |-> e.family, mechanism |-> m, stalled |-> stalled]
           all == Append(seen, o)
<1>1. Lookback = 1
  BY PolicyAssumption DEF Lookback, PublishedPolicy
<1>2. e.family \in Families
  <2>1. source \in Nat /\ failure.id + 1 \in Nat /\ named \subseteq Families
    BY PolicyAssumption DEF TypeOK, Events, NoFailure
  <2>2. e \in Events BY <2>1, ClassifyFacts
  <2> HIDE DEF e
  <2> QED BY <2>2 DEF Events
<1>3. /\ seen' = Remember(o)
      /\ failure' = IF DetectStagnation(e.family, m, stalled, seen)
                    THEN Event(e.id, "REPEATED_NON_PROGRESS", FALSE) ELSE e
  BY DEF Fail
<1>4. /\ o.family = e.family /\ o.mechanism = m /\ o.stalled = stalled
  OBVIOUS
<1> HIDE DEF e
<1>5. seen \in Seq(Observations) /\ o \in Observations
  BY <1>2 DEF TypeOK
<1> HIDE DEF o, Observations
<1> SUFFICES ASSUME Len(seen') = 2, SameMechanism(seen'[1], seen'[2])
             PROVE  failure'.family = "REPEATED_NON_PROGRESS"
  BY DEF RepetitionSeen
<1>6. /\ all \in Seq(Observations) /\ Len(all) = Len(seen) + 1 /\ all # <<>>
      /\ \A i \in 1 .. Len(seen) : all[i] = seen[i]
      /\ all[Len(seen) + 1] = o
  BY <1>5, AppendProperties
<1>7. seen' = IF Len(all) > 2 THEN Tail(all) ELSE all
  BY <1>1, <1>3 DEF Remember
<1> HIDE DEF all
<1>8. Len(seen) >= 1 /\ seen'[1] = seen[Len(seen)] /\ seen'[2] = o
  <2>0. Len(seen) \in Nat BY <1>5
  <2>1. CASE Len(all) > 2
    <3>1. /\ Tail(all) \in Seq(Observations) /\ Len(Tail(all)) = Len(all) - 1
          /\ \A i \in 1 .. Len(Tail(all)) : Tail(all)[i] = all[i + 1]
      BY <1>6, HeadTailProperties
    <3>2. seen' = Tail(all) /\ Len(all) = 3 /\ Len(seen) = 2
      BY <1>6, <1>7, <2>0, <2>1, <3>1
    <3>3. Tail(all)[1] = all[2] /\ Tail(all)[2] = all[3]
      <4>1. Len(Tail(all)) = 2 BY <3>1, <3>2
      <4>2. 1 \in 1 .. 2 /\ 2 \in 1 .. 2 /\ 1 + 1 = 2 /\ 2 + 1 = 3 OBVIOUS
      <4> QED BY <3>1, <4>1, <4>2
    <3> QED BY <1>6, <3>2, <3>3
  <2>2. CASE ~(Len(all) > 2)
    <3>0. seen' = all BY <1>7, <2>2
    <3>1. Len(all) = 2 BY <3>0
    <3>2. Len(seen) = 1
      <4>1. Len(all) = Len(seen) + 1 BY <1>6
      <4>2. \A n \in Nat : n + 1 = 2 => n = 1 OBVIOUS
      <4> QED BY <2>0, <3>1, <4>1, <4>2
    <3> QED BY <1>6, <3>0, <3>2
  <2> QED BY <2>1, <2>2
<1>9. Repeats(seen[Len(seen)], e.family, m) /\ stalled
  BY <1>4, <1>8, SameMechanismRepeats
<1>10. DetectStagnation(e.family, m, stalled, seen)
  <2>0. Len(seen) \in Nat BY <1>5
  <2>1. \A i \in Len(seen) - 1 + 1 .. Len(seen) : i = Len(seen) BY <2>0
  <2> QED BY <1>1, <1>8, <1>9, <2>0, <2>1 DEF DetectStagnation
<1>11. failure' = Event(e.id, "REPEATED_NON_PROGRESS", FALSE)
  BY <1>3, <1>10
<1> QED BY <1>11 DEF Event

\* What these add is inductive.
LEMMA PublishedStep ==
  ASSUME PublishedPolicy, PublishedInvariant, [Next]_vars
  PROVE  PublishedInvariant'
<1>1. RecoveryInvariant'
  BY RecoveryStep DEF PublishedInvariant
<1>2. CASE UNCHANGED vars
  BY <1>1, <1>2 DEF PublishedInvariant, RepetitionSeen, DecisionAllowed, vars
<1>3. CASE Succeed
  BY <1>1, <1>3 DEF Succeed, PublishedInvariant, RepetitionSeen, DecisionAllowed
<1>4. CASE FailTransiently
  <2>1. failure'.family = "INFRASTRUCTURE_TRANSIENT" /\ pc' = "failed"
    BY <1>4 DEF FailTransiently, Classify, Event
  <2> QED BY <1>1, <2>1 DEF PublishedInvariant, RepetitionSeen, DecisionAllowed
<1>5. ASSUME NEW named \in Diagnoses, NEW m \in Mechanisms, NEW stalled \in BOOLEAN,
             Fail(named, m, stalled)
      PROVE  PublishedInvariant'
  <2>1. RepetitionSeen'
    BY <1>5, FailDetects DEF PublishedInvariant, RecoveryInvariant
  <2>2. pc' = "failed" BY <1>5 DEF Fail
  <2> QED BY <1>1, <2>1, <2>2 DEF PublishedInvariant, DecisionAllowed
<1>6. ASSUME NEW e \in {failure, previous}, NEW d \in {failure, previous}, Route(e, d)
      PROVE  PublishedInvariant'
  <2>1. UNCHANGED <<failure, seen>>
    BY <1>6 DEF Route, Refuse
  <2>2. DecisionAllowed'
    BY <1>6 DEF Route, Refuse, Authorized, DecisionAllowed
  <2> QED BY <1>1, <2>1, <2>2 DEF PublishedInvariant, RepetitionSeen
<1>7. ASSUME NEW requested \in {None, source, source + 1}, Materialize(requested)
      PROVE  PublishedInvariant'
  <2>1. UNCHANGED <<failure, seen>> /\ pc' # "routed"
    BY <1>7 DEF Materialize, Refuse
  <2> QED BY <1>1, <2>1 DEF PublishedInvariant, RepetitionSeen, DecisionAllowed
<1>8. CASE Done
  BY <1>2, <1>8 DEF Done
<1> QED BY <1>2, <1>3, <1>4, <1>5, <1>6, <1>7, <1>8 DEF Next

\* The router answers every failure with an action of its policy, and after two
\* observations of one mechanism leaves the target or ends the lineage
\* (classifier.py, fingerprint.py and router.py), for every budget, depth limit
\* and diagnosis, under a policy that keeps what recovery_rules.yaml does.
THEOREM DecisionsHold ==
  ASSUME PublishedPolicy PROVE Spec => []DecisionsSound
<1>1. Init => PublishedInvariant
  BY RecoveryInit DEF Init, PublishedInvariant, RepetitionSeen, DecisionAllowed
<1>2. PublishedInvariant /\ [Next]_vars => PublishedInvariant'
  BY PublishedStep
<1>3. PublishedInvariant => DecisionsSound
  <2> SUFFICES ASSUME PublishedInvariant PROVE DecisionsSound
    OBVIOUS
  <2>1. TypeOK /\ RoutingTotal
    BY AlwaysRouted DEF PublishedInvariant, RecoveryInvariant
  <2>2. NoThirdVariation
    BY DEF NoThirdVariation, PublishedInvariant, RepetitionSeen, DecisionAllowed, PublishedPolicy
  <2> QED BY <2>1, <2>2 DEF DecisionsSound
<1> QED BY <1>1, <1>2, <1>3, PTL DEF Spec

-----------------------------------------------------------------------------
(* Children *)

\* Failures that RTL is never changed for.
Untouchable == {"INFRASTRUCTURE_TRANSIENT", "PROTECTED_STRUCTURE_VIOLATION",
                "CONSTRAINT_BINDING_DELTA", "CDC_INVARIANT_DELTA"}

\* A decision that may have a child answers another failure, and one that no
\* human has to look at.
ChildJustified ==
    pc = "routed" /\ decision.action \notin TerminalActions \cup NonRtlActions =>
        ~decision.failure.human /\ decision.failure.family \notin Untouchable

\* A change of constraints or of clock domain crossings is answered by the end of
\* the candidate: nothing ranks above it.
LEMMA DeltasEnd ==
  ASSUME NEW e, e.family \in {"CONSTRAINT_BINDING_DELTA", "CDC_INVARIANT_DELTA"},
         taken \subseteq Actions
  PROVE  SelectAction(e) \subseteq TerminalActions
<1> DEFINE f == e.family
<1>1. f \in Families /\ Default[f] = "REJECT_CANDIDATE" /\ Level["REJECT_CANDIDATE"] = 6
      /\ "REJECT_CANDIDATE" \in TerminalActions
  BY DEF Families, Default, Level, TerminalActions
<1>2. TerminalAction(f) \subseteq TerminalActions
  BY <1>1, TerminalActionFacts
<1>3. OrTerminal(f, AllowedActions(f) \cap {"STOP_RUN_OR_REQUEST_HUMAN"}) \subseteq TerminalActions
  BY <1>2 DEF OrTerminal, TerminalActions
<1>4. WithinFamilyBudget(f) = {"REJECT_CANDIDATE"}
  BY <1>1 DEF WithinFamilyBudget
<1>5. Escalated(f, {"REJECT_CANDIDATE"}) = {"REJECT_CANDIDATE"}
  <2>1. \A b \in taken : Level[b] \in 0 .. 6 BY LevelFacts
  <2>2. ~ \E a \in {"REJECT_CANDIDATE"}, b \in taken : Level[a] < Level[b]
    BY <1>1, <2>1
  <2> QED BY <2>2 DEF Escalated
<1> QED BY <1>1, <1>2, <1>3, <1>4, <1>5 DEF SelectAction

LEMMA RouteJustified ==
  ASSUME RecoveryInvariant, NEW e \in {failure, previous}, NEW d \in {failure, previous}, Route(e, d)
  PROVE  ChildJustified'
<1> SUFFICES ASSUME pc' = "routed", decision'.action \notin TerminalActions \cup NonRtlActions
             PROVE  ~decision'.failure.human /\ decision'.failure.family \notin Untouchable
  BY DEF ChildJustified
<1>1. PICK a \in SelectAction(e) : Authorized(e, d, a) /\ decision' = [action |-> a, failure |-> e]
  BY DEF Route, Refuse
<1>2. decision'.action = a /\ decision'.failure = e
  BY <1>1
<1>3. e.family \in Families /\ taken \subseteq Actions
  BY DEF Route, RecoveryInvariant, TypeOK, Events
<1>4. ~e.human
  <2>1. OrTerminal(e.family, AllowedActions(e.family) \cap {"STOP_RUN_OR_REQUEST_HUMAN"})
          \subseteq TerminalActions
    BY <1>3, TerminalActionFacts DEF OrTerminal, TerminalActions
  <2> QED BY <1>1, <1>2, <2>1 DEF SelectAction, NeedsHuman
<1>5. e.family \notin {"INFRASTRUCTURE_TRANSIENT", "PROTECTED_STRUCTURE_VIOLATION"}
  BY <1>1, <1>2 DEF Authorized, TerminalActions, NonRtlActions
<1>6. e.family \notin {"CONSTRAINT_BINDING_DELTA", "CDC_INVARIANT_DELTA"}
  BY <1>1, <1>2, <1>3, DeltasEnd
<1> QED BY <1>2, <1>4, <1>5, <1>6 DEF Untouchable

LEMMA ChildrenStep ==
  ASSUME RecoveryInvariant, ChildJustified, [Next]_vars
  PROVE  ChildJustified'
<1>1. CASE UNCHANGED vars
  BY <1>1 DEF ChildJustified, vars
<1>2. ASSUME NEW e \in {failure, previous}, NEW d \in {failure, previous}, Route(e, d)
      PROVE  ChildJustified'
  BY <1>2, RouteJustified
<1>3. CASE pc' # "routed"
  BY <1>3 DEF ChildJustified
<1>4. Next /\ pc' = "routed" =>
        UNCHANGED vars \/ \E e, d \in {failure, previous} : Route(e, d)
  BY DEF Next, Succeed, FailTransiently, Fail, Materialize, Refuse, Done
<1> QED BY <1>1, <1>2, <1>3, <1>4

\* The source changes by a decision on a failure of that very source, which is
\* no infrastructure or protected-structure failure and none that a human has to
\* look at (safety.py, router.py and the authority chain of
\* contracts/recovery.py), under every policy the registry accepts.
THEOREM ChildrenAuthorized == Spec => OnlyAuthorizedChildren
<1> DEFINE Child == source' # source =>
                      /\ decision.failure.snapshot = source /\ ~decision.failure.human
                      /\ decision.failure.family \notin Untouchable
<1>1. Init => ChildJustified
  BY DEF Init, ChildJustified
<1>2. RecoveryInvariant /\ ChildJustified /\ [Next]_vars => ChildJustified'
  BY ChildrenStep
<1>3. ChildJustified /\ [Next]_vars => [Child]_vars
  <2> SUFFICES ASSUME ChildJustified, Next, source' # source
               PROVE  /\ decision.failure.snapshot = source /\ ~decision.failure.human
                      /\ decision.failure.family \notin Untouchable
    OBVIOUS
  <2>1. PICK requested \in {None, source, source + 1} : Materialize(requested)
    BY DEF Next, Succeed, FailTransiently, Fail, Route, Refuse, Done, vars
  <2>2. /\ pc = "routed" /\ EvidenceFits(decision.failure) /\ Admits(decision.action, requested)
        /\ requested \notin {None, source}
    BY <2>1 DEF Materialize, Refuse
  <2>3. decision.action \notin TerminalActions \cup NonRtlActions
    BY <2>2 DEF Admits, TerminalActions, NonRtlActions
  <2> QED BY <2>2, <2>3 DEF ChildJustified, EvidenceFits
<1>4. [][Child]_vars => OnlyAuthorizedChildren
  BY DEF OnlyAuthorizedChildren, Untouchable
<1> QED BY <1>1, <1>2, <1>3, <1>4, RecoveryInit, RecoveryStep, PTL DEF Spec
=============================================================================
