---------------------------- MODULE PlannerProofs ----------------------------
(***************************************************************************)
(* Proofs about Planner: whatever the models answer, in any order, late or *)
(* not at all, a planner returns authorized proposals only, accounts for   *)
(* the tokens of every answer it used or gave up, and lets the council     *)
(* conclude within its budget and after a review of every selection.       *)
(***************************************************************************)
EXTENDS Planner, SequenceTheorems, WellFoundedInduction, TLAPS

-----------------------------------------------------------------------------
(* Sums over one or two: the rounds have no more roles, a single agent no   *)
(* more answers.                                                            *)

Pick(s) == CHOOSE x \in s : TRUE

\* g adds the weights w up, over the subsets of S.
Adds(w, g, S) ==
    g = [s \in SUBSET S |-> IF s = {} THEN 0 ELSE w[Pick(s)] + g[s \ {Pick(s)}]]

LEMMA PickIn == \A s : s # {} => Pick(s) \in s
BY DEF Pick

LEMMA PairExists ==
    ASSUME NEW w, NEW a, NEW b, w[a] \in Nat, w[b] \in Nat
    PROVE  \E g : Adds(w, g, {a, b})
<1> DEFINE S == {a, b}
           h(s) == (IF a \in s THEN w[a] ELSE 0) + (IF b \in s /\ b # a THEN w[b] ELSE 0)
           g == [s \in SUBSET S |-> h(s)]
<1>1. ASSUME NEW s \in SUBSET S
      PROVE  h(s) = IF s = {} THEN 0 ELSE w[Pick(s)] + g[s \ {Pick(s)}]
    <2>1. CASE s = {} BY <2>1
    <2>2. CASE s # {}
        <3>1. Pick(s) \in s /\ s \ {Pick(s)} \in SUBSET S BY <2>2, PickIn
        <3>2. g[s \ {Pick(s)}] = h(s \ {Pick(s)}) BY <3>1
        <3>3. CASE Pick(s) = a BY <2>2, <3>1, <3>2, <3>3
        <3>4. CASE Pick(s) = b BY <2>2, <3>1, <3>2, <3>4
        <3> QED BY <3>1, <3>3, <3>4
    <2> QED BY <2>1, <2>2
<1>2. g = [s \in SUBSET S |-> IF s = {} THEN 0 ELSE w[Pick(s)] + g[s \ {Pick(s)}]]
    BY <1>1
<1> HIDE DEF g
<1> QED BY <1>2 DEF Adds

LEMMA PairAdds ==
    ASSUME NEW w, NEW a, NEW b, w[a] \in Nat, w[b] \in Nat, NEW g, Adds(w, g, {a, b})
    PROVE  g[{a, b}] = IF a = b THEN w[a] ELSE w[a] + w[b]
<1> DEFINE S == {a, b}
<1>1. \A s \in SUBSET S : g[s] = IF s = {} THEN 0 ELSE w[Pick(s)] + g[s \ {Pick(s)}]
    BY DEF Adds
<1>2. g[{}] = 0 BY <1>1
<1>3. ASSUME NEW x \in S PROVE g[{x}] = w[x]
    <2>1. Pick({x}) = x /\ {x} \ {x} = {} BY PickIn
    <2>2. {x} \in SUBSET S /\ {x} # {} /\ w[x] \in Nat OBVIOUS
    <2>3. g[{x}] = w[x] + g[{}] BY <1>1, <2>1, <2>2
    <2> QED BY <1>2, <2>2, <2>3
<1>4. CASE a = b BY <1>3, <1>4
<1>5. CASE a # b
    <2>1. S # {} /\ S \in SUBSET S /\ Pick(S) \in S BY PickIn
    <2>2. g[S] = w[Pick(S)] + g[S \ {Pick(S)}] BY <1>1, <2>1
    <2>3. CASE Pick(S) = a
        <3>1. S \ {a} = {b} BY <1>5
        <3> QED BY <1>3, <1>5, <2>2, <2>3, <3>1
    <2>4. CASE Pick(S) = b
        <3>1. S \ {b} = {a} BY <1>5
        <3>2. g[S] = w[b] + w[a] BY <1>3, <2>2, <2>4, <3>1
        <3>3. w[b] + w[a] = w[a] + w[b] OBVIOUS
        <3> QED BY <1>5, <3>2, <3>3
    <2> QED BY <2>1, <2>3, <2>4
<1> QED BY <1>4, <1>5

\* The tokens of a round: those of its roles, one or two.
LEMMA RoundAdds ==
    ASSUME NEW a, NEW b, Roles = {a, b},
           answers[a].tokens \in Nat, answers[b].tokens \in Nat
    PROVE  RoundTokens = IF a = b THEN answers[a].tokens
                         ELSE answers[a].tokens + answers[b].tokens
<1> DEFINE w == [r \in Roles |-> answers[r].tokens]
           P(g) == g = [s \in SUBSET Roles |->
                          IF s = {} THEN 0
                          ELSE answers[CHOOSE x \in s : TRUE].tokens
                               + g[s \ {CHOOSE x \in s : TRUE}]]
<1>1. \A g : P(g) <=> Adds(w, g, {a, b})
    <2>1. \A s \in SUBSET Roles : s # {} => w[Pick(s)] = answers[CHOOSE x \in s : TRUE].tokens
        BY PickIn DEF Pick
    <2>2. ASSUME NEW g
          PROVE  [s \in SUBSET Roles |-> IF s = {} THEN 0
                     ELSE answers[CHOOSE x \in s : TRUE].tokens + g[s \ {CHOOSE x \in s : TRUE}]]
                 = [s \in SUBSET Roles |-> IF s = {} THEN 0 ELSE w[Pick(s)] + g[s \ {Pick(s)}]]
        <3> HIDE DEF w
        <3> QED BY <2>1 DEF Pick
    <2> HIDE DEF w
    <2> QED BY <2>2 DEF Adds
<1>2. RoundTokens = (CHOOSE g : P(g))[Roles]
    BY DEF RoundTokens, MapThenSumSet, MapThenFoldSet
<1>3. w[a] = answers[a].tokens /\ w[b] = answers[b].tokens OBVIOUS
<1> HIDE DEF w
<1>4. \E g : P(g)
    <2>1. \E g : Adds(w, g, {a, b}) BY <1>3, PairExists
    <2> HIDE DEF P
    <2> QED BY <1>1, <2>1
<1> DEFINE c == CHOOSE g : P(g)
<1>5. P(c) BY <1>4
<1> HIDE DEF P, c
<1>6. Adds(w, c, {a, b}) BY <1>1, <1>5
<1>7. c[{a, b}] = IF a = b THEN w[a] ELSE w[a] + w[b]
    <2>1. w[a] \in Nat /\ w[b] \in Nat BY <1>3
    <2> QED BY <2>1, <1>6, PairAdds
<1> QED BY <1>2, <1>3, <1>7 DEF c

\* The tokens of the results of a single agent, one or two.
LEMMA UsedAdds ==
    ASSUME NEW s, NEW a, NEW b, DOMAIN s = {a, b}, s[a].tokens \in Nat, s[b].tokens \in Nat
    PROVE  Used(s) = IF a = b THEN s[a].tokens ELSE s[a].tokens + s[b].tokens
<1> DEFINE D == DOMAIN s
           w == [r \in D |-> s[r].tokens]
           P(g) == g = [t \in SUBSET D |->
                          IF t = {} THEN 0
                          ELSE s[CHOOSE x \in t : TRUE].tokens
                               + g[t \ {CHOOSE x \in t : TRUE}]]
<1>1. \A g : P(g) <=> Adds(w, g, {a, b})
    <2>1. \A t \in SUBSET D : t # {} => w[Pick(t)] = s[CHOOSE x \in t : TRUE].tokens
        BY PickIn DEF Pick
    <2>2. ASSUME NEW g
          PROVE  [t \in SUBSET D |-> IF t = {} THEN 0
                     ELSE s[CHOOSE x \in t : TRUE].tokens + g[t \ {CHOOSE x \in t : TRUE}]]
                 = [t \in SUBSET D |-> IF t = {} THEN 0 ELSE w[Pick(t)] + g[t \ {Pick(t)}]]
        <3> HIDE DEF w, D
        <3> QED BY <2>1 DEF Pick
    <2>3. D = {a, b} OBVIOUS
    <2> HIDE DEF w, D
    <2> QED BY <2>2, <2>3 DEF Adds
<1>2. Used(s) = (CHOOSE g : P(g))[D]
    BY DEF Used, FoldSeq, FoldFunction, FoldFunctionOnSet, MapThenFoldSet
<1>3. w[a] = s[a].tokens /\ w[b] = s[b].tokens /\ D = {a, b} OBVIOUS
<1> HIDE DEF w, D
<1>4. \E g : P(g)
    <2>1. \E g : Adds(w, g, {a, b}) BY <1>3, PairExists
    <2> HIDE DEF P
    <2> QED BY <1>1, <2>1
<1> DEFINE c == CHOOSE g : P(g)
<1>5. P(c) BY <1>4
<1> HIDE DEF P, c
<1>6. Adds(w, c, {a, b}) BY <1>1, <1>5
<1>7. c[{a, b}] = IF a = b THEN w[a] ELSE w[a] + w[b]
    <2>1. w[a] \in Nat /\ w[b] \in Nat BY <1>3
    <2> QED BY <2>1, <1>6, PairAdds
<1> QED BY <1>2, <1>3, <1>7 DEF c

-----------------------------------------------------------------------------
(* What the heuristic proposes. *)

\* Every non-empty set of naturals has a least element.
LEMMA LeastNumber ==
    ASSUME NEW N \in SUBSET Nat, N # {}
    PROVE  \E n \in N : \A m \in N : n <= m
<1> DEFINE Below == OpToRel(<, Nat)
<1>1. PICK n \in N : \A m \in N : <<m, n>> \notin Below
    BY NatLessThanWellFounded, WFMin, Zenon
<1>2. \A m \in N : <<m, n>> \in Below <=> m < n BY DEF OpToRel
<1> HIDE DEF Below
<1>3. ASSUME NEW m \in N PROVE n <= m
    <2>1. ~ m < n BY <1>1, <1>2
    <2> QED BY <2>1
<1> QED BY <1>3

\* Induction over the naturals, about a set instead of a predicate.
LEMMA NaturalsIn ==
    ASSUME NEW S, 0 \in S, \A n \in Nat : n \in S => n + 1 \in S
    PROVE  Nat \subseteq S
<1> SUFFICES ASSUME Nat \ S # {} PROVE FALSE
    OBVIOUS
<1>1. PICK m \in Nat \ S : \A n \in Nat \ S : m <= n
    BY LeastNumber
<1>2. m # 0 /\ m - 1 \in Nat \ S
    BY <1>1
<1> QED BY <1>1, <1>2

\* One step of Safe, from what it is for the proposals before.
SafeStep(f, n) ==
    IF n = 0 THEN <<>>
    ELSE IF Planned[n] \in Authorized THEN Append(f[n - 1], Planned[n]) ELSE f[n - 1]

\* f is Safe, for the first n proposals of the plan.
SafeUpTo(f, n) == f = [m \in 0 .. n |-> SafeStep(f, m)]

LEMMA SafeExists ==
    ASSUME NEW k \in Nat
    PROVE  \E f : SafeUpTo(f, k)
<1> DEFINE E == {n \in Nat : \E f : SafeUpTo(f, n)}
<1>1. 0 \in E
    <2> DEFINE f == [m \in 0 .. 0 |-> SafeStep([x \in {} |-> x], m)]
    <2>1. \A m \in 0 .. 0 : SafeStep(f, m) = SafeStep([x \in {} |-> x], m)
        BY DEF SafeStep
    <2>2. f = [m \in 0 .. 0 |-> SafeStep(f, m)] BY <2>1
    <2> HIDE DEF f
    <2>3. SafeUpTo(f, 0) BY <2>2 DEF SafeUpTo
    <2> QED BY <2>3
<1>2. ASSUME NEW n \in Nat, n \in E PROVE n + 1 \in E
    <2>1. PICK f : SafeUpTo(f, n) BY <1>2
    <2> DEFINE g == [m \in 0 .. n + 1 |-> SafeStep(f, m)]
    <2>2. ASSUME NEW m \in 0 .. n PROVE g[m] = f[m]
        BY <2>1 DEF SafeUpTo
    <2>3. \A m \in 0 .. n + 1 : SafeStep(g, m) = SafeStep(f, m)
        <3> TAKE m \in 0 .. n + 1
        <3>1. m # 0 => m - 1 \in 0 .. n OBVIOUS
        <3> HIDE DEF g
        <3> QED BY <3>1, <2>2 DEF SafeStep
    <2>4. g = [m \in 0 .. n + 1 |-> SafeStep(g, m)]
        <3>1. [m \in 0 .. n + 1 |-> SafeStep(g, m)] = [m \in 0 .. n + 1 |-> SafeStep(f, m)]
            <4> HIDE DEF g
            <4> QED BY <2>3
        <3> QED BY <3>1
    <2> HIDE DEF g
    <2>5. SafeUpTo(g, n + 1) BY <2>4 DEF SafeUpTo
    <2> QED BY <2>5
<1> HIDE DEF E
<1>3. Nat \subseteq E BY <1>1, <1>2, NaturalsIn
<1> QED BY <1>3 DEF E

\* The plan's safe proposals, wherever it is cut, are authorized ones.
LEMMA SafeType ==
    ASSUME NEW k \in 0 .. Len(Planned)
    PROVE  Safe[k] \in Seq(Authorized)
<1> DEFINE L == Len(Planned)
           P(f) == f = [n \in 0 .. L |->
                          IF n = 0 THEN <<>>
                          ELSE IF Planned[n] \in Authorized
                               THEN Append(f[n - 1], Planned[n]) ELSE f[n - 1]]
<1>0. L \in Nat BY PlannerAssumption
<1>1. \E f : P(f)
    <2>1. PICK f : SafeUpTo(f, L) BY <1>0, SafeExists
    <2>2. P(f) BY <2>1 DEF SafeUpTo, SafeStep
    <2> QED BY <2>2
<1>2. Safe = CHOOSE f : P(f) BY DEF Safe
<1>3. P(CHOOSE f : P(f)) BY <1>1
<1>4. P(Safe) BY <1>2, <1>3
<1> DEFINE E == {n \in Nat : n <= L => Safe[n] \in Seq(Authorized)}
<1>5. 0 \in E
    <2>1. 0 \in 0 .. L BY <1>0
    <2>2. Safe[0] = <<>> BY <1>4, <2>1
    <2>3. Safe[0] \in Seq(Authorized)
        <3>1. <<>> \in Seq(Authorized) OBVIOUS
        <3> QED BY <2>2, <3>1
    <2> QED BY <2>3
<1>6. ASSUME NEW n \in Nat, n \in E PROVE n + 1 \in E
    <2> SUFFICES ASSUME n + 1 <= L PROVE Safe[n + 1] \in Seq(Authorized)
        OBVIOUS
    <2>1. n + 1 \in 0 .. L /\ n + 1 # 0 /\ (n + 1) - 1 = n BY <1>0
    <2>2. Safe[n] \in Seq(Authorized) BY <1>0, <1>6
    <2>3. Safe[n + 1] = IF Planned[n + 1] \in Authorized
                        THEN Append(Safe[n], Planned[n + 1]) ELSE Safe[n]
        BY <1>4, <2>1
    <2> QED BY <2>2, <2>3
<1> HIDE DEF E
<1>7. Nat \subseteq E BY <1>5, <1>6, NaturalsIn
<1>8. k \in Nat /\ k <= L BY <1>0
<1> QED BY <1>7, <1>8 DEF E

\* The first n of a list: no more than n, and none that is not in the list.
LEMMA LeadingIs ==
    ASSUME NEW S, NEW list \in Seq(S), NEW n \in Nat
    PROVE  /\ Leading(list, n) \in Seq(S)
           /\ Len(Leading(list, n)) <= n
<1> DEFINE m == Min({n, Len(list)})
<1>1. m \in {n, Len(list)} /\ m <= n /\ m <= Len(list)
    <2> DEFINE T == {n, Len(list)}
    <2>1. \E x \in T : \A y \in T : x <= y
        <3>1. Len(list) \in Nat OBVIOUS
        <3>2. CASE n <= Len(list) BY <3>1, <3>2
        <3>3. CASE ~ n <= Len(list) BY <3>1, <3>3
        <3> QED BY <3>2, <3>3
    <2> HIDE DEF T
    <2>2. m = CHOOSE x \in T : \A y \in T : x <= y BY DEF Min, T
    <2>3. m \in T /\ \A y \in T : m <= y BY <2>1, <2>2
    <2> HIDE DEF m
    <2> QED BY <2>3 DEF T
<1> HIDE DEF m
<1>2. m \in Nat /\ m \in 0 .. Len(list) BY <1>1
<1>3. Leading(list, n) = SubSeq(list, 1, m) BY DEF Leading, m
<1>4. SubSeq(list, 1, m) \in Seq(S) /\ Len(SubSeq(list, 1, m)) = m BY <1>2
<1> QED BY <1>1, <1>3, <1>4

\* The plan, cut to what a request asks for.
LEMMA SafePlanIs ==
    /\ SafePlan \in Seq(Authorized)
    /\ Len(SafePlan) <= Limit
<1>1. Len(Planned) \in 0 .. Len(Planned) BY PlannerAssumption
<1>2. Safe[Len(Planned)] \in Seq(Authorized) BY <1>1, SafeType
<1>3. Limit \in Nat BY PlannerAssumption
<1> QED BY <1>2, <1>3, LeadingIs DEF SafePlan

-----------------------------------------------------------------------------
(* The inductive invariant *)

\* Nothing was asked of a model before a request's contexts are built, and
\* nothing was read.
Fresh ==
    pc \in {"idle", "plan", "context"} =>
        spent = 0 /\ tokens = 0 /\ results = <<>> /\ audit = {}

\* The heuristic plans; a single agent, which has no round, generates and repairs.
Placed ==
    /\ pc = "plan" => mode = "HEURISTIC"
    /\ pc \in {"generate", "repair"} => mode = "SINGLE_AGENT"
    /\ pc = "round" => mode = "AGENT_COUNCIL"
    /\ pc \in {"idle", "plan", "context"} \/ mode # "AGENT_COUNCIL" => Roles = {}

\* A single agent's tokens are those of its results: none, then one.
Accounted ==
    /\ pc = "generate" => results = <<>> /\ spent = 0
    /\ pc = "repair" => /\ results = <<results[1]>>
                        /\ results[1].tokens \in Nat /\ spent = results[1].tokens

Taken(r) == IF answers[r] = None THEN 0 ELSE answers[r].tokens

\* What the council took: the rounds that are over, and the answers so far of
\* the one under way.
InRound ==
    \/ Roles = Proposers /\ spent = tokens + (Taken("timing_forensics") + Taken("domain"))
    \/ Roles = Critics /\ spent = tokens + (Taken("formal_critic") + Taken("ppa_critic"))
    \/ Roles = Chair /\ spent = tokens + Taken("proposal_chair")

OutcomeType(r) ==
    answers[r] # None => answers[r].output \in Said(r) \cup {None} /\ answers[r].tokens \in Nat

\* The cards are authorized, and those of one edit are one.
CardsSound ==
    /\ cards \subseteq Authorized
    /\ \A p, q \in cards : Edit[p] = Edit[q] => Id[p] = Id[q]

Deliberates ==
    pc = "round" => /\ tokens \in Nat /\ InRound /\ \A r \in Roles : OutcomeType(r)
                    /\ Roles # Proposers => CardsSound

\* A council that has concluded left no call running.
Settled == Council => \A r \in Roles : answers[r] # None

Inv ==
    /\ Fresh /\ Placed /\ Accounted /\ Deliberates /\ Settled
    /\ OnlyAuthorized /\ TokensReported /\ CouncilWithinBudget
    /\ EveryFinalReviewed /\ ProposersBlinded

-----------------------------------------------------------------------------
(* The steps *)

\* What holds of a result.
Results ==
    Settled /\ OnlyAuthorized /\ TokensReported /\ CouncilWithinBudget /\ EveryFinalReviewed

LEMMA NotDone == ASSUME pc' # "done" PROVE Results'
BY DEF Results, Settled, OnlyAuthorized, TokensReported, CouncilWithinBudget,
       EveryFinalReviewed, Council, Returned

\* A result of a single planner, or a fallback of the council, is sound when its
\* proposals are and when it carries what the models took.
LEMMA NoCouncil ==
    ASSUME NEW list \in Seq(Authorized), Len(list) <= Limit, NEW status, NEW fallback, NEW n,
           result' = Result(status, list, fallback, n),
           mode' = "AGENT_COUNCIL" => fallback = TRUE,
           mode' # "AGENT_COUNCIL" => n = spent'
    PROVE  Results'
<1>1. /\ result'.proposals = list /\ result'.tokens = n /\ result'.fallback = fallback
    BY DEF Result
<1>2. ~ Council'
    BY <1>1 DEF Council, Returned
<1>3. ToSet(list) \subseteq Authorized BY DEF ToSet
<1>4. OnlyAuthorized' BY <1>1, <1>2, <1>3 DEF OnlyAuthorized
<1>5. TokensReported' BY <1>1 DEF TokensReported
<1> QED BY <1>2, <1>4, <1>5 DEF Results, Settled, CouncilWithinBudget, EveryFinalReviewed

LEMMA CouncilFell ==
    ASSUME mode' = "AGENT_COUNCIL", CouncilFallsBack
    PROVE  Results'
<1>1. result' = Result("PARTIAL", SafePlan, TRUE, 0) BY DEF CouncilFallsBack, Finish
<1> QED BY <1>1, SafePlanIs, NoCouncil

\* A settled result stays sound when nothing it is about changes.
LEMMA ResultsKept ==
    ASSUME Results, UNCHANGED <<mode, pc, result, spent, answers, reviews>>
    PROVE  Results'
BY DEF Results, Settled, OnlyAuthorized, TokensReported, CouncilWithinBudget,
       EveryFinalReviewed, Council, Returned, Roles, Objected, Raised

LEMMA ProposeStep ==
    ASSUME Inv, NEW m \in {"HEURISTIC", "SINGLE_AGENT", "AGENT_COUNCIL"}, Propose(m)
    PROVE  Inv'
<1>1. pc = "idle" /\ pc' \in {"plan", "context"} /\ (pc' = "plan" => mode' = "HEURISTIC")
    BY DEF Propose
<1>2. Results' BY <1>1, NotDone
<1>3. Fresh' /\ ProposersBlinded'
    BY <1>1 DEF Inv, Fresh, Propose, deliberation, ProposersBlinded
<1>4. Placed' BY <1>1 DEF Inv, Placed, Propose, deliberation, Roles
<1>5. Accounted' /\ Deliberates' BY <1>1 DEF Accounted, Deliberates
<1> QED BY <1>2, <1>3, <1>4, <1>5 DEF Inv, Results

LEMMA PlanStep ==
    ASSUME Inv, Plan
    PROVE  Inv'
<1>1. /\ pc = "plan" /\ pc' = "done" /\ mode = "HEURISTIC" /\ mode' = mode
      /\ result' = Result(PassUnlessEmpty(SafePlan), SafePlan, FALSE, 0)
      /\ spent = 0 /\ spent' = 0
    BY DEF Plan, Finish, Inv, Placed, Fresh
<1>2. Results' BY <1>1, SafePlanIs, NoCouncil
<1>3. ProposersBlinded' BY <1>1 DEF Plan, context, ProposersBlinded
<1>4. Placed' BY <1>1 DEF Inv, Placed, Plan, deliberation, Roles
<1>5. Fresh' /\ Accounted' /\ Deliberates' BY <1>1 DEF Fresh, Accounted, Deliberates
<1> QED BY <1>2, <1>3, <1>4, <1>5 DEF Inv, Results

LEMMA SingleContextStep ==
    ASSUME Inv, SingleContext
    PROVE  Inv'
<1>1. /\ pc = "context" /\ mode = "SINGLE_AGENT" /\ mode' = mode
      /\ pc' \in {"generate", "raised"} /\ spent = 0 /\ results = <<>>
      /\ UNCHANGED <<results, answers, spent>>
    BY DEF SingleContext, Raise, Inv, Fresh, deliberation
<1>2. Results' BY <1>1, NotDone
<1>3. ProposersBlinded' BY <1>1 DEF ProposersBlinded
<1>4. Placed' BY <1>1 DEF Inv, Placed, Roles
<1>5. Fresh' /\ Accounted' /\ Deliberates' BY <1>1 DEF Fresh, Accounted, Deliberates
<1> QED BY <1>2, <1>3, <1>4, <1>5 DEF Inv, Results

\* What is granted to a proposer is its private evidence.
LEMMA AuditedIs ==
    ASSUME NEW r, NEW x \in Audited(r)
    PROVE  x.role = r /\ x.item \in private[r]
BY DEF Audited

LEMMA CouncilContextsStep ==
    ASSUME Inv, CouncilContexts
    PROVE  Inv'
<1>1. /\ pc = "context" /\ mode = "AGENT_COUNCIL" /\ mode' = mode
      /\ spent = 0 /\ tokens = 0 /\ audit = {} /\ Roles = {}
      /\ UNCHANGED <<results, tokens, spent, private>>
    BY DEF CouncilContexts, Inv, Fresh, Placed
<1>2. CASE Overlap /\ CouncilFallsBack /\ UNCHANGED <<audit, answers>>
    <2>1. pc' = "done" BY <1>2 DEF CouncilFallsBack, Finish
    <2>2. Results' BY <1>1, <1>2, CouncilFell
    <2>3. ProposersBlinded' BY <1>1, <1>2 DEF ProposersBlinded
    <2>4. Placed' BY <1>1, <1>2, <2>1 DEF Placed, Roles
    <2>5. Fresh' /\ Accounted' /\ Deliberates' BY <2>1 DEF Fresh, Accounted, Deliberates
    <2> QED BY <2>2, <2>3, <2>4, <2>5 DEF Inv, Results
<1>3. CASE ~ Overlap
    <2>1. /\ pc' \in {"round", "raised"} /\ (pc' = "round" => answers' = Round(Proposers))
          /\ audit' \subseteq Audited("timing_forensics") \cup Audited("domain")
        BY <1>3 DEF CouncilContexts, Raise
    <2>2. Results' BY <2>1, NotDone
    <2>3. ProposersBlinded'
        <3> SUFFICES ASSUME NEW x \in audit', NEW y \in audit', x.item = y.item
                     PROVE  x.role = y.role
            BY DEF ProposersBlinded
        <3>1. \E q, r \in Proposers : x \in Audited(q) /\ y \in Audited(r)
            BY <2>1 DEF Proposers
        <3>2. PICK q \in Proposers, r \in Proposers : x \in Audited(q) /\ y \in Audited(r)
            BY <3>1
        <3>3. x.role = q /\ y.role = r /\ x.item \in private[q] \cap private[r]
            BY <3>2, AuditedIs
        <3> QED BY <1>3, <3>3 DEF Overlap
    <2>4. Placed' BY <1>1, <2>1 DEF Placed
    <2>5. Fresh' /\ Accounted' BY <2>1 DEF Fresh, Accounted
    <2>6. Deliberates'
        <3> SUFFICES ASSUME pc' = "round" PROVE (tokens \in Nat /\ InRound /\ Roles = Proposers
                                                /\ \A r \in Roles : OutcomeType(r))'
            BY DEF Deliberates
        <3>1. Roles' = Proposers /\ \A r \in Proposers : answers'[r] = None
            BY <2>1 DEF Round, Roles
        <3>2. InRound' BY <1>1, <3>1 DEF InRound, Taken, Proposers
        <3> QED BY <1>1, <3>1, <3>2 DEF OutcomeType
    <2> QED BY <2>2, <2>3, <2>4, <2>5, <2>6 DEF Inv, Results
<1> QED BY <1>2, <1>3 DEF CouncilContexts

\* What one answer of the provider is: proposals that may be advised, or nothing.
LEMMA AnsweredIs ==
    ASSUME NEW response \in Recorded, NEW n \in Tokens, NEW late \in BOOLEAN
    PROVE  /\ Answered(response, n, late).tokens \in Nat
           /\ Answered(response, n, late).status = "PASS" =>
                Answered(response, n, late).output \in Seq(Proposals)
<1>1. n \in Nat BY PlannerAssumption
<1>2. response[1] = "PASS" => response[2] \in Seq(Proposals)
    BY PlannerAssumption DEF Recorded
<1> QED BY <1>1, <1>2 DEF Answered, Attempt

LEMMA AcceptSound ==
    ASSUME NEW list \in Seq(Proposals), Accept(list), mode' = "SINGLE_AGENT", Used(results') = spent'
    PROVE  Results' /\ pc' \in {"done", "raised"}
<1> DEFINE taken == Leading(list, Limit)
<1>1. taken \in Seq(Proposals) /\ Len(taken) <= Limit
    BY LeadingIs, PlannerAssumption
<1> HIDE DEF taken
<1>2. CASE FallBack
    <2>1. /\ result' = Result(PassUnlessEmpty(SafePlan), SafePlan, TRUE, Used(results'))
          /\ pc' = "done"
        BY <1>2 DEF FallBack, Finish
    <2> QED BY <2>1, SafePlanIs, NoCouncil
<1>3. CASE /\ SemanticErrors(taken) = {}
           /\ Finish(Result(PassUnlessEmpty(taken), taken, FALSE, Used(results')))
    <2>1. taken \in Seq(Authorized)
        <3>1. \A i \in DOMAIN taken : taken[i] \in Authorized
            BY <1>3 DEF SemanticErrors
        <3> QED BY <1>1, <3>1
    <2>2. /\ result' = Result(PassUnlessEmpty(taken), taken, FALSE, Used(results'))
          /\ pc' = "done"
        BY <1>3 DEF Finish
    <2> QED BY <1>1, <2>1, <2>2, NoCouncil
<1>4. CASE Raise
    BY <1>4, NotDone DEF Raise
<1>5. FallBack \/ (/\ SemanticErrors(taken) = {}
                  /\ Finish(Result(PassUnlessEmpty(taken), taken, FALSE, Used(results')))) \/ Raise
    BY DEF Accept, taken
<1> QED BY <1>2, <1>3, <1>4, <1>5

\* One result more: what is used so far is what was taken.
LEMMA UsedGrows ==
    ASSUME Inv, pc \in {"generate", "repair"}, NEW a, a.tokens \in Nat,
           results' = Append(results, a), spent' = spent + a.tokens
    PROVE  /\ Used(results') = spent'
           /\ pc = "generate" => /\ results' = <<results'[1]>> /\ results'[1].tokens \in Nat
                                 /\ spent' = results'[1].tokens
<1>1. CASE pc = "generate"
    <2>1. results = <<>> /\ spent = 0 BY <1>1 DEF Inv, Accounted
    <2>2. results' = <<a>> BY <2>1
    <2>3. DOMAIN results' = {1, 1} /\ results'[1] = a BY <2>2
    <2>4. ASSUME NEW s, s = results' PROVE Used(s) = a.tokens
        <3>1. DOMAIN s = {1, 1} /\ s[1].tokens \in Nat /\ s[1] = a BY <2>3, <2>4
        <3> QED BY <3>1, UsedAdds
    <2> QED BY <1>1, <2>1, <2>2, <2>3, <2>4
<1>2. CASE pc = "repair"
    <2>1. PICK b : results = <<b>> /\ b.tokens \in Nat /\ spent = b.tokens
        BY <1>2 DEF Inv, Accounted
    <2>2. results' = Append(<<b>>, a) BY <2>1
    <2>3. DOMAIN results' = {1, 2} /\ results'[1] = b /\ results'[2] = a
        <3>1. <<b>> \in Seq({a, b}) /\ a \in {a, b} /\ Len(<<b>>) = 1 OBVIOUS
        <3> DEFINE t == Append(<<b>>, a)
        <3>2. t \in Seq({a, b}) /\ Len(t) = 2 /\ t[1] = b /\ t[2] = a
            BY <3>1, AppendProperties
        <3> HIDE DEF t
        <3>3. DOMAIN t = {1, 2} BY <3>2
        <3> QED BY <2>2, <3>2, <3>3 DEF t
    <2>4. ASSUME NEW s, s = results' PROVE Used(s) = b.tokens + a.tokens
        <3>1. DOMAIN s = {1, 2} /\ s[1].tokens \in Nat /\ s[2].tokens \in Nat
              /\ s[1] = b /\ s[2] = a
            BY <2>1, <2>3, <2>4
        <3> QED BY <3>1, UsedAdds
    <2> QED BY <1>2, <2>1, <2>4
<1> QED BY <1>1, <1>2

LEMMA GenerateStep ==
    ASSUME Inv, Generate
    PROVE  Inv'
<1>1. PICK response \in Recorded, n \in Tokens, late \in BOOLEAN :
        LET a == Answered(response, n, late)
            repairable == a.status = "MALFORMED" /\ pc = "generate" IN
        /\ results' = Append(results, a)
        /\ spent' = spent + a.tokens
        /\ \/ a.status = "PASS" /\ Accept(a.output)
           \/ repairable /\ pc' = "repair" /\ UNCHANGED result
           \/ a.status # "PASS" /\ ~repairable /\ FallBack
    BY DEF Generate
<1> DEFINE a == Answered(response, n, late)
<1>2. /\ pc \in {"generate", "repair"} /\ mode = "SINGLE_AGENT" /\ mode' = mode
      /\ UNCHANGED <<answers, audit>> /\ Roles = {}
    BY DEF Generate, Inv, Placed, deliberation, context
<1>3. a.tokens \in Nat /\ (a.status = "PASS" => a.output \in Seq(Proposals))
    BY AnsweredIs
<1>4. /\ results' = Append(results, a) /\ spent' = spent + a.tokens
      /\ \/ a.status = "PASS" /\ Accept(a.output)
         \/ pc = "generate" /\ pc' = "repair"
         \/ FallBack
    BY <1>1
<1> HIDE DEF a
<1>5. /\ Used(results') = spent'
      /\ pc = "generate" => /\ results' = <<results'[1]>> /\ results'[1].tokens \in Nat
                            /\ spent' = results'[1].tokens
    BY <1>2, <1>3, <1>4, UsedGrows
<1>6. Results' /\ pc' \in {"repair", "done", "raised"} /\ (pc' = "repair" => pc = "generate")
    <2>1. CASE a.status = "PASS" /\ Accept(a.output)
        BY <1>2, <1>3, <1>5, <2>1, AcceptSound
    <2>2. CASE pc = "generate" /\ pc' = "repair"
        BY <2>2, NotDone
    <2>3. CASE FallBack
        <3>1. /\ result' = Result(PassUnlessEmpty(SafePlan), SafePlan, TRUE, Used(results'))
              /\ pc' = "done"
            BY <2>3 DEF FallBack, Finish
        <3> QED BY <1>2, <1>5, <3>1, SafePlanIs, NoCouncil
    <2> QED BY <1>4, <2>1, <2>2, <2>3
<1>7. ProposersBlinded' BY <1>2 DEF ProposersBlinded
<1>8. Placed' BY <1>2, <1>6 DEF Placed, Roles
<1>9. Accounted' BY <1>5, <1>6 DEF Accounted
<1>10. Fresh' /\ Deliberates' BY <1>6 DEF Fresh, Deliberates
<1> QED BY <1>6, <1>7, <1>8, <1>9, <1>10 DEF Inv, Results

\* An answer of a role is one of the outcomes: the call is no longer open.
LEMMA SaidIs ==
    ASSUME NEW r \in Proposers \cup Critics \cup Chair, r \in Proposers \/ CardsSound, NEW n \in Tokens,
           NEW output \in Said(r) \cup {None}
    PROVE  Outcome(output, n) # None
<1>1. n \in Nat BY PlannerAssumption
<1>2. ASSUME CardsSound, NEW x \in Reports(cards)
      PROVE  x \in SUBSET [class : Classes, card : Proposals, objection : Objections \cup {None}]
    <2>1. cards \subseteq Proposals BY <1>2, PlannerAssumption DEF CardsSound
    <2>2. ASSUME NEW ks \in SUBSET Classes, NEW about \in cards, NEW o \in Objections \cup {None}
          PROVE  {[class |-> k, card |-> c, objection |-> IF c = about THEN o ELSE None] :
                      k \in ks, c \in cards}
                 \in SUBSET [class : Classes, card : Proposals, objection : Objections \cup {None}]
        BY <2>1
    <2> QED BY <2>2 DEF Reports
<1>3. ASSUME CardsSound
      PROVE  Verdicts \subseteq [disposed : SUBSET Objections, revisions : {0, 2}, final : Seq(Nat)]
    <2>1. \A p \in cards : Id[p] \in Nat BY <1>3, PlannerAssumption DEF CardsSound
    <2>2. BoundedSeq({Id[p] : p \in cards}, 2) \subseteq Seq(Nat)
        <3> DEFINE S == {Id[p] : p \in cards}
        <3>1. S \subseteq Nat BY <2>1
        <3> HIDE DEF S
        <3>2. BoundedSeq(S, 2) = UNION {[1 .. m -> S] : m \in 0 .. 2} BY DEF BoundedSeq, SeqOf
        <3>3. ASSUME NEW m \in 0 .. 2, NEW f \in [1 .. m -> S]
              PROVE  f \in Seq(Nat)
            <4>1. m \in Nat OBVIOUS
            <4>2. \A i \in 1 .. m : f[i] \in Nat BY <3>1
            <4>3. f \in [1 .. m -> Nat] BY <4>2
            <4> QED BY <4>1, <4>3, SeqDef
        <3> QED BY <3>2, <3>3 DEF S
    <2>3. {<<>>, <<0>>} \subseteq Seq(Nat) OBVIOUS
    <2> QED BY <2>2, <2>3 DEF Verdicts
<1> DEFINE R == SUBSET [class : Classes, card : Proposals, objection : Objections \cup {None}]
           V == [disposed : SUBSET Objections, revisions : {0, 2}, final : Seq(Nat)]
<1>4. output \in Advice \cup {None} \cup R \cup V
    <2>1. CASE r \in Proposers BY <2>1 DEF Said
    <2>2. CASE CardsSound
        <3>1. Said(r) \in {Advice, Reports(cards), Verdicts} BY DEF Said
        <3>2. Reports(cards) \subseteq R BY <1>2, <2>2
        <3>3. Verdicts \subseteq V BY <1>3, <2>2
        <3> HIDE DEF R, V
        <3> QED BY <3>1, <3>2, <3>3
    <2> QED BY <2>1, <2>2
<1>5. Outcomes = [output : Advice \cup {None} \cup R \cup V, tokens : Nat]
    BY Zenon DEF Outcomes
<1> HIDE DEF R, V
<1>6. Outcome(output, n) \in Outcomes
    BY <1>1, <1>4, <1>5 DEF Outcome
<1> QED BY <1>6, NoneAssumption

LEMMA AnswerStep ==
    ASSUME Inv, NEW r \in Proposers \cup Critics \cup Chair, Answer(r)
    PROVE  Inv'
<1>1. /\ pc = "round" /\ pc' = pc /\ r \in Roles /\ answers[r] = None
      /\ UNCHANGED <<mode, audit, tokens, cards>>
    BY DEF Answer, Open, context
<1>2. PICK n \in Tokens, output \in Said(r) \cup {None} :
        answers' = [answers EXCEPT ![r] = Outcome(output, n)] /\ spent' = spent + n
    BY DEF Answer
<1>3. tokens \in Nat /\ n \in Nat /\ InRound /\ \A q \in Roles : OutcomeType(q)
    BY <1>1, PlannerAssumption DEF Inv, Deliberates
<1>4. r \in Proposers \/ CardsSound
    BY <1>1 DEF Inv, Deliberates
<1>5. /\ Roles' = Roles /\ answers'[r] # None
      /\ answers'[r].output = output /\ answers'[r].tokens = n
      /\ \A q \in Roles \ {r} : answers'[q] = answers[q]
    <2>1. Outcome(output, n) # None BY <1>4, SaidIs
    <2>2. answers'[r] = Outcome(output, n) BY <1>1, <1>2 DEF Roles
    <2> QED BY <1>1, <1>2, <2>1, <2>2 DEF Roles, Outcome
<1>6. \A q : Said(q)' = Said(q) BY <1>1 DEF Said, Reports, Verdicts
<1>7. \A q \in Roles' : OutcomeType(q)'
    BY <1>2, <1>3, <1>5, <1>6 DEF OutcomeType
<1>8. Taken(r) = 0 /\ Taken(r)' = n /\ \A q \in Roles \ {r} : Taken(q)' = Taken(q)
    BY <1>1, <1>5 DEF Taken
<1>9. \A q \in Roles : Taken(q) \in Nat
    BY <1>3 DEF Taken, OutcomeType
<1>10. InRound'
    <2>1. CASE Roles = Proposers /\ spent = tokens + (Taken("timing_forensics") + Taken("domain"))
        BY <1>1, <1>2, <1>3, <1>5, <1>8, <1>9, <2>1 DEF InRound, Proposers
    <2>2. CASE Roles = Critics /\ spent = tokens + (Taken("formal_critic") + Taken("ppa_critic"))
        BY <1>1, <1>2, <1>3, <1>5, <1>8, <1>9, <2>2 DEF InRound, Critics
    <2>3. CASE Roles = Chair /\ spent = tokens + Taken("proposal_chair")
        BY <1>1, <1>2, <1>3, <1>5, <1>8, <1>9, <2>3 DEF InRound, Chair
    <2> QED BY <1>3, <2>1, <2>2, <2>3 DEF InRound
<1>11. Deliberates'
    BY <1>1, <1>3, <1>5, <1>7, <1>10 DEF Inv, Deliberates, CardsSound
<1>12. Results' BY <1>1, NotDone
<1>13. Fresh' /\ Accounted' /\ ProposersBlinded'
    BY <1>1 DEF Inv, Fresh, Accounted, ProposersBlinded
<1>14. Placed' BY <1>1 DEF Inv, Placed
<1> QED BY <1>11, <1>12, <1>13, <1>14 DEF Inv, Results

\* A round that ends in a fallback or an error, before its roles have answered
\* or after.
LEMMA RoundEnds ==
    ASSUME Inv, pc = "round", CouncilFallsBack \/ Raise, UNCHANGED <<mode, audit>>
    PROVE  Inv'
<1>1. pc' \in {"done", "raised"} /\ mode = "AGENT_COUNCIL"
    BY DEF CouncilFallsBack, Finish, Raise, Inv, Placed
<1>2. Results'
    <2>1. CASE CouncilFallsBack BY <1>1, <2>1, CouncilFell
    <2>2. CASE Raise BY <2>2, NotDone DEF Raise
    <2> QED BY <2>1, <2>2
<1>3. ProposersBlinded' BY DEF Inv, ProposersBlinded
<1>4. Placed' BY <1>1 DEF Placed
<1>5. Fresh' /\ Accounted' /\ Deliberates' BY <1>1 DEF Fresh, Accounted, Deliberates
<1> QED BY <1>2, <1>3, <1>4, <1>5 DEF Inv, Results

LEMMA DeadlineStep == ASSUME Inv, Deadline PROVE Inv'
BY RoundEnds DEF Deadline, context

LEMMA BreakStep == ASSUME Inv, NEW r, Break(r) PROVE Inv'
BY RoundEnds DEF Break, context

\* A call that answers late belongs to a council that fell back or failed.
LEMMA AnswerLateStep ==
    ASSUME Inv, NEW r \in Proposers \cup Critics \cup Chair, AnswerLate(r)
    PROVE  Inv'
<1>1. /\ pc \in {"done", "raised"} /\ r \in Roles /\ answers[r] = None /\ Roles' = Roles
      /\ UNCHANGED <<mode, pc, results, audit, tokens, result>>
    BY DEF AnswerLate, Open, context, Roles
<1>2. mode = "AGENT_COUNCIL" BY <1>1 DEF Inv, Placed
<1>3. ~ Council BY <1>1 DEF Inv, Settled
<1>4. ~ Council' BY <1>1, <1>3 DEF Council, Returned
<1>5. OnlyAuthorized' BY <1>1, <1>3, <1>4 DEF Inv, OnlyAuthorized
<1>6. TokensReported' BY <1>1, <1>2, <1>4 DEF TokensReported, Council, Returned
<1>7. Settled' /\ CouncilWithinBudget' /\ EveryFinalReviewed'
    BY <1>4 DEF Settled, CouncilWithinBudget, EveryFinalReviewed
<1>8. ProposersBlinded' BY <1>1 DEF Inv, ProposersBlinded
<1>9. Placed' BY <1>1 DEF Inv, Placed
<1>10. Fresh' /\ Accounted' /\ Deliberates' BY <1>1 DEF Fresh, Accounted, Deliberates
<1> QED BY <1>5, <1>6, <1>7, <1>8, <1>9, <1>10 DEF Inv

\* Once every role has answered the round's tokens are what was taken in it.
LEMMA RoundAccounted ==
    ASSUME Inv, NEW roles, RoundOver(roles)
    PROVE  /\ RoundTokens \in Nat /\ tokens \in Nat /\ spent = tokens + RoundTokens
<1>1. /\ pc = "round" /\ \A r \in Roles : answers[r] # None
      /\ tokens \in Nat /\ InRound /\ \A r \in Roles : OutcomeType(r)
    BY DEF RoundOver, Inv, Deliberates
<1>2. \A r \in Roles : Taken(r) = answers[r].tokens /\ answers[r].tokens \in Nat
    BY <1>1 DEF Taken, OutcomeType
<1>3. CASE Roles = Proposers /\ spent = tokens + (Taken("timing_forensics") + Taken("domain"))
    <2>1. Roles = {"timing_forensics", "domain"} BY <1>3 DEF Proposers
    <2>2. RoundTokens = answers["timing_forensics"].tokens + answers["domain"].tokens
        BY <1>2, <2>1, RoundAdds
    <2> QED BY <1>1, <1>2, <1>3, <2>1, <2>2
<1>4. CASE Roles = Critics /\ spent = tokens + (Taken("formal_critic") + Taken("ppa_critic"))
    <2>1. Roles = {"formal_critic", "ppa_critic"} BY <1>4 DEF Critics
    <2>2. RoundTokens = answers["formal_critic"].tokens + answers["ppa_critic"].tokens
        BY <1>2, <2>1, RoundAdds
    <2> QED BY <1>1, <1>2, <1>4, <2>1, <2>2
<1>5. CASE Roles = Chair /\ spent = tokens + Taken("proposal_chair")
    <2>1. Roles = {"proposal_chair", "proposal_chair"} BY <1>5 DEF Chair
    <2>2. RoundTokens = answers["proposal_chair"].tokens
        BY <1>2, <2>1, RoundAdds
    <2> QED BY <1>1, <1>2, <1>5, <2>1, <2>2
<1> QED BY <1>1, <1>3, <1>4, <1>5 DEF InRound

\* The next round begins with nothing taken in it.
LEMMA RoundFollows ==
    ASSUME Inv, NEW before, RoundOver(before), NEW roles, roles \in {Critics, Chair},
           NextRound(roles), CardsSound', UNCHANGED <<mode, pc, results, audit, spent, result>>
    PROVE  Inv'
<1>1. pc = "round" /\ mode = "AGENT_COUNCIL" BY DEF RoundOver, Inv, Placed
<1>2. /\ RoundTokens \in Nat /\ tokens \in Nat /\ spent = tokens + RoundTokens
    BY RoundAccounted
<1>3. /\ Roles' = roles /\ \A r \in roles : answers'[r] = None
      /\ tokens' = tokens + RoundTokens
    BY DEF NextRound, Round, Roles
<1>4. tokens' \in Nat /\ spent' = tokens' BY <1>2, <1>3
<1>5. InRound' BY <1>3, <1>4 DEF InRound, Taken, Critics, Chair
<1>6. Deliberates'
    BY <1>3, <1>4, <1>5 DEF Deliberates, OutcomeType
<1>7. Results' BY <1>1, NotDone
<1>8. ProposersBlinded' BY DEF Inv, ProposersBlinded
<1>9. Placed' BY <1>1 DEF Placed
<1>10. Fresh' /\ Accounted' BY <1>1 DEF Fresh, Accounted
<1> QED BY <1>6, <1>7, <1>8, <1>9, <1>10 DEF Inv, Results

\* One card for each edit, and no other proposal.
LEMMA NormalizedSound ==
    ASSUME NEW ps \in SUBSET Authorized
    PROVE  /\ Normalized(ps) \subseteq Authorized
           /\ \A p, q \in Normalized(ps) : Edit[p] = Edit[q] => Id[p] = Id[q]
<1>1. Normalized(ps) \subseteq ps BY DEF Normalized
<1>2. ASSUME NEW p \in Normalized(ps), NEW q \in Normalized(ps), Edit[p] = Edit[q]
      PROVE  Id[p] = Id[q]
    <2>1. Id[p] >= Id[q] /\ Id[q] >= Id[p] BY <1>2 DEF Normalized
    <2>2. Id[p] \in Nat /\ Id[q] \in Nat BY <1>1, PlannerAssumption
    <2> QED BY <2>1, <2>2
<1> QED BY <1>1, <1>2

LEMMA AfterProposersStep ==
    ASSUME Inv, AfterProposers
    PROVE  Inv'
<1>1. RoundOver(Proposers) /\ pc = "round" /\ UNCHANGED <<mode, results, audit, spent>>
    BY DEF AfterProposers, RoundOver, context
<1>2. CASE Unauthorized(Proposed) = {} /\ cards' = Normalized(Proposed)
           /\ NextRound(Critics) /\ UNCHANGED <<pc, result>>
    <2>1. Proposed \in SUBSET Authorized BY <1>2 DEF Unauthorized
    <2>2. CardsSound'
        <3> DEFINE ps == Proposed
        <3>1. /\ Normalized(ps) \subseteq Authorized
              /\ \A p, q \in Normalized(ps) : Edit[p] = Edit[q] => Id[p] = Id[q]
            BY <2>1, NormalizedSound
        <3> HIDE DEF ps
        <3> QED BY <1>2, <3>1 DEF CardsSound, ps
    <2> QED BY <1>1, <1>2, <2>2, RoundFollows
<1>3. CASE GiveUp
    BY <1>1, <1>3, RoundEnds DEF GiveUp
<1> QED BY <1>2, <1>3 DEF AfterProposers

LEMMA AfterCriticsStep ==
    ASSUME Inv, AfterCritics
    PROVE  Inv'
<1>1. RoundOver(Critics) /\ pc = "round" /\ UNCHANGED <<mode, results, audit, cards, spent>>
    BY DEF AfterCritics, RoundOver, context
<1>2. CASE NextRound(Chair) /\ UNCHANGED <<pc, result>>
    <2>1. CardsSound
        BY <1>1 DEF Inv, Deliberates, RoundOver, Proposers, Critics
    <2>2. CardsSound' BY <1>1, <2>1 DEF CardsSound
    <2> QED BY <1>1, <1>2, <2>2, RoundFollows
<1>3. CASE GiveUp
    BY <1>1, <1>3, RoundEnds DEF GiveUp
<1> QED BY <1>2, <1>3 DEF AfterCritics

\* What a chair says is well formed: its selection is a list.
LEMMA VerdictIs ==
    ASSUME CardsSound, NEW v \in Verdicts
    PROVE  v.final \in Seq(Nat)
<1>1. cards \subseteq Proposals BY PlannerAssumption DEF CardsSound
<1>2. \A p \in cards : Id[p] \in Nat BY <1>1, PlannerAssumption
<1> DEFINE S == {Id[p] : p \in cards}
<1>3. S \subseteq Nat BY <1>2
<1>4. v.final \in {<<>>, <<0>>} \cup BoundedSeq(S, 2) BY DEF Verdicts
<1> HIDE DEF S
<1>5. BoundedSeq(S, 2) = UNION {[1 .. m -> S] : m \in 0 .. 2} BY DEF BoundedSeq, SeqOf
<1>6. ASSUME NEW m \in 0 .. 2, NEW f \in [1 .. m -> S]
      PROVE  f \in Seq(Nat)
    <2>1. m \in Nat OBVIOUS
    <2>2. \A i \in 1 .. m : f[i] \in Nat BY <1>3
    <2>3. f \in [1 .. m -> Nat] BY <2>2
    <2> QED BY <2>1, <2>3, SeqDef
<1>7. {<<>>, <<0>>} \subseteq Seq(Nat) OBVIOUS
<1> QED BY <1>4, <1>5, <1>6, <1>7

\* What a shortlist resolves to: the cards it names, in its order.
LEMMA ResolvedIs ==
    ASSUME NEW ids \in Seq(Nat), ToSet(ids) \subseteq {Id[p] : p \in cards}
    PROVE  /\ Resolve(ids) \in Seq(cards)
           /\ Len(Resolve(ids)) = Len(ids) /\ DOMAIN Resolve(ids) = DOMAIN ids
           /\ \A i \in DOMAIN ids : Resolve(ids)[i] \in cards /\ Id[Resolve(ids)[i]] = ids[i]
<1>1. ASSUME NEW i \in DOMAIN ids
      PROVE  LET p == CHOOSE p \in cards : Id[p] = ids[i] IN p \in cards /\ Id[p] = ids[i]
    <2>1. ids[i] \in ToSet(ids) BY DEF ToSet
    <2> QED BY <2>1
<1> DEFINE list == Resolve(ids)
<1>2. /\ list = [i \in DOMAIN ids |-> CHOOSE p \in cards : Id[p] = ids[i]]
      /\ DOMAIN list = DOMAIN ids
    BY DEF Resolve
<1>3. \A i \in DOMAIN ids : list[i] \in cards /\ Id[list[i]] = ids[i]
    BY <1>1, <1>2
<1>4. DOMAIN ids = 1 .. Len(ids) /\ Len(ids) \in Nat OBVIOUS
<1>5. list = [i \in 1 .. Len(ids) |-> list[i]] BY <1>2, <1>4
<1> HIDE DEF list
<1>6. list \in [1 .. Len(ids) -> cards] BY <1>3, <1>4, <1>5
<1>7. list \in Seq(cards) BY <1>4, <1>6, SeqDef
<1>8. Len(list) = Len(ids) BY <1>2, <1>4, <1>7
<1> QED BY <1>2, <1>3, <1>7, <1>8 DEF list

LEMMA AfterChairStep ==
    ASSUME Inv, AfterChair
    PROVE  Inv'
<1> DEFINE v == answers["proposal_chair"].output
           list == Resolve(v.final)
<1>1. /\ RoundOver(Chair) /\ pc = "round" /\ mode = "AGENT_COUNCIL" /\ Roles = Chair
      /\ \A r \in Roles : answers[r] # None
      /\ UNCHANGED <<mode, results, audit, cards, spent, answers, reviews>>
    BY DEF AfterChair, RoundOver, context, deliberation, Inv, Placed
<1>2. CASE CouncilFallsBack \/ Raise
    BY <1>1, <1>2, RoundEnds
<1>3. CASE /\ Usable /\ Shortlists(v) /\ WithinRequest
           /\ Finish(Result(PassUnlessEmpty(list), list, FALSE, tokens + RoundTokens))
    <2>1. /\ CardsSound /\ OutcomeType("proposal_chair")
          /\ RoundTokens \in Nat /\ tokens \in Nat /\ spent = tokens + RoundTokens
        BY <1>1, RoundAccounted DEF Inv, Deliberates, Chair, Proposers
    <2>2. v \in Verdicts
        BY <1>1, <1>3, <2>1 DEF OutcomeType, Usable, Said, Chair, Proposers, Critics
    <2>3. v.final \in Seq(Nat) BY <2>1, <2>2, VerdictIs
    <2>4. /\ Len(v.final) <= MaxFinal /\ IsInjective(v.final) /\ FullyReviewed
          /\ v.disposed = Objected /\ ToSet(v.final) \subseteq {Id[p] : p \in cards}
        BY <1>3 DEF Shortlists
    <2> HIDE DEF v
    <2>5. /\ list \in Seq(cards)
          /\ Len(list) = Len(v.final) /\ DOMAIN list = DOMAIN v.final
          /\ \A i \in DOMAIN list : list[i] \in cards /\ Id[list[i]] = v.final[i]
        BY <2>3, <2>4, ResolvedIs
    <2> HIDE DEF list
    <2>6. /\ pc' = "done" /\ result'.proposals = list /\ result'.fallback = FALSE
          /\ result'.tokens = tokens + RoundTokens
        BY <1>3 DEF Finish, Result
    <2>7. Council' BY <1>1, <2>6 DEF Council, Returned
    <2>8. Settled' BY <1>1 DEF Settled, Roles
    <2>9. OnlyAuthorized'
        <3>1. ToSet(list) \subseteq Authorized BY <2>1, <2>5 DEF ToSet, CardsSound
        <3> QED BY <2>4, <2>5, <2>6, <2>7, <3>1 DEF OnlyAuthorized
    <2>10. TokensReported' BY <1>1, <2>1, <2>6 DEF TokensReported
    <2>11. CouncilWithinBudget'
        BY <1>3, <2>6 DEF CouncilWithinBudget, WithinRequest
    <2>12. EveryFinalReviewed'
        <3>1. Objected' = Objected BY <1>1 DEF Objected, Raised
        <3>2. answers'["proposal_chair"].output.disposed = Objected'
            BY <1>1, <2>4, <3>1 DEF v
        <3>3. ASSUME NEW i \in DOMAIN list, NEW k \in Classes
              PROVE  \E x \in reviews : x.report.card = list[i] /\ x.report.class = k
            <4>1. <<list[i], k>> \in ReviewedAs BY <2>4, <2>5 DEF FullyReviewed
            <4> QED BY <4>1 DEF ReviewedAs
        <3>4. ASSUME NEW i \in DOMAIN list, NEW j \in DOMAIN list, Edit[list[i]] = Edit[list[j]]
              PROVE  i = j
            <4>1. Id[list[i]] = Id[list[j]] BY <2>1, <2>5, <3>4 DEF CardsSound
            <4>2. v.final[i] = v.final[j] BY <2>5, <4>1
            <4> QED BY <2>4, <2>5, <4>2 DEF IsInjective
        <3> QED BY <1>1, <2>6, <3>2, <3>3, <3>4 DEF EveryFinalReviewed
    <2>13. ProposersBlinded' BY <1>1 DEF Inv, ProposersBlinded
    <2>14. Placed' BY <1>1, <2>6 DEF Placed
    <2>15. Fresh' /\ Accounted' /\ Deliberates' BY <2>6 DEF Fresh, Accounted, Deliberates
    <2> QED BY <2>8, <2>9, <2>10, <2>11, <2>12, <2>13, <2>14, <2>15 DEF Inv
<1> QED BY <1>2, <1>3 DEF AfterChair

LEMMA StutterStep ==
    ASSUME Inv, UNCHANGED vars
    PROVE  Inv'
<1>1. UNCHANGED <<mode, pc, results, audit, answers, tokens, cards, reviews, result, spent>>
    BY DEF vars, deliberation, context
<1>2. Results' BY <1>1, ResultsKept DEF Inv, Results
<1>3. ProposersBlinded' BY <1>1 DEF Inv, ProposersBlinded
<1>4. Placed' /\ Fresh' /\ Accounted'
    BY <1>1 DEF Inv, Placed, Fresh, Accounted, Roles
<1>5. Deliberates'
    <2>1. \A r : Taken(r)' = Taken(r) /\ Said(r)' = Said(r)
        BY <1>1 DEF Taken, Said, Reports, Verdicts
    <2>2. Roles' = Roles BY <1>1 DEF Roles
    <2>3. pc = "round" => InRound' BY <1>1, <2>1, <2>2 DEF Inv, Deliberates, InRound
    <2>4. \A r : OutcomeType(r)' <=> OutcomeType(r) BY <1>1, <2>1 DEF OutcomeType
    <2> QED BY <1>1, <2>2, <2>3, <2>4 DEF Inv, Deliberates, CardsSound
<1> QED BY <1>2, <1>3, <1>4, <1>5 DEF Inv, Results

-----------------------------------------------------------------------------
(* The theorems *)

\* The invariant holds of every behaviour of a planner, for every plan, every
\* set of advice and every order and number of answers.
THEOREM InvHolds == Spec => []Inv
<1>1. Init => Inv
    <2> SUFFICES ASSUME Init PROVE Inv
        OBVIOUS
    <2>1. /\ pc = "idle" /\ mode = "HEURISTIC" /\ spent = 0 /\ tokens = 0
          /\ results = <<>> /\ audit = {} /\ answers = <<>>
        BY DEF Init
    <2>2. Fresh /\ Accounted /\ Deliberates BY <2>1 DEF Fresh, Accounted, Deliberates
    <2>3. Placed BY <2>1 DEF Placed, Roles
    <2>4. /\ Settled /\ OnlyAuthorized /\ TokensReported /\ CouncilWithinBudget
          /\ EveryFinalReviewed
        BY <2>1 DEF Settled, OnlyAuthorized, TokensReported, CouncilWithinBudget,
                    EveryFinalReviewed, Council, Returned
    <2>5. ProposersBlinded BY <2>1 DEF ProposersBlinded
    <2> QED BY <2>2, <2>3, <2>4, <2>5 DEF Inv
<1>2. Inv /\ [Next]_vars => Inv'
    <2> SUFFICES ASSUME Inv, [Next]_vars PROVE Inv'
        OBVIOUS
    <2>1. CASE UNCHANGED vars
        BY <2>1, StutterStep
    <2>2. ASSUME NEW m \in {"HEURISTIC", "SINGLE_AGENT", "AGENT_COUNCIL"}, Propose(m)
          PROVE  Inv'
        BY <2>2, ProposeStep
    <2>3. CASE Plan BY <2>3, PlanStep
    <2>4. CASE SingleContext BY <2>4, SingleContextStep
    <2>5. CASE CouncilContexts BY <2>5, CouncilContextsStep
    <2>6. CASE Generate BY <2>6, GenerateStep
    <2>7. ASSUME NEW r \in Proposers \cup Critics \cup Chair, Answer(r)
          PROVE  Inv'
        BY <2>7, AnswerStep
    <2>8. ASSUME NEW r \in Proposers \cup Critics \cup Chair, Break(r)
          PROVE  Inv'
        BY <2>8, BreakStep
    <2>9. ASSUME NEW r \in Proposers \cup Critics \cup Chair, AnswerLate(r)
          PROVE  Inv'
        BY <2>9, AnswerLateStep
    <2>10. CASE Deadline BY <2>10, DeadlineStep
    <2>11. CASE AfterProposers BY <2>11, AfterProposersStep
    <2>12. CASE AfterCritics BY <2>12, AfterCriticsStep
    <2>13. CASE AfterChair BY <2>13, AfterChairStep
    <2> QED BY <2>1, <2>2, <2>3, <2>4, <2>5, <2>6, <2>7, <2>8, <2>9, <2>10, <2>11, <2>12,
               <2>13 DEF Next
<1> QED BY <1>1, <1>2, PTL DEF Spec

\* Whatever the models answer, a proposal that leaves a planner is authorized
\* (semantic validation of single_agent.py, normalization and authorization of
\* council.py, the safe filter of heuristic.py), and there are no more of them
\* than the request or the council policy allows.
THEOREM AuthorizedHolds == Spec => []OnlyAuthorized
BY InvHolds, PTL DEF Inv

\* A result that is not a council's fallback carries the tokens of every answer:
\* the discarded attempt of a repaired single agent and all three rounds.
THEOREM TokensHold == Spec => []TokensReported
BY InvHolds, PTL DEF Inv

\* A council never concludes with more tokens than its request's budget, however
\* the budgets of its roles and rounds add up.
THEOREM BudgetHolds == Spec => []CouncilWithinBudget
BY InvHolds, PTL DEF Inv

\* Every proposal a council selects has been reviewed under both classes, no two
\* of them are one edit, and the chair disposed of every objection.
THEOREM ReviewHolds == Spec => []EveryFinalReviewed
BY InvHolds, PTL DEF Inv

\* No piece of private evidence is granted to both proposers of a council.
THEOREM BlindedHolds == Spec => []ProposersBlinded
BY InvHolds, PTL DEF Inv
=============================================================================
