---------------------------- MODULE SearchProofs ----------------------------
(* Machine-checked proofs about Search, for every value of its constants. *)
EXTENDS Search, FiniteSetTheorems, WellFoundedInduction, TLAPS

-----------------------------------------------------------------------------
(* Dominance *)

\* The frontier, with the records it looks at as a parameter.
FrontierIn(A, r) == {p \in A : ~ \E q \in A \ {p} : Dominates(r[q].vector, r[p].vector)}

LEMMA FrontierIs == \A A : Frontier(A) = FrontierIn(A, record)
BY DEF Frontier, FrontierIn

\* Records of others do not matter.
LEMMA FrontierAgrees ==
    ASSUME NEW A, NEW r, NEW s, \A p \in A : r[p] = s[p]
    PROVE  FrontierIn(A, r) = FrontierIn(A, s)
BY DEF FrontierIn

LEMMA FrontierWithin == \A A, r : FrontierIn(A, r) \subseteq A
BY DEF FrontierIn

LEMMA DominatesIrreflexive ==
    ASSUME NEW a \in [Metrics -> Nat] PROVE ~Dominates(a, a)
BY DEF Dominates, Better

LEMMA DominatesTransitive ==
    ASSUME NEW a \in [Metrics -> Nat], NEW b \in [Metrics -> Nat], NEW c \in [Metrics -> Nat],
           Dominates(a, b), Dominates(b, c)
    PROVE  Dominates(a, c)
<1>1. \A n \in Metrics : a[n] \in Nat /\ b[n] \in Nat /\ c[n] \in Nat OBVIOUS
<1>2. \A n \in Metrics : NoWorse(n, a, c) BY <1>1 DEF Dominates, NoWorse
<1>3. PICK n \in Metrics : Better(n, a, b) BY DEF Dominates
<1>4. NoWorse(n, b, c) BY <1>3 DEF Dominates
<1>5. Better(n, a, c) BY <1>1, <1>3, <1>4 DEF Better, NoWorse
<1> QED BY <1>2, <1>5 DEF Dominates

\* A set of numbers that is not empty has a least one.
LEMMA LeastNumber ==
    ASSUME NEW N \in SUBSET Nat, N # {}
    PROVE  \E n \in N : \A m \in N : n <= m
<1> DEFINE Below == OpToRel(<, Nat)
<1>1. PICK n \in N : \A m \in N : <<m, n>> \notin Below
  BY NatLessThanWellFounded, WFMin, Zenon
<1>2. \A m \in N : <<m, n>> \in Below <=> m < n BY DEF OpToRel
<1> HIDE DEF Below
<1>3. ASSUME NEW m \in N PROVE n <= m
  <2>1. ~ m < n BY <1>1, <1>2
  <2> QED BY <2>1
<1> QED BY <1>3

\* In a finite set of records every one is on the frontier, or one that is
\* there dominates it.
LEMMA FrontierCovers ==
    ASSUME NEW A, IsFiniteSet(A), NEW r, \A p \in A : r[p].vector \in [Metrics -> Nat],
           NEW p \in A, p \notin FrontierIn(A, r)
    PROVE  \E q \in FrontierIn(A, r) : Dominates(r[q].vector, r[p].vector)
<1> DEFINE D(q) == {d \in A : Dominates(r[d].vector, r[q].vector)}
           N == {Cardinality(D(q)) : q \in D(p)}
<1>1. \A q : IsFiniteSet(D(q)) /\ Cardinality(D(q)) \in Nat
  <2> TAKE q
  <2>1. D(q) \subseteq A OBVIOUS
  <2> QED BY <2>1, FS_Subset, FS_CardinalityType
<1>2. D(p) # {} BY DEF FrontierIn
<1>3. N \in SUBSET Nat /\ N # {} BY <1>1, <1>2
<1>4. PICK n \in N : \A m \in N : n <= m
  <2> HIDE DEF N
  <2> QED BY <1>3, LeastNumber
<1>5. PICK q \in D(p) : n = Cardinality(D(q)) OBVIOUS
<1>6. \A d \in D(p) : Cardinality(D(q)) <= Cardinality(D(d))
  <2> TAKE d \in D(p)
  <2>1. Cardinality(D(d)) \in N OBVIOUS
  <2> HIDE DEF N, D
  <2> QED BY <1>4, <1>5, <2>1
<1>7. q \in FrontierIn(A, r)
  <2>1. SUFFICES ASSUME NEW d \in A \ {q}, Dominates(r[d].vector, r[q].vector) PROVE FALSE
    BY <1>5 DEF FrontierIn
  <2>2. \A e \in D(d) : e \in D(q) BY <1>5, <2>1, DominatesTransitive
  <2>3. d \in D(p) BY <1>5, <2>1, DominatesTransitive
  <2>4. d \in D(q) /\ d \notin D(d) BY <2>1, DominatesIrreflexive
  <2>5. D(d) \subseteq D(q) /\ D(d) # D(q) BY <2>2, <2>4
  <2>6. Cardinality(D(d)) < Cardinality(D(q))
    <3> HIDE DEF D
    <3> QED BY <1>1, <2>5, FS_Subset
  <2> HIDE DEF D
  <2> QED BY <1>1, <1>6, <2>3, <2>6
<1> QED BY <1>5, <1>7

-----------------------------------------------------------------------------
(* What the run knows in each phase *)

Asking == {"evaluate", "recover", "append"}

InHand == Asking \cup {"archive", "account"}

Over == {"finish", "returned", "raised"}

Evaluated == {evaluated[i] : i \in DOMAIN evaluated}

\* The queue holds what is not tried yet.
QueueOK ==
    /\ phase # "raised" => pending = unique \ Tried
    /\ phase = "plan" => unique = {} /\ Tried = {} /\ evaluated = <<>> /\ stagnant = 0
    /\ BestFirst

\* The candidate in hand is in the DAG and in no book yet, and the ledger is
\* ahead of the books by at most that one.
HandOK ==
    /\ InLedger \subseteq dag
    /\ phase \in InHand => current \in dag /\ current \notin Evaluated
    /\ phase \in {"archive", "account"} => ledger = Append(evaluated, current)
    /\ phase \notin {"archive", "account", "raised"} => ledger = evaluated
    /\ phase \notin Asking \cup {"raised"} => dag \subseteq InLedger
    /\ dag \ InLedger \subseteq {current}

\* Only evaluated candidates with a record are in the archive.
ArchiveOK ==
    /\ archive \subseteq InLedger
    /\ \A p \in archive : record[p] \in Records
    /\ phase \in InHand \ {"account"} => current \notin archive

\* What is granted and not used is the cost of the candidate in hand.
MoneyOK ==
    /\ error = "planner" => phase = "raised"
    /\ error # "planner" => \A r \in Resources : granted[r] <= request.budget[r]
    /\ phase \in {"plan", "loop", "finish", "returned"} => granted = used
    /\ phase \in InHand => granted = Plus(used, Cost[current])

\* The frontier of what the first k entries of a ledger put into the archive.
FrontierUpTo(k, l, A, r) == FrontierIn({l[i] : i \in 1 .. k} \cap A, r)

\* The frontier changed s entries before entry n, if ever, and not since.
Still(n, s, l, A, r) ==
    /\ s <= n
    /\ \A i \in n - s + 1 .. n : FrontierUpTo(i, l, A, r) = FrontierUpTo(i - 1, l, A, r)
    /\ s < n => FrontierUpTo(n - s, l, A, r) # FrontierUpTo(n - s - 1, l, A, r)

\* The frontier did not change in the w entries up to entry n.
Stood(n, w, l, A, r) ==
    /\ n >= w
    /\ \A i \in n - w + 1 .. n : FrontierUpTo(i, l, A, r) = FrontierUpTo(i - 1, l, A, r)

\* How many entries of the ledger the counter is about.
Counted == IF phase = "archive" THEN Len(ledger) - 1 ELSE Len(ledger)

CounterOK ==
    /\ phase \notin Over => stop = "none" /\ Still(Counted, stagnant, ledger, archive, record)
    /\ phase \notin Over \cup {"account"} => stagnant < request.window
    /\ stop = "STAGNATION" => StoodStill(request.window)

\* The selection is made once.
SelectionOK ==
    phase = "returned" /\ archive # {} =>
        /\ selected \in Frontier(archive)
        /\ \A q \in Frontier(archive) : record[selected].rank <= record[q].rank

Inv == /\ TypeOK /\ QueueOK /\ HandOK /\ ArchiveOK /\ MoneyOK /\ DistinctEdits /\ CounterOK
       /\ SelectionOK

-----------------------------------------------------------------------------
(* Types *)

LEMMA Amount ==
    ASSUME NEW a \in Amounts, NEW b \in Amounts
    PROVE  Plus(a, b) \in Amounts /\ \A r \in Resources : Plus(a, b)[r] = a[r] + b[r]
BY DEF Plus, Amounts

LEMMA TypeStep ==
    ASSUME TypeOK, [Next]_vars
    PROVE  TypeOK'
<1>1. CASE Propose
  <2>1. PICK batch \in SUBSET {p \in Proposals : Opportunity[p] = asked + 1}, c \in PlannerCosts :
          /\ used' = Plus(used, c) /\ granted' = used' /\ asked' = asked + 1
          /\ \/ Raise("planner") /\ UNCHANGED proposals
             \/ proposals' = proposals \cup batch /\ UNCHANGED <<phase, error>>
    BY <1>1 DEF Propose
  <2>2. used' \in Amounts /\ granted' \in Amounts
    BY <2>1, Amount, SearchAssumption DEF TypeOK
  <2>3. asked' \in 0 .. Opportunities BY <1>1, <2>1, SearchAssumption DEF TypeOK, Propose
  <2> QED BY <1>1, <2>1, <2>2, <2>3 DEF TypeOK, Propose, Raise, hand, journal
<1>2. CASE Order BY <1>2 DEF TypeOK, Order, hand, journal, books
<1>3. CASE BudgetStop \/ Exhausted
  BY <1>3 DEF TypeOK, BudgetStop, Exhausted, inputs, hand, journal, books
<1>4. ASSUME NEW p \in pending, Reject(p) PROVE TypeOK'
  BY <1>4 DEF TypeOK, Reject, inputs, hand, journal
<1>5. ASSUME NEW p \in pending, NEW s \in Sources, NEW c \in Patches, Materialize(p, s, c)
      PROVE  TypeOK'
  <2>1. p \in Proposals /\ Cost[p] \in Amounts /\ p # None
    BY SearchAssumption, SearchCosts DEF TypeOK, CostAssumption
  <2>2. granted' \in Amounts BY <1>5, <2>1, Amount DEF TypeOK, Materialize
  <2>3. edit' \in [Proposals -> [source : Sources \cup {None}, patch : Patches \cup {None}]]
    BY <1>5, <2>1 DEF TypeOK, Materialize
  <2>4. /\ dag' \subseteq Proposals /\ dropped' \subseteq Proposals /\ current' \in Proposals \cup {None}
        /\ phase' \in {"evaluate", "raised", phase} /\ error' \in {error, "lineage"}
        /\ phase' = "evaluate" => current' # None
        /\ pending' \subseteq unique
    BY <1>5, <2>1 DEF TypeOK, Materialize, Raise
  <2> QED BY <1>5, <2>2, <2>3, <2>4 DEF TypeOK, Materialize, inputs
<1>6. ASSUME NEW v \in Evaluations, Evaluate(v) PROVE TypeOK'
  BY <1>6 DEF TypeOK, Evaluate, inputs, journal, books
<1>7. CASE Recover BY <1>7 DEF TypeOK, Recover, inputs, hand, books
<1>8. CASE Append_record BY <1>8 DEF TypeOK, Append_record, inputs, hand, books
<1>9. CASE Archive
  <2>1. current \in Proposals /\ verdict.record \in Records \cup {None}
    BY <1>9 DEF TypeOK, Archive, Evaluations
  <2>2. record' \in [Proposals -> Records \cup {None}] /\ archive' \subseteq Proposals /\ stagnant' \in Nat
        /\ phase' \in {"raised", "account"} /\ error' \in {error, "incomparable"}
    BY <1>9, <2>1 DEF TypeOK, Archive, Raise
  <2> QED BY <1>9, <2>1, <2>2 DEF TypeOK, Archive, inputs
<1>10. CASE Account
  <2>1. current \in Proposals BY <1>10 DEF TypeOK, Account
  <2>2. Cost[current] \in Amounts BY <2>1, SearchCosts DEF CostAssumption
  <2>3. used' \in Amounts BY <1>10, <2>2, Amount DEF TypeOK, Account
  <2>4. /\ phase' \in {"raised", "loop", "finish"} /\ error' \in {error, "cascade"}
        /\ stop' \in {stop, "none", "FIRST_FEASIBLE", "STAGNATION"}
    BY <1>10 DEF Account, Raise
  <2>5. NoEvaluation \in Evaluations BY DEF NoEvaluation, Evaluations
  <2>6. /\ disposition' = [disposition EXCEPT ![current] = "EVALUATED"]
        /\ evaluated' = Append(evaluated, current) /\ current' = None /\ verdict' = NoEvaluation
        /\ UNCHANGED <<inputs, pending, edit, record, journal, granted, rejected, dropped, stagnant, selected>>
    BY <1>10 DEF Account
  <2> HIDE DEF NoEvaluation
  <2> QED BY <2>1, <2>3, <2>4, <2>5, <2>6 DEF TypeOK, inputs, journal
<1>11. CASE Finish
  <2>1. Leftover \in {"NOT_ATTEMPTED_POLICY", "NOT_ATTEMPTED_BUDGET", "NO_SAFE_SOURCE_MATCH"}
    BY DEF Leftover
  <2>2. /\ disposition' = [p \in Proposals |-> IF p \in unique /\ disposition[p] = None
                                               THEN Leftover ELSE disposition[p]]
        /\ phase' \in {"raised", "returned"} /\ error' \in {error, "trace"}
        /\ UNCHANGED <<inputs, pending, hand, journal, evaluated, used, granted, rejected, dropped,
                       stagnant, stop>>
    BY <1>11 DEF Finish, Raise
  <2>3. selected' \in archive \cup {None}
    BY <1>11, FrontierWithin, FrontierIs DEF Finish
  <2> HIDE DEF Leftover
  <2> QED BY <2>1, <2>2, <2>3 DEF TypeOK, inputs, hand, journal
<1>12. CASE CallbackRaises
  BY <1>12 DEF TypeOK, CallbackRaises, Raise, inputs, hand, journal, books
<1>13. CASE UNCHANGED vars
  BY <1>13 DEF TypeOK, vars, inputs, hand, journal, books
<1> QED BY <1>1, <1>2, <1>3, <1>4, <1>5, <1>6, <1>7, <1>8, <1>9, <1>10, <1>11, <1>12, <1>13
    DEF Next, Step, Done

-----------------------------------------------------------------------------
(* The queue *)

LEMMA QueueStep ==
    ASSUME Inv, [Next]_vars
    PROVE  QueueOK'
<1> USE DEF Inv
<1>1. CASE Propose
  <2>1. /\ UNCHANGED <<unique, pending, rejected, dropped, dag, evaluated, stagnant>>
        /\ phase' \in {phase, "raised"}
    BY <1>1 DEF Propose, Raise, journal
  <2> QED BY <2>1 DEF QueueOK, BestFirst, Tried
<1>2. CASE Order
  <2>1. /\ UNCHANGED <<rejected, dropped, dag>> /\ pending' = unique' /\ phase' = "loop" /\ Tried = {}
    BY <1>2 DEF Order, QueueOK, books, journal
  <2> QED BY <2>1 DEF QueueOK, BestFirst, Tried
<1>3. ASSUME phase # "plan", phase' # "plan", UNCHANGED <<unique, pending, rejected, dropped, dag>>,
             phase = "raised" => phase' = "raised"
      PROVE  QueueOK'
  BY <1>3 DEF QueueOK, BestFirst, Tried
<1>4. ASSUME NEW p \in pending, phase = "loop", IsNext(p), phase' # "plan", unique' = unique,
             pending' = pending \ {p},
             \/ phase' # "raised" /\ Tried' = Tried \cup {p}
             \/ phase' = "raised" /\ Tried' = Tried
      PROVE  QueueOK'
  <2>1. \A q \in unique \ Tried : Rank[p] <= Rank[q] /\ Rank[q] \in Nat /\ Rank[p] \in Nat
    BY <1>4, SearchAssumption DEF QueueOK, IsNext, RankAssumption, TypeOK
  <2>2. BestFirst' BY <1>4, <2>1 DEF QueueOK, BestFirst
  <2> QED BY <1>4, <2>2 DEF QueueOK
<1>5. ASSUME NEW p \in pending, Reject(p) PROVE QueueOK'
  BY <1>4, <1>5 DEF Reject, Tried, inputs, journal
<1>6. ASSUME NEW p \in pending, NEW s \in Sources, NEW c \in Patches, Materialize(p, s, c)
      PROVE  QueueOK'
  <2>1. \/ phase' # "raised" /\ Tried' = Tried \cup {p}
        \/ phase' = "raised" /\ Tried' = Tried
    BY <1>6 DEF Materialize, Tried, Raise
  <2>2. phase' # "plan" BY <1>6 DEF Materialize, Raise
  <2> QED BY <1>4, <1>6, <2>1, <2>2 DEF Materialize, inputs
<1>7. CASE CallbackRaises
  BY <1>7 DEF CallbackRaises, Raise, QueueOK, BestFirst, Tried, inputs, journal, books
<1>8. CASE UNCHANGED vars
  BY <1>8 DEF QueueOK, BestFirst, Tried, vars, inputs, journal, books
<1>9. CASE Account
  BY <1>3, <1>9 DEF Account, Raise, inputs, journal
<1>10. CASE Archive
  BY <1>3, <1>10 DEF Archive, Raise, inputs
<1>11. CASE Finish
  BY <1>3, <1>11 DEF Finish, Raise, inputs, journal
<1>12. CASE BudgetStop \/ Exhausted \/ Recover \/ Append_record \/ (\E v \in Evaluations : Evaluate(v))
  BY <1>3, <1>12 DEF BudgetStop, Exhausted, Recover, Append_record, Evaluate, inputs, journal, books
<1> QED BY <1>1, <1>2, <1>5, <1>6, <1>7, <1>8, <1>9, <1>10, <1>11, <1>12 DEF Next, Step, Done

-----------------------------------------------------------------------------
(* The ledger, the DAG and the archive *)

LEMMA AppendHolds ==
    ASSUME NEW S, NEW l \in Seq(S), NEW x \in S
    PROVE  /\ Append(l, x) \in Seq(S) /\ Len(Append(l, x)) = Len(l) + 1
           /\ \A i \in 1 .. Len(l) : Append(l, x)[i] = l[i]
           /\ Append(l, x)[Len(l) + 1] = x
           /\ {Append(l, x)[i] : i \in DOMAIN Append(l, x)} = {l[i] : i \in DOMAIN l} \cup {x}
<1>1. /\ Append(l, x) \in Seq(S) /\ Len(Append(l, x)) = Len(l) + 1 /\ Len(l) \in Nat
      /\ \A i \in 1 .. Len(l) : Append(l, x)[i] = l[i]
      /\ Append(l, x)[Len(l) + 1] = x
      /\ DOMAIN l = 1 .. Len(l) /\ DOMAIN Append(l, x) = 1 .. Len(l) + 1
  OBVIOUS
<1>2. DOMAIN Append(l, x) = DOMAIN l \cup {Len(l) + 1} BY <1>1
<1> QED BY <1>1, <1>2

LEMMA HandStep ==
    ASSUME Inv, [Next]_vars
    PROVE  HandOK'
<1> USE DEF Inv
<1>1. ASSUME NEW p \in pending, NEW s \in Sources, NEW c \in Patches, Materialize(p, s, c)
      PROVE  HandOK'
  <2>1. p \notin Tried /\ phase = "loop" /\ ledger' = ledger /\ evaluated' = evaluated
    BY <1>1 DEF Materialize, QueueOK
  <2>2. p \notin InLedger /\ p \notin Evaluated BY <2>1 DEF HandOK, Tried, InLedger, Evaluated, Asking
  <2>3. CASE dag' = dag /\ phase' \in {"loop", "raised"} /\ current' = current
    BY <2>1, <2>3 DEF HandOK, InLedger, Evaluated, Asking, InHand
  <2>4. CASE dag' = dag \cup {p} /\ phase' = "evaluate" /\ current' = p
    BY <2>1, <2>2, <2>4 DEF HandOK, InLedger, Evaluated, Asking, InHand
  <2> QED BY <1>1, <2>1, <2>3, <2>4 DEF Materialize, Raise
<1>2. CASE Append_record
  <2>1. /\ current \in Proposals /\ ledger \in Seq(Proposals) /\ ledger = evaluated
        /\ ledger' = Append(ledger, current)
        /\ current \in dag /\ current \notin Evaluated
        /\ dag \ InLedger \subseteq {current} /\ InLedger \subseteq dag
    BY <1>2 DEF Append_record, TypeOK, HandOK, Asking, InHand
  <2>2. InLedger' = InLedger \cup {current} BY <2>1, AppendHolds DEF InLedger
  <2>3. UNCHANGED <<dag, current, evaluated>> /\ phase' = "archive"
    BY <1>2 DEF Append_record, hand, books
  <2> QED BY <2>1, <2>2, <2>3 DEF HandOK, InHand, Asking, Evaluated
<1>3. CASE Account
  <2>1. /\ evaluated' = Append(evaluated, current) /\ ledger = Append(evaluated, current) /\ ledger' = ledger
        /\ dag' = dag /\ phase' \in {"loop", "finish", "raised"} /\ dag \subseteq InLedger
        /\ InLedger \subseteq dag
    BY <1>3 DEF Account, HandOK, journal, Raise, Asking
  <2> QED BY <2>1 DEF HandOK, InHand, Asking, InLedger
<1>4. ASSUME UNCHANGED <<ledger, evaluated, dag, current>>,
             \/ phase' = "raised" \/ phase' = phase
             \/ phase \in {"plan", "loop", "finish"} /\ phase' \in {"loop", "finish", "returned"}
             \/ phase \in Asking /\ phase' \in Asking
             \/ phase = "archive" /\ phase' = "account"
      PROVE  HandOK'
  BY <1>4 DEF HandOK, InHand, Asking, InLedger, Evaluated
<1>5. CASE Propose
  BY <1>4, <1>5 DEF Propose, Raise, hand, journal
<1>6. CASE Order \/ BudgetStop \/ Exhausted \/ Recover
  BY <1>4, <1>6 DEF Order, BudgetStop, Exhausted, Recover, hand, journal, books, Asking
<1>7. ASSUME NEW p \in pending, Reject(p) PROVE HandOK'
  BY <1>4, <1>7 DEF Reject, hand, journal
<1>8. ASSUME NEW v \in Evaluations, Evaluate(v) PROVE HandOK'
  BY <1>4, <1>8 DEF Evaluate, journal, books, Asking
<1>9. CASE Archive BY <1>4, <1>9 DEF Archive, Raise
<1>10. CASE Finish BY <1>4, <1>10 DEF Finish, Raise, hand, journal
<1>11. CASE CallbackRaises BY <1>4, <1>11 DEF CallbackRaises, Raise, hand, journal, books
<1>12. CASE UNCHANGED vars BY <1>4, <1>12 DEF vars, hand, journal, books
<1> QED BY <1>1, <1>2, <1>3, <1>5, <1>6, <1>7, <1>8, <1>9, <1>10, <1>11, <1>12 DEF Next, Step, Done

LEMMA ArchiveStep ==
    ASSUME Inv, [Next]_vars
    PROVE  ArchiveOK'
<1> USE DEF Inv
<1>1. CASE Archive
  <2>1. /\ current \in Proposals /\ current \in InLedger /\ ledger' = ledger /\ current \notin archive
        /\ record' = [record EXCEPT ![current] = verdict.record]
        /\ archive' = archive \/ (archive' = archive \cup {current} /\ verdict.record # None)
        /\ verdict.record \in Records \cup {None} /\ record \in [Proposals -> Records \cup {None}]
        /\ phase' \in {"account", "raised"} /\ current' = current /\ archive \subseteq Proposals
    <3>1. current \in InLedger BY <1>1 DEF Archive, HandOK, Asking, InHand
    <3> QED BY <1>1, <3>1 DEF Archive, Raise, TypeOK, ArchiveOK, InHand, Asking, Evaluations
  <2> QED BY <2>1 DEF ArchiveOK, InHand, Asking, InLedger
<1>2. CASE Append_record
  <2>1. /\ current \in Proposals /\ ledger \in Seq(Proposals) /\ ledger' = Append(ledger, current)
        /\ UNCHANGED <<record, archive, current>> /\ current \notin archive
    BY <1>2 DEF Append_record, TypeOK, ArchiveOK, InHand, Asking, hand
  <2>2. InLedger' = InLedger \cup {current} BY <2>1, AppendHolds DEF InLedger
  <2> QED BY <2>1, <2>2 DEF ArchiveOK
<1>3. ASSUME NEW p \in pending, NEW s \in Sources, NEW c \in Patches, Materialize(p, s, c)
      PROVE  ArchiveOK'
  <2>1. p \notin dag /\ phase = "loop" /\ UNCHANGED <<ledger, archive, record>>
    BY <1>3 DEF Materialize, QueueOK, Tried
  <2>2. p \notin archive BY <2>1 DEF ArchiveOK, HandOK
  <2>3. phase' \in InHand => current' = p BY <1>3, <2>1 DEF Materialize, Raise, InHand, Asking
  <2> QED BY <2>1, <2>2, <2>3 DEF ArchiveOK, InLedger
<1>4. ASSUME UNCHANGED <<ledger, archive, record, current>>,
             phase' \in InHand \ {"account"} => phase \in InHand \ {"account"}
      PROVE  ArchiveOK'
  BY <1>4 DEF ArchiveOK, InLedger
<1>5. CASE Propose BY <1>4, <1>5 DEF Propose, Raise, hand, journal, InHand, Asking
<1>6. CASE Order \/ BudgetStop \/ Exhausted \/ Recover
  BY <1>4, <1>6 DEF Order, BudgetStop, Exhausted, Recover, hand, journal, InHand, Asking
<1>7. ASSUME NEW p \in pending, Reject(p) PROVE ArchiveOK'
  BY <1>4, <1>7 DEF Reject, hand, journal
<1>8. ASSUME NEW v \in Evaluations, Evaluate(v) PROVE ArchiveOK'
  BY <1>4, <1>8 DEF Evaluate, journal, InHand, Asking
<1>9. CASE Account
  BY <1>9 DEF Account, Raise, journal, InHand, Asking, ArchiveOK, InLedger
<1>10. CASE Finish BY <1>4, <1>10 DEF Finish, Raise, hand, journal, InHand, Asking
<1>11. CASE CallbackRaises BY <1>4, <1>11 DEF CallbackRaises, Raise, hand, journal, InHand, Asking
<1>12. CASE UNCHANGED vars BY <1>4, <1>12 DEF vars, hand, journal
<1> QED BY <1>1, <1>2, <1>3, <1>5, <1>6, <1>7, <1>8, <1>9, <1>10, <1>11, <1>12 DEF Next, Step, Done

-----------------------------------------------------------------------------
(* Budgets and edits *)

LEMMA RequestIs ==
    ASSUME TypeOK
    PROVE  /\ request.budget \in Amounts /\ request.window \in Nat \ {0}
           /\ Cost \in [Proposals -> Amounts]
BY SearchCosts DEF TypeOK, RequestAssumption, CostAssumption

LEMMA MoneyStep ==
    ASSUME Inv, [Next]_vars
    PROVE  MoneyOK'
<1> USE DEF Inv
<1>0. /\ \A r \in Resources : request.budget[r] \in Nat /\ used[r] \in Nat /\ granted[r] \in Nat
      /\ used \in Amounts /\ granted \in Amounts
  BY RequestIs DEF TypeOK, Amounts
<1>1. CASE Propose
  <2>1. PICK c \in PlannerCosts :
          /\ used' = Plus(used, c) /\ granted' = used'
          /\ \/ Raise("planner")
             \/ /\ ~ \E r \in {"tokens", "latency"} : used'[r] > request.budget[r]
                /\ UNCHANGED <<phase, error>>
    BY <1>1 DEF Propose
  <2>2. request' = request /\ phase = "plan" BY <1>1 DEF Propose
  <2>3. c \in Amounts /\ \A r \in Resources \ {"tokens", "latency"} : c[r] = 0 BY SearchAssumption
  <2>4. \A r \in Resources : used'[r] = used[r] + c[r] /\ used'[r] \in Nat
    BY <1>0, <2>1, <2>3, Amount DEF Amounts
  <2>5. CASE Raise("planner") BY <2>1, <2>5 DEF MoneyOK, Raise, InHand, Asking
  <2>6. CASE /\ ~ \E r \in {"tokens", "latency"} : used'[r] > request.budget[r]
             /\ UNCHANGED <<phase, error>>
    <3>1. error # "planner" /\ granted = used BY <2>2 DEF MoneyOK
    <3>2. ASSUME NEW r \in Resources PROVE used'[r] <= request.budget[r]
      <4>1. CASE r \in {"tokens", "latency"} BY <1>0, <2>4, <2>6, <4>1
      <4>2. CASE r \notin {"tokens", "latency"}
        <5>1. granted[r] <= request.budget[r] BY <3>1 DEF MoneyOK
        <5>2. used'[r] = used[r] BY <1>0, <2>3, <2>4, <4>2
        <5> QED BY <3>1, <5>1, <5>2
      <4> QED BY <4>1, <4>2
    <3> QED BY <2>1, <2>2, <2>6, <3>1, <3>2 DEF MoneyOK, InHand, Asking
  <2> QED BY <2>1, <2>5, <2>6
<1>2. ASSUME NEW p \in pending, NEW s \in Sources, NEW c \in Patches, Materialize(p, s, c)
      PROVE  MoneyOK'
  <2>1. /\ p \in Proposals /\ phase = "loop" /\ Fits(p) /\ used' = used /\ request' = request
        /\ error # "planner" /\ granted = used
    BY <1>2 DEF Materialize, inputs, MoneyOK, TypeOK
  <2>2. CASE granted' = granted /\ phase' \in {"loop", "raised"} /\ error' \in {error, "lineage"}
    BY <2>1, <2>2 DEF MoneyOK, InHand, Asking
  <2>3. CASE /\ granted' = Plus(granted, Cost[p]) /\ phase' = "evaluate" /\ current' = p
             /\ error' = error
    <3>1. \A r \in Resources : granted'[r] = used[r] + Cost[p][r]
      BY <1>0, <2>1, <2>3, Amount, RequestIs
    <3>2. \A r \in Resources : granted'[r] <= request.budget[r] BY <2>1, <3>1 DEF Fits
    <3> QED BY <2>1, <2>3, <3>2 DEF MoneyOK
  <2> QED BY <1>2, <2>1, <2>2, <2>3 DEF Materialize, Raise
<1>3. CASE Account
  <2>1. /\ phase = "account" /\ granted' = granted /\ request' = request /\ phase' # "account"
        /\ error # "planner" /\ granted = Plus(used, Cost[current])
        /\ \/ phase' = "raised" /\ error' = "cascade"
           \/ used' = Plus(used, Cost[current]) /\ phase' \in {"loop", "finish"} /\ error' = error
    BY <1>3 DEF Account, Raise, inputs, MoneyOK, InHand
  <2> QED BY <2>1 DEF MoneyOK, InHand, Asking
<1>4. ASSUME UNCHANGED <<used, granted, request>>,
             \/ phase' = "raised" /\ (error' = error \/ error' # "planner") /\ phase # "raised"
             \/ phase' = phase /\ error' = error /\ current' = current
             \/ /\ phase \in {"plan", "loop", "finish"} /\ phase' \in {"loop", "finish", "returned"}
                /\ error' = error
             \/ /\ phase \in InHand /\ phase' \in InHand
                /\ error' = error /\ current' = current
      PROVE  MoneyOK'
  BY <1>4 DEF MoneyOK, InHand, Asking
<1>5. CASE Order \/ BudgetStop \/ Exhausted \/ Recover \/ Append_record
  BY <1>4, <1>5 DEF Order, BudgetStop, Exhausted, Recover, Append_record, hand, inputs, books,
                    InHand, Asking
<1>6. ASSUME NEW p \in pending, Reject(p) PROVE MoneyOK'
  BY <1>4, <1>6 DEF Reject, hand, inputs
<1>7. ASSUME NEW v \in Evaluations, Evaluate(v) PROVE MoneyOK'
  BY <1>4, <1>7 DEF Evaluate, books, inputs, InHand, Asking
<1>8. CASE Archive BY <1>4, <1>8 DEF Archive, Raise, inputs, InHand
<1>9. CASE Finish BY <1>4, <1>9 DEF Finish, Raise, hand, inputs
<1>10. CASE CallbackRaises
  <2>1. phase # "raised" BY <1>10 DEF CallbackRaises
  <2> QED BY <1>4, <1>10, <2>1 DEF CallbackRaises, Raise, inputs, books
<1>11. CASE UNCHANGED vars BY <1>4, <1>11 DEF vars, hand, inputs, books
<1> QED BY <1>1, <1>2, <1>3, <1>5, <1>6, <1>7, <1>8, <1>9, <1>10, <1>11 DEF Next, Step, Done

LEMMA EditStep ==
    ASSUME Inv, [Next]_vars
    PROVE  DistinctEdits'
<1> USE DEF Inv
<1>1. ASSUME NEW p \in pending, NEW s \in Sources, NEW c \in Patches, Materialize(p, s, c)
      PROVE  DistinctEdits'
  <2>1. CASE dag' = dag /\ edit' = edit BY <2>1 DEF DistinctEdits
  <2>2. CASE /\ dag' = dag \cup {p} /\ edit' = [edit EXCEPT ![p] = [source |-> s, patch |-> c]]
             /\ ~Seen(s, c)
    <3>1. \A q \in dag : edit[q].source # s /\ edit[q].patch # c BY <2>2 DEF Seen
    <3>2. p \in Proposals /\ dag \subseteq Proposals BY DEF TypeOK
    <3>3. edit'[p] = [source |-> s, patch |-> c] /\ \A q \in dag \ {p} : edit'[q] = edit[q]
      BY <2>2, <3>2 DEF TypeOK
    <3> QED BY <2>2, <3>1, <3>3 DEF DistinctEdits
  <2> QED BY <1>1, <2>1, <2>2 DEF Materialize
<1>2. ASSUME UNCHANGED <<dag, edit>> PROVE DistinctEdits'
  BY <1>2 DEF DistinctEdits
<1>3. CASE Step /\ ~ \E p \in pending, s \in Sources, c \in Patches : Materialize(p, s, c)
  BY <1>2, <1>3
    DEF Step, Propose, Order, BudgetStop, Exhausted, Reject, Evaluate, Recover, Append_record, Archive,
        Account, Finish, hand, journal
<1>4. CASE CallbackRaises \/ UNCHANGED vars BY <1>2, <1>4 DEF CallbackRaises, vars, hand, journal
<1> QED BY <1>1, <1>3, <1>4 DEF Next, Done

-----------------------------------------------------------------------------
(* The counter *)

LEMMA UpToAgrees ==
    ASSUME NEW n \in Nat, NEW l, NEW k, NEW A, NEW B, NEW r, NEW q,
           \A i \in 1 .. n : /\ l[i] = k[i] /\ (l[i] \in A <=> k[i] \in B)
                             /\ l[i] \in A => r[l[i]] = q[k[i]]
    PROVE  \A i \in 0 .. n : FrontierUpTo(i, l, A, r) = FrontierUpTo(i, k, B, q)
<1> TAKE i \in 0 .. n
<1> DEFINE S == {l[j] : j \in 1 .. i} \cap A
           T == {k[j] : j \in 1 .. i} \cap B
<1>1. 1 .. i \subseteq 1 .. n OBVIOUS
<1>2. S = T BY <1>1
<1>3. \A p \in S : r[p] = q[p] BY <1>1
<1> HIDE DEF S, T
<1>4. FrontierIn(S, r) = FrontierIn(T, q) BY <1>2, <1>3, FrontierAgrees
<1> QED BY <1>4 DEF FrontierUpTo, S, T

LEMMA StillAgrees ==
    ASSUME NEW n \in Nat, NEW s \in Nat, NEW l, NEW k, NEW A, NEW B, NEW r, NEW q,
           \A i \in 0 .. n : FrontierUpTo(i, l, A, r) = FrontierUpTo(i, k, B, q),
           Still(n, s, l, A, r)
    PROVE  Still(n, s, k, B, q)
<1>1. s <= n BY DEF Still
<1>2. \A i \in n - s + 1 .. n : i \in 0 .. n /\ i - 1 \in 0 .. n BY <1>1
<1>3. s < n => n - s \in 0 .. n /\ n - s - 1 \in 0 .. n BY <1>1
<1> QED BY <1>1, <1>2, <1>3 DEF Still

\* One more entry: the counter starts again when the frontier changed.
LEMMA StillGrows ==
    ASSUME NEW n \in Nat, NEW s \in Nat, NEW l, NEW A, NEW r, Still(n, s, l, A, r)
    PROVE  IF FrontierUpTo(n + 1, l, A, r) # FrontierUpTo(n, l, A, r)
           THEN Still(n + 1, 0, l, A, r)
           ELSE Still(n + 1, s + 1, l, A, r)
<1>1. s <= n BY DEF Still
<1>2. CASE FrontierUpTo(n + 1, l, A, r) # FrontierUpTo(n, l, A, r)
  <2>1. n + 1 - 0 + 1 .. n + 1 = {} /\ n + 1 - 0 = n + 1 /\ n + 1 - 0 - 1 = n OBVIOUS
  <2> QED BY <1>2, <2>1 DEF Still
<1>3. CASE FrontierUpTo(n + 1, l, A, r) = FrontierUpTo(n, l, A, r)
  <2>1. n + 1 - (s + 1) = n - s /\ (s + 1 < n + 1 <=> s < n) /\ s + 1 <= n + 1 BY <1>1
  <2>2. \A i \in n - s + 1 .. n + 1 : i \in n - s + 1 .. n \/ (i = n + 1 /\ i - 1 = n) BY <1>1
  <2> QED BY <1>3, <2>1, <2>2 DEF Still
<1> QED BY <1>2, <1>3

LEMMA StoodStillIs == \A w : StoodStill(w) <=> Stood(Len(evaluated), w, evaluated, archive, record)
BY FrontierIs DEF StoodStill, FrontierAt, FrontierUpTo, Stood

\* What the counter says of the policy's window.
LEMMA StillIsExact ==
    ASSUME NEW n \in Nat, NEW s \in Nat, NEW w \in Nat \ {0}, NEW l, NEW A, NEW r,
           Still(n, s, l, A, r)
    PROVE  s >= w <=> Stood(n, w, l, A, r)
<1> USE DEF Stood
<1>1. s <= n BY DEF Still
<1>2. CASE s >= w
  <2>1. \A i \in n - w + 1 .. n : i \in n - s + 1 .. n BY <1>1, <1>2
  <2> QED BY <1>1, <1>2, <2>1 DEF Still
<1>3. CASE s < w /\ n >= w
  <2>1. s < n /\ n - s \in n - w + 1 .. n BY <1>3
  <2> QED BY <1>3, <2>1 DEF Still
<1> QED BY <1>1, <1>2, <1>3

LEMMA CounterStep ==
    ASSUME Inv, [Next]_vars
    PROVE  CounterOK'
<1> USE DEF Inv
<1>0. /\ request.window \in Nat \ {0} /\ stagnant \in Nat
      /\ ledger \in Seq(Proposals) /\ evaluated \in Seq(Proposals)
      /\ Len(ledger) \in Nat /\ Len(evaluated) \in Nat
  BY RequestIs DEF TypeOK
<1>1. CASE Archive
  <2> DEFINE n == Len(evaluated)
  <2>1. /\ current \in Proposals /\ ledger = Append(evaluated, current) /\ ledger' = ledger
        /\ current \notin Evaluated /\ current \notin archive /\ archive \subseteq InLedger
        /\ phase = "archive" /\ request' = request /\ stop' = stop /\ evaluated' = evaluated
    BY <1>1 DEF Archive, TypeOK, HandOK, ArchiveOK, InHand, Asking, inputs
  <2>2. /\ Len(ledger) = n + 1 /\ ledger[n + 1] = current
        /\ \A i \in 1 .. n : ledger[i] = evaluated[i]
    BY <1>0, <2>1, AppendHolds
  <2>3. \A i \in 1 .. n : ledger[i] # current /\ ledger[i] \in Proposals
    BY <1>0, <2>1, <2>2 DEF Evaluated
  <2>4. Counted = n /\ stop = "none" BY <2>1, <2>2 DEF Counted, CounterOK, Over
  <2>5. CASE phase' = "raised"
    BY <2>1, <2>4, <2>5 DEF CounterOK, Over
  <2>6. CASE /\ phase' = "account" /\ record' = [record EXCEPT ![current] = verdict.record]
             /\ archive' = archive \/ archive' = archive \cup {current}
             /\ stagnant' = IF Frontier(archive)' # Frontier(archive) THEN 0 ELSE stagnant + 1
    <3>1. \A i \in 1 .. n : /\ ledger[i] \in archive <=> ledger[i] \in archive'
                            /\ record[ledger[i]] = record'[ledger[i]]
      BY <2>3, <2>6 DEF TypeOK
    <3>2. \A i \in 0 .. n : FrontierUpTo(i, ledger, archive, record)
                              = FrontierUpTo(i, ledger, archive', record')
      BY <3>1, <1>0, UpToAgrees
    <3>3. Still(n, stagnant, ledger, archive', record')
      BY <1>0, <2>1, <2>4, <3>2, StillAgrees DEF CounterOK, Over
    <3>4. FrontierUpTo(n, ledger, archive, record) = Frontier(archive)
      <4>1. archive \subseteq {ledger[i] : i \in 1 .. n}
        <5>1. InLedger = Evaluated \cup {current} BY <1>0, <2>1, AppendHolds DEF InLedger, Evaluated
        <5>2. Evaluated = {ledger[i] : i \in 1 .. n} BY <1>0, <2>2 DEF Evaluated
        <5> QED BY <2>1, <5>1, <5>2
      <4>2. {ledger[i] : i \in 1 .. n} \cap archive = archive BY <4>1
      <4> QED BY <4>2, FrontierIs DEF FrontierUpTo
    <3>5. FrontierUpTo(n + 1, ledger, archive', record') = Frontier(archive)'
      <4>1. Frontier(archive)' = FrontierIn(archive', record') BY DEF Frontier, FrontierIn
      <4>2. InLedger = {ledger[i] : i \in 1 .. n + 1} BY <1>0, <2>2 DEF InLedger
      <4>3. current \in InLedger BY <1>0, <2>2, <4>2
      <4>4. archive' \subseteq InLedger BY <2>1, <2>6, <4>3
      <4>5. {ledger[i] : i \in 1 .. n + 1} \cap archive' = archive' BY <4>2, <4>4
      <4> QED BY <4>1, <4>5 DEF FrontierUpTo
    <3>6. FrontierUpTo(n, ledger, archive', record') = Frontier(archive) BY <1>0, <3>2, <3>4
    <3>7. Still(n + 1, stagnant', ledger, archive', record')
      BY <1>0, <2>6, <3>3, <3>5, <3>6, StillGrows
    <3>8. Counted' = n + 1 BY <2>1, <2>2, <2>6 DEF Counted
    <3> QED BY <2>1, <2>4, <2>6, <3>7, <3>8 DEF CounterOK, Over
  <2> QED BY <1>1, <2>5, <2>6 DEF Archive, Raise
<1>2. CASE Append_record
  <2>1. /\ current \in Proposals /\ ledger' = Append(ledger, current) /\ phase' = "archive" /\ phase = "append"
        /\ UNCHANGED <<archive, record, request, stagnant, stop, evaluated>>
    BY <1>2 DEF Append_record, TypeOK, hand, books, inputs
  <2>2. Len(ledger') = Len(ledger) + 1 /\ \A i \in 1 .. Len(ledger) : ledger'[i] = ledger[i]
    BY <1>0, <2>1, AppendHolds
  <2>3. Counted = Len(ledger) /\ Counted' = Len(ledger) BY <1>0, <2>1, <2>2 DEF Counted
  <2>4. \A i \in 0 .. Len(ledger) : FrontierUpTo(i, ledger, archive, record)
                                      = FrontierUpTo(i, ledger', archive, record)
    BY <1>0, <2>2, UpToAgrees
  <2>5. Still(Counted', stagnant', ledger', archive', record')
    BY <1>0, <2>1, <2>3, <2>4, StillAgrees DEF CounterOK, Over
  <2> QED BY <2>1, <2>5 DEF CounterOK, Over
<1>3. CASE Account
  <2>1. /\ phase = "account" /\ ledger = Append(evaluated, current) /\ evaluated' = ledger
        /\ stop = "none" /\ Still(Len(ledger), stagnant, ledger, archive, record)
        /\ UNCHANGED <<ledger, archive, record, request, stagnant>>
        /\ \/ phase' = "raised" /\ stop' = stop
           \/ phase' = "loop" /\ stop' = "none" /\ stagnant < request.window
           \/ phase' = "finish" /\ (stop' = "STAGNATION" => stagnant >= request.window)
    BY <1>0, <1>3 DEF Account, Raise, journal, inputs, HandOK, CounterOK, Counted, Over
  <2>2. stop' = "STAGNATION" => StoodStill(request.window)'
    <3>1. SUFFICES ASSUME stop' = "STAGNATION" PROVE StoodStill(request.window)' OBVIOUS
    <3>2. stagnant >= request.window BY <2>1, <3>1
    <3>3. Stood(Len(ledger), request.window, ledger, archive, record)
      BY <1>0, <2>1, <3>2, StillIsExact
    <3>4. \A i : FrontierAt(i)' = FrontierUpTo(i, ledger, archive, record)
      BY <2>1 DEF FrontierAt, Frontier, FrontierUpTo, FrontierIn
    <3> QED BY <2>1, <3>3, <3>4 DEF StoodStill, Stood
  <2> QED BY <2>1, <2>2 DEF CounterOK, Over, Counted
<1>4. ASSUME UNCHANGED <<ledger, evaluated, archive, record, request>>,
             \/ phase' = phase /\ stop' = stop /\ stagnant' = stagnant
             \/ phase' \in Over /\ phase # "account" /\ (stop' = stop \/ stop' = "BUDGET")
             \/ phase' = "raised" /\ stop' = stop
             \/ /\ phase \in {"plan", "loop"} \cup Asking /\ phase' \in {"loop"} \cup Asking
                /\ stop' = stop /\ stagnant' = stagnant
      PROVE  CounterOK'
  BY <1>4 DEF CounterOK, Over, Asking, Counted, StoodStill, FrontierAt, Frontier
<1>5. CASE Propose BY <1>4, <1>5 DEF Propose, Raise, hand, journal, Over
<1>6. CASE Order \/ BudgetStop \/ Exhausted \/ Recover
  BY <1>4, <1>6 DEF Order, BudgetStop, Exhausted, Recover, hand, journal, books, inputs, Asking, Over
<1>7. ASSUME NEW p \in pending, Reject(p) PROVE CounterOK'
  BY <1>4, <1>7 DEF Reject, hand, journal, inputs
<1>8. ASSUME NEW v \in Evaluations, Evaluate(v) PROVE CounterOK'
  BY <1>4, <1>8 DEF Evaluate, journal, books, inputs, Asking
<1>9. ASSUME NEW p \in pending, NEW s \in Sources, NEW c \in Patches, Materialize(p, s, c)
      PROVE  CounterOK'
  BY <1>4, <1>9 DEF Materialize, Raise, inputs, Asking, Over
<1>10. CASE Finish BY <1>4, <1>10 DEF Finish, Raise, hand, journal, inputs, Over
<1>11. CASE CallbackRaises BY <1>4, <1>11 DEF CallbackRaises, Raise, hand, journal, books, inputs
<1>12. CASE UNCHANGED vars BY <1>4, <1>12 DEF vars, hand, journal, books, inputs
<1> QED BY <1>1, <1>2, <1>3, <1>5, <1>6, <1>7, <1>8, <1>9, <1>10, <1>11, <1>12 DEF Next, Step, Done

-----------------------------------------------------------------------------
(* The selection *)

LEMMA SelectionStep ==
    ASSUME Inv, [Next]_vars
    PROVE  SelectionOK'
<1> USE DEF Inv
<1>1. CASE Finish
  <2>1. /\ UNCHANGED <<archive, record>>
        /\ IF archive = {} THEN selected' = None
           ELSE \E p \in Frontier(archive) :
                   /\ \A q \in Frontier(archive) : record[p].rank <= record[q].rank
                   /\ selected' = p
    BY <1>1 DEF Finish, hand, journal
  <2> QED BY <2>1 DEF SelectionOK, Frontier
<1>2. CASE phase' # "returned" BY <1>2 DEF SelectionOK
<1>3. CASE UNCHANGED vars BY <1>3 DEF SelectionOK, Frontier, vars, hand, journal
<1>4. CASE phase' = "returned" /\ Step /\ ~Finish
  BY <1>3, <1>4
    DEF Step, Propose, Order, BudgetStop, Exhausted, Reject, Materialize, Evaluate, Recover, Append_record,
        Archive, Account, Raise
<1>5. CASE CallbackRaises BY <1>2, <1>5 DEF CallbackRaises, Raise
<1> QED BY <1>1, <1>2, <1>3, <1>4, <1>5 DEF Next, Done

-----------------------------------------------------------------------------
(* The theorems *)

LEMMA InitOK == Init => Inv
<1> SUFFICES ASSUME Init PROVE Inv
  OBVIOUS
<1>1. Nothing \in Amounts /\ NoEvaluation \in Evaluations
      /\ NoEdit \in [source : Sources \cup {None}, patch : Patches \cup {None}]
  BY DEF Nothing, Amounts, NoEvaluation, Evaluations, NoEdit
<1>2. \A r \in Resources : Nothing[r] = 0 BY DEF Nothing
<1> HIDE DEF Nothing, NoEvaluation, NoEdit
<1>3. TypeOK BY <1>1, SearchAssumption DEF Init, TypeOK
<1>4. MoneyOK
  <2>1. \A r \in Resources : request.budget[r] \in Nat BY <1>3, RequestIs DEF Amounts
  <2> QED BY <1>2, <2>1 DEF Init, MoneyOK, InHand, Asking
<1>5. QueueOK /\ ArchiveOK /\ HandOK /\ DistinctEdits /\ SelectionOK
  BY DEF Init, QueueOK, BestFirst, Tried, ArchiveOK, HandOK, DistinctEdits, SelectionOK, InHand, Asking,
         InLedger, Evaluated
<1>6. CounterOK
  <2>1. request.window \in Nat \ {0} BY <1>3, RequestIs
  <2>2. Still(0, 0, ledger, archive, record)
    <3>1. 0 - 0 + 1 .. 0 = {} OBVIOUS
    <3> QED BY <3>1 DEF Still
  <2> QED BY <2>1, <2>2 DEF Init, CounterOK, Counted, Over
<1> QED BY <1>3, <1>4, <1>5, <1>6 DEF Inv

\* In every phase of a run the queue, the ledger, the archive, the books and
\* the counter stand to each other as the loop needs them to.
THEOREM InvHolds == Spec => []Inv
<1>1. Inv /\ [Next]_vars => Inv'
  BY TypeStep, QueueStep, HandStep, ArchiveStep, MoneyStep, EditStep, CounterStep, SelectionStep DEF Inv
<1> QED BY <1>1, InitOK, PTL DEF Spec

\* For any proposals, budgets, metrics and callbacks the loop tries the best
\* first, spends what the request allows before it spends it, evaluates no edit
\* twice, ledgers what it evaluates, and stops for stagnation exactly when the
\* policy's window is reached.
THEOREM LoopIsSound == Spec => []LoopSound
<1>1. Inv => LoopSound
  <2> SUFFICES ASSUME Inv PROVE LoopSound
    OBVIOUS
  <2>1. TypeOK /\ DistinctEdits /\ BestFirst BY DEF Inv, QueueOK
  <2>2. BudgetsKept BY DEF Inv, MoneyOK, BudgetsKept
  <2>3. LedgerComplete BY DEF Inv, HandOK, ArchiveOK, LedgerComplete, Asking
  <2>4. ASSUME phase = "loop" PROVE ~StoodStill(request.window)
    <3>1. /\ request.window \in Nat \ {0} /\ stagnant \in Nat /\ Len(ledger) \in Nat
          /\ ledger = evaluated /\ stagnant < request.window
          /\ Still(Len(ledger), stagnant, ledger, archive, record)
      BY <2>4, RequestIs DEF Inv, TypeOK, HandOK, CounterOK, Counted, Over, Asking
    <3>2. ~ stagnant >= request.window BY <3>1
    <3> QED BY <3>1, <3>2, StillIsExact, StoodStillIs
  <2>5. StagnationExact BY <2>4 DEF Inv, CounterOK, StagnationExact
  <2> QED BY <2>1, <2>2, <2>3, <2>5 DEF LoopSound
<1> QED BY <1>1, InvHolds, PTL

\* Whatever is measured, and however many candidates there are: each feasible
\* one is on the frontier or dominated by one that is, and the selected one is
\* on it and of the best policy rank.
THEOREM FrontierIsSound == Spec => []FrontierSound
<1>1. Inv => FrontierSound
  <2> SUFFICES ASSUME Inv PROVE FrontierSound
    OBVIOUS
  <2>1. IsFiniteSet(archive)
    <3>1. ledger \in Seq(Proposals) /\ archive \subseteq InLedger BY DEF Inv, TypeOK, ArchiveOK
    <3>2. IsFiniteSet(InLedger)
      <4>1. IsFiniteSet(1 .. Len(ledger)) BY <3>1, FS_Interval
      <4>2. InLedger = {ledger[i] : i \in 1 .. Len(ledger)} BY <3>1 DEF InLedger
      <4>3. ledger \in Surjection(1 .. Len(ledger), InLedger)
        BY <3>1, <4>2 DEF Surjection
      <4> QED BY <4>1, <4>3, FS_Surjection
    <3> QED BY <3>1, <3>2, FS_Subset
  <2>2. \A p \in archive : record[p].vector \in [Metrics -> Nat]
    BY SearchAssumption DEF Inv, ArchiveOK, Records
  <2>3. \A p \in archive : \/ p \in Frontier(archive)
                           \/ \E q \in Frontier(archive) :
                                 Dominates(record[q].vector, record[p].vector)
    BY <2>1, <2>2, FrontierCovers, FrontierIs
  <2> QED BY <2>3 DEF Inv, SelectionOK, FrontierSound
<1> QED BY <1>1, InvHolds, PTL

=============================================================================
