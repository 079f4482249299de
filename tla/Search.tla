------------------------------- MODULE Search -------------------------------
(***************************************************************************)
(* search/controller.py, SearchController.run, with the Pareto archive     *)
(* (search/pareto.py) and the candidate DAG (search/dag.py) it fills.  A   *)
(* run asks a planner for proposals, one opportunity at a time, orders and *)
(* deduplicates them, and then materializes, evaluates, recovers, ledgers  *)
(* and ranks one after the other until they, a budget or the stop policy   *)
(* give out.  Planner, materializer, evaluator and recovery handler are    *)
(* callbacks: what they return, and that they may raise, is left open.  An *)
(* exception ends the run, but the ledger it wrote to stays.               *)
(* A candidate is named by the proposal it came from.  One correctness     *)
(* partition of the archive is modelled, that of the request.              *)
(***************************************************************************)
EXTENDS Naturals, Sequences, FiniteSets

CONSTANTS Proposals,   \* what a planner may propose
          Opportunity, \* proposal -> the position of its opportunity
          Rank,        \* proposal -> its place by (-priority, seeded tie key, id)
          Hash,        \* proposal -> proposal_hash, which leaves the id out
          Parent,      \* proposal -> the candidate it edits, or Root
          Cost,        \* proposal -> what the evaluator estimates
          Root, None,
          Opportunities, \* how many the request orders
          PlannerCosts,  \* what one batch may consume
          Requests,      \* budgets and stop policy
          Sources, Patches,        \* identities of materialized edits
          Metrics, Maximize, Vectors, PolicyRanks, Identities

Resources == {"candidates", "formal", "physical", "tokens", "latency"}

Amounts == [Resources -> Nat]

\* EvaluationCost: a candidate that runs a physical job runs a formal one.
CostAssumption == /\ Cost \in [Proposals -> Amounts]
                  /\ \A p \in Proposals : Cost[p]["candidates"] = 1
                  /\ \A p \in Proposals : Cost[p]["physical"] <= Cost[p]["formal"]

\* SearchRequest and the SearchStopPolicy it binds.
RequestAssumption ==
    Requests \subseteq
        {r \in [budget : Amounts, window : Nat \ {0}, firstFeasible : BOOLEAN, recovery : BOOLEAN] :
            /\ \A x \in Resources : r.budget[x] > 0
            /\ r.budget["physical"] <= r.budget["formal"]
            /\ r.budget["formal"] <= r.budget["candidates"]}

\* Rank is a total order: the key ends with the proposal id.
RankAssumption == /\ Rank \in [Proposals -> Nat]
                  /\ \A p, q \in Proposals : Rank[p] = Rank[q] => p = q

ASSUME SearchAssumption ==
    /\ RankAssumption /\ Opportunities \in Nat \ {0}
    /\ Opportunity \in [Proposals -> 1 .. Opportunities]
    /\ Parent \in [Proposals -> Proposals \cup {Root}]
    /\ None \notin Proposals /\ Root \notin Proposals
    /\ Vectors \subseteq [Metrics -> Nat] /\ PolicyRanks \subseteq Nat \ {0}
    /\ PlannerCosts \subseteq {c \in Amounts :
                                  \A r \in Resources \ {"tokens", "latency"} : c[r] = 0}

ASSUME SearchCosts == CostAssumption /\ RequestAssumption

Records == [vector : Vectors, rank : PolicyRanks, identity : Identities]

VARIABLES
    request,     \* the request and the stop policy
    phase, error,
    asked,       \* opportunities planned so far
    proposals,   \* what the planner returned
    unique,      \* ... without the repetitions
    pending,     \* the ones the loop has not reached
    current,     \* the proposal in hand
    verdict,     \* the evaluation in hand
    edit,        \* candidate -> its source and patch identity
    record,      \* candidate -> its Pareto record
    dag, archive,
    ledger,      \* candidates with an experiment record, in order
    recovered,   \* candidates whose record carries a recovery decision
    evaluated,   \* evaluated_ids
    used,        \* ConsumedSearchBudgets
    granted,     \* what the evaluator was authorized to spend
    rejected,    \* proposals without a safe source match
    dropped,     \* proposals whose edit was seen before
    disposition,
    stagnant,    \* candidates_without_improvement
    stop,        \* why the loop ended
    selected

inputs == <<request, asked, proposals, unique>>
journal == <<dag, archive, ledger, recovered>>
books == <<evaluated, used, granted, rejected, dropped, disposition, stagnant>>
hand == <<current, verdict, edit, record>>
vars == <<inputs, phase, error, pending, hand, journal, books, stop, selected>>

NoEvaluation == [record |-> None, eligible |-> FALSE]

NoEdit == [source |-> None, patch |-> None]

Nothing == [r \in Resources |-> 0]

Plus(a, b) == [r \in Resources |-> a[r] + b[r]]

-----------------------------------------------------------------------------
(* The Pareto archive *)

NoWorse(n, a, b) == IF n \in Maximize THEN a[n] >= b[n] ELSE a[n] <= b[n]

Better(n, a, b) == IF n \in Maximize THEN a[n] > b[n] ELSE a[n] < b[n]

\* Faulty variant: equal vectors dominate each other.
DominatesWeakly(a, b) == \A n \in Metrics : NoWorse(n, a, b)

Dominates(a, b) == /\ \A n \in Metrics : NoWorse(n, a, b)
                   /\ \E n \in Metrics : Better(n, a, b)

Frontier(A) ==
    {p \in A : ~ \E q \in A \ {p} : Dominates(record[q].vector, record[p].vector)}

-----------------------------------------------------------------------------
(* SearchController.run *)

\* ParetoArchive.add refuses a record measured under another identity than the
\* ones already there.
Comparable(r) == \A q \in archive : record[q].identity = r.identity

Init ==
    /\ request \in Requests
    /\ phase = "plan" /\ error = "none"
    /\ asked = 0 /\ proposals = {} /\ unique = {} /\ pending = {}
    /\ current = None /\ verdict = NoEvaluation
    /\ edit = [p \in Proposals |-> NoEdit]
    /\ record = [p \in Proposals |-> None]
    /\ dag = {} /\ archive = {} /\ ledger = <<>> /\ recovered = {}
    /\ evaluated = <<>> /\ used = Nothing /\ granted = Nothing
    /\ rejected = {} /\ dropped = {} /\ disposition = [p \in Proposals |-> None] /\ stagnant = 0
    /\ stop = "none" /\ selected = None

Raise(why) == phase' = "raised" /\ error' = why

\* One batch of the planner, within what the request allows it in all.
Propose ==
    /\ phase = "plan" /\ asked < Opportunities
    /\ \E batch \in SUBSET {p \in Proposals : Opportunity[p] = asked + 1}, c \in PlannerCosts :
          /\ used' = Plus(used, c)
          /\ granted' = used'
          /\ asked' = asked + 1
          /\ IF \E r \in {"tokens", "latency"} : used'[r] > request.budget[r]
             THEN Raise("planner") /\ UNCHANGED proposals
             ELSE proposals' = proposals \cup batch /\ UNCHANGED <<phase, error>>
    /\ UNCHANGED <<request, unique, pending, hand, journal, evaluated, rejected, dropped,
                   disposition, stagnant, stop, selected>>

\* Of the proposals that differ only in their id, the one that sorts first.
Order ==
    /\ phase = "plan" /\ asked = Opportunities
    /\ unique' = {p \in proposals :
                     ~ \E q \in proposals : Hash[q] = Hash[p] /\ Rank[q] < Rank[p]}
    /\ pending' = unique'
    /\ phase' = "loop"
    /\ UNCHANGED <<request, asked, proposals, error, hand, journal, books, stop, selected>>

Fits(p) == \A r \in Resources : used[r] + Cost[p][r] <= request.budget[r]

IsNext(p) == p \in pending /\ \A q \in pending : Rank[p] <= Rank[q]

BudgetStop ==
    \E p \in pending :
        /\ phase = "loop" /\ IsNext(p) /\ ~Fits(p)
        /\ stop' = "BUDGET" /\ phase' = "finish"
        /\ UNCHANGED <<inputs, error, pending, hand, journal, books, selected>>

Exhausted ==
    /\ phase = "loop" /\ pending = {}
    /\ phase' = "finish"
    /\ UNCHANGED <<inputs, error, pending, hand, journal, books, stop, selected>>

\* No safe source matches: the proposal costs nothing.
Reject(p) ==
    /\ phase = "loop" /\ IsNext(p) /\ Fits(p)
    /\ pending' = pending \ {p}
    /\ rejected' = rejected \cup {p}
    /\ disposition' = [disposition EXCEPT ![p] = "NO_SAFE_SOURCE_MATCH"]
    /\ UNCHANGED <<inputs, phase, error, hand, journal, evaluated, used, granted, dropped, stagnant,
                   stop, selected>>

\* source_hashes and patch_hashes hold the identities of the DAG's candidates.
Seen(s, c) == \E q \in dag : edit[q].source = s \/ edit[q].patch = c

\* CandidateDag.add
KnownParent(p) == Parent[p] \in dag \cup {Root}

\* The materialized edit: dropped without a disposition when it was seen,
\* refused by the DAG when its parent is not there, evaluated otherwise.
Materialize(p, s, c) ==
    /\ phase = "loop" /\ IsNext(p) /\ Fits(p)
    /\ pending' = pending \ {p}
    /\ IF Seen(s, c)
       THEN dropped' = dropped \cup {p} /\ UNCHANGED <<phase, error, current, edit, dag, granted>>
       ELSE IF ~KnownParent(p)
       THEN Raise("lineage") /\ UNCHANGED <<dropped, current, edit, dag, granted>>
       ELSE /\ dag' = dag \cup {p}
            /\ edit' = [edit EXCEPT ![p] = [source |-> s, patch |-> c]]
            /\ current' = p
            /\ granted' = Plus(granted, Cost[p])
            /\ phase' = "evaluate"
            /\ UNCHANGED <<error, dropped>>
    /\ UNCHANGED <<inputs, verdict, record, archive, ledger, recovered, evaluated, used,
                   rejected, disposition, stagnant, stop, selected>>

\* Recovery is asked about every disposition but FEASIBLE_PARETO and SELECTED.
Evaluate(v) ==
    /\ phase = "evaluate"
    /\ verdict' = v
    /\ phase' = IF v.eligible /\ request.recovery THEN "recover" ELSE "append"
    /\ UNCHANGED <<inputs, error, pending, current, edit, record, journal, books, stop, selected>>

Recover ==
    /\ phase = "recover"
    /\ recovered' = recovered \cup {current}
    /\ phase' = "append"
    /\ UNCHANGED <<inputs, error, pending, hand, dag, archive, ledger, books, stop, selected>>

\* A callback raises, or breaks its contract: another candidate's identity, a
\* cost other than the estimate; or the ledger does.
CallbackRaises ==
    /\ \/ phase = "plan" /\ asked < Opportunities
       \/ phase = "loop" /\ pending # {}
       \/ phase \in {"evaluate", "recover", "append"}
    /\ Raise("callback")
    /\ UNCHANGED <<inputs, pending, hand, journal, books, stop, selected>>

Append_record ==
    /\ phase = "append"
    /\ ledger' = Append(ledger, current)
    /\ phase' = "archive"
    /\ UNCHANGED <<inputs, error, pending, hand, dag, archive, recovered, books, stop, selected>>

\* Faulty variant: an improvement does not reset the counter.
ArchiveNeverReset ==
    /\ phase = "archive"
    /\ record' = [record EXCEPT ![current] = verdict.record]
    /\ archive' = IF verdict.record # None THEN archive \cup {current} ELSE archive
    /\ stagnant' = stagnant + 1
    /\ phase' = "account"
    /\ UNCHANGED <<inputs, error, pending, current, verdict, edit, dag, ledger, recovered,
                   evaluated, used, granted, rejected, dropped, disposition, stop, selected>>

\* The counter starts again whenever the frontier changed.
Archive ==
    /\ phase = "archive"
    /\ record' = [record EXCEPT ![current] = verdict.record]
    /\ IF verdict.record # None /\ ~Comparable(verdict.record)
       THEN Raise("incomparable") /\ UNCHANGED <<archive, stagnant>>
       ELSE /\ archive' = IF verdict.record # None THEN archive \cup {current} ELSE archive
            /\ stagnant' = IF Frontier(archive)' # Frontier(archive) THEN 0 ELSE stagnant + 1
            /\ phase' = "account"
            /\ UNCHANGED error
    /\ UNCHANGED <<inputs, pending, current, verdict, edit, dag, ledger, recovered,
                   evaluated, used, granted, rejected, dropped, disposition, stop, selected>>

\* The books: ConsumedSearchBudgets refuses more formal jobs than candidates.
\* Then the stop policy.
Account ==
    LET total == Plus(used, Cost[current])
        feasible == verdict.record # None IN
    /\ phase = "account"
    /\ evaluated' = Append(evaluated, current)
    /\ disposition' = [disposition EXCEPT ![current] = "EVALUATED"]
    /\ IF total["physical"] > total["formal"] \/ total["formal"] > total["candidates"]
       THEN Raise("cascade") /\ UNCHANGED <<used, stop>>
       ELSE /\ used' = total
            /\ stop' = IF feasible /\ request.firstFeasible THEN "FIRST_FEASIBLE"
                       ELSE IF stagnant >= request.window THEN "STAGNATION" ELSE "none"
            /\ phase' = IF stop' = "none" THEN "loop" ELSE "finish"
            /\ UNCHANGED error
    /\ current' = None /\ verdict' = NoEvaluation
    /\ UNCHANGED <<inputs, pending, edit, record, journal, granted, rejected, dropped,
                   stagnant, selected>>

\* What becomes of the proposals without a disposition.
Leftover == CASE stop \in {"FIRST_FEASIBLE", "STAGNATION"} -> "NOT_ATTEMPTED_POLICY"
              [] stop = "BUDGET" -> "NOT_ATTEMPTED_BUDGET"
              [] OTHER -> "NO_SAFE_SOURCE_MATCH"

\* The SearchTrace validator on the dispositions d.
TraceCoherent(d) == rejected = {p \in unique : d[p] = "NO_SAFE_SOURCE_MATCH"}

\* The selection (of several with one rank, the code takes the smallest id),
\* and the SearchTrace, which may refuse itself.
Finish ==
    /\ phase = "finish"
    /\ disposition' = [p \in Proposals |-> IF p \in unique /\ disposition[p] = None
                                           THEN Leftover ELSE disposition[p]]
    /\ IF archive = {} THEN selected' = None
       ELSE \E p \in Frontier(archive) :
               /\ \A q \in Frontier(archive) : record[p].rank <= record[q].rank
               /\ selected' = p
    /\ IF ~TraceCoherent(disposition')
       THEN Raise("trace") ELSE phase' = "returned" /\ UNCHANGED error
    /\ UNCHANGED <<inputs, pending, hand, journal, evaluated, used, granted, rejected, dropped,
                   stagnant, stop>>

\* A run that ended stays as it is.
Done == phase \in {"returned", "raised"} /\ UNCHANGED vars

Evaluations == [record : Records \cup {None}, eligible : BOOLEAN]

Step == \/ Propose \/ Order \/ BudgetStop \/ Exhausted
        \/ \E p \in pending : \/ Reject(p)
                              \/ \E s \in Sources, c \in Patches : Materialize(p, s, c)
        \/ \E v \in Evaluations : Evaluate(v)
        \/ Recover \/ Append_record \/ Archive \/ Account \/ Finish

Next == Step \/ CallbackRaises \/ Done

Spec == Init /\ [][Next]_vars

-----------------------------------------------------------------------------
(* Properties *)

InLedger == {ledger[i] : i \in DOMAIN ledger}

TypeOK ==
    /\ request \in Requests
    /\ phase \in {"plan", "loop", "evaluate", "recover", "append", "archive", "account",
                  "finish", "returned", "raised"}
    /\ error \in {"none", "planner", "lineage", "callback", "incomparable", "cascade", "trace"}
    /\ asked \in 0 .. Opportunities
    /\ unique \subseteq proposals /\ proposals \subseteq Proposals /\ pending \subseteq unique
    /\ current \in Proposals \cup {None} /\ verdict \in Evaluations
    /\ edit \in [Proposals -> [source : Sources \cup {None}, patch : Patches \cup {None}]]
    /\ record \in [Proposals -> Records \cup {None}]
    /\ dag \subseteq Proposals /\ archive \subseteq Proposals /\ recovered \subseteq Proposals
    /\ ledger \in Seq(Proposals) /\ evaluated \in Seq(Proposals)
    /\ used \in Amounts /\ granted \in Amounts
    /\ rejected \subseteq Proposals /\ dropped \subseteq Proposals /\ stagnant \in Nat
    /\ disposition \in [Proposals -> {None, "EVALUATED", "NO_SAFE_SOURCE_MATCH",
                                      "NOT_ATTEMPTED_POLICY", "NOT_ATTEMPTED_BUDGET"}]
    /\ stop \in {"none", "BUDGET", "FIRST_FEASIBLE", "STAGNATION"}
    /\ selected \in Proposals \cup {None}
    /\ phase \in {"evaluate", "recover", "append", "archive", "account"} => current # None

\* Budgets are checked before execution: what the evaluator was ever authorized
\* to spend is within every budget, in runs that raise half-way too, and a
\* returned result reports exactly that.
BudgetsKept ==
    /\ error # "planner" => \A r \in Resources : granted[r] <= request.budget[r]
    /\ phase = "returned" => used = granted

\* No edit is evaluated twice: two candidates of the DAG share neither the
\* resulting source nor the patch.
DistinctEdits == \A p, q \in dag : p # q => /\ edit[p].source # edit[q].source
                                           /\ edit[p].patch # edit[q].patch

\* The ledger is never behind the archive, and a run that ends, however it
\* ends, left at most the candidate in hand without an experiment record; a
\* returned result lists exactly the candidates of the ledger, in its order.
LedgerComplete ==
    /\ archive \subseteq InLedger
    /\ dag \ InLedger \subseteq {current}
    /\ phase = "returned" => ledger = evaluated

\* Every feasible candidate is on the frontier or dominated by one that is; the
\* selected one is on it and of the best policy rank.
FrontierSound ==
    /\ \A p \in archive : \/ p \in Frontier(archive)
                          \/ \E q \in Frontier(archive) :
                                Dominates(record[q].vector, record[p].vector)
    /\ phase = "returned" /\ archive # {} =>
          /\ selected \in Frontier(archive)
          /\ \A q \in Frontier(archive) : record[selected].rank <= record[q].rank

\* The frontier after the first k evaluations.
FrontierAt(k) == Frontier({evaluated[i] : i \in 1 .. k} \cap archive)

\* The last n evaluations left the frontier as it was.
StoodStill(n) == /\ Len(evaluated) >= n
                 /\ \A i \in Len(evaluated) - n + 1 .. Len(evaluated) :
                       FrontierAt(i) = FrontierAt(i - 1)

\* The search stops for stagnation exactly when as many candidates in a row as
\* the policy's window left the frontier unchanged.
StagnationExact ==
    /\ stop = "STAGNATION" => StoodStill(request.window)
    /\ phase = "loop" => ~StoodStill(request.window)

\* Best first: no proposal is tried before a better ranked one was, so that
\* what is left for lack of budget is always the tail of the queue.
Tried == dag \cup rejected \cup dropped

BestFirst == \A p, q \in unique : q \in Tried /\ Rank[p] < Rank[q] => p \in Tried

\* The loop of SearchController.run keeps its books through budget stops,
\* repeated edits and callbacks that raise: it tries the best first, spends
\* within the request, ledgers what it evaluates and stops when it stagnates.
LoopSound ==
    TypeOK /\ BudgetsKept /\ DistinctEdits /\ LedgerComplete /\ StagnationExact /\ BestFirst

=============================================================================
