------------------------------- MODULE Planner -------------------------------
(***************************************************************************)
(* The planners of src/nova_rtl/planner, asked for proposals for one       *)
(* opportunity: the heuristic, the single agent with its one repair, and   *)
(* the council of two blinded proposers, two critics and a chair.  Models  *)
(* answer in any order, late, out of budget, malformed or not at all; what *)
(* they say is advice that is checked, and a planner that cannot use it    *)
(* falls back on the heuristic.  An error no handler turns into a result   *)
(* leaves propose ("raised").  planner_flow.py and council_showcase.py     *)
(* build a planner and a provider for every request: one request is all a  *)
(* behaviour needs.                                                        *)
(***************************************************************************)
EXTENDS Naturals, FiniteSets, FiniteSetsExt, SequencesExt

CONSTANTS Proposals,   \* what a model or the search plan may propose
          Id, Edit,    \* its identifier; what it changes, whoever proposes it
          Authorized,  \* proposals the opportunity and the registry allow
          Planned,     \* the proposals of the search plan, in order of identifier
          Advice,      \* lists of proposals a model may answer
          Evidence,    \* evidence of the opportunity, by identifier
          Grants,      \* role -> evidence it may read, of this snapshot
          Objections,  \* identifiers of objections
          Tokens,      \* tokens one answer may take
          Budget,      \* tokens of a request, and of a round
          AnswerBudget, \* tokens of an answer of the provider
          Limit,       \* proposals a request asks for
          MaxFinal,    \* proposals the council policy allows
          None

Proposers == {"timing_forensics", "domain"}
Critics == {"formal_critic", "ppa_critic"}
Chair == {"proposal_chair"}
Classes == {"FORMAL", "PPA"}

ASSUME PlannerAssumption ==
    /\ Id \in [Proposals -> Nat] /\ Authorized \subseteq Proposals
    /\ Planned \in Seq(Proposals) /\ Advice \subseteq Seq(Proposals)
    /\ Grants \in [Proposers -> SUBSET Evidence]
    /\ Tokens \subseteq Nat /\ {Budget, AnswerBudget, Limit, MaxFinal} \subseteq Nat \ {0}

\* What a role of the council answered, and the tokens it took: proposals, a
\* critic's reports or a chair's verdict, and None for no usable output.  A call
\* still open has None for an outcome, which is none of these.
Outcomes ==
    [output : Advice \cup {None}
              \cup (SUBSET [class : Classes, card : Proposals, objection : Objections \cup {None}])
              \cup [disposed : SUBSET Objections, revisions : {0, 2}, final : Seq(Nat)],
     tokens : Nat]

ASSUME NoneAssumption == None \notin Outcomes

VARIABLES
    mode,      \* planner asked
    pc,        \* where propose is
    attempts,  \* answers the provider has
    results,   \* results of the provider, in order
    private,   \* role -> evidence its context request names
    audit,     \* retrievals granted and denied: role, evidence, decision
    answers,   \* role of the round under way -> its outcome
    tokens,    \* tokens of the rounds that are over
    cards,     \* neutral proposals, one for each edit
    reviews,   \* reports of the critics
    result,    \* the PlannerResult, with the proposals it resolves to
    spent      \* tokens the models took for this request (history)

deliberation == <<answers, tokens, cards, reviews>>
context == <<private, audit>>
vars == <<mode, pc, attempts, results, context, deliberation, result, spent>>

Init ==
    /\ mode = "HEURISTIC" /\ pc = "idle" /\ attempts = 1 /\ results = <<>>
    /\ private = [r \in Proposers |-> {}] /\ audit = {}
    /\ answers = <<>> /\ tokens = 0 /\ cards = {} /\ reviews = {}
    /\ result = None /\ spent = 0

-----------------------------------------------------------------------------
(* Results *)

Result(status, list, fallback, used) ==
    [status |-> status, proposals |-> list, fallback |-> fallback, tokens |-> used]

Leading(list, n) == SubSeq(list, 1, Min({n, Len(list)}))

\* Faulty variant: the plan's proposals are taken as they are.
SafePlanUnchecked == Leading(Planned, Limit)

\* The safe ones of the first n proposals of the plan.
Safe[n \in 0 .. Len(Planned)] ==
    IF n = 0 THEN <<>>
    ELSE IF Planned[n] \in Authorized THEN Append(Safe[n - 1], Planned[n]) ELSE Safe[n - 1]

\* HeuristicPlanner.propose: the first of the plan's proposals that are safe.
SafePlan == Leading(Safe[Len(Planned)], Limit)

PassUnlessEmpty(list) == IF list = <<>> THEN "NO_SAFE_PROPOSAL" ELSE "PASS"

\* PlannerResult refuses two proposals of one identifier.
UniqueIds(list) == \A i, j \in DOMAIN list : Id[list[i]] = Id[list[j]] => i = j

\* Faulty variant: the last attempt alone is accounted for.
UsedLast(s) == IF s = <<>> THEN 0 ELSE Last(s).tokens
Used(s) == FoldSeq(LAMBDA r, n : r.tokens + n, 0, s)

Finish(r) == result' = r /\ pc' = "done"
Raise == pc' = "raised" /\ UNCHANGED result

\* SingleAgentPlanner._fallback.
FallBack == Finish(Result(PassUnlessEmpty(SafePlan), SafePlan, TRUE, Used(results')))

\* CouncilPlanner._fallback: the failure is kept, with no tokens.
CouncilFallsBack == Finish(Result("PARTIAL", SafePlan, TRUE, 0))

SemanticErrors(list) == {i \in DOMAIN list : list[i] \notin Authorized}

\* The first Limit proposals are taken, if every one of them is authorized.
Accept(list) ==
    LET taken == Leading(list, Limit) IN
    IF SemanticErrors(taken) # {} THEN FallBack
    ELSE IF UniqueIds(taken)
         THEN Finish(Result(PassUnlessEmpty(taken), taken, FALSE, Used(results')))
    ELSE Raise

-----------------------------------------------------------------------------
(* Requests and contexts *)

Propose(m) ==
    /\ pc = "idle"
    /\ mode' = m
    /\ pc' = IF m = "HEURISTIC" THEN "plan" ELSE "context"
    /\ attempts' \in IF m = "SINGLE_AGENT" THEN 1 .. 2 ELSE {1}
    /\ private' \in IF m = "HEURISTIC" THEN {[r \in Proposers |-> {}]}
                    ELSE [Proposers -> SUBSET Evidence]
    /\ UNCHANGED <<results, audit, deliberation, result, spent>>

Plan ==
    /\ pc = "plan"
    /\ Finish(Result(PassUnlessEmpty(SafePlan), SafePlan, FALSE, 0))
    /\ UNCHANGED <<mode, attempts, results, context, deliberation, spent>>

Readable(r) == private[r] \subseteq Grants[r]

\* InMemoryEvidenceProvider.fetch: every item is audited, in order of its
\* identifier, up to the first denied.
Audited(r) ==
    LET denied == private[r] \ Grants[r] IN
    {[role |-> r, item |-> i, granted |-> i \notin denied] :
        i \in {i \in private[r] : \A d \in denied : i <= d}}

SingleContext ==
    /\ pc = "context" /\ mode = "SINGLE_AGENT"
    /\ audit' = Audited("domain")
    /\ IF Readable("domain") THEN pc' = "generate" /\ UNCHANGED result ELSE Raise
    /\ UNCHANGED <<mode, attempts, results, private, deliberation, spent>>

\* Faulty variant: proposers may be given the same evidence.
OverlapIgnored == FALSE
Overlap == \E q, r \in Proposers : q # r /\ private[q] \cap private[r] # {}

Round(roles) == [r \in roles |-> None]

\* build_blinded_proposer_contexts: requests that overlap are refused before
\* anything is read and the council falls back; a denied retrieval is an error
\* that propose does not catch.
CouncilContexts ==
    /\ pc = "context" /\ mode = "AGENT_COUNCIL"
    /\ \/ Overlap /\ CouncilFallsBack /\ UNCHANGED <<audit, answers>>
       \/ /\ ~Overlap
          /\ audit' = Audited("timing_forensics")
                      \cup (IF Readable("timing_forensics") THEN Audited("domain") ELSE {})
          /\ IF \A r \in Proposers : Readable(r)
             THEN pc' = "round" /\ answers' = Round(Proposers) /\ UNCHANGED result
             ELSE Raise /\ UNCHANGED answers
    /\ UNCHANGED <<mode, attempts, results, private, tokens, cards, reviews, spent>>

-----------------------------------------------------------------------------
(* The single agent *)

\* What the provider has recorded for an attempt: a list, an object that is
\* no list of proposals, or a failure.
Attempt(status, output, n) == [status |-> status, output |-> output, tokens |-> n]

Recorded == {"PASS"} \X Advice \cup {"MALFORMED", "PROVIDER_ERROR"} \X {None}

\* RecordedStructuredModelProvider.generate: past its attempts the provider
\* answers nothing; an answer too long or too late loses its output.
Answered(response, n, late) ==
    IF Len(results) >= attempts THEN Attempt("PROVIDER_ERROR", None, 0)
    ELSE IF n > AnswerBudget THEN Attempt("BUDGET_EXHAUSTED", None, n)
    ELSE IF late THEN Attempt("TIMEOUT", None, n)
    ELSE Attempt(response[1], response[2], n)

\* One answer of the provider; its output is used, repaired once or given up.
Generate ==
    /\ pc \in {"generate", "repair"}
    /\ \E response \in Recorded, n \in Tokens, late \in BOOLEAN :
          LET a == Answered(response, n, late)
              repairable == a.status = "MALFORMED" /\ pc = "generate" IN
          /\ results' = Append(results, a)
          /\ spent' = spent + a.tokens
          /\ \/ a.status = "PASS" /\ Accept(a.output)
             \/ repairable /\ pc' = "repair" /\ UNCHANGED result
             \/ a.status # "PASS" /\ ~repairable /\ FallBack
    /\ UNCHANGED <<mode, attempts, context, deliberation>>

-----------------------------------------------------------------------------
(* The council *)

Roles == DOMAIN answers
Open(r) == r \in Roles /\ answers[r] = None

RoleBudget(r) == IF r \in Proposers THEN Budget \div 2 ELSE Budget \div 4

\* What a role answered; None when it failed or its output is no answer.
Outcome(output, n) == [output |-> output, tokens |-> n]
Failed(n) == Outcome(None, n)

\* A critic's reports on the cards, in either class or both, whatever its role,
\* with at most one objection.
Reports(seen) ==
    {{}} \cup {{[class |-> k, card |-> c, objection |-> IF c = about THEN o ELSE None] :
                  k \in ks, c \in seen} :
               ks \in SUBSET Classes, about \in seen, o \in Objections \cup {None}}

\* What a chair may say: the objections it disposes of, how many revisions it
\* makes, and the identifiers it selects, one of them nobody's.
Verdicts ==
    [disposed : SUBSET Objections, revisions : {0, 2},
     final : {<<>>, <<0>>} \cup BoundedSeq({Id[p] : p \in cards}, 2)]

Said(r) == IF r \in Proposers THEN Advice
           ELSE IF r \in Critics THEN Reports(cards) ELSE Verdicts

\* A role answers, in any order within its round.
Answer(r) ==
    /\ pc = "round" /\ Open(r)
    /\ \E n \in Tokens, output \in Said(r) \cup {None} :
          /\ answers' = [answers EXCEPT ![r] = Outcome(output, n)]
          /\ spent' = spent + n
    /\ UNCHANGED <<mode, pc, attempts, results, context, tokens, cards, reviews, result>>

\* Faulty variant: a round waits for ever.
DeadlineNever == FALSE /\ UNCHANGED vars

\* asyncio.timeout: the calls still open are cancelled.
Deadline ==
    /\ pc = "round" /\ \E r \in Roles : Open(r)
    /\ CouncilFallsBack
    /\ answers' = [r \in Roles |-> IF Open(r) THEN Failed(0) ELSE answers[r]]
    /\ UNCHANGED <<mode, attempts, results, context, tokens, cards, reviews, spent>>

\* The invoker raises: an error of the council's, or any other.  gather leaves
\* the calls of the other roles running.
Break(r) ==
    /\ pc = "round" /\ Open(r)
    /\ CouncilFallsBack \/ Raise
    /\ answers' = [answers EXCEPT ![r] = Failed(0)]
    /\ UNCHANGED <<mode, attempts, results, context, tokens, cards, reviews, spent>>

\* A call left running takes its tokens after propose has returned.
AnswerLate(r) ==
    /\ pc \in {"done", "raised"} /\ Open(r)
    /\ \E n \in Tokens : spent' = spent + n /\ answers' = [answers EXCEPT ![r] = Failed(n)]
    /\ UNCHANGED <<mode, pc, attempts, results, context, tokens, cards, reviews, result>>

RoundTokens == MapThenSumSet(LAMBDA r : answers[r].tokens, Roles)

\* run_role_round: the budgets, looked at once every role has answered.
WithinBudgets ==
    RoundTokens <= Budget /\ \A r \in Roles : answers[r].tokens <= RoleBudget(r)

Usable == WithinBudgets /\ \A r \in Roles : answers[r].output # None

RoundOver(roles) == pc = "round" /\ Roles = roles /\ \A r \in Roles : answers[r] # None

NextRound(roles) == answers' = Round(roles) /\ tokens' = tokens + RoundTokens

GiveUp == CouncilFallsBack /\ UNCHANGED <<answers, tokens>>

\* The cards: of the proposals with one edit the one with the least identifier.
Normalized(ps) == {p \in ps : \A q \in ps : Edit[q] = Edit[p] => Id[q] >= Id[p]}

\* _proposal_is_authorized: the same authority, an opportunity's contract implying
\* the two conditions it leaves out.
Unauthorized(ps) == ps \ Authorized

Proposed == UNION {ToSet(answers[r].output) : r \in Proposers}

AfterProposers ==
    /\ RoundOver(Proposers)
    /\ IF Usable /\ Proposed # {} /\ Unauthorized(Proposed) = {}
       THEN /\ cards' = Normalized(Proposed)
            /\ NextRound(Critics) /\ UNCHANGED <<pc, result>>
       ELSE GiveUp /\ UNCHANGED cards
    /\ UNCHANGED <<mode, attempts, results, context, reviews, spent>>

AfterCritics ==
    /\ RoundOver(Critics)
    /\ IF Usable
       THEN /\ reviews' = UNION {{[by |-> r, report |-> x] : x \in answers[r].output} : r \in Critics}
            /\ NextRound(Chair) /\ UNCHANGED <<pc, result>>
       ELSE GiveUp /\ UNCHANGED reviews
    /\ UNCHANGED <<mode, attempts, results, context, cards, spent>>

Raised == {x \in reviews : x.report.objection # None}
Objected == {x.report.objection : x \in Raised}
ReviewedAs == {<<x.report.card, x.report.class>> : x \in reviews}

\* Faulty variant: one of the two classes will do.
FullyReviewedOnce == \A c \in cards : \E k \in Classes : <<c, k>> \in ReviewedAs
FullyReviewed == ReviewedAs = cards \X Classes

\* build_council_shortlist, and the chair may select no revised proposal.
Shortlists(v) ==
    /\ v.revisions <= 1
    /\ Len(v.final) <= MaxFinal /\ IsInjective(v.final)
    /\ FullyReviewed
    /\ v.disposed = Objected
    /\ ToSet(v.final) \subseteq {Id[p] : p \in cards}

\* CouncilResult: identifiers of cards and of objections are unique.
Contract ==
    /\ IsInjective([c \in cards |-> Id[c]])
    /\ IsInjective([x \in Raised |-> x.report.objection])

Resolve(ids) == [i \in DOMAIN ids |-> CHOOSE p \in cards : Id[p] = ids[i]]

\* Faulty variant: the budgets of the rounds are thought to be enough.
WithinRequestUnchecked == TRUE
WithinRequest == tokens + RoundTokens <= Budget

\* A result its contract refuses is an error that propose does not catch.
AfterChair ==
    /\ RoundOver(Chair)
    /\ LET v == answers["proposal_chair"].output
           list == Resolve(v.final) IN
       IF Usable /\ Shortlists(v) /\ WithinRequest
       THEN IF Contract THEN Finish(Result(PassUnlessEmpty(list), list, FALSE, tokens + RoundTokens))
            ELSE Raise
       ELSE CouncilFallsBack
    /\ UNCHANGED <<mode, attempts, results, context, deliberation, spent>>

Next ==
    \/ \E m \in {"HEURISTIC", "SINGLE_AGENT", "AGENT_COUNCIL"} : Propose(m)
    \/ Plan \/ SingleContext \/ CouncilContexts \/ Generate
    \/ \E r \in Proposers \cup Critics \cup Chair : Answer(r) \/ Break(r) \/ AnswerLate(r)
    \/ Deadline \/ AfterProposers \/ AfterCritics \/ AfterChair

Spec == Init /\ [][Next]_vars

\* A planner runs on, the recorded provider answers at once, and the timer of
\* a round fires; that a role answers is not assumed.
FairSpec ==
    /\ Spec
    /\ WF_vars(Plan) /\ WF_vars(SingleContext) /\ WF_vars(CouncilContexts) /\ WF_vars(Generate)
    /\ WF_vars(Deadline) /\ WF_vars(AfterProposers) /\ WF_vars(AfterCritics) /\ WF_vars(AfterChair)

-----------------------------------------------------------------------------
(* Properties *)

Returned(m) == pc = "done" /\ mode = m
Council == Returned("AGENT_COUNCIL") /\ ~result.fallback

\* Whatever the models say, a proposal that leaves a planner is one the
\* opportunity, the request and the registry allow, at most as many as the
\* request or the council policy bounds: models, plan and fallback alike.
OnlyAuthorized ==
    pc = "done" => /\ ToSet(result.proposals) \subseteq Authorized
                   /\ Len(result.proposals) <= IF Council THEN MaxFinal ELSE Limit

\* A result that is not the council's fallback carries the tokens of every
\* answer, those of the attempt a repair or a failure discarded included.
TokensReported ==
    pc = "done" /\ (mode = "AGENT_COUNCIL" => ~result.fallback) => result.tokens = spent

\* Every round may stay within its own budget and the council yet exceed the
\* request's: such a deliberation never yields a result of its own.
CouncilWithinBudget == Council => result.tokens <= Budget

\* What a chair selects was examined under both classes, every objection raised
\* has been disposed of, and no two selections are one edit under two names.
EveryFinalReviewed ==
    Council =>
        /\ \A i \in DOMAIN result.proposals, k \in Classes :
              \E x \in reviews : x.report.card = result.proposals[i] /\ x.report.class = k
        /\ \A i, j \in DOMAIN result.proposals :
              Edit[result.proposals[i]] = Edit[result.proposals[j]] => i = j
        /\ answers["proposal_chair"].output.disposed = Objected

\* No piece of private evidence is ever granted to both proposers.
ProposersBlinded ==
    mode = "AGENT_COUNCIL" =>
        \A x, y \in audit : x.granted /\ y.granted /\ x.item = y.item => x.role = y.role

\* Whatever the models do, an answer of propose, or an error, comes.
ProposeEnds == pc \notin {"idle", "done", "raised"} ~> pc \in {"done", "raised"}

\* docs/architecture.md, section 13.5: a limit that is reached cancels the
\* remaining calls and does not reset the accounting.
AccountingNeverReset == pc = "done" => result.tokens >= spent
=============================================================================
