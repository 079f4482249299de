------------------------------ MODULE Baseline ------------------------------
(***************************************************************************)
(* baseline/execution.py, evidence/execution.py and orchestrator/runner.py:*)
(* one run directory that is analysed again and again.  A session is one   *)
(* process: analyze_run executes the stages of the baseline (phase M2) or  *)
(* reuses their cached results; analyze_evidence_run (M3) builds the       *)
(* evidence graph and the opportunities on top.  The process may die       *)
(* between any two durable steps, a tool may fail or its adapter raise, and*)
(* the recipes may change between sessions.  Durable: the run index, the   *)
(* resume manifest, the stage results in the artifact store, the stage     *)
(* events in the ledger, the run's state and the scheduler's rows.         *)
(***************************************************************************)
EXTENDS Naturals, Sequences, FiniteSets

CONSTANTS Stages,    \* the stages of the instance
          Recipes,   \* what _put_recipe and the implementation hashes tell apart
          MaxBlocked,\* queued rows left behind before the operator gives up
          MaxFaults, \* deaths, failed tools and changed recipes together
          None

\* The order in which analyze_run, and then analyze_evidence_run, works through
\* its stages; setup views come before hold views, and a hold view starts from
\* setup's placement.
Rank == [yosys |-> 1, binding |-> 2, clock |-> 3, cdc |-> 4, formal_preflight |-> 5,
         simulation |-> 6, eqy_smoke |-> 7, sby_cdc |-> 8,
         sta_setup |-> 9, road_setup |-> 10, sta_hold |-> 11, road_hold |-> 12,
         evidence |-> 13, opportunity |-> 14]

AllStages == DOMAIN Rank

\* What StageInputHashes may be, references being positions in the store, and
\* the entries of a resume manifest.
StageHashes ==
    [recipe : Recipes, parent : Nat \cup {None}, binding : Recipes \cup {None},
     views : SUBSET (Nat \cup {None})]

ManifestEntries == [ref : Nat, requested : StageHashes]

AfterBaseline == {"evidence", "opportunity"}

ASSUME StagesAssumption ==
    /\ Stages \subseteq AllStages
    /\ {"yosys"} \cup AfterBaseline \subseteq Stages
    /\ "road_hold" \in Stages => "road_setup" \in Stages
    /\ Recipes # {}
    /\ MaxFaults \in Nat /\ MaxBlocked \in Nat \ {0}
    /\ None \notin Nat /\ None \notin StageHashes /\ None \notin ManifestEntries

Measured == Stages \cap {"sta_setup", "road_setup", "sta_hold", "road_hold"}
Internal == Stages \cap {"binding", "clock", "cdc", "formal_preflight"}
Baseline == Stages \ AfterBaseline

\* The queue of the scheduler a stage is submitted to.
Kind(s) ==
    IF s \in {"road_setup", "road_hold"} THEN "OPENROAD"
    ELSE IF s \in {"eqy_smoke", "sby_cdc"} THEN "FORMAL" ELSE "SYNTHESIS_STA"

Kinds == {"OPENROAD", "FORMAL", "SYNTHESIS_STA"}

VARIABLES
    index,     \* run-index.json: its status, and stage -> result reference
    manifest,  \* resume-manifest.json: stage -> its reference and requested hashes
    store,     \* the stage results, in the order they were stored; a reference is a position
    events,    \* the STAGE_COMPLETED events of the ledger
    runState,  \* the run's row in the orchestrator
    jobs,      \* the rows of scheduler_jobs, in the order of submission
    recipe,    \* the recipes a session would render now
    faults,
    pc,        \* where the session is, or "idle"
    phase,     \* which of the two entry points it runs
    todo,      \* the stages it has not gone through
    refs,      \* stage_refs and ...
    hashes,    \* ... stage_hashes of the session
    result     \* the reference of the stage at hand

durable == <<index, manifest, store, events, runState, jobs>>
session == <<pc, phase, todo, refs, hashes, result>>
vars == <<durable, recipe, faults, session>>

-----------------------------------------------------------------------------
(* Identities *)

Names(f) == {s \in Stages : f[s] # None}

\* What the stage read: the netlist, as the result of synthesis that holds it.
Netlist(f) == store[f["yosys"]].recipe

Parent(s, f) ==
    CASE s = "yosys" \/ s = "evidence" -> None
      [] s = "opportunity" -> f["evidence"]
      [] s = "road_hold" -> f["road_setup"]
      [] OTHER -> f["yosys"]

\* The hashes of the constraint binding and of the formal model: functions
\* of the netlist.
Binding(s, f) == IF s \in {"yosys", "binding", "simulation"} THEN None ELSE Netlist(f)

\* The evidence stage binds the measured views by their results.
Views(s, f) == IF s = "evidence" THEN {f[v] : v \in Measured} ELSE {}

\* The scripts a session renders for its tools, stored as artifacts.
Recipe(s) == recipe

\* The StageInputHashes a session asks for.
Requested(s, f) ==
    [recipe |-> Recipe(s), parent |-> Parent(s, f), binding |-> Binding(s, f), views |-> Views(s, f)]

Hashes(r) == [recipe |-> r.recipe, parent |-> r.parent, binding |-> r.binding, views |-> r.views]

\* A measured timing violation is a complete result.
Accepted(r) == r.status = "PASS" \/ (r.status = "TIMING" /\ r.stage \in Measured)

\* Faulty variant: only the recipe is compared.
CanReuseByRecipe(r, h) == Accepted(r) /\ r.recipe = h.recipe

CanReuse(r, h) == Accepted(r) /\ Hashes(r) = h

-----------------------------------------------------------------------------
(* Tools *)

\* What the adapter makes of a finished process: how it ended, what its
\* report says, and whether every raw artifact still resolves.
Parse(ended, report) ==
    IF ended = "timeout" THEN "INFRASTRUCTURE_ERROR"
    ELSE IF report = "PASS" /\ ended \in {"signal", "nonzero"} THEN "INFRASTRUCTURE_ERROR"
    ELSE report

Finalize(status, resolvable) == IF resolvable THEN status ELSE "INFRASTRUCTURE_ERROR"

Reports(s) == {"PASS", "FAIL", "INFRASTRUCTURE_ERROR"} \cup (IF s \in Measured THEN {"TIMING"} ELSE {})

Outcomes(s) ==
    {Finalize(Parse(ended, report), resolvable) :
        ended \in {"clean", "nonzero", "signal", "timeout"}, report \in Reports(s),
        resolvable \in BOOLEAN}

-----------------------------------------------------------------------------
(* The scheduler's rows, as one process sees them *)

Leasing == {"DISPATCHING", "RUNNING", "CANCELLING", "QUARANTINED"}

Mine == Len(jobs)

\* The job at hand is at the head of its queue and its kind has a free
\* lease; rows without a worker block their queue.
Eligible ==
    \A j \in 1 .. Len(jobs) - 1 :
        jobs[j].kind = jobs[Mine].kind => jobs[j].status \notin Leasing \cup {"QUEUED"}

\* The first open moves what has lost its owner to quarantine ...
LostToQuarantine(js) ==
    [j \in 1 .. Len(js) |->
        IF js[j].status \in {"DISPATCHING", "RUNNING", "CANCELLING"}
        THEN [js[j] EXCEPT !.status = "QUARANTINED"] ELSE js[j]]

\* Faulty variant: the second open has no witness for the workers.
ReleaseNothing(js) == js

\* ... the second open releases it.
Release(js) ==
    [j \in 1 .. Len(js) |->
        IF js[j].status = "QUARANTINED"
        THEN [js[j] EXCEPT !.status = "INFRASTRUCTURE_ERROR"] ELSE js[j]]

-----------------------------------------------------------------------------
(* A session *)

Init ==
    /\ index = [status |-> "INITIALIZED", refs |-> [s \in Stages |-> None]]
    /\ manifest = [s \in Stages |-> None]
    /\ store = <<>> /\ events = <<>> /\ jobs = <<>>
    /\ runState = "INGESTING"
    /\ recipe = CHOOSE r \in Recipes : TRUE
    /\ faults = 0
    /\ pc = "idle" /\ phase = "M2" /\ todo = {} /\ result = None
    /\ refs = [s \in Stages |-> None] /\ hashes = [s \in Stages |-> None]

\* What the session knows ends with it, however it ends.
Leave == /\ pc' = "idle" /\ todo' = {} /\ result' = None
         /\ refs' = [s \in Stages |-> None] /\ hashes' = [s \in Stages |-> None]

Stage == CHOOSE s \in todo : \A r \in todo : Rank[s] <= Rank[r]
AtStage == pc = "stage" /\ todo # {}

OpenScheduler ==
    /\ pc = "idle"
    /\ Cardinality({j \in 1 .. Len(jobs) : jobs[j].status = "QUEUED"}) < MaxBlocked
    /\ pc' = "opened" /\ phase' = "M2" /\ todo' = Baseline
    /\ jobs' = LostToQuarantine(jobs)
    /\ UNCHANGED <<index, manifest, store, events, runState, recipe, faults, refs, hashes,
                   result>>

OpenSchedulerAgain ==
    /\ pc = "opened"
    /\ pc' = "entering"
    /\ jobs' = Release(jobs)
    /\ UNCHANGED <<index, manifest, store, events, runState, recipe, faults, phase, todo, refs,
                   hashes, result>>

EnterBaselining ==
    /\ pc = "entering"
    /\ pc' = "stage"
    /\ runState' = IF runState = "INGESTING" THEN "BASELINING" ELSE runState
    /\ refs' = index.refs
    /\ UNCHANGED <<index, manifest, store, events, jobs, recipe, faults, phase, todo, hashes,
                   result>>

\* Faulty variant: a measured timing violation is no result.
EvidenceReadyStrictly ==
    /\ index.status = "PASS"
    /\ \A s \in Baseline : index.refs[s] # None /\ store[index.refs[s]].status = "PASS"

\* _required_result for every stage the evidence is made of.
EvidenceReady ==
    /\ index.status = "PASS"
    /\ \A s \in Baseline \ {"simulation", "eqy_smoke", "sby_cdc", "formal_preflight"} :
            /\ index.refs[s] # None
            /\ Accepted(store[index.refs[s]])

StartEvidence ==
    /\ pc = "idle"
    /\ EvidenceReady
    /\ pc' = "stage" /\ phase' = "M3" /\ todo' = AfterBaseline
    /\ refs' = index.refs
    /\ hashes' = [s \in Stages |->
                    IF index.refs[s] = None THEN None ELSE Hashes(store[index.refs[s]])]
    /\ UNCHANGED <<durable, recipe, faults, result>>

Reuse ==
    /\ AtStage
    /\ refs[Stage] # None
    /\ CanReuse(store[refs[Stage]], Requested(Stage, refs))
    /\ hashes' = [hashes EXCEPT ![Stage] = Requested(Stage, refs)]
    /\ todo' = todo \ {Stage}
    /\ UNCHANGED <<durable, recipe, faults, pc, phase, refs, result>>

MustRun ==
    /\ AtStage
    /\ refs[Stage] # None => ~CanReuse(store[refs[Stage]], Requested(Stage, refs))
    /\ hashes' = [hashes EXCEPT ![Stage] = Requested(Stage, refs)]

\* A stage result: what was asked for, and how it ended.
StageResult(s, h, status) ==
    [stage |-> s, status |-> status, recipe |-> h.recipe, parent |-> h.parent,
     binding |-> h.binding, views |-> h.views]

\* Stages computed in this process always pass.
Compute ==
    /\ MustRun
    /\ store' = Append(store, StageResult(Stage, Requested(Stage, refs), "PASS"))
    /\ result' = Len(store) + 1
    /\ pc' = "completed"
    /\ UNCHANGED <<index, manifest, events, runState, jobs, recipe, faults, phase, todo, refs>>

RunInternal == AtStage /\ Stage \in Internal /\ Compute

BuildEvidence == AtStage /\ Stage = "evidence" /\ Compute

FormOpportunities == AtStage /\ Stage = "opportunity" /\ Compute

Submit ==
    /\ MustRun
    /\ Stage \notin Internal \cup AfterBaseline
    /\ jobs' = Append(jobs, [kind |-> Kind(Stage), status |-> "QUEUED"])
    /\ pc' = "submitted"
    /\ UNCHANGED <<index, manifest, store, events, runState, recipe, faults, phase, todo, refs,
                   result>>

\* submit dispatches, and returns whether or not the job got its lease.
Dispatch ==
    /\ pc = "submitted"
    /\ jobs' = IF Eligible THEN [jobs EXCEPT ![Mine].status = "DISPATCHING"] ELSE jobs
    /\ pc' = IF Eligible THEN "dispatching" ELSE "running"
    /\ UNCHANGED <<index, manifest, store, events, runState, recipe, faults, phase, todo, refs,
                   hashes, result>>

WorkerStarted ==
    /\ pc = "dispatching"
    /\ jobs' = [jobs EXCEPT ![Mine].status = "RUNNING"]
    /\ pc' = "running"
    /\ UNCHANGED <<index, manifest, store, events, runState, recipe, faults, phase, todo, refs,
                   hashes, result>>

Execute(status) ==
    /\ pc = "running"
    /\ status \in Outcomes(Stage)
    /\ Accepted(StageResult(Stage, hashes[Stage], status)) \/ faults < MaxFaults
    /\ faults' = IF Accepted(StageResult(Stage, hashes[Stage], status)) THEN faults ELSE faults + 1
    /\ store' = Append(store, StageResult(Stage, hashes[Stage], status))
    /\ result' = Len(store) + 1
    /\ pc' = "executed"
    /\ UNCHANGED <<index, manifest, events, runState, jobs, recipe, phase, todo, refs, hashes>>

\* The adapter raises (fingerprint, preparation, unreadable report): the
\* job is cancelled in two transactions and the session ends.
ExecuteRaises ==
    /\ pc = "running"
    /\ faults < MaxFaults
    /\ faults' = faults + 1
    /\ jobs' = [jobs EXCEPT ![Mine].status = "CANCELLING"]
    /\ pc' = "cancelling"
    /\ UNCHANGED <<index, manifest, store, events, runState, recipe, phase, todo, refs, hashes,
                   result>>

Cancelled ==
    /\ pc = "cancelling"
    /\ jobs' = [jobs EXCEPT ![Mine].status = "CANCELLED"]
    /\ Leave
    /\ UNCHANGED <<index, manifest, store, events, runState, recipe, faults, phase>>

Complete ==
    /\ pc = "executed"
    /\ jobs[Mine].status = "RUNNING"
    /\ jobs' = [jobs EXCEPT ![Mine].status = "COMPLETED"]
    /\ pc' = "completed"
    /\ UNCHANGED <<index, manifest, store, events, runState, recipe, faults, phase, todo, refs,
                   hashes, result>>

\* A job that never got its lease cannot be completed.
CompleteRaises ==
    /\ pc = "executed"
    /\ jobs[Mine].status # "RUNNING"
    /\ Leave
    /\ UNCHANGED <<durable, recipe, faults, phase>>

AppendStageEvent ==
    /\ pc = "completed"
    /\ events' = Append(events, [stage |-> Stage, ref |-> result])
    /\ refs' = [refs EXCEPT ![Stage] = result]
    /\ pc' = "journaled"
    /\ UNCHANGED <<index, manifest, store, runState, jobs, recipe, faults, phase, todo, hashes,
                   result>>

WriteIndex ==
    /\ pc = "journaled"
    /\ index' = [status |-> IF phase = "M2" THEN "BASELINING" ELSE "PASS", refs |-> refs]
    /\ pc' = "indexed"
    /\ UNCHANGED <<manifest, store, events, runState, jobs, recipe, faults, phase, todo, refs,
                   hashes, result>>

\* Faulty variant: stages the session knows nothing of are listed too.
ResumableHistory ==
    [s \in Stages |->
        IF refs[s] = None THEN None
        ELSE [ref |-> refs[s], requested |-> IF hashes[s] = None THEN Hashes(store[refs[s]]) ELSE hashes[s]]]

\* _resumable_stage_ids: the stages whose current identity the session knows.
Resumable ==
    [s \in Stages |->
        IF refs[s] = None \/ hashes[s] = None THEN None ELSE [ref |-> refs[s], requested |-> hashes[s]]]

WriteManifest ==
    /\ pc = "indexed"
    /\ manifest' = Resumable
    /\ IF Accepted(store[result])
       THEN /\ todo' = todo \ {Stage} /\ pc' = "stage" /\ result' = None
            /\ UNCHANGED <<refs, hashes>>
       ELSE Leave
    /\ UNCHANGED <<index, store, events, runState, jobs, recipe, faults, phase>>

\* The end of the loop: analyze_run writes the index and the manifest once more.
WritePass ==
    /\ pc = "stage" /\ todo = {} /\ phase = "M2"
    /\ index' = [status |-> "PASS", refs |-> refs]
    /\ pc' = "passed"
    /\ UNCHANGED <<manifest, store, events, runState, jobs, recipe, faults, phase, todo, refs,
                   hashes, result>>

WritePassManifest ==
    /\ pc = "passed"
    /\ manifest' = Resumable
    /\ pc' = "leaving"
    /\ UNCHANGED <<index, store, events, runState, jobs, recipe, faults, phase, todo, refs, hashes,
                   result>>

LeaveBaselining ==
    /\ pc = "leaving"
    /\ runState' = IF runState = "BASELINING" THEN "EVIDENCE_BUILD" ELSE runState
    /\ Leave
    /\ UNCHANGED <<index, manifest, store, events, jobs, recipe, faults, phase>>

LeaveEvidence ==
    /\ pc = "stage" /\ todo = {} /\ phase = "M3"
    /\ runState' = IF runState = "EVIDENCE_BUILD" THEN "SEARCHING" ELSE runState
    /\ Leave
    /\ UNCHANGED <<index, manifest, store, events, jobs, recipe, faults, phase>>

\* The process dies.  Rows and files stay as they are.
Die ==
    /\ pc # "idle"
    /\ faults < MaxFaults /\ faults' = faults + 1
    /\ Leave
    /\ UNCHANGED <<durable, recipe, phase>>

\* Another version of a recipe, of a tool's path or of the evidence code.
ChangeRecipe ==
    /\ pc = "idle"
    /\ faults < MaxFaults /\ faults' = faults + 1
    /\ recipe' \in Recipes \ {recipe}
    /\ UNCHANGED <<durable, session>>

Step ==
    \/ OpenSchedulerAgain \/ EnterBaselining \/ Reuse \/ RunInternal \/ BuildEvidence
    \/ FormOpportunities \/ Submit \/ Dispatch
    \/ WorkerStarted \/ Cancelled \/ Complete \/ CompleteRaises
    \/ AppendStageEvent \/ WriteIndex \/ WriteManifest
    \/ WritePass \/ WritePassManifest \/ LeaveBaselining \/ LeaveEvidence
    \/ \E status \in {"PASS", "TIMING", "FAIL", "INFRASTRUCTURE_ERROR"} : Execute(status)

Next == Step \/ OpenScheduler \/ StartEvidence \/ ExecuteRaises \/ Die \/ ChangeRecipe

\* A session goes on; the operator calls both entry points again and again.
Fairness == WF_vars(Step) /\ SF_vars(OpenScheduler) /\ SF_vars(StartEvidence)

Spec == Init /\ [][Next]_vars /\ Fairness

-----------------------------------------------------------------------------
(* Properties *)

\* The accepted result f names for s was computed from what else f names.
Chained(s, f) ==
    LET r == store[f[s]] IN
    /\ Accepted(r)
    /\ r.parent = Parent(s, f) /\ r.binding = Binding(s, f) /\ r.views = Views(s, f)

\* A run index that says PASS names an accepted result for every stage of
\* the baseline, and these results are of one analysis: each was computed
\* from the others the index names, with the same recipes, however many
\* sessions, reused results and deaths led to it.  When an evidence session
\* is done the same holds of the evidence and the opportunities.
PassIsCoherent ==
    /\ index.status = "PASS" =>
            \A s \in Baseline : /\ s \in Names(index.refs)
                                /\ Chained(s, index.refs)
                                /\ store[index.refs[s]].recipe = Netlist(index.refs)
    /\ pc = "stage" /\ phase = "M3" /\ todo = {} =>
            \A s \in Stages \ Baseline : /\ Chained(s, index.refs)
                                         /\ store[index.refs[s]].recipe = recipe

\* Write-ahead: a stage result the run index names has its event in the
\* ledger, wherever sessions died.
JournalAhead ==
    \A s \in Names(index.refs) :
        \E i \in 1 .. Len(events) :
            events[i] = [stage |-> s, ref |-> index.refs[s]]

PlanReusable(s) ==
    manifest[s] # None /\ CanReuse(store[manifest[s].ref], manifest[s].requested)

\* A baseline stage plan_resume calls reusable was computed from the results
\* the run index names: the next session will indeed not run it again.  (Not
\* if the process died between writing the index and the manifest.)
ResumePlanSound ==
    (\A s \in Stages : manifest[s] # None => manifest[s].ref = index.refs[s]) =>
        \A s \in Baseline : PlanReusable(s) => Chained(s, index.refs)

\* A next session can trust what it reads: the ledger knows every result the
\* index names, and the plan reuses nothing the index has gone beyond.
ResumeSound == JournalAhead /\ ResumePlanSound

\* Once a baseline session has opened the scheduler, the only lease is the
\* one of its own job: what earlier sessions left is released.
OnlyOwnLease ==
    phase = "M2" /\ pc \notin {"idle", "opened"} =>
        \A j \in 1 .. Len(jobs) : jobs[j].status \in Leasing =>
            j = Mine /\ pc \in {"dispatching", "running", "executed", "cancelling"}

\* A row that no session will dispatch or cancel any more.
Blocked == pc = "idle" /\ \E j \in 1 .. Len(jobs) : jobs[j].status = "QUEUED"

\* Called again and again, the two entry points take the run to SEARCHING,
\* whatever failed before, unless a death left a queued row behind.
ReachesSearching == <>(runState = "SEARCHING" \/ Blocked)

=============================================================================
