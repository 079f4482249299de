# Formal models of NOVA-RTL

NOVA-RTL improves the timing of RTL by planning, applying and evaluating small
source transforms under a locked policy, with EDA tools as the judges. Its
control logic (a durable job scheduler, append-only journals shared by several
processes, sealed bundles, budgets and escalation rules) is what these
TLA+ modules model; TLC checks them on small instances and TLAPS proves the
safety properties for all instances. All paths below are relative to
`src/nova_rtl/` of the repository.

## 1. The system

| Component | State it keeps | Operations | What makes it correct |
|---|---|---|---|
| Bounded scheduler, `orchestrator/scheduler.py` with the workers of `adapters/base.py` | `scheduler_jobs`, `scheduler_job_events` in SQLite; worker table in memory; worker processes in sessions of their own | submit, attach_worker, dispatch, complete, cancel, enforce_deadlines, record_partial_logs, reconcile_quarantined, restart | a live worker holds a lease until a termination has reached it (a resumed run's witness apart); limits and cumulative budgets hold; FIFO within a kind; at most one dispatch; nobody waits for a free lease in vain |
| Run orchestrator, `orchestrator/state.py`, and experiment ledger, `artifacts/ledger.py` | run and candidate rows, `run_events` | transition, create_candidate, transition_candidate, record_event, replay; stage events appended by the flows | one gapless legal history that the rows agree with and that can be replayed |
| Artifact store, `artifacts/store.py` | content-addressed blobs, lock files | put_bytes, verification | a blob under a digest is whole; the reference of the writer that made the blob's whole path resolves for ever |
| Search controller, `search/` | proposals, budgets, archive, DAG, ledger of experiments | run: plan, order, materialize, evaluate, recover, ledger, rank, stop | budgets bind before execution; no edit twice; every evaluation ledgered; frontier and stop rules exact |
| Candidate flow, `optimization/flow.py`, and gate cascade, `evaluation/cascade.py` | candidate journal, experiment record, bundle file | analyse, journal gates, close, seal, verify, reuse | states follow the gates; what a sealed bundle records stands for ever, and it verifies until an index it binds is rewritten |
| Recovery, `recovery/` | none of its own; history and budgets of a lineage are passed in | classify, fingerprint, detect_stagnation, route, authorize | escalation never falls back; retries end; no child from stale evidence |
| Planners, `planner/` | one request's contexts, answers, reviews and tokens | propose: contexts, attempts and repair, three council rounds, shortlist, fallback | only authorized and fully reviewed proposals; blinded proposers; every token accounted for; an answer always comes |
| Baseline and evidence execution, `baseline/`, `evidence/execution.py`, `orchestrator/runner.py` | run index, resume manifest, stage results, stage events, run state, scheduler rows | analyze_run, analyze_evidence_run, plan_resume | a PASS index is of one analysis; the index never runs ahead of the ledger; stale leases are released; the run can always be led on |
| Search and planner flows, `optimization/search_flow.py`, `planner_flow.py` | bundle directories | stage, verify, rename; make, write; verify | what is published is complete and of the sources it names |
| Sign-off packets, `*/signoff.py` of nine milestones | packets, archive, frozen evidence, gate outputs | run_mK_signoff, verify_mK_signoff, dependency snapshots | a verifying packet tops one coherent chain of one index and one version of the sources; nothing signed is lost or re-evidenced |
| Platform provisioning, `platform/` | archive cache, components, receipts, platform lock, views, smoke report | hydrate, verify, env, lock, doctor, smoke | installed and sealed bytes are reviewed ones; lock and views are one pair; a report names the design, receipt and locks it rests on |
| Evidence graph, formal composition, analysis views, constraints, CDC, metrics | contract objects | pure constructions and comparisons | deterministic, order independent |
| Command line, benchmark generator, RTL transforms, tool adapters | files | argument, text and report handling | see section 9 |

How they interact. A flow (baseline, evidence, candidate, search) runs every
tool through the scheduler, stores what the tool produced in the artifact
store, appends a stage event to the ledger and moves the run or candidate
through the orchestrator. Ledger, run states and scheduler rows are SQLite
tables that several processes open; every method is a `BEGIN IMMEDIATE`
transaction, and what happens between two transactions (waiting for a
process, publishing a blob) is not protected. The search controller calls its
planner, materializer, evaluator and recovery handler back; the evaluator is
the candidate flow. A planner is asked once for each opportunity. A sign-off
reads what all of them left behind and the repository they ran from. The tools
they run are those the platform commands have hydrated, verified and sealed.

What is hard: public methods that are chains of transactions and interleave
between threads; workers that outlive the process that started them; an
unconfirmed termination; a death between commit and the step it announces;
sequence numbers read in one transaction and used in the next; payloads stored
outside the database; power loss around a rename; bundles written in place;
callbacks that raise half-way; a session that dies between ledger, index and
manifest; model calls that answer late, twice or not at all; gates that run on
a tree that is committed afterwards; downloads that are resumed; two files that
must change together; budgets, depth limits and thresholds at their boundary. `PROJECT.json` lists the gravest of these
as hazards at their lines.

## 2. The modules

| Module | Models | Role |
|---|---|---|
| `Leases` | what a caller may rely on of the scheduler | abstract specification |
| `Scheduler` | `BoundedScheduler`, its callers, workers, crash and restart | detailed specification |
| `SchedulerProofs` | proofs about `Scheduler` | 14 listed theorems |
| `StateTables` | the two locked transition tables of `state.py` | shared constants |
| `Journal` | what a reader of a run directory may rely on of the ledger and the states | abstract specification |
| `Orchestrator` | `RunOrchestrator` over `ExperimentLedger`, and `_append_stage_event` of the baseline flow | detailed specification |
| `OrchestratorProofs` | proofs about `Orchestrator` | 10 listed theorems |
| `ArtifactStore` | `put_bytes` step by step on a disk that loses power | detailed specification |
| `Search` | `SearchController.run`, `ParetoArchive`, `CandidateDag` | detailed specification |
| `SearchProofs` | proofs about `Search` | 2 listed theorems |
| `CandidateFlow` | `optimize_strict_vertical_slice`, `verify_candidate_bundle`, the cascade | composition of the state tables, the journal and the bundle file |
| `CandidateFlowProofs` | proofs about `CandidateFlow` | 2 listed theorems |
| `Recovery` | classifier, stagnation detector, router, authority and safety checks along one lineage | detailed specification |
| `RecoveryProofs` | proofs about `Recovery` | 5 listed theorems |
| `Baseline` | sessions of `analyze_run` and `analyze_evidence_run` on one run directory, `plan_resume` | composition of stage cache, ledger, index, run state and scheduler rows |
| `Planner` | `HeuristicPlanner`, `SingleAgentPlanner`, `CouncilPlanner` | detailed specification |
| `PlannerProofs` | proofs about `Planner` | 5 listed theorems |
| `Signoff` | the nine sign-off commands and the bundles they sign | composition over the repository, the run and the packets |
| `RunDirectoryProofs` | proofs about what a run leaves on disk: `Baseline`, `Signoff` and `ArtifactStore` | 8 listed theorems |
| `Platform` | `toolchain hydrate`, `verify`, `env`, `platform lock`, `doctor`, smoke | detailed specification |
| `PlatformProofs` | proofs about `Platform` | 3 listed theorems |
| `MC*` | | values of the constants for TLC |

Definitions keep the names of the code where TLA+ allows it. A definition
commented "Faulty variant", whose name says how it differs from the one after
it (`...Skipped`, `...Anyway`, `...Unguarded`), is a deliberate bug: putting it in
the place of the definition after it must violate the property it is listed
with in `PROJECT.json`.

**Scheduler.** Durable variables are the columns of the two tables; `attached`
is `self._workers`; `alive` the worker processes; `th[c]` tells where caller
`c` is. `Reserve`, `Fetch`, `Start`, `StartFails`, `Commit` are the parts of
`dispatch` between which the code holds no lock; `RequestCancel`, `Kill`,
`Close` those of `_cancel`; `Sweep`/`SweepNext` are `enforce_deadlines`, whose
cancellations dispatch; `Restart`, `BootNext`, `BootDone` the recovery in
`__init__`. Amounts of CPU, memory, tokens and candidates are naturals; time is
abstracted to "a deadline may have expired". Worker liveness outside the
process is external and moves by `Start`, `Kill` and `WorkerExit`; a crash ends any
of the workers, and those it does not end are from then on `orphans`. A restart asks
its resolver for each row (`Answers`): no worker, a control that reaches the process
and ends it (`Kill`, `Terminated`), or, for a quarantined row, the witness
`_TerminatedPriorWorker` of a resumed run, which says that the worker is dead and
looks at nothing (`Presume`). The workers spoken of are those that `start()` creates,
as `ScheduledToolWorker` does; for the workers of the baseline flow, whose
`start()` creates nothing, see `Baseline` and section 8.

**Orchestrator.** A call is `Begin` (lock taken, preconditions read),
`StorePayload` (blob published), `Commit` (event and row), or `Abandon` at any
point. `ReadLastEvent` and `AppendStageEvent` are the two transactions of the
flows' own events. Replay is the predicate `Replayable`. Events are the log of
`Journal`, and rows its states.

**ArtifactStore.** One action per system call, for the store's opening (`Open`,
`Opened`) and for `put_bytes`; both create the directories on the way that are
missing, outermost first, each synced in its parent by the process that made it
(`Ensure`, `MakeDirectory`, `SyncParent`). `made` and `madeSynced` are the directories
that exist and those whose name a power loss cannot take, `FanOut` the directory of a
digest, `Depth` how many directories lie above it. `PowerLoss` drops names whose
directory was not synced and tears files whose bytes were not, `Corrupt`
damages a blob, `Fail` raises and `ProcessDies` kills between any two steps.

**Search.** The phases of the loop are actions; the four callbacks return
anything and may raise (`CallbackRaises`). Metric vectors are compared by the
code's dominance over a set of metrics of either direction. `Finish` builds the
dispositions and applies the validator of `SearchTrace`.

**CandidateFlow.** `Script` is the sequence of journal writes a call will make
for its gate verdicts; each is one orchestrator transaction. Any process may
fail at any step and others append to the same journal. A bundle binds the hashes of
two run indexes. `parentIndex` is rewritten whenever the parent is analysed again
(`Reanalyze`), `candidateIndex` by every call that analyses the candidate (`Persist`,
`Analyze`), also while another call journals, seals or has sealed; a version number
stands for the hash, as each writing has its own time in it. `Verifies` is what
`verify_candidate_bundle` asks: `IndexesKept` and `RecordsStand`.

**Recovery.** The functions are stateless. The repository describes a loop that
passes each decision's budgets and actions on to the next call
(`docs/architecture.md` section on escalation, `docs/plan.md` milestone 7) but
contains no such loop yet: the search's handler routes every failure once, with
an empty history, and `detect_stagnation` and `safety.py` have no caller
outside the tests. The actions of the lineage's owner are therefore external,
and the properties say what the functions guarantee to any owner that passes
history and budgets on. A policy is a constant; the checked instance has the
rules of `config/policy/recovery_rules.yaml`.

**Baseline.** A session is one process. `todo` is what its loop has not gone
through and `Stage` the first of it in the order of the code (`Rank`);
`Requested` the identity the code computes for it, from the results the index
names (`Netlist`, `Parent`, `Binding`, `Views`) and the recipe on disk, and
`CanReuse` compares it with a cached result. A stage that must run goes through
`Submit`, `Dispatch`, `WorkerStarted`, `Execute`, `Complete`; what it produced
is then written three times, by `AppendStageEvent`, `WriteIndex` and
`WriteManifest`, and a death may fall between any two. `OpenScheduler` is the
reconciliation of the rows earlier sessions left. Tool results are a status and
the identities they were computed from.

**Planner.** Roles answer in any order within a round (`Answer`), fail
(`Break`), miss the round's timer (`Deadline`), or answer after `propose` has
returned, because `asyncio.gather` leaves them running (`AnswerLate`).
`AfterProposers`, `AfterCritics` and `AfterChair` hold the checks between the
rounds. A proposal has an identifier, an edit and an authority; a report a card,
a class and objections. `spent` counts what the models have consumed, whatever
the result says.

**Signoff.** A commit has ancestors and a version of two disjoint parts of the
sources: those that search and planner runs hash (`search`), and those that the
evidence and opportunity stages hash (`evidence`). A hash is the value it was taken
of, so a packet is the record of everything it binds. `Run(m)` is the sequence of
steps of milestone `m`: which of them archive, recheck or run a gate, and when the
commit is resolved, differs from one to the next. M4 to M6 find the commit clean
(`Resolve`), compare the bundle with the working tree (`CheckBundle`) and verify the
packet below (`Depend`) in three steps with edits and commits between. `Verifies(m)`
and `Dependency(m, c)` are the two ways a packet is read; as predicates they read
everything at one moment, as the commands do when nothing moves meanwhile. M3 is
good only while the evidence in the run was made by the sources now in the working
tree (`EvidenceCurrent`). One sign-off runs at a time. `RunSearch`, `BeginPlanning`, `MakeFolder` and
`WritePlans` publish the bundles of M5 and M6.

**Platform.** A command is a process with a control state in `ws`. Everything
under the tool root changes behind one lock (`TakeLock`, `Release`), lock and
views behind another (`TakePublication`). `Download` returns any number of
pieces, right or wrong; `Extract`, `Place` and `WriteReceipt` are the staged
installation; `Inspect`, `Probe` and `RecordReceipt` the verification; `Seal`,
`HashArtifacts`, `CheckSealed`, `PutLock` and `PutViews` the publication with its
`RollBack`. A smoke run checks the lock (`SmokeLock`), copies design and
constraints one after the other (`Snapshot`), runs ORFS and two views of STA
(`Consume`), looks at every copy again (`Recheck`) and hashes what the report names
as it is then (`ReportSmoke`). `Read` is what a tool reads: ORFS the design and its
own copy of the constraints, a view the constraints, the netlist ORFS left and the
Liberty files of the installed tree. A tool may write over any copy, or a view over
the netlist, while it runs; only the copies in `Watched` are looked at when it has
ended, and the netlist never. Nobody else writes to the directory of the copies, and
a tool that alters a file and puts it back before it ends is not modelled. Trees and
files are versions: `pinned` (as reviewed), `edited` or, for archives, bad; an edited
clone may pass git's check, which does not ask for untracked files (`Probed`).

## 3. The runs

Runs that pass:

| Run | Instance | What it shows |
|---|---|---|
| `scheduler_one_caller` | 1 caller, 3 jobs of 2 kinds, 1 crash, 2 cancellations or reconciliations per job, failing starts and terminations | leases cover workers unless a restart's witness gave one up, no forgotten job, nothing else ends a quarantine of a living worker, no row stays half-way |
| `scheduler_two_callers` | 2 callers, the same jobs, 1 crash | limits and cumulative budgets (`PolicyKept`), FIFO and at-most-once dispatch (`QueueDiscipline`), finality, refinement of `Leases` |
| `orchestrator` | 3 processes, two policies, 1 run, 2 candidates, 5 events | gapless legal journal with one policy that the rows agree with (`JournalSound`), lineage, replay, refinement of `Journal` |
| `artifact_store` | 2 processes, 2 contents in one fan-out directory below one that exists, 2 power losses or corruptions | no torn blob and durable references (`BlobsDurable`), no replacement, no stuck lock |
| `search` | 4 proposals, 2 opportunities, tight and loose budgets, 3 metric vectors | budgets, no repeated edit, complete ledger, best first, stagnation (`LoopSound`); frontier |
| `candidate_flow` | 2 processes, 1 foreign event, 1 new analysis of the parent, 2 writings of the candidate's index | ladder of states; bundles whose records stand, verified until an index is rewritten, and final records (`SealedIsFinal`); sealing |
| `recovery` | published policy, 6 diagnoses, 3 mechanisms, budgets 2 and 3, depth 2 | total routing and no third variation (`DecisionsSound`), monotonic escalation, fresh evidence, spending |
| `baseline` | 7 stages, one of every class, 2 recipes, 2 faults | a PASS index is of one analysis, index behind ledger and sound resume plan (`ResumeSound`), stale leases released, the run led on to SEARCHING |
| `planner` | 4 proposals (a repeated edit, a repeated identifier, an unauthorized one), 2 pieces of evidence, answers of 1 or 4 tokens | authority, token accounting, the request's budget, full review, blinding, termination |
| `signoff` | M0 to M8, 2 commits, 1 edit or checkout, 1 new analysis, 4 sign-offs, from nothing or from M4 | coherent chains, permanence of packets and frozen evidence, dependencies that outlive commits |
| `platform` | 2 processes, 1 archive and 1 clone, 3 commands, 2 manifests, 3 edits, 2 deaths, 2 locks | reviewed bytes from server to doctor (`Provenance`), one pair of lock and views, a report that names the design and constraints its tools read, a receipt of its manifest and locks of the reviewed tree |

One run shows where the code and its description differ:

| Run | Shown |
|---|---|
| `planner_accounting` | a council that falls back reports no tokens for the answers it has paid for, and the search budget is charged nothing; `docs/architecture.md` says that a limit that is reached does not reset the accounting |

The models also have the following behaviours of the code that its documents
describe otherwise. No property states the documents' sentence, because the
code breaks it:

* a cancellation between the reservation of a job and the start of its worker
  ends with a live worker whose job is CANCELLED (`scheduler.py:260`);
* logs recorded while a cancellation waits for the worker are overwritten
  (`scheduler.py:520`);
* a deadline sweep stops at a job that its own dispatch has quarantined
  (`scheduler.py:316`);
* two proposals that materialize to one source make a finished search fail its
  trace validator (`search/controller.py:344`);
* a gate whose stage raises is not journaled (`optimization/flow.py:1102`);
* an M7 or M8 packet is not reconstructed at its signed commit but from the
  working tree (`recovery/signoff.py:426`), and neither are the evidence stages of M3,
  as a dependency either (`evidence/signoff.py:520`, called at 783);
* M5 and M6 take the commit before they compare the bundle with the working tree
  (`search/signoff.py:387`, `389`): after an edit in between a packet of one commit
  has a bundle of other sources, which does not verify at that commit but as a
  dependency at every descendant (`search/signoff.py:530`);
* the gates of M5 to M8 run in the working tree and their outputs are not compared
  with the commit that is signed (`search/signoff.py:161`);
* a resumed session assumes the tools of the dead one are gone, although they
  run in sessions of their own (`baseline/execution.py:180`): a quarantined lease is
  released while its tool may be alive. `LeaseCoversWorker` and
  `QuarantineReleasedByDeath` name this case (`GivenUp`, `orphans`) and say that it is
  the only one; in `Baseline`, which speaks of rows, the tools have no variable.

**Bounds and why they suffice.** Crashes, attempts, events, damage and foreign
events are counted and bounded by the named constants `MaxCrashes`,
`MaxAttempts`, `MaxEvents`, `MaxDamage`, `MaxOther`, `MaxReanalyses`, `MaxRewrites`,
`MaxFaults`, `MaxBlocked`,
`MaxCommits`, `MaxMoves`, `MaxTouches`, `MaxCommands`, `MaxManifests`,
`MaxEdits`, `MaxDeaths`, `MaxLocks`; nothing else is cut off.
Two callers are enough for every race of the scheduler, whose steps involve one
job and at most one other caller; three jobs of two kinds are needed for a
head, a follower and a job of another kind. Five events take a run and a
candidate through creation, a recovery child and a competing stage event. Two
processes and two power losses cover a writer, an adopter and a repeated loss.
The two-caller run has `MaxAttempts` 1, so that a reconciliation repeated there is
covered by the proofs only. Two writings of the candidate's index are the author's and one
by a call that overlaps it, before, between or after the author's seal and verification.
The recovery budgets are small enough that each of family budget, lineage
budget and depth limit is exhausted while the others are not, and the family
budget of 2 leaves the stagnation rule as the only reason not to try a third
time. Two faults leave a run with a failed or abandoned session, a changed recipe or
a second death, and a session without faults that must cope with the result.
Answers of four tokens exceed what a critic, a chair or a single agent may take
and three rounds of them the request's budget. Two commits and one move give
an ancestor, a descendant and a dirty tree; four sign-offs from M4 reach M8, and
from nothing M3 with a second M2; one search and one planner run of each run
directory are modelled. In `Platform` the lock is shipped, so that three commands give
an interrupted hydration, the one that meets what it left and a command that uses the
result; two publications after a hydration, the second over a torn pair; and a smoke run
beside a publication. Three edits change a tree and change it back, or both sources of a
smoke run, and leave one more for another moment. The proofs of section 5 remove the bounds for what they cover.
`CHECK_DEADLOCK FALSE` is set where the bounded system may really come to rest
(all jobs ended, the event bound reached).

**Symmetry.** `scheduler_two_callers` permutes the callers, `search` the
sources and patches, and `platform` the processes, which no definition tells
apart; none of these runs checks liveness.

## 4. Fairness

`Scheduler!Fairness`: a thread inside a method goes on (`WF` of its steps; no
step of the code waits for another caller), and a process that is down is
restarted, as the resume command does. New requests, worker exits and crashes
are not fair. `ArtifactStore!FairStoreSpec`: a process inside `put_bytes` goes on,
and strong fairness of `Lock` is the kernel's `flock`, which wakes a waiter
when the holder closes the file or dies. `CandidateFlow!FairSpec`: the author
of a candidate goes on unless it fails; a failed author is the exception the
property names. `Baseline!Fairness`: a session goes on until it ends or dies, and
the operator calls both entry points again and again (strong fairness, since a
session in between disables them); tools may fail, but only `MaxFaults` times.
`Planner!FairSpec`: the planner's own steps and the timer of a round; that a
model answers is not assumed. Search, recovery, sign-off and platform state no
liveness: their commands run to an end or die, and nothing calls them again.

## 5. What is proved

TLAPS proves, for every value of the constants that satisfies the named
assumptions, every safety property that a passing run of section 3 checks. Each
proof module names its inductive invariant; TLC has checked each of them on the
instances of section 3.

* `SchedulerProofs`. Types (`TypeCorrect`); no step touches a finished job
  (`FinishedForGood`); `QueueInvariant` is inductive and gives FIFO order,
  at-most-once dispatch and the agreement of journal and status
  (`FirstInFirstOut`, `DispatchOnce`, `JournalFaithful`, together
  `QueueServed`); the scheduler implements `Leases` (`Refinement`).
  The argument: every action is reduced once (`RowSteps`) to one of four shapes
  on a row (enrol, reserve, move along the life cycle, nothing), and the
  invariants are shown for the shapes. FIFO alone is not inductive: it needs
  that submit indices are unique and below the counter (`TicketsUnique`) and
  that a journal has at most one dispatch and ends with the status
  (`JournalShape`). The policy (`PolicyHolds`) is the number of leases of a kind
  (`ConcurrencyBounded`), their CPU and memory (`SharesBounded`) and what a run
  has consumed (`BudgetsHold`): the sums over jobs grow only by the one job
  whose cost the same transaction has added to them.
  Three theorems are about one calling thread (`ASSUME OneCaller`): every live
  worker is leased unless it has outlived its scheduler and a restart's witness has
  given its lease up (`WorkersAreLeased`), a quarantine is ended by a reconciliation,
  which only in that case leaves the worker alive (`QuarantineEndsByDeath`), no job
  that fits is forgotten (`WakeupNotLost`). They need `PathAgreesWithRow`, which ties
  the local state of the caller in a job's path to the row; `TableKnown`, that the
  living workers of this process are in its table and that a restart has no worker yet
  for the rows it has still to walk, so that the witness is never asked about a worker
  of this process; and `WakeupInvariant`, which says of
  every place in a path that a dispatch is still to come or that the caller
  holds what the waiting job needs. With two callers the first is false, as
  section 3 lists.
* `OrchestratorProofs`. `TypeCorrect`, `Gapless`, `HistoryLegal`, `RowsAgree`,
  `OnePolicy` (these together `JournalIsSound`), `LineageSound`, `Replay`,
  `EndedStays`, all from `JournalInvariant`. The strengthening says that at most one caller is in a
  transaction (`OneWriter`), that what it read under the lock still holds when
  it commits (`CallsConsistent`, `PreconditionsHold`), that an event lies in the
  journal of its entity's run (`EventsAtHome`) and that rows are consistent with
  their last change (`RowsConsistent`). `JournalImplemented` is the refinement: each
  commit and each stage event whose number was free is one step of `Journal`, everything
  else stutters, so that logs are only added to and states move only with their entry.
* `RunDirectoryProofs`, in three parts; the modules share no variable.

  *Baseline* (`PassHolds`, `ResumeHolds`, `LeaseHolds`), for any set of stages,
  any recipes and any number of faults. What must be shown is that a
  directory written by many sessions, each of which may have died, reads like one
  analysis. `BaselineInvariant` says of the session that every stage it is through
  with has an accepted result of exactly the hashes it would ask for now
  (`DoneStage`). That survives the stages to come because a stage reads only
  stages of lower rank (`Reads`, `InOrder`), which are done and not touched again, and
  because an evidence session keeps the references of the baseline it started from
  (`EvidenceSession`). The files are tied to it by `IndexFollows` (what the session
  knows of is what the index names, except between the storing of a result and
  `WriteIndex`), by the event that precedes every name in the index, and by
  `EntryCoherent` for each entry of the manifest. `RowsOfPlace` says which rows may
  hold a lease at each place of a session; that the second opening releases what the
  first has quarantined is what `OnlyOwnLease` rests on.

  *Signoff* (`PacketsStay`, `VerifiedHolds`, `DependenciesOutlive`), for any commits,
  edits, checkouts, analyses and attempts. `RepositoryOK`: a commit is its own
  ancestor, and ancestry is transitive; this is what a dependency survives new commits by.
  `PublishedOK`: every M2 packet has seen the frozen index. `PacketsOK`: M2 was signed
  on the only M1 packet there ever is (`Founded`), at a descendant of its commit, and
  M5 and M6 of bundles of the index that M4 has signed (`Made`) and of one version of
  the sources (`Checked`). `SigningOK` says what a sign-off under way may rely on while
  the repository and the run move on (`Grows`): what was frozen before it depends on
  it (`FreezeOK`), what its report was built on (`ReportOK`), and that the report takes
  the place of nothing that is not in the archive (`RoomOK`). `BundleOK` is the
  argument for checks made one after the other: a bundle has the index of the moment
  it was compared, M4's is not above it and must be that of the later moment when M4
  is verified, and the index only grows, so all three are equal. That M5 and M6 are of
  the commit's own sources follows only where they verify at that commit (`OwnSources`). What a packet that
  verifies has been rebuilt from is then followed downward (`Linked`, `Coherent`).

  *ArtifactStore* (`Durable`, `WriteOnce`), for any processes, contents and number of
  power losses. `StoreInvariant` adds what each step of `put_bytes` leaves for the
  next: a process between `Lock` and `Verify` has the lock of its digest
  (`LockHeld`), without which two writers would rename over each other; bytes are on
  disk before a file has its name (`BytesBeforeName`); a writer past the rename finds
  its blob, and past the sync of the directory its name is on disk (`WriterKnows`),
  which is what `Return` needs for `NamesSynced`. `MadeFirst` says that a directory
  is there before its name is synced; a reference is vouched for when all directories
  above it were synced as it was returned, and `NamesSynced` says that they stay so.
* `SearchProofs`. `LoopIsSound` and `FrontierIsSound`, for any proposals, costs,
  budgets, metrics of either direction and answers of the callbacks. `Inv` says,
  phase by phase, how the queue, the proposal in hand, the ledger, the archive,
  the money spent, the edits seen and the stagnation counter stand to each other.
  That the frontier covers every feasible candidate rests on dominance being
  transitive and irreflexive, which is proved of the code's definition of it.
* `CandidateFlowProofs`. `LadderHolds` and `SealedStays`, for any number of
  processes and of foreign events. There is one author at a time and none before
  the row exists (`OneAuthor`, `Untouched`); what the author has yet to journal
  is on its rungs after the gates and states that are there (`Climbs`), which the
  events of others do not change (`ClimbsNone`); what a draft records stands from the
  moment it is taken (`Sound`) and whatever is appended later
  (`SoundKept`); once the record or the file is there nobody moves the row (`Written`);
  and once the bundle is sealed no analysis begins, so that after the last one only the
  parent's can take the verification away (`SealedStep`). That the whole script
  climbs is shown for every assessment by induction over the gates
  (`GatesClimb`, `ScriptClimbs`).
* `RecoveryProofs`. `TypeCorrect` (the depth limit included),
  `EscalationNeverFallsBack`, `RecoveryIsBudgeted` and `ChildrenAuthorized`, for
  every policy, budget and diagnosis. `RecoveryInvariant` adds to the types that a
  routed decision which may have a child leaves room below the depth limit
  (`DepthLeft`), `ChildJustified` what such a decision says of its failure. The key
  lemma `SelectActionFacts` says what a choice of `_select_action` implies about
  levels and budgets; it needs only that terminal actions have the top level and
  that an infrastructure retry is the one action of level 0.
  `DecisionsHold` (total routing, no third variation of one mechanism) is a fact
  about the policy file as well: it assumes `PublishedPolicy`, which lists what of
  `recovery_rules.yaml` it needs and which TLC evaluates on the published rules.
* `PlannerProofs`. `AuthorizedHolds`, `TokensHold`, `BudgetHolds`, `ReviewHolds`,
  `BlindedHolds`, for any plan, evidence, advice, costs and order of the answers.
  `Fresh` and `Placed` say where a request can be before and after it has read
  evidence and asked a model, `Accounted` and `InRound` that what was spent is
  what was booked for the rounds that are over and the answers so far of the one
  under way, `CardsSound` that the critics see authorized cards, one for each edit,
  and `Settled` that a council that has concluded left no call running. Answers
  that arrive after `propose` has returned change `spent` only.
* `PlatformProofs`. `ProvenanceHolds`, `PairStaysBound`, `ReportsAreTrue`, for any
  processes, components, manifests, edits and deaths. `Claims` gives for every
  place in every command what the process may rely on: what it has fetched,
  inspected, sealed or put, as long as it holds the lock of the tree or of the
  pair, which no two processes do (`LocksOK`). `RootOK` and `PairOK` say what is
  true of the shared files whoever works on them, `ResultsOK` that doctor's verdict
  and the report speak of bytes that were verified. `RootGrows` is the rely of a
  smoke run, which no longer holds a lock: a component and the receipt inside it stay,
  and a global receipt is only replaced, so that the one hashed at the end is still of
  the manifest verified at the start. `ReadsAreKept` says that a tool reads a copy
  with the bytes it was taken with; about netlist and Liberty nothing is proved.

Assumptions: limits and budgets are naturals, positive where the contracts say
so; identities of different kinds, and `None`, are distinct; jobs are finitely many;
every failure family has a rule. TLC evaluates all of them on the instances.

Some things were written for the prover and mean what they replaced: the safe part
of a plan (`Safe` in `Planner`) is a function on prefixes instead of `SelectSeq`;
`Audited` chooses a sequence of evidence directly; the stages of `Baseline` are a set
with ranks (`Rank`, `todo`) instead of a filtered sequence; an absent packet of
`Signoff` is a report of no commit (`NoPacket`), so that packets have one type. Sums over a set of two or of
finitely many, sequences of any length, joined sequences and least elements are
handled by induction in the form of set-membership (`NaturalsIn`, `LeastNumber`,
from the library's `WFMin`), since its theorems with operator parameters cannot be
applied.

## 6. What is only model-checked

* Liveness (`TransientSettles`, `PutEnds`, `CreatedGetsSealed`,
  `ReachesSearching`, `ProposeEnds`): beyond the prover.
* `AccountingNeverReset` is what the code violates; there is nothing to prove.

## 7. Plan

Done: scheduler, orchestrator and ledger with refinements and proofs;
artifact store with proofs; search, candidate flow, recovery, planners and platform
commands with proofs; baseline and evidence sessions, sign-off packets and bundles
with proofs.

Next, in this order:

1. Two sessions on one run directory in `Baseline`, once the code says what
   should happen then.
2. Pure algorithms as operators against reference definitions: aggregation,
   comparability, feasibility, formal composition.

## 8. What no property covers

These behaviours are the code's, mostly reproduced by the models, and nothing
in the repository promises another; they are what a maintainer should decide
about first.

* Scheduler: the resumed run's witness (section 3).
* Artifact store: a blob whose writer died between rename and directory sync is
  adopted without syncing its name (`artifacts/store.py:88`), and a directory that
  another process has made and not yet synced is used without syncing it
  (`artifacts/store.py:222`): either way a reference is handed out that a power loss may
  still take. `BlobsDurable` promises the reference of a writer in whose path every
  directory was synced when it returned.
* Candidate flow: a candidate whose author died before the bundle was sealed can
  never be taken up again (`optimization/flow.py:1357`). A bundle that is sealed while
  another call analyses the same candidate, or whose parent is analysed again, may never
  verify again, although everything it records still stands, because it binds the time
  stamps of both indexes (`optimization/flow.py:1614`, `1714`;
  `baseline/execution.py:770`): `SealedIsFinal` says that these two cases are the only ones.
* Baseline: a row submitted by a session that died stays QUEUED and blocks its
  kind (`orchestrator/scheduler.py:612`, `Blocked`); constraint files are read
  live while stage identities use the hash taken at initialization
  (`baseline/execution.py:1071`); two sessions on one directory are not excluded
  (`baseline/flow.py:321`).
* Planner: a chair that repeats an objection makes `CouncilResult` refuse itself
  with an error no handler covers (`planner/council.py:691`);
  `schema_repair_attempts` and `fallback_order` are read by nobody.
* Bundles: a planner run that dies between making its directory and writing its
  file is refused by every retry (`optimization/planner_flow.py:487`); so is a
  second deliberation after half the council's evidence was published
  (`optimization/council_evidence.py:64`).
* Sign-off: analysing a finished run again rewrites its time stamp, and M3 to M5
  stop verifying although no result changed (`baseline/execution.py:770`); editing
  the sources of the evidence stages takes M3 to M6 away at every commit
  (`evidence/signoff.py:520`), which `DependencyOutlivesCommits` excepts; a second signer
  between M5's look at its packet and the rename replaces a packet that was published
  meanwhile (`search/signoff.py:444`, `459`), and no command excludes it; M7 and
  M8 refuse a changed gate output after a death (`recovery/signoff.py:182`) and
  keep a packet that was published and did not verify (`recovery/signoff.py:344`).
* Platform: a death between placing a component and its outer receipt, or a new
  manifest, makes hydration refuse for ever (`platform/hydration.py:764`, `795`);
  a full-sized wrong partial is resumed for ever (`259`); publishers with
  different lock directories do not exclude each other (`platform/lock.py:488`);
  a smoke report hashes the platform lock as it is at the end of the run
  (`platform/smoke.py:654`), which may be another than the one the run was checked
  against, and of another manifest after a publication was rolled back. No snapshot
  guards the netlist, the Liberty files and the executables of a smoke run
  (`platform/smoke.py:448`, `604`): a setup view that writes over the netlist gives the
  hold view another one and the report a third hash (`683`), and nothing notices;
  `ReportNamesWhatRan` excludes them.

## 9. What is not modelled

EDA tools and the syntax of their reports, RTL rewriting, harness text and
benchmark generation are text and numbers without a protocol. Evidence graphs
and rankings are large deterministic data, of which `Baseline` keeps identity
and order. The command line parses and prints. Time is not a number anywhere: a
deadline may have passed, a wait may end. In `Search` one correctness partition
of the archive is modelled; in `CandidateFlow` the stages' results are a verdict
per gate; in `Recovery` directives are known only by the failure they were
compiled for, and excluded transform families are left out; in `Baseline`
constraint files do not change and one session runs at a time; in `Planner`
wording, identity hashes and the search's adapter are left out; in `Signoff` the
numbers inside a packet, two sign-offs at once and further searches and planner runs of the same run; in
`Platform` what the EDA tools compute is left out, archive extraction is a verdict,
only one pair of lock and views exists, and doctor is modelled as it runs with both a
toolchain manifest and a platform lock, each of which it can do without
(`platform/doctor.py:227`).
