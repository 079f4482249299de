---------------------------- MODULE CandidateFlow ----------------------------
(***************************************************************************)
(* optimization/flow.py, optimize_strict_vertical_slice, with the gate     *)
(* cascade of evaluation/cascade.py: one candidate is analysed, assessed   *)
(* by nine gates, journaled in the ledger of the parent run, entered as an *)
(* experiment and sealed in a bundle that any later call verifies and      *)
(* returns instead.                                                        *)
(*                                                                         *)
(* Any number of processes make the call for the same candidate.  Each     *)
(* write to the journal is one transaction of the Orchestrator module and  *)
(* atomic here; sequence numbers are positions in the journal, as they are *)
(* gapless.  Other processes append events of their own in between.  The   *)
(* bundle is written in place, in two steps, and binds the hashes of two   *)
(* run indexes: the parent's, which anyone may analyse again, and the      *)
(* candidate's, which every call that analyses the candidate rewrites.  A  *)
(* version number stands for a hash: each writing has its own time in it.  *)
(***************************************************************************)
EXTENDS Naturals, Sequences, SequencesExt, StateTables

CONSTANTS Callers,
          None,
          MaxOther,       \* bound: events of other entities of the run
          MaxReanalyses,  \* bound: further writings of the parent run's index
          MaxRewrites     \* bound: writings of the candidate run's index

ASSUME CandidateFlowAssumption ==
    /\ MaxOther \in Nat /\ MaxReanalyses \in Nat /\ MaxRewrites \in Nat
    /\ None \notin CandidateStates

\* EVALUATION_GATE_ORDER
GateOrder == <<"0", "0.5", "1", "2", "3", "4", "5", "6", "7">>

Gates == {GateOrder[i] : i \in DOMAIN GateOrder}

\* What the flow feeds the cascade: _assessment says PASS or FAIL, gates 0 and
\* 0.5 are passed by construction, and a run in which synthesis or the first
\* proof did not pass never gets here.
Assessments == {r \in [Gates -> {"PASS", "FAIL"}] :
                   \A g \in {"0", "0.5", "1", "3", "4"} : r[g] = "PASS"}

\* EvaluationCascade.evaluate stops at the first gate that does not pass.
Attempted(r) ==
    LET failing == {i \in DOMAIN GateOrder : r[GateOrder[i]] # "PASS"} IN
    IF failing = {} THEN Len(GateOrder) ELSE Min(failing)

Outcome(r) == r[GateOrder[Attempted(r)]]

StateEvent(s) == [kind |-> "STATE", gate |-> None, to |-> s]
GateEvent(kind, g) == [kind |-> kind, gate |-> g, to |-> None]
OtherEvent == [kind |-> "OTHER", gate |-> None, to |-> None]

TerminalKind == [PASS |-> "GATE_COMPLETED", FAIL |-> "GATE_FAILED",
                 INCONCLUSIVE |-> "GATE_INCONCLUSIVE",
                 INFRASTRUCTURE_ERROR |-> "GATE_INFRASTRUCTURE_ERROR"]

\* Faulty variant: no state follows fast synthesis.
StateAfterGateWithout3 ==
    [g \in {"1", "4", "5", "6", "7"} |->
        CASE g = "1" -> "PREFLIGHT" [] g = "4" -> "FORMAL" [] g = "5" -> "FULL_STA"
          [] g = "6" -> "PHYSICAL" [] OTHER -> "FEASIBLE"]

\* state_after_gate; the state each step expects is the one before it.
StateAfterGate ==
    [g \in {"1", "3", "4", "5", "6", "7"} |->
        CASE g = "1" -> "PREFLIGHT" [] g = "3" -> "FAST_SYNTH" [] g = "4" -> "FORMAL"
          [] g = "5" -> "FULL_STA" [] g = "6" -> "PHYSICAL" [] OTHER -> "FEASIBLE"]

\* Faulty variant: the state changes when the gate starts.
JournalOfEarly(g, s) ==
    <<GateEvent("GATE_STARTED", g)>>
    \o (IF g \in DOMAIN StateAfterGate THEN <<StateEvent(StateAfterGate[g])>> ELSE <<>>)
    \o <<GateEvent(TerminalKind[s], g)>>

\* What the flow journals about one gate.
JournalOf(g, s) ==
    <<GateEvent("GATE_STARTED", g), GateEvent(TerminalKind[s], g)>>
    \o (IF s = "PASS" /\ g \in DOMAIN StateAfterGate
        THEN <<StateEvent(StateAfterGate[g])>> ELSE <<>>)

\* The last state: a failure, or the verdict on a feasible candidate.
Closing(r, improved) ==
    <<StateEvent(CASE Outcome(r) = "PASS" -> IF improved THEN "PARETO" ELSE "DOMINATED"
                   [] Outcome(r) \in {"INCONCLUSIVE", "INFRASTRUCTURE_ERROR"} -> Outcome(r)
                   [] OTHER -> "REJECTED")>>

\* Everything to be journaled after the candidate was created.
Script(r, improved) ==
    <<StateEvent("VALIDATED"), StateEvent("MATERIALIZED")>>
    \o FlattenSeq([i \in 1 .. Attempted(r) |-> JournalOf(GateOrder[i], r[GateOrder[i]])])
    \o Closing(r, improved)

\* _terminal_classification, or FEASIBLE_PARETO / VALID_NEGATIVE_RESULT.
Classification(r, improved) ==
    CASE Outcome(r) = "PASS" -> IF improved THEN "FEASIBLE_PARETO" ELSE "VALID_NEGATIVE_RESULT"
      [] Outcome(r) \in {"INCONCLUSIVE", "INFRASTRUCTURE_ERROR"} -> Outcome(r)
      [] GateOrder[Attempted(r)] \in {"0", "0.5", "1", "2"} -> "REJECTED_SAFETY"
      [] GateOrder[Attempted(r)] = "4" -> "REJECTED_CORRECTNESS"
      [] OTHER -> "REJECTED_POLICY"

-----------------------------------------------------------------------------
VARIABLES
    journal,     \* the parent run's events
    row,         \* the candidate's state column, "ABSENT" without a row
    experiment,  \* disposition in the candidate's experiment record
    file,        \* candidate-bundle.json: absent, partial or whole
    bundle,      \* ... and its content
    th,          \* caller -> its call
    orphaned,    \* the author of the journal failed before it was done
    others,      \* events of other entities so far
    parentIndex,    \* index_hash of the parent run's index
    candidateIndex  \* ... and of the candidate run's, one for all callers

indexes == <<parentIndex, candidateIndex>>

vars == <<journal, row, experiment, file, bundle, th, orphaned, others, indexes>>

Idle == [pc |-> "idle", todo |-> <<>>, class |-> None, start |-> 0, gates |-> <<>>,
         draft |-> None, parent |-> 0, index |-> 0]

Go(p, pc) == th' = [th EXCEPT ![p].pc = pc]

End(p) == th' = [th EXCEPT ![p] = Idle]

\* Where the candidate's rows end up in a bundle's range.
Recorded(b) == [k \in DOMAIN b.gates |-> journal[b.gates[k]]]

ExpectedStates(b) ==
    CASE b.class \in {"FEASIBLE_PARETO", "VALID_NEGATIVE_RESULT"} -> {"PARETO", "DOMINATED"}
      [] b.class \in {"INCONCLUSIVE", "INFRASTRUCTURE_ERROR"} -> {b.class}
      [] OTHER -> {"REJECTED"}

\* verify_candidate_bundle asks that both indexes are those the bundle binds ...
IndexesKept(b) == b.parent = parentIndex /\ b.index = candidateIndex

\* ... and of the records the experiment, the digest of the replayed prefix (here
\* the prefix itself), the gate events inside the range and the final state.
RecordsStand(b) ==
    /\ experiment = b.class
    /\ b.end <= Len(journal) /\ SubSeq(journal, 1, b.end) = b.prefix
    /\ \A k \in DOMAIN b.gates : b.gates[k] \in b.start .. b.end
    /\ Recorded(b) = b.evaluation
    /\ row \in ExpectedStates(b)

Verifies(b) == IndexesKept(b) /\ RecordsStand(b)

Init ==
    /\ journal = <<>> /\ row = "ABSENT" /\ experiment = None /\ file = "absent" /\ bundle = None
    /\ th = [p \in Callers |-> Idle]
    /\ orphaned = FALSE /\ others = 0 /\ parentIndex = 0 /\ candidateIndex = 0

\* A call has the parent's index; when it finds no bundle it analyses the candidate.
Call(p) ==
    /\ th[p].pc = "idle" /\ file = "absent"
    /\ th' = [th EXCEPT ![p].pc = "analyze", ![p].parent = parentIndex]
    /\ UNCHANGED <<journal, row, experiment, file, bundle, orphaned, others, indexes>>

\* One that finds a bundle verifies it, and returns it or raises.
Reuse(p) == th[p].pc = "idle" /\ file # "absent" /\ UNCHANGED vars

\* analyze_run of the candidate rewrites its index after every stage it executes
\* (_persist_progress); another call may be past its own analysis by then.
Persist(p) ==
    /\ th[p].pc = "analyze" /\ candidateIndex < MaxRewrites
    /\ candidateIndex' = candidateIndex + 1
    /\ UNCHANGED <<journal, row, experiment, file, bundle, th, orphaned, others, parentIndex>>

\* It ends with the index it returns; both proofs, the comparisons and the
\* cascade follow, on the stage results that index names.
Analyze(p) ==
    /\ th[p].pc = "analyze" /\ candidateIndex < MaxRewrites
    /\ candidateIndex' = candidateIndex + 1
    /\ \E r \in Assessments, improved \in BOOLEAN :
          th' = [th EXCEPT ![p].pc = "create", ![p].todo = Script(r, improved),
                           ![p].class = Classification(r, improved),
                           ![p].index = candidateIndex + 1]
    /\ UNCHANGED <<journal, row, experiment, file, bundle, orphaned, others, parentIndex>>

\* A stage of the candidate's run, or its first proof, does not pass: the call
\* raises on the spot.
AnalyzeRaises(p) ==
    /\ th[p].pc = "analyze"
    /\ End(p)
    /\ UNCHANGED <<journal, row, experiment, file, bundle, orphaned, others, indexes>>

\* "candidate journal exists without a reusable bundle", or create_candidate
\* refuses; otherwise this call is the author of the candidate's journal.
Create(p) ==
    /\ th[p].pc = "create"
    /\ IF row # "ABSENT" THEN End(p) /\ UNCHANGED <<journal, row>>
       ELSE /\ journal' = Append(journal, StateEvent("PROPOSED")) /\ row' = "PROPOSED"
            /\ th' = [th EXCEPT ![p].pc = "journal", ![p].start = Len(journal) + 1]
    /\ UNCHANGED <<experiment, file, bundle, orphaned, others, indexes>>

\* record_event for the next gate event.
RecordGate(p) ==
    /\ th[p].pc = "journal" /\ th[p].todo # <<>> /\ Head(th[p].todo).kind # "STATE"
    /\ journal' = Append(journal, Head(th[p].todo))
    /\ th' = [th EXCEPT ![p].todo = Tail(@), ![p].gates = Append(@, Len(journal) + 1)]
    /\ UNCHANGED <<row, experiment, file, bundle, orphaned, others, indexes>>

\* transition_candidate, which refuses an illegal step.
Transition(p) ==
    LET to == Head(th[p].todo).to IN
    /\ th[p].pc = "journal" /\ th[p].todo # <<>> /\ Head(th[p].todo).kind = "STATE"
    /\ IF Legal(CandidateTransitions, row, to)
       THEN /\ journal' = Append(journal, StateEvent(to)) /\ row' = to
            /\ th' = [th EXCEPT ![p].todo = Tail(@)]
       ELSE End(p) /\ UNCHANGED <<journal, row>>
    /\ UNCHANGED <<experiment, file, bundle, orphaned, others, indexes>>

\* put_named_bytes and append_record.
AppendExperiment(p) ==
    /\ th[p].pc = "journal" /\ th[p].todo = <<>>
    /\ experiment' = th[p].class
    /\ Go(p, "replay")
    /\ UNCHANGED <<journal, row, file, bundle, orphaned, others, indexes>>

\* Faulty variant: the range ends with the author's last gate event, the digest
\* is of all there is.
ReplayOwnRange(p) ==
    /\ th[p].pc = "replay"
    /\ th' = [th EXCEPT ![p].pc = "write",
                        ![p].draft = [start |-> th[p].start, end |-> Last(th[p].gates),
                                      prefix |-> journal, gates |-> th[p].gates,
                                      evaluation |-> [k \in DOMAIN th[p].gates |->
                                                         journal[th[p].gates[k]]],
                                      class |-> th[p].class,
                                      parent |-> th[p].parent, index |-> th[p].index]]
    /\ UNCHANGED <<journal, row, experiment, file, bundle, orphaned, others, indexes>>

\* replay_run of the parent run as it is now; the bundle's content.
Replay(p) ==
    /\ th[p].pc = "replay"
    /\ th' = [th EXCEPT ![p].pc = "write",
                        ![p].draft = [start |-> th[p].start, end |-> Len(journal),
                                      prefix |-> journal, gates |-> th[p].gates,
                                      evaluation |-> [k \in DOMAIN th[p].gates |->
                                                         journal[th[p].gates[k]]],
                                      class |-> th[p].class,
                                      parent |-> th[p].parent, index |-> th[p].index]]
    /\ UNCHANGED <<journal, row, experiment, file, bundle, orphaned, others, indexes>>

\* write_bytes opens and truncates the file ...
OpenBundle(p) ==
    /\ th[p].pc = "write"
    /\ file' = "partial"
    /\ Go(p, "close")
    /\ UNCHANGED <<bundle, journal, row, experiment, orphaned, others, indexes>>

\* ... and has written it.
WriteBundle(p) ==
    /\ th[p].pc = "close"
    /\ file' = "whole" /\ bundle' = th[p].draft
    /\ Go(p, "verify")
    /\ UNCHANGED <<journal, row, experiment, orphaned, others, indexes>>

\* verify_candidate_bundle reads it back; either way the call is over.
VerifyBundle(p) ==
    /\ th[p].pc = "verify"
    /\ End(p)
    /\ UNCHANGED <<journal, row, experiment, file, bundle, orphaned, others, indexes>>

\* The process dies, or a store or the database raises.
Fail(p) ==
    /\ th[p].pc # "idle"
    /\ orphaned' = (orphaned \/ th[p].pc \in {"journal", "replay", "write", "close"})
    /\ End(p)
    /\ UNCHANGED <<journal, row, experiment, file, bundle, others, indexes>>

\* The run itself moves on, or another candidate is journaled.
Other ==
    /\ others < MaxOther
    /\ others' = others + 1
    /\ journal' = Append(journal, OtherEvent)
    /\ UNCHANGED <<row, experiment, file, bundle, th, orphaned, indexes>>

\* The parent run is analysed again: its index has a new time in it.
Reanalyze ==
    /\ parentIndex < MaxReanalyses
    /\ parentIndex' = parentIndex + 1
    /\ UNCHANGED <<journal, row, experiment, file, bundle, th, orphaned, others, candidateIndex>>

\* What a call does once its analysis is through.
Author(p) == \/ Create(p) \/ RecordGate(p) \/ Transition(p) \/ AppendExperiment(p)
             \/ Replay(p) \/ OpenBundle(p) \/ WriteBundle(p) \/ VerifyBundle(p)

Next == \/ \E p \in Callers : \/ Call(p) \/ Reuse(p) \/ Persist(p) \/ Analyze(p) \/ Author(p)
                              \/ Fail(p) \/ AnalyzeRaises(p)
        \/ Other \/ Reanalyze

Spec == Init /\ [][Next]_vars

\* A process that has its evaluation writes it down unless it fails.
FairSpec == Spec /\ \A p \in Callers : WF_vars(Author(p))

-----------------------------------------------------------------------------
(* Properties *)

Classes == {"FEASIBLE_PARETO", "VALID_NEGATIVE_RESULT", "INCONCLUSIVE", "INFRASTRUCTURE_ERROR",
            "REJECTED_SAFETY", "REJECTED_CORRECTNESS", "REJECTED_POLICY"}

Sealed == file = "whole"

Ended(s) == s \in CandidateStates \ DOMAIN CandidateTransitions

\* Types; a caller outside a call holds nothing.
TypeOK ==
    /\ row \in CandidateStates \cup {"ABSENT"} /\ experiment \in Classes \cup {None}
    /\ \A i \in DOMAIN journal : journal[i].to \in CandidateStates \cup {None}
                                 /\ journal[i].gate \in Gates \cup {None}
    /\ file \in {"absent", "partial", "whole"} /\ (Sealed => bundle.class \in Classes)
    /\ \A p \in Callers : /\ th[p].pc \in {"idle", "analyze", "create", "journal", "replay",
                                           "write", "close", "verify"}
                          /\ th[p].pc = "idle" => th[p] = Idle
                          /\ th[p].pc \in {"journal", "replay"} => th[p].class \in Classes
    /\ orphaned \in BOOLEAN /\ others \in 0 .. MaxOther
    /\ parentIndex \in 0 .. MaxReanalyses /\ candidateIndex \in 0 .. MaxRewrites

\* Gates completed before position i, in the order the cascade prescribes.
Completed(i) == {g \in Gates : \E j \in 1 .. i - 1 : journal[j] = GateEvent("GATE_COMPLETED", g)}

UpTo(g) == {GateOrder[k] : k \in {k \in DOMAIN GateOrder :
                                     \E l \in k .. Len(GateOrder) : GateOrder[l] = g}}

\* A candidate advances exactly as far as the gates it passed: wherever the
\* journal is cut, a state of the ladder follows precisely the gates up to its
\* own, PARETO and DOMINATED follow all nine, and a failure follows one gate
\* that did not pass, the last one started.
LadderFollowsGates ==
    \A i \in DOMAIN journal : journal[i].kind = "STATE" =>
        LET s == journal[i].to IN
        /\ \A g \in DOMAIN StateAfterGate : s = StateAfterGate[g] => Completed(i) = UpTo(g)
        /\ s \in {"PARETO", "DOMINATED"} => Completed(i) = Gates
        /\ s \in EvaluationFailures =>
              \E g \in Gates : /\ Completed(i) = UpTo(g) \ {g}
                               /\ \E j \in 1 .. i - 1 : journal[j].gate = g
                               /\ \A j \in 1 .. i - 1 : journal[j].gate \in UpTo(g) \cup {None}

\* The experiment record is written only of a candidate whose state is final,
\* and says what that state says.
ExperimentIsFinal ==
    experiment # None =>
        /\ Ended(row)
        /\ row \in ExpectedStates([class |-> experiment])

\* No call is analysing the candidate.
Quiet == \A p \in Callers : th[p].pc # "analyze"

\* What a sealed bundle says of the journal, the experiment and the state stands
\* at every later moment, whatever other processes append to the run's journal
\* and however many calls were made meanwhile.  As a whole it verifies until the
\* parent is analysed again, once the analyses that overlapped the call are over:
\* none begins after it.
SealedIsFinal ==
    /\ [](TypeOK /\ (Sealed => RecordsStand(bundle)) /\ ExperimentIsFinal)
    /\ [][Sealed /\ Quiet =>
             Quiet' /\ (Verifies(bundle) /\ parentIndex' = parentIndex => Verifies(bundle)')]_vars

\* Once a candidate has been created its bundle gets sealed, unless its author
\* failed on the way: no transition of the flow is ever refused.
CreatedGetsSealed == row # "ABSENT" ~> Sealed \/ orphaned

=============================================================================
