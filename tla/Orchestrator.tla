---------------------------- MODULE Orchestrator ----------------------------
(***************************************************************************)
(* orchestrator/state.py and artifacts/ledger.py: RunOrchestrator, the     *)
(* writer of run and candidate states, over ExperimentLedger, the          *)
(* append-only event table they share in one SQLite file.                  *)
(*                                                                         *)
(* A method of the orchestrator is one write transaction: BEGIN IMMEDIATE  *)
(* takes the only write lock, the preconditions are read, the payload is   *)
(* published in the artifact store (outside the database), and the event   *)
(* and the row of the entity are committed together.  The analysis flows   *)
(* also append events of their own, through the ledger and without the     *)
(* orchestrator: they read the last sequence number first and append in a  *)
(* transaction of its own afterwards.  Callers are processes; one may fail *)
(* or die between any two of these steps.                                  *)
(***************************************************************************)
EXTENDS Naturals, Sequences, StateTables

CONSTANTS
    Runs, Candidates,   \* run ids, candidate ids
    Stages,             \* stage result ids
    Payloads,           \* payload contracts (content addresses)
    Callers,            \* processes holding a RunOrchestrator
    PolicyOf,           \* caller -> the policy hash it was built with
    None,
    MaxEvents           \* bound: events of a run before a new call

Entities == Runs \cup Candidates

ASSUME EventBoundAssumption == MaxEvents \in Nat

ASSUME IdentityAssumption ==
    /\ Runs \cap Candidates = {} /\ Stages \cap Entities = {}
    /\ None \notin Entities \cup RunStates \cup CandidateStates
    /\ None \notin {PolicyOf[c] : c \in Callers}

VARIABLES
    state,      \* entity -> state column; "CREATED" / "ABSENT" without a row
    sequence,   \* entity -> sequence column; 0 without a row
    policy,     \* run -> policy_hash column
    home,       \* candidate -> run_id column
    parent,     \* candidate -> recovery_parent_candidate_id
    events,     \* run -> its rows of run_events, in insertion order
    stored,     \* payloads published in the artifact store
    th          \* caller -> the call it is executing

tables == <<state, sequence, policy, home, parent, events>>
vars == <<tables, stored, th>>

-----------------------------------------------------------------------------
(* What a caller holds while it is in a method: the event it is going to   *)
(* append, and for a new candidate its recovery parent.                    *)

Event(kind, e, s, t, pol, p, n) ==
    [kind |-> kind, entity |-> e, prior |-> s, new |-> t,
     policy |-> pol, payload |-> p, sequence |-> n]

NoEvent == Event(None, None, None, None, None, None, 0)

At(pc, r, ev, par) == [pc |-> pc, run |-> r, event |-> ev, parent |-> par]

Idle == At("idle", None, NoEvent, None)

Set(c, t) == th' = [th EXCEPT ![c] = t]

\* The SQLite write lock: held from BEGIN IMMEDIATE to the commit.
Unlocked == \A c \in Callers : th[c].pc \notin {"store", "commit"}

\* SELECT MAX(sequence): the insert trigger keeps the last row the largest.
MaxSequence(r) == IF events[r] = <<>> THEN 0
                  ELSE events[r][Len(events[r])].sequence

HasRow(e) == sequence[e] > 0

Init ==
    /\ state = [e \in Entities |-> IF e \in Runs THEN "CREATED" ELSE "ABSENT"]
    /\ sequence = [e \in Entities |-> 0]
    /\ policy = [r \in Runs |-> None]
    /\ home = [k \in Candidates |-> None]
    /\ parent = [k \in Candidates |-> None]
    /\ events = [r \in Runs |-> <<>>]
    /\ stored = {}
    /\ th = [c \in Callers |-> Idle]

\* Faulty variant: a plain BEGIN, the preconditions are read without the lock.
BeginDeferred(c, r, kind, e, s, t, p, par) ==
    /\ th[c].pc = "idle" /\ Len(events[r]) < MaxEvents
    /\ Set(c, At("store", r, Event(kind, e, s, t, PolicyOf[c], p, 0), par))
    /\ UNCHANGED <<tables, stored>>

Begin(c, r, kind, e, s, t, p, par) ==
    /\ th[c].pc = "idle" /\ Unlocked /\ Len(events[r]) < MaxEvents
    /\ Set(c, At("store", r, Event(kind, e, s, t, PolicyOf[c], p, 0), par))
    /\ UNCHANGED <<tables, stored>>

\* A run without a row counts as CREATED and takes the caller's policy.
Transition(c, r, t, p) ==
    /\ Legal(RunTransitions, state[r], t)
    /\ HasRow(r) => policy[r] = PolicyOf[c]
    /\ Begin(c, r, "RUN", r, state[r], t, p, None)

\* Faulty variant: any parent will do.
CreateCandidateOfAnyone(c, r, k, par, p) ==
    /\ HasRow(r) /\ policy[r] = PolicyOf[c] /\ ~HasRow(k)
    /\ par # None => HasRow(par)
    /\ Begin(c, r, "CANDIDATE", k, None, "PROPOSED", p, par)

\* create_candidate, and create_recovery_child when there is a parent.  The
\* state of the run is not looked at.
CreateCandidate(c, r, k, par, p) ==
    /\ HasRow(r) /\ policy[r] = PolicyOf[c] /\ ~HasRow(k)
    /\ par # None => home[par] = r /\ state[par] = "RECOVERY_ELIGIBLE"
    /\ Begin(c, r, "CANDIDATE", k, None, "PROPOSED", p, par)

TransitionCandidate(c, k, t, p) ==
    /\ HasRow(k) /\ policy[home[k]] = PolicyOf[c]
    /\ Legal(CandidateTransitions, state[k], t)
    /\ Begin(c, home[k], "CANDIDATE", k, state[k], t, p, parent[k])

\* record_event, with the CANDIDATE_GATE events the flows record.
RecordEvent(c, k, p) ==
    /\ HasRow(k) /\ policy[home[k]] = PolicyOf[c]
    /\ Begin(c, home[k], "CANDIDATE_GATE", k, None, None, p, None)

\* Faulty variant: the payload is left to be published after the commit.
StorePayloadLater(c) ==
    /\ th[c].pc = "store"
    /\ Set(c, [th[c] EXCEPT !.pc = "commit"])
    /\ UNCHANGED <<tables, stored>>

\* _store_payload, inside the transaction.
StorePayload(c) ==
    /\ th[c].pc = "store"
    /\ stored' = stored \cup {th[c].event.payload}
    /\ Set(c, [th[c] EXCEPT !.pc = "commit"])
    /\ UNCHANGED tables

\* _upsert_run, _insert_candidate, _update_candidate
WriteRow(r, ev, par) ==
    /\ state' = [state EXCEPT ![ev.entity] = ev.new]
    /\ sequence' = [sequence EXCEPT ![ev.entity] = ev.sequence]
    /\ policy' = IF ev.kind = "RUN" THEN [policy EXCEPT ![r] = ev.policy] ELSE policy
    /\ home' = IF ev.kind = "CANDIDATE" THEN [home EXCEPT ![ev.entity] = r] ELSE home
    /\ parent' = IF ev.kind = "CANDIDATE" THEN [parent EXCEPT ![ev.entity] = par] ELSE parent

\* The primary key of an insert, the WHERE clause of an update.
RowAccepts(ev) ==
    CASE ev.prior \in {None, "CREATED"} -> ~HasRow(ev.entity)
      [] ev.prior # "CREATED" /\ ev.kind = "RUN" -> sequence[ev.entity] < ev.sequence
      [] ev.prior # None /\ ev.kind = "CANDIDATE" -> state[ev.entity] = ev.prior

\* The event takes the next sequence number, and is committed with its row.
Commit(c) ==
    LET r == th[c].run
        ev == [th[c].event EXCEPT !.sequence = MaxSequence(r) + 1]
    IN /\ th[c].pc = "commit"
       /\ events' = [events EXCEPT ![r] = Append(@, ev)]
       /\ IF ev.kind = "CANDIDATE_GATE"
          THEN UNCHANGED <<state, sequence, policy, home, parent>>
          ELSE RowAccepts(ev) /\ WriteRow(r, ev, th[c].parent)
       /\ Set(c, Idle)
       /\ UNCHANGED stored

\* An exception inside the transaction, or the death of the process at any
\* point of a call: SQLite rolls back, a published payload stays.
Abandon(c) ==
    /\ th[c].pc # "idle"
    /\ Set(c, Idle)
    /\ UNCHANGED <<tables, stored>>

-----------------------------------------------------------------------------
(* _append_stage_event: the result of a stage has been published, the last *)
(* sequence number is read, and the event is appended by append_event in a *)
(* transaction of its own.                                                 *)

ReadLastEvent(c, r, s, p) ==
    /\ th[c].pc = "idle" /\ Len(events[r]) < MaxEvents
    /\ state[r] \notin {"CREATED", "INGESTING"}
    /\ stored' = stored \cup {p}
    /\ Set(c, At("append", r, Event("STAGE", s, None, None, PolicyOf[c], p,
                                    MaxSequence(r) + 1), None))
    /\ UNCHANGED tables

\* Faulty variant: the number is not compared with the last one.
AppendStageEventUnchecked(c) ==
    /\ th[c].pc = "append" /\ Unlocked
    /\ events' = [events EXCEPT ![th[c].run] = Append(@, th[c].event)]
    /\ Set(c, Idle)
    /\ UNCHANGED <<state, sequence, policy, home, parent, stored>>

\* A number that was taken in the meantime is a LedgerAppendError.
AppendStageEvent(c) ==
    LET r == th[c].run  ev == th[c].event
    IN /\ th[c].pc = "append" /\ Unlocked
       /\ events' = IF ev.sequence > MaxSequence(r)
                    THEN [events EXCEPT ![r] = Append(@, ev)] ELSE events
       /\ Set(c, Idle)
       /\ UNCHANGED <<state, sequence, policy, home, parent, stored>>

-----------------------------------------------------------------------------
Call(c) ==
    \E p \in Payloads :
        \/ \E r \in Runs :
              \/ \E t \in RunStates : Transition(c, r, t, p)
              \/ \E k \in Candidates, par \in Candidates \cup {None} :
                    CreateCandidate(c, r, k, par, p)
              \/ \E s \in Stages : ReadLastEvent(c, r, s, p)
        \/ \E k \in Candidates :
              \/ \E t \in CandidateStates : TransitionCandidate(c, k, t, p)
              \/ RecordEvent(c, k, p)

Next == \E c \in Callers : \/ Call(c) \/ StorePayload(c) \/ Commit(c)
                           \/ AppendStageEvent(c) \/ Abandon(c)

Spec == Init /\ [][Next]_vars

-----------------------------------------------------------------------------
(* Properties *)

Policies == {PolicyOf[c] : c \in Callers}

EventRecord == [kind : {"RUN", "CANDIDATE", "CANDIDATE_GATE", "STAGE"},
                entity : Entities \cup Stages,
                prior : RunStates \cup CandidateStates \cup {None},
                new : RunStates \cup CandidateStates \cup {None},
                policy : Policies, payload : Payloads, sequence : Nat]

\* What a caller in the middle of a call holds.
Drafts == [pc : {"store", "commit", "append"}, run : Runs, event : EventRecord,
           parent : Candidates \cup {None}]

DraftOK(t) ==
    /\ t \in Drafts
    /\ t.event.kind = "RUN" => t.event.entity = t.run
    /\ t.event.kind \in {"CANDIDATE", "CANDIDATE_GATE"} => t.event.entity \in Candidates
    /\ t.event.kind \in {"RUN", "CANDIDATE"} => t.event.new # None

TypeOK ==
    /\ state \in [Entities -> RunStates \cup CandidateStates \cup {"ABSENT"}]
    /\ sequence \in [Entities -> Nat]
    /\ policy \in [Runs -> Policies \cup {None}]
    /\ home \in [Candidates -> Runs \cup {None}]
    /\ parent \in [Candidates -> Candidates \cup {None}]
    /\ events \in [Runs -> Seq(EventRecord)]
    /\ stored \subseteq Payloads
    /\ th \in [Callers -> Drafts \cup {Idle}]
    /\ \A c \in Callers : th[c] = Idle \/ DraftOK(th[c])

\* The rows of one run are numbered 1, 2, 3, ... whoever appends them: two
\* orchestrators, or a stage whose number was read before somebody else's
\* commit.  The prefix digests of candidate bundles index the replayed events
\* by sequence number and rely on it.
SequencesGapless ==
    \A r \in Runs : \A n \in DOMAIN events[r] : events[r][n].sequence = n

Changes(r, n, e) == /\ events[r][n].kind \in {"RUN", "CANDIDATE"}
                    /\ events[r][n].entity = e

LegalChange(ev) ==
    IF ev.kind = "RUN" THEN Legal(RunTransitions, ev.prior, ev.new)
    ELSE \/ ev.prior = None /\ ev.new = "PROPOSED"
         \/ Legal(CandidateTransitions, ev.prior, ev.new)

\* The change at n continues the entity's history: it is the first and starts
\* from the initial state, or it starts where the previous change ended.
Continues(r, n, e) ==
    \/ /\ events[r][n].prior = IF e \in Runs THEN "CREATED" ELSE None
       /\ \A m \in 1 .. n - 1 : ~Changes(r, m, e)
    \/ \E m \in 1 .. n - 1 :
          /\ Changes(r, m, e) /\ events[r][m].new = events[r][n].prior
          /\ \A i \in m + 1 .. n - 1 : ~Changes(r, i, e)

\* The journal of every run and candidate is a path of the locked state
\* machine: no step is skipped, repeated or made from a state that another
\* caller had already left.
HistoryIsPath ==
    \A r \in Runs, e \in Entities : \A n \in DOMAIN events[r] :
        Changes(r, n, e) => LegalChange(events[r][n]) /\ Continues(r, n, e)

HomeOf(e) == IF e \in Runs THEN e ELSE home[e]

LastChange(r, n, e) ==
    /\ n \in DOMAIN events[r]
    /\ Changes(r, n, e) /\ events[r][n].new = state[e]
    /\ \A m \in n + 1 .. Len(events[r]) : ~Changes(r, m, e)

NoChange(e) ==
    /\ state[e] = IF e \in Runs THEN "CREATED" ELSE "ABSENT"
    /\ \A r \in Runs : \A m \in DOMAIN events[r] : ~Changes(r, m, e)

\* The current-state row is the last change the journal records for its entity,
\* in state and in sequence, and an entity without a row has none.
RowIsLastChange ==
    \A e \in Entities :
        IF HasRow(e) THEN HomeOf(e) \in Runs /\ LastChange(HomeOf(e), sequence[e], e)
        ELSE NoChange(e)

\* The checks of replay_run: events exist, their numbers increase, and every
\* payload can be opened.
Replayable(r) ==
    /\ events[r] # <<>>
    /\ \A n \in DOMAIN events[r] :
          /\ n > 1 => events[r][n - 1].sequence < events[r][n].sequence
          /\ events[r][n].payload \in stored

\* A run that has a state can be replayed at every moment, also after a call
\* that died between publishing its payload and committing its event.
ReplaySucceeds == \A r \in Runs : HasRow(r) => Replayable(r)

\* Every orchestrated event of a run was written under the policy its first
\* transition pinned.
PolicyPinned ==
    \A r \in Runs : \A n \in DOMAIN events[r] :
        events[r][n].kind # "STAGE" => events[r][n].policy = policy[r]

\* The journal of a run is one gapless history of legal changes under one
\* policy, and the rows are where it ends.
JournalSound == SequencesGapless /\ HistoryIsPath /\ RowIsLastChange /\ PolicyPinned

\* A recovery child has a parent of its own run that was, and still is,
\* RECOVERY_ELIGIBLE, since before the child's first event.
RecoveryLineage ==
    \A k \in Candidates : HasRow(k) /\ parent[k] # None =>
        /\ home[parent[k]] = home[k] /\ state[parent[k]] = "RECOVERY_ELIGIBLE"
        /\ \A n \in DOMAIN events[home[k]] :
              events[home[k]][n].entity = k => sequence[parent[k]] < n

Ended(e) == state[e] \in
    IF e \in Runs
    THEN {"COMPLETED", "FAILED_INPUT", "FAILED_BASELINE", "BUDGET_EXHAUSTED", "CANCELLED"}
    ELSE EvaluationFailures \cup {"PARETO", "DOMINATED", "SELECTED"}

\* A run or candidate that has ended stays as it is, also when the call that
\* ended it raced with another one.
EndedForGood ==
    [][\A e \in Entities : Ended(e) => state'[e] = state[e] /\ sequence'[e] = sequence[e]]_vars

\* The orchestrator implements the abstract journal, the callers that share it
\* and die in it included: its events are the log, an event being an entry that
\* moves its entity unless it is of a gate or a stage, and the rows the states.
EntryOf(ev) == [entity |-> ev.entity, to |-> ev.new, number |-> ev.sequence]

J == INSTANCE Journal WITH
        at <- state,
        of <- home,
        origin <- parent,
        log <- [r \in Runs |-> [n \in DOMAIN events[r] |-> EntryOf(events[r][n])]]

ImplementsJournal == J!Spec

-----------------------------------------------------------------------------
(* The strengthening the proofs need. *)

\* What holds of the call of a caller that has the write lock: the rows it
\* read are still the ones it read.
PreconditionsHold(t) ==
    LET ev == t.event  r == t.run IN
    \/ /\ ev.kind = "RUN"
       /\ ev.prior = state[r] /\ Legal(RunTransitions, ev.prior, ev.new)
       /\ HasRow(r) => policy[r] = ev.policy
    \/ /\ ev.kind = "CANDIDATE" /\ ev.prior = None /\ ev.new = "PROPOSED"
       /\ HasRow(r) /\ policy[r] = ev.policy /\ ~HasRow(ev.entity)
       /\ t.parent # None => home[t.parent] = r /\ state[t.parent] = "RECOVERY_ELIGIBLE"
    \/ /\ ev.kind = "CANDIDATE" /\ ev.prior # None
       /\ HasRow(r) /\ policy[r] = ev.policy
       /\ HasRow(ev.entity) /\ home[ev.entity] = r /\ t.parent = parent[ev.entity]
       /\ ev.prior = state[ev.entity] /\ Legal(CandidateTransitions, ev.prior, ev.new)
    \/ /\ ev.kind = "CANDIDATE_GATE" /\ ev.new = None
       /\ HasRow(r) /\ policy[r] = ev.policy
       /\ HasRow(ev.entity) /\ home[ev.entity] = r

InTransaction(c) == th[c].pc \in {"store", "commit"}

OneWriter == \A c, d \in Callers : InTransaction(c) /\ InTransaction(d) => c = d

CallConsistent(c) ==
    /\ InTransaction(c) => PreconditionsHold(th[c])
    /\ th[c].pc \in {"commit", "append"} => th[c].event.payload \in stored
    /\ th[c].pc = "append" =>
          /\ th[c].event.kind = "STAGE" /\ th[c].event.entity \in Stages
          /\ th[c].event.new = None
          /\ HasRow(th[c].run)
          /\ th[c].event.sequence \in 1 .. Len(events[th[c].run]) + 1

CallsConsistent == \A c \in Callers : CallConsistent(c)

\* Events are written only for rows that exist, in the run the row belongs to.
EventsAtHome ==
    \A r \in Runs : \A n \in DOMAIN events[r] :
        LET ev == events[r][n] IN
        /\ HasRow(r) /\ ev.payload \in stored
        /\ ev.kind = "RUN" => ev.entity = r
        /\ ev.kind \in {"CANDIDATE", "CANDIDATE_GATE"} =>
              ev.entity \in Candidates /\ HasRow(ev.entity) /\ home[ev.entity] = r
        /\ ev.kind = "STAGE" => ev.entity \in Stages

RowsConsistent ==
    /\ \A k \in Candidates : ~HasRow(k) => home[k] = None /\ parent[k] = None
    /\ \A e \in Entities : HasRow(e) => state[e] \notin {"CREATED", "ABSENT"}

JournalInvariant ==
    /\ OneWriter /\ CallsConsistent /\ EventsAtHome /\ RowsConsistent
    /\ SequencesGapless /\ RowIsLastChange /\ HistoryIsPath
    /\ PolicyPinned /\ RecoveryLineage
=============================================================================
