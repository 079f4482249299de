------------------------- MODULE RunDirectoryProofs -------------------------
(***************************************************************************)
(* Proofs about what a run leaves on disk, in three parts.  Baseline: the  *)
(* run index, the resume manifest, the stage results and the rows that     *)
(* sessions of analysis leave to the next, for any stages and recipes and  *)
(* however many faults.  Signoff: the packets, for any number of commits,  *)
(* edits, analyses and attempts.  ArtifactStore: the blobs both refer to,  *)
(* for any writers and contents and however often the power goes.          *)
(***************************************************************************)
EXTENDS Baseline, Signoff, ArtifactStore, FiniteSetTheorems, WellFoundedInduction, TLAPS

-----------------------------------------------------------------------------
(* Part 1, Baseline: the inductive invariant of a run that is analysed again *)

Statuses == {"PASS", "TIMING", "FAIL", "INFRASTRUCTURE_ERROR"}

Results ==
    [stage : Stages, status : Statuses, recipe : Recipes, parent : Nat \cup {None},
     binding : Recipes \cup {None}, views : SUBSET (Nat \cup {None})]

RowStatuses == Leasing \cup {"QUEUED", "COMPLETED", "CANCELLED", "INFRASTRUCTURE_ERROR"}

Rows == [kind : Kinds, status : RowStatuses]

Refs == [Stages -> Nat \cup {None}]

NothingKnown == [s \in Stages |-> None]

\* The places of a session, those where its own row may hold a lease, those
\* where a stage is at hand, and those after EnterBaselining.
Leased == {"submitted", "dispatching", "running", "cancelling", "executed"}
AtWork == Leased \cup {"completed", "journaled", "indexed"}
Going == AtWork \cup {"stage", "passed", "leaving"}

InPhase == IF phase = "M2" THEN Baseline ELSE AfterBaseline

BaselineTypeOK ==
    /\ index \in [status : {"INITIALIZED", "BASELINING", "PASS"}, refs : Refs]
    /\ manifest \in [Stages -> ManifestEntries \cup {None}]
    /\ store \in Seq(Results) /\ events \in Seq([stage : Stages, ref : Nat]) /\ jobs \in Seq(Rows)
    /\ recipe \in Recipes
    /\ pc \in Going \cup {"idle", "opened", "entering"} /\ phase \in {"M2", "M3"}
    /\ todo \subseteq InPhase
    /\ refs \in Refs /\ hashes \in [Stages -> StageHashes \cup {None}]
    /\ result \in Nat \cup {None}

\* References stand for results that are stored.
InStore(f) == \A s \in Stages : f[s] # None => f[s] \in 1 .. Len(store)

\* What the places say of the session.
SessionPlace ==
    /\ pc = "idle" => todo = {} /\ refs = NothingKnown /\ hashes = NothingKnown
    /\ pc \in {"opened", "entering"} =>
          phase = "M2" /\ todo = Baseline /\ refs = NothingKnown /\ hashes = NothingKnown
    /\ pc \in Leased \cup {"passed", "leaving"} => phase = "M2"
    /\ pc \in {"passed", "leaving"} => todo = {}
    /\ pc \in AtWork => todo # {}

\* The stages whose results s reads.
Reads(s) ==
    IF s = "yosys" THEN {}
    ELSE IF s = "evidence" THEN {"yosys"} \cup Measured
    ELSE IF s = "opportunity" THEN {"yosys", "evidence"}
    ELSE IF s = "road_hold" THEN {"yosys", "road_setup"}
    ELSE {"yosys"}

\* Stages are gone through in order.
InOrder == \A s \in InPhase \ todo, t \in todo : Rank[s] < Rank[t]

\* The hashes a session keeps are those it would ask for now, ...
Asked(s) == hashes[s] = Requested(s, refs)

\* ... and a stage that is done has an accepted result of them, however long
\* ago it was computed.
DoneStage(s) ==
    /\ Asked(s)
    /\ refs[s] # None /\ Accepted(store[refs[s]]) /\ Hashes(store[refs[s]]) = hashes[s]

DoneStages == pc \in Going => \A s \in InPhase \ todo : DoneStage(s)

\* Of the stages ahead the session knows no hashes.
AheadStages ==
    pc \in Going /\ phase = "M2" =>
        \A s \in todo : hashes[s] # None => pc \in AtWork /\ s = Stage

StageAtHand ==
    \A s \in todo : s = Stage =>
        /\ pc \in AtWork => Asked(s)
        /\ pc \in {"executed", "completed", "journaled", "indexed"} =>
              result \in 1 .. Len(store) /\ Hashes(store[result]) = hashes[s]
        /\ pc \in {"journaled", "indexed"} => refs[s] = result

\* The baseline does not change under an evidence session.
EvidenceSession ==
    phase = "M3" /\ pc # "idle" =>
        /\ pc \in Going
        /\ index.status = "PASS"
        /\ \A s \in Baseline : refs[s] = index.refs[s] /\ hashes[s] = Hashes(store[refs[s]])

\* The index knows what the session knows, but for a result that was journaled
\* just now.
IndexFollows ==
    pc \in Going => \A s \in Stages : refs[s] = index.refs[s] \/ (pc = "journaled" /\ s = Stage)

Logged(f) ==
    \A s \in Stages : f[s] # None =>
        \E i \in 1 .. Len(events) : events[i] = [stage |-> s, ref |-> f[s]]

PassStage(s) ==
    /\ s \in Names(index.refs)
    /\ Chained(s, index.refs)
    /\ store[index.refs[s]].recipe = Netlist(index.refs)

PassCoherent == index.status = "PASS" => \A s \in Baseline : PassStage(s)

\* What s was asked for, by an entry of the manifest, is what other entries
\* name.
EntryCoherent(s) ==
    /\ manifest[s].ref \in 1 .. Len(store)
    /\ \A t \in Reads(s) : manifest[t] # None /\ manifest[t].ref \in 1 .. Len(store)
    /\ LET f == [t \in Stages |-> manifest[t].ref]
           h == manifest[s].requested
       IN  h.parent = Parent(s, f) /\ h.binding = Binding(s, f) /\ h.views = Views(s, f)

ManifestCoherent == \A s \in Baseline : manifest[s] # None => EntryCoherent(s)

\* The rows of earlier sessions hold no lease; the row at hand is where the
\* session is.
RowsOfPlace ==
    phase = "M2" /\ pc # "idle" =>
        /\ pc \in Leased => jobs # <<>>
        /\ \A j \in 1 .. Len(jobs) : jobs[j].status \in Leasing =>
              \/ pc = "opened" /\ jobs[j].status = "QUARANTINED"
              \/ j = Len(jobs) /\ \/ pc = "dispatching" /\ jobs[j].status = "DISPATCHING"
                                  \/ pc \in {"running", "executed"} /\ jobs[j].status = "RUNNING"
                                  \/ pc = "cancelling" /\ jobs[j].status = "CANCELLING"

DurableOK ==
    InStore(index.refs) /\ Logged(index.refs) /\ PassCoherent /\ ManifestCoherent

AnalysisOK ==
    /\ InStore(refs) /\ Logged(refs)
    /\ SessionPlace /\ InOrder /\ DoneStages /\ AheadStages /\ StageAtHand
    /\ EvidenceSession /\ IndexFollows

BaselineInvariant == BaselineTypeOK /\ DurableOK /\ AnalysisOK /\ RowsOfPlace

-----------------------------------------------------------------------------
(* Lemmas about the stages and what they read *)

LEMMA RankedStages ==
    /\ Stages \subseteq {"yosys", "binding", "clock", "cdc", "formal_preflight", "simulation",
                         "eqy_smoke", "sby_cdc", "sta_setup", "road_setup", "sta_hold", "road_hold",
                         "evidence", "opportunity"}
    /\ \A s \in Stages : Rank[s] \in 1 .. 14
<1>1. AllStages = {"yosys", "binding", "clock", "cdc", "formal_preflight", "simulation",
                   "eqy_smoke", "sby_cdc", "sta_setup", "road_setup", "sta_hold", "road_hold",
                   "evidence", "opportunity"}
    BY DEF AllStages, Rank
<1>2. \A s \in AllStages : Rank[s] \in 1 .. 14
    BY <1>1 DEF Rank
<1> QED BY <1>1, <1>2, StagesAssumption

LEMMA RankApart ==
    ASSUME NEW r \in Stages, NEW s \in Stages, Rank[r] = Rank[s]
    PROVE  r = s
BY RankedStages DEF Rank

\* Every non-empty set of numbers has a least one.
LEMMA LeastNumber ==
    ASSUME NEW N \in SUBSET Nat, N # {}
    PROVE  \E n \in N : \A m \in N : n <= m
<1> DEFINE Less == OpToRel(<, Nat)
<1>1. PICK n \in N : \A m \in N : <<m, n>> \notin Less
    BY NatLessThanWellFounded, WFMin, Zenon
<1>2. \A m \in N : <<m, n>> \in Less <=> m < n
    BY DEF OpToRel
<1> HIDE DEF Less
<1>3. ASSUME NEW m \in N PROVE n <= m
    <2>1. ~ m < n BY <1>1, <1>2
    <2> QED BY <2>1
<1> QED BY <1>3

\* Of any stages one comes first.
LEMMA FirstOf ==
    ASSUME NEW T, T \subseteq Stages, T # {}
    PROVE  \E s \in T : \A r \in T : Rank[s] <= Rank[r]
<1> DEFINE I == {Rank[s] : s \in T}
<1>1. \A s \in T : Rank[s] \in Nat
    BY RankedStages
<1>2. I \in SUBSET Nat /\ I # {}
    BY <1>1
<1>3. PICK n \in I : \A m \in I : n <= m
    BY <1>2, LeastNumber
<1>4. PICK s \in T : n = Rank[s]
    OBVIOUS
<1> QED BY <1>3, <1>4

LEMMA StageIs ==
    ASSUME todo \subseteq Stages, todo # {}
    PROVE  Stage \in todo /\ \A r \in todo : Rank[Stage] <= Rank[r]
BY FirstOf DEF Stage

\* A stage reads what comes before it, and the baseline reads only itself.
LEMMA ReadsBefore ==
    ASSUME NEW s \in Stages
    PROVE  /\ Reads(s) \subseteq Stages
           /\ \A t \in Reads(s) : Rank[t] < Rank[s]
           /\ s \in Baseline => Reads(s) \subseteq Baseline
           /\ s \in AfterBaseline => Reads(s) \subseteq Baseline \cup {"evidence"}
<1>1. CASE s = "yosys"
    BY <1>1 DEF Reads, AfterBaseline
<1>2. CASE s = "evidence"
    BY <1>2, RankedStages, StagesAssumption DEF Reads, Measured, Baseline, AfterBaseline, Rank
<1>3. CASE s = "opportunity"
    BY <1>3, StagesAssumption DEF Reads, Baseline, AfterBaseline, Rank
<1>4. CASE s = "road_hold"
    BY <1>4, StagesAssumption DEF Reads, Baseline, AfterBaseline, Rank
<1>5. CASE s \notin {"yosys", "evidence", "opportunity", "road_hold"}
    <2>1. Reads(s) = {"yosys"} BY <1>5 DEF Reads
    <2>2. Rank["yosys"] = 1 /\ Rank[s] \in 1 .. 14 BY RankedStages DEF Rank
    <2>3. Rank[s] # 1 BY <1>5, <2>2, RankApart, StagesAssumption
    <2> QED BY <2>1, <2>2, <2>3, <1>5, StagesAssumption DEF Baseline, AfterBaseline
<1> QED BY <1>1, <1>2, <1>3, <1>4, <1>5

\* What a session asks for depends on the references it reads, ...
LEMMA AgreeingReads ==
    ASSUME NEW s \in Stages, NEW f, NEW g, \A t \in Reads(s) : f[t] = g[t]
    PROVE  Parent(s, f) = Parent(s, g) /\ Binding(s, f) = Binding(s, g) /\ Views(s, f) = Views(s, g)
<1>1. CASE s = "yosys"
    BY <1>1 DEF Parent, Binding, Views
<1>2. CASE s = "evidence"
    <2>1. f["yosys"] = g["yosys"] /\ \A v \in Measured : f[v] = g[v] BY <1>2 DEF Reads
    <2>2. {f[v] : v \in Measured} = {g[v] : v \in Measured} BY <2>1
    <2> QED BY <1>2, <2>1, <2>2 DEF Parent, Binding, Views, Netlist
<1>3. CASE s = "opportunity"
    BY <1>3 DEF Reads, Parent, Binding, Views, Netlist
<1>4. CASE s = "road_hold"
    BY <1>4 DEF Reads, Parent, Binding, Views, Netlist
<1>5. CASE s \notin {"yosys", "evidence", "opportunity", "road_hold"}
    <2>1. f["yosys"] = g["yosys"] BY <1>5 DEF Reads
    <2>2. Parent(s, f) = f["yosys"] /\ Parent(s, g) = g["yosys"] BY <1>5 DEF Parent
    <2> QED BY <1>5, <2>1, <2>2 DEF Binding, Views, Netlist
<1> QED BY <1>1, <1>2, <1>3, <1>4, <1>5

\* ... and on stored results, which stay.
Grown ==
    /\ store' \in Seq(Results) /\ Len(store') >= Len(store)
    /\ \A i \in 1 .. Len(store) : store'[i] = store[i]

LEMMA YosysRead ==
    ASSUME NEW s \in Stages, s # "yosys"
    PROVE  "yosys" \in Reads(s)
BY DEF Reads

LEMMA RequestedKept ==
    ASSUME NEW s \in Stages, Grown, UNCHANGED recipe,
           \A t \in Reads(s) : refs[t] \in 1 .. Len(store) /\ refs'[t] = refs[t]
    PROVE  Requested(s, refs)' = Requested(s, refs)
<1>1. Parent(s, refs') = Parent(s, refs) /\ Views(s, refs') = Views(s, refs)
    BY AgreeingReads
<1>2. Parent(s, refs)' = Parent(s, refs) /\ Views(s, refs)' = Views(s, refs)
    BY <1>1 DEF Parent, Views
<1>3. Binding(s, refs)' = Binding(s, refs)
    <2>1. CASE s = "yosys"
        BY <2>1 DEF Binding
    <2>2. CASE s # "yosys"
        BY <2>2, YosysRead DEF Binding, Netlist, Grown
    <2> QED BY <2>1, <2>2
<1> QED BY <1>2, <1>3 DEF Requested, Recipe

LEMMA DoneKept ==
    ASSUME NEW s \in Stages, DoneStage(s), Grown, UNCHANGED recipe, InStore(refs),
           \A t \in Reads(s) : refs[t] \in 1 .. Len(store) /\ refs'[t] = refs[t],
           refs'[s] = refs[s], hashes'[s] = hashes[s]
    PROVE  DoneStage(s)'
<1>1. store'[refs'[s]] = store[refs[s]]
    BY DEF DoneStage, InStore, Grown
<1>2. Asked(s)'
    BY RequestedKept DEF DoneStage, Asked
<1> QED BY <1>1, <1>2 DEF DoneStage, Accepted, Hashes

LEMMA PassKept ==
    ASSUME NEW s \in Baseline, PassStage(s), Grown, InStore(index.refs),
           \A t \in Reads(s) \cup {"yosys"} : index.refs[t] # None,
           \A t \in Reads(s) \cup {s, "yosys"} : index'.refs[t] = index.refs[t]
    PROVE  PassStage(s)'
<1> DEFINE f == index.refs
<1>1. s \in Stages /\ "yosys" \in Stages
    BY StagesAssumption DEF Baseline
<1>2. f[s] # None /\ f'[s] = f[s] /\ store'[f'[s]] = store[f[s]]
    BY <1>1 DEF PassStage, Names, InStore, Grown
<1>3. Parent(s, f') = Parent(s, f) /\ Views(s, f') = Views(s, f)
    BY <1>1, AgreeingReads
<1>4. Parent(s, index.refs)' = Parent(s, index.refs) /\ Views(s, index.refs)' = Views(s, index.refs)
    BY <1>3 DEF Parent, Views
<1>5. f["yosys"] \in 1 .. Len(store) /\ f'["yosys"] = f["yosys"]
    BY <1>1 DEF InStore
<1>6. Netlist(index.refs)' = Netlist(index.refs)
    BY <1>5 DEF Netlist, Grown
<1>7. Binding(s, index.refs)' = Binding(s, index.refs)
    BY <1>6 DEF Binding, Netlist
<1>8. Chained(s, index.refs)'
    BY <1>2, <1>4, <1>7 DEF PassStage, Chained, Accepted
<1> QED BY <1>1, <1>2, <1>6, <1>8 DEF PassStage, Names

LEMMA EntryKept ==
    ASSUME NEW s \in Baseline, EntryCoherent(s), Grown, UNCHANGED manifest, store \in Seq(Results)
    PROVE  EntryCoherent(s)'
<1> DEFINE f == [t \in Stages |-> manifest[t].ref]
<1>1. s \in Stages
    BY DEF Baseline
<1>2. /\ manifest'[s].ref \in 1 .. Len(store)'
      /\ \A t \in Reads(s) : manifest'[t] # None /\ manifest'[t].ref \in 1 .. Len(store)'
    <2>1. 1 .. Len(store) \subseteq 1 .. Len(store') BY DEF Grown
    <2> QED BY <2>1 DEF EntryCoherent
<1>3. f' = f
    OBVIOUS
<1>4. Parent(s, f)' = Parent(s, f) /\ Views(s, f)' = Views(s, f)
    BY <1>3 DEF Parent, Views
<1>5. Binding(s, f)' = Binding(s, f)
    <2>1. CASE s = "yosys"
        BY <2>1 DEF Binding
    <2>2. CASE s # "yosys"
        <3>1. f["yosys"] \in 1 .. Len(store)
            BY <1>1, <2>2, YosysRead, StagesAssumption DEF EntryCoherent
        <3> QED BY <1>3, <3>1 DEF Binding, Netlist, Grown
    <2> QED BY <2>1, <2>2
<1>6. /\ manifest[s].requested.parent = Parent(s, f)
      /\ manifest[s].requested.binding = Binding(s, f)
      /\ manifest[s].requested.views = Views(s, f)
    BY DEF EntryCoherent
<1>7. /\ manifest'[s].requested.parent = Parent(s, f)'
      /\ manifest'[s].requested.binding = Binding(s, f)'
      /\ manifest'[s].requested.views = Views(s, f)'
    BY <1>4, <1>5, <1>6
<1> QED BY <1>2, <1>7 DEF EntryCoherent

-----------------------------------------------------------------------------
(* What a session may rely on *)

LEMMA PhaseStages == BaselineTypeOK => InPhase \subseteq Stages /\ todo \subseteq Stages
BY StagesAssumption DEF BaselineTypeOK, InPhase, Baseline, AfterBaseline

\* The stage at hand is the first of those ahead.
LEMMA StageAhead ==
    ASSUME BaselineInvariant, todo # {}
    PROVE  /\ Stage \in todo /\ Stage \in InPhase /\ Stage \in Stages
           /\ \A r \in todo \ {Stage} : Rank[Stage] < Rank[r]
<1>1. todo \subseteq Stages /\ InPhase \subseteq Stages /\ todo \subseteq InPhase
    BY PhaseStages DEF BaselineInvariant, BaselineTypeOK
<1>2. Stage \in todo /\ \A r \in todo : Rank[Stage] <= Rank[r]
    BY <1>1, StageIs
<1>3. \A r \in todo \ {Stage} : Rank[Stage] # Rank[r]
    BY <1>1, <1>2, RankApart
<1> QED BY <1>1, <1>2, <1>3, RankedStages

\* What a stage reads that is done, or at hand, is known and not ahead.
LEMMA ReadsKnown ==
    ASSUME BaselineInvariant, pc \in Going, NEW s \in InPhase,
           s \notin todo \/ s = Stage
    PROVE  \A t \in Reads(s) : /\ t \in Stages \ todo /\ t # s
                               /\ refs[t] \in 1 .. Len(store)
                               /\ phase = "M2" => t \in Baseline
<1> SUFFICES ASSUME NEW t \in Reads(s)
             PROVE  /\ t \in Stages \ todo /\ t # s
                    /\ refs[t] \in 1 .. Len(store)
                    /\ phase = "M2" => t \in Baseline
    OBVIOUS
<1>1. s \in Stages /\ InPhase \subseteq Stages
    BY PhaseStages DEF BaselineInvariant
<1>2. t \in Stages /\ Rank[t] < Rank[s]
    BY <1>1, ReadsBefore
<1>3. Rank[t] \in Nat /\ Rank[s] \in Nat
    BY <1>1, <1>2, RankedStages
<1>4. t \notin todo
    <2>1. CASE s \in todo
        BY <2>1, <1>2, <1>3, StageAhead
    <2>2. CASE s \notin todo
        <3>1. t \in todo => Rank[s] < Rank[t]
            BY <2>2 DEF BaselineInvariant, AnalysisOK, InOrder
        <3> QED BY <3>1, <1>2, <1>3
    <2> QED BY <2>1, <2>2
<1>5. refs[t] # None /\ (phase = "M2" => t \in Baseline)
    <2>1. CASE phase = "M2"
        <3>1. t \in InPhase \ todo BY <1>1, <1>4, <2>1, ReadsBefore DEF InPhase
        <3> QED BY <2>1, <3>1 DEF BaselineInvariant, AnalysisOK, DoneStages, DoneStage, InPhase
    <2>2. CASE phase # "M2"
        <3>1. phase = "M3" /\ s \in AfterBaseline
            BY <2>2 DEF BaselineInvariant, BaselineTypeOK, InPhase
        <3>2. CASE t \in Baseline
            <4>1. refs[t] = index.refs[t] /\ PassStage(t)
                BY <3>1, <3>2 DEF BaselineInvariant, AnalysisOK, DurableOK, PassCoherent,
                   EvidenceSession, Going, AtWork, Leased
            <4> QED BY <4>1, <2>2 DEF PassStage, Names
        <3>3. CASE t \notin Baseline
            <4>1. t \in InPhase \ todo
                BY <1>1, <1>4, <3>1, <3>3, <2>2, ReadsBefore DEF InPhase, AfterBaseline
            <4> QED BY <2>2, <4>1 DEF BaselineInvariant, AnalysisOK, DoneStages, DoneStage
        <3> QED BY <3>2, <3>3
    <2> QED BY <2>1, <2>2
<1>6. refs[t] \in 1 .. Len(store)
    BY <1>2, <1>5 DEF BaselineInvariant, AnalysisOK, InStore
<1> QED BY <1>2, <1>3, <1>4, <1>5, <1>6

\* What the disk holds is not disturbed by new results.
LEMMA DurableKept ==
    ASSUME BaselineInvariant, Grown, UNCHANGED <<index, manifest, events>>
    PROVE  DurableOK'
<1>1. DurableOK /\ BaselineTypeOK
    BY DEF BaselineInvariant
<1>2. InStore(index.refs)'
    BY <1>1 DEF DurableOK, InStore, Grown, BaselineTypeOK
<1>3. Logged(index.refs)'
    BY <1>1 DEF DurableOK, Logged
<1>4. PassCoherent'
    <2> SUFFICES ASSUME index.status = "PASS", NEW s \in Baseline
                 PROVE  PassStage(s)'
        BY DEF PassCoherent
    <2>1. \A t \in Baseline : PassStage(t) BY <1>1 DEF DurableOK, PassCoherent
    <2>2. Reads(s) \cup {"yosys"} \subseteq Baseline
        BY ReadsBefore, StagesAssumption DEF Baseline, AfterBaseline
    <2>3. \A t \in Reads(s) \cup {"yosys"} : index.refs[t] # None
        BY <2>1, <2>2 DEF PassStage, Names
    <2> QED BY <1>1, <2>1, <2>3, PassKept DEF DurableOK
<1>5. ManifestCoherent'
    BY <1>1, EntryKept DEF DurableOK, ManifestCoherent, BaselineTypeOK
<1> QED BY <1>2, <1>3, <1>4, <1>5 DEF DurableOK

LEMMA StoreSame ==
    ASSUME BaselineTypeOK, UNCHANGED store
    PROVE  Grown
BY DEF BaselineTypeOK, Grown

-----------------------------------------------------------------------------
(* Steps of a session *)

\* However a session ends, what it knew is forgotten.
LEMMA LeaveKeeps ==
    ASSUME BaselineInvariant, Leave, UNCHANGED phase
    PROVE  AnalysisOK'
<1>1. pc' = "idle" /\ todo' = {} /\ \A s \in Stages : refs'[s] = None
    BY DEF Leave
<1>2. SessionPlace'
    BY DEF Leave, SessionPlace, NothingKnown, AtWork, Leased
<1>3. InStore(refs)' /\ Logged(refs)' /\ InOrder' /\ StageAtHand' /\ EvidenceSession'
    BY <1>1 DEF InStore, Logged, InOrder, StageAtHand, EvidenceSession
<1>4. DoneStages' /\ AheadStages' /\ IndexFollows'
    BY <1>1 DEF DoneStages, AheadStages, IndexFollows, Going, AtWork, Leased
<1> QED BY <1>2, <1>3, <1>4 DEF AnalysisOK

\* Stages that are done stay done while the session goes on.
LEMMA DoneStagesKept ==
    ASSUME BaselineInvariant, pc \in Going, Grown, UNCHANGED <<recipe, phase>>,
           \A s \in Stages \ todo : refs'[s] = refs[s],
           \A s \in InPhase \ todo : hashes'[s] = hashes[s]
    PROVE  \A s \in InPhase \ todo : DoneStage(s)'
<1> SUFFICES ASSUME NEW s \in InPhase \ todo PROVE DoneStage(s)'
    OBVIOUS
<1>1. s \in Stages /\ DoneStage(s) /\ InStore(refs)
    BY PhaseStages DEF BaselineInvariant, AnalysisOK, DoneStages
<1>2. \A t \in Reads(s) : refs[t] \in 1 .. Len(store) /\ refs'[t] = refs[t]
    BY ReadsKnown
<1>3. refs'[s] = refs[s] /\ hashes'[s] = hashes[s]
    BY <1>1
<1> QED BY <1>1, <1>2, <1>3, DoneKept

\* What the stage at hand asks for stays the same.
LEMMA StageAskKept ==
    ASSUME BaselineInvariant, pc \in Going, todo # {}, Grown, UNCHANGED recipe,
           \A s \in Stages \ todo : refs'[s] = refs[s],
           NEW s, s = Stage
    PROVE  Requested(s, refs)' = Requested(s, refs)
<1>1. s \in Stages /\ s \in InPhase
    BY StageAhead
<1>2. \A t \in Reads(s) : refs[t] \in 1 .. Len(store) /\ refs'[t] = refs[t]
    BY <1>1, ReadsKnown
<1> QED BY <1>1, <1>2, RequestedKept

\* A step within a stage that changes no more than the rows, the store or the
\* index.
LEMMA WorkKeeps ==
    ASSUME BaselineInvariant, Grown, UNCHANGED <<index, events, recipe, phase, todo, refs, hashes>>,
           pc \in AtWork, pc' \in AtWork \ {"journaled"}, pc # "journaled",
           pc' \in Leased => pc \in Leased,
           pc' \in {"executed", "completed", "indexed"} =>
              \A s \in todo : s = Stage =>
                 result' \in 1 .. Len(store') /\ Hashes(store'[result']) = hashes[s],
           pc' # "indexed"
    PROVE  AnalysisOK'
<1>1. AnalysisOK /\ pc \in Going /\ pc' \in Going /\ todo # {} /\ pc # "idle" /\ pc' # "idle"
    BY DEF BaselineInvariant, AnalysisOK, SessionPlace, Going, AtWork, Leased
<1>2. InStore(refs)' /\ Logged(refs)' /\ InOrder'
    BY <1>1 DEF AnalysisOK, InStore, Logged, InOrder, InPhase, Grown, BaselineInvariant, BaselineTypeOK
<1>3. SessionPlace'
    BY <1>1 DEF AnalysisOK, SessionPlace, Going, AtWork, Leased
<1>4. DoneStages'
    BY <1>1, DoneStagesKept DEF DoneStages, InPhase
<1>5. Stage' = Stage
    BY DEF Stage
<1>6. AheadStages' /\ IndexFollows'
    BY <1>1, <1>5 DEF AnalysisOK, AheadStages, IndexFollows
<1>7. StageAtHand'
    <2> SUFFICES ASSUME NEW s \in todo, s = Stage
                 PROVE  /\ Asked(s)'
                        /\ pc' \in {"executed", "completed"} =>
                              result' \in 1 .. Len(store') /\ Hashes(store[result])' = hashes'[s]
        BY <1>1, <1>5 DEF StageAtHand
    <2>1. Asked(s)
        BY DEF BaselineInvariant, AnalysisOK, StageAtHand
    <2>2. Asked(s)'
        BY <1>1, <2>1, StageAskKept DEF Asked
    <2> QED BY <2>2 DEF Hashes
<1>8. EvidenceSession'
    <2> SUFFICES ASSUME phase = "M3", NEW s \in Baseline
                 PROVE  Hashes(store[refs[s]])' = Hashes(store[refs[s]])
        BY <1>1 DEF AnalysisOK, EvidenceSession
    <2>1. s \in Stages /\ PassStage(s) /\ refs[s] = index.refs[s]
        BY <1>1 DEF BaselineInvariant, DurableOK, PassCoherent, AnalysisOK, EvidenceSession, Baseline
    <2>2. refs[s] \in 1 .. Len(store)
        BY <1>1, <2>1 DEF AnalysisOK, InStore, PassStage, Names
    <2> QED BY <2>2 DEF Grown, Hashes
<1> QED BY <1>2, <1>3, <1>4, <1>6, <1>7, <1>8 DEF AnalysisOK

\* What is asked for is a record of hashes.
LEMMA RequestedType ==
    ASSUME BaselineInvariant, pc \in Going, NEW s \in InPhase,
           s \notin todo \/ s = Stage
    PROVE  Requested(s, refs) \in StageHashes
<1>1. /\ \A t \in Reads(s) : t \in Stages /\ refs[t] \in 1 .. Len(store)
      /\ s \in Stages
    BY ReadsKnown, PhaseStages DEF BaselineInvariant
<1>2. refs \in Refs /\ store \in Seq(Results) /\ recipe \in Recipes
    BY DEF BaselineInvariant, BaselineTypeOK
<1>3. Parent(s, refs) \in Nat \cup {None}
    <2>1. CASE s \in {"yosys", "evidence"}
        BY <2>1 DEF Parent
    <2>2. CASE s = "opportunity"
        BY <2>2, <1>1 DEF Parent, Reads
    <2>3. CASE s = "road_hold"
        BY <2>3, <1>1 DEF Parent, Reads
    <2>4. CASE s \notin {"yosys", "evidence", "opportunity", "road_hold"}
        <3>1. Parent(s, refs) = refs["yosys"] BY <2>4 DEF Parent
        <3> QED BY <3>1, <2>4, <1>1, YosysRead
    <2> QED BY <2>1, <2>2, <2>3, <2>4
<1>4. Binding(s, refs) \in Recipes \cup {None}
    <2>1. CASE s = "yosys"
        BY <2>1 DEF Binding
    <2>2. CASE s # "yosys"
        <3>1. store[refs["yosys"]] \in Results BY <2>2, <1>1, <1>2, YosysRead
        <3> QED BY <3>1 DEF Binding, Netlist, Results
    <2> QED BY <2>1, <2>2
<1>5. Views(s, refs) \in SUBSET (Nat \cup {None})
    BY <1>2 DEF Views, Measured, Refs
<1> QED BY <1>2, <1>3, <1>4, <1>5 DEF Requested, Recipe, StageHashes

\* A stage that must run is asked for, and submitted or computed.
LEMMA AskKeeps ==
    ASSUME BaselineInvariant, MustRun, Grown,
           UNCHANGED <<index, events, recipe, phase, todo, refs>>,
           \/ pc' = "submitted" /\ Stage \in Baseline
           \/ /\ pc' = "completed" /\ result' \in 1 .. Len(store')
              /\ Hashes(store'[result']) = Requested(Stage, refs)
    PROVE  AnalysisOK'
<1>1. AnalysisOK /\ pc = "stage" /\ pc \in Going /\ pc' \in Going /\ pc' \in AtWork /\ todo # {}
      /\ pc # "idle" /\ pc' # "idle" /\ pc' # "journaled" /\ pc # "journaled"
    BY DEF BaselineInvariant, MustRun, AtStage, Going, AtWork, Leased
<1>2. Stage \in todo /\ Stage \in Stages /\ Stage \in InPhase
    BY <1>1, StageAhead
<1>3. hashes' = [hashes EXCEPT ![Stage] = Requested(Stage, refs)]
      /\ hashes \in [Stages -> StageHashes \cup {None}]
    BY DEF MustRun, BaselineInvariant, BaselineTypeOK
<1>4. Stage' = Stage
    BY DEF Stage
<1>5. InStore(refs)' /\ Logged(refs)' /\ InOrder'
    BY <1>1 DEF AnalysisOK, InStore, Logged, InOrder, InPhase, Grown, BaselineInvariant, BaselineTypeOK
<1>6. SessionPlace'
    <2>1. pc' = "submitted" => phase' = "M2"
        BY <1>2, StagesAssumption DEF InPhase, Baseline, AfterBaseline, BaselineInvariant, BaselineTypeOK
    <2> QED BY <1>1, <2>1 DEF SessionPlace, AtWork, Leased
<1>7. DoneStages'
    <2>1. \A s \in InPhase \ todo : hashes'[s] = hashes[s]
        BY <1>2, <1>3, PhaseStages DEF BaselineInvariant
    <2> QED BY <1>1, <2>1, DoneStagesKept DEF DoneStages, InPhase
<1>8. AheadStages' /\ IndexFollows'
    BY <1>1, <1>2, <1>3, <1>4, PhaseStages DEF AnalysisOK, AheadStages, IndexFollows, BaselineInvariant
<1>9. StageAtHand'
    <2> SUFFICES ASSUME NEW s \in todo, s = Stage
                 PROVE  /\ Asked(s)'
                        /\ pc' = "completed" =>
                              result' \in 1 .. Len(store') /\ Hashes(store[result])' = hashes'[s]
        BY <1>1, <1>4 DEF StageAtHand
    <2>1. hashes'[s] = Requested(s, refs)
        BY <1>2, <1>3
    <2>2. Asked(s)'
        BY <1>1, <2>1, StageAskKept DEF Asked
    <2> QED BY <2>1, <2>2 DEF Hashes
<1>10. EvidenceSession'
    <2> SUFFICES ASSUME phase = "M3", NEW s \in Baseline
                 PROVE  hashes'[s] = hashes[s] /\ Hashes(store[refs[s]])' = Hashes(store[refs[s]])
        BY <1>1 DEF AnalysisOK, EvidenceSession
    <2>1. s \in Stages /\ s # Stage
        BY <1>2 DEF Baseline, AfterBaseline, InPhase
    <2>2. PassStage(s) /\ refs[s] = index.refs[s]
        BY <1>1 DEF BaselineInvariant, DurableOK, PassCoherent, AnalysisOK, EvidenceSession
    <2>3. refs[s] \in 1 .. Len(store)
        BY <1>1, <2>1, <2>2 DEF AnalysisOK, InStore, PassStage, Names
    <2> QED BY <1>3, <2>1, <2>3 DEF Grown, Hashes
<1> QED BY <1>5, <1>6, <1>7, <1>8, <1>9, <1>10 DEF AnalysisOK

\* A stage that is gone through is done: reused, or accepted.
LEMMA PassedKeeps ==
    ASSUME BaselineInvariant, UNCHANGED <<index, store, events, recipe, phase, refs>>,
           pc \in {"stage", "indexed"}, pc' = "stage", todo # {}, todo' = todo \ {Stage},
           \A s \in Stages \ {Stage} : hashes'[s] = hashes[s],
           NEW t, t = Stage, DoneStage(t)'
    PROVE  AnalysisOK'
<1>1. AnalysisOK /\ pc \in Going /\ pc' \in Going /\ pc # "journaled" /\ pc # "idle"
    BY DEF BaselineInvariant, Going, AtWork
<1>2. /\ t \in todo /\ t \in InPhase /\ t \in Stages /\ \A r \in todo \ {t} : Rank[t] < Rank[r]
      /\ InPhase \subseteq Stages /\ todo \subseteq InPhase
    BY StageAhead, PhaseStages DEF BaselineInvariant, BaselineTypeOK
<1>3. Grown
    BY StoreSame DEF BaselineInvariant
<1>4. InStore(refs)' /\ Logged(refs)'
    BY <1>1 DEF AnalysisOK, InStore, Logged
<1>5. SessionPlace'
    BY DEF SessionPlace, AtWork, Leased
<1>6. InOrder'
    <2> SUFFICES ASSUME NEW s \in InPhase \ (todo \ {t}), NEW r \in todo \ {t}
                 PROVE  Rank[s] < Rank[r]
        BY DEF InOrder, InPhase
    <2>1. CASE s = t
        BY <2>1, <1>2
    <2>2. CASE s # t
        BY <2>2, <1>1 DEF AnalysisOK, InOrder
    <2> QED BY <2>1, <2>2
<1>7. DoneStages'
    <2>1. \A s \in InPhase \ todo : hashes'[s] = hashes[s]
        BY <1>2
    <2>2. \A s \in InPhase \ todo : DoneStage(s)'
        BY <1>1, <1>3, <2>1, DoneStagesKept
    <2>3. \A s \in InPhase \ todo' : s \in InPhase \ todo \/ s = t
        OBVIOUS
    <2>4. InPhase' = InPhase
        BY DEF InPhase
    <2> QED BY <2>2, <2>3, <2>4 DEF DoneStages
<1>8. AheadStages' /\ StageAtHand' /\ IndexFollows'
    <2>1. \A s \in Stages : refs[s] = index.refs[s]
        BY <1>1 DEF AnalysisOK, IndexFollows
    <2>2. IndexFollows'
        BY <2>1 DEF IndexFollows
    <2>3. StageAtHand'
        BY DEF StageAtHand, AtWork, Leased
    <2>4. ASSUME phase = "M2", NEW s \in todo \ {t} PROVE hashes'[s] = None
        BY <1>1, <1>2, <2>4 DEF AnalysisOK, AheadStages
    <2> QED BY <2>2, <2>3, <2>4 DEF AheadStages
<1>9. EvidenceSession'
    <2> SUFFICES ASSUME phase = "M3", NEW s \in Baseline
                 PROVE  hashes'[s] = hashes[s]
        BY <1>1 DEF AnalysisOK, EvidenceSession, Hashes
    <2> QED BY <1>2 DEF InPhase, Baseline, AfterBaseline
<1> QED BY <1>4, <1>5, <1>6, <1>7, <1>8, <1>9 DEF AnalysisOK

-----------------------------------------------------------------------------
(* The rows *)

LEMMA RowWith ==
    ASSUME NEW r \in Rows, NEW st \in RowStatuses
    PROVE  [r EXCEPT !.status = st] \in Rows /\ [r EXCEPT !.status = st].status = st
BY DEF Rows

LEMMA LeasingStatuses ==
    /\ Leasing \subseteq RowStatuses /\ "QUARANTINED" \in Leasing
    /\ {"QUEUED", "COMPLETED", "CANCELLED", "INFRASTRUCTURE_ERROR"} \subseteq RowStatuses
    /\ {"QUEUED", "COMPLETED", "CANCELLED", "INFRASTRUCTURE_ERROR"} \cap Leasing = {}
BY DEF Leasing, RowStatuses

LEMMA RowsOpened ==
    ASSUME BaselineInvariant, OpenScheduler
    PROVE  jobs' \in Seq(Rows) /\ RowsOfPlace'
<1>1. jobs \in Seq(Rows) /\ jobs' = LostToQuarantine(jobs) /\ pc' = "opened"
    BY DEF BaselineInvariant, BaselineTypeOK, OpenScheduler
<1>2. /\ Len(jobs') = Len(jobs) /\ DOMAIN jobs' = 1 .. Len(jobs)
      /\ \A j \in 1 .. Len(jobs) :
            jobs'[j] = IF jobs[j].status \in {"DISPATCHING", "RUNNING", "CANCELLING"}
                       THEN [jobs[j] EXCEPT !.status = "QUARANTINED"] ELSE jobs[j]
    BY <1>1 DEF LostToQuarantine
<1>3. \A j \in 1 .. Len(jobs) : jobs'[j] \in Rows /\ jobs[j] \in Rows
    BY <1>1, <1>2, RowWith, LeasingStatuses
<1>4. jobs' \in Seq(Rows)
    BY <1>1, <1>3 DEF LostToQuarantine
<1>5. \A j \in 1 .. Len(jobs) : jobs'[j].status \in Leasing => jobs'[j].status = "QUARANTINED"
    <2> SUFFICES ASSUME NEW j \in 1 .. Len(jobs), jobs'[j].status \in Leasing
                 PROVE  jobs'[j].status = "QUARANTINED"
        OBVIOUS
    <2>1. CASE jobs[j].status \in {"DISPATCHING", "RUNNING", "CANCELLING"}
        <3>1. jobs'[j] = [jobs[j] EXCEPT !.status = "QUARANTINED"] BY <2>1, <1>2
        <3>2. jobs[j] \in Rows /\ "QUARANTINED" \in RowStatuses BY <1>3, LeasingStatuses
        <3> QED BY <3>1, <3>2, RowWith
    <2>2. CASE jobs[j].status \notin {"DISPATCHING", "RUNNING", "CANCELLING"}
        <3>1. jobs'[j] = jobs[j] BY <2>2, <1>2
        <3> QED BY <2>2, <3>1 DEF Leasing
    <2> QED BY <2>1, <2>2
<1> QED BY <1>1, <1>2, <1>4, <1>5 DEF RowsOfPlace, Leased

LEMMA RowsReleased ==
    ASSUME BaselineInvariant, OpenSchedulerAgain
    PROVE  jobs' \in Seq(Rows) /\ RowsOfPlace'
<1>1. jobs \in Seq(Rows) /\ jobs' = Release(jobs) /\ pc = "opened" /\ pc' = "entering"
    BY DEF BaselineInvariant, BaselineTypeOK, OpenSchedulerAgain
<1>2. /\ Len(jobs') = Len(jobs) /\ DOMAIN jobs' = 1 .. Len(jobs)
      /\ \A j \in 1 .. Len(jobs) :
            jobs'[j] = IF jobs[j].status = "QUARANTINED"
                       THEN [jobs[j] EXCEPT !.status = "INFRASTRUCTURE_ERROR"] ELSE jobs[j]
    BY <1>1 DEF Release
<1>3. \A j \in 1 .. Len(jobs) : jobs'[j] \in Rows /\ jobs[j] \in Rows
    BY <1>1, <1>2, RowWith, LeasingStatuses
<1>4. jobs' \in Seq(Rows)
    BY <1>1, <1>3 DEF Release
<1>5. \A j \in 1 .. Len(jobs) : jobs[j].status \in Leasing => jobs[j].status = "QUARANTINED"
    BY <1>1 DEF BaselineInvariant, AnalysisOK, SessionPlace, RowsOfPlace, Leasing
<1>6. \A j \in 1 .. Len(jobs) : jobs'[j].status \notin Leasing
    <2> SUFFICES ASSUME NEW j \in 1 .. Len(jobs) PROVE jobs'[j].status \notin Leasing
        OBVIOUS
    <2>1. CASE jobs[j].status = "QUARANTINED"
        <3>1. jobs'[j] = [jobs[j] EXCEPT !.status = "INFRASTRUCTURE_ERROR"] BY <2>1, <1>2
        <3>2. jobs[j] \in Rows /\ "INFRASTRUCTURE_ERROR" \in RowStatuses BY <1>3, LeasingStatuses
        <3>3. jobs'[j].status = "INFRASTRUCTURE_ERROR" BY <3>1, <3>2, RowWith
        <3> QED BY <3>3, LeasingStatuses
    <2>2. CASE jobs[j].status # "QUARANTINED"
        BY <2>2, <1>2, <1>5
    <2> QED BY <2>1, <2>2
<1> QED BY <1>1, <1>2, <1>4, <1>6 DEF RowsOfPlace, Leased

LEMMA RowSubmitted ==
    ASSUME BaselineInvariant, Submit
    PROVE  jobs' \in Seq(Rows) /\ RowsOfPlace'
<1>1. /\ jobs \in Seq(Rows) /\ pc = "stage" /\ pc' = "submitted" /\ phase' = phase
      /\ jobs' = Append(jobs, [kind |-> Kind(Stage), status |-> "QUEUED"])
    BY DEF BaselineInvariant, BaselineTypeOK, Submit, MustRun, AtStage
<1>2. [kind |-> Kind(Stage), status |-> "QUEUED"] \in Rows
    BY LeasingStatuses DEF Kind, Kinds, Rows
<1>3. jobs' \in Seq(Rows) /\ Len(jobs') = Len(jobs) + 1 /\ jobs'[Len(jobs) + 1].status = "QUEUED"
      /\ \A j \in 1 .. Len(jobs) : jobs'[j] = jobs[j]
    BY <1>1, <1>2
<1>4. phase = "M2" => \A j \in 1 .. Len(jobs) : jobs[j].status \notin Leasing
    BY <1>1 DEF BaselineInvariant, RowsOfPlace
<1>5. jobs' # <<>> /\ (phase = "M2" => \A j \in 1 .. Len(jobs') : jobs'[j].status \notin Leasing)
    BY <1>1, <1>3, <1>4 DEF Leasing
<1> QED BY <1>1, <1>3, <1>5 DEF RowsOfPlace

\* The row at hand takes another status.
LEMMA RowMoves ==
    ASSUME BaselineInvariant, pc \in Leased, UNCHANGED phase,
           NEW st \in Leasing \cup {"COMPLETED", "CANCELLED"},
           jobs' = [jobs EXCEPT ![Mine].status = st],
           \/ st = "DISPATCHING" /\ pc' = "dispatching"
           \/ st = "RUNNING" /\ pc' = "running"
           \/ st = "CANCELLING" /\ pc' = "cancelling"
           \/ st = "COMPLETED" /\ pc' = "completed"
           \/ st = "CANCELLED" /\ pc' = "idle"
    PROVE  jobs' \in Seq(Rows) /\ RowsOfPlace'
<1>1. jobs \in Seq(Rows) /\ phase = "M2" /\ RowsOfPlace /\ pc # "idle" /\ pc # "opened"
    BY DEF BaselineInvariant, BaselineTypeOK, AnalysisOK, SessionPlace, Leased
<1>2. jobs # <<>> /\ Mine \in 1 .. Len(jobs) /\ Mine = Len(jobs)
    BY <1>1 DEF RowsOfPlace, Mine
<1>3. \A j \in 1 .. Len(jobs) : jobs[j].status \in Leasing => j = Mine
    BY <1>1 DEF RowsOfPlace, Mine
<1>4. [jobs[Mine] EXCEPT !.status = st] \in Rows /\ [jobs[Mine] EXCEPT !.status = st].status = st
    BY <1>1, <1>2, RowWith, LeasingStatuses
<1>5. /\ jobs' \in Seq(Rows) /\ Len(jobs') = Len(jobs) /\ jobs'[Mine].status = st
      /\ \A j \in 1 .. Len(jobs) : j # Mine => jobs'[j] = jobs[j]
    BY <1>1, <1>2, <1>4
<1>6. \A j \in 1 .. Len(jobs') : jobs'[j].status \in Leasing => j = Len(jobs') /\ jobs'[j].status = st
    BY <1>2, <1>3, <1>5
<1>7. jobs' # <<>>
    BY <1>1, <1>2, <1>5
<1> QED BY <1>1, <1>5, <1>6, <1>7 DEF RowsOfPlace, Leased, Leasing

LEMMA RowsStay ==
    ASSUME BaselineInvariant, UNCHANGED <<jobs, phase>>, pc # "idle",
           \/ pc = "submitted" /\ pc' = "running" /\ jobs[Mine].status \notin Leasing
           \/ pc = "running" /\ pc' = "executed"
           \/ pc \notin Leased \cup {"opened"} /\ pc' \in Going \ Leased
           \/ pc' = "idle"
    PROVE  jobs' \in Seq(Rows) /\ RowsOfPlace'
<1>1. jobs' \in Seq(Rows)
    BY DEF BaselineInvariant, BaselineTypeOK
<1>2. RowsOfPlace'
    BY DEF BaselineInvariant, RowsOfPlace, Leased, Going, AtWork, Leasing, Mine
<1> QED BY <1>1, <1>2

-----------------------------------------------------------------------------
(* Every action keeps the invariant *)

LEMMA BaselineInitHolds == Init => BaselineInvariant
<1> SUFFICES ASSUME Init PROVE BaselineInvariant
    OBVIOUS
<1>1. BaselineTypeOK
    BY StagesAssumption DEF Init, BaselineTypeOK, Refs
<1>2. DurableOK
    BY DEF Init, DurableOK, InStore, Logged, PassCoherent, ManifestCoherent, Baseline
<1>3. AnalysisOK
    BY DEF Init, AnalysisOK, InStore, Logged, SessionPlace, NothingKnown, InOrder, DoneStages,
       AheadStages, StageAtHand, EvidenceSession, IndexFollows, Going, AtWork, Leased
<1>4. RowsOfPlace
    BY DEF Init, RowsOfPlace
<1> QED BY <1>1, <1>2, <1>3, <1>4 DEF BaselineInvariant

\* A result that is stored is found again.
LEMMA Stored ==
    ASSUME BaselineInvariant, NEW s \in Stages, NEW h \in StageHashes, NEW status \in Statuses,
           store' = Append(store, StageResult(s, h, status))
    PROVE  /\ Grown
           /\ Len(store) + 1 \in 1 .. Len(store') /\ Len(store) + 1 \in Nat
           /\ Hashes(store'[Len(store) + 1]) = h
<1>1. store \in Seq(Results)
    BY DEF BaselineInvariant, BaselineTypeOK
<1>2. StageResult(s, h, status) \in Results
    BY DEF StageResult, Results, StageHashes
<1>3. /\ store' \in Seq(Results) /\ Len(store') = Len(store) + 1 /\ Len(store) \in Nat
      /\ store'[Len(store) + 1] = StageResult(s, h, status)
      /\ \A i \in 1 .. Len(store) : store'[i] = store[i]
    BY <1>1, <1>2
<1>4. Hashes(StageResult(s, h, status)) = h
    BY DEF Hashes, StageResult, StageHashes
<1> QED BY <1>3, <1>4 DEF Grown

LEMMA OpenKeeps ==
    ASSUME BaselineInvariant, OpenScheduler
    PROVE  BaselineInvariant'
<1>1. /\ pc = "idle" /\ pc' = "opened" /\ phase' = "M2" /\ todo' = Baseline
      /\ UNCHANGED <<index, manifest, store, events, recipe, refs, hashes, result>>
    BY DEF OpenScheduler
<1>2. BaselineTypeOK'
    BY <1>1, RowsOpened DEF BaselineInvariant, BaselineTypeOK, InPhase
<1>3. DurableOK'
    BY <1>1, DurableKept, StoreSame DEF BaselineInvariant
<1>4. SessionPlace' /\ InOrder'
    BY <1>1 DEF BaselineInvariant, AnalysisOK, SessionPlace, InOrder, InPhase, AtWork, Leased
<1>5. InStore(refs)' /\ Logged(refs)'
    BY <1>1 DEF BaselineInvariant, AnalysisOK, InStore, Logged
<1>6. DoneStages' /\ AheadStages' /\ StageAtHand' /\ EvidenceSession' /\ IndexFollows'
    BY <1>1 DEF DoneStages, AheadStages, StageAtHand, EvidenceSession, IndexFollows, Going, AtWork,
       Leased
<1> QED BY <1>2, <1>3, <1>4, <1>5, <1>6, RowsOpened DEF BaselineInvariant, AnalysisOK

LEMMA OpenAgainKeeps ==
    ASSUME BaselineInvariant, OpenSchedulerAgain
    PROVE  BaselineInvariant'
<1>1. /\ pc = "opened" /\ pc' = "entering"
      /\ UNCHANGED <<index, manifest, store, events, recipe, phase, todo, refs, hashes, result>>
    BY DEF OpenSchedulerAgain
<1>2. BaselineTypeOK'
    BY <1>1, RowsReleased DEF BaselineInvariant, BaselineTypeOK, InPhase
<1>3. DurableOK'
    BY <1>1, DurableKept, StoreSame DEF BaselineInvariant
<1>4. SessionPlace' /\ InOrder'
    BY <1>1 DEF BaselineInvariant, AnalysisOK, SessionPlace, InOrder, InPhase, AtWork, Leased,
       NothingKnown
<1>5. InStore(refs)' /\ Logged(refs)'
    BY <1>1 DEF BaselineInvariant, AnalysisOK, InStore, Logged
<1>6. DoneStages' /\ AheadStages' /\ StageAtHand' /\ IndexFollows'
    BY <1>1 DEF DoneStages, AheadStages, StageAtHand, IndexFollows, Going, AtWork, Leased
<1>7. EvidenceSession'
    BY <1>1 DEF BaselineInvariant, AnalysisOK, SessionPlace, EvidenceSession
<1> QED BY <1>2, <1>3, <1>4, <1>5, <1>6, <1>7, RowsReleased DEF BaselineInvariant, AnalysisOK

LEMMA EnterKeeps ==
    ASSUME BaselineInvariant, EnterBaselining
    PROVE  BaselineInvariant'
<1>1. /\ pc = "entering" /\ pc' = "stage" /\ refs' = index.refs
      /\ UNCHANGED <<index, manifest, store, events, jobs, recipe, phase, todo, hashes, result>>
    BY DEF EnterBaselining
<1>2. phase = "M2" /\ todo = Baseline /\ hashes = NothingKnown
    BY <1>1 DEF BaselineInvariant, AnalysisOK, SessionPlace
<1>3. BaselineTypeOK'
    BY <1>1 DEF BaselineInvariant, BaselineTypeOK, InPhase, Going
<1>4. DurableOK'
    BY <1>1, DurableKept, StoreSame DEF BaselineInvariant
<1>5. SessionPlace' /\ InOrder'
    BY <1>1, <1>2 DEF SessionPlace, InOrder, InPhase, AtWork, Leased
<1>6. InStore(refs)' /\ Logged(refs)'
    BY <1>1 DEF BaselineInvariant, DurableOK, InStore, Logged
<1>7. DoneStages' /\ StageAtHand' /\ EvidenceSession' /\ IndexFollows'
    BY <1>1, <1>2 DEF DoneStages, InPhase, StageAtHand, EvidenceSession, IndexFollows, AtWork, Leased
<1>8. AheadStages'
    BY <1>1, <1>2 DEF AheadStages, NothingKnown, Baseline
<1>9. RowsOfPlace'
    BY <1>1, RowsStay DEF Going, AtWork, Leased
<1> QED BY <1>3, <1>4, <1>5, <1>6, <1>7, <1>8, <1>9 DEF BaselineInvariant, AnalysisOK

LEMMA StartEvidenceKeeps ==
    ASSUME BaselineInvariant, StartEvidence
    PROVE  BaselineInvariant'
<1>1. /\ pc = "idle" /\ pc' = "stage" /\ phase' = "M3" /\ todo' = AfterBaseline
      /\ refs' = index.refs /\ index.status = "PASS"
      /\ UNCHANGED <<index, manifest, store, events, jobs, recipe, result>>
      /\ hashes' = [s \in Stages |->
                      IF index.refs[s] = None THEN None ELSE Hashes(store[index.refs[s]])]
    BY DEF StartEvidence, EvidenceReady, durable
<1>2. \A s \in Stages : index.refs[s] # None => store[index.refs[s]] \in Results
    BY DEF BaselineInvariant, BaselineTypeOK, DurableOK, InStore
<1>3. hashes' \in [Stages -> StageHashes \cup {None}]
    <2>1. \A r \in Results : Hashes(r) \in StageHashes
        BY DEF Results, Hashes, StageHashes
    <2> QED BY <1>1, <1>2, <2>1
<1>4. BaselineTypeOK'
    BY <1>1, <1>3 DEF BaselineInvariant, BaselineTypeOK, InPhase, Going
<1>5. DurableOK'
    BY <1>1, DurableKept, StoreSame DEF BaselineInvariant
<1>6. SessionPlace' /\ InOrder'
    BY <1>1 DEF SessionPlace, InOrder, InPhase, AtWork, Leased
<1>7. InStore(refs)' /\ Logged(refs)'
    BY <1>1 DEF BaselineInvariant, DurableOK, InStore, Logged
<1>8. DoneStages' /\ AheadStages' /\ StageAtHand' /\ IndexFollows'
    BY <1>1 DEF DoneStages, InPhase, AheadStages, StageAtHand, IndexFollows, AtWork, Leased
<1>9. EvidenceSession'
    <2> SUFFICES ASSUME NEW s \in Baseline PROVE hashes'[s] = Hashes(store[index.refs[s]])
        BY <1>1 DEF EvidenceSession, Going, Hashes
    <2>1. s \in Stages /\ index.refs[s] # None
        BY <1>1 DEF BaselineInvariant, DurableOK, PassCoherent, PassStage, Names, Baseline
    <2> QED BY <1>1, <2>1
<1>10. RowsOfPlace'
    BY <1>1 DEF RowsOfPlace
<1> QED BY <1>4, <1>5, <1>6, <1>7, <1>8, <1>9, <1>10 DEF BaselineInvariant, AnalysisOK

LEMMA ReuseKeeps ==
    ASSUME BaselineInvariant, Reuse
    PROVE  BaselineInvariant'
<1>1. /\ pc = "stage" /\ pc' = "stage" /\ todo # {} /\ todo' = todo \ {Stage}
      /\ refs[Stage] # None /\ CanReuse(store[refs[Stage]], Requested(Stage, refs))
      /\ hashes' = [hashes EXCEPT ![Stage] = Requested(Stage, refs)]
      /\ UNCHANGED <<index, manifest, store, events, jobs, recipe, phase, refs, result>>
    BY DEF Reuse, AtStage, durable
<1>2. Stage \in Stages /\ Stage \in InPhase /\ pc \in Going
    BY <1>1, StageAhead DEF Going
<1>3. Requested(Stage, refs) \in StageHashes /\ hashes \in [Stages -> StageHashes \cup {None}]
    BY <1>2, RequestedType DEF BaselineInvariant, BaselineTypeOK
<1>4. hashes'[Stage] = Requested(Stage, refs) /\ \A s \in Stages \ {Stage} : hashes'[s] = hashes[s]
    BY <1>1, <1>2, <1>3
<1>5. BaselineTypeOK'
    BY <1>1, <1>3 DEF BaselineInvariant, BaselineTypeOK, InPhase
<1>6. DurableOK'
    BY <1>1, DurableKept, StoreSame DEF BaselineInvariant
<1>7. PICK t : t = Stage
    OBVIOUS
<1>8. DoneStage(t)'
    <2>1. Requested(t, refs)' = Requested(t, refs)
        BY <1>1, <1>2, <1>7, StageAskKept, StoreSame DEF BaselineInvariant
    <2>2. hashes'[t] = Requested(t, refs) /\ CanReuse(store[refs[t]], Requested(t, refs))
        BY <1>1, <1>4, <1>7
    <2>3. Asked(t)'
        BY <2>1, <2>2 DEF Asked
    <2> QED BY <1>1, <1>7, <2>2, <2>3 DEF DoneStage, CanReuse, Accepted, Hashes
<1>9. AnalysisOK'
    BY <1>1, <1>4, <1>7, <1>8, PassedKeeps
<1>10. RowsOfPlace'
    BY <1>1, RowsStay DEF Going, AtWork, Leased
<1> QED BY <1>5, <1>6, <1>9, <1>10 DEF BaselineInvariant

LEMMA ComputeKeeps ==
    ASSUME BaselineInvariant, Compute
    PROVE  BaselineInvariant'
<1>1. /\ MustRun /\ pc = "stage" /\ pc' = "completed" /\ todo # {}
      /\ store' = Append(store, StageResult(Stage, Requested(Stage, refs), "PASS"))
      /\ result' = Len(store) + 1
      /\ hashes' = [hashes EXCEPT ![Stage] = Requested(Stage, refs)]
      /\ UNCHANGED <<index, manifest, events, jobs, recipe, phase, todo, refs>>
    BY DEF Compute, MustRun, AtStage
<1>2. Stage \in Stages /\ Stage \in InPhase /\ pc \in Going
    BY <1>1, StageAhead DEF Going
<1>3. Requested(Stage, refs) \in StageHashes
    BY <1>2, RequestedType
<1>4. Grown /\ result' \in 1 .. Len(store') /\ result' \in Nat
      /\ Hashes(store'[result']) = Requested(Stage, refs)
    BY <1>1, <1>2, <1>3, Stored DEF Statuses
<1>5. BaselineTypeOK'
    BY <1>1, <1>3, <1>4 DEF BaselineInvariant, BaselineTypeOK, InPhase, Going, AtWork, Grown
<1>6. DurableOK'
    BY <1>1, <1>4, DurableKept
<1>7. AnalysisOK'
    BY <1>1, <1>4, AskKeeps
<1>8. RowsOfPlace'
    BY <1>1, RowsStay DEF Going, AtWork, Leased
<1> QED BY <1>5, <1>6, <1>7, <1>8 DEF BaselineInvariant

LEMMA SubmitKeeps ==
    ASSUME BaselineInvariant, Submit
    PROVE  BaselineInvariant'
<1>1. /\ MustRun /\ pc = "stage" /\ pc' = "submitted" /\ todo # {} /\ Stage \notin AfterBaseline
      /\ hashes' = [hashes EXCEPT ![Stage] = Requested(Stage, refs)]
      /\ UNCHANGED <<index, manifest, store, events, recipe, phase, todo, refs, result>>
    BY DEF Submit, MustRun, AtStage
<1>2. Stage \in Stages /\ Stage \in InPhase /\ pc \in Going
    BY <1>1, StageAhead DEF Going
<1>3. Requested(Stage, refs) \in StageHashes
    BY <1>2, RequestedType
<1>4. BaselineTypeOK'
    BY <1>1, <1>3, RowSubmitted DEF BaselineInvariant, BaselineTypeOK, InPhase, Going, AtWork, Leased
<1>5. Grown
    BY <1>1, StoreSame DEF BaselineInvariant
<1>6. DurableOK'
    BY <1>1, <1>5, DurableKept
<1>7. AnalysisOK'
    BY <1>1, <1>2, <1>5, AskKeeps DEF Baseline
<1> QED BY <1>4, <1>6, <1>7, RowSubmitted DEF BaselineInvariant

\* The steps that move the row at hand.
LEMMA RowStepKeeps ==
    ASSUME BaselineInvariant,
           UNCHANGED <<index, manifest, store, events, recipe, phase, todo, refs, hashes, result>>,
           pc \in Leased, pc' \in (Leased \ {"executed"}) \cup {"completed"},
           pc' = "completed" => pc = "executed",
           jobs' \in Seq(Rows), RowsOfPlace'
    PROVE  BaselineInvariant'
<1>1. BaselineTypeOK'
    BY DEF BaselineInvariant, BaselineTypeOK, InPhase, Going, AtWork, Leased
<1>2. Grown
    BY StoreSame DEF BaselineInvariant
<1>3. DurableOK'
    BY <1>2, DurableKept
<1>4. pc' = "completed" =>
          \A s \in todo : s = Stage =>
             result' \in 1 .. Len(store') /\ Hashes(store'[result']) = hashes[s]
    BY DEF BaselineInvariant, AnalysisOK, StageAtHand, Hashes
<1>5. AnalysisOK'
    BY <1>2, <1>4, WorkKeeps DEF AtWork, Leased
<1> QED BY <1>1, <1>3, <1>5 DEF BaselineInvariant

LEMMA DispatchKeeps ==
    ASSUME BaselineInvariant, Dispatch
    PROVE  BaselineInvariant'
<1>1. /\ pc = "submitted" /\ pc \in Leased
      /\ UNCHANGED <<index, manifest, store, events, recipe, phase, todo, refs, hashes, result>>
    BY DEF Dispatch, Leased
<1>2. CASE Eligible
    <2>1. pc' = "dispatching" /\ jobs' = [jobs EXCEPT ![Mine].status = "DISPATCHING"]
        BY <1>2 DEF Dispatch
    <2>2. jobs' \in Seq(Rows) /\ RowsOfPlace'
        BY <1>1, <2>1, RowMoves DEF Leasing
    <2> QED BY <1>1, <2>1, <2>2, RowStepKeeps DEF Leased
<1>3. CASE ~ Eligible
    <2>1. pc' = "running" /\ jobs' = jobs
        BY <1>3 DEF Dispatch
    <2>2. phase = "M2" /\ RowsOfPlace
        BY <1>1 DEF BaselineInvariant, AnalysisOK, SessionPlace
    <2>3. jobs[Mine].status \notin Leasing
        BY <1>1, <2>2 DEF RowsOfPlace, Mine, BaselineInvariant, BaselineTypeOK
    <2>4. jobs' \in Seq(Rows) /\ RowsOfPlace'
        BY <1>1, <2>1, <2>3, RowsStay
    <2> QED BY <1>1, <2>1, <2>4, RowStepKeeps DEF Leased
<1> QED BY <1>2, <1>3

LEMMA WorkerKeeps ==
    ASSUME BaselineInvariant, WorkerStarted \/ ExecuteRaises \/ Complete
    PROVE  BaselineInvariant'
<1>1. UNCHANGED <<index, manifest, store, events, recipe, phase, todo, refs, hashes, result>>
    BY DEF WorkerStarted, ExecuteRaises, Complete
<1>2. \/ pc = "dispatching" /\ pc' = "running" /\ jobs' = [jobs EXCEPT ![Mine].status = "RUNNING"]
      \/ pc = "running" /\ pc' = "cancelling" /\ jobs' = [jobs EXCEPT ![Mine].status = "CANCELLING"]
      \/ pc = "executed" /\ pc' = "completed" /\ jobs' = [jobs EXCEPT ![Mine].status = "COMPLETED"]
    BY DEF WorkerStarted, ExecuteRaises, Complete
<1>3. jobs' \in Seq(Rows) /\ RowsOfPlace'
    <2>1. pc \in Leased /\ phase' = phase BY <1>1, <1>2 DEF Leased
    <2> QED BY <1>2, <2>1, RowMoves DEF Leasing
<1> QED BY <1>1, <1>2, <1>3, RowStepKeeps DEF Leased

LEMMA ExecuteKeeps ==
    ASSUME BaselineInvariant, NEW status \in Statuses, Execute(status)
    PROVE  BaselineInvariant'
<1>1. /\ pc = "running" /\ pc' = "executed" /\ pc \in AtWork /\ pc \in Going
      /\ store' = Append(store, StageResult(Stage, hashes[Stage], status))
      /\ result' = Len(store) + 1
      /\ UNCHANGED <<index, manifest, events, jobs, recipe, phase, todo, refs, hashes>>
    BY DEF Execute, Going, AtWork, Leased
<1>2. todo # {}
    BY <1>1 DEF BaselineInvariant, AnalysisOK, SessionPlace
<1>3. Stage \in todo /\ Stage \in Stages /\ Stage \in InPhase
    BY <1>2, StageAhead
<1>4. hashes[Stage] \in StageHashes
    <2>1. Asked(Stage) BY <1>1, <1>3 DEF BaselineInvariant, AnalysisOK, StageAtHand
    <2> QED BY <1>1, <1>3, <2>1, RequestedType DEF Asked
<1>5. Grown /\ result' \in 1 .. Len(store') /\ result' \in Nat
      /\ Hashes(store'[result']) = hashes[Stage]
    BY <1>1, <1>3, <1>4, Stored
<1>6. BaselineTypeOK'
    BY <1>1, <1>5 DEF BaselineInvariant, BaselineTypeOK, InPhase, Going, AtWork, Leased, Grown
<1>7. DurableOK'
    BY <1>1, <1>5, DurableKept
<1>8. AnalysisOK'
    BY <1>1, <1>5, WorkKeeps DEF AtWork, Leased
<1>9. RowsOfPlace'
    BY <1>1, RowsStay
<1> QED BY <1>6, <1>7, <1>8, <1>9 DEF BaselineInvariant

LEMMA AppendKeeps ==
    ASSUME BaselineInvariant, AppendStageEvent
    PROVE  BaselineInvariant'
<1>1. /\ pc = "completed" /\ pc' = "journaled" /\ pc \in Going /\ pc' \in Going
      /\ events' = Append(events, [stage |-> Stage, ref |-> result])
      /\ refs' = [refs EXCEPT ![Stage] = result]
      /\ UNCHANGED <<index, manifest, store, jobs, recipe, phase, todo, hashes, result>>
    BY DEF AppendStageEvent, Going, AtWork
<1>2. AnalysisOK /\ DurableOK /\ BaselineTypeOK /\ todo # {}
    BY <1>1 DEF BaselineInvariant, AnalysisOK, SessionPlace, AtWork
<1>3. Stage \in todo /\ Stage \in Stages /\ Stage \in InPhase
    BY <1>2, StageAhead
<1>4. result \in 1 .. Len(store) /\ result \in Nat /\ Hashes(store[result]) = hashes[Stage]
    BY <1>1, <1>2, <1>3 DEF AnalysisOK, StageAtHand, BaselineTypeOK
<1>5. Grown
    BY <1>1, <1>2, StoreSame
<1>6. /\ refs'[Stage] = result /\ \A s \in Stages \ {Stage} : refs'[s] = refs[s]
      /\ refs' \in Refs
    BY <1>1, <1>2, <1>3, <1>4 DEF BaselineTypeOK, Refs
<1>7. /\ events' \in Seq([stage : Stages, ref : Nat])
      /\ Len(events') = Len(events) + 1 /\ Len(events) \in Nat
      /\ events'[Len(events) + 1] = [stage |-> Stage, ref |-> result]
      /\ \A i \in 1 .. Len(events) : events'[i] = events[i]
    BY <1>1, <1>2, <1>3, <1>4 DEF BaselineTypeOK
<1>8. BaselineTypeOK'
    BY <1>1, <1>2, <1>6, <1>7 DEF BaselineTypeOK, InPhase, Going, AtWork
<1>9. \A s \in Stages, x \in Nat :
          (\E i \in 1 .. Len(events) : events[i] = [stage |-> s, ref |-> x])
             => \E i \in 1 .. Len(events') : events'[i] = [stage |-> s, ref |-> x]
    BY <1>7
<1>10. Logged(index.refs)' /\ Logged(refs)'
    <2>1. Logged(index.refs)'
        BY <1>1, <1>2, <1>9 DEF DurableOK, Logged, BaselineTypeOK, Refs
    <2>2. Len(events) + 1 \in 1 .. Len(events')
        BY <1>7
    <2>3. \A s \in Stages \ {Stage} : refs[s] # None =>
              \E i \in 1 .. Len(events') : events'[i] = [stage |-> s, ref |-> refs[s]]
        BY <1>2, <1>9 DEF AnalysisOK, Logged, BaselineTypeOK, Refs
    <2> QED BY <1>6, <1>7, <2>1, <2>2, <2>3 DEF Logged
<1>11. DurableOK'
    <2>1. InStore(index.refs)'
        BY <1>1, <1>2 DEF DurableOK, InStore
    <2>2. PassCoherent' /\ ManifestCoherent'
        <3>1. \A s \in Baseline : PassStage(s)' = PassStage(s)
            BY <1>1 DEF PassStage, Names, Chained, Accepted, Parent, Binding, Views, Netlist
        <3>2. \A s \in Baseline : EntryCoherent(s) => EntryCoherent(s)'
            BY <1>1, <1>2, <1>5, EntryKept DEF BaselineTypeOK
        <3> QED BY <1>1, <1>2, <3>1, <3>2 DEF DurableOK, PassCoherent, ManifestCoherent
    <2> QED BY <1>10, <2>1, <2>2 DEF DurableOK
<1>12. InStore(refs)' /\ SessionPlace' /\ InOrder'
    BY <1>1, <1>2, <1>4, <1>6
    DEF AnalysisOK, InStore, SessionPlace, InOrder, InPhase, AtWork, Leased
<1>13. \A s \in Stages \ todo : refs'[s] = refs[s]
    BY <1>3, <1>6
<1>14. DoneStages'
    <2>1. \A s \in InPhase \ todo : DoneStage(s)'
        BY <1>1, <1>5, <1>13, DoneStagesKept
    <2> QED BY <1>1, <2>1 DEF DoneStages, InPhase
<1>15. Stage' = Stage
    BY <1>1 DEF Stage
<1>16. AheadStages' /\ IndexFollows'
    BY <1>1, <1>2, <1>6, <1>15 DEF AnalysisOK, AheadStages, IndexFollows, AtWork
<1>17. StageAtHand'
    <2> SUFFICES ASSUME NEW s \in todo, s = Stage
                 PROVE  /\ Asked(s)' /\ Hashes(store[result])' = hashes'[s]
                        /\ result' \in 1 .. Len(store') /\ refs'[s] = result'
        BY <1>1, <1>15 DEF StageAtHand
    <2>1. Asked(s)
        BY <1>1, <1>2 DEF AnalysisOK, StageAtHand, AtWork
    <2>2. Asked(s)'
        BY <1>1, <1>2, <1>5, <1>13, <2>1, StageAskKept DEF Asked
    <2> QED BY <1>1, <1>4, <1>6, <2>2 DEF Hashes
<1>18. EvidenceSession'
    <2> SUFFICES ASSUME phase = "M3", NEW s \in Baseline PROVE refs'[s] = refs[s]
        BY <1>1, <1>2 DEF AnalysisOK, EvidenceSession, Hashes
    <2> QED BY <1>3, <1>6 DEF InPhase, Baseline, AfterBaseline
<1>19. RowsOfPlace'
    BY <1>1, RowsStay DEF Going, AtWork, Leased
<1> QED BY <1>8, <1>10, <1>11, <1>12, <1>14, <1>16, <1>17, <1>18, <1>19
        DEF BaselineInvariant, AnalysisOK

\* The index says again what the session knows.
LEMMA IndexStepKeeps ==
    ASSUME BaselineInvariant, UNCHANGED <<manifest, store, events, jobs, recipe, phase, todo, refs,
                                          hashes, result>>,
           \/ pc = "journaled" /\ pc' = "indexed"
           \/ pc = "stage" /\ pc' = "passed" /\ todo = {} /\ phase = "M2",
           index' \in [status : {"INITIALIZED", "BASELINING", "PASS"}, refs : Refs],
           index'.refs = refs, PassCoherent', phase = "M3" => index'.status = "PASS"
    PROVE  BaselineInvariant'
<1>1. /\ pc \in Going /\ pc' \in Going /\ pc # "idle" /\ pc' # "idle" /\ pc' # "journaled"
      /\ AnalysisOK /\ DurableOK /\ BaselineTypeOK
    BY DEF BaselineInvariant, Going, AtWork
<1>2. Grown
    BY <1>1, StoreSame
<1>3. BaselineTypeOK'
    BY <1>1 DEF BaselineTypeOK, InPhase, Going, AtWork
<1>4. DurableOK'
    <2>1. InStore(index.refs)' /\ Logged(index.refs)'
        BY <1>1 DEF AnalysisOK, InStore, Logged
    <2>2. ManifestCoherent'
        BY <1>1, <1>2, EntryKept DEF DurableOK, ManifestCoherent, BaselineTypeOK
    <2> QED BY <2>1, <2>2 DEF DurableOK
<1>5. InStore(refs)' /\ Logged(refs)' /\ InOrder' /\ SessionPlace'
    BY <1>1 DEF AnalysisOK, InStore, Logged, InOrder, InPhase, SessionPlace, AtWork, Leased
<1>6. DoneStages'
    <2>1. \A s \in InPhase \ todo : DoneStage(s)'
        BY <1>1, <1>2, DoneStagesKept
    <2> QED BY <2>1 DEF DoneStages, InPhase
<1>7. Stage' = Stage
    BY DEF Stage
<1>8. AheadStages' /\ IndexFollows'
    BY <1>1, <1>7 DEF AnalysisOK, AheadStages, IndexFollows, AtWork
<1>9. StageAtHand'
    <2>1. CASE todo = {}
        BY <2>1 DEF StageAtHand
    <2>2. CASE todo # {}
        <3> SUFFICES ASSUME NEW s \in todo, s = Stage
                     PROVE  /\ Asked(s)' /\ Hashes(store[result])' = hashes'[s]
                            /\ result' \in 1 .. Len(store') /\ refs'[s] = result'
            BY <1>7 DEF StageAtHand
        <3>1. pc = "journaled" BY <2>2
        <3>2. Asked(s) /\ refs[s] = result /\ result \in 1 .. Len(store)
              /\ Hashes(store[result]) = hashes[s]
            BY <1>1, <3>1 DEF AnalysisOK, StageAtHand, AtWork
        <3>3. Asked(s)'
            BY <1>1, <1>2, <2>2, <3>2, StageAskKept DEF Asked
        <3> QED BY <3>2, <3>3 DEF Hashes
    <2> QED BY <2>1, <2>2
<1>10. EvidenceSession'
    BY <1>1 DEF AnalysisOK, EvidenceSession, Hashes
<1>11. RowsOfPlace'
    BY <1>1, RowsStay DEF Going, AtWork, Leased
<1> QED BY <1>3, <1>4, <1>5, <1>6, <1>8, <1>9, <1>10, <1>11 DEF BaselineInvariant, AnalysisOK

LEMMA WriteIndexKeeps ==
    ASSUME BaselineInvariant, WriteIndex
    PROVE  BaselineInvariant'
<1>1. /\ pc = "journaled" /\ pc' = "indexed"
      /\ index' = [status |-> IF phase = "M2" THEN "BASELINING" ELSE "PASS", refs |-> refs]
      /\ UNCHANGED <<manifest, store, events, jobs, recipe, phase, todo, refs, hashes, result>>
    BY DEF WriteIndex
<1>2. AnalysisOK /\ DurableOK /\ BaselineTypeOK
    BY DEF BaselineInvariant
<1>3. PassCoherent'
    <2>1. CASE phase = "M2"
        BY <2>1, <1>1 DEF PassCoherent
    <2>2. CASE phase = "M3"
        <3>1. index.status = "PASS" /\ \A s \in Baseline : index'.refs[s] = index.refs[s]
            BY <2>2, <1>1, <1>2 DEF AnalysisOK, EvidenceSession
        <3> SUFFICES ASSUME NEW s \in Baseline PROVE PassStage(s)'
            BY DEF PassCoherent
        <3>2. \A t \in Baseline : PassStage(t)
            BY <3>1, <1>2 DEF DurableOK, PassCoherent
        <3>3. Reads(s) \cup {s, "yosys"} \subseteq Baseline
            BY ReadsBefore, StagesAssumption DEF Baseline, AfterBaseline
        <3>4. \A t \in Reads(s) \cup {"yosys"} : index.refs[t] # None
            BY <3>2, <3>3 DEF PassStage, Names
        <3>5. Grown
            BY <1>1, <1>2, StoreSame
        <3> QED BY <1>2, <3>1, <3>2, <3>3, <3>4, <3>5, PassKept DEF DurableOK
    <2> QED BY <2>1, <2>2, <1>2 DEF BaselineTypeOK
<1> QED BY <1>1, <1>2, <1>3, IndexStepKeeps DEF BaselineTypeOK

LEMMA WritePassKeeps ==
    ASSUME BaselineInvariant, WritePass
    PROVE  BaselineInvariant'
<1>1. /\ pc = "stage" /\ pc' = "passed" /\ todo = {} /\ phase = "M2"
      /\ index' = [status |-> "PASS", refs |-> refs]
      /\ UNCHANGED <<manifest, store, events, jobs, recipe, phase, todo, refs, hashes, result>>
    BY DEF WritePass
<1>2. AnalysisOK /\ DurableOK /\ BaselineTypeOK
    BY DEF BaselineInvariant
<1>3. \A s \in Baseline : DoneStage(s)
    BY <1>1, <1>2 DEF AnalysisOK, DoneStages, InPhase, Going
<1>4. "yosys" \in Baseline
    BY StagesAssumption DEF Baseline, AfterBaseline
<1>5. PassCoherent'
    <2> SUFFICES ASSUME NEW s \in Baseline PROVE PassStage(s)'
        BY DEF PassCoherent
    <2>1. s \in Stages /\ refs[s] # None /\ Accepted(store[refs[s]])
          /\ Hashes(store[refs[s]]) = Requested(s, refs)
        BY <1>3 DEF DoneStage, Asked, Baseline
    <2>2. Hashes(store[refs["yosys"]]) = Requested("yosys", refs)
        BY <1>3, <1>4 DEF DoneStage, Asked
    <2>3. Chained(s, refs) /\ store[refs[s]].recipe = Netlist(refs)
        BY <2>1, <2>2 DEF Chained, Hashes, Requested, Recipe, Netlist
    <2>4. index'.refs = refs /\ store' = store
        BY <1>1
    <2> QED BY <2>1, <2>3, <2>4
            DEF PassStage, Names, Chained, Accepted, Parent, Binding, Views, Netlist
<1> QED BY <1>1, <1>2, <1>5, IndexStepKeeps DEF BaselineTypeOK

\* A session lists a stage of the baseline only with what it was asked for, and
\* with every stage it reads.
LEMMA ManifestWritten ==
    ASSUME BaselineInvariant, pc \in {"indexed", "passed"}, manifest' = Resumable, UNCHANGED store
    PROVE  manifest' \in [Stages -> ManifestEntries \cup {None}] /\ ManifestCoherent'
<1>1. AnalysisOK /\ DurableOK /\ BaselineTypeOK /\ pc \in Going /\ pc # "idle"
    BY DEF BaselineInvariant, Going, AtWork
<1>2. /\ manifest' = [s \in Stages |->
                        IF refs[s] = None \/ hashes[s] = None THEN None
                        ELSE [ref |-> refs[s], requested |-> hashes[s]]]
      /\ refs \in [Stages -> Nat \cup {None}] /\ hashes \in [Stages -> StageHashes \cup {None}]
    BY <1>1 DEF Resumable, BaselineTypeOK, Refs
<1>3. manifest' \in [Stages -> ManifestEntries \cup {None}]
    BY <1>2 DEF ManifestEntries
<1>4. ManifestCoherent'
    <2> SUFFICES ASSUME NEW s \in Baseline, manifest'[s] # None
                 PROVE  EntryCoherent(s)'
        BY DEF ManifestCoherent
    <2>1. s \in Stages /\ refs[s] # None /\ hashes[s] # None
          /\ manifest'[s] = [ref |-> refs[s], requested |-> hashes[s]]
        BY <1>2 DEF Baseline
    <2>2. /\ hashes[s].parent = Parent(s, refs) /\ hashes[s].binding = Binding(s, refs)
          /\ hashes[s].views = Views(s, refs)
          /\ \A t \in Reads(s) : t \in Stages /\ refs[t] \in 1 .. Len(store) /\ hashes[t] \in StageHashes
        <3>1. CASE phase = "M2"
            <4>1. s \in InPhase
                BY <3>1 DEF InPhase
            <4>2. s \notin todo \/ (s = Stage /\ pc \in AtWork /\ s \in todo)
                BY <1>1, <2>1, <3>1 DEF AnalysisOK, AheadStages
            <4>3. Asked(s)
                BY <1>1, <4>1, <4>2 DEF AnalysisOK, DoneStages, DoneStage, StageAtHand
            <4>4. \A t \in Reads(s) : t \in Baseline \ todo /\ t \in Stages /\ refs[t] \in 1 .. Len(store)
                BY <1>1, <3>1, <4>1, <4>2, ReadsKnown
            <4>5. ASSUME NEW t \in Reads(s) PROVE hashes[t] \in StageHashes
                <5>1. t \in InPhase \ todo BY <3>1, <4>4 DEF InPhase
                <5>2. Asked(t) BY <1>1, <5>1 DEF AnalysisOK, DoneStages, DoneStage
                <5> QED BY <1>1, <5>1, <5>2, RequestedType DEF Asked
            <4> QED BY <4>3, <4>4, <4>5 DEF Asked, Requested
        <3>2. CASE phase = "M3"
            <4>1. \A t \in Baseline : /\ PassStage(t) /\ refs[t] = index.refs[t]
                                      /\ hashes[t] = Hashes(store[refs[t]])
                BY <1>1, <3>2 DEF AnalysisOK, DurableOK, EvidenceSession, PassCoherent
            <4>2. Reads(s) \subseteq Baseline /\ Baseline \subseteq Stages
                BY <2>1, ReadsBefore DEF Baseline
            <4>3. \A t \in Baseline : refs[t] \in 1 .. Len(store) /\ store[refs[t]] \in Results
                BY <1>1, <4>1, <4>2 DEF PassStage, Names, AnalysisOK, InStore, BaselineTypeOK
            <4>4. \A t \in Baseline : hashes[t] \in StageHashes
                <5>1. \A r \in Results : Hashes(r) \in StageHashes
                    BY DEF Results, Hashes, StageHashes
                <5> QED BY <4>1, <4>3, <5>1
            <4>5. /\ Parent(s, refs) = Parent(s, index.refs) /\ Binding(s, refs) = Binding(s, index.refs)
                  /\ Views(s, refs) = Views(s, index.refs)
                BY <2>1, <4>1, <4>2, AgreeingReads
            <4>6. /\ hashes[s].parent = Parent(s, refs) /\ hashes[s].binding = Binding(s, refs)
                  /\ hashes[s].views = Views(s, refs)
                <5>1. PassStage(s) /\ refs[s] = index.refs[s] /\ hashes[s] = Hashes(store[refs[s]])
                    BY <4>1
                <5>2. /\ store[refs[s]].parent = Parent(s, index.refs)
                      /\ store[refs[s]].binding = Binding(s, index.refs)
                      /\ store[refs[s]].views = Views(s, index.refs)
                    BY <5>1 DEF PassStage, Chained
                <5> QED BY <5>1, <5>2, <4>5 DEF Hashes
            <4> QED BY <4>2, <4>3, <4>4, <4>6
        <3> QED BY <1>1, <3>1, <3>2 DEF BaselineTypeOK
    <2>3. \A t \in Reads(s) : /\ manifest'[t] = [ref |-> refs[t], requested |-> hashes[t]]
                              /\ manifest'[t] # None /\ manifest'[t].ref = refs[t]
        <3> SUFFICES ASSUME NEW t \in Reads(s)
                     PROVE  /\ manifest'[t] = [ref |-> refs[t], requested |-> hashes[t]]
                            /\ manifest'[t] # None /\ manifest'[t].ref = refs[t]
            OBVIOUS
        <3>1. t \in Stages /\ refs[t] # None /\ hashes[t] # None /\ refs[t] \in Nat
              /\ hashes[t] \in StageHashes
            BY <2>2, StagesAssumption
        <3>2. manifest'[t] = [ref |-> refs[t], requested |-> hashes[t]]
            BY <1>2, <3>1
        <3>3. [ref |-> refs[t], requested |-> hashes[t]] \in ManifestEntries
            BY <3>1 DEF ManifestEntries
        <3> QED BY <3>2, <3>3, StagesAssumption
    <2> DEFINE f == [t \in Stages |-> manifest[t].ref]
    <2>4. \A t \in Reads(s) : f'[t] = refs[t]
        BY <2>2, <2>3
    <2>5. Parent(s, f') = Parent(s, refs) /\ Binding(s, f') = Binding(s, refs)
          /\ Views(s, f') = Views(s, refs)
        <3> HIDE DEF f
        <3> QED BY <2>1, <2>4, AgreeingReads
    <2>6. Parent(s, f)' = Parent(s, refs) /\ Binding(s, f)' = Binding(s, refs)
          /\ Views(s, f)' = Views(s, refs)
        <3>1. Parent(s, f)' = Parent(s, f') /\ Views(s, f)' = Views(s, f')
            BY DEF Parent, Views
        <3>2. Binding(s, f)' = Binding(s, f')
            BY DEF Binding, Netlist
        <3> QED BY <2>5, <3>1, <3>2
    <2>7. manifest'[s].ref \in 1 .. Len(store') /\ manifest'[s].requested = hashes[s]
        BY <1>1, <2>1 DEF AnalysisOK, InStore
    <2>8. \A t \in Reads(s) : manifest'[t] # None /\ manifest'[t].ref \in 1 .. Len(store')
        BY <2>2, <2>3
    <2>9. /\ manifest'[s].requested.parent = Parent(s, f)'
          /\ manifest'[s].requested.binding = Binding(s, f)'
          /\ manifest'[s].requested.views = Views(s, f)'
        BY <2>2, <2>6, <2>7
    <2> QED BY <2>7, <2>8, <2>9 DEF EntryCoherent
<1> QED BY <1>3, <1>4

\* The disk, when no more than the manifest is written.
LEMMA ManifestOnly ==
    ASSUME BaselineInvariant, UNCHANGED <<index, store, events>>, ManifestCoherent'
    PROVE  DurableOK'
<1>1. DurableOK
    BY DEF BaselineInvariant
<1>2. InStore(index.refs)' /\ Logged(index.refs)'
    BY <1>1 DEF DurableOK, InStore, Logged
<1>3. \A s \in Baseline : PassStage(s)' = PassStage(s)
    BY DEF PassStage, Names, Chained, Accepted, Parent, Binding, Views, Netlist
<1> QED BY <1>1, <1>2, <1>3 DEF DurableOK, PassCoherent

\* A session that ends.
LEMMA EndKeeps ==
    ASSUME BaselineInvariant, Leave, UNCHANGED <<index, store, events, phase>>,
           recipe' \in Recipes, jobs' \in Seq(Rows),
           manifest' \in [Stages -> ManifestEntries \cup {None}], ManifestCoherent'
    PROVE  BaselineInvariant'
<1>1. BaselineTypeOK'
    BY DEF BaselineInvariant, BaselineTypeOK, InPhase, Leave, Refs
<1>2. DurableOK'
    BY ManifestOnly
<1>3. AnalysisOK'
    BY LeaveKeeps
<1>4. RowsOfPlace'
    BY DEF RowsOfPlace, Leave
<1> QED BY <1>1, <1>2, <1>3, <1>4 DEF BaselineInvariant

\* What the manifest says does not depend on more than the store.
LEMMA SameManifest ==
    ASSUME BaselineInvariant, UNCHANGED <<manifest, store>>
    PROVE  manifest' \in [Stages -> ManifestEntries \cup {None}] /\ ManifestCoherent'
<1>1. BaselineTypeOK /\ ManifestCoherent
    BY DEF BaselineInvariant, DurableOK
<1>2. Grown
    BY <1>1, StoreSame
<1> QED BY <1>1, <1>2, EntryKept DEF ManifestCoherent, BaselineTypeOK

LEMMA EndsKeep ==
    ASSUME BaselineInvariant,
           Cancelled \/ CompleteRaises \/ LeaveBaselining \/ LeaveEvidence \/ Die
    PROVE  BaselineInvariant'
<1>1. Leave /\ UNCHANGED <<index, manifest, store, events, recipe, phase>>
    BY DEF Cancelled, CompleteRaises, LeaveBaselining, LeaveEvidence, Die, durable
<1>2. jobs' \in Seq(Rows)
    <2>1. CASE Cancelled
        <3>1. pc \in Leased /\ pc' = "idle" /\ jobs' = [jobs EXCEPT ![Mine].status = "CANCELLED"]
            BY <2>1 DEF Cancelled, Leased, Leave
        <3> QED BY <1>1, <3>1, RowMoves
    <2>2. CASE CompleteRaises \/ LeaveBaselining \/ LeaveEvidence \/ Die
        <3>1. jobs' = jobs
            BY <2>2 DEF CompleteRaises, LeaveBaselining, LeaveEvidence, Die, durable
        <3> QED BY <3>1 DEF BaselineInvariant, BaselineTypeOK
    <2> QED BY <2>1, <2>2
<1>3. recipe' \in Recipes
    BY <1>1 DEF BaselineInvariant, BaselineTypeOK
<1> QED BY <1>1, <1>2, <1>3, SameManifest, EndKeeps

LEMMA WriteManifestKeeps ==
    ASSUME BaselineInvariant, WriteManifest
    PROVE  BaselineInvariant'
<1>1. /\ pc = "indexed" /\ manifest' = Resumable
      /\ UNCHANGED <<index, store, events, jobs, recipe, phase>>
    BY DEF WriteManifest
<1>2. manifest' \in [Stages -> ManifestEntries \cup {None}] /\ ManifestCoherent'
    BY <1>1, ManifestWritten
<1>3. AnalysisOK /\ BaselineTypeOK /\ todo # {}
    BY <1>1 DEF BaselineInvariant, AnalysisOK, SessionPlace, AtWork
<1>4. CASE Accepted(store[result])
    <2>1. todo' = todo \ {Stage} /\ pc' = "stage" /\ result' = None /\ UNCHANGED <<refs, hashes>>
        BY <1>4 DEF WriteManifest
    <2>2. BaselineTypeOK'
        BY <1>1, <1>2, <1>3, <2>1 DEF BaselineTypeOK, InPhase, Going
    <2>3. DurableOK'
        BY <1>1, <1>2, ManifestOnly
    <2>4. PICK t : t = Stage
        OBVIOUS
    <2>5. t \in todo /\ t \in Stages
        BY <1>3, <2>4, StageAhead
    <2>6. DoneStage(t)'
        <3>1. Asked(t) /\ refs[t] = result /\ result \in 1 .. Len(store)
              /\ Hashes(store[result]) = hashes[t]
            BY <1>1, <1>3, <2>4, <2>5 DEF AnalysisOK, StageAtHand, AtWork
        <3>2. DoneStage(t)
            BY <1>4, <3>1, StagesAssumption DEF DoneStage
        <3> QED BY <1>1, <2>1, <3>2
                DEF DoneStage, Asked, Requested, Recipe, Parent, Binding, Views, Netlist, Accepted, Hashes
    <2>7. AnalysisOK'
        BY <1>1, <1>3, <2>1, <2>4, <2>6, PassedKeeps
    <2>8. RowsOfPlace'
        BY <1>1, <2>1, RowsStay DEF Going, AtWork, Leased
    <2> QED BY <2>2, <2>3, <2>7, <2>8 DEF BaselineInvariant
<1>5. CASE ~ Accepted(store[result])
    <2>1. Leave
        BY <1>5 DEF WriteManifest
    <2>2. recipe' \in Recipes /\ jobs' \in Seq(Rows)
        BY <1>1, <1>3 DEF BaselineTypeOK
    <2> QED BY <1>1, <1>2, <2>1, <2>2, EndKeeps
<1> QED BY <1>4, <1>5

LEMMA WritePassManifestKeeps ==
    ASSUME BaselineInvariant, WritePassManifest
    PROVE  BaselineInvariant'
<1>1. /\ pc = "passed" /\ pc' = "leaving" /\ manifest' = Resumable
      /\ UNCHANGED <<index, store, events, jobs, recipe, phase, todo, refs, hashes, result>>
    BY DEF WritePassManifest
<1>2. manifest' \in [Stages -> ManifestEntries \cup {None}] /\ ManifestCoherent'
    BY <1>1, ManifestWritten
<1>3. AnalysisOK /\ BaselineTypeOK /\ todo = {} /\ phase = "M2" /\ pc \in Going
    BY <1>1 DEF BaselineInvariant, AnalysisOK, SessionPlace, Going
<1>4. BaselineTypeOK'
    BY <1>1, <1>2, <1>3 DEF BaselineTypeOK, InPhase, Going
<1>5. DurableOK'
    BY <1>1, <1>2, ManifestOnly
<1>6. InStore(refs)' /\ Logged(refs)' /\ InOrder' /\ SessionPlace' /\ StageAtHand'
    BY <1>1, <1>3 DEF AnalysisOK, InStore, Logged, InOrder, InPhase, SessionPlace, StageAtHand,
       AtWork, Leased
<1>7. DoneStages'
    <2>1. Grown BY <1>1, <1>3, StoreSame
    <2>2. \A s \in InPhase \ todo : DoneStage(s)'
        BY <1>1, <1>3, <2>1, DoneStagesKept
    <2> QED BY <1>1, <2>2 DEF DoneStages, InPhase
<1>8. AheadStages' /\ IndexFollows' /\ EvidenceSession'
    BY <1>1, <1>3 DEF AnalysisOK, AheadStages, IndexFollows, EvidenceSession
<1>9. RowsOfPlace'
    BY <1>1, RowsStay DEF Going, AtWork, Leased
<1> QED BY <1>4, <1>5, <1>6, <1>7, <1>8, <1>9 DEF BaselineInvariant, AnalysisOK

LEMMA ChangeRecipeKeeps ==
    ASSUME BaselineInvariant, ChangeRecipe
    PROVE  BaselineInvariant'
<1>1. pc = "idle" /\ recipe' \in Recipes /\ UNCHANGED durable /\ UNCHANGED session
    BY DEF ChangeRecipe
<1>2. BaselineTypeOK'
    BY <1>1 DEF BaselineInvariant, BaselineTypeOK, InPhase, durable, session
<1>3. DurableOK'
    BY <1>1, SameManifest, ManifestOnly DEF durable
<1>4. AnalysisOK'
    BY <1>1 DEF BaselineInvariant, AnalysisOK, InStore, Logged, SessionPlace, InOrder, InPhase,
       DoneStages, AheadStages, StageAtHand, EvidenceSession, IndexFollows, Going, AtWork, Leased,
       durable, session
<1>5. RowsOfPlace'
    BY <1>1 DEF RowsOfPlace, session
<1> QED BY <1>2, <1>3, <1>4, <1>5 DEF BaselineInvariant

LEMMA SessionStutters ==
    ASSUME BaselineInvariant, UNCHANGED vars
    PROVE  BaselineInvariant'
<1>1. UNCHANGED <<durable, recipe, session>>
    BY DEF vars
<1>2. BaselineTypeOK'
    BY <1>1 DEF BaselineInvariant, BaselineTypeOK, InPhase, durable, session
<1>3. DurableOK'
    BY <1>1, SameManifest, ManifestOnly DEF durable
<1>4. AnalysisOK'
    <2>1. \A s : Asked(s)' = Asked(s)
        BY <1>1 DEF Asked, Requested, Recipe, Parent, Binding, Views, Netlist, durable, session
    <2>2. \A s : DoneStage(s)' = DoneStage(s)
        BY <1>1, <2>1 DEF DoneStage, Accepted, Hashes, durable, session
    <2>3. Stage' = Stage
        BY <1>1 DEF Stage, session
    <2>4. DoneStages' /\ StageAtHand'
        BY <1>1, <2>1, <2>2, <2>3
           DEF BaselineInvariant, AnalysisOK, DoneStages, StageAtHand, InPhase, Hashes, durable, session
    <2>5. AheadStages' /\ IndexFollows' /\ EvidenceSession'
        BY <1>1, <2>3
           DEF BaselineInvariant, AnalysisOK, AheadStages, IndexFollows, EvidenceSession, Hashes,
               durable, session
    <2>6. InStore(refs)' /\ Logged(refs)' /\ SessionPlace' /\ InOrder'
        BY <1>1 DEF BaselineInvariant, AnalysisOK, InStore, Logged, SessionPlace, InOrder, InPhase,
                    durable, session
    <2> QED BY <2>4, <2>5, <2>6 DEF AnalysisOK
<1>5. RowsOfPlace'
    BY <1>1 DEF BaselineInvariant, RowsOfPlace, durable, session
<1> QED BY <1>2, <1>3, <1>4, <1>5 DEF BaselineInvariant

LEMMA BaselineInductive == BaselineInvariant /\ [Next]_vars => BaselineInvariant'
<1> SUFFICES ASSUME BaselineInvariant, [Next]_vars PROVE BaselineInvariant'
    OBVIOUS
<1>1. CASE OpenScheduler BY <1>1, OpenKeeps
<1>2. CASE OpenSchedulerAgain BY <1>2, OpenAgainKeeps
<1>3. CASE EnterBaselining BY <1>3, EnterKeeps
<1>4. CASE StartEvidence BY <1>4, StartEvidenceKeeps
<1>5. CASE Reuse BY <1>5, ReuseKeeps
<1>6. CASE RunInternal \/ BuildEvidence \/ FormOpportunities
    BY <1>6, ComputeKeeps DEF RunInternal, BuildEvidence, FormOpportunities
<1>7. CASE Submit BY <1>7, SubmitKeeps
<1>8. CASE Dispatch BY <1>8, DispatchKeeps
<1>9. CASE WorkerStarted \/ ExecuteRaises \/ Complete BY <1>9, WorkerKeeps
<1>10. CASE \E status \in Statuses : Execute(status) BY <1>10, ExecuteKeeps
<1>11. CASE Cancelled \/ CompleteRaises \/ LeaveBaselining \/ LeaveEvidence \/ Die
    BY <1>11, EndsKeep
<1>12. CASE AppendStageEvent BY <1>12, AppendKeeps
<1>13. CASE WriteIndex BY <1>13, WriteIndexKeeps
<1>14. CASE WriteManifest BY <1>14, WriteManifestKeeps
<1>15. CASE WritePass BY <1>15, WritePassKeeps
<1>16. CASE WritePassManifest BY <1>16, WritePassManifestKeeps
<1>17. CASE ChangeRecipe BY <1>17, ChangeRecipeKeeps
<1>18. CASE UNCHANGED vars BY <1>18, SessionStutters
<1> QED
    BY <1>1, <1>2, <1>3, <1>4, <1>5, <1>6, <1>7, <1>8, <1>9, <1>10, <1>11, <1>12, <1>13, <1>14,
       <1>15, <1>16, <1>17, <1>18 DEF Next, Step, Statuses

-----------------------------------------------------------------------------
(* What it gives *)

\* However sessions and recipes alternate and wherever sessions die, the run
\* directory and the session at hand fit together.
THEOREM BaselineInvariantHolds == Spec => []BaselineInvariant
BY BaselineInitHolds, BaselineInductive, PTL DEF Spec

\* A run index that says PASS is of one analysis, whatever was reused.
THEOREM PassHolds == Spec => []PassIsCoherent
<1>1. BaselineInvariant => PassIsCoherent
    <2> SUFFICES ASSUME BaselineInvariant PROVE PassIsCoherent
        OBVIOUS
    <2>1. AnalysisOK /\ DurableOK
        BY DEF BaselineInvariant
    <2>2. ASSUME pc = "stage", phase = "M3", todo = {}, NEW s \in Stages \ Baseline
          PROVE  Chained(s, index.refs) /\ store[index.refs[s]].recipe = recipe
        <3>1. pc \in Going /\ s \in InPhase \ todo /\ s \in Stages
            BY <2>2 DEF Going, InPhase, Baseline
        <3>2. DoneStage(s) /\ \A t \in Stages : refs[t] = index.refs[t]
            BY <2>1, <2>2, <3>1 DEF AnalysisOK, DoneStages, IndexFollows
        <3>3. Parent(s, refs) = Parent(s, index.refs) /\ Binding(s, refs) = Binding(s, index.refs)
              /\ Views(s, refs) = Views(s, index.refs)
            BY <3>1, <3>2, ReadsBefore, AgreeingReads
        <3>4. Accepted(store[refs[s]]) /\ Hashes(store[refs[s]]) = Requested(s, refs)
            BY <3>2 DEF DoneStage, Asked
        <3> QED BY <3>1, <3>2, <3>3, <3>4 DEF Chained, Hashes, Requested, Recipe
    <2>3. index.status = "PASS" => \A s \in Baseline : PassStage(s)
        BY <2>1 DEF DurableOK, PassCoherent
    <2> QED BY <2>2, <2>3 DEF PassIsCoherent, PassStage
<1> QED BY <1>1, BaselineInvariantHolds, PTL

\* The ledger is ahead of the index, and what plan_resume calls reusable was
\* computed from what the index names.
THEOREM ResumeHolds == Spec => []ResumeSound
<1>1. BaselineInvariant => ResumeSound
    <2> SUFFICES ASSUME BaselineInvariant PROVE ResumeSound
        OBVIOUS
    <2>1. DurableOK
        BY DEF BaselineInvariant
    <2>2. JournalAhead
        BY <2>1 DEF JournalAhead, DurableOK, Logged, Names
    <2>3. ASSUME \A s \in Stages : manifest[s] # None => manifest[s].ref = index.refs[s],
                 NEW s \in Baseline, PlanReusable(s)
          PROVE  Chained(s, index.refs)
        <3> DEFINE f == [t \in Stages |-> manifest[t].ref]
        <3>1. manifest[s] # None /\ EntryCoherent(s) /\ s \in Stages
            BY <2>1, <2>3 DEF PlanReusable, DurableOK, ManifestCoherent, Baseline
        <3>2. \A t \in Reads(s) : f[t] = index.refs[t]
            BY <2>3, <3>1, ReadsBefore DEF EntryCoherent
        <3>3. Parent(s, f) = Parent(s, index.refs) /\ Binding(s, f) = Binding(s, index.refs)
              /\ Views(s, f) = Views(s, index.refs)
            <4> HIDE DEF f
            <4> QED BY <3>1, <3>2, AgreeingReads
        <3>4. /\ manifest[s].requested.parent = Parent(s, f)
              /\ manifest[s].requested.binding = Binding(s, f)
              /\ manifest[s].requested.views = Views(s, f)
            BY <3>1 DEF EntryCoherent
        <3>5. /\ Accepted(store[index.refs[s]])
              /\ Hashes(store[index.refs[s]]) = manifest[s].requested
            BY <2>3, <3>1 DEF PlanReusable, CanReuse
        <3> HIDE DEF f
        <3> QED BY <3>3, <3>4, <3>5 DEF Chained, Hashes
    <2> QED BY <2>2, <2>3 DEF ResumeSound, ResumePlanSound
<1> QED BY <1>1, BaselineInvariantHolds, PTL

\* A session that has opened the scheduler finds no lease but its own job's.
THEOREM LeaseHolds == Spec => []OnlyOwnLease
<1>1. BaselineInvariant => OnlyOwnLease
    BY DEF BaselineInvariant, RowsOfPlace, OnlyOwnLease, Mine
<1> QED BY <1>1, BaselineInvariantHolds, PTL

-----------------------------------------------------------------------------
(* Part 2, Signoff: the inductive invariant of the packets *)

\* Commits are numbered, and ancestry is reflexive and transitive.
RepositoryOK ==
    /\ \E n \in Nat \ {0} : DOMAIN anc = 1 .. n
    /\ head \in DOMAIN anc /\ work \in Versions
    /\ \A c \in DOMAIN anc : impl[c] \in Versions /\ c \in anc[c] /\ anc[c] \subseteq DOMAIN anc
    /\ \A c \in DOMAIN anc : \A d \in anc[c] : anc[d] \subseteq anc[c]

\* Once there is a planner run, none is under way.
EvidenceOK ==
    /\ live \in [index : Nat, stages : Nat, evidence : 1 .. 2]
    /\ frozen \in [{"ledger", "index"} -> Nat \cup {Absent}]
    /\ bundle \in [5 .. 6 -> Bundles \cup {Absent}]
    /\ planning \in [of : Bundles, at : {"propose", "write"}] \cup {Absent}
    /\ planning # Absent => bundle[6] = Absent

\* What M5 or M6 saw: a search or a planner run of the index M4 has signed.
Made(b) == packets[4] # NoPacket /\ b.index = packets[4].seen.index

\* The bundle of M5 or M6 is there, and the planner run is of the search's sources.
Checked(m) == bundle[m] \in Bundles /\ (m = 6 => bundle[6] = bundle[5])

PublishedOK ==
    \A e \in published : /\ e = <<e[1], e[2]>> /\ e[1] \in 0 .. 8 /\ e[2] # NoPacket
                         /\ e[1] = 2 => frozen.index # Absent /\ e[2].seen = frozen.index

\* M2 stands on the only packet M1 will ever have.
Founded(up, c) == packets[1] # NoPacket /\ up = packets[1] /\ packets[1].commit \in anc[c]

PacketsOK ==
    /\ packets = [m \in 0 .. 8 |-> packets[m]]
    /\ packets[2] # NoPacket =>
          packets[2].commit \in DOMAIN anc /\ Founded(packets[2].up, packets[2].commit)
    /\ packets[4] # NoPacket =>
          packets[4].seen.index \in Nat /\ packets[4].seen.index <= live.index
    /\ \A m \in 5 .. 6 : packets[m] # NoPacket =>
          packets[m].seen = bundle[m] /\ Checked(m) /\ Made(bundle[m])

PlacesOf(m) ==
    {"depend", "build", "publish"}
       \cup (IF m \in 0 .. 3 THEN {"recheck"} ELSE {})
       \cup (IF m \in 2 .. 3 THEN {"archive"} ELSE {})
       \cup (IF m = 2 THEN {"freezing", "frozen"} ELSE {})
       \cup (IF m \in 5 .. 8 THEN {"gate"} ELSE {})
       \cup (IF m \in 4 .. 6 THEN {"resolve"} ELSE {})
       \cup (IF m \in 5 .. 6 THEN {"bundle"} ELSE {})

Building == {"build", "recheck", "archive", "publish"}

Built == {"recheck", "archive", "publish"}

\* M4 to M6 do not know their commit at first.
Unresolved == k \in 4 .. 6 /\ spc \in {"gate", "resolve"}

\* What a sign-off under way may rely on.
PlaceOK ==
    spc # "idle" => k \in 0 .. 8 /\ spc \in PlacesOf(k) /\ (Unresolved \/ commit \in DOMAIN anc)

FreezeOK ==
    /\ spc = "frozen" => frozen.ledger # Absent /\ frozen.index = Absent
    /\ spc \in Building \cup {"depend"} /\ k = 2 => frozen.index # Absent

ReportOK ==
    /\ spc \in Built => report.commit = commit /\ (k = 2 => report.seen = frozen.index)
    /\ spc = "build" /\ k = 2 => Founded(below, commit)
    /\ spc \in Built /\ k = 2 => Founded(report.up, commit)

\* Between the check of the bundle and that of M4 the index can only grow: M4's,
\* which is not above the bundle's, must then be the bundle's.
BundleOK ==
    /\ spc \in {"depend", "build", "publish"} /\ k \in 5 .. 6 => Checked(k)
    /\ spc = "depend" /\ k \in 5 .. 6 =>
          /\ bundle[k].index <= live.index
          /\ packets[4] # NoPacket => packets[4].seen.index <= bundle[k].index
    /\ spc \in {"build", "publish"} /\ k \in 5 .. 6 => Made(bundle[k])
    /\ spc = "publish" /\ k \in 5 .. 6 => report.seen = bundle[k]
    /\ spc = "publish" /\ k = 4 => report.seen.index \in Nat /\ report.seen.index <= live.index

\* What is there will not be lost when the report is published.
RoomOK ==
    /\ spc # "idle" /\ k \in 4 .. 6 => packets[k] = NoPacket
    /\ spc = "publish" /\ k \in 2 .. 3 => packets[k] = NoPacket \/ <<k, packets[k]>> \in archive

SigningOK == PlaceOK /\ FreezeOK /\ ReportOK /\ BundleOK /\ RoomOK

SignoffInvariant ==
    /\ RepositoryOK /\ EvidenceOK /\ PublishedOK /\ PacketsOK /\ SigningOK
    /\ NothingOverwritten

-----------------------------------------------------------------------------
(* Reports and the steps of a sign-off *)

LEMMA NoneFacts == Absent \notin Nat /\ Absent \notin Bundles /\ Absent \notin Versions
BY SignoffAssumption

\* A report names its commit; what it saw depends on its milestone.
LEMMA RebuiltIs ==
    ASSUME NEW m \in 0 .. 8, NEW c, NEW up, NEW g
    PROVE  LET r == Rebuilt(m, c, up, g) IN
           /\ r.commit = c
           /\ m = 2 => r.seen = frozen.index /\ r.up = up
           /\ m = 4 => r.seen = live
           /\ m \in 5 .. 6 => r.seen = bundle[m]
<1> DEFINE r == Rebuilt(m, c, up, g)
<1> USE DEF Report
<1>0. CASE m = 0 BY <1>0 DEF Rebuilt, M0Report
<1>1. CASE m = 1 BY <1>1 DEF Rebuilt, M1Report
<1>2. CASE m = 2 BY <1>2 DEF Rebuilt, M2Report, M2Evidence
<1>3. CASE m = 3 BY <1>3 DEF Rebuilt, M3Report
<1>4. CASE m = 4 BY <1>4 DEF Rebuilt, M4Report
<1>5. CASE m = 5 BY <1>5 DEF Rebuilt, M5Report
<1>6. CASE m = 6 BY <1>6 DEF Rebuilt, M6Report
<1>7. CASE m = 7 BY <1>7 DEF Rebuilt, M7Report
<1>8. CASE m = 8 BY <1>8 DEF Rebuilt, M8Report
<1> QED BY <1>0, <1>1, <1>2, <1>3, <1>4, <1>5, <1>6, <1>7, <1>8

\* A packet of a commit is a packet.
LEMMA CommitsAreSomething == \A p : p.commit # 0 => p # NoPacket
BY DEF NoPacket, Report

\* In a sequence without repetitions the place of an element is its own.
LEMMA PlaceFound ==
    ASSUME NEW q, NEW i \in DOMAIN q, \A j \in DOMAIN q : q[j] = q[i] => j = i
    PROVE  q[(CHOOSE j \in DOMAIN q : q[j] = q[i]) + 1] = q[i + 1]
<1>1. (CHOOSE j \in DOMAIN q : q[j] = q[i]) = i OBVIOUS
<1> QED BY <1>1

\* Where a sign-off goes from each of its steps.
LEMMA OnwardIs ==
    ASSUME k \in 0 .. 8, spc \in PlacesOf(k)
    PROVE  /\ spc = "freezing" => Onward = "frozen"
           /\ spc = "frozen" => Onward = "depend"
           /\ spc = "gate" => Onward = IF k \in 5 .. 6 THEN "resolve" ELSE "depend"
           /\ spc = "resolve" => Onward = IF k = 4 THEN "depend" ELSE "bundle"
           /\ spc = "bundle" => Onward = "depend"
           /\ spc = "depend" => Onward = "build"
           /\ spc = "build" => Onward = IF k \in 0 .. 3 THEN "recheck" ELSE "publish"
           /\ spc = "recheck" => Onward = IF k \in 2 .. 3 THEN "archive" ELSE "publish"
           /\ spc = "archive" => Onward = "publish"
<1> DEFINE q == Run(k)
<1>1. \A i \in DOMAIN q : spc = q[i] /\ (\A j \in DOMAIN q : q[j] = q[i] => j = i) => Onward = q[i + 1]
    BY PlaceFound DEF Onward
<1>2. CASE k \in 0 .. 1
    <2>1. q = <<"depend", "build", "recheck", "publish">> BY <1>2 DEF Run, M0Run, M1Run
    <2>2. DOMAIN q = 1 .. 4 /\ q[1] = "depend" /\ q[2] = "build" /\ q[3] = "recheck" /\ q[4] = "publish"
        BY <2>1
    <2> HIDE DEF q
    <2> QED BY <1>1, <1>2, <2>2 DEF PlacesOf
<1>3. CASE k = 2
    <2>1. q = <<"freezing", "frozen", "depend", "build", "recheck", "archive", "publish">>
        BY <1>3 DEF Run, M2Run
    <2>2. /\ DOMAIN q = 1 .. 7 /\ q[1] = "freezing" /\ q[2] = "frozen" /\ q[3] = "depend"
          /\ q[4] = "build" /\ q[5] = "recheck" /\ q[6] = "archive" /\ q[7] = "publish"
        BY <2>1
    <2> HIDE DEF q
    <2> QED BY <1>1, <1>3, <2>2 DEF PlacesOf
<1>4. CASE k = 3
    <2>1. q = <<"depend", "build", "recheck", "archive", "publish">> BY <1>4 DEF Run, M3Run
    <2>2. /\ DOMAIN q = 1 .. 5 /\ q[1] = "depend" /\ q[2] = "build" /\ q[3] = "recheck"
          /\ q[4] = "archive" /\ q[5] = "publish"
        BY <2>1
    <2> HIDE DEF q
    <2> QED BY <1>1, <1>4, <2>2 DEF PlacesOf
<1>5. CASE k = 4
    <2>1. q = <<"resolve", "depend", "build", "publish">> BY <1>5 DEF Run, M4Run
    <2>2. /\ DOMAIN q = 1 .. 4 /\ q[1] = "resolve" /\ q[2] = "depend" /\ q[3] = "build"
          /\ q[4] = "publish"
        BY <2>1
    <2> HIDE DEF q
    <2> QED BY <1>1, <1>5, <2>2 DEF PlacesOf
<1>6. CASE k \in 5 .. 6
    <2>1. q = <<"gate", "resolve", "bundle", "depend", "build", "publish">>
        BY <1>6 DEF Run, M5Run, M6Run
    <2>2. /\ DOMAIN q = 1 .. 6 /\ q[1] = "gate" /\ q[2] = "resolve" /\ q[3] = "bundle"
          /\ q[4] = "depend" /\ q[5] = "build" /\ q[6] = "publish"
        BY <2>1
    <2> HIDE DEF q
    <2> QED BY <1>1, <1>6, <2>2 DEF PlacesOf
<1>7. CASE k \in 7 .. 8
    <2>1. q = <<"gate", "depend", "build", "publish">> BY <1>7 DEF Run, M7Run, M8Run
    <2>2. DOMAIN q = 1 .. 4 /\ q[1] = "gate" /\ q[2] = "depend" /\ q[3] = "build" /\ q[4] = "publish"
        BY <2>1
    <2> HIDE DEF q
    <2> QED BY <1>1, <1>7, <2>2 DEF PlacesOf
<1> QED BY <1>2, <1>3, <1>4, <1>5, <1>6, <1>7

LEMMA FirstStep ==
    ASSUME NEW m \in 0 .. 8
    PROVE  Head(Run(m)) = CASE m = 2 -> "freezing" [] m = 4 -> "resolve"
                            [] m \in 5 .. 8 -> "gate" [] m \in {0, 1, 3} -> "depend"
BY DEF Run, M0Run, M1Run, M2Run, M3Run, M4Run, M5Run, M6Run, M7Run, M8Run

-----------------------------------------------------------------------------
(* SignoffInit *)

LEMMA FirstChainIs ==
    ASSUME NEW m \in 1 .. 8
    PROVE  /\ FirstChain[m].commit = 1
           /\ m = 2 => FirstChain[m].seen = frozen.index /\ FirstChain[m].up = FirstChain[1]
           /\ m = 4 => FirstChain[m].seen = live
           /\ m \in 5 .. 6 => FirstChain[m].seen = bundle[m]
BY DEF FirstChain, Report, M1Report, M2Report, M3Report, M4Report, M5Report, M6Report, M7Report,
       M8Report, M2Evidence

LEMMA SignoffInitHolds == SignoffInit => SignoffInvariant
<1> SUFFICES ASSUME SignoffInit PROVE SignoffInvariant
    OBVIOUS
<1>1. PICK n \in Signed :
        /\ frozen = [f \in {"ledger", "index"} |-> IF n >= 2 THEN 0 ELSE Absent]
        /\ bundle = [m \in 5 .. 6 |-> IF n >= m THEN [sources |-> First.search, index |-> 0]
                                         ELSE Absent]
        /\ packets = [m \in 0 .. 8 |-> IF m \in 1 .. n THEN FirstChain[m] ELSE NoPacket]
    BY DEF SignoffInit
<1>2. n \in 0 .. 8 BY SignoffAssumption
<1>3. /\ anc = [c \in {1} |-> {1}] /\ impl = [c \in {1} |-> First] /\ head = 1 /\ work = First
      /\ live = [index |-> 0, stages |-> 0, evidence |-> 1] /\ planning = Absent /\ archive = {}
      /\ spc = "idle"
      /\ published = {<<m, packets[m]>> : m \in {d \in 0 .. 8 : packets[d] # NoPacket}}
    BY DEF SignoffInit, First
<1>4. \A m \in 0 .. 8 : packets[m] # NoPacket => m \in 1 .. n /\ packets[m] = FirstChain[m]
    BY <1>1
<1>5. \A m \in 1 .. n : packets[m] = FirstChain[m] /\ packets[m] # NoPacket
    BY <1>1, <1>2, FirstChainIs, CommitsAreSomething
<1>6. RepositoryOK
    <2>1. DOMAIN anc = 1 .. 1 BY <1>3
    <2>2. First \in Versions BY DEF First, Versions
    <2> QED BY <1>3, <2>1, <2>2 DEF RepositoryOK
<1>7. EvidenceOK
    <2>1. [sources |-> First.search, index |-> 0] \in Bundles BY DEF First, Bundles
    <2> QED BY <1>1, <1>2, <1>3, <2>1, NoneFacts DEF EvidenceOK
<1>8. PublishedOK /\ NothingOverwritten
    <2>1. ASSUME NEW e \in published
          PROVE  /\ e = <<e[1], e[2]>> /\ e[1] \in 1 .. n /\ e[2] = packets[e[1]] /\ e[2] # NoPacket
                 /\ e[2] = FirstChain[e[1]]
        <3>1. PICK m \in 0 .. 8 : packets[m] # NoPacket /\ e = <<m, packets[m]>> BY <1>3
        <3> QED BY <1>4, <3>1
    <2>2. 2 \in 1 .. n => frozen.index = 0 /\ frozen.index # Absent BY <1>1, <1>2, NoneFacts
    <2> QED BY <1>2, <2>1, <2>2, FirstChainIs DEF PublishedOK, NothingOverwritten
<1>9. PacketsOK
    <2>1. packets = [m \in 0 .. 8 |-> packets[m]] BY <1>1
    <2>2. ASSUME NEW m \in 5 .. 6, packets[m] # NoPacket
          PROVE  packets[m].seen = bundle[m] /\ Checked(m) /\ Made(bundle[m])
        <3>1. m \in 1 .. n /\ 4 \in 1 .. n BY <1>2, <1>4, <2>2
        <3>2. packets[m].seen = bundle[m] /\ packets[4].seen = live /\ packets[4] # NoPacket
            BY <1>2, <1>5, <3>1, FirstChainIs
        <3>3. \A d \in 5 .. m : bundle[d] = [sources |-> First.search, index |-> 0]
            BY <1>1, <1>2, <3>1
        <3>4. bundle[m].index = 0 /\ bundle[m] \in Bundles BY <3>3 DEF First, Bundles
        <3> QED BY <1>3, <3>2, <3>3, <3>4 DEF Made, Checked
    <2>4. packets[4] # NoPacket => packets[4].seen.index \in Nat /\ packets[4].seen.index <= live.index
        <3>1. packets[4] # NoPacket => 4 \in 1 .. n BY <1>4
        <3>2. packets[4] # NoPacket => packets[4].seen = live BY <1>5, <3>1, FirstChainIs
        <3> QED BY <1>3, <3>2
    <2>3. ASSUME packets[2] # NoPacket
          PROVE  packets[2].commit \in DOMAIN anc /\ Founded(packets[2].up, packets[2].commit)
        <3>1. 1 \in 1 .. n /\ 2 \in 1 .. n BY <1>2, <1>4, <2>3
        <3>2. /\ packets[2].commit = 1 /\ packets[2].up = packets[1]
              /\ packets[1].commit = 1 /\ packets[1] # NoPacket
            BY <1>2, <1>5, <3>1, FirstChainIs
        <3> QED BY <1>3, <3>2 DEF Founded
    <2> QED BY <2>1, <2>2, <2>3, <2>4 DEF PacketsOK
<1>10. SigningOK
    BY <1>3 DEF SigningOK, PlaceOK, FreezeOK, ReportOK, BundleOK, RoomOK, Building, Built
<1> QED BY <1>6, <1>7, <1>8, <1>9, <1>10 DEF SignoffInvariant

-----------------------------------------------------------------------------
(* Leaving a sign-off, and what a sign-off leaves alone *)

LEMMA EndSignoffKeeps ==
    ASSUME EndSignoff
    PROVE  SigningOK'
BY DEF EndSignoff, SigningOK, PlaceOK, FreezeOK, ReportOK, BundleOK, RoomOK, Building, Built

LEMMA RepositoryKept ==
    ASSUME RepositoryOK, UNCHANGED repository
    PROVE  RepositoryOK'
BY DEF RepositoryOK, repository

LEMMA EvidenceKept ==
    ASSUME EvidenceOK, UNCHANGED <<live, frozen, bundle, planning>>
    PROVE  EvidenceOK'
BY DEF EvidenceOK

\* Old commits keep their ancestors, a bundle that is there stays, and the index
\* is only ever written again.
Grows ==
    /\ DOMAIN anc \subseteq DOMAIN anc'
    /\ \A c \in DOMAIN anc : anc'[c] = anc[c]
    /\ \A m \in 5 .. 6 : bundle[m] # Absent => bundle'[m] = bundle[m]
    /\ live'.index \in Nat /\ live.index \in Nat /\ live.index <= live'.index

LEMMA NothingGrows ==
    ASSUME SignoffInvariant, UNCHANGED <<anc, bundle, live>>
    PROVE  Grows
BY DEF Grows, SignoffInvariant, EvidenceOK

LEMMA CheckedKept ==
    ASSUME Grows, NEW m \in 5 .. 6, Checked(m)
    PROVE  /\ bundle'[m] = bundle[m] /\ bundle'[m] \in Bundles /\ bundle[m].index \in Nat
           /\ m = 6 => bundle'[6] = bundle'[5]
<1>1. bundle[m] # Absent /\ bundle[m].index \in Nat BY NoneFacts DEF Checked, Bundles
<1>2. m = 6 => bundle[5] # Absent BY <1>1 DEF Checked
<1> QED BY <1>1, <1>2 DEF Grows, Checked

LEMMA FilesKept ==
    ASSUME SignoffInvariant, Grows, UNCHANGED <<frozen, files>>
    PROVE  PublishedOK' /\ PacketsOK' /\ NothingOverwritten'
<1>1. PublishedOK' BY DEF SignoffInvariant, PublishedOK, files
<1>2. PacketsOK'
    <2>1. packets' = packets /\ PacketsOK BY DEF SignoffInvariant, files
    <2>2. ASSUME NEW m \in 5 .. 6, packets[m] # NoPacket
          PROVE  /\ packets[m].seen = bundle'[m] /\ bundle'[m] \in Bundles
                 /\ m = 6 => bundle'[6] = bundle'[5]
                 /\ packets[4] # NoPacket /\ bundle'[m].index = packets[4].seen.index
        BY <2>1, <2>2, CheckedKept DEF PacketsOK, Made
    <2>3. packets[4] # NoPacket =>
            packets[4].seen.index \in Nat /\ packets[4].seen.index <= live'.index
        BY <2>1 DEF PacketsOK, Grows
    <2>4. packets[2] # NoPacket =>
            packets[2].commit \in DOMAIN anc' /\ Founded(packets[2].up, packets[2].commit)'
        BY <2>1 DEF PacketsOK, Grows, Founded
    <2> QED BY <2>1, <2>2, <2>3, <2>4 DEF PacketsOK, Made, Checked
<1>3. NothingOverwritten' BY DEF SignoffInvariant, NothingOverwritten, files
<1> QED BY <1>1, <1>2, <1>3

\* A step of the sign-off itself that publishes nothing.
LEMMA SigningStep ==
    ASSUME SignoffInvariant, UNCHANGED <<repository, planner, live, frozen, bundle, files>>, SigningOK'
    PROVE  SignoffInvariant'
BY RepositoryKept, EvidenceKept, NothingGrows, FilesKept DEF SignoffInvariant, planner, repository

\* A sign-off goes on as it was while others change nothing it relies on.
LEMMA SigningKept ==
    ASSUME SignoffInvariant, Grows, UNCHANGED <<frozen, files, signing>>
    PROVE  SigningOK'
<1>1. PlaceOK' BY DEF SignoffInvariant, SigningOK, PlaceOK, Unresolved, Grows, signing
<1>2. FreezeOK' BY DEF SignoffInvariant, SigningOK, FreezeOK, signing
<1>3. ReportOK'
    <2>3. spc' \in Built => report'.commit = commit' /\ (k' = 2 => report'.seen = frozen'.index)
        BY DEF SignoffInvariant, SigningOK, ReportOK, signing
    <2>4. spc' = "build" /\ k' = 2 => Founded(below, commit)'
        BY DEF SignoffInvariant, SigningOK, PlaceOK, ReportOK, Founded, Unresolved, Grows, signing, files
    <2>5. spc' \in Built /\ k' = 2 => Founded(report.up, commit)'
        BY DEF SignoffInvariant, SigningOK, PlaceOK, ReportOK, Founded, Unresolved, Grows, Built, signing,
               files
    <2> QED BY <2>3, <2>4, <2>5 DEF ReportOK
<1>4. BundleOK'
    <2>1. BundleOK /\ packets' = packets /\ UNCHANGED <<spc, k, commit, report>>
        BY DEF SignoffInvariant, SigningOK, signing, files
    <2>2. spc \in {"depend", "build", "publish"} /\ k \in 5 .. 6 =>
            /\ bundle'[k] = bundle[k] /\ bundle'[k] \in Bundles /\ bundle[k].index \in Nat
            /\ k = 6 => bundle'[6] = bundle'[5]
        BY <2>1, CheckedKept DEF BundleOK
    <2>3. spc = "depend" /\ k \in 5 .. 6 =>
            /\ bundle'[k].index <= live'.index
            /\ packets'[4] # NoPacket => packets'[4].seen.index <= bundle'[k].index
        BY <2>1, <2>2 DEF BundleOK, Grows
    <2>4. spc \in {"build", "publish"} /\ k \in 5 .. 6 =>
            packets'[4] # NoPacket /\ bundle'[k].index = packets'[4].seen.index
        BY <2>1, <2>2 DEF BundleOK, Made
    <2>5. spc = "publish" /\ k = 4 => report.seen.index \in Nat /\ report.seen.index <= live'.index
        BY <2>1 DEF BundleOK, Grows
    <2>6. spc = "publish" /\ k \in 5 .. 6 => report.seen = bundle'[k]
        BY <2>1, <2>2 DEF BundleOK
    <2> QED BY <2>1, <2>2, <2>3, <2>4, <2>5, <2>6 DEF BundleOK, Made, Checked
<1>5. RoomOK' BY DEF SignoffInvariant, SigningOK, RoomOK, signing, files
<1> QED BY <1>1, <1>2, <1>3, <1>4, <1>5 DEF SigningOK

-----------------------------------------------------------------------------
(* The steps of a sign-off *)

USE DEF Building, Built

LEMMA BeginKeeps ==
    ASSUME SignoffInvariant, NEW m \in Milestones, Begin(m)
    PROVE  SignoffInvariant'
<1>1. /\ m \in 0 .. 8 /\ k' = m /\ spc' = Head(Run(m))
      /\ m \notin 4 .. 6 => commit' = head
      /\ m \in 4 .. 6 => packets[m] = NoPacket
      /\ UNCHANGED <<repository, planner, evidence, files, below, report>>
    BY SignoffAssumption DEF Begin
<1>2. /\ spc' = CASE m = 2 -> "freezing" [] m = 4 -> "resolve"
                 [] m \in 5 .. 8 -> "gate" [] m \in {0, 1, 3} -> "depend"
      /\ spc' \in PlacesOf(m)
    BY <1>1, FirstStep DEF PlacesOf
<1>5. /\ spc' \in {"freezing", "resolve", "gate", "depend"}
      /\ spc' = "depend" => m \in {0, 1, 3}
      /\ m \in 4 .. 6 => spc' \in {"resolve", "gate"}
    BY <1>1, <1>2
<1>3. head \in DOMAIN anc BY DEF SignoffInvariant, RepositoryOK
<1>4. SigningOK'
    <2>1. PlaceOK' BY <1>1, <1>2, <1>3, <1>5 DEF PlaceOK, Unresolved, repository
    <2>2. FreezeOK' /\ ReportOK' /\ BundleOK' /\ RoomOK'
        BY <1>1, <1>5 DEF FreezeOK, ReportOK, BundleOK, RoomOK, files
    <2> QED BY <2>1, <2>2 DEF SigningOK
<1> QED BY <1>1, <1>4, SigningStep DEF evidence

LEMMA FreezeLedgerKeeps ==
    ASSUME SignoffInvariant, FreezeLedger
    PROVE  SignoffInvariant'
<1>1. /\ spc = "freezing" /\ k \in 0 .. 8 /\ spc \in PlacesOf(k) /\ commit \in DOMAIN anc
      /\ UNCHANGED <<repository, planner, live, bundle, gates, files>>
    BY DEF FreezeLedger, SignoffInvariant, SigningOK, PlaceOK, Unresolved
<1>2. k = 2 /\ Onward = "frozen" BY <1>1, OnwardIs DEF PlacesOf
<1>3. CASE /\ frozen.ledger = Absent /\ frozen.index = Absent
           /\ frozen' = [frozen EXCEPT !.ledger = live.stages] /\ spc' = Onward
           /\ UNCHANGED <<k, commit, below, report>>
    <2>1. live.stages \in Nat /\ live.stages # Absent
        BY NoneFacts DEF SignoffInvariant, EvidenceOK
    <2>2. EvidenceOK' BY <1>1, <1>3, <2>1 DEF SignoffInvariant, EvidenceOK, planner
    <2>3. frozen'.ledger # Absent /\ frozen'.index = Absent
        BY <1>3, <2>1 DEF SignoffInvariant, EvidenceOK
    <2>4. PublishedOK'
        BY <1>1, <1>3 DEF SignoffInvariant, PublishedOK, files
    <2>5. PacketsOK' /\ NothingOverwritten'
        BY <1>1
          DEF SignoffInvariant, PacketsOK, NothingOverwritten, Checked, Made, Founded, repository, files
    <2>6. SigningOK'
        BY <1>1, <1>2, <1>3, <2>3
          DEF SigningOK, PlaceOK, FreezeOK, ReportOK, BundleOK, RoomOK, PlacesOf, repository, files
    <2> QED BY <1>1, <2>2, <2>4, <2>5, <2>6, RepositoryKept DEF SignoffInvariant
<1>4. CASE FrozenWhole /\ spc' = "depend" /\ UNCHANGED <<frozen, k, commit, below, report>>
    <2>1. SigningOK'
        BY <1>1, <1>2, <1>4
          DEF FrozenWhole, SigningOK, PlaceOK, FreezeOK, ReportOK, BundleOK, RoomOK, PlacesOf,
              repository, files
    <2> QED BY <1>1, <1>4, <2>1, SigningStep
<1>5. CASE EndSignoff /\ UNCHANGED frozen BY <1>1, <1>5, EndSignoffKeeps, SigningStep
<1> QED BY <1>3, <1>4, <1>5 DEF FreezeLedger

LEMMA FreezeIndexKeeps ==
    ASSUME SignoffInvariant, FreezeIndex
    PROVE  SignoffInvariant'
<1>1. /\ spc = "frozen" /\ k \in 0 .. 8 /\ spc \in PlacesOf(k) /\ commit \in DOMAIN anc
      /\ frozen' = [frozen EXCEPT !.index = frozen.ledger] /\ spc' = Onward
      /\ frozen.ledger # Absent /\ frozen.index = Absent
      /\ UNCHANGED <<repository, planner, live, bundle, gates, files, k, commit, below, report>>
    BY DEF FreezeIndex, SignoffInvariant, SigningOK, PlaceOK, FreezeOK, Unresolved
<1>2. k = 2 /\ spc' = "depend" BY <1>1, OnwardIs DEF PlacesOf
<1>3. EvidenceOK' /\ frozen'.index # Absent
    BY <1>1 DEF SignoffInvariant, EvidenceOK, planner
<1>4. PublishedOK' BY <1>1 DEF SignoffInvariant, PublishedOK, files
<1>5. PacketsOK' /\ NothingOverwritten'
    BY <1>1
      DEF SignoffInvariant, PacketsOK, NothingOverwritten, Checked, Made, Founded, repository, files
<1>6. SigningOK'
    BY <1>1, <1>2, <1>3
      DEF SigningOK, PlaceOK, FreezeOK, ReportOK, BundleOK, RoomOK, PlacesOf, repository, files
<1> QED BY <1>1, <1>3, <1>4, <1>5, <1>6, RepositoryKept DEF SignoffInvariant

LEMMA GateKeeps ==
    ASSUME SignoffInvariant, ReplaceGate \/ ImmutableGate
    PROVE  SignoffInvariant'
<1>1. /\ spc = "gate" /\ k \in 5 .. 8 /\ spc \in PlacesOf(k)
      /\ k \in 4 .. 6 \/ commit \in DOMAIN anc
      /\ k \in 4 .. 6 => packets[k] = NoPacket
      /\ UNCHANGED <<repository, planner, live, frozen, bundle, files>>
    BY DEF ReplaceGate, ImmutableGate, SignoffInvariant, SigningOK, PlaceOK, RoomOK, PlacesOf, Unresolved
<1>2. (spc' = Onward /\ UNCHANGED <<k, commit, below, report>>) \/ EndSignoff
    BY DEF ReplaceGate, ImmutableGate
<1>3. CASE spc' = Onward /\ UNCHANGED <<k, commit, below, report>>
    <2>1. spc' = IF k \in 5 .. 6 THEN "resolve" ELSE "depend" BY <1>1, <1>3, OnwardIs
    <2>2. PlaceOK' BY <1>1, <1>3, <2>1 DEF PlaceOK, PlacesOf, Unresolved, repository
    <2>3. FreezeOK' /\ ReportOK' /\ BundleOK' BY <1>1, <1>3, <2>1 DEF FreezeOK, ReportOK, BundleOK
    <2>4. RoomOK' BY <1>1, <1>3, <2>1 DEF RoomOK, files
    <2> QED BY <1>1, <2>2, <2>3, <2>4, SigningStep DEF SigningOK
<1> QED BY <1>1, <1>2, <1>3, EndSignoffKeeps, SigningStep

LEMMA ResolveKeeps ==
    ASSUME SignoffInvariant, Resolve
    PROVE  SignoffInvariant'
<1>1. /\ spc = "resolve" /\ k \in 4 .. 6 /\ spc \in PlacesOf(k) /\ head \in DOMAIN anc
      /\ packets[k] = NoPacket
      /\ UNCHANGED <<repository, planner, evidence, files>>
    BY DEF Resolve, SignoffInvariant, SigningOK, PlaceOK, RoomOK, PlacesOf, RepositoryOK
<1>2. CASE commit' = head /\ spc' = Onward /\ UNCHANGED <<k, below, report>>
    <2>1. spc' = IF k = 4 THEN "depend" ELSE "bundle" BY <1>1, <1>2, OnwardIs
    <2>2. PlaceOK' BY <1>1, <1>2, <2>1 DEF PlaceOK, PlacesOf, repository
    <2>3. FreezeOK' /\ ReportOK' /\ BundleOK' BY <1>1, <1>2, <2>1 DEF FreezeOK, ReportOK, BundleOK
    <2>4. RoomOK' BY <1>1, <1>2, <2>1 DEF RoomOK, files
    <2> QED BY <1>1, <2>2, <2>3, <2>4, SigningStep DEF SigningOK, evidence
<1>3. CASE EndSignoff BY <1>1, <1>3, EndSignoffKeeps, SigningStep DEF evidence
<1> QED BY <1>2, <1>3 DEF Resolve

\* What is there when the bundle is compared.
LEMMA CheckBundleKeeps ==
    ASSUME SignoffInvariant, CheckBundle
    PROVE  SignoffInvariant'
<1>1. /\ spc = "bundle" /\ k \in 5 .. 6 /\ spc \in PlacesOf(k) /\ commit \in DOMAIN anc
      /\ packets[k] = NoPacket
      /\ UNCHANGED <<repository, planner, evidence, files>>
    BY DEF CheckBundle, SignoffInvariant, SigningOK, PlaceOK, RoomOK, PlacesOf, Unresolved
<1>2. CASE BundleCurrent(k) /\ spc' = Onward /\ UNCHANGED <<k, commit, below, report>>
    <2>1. spc' = "depend" BY <1>1, <1>2, OnwardIs
    <2>2. bundle[k] = Current /\ (k = 6 => bundle[5] = Current)
        BY <1>1, <1>2 DEF BundleCurrent, M5BundleCurrent, M6BundleCurrent
    <2>3. Current \in Bundles /\ Current.index = live.index /\ live.index \in Nat
        BY DEF Current, Bundles, SignoffInvariant, RepositoryOK, EvidenceOK, Versions
    <2>4. packets[4] # NoPacket => packets[4].seen.index <= live.index
        BY DEF SignoffInvariant, PacketsOK
    <2>5. BundleOK'
        BY <1>1, <1>2, <2>1, <2>2, <2>3, <2>4 DEF BundleOK, Checked, evidence, files
    <2>6. PlaceOK' BY <1>1, <1>2, <2>1 DEF PlaceOK, PlacesOf, repository
    <2>7. FreezeOK' /\ ReportOK' BY <1>1, <1>2, <2>1 DEF FreezeOK, ReportOK
    <2>8. RoomOK' BY <1>1, <1>2, <2>1 DEF RoomOK, files
    <2> QED BY <1>1, <2>5, <2>6, <2>7, <2>8, SigningStep DEF SigningOK, evidence
<1>3. CASE EndSignoff BY <1>1, <1>3, EndSignoffKeeps, SigningStep DEF evidence
<1> QED BY <1>2, <1>3 DEF CheckBundle

\* Verifying the packet below pins the index of what M5 and M6 report.
LEMMA DependKeeps ==
    ASSUME SignoffInvariant, Depend
    PROVE  SignoffInvariant'
<1>1. /\ spc = "depend" /\ k \in 0 .. 8 /\ spc \in PlacesOf(k) /\ commit \in DOMAIN anc
      /\ UNCHANGED <<repository, planner, evidence, files>>
    BY DEF Depend, SignoffInvariant, SigningOK, PlaceOK, Unresolved
<1>2. CASE /\ k >= 2 => Dependency(k - 1, commit)
           /\ below' = (IF k >= 2 THEN packets[k - 1] ELSE NoPacket)
           /\ spc' = Onward /\ UNCHANGED <<k, commit, report>>
    <2>1. spc' = "build" BY <1>1, <1>2, OnwardIs
    <2>2. ASSUME k \in 5 .. 6 PROVE Checked(k) /\ Made(bundle[k])
        <3>1. Checked(k) /\ bundle[k].index <= live.index
            BY <1>1, <2>2 DEF SignoffInvariant, SigningOK, BundleOK
        <3>2. packets[4] # NoPacket /\ packets[4].seen = live
            <4>1. \E c : M4Dependency(c)
                <5>1. CASE k = 5 BY <1>2, <5>1 DEF Dependency
                <5>2. CASE k = 6 BY <1>2, <5>2 DEF Dependency, M5Dependency
                <5> QED BY <2>2, <5>1, <5>2
            <4> QED BY <4>1 DEF M4Dependency, Descends, M4Report, Report
        <3>3. live.index <= bundle[k].index
            BY <1>1, <2>2, <3>2 DEF SignoffInvariant, SigningOK, BundleOK
        <3>4. live.index \in Nat /\ bundle[k].index \in Nat
            BY <3>1 DEF SignoffInvariant, EvidenceOK, Checked, Bundles
        <3> QED BY <3>1, <3>2, <3>3, <3>4 DEF Made
    <2>3. ASSUME k = 2 PROVE Founded(below', commit)
        BY <1>2, <2>3 DEF Dependency, M1Dependency, Descends, Founded
    <2>4. PlaceOK' BY <1>1, <1>2, <2>1 DEF PlaceOK, PlacesOf, repository
    <2>5. FreezeOK' BY <1>1, <1>2, <2>1 DEF SignoffInvariant, SigningOK, FreezeOK, evidence
    <2>6. ReportOK' BY <1>1, <1>2, <2>1, <2>3 DEF ReportOK, Founded, repository, files
    <2>7. BundleOK' BY <1>1, <1>2, <2>1, <2>2 DEF BundleOK, Made, Checked, evidence, files
    <2>8. RoomOK' BY <1>1, <1>2, <2>1 DEF SignoffInvariant, SigningOK, RoomOK, files
    <2> QED BY <1>1, <2>4, <2>5, <2>6, <2>7, <2>8, SigningStep DEF SigningOK, evidence
<1>3. CASE EndSignoff BY <1>1, <1>3, EndSignoffKeeps, SigningStep DEF evidence
<1> QED BY <1>2, <1>3 DEF Depend

LEMMA BuildKeeps ==
    ASSUME SignoffInvariant, Build
    PROVE  SignoffInvariant'
<1>1. /\ spc = "build" /\ k \in 0 .. 8 /\ spc \in PlacesOf(k) /\ commit \in DOMAIN anc
      /\ UNCHANGED <<repository, planner, evidence, files>>
    BY DEF Build, SignoffInvariant, SigningOK, PlaceOK, Unresolved
<1>2. ASSUME report' = Rebuilt(k, commit, below, IF k >= 5 THEN gates[k] ELSE Absent),
             spc' = Onward, UNCHANGED <<k, commit, below>>
      PROVE  SignoffInvariant'
    <2>1. spc' = IF k \in 0 .. 3 THEN "recheck" ELSE "publish" BY <1>1, <1>2, OnwardIs
    <2>2. /\ report'.commit = commit
          /\ k = 2 => report'.seen = frozen.index /\ Founded(report'.up, commit)
          /\ k = 4 => report'.seen = live
          /\ k \in 5 .. 6 => report'.seen = bundle[k]
        BY <1>1, <1>2, RebuiltIs DEF SignoffInvariant, SigningOK, ReportOK
    <2>3. k \in 5 .. 6 => Checked(k) /\ Made(bundle[k])
        BY <1>1 DEF SignoffInvariant, SigningOK, BundleOK
    <2>8. live.index \in Nat /\ live.index <= live.index BY DEF SignoffInvariant, EvidenceOK
    <2>9. BundleOK'
        BY <1>1, <1>2, <2>1, <2>2, <2>3, <2>8 DEF BundleOK, Made, Checked, evidence, files
    <2>4. PlaceOK' BY <1>1, <1>2, <2>1 DEF PlaceOK, PlacesOf, repository
    <2>5. FreezeOK'
        BY <1>1, <1>2, <2>1 DEF SignoffInvariant, SigningOK, FreezeOK, evidence
    <2>6. ReportOK'
        BY <1>1, <1>2, <2>1, <2>2 DEF ReportOK, Founded, repository, evidence, files
    <2>7. RoomOK'
        BY <1>1, <1>2, <2>1 DEF SignoffInvariant, SigningOK, RoomOK, files
    <2> QED BY <1>1, <2>4, <2>5, <2>6, <2>7, <2>9, SigningStep DEF SigningOK, evidence
<1>3. CASE EndSignoff BY <1>1, <1>3, EndSignoffKeeps, SigningStep DEF evidence
<1> QED BY <1>2, <1>3 DEF Build

LEMMA RecheckKeeps ==
    ASSUME SignoffInvariant, Recheck
    PROVE  SignoffInvariant'
<1>1. /\ spc = "recheck" /\ k \in 0 .. 8 /\ spc \in PlacesOf(k) /\ commit \in DOMAIN anc
      /\ UNCHANGED <<repository, planner, evidence, files>>
    BY DEF Recheck, SignoffInvariant, SigningOK, PlaceOK, Unresolved
<1>2. CASE spc' = Onward /\ UNCHANGED <<k, commit, below, report>>
    <2>1. spc' = IF k \in 2 .. 3 THEN "archive" ELSE "publish" BY <1>1, <1>2, OnwardIs
    <2>2. k \in 0 .. 3 BY <1>1 DEF PlacesOf
    <2>3. PlaceOK' BY <1>1, <1>2, <2>1 DEF PlaceOK, PlacesOf, repository
    <2>4. FreezeOK' BY <1>1, <1>2, <2>1 DEF SignoffInvariant, SigningOK, FreezeOK, evidence
    <2>5. ReportOK' BY <1>1, <1>2, <2>1, <2>2
          DEF SignoffInvariant, SigningOK, ReportOK, Founded, repository, evidence, files
    <2>6. RoomOK' BY <1>1, <1>2, <2>1, <2>2 DEF SignoffInvariant, SigningOK, RoomOK, files
    <2>7. BundleOK' BY <1>1, <1>2, <2>1, <2>2 DEF BundleOK
    <2> QED BY <1>1, <2>3, <2>4, <2>5, <2>6, <2>7, SigningStep DEF SigningOK, evidence
<1>3. CASE EndSignoff BY <1>1, <1>3, EndSignoffKeeps, SigningStep DEF evidence
<1> QED BY <1>2, <1>3 DEF Recheck

LEMMA ArchiveKeeps ==
    ASSUME SignoffInvariant, Archive
    PROVE  SignoffInvariant'
<1>1. /\ spc = "archive" /\ k \in 0 .. 8 /\ spc \in PlacesOf(k) /\ commit \in DOMAIN anc /\ spc' = Onward
      /\ archive' = IF packets[k] = NoPacket THEN archive ELSE archive \cup {<<k, packets[k]>>}
      /\ UNCHANGED <<repository, planner, evidence, packets, published, k, commit, below, report>>
    BY DEF Archive, SignoffInvariant, SigningOK, PlaceOK, Unresolved
<1>2. spc' = "publish" /\ k \in 2 .. 3 BY <1>1, OnwardIs DEF PlacesOf
<1>3. RepositoryOK' /\ EvidenceOK'
    BY <1>1, RepositoryKept, EvidenceKept DEF SignoffInvariant, evidence, planner
<1>4. PublishedOK' BY <1>1 DEF SignoffInvariant, PublishedOK, evidence
<1>5. PacketsOK' BY <1>1 DEF SignoffInvariant, PacketsOK, Checked, Made, Founded, repository, evidence
<1>6. NothingOverwritten' BY <1>1 DEF SignoffInvariant, NothingOverwritten
<1>7. SigningOK'
    <2>1. PlaceOK' BY <1>1, <1>2 DEF PlaceOK, PlacesOf, repository
    <2>2. FreezeOK' BY <1>1, <1>2 DEF SignoffInvariant, SigningOK, FreezeOK, evidence
    <2>3. ReportOK'
        BY <1>1, <1>2 DEF SignoffInvariant, SigningOK, ReportOK, Founded, repository, evidence
    <2>4. RoomOK' BY <1>1, <1>2 DEF RoomOK
    <2>5. BundleOK' BY <1>1, <1>2 DEF BundleOK
    <2> QED BY <2>1, <2>2, <2>3, <2>4, <2>5 DEF SigningOK
<1> QED BY <1>3, <1>4, <1>5, <1>6, <1>7 DEF SignoffInvariant

\* What the report replaces is archived, or nothing, or the same; and M4, on
\* which M5 and M6 rely, is signed once.
LEMMA PublishKeeps ==
    ASSUME SignoffInvariant, Publish
    PROVE  SignoffInvariant'
<1>1. /\ spc = "publish" /\ k \in 0 .. 8 /\ spc \in PlacesOf(k) /\ commit \in DOMAIN anc
      /\ report.commit = commit /\ (k = 2 => report.seen = frozen.index /\ frozen.index # Absent)
      /\ k = 2 => Founded(report.up, commit)
      /\ k = 4 => report.seen.index \in Nat /\ report.seen.index <= live.index
      /\ k \in 5 .. 6 => report.seen = bundle[k] /\ Checked(k) /\ Made(bundle[k])
      /\ k \in 4 .. 6 => packets[k] = NoPacket
      /\ k \in 2 .. 3 => packets[k] = NoPacket \/ <<k, packets[k]>> \in archive
      /\ EndSignoff /\ UNCHANGED <<repository, planner, evidence>>
    BY DEF Publish, SignoffInvariant, SigningOK, PlaceOK, FreezeOK, ReportOK, BundleOK, RoomOK, Unresolved
<1>2. RepositoryOK' /\ EvidenceOK' /\ SigningOK'
    BY <1>1, RepositoryKept, EvidenceKept, EndSignoffKeeps DEF SignoffInvariant, evidence, planner
<1>3. CASE UNCHANGED files
    BY <1>1, <1>2, <1>3, NothingGrows, FilesKept DEF SignoffInvariant, evidence, repository
<1>4. CASE /\ k \in {0, 1, 7, 8} => packets[k] \in {NoPacket, report}
           /\ packets' = [packets EXCEPT ![k] = report]
           /\ published' = published \cup {<<k, report>>}
           /\ archive' = archive
    <2>1. report # NoPacket
        <3>1. commit # 0 BY <1>1 DEF SignoffInvariant, RepositoryOK
        <3> QED BY <1>1, <3>1, CommitsAreSomething
    <2>2. /\ packets = [m \in 0 .. 8 |-> packets[m]]
          /\ packets' = [m \in 0 .. 8 |-> packets'[m]]
          /\ packets'[k] = report /\ \A m \in 0 .. 8 \ {k} : packets'[m] = packets[m]
        BY <1>1, <1>4 DEF SignoffInvariant, PacketsOK
    <2>3. PublishedOK'
        <3>1. ASSUME NEW e \in published'
              PROVE  /\ e = <<e[1], e[2]>> /\ e[1] \in 0 .. 8 /\ e[2] # NoPacket
                     /\ e[1] = 2 => frozen'.index # Absent /\ e[2].seen = frozen'.index
            <4>1. CASE e \in published
                BY <1>1, <4>1 DEF SignoffInvariant, PublishedOK, evidence
            <4>2. CASE e = <<k, report>> BY <1>1, <2>1, <4>2 DEF evidence
            <4> QED BY <1>4, <4>1, <4>2
        <3> QED BY <3>1 DEF PublishedOK
    <2>4. NothingOverwritten'
        <3>1. ASSUME NEW e \in published PROVE packets'[e[1]] = e[2] \/ e \in archive
            <4>1. /\ packets[e[1]] = e[2] \/ e \in archive
                  /\ e = <<e[1], e[2]>> /\ e[1] \in 0 .. 8 /\ e[2] # NoPacket
                BY DEF SignoffInvariant, NothingOverwritten, PublishedOK
            <4>2. CASE e[1] # k BY <2>2, <4>1, <4>2
            <4>3. CASE e[1] = k /\ packets[k] = e[2] BY <1>1, <1>4, <2>2, <4>1, <4>3
            <4> QED BY <4>1, <4>2, <4>3
        <3>2. packets'[k] = report BY <2>2
        <3> QED BY <1>4, <3>1, <3>2 DEF NothingOverwritten
    <2>5. PacketsOK'
        <3>1. ASSUME NEW m \in 5 .. 6, packets'[m] # NoPacket
              PROVE  packets'[m].seen = bundle[m] /\ Checked(m) /\ Made(bundle[m])
            <4>1. CASE m = k BY <1>1, <2>2, <4>1
            <4>2. CASE m # k BY <2>2, <3>1, <4>2 DEF SignoffInvariant, PacketsOK
            <4> QED BY <4>1, <4>2
        <3>2. /\ packets[4] # NoPacket => packets'[4] = packets[4]
              /\ packets[1] # NoPacket => packets'[1] = packets[1]
            BY <1>1, <1>4, <2>2
        <3>3. ASSUME packets'[2] # NoPacket
              PROVE  /\ packets'[2].commit \in DOMAIN anc /\ packets[1] # NoPacket
                     /\ packets'[2].up = packets[1] /\ packets[1].commit \in anc[packets'[2].commit]
            <4>1. CASE k = 2 BY <1>1, <2>2, <4>1 DEF Founded
            <4>2. CASE k # 2 BY <2>2, <3>3, <4>2 DEF SignoffInvariant, PacketsOK, Founded
            <4> QED BY <4>1, <4>2
        <3>4. packets'[4] # NoPacket =>
                packets'[4].seen.index \in Nat /\ packets'[4].seen.index <= live.index
            <4>1. CASE k = 4 BY <1>1, <2>2, <4>1
            <4>2. CASE k # 4 BY <2>2, <4>2 DEF SignoffInvariant, PacketsOK
            <4> QED BY <4>1, <4>2
        <3>5. bundle' = bundle /\ live' = live /\ anc' = anc BY <1>1 DEF evidence, repository
        <3>6. \A m \in 5 .. 6 : packets'[m] # NoPacket =>
                /\ packets'[m].seen = bundle[m] /\ Checked(m)
                /\ packets'[4] # NoPacket /\ bundle[m].index = packets'[4].seen.index
            BY <3>1, <3>2 DEF Made
        <3> QED BY <2>2, <3>2, <3>3, <3>4, <3>5, <3>6 DEF PacketsOK, Checked, Made, Founded
    <2> QED BY <1>2, <2>3, <2>4, <2>5 DEF SignoffInvariant
<1> QED BY <1>3, <1>4 DEF Publish, files

LEMMA SignerDiesKeeps ==
    ASSUME SignoffInvariant, SignerDies
    PROVE  SignoffInvariant'
BY EndSignoffKeeps, SigningStep DEF SignerDies, evidence

-----------------------------------------------------------------------------
(* Meanwhile *)

\* The commit that is made is new, and old ones keep their ancestors.
LEMMA CommitIs ==
    ASSUME RepositoryOK, Commit
    PROVE  \E c : /\ c \notin DOMAIN anc /\ DOMAIN anc' = DOMAIN anc \cup {c} /\ DOMAIN impl' = DOMAIN anc'
                  /\ \A d \in DOMAIN anc : anc'[d] = anc[d] /\ impl'[d] = impl[d]
                  /\ anc'[c] = anc[head] \cup {c} /\ impl'[c] = work /\ head' = c
                  /\ \E n \in Nat \ {0} : DOMAIN anc' = 1 .. n
<1>1. PICK n \in Nat \ {0} : DOMAIN anc = 1 .. n BY DEF RepositoryOK
<1>2. Cardinality(DOMAIN anc) = n BY <1>1, FS_Interval
<1> DEFINE c == n + 1
<1>3. /\ anc' = [d \in 1 .. c |-> IF d = c THEN anc[head] \cup {c} ELSE anc[d]]
      /\ impl' = [d \in 1 .. c |-> IF d = c THEN work ELSE impl[d]]
      /\ head' = c
    BY <1>2 DEF Commit
<1>4. c \notin DOMAIN anc /\ 1 .. c = DOMAIN anc \cup {c} /\ c \in Nat \ {0} BY <1>1
<1> HIDE DEF c
<1> QED BY <1>3, <1>4

LEMMA CommitKeepsRepository ==
    ASSUME RepositoryOK, Commit
    PROVE  RepositoryOK'
<1>1. PICK c : /\ c \notin DOMAIN anc /\ DOMAIN anc' = DOMAIN anc \cup {c}
               /\ \A d \in DOMAIN anc : anc'[d] = anc[d] /\ impl'[d] = impl[d]
               /\ anc'[c] = anc[head] \cup {c} /\ impl'[c] = work /\ head' = c
               /\ \E n \in Nat \ {0} : DOMAIN anc' = 1 .. n
    BY CommitIs
<1>2. work' = work BY DEF Commit
<1>3. /\ head \in DOMAIN anc /\ work \in Versions
      /\ \A d \in DOMAIN anc : impl[d] \in Versions /\ d \in anc[d] /\ anc[d] \subseteq DOMAIN anc
      /\ \A d \in DOMAIN anc : \A e \in anc[d] : anc[e] \subseteq anc[d]
    BY DEF RepositoryOK
<1>4. ASSUME NEW d \in DOMAIN anc'
      PROVE  impl'[d] \in Versions /\ d \in anc'[d] /\ anc'[d] \subseteq DOMAIN anc'
    BY <1>1, <1>3
<1>5. ASSUME NEW d \in DOMAIN anc', NEW e \in anc'[d] PROVE anc'[e] \subseteq anc'[d]
    <2>1. CASE d \in DOMAIN anc BY <1>1, <1>3, <1>5, <2>1
    <2>2. CASE d = c /\ e = c BY <2>2
    <2>3. CASE d = c /\ e # c
        <3>1. e \in anc[head] /\ e \in DOMAIN anc BY <1>1, <1>3, <1>5, <2>3
        <3>2. anc'[e] = anc[e] /\ anc[e] \subseteq anc[head] BY <1>1, <1>3, <3>1
        <3> QED BY <1>1, <2>3, <3>2
    <2> QED BY <1>1, <2>1, <2>2, <2>3
<1> QED BY <1>1, <1>2, <1>3, <1>4, <1>5 DEF RepositoryOK

LEMMA CommitKeeps ==
    ASSUME SignoffInvariant, Commit
    PROVE  SignoffInvariant'
<1>1. UNCHANGED <<planner, evidence, files, signing>> BY DEF Commit
<1>2. Grows
    <2>1. /\ DOMAIN anc \subseteq DOMAIN anc'
          /\ \A d \in DOMAIN anc : anc'[d] = anc[d]
        BY CommitIs DEF SignoffInvariant
    <2> QED BY <1>1, <2>1 DEF Grows, SignoffInvariant, EvidenceOK, evidence
<1>3. RepositoryOK' /\ EvidenceOK'
    BY <1>1, CommitKeepsRepository, EvidenceKept DEF SignoffInvariant, evidence, planner
<1>4. PublishedOK' /\ PacketsOK' /\ NothingOverwritten' BY <1>1, <1>2, FilesKept DEF evidence
<1>5. SigningOK' BY <1>1, <1>2, SigningKept DEF evidence
<1> QED BY <1>3, <1>4, <1>5 DEF SignoffInvariant

\* Another tree.
LEMMA TreeKeeps ==
    ASSUME SignoffInvariant, Checkout \/ Edit
    PROVE  SignoffInvariant'
<1>1. UNCHANGED <<anc, impl, planner, evidence, files, signing>> BY DEF Checkout, Edit
<1>2. head' \in DOMAIN anc /\ work' \in Versions
    <2>1. CASE Checkout BY <2>1 DEF SignoffInvariant, RepositoryOK, Checkout
    <2>2. CASE Edit
        <3>1. work \in Versions /\ head' = head /\ head \in DOMAIN anc
            BY <2>2 DEF SignoffInvariant, RepositoryOK, Edit
        <3>2. PICK f \in DOMAIN work, v \in 1 .. 2 : work' = [work EXCEPT ![f] = v]
            BY <2>2 DEF Edit
        <3> QED BY <3>1, <3>2 DEF Versions
    <2> QED BY <2>1, <2>2
<1>3. RepositoryOK' BY <1>1, <1>2 DEF SignoffInvariant, RepositoryOK
<1>4. EvidenceOK' BY <1>1, EvidenceKept DEF SignoffInvariant, evidence, planner
<1>5. Grows BY <1>1, NothingGrows DEF evidence
<1>6. PublishedOK' /\ PacketsOK' /\ NothingOverwritten' BY <1>1, <1>5, FilesKept DEF evidence
<1>7. SigningOK' BY <1>1, <1>5, SigningKept DEF evidence
<1> QED BY <1>3, <1>4, <1>6, <1>7 DEF SignoffInvariant

\* Another index, search or planner run: a bundle that is there stays.
LEMMA RunStep ==
    ASSUME SignoffInvariant, UNCHANGED <<repository, frozen, files, signing>>, EvidenceOK',
           \A m \in 5 .. 6 : bundle[m] # Absent => bundle'[m] = bundle[m],
           live.index <= live'.index
    PROVE  SignoffInvariant'
<1>1. Grows BY DEF Grows, SignoffInvariant, EvidenceOK, repository
<1>2. SigningOK' BY <1>1, SigningKept
<1> QED BY <1>1, <1>2, RepositoryKept, FilesKept DEF SignoffInvariant

LEMMA RunsKeep ==
    ASSUME SignoffInvariant,
           Analyze \/ RunSearch \/ BeginPlanning \/ MakeFolder \/ WritePlans \/ PlanningEnds
    PROVE  SignoffInvariant'
<1>1. UNCHANGED <<repository, frozen, files, signing>>
    BY DEF Analyze, RunSearch, BeginPlanning, MakeFolder, WritePlans, PlanningEnds, evidence
<1>2. Current \in Bundles BY DEF Current, Bundles, Versions, SignoffInvariant, RepositoryOK, EvidenceOK
<1>3. EvidenceOK' /\ live.index <= live'.index /\ \A m \in 5 .. 6 : bundle[m] # Absent => bundle'[m] = bundle[m]
    <2> USE DEF SignoffInvariant, EvidenceOK
    <2>1. CASE Analyze
        <3>1. /\ bundle' = bundle /\ planning' = planning /\ frozen' = frozen
              /\ \E s \in {live.stages, live.stages + 1}, v \in {live.evidence, work.evidence} :
                    live' = [index |-> live.index + 1, stages |-> s, evidence |-> v]
            BY <2>1 DEF Analyze, planner
        <3>2. work.evidence \in 1 .. 2 BY DEF RepositoryOK, Versions
        <3> QED BY <3>1, <3>2
    <2>2. CASE RunSearch
        <3>1. /\ bundle[5] = Absent /\ bundle' = [bundle EXCEPT ![5] = Current]
              /\ planning' = planning /\ frozen' = frozen /\ live' = live
            BY <2>2 DEF RunSearch, planner
        <3> QED BY <1>2, <3>1
    <2>3. CASE BeginPlanning
        <3>1. /\ bundle[6] = Absent /\ planning' = [of |-> Current, at |-> "propose"]
              /\ bundle' = bundle /\ frozen' = frozen /\ live' = live
            BY <2>3 DEF BeginPlanning, evidence
        <3> QED BY <1>2, <3>1
    <2>4. CASE MakeFolder
        <3>1. /\ planning # Absent /\ planning' = [planning EXCEPT !.at = "write"]
              /\ bundle' = bundle /\ frozen' = frozen /\ live' = live
            BY <2>4 DEF MakeFolder, evidence
        <3>2. planning' \in [of : Bundles, at : {"propose", "write"}] BY <3>1
        <3> QED BY <3>1, <3>2
    <2>5. CASE WritePlans
        <3>1. /\ bundle[6] = Absent /\ planning.of \in Bundles /\ planning' = Absent
              /\ bundle' = [bundle EXCEPT ![6] = planning.of] /\ frozen' = frozen /\ live' = live
            BY <2>5 DEF WritePlans
        <3> QED BY <3>1
    <2>6. CASE PlanningEnds
        <3>1. planning' = Absent /\ bundle' = bundle /\ frozen' = frozen /\ live' = live
            BY <2>6 DEF PlanningEnds, evidence
        <3> QED BY <3>1
    <2> QED BY <2>1, <2>2, <2>3, <2>4, <2>5, <2>6
<1> QED BY <1>1, <1>3, RunStep

LEMMA SignoffStepKeeps ==
    ASSUME SignoffInvariant, [SignoffNext]_signoffVars
    PROVE  SignoffInvariant'
<1>1. CASE UNCHANGED signoffVars
    <2>1. UNCHANGED <<repository, planner, live, frozen, bundle, files, signing>>
        BY <1>1 DEF signoffVars, evidence
    <2>2. SigningOK' BY <2>1, NothingGrows, SigningKept DEF repository
    <2> QED BY <2>1, <2>2, SigningStep
<1>2. CASE SignoffNext
    BY <1>2, BeginKeeps, FreezeLedgerKeeps, FreezeIndexKeeps, GateKeeps, ResolveKeeps,
       CheckBundleKeeps, DependKeeps, BuildKeeps, RecheckKeeps, ArchiveKeeps, PublishKeeps, SignerDiesKeeps, CommitKeeps, TreeKeeps, RunsKeep
       DEF SignoffNext
<1> QED BY <1>1, <1>2

\* The invariant holds throughout.
THEOREM SignoffInvariantHolds == SignoffSpec => []SignoffInvariant
<1>1. SignoffInit => SignoffInvariant BY SignoffInitHolds
<1>2. SignoffInvariant /\ [SignoffNext]_signoffVars => SignoffInvariant' BY SignoffStepKeeps
<1> QED BY <1>1, <1>2, PTL DEF SignoffSpec

-----------------------------------------------------------------------------
(* What has been signed stays signed *)

\* No sign-off destroys a packet, whatever commands run, die and race with the
\* repository; and all packets of M2 attest the stage results frozen for the
\* first of them.
THEOREM PacketsStay == SignoffSpec => []PacketsPermanent
<1>1. SignoffInvariant => PacketsPermanent
    BY DEF SignoffInvariant, PublishedOK, PacketsPermanent, OneEvidence
<1> QED BY <1>1, SignoffInvariantHolds, PTL

-----------------------------------------------------------------------------
(* A packet that verifies *)

\* The chain below milestone m, up to the ends where evidence is compared.
Linked(m) == /\ packets[m].up = packets[m - 1]
             /\ packets[m - 1].commit \in anc[packets[m].commit]

LEMMA ThirdDependency ==
    ASSUME NEW c, M3Dependency(c)
    PROVE  /\ Linked(3) /\ Descends(2, packets[3].commit) /\ packets[3].seen = live
           /\ packets[2].seen = live.stages /\ Descends(3, c)
BY DEF M3Dependency, M2Dependency, M3Comparable, M3Report, M3Evidence, Report, Linked, Descends

LEMMA FourthDependency ==
    ASSUME NEW c, M4Dependency(c)
    PROVE  Linked(4) /\ packets[4].seen = live /\ Descends(4, c) /\ M3Dependency(packets[4].commit)
BY ThirdDependency DEF M4Dependency, M4Report, Report, Linked, Descends

LEMMA FifthDependency ==
    ASSUME NEW c, M5Dependency(c)
    PROVE  Linked(5) /\ Descends(5, c) /\ M4Dependency(packets[5].commit)
BY FourthDependency DEF M5Dependency, M5Report, Report, Linked, Descends

LEMMA SixthDependency ==
    ASSUME NEW c, M6Dependency(c)
    PROVE  Linked(6) /\ Descends(6, c) /\ M5Dependency(packets[6].commit)
BY FifthDependency DEF M6Dependency, M6Report, Report, Linked, Descends

LEMMA SeventhDependency ==
    ASSUME NEW c, M7Dependency(c)
    PROVE  Linked(7) /\ Descends(7, c) /\ M6Dependency(packets[7].commit)
BY SixthDependency DEF M7Dependency, M7Report, Report, Linked, Descends

\* What the chain up to m says.
Coherent(m) ==
    /\ \A d \in 2 .. m : Linked(d)
    /\ m >= 3 => packets[2].seen = packets[3].seen.stages
    /\ m >= 4 => packets[3].seen = packets[4].seen
    /\ m >= 5 => packets[5].seen.index = packets[4].seen.index
    /\ m >= 6 => packets[6].seen = packets[5].seen

\* What is signed later is linked, and agrees with M4, whenever it was signed.
LEMMA SignedFacts ==
    ASSUME SignoffInvariant
    PROVE  /\ packets[2] # NoPacket => Linked(2)
           /\ packets[5] # NoPacket => packets[5].seen.index = packets[4].seen.index
           /\ packets[5] # NoPacket /\ packets[6] # NoPacket => packets[6].seen = packets[5].seen
BY DEF SignoffInvariant, PacketsOK, Founded, Made, Checked, Linked

LEMMA CoherentBelow ==
    ASSUME SignoffInvariant, NEW c
    PROVE  /\ M2Dependency(c) => Coherent(2)
           /\ M3Dependency(c) => Coherent(3)
           /\ M4Dependency(c) => Coherent(4)
           /\ M5Dependency(c) => Coherent(5)
           /\ M6Dependency(c) => Coherent(6)
           /\ M7Dependency(c) => Coherent(7)
<1>2. ASSUME M2Dependency(c) PROVE Coherent(2)
    <2>1. Linked(2) BY <1>2, SignedFacts DEF M2Dependency, Descends
    <2> QED BY <2>1 DEF Coherent
<1>3. ASSUME NEW a, M3Dependency(a) PROVE Coherent(3)
    <2>1. /\ Linked(3) /\ packets[2] # NoPacket /\ packets[3].seen = live
          /\ packets[2].seen = live.stages
        BY <1>3, ThirdDependency DEF Descends
    <2>2. Linked(2) BY <2>1, SignedFacts
    <2> QED BY <2>1, <2>2 DEF Coherent
<1>4. ASSUME NEW a, M4Dependency(a) PROVE Coherent(4)
    <2>1. Linked(4) /\ packets[4].seen = live /\ M3Dependency(packets[4].commit)
        BY <1>4, FourthDependency
    <2>2. Coherent(3) /\ packets[3].seen = live BY <1>3, <2>1, ThirdDependency
    <2> QED BY <2>1, <2>2 DEF Coherent
<1>5. ASSUME NEW a, M5Dependency(a) PROVE Coherent(5)
    <2>1. Linked(5) /\ packets[5] # NoPacket /\ M4Dependency(packets[5].commit)
        BY <1>5, FifthDependency DEF Descends
    <2>2. Coherent(4) BY <1>4, <2>1
    <2>3. packets[5].seen.index = packets[4].seen.index BY <2>1, SignedFacts
    <2> QED BY <2>1, <2>2, <2>3 DEF Coherent
<1>6. ASSUME NEW a, M6Dependency(a) PROVE Coherent(6)
    <2>1. Linked(6) /\ packets[6] # NoPacket /\ M5Dependency(packets[6].commit)
        BY <1>6, SixthDependency DEF Descends
    <2>2. Coherent(5) BY <1>5, <2>1
    <2>3. packets[6].seen = packets[5].seen
        BY <2>1, SignedFacts, FifthDependency DEF Descends
    <2> QED BY <2>1, <2>2, <2>3 DEF Coherent
<1>7. ASSUME NEW a, M7Dependency(a) PROVE Coherent(7)
    <2>1. Linked(7) /\ M6Dependency(packets[7].commit) BY <1>7, SeventhDependency
    <2>2. Coherent(6) BY <1>6, <2>1
    <2> QED BY <2>1, <2>2 DEF Coherent
<1> QED BY <1>2, <1>3, <1>4, <1>5, <1>6, <1>7

\* The top packet, rebuilt at the head, links to the one that was just checked.
LEMMA TopLinked ==
    ASSUME NEW m \in 2 .. 8, Descends(m - 1, head), packets[m].up = packets[m - 1], Rebuilds(m)
    PROVE  Linked(m)
BY DEF Descends, Rebuilds, Linked

LEMMA VerifiedCoherent ==
    ASSUME SignoffInvariant, NEW m \in 2 .. 8, Verifies(m)
    PROVE  Coherent(m)
<1>2. CASE m = 2
    <2>1. /\ packets[2] # NoPacket BY <1>2 DEF Verifies, M2Verifies
    <2>2. Linked(2) BY <2>1, SignedFacts
    <2> QED BY <1>2, <2>2 DEF Coherent
<1>3. CASE m = 3
    <2>1. /\ M2Dependency(head) /\ M3Comparable(packets[2]) /\ packets[3].up = packets[2]
          /\ Rebuilds(3)
        BY <1>3 DEF Verifies, M3Verifies
    <2>2. Linked(3) BY <2>1, TopLinked DEF M2Dependency
    <2>3. packets[3].seen = live
        BY <2>1 DEF Rebuilds, Rebuilt, M3Report, M3Evidence, Report
    <2>4. Coherent(2) BY <2>1, CoherentBelow
    <2> QED BY <1>3, <2>1, <2>2, <2>3, <2>4 DEF Coherent, M3Comparable
<1>4. CASE m = 4
    <2>1. CASE packets[4].commit # head
        BY <1>4, <2>1, CoherentBelow DEF Verifies, M4Verifies
    <2>2. CASE packets[4].commit = head
        <3>1. M3Dependency(head) /\ packets[4].up = packets[3] /\ Rebuilds(4)
            BY <1>4, <2>2 DEF Verifies, M4Verifies
        <3>2. Linked(4) BY <3>1, TopLinked DEF M3Dependency
        <3>3. packets[4].seen = live BY <3>1 DEF Rebuilds, Rebuilt, M4Report, Report
        <3>4. Coherent(3) /\ packets[3].seen = live BY <3>1, CoherentBelow, ThirdDependency
        <3> QED BY <1>4, <3>2, <3>3, <3>4 DEF Coherent
    <2> QED BY <2>1, <2>2
<1>5. CASE m = 5
    <2>1. CASE packets[5].commit # head
        BY <1>5, <2>1, CoherentBelow DEF Verifies, M5Verifies
    <2>2. CASE packets[5].commit = head
        <3>1. M4Dependency(head) /\ packets[5].up = packets[4] /\ Rebuilds(5) /\ packets[5] # NoPacket
            BY <1>5, <2>2 DEF Verifies, M5Verifies
        <3>2. Linked(5) BY <3>1, TopLinked DEF M4Dependency
        <3>3. Coherent(4) BY <3>1, CoherentBelow
        <3> QED BY <1>5, <3>1, <3>2, <3>3, SignedFacts DEF Coherent
    <2> QED BY <2>1, <2>2
<1>6. CASE m = 6
    <2>1. CASE packets[6].commit # head
        BY <1>6, <2>1, CoherentBelow DEF Verifies, M6Verifies
    <2>2. CASE packets[6].commit = head
        <3>1. M5Dependency(head) /\ packets[6].up = packets[5] /\ Rebuilds(6) /\ packets[6] # NoPacket
            BY <1>6, <2>2 DEF Verifies, M6Verifies
        <3>2. Linked(6) BY <3>1, TopLinked DEF M5Dependency
        <3>3. Coherent(5) /\ packets[5] # NoPacket
            BY <3>1, CoherentBelow, FifthDependency DEF Descends
        <3> QED BY <1>6, <3>1, <3>2, <3>3, SignedFacts DEF Coherent
    <2> QED BY <2>1, <2>2
<1>7. CASE m = 7
    <2>1. M6Dependency(head) /\ packets[7].up = packets[6] /\ Rebuilds(7)
        BY <1>7 DEF Verifies, M7Verifies
    <2>2. Linked(7) BY <2>1, TopLinked DEF M6Dependency
    <2>3. Coherent(6) BY <2>1, CoherentBelow
    <2> QED BY <1>7, <2>2, <2>3 DEF Coherent
<1>8. CASE m = 8
    <2>1. M7Dependency(head) /\ packets[8].up = packets[7] /\ Rebuilds(8)
        BY <1>8 DEF Verifies, M8Verifies
    <2>2. Linked(8) BY <2>1, TopLinked DEF M7Dependency
    <2>3. Coherent(7) BY <2>1, CoherentBelow
    <2> QED BY <1>8, <2>2, <2>3 DEF Coherent
<1> QED BY <1>2, <1>3, <1>4, <1>5, <1>6, <1>7, <1>8

\* M5 and M6 at their own commit: the tree is clean, and the bundles are of it.
LEMMA OwnSources ==
    ASSUME NEW m \in 5 .. 6, Verifies(m), packets[m].commit = head
    PROVE  packets[m].seen.sources = impl[head].search
<1>1. bundle[m].sources = work.search /\ Clean /\ Rebuilds(m)
    <2>1. CASE m = 5 BY <2>1 DEF Verifies, M5Verifies, M5BundleCurrent, Current
    <2>2. CASE m = 6 BY <2>2 DEF Verifies, M6Verifies, M6BundleCurrent, Current
    <2> QED BY <2>1, <2>2
<1>2. packets[m].seen = bundle[m] BY <1>1, RebuiltIs DEF Rebuilds
<1> QED BY <1>1, <1>2 DEF Clean

\* A packet that verifies tops one chain of packets, each signed at an ancestor
\* of the next and of one analysis of the run; the bundles of M5 and M6 are of
\* that index and of the same sources, at their own commit those of the commit.
\* verify_mK_signoff and the checks of the runs it rebuilds give this although
\* edits fall between the clean commit and the bundle (search/signoff.py:387, 389).
THEOREM VerifiedHolds == SignoffSpec => []VerifiedIsCoherent
<1>1. SignoffInvariant => VerifiedIsCoherent
    <2> SUFFICES ASSUME SignoffInvariant, NEW m \in 2 .. 8, Verifies(m)
                 PROVE  /\ Coherent(m)
                        /\ m \in {5, 6} /\ packets[m].commit = head =>
                              packets[m].seen.sources = impl[head].search
        BY DEF VerifiedIsCoherent, Coherent, Linked
    <2> QED BY VerifiedCoherent, OwnSources
<1> QED BY <1>1, SignoffInvariantHolds, PTL

-----------------------------------------------------------------------------
(* The repository moves on *)

\* Ancestors of old commits stay, and the head's are ancestors of the new head.
LEMMA AncestryGrows ==
    ASSUME SignoffInvariant, [SignoffNext]_signoffVars
    PROVE  \A c \in DOMAIN anc : c \in DOMAIN anc' /\ anc'[c] = anc[c]
<1>1. CASE Commit
    BY <1>1, CommitIs DEF SignoffInvariant
<1>2. CASE ~ Commit
    <2>1. UNCHANGED anc
        BY <1>2 DEF SignoffNext, signoffVars, repository, Begin, FreezeLedger, FreezeIndex, ReplaceGate, ImmutableGate,
            Resolve, CheckBundle, Depend, Build, Recheck, Archive, Publish, SignerDies, Checkout, Edit, Analyze, RunSearch,
            BeginPlanning, MakeFolder, WritePlans, PlanningEnds
    <2> QED BY <2>1
<1> QED BY <1>1, <1>2

LEMMA DependencyOutlives ==
    ASSUME SignoffInvariant, [SignoffNext]_signoffVars, UNCHANGED <<evidence, files>>, head \in anc'[head']
    PROVE  \A m \in 1 .. 6 : Dependency(m, head) /\ (m >= 3 => work'.evidence = work.evidence)
                                => Dependency(m, head)'
<1>1. \A c \in DOMAIN anc : c \in DOMAIN anc' /\ anc'[c] = anc[c] BY AncestryGrows
<1>2. RepositoryOK /\ RepositoryOK' BY SignoffStepKeeps DEF SignoffInvariant
<1>3. head \in DOMAIN anc /\ head' \in DOMAIN anc' BY <1>2 DEF RepositoryOK
<1>4. anc[head] \subseteq anc'[head']
    BY <1>1, <1>2, <1>3 DEF RepositoryOK
<1>5. UNCHANGED <<live, frozen, bundle, gates, packets>> BY DEF evidence, files
<1>6. \A c \in DOMAIN anc : \A d : d \in anc[c] => d \in DOMAIN anc BY <1>2 DEF RepositoryOK
\* A dependency stays one of the same commit, and of the new head.
<1> DEFINE Later(c, d) == c \in DOMAIN anc /\ anc[c] \subseteq anc'[d]
<1>7. \A c \in DOMAIN anc : Later(c, c) BY <1>1
<1>8. Later(head, head') BY <1>3, <1>4
<1>9. ASSUME NEW m, NEW c, NEW d, Later(c, d), Descends(m, c)
      PROVE  Descends(m, d)' /\ Later(packets[m].commit, packets[m].commit)
    BY <1>5, <1>6, <1>7, <1>9 DEF Descends
<1> HIDE DEF Later
<1>11. ASSUME NEW c, NEW d, Later(c, d), M1Dependency(c) PROVE M1Dependency(d)'
    BY <1>9, <1>11 DEF M1Dependency
<1>12. ASSUME NEW c, NEW d, Later(c, d), M2Dependency(c) PROVE M2Dependency(d)'
    BY <1>5, <1>9, <1>12 DEF M2Dependency, FrozenWhole, M2Evidence
<1>13. ASSUME NEW c, NEW d, Later(c, d), M3Dependency(c), work'.evidence = work.evidence
       PROVE  M3Dependency(d)'
    <2>0. PICK x : x = packets[3].commit OBVIOUS
    <2>1. /\ Descends(3, c) /\ M2Dependency(x) /\ M3Comparable(packets[2]) /\ EvidenceCurrent
          /\ packets[3] = M3Report(x, packets[2])
        BY <1>13, <2>0 DEF M3Dependency
    <2>2. Descends(3, d)' /\ Later(x, x) BY <1>9, <1>13, <2>0, <2>1
    <2>3. M2Dependency(x)' BY <1>5, <1>12, <2>1, <2>2
    <2> QED BY <1>5, <1>13, <2>0, <2>1, <2>2, <2>3
          DEF M3Dependency, M3Comparable, M3Report, M3Evidence, EvidenceCurrent
<1>14. ASSUME NEW c, NEW d, Later(c, d), M4Dependency(c), work'.evidence = work.evidence
       PROVE  M4Dependency(d)'
    <2>0. PICK x : x = packets[4].commit OBVIOUS
    <2>1. /\ Descends(4, c) /\ M3Dependency(x)
          /\ packets[4] = M4Report(x, packets[3])
        BY <1>14, <2>0 DEF M4Dependency
    <2>2. Descends(4, d)' /\ Later(x, x) BY <1>9, <1>14, <2>0, <2>1
    <2>3. M3Dependency(x)' BY <1>5, <1>13, <1>14, <2>1, <2>2
    <2> QED BY <1>5, <2>0, <2>1, <2>2, <2>3 DEF M4Dependency, M4Report
<1>15. ASSUME NEW c, NEW d, Later(c, d), M5Dependency(c), work'.evidence = work.evidence
       PROVE  M5Dependency(d)'
    <2>0. PICK x : x = packets[5].commit OBVIOUS
    <2>1. /\ Descends(5, c) /\ GateKept(5) /\ M4Dependency(x)
          /\ packets[5] = M5Report(x, packets[4], packets[5].gate)
        BY <1>15, <2>0 DEF M5Dependency
    <2>2. Descends(5, d)' /\ Later(x, x) BY <1>9, <1>15, <2>0, <2>1
    <2>3. M4Dependency(x)' BY <1>5, <1>14, <1>15, <2>1, <2>2
    <2> QED BY <1>5, <2>0, <2>1, <2>2, <2>3 DEF M5Dependency, M5Report, GateKept
<1>16. ASSUME NEW c, NEW d, Later(c, d), M6Dependency(c), work'.evidence = work.evidence
       PROVE  M6Dependency(d)'
    <2>0. PICK x : x = packets[6].commit OBVIOUS
    <2>1. /\ Descends(6, c) /\ GateKept(6) /\ M5Dependency(x)
          /\ packets[6] = M6Report(x, packets[5], packets[6].gate)
        BY <1>16, <2>0 DEF M6Dependency
    <2>2. Descends(6, d)' /\ Later(x, x) BY <1>9, <1>16, <2>0, <2>1
    <2>3. M5Dependency(x)' BY <1>5, <1>15, <1>16, <2>1, <2>2
    <2> QED BY <1>5, <2>0, <2>1, <2>2, <2>3 DEF M6Dependency, M6Report, GateKept
<1>20. TAKE m \in 1 .. 6
<1>21. CASE m = 1 BY <1>8, <1>11, <1>21 DEF Dependency
<1>22. CASE m = 2 BY <1>8, <1>12, <1>22 DEF Dependency
<1>23. CASE m = 3 BY <1>8, <1>13, <1>23 DEF Dependency
<1>24. CASE m = 4 BY <1>8, <1>14, <1>24 DEF Dependency
<1>25. CASE m = 5 BY <1>8, <1>15, <1>25 DEF Dependency
<1>26. CASE m = 6 BY <1>8, <1>16, <1>26 DEF Dependency
<1> QED BY <1>21, <1>22, <1>23, <1>24, <1>25, <1>26

\* A commit, a checkout of a descendant or an edit takes no dependency away from
\* the milestone at hand, except that of M3 to M6 when it changes the sources of the
\* evidence stages, which _reconstruct_evidence hashes in the working tree.
THEOREM DependenciesOutlive == SignoffSpec => DependencyOutlivesCommits
<1>1. SignoffInvariant /\ [SignoffNext]_signoffVars =>
        [UNCHANGED <<evidence, files>> /\ head \in anc'[head']
            => \A m \in 1 .. 6 : Dependency(m, head) /\ (m >= 3 => work'.evidence = work.evidence)
                                    => Dependency(m, head)']_signoffVars
    BY DependencyOutlives
<1> QED BY <1>1, SignoffInvariantHolds, PTL DEF SignoffSpec, DependencyOutlivesCommits

-----------------------------------------------------------------------------
(* Part 3, ArtifactStore: the inductive invariant of the blobs *)

Inside == {"write", "sync", "rename", "dirsync", "verify"}
Placed == Inside \cup {"lock", "return"}

\* Between Lock and Verify a process has the lock of its digest.
LockHeld == \A p \in Procs : th[p].pc \in Inside => lock[th[p].digest] = p

\* The bytes of a file that is about to get its name, or has it, are on disk.
BytesBeforeName ==
    /\ \A p \in Procs : th[p].pc = "rename" => temp[p] = "synced"
    /\ \A d \in Digests : blob[d] # "absent" => d \in bytesSynced

\* A process that wrote the blob finds it there, and its name on disk once it
\* is past the sync of the directory.
WriterKnows ==
    \A p \in Procs :
        /\ th[p].pc \in {"idle", "mkdir", "parentsync", "open", "lock", "write", "sync", "rename"}
              => ~ th[p].wrote
        /\ th[p].pc = "dirsync" => blob[th[p].digest] # "absent"
        /\ th[p].pc \in {"verify", "return"} /\ th[p].wrote =>
              blob[th[p].digest] # "absent" /\ th[p].digest \in nameSynced

\* What a writer returned has its name on disk, and so have the directories
\* above it.
NamesSynced == \A d \in vouched : d \in nameSynced /\ Above(d) \subseteq madeSynced

\* A directory whose parent is about to be synced is there.
MadeFirst ==
    /\ \A p \in Procs : th[p].pc = "parentsync" => Wanted(p) \in made
    /\ \A p \in Procs : th[p].pc \in {"mkdir", "parentsync"} => th[p].at < Length(th[p].digest)
    /\ \A p \in Procs : th[p].pc = "open" => th[p].digest = Nobody

StoreInvariant ==
    /\ MadeFirst /\ StoreTypeOK /\ NoTornBlob /\ PublishedSurvives /\ NeverReplaced
    /\ LockHeld /\ BytesBeforeName /\ WriterKnows /\ NamesSynced

-----------------------------------------------------------------------------
(* It is inductive *)

LEMMA StoreInitHolds == StoreInit => StoreInvariant
BY TreeAssumption DEF StoreInit, StoreInvariant, StoreTypeOK, NoTornBlob, PublishedSurvives, NeverReplaced, LockHeld,
       MadeFirst, BytesBeforeName, WriterKnows, NamesSynced, Idle, Inside, Directories

HIDE DEF Building, Built
USE DamageAssumption, TreeAssumption DEF StoreInvariant, StoreTypeOK, NoTornBlob, PublishedSurvives, NeverReplaced,
    MadeFirst, Wanted, LockHeld, BytesBeforeName, WriterKnows, NamesSynced, Inside, Placed, Idle, Go, disk,
    tree, Above, Upto, Down, Length, Directories

\* The records of th.
Calls == [pc : {"idle", "mkdir", "parentsync", "open", "lock", "write", "sync", "rename", "dirsync",
                "verify", "return"},
          digest : Digests \cup {Nobody}, at : 0 .. Depth + 1, wrote : BOOLEAN]

LEMMA EnsureKeeps ==
    ASSUME StoreInvariant, NEW p \in Procs, NEW digest \in Digests \cup {Nobody}, Ensure(p, digest),
           UNCHANGED <<tree, disk, temp, lock, returned, vouched, damage>>
    PROVE  StoreInvariant'
<1>1. PICK i \in 0 .. Length(digest) :
          th' = [th EXCEPT ![p] = [pc |-> Ensured(digest, i), digest |-> digest, at |-> i, wrote |-> FALSE]]
    BY DEF Ensure
<1> DEFINE t == [pc |-> Ensured(digest, i), digest |-> digest, at |-> i, wrote |-> FALSE]
<1>2. /\ Ensured(digest, i) \in {"mkdir", "open", "lock"}
      /\ Ensured(digest, i) = "mkdir" => i < Length(digest)
      /\ Ensured(digest, i) = "open" => digest = Nobody
      /\ Ensured(digest, i) = "lock" => digest \in Digests
    BY DEF Ensured
<1>3. i \in 0 .. Depth + 1
    OBVIOUS
<1>4. t \in Calls /\ t.pc \in {"mkdir", "open", "lock"} /\ ~ t.wrote /\ t.at = i /\ t.digest = digest
    BY <1>2, <1>3 DEF Calls
<1>5. th \in [Procs -> Calls]
    BY DEF Calls
<1>6. th' = [th EXCEPT ![p] = t]
    BY <1>1
<1>7. /\ \A q \in Procs \ {p} : th'[q] = th[q]
      /\ th'[p] = t /\ th' \in [Procs -> Calls]
    BY <1>4, <1>5, <1>6
<1>8. /\ t.pc = "mkdir" => t.at < Length(t.digest)
      /\ t.pc = "open" => t.digest = Nobody
      /\ t.pc = "lock" => t.digest \in Digests
    BY <1>2
<1> HIDE DEF t
<1>9. StoreTypeOK'
    BY <1>4, <1>7, <1>8 DEF Calls
<1>10. MadeFirst'
    <2>1. \A q \in Procs : th'[q].pc = "parentsync" => th'[q] = th[q]
        BY <1>4, <1>7
    <2>2. \A q \in Procs : th'[q].pc = "parentsync" => Down(th'[q].digest, th'[q].at + 1) \in made'
        BY <2>1
    <2>3. \A q \in Procs : th'[q].pc \in {"mkdir", "parentsync"} => th'[q].at < Length(th'[q].digest)
        BY <1>4, <1>7, <1>8
    <2>4. \A q \in Procs : th'[q].pc = "open" => th'[q].digest = Nobody
        BY <1>4, <1>7, <1>8
    <2> QED BY <2>2, <2>3, <2>4
<1>11. (NoTornBlob /\ PublishedSurvives /\ NamesSynced)'
    OBVIOUS
<1>12. (NeverReplaced /\ LockHeld /\ BytesBeforeName /\ WriterKnows)'
    BY <1>4, <1>7
<1> QED BY <1>9, <1>10, <1>11, <1>12

LEMMA PutBytesKeeps ==
    ASSUME StoreInvariant, NEW p \in Procs, NEW d \in Digests, PutBytes(p, d)
    PROVE  StoreInvariant'
BY EnsureKeeps DEF PutBytes

LEMMA OpenStoreKeeps ==
    ASSUME StoreInvariant, NEW p \in Procs, Open(p)
    PROVE  StoreInvariant'
BY EnsureKeeps DEF Open

LEMMA OpenedKeeps ==
    ASSUME StoreInvariant, NEW p \in Procs, Opened(p)
    PROVE  StoreInvariant'
BY DEF Opened, Idle

LEMMA MakeDirectoryKeeps ==
    ASSUME StoreInvariant, NEW p \in Procs, MakeDirectory(p)
    PROVE  StoreInvariant'
BY DEF MakeDirectory

LEMMA SyncParentKeeps ==
    ASSUME StoreInvariant, NEW p \in Procs, SyncParent(p)
    PROVE  StoreInvariant'
<1> DEFINE c == th[p]
           lvl == c.at + 1
           e == Ensured(c.digest, lvl)
           t == [c EXCEPT !.pc = e, !.at = lvl]
<1>1. th \in [Procs -> Calls]
    BY DEF Calls
<1>2. c \in Calls /\ c.pc = "parentsync" /\ ~ c.wrote /\ c.at < Length(c.digest) /\ Wanted(p) \in made
    BY <1>1 DEF SyncParent
<1>3. lvl \in 0 .. Depth + 1
    BY <1>2 DEF Calls
<1>4. /\ Ensured(c.digest, lvl) \in {"mkdir", "open", "lock"}
      /\ Ensured(c.digest, lvl) = "mkdir" => lvl < Length(c.digest)
      /\ Ensured(c.digest, lvl) = "open" => c.digest = Nobody
      /\ Ensured(c.digest, lvl) = "lock" => c.digest \in Digests
    BY <1>2 DEF Ensured, Calls
<1>5. th' = [th EXCEPT ![p] = t]
    BY DEF SyncParent
<1>6. /\ t \in Calls /\ t.pc \in {"mkdir", "open", "lock"} /\ ~ t.wrote
      /\ t.pc = "mkdir" => t.at < Length(t.digest)
      /\ t.pc = "open" => t.digest = Nobody
      /\ t.pc = "lock" => t.digest \in Digests
    <2> HIDE DEF c, lvl, e
    <2>1. c \in Calls /\ e \in {"mkdir", "open", "lock"} /\ lvl \in 0 .. Depth + 1
        BY <1>2, <1>3, <1>4 DEF e
    <2>2. t.pc = e /\ t.at = lvl /\ t.digest = c.digest /\ t.wrote = c.wrote
        BY <2>1 DEF Calls
    <2>3. t \in Calls
        BY <2>1 DEF Calls
    <2> QED BY <1>2, <1>4, <2>1, <2>2, <2>3 DEF e
<1> HIDE DEF t
<1>7. /\ \A q \in Procs \ {p} : th'[q] = th[q]
      /\ th'[p] = t /\ th' \in [Procs -> Calls]
    BY <1>1, <1>5, <1>6
<1>8. madeSynced' = madeSynced \cup {Wanted(p)} /\ UNCHANGED <<made, opened, disk, temp, lock, returned, vouched, damage>>
    BY DEF SyncParent
<1>9. StoreTypeOK'
    BY <1>2, <1>6, <1>7, <1>8 DEF Calls
<1>10. MadeFirst'
    BY <1>6, <1>7, <1>8
<1>11. (NoTornBlob /\ PublishedSurvives /\ NamesSynced)'
    BY <1>8
<1>12. (NeverReplaced /\ LockHeld /\ BytesBeforeName /\ WriterKnows)'
    BY <1>6, <1>7, <1>8
<1> QED BY <1>9, <1>10, <1>11, <1>12

LEMMA LockKeeps ==
    ASSUME StoreInvariant, NEW p \in Procs, Lock(p)
    PROVE  StoreInvariant'
BY DEF Lock

LEMMA WriteKeeps ==
    ASSUME StoreInvariant, NEW p \in Procs, Write(p)
    PROVE  StoreInvariant'
BY DEF Write

LEMMA SyncKeeps ==
    ASSUME StoreInvariant, NEW p \in Procs, Sync(p)
    PROVE  StoreInvariant'
BY DEF Sync

LEMMA ReplaceKeeps ==
    ASSUME StoreInvariant, NEW p \in Procs, Replace(p)
    PROVE  StoreInvariant'
<1>1. StoreTypeOK'
    <2> DEFINE C == [pc : {"idle", "mkdir", "parentsync", "open", "lock", "write", "sync", "rename", "dirsync",
                           "verify", "return"},
                     digest : Digests \cup {Nobody}, at : 0 .. Depth + 1, wrote : BOOLEAN]
               t == [th[p] EXCEPT !.pc = "dirsync", !.wrote = TRUE]
    <2>1. th' = [th EXCEPT ![p] = t]
        BY DEF Replace
    <2>2. th' \in [Procs -> C]
        <3>1. th \in [Procs -> C] OBVIOUS
        <3>2. th[p] \in C BY <3>1
        <3>3. t = [[th[p] EXCEPT !.pc = "dirsync"] EXCEPT !.wrote = TRUE] OBVIOUS
        <3>4. [th[p] EXCEPT !.pc = "dirsync"] \in C BY <3>2
        <3>5. t \in C BY <3>3, <3>4
        <3> HIDE DEF t, C
        <3> QED BY <2>1, <3>1, <3>5
    <2>3. \A q \in Procs : th'[q].pc \in Placed => th'[q].digest \in Digests
        BY <2>1 DEF Replace
    <2>4. th[p].digest \in Digests BY DEF Replace
    <2>5. /\ blob' \in [Digests -> {"absent", "whole", "torn", "corrupt"}]
          /\ bytesSynced' \subseteq Digests /\ nameSynced' \subseteq Digests
          /\ temp' \in [Procs -> {"none", "written", "synced"}]
        BY <2>4 DEF Replace
    <2>6. UNCHANGED <<tree, lock, returned, vouched, damage>> BY DEF Replace
    <2> QED BY <2>2, <2>3, <2>5, <2>6
<1>2. NoTornBlob'
    BY DEF Replace
<1>3. PublishedSurvives'
    BY DEF Replace
<1>4. NeverReplaced'
    BY DEF Replace
<1>5. LockHeld'
    BY DEF Replace
<1>6. BytesBeforeName'
    BY DEF Replace
<1>7. WriterKnows'
    BY DEF Replace
<1>8. NamesSynced'
    BY DEF Replace
<1>9. MadeFirst'
    BY DEF Replace
<1> QED BY <1>1, <1>2, <1>3, <1>4, <1>5, <1>6, <1>7, <1>8, <1>9

LEMMA SyncDirectoryKeeps ==
    ASSUME StoreInvariant, NEW p \in Procs, SyncDirectory(p)
    PROVE  StoreInvariant'
BY DEF SyncDirectory

LEMMA VerifyKeeps ==
    ASSUME StoreInvariant, NEW p \in Procs, Verify(p)
    PROVE  StoreInvariant'
<1>1. StoreTypeOK'
    <2>1. lock' \in [Digests -> Procs \cup {Nobody}]
        BY DEF Verify
    <2>2. CASE blob[th[p].digest] = "whole"
        <3>1. th' = [th EXCEPT ![p] = [th[p] EXCEPT !.pc = "return"]]
            BY <2>2 DEF Verify
        <3>2. th' \in [Procs -> [pc : {"idle", "mkdir", "parentsync", "open", "lock", "write", "sync", "rename", "dirsync",
                                      "verify", "return"},
                                digest : Digests \cup {Nobody}, at : 0 .. Depth + 1, wrote : BOOLEAN]]
            BY <3>1
        <3>3. \A q \in Procs : th'[q].pc \in Placed => th'[q].digest \in Digests
            BY <3>1 DEF Verify
        <3> QED BY <2>1, <3>2, <3>3 DEF Verify
    <2>3. CASE blob[th[p].digest] # "whole"
        <3>1. th' = [th EXCEPT ![p] = Idle]
            BY <2>3 DEF Verify
        <3> QED BY <2>1, <3>1 DEF Verify
    <2> QED BY <2>2, <2>3
<1>2. NoTornBlob'
    BY DEF Verify
<1>3. PublishedSurvives'
    BY DEF Verify
<1>4. NeverReplaced'
    BY DEF Verify
<1>5. LockHeld'
    BY DEF Verify
<1>6. BytesBeforeName'
    <2>1. UNCHANGED <<blob, bytesSynced, temp>> BY DEF Verify
    <2>2. \A q \in Procs : th'[q].pc = "rename" => th[q].pc = "rename" BY DEF Verify
    <2> QED BY <2>1, <2>2
<1>a. /\ \A q \in Procs \ {p} : th'[q] = th[q]
      /\ th'[p].pc \in {"idle", "return"} /\ th'[p].digest \in {Nobody, th[p].digest}
      /\ th'[p].pc = "idle" => ~ th'[p].wrote
      /\ th'[p].pc = "return" => th'[p].wrote = th[p].wrote /\ th'[p].digest = th[p].digest
    BY DEF Verify
<1>b. th[p].pc = "verify" /\ UNCHANGED <<tree, disk, temp, returned, vouched, damage>>
    BY DEF Verify
<1>7. WriterKnows'
    BY <1>a, <1>b
<1>8. NamesSynced'
    BY <1>b
<1>9. MadeFirst'
    <2>1. \A q \in Procs : th'[q].pc \in {"mkdir", "parentsync", "open"} => th'[q] = th[q]
        BY <1>a
    <2>2. \A q \in Procs : th'[q].pc = "parentsync" => Down(th'[q].digest, th'[q].at + 1) \in made'
        BY <1>b, <2>1
    <2>3. \A q \in Procs : th'[q].pc \in {"mkdir", "parentsync"} => th'[q].at < Length(th'[q].digest)
        BY <2>1
    <2>4. \A q \in Procs : th'[q].pc = "open" => th'[q].digest = Nobody
        BY <2>1
    <2> QED BY <2>2, <2>3, <2>4
<1> QED BY <1>1, <1>2, <1>3, <1>4, <1>5, <1>6, <1>7, <1>8, <1>9

LEMMA ReturnKeeps ==
    ASSUME StoreInvariant, NEW p \in Procs, Return(p)
    PROVE  StoreInvariant'
BY DEF Return

LEMMA FailKeeps ==
    ASSUME StoreInvariant, NEW p \in Procs, Fail(p)
    PROVE  StoreInvariant'
BY DEF Fail, Unlock

LEMMA ProcessDiesKeeps ==
    ASSUME StoreInvariant, NEW p \in Procs, ProcessDies(p)
    PROVE  StoreInvariant'
BY DEF ProcessDies, Unlock

LEMMA PowerLossKeeps ==
    ASSUME StoreInvariant, PowerLoss
    PROVE  StoreInvariant'
<1>1. /\ th' = [p \in Procs |-> Idle] /\ opened' = {} /\ lock' = [d \in Digests |-> Nobody]
      /\ temp' = [p \in Procs |-> "none"] /\ damage' = damage + 1
      /\ UNCHANGED <<returned, vouched>>
    BY DEF PowerLoss
<1>2. made' \subseteq made /\ madeSynced' = made' /\ \A dir \in madeSynced : Upto(dir) \subseteq madeSynced => dir \in made'
    BY DEF PowerLoss
<1>3. \A d \in vouched : Above(d) \subseteq made'
    <2> SUFFICES ASSUME NEW d \in vouched, NEW dir \in Above(d) PROVE dir \in made'
        OBVIOUS
    <2>1. Above(d) \subseteq madeSynced
        OBVIOUS
    <2>2. Upto(dir) \subseteq Above(d)
        OBVIOUS
    <2> QED BY <1>2, <2>1, <2>2
<1>4. /\ blob' \in [Digests -> {"absent", "whole", "torn", "corrupt"}]
      /\ \A d \in Digests : blob'[d] # "torn"
      /\ bytesSynced' = {d \in Digests : blob'[d] # "absent"} /\ nameSynced' = bytesSynced'
    <2>1. \A d \in Digests : blob[d] # "absent" => d \in bytesSynced
        OBVIOUS
    <2> QED BY <2>1 DEF PowerLoss
<1>5. \A d \in vouched : blob'[d] # "absent"
    BY <1>3 DEF PowerLoss
<1>6. StoreTypeOK' /\ MadeFirst'
    BY <1>1, <1>2, <1>4
<1>7. (NoTornBlob /\ PublishedSurvives /\ NamesSynced)'
    <2>1. \A d \in vouched : d \in nameSynced' /\ Above(d) \subseteq madeSynced'
        BY <1>2, <1>3, <1>4, <1>5
    <2> QED BY <1>1, <1>4, <1>5, <2>1
<1>8. (NeverReplaced /\ LockHeld /\ BytesBeforeName /\ WriterKnows)'
    BY <1>1, <1>4
<1> QED BY <1>6, <1>7, <1>8

LEMMA CorruptKeeps ==
    ASSUME StoreInvariant, NEW d \in Digests, Corrupt(d)
    PROVE  StoreInvariant'
BY DEF Corrupt

LEMMA StoreStutterKeeps ==
    ASSUME StoreInvariant, UNCHANGED storeVars
    PROVE  StoreInvariant'
BY DEF storeVars

LEMMA StoreInductive == StoreInvariant /\ [StoreNext]_storeVars => StoreInvariant'
BY PutBytesKeeps, OpenStoreKeeps, OpenedKeeps, MakeDirectoryKeeps, SyncParentKeeps, LockKeeps, WriteKeeps,
   SyncKeeps, ReplaceKeeps, SyncDirectoryKeeps, VerifyKeeps,
   ReturnKeeps, FailKeeps, ProcessDiesKeeps, PowerLossKeeps, CorruptKeeps, StoreStutterKeeps DEF StoreNext, PutStep

-----------------------------------------------------------------------------
(* Theorems *)

\* The store's invariant holds at every moment.
THEOREM StoreInvariantHolds == StoreSpec => []StoreInvariant
BY StoreInitHolds, StoreInductive, PTL DEF StoreSpec

\* Whatever dies and however often the power goes, what a reference stands
\* for is there, and is all there.
THEOREM Durable == StoreSpec => []BlobsDurable
<1>1. StoreInvariant => BlobsDurable
    BY DEF BlobsDurable
<1> QED BY <1>1, StoreInvariantHolds, PTL

\* put_bytes never renames over a blob that is there.
THEOREM WriteOnce == StoreSpec => []NeverReplaced
<1>1. StoreInvariant => NeverReplaced
    OBVIOUS
<1> QED BY <1>1, StoreInvariantHolds, PTL

=============================================================================
