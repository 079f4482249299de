------------------------------- MODULE Signoff -------------------------------
(***************************************************************************)
(* The sign-off packets of the milestones M0 to M8 (platform/signoff.py,   *)
(* signoff/m1.py, baseline/, evidence/, optimization/, search/ and         *)
(* recovery/signoff.py, planner_signoff.py, council_signoff.py).  A packet *)
(* names the commit it was signed at and, by hash, the packet below it and *)
(* the evidence it was built from; verifying it rebuilds the report and    *)
(* compares.  Signing runs while the repository moves on (commits on       *)
(* branches, edits), while the run is analysed again, and dies anywhere.   *)
(* A report is a record; a hash is the value it was taken of.  One         *)
(* sign-off runs at a time.                                                *)
(***************************************************************************)
EXTENDS Naturals, Sequences, FiniteSets

CONSTANTS MaxCommits,   \* commits in the repository
          MaxMoves,     \* edits and checkouts
          MaxTouches,   \* analyses of the run after the first
          MaxAttempts,  \* sign-offs begun
          Milestones,   \* the milestones the operator signs
          Signed,       \* how far the packets may be signed at the start
          Absent

\* The sources: those that search and planner runs hash, and those the evidence
\* and opportunity stages hash; no file is among both.
Versions == [search : 1 .. 2, evidence : 1 .. 2]

First == [search |-> 1, evidence |-> 1]

\* What a search or a planner run is of.
Bundles == [sources : 1 .. 2, index : Nat]

ASSUME SignoffAssumption ==
    /\ MaxCommits \in Nat \ {0} /\ MaxMoves \in Nat /\ MaxTouches \in Nat /\ MaxAttempts \in Nat
    /\ Milestones \subseteq 0 .. 8 /\ Signed \subseteq 0 .. 8
    /\ Absent \notin Nat /\ Absent \notin Bundles /\ Absent \notin Versions

VARIABLES
    anc,        \* commit -> its ancestors and itself
    impl,       \* commit -> version of the sources in it
    head,       \* the commit checked out
    work,       \* version of the sources in the working tree
    live,       \* the run index: how often written, the stage results it names, and the
                \* sources its evidence stages ran with (their tool_fingerprint)
    frozen,     \* the M2 snapshots of ledger and index, by the stage results they name
    bundle,     \* the M5 search and the M6 planner run: the sources and the index they are of
    planning,   \* the planner run under way: the sources and the index it began with
    folders,    \* planner runs whose directory exists
    gates,      \* gate outputs of M5 to M8
    packets,    \* the packet of each milestone
    archive,    \* packets M2 and M3 put aside
    published,  \* every packet ever published (history)
    moves, attempts,   \* so far
    spc, k, commit, below, report   \* the sign-off under way

repository == <<anc, impl, head, work>>
evidence == <<live, frozen, bundle, gates>>
files == <<packets, archive, published>>
planner == <<planning, folders>>
signing == <<spc, k, commit, below, report>>
signoffVars == <<repository, evidence, planner, files, moves, attempts, signing>>

-----------------------------------------------------------------------------
(* Reports: what each milestone binds *)

Report(c, up, seen, gate, sources) ==
    [commit |-> c, up |-> up, seen |-> seen, gate |-> gate, sources |-> sources]

\* Where there is no packet; no commit has the number 0.
NoPacket == Report(0, Absent, Absent, Absent, Absent)

\* M0 and M1 are built from the commit alone.
M0Report(c) == Report(c, Absent, Absent, Absent, Absent)
M1Report(c) == Report(c, Absent, Absent, Absent, Absent)

\* M2 reads the frozen run index and ledger prefix.
M2Evidence == frozen.index
M2Report(c, m1) == Report(c, m1, M2Evidence, Absent, Absent)

\* Faulty variant: the signed stages are not compared with the run's.
M3Unchecked(m2) == TRUE

\* M3 reads the live run, whose M2 stages must be the signed ones.
M3Comparable(m2) == m2.seen = live.stages

\* _reconstruct_evidence: the stages' fingerprints must be those of the sources
\* as they are in the working tree now, whatever commit the report is for.
EvidenceCurrent == live.evidence = work.evidence

M3Evidence == live
M3Report(c, m2) == Report(c, m2, M3Evidence, Absent, Absent)
M4Report(c, m3) == Report(c, m3, live, Absent, Absent)
M5Report(c, m4, gate) == Report(c, m4, bundle[5], gate, Absent)
M6Report(c, m5, gate) == Report(c, m5, bundle[6], gate, Absent)

\* M7 and M8 hash their sources as they are in the working tree.
M7Sources == work
M8Sources == work
M7Report(c, m6, gate) == Report(c, m6, Absent, gate, M7Sources)
M8Report(c, m7, gate) == Report(c, m7, Absent, gate, M8Sources)

-----------------------------------------------------------------------------
(* A packet as the dependency of a report at commit c *)

Clean == work = impl[head]

Descends(m, c) == packets[m] # NoPacket /\ packets[m].commit \in anc[c]

\* The gate's output is the one the packet names.
GateKept(m) == gates[m] = packets[m].gate

FrozenWhole == frozen.ledger # Absent /\ frozen.index # Absent

M1Dependency(c) == Descends(1, c)

M2Dependency(c) == Descends(2, c) /\ FrozenWhole /\ packets[2].seen = M2Evidence

\* Faulty variant: the packet below is verified for the commit at hand.
M3DependencyAnew(c) ==
    LET p == packets[3] IN
    /\ Descends(3, c) /\ M2Dependency(p.commit) /\ M3Comparable(packets[2])
    /\ EvidenceCurrent
    /\ p = M3Report(c, packets[2])

M3Dependency(c) ==
    LET p == packets[3] IN
    /\ Descends(3, c) /\ M2Dependency(p.commit) /\ M3Comparable(packets[2])
    /\ EvidenceCurrent
    /\ p = M3Report(p.commit, packets[2])

M4Dependency(c) ==
    LET p == packets[4] IN
    Descends(4, c) /\ M3Dependency(p.commit) /\ p = M4Report(p.commit, packets[3])

M5Dependency(c) ==
    LET p == packets[5] IN
    /\ Descends(5, c) /\ GateKept(5)
    /\ M4Dependency(p.commit) /\ p = M5Report(p.commit, packets[4], p.gate)

M6Dependency(c) ==
    LET p == packets[6] IN
    /\ Descends(6, c) /\ GateKept(6)
    /\ M5Dependency(p.commit) /\ p = M6Report(p.commit, packets[5], p.gate)

M7Dependency(c) ==
    LET p == packets[7] IN
    /\ Descends(7, c) /\ GateKept(7)
    /\ M6Dependency(p.commit) /\ p = M7Report(p.commit, packets[6], p.gate)

Dependency(m, c) ==
    CASE m = 1 -> M1Dependency(c) [] m = 2 -> M2Dependency(c) [] m = 3 -> M3Dependency(c)
      [] m = 4 -> M4Dependency(c) [] m = 5 -> M5Dependency(c) [] m = 6 -> M6Dependency(c)
      [] m = 7 -> M7Dependency(c)

\* The search and the planner run must be of these sources and this index.
Current == [sources |-> work.search, index |-> live.index]
M5BundleCurrent == bundle[5] = Current
M6BundleCurrent == M5BundleCurrent /\ bundle[6] = Current

BundleCurrent(m) == IF m = 5 THEN M5BundleCurrent ELSE M6BundleCurrent

Rebuilt(m, c, up, gate) ==
    CASE m = 0 -> M0Report(c) [] m = 1 -> M1Report(c)
      [] m = 2 -> M2Report(c, up) [] m = 3 -> M3Report(c, up) [] m = 4 -> M4Report(c, up)
      [] m = 5 -> M5Report(c, up, gate) [] m = 6 -> M6Report(c, up, gate)
      [] m = 7 -> M7Report(c, up, gate) [] m = 8 -> M8Report(c, up, gate)

\* The packets M1 to M8, signed one after the other at the first commit.
FirstChain ==
    LET p1 == M1Report(1)
        p2 == M2Report(1, p1)
        p3 == M3Report(1, p2)
        p4 == M4Report(1, p3)
        p5 == M5Report(1, p4, gates[5])
        p6 == M6Report(1, p5, gates[6])
        p7 == M7Report(1, p6, gates[7])
        p8 == M8Report(1, p7, gates[8])
    IN <<p1, p2, p3, p4, p5, p6, p7, p8>>

\* Nothing is signed, or the milestones up to n are, at the first commit
\* and from the first analysis of the run.
SignoffInit ==
    /\ anc = [c \in {1} |-> {1}] /\ impl = [c \in {1} |-> First] /\ head = 1 /\ work = First
    /\ live = [index |-> 0, stages |-> 0, evidence |-> First.evidence]
    /\ \E n \in Signed :
          /\ frozen = [f \in {"ledger", "index"} |-> IF n >= 2 THEN 0 ELSE Absent]
          /\ bundle = [m \in 5 .. 6 |-> IF n >= m THEN [sources |-> First.search, index |-> 0]
                                           ELSE Absent]
          /\ gates = [m \in 5 .. 8 |-> IF n >= m THEN First ELSE Absent]
          /\ packets = [m \in 0 .. 8 |-> IF m \in 1 .. n THEN FirstChain[m] ELSE NoPacket]
    /\ published = {<<m, packets[m]>> : m \in {d \in 0 .. 8 : packets[d] # NoPacket}}
    /\ planning = Absent /\ folders = IF bundle[6] = Absent THEN {} ELSE {bundle[6]}
    /\ archive = {} /\ moves = 0 /\ attempts = 0
    /\ spc = "idle" /\ k = 0 /\ commit = Absent /\ below = NoPacket /\ report = NoPacket

-----------------------------------------------------------------------------
(* verify_mK_signoff, at the present head, if nothing moves while it runs *)

Rebuilds(m) ==
    LET p == packets[m] IN p.commit = head /\ p = Rebuilt(m, head, p.up, p.gate)

M0Verifies == packets[0] # NoPacket /\ Clean /\ packets[0].commit = head
M1Verifies == packets[1] # NoPacket
M2Verifies ==
    /\ packets[2] # NoPacket /\ Clean /\ M1Dependency(head) /\ packets[2].up = packets[1]
    /\ Rebuilds(2)
M3Verifies ==
    /\ packets[3] # NoPacket /\ Clean /\ M2Dependency(head) /\ M3Comparable(packets[2])
    /\ EvidenceCurrent /\ packets[3].up = packets[2] /\ Rebuilds(3)
M4Verifies ==
    /\ packets[4] # NoPacket /\ Clean
    /\ IF packets[4].commit # head THEN M4Dependency(head)
       ELSE M3Dependency(head) /\ packets[4].up = packets[3] /\ Rebuilds(4)
M5Verifies ==
    /\ packets[5] # NoPacket /\ Clean /\ GateKept(5)
    /\ IF packets[5].commit # head THEN M5Dependency(head)
       ELSE M5BundleCurrent /\ M4Dependency(head) /\ packets[5].up = packets[4] /\ Rebuilds(5)
M6Verifies ==
    /\ packets[6] # NoPacket /\ Clean /\ GateKept(6)
    /\ IF packets[6].commit # head THEN M6Dependency(head)
       ELSE M6BundleCurrent /\ M5Dependency(head) /\ packets[6].up = packets[5] /\ Rebuilds(6)
M7Verifies ==
    /\ packets[7] # NoPacket /\ Clean /\ GateKept(7)
    /\ M6Dependency(head) /\ packets[7].up = packets[6] /\ Rebuilds(7)
M8Verifies ==
    /\ packets[8] # NoPacket /\ Clean /\ GateKept(8)
    /\ M7Dependency(head) /\ packets[8].up = packets[7] /\ Rebuilds(8)

Verifies(m) ==
    CASE m = 0 -> M0Verifies [] m = 1 -> M1Verifies [] m = 2 -> M2Verifies [] m = 3 -> M3Verifies
      [] m = 4 -> M4Verifies [] m = 5 -> M5Verifies [] m = 6 -> M6Verifies [] m = 7 -> M7Verifies
      [] m = 8 -> M8Verifies

-----------------------------------------------------------------------------
(* run_mK_signoff: the steps of each, in order *)

M0Run == <<"depend", "build", "recheck", "publish">>
M1Run == <<"depend", "build", "recheck", "publish">>
M2Run == <<"freezing", "frozen", "depend", "build", "recheck", "archive", "publish">>
M3Run == <<"depend", "build", "recheck", "archive", "publish">>
M4Run == <<"resolve", "depend", "build", "publish">>
M5Run == <<"gate", "resolve", "bundle", "depend", "build", "publish">>
M6Run == <<"gate", "resolve", "bundle", "depend", "build", "publish">>
M7Run == <<"gate", "depend", "build", "publish">>
M8Run == <<"gate", "depend", "build", "publish">>

Run(m) ==
    CASE m = 0 -> M0Run [] m = 1 -> M1Run [] m = 2 -> M2Run [] m = 3 -> M3Run [] m = 4 -> M4Run
      [] m = 5 -> M5Run [] m = 6 -> M6Run [] m = 7 -> M7Run [] m = 8 -> M8Run

\* The step after the present one.
Onward == LET i == CHOOSE j \in DOMAIN Run(k) : Run(k)[j] = spc IN Run(k)[i + 1]

EndSignoff == spc' = "idle" /\ k' = 0 /\ commit' = Absent /\ below' = NoPacket /\ report' = NoPacket

\* Start of a sign-off: M0 and M1 refuse an existing packet; M4 to M6
\* verify an existing one and change nothing.  M4 to M6 resolve the commit
\* after the gate, the others before it.
Begin(m) ==
    /\ spc = "idle" /\ attempts < MaxAttempts
    /\ m \in {0, 1, 4, 5, 6} => packets[m] = NoPacket
    /\ m \notin {4, 5, 6} => Clean
    /\ m \in {5, 6} => bundle[m] # Absent
    /\ m = 7 => bundle[5] # Absent
    /\ attempts' = attempts + 1
    /\ k' = m
    /\ commit' = IF m \in {4, 5, 6} THEN Absent ELSE head
    /\ spc' = Head(Run(m))
    /\ UNCHANGED <<repository, planner, evidence, files, moves, below, report>>

\* Faulty variant: every sign-off freezes the run anew.
FreezeLedgerAnew ==
    /\ spc = "freezing"
    /\ frozen' = [frozen EXCEPT !.ledger = live.stages] /\ spc' = Onward
    /\ UNCHANGED <<repository, planner, live, bundle, gates, files, moves, attempts,
                   k, commit, below, report>>

\* _freeze_m2_evidence: snapshots are kept if both are there, refused if
\* one is, and made in two renames if none is.
FreezeLedger ==
    /\ spc = "freezing"
    /\ \/ frozen.ledger = Absent /\ frozen.index = Absent
          /\ frozen' = [frozen EXCEPT !.ledger = live.stages] /\ spc' = Onward
          /\ UNCHANGED <<k, commit, below, report>>
       \/ FrozenWhole /\ spc' = "depend" /\ UNCHANGED <<frozen, k, commit, below, report>>
       \/ frozen.ledger # Absent /\ frozen.index = Absent /\ EndSignoff /\ UNCHANGED frozen
    /\ UNCHANGED <<repository, planner, live, bundle, gates, files, moves, attempts>>

FreezeIndex ==
    /\ spc = "frozen"
    /\ frozen' = [frozen EXCEPT !.index = frozen.ledger]
    /\ spc' = Onward
    /\ UNCHANGED <<repository, planner, live, bundle, gates, files, moves, attempts,
                   k, commit, below, report>>

\* The gates run the tests of the working tree.  M5 and M6 replace an
\* earlier output, M7 and M8 refuse a different one.
ReplaceGate ==
    /\ spc = "gate" /\ k \in {5, 6}
    /\ gates' = [gates EXCEPT ![k] = work]
    /\ spc' = Onward
    /\ UNCHANGED <<repository, planner, live, frozen, bundle, files, moves, attempts,
                   k, commit, below, report>>

ImmutableGate ==
    /\ spc = "gate" /\ k \in {7, 8}
    /\ IF gates[k] \in {Absent, work}
       THEN gates' = [gates EXCEPT ![k] = work] /\ spc' = Onward
            /\ UNCHANGED <<k, commit, below, report>>
       ELSE EndSignoff /\ UNCHANGED gates
    /\ UNCHANGED <<repository, planner, live, frozen, bundle, files, moves, attempts>>

\* _clean_checkpoint of M4 to M6: the commit that will be signed.
Resolve ==
    /\ spc = "resolve"
    /\ IF Clean THEN commit' = head /\ spc' = Onward /\ UNCHANGED <<k, below, report>>
       ELSE EndSignoff
    /\ UNCHANGED <<repository, planner, evidence, files, moves, attempts>>

\* Only then is the bundle compared with the working tree and the run.
CheckBundle ==
    /\ spc = "bundle"
    /\ IF BundleCurrent(k) THEN spc' = Onward /\ UNCHANGED <<k, commit, below, report>>
       ELSE EndSignoff
    /\ UNCHANGED <<repository, planner, evidence, files, moves, attempts>>

\* The packet below is verified, and kept by its hash.
Depend ==
    /\ spc = "depend"
    /\ IF k >= 2 => Dependency(k - 1, commit)
       THEN /\ below' = (IF k >= 2 THEN packets[k - 1] ELSE NoPacket)
            /\ spc' = Onward /\ UNCHANGED <<k, commit, report>>
       ELSE EndSignoff
    /\ UNCHANGED <<repository, planner, evidence, files, moves, attempts>>

Build ==
    /\ spc = "build"
    /\ IF k = 3 => M3Comparable(below) /\ EvidenceCurrent
       THEN /\ report' = Rebuilt(k, commit, below, IF k >= 5 THEN gates[k] ELSE Absent)
            /\ spc' = Onward
            /\ UNCHANGED <<k, commit, below>>
       ELSE EndSignoff
    /\ UNCHANGED <<repository, planner, evidence, files, moves, attempts>>

\* M0 to M3 verify the report, and that the checkpoint is still the same,
\* before they publish it.
Recheck ==
    /\ spc = "recheck"
    /\ IF /\ Clean /\ head = commit
          /\ k = 2 => M1Dependency(head) /\ report = M2Report(head, packets[1])
          /\ k = 3 => /\ M2Dependency(head) /\ M3Comparable(packets[2]) /\ EvidenceCurrent
                      /\ report = M3Report(head, packets[2])
       THEN spc' = Onward /\ UNCHANGED <<k, commit, below, report>>
       ELSE EndSignoff
    /\ UNCHANGED <<repository, planner, evidence, files, moves, attempts>>

Archive ==
    /\ spc = "archive"
    /\ archive' = IF packets[k] = NoPacket THEN archive ELSE archive \cup {<<k, packets[k]>>}
    /\ spc' = Onward
    /\ UNCHANGED <<repository, planner, evidence, packets, published, moves, attempts,
                   k, commit, below, report>>

\* M2 to M6 rename over what is there; M0 and M1 rename without replacing;
\* M7 and M8 refuse a different packet.
Publish ==
    /\ spc = "publish"
    /\ IF k \in {0, 1, 7, 8} /\ packets[k] \notin {NoPacket, report}
       THEN UNCHANGED files
       ELSE /\ packets' = [packets EXCEPT ![k] = report]
            /\ published' = published \cup {<<k, report>>}
            /\ UNCHANGED archive
    /\ EndSignoff
    /\ UNCHANGED <<repository, planner, evidence, moves, attempts>>

SignerDies ==
    /\ spc # "idle"
    /\ EndSignoff
    /\ UNCHANGED <<repository, planner, evidence, files, moves, attempts>>

-----------------------------------------------------------------------------
(* Meanwhile *)

Commit ==
    LET c == Cardinality(DOMAIN anc) + 1 IN
    /\ c <= MaxCommits
    /\ anc' = [d \in 1 .. c |-> IF d = c THEN anc[head] \cup {c} ELSE anc[d]]
    /\ impl' = [d \in 1 .. c |-> IF d = c THEN work ELSE impl[d]]
    /\ head' = c
    /\ UNCHANGED <<work, planner, evidence, files, moves, attempts, signing>>

Checkout ==
    /\ Clean /\ moves < MaxMoves
    /\ head' \in DOMAIN anc \ {head}
    /\ work' = impl[head']
    /\ moves' = moves + 1
    /\ UNCHANGED <<anc, impl, planner, evidence, files, attempts, signing>>

Edit ==
    /\ moves < MaxMoves
    /\ \E f \in DOMAIN work, v \in 1 .. 2 : v # work[f] /\ work' = [work EXCEPT ![f] = v]
    /\ moves' = moves + 1
    /\ UNCHANGED <<anc, impl, planner, head, evidence, files, attempts, signing>>

\* analyze_run and analyze_evidence_run: the index is written again, with
\* the stage results it names or with new ones, and with the evidence as it was
\* or run with the sources of the working tree.
Analyze ==
    /\ live.index < MaxTouches
    /\ \E s \in {live.stages, live.stages + 1}, v \in {live.evidence, work.evidence} :
          live' = [index |-> live.index + 1, stages |-> s, evidence |-> v]
    /\ UNCHANGED <<repository, planner, frozen, bundle, gates, files, moves, attempts, signing>>

\* run_deterministic_search works in a staging directory, verifies the bundle
\* against the tree and the index as they are then, and renames.
RunSearch ==
    /\ bundle[5] = Absent
    /\ bundle' = [bundle EXCEPT ![5] = Current]
    /\ UNCHANGED <<repository, live, frozen, planner, gates, files, moves, attempts, signing>>

\* run_single_agent_planning verifies the search when it begins, makes its
\* directory, which must be new, and writes what it has into it unverified.
BeginPlanning ==
    /\ bundle[6] = Absent /\ planning = Absent
    /\ M5BundleCurrent
    /\ planning' = [of |-> Current, at |-> "propose"]
    /\ UNCHANGED <<repository, evidence, folders, files, moves, attempts, signing>>

MakeFolder ==
    /\ planning # Absent /\ planning.at = "propose"
    /\ planning.of \notin folders
    /\ folders' = folders \cup {planning.of}
    /\ planning' = [planning EXCEPT !.at = "write"]
    /\ UNCHANGED <<repository, evidence, files, moves, attempts, signing>>

WritePlans ==
    /\ planning # Absent /\ planning.at = "write"
    /\ bundle' = [bundle EXCEPT ![6] = planning.of]
    /\ planning' = Absent
    /\ UNCHANGED <<repository, live, frozen, folders, gates, files, moves, attempts, signing>>

\* It dies, a planner raises, or the directory is already there.
PlanningEnds ==
    /\ planning # Absent
    /\ planning' = Absent
    /\ UNCHANGED <<repository, evidence, folders, files, moves, attempts, signing>>

SignoffNext ==
    \/ \E m \in Milestones : Begin(m)
    \/ FreezeLedger \/ FreezeIndex \/ ReplaceGate \/ ImmutableGate \/ Resolve \/ CheckBundle
    \/ Depend \/ Build \/ Recheck \/ Archive \/ Publish \/ SignerDies
    \/ Commit \/ Checkout \/ Edit \/ Analyze
    \/ RunSearch \/ BeginPlanning \/ MakeFolder \/ WritePlans \/ PlanningEnds

SignoffSpec == SignoffInit /\ [][SignoffNext]_signoffVars

-----------------------------------------------------------------------------
(* Properties *)

\* A packet that verifies tops one coherent chain: each packet below was
\* signed at an ancestor of the commit above it, the stage results frozen
\* for M2 are those of the run M3 read, M4 read the same run, and M5 and M6
\* are of bundles made from that index and from the same sources.  These need
\* not be the signed commit's: only where M5 and M6 verify at their own commit
\* and not as dependencies have the bundles been compared with it.
VerifiedIsCoherent ==
    \A m \in 2 .. 8 : Verifies(m) =>
        /\ \A d \in 2 .. m : /\ packets[d].up = packets[d - 1]
                             /\ packets[d - 1].commit \in anc[packets[d].commit]
        /\ m >= 3 => packets[2].seen = packets[3].seen.stages
        /\ m >= 4 => packets[3].seen = packets[4].seen
        /\ m >= 5 => packets[5].seen.index = packets[4].seen.index
        /\ m >= 6 => packets[6].seen = packets[5].seen
        /\ m \in {5, 6} /\ packets[m].commit = head =>
              packets[m].seen.sources = impl[head].search

\* No sign-off destroys a packet: what M2 and M3 replace they archive, and
\* the other milestones never replace a packet by a different one.
NothingOverwritten ==
    \A e \in published : packets[e[1]] = e[2] \/ e \in archive

\* However often M2 is signed, and however often the run is analysed in
\* between, all its packets attest the same frozen stage results.
OneEvidence ==
    \A d, e \in published : d[1] = 2 /\ e[1] = 2 => d[2].seen = e[2].seen

\* What has been signed stays signed, and of the same evidence.
PacketsPermanent == NothingOverwritten /\ OneEvidence

\* The repository moving on to a descendant leaves a packet of M1 and M2 good as
\* a dependency whatever is edited, and one of M3 to M6 unless the sources of the
\* evidence stages change in the working tree.
DependencyOutlivesCommits ==
    [][UNCHANGED <<evidence, files>> /\ head \in anc'[head']
          => \A m \in 1 .. 6 : Dependency(m, head) /\ (m >= 3 => work'.evidence = work.evidence)
                                  => Dependency(m, head)']_signoffVars

=============================================================================
