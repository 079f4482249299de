------------------------------ MODULE Platform ------------------------------
(***************************************************************************)
(* platform/: the toolchain of a checkout and what is sealed about it.     *)
(* Commands (toolchain hydrate, verify and env, platform lock, doctor, the *)
(* smoke run) are processes that share one tool root: archive cache,       *)
(* components, their receipts and the global receipt behind the root's     *)
(* flock; the pair platform lock / analysis views behind another.  Servers *)
(* answer short, wrong, too long or not at all; a process dies between any *)
(* two writes; files are edited while commands run.  The smoke run copies  *)
(* its inputs to a directory of its own, where only its tools alter them.  *)
(***************************************************************************)
EXTENDS Naturals, Sequences, FiniteSets

CONSTANTS Order,       \* the components, in the order of the manifest
          Archives,    \* those that are downloaded; the others are git clones
          Orfs,        \* the component the platform is sealed from
          Workers,     \* processes
          Goals,       \* the commands of the instance
          ArchiveSize, \* pieces of an archive
          MaxCommands, MaxManifests, MaxEdits, MaxDeaths, MaxLocks,
          None

Components == {Order[n] : n \in 1 .. Len(Order)}

ASSUME PlatformAssumption ==
    /\ Archives \subseteq Components
    /\ Orfs \in Components \ Archives
    /\ ArchiveSize \in Nat \ {0}
    /\ Goals \subseteq {"hydrate", "verify", "lock", "doctor", "smoke"}
    /\ {MaxCommands, MaxManifests, MaxEdits, MaxDeaths, MaxLocks} \subseteq Nat

\* None stands for what is not there: no process, no file.
ASSUME NoneAssumption ==
    /\ None \notin Workers
    /\ None \notin [tree : {"pinned", "edited"}, inner : [manifest : Nat, tree : {"pinned"}]]
    /\ None \notin [manifest : Nat, trees : [Components -> {"pinned"}],
                    prints : [Archives -> {"pinned", "edited", None}]]

VARIABLES
    manifest,   \* toolchain-sources.json: its content hash, a number
    cached,     \* archive -> the file in the cache: None, "whole" or "bad"
    partial,    \* archive -> what an earlier transfer left: pieces, and whether they are right
    component,  \* component -> None, or its tree and the receipt inside it
    outer,      \* component -> None, or its receipt under receipts/
    global,     \* the toolchain receipt: the manifest, and every component's tree and fingerprint
    holder,     \* the process that has flocked the tool root
    lock,       \* platform.lock.yaml
    views,      \* views.yaml: the lock whose hash it names
    publisher,  \* the process that has flocked the lock's directory
    sources,    \* the smoke design and its constraints, a version of each
    report,     \* the last smoke report: what it names, what was read, the lock checked
    diagnosis,  \* the last doctor report: its status, and the tree of Orfs that was installed
    ws,         \* process -> where it is
    torn,       \* a death or a failed rollback left the pair half written (history)
    commands, edits, deaths, locks   \* so far

root == <<cached, partial, component, outer, global>>
pair == <<lock, views, publisher, torn>>
inputs == <<manifest, sources>>
results == <<report, diagnosis>>
counters == <<commands, edits, deaths, locks>>
vars == <<root, holder, pair, inputs, results, ws, counters>>

Empty == [size |-> 0, right |-> TRUE]

Idle == [pc |-> "idle", goal |-> None, m |-> None, next |-> 1, staged |-> None, seen |-> None,
         made |-> None, prior |-> None, smoke |-> None]

\* The repository ships a lock and views that bind it, sealed elsewhere from
\* the pinned sources.
Shipped == [manifest |-> 1, tree |-> "pinned", artifacts |-> "pinned",
            prints |-> [a \in Archives |-> "pinned"], stamp |-> 0]

Init ==
    /\ manifest = 1 /\ sources = [f \in {"rtl", "sdc"} |-> 1]
    /\ cached = [a \in Archives |-> None]
    /\ partial = [a \in Archives |-> Empty]
    /\ component = [c \in Components |-> None]
    /\ outer = [c \in Components |-> None]
    /\ global = None /\ holder = None /\ publisher = None
    /\ lock = Shipped /\ views = Shipped
    /\ report = None /\ diagnosis = None
    /\ ws = [w \in Workers |-> Idle]
    /\ torn = FALSE
    /\ commands = 0 /\ edits = 0 /\ deaths = 0 /\ locks = 0

Goto(w, to) == ws' = [ws EXCEPT ![w].pc = to]

Release(w) == holder' = IF holder = w THEN None ELSE holder

\* The command is over, with an answer or an error: the context managers
\* release what it holds.
Leave(w) ==
    /\ ws' = [ws EXCEPT ![w] = Idle]
    /\ Release(w)
    /\ publisher' = IF publisher = w THEN None ELSE publisher

Begin(w, goal) ==
    /\ ws[w].pc = "idle" /\ commands < MaxCommands
    /\ commands' = commands + 1
    /\ ws' = [ws EXCEPT ![w].pc = "wait", ![w].goal = goal, ![w].m = manifest]
    /\ UNCHANGED <<root, holder, pair, inputs, results, edits, deaths, locks>>

TakeLock(w) ==
    /\ ws[w].pc = "wait" /\ holder = None
    /\ holder' = w
    /\ Goto(w, IF ws[w].goal = "hydrate" THEN "hydrate" ELSE "inspect")
    /\ UNCHANGED <<root, pair, inputs, results, counters>>

\* Thirty seconds of EWOULDBLOCK.
LockTimeout(w) ==
    /\ ws[w].pc = "wait" /\ holder # None
    /\ Leave(w)
    /\ UNCHANGED <<root, lock, views, torn, inputs, results, counters>>

-----------------------------------------------------------------------------
(* toolchain hydrate *)

Receipt(m, tree) == [manifest |-> m, tree |-> tree]

\* Both receipts are, byte for byte, the one of this manifest and of the tree
\* as it is now.
ReceiptsMatch(m, c) ==
    /\ component[c].inner = Receipt(m, component[c].tree)
    /\ outer[c] = Receipt(m, component[c].tree)

Source(w) == Order[ws[w].next]

Hydrating(w) == ws[w].pc = "hydrate" /\ ws[w].next <= Len(Order)

Reuse(w) ==
    /\ Hydrating(w)
    /\ component[Source(w)] # None /\ ReceiptsMatch(ws[w].m, Source(w))
    /\ ws' = [ws EXCEPT ![w].next = @ + 1]
    /\ UNCHANGED <<root, holder, pair, inputs, results, counters>>

Refuse(w) ==
    /\ Hydrating(w)
    /\ component[Source(w)] # None /\ ~ReceiptsMatch(ws[w].m, Source(w))
    /\ Leave(w)
    /\ UNCHANGED <<root, lock, views, torn, inputs, results, counters>>

Absent(w) ==
    /\ Hydrating(w) /\ component[Source(w)] = None
    /\ Goto(w, "fetch")
    /\ UNCHANGED <<root, holder, pair, inputs, results, counters>>

CheckOut(w) ==
    /\ ws[w].pc = "fetch" /\ Source(w) \notin Archives
    /\ ws' = [ws EXCEPT ![w].pc = "place", ![w].staged = "pinned"]
    /\ UNCHANGED <<root, holder, pair, inputs, results, counters>>

UseCache(w) ==
    /\ ws[w].pc = "fetch" /\ Source(w) \in Archives
    /\ cached[Source(w)] = "whole"
    /\ Goto(w, "extract")
    /\ UNCHANGED <<root, holder, pair, inputs, results, counters>>

\* What the transfer file holds once the response has been copied: a 200
\* starts over, a 206 appends to the partial it was seeded with, anything else
\* (416 for a partial that is already complete) adds nothing.
Transfers(a) ==
    {partial[a], Empty} \cup
    {[size |-> n, right |-> r] : n \in 1 .. ArchiveSize, r \in BOOLEAN} \cup
    {[size |-> n, right |-> r /\ partial[a].right] :
        n \in {k \in 1 .. ArchiveSize : partial[a].size # ArchiveSize /\ k >= partial[a].size}, r \in BOOLEAN}

\* Faulty variant: the size is trusted.
VerifiedBySize(t) == t.size = ArchiveSize

\* The size and the SHA-256 of the manifest.
Verified(t) == t.size = ArchiveSize /\ t.right

\* A cached file that does not verify is unlinked; the transfer then becomes
\* the cached file, or the partial the next attempt resumes.
Download(w) ==
    LET a == Source(w) IN
    /\ ws[w].pc = "fetch" /\ a \in Archives
    /\ cached[a] # "whole"
    /\ \E t \in Transfers(a) :
        IF Verified(t)
        THEN /\ cached' = [cached EXCEPT ![a] = IF t.right THEN "whole" ELSE "bad"]
             /\ Goto(w, "downloaded")
             /\ UNCHANGED <<partial, holder, publisher>>
        ELSE /\ cached' = [cached EXCEPT ![a] = None]
             /\ partial' = [partial EXCEPT ![a] = t]
             /\ Leave(w)
    /\ UNCHANGED <<component, outer, global, lock, views, torn, inputs, results, counters>>

\* A response longer than the archive: transfer and partial are dropped.
Oversized(w) ==
    LET a == Source(w) IN
    /\ ws[w].pc = "fetch" /\ a \in Archives /\ cached[a] # "whole"
    /\ cached' = [cached EXCEPT ![a] = None]
    /\ partial' = [partial EXCEPT ![a] = Empty]
    /\ Leave(w)
    /\ UNCHANGED <<component, outer, global, lock, views, torn, inputs, results, counters>>

DropPartial(w) ==
    /\ ws[w].pc = "downloaded"
    /\ partial' = [partial EXCEPT ![Source(w)] = Empty]
    /\ Goto(w, "extract")
    /\ UNCHANGED <<cached, component, outer, global, holder, pair, inputs, results, counters>>

Extract(w) ==
    /\ ws[w].pc = "extract"
    /\ ws' = [ws EXCEPT ![w].pc = "place",
                        ![w].staged = IF cached[Source(w)] = "whole" THEN "pinned" ELSE "corrupt"]
    /\ UNCHANGED <<root, holder, pair, inputs, results, counters>>

\* The staged tree, with its receipt inside, is renamed into components/.
Place(w) ==
    /\ ws[w].pc = "place"
    /\ component' = [component EXCEPT
          ![Source(w)] = [tree |-> ws[w].staged, inner |-> Receipt(ws[w].m, ws[w].staged)]]
    /\ Goto(w, "placed")
    /\ UNCHANGED <<cached, partial, outer, global, holder, pair, inputs, results, counters>>

WriteReceipt(w) ==
    /\ ws[w].pc = "placed"
    /\ outer' = [outer EXCEPT ![Source(w)] = Receipt(ws[w].m, ws[w].staged)]
    /\ ws' = [ws EXCEPT ![w].pc = "hydrate", ![w].next = @ + 1, ![w].staged = None]
    /\ UNCHANGED <<cached, partial, component, global, holder, pair, inputs, results, counters>>

\* The root's lock is released, and taken again for the global receipt.
HydrateEnds(w) ==
    /\ ws[w].pc = "hydrate" /\ ws[w].next > Len(Order)
    /\ ws' = [ws EXCEPT ![w].pc = "wait", ![w].goal = "receipt"]
    /\ Release(w)
    /\ UNCHANGED <<root, pair, inputs, results, counters>>

\* git fails, an archive does not extract, a disk is full.  The staging
\* directory goes; what has been renamed stays.
HydrateFails(w) ==
    /\ ws[w].pc \in {"fetch", "downloaded", "extract", "place", "placed"}
    /\ Leave(w)
    /\ UNCHANGED <<root, lock, views, torn, inputs, results, counters>>

-----------------------------------------------------------------------------
(* create_toolchain_receipt and verify_toolchain *)

Live == [c \in Components |-> IF component[c] = None THEN None ELSE component[c].tree]

\* The fingerprints of the executables, all of which come in archives.
Fingerprints == [a \in Archives |-> Live[a]]

ComponentsMatch(m) == \A c \in Components : component[c] # None /\ ReceiptsMatch(m, c)

\* Every component against its receipts and, unless the receipt is about to
\* be written, the global receipt against manifest and components.
Inspected(w) ==
    /\ ComponentsMatch(ws[w].m)
    /\ ws[w].goal = "receipt" \/ (global # None /\ global.manifest = ws[w].m /\ global.trees = Live)

Inspect(w) ==
    /\ ws[w].pc = "inspect"
    /\ IF Inspected(w)
       THEN /\ ws' = [ws EXCEPT ![w].pc = "probe", ![w].seen = [trees |-> Live, prints |-> None]]
            /\ UNCHANGED <<holder, publisher>>
       ELSE Leave(w)
    /\ UNCHANGED <<root, lock, views, torn, inputs, results, counters>>

\* Every executable is fingerprinted, then git must find every clone clean at
\* its commit; it is not asked for files that it does not track.
Probed(w, tracked) ==
    /\ tracked => \A c \in Components \ Archives : component[c].tree = "pinned"
    /\ ws[w].goal = "receipt" \/ global.prints = Fingerprints

AfterVerify(goal) ==
    CASE goal = "receipt" -> "record" [] goal = "lock" -> "seal" [] goal = "doctor" -> "diagnose"
      [] goal = "smoke" -> "smoke" [] OTHER -> "done"

Probe(w) ==
    /\ ws[w].pc = "probe"
    /\ \E tracked \in BOOLEAN :
          IF Probed(w, tracked)
          THEN /\ ws' = [ws EXCEPT ![w].seen.prints = Fingerprints,
                                   ![w].pc = AfterVerify(ws[w].goal)]
               /\ IF ws[w].goal = "receipt" THEN holder' = holder ELSE Release(w)
               /\ UNCHANGED publisher
          ELSE Leave(w)
    /\ UNCHANGED <<root, lock, views, torn, inputs, results, counters>>

RecordReceipt(w) ==
    /\ ws[w].pc = "record"
    /\ global' = [manifest |-> ws[w].m, trees |-> ws[w].seen.trees, prints |-> ws[w].seen.prints]
    /\ Leave(w)
    /\ UNCHANGED <<cached, partial, component, outer, lock, views, torn, inputs, results, counters>>

\* toolchain verify and env print what has been verified.
Answer(w) ==
    /\ ws[w].pc = "done"
    /\ Leave(w)
    /\ UNCHANGED <<root, lock, views, torn, inputs, results, counters>>

-----------------------------------------------------------------------------
(* platform lock: the tool root is no longer locked *)

\* The platform files of the lock lie in the tree and have the recorded bytes.
ArtifactsHold(l) == component[Orfs].tree = l.artifacts

\* The tree and every artifact and executable the lock names are as recorded.
LockHolds(l) ==
    /\ component[Orfs] # None /\ component[Orfs].tree = l.tree
    /\ ArtifactsHold(l)
    /\ Fingerprints = l.prints

\* The tree is the one verify_toolchain inventoried.
TreeUnchanged(w) == component[Orfs].tree = ws[w].seen.trees[Orfs]

Seal(w) ==
    /\ ws[w].pc = "seal" /\ locks < MaxLocks
    /\ IF TreeUnchanged(w)
       THEN /\ ws' = [ws EXCEPT ![w].pc = "artifacts",
                         ![w].made = [manifest |-> ws[w].m, tree |-> component[Orfs].tree,
                                      artifacts |-> None, prints |-> ws[w].seen.prints,
                                      stamp |-> locks + 1]]
            /\ locks' = locks + 1
            /\ UNCHANGED <<holder, publisher>>
       ELSE Leave(w) /\ UNCHANGED locks
    /\ UNCHANGED <<root, lock, views, torn, inputs, results, commands, edits, deaths>>

\* Liberty, LEF and configuration files are hashed after the tree was.
HashArtifacts(w) ==
    /\ ws[w].pc = "artifacts"
    /\ ws' = [ws EXCEPT ![w].pc = "sealed", ![w].made.artifacts = component[Orfs].tree]
    /\ UNCHANGED <<root, holder, lock, views, publisher, torn, inputs, results, counters>>

CheckSealed(w) ==
    /\ ws[w].pc = "sealed"
    /\ IF LockHolds(ws[w].made) THEN Goto(w, "publish") /\ UNCHANGED <<holder, publisher>> ELSE Leave(w)
    /\ UNCHANGED <<root, lock, views, torn, inputs, results, counters>>

TakePublication(w) ==
    /\ ws[w].pc = "publish" /\ publisher = None
    /\ publisher' = w
    /\ ws' = [ws EXCEPT ![w].pc = "stage", ![w].prior = [lock |-> lock, views |-> views]]
    /\ UNCHANGED <<root, holder, lock, views, torn, inputs, results, counters>>

\* The staged lock is verified once more, then replaces the published one.
PutLock(w) ==
    /\ ws[w].pc = "stage"
    /\ IF LockHolds(ws[w].made)
       THEN /\ lock' = ws[w].made
            /\ Goto(w, "half")
            /\ UNCHANGED <<holder, publisher>>
       ELSE Leave(w) /\ UNCHANGED lock
    /\ UNCHANGED <<root, views, torn, inputs, results, counters>>

\* views.yaml names the lock by its hash.
ViewsOf(l) == l

PutViews(w) ==
    /\ ws[w].pc = "half"
    /\ views' = ViewsOf(ws[w].made)
    /\ Goto(w, "bound")
    /\ UNCHANGED <<root, holder, lock, publisher, torn, inputs, results, counters>>

Published(w) ==
    /\ ws[w].pc = "bound" /\ views = ViewsOf(lock)
    /\ torn' = FALSE
    /\ Leave(w)
    /\ UNCHANGED <<root, lock, views, inputs, results, counters>>

\* Faulty variant: the new lock stays in place.
RestoredLockNot(w) == lock

RestoredLock(w) == ws[w].prior.lock

\* A write fails: what has been replaced is restored, the lock first.
RollBack(w) ==
    /\ ws[w].pc \in {"half", "bound"}
    /\ lock' = RestoredLock(w)
    /\ IF ws[w].pc = "bound"
       THEN Goto(w, "restore") /\ UNCHANGED <<holder, publisher>>
       ELSE Leave(w)
    /\ UNCHANGED <<root, views, torn, inputs, results, counters>>

RestoreViews(w) ==
    /\ ws[w].pc = "restore"
    /\ views' = ws[w].prior.views
    /\ Leave(w)
    /\ UNCHANGED <<root, lock, torn, inputs, results, counters>>

Half(w) == ws[w].pc \in {"half", "restore"}

\* The rollback fails as well.
RestoreFails(w) ==
    /\ ws[w].pc \in {"half", "bound", "restore"}
    /\ torn' = (torn \/ Half(w))
    /\ Leave(w)
    /\ UNCHANGED <<root, lock, views, inputs, results, counters>>

-----------------------------------------------------------------------------
(* doctor and the smoke run *)

LockCheck(l) == IF LockHolds(l) THEN "PASS" ELSE "FAIL"

\* The live executables and the published lock, without either flock.
Diagnose(w) ==
    /\ ws[w].pc = "diagnose"
    /\ diagnosis' = [status |-> LockCheck(lock), tree |-> Live[Orfs]]
    /\ Leave(w)
    /\ UNCHANGED <<root, lock, views, torn, inputs, report, counters>>

SmokeLock(w) ==
    /\ ws[w].pc = "smoke"
    /\ IF LockHolds(lock) /\ lock.manifest = ws[w].m /\ lock.prints = ws[w].seen.prints
       THEN /\ ws' = [ws EXCEPT ![w].pc = "snapshot", ![w].made = lock]
            /\ UNCHANGED <<holder, publisher>>
       ELSE Leave(w)
    /\ UNCHANGED <<root, lock, views, torn, inputs, results, counters>>

Guarded == {"rtl", "sdc", "orfs"}   \* the copies; ORFS has constraints of its own

Unknown == 0   \* the bytes of no version: not there yet, or altered

\* The copies as they were taken and as they are, the netlist as it is, and
\* what the tools have read.
Copied(r, s) ==
    LET k == [f \in Guarded |-> IF f = "rtl" THEN r ELSE s]
    IN  [kept |-> k, now |-> k, netlist |-> Unknown, read |-> {}]

\* A source is hashed, copied and hashed again; the hash of the copy is kept.
Snapshot(w) ==
    /\ \/ /\ ws[w].pc = "snapshot"
          /\ ws' = [ws EXCEPT ![w].pc = "constraints", ![w].smoke = Copied(sources["rtl"], Unknown)]
       \/ /\ ws[w].pc = "constraints"
          /\ ws' = [ws EXCEPT ![w].pc = "flow", ![w].smoke = Copied(ws[w].smoke.kept["rtl"], sources["sdc"])]
    /\ UNCHANGED <<root, holder, pair, inputs, results, counters>>

\* Faulty variant: the copy is not looked at again.
SnapshotTrusted(w, f, now) == TRUE

\* The copy has the bytes it was taken with.
SnapshotHeld(w, f, now) == now[f] = ws[w].smoke.kept[f]

\* ORFS up to CTS, then the two views of STA.
Tools == {"flow", "setup", "hold"}

\* The copies that are looked at again when the tool has ended.
Watched(tool) == IF tool = "flow" THEN Guarded ELSE {"rtl", "sdc"}

\* ORFS reads the design and its copy of the constraints; STA the constraints,
\* the netlist that ORFS left, and Liberty out of the installed tree.
Read(w) ==
    LET s == ws[w].smoke IN
    IF ws[w].pc = "flow"
    THEN {<<f, s.now[f]>> : f \in {"rtl", "orfs"}}
    ELSE {<<"sdc", s.now["sdc"]>>, <<"netlist", s.netlist>>, <<"liberty", component[Orfs].tree>>}

After(tool) == CASE tool = "flow" -> "setup" [] tool = "setup" -> "hold" [] OTHER -> "recheck"

\* The netlist when the tool has ended: ORFS writes it, a view may alter it.
Netlists(w) ==
    LET s == ws[w].smoke IN IF ws[w].pc = "flow" THEN {s.now["rtl"]} ELSE {s.netlist, Unknown}

\* A tool reads its inputs, and may leave copies altered, which is an error, or
\* the netlist, which nobody looks at.
Consume(w) ==
    LET s == ws[w].smoke IN
    /\ ws[w].pc \in Tools
    /\ \E altered \in SUBSET Guarded, netlist \in Netlists(w) :
        LET now == [f \in Guarded |-> IF f \in altered THEN Unknown ELSE s.now[f]] IN
        IF \A f \in Watched(ws[w].pc) : SnapshotHeld(w, f, now)
        THEN /\ ws' = [ws EXCEPT ![w].pc = After(@),
                                 ![w].smoke = [s EXCEPT !.now = now, !.netlist = netlist,
                                                        !.read = @ \cup Read(w)]]
             /\ UNCHANGED <<holder, publisher>>
        ELSE Leave(w)
    /\ UNCHANGED <<root, lock, views, torn, inputs, results, counters>>

\* Every copy once more, the one only ORFS has read included.
Recheck(w) ==
    /\ ws[w].pc = "recheck"
    /\ IF \A f \in Guarded : SnapshotHeld(w, f, ws[w].smoke.now)
       THEN Goto(w, "report") /\ UNCHANGED <<holder, publisher>>
       ELSE Leave(w)
    /\ UNCHANGED <<root, lock, views, torn, inputs, results, counters>>

\* Lock file, receipt, copies and netlist are hashed as they are now.
ReportSmoke(w) ==
    LET s == ws[w].smoke IN
    /\ ws[w].pc = "report"
    /\ report' = [manifest |-> ws[w].m, receipt |-> global, named |-> lock, used |-> ws[w].made,
                  rtl |-> s.now["rtl"], sdc |-> s.now["sdc"], netlist |-> s.netlist, read |-> s.read]
    /\ Leave(w)
    /\ UNCHANGED <<root, lock, views, torn, inputs, diagnosis, counters>>

\* A command without a rollback fails; nothing has been written.
CommandFails(w) ==
    /\ ws[w].pc \in {"inspect", "probe", "record", "seal", "sealed", "publish", "stage", "smoke", "snapshot",
                     "constraints", "report"} \cup Tools
    /\ Leave(w)
    /\ UNCHANGED <<root, lock, views, torn, inputs, results, counters>>

-----------------------------------------------------------------------------
(* The world around *)

\* The kernel releases a dead process's flocks.
Die(w) ==
    /\ ws[w].pc # "idle" /\ deaths < MaxDeaths
    /\ deaths' = deaths + 1
    /\ torn' = (torn \/ Half(w))
    /\ Leave(w)
    /\ UNCHANGED <<root, lock, views, inputs, results, commands, edits, locks>>

EditManifest ==
    /\ manifest < MaxManifests
    /\ manifest' = manifest + 1
    /\ UNCHANGED <<root, holder, pair, sources, results, ws, counters>>

Edit ==
    /\ edits < MaxEdits /\ edits' = edits + 1
    /\ UNCHANGED <<partial, outer, global, holder, pair, manifest, results, ws, commands, deaths, locks>>

EditTree(c) ==
    /\ Edit
    /\ component[c] # None
    /\ component' = [component EXCEPT ![c].tree = IF @ = "edited" THEN "pinned" ELSE "edited"]
    /\ UNCHANGED <<cached, sources>>

EditSource ==
    /\ Edit
    /\ \E f \in {"rtl", "sdc"} : sources' = [sources EXCEPT ![f] = @ + 1]
    /\ UNCHANGED <<cached, component>>

\* Nobody but hydrate, which has the root's lock, opens the cache.
CacheRots(a) ==
    /\ Edit
    /\ holder = None /\ cached[a] = "whole"
    /\ cached' = [cached EXCEPT ![a] = "bad"]
    /\ UNCHANGED <<component, sources>>

Hydrate(w) ==
    \/ Reuse(w) \/ Refuse(w) \/ Absent(w) \/ CheckOut(w) \/ UseCache(w) \/ Download(w) \/ Oversized(w)
    \/ DropPartial(w) \/ Extract(w) \/ Place(w) \/ WriteReceipt(w) \/ HydrateEnds(w) \/ HydrateFails(w)

Verify(w) == Inspect(w) \/ Probe(w) \/ RecordReceipt(w) \/ Answer(w)

PlatformLock(w) ==
    \/ Seal(w) \/ HashArtifacts(w) \/ CheckSealed(w) \/ TakePublication(w) \/ PutLock(w) \/ PutViews(w) \/ Published(w)
    \/ RollBack(w) \/ RestoreViews(w) \/ RestoreFails(w)

Smoke(w) == SmokeLock(w) \/ Snapshot(w) \/ Consume(w) \/ Recheck(w) \/ ReportSmoke(w)

Next ==
    \/ \E w \in Workers :
        \/ \E goal \in Goals : Begin(w, goal)
        \/ TakeLock(w) \/ LockTimeout(w)
        \/ Hydrate(w) \/ Verify(w) \/ PlatformLock(w) \/ Diagnose(w) \/ Smoke(w)
        \/ CommandFails(w) \/ Die(w)
    \/ EditManifest \/ EditSource
    \/ \E c \in Components : EditTree(c)
    \/ \E a \in Archives : CacheRots(a)

Spec == Init /\ [][Next]_vars

-----------------------------------------------------------------------------
(* Properties *)

\* What stands under components/ was extracted from verified bytes, and the
\* receipt inside it says so, whatever the servers sent, however often a
\* transfer was resumed and wherever hydration died.
InstalledIsReviewed ==
    \A c \in Components : component[c] # None =>
        component[c].tree \in {"pinned", "edited"} /\ component[c].inner.tree = "pinned"

\* The global receipt is written under a second locking of the root: it names
\* the trees the components' own receipts name, for its manifest, also when
\* files or the manifest changed between the two.
GlobalReceiptIsReviewed ==
    global # None => \A c \in Components :
        /\ component[c] # None
        /\ component[c].inner = Receipt(global.manifest, global.trees[c])
        /\ outer[c] = Receipt(global.manifest, global.trees[c])

\* The published lock never seals a tree that was edited after verification:
\* platform lock works on what it verified under a lock it no longer has.
SealedTreeIsHydrated == lock.tree = "pinned" /\ lock.artifacts = "pinned"

\* While nobody publishes, the views name the published lock: a failed
\* publication is rolled back whole.  Only a death between the two replaces, or
\* a rollback that fails, leaves them apart, until the next publication.
PairBound == publisher = None => views = ViewsOf(lock) \/ torn

\* What a smoke report names is what ran, as far as the code guards it.  Every
\* copy a tool has read had the bytes of the report's design and constraints,
\* although sources are edited and tools write over copies meanwhile; the
\* receipt, hashed only at the end and perhaps written again by then, is of the
\* manifest the run verified and of reviewed trees; the lock it worked from and
\* the one it names seal the reviewed tree, the first for that manifest.  Of the
\* netlist and the Liberty files the views have read it says nothing.
ReportNamesWhatRan == report # None =>
    /\ \A i \in report.read : /\ i[1] = "rtl" => i[2] = report.rtl
                              /\ i[1] \in {"sdc", "orfs"} => i[2] = report.sdc
    /\ report.receipt.manifest = report.manifest
    /\ \A c \in Components : report.receipt.trees[c] = "pinned"
    /\ report.used.manifest = report.manifest
    /\ \A l \in {report.used, report.named} : l.tree = "pinned" /\ l.artifacts = "pinned"

\* doctor's PASS says the installed tree is the one that was reviewed, and not
\* only that it is the one some lock names.
DoctorTellsTheTruth == diagnosis # None /\ diagnosis.status = "PASS" => diagnosis.tree = "pinned"

\* The chain from the reviewed manifest over the installed bytes, their receipts
\* and the platform lock to what doctor says about them.
Provenance ==
    InstalledIsReviewed /\ GlobalReceiptIsReviewed /\ SealedTreeIsHydrated /\ DoctorTellsTheTruth
=============================================================================
