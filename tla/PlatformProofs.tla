--------------------------- MODULE PlatformProofs ---------------------------
(* Machine-checked proofs about Platform, for every value of its constants. *)
EXTENDS Platform, TLAPS

-----------------------------------------------------------------------------
(* What a process in each place of its command knows *)

Trees == {"pinned", "edited"}

Receipts == [manifest : Nat, tree : {"pinned"}]

Installed == [tree : Trees, inner : Receipts]

Prints == [Archives -> Trees \cup {None}]

Pinned == [c \in Components |-> "pinned"]

Inventories == [trees : {Pinned}, prints : Prints \cup {None}]

Locks == [manifest : Nat, tree : {"pinned"}, artifacts : Trees \cup {None}, prints : Prints, stamp : Nat]

Priors == [lock : Locks, views : Locks]

ReadItems == ({"rtl", "orfs", "sdc", "netlist"} \X Nat) \cup ({"liberty"} \X Trees)

Copies == [kept : [Guarded -> Nat], now : [Guarded -> Nat], netlist : Nat, read : SUBSET ReadItems]

Fetching == {"fetch", "downloaded", "extract", "place", "placed"}

Verifying == {"probe", "record"}

AfterInspection == Verifying \cup {"done", "seal", "diagnose", "smoke"}

Sealing == {"artifacts", "sealed", "publish", "stage", "half", "bound"}

Publishing == {"stage", "half", "bound", "restore"}

Running == Tools \cup {"recheck", "report"}

Smoking == {"snapshot", "constraints"} \cup Running

Pcs == {"idle", "wait", "hydrate", "inspect"} \cup Fetching \cup AfterInspection \cup Sealing \cup Publishing
          \cup Smoking

InRoot == {"hydrate", "inspect"} \cup Verifying \cup Fetching

Workings == [pc : Pcs, goal : {"hydrate", "verify", "lock", "doctor", "smoke", "receipt", None},
             m : Nat \cup {None}, next : Nat \ {0}, staged : {"pinned", "corrupt", None},
             seen : Inventories \cup {None}, made : Locks \cup {None},
             prior : Priors \cup {None}, smoke : Copies \cup {None}]

ControlOK(w) ==
    /\ ws[w] \in Workings
    /\ ws[w].pc # "idle" => ws[w].m \in Nat

\* The two flocks.
LocksOK(w) == /\ ws[w].pc \in InRoot => holder = w
              /\ ws[w].pc \in Publishing <=> publisher = w

\* Nothing is installed for the component that hydration is about to place,
\* no global receipt exists, and what it stages comes from verified bytes.
HydrationOK(w) ==
    /\ ws[w].pc \in Fetching => Source(w) \in Components /\ global = None
    /\ ws[w].pc \in Fetching \ {"placed"} => component[Source(w)] = None
    /\ ws[w].pc \in {"downloaded", "extract"} => Source(w) \in Archives /\ cached[Source(w)] = "whole"
    /\ ws[w].pc \in {"place", "placed"} => ws[w].staged = "pinned"

\* A component and the receipt inside it stay once they are there, the outer
\* receipts while the root is locked; a global receipt is only ever replaced.
VerificationOK(w) ==
    /\ ws[w].pc \in AfterInspection => ws[w].seen \in Inventories
    /\ ws[w].pc \in AfterInspection \cup Smoking =>
          \A c \in Components : component[c] # None /\ component[c].inner = Receipt(ws[w].m, "pinned")
    /\ ws[w].pc \in (AfterInspection \ Verifying) \cup Smoking => global # None
    /\ ws[w].pc = "probe" => ws[w].goal = "receipt" \/ global # None
    /\ ws[w].pc \in AfterInspection \ {"probe"} => ws[w].seen.prints \in Prints
    /\ ws[w].pc \in Verifying => \A c \in Components : outer[c] = Receipt(ws[w].m, "pinned")
    /\ ws[w].pc = "record" => ws[w].goal = "receipt"

SealingOK(w) ==
    /\ ws[w].pc \in Sealing => ws[w].made \in Locks
    /\ ws[w].pc = "artifacts" => component[Orfs] # None
    /\ ws[w].pc \in Sealing \ {"artifacts", "sealed"} => ws[w].made.artifacts = "pinned"

\* What the publisher has replaced, and what it can put back.
PublicationOK(w) ==
    /\ ws[w].pc \in Publishing =>
          /\ ws[w].prior \in Priors /\ ws[w].prior.lock.artifacts = "pinned"
          /\ ws[w].prior.views = ws[w].prior.lock \/ torn
    /\ ws[w].pc \in {"stage", "restore"} => lock = ws[w].prior.lock
    /\ ws[w].pc \in {"half", "bound"} => lock = ws[w].made
    /\ ws[w].pc \in {"stage", "half"} => views = ws[w].prior.views
    /\ ws[w].pc = "bound" => views = ws[w].made

\* What has been read of a copy has the bytes the copy was taken with.
ReadsOK(s) ==
    \A i \in s.read : /\ i[1] = "rtl" => i[2] = s.kept["rtl"]
                      /\ i[1] \in {"sdc", "orfs"} => i[2] = s.kept["sdc"]

\* The lock is the one that was checked.  Design and constraints are as they
\* were copied, ORFS's own copy until a view of STA writes over it.
SmokeOK(w) ==
    /\ ws[w].pc \in Smoking => /\ ws[w].made \in Locks /\ ws[w].made.artifacts = "pinned"
                               /\ ws[w].made.manifest = ws[w].m
    /\ ws[w].pc \in Smoking \ {"snapshot"} => ws[w].smoke \in Copies
    /\ ws[w].pc \in Running => /\ ws[w].smoke.kept["orfs"] = ws[w].smoke.kept["sdc"]
                               /\ ws[w].smoke.now["rtl"] = ws[w].smoke.kept["rtl"]
                               /\ ws[w].smoke.now["sdc"] = ws[w].smoke.kept["sdc"]
                               /\ ReadsOK(ws[w].smoke)
    /\ ws[w].pc = "flow" => ws[w].smoke.now["orfs"] = ws[w].smoke.kept["orfs"]

Claims(w) ==
    /\ ControlOK(w) /\ LocksOK(w) /\ HydrationOK(w) /\ VerificationOK(w) /\ SealingOK(w)
    /\ PublicationOK(w) /\ SmokeOK(w)

RootOK == /\ component \in [Components -> Installed \cup {None}]
          /\ GlobalReceiptIsReviewed
          /\ cached \in [Archives -> {None, "whole", "bad"}]

PairOK == /\ lock \in Locks /\ lock.artifacts = "pinned" /\ views \in Locks
          /\ PairBound

ResultsOK == DoctorTellsTheTruth /\ ReportNamesWhatRan

InputsOK == manifest \in Nat /\ sources \in [{"rtl", "sdc"} -> Nat] /\ locks \in Nat

Inv == /\ ws = [w \in Workers |-> ws[w]] /\ \A w \in Workers : Claims(w)
       /\ RootOK /\ PairOK /\ ResultsOK /\ InputsOK

\* What is installed, and a global receipt, are never taken away.
RootGrows ==
    /\ \A c \in Components : component[c] # None =>
          component'[c] # None /\ component'[c].inner = component[c].inner
    /\ global # None => global' # None

\* What a step of one process leaves the others.
Spares(w) ==
    /\ ws' = [d \in Workers |-> ws'[d]]
    /\ \A d \in Workers \ {w} :
          /\ ws'[d] = ws[d]
          /\ holder = d => holder' = d /\ UNCHANGED <<component, outer, cached, global>>
          /\ publisher' = d <=> publisher = d
          /\ publisher = d => UNCHANGED <<lock, views>> /\ (torn => torn')
    /\ RootGrows

LEMMA OthersKeep ==
    ASSUME Inv, NEW w \in Workers, Spares(w), NEW d \in Workers \ {w}
    PROVE  Claims(d)'
<1>0. Claims(d) /\ ws'[d] = ws[d] BY DEF Inv, Spares
<1>1. ControlOK(d)' BY <1>0 DEF Claims, ControlOK
<1>2. LocksOK(d)' BY <1>0 DEF Claims, LocksOK, Spares
<1>3. HydrationOK(d)'
  BY <1>0 DEF Claims, LocksOK, HydrationOK, Spares, Source, InRoot, Fetching
<1>4. VerificationOK(d)'
  BY <1>0 DEF Claims, LocksOK, VerificationOK, Spares, RootGrows, InRoot, Verifying, Receipt
<1>5. SealingOK(d)'
  BY <1>0, PlatformAssumption DEF Claims, SealingOK, Spares, RootGrows
<1>6. PublicationOK(d)'
  BY <1>0 DEF Claims, LocksOK, PublicationOK, Spares, Publishing
<1>7. SmokeOK(d)' BY <1>0 DEF Claims, SmokeOK
<1> QED BY <1>1, <1>2, <1>3, <1>4, <1>5, <1>6, <1>7 DEF Claims

-----------------------------------------------------------------------------

\* A command that is over claims nothing.
LEMMA LeaveClaims ==
    ASSUME Inv, NEW w \in Workers, Leave(w)
    PROVE  Claims(w)'
<1>1. ws'[w] = Idle BY DEF Leave, Inv
<1>2. /\ Idle.pc = "idle" /\ Idle \in Workings
  BY DEF Idle, Workings, Pcs
<1>3. publisher' # w BY NoneAssumption DEF Leave
<1> HIDE DEF Idle
<1> QED BY <1>1, <1>2, <1>3
    DEF Claims, ControlOK, LocksOK, HydrationOK, VerificationOK, SealingOK, PublicationOK, SmokeOK,
        InRoot, Verifying, Fetching, Publishing, AfterInspection, Sealing, Smoking, Running, Tools

\* The next place, goal and fields of a process as one record.
LEMMA Moves ==
    ASSUME Inv, NEW w \in Workers, NEW t, ws' = [ws EXCEPT ![w] = t]
    PROVE  ws'[w] = t /\ ws' = [d \in Workers |-> ws'[d]]
           /\ \A d \in Workers \ {w} : ws'[d] = ws[d]
BY DEF Inv

\* Steps that touch neither the root nor the pair nor a flock.
LEMMA QuietSpares ==
    ASSUME Inv, NEW w \in Workers, NEW t, ws' = [ws EXCEPT ![w] = t],
           UNCHANGED <<root, lock, views, torn>>,
           holder' = holder \/ Release(w), publisher' = publisher
    PROVE  Spares(w)
BY NoneAssumption DEF Inv, Spares, RootGrows, root, Release

LEMMA QuietRoot ==
    ASSUME Inv, UNCHANGED <<root>>
    PROVE  RootOK'
BY DEF Inv, RootOK, GlobalReceiptIsReviewed, Receipt, root

LEMMA QuietPair ==
    ASSUME Inv, UNCHANGED <<lock, views, torn, publisher>>
    PROVE  PairOK'
BY DEF Inv, PairOK, PairBound, ViewsOf

LEMMA LeaveSpares ==
    ASSUME Inv, NEW w \in Workers, Leave(w), UNCHANGED <<root, lock, views, torn>>
    PROVE  Spares(w)
BY NoneAssumption DEF Inv, Spares, RootGrows, root, Leave, Release

\* Steps that stay within a process, or give back the root.
LEMMA LocalStep ==
    ASSUME Inv, NEW w \in Workers, NEW t, ws' = [ws EXCEPT ![w] = t], Claims(w)',
           UNCHANGED <<root, pair, inputs, results>>, locks' \in Nat,
           holder' = holder \/ Release(w)
    PROVE  Inv'
<1>1. UNCHANGED <<root, lock, views, torn, publisher>> BY DEF pair
<1>2. Spares(w) BY <1>1, QuietSpares
<1>3. RootOK' /\ PairOK' BY <1>1, QuietRoot, QuietPair
<1>4. ResultsOK' /\ InputsOK'
  BY DEF Inv, ResultsOK, InputsOK, DoctorTellsTheTruth, ReportNamesWhatRan, results, inputs
<1> QED BY <1>2, <1>3, <1>4, OthersKeep DEF Inv, Spares

\* A command that ends and has not left the pair half written.
LEMMA LeaveStep ==
    ASSUME Inv, NEW w \in Workers, Leave(w), ws[w].pc \notin {"half", "restore"},
           UNCHANGED <<root, lock, views, torn, inputs, results>>, locks' \in Nat
    PROVE  Inv'
<1>1. Claims(w)' /\ Spares(w) BY LeaveClaims, LeaveSpares
<1>2. RootOK' BY QuietRoot
<1>3. PairOK'
  <2>1. publisher' = publisher \/ publisher = w BY DEF Leave
  <2>2. publisher = w => views = lock \/ torn
    BY DEF Inv, Claims, LocksOK, PublicationOK, Publishing
  <2> QED BY <2>1, <2>2 DEF Inv, PairOK, PairBound, ViewsOf
<1>4. ResultsOK' /\ InputsOK'
  BY DEF Inv, ResultsOK, InputsOK, DoctorTellsTheTruth, ReportNamesWhatRan, results, inputs
<1> QED BY <1>1, <1>2, <1>3, <1>4, OthersKeep DEF Inv, Spares

\* Steps of the process that has locked the root.
LEMMA RootStep ==
    ASSUME Inv, NEW w \in Workers, ws[w].pc \in InRoot, Claims(w)', RootOK',
           RootGrows,
           NEW t, ws' = [ws EXCEPT ![w] = t],
           UNCHANGED <<lock, views, torn, inputs, results>>, locks' = locks,
           UNCHANGED <<holder, publisher>> \/ Leave(w)
    PROVE  Inv'
<1>0. holder = w /\ publisher # w
  BY DEF Inv, Claims, LocksOK, InRoot, Publishing, Verifying, Fetching
<1>1. publisher' = publisher /\ holder' \in {w, None} BY <1>0 DEF Leave, Release
<1>2. Spares(w) BY <1>0, <1>1, Moves, NoneAssumption DEF Spares
<1>3. PairOK' BY <1>1, QuietPair
<1>4. ResultsOK' /\ InputsOK'
  BY DEF Inv, ResultsOK, InputsOK, DoctorTellsTheTruth, ReportNamesWhatRan, results, inputs
<1> QED BY <1>2, <1>3, <1>4, OthersKeep DEF Inv, Spares

\* Steps of the process that has locked the directory of lock and views.
LEMMA PairStep ==
    ASSUME Inv, NEW w \in Workers, ws[w].pc \in Publishing, Claims(w)', PairOK',
           NEW t, ws' = [ws EXCEPT ![w] = t],
           UNCHANGED <<root, inputs, results>>, locks' = locks,
           UNCHANGED <<holder, publisher>> \/ Leave(w)
    PROVE  Inv'
<1>0. publisher = w BY DEF Inv, Claims, LocksOK
<1>1. /\ holder' = holder \/ (holder = w /\ holder' = None)
      /\ publisher' = w \/ publisher' = None
  BY <1>0 DEF Leave, Release
<1>2. Spares(w)
  <2>1. /\ ws' = [d \in Workers |-> ws'[d]] /\ \A d \in Workers \ {w} : ws'[d] = ws[d]
    BY Moves
  <2>2. UNCHANGED <<component, outer, cached, global>> BY DEF root
  <2>3. \A d \in Workers \ {w} : publisher # d /\ publisher' # d /\ (holder = d => holder' = d)
    BY <1>0, <1>1, NoneAssumption
  <2> QED BY <2>1, <2>2, <2>3 DEF Spares, RootGrows
<1>3. RootOK' BY QuietRoot
<1>4. ResultsOK' /\ InputsOK'
  BY DEF Inv, ResultsOK, InputsOK, DoctorTellsTheTruth, ReportNamesWhatRan, results, inputs
<1> QED BY <1>2, <1>3, <1>4, OthersKeep DEF Inv, Spares

-----------------------------------------------------------------------------
(* One lemma per part of a command *)

\* Starting, waiting for the root and going without it.
LEMMA EntryStep ==
    ASSUME Inv, NEW w \in Workers,
           (\E goal \in Goals : Begin(w, goal)) \/ TakeLock(w) \/ LockTimeout(w)
    PROVE  Inv'
<1>0. Claims(w) /\ ws[w] \in Workings /\ InputsOK
  BY DEF Inv, Claims, ControlOK
<1>1. ASSUME NEW goal \in Goals, Begin(w, goal) PROVE Inv'
  <2> DEFINE t == [ws[w] EXCEPT !.pc = "wait", !.goal = goal, !.m = manifest]
  <2>1. t \in Workings /\ t.pc = "wait" /\ t.m \in Nat /\ ws[w].pc = "idle"
    <3>1. goal \in {"hydrate", "verify", "lock", "doctor", "smoke"} BY PlatformAssumption
    <3> QED BY <1>0, <1>1, <3>1 DEF Workings, Pcs, Fetching, InputsOK, Begin
  <2>2. ws' = [ws EXCEPT ![w] = t] BY <1>1 DEF Begin
  <2> HIDE DEF t
  <2>3. ws'[w] = t BY <2>2, Moves
  <2>4. Claims(w)'
    BY <1>0, <1>1, <2>1, <2>3
      DEF Claims, ControlOK, LocksOK, HydrationOK, VerificationOK, SealingOK, PublicationOK, SmokeOK,
        InRoot, Verifying, Fetching, Publishing, AfterInspection, Sealing, Smoking, Running, Tools, Begin, pair
  <2> QED BY <1>0, <1>1, <2>2, <2>4, LocalStep DEF Begin, InputsOK
<1>2. CASE TakeLock(w)
  <2> DEFINE p == IF ws[w].goal = "hydrate" THEN "hydrate" ELSE "inspect"
             t == [ws[w] EXCEPT !.pc = p]
  <2>1. t \in Workings /\ t.pc \in {"hydrate", "inspect"} /\ t.m = ws[w].m /\ ws[w].pc = "wait"
    <3>1. p \in {"hydrate", "inspect"} OBVIOUS
    <3> HIDE DEF p
    <3> QED BY <1>0, <1>2, <3>1 DEF Workings, Pcs, Fetching, TakeLock
  <2>2. ws' = [ws EXCEPT ![w] = t] BY <1>2 DEF TakeLock, Goto
  <2> HIDE DEF t
  <2>3. /\ ws'[w] = t /\ ws' = [d \in Workers |-> ws'[d]]
        /\ \A d \in Workers \ {w} : ws'[d] = ws[d]
    BY <2>2, Moves
  <2>4. Claims(w)'
    BY <1>0, <1>2, <2>1, <2>3
      DEF Claims, ControlOK, LocksOK, HydrationOK, VerificationOK, SealingOK, PublicationOK, SmokeOK,
        InRoot, Verifying, Fetching, Publishing, AfterInspection, Sealing, Smoking, Running, Tools, TakeLock, pair
  <2>5. Spares(w)
    BY <1>2, <2>3, NoneAssumption DEF TakeLock, Spares, RootGrows, pair, root
  <2>6. RootOK' /\ PairOK' BY <1>2, QuietRoot, QuietPair DEF TakeLock, pair
  <2>7. ResultsOK' /\ InputsOK'
    BY <1>2 DEF Inv, ResultsOK, InputsOK, DoctorTellsTheTruth, ReportNamesWhatRan, results, inputs,
                TakeLock, counters
  <2> QED BY <2>3, <2>4, <2>5, <2>6, <2>7, OthersKeep DEF Inv, Spares
<1>3. CASE LockTimeout(w)
  BY <1>0, <1>3, LeaveStep DEF LockTimeout, counters, InputsOK
<1> QED BY <1>1, <1>2, <1>3

\* Hydration moves on without writing anything.
LEMMA HydrateMoves ==
    ASSUME Inv, NEW w \in Workers,
           \/ Reuse(w) \/ Absent(w) \/ CheckOut(w) \/ UseCache(w) \/ Extract(w) \/ HydrateEnds(w)
    PROVE  Inv'
<1>0. Claims(w) /\ ws[w] \in Workings /\ InputsOK /\ RootOK /\ locks' = locks
  BY DEF Inv, Claims, ControlOK, Reuse, Absent, CheckOut, UseCache, Extract, HydrateEnds, counters
<1>1. CASE Reuse(w)
  <2> DEFINE t == [ws[w] EXCEPT !.next = @ + 1]
  <2>1. t \in Workings /\ t.pc = "hydrate" /\ t.m = ws[w].m /\ ws[w].pc = "hydrate"
    BY <1>0, <1>1 DEF Workings, Pcs, Fetching, Reuse, Hydrating
  <2>2. ws' = [ws EXCEPT ![w] = t] BY <1>1 DEF Reuse, Goto
  <2> HIDE DEF t
  <2>3. ws'[w] = t BY <2>2, Moves
  <2>4. Claims(w)'
    BY <1>0, <1>1, <2>1, <2>3
      DEF Claims, ControlOK, LocksOK, HydrationOK, VerificationOK, SealingOK, PublicationOK, SmokeOK,
        InRoot, Verifying, Fetching, Publishing, AfterInspection, Sealing, Smoking, Running, Tools, Reuse, pair
  <2> QED BY <1>0, <1>1, <2>2, <2>4, LocalStep DEF Reuse, InputsOK
<1>2. CASE Absent(w)
  <2> DEFINE t == [ws[w] EXCEPT !.pc = "fetch"]
  <2>1. t \in Workings /\ t.pc = "fetch" /\ t.m = ws[w].m /\ t.next = ws[w].next /\ ws[w].pc = "hydrate"
    BY <1>0, <1>2 DEF Workings, Pcs, Fetching, Absent, Hydrating
  <2>2. ws' = [ws EXCEPT ![w] = t] BY <1>2 DEF Absent, Goto
  <2> HIDE DEF t
  <2>3. ws'[w] = t BY <2>2, Moves
  <2>4. Claims(w)'
    BY <1>0, <1>2, <2>1, <2>3
      DEF Claims, ControlOK, LocksOK, HydrationOK, VerificationOK, SealingOK, PublicationOK, SmokeOK,
        InRoot, Verifying, Fetching, Publishing, AfterInspection, Sealing, Smoking, Running, Tools, Absent, pair, root, RootOK, GlobalReceiptIsReviewed, Source, Components, Hydrating, Workings
  <2> QED BY <1>0, <1>2, <2>2, <2>4, LocalStep DEF Absent, InputsOK
<1>3. CASE CheckOut(w)
  <2> DEFINE t == [ws[w] EXCEPT !.pc = "place", !.staged = "pinned"]
  <2>1. t \in Workings /\ t.pc = "place" /\ t.staged = "pinned" /\ t.m = ws[w].m /\ t.next = ws[w].next /\ ws[w].pc = "fetch"
    BY <1>0, <1>3 DEF Workings, Pcs, Fetching, CheckOut
  <2>2. ws' = [ws EXCEPT ![w] = t] BY <1>3 DEF CheckOut, Goto
  <2> HIDE DEF t
  <2>3. ws'[w] = t BY <2>2, Moves
  <2>4. Claims(w)'
    BY <1>0, <1>3, <2>1, <2>3
      DEF Claims, ControlOK, LocksOK, HydrationOK, VerificationOK, SealingOK, PublicationOK, SmokeOK,
        InRoot, Verifying, Fetching, Publishing, AfterInspection, Sealing, Smoking, Running, Tools, CheckOut, pair, root, Source
  <2> QED BY <1>0, <1>3, <2>2, <2>4, LocalStep DEF CheckOut, InputsOK
<1>4. CASE UseCache(w)
  <2> DEFINE t == [ws[w] EXCEPT !.pc = "extract"]
  <2>1. t \in Workings /\ t.pc = "extract" /\ t.m = ws[w].m /\ t.next = ws[w].next /\ ws[w].pc = "fetch"
    BY <1>0, <1>4 DEF Workings, Pcs, Fetching, UseCache
  <2>2. ws' = [ws EXCEPT ![w] = t] BY <1>4 DEF UseCache, Goto
  <2> HIDE DEF t
  <2>3. ws'[w] = t BY <2>2, Moves
  <2>4. Claims(w)'
    BY <1>0, <1>4, <2>1, <2>3
      DEF Claims, ControlOK, LocksOK, HydrationOK, VerificationOK, SealingOK, PublicationOK, SmokeOK,
        InRoot, Verifying, Fetching, Publishing, AfterInspection, Sealing, Smoking, Running, Tools, UseCache, pair, root, Source
  <2> QED BY <1>0, <1>4, <2>2, <2>4, LocalStep DEF UseCache, InputsOK
<1>5. CASE Extract(w)
  <2>0. ws[w].pc = "extract" /\ cached[Source(w)] = "whole"
    BY <1>0, <1>5 DEF Extract, Claims, HydrationOK
  <2> DEFINE t == [ws[w] EXCEPT !.pc = "place", !.staged = "pinned"]
  <2>1. t \in Workings /\ t.pc = "place" /\ t.staged = "pinned" /\ t.m = ws[w].m /\ t.next = ws[w].next
    BY <1>0 DEF Workings, Pcs, Fetching, Fetching
  <2>2. ws' = [ws EXCEPT ![w] = t] BY <1>5, <2>0 DEF Extract
  <2> HIDE DEF t
  <2>3. ws'[w] = t BY <2>2, Moves
  <2>4. Claims(w)'
    BY <1>0, <1>5, <2>0, <2>1, <2>3
      DEF Claims, ControlOK, LocksOK, HydrationOK, VerificationOK, SealingOK, PublicationOK, SmokeOK,
        InRoot, Verifying, Fetching, Publishing, AfterInspection, Sealing, Smoking, Running, Tools, Extract, pair, root, Source
  <2> QED BY <1>0, <1>5, <2>2, <2>4, LocalStep DEF Extract, InputsOK
<1>6. CASE HydrateEnds(w)
  <2> DEFINE t == [ws[w] EXCEPT !.pc = "wait", !.goal = "receipt"]
  <2>1. t \in Workings /\ t.pc = "wait" /\ t.m = ws[w].m /\ ws[w].pc = "hydrate"
    BY <1>0, <1>6 DEF Workings, Pcs, Fetching, HydrateEnds
  <2>2. ws' = [ws EXCEPT ![w] = t] BY <1>6 DEF HydrateEnds, Goto
  <2> HIDE DEF t
  <2>3. ws'[w] = t BY <2>2, Moves
  <2>4. Claims(w)'
    BY <1>0, <1>6, <2>1, <2>3
      DEF Claims, ControlOK, LocksOK, HydrationOK, VerificationOK, SealingOK, PublicationOK, SmokeOK,
        InRoot, Verifying, Fetching, Publishing, AfterInspection, Sealing, Smoking, Running, Tools, HydrateEnds, pair
  <2> QED BY <1>0, <1>6, <2>2, <2>4, LocalStep DEF HydrateEnds, InputsOK
<1> QED BY <1>1, <1>2, <1>3, <1>4, <1>5, <1>6

\* Hydration gives up: an untrusted tree, a failed fetch or a failed write.
LEMMA HydrateGivesUp ==
    ASSUME Inv, NEW w \in Workers, Refuse(w) \/ HydrateFails(w)
    PROVE  Inv'
<1>1. ws[w].pc \notin {"half", "restore"} /\ locks' \in Nat
  BY DEF Inv, InputsOK, Refuse, Hydrating, HydrateFails, counters
<1> QED BY <1>1, LeaveStep DEF Refuse, HydrateFails

\* What a transfer makes of the cache.
LEMMA DownloadStep ==
    ASSUME Inv, NEW w \in Workers, Download(w) \/ Oversized(w)
    PROVE  Inv'
<1>0. /\ Claims(w) /\ ws[w] \in Workings /\ RootOK /\ ws[w].pc = "fetch" /\ ws[w].pc \in InRoot
      /\ Source(w) \in Archives /\ locks' = locks
      /\ UNCHANGED <<component, outer, global, lock, views, torn, inputs, results>>
  BY DEF Inv, Claims, ControlOK, Download, Oversized, InRoot, Fetching, counters
<1>1. ASSUME cached' = [cached EXCEPT ![Source(w)] = None], Leave(w) PROVE Inv'
  <2>1. Claims(w)' BY <1>1, LeaveClaims
  <2>2. RootOK' /\ RootGrows BY <1>0, <1>1 DEF RootOK, RootGrows, GlobalReceiptIsReviewed, Receipt
  <2>3. ws' = [ws EXCEPT ![w] = Idle] BY <1>1 DEF Leave
  <2> QED BY <1>0, <1>1, <2>1, <2>2, <2>3, RootStep
<1>2. ASSUME cached' = [cached EXCEPT ![Source(w)] = "whole"], Goto(w, "downloaded"),
             UNCHANGED <<holder, publisher>>
      PROVE  Inv'
  <2> DEFINE t == [ws[w] EXCEPT !.pc = "downloaded"]
  <2>1. t \in Workings /\ t.pc = "downloaded" /\ t.m = ws[w].m /\ t.next = ws[w].next
    BY <1>0 DEF Workings, Pcs, Fetching
  <2>2. ws' = [ws EXCEPT ![w] = t] BY <1>2 DEF Goto
  <2> HIDE DEF t
  <2>3. ws'[w] = t BY <2>2, Moves
  <2>4. cached'[Source(w)] = "whole" /\ Source(w)' = Source(w)
    BY <1>0, <1>2, <2>1, <2>3 DEF RootOK, Source
  <2>5. Claims(w)'
    BY <1>0, <1>2, <2>1, <2>3, <2>4
      DEF Claims, ControlOK, LocksOK, HydrationOK, VerificationOK, SealingOK, PublicationOK, SmokeOK,
        InRoot, Verifying, Fetching, Publishing, AfterInspection, Sealing, Smoking, Running, Tools
  <2>6. RootOK' /\ RootGrows BY <1>0, <1>2 DEF RootOK, RootGrows, GlobalReceiptIsReviewed, Receipt
  <2> QED BY <1>0, <1>2, <2>2, <2>5, <2>6, RootStep
<1>3. CASE Download(w)
  <2>1. PICK x : IF Verified(x)
                 THEN /\ cached' = [cached EXCEPT ![Source(w)] = IF x.right THEN "whole" ELSE "bad"]
                      /\ Goto(w, "downloaded") /\ UNCHANGED <<holder, publisher>>
                 ELSE cached' = [cached EXCEPT ![Source(w)] = None] /\ Leave(w)
    BY <1>3 DEF Download
  <2>2. CASE Verified(x)
    <3>1. cached' = [cached EXCEPT ![Source(w)] = "whole"] BY <2>1, <2>2 DEF Verified
    <3> QED BY <1>2, <2>1, <2>2, <3>1
  <2>3. CASE ~Verified(x)
    BY <1>1, <2>1, <2>3
  <2> QED BY <2>2, <2>3
<1>4. CASE Oversized(w)
  BY <1>1, <1>4 DEF Oversized
<1> QED BY <1>3, <1>4

\* Hydration writes a tree, or one of its receipts.
LEMMA HydrateWrites ==
    ASSUME Inv, NEW w \in Workers, DropPartial(w) \/ Place(w) \/ WriteReceipt(w)
    PROVE  Inv'
<1>0. /\ Claims(w) /\ ws[w] \in Workings /\ RootOK /\ ws[w].pc \in InRoot /\ ws[w].m \in Nat
      /\ global = None /\ Source(w) \in Components /\ locks' = locks
      /\ UNCHANGED <<global, cached, holder, publisher, lock, views, torn, inputs, results>>
  BY DEF Inv, Claims, ControlOK, HydrationOK, DropPartial, Place, WriteReceipt, InRoot, Fetching,
         counters, pair
<1>1. CASE DropPartial(w)
  <2> DEFINE t == [ws[w] EXCEPT !.pc = "extract"]
  <2>1. t \in Workings /\ t.pc = "extract" /\ t.m = ws[w].m /\ t.next = ws[w].next
        /\ ws[w].pc = "downloaded"
    BY <1>0, <1>1 DEF Workings, Pcs, Fetching, DropPartial
  <2>2. ws' = [ws EXCEPT ![w] = t] BY <1>1 DEF DropPartial, Goto
  <2> HIDE DEF t
  <2>3. ws'[w] = t BY <2>2, Moves
  <2>4. Claims(w)'
    BY <1>0, <1>1, <2>1, <2>3
      DEF Claims, ControlOK, LocksOK, HydrationOK, VerificationOK, SealingOK, PublicationOK, SmokeOK,
        InRoot, Verifying, Fetching, Publishing, AfterInspection, Sealing, Smoking, Running, Tools, Source,
        DropPartial
  <2>5. RootOK' /\ RootGrows
    BY <1>0, <1>1 DEF RootOK, RootGrows, GlobalReceiptIsReviewed, DropPartial
  <2> QED BY <1>0, <2>2, <2>4, <2>5, RootStep
<1>2. CASE Place(w)
  <2> DEFINE t == [ws[w] EXCEPT !.pc = "placed"]
             x == [tree |-> "pinned", inner |-> Receipt(ws[w].m, "pinned")]
  <2>1. t \in Workings /\ t.pc = "placed" /\ t.m = ws[w].m /\ t.next = ws[w].next
        /\ t.staged = "pinned" /\ ws[w].pc = "place" /\ ws[w].staged = "pinned"
    BY <1>0, <1>2 DEF Workings, Pcs, Fetching, Place, Claims, HydrationOK
  <2>2. ws' = [ws EXCEPT ![w] = t] BY <1>2 DEF Place, Goto
  <2>3. x \in Installed /\ x # None
    BY <1>0, NoneAssumption DEF Installed, Trees, Receipts, Receipt
  <2>4. component' = [component EXCEPT ![Source(w)] = x] BY <1>2, <2>1 DEF Place
  <2> HIDE DEF t, x
  <2>5. ws'[w] = t BY <2>2, Moves
  <2>6. Claims(w)'
    BY <1>0, <2>1, <2>5
      DEF Claims, ControlOK, LocksOK, HydrationOK, VerificationOK, SealingOK, PublicationOK, SmokeOK,
        InRoot, Verifying, Fetching, Publishing, AfterInspection, Sealing, Smoking, Running, Tools, Source
  <2>7. RootOK' /\ RootGrows
    BY <1>0, <2>1, <2>3, <2>4 DEF RootOK, RootGrows, GlobalReceiptIsReviewed, Claims, HydrationOK, Fetching
  <2> QED BY <1>0, <2>2, <2>6, <2>7, RootStep
<1>3. CASE WriteReceipt(w)
  <2> DEFINE n == ws[w].next + 1
             t == [ws[w] EXCEPT !.pc = "hydrate", !.next = n, !.staged = None]
  <2>0. n \in Nat \ {0} BY <1>0 DEF Workings
  <2>2. ws' = [ws EXCEPT ![w] = t] /\ ws[w].pc = "placed" BY <1>0, <1>3 DEF WriteReceipt, Workings
  <2> HIDE DEF n
  <2>1. t \in Workings /\ t.pc = "hydrate" /\ t.m = ws[w].m
    BY <1>0, <2>0 DEF Workings, Pcs
  <2> HIDE DEF t
  <2>3. ws'[w] = t BY <2>2, Moves
  <2>4. Claims(w)'
    BY <1>0, <2>1, <2>3
      DEF Claims, ControlOK, LocksOK, HydrationOK, VerificationOK, SealingOK, PublicationOK, SmokeOK,
        InRoot, Verifying, Fetching, Publishing, AfterInspection, Sealing, Smoking, Running, Tools
  <2>5. RootOK' /\ RootGrows
    BY <1>0, <1>3 DEF RootOK, RootGrows, GlobalReceiptIsReviewed, WriteReceipt
  <2> QED BY <1>0, <2>2, <2>4, <2>5, RootStep
<1> QED BY <1>1, <1>2, <1>3

LEMMA FingerprintsType ==
    ASSUME Inv
    PROVE  Fingerprints \in Prints
BY PlatformAssumption DEF Inv, RootOK, Fingerprints, Live, Prints, Installed, Trees

\* verify_toolchain, for every command, and the receipt hydration ends with.
LEMMA VerifyStep ==
    ASSUME Inv, NEW w \in Workers, Verify(w)
    PROVE  Inv'
<1>0. /\ Claims(w) /\ ws[w] \in Workings /\ RootOK /\ ws[w].pc \in InRoot \cup {"done"}
      /\ ws[w].m \in Nat /\ locks' = locks /\ locks \in Nat
  BY DEF Inv, Claims, ControlOK, InputsOK, Verify, Inspect, Probe, RecordReceipt, Answer, InRoot,
         Verifying, counters
<1>1. CASE Inspect(w) /\ Inspected(w)
  <2> DEFINE v == [trees |-> Live, prints |-> None]
             t == [ws[w] EXCEPT !.pc = "probe", !.seen = v]
  <2>1. \A c \in Components : /\ component[c] # None /\ component[c].tree = "pinned"
                              /\ component[c].inner = Receipt(ws[w].m, "pinned")
                              /\ outer[c] = Receipt(ws[w].m, "pinned")
    <3> TAKE c \in Components
    <3>1. /\ component[c] # None /\ component[c].inner = Receipt(ws[w].m, component[c].tree)
          /\ outer[c] = Receipt(ws[w].m, component[c].tree)
      BY <1>1 DEF Inspected, ComponentsMatch, ReceiptsMatch
    <3>2. component[c].inner.tree = "pinned"
      BY <1>0, <3>1 DEF RootOK, Installed, Receipts
    <3>3. \A m, x : Receipt(m, x).tree = x BY DEF Receipt
    <3>4. component[c].tree = "pinned" BY <3>1, <3>2, <3>3
    <3> QED BY <3>1, <3>4
  <2>2. v \in Inventories
    BY <2>1 DEF Live, Inventories, Pinned
  <2>3. ws' = [ws EXCEPT ![w] = t] /\ ws[w].pc = "inspect" BY <1>1 DEF Inspect
  <2> HIDE DEF v
  <2>4. t \in Workings /\ t.pc = "probe" /\ t.m = ws[w].m /\ t.seen = v
    BY <1>0, <2>2 DEF Workings, Pcs, AfterInspection, Verifying
  <2> HIDE DEF t
  <2>5. ws'[w] = t BY <2>3, Moves
  <2>a. VerificationOK(w)'
    <3>1. ws[w].goal = "receipt" \/ global # None BY <1>1 DEF Inspected
    <3>2. t.goal = ws[w].goal BY <1>0 DEF t, Workings
    <3>3. UNCHANGED <<component, outer, global>> BY <1>1 DEF Inspect, root
    <3> QED BY <2>1, <2>2, <2>4, <2>5, <3>1, <3>2, <3>3
        DEF VerificationOK, AfterInspection, Verifying, Smoking, Running, Tools
  <2>6. Claims(w)'
    BY <1>0, <1>1, <2>1, <2>2, <2>3, <2>4, <2>5, <2>a
      DEF Claims, ControlOK, LocksOK, HydrationOK, SealingOK, PublicationOK, SmokeOK,
        InRoot, Verifying, Fetching, Publishing, AfterInspection, Sealing, Smoking, Running, Tools, Inspect,
        root
  <2> QED BY <1>0, <1>1, <2>3, <2>6, LocalStep DEF Inspect, pair
<1>2. ASSUME Probe(w),
             ws' = [ws EXCEPT ![w].seen.prints = Fingerprints, ![w].pc = AfterVerify(ws[w].goal)],
             IF ws[w].goal = "receipt" THEN holder' = holder ELSE Release(w),
             publisher' = publisher
      PROVE  Inv'
  <2> DEFINE v == [ws[w].seen EXCEPT !.prints = Fingerprints]
             p == AfterVerify(ws[w].goal)
             t == [ws[w] EXCEPT !.seen = v, !.pc = p]
  <2>1. ws[w].pc = "probe" /\ ws[w].seen \in Inventories BY <1>0, <1>2
    DEF Probe, Claims, VerificationOK, AfterInspection, Verifying
  <2>2. v \in Inventories /\ v.prints \in Prints
    BY <2>1, FingerprintsType DEF Inventories
  <2>3. ws' = [ws EXCEPT ![w] = t]
    BY <1>0, <1>2 DEF Probe, Workings
  <2>4. /\ p \in AfterInspection \ {"probe"} /\ p \in Pcs
        /\ p = "record" <=> ws[w].goal = "receipt"
    BY DEF AfterVerify, AfterInspection, Verifying, Pcs
  <2> HIDE DEF v, p
  <2>5. t \in Workings /\ t.pc = p /\ t.m = ws[w].m /\ t.seen = v /\ t.goal = ws[w].goal
    BY <1>0, <2>2, <2>4 DEF Workings
  <2> HIDE DEF t
  <2>6. ws'[w] = t BY <2>3, Moves
  <2>7. Claims(w)'
    BY <1>0, <1>2, <2>1, <2>2, <2>4, <2>5, <2>6
      DEF Claims, ControlOK, LocksOK, HydrationOK, VerificationOK, SealingOK, PublicationOK, SmokeOK,
        InRoot, Verifying, Fetching, Publishing, AfterInspection, Sealing, Smoking, Running, Tools, Probe, root
  <2> QED BY <1>0, <1>2, <2>3, <2>7, LocalStep DEF Probe, pair
<1>3. CASE RecordReceipt(w)
  <2>1. Claims(w)' /\ ws' = [ws EXCEPT ![w] = Idle] BY <1>3, LeaveClaims DEF RecordReceipt, Leave
  <2>2. /\ ws[w].seen.trees = Pinned
        /\ \A c \in Components : /\ component[c] # None
                                 /\ component[c].inner = Receipt(ws[w].m, "pinned")
                                 /\ outer[c] = Receipt(ws[w].m, "pinned")
    BY <1>0, <1>3 DEF RecordReceipt, Claims, VerificationOK, AfterInspection, Verifying, Inventories
  <2>0. ws[w].seen.prints \in Prints
    BY <1>0, <1>3 DEF RecordReceipt, Claims, VerificationOK, AfterInspection, Verifying
  <2>3. RootOK' /\ RootGrows
    BY <1>0, <1>3, <2>0, <2>2, NoneAssumption
      DEF RootOK, RootGrows, GlobalReceiptIsReviewed, RecordReceipt, Pinned, Prints, Trees, Receipt
  <2> QED BY <1>0, <1>3, <2>1, <2>3, RootStep DEF RecordReceipt, InRoot, Verifying
<1>4. CASE Leave(w) /\ UNCHANGED <<root, lock, views, torn, inputs, results>>
  BY <1>0, <1>4, LeaveStep DEF InRoot, Verifying, Fetching
<1>5. CASE Probe(w)
  <2>1. PICK tracked \in BOOLEAN :
          IF Probed(w, tracked)
          THEN /\ ws' = [ws EXCEPT ![w].seen.prints = Fingerprints, ![w].pc = AfterVerify(ws[w].goal)]
               /\ IF ws[w].goal = "receipt" THEN holder' = holder ELSE Release(w)
               /\ UNCHANGED publisher
          ELSE Leave(w)
    BY <1>5 DEF Probe
  <2>2. UNCHANGED <<root, lock, views, torn, inputs, results>> BY <1>5 DEF Probe
  <2> QED BY <1>2, <1>4, <1>5, <2>1, <2>2
<1> QED BY <1>1, <1>3, <1>4, <1>5 DEF Verify, Inspect, Answer

\* platform lock makes and checks a lock, after the root was given back.
LEMMA SealStep ==
    ASSUME Inv, NEW w \in Workers, Seal(w) \/ HashArtifacts(w) \/ CheckSealed(w)
    PROVE  Inv'
<1>0. /\ Claims(w) /\ ws[w] \in Workings /\ RootOK /\ ws[w].pc \in {"seal", "artifacts", "sealed"}
      /\ ws[w].m \in Nat /\ locks' \in Nat
      /\ ws[w].pc \notin Publishing /\ ws[w].pc \notin {"half", "restore"}
  BY DEF Inv, Claims, ControlOK, InputsOK, Seal, HashArtifacts, CheckSealed, counters, Publishing
<1>1. CASE Seal(w) /\ TreeUnchanged(w)
  <2> DEFINE l == [manifest |-> ws[w].m, tree |-> component[Orfs].tree, artifacts |-> None,
                   prints |-> ws[w].seen.prints, stamp |-> locks + 1]
             t == [ws[w] EXCEPT !.pc = "artifacts", !.made = l]
  <2>0. Orfs \in Components BY PlatformAssumption
  <2>1. /\ ws[w].pc = "seal" /\ ws[w].seen \in Inventories /\ ws[w].seen.prints \in Prints
        /\ component[Orfs] # None
    BY <1>0, <1>1, <2>0 DEF Seal, Claims, VerificationOK, AfterInspection
  <2>2. component[Orfs].tree = "pinned"
    BY <1>1, <2>0, <2>1 DEF TreeUnchanged, Inventories, Pinned
  <2>3. l \in Locks BY <1>0, <2>1, <2>2 DEF Locks, Inv, InputsOK
  <2>4. ws' = [ws EXCEPT ![w] = t] BY <1>1 DEF Seal
  <2> HIDE DEF l
  <2>5. t \in Workings /\ t.pc = "artifacts" /\ t.m = ws[w].m /\ t.made = l
    BY <1>0, <2>3 DEF Workings, Pcs, Sealing
  <2> HIDE DEF t
  <2>6. ws'[w] = t BY <2>4, Moves
  <2>7. Claims(w)'
    BY <1>0, <1>1, <2>1, <2>3, <2>5, <2>6
      DEF Claims, ControlOK, LocksOK, HydrationOK, VerificationOK, SealingOK, PublicationOK, SmokeOK,
        InRoot, Verifying, Fetching, Publishing, AfterInspection, Sealing, Smoking, Running, Tools, Seal, root
  <2> QED BY <1>0, <1>1, <2>4, <2>7, LocalStep DEF Seal, pair
<1>2. CASE HashArtifacts(w)
  <2> DEFINE x == component[Orfs].tree
             l == [ws[w].made EXCEPT !.artifacts = x]
             t == [ws[w] EXCEPT !.pc = "sealed", !.made = l]
  <2>1. ws[w].pc = "artifacts" /\ ws[w].made \in Locks /\ component[Orfs] # None
    BY <1>0, <1>2 DEF HashArtifacts, Claims, SealingOK, Sealing
  <2>2. x \in Trees BY <1>0, <2>1, PlatformAssumption DEF RootOK, Installed
  <2>4. ws' = [ws EXCEPT ![w] = t] BY <1>0, <1>2 DEF HashArtifacts, Workings
  <2> HIDE DEF x
  <2>3. l \in Locks BY <2>1, <2>2 DEF Locks
  <2> HIDE DEF l
  <2>5. t \in Workings /\ t.pc = "sealed" /\ t.m = ws[w].m /\ t.made = l
    BY <1>0, <2>3 DEF Workings, Pcs, Sealing
  <2> HIDE DEF t
  <2>6. ws'[w] = t BY <2>4, Moves
  <2>7. Claims(w)'
    BY <1>0, <1>2, <2>1, <2>3, <2>5, <2>6
      DEF Claims, ControlOK, LocksOK, HydrationOK, VerificationOK, SealingOK, PublicationOK, SmokeOK,
        InRoot, Verifying, Fetching, Publishing, AfterInspection, Sealing, Smoking, Running, Tools, HashArtifacts, root
  <2> QED BY <1>0, <1>2, <2>4, <2>7, LocalStep DEF HashArtifacts, pair, counters
<1>3. CASE CheckSealed(w) /\ LockHolds(ws[w].made)
  <2> DEFINE t == [ws[w] EXCEPT !.pc = "publish"]
  <2>1. ws[w].pc = "sealed" /\ ws[w].made \in Locks
    BY <1>0, <1>3 DEF CheckSealed, Claims, SealingOK, Sealing
  <2>2. ws[w].made.artifacts = "pinned"
    BY <1>3, <2>1 DEF LockHolds, ArtifactsHold, Locks
  <2>3. ws' = [ws EXCEPT ![w] = t] BY <1>3 DEF CheckSealed, Goto
  <2>4. t \in Workings /\ t.pc = "publish" /\ t.m = ws[w].m /\ t.made = ws[w].made
    BY <1>0 DEF Workings, Pcs, Sealing
  <2> HIDE DEF t
  <2>5. ws'[w] = t BY <2>3, Moves
  <2>6. Claims(w)'
    BY <1>0, <1>3, <2>1, <2>2, <2>4, <2>5
      DEF Claims, ControlOK, LocksOK, HydrationOK, VerificationOK, SealingOK, PublicationOK, SmokeOK,
        InRoot, Verifying, Fetching, Publishing, AfterInspection, Sealing, Smoking, Running, Tools, CheckSealed, root
  <2> QED BY <1>0, <1>3, <2>3, <2>6, LocalStep DEF CheckSealed, pair
<1>4. CASE Leave(w) /\ UNCHANGED <<root, lock, views, torn, inputs, results>>
  BY <1>0, <1>4, LeaveStep
<1> QED BY <1>1, <1>2, <1>3, <1>4 DEF Seal, CheckSealed

\* Lock and views are replaced one after the other, or put back.
LEMMA PublishStep ==
    ASSUME Inv, NEW w \in Workers,
           TakePublication(w) \/ PutLock(w) \/ PutViews(w) \/ Published(w)
    PROVE  Inv'
<1>0. /\ Claims(w) /\ ws[w] \in Workings /\ PairOK /\ ws[w].m \in Nat /\ locks \in Nat /\ locks' = locks
      /\ ws[w].pc \in {"publish", "stage", "half", "bound"}
      /\ ws[w].made \in Locks /\ ws[w].made.artifacts = "pinned"
  BY DEF Inv, Claims, ControlOK, InputsOK, TakePublication, PutLock, PutViews, Published, counters,
         SealingOK, Sealing
<1>1. CASE TakePublication(w)
  <2> DEFINE p == [lock |-> lock, views |-> views]
             t == [ws[w] EXCEPT !.pc = "stage", !.prior = p]
  <2>1. ws[w].pc = "publish" /\ publisher = None /\ publisher' = w BY <1>1 DEF TakePublication
  <2>2. /\ p \in Priors /\ p.lock = lock /\ p.views = views /\ lock.artifacts = "pinned"
        /\ views = lock \/ torn
    BY <1>0, <2>1 DEF PairOK, PairBound, ViewsOf, Priors
  <2>3. ws' = [ws EXCEPT ![w] = t] BY <1>1 DEF TakePublication
  <2> HIDE DEF p
  <2>4. t \in Workings /\ t.pc = "stage" /\ t.m = ws[w].m /\ t.made = ws[w].made /\ t.prior = p
    BY <1>0, <2>2 DEF Workings, Pcs, Sealing
  <2> HIDE DEF t
  <2>5. ws'[w] = t BY <2>3, Moves
  <2>6. Claims(w)'
    BY <1>0, <1>1, <2>1, <2>2, <2>4, <2>5
      DEF Claims, ControlOK, LocksOK, HydrationOK, VerificationOK, SealingOK, PublicationOK, SmokeOK,
        InRoot, Verifying, Fetching, Publishing, AfterInspection, Sealing, Smoking, Running, Tools, TakePublication, root
  <2>7. Spares(w)
    BY <1>1, <2>3, Moves, NoneAssumption DEF TakePublication, Spares, RootGrows, root
  <2>8. RootOK' BY <1>1, QuietRoot DEF TakePublication
  <2>9. PairOK' BY <1>0, <1>1, <2>1, NoneAssumption DEF TakePublication, PairOK, PairBound
  <2>10. ResultsOK' /\ InputsOK'
    BY <1>1 DEF Inv, ResultsOK, InputsOK, DoctorTellsTheTruth, ReportNamesWhatRan, results, inputs,
                TakePublication, counters
  <2> QED BY <2>6, <2>7, <2>8, <2>9, <2>10, OthersKeep DEF Inv, Spares
<1>2. CASE PutLock(w) /\ LockHolds(ws[w].made)
  <2> DEFINE t == [ws[w] EXCEPT !.pc = "half"]
  <2>1. ws[w].pc = "stage" /\ publisher = w
    BY <1>0, <1>2 DEF PutLock, Claims, LocksOK, Publishing
  <2>2. ws' = [ws EXCEPT ![w] = t] BY <1>2 DEF PutLock, Goto
  <2>3. /\ t \in Workings /\ t.pc = "half" /\ t.m = ws[w].m /\ t.made = ws[w].made
        /\ t.prior = ws[w].prior
    BY <1>0 DEF Workings, Pcs, Sealing
  <2> HIDE DEF t
  <2>4. ws'[w] = t BY <2>2, Moves
  <2>5. Claims(w)'
    BY <1>0, <1>2, <2>1, <2>3, <2>4
      DEF Claims, ControlOK, LocksOK, HydrationOK, VerificationOK, SealingOK, PublicationOK, SmokeOK,
        InRoot, Verifying, Fetching, Publishing, AfterInspection, Sealing, Smoking, Running, Tools, PutLock, root
  <2>6. PairOK' BY <1>0, <1>2, <2>1, NoneAssumption DEF PutLock, PairOK, PairBound
  <2> QED BY <1>0, <1>2, <2>1, <2>2, <2>5, <2>6, PairStep DEF PutLock, Publishing
<1>3. CASE PutLock(w) /\ ~LockHolds(ws[w].made)
  BY <1>0, <1>3, LeaveStep DEF PutLock
<1>4. CASE PutViews(w)
  <2> DEFINE t == [ws[w] EXCEPT !.pc = "bound"]
  <2>1. ws[w].pc = "half" /\ publisher = w
    BY <1>0, <1>4 DEF PutViews, Claims, LocksOK, Publishing
  <2>2. ws' = [ws EXCEPT ![w] = t] BY <1>4 DEF PutViews, Goto
  <2>3. /\ t \in Workings /\ t.pc = "bound" /\ t.m = ws[w].m /\ t.made = ws[w].made
        /\ t.prior = ws[w].prior
    BY <1>0 DEF Workings, Pcs, Sealing
  <2> HIDE DEF t
  <2>4. ws'[w] = t BY <2>2, Moves
  <2>5. Claims(w)'
    BY <1>0, <1>4, <2>1, <2>3, <2>4
      DEF Claims, ControlOK, LocksOK, HydrationOK, VerificationOK, SealingOK, PublicationOK, SmokeOK,
        InRoot, Verifying, Fetching, Publishing, AfterInspection, Sealing, Smoking, Running, Tools, PutViews, root, ViewsOf
  <2>6. PairOK' BY <1>0, <1>4, <2>1, NoneAssumption DEF PutViews, PairOK, PairBound, ViewsOf
  <2> QED BY <1>0, <1>4, <2>1, <2>2, <2>5, <2>6, PairStep DEF PutViews, Publishing
<1>5. CASE Published(w)
  <2>1. ws[w].pc \in Publishing /\ views = ViewsOf(lock) BY <1>5 DEF Published, Publishing
  <2>2. Claims(w)' /\ ws' = [ws EXCEPT ![w] = Idle] BY <1>5, LeaveClaims DEF Published, Leave
  <2>3. PairOK' BY <1>0, <1>5, <2>1 DEF Published, PairOK, PairBound, ViewsOf
  <2> QED BY <1>0, <1>5, <2>1, <2>2, <2>3, PairStep DEF Published
<1> QED BY <1>1, <1>2, <1>3, <1>4, <1>5

LEMMA RollBackStep ==
    ASSUME Inv, NEW w \in Workers, RollBack(w) \/ RestoreViews(w) \/ RestoreFails(w)
    PROVE  Inv'
<1>0. /\ Claims(w) /\ ws[w] \in Workings /\ PairOK /\ ws[w].m \in Nat /\ locks' = locks
      /\ ws[w].pc \in {"half", "bound", "restore"} /\ ws[w].pc \in Publishing /\ publisher = w
      /\ ws[w].prior \in Priors /\ ws[w].prior.lock.artifacts = "pinned"
      /\ ws[w].prior.views = ws[w].prior.lock \/ torn
      /\ ws[w].pc = "half" => views = ws[w].prior.views
      /\ ws[w].pc = "bound" => lock = ws[w].made /\ views = ws[w].made
      /\ ws[w].pc = "restore" => lock = ws[w].prior.lock
  BY DEF Inv, Claims, ControlOK, LocksOK, RollBack, RestoreViews, RestoreFails, counters,
         PublicationOK, Publishing
<1>1. CASE RollBack(w) /\ ws[w].pc = "bound"
  <2> DEFINE t == [ws[w] EXCEPT !.pc = "restore"]
  <2>1. ws' = [ws EXCEPT ![w] = t] BY <1>1 DEF RollBack, Goto
  <2>2. /\ t \in Workings /\ t.pc = "restore" /\ t.m = ws[w].m /\ t.prior = ws[w].prior
    BY <1>0 DEF Workings, Pcs, Publishing
  <2> HIDE DEF t
  <2>3. ws'[w] = t BY <2>1, Moves
  <2>4. lock' = ws[w].prior.lock /\ UNCHANGED <<views, torn, holder, publisher>>
    BY <1>1 DEF RollBack, RestoredLock
  <2>5. Claims(w)'
    BY <1>0, <2>2, <2>3, <2>4
      DEF Claims, ControlOK, LocksOK, HydrationOK, VerificationOK, SealingOK, PublicationOK, SmokeOK,
        InRoot, Verifying, Fetching, Publishing, AfterInspection, Sealing, Smoking, Running, Tools
  <2>6. PairOK' BY <1>0, <2>4, NoneAssumption DEF PairOK, PairBound, Priors
  <2> QED BY <1>0, <1>1, <2>1, <2>4, <2>5, <2>6, PairStep DEF RollBack
<1>2. CASE Leave(w) /\ ~(RollBack(w) /\ ws[w].pc = "bound")
  <2>1. Claims(w)' /\ ws' = [ws EXCEPT ![w] = Idle] BY <1>2, LeaveClaims DEF Leave
  <2>2. PairOK'
    <3>1. CASE RollBack(w)
      BY <1>0, <1>2, <3>1 DEF RollBack, RestoredLock, PairOK, PairBound, ViewsOf, Priors
    <3>2. CASE RestoreViews(w)
      BY <1>0, <3>2 DEF RestoreViews, PairOK, PairBound, ViewsOf, Priors
    <3>3. CASE RestoreFails(w)
      BY <1>0, <3>3 DEF RestoreFails, Half, PairOK, PairBound, ViewsOf
    <3> QED BY <3>1, <3>2, <3>3
  <2> QED BY <1>0, <1>2, <2>1, <2>2, PairStep DEF RollBack, RestoreViews, RestoreFails
<1> QED BY <1>1, <1>2 DEF RollBack, RestoreViews, RestoreFails

\* doctor: the tree that matches the published lock is the reviewed one.
LEMMA DiagnoseStep ==
    ASSUME Inv, NEW w \in Workers, Diagnose(w)
    PROVE  Inv'
<1>0. /\ ws[w].pc = "diagnose" /\ Leave(w) /\ locks' = locks
      /\ UNCHANGED <<root, lock, views, torn, inputs, report>>
  BY DEF Diagnose, counters
<1>1. Claims(w)' /\ Spares(w) BY <1>0, LeaveClaims, LeaveSpares
<1>2. RootOK' BY <1>0, QuietRoot
<1>3. PairOK'
  <2>1. publisher # w BY <1>0 DEF Inv, Claims, LocksOK, Publishing
  <2> QED BY <1>0, <2>1, QuietPair DEF Leave
<1>4. DoctorTellsTheTruth'
  <2>1. Orfs \in Components BY PlatformAssumption
  <2>2. LockHolds(lock) => Live[Orfs] = "pinned"
    BY <2>1 DEF LockHolds, Live, Inv, PairOK, Locks
  <2>3. diagnosis' = [status |-> LockCheck(lock), tree |-> Live[Orfs]] BY DEF Diagnose
  <2>4. LockCheck(lock) = "PASS" => LockHolds(lock) BY DEF LockCheck
  <2> QED BY <2>2, <2>3, <2>4 DEF DoctorTellsTheTruth
<1>5. ReportNamesWhatRan' /\ InputsOK'
  BY <1>0 DEF Inv, ResultsOK, InputsOK, ReportNamesWhatRan, inputs
<1> QED BY <1>1, <1>2, <1>3, <1>4, <1>5, OthersKeep DEF Inv, Spares, ResultsOK

\* The smoke run checks the lock and copies its inputs.
LEMMA CopyStep ==
    ASSUME Inv, NEW w \in Workers, SmokeLock(w) \/ Snapshot(w)
    PROVE  Inv'
<1>0. /\ Claims(w) /\ ws[w] \in Workings /\ PairOK /\ ws[w].m \in Nat /\ locks \in Nat /\ locks' = locks
      /\ sources["rtl"] \in Nat /\ sources["sdc"] \in Nat /\ ws[w].pc \in {"smoke", "snapshot", "constraints"}
      /\ publisher # w
  BY DEF Inv, Claims, ControlOK, InputsOK, SmokeLock, Snapshot, counters, LocksOK, Publishing
<1>1. CASE SmokeLock(w) /\ LockHolds(lock) /\ lock.manifest = ws[w].m /\ lock.prints = ws[w].seen.prints
  <2> DEFINE t == [ws[w] EXCEPT !.pc = "snapshot", !.made = lock]
  <2>1. ws' = [ws EXCEPT ![w] = t] /\ ws[w].pc = "smoke" BY <1>1 DEF SmokeLock
  <2>2. t \in Workings /\ t.pc = "snapshot" /\ t.m = ws[w].m /\ t.made = lock
    BY <1>0 DEF Workings, Pcs, Smoking, PairOK
  <2> HIDE DEF t
  <2>3. ws'[w] = t BY <2>1, Moves
  <2>4. UNCHANGED <<component, outer, global, publisher>> BY <1>1 DEF SmokeLock, root
  <2>5. VerificationOK(w)'
    BY <1>0, <2>1, <2>2, <2>3, <2>4
      DEF Claims, VerificationOK, AfterInspection, Verifying, Smoking, Running, Tools
  <2>6. SmokeOK(w)'
    BY <1>0, <1>1, <2>2, <2>3 DEF SmokeOK, Smoking, Running, Tools, PairOK
  <2>7. Claims(w)'
    BY <1>0, <2>2, <2>3, <2>4, <2>5, <2>6
      DEF Claims, ControlOK, LocksOK, HydrationOK, SealingOK, PublicationOK,
        InRoot, Verifying, Fetching, Publishing, Sealing
  <2> QED BY <1>0, <1>1, <2>1, <2>7, LocalStep DEF SmokeLock, pair
<1>2. ASSUME NEW p \in {"constraints", "flow"}, NEW r \in Nat, NEW c \in Nat,
             ws[w].pc \in {"snapshot", "constraints"},
             ws' = [ws EXCEPT ![w].pc = p, ![w].smoke = Copied(r, c)],
             UNCHANGED <<root, holder, pair, inputs, results>>
      PROVE  Inv'
  <2> DEFINE k == Copied(r, c)
             t == [ws[w] EXCEPT !.pc = p, !.smoke = k]
  <2>1. ws' = [ws EXCEPT ![w] = t] BY <1>2
  <2>2. /\ k \in Copies /\ k.now = k.kept /\ k.kept["orfs"] = k.kept["sdc"] /\ ReadsOK(k)
    BY DEF Copied, Copies, Guarded, Unknown, ReadsOK
  <2> HIDE DEF k
  <2>3. t \in Workings /\ t.pc = p /\ t.m = ws[w].m /\ t.made = ws[w].made /\ t.smoke = k
    <3>1. p \in Pcs BY DEF Pcs, Smoking, Running, Tools
    <3>2. ws[w] \in Workings /\ k \in Copies \cup {None} BY <1>0, <2>2
    <3> QED BY <3>1, <3>2 DEF Workings
  <2> HIDE DEF t
  <2>4. ws'[w] = t BY <2>1, Moves
  <2>5. UNCHANGED <<component, outer, global, publisher>> BY <1>2 DEF root, pair
  <2>6. VerificationOK(w)'
    BY <1>0, <1>2, <2>3, <2>4, <2>5
      DEF Claims, VerificationOK, AfterInspection, Verifying, Smoking, Running, Tools
  <2>7. SmokeOK(w)'
    BY <1>0, <1>2, <2>2, <2>3, <2>4 DEF Claims, SmokeOK, Smoking, Running, Tools
  <2>8. Claims(w)'
    BY <1>0, <1>2, <2>3, <2>4, <2>5, <2>6, <2>7
      DEF Claims, ControlOK, LocksOK, HydrationOK, SealingOK, PublicationOK,
        InRoot, Verifying, Fetching, Publishing, Sealing
  <2> QED BY <1>0, <1>2, <2>1, <2>8, LocalStep
<1>3. CASE Snapshot(w)
  <2>1. CASE ws[w].pc = "snapshot"
    BY <1>0, <1>2, <1>3, <2>1 DEF Snapshot, Unknown
  <2>2. CASE ws[w].pc = "constraints"
    <3>1. ws[w].smoke.kept["rtl"] \in Nat
      BY <1>0, <2>2 DEF Claims, SmokeOK, Smoking, Copies, Guarded
    <3> QED BY <1>0, <1>2, <1>3, <2>2, <3>1 DEF Snapshot
  <2> QED BY <1>3, <2>1, <2>2 DEF Snapshot
<1>4. CASE Leave(w) /\ UNCHANGED <<root, lock, views, torn, inputs, results>>
  BY <1>0, <1>4, LeaveStep
<1> QED BY <1>1, <1>3, <1>4 DEF SmokeLock

\* What a tool reads of a copy are the bytes the copy was taken with.
LEMMA ReadsAreKept ==
    ASSUME Inv, NEW w \in Workers, ws[w].pc \in Tools
    PROVE  /\ Read(w) \subseteq ReadItems
           /\ \A i \in Read(w) : /\ i[1] = "rtl" => i[2] = ws[w].smoke.kept["rtl"]
                                 /\ i[1] \in {"sdc", "orfs"} => i[2] = ws[w].smoke.kept["sdc"]
<1> DEFINE s == ws[w].smoke
<1>1. /\ s \in Copies /\ s.kept["orfs"] = s.kept["sdc"]
      /\ s.now["rtl"] = s.kept["rtl"] /\ s.now["sdc"] = s.kept["sdc"]
      /\ ws[w].pc = "flow" => s.now["orfs"] = s.kept["orfs"]
  BY DEF Inv, Claims, SmokeOK, Smoking, Running, Tools
<1>2. /\ s.now["rtl"] \in Nat /\ s.now["sdc"] \in Nat /\ s.now["orfs"] \in Nat /\ s.netlist \in Nat
  BY <1>1 DEF Copies, Guarded
<1>3. component[Orfs].tree \in Trees
  <2>1. Orfs \in Components BY PlatformAssumption
  <2>2. component[Orfs] # None
    BY <2>1 DEF Inv, Claims, VerificationOK, Smoking, Running, Tools
  <2> QED BY <2>1, <2>2 DEF Inv, RootOK, Installed
<1> HIDE DEF s
<1>4. CASE ws[w].pc = "flow"
  <2>1. Read(w) = {<<"rtl", s.now["rtl"]>>, <<"orfs", s.now["orfs"]>>}
    BY <1>4 DEF Read, s
  <2> QED BY <1>1, <1>2, <1>4, <2>1 DEF ReadItems, s
<1>5. CASE ws[w].pc # "flow"
  <2>1. Read(w) = {<<"sdc", s.now["sdc"]>>, <<"netlist", s.netlist>>, <<"liberty", component[Orfs].tree>>}
    BY <1>5 DEF Read, s
  <2> QED BY <1>1, <1>2, <1>3, <1>5, <2>1 DEF ReadItems, s
<1> QED BY <1>4, <1>5

\* A tool reads, and the copies it was watched for are as they were.
LEMMA ToolStep ==
    ASSUME Inv, NEW w \in Workers, Consume(w)
    PROVE  Inv'
<1>0. /\ Claims(w) /\ ws[w] \in Workings /\ ws[w].m \in Nat /\ locks \in Nat /\ locks' = locks
      /\ ws[w].pc \in Tools /\ UNCHANGED <<root, lock, views, torn, inputs, results>>
      /\ ws[w].smoke \in Copies
  BY DEF Inv, Claims, ControlOK, InputsOK, Consume, counters, SmokeOK, Smoking, Running, Tools
<1>1. PICK altered \in SUBSET Guarded, netlist \in Netlists(w) :
        LET now == [f \in Guarded |-> IF f \in altered THEN Unknown ELSE ws[w].smoke.now[f]] IN
        IF \A f \in Watched(ws[w].pc) : SnapshotHeld(w, f, now)
        THEN /\ ws' = [ws EXCEPT ![w].pc = After(@),
                                 ![w].smoke = [ws[w].smoke EXCEPT !.now = now, !.netlist = netlist,
                                                                  !.read = @ \cup Read(w)]]
             /\ UNCHANGED <<holder, publisher>>
        ELSE Leave(w)
  BY DEF Consume
<1> DEFINE s == ws[w].smoke
           now == [f \in Guarded |-> IF f \in altered THEN Unknown ELSE s.now[f]]
           read == s.read \cup Read(w)
           k == [s EXCEPT !.now = now, !.netlist = netlist, !.read = read]
           p == After(ws[w].pc)
           t == [ws[w] EXCEPT !.pc = p, !.smoke = k]
<1>2. CASE \A f \in Watched(ws[w].pc) : SnapshotHeld(w, f, now)
  <2>1. now \in [Guarded -> Nat] /\ netlist \in Nat
    BY <1>0 DEF Copies, Guarded, Unknown, Netlists
  <2>2. now["rtl"] = s.kept["rtl"] /\ now["sdc"] = s.kept["sdc"]
    BY <1>2 DEF Watched, Guarded, SnapshotHeld
  <2>3. /\ read \subseteq ReadItems
        /\ \A i \in read : /\ i[1] = "rtl" => i[2] = s.kept["rtl"]
                           /\ i[1] \in {"sdc", "orfs"} => i[2] = s.kept["sdc"]
    <3>1. s.read \subseteq ReadItems BY <1>0 DEF Copies
    <3>2. ReadsOK(s) BY <1>0 DEF Claims, SmokeOK, Running
    <3> QED BY <1>0, <3>1, <3>2, ReadsAreKept DEF ReadsOK
  <2>4. ws' = [ws EXCEPT ![w] = t] /\ UNCHANGED <<holder, publisher>>
    BY <1>0, <1>1, <1>2 DEF Workings, Copies
  <2>5. p \in {"setup", "hold", "recheck"} BY DEF After
  <2> HIDE DEF now, read, p
  <2>6. /\ k \in Copies /\ k.kept = s.kept /\ k.now = now /\ k.read = read
    BY <1>0, <2>1, <2>3 DEF Copies
  <2>7. ReadsOK(k) BY <2>3, <2>6 DEF ReadsOK
  <2> HIDE DEF k
  <2>8. t \in Workings /\ t.pc = p /\ t.m = ws[w].m /\ t.made = ws[w].made /\ t.smoke = k
    <3>1. p \in Pcs BY <2>5 DEF Pcs, Smoking, Running, Tools
    <3>2. ws[w] \in Workings /\ k \in Copies \cup {None} BY <1>0, <2>6
    <3> QED BY <3>1, <3>2 DEF Workings
  <2> HIDE DEF t
  <2>9. ws'[w] = t BY <2>4, Moves
  <2>10. s.kept["orfs"] = s.kept["sdc"] BY <1>0 DEF Claims, SmokeOK, Running
  <2>11. UNCHANGED <<component, outer, global>> BY <1>0 DEF root
  <2>12. VerificationOK(w)'
    BY <1>0, <2>5, <2>8, <2>9, <2>11
      DEF Claims, VerificationOK, AfterInspection, Verifying, Smoking, Running, Tools
  <2>13. SmokeOK(w)'
    BY <1>0, <2>2, <2>5, <2>6, <2>7, <2>8, <2>9, <2>10 DEF Claims, SmokeOK, Smoking, Running, Tools
  <2>14. Claims(w)'
    BY <1>0, <2>4, <2>5, <2>8, <2>9, <2>12, <2>13
      DEF Claims, ControlOK, LocksOK, HydrationOK, SealingOK, PublicationOK,
        InRoot, Verifying, Fetching, Publishing, Sealing, Tools
  <2> QED BY <1>0, <2>4, <2>14, LocalStep DEF pair
<1>3. CASE ~\A f \in Watched(ws[w].pc) : SnapshotHeld(w, f, now)
  <2>1. Leave(w) BY <1>1, <1>3
  <2> QED BY <1>0, <2>1, LeaveStep DEF Tools
<1> QED BY <1>2, <1>3

\* The copies are looked at once more, and the report is made.
LEMMA ReportStep ==
    ASSUME Inv, NEW w \in Workers, Recheck(w) \/ ReportSmoke(w)
    PROVE  Inv'
<1>0. /\ Claims(w) /\ ws[w] \in Workings /\ PairOK /\ ws[w].m \in Nat /\ locks \in Nat /\ locks' = locks
      /\ ws[w].pc \in {"recheck", "report"} /\ publisher # w
  BY DEF Inv, Claims, ControlOK, InputsOK, Recheck, ReportSmoke, counters, LocksOK, Publishing
<1>1. CASE Recheck(w) /\ Goto(w, "report") /\ UNCHANGED <<holder, publisher>>
  <2> DEFINE t == [ws[w] EXCEPT !.pc = "report"]
  <2>1. ws' = [ws EXCEPT ![w] = t] BY <1>1 DEF Goto
  <2>2. /\ t \in Workings /\ t.pc = "report" /\ t.m = ws[w].m /\ t.made = ws[w].made
        /\ t.smoke = ws[w].smoke
    BY <1>0 DEF Workings, Pcs, Smoking, Running
  <2> HIDE DEF t
  <2>3. ws'[w] = t BY <2>1, Moves
  <2>4. UNCHANGED <<component, outer, global, publisher>> BY <1>1 DEF Recheck, root
  <2>5. VerificationOK(w)' /\ SmokeOK(w)'
    BY <1>0, <2>2, <2>3, <2>4
      DEF Claims, VerificationOK, SmokeOK, AfterInspection, Verifying, Smoking, Running, Tools
  <2>6. Claims(w)'
    BY <1>0, <2>2, <2>3, <2>4, <2>5
      DEF Claims, ControlOK, LocksOK, HydrationOK, SealingOK, PublicationOK,
        InRoot, Verifying, Fetching, Publishing, Sealing
  <2> QED BY <1>0, <1>1, <2>1, <2>6, LocalStep DEF Recheck, pair
<1>2. CASE ReportSmoke(w)
  <2>0. Leave(w) /\ UNCHANGED <<root, lock, views, torn, inputs, diagnosis>> BY <1>2 DEF ReportSmoke
  <2>1. Claims(w)' /\ Spares(w) BY <2>0, LeaveClaims, LeaveSpares
  <2>2. RootOK' BY <2>0, QuietRoot
  <2>3. PairOK' BY <1>0, <2>0, QuietPair DEF Leave
  <2>4. ReportNamesWhatRan'
    <3>1. /\ ws[w].made \in Locks /\ ws[w].made.artifacts = "pinned" /\ ws[w].made.manifest = ws[w].m
          /\ ws[w].smoke.now["rtl"] = ws[w].smoke.kept["rtl"]
          /\ ws[w].smoke.now["sdc"] = ws[w].smoke.kept["sdc"]
          /\ ReadsOK(ws[w].smoke)
      BY <1>0 DEF Claims, SmokeOK, Smoking, Running
    <3>2. /\ global # None
          /\ \A c \in Components : component[c].inner = Receipt(ws[w].m, "pinned")
      BY <1>0 DEF Claims, VerificationOK, Smoking, Running
    <3>3. global.manifest = ws[w].m /\ \A c \in Components : global.trees[c] = "pinned"
      <4>1. \A c \in Components : Receipt(global.manifest, global.trees[c]) = Receipt(ws[w].m, "pinned")
        BY <3>2 DEF Inv, RootOK, GlobalReceiptIsReviewed
      <4>2. \A c \in Components : global.manifest = ws[w].m /\ global.trees[c] = "pinned"
        <5> TAKE c \in Components
        <5>1. Receipt(global.manifest, global.trees[c]) = Receipt(ws[w].m, "pinned") BY <4>1
        <5>2. \A m, x : Receipt(m, x).manifest = m /\ Receipt(m, x).tree = x BY DEF Receipt
        <5> QED BY <5>1, <5>2
      <4> QED BY <4>2, PlatformAssumption
    <3>4. report' = [manifest |-> ws[w].m, receipt |-> global, named |-> lock, used |-> ws[w].made,
                     rtl |-> ws[w].smoke.now["rtl"], sdc |-> ws[w].smoke.now["sdc"],
                     netlist |-> ws[w].smoke.netlist, read |-> ws[w].smoke.read]
      BY <1>2 DEF ReportSmoke
    <3>5. lock.tree = "pinned" /\ lock.artifacts = "pinned" /\ ws[w].made.tree = "pinned"
      BY <1>0, <3>1 DEF PairOK, Locks
    <3> QED BY <3>1, <3>3, <3>4, <3>5 DEF ReportNamesWhatRan, ReadsOK
  <2>5. DoctorTellsTheTruth' /\ InputsOK'
    BY <1>0, <2>0 DEF Inv, ResultsOK, InputsOK, DoctorTellsTheTruth, inputs
  <2> QED BY <2>1, <2>2, <2>3, <2>4, <2>5, OthersKeep DEF Inv, Spares, ResultsOK
<1>3. CASE Leave(w) /\ UNCHANGED <<root, lock, views, torn, inputs, results>>
  BY <1>0, <1>3, LeaveStep
<1> QED BY <1>1, <1>2, <1>3 DEF Recheck

LEMMA SmokeStep ==
    ASSUME Inv, NEW w \in Workers, Smoke(w)
    PROVE  Inv'
BY CopyStep, ToolStep, ReportStep DEF Smoke

\* A process dies: its flocks are released, and only a half written pair is
\* left apart.
LEMMA DieStep ==
    ASSUME Inv, NEW w \in Workers, Die(w)
    PROVE  Inv'
<1>0. /\ Leave(w) /\ UNCHANGED <<root, lock, views, inputs, results>> /\ locks' = locks
      /\ torn' = (torn \/ Half(w))
  BY DEF Die
<1>1. Claims(w)' BY <1>0, LeaveClaims
<1>2. Spares(w)
  <2>1. ws' = [d \in Workers |-> ws'[d]] /\ \A d \in Workers \ {w} : ws'[d] = ws[d]
    BY <1>0, Moves DEF Leave
  <2>2. UNCHANGED <<component, outer, cached, global, lock, views>> /\ (torn => torn')
    BY <1>0 DEF root
  <2>3. \A d \in Workers \ {w} : (publisher' = d <=> publisher = d) /\ (holder = d => holder' = d)
    BY <1>0, NoneAssumption DEF Leave, Release
  <2> QED BY <2>1, <2>2, <2>3 DEF Spares, RootGrows
<1>3. RootOK' BY <1>0, QuietRoot
<1>4. PairOK'
  <2>1. CASE ws[w].pc \in Publishing
    <3>1. views = lock \/ torn \/ Half(w)
      BY <2>1 DEF Inv, Claims, PublicationOK, Publishing, Half
    <3> QED BY <1>0, <3>1 DEF Inv, PairOK, PairBound, ViewsOf
  <2>2. CASE ws[w].pc \notin Publishing
    <3>1. publisher # w BY <2>2 DEF Inv, Claims, LocksOK
    <3> QED BY <1>0, <3>1 DEF Inv, PairOK, PairBound, ViewsOf, Leave
  <2> QED BY <2>1, <2>2
<1>5. ResultsOK' /\ InputsOK'
  BY <1>0 DEF Inv, ResultsOK, InputsOK, DoctorTellsTheTruth, ReportNamesWhatRan, results, inputs
<1> QED BY <1>1, <1>2, <1>3, <1>4, <1>5, OthersKeep DEF Inv, Spares

\* Files are edited, and cached archives rot, while commands run.
LEMMA WorldStep ==
    ASSUME Inv,
           \/ EditManifest \/ EditSource \/ (\E c \in Components : EditTree(c))
           \/ \E a \in Archives : CacheRots(a)
    PROVE  Inv'
<1>0. /\ UNCHANGED <<outer, global, holder, pair, results, ws, locks>>
      /\ InputsOK' /\ ResultsOK'
  BY DEF EditManifest, EditSource, EditTree, CacheRots, Edit, root, counters, inputs, Inv, InputsOK,
         ResultsOK, DoctorTellsTheTruth, ReportNamesWhatRan, results
<1>1. PairOK' BY <1>0, QuietPair DEF pair
<1>2. /\ component' \in [Components -> Installed \cup {None}]
      /\ \A c \in Components : /\ component[c] = None => component'[c] = None
                               /\ component[c] # None =>
                                     component'[c] # None /\ component'[c].inner = component[c].inner
  <2>1. CASE component' = component BY <2>1 DEF Inv, RootOK
  <2>2. ASSUME NEW c \in Components, EditTree(c)
        PROVE  /\ component' \in [Components -> Installed \cup {None}]
               /\ \A d \in Components : /\ component[d] = None => component'[d] = None
                                        /\ component[d] # None =>
                                              component'[d] # None /\ component'[d].inner = component[d].inner
    <3> DEFINE x == IF component[c].tree = "edited" THEN "pinned" ELSE "edited"
               y == [component[c] EXCEPT !.tree = x]
    <3>1. component' = [component EXCEPT ![c] = y] BY <2>2 DEF EditTree
    <3>2. component[c] # None /\ component[c] \in Installed /\ x \in Trees
      BY <2>2 DEF EditTree, Inv, RootOK, Trees
    <3> HIDE DEF x
    <3>3. y \in Installed /\ y.inner = component[c].inner BY <3>2 DEF Installed
    <3>4. y # None BY <3>3, NoneAssumption DEF Installed, Trees, Receipts
    <3> HIDE DEF y
    <3> QED BY <3>1, <3>2, <3>3, <3>4 DEF Inv, RootOK
  <2> QED BY <2>1, <2>2 DEF EditManifest, EditSource, CacheRots, root
<1>3. /\ cached' \in [Archives -> {None, "whole", "bad"}]
      /\ cached' = cached \/ holder = None
  BY DEF Inv, RootOK, EditManifest, EditSource, EditTree, CacheRots, root
<1>4. RootOK'
  BY <1>0, <1>2, <1>3 DEF Inv, RootOK, GlobalReceiptIsReviewed, Receipt
<1>5. ASSUME NEW w \in Workers PROVE Claims(w)'
  <2>0. Claims(w) /\ ws'[w] = ws[w] /\ (holder = w => cached' = cached)
    BY <1>0, <1>3, NoneAssumption DEF Inv
  <2>1. ControlOK(w)' /\ LocksOK(w)' /\ SmokeOK(w)' /\ PublicationOK(w)'
    BY <1>0, <2>0 DEF Claims, ControlOK, LocksOK, SmokeOK, PublicationOK, pair
  <2>2. HydrationOK(w)'
    <3>1. Source(w)' = Source(w) /\ global' = global BY <1>0, <2>0 DEF Source, root
    <3>2. ws[w].pc \in Fetching => cached' = cached
      BY <2>0 DEF Claims, LocksOK, InRoot
    <3>3. ws[w].pc \in Fetching \ {"placed"} => component'[Source(w)] = None
      <4> SUFFICES ASSUME ws[w].pc \in Fetching \ {"placed"} PROVE component'[Source(w)] = None
        OBVIOUS
      <4>1. Source(w) \in Components /\ component[Source(w)] = None
        BY <2>0 DEF Claims, HydrationOK
      <4> QED BY <1>2, <4>1
    <3> QED BY <2>0, <3>1, <3>2, <3>3 DEF Claims, HydrationOK, Fetching
  <2>3. VerificationOK(w)'
    <3>1. outer' = outer BY <1>0
    <3>2. ws[w].pc \in AfterInspection \cup Smoking =>
            \A c \in Components : component'[c] # None /\ component'[c].inner = Receipt(ws[w].m, "pinned")
      BY <1>2, <2>0 DEF Claims, VerificationOK
    <3> QED BY <1>0, <2>0, <3>1, <3>2 DEF Claims, VerificationOK, Receipt
  <2>4. SealingOK(w)'
    BY <1>0, <1>2, <2>0, PlatformAssumption DEF Claims, SealingOK
  <2> QED BY <2>1, <2>2, <2>3, <2>4 DEF Claims
<1> QED BY <1>0, <1>1, <1>4, <1>5 DEF Inv

-----------------------------------------------------------------------------
(* The theorems *)

LEMMA InitOK == Init => Inv
<1> SUFFICES ASSUME Init PROVE Inv
  OBVIOUS
<1>1. Idle \in Workings /\ Idle.pc = "idle" BY DEF Idle, Workings, Pcs
<1> HIDE DEF Idle
<1>2. Shipped \in Locks /\ Shipped.artifacts = "pinned"
  BY DEF Shipped, Locks, Prints, Trees
<1>3. \A w \in Workers : Claims(w)
  BY <1>1, NoneAssumption
    DEF Init, Claims, ControlOK, LocksOK, HydrationOK, VerificationOK, SealingOK, PublicationOK, SmokeOK,
        InRoot, Verifying, Fetching, Publishing, AfterInspection, Sealing, Smoking, Running, Tools
<1> QED BY <1>1, <1>2, <1>3
    DEF Init, Inv, RootOK, PairOK, ResultsOK, InputsOK, GlobalReceiptIsReviewed, PairBound, ViewsOf,
        DoctorTellsTheTruth, ReportNamesWhatRan

\* In every reachable state each process that works on root, pair or copies
\* knows what its place in the command promises, and nobody works on a thing
\* another has locked.
THEOREM InvHolds == Spec => []Inv
<1>1. Inv /\ [Next]_vars => Inv'
  <2> SUFFICES ASSUME Inv, [Next]_vars PROVE Inv'
    OBVIOUS
  <2>1. CASE UNCHANGED vars
    <3>1. UNCHANGED <<root, holder, pair, inputs, results, ws, locks>> BY <2>1 DEF vars, counters
    <3>2. \A w \in Workers : Claims(w)'
      BY <3>1
        DEF Inv, Claims, ControlOK, LocksOK, HydrationOK, VerificationOK, SealingOK, PublicationOK, SmokeOK,
        InRoot, Verifying, Fetching, Publishing, AfterInspection, Sealing, Smoking, Running, Tools, Source, root, pair
    <3>3. RootOK' /\ PairOK' BY <3>1, QuietRoot, QuietPair DEF pair
    <3> QED BY <3>1, <3>2, <3>3
        DEF Inv, ResultsOK, InputsOK, DoctorTellsTheTruth, ReportNamesWhatRan, results, inputs
  <2>2. ASSUME NEW w \in Workers, Hydrate(w) PROVE Inv'
    BY <2>2, HydrateMoves, HydrateGivesUp, DownloadStep, HydrateWrites DEF Hydrate
  <2>3. ASSUME NEW w \in Workers, PlatformLock(w) PROVE Inv'
    BY <2>3, SealStep, PublishStep, RollBackStep DEF PlatformLock
  <2>4. ASSUME NEW w \in Workers, CommandFails(w) PROVE Inv'
    <3>1. ws[w].pc \notin {"half", "restore"} /\ locks' \in Nat
      BY <2>4 DEF CommandFails, Inv, InputsOK, Tools, counters
    <3> QED BY <2>4, <3>1, LeaveStep DEF CommandFails
  <2> QED BY <2>1, <2>2, <2>3, <2>4, EntryStep, VerifyStep, DiagnoseStep, SmokeStep, DieStep, WorldStep
      DEF Next
<1> QED BY <1>1, InitOK, PTL DEF Spec

\* From the reviewed manifest over the installed bytes, their receipts and the
\* platform lock to doctor's PASS, with any number of processes, edits and
\* deaths: whatever is passed on was verified, and is what was verified.
THEOREM ProvenanceHolds == Spec => []Provenance
<1>1. Inv => Provenance
  BY DEF Inv, RootOK, PairOK, ResultsOK, Provenance, InstalledIsReviewed, SealedTreeIsHydrated,
         Installed, Trees, Receipts, Locks
<1> QED BY <1>1, InvHolds, PTL

\* While nobody publishes, the views name the published lock, unless a death or
\* a failed rollback has torn the pair.
THEOREM PairStaysBound == Spec => []PairBound
<1>1. Inv => PairBound BY DEF Inv, PairOK
<1> QED BY <1>1, InvHolds, PTL

\* A smoke report names what ran, as far as the code guards it: the bytes its
\* tools have read of design and constraints, a receipt of the manifest the run
\* verified, and locks that seal the reviewed tree.  Netlist and Liberty, which
\* the views read unguarded, are not part of it.
THEOREM ReportsAreTrue == Spec => []ReportNamesWhatRan
<1>1. Inv => ReportNamesWhatRan BY DEF Inv, ResultsOK
<1> QED BY <1>1, InvHolds, PTL
=============================================================================
