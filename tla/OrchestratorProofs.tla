------------------------- MODULE OrchestratorProofs -------------------------
(* Machine-checked proofs about Orchestrator, for every value of its constants. *)
EXTENDS Orchestrator, SequenceTheorems, TLAPS

-----------------------------------------------------------------------------
(* The two state machines *)

LEMMA RunEdges ==
    ASSUME NEW s, NEW t, Legal(RunTransitions, s, t)
    PROVE  /\ s \in RunStates /\ t \in RunStates
           /\ t \notin {"CREATED", "ABSENT"}
           /\ s \notin {"COMPLETED", "FAILED_INPUT", "FAILED_BASELINE",
                        "BUDGET_EXHAUSTED", "CANCELLED"}
BY DEF Legal, RunTransitions, RunStates

LEMMA CandidateEdges ==
    ASSUME NEW s, NEW t, Legal(CandidateTransitions, s, t)
    PROVE  /\ s \in CandidateStates /\ t \in CandidateStates
           /\ s # None /\ t \notin {"CREATED", "ABSENT"}
           /\ s \notin EvaluationFailures \cup {"PARETO", "DOMINATED", "SELECTED"}
<1>1. /\ s \in CandidateStates /\ t \in CandidateStates
      /\ t \notin {"CREATED", "ABSENT"}
      /\ s \notin EvaluationFailures \cup {"PARETO", "DOMINATED", "SELECTED"}
  BY DEF Legal, CandidateTransitions, CandidateStates, EvaluationFailures
<1> QED BY <1>1, IdentityAssumption

LEMMA StartState == "PROPOSED" \in CandidateStates /\ "RECOVERY_ELIGIBLE" \in EvaluationFailures
BY DEF CandidateStates, CandidateTransitions, EvaluationFailures

-----------------------------------------------------------------------------
(* The inductive invariant *)

Inv == TypeOK /\ JournalInvariant

\* The part of it that speaks of the tables and the artifact store alone.
TablesInv == /\ EventsAtHome /\ RowsConsistent /\ SequencesGapless
             /\ RowIsLastChange /\ HistoryIsPath /\ PolicyPinned /\ RecoveryLineage

LEMMA MaxIsLen ==
    ASSUME TypeOK, SequencesGapless, NEW r \in Runs
    PROVE  MaxSequence(r) = Len(events[r]) /\ Len(events[r]) \in Nat
BY DEF TypeOK, SequencesGapless, MaxSequence

LEMMA IdleFacts == Idle.pc = "idle" /\ Idle \notin Drafts
BY DEF Idle, At, Drafts

LEMMA CallFacts ==
    ASSUME TypeOK, NEW c \in Callers, th[c].pc # "idle"
    PROVE  /\ DraftOK(th[c]) /\ th[c] \in Drafts
           /\ th[c].run \in Runs /\ th[c].event \in EventRecord
           /\ th[c].parent \in Candidates \cup {None}
<1>1. th[c] # Idle BY IdleFacts
<1>2. DraftOK(th[c]) BY <1>1 DEF TypeOK
<1> QED BY <1>2 DEF DraftOK, Drafts

\* A row of a candidate names a run.
LEMMA RowHasHome ==
    ASSUME Inv, NEW k \in Candidates, HasRow(k)
    PROVE  home[k] \in Runs
<1>1. k \in Entities /\ k \notin Runs BY IdentityAssumption DEF Entities
<1> QED BY <1>1 DEF Inv, JournalInvariant, RowIsLastChange, HomeOf

LEMMA TablesSame ==
    ASSUME TablesInv, UNCHANGED tables, stored \subseteq stored'
    PROVE  TablesInv'
<1> USE DEF tables, HasRow
<1>1. EventsAtHome' BY DEF TablesInv, EventsAtHome
<1>2. RowsConsistent' BY DEF TablesInv, RowsConsistent
<1>3. SequencesGapless' BY DEF TablesInv, SequencesGapless
<1>4. RowIsLastChange' BY DEF TablesInv, RowIsLastChange, LastChange, NoChange, HomeOf, Changes
<1>5. HistoryIsPath' BY DEF TablesInv, HistoryIsPath, Changes, LegalChange, Continues
<1>6. PolicyPinned' BY DEF TablesInv, PolicyPinned
<1>7. RecoveryLineage' BY DEF TablesInv, RecoveryLineage
<1> QED BY <1>1, <1>2, <1>3, <1>4, <1>5, <1>6, <1>7 DEF TablesInv

\* A step of one caller that leaves the tables alone.
LEMMA LocalStep ==
    ASSUME Inv, NEW c \in Callers, NEW t, Set(c, t),
           UNCHANGED tables, stored \subseteq stored', stored' \subseteq Payloads,
           t = Idle \/ DraftOK(t),
           t.pc \in {"store", "commit"} =>
               PreconditionsHold(t) /\ \A d \in Callers \ {c} : ~InTransaction(d),
           t.pc \in {"commit", "append"} => t.event.payload \in stored',
           t.pc = "append" => /\ t.event.kind = "STAGE" /\ t.event.entity \in Stages
                              /\ t.event.new = None
                              /\ HasRow(t.run)
                              /\ t.event.sequence \in 1 .. Len(events[t.run]) + 1
    PROVE  Inv'
<1>0. /\ th' = [th EXCEPT ![c] = t] /\ th'[c] = t
      /\ \A d \in Callers \ {c} : th'[d] = th[d]
  BY DEF Inv, TypeOK, Set
<1>1. TypeOK'
  <2>1. t \in Drafts \cup {Idle} BY DEF DraftOK
  <2>2. th' \in [Callers -> Drafts \cup {Idle}] BY <2>1, <1>0 DEF Inv, TypeOK
  <2>3. \A d \in Callers : th'[d] = Idle \/ DraftOK(th'[d])
    BY <1>0 DEF Inv, TypeOK
  <2>4. (\A d \in Callers : th[d] = Idle \/ DraftOK(th[d]))'
    BY <2>3
  <2> QED BY <2>2, <2>4 DEF Inv, TypeOK, tables
<1>2. TablesInv' BY TablesSame DEF Inv, JournalInvariant, TablesInv
<1>3. OneWriter' BY <1>0 DEF Inv, JournalInvariant, OneWriter, InTransaction
<1>4. CallsConsistent'
  <2> SUFFICES ASSUME NEW d \in Callers PROVE CallConsistent(d)'
    BY DEF CallsConsistent
  <2>1. CASE d = c
    <3>1. (InTransaction(c) => PreconditionsHold(th[c]))'
      BY <1>0 DEF InTransaction, PreconditionsHold, HasRow, tables
    <3> QED BY <1>0, <2>1, <3>1 DEF CallConsistent, HasRow, tables
  <2>2. CASE d # c
    <3>1. CallConsistent(d) BY DEF Inv, JournalInvariant, CallsConsistent
    <3>2. (InTransaction(d) => PreconditionsHold(th[d]))'
      BY <1>0, <2>2, <3>1 DEF CallConsistent, InTransaction, PreconditionsHold, HasRow, tables
    <3> QED BY <1>0, <2>2, <3>1, <3>2 DEF CallConsistent, HasRow, tables
  <2> QED BY <2>1, <2>2
<1> QED BY <1>1, <1>2, <1>3, <1>4 DEF Inv, JournalInvariant, TablesInv

-----------------------------------------------------------------------------
(* Appending an event *)

LEMMA Appended ==
    ASSUME TypeOK, NEW r \in Runs, NEW ev \in EventRecord,
           events' = [events EXCEPT ![r] = Append(@, ev)]
    PROVE  /\ events' \in [Runs -> Seq(EventRecord)]
           /\ Len(events'[r]) = Len(events[r]) + 1
           /\ events'[r][Len(events[r]) + 1] = ev
           /\ \A q \in Runs : /\ Len(events[q]) \in Nat /\ DOMAIN events[q] = 1 .. Len(events[q])
                              /\ Len(events'[q]) \in Nat
                              /\ DOMAIN events'[q] = 1 .. Len(events'[q])
                              /\ q # r => events'[q] = events[q]
                              /\ \A n \in DOMAIN events[q] : /\ n \in DOMAIN events'[q]
                                                            /\ events'[q][n] = events[q][n]
                              /\ \A n \in DOMAIN events'[q] :
                                    n \in DOMAIN events[q] \/ (q = r /\ n = Len(events[r]) + 1)
<1>1. events[r] \in Seq(EventRecord) BY DEF TypeOK
<1>2. events'[r] = Append(events[r], ev) BY DEF TypeOK
<1>3. \A q \in Runs : q # r => events'[q] = events[q] BY DEF TypeOK
<1>4. Append(events[r], ev) \in Seq(EventRecord) BY <1>1
<1>5. events' \in [Runs -> Seq(EventRecord)] BY <1>4 DEF TypeOK
<1>6. /\ Len(events'[r]) = Len(events[r]) + 1 /\ Len(events[r]) \in Nat
      /\ events'[r][Len(events[r]) + 1] = ev
      /\ \A n \in 1 .. Len(events[r]) : events'[r][n] = events[r][n]
  BY <1>1, <1>2
<1>7. \A q \in Runs : /\ Len(events[q]) \in Nat /\ DOMAIN events[q] = 1 .. Len(events[q])
                      /\ Len(events'[q]) \in Nat /\ DOMAIN events'[q] = 1 .. Len(events'[q])
  BY <1>5 DEF TypeOK
<1> HIDE DEF TypeOK
<1> QED BY <1>3, <1>5, <1>6, <1>7

\* Events that change no state: gate observations and stage results.
LEMMA ObservationKept ==
    ASSUME Inv, NEW r \in Runs, NEW ev \in EventRecord,
           events' = [events EXCEPT ![r] = Append(@, ev)],
           UNCHANGED <<state, sequence, policy, home, parent, stored>>,
           ev.sequence = Len(events[r]) + 1, ev.payload \in stored, HasRow(r),
           \/ ev.kind = "STAGE" /\ ev.entity \in Stages
           \/ /\ ev.kind = "CANDIDATE_GATE" /\ ev.policy = policy[r]
              /\ ev.entity \in Candidates /\ HasRow(ev.entity) /\ home[ev.entity] = r
    PROVE  TablesInv'
<1>0. TypeOK /\ TablesInv BY DEF Inv, JournalInvariant, TablesInv
<1>n. PICK N \in Nat : N = Len(events[r]) + 1 BY <1>0 DEF TypeOK
<1>a. /\ Len(events'[r]) = N /\ events'[r][N] = ev
      /\ \A q \in Runs : /\ Len(events[q]) \in Nat /\ DOMAIN events[q] = 1 .. Len(events[q])
                         /\ Len(events'[q]) \in Nat /\ DOMAIN events'[q] = 1 .. Len(events'[q])
                         /\ q # r => events'[q] = events[q]
                         /\ \A n \in DOMAIN events[q] : /\ n \in DOMAIN events'[q]
                                                       /\ events'[q][n] = events[q][n]
                         /\ \A n \in DOMAIN events'[q] :
                               n \in DOMAIN events[q] \/ (q = r /\ n = N)
  BY <1>0, <1>n, Appended
<1>b. \A q \in Runs, e \in Entities : \A n \in DOMAIN events[q] :
          Changes(q, n, e)' <=> Changes(q, n, e)
  BY <1>a DEF Changes
<1>c. \A e \in Entities : ~Changes(r, N, e)'
  BY <1>a DEF Changes
<1>1. EventsAtHome' BY <1>0, <1>a DEF TablesInv, EventsAtHome, HasRow
<1>2. RowsConsistent' BY <1>0 DEF TablesInv, RowsConsistent, HasRow
<1>3. SequencesGapless' BY <1>0, <1>n, <1>a DEF TablesInv, SequencesGapless
<1>4. RowIsLastChange'
  <2> SUFFICES ASSUME NEW e \in Entities
               PROVE  (IF HasRow(e) THEN HomeOf(e) \in Runs /\ LastChange(HomeOf(e), sequence[e], e)
                       ELSE NoChange(e))'
    BY DEF RowIsLastChange
  <2>1. CASE HasRow(e)
    <3>1. PICK q \in Runs, n \in Nat :
              q = HomeOf(e) /\ n = sequence[e] /\ LastChange(q, n, e)
      BY <1>0, <2>1 DEF TablesInv, RowIsLastChange, TypeOK
    <3>2. \A m \in n + 1 .. Len(events'[q]) : ~Changes(q, m, e)'
      BY <1>a, <1>b, <1>c, <3>1 DEF LastChange
    <3>3. LastChange(q, n, e)'
      BY <1>a, <1>b, <3>1, <3>2 DEF LastChange
    <3>4. HasRow(e)' /\ HomeOf(e)' = q /\ sequence'[e] = n
      BY <2>1, <3>1 DEF HasRow, HomeOf
    <3> QED BY <3>3, <3>4
  <2>2. CASE ~HasRow(e)
    <3>1. NoChange(e)' BY <1>0, <1>a, <1>b, <1>c, <2>2 DEF TablesInv, RowIsLastChange, NoChange
    <3> QED BY <2>2, <3>1 DEF HasRow
  <2> QED BY <2>1, <2>2
<1>5. HistoryIsPath'
  <2> SUFFICES ASSUME NEW q \in Runs, NEW e \in Entities, NEW n \in DOMAIN events'[q],
                      Changes(q, n, e)'
               PROVE  LegalChange(events'[q][n]) /\ Continues(q, n, e)'
    BY DEF HistoryIsPath, LegalChange
  <2>1. n \in DOMAIN events[q] /\ events'[q][n] = events[q][n] BY <1>a, <1>c
  <2>2. LegalChange(events[q][n]) /\ Continues(q, n, e)
    BY <1>0, <1>b, <2>1 DEF TablesInv, HistoryIsPath
  <2>3. \A m \in 1 .. n - 1 : m \in DOMAIN events[q] BY <1>a, <2>1
  <2>4. Continues(q, n, e)'
    BY <1>a, <1>b, <2>1, <2>2, <2>3 DEF Continues
  <2> QED BY <2>1, <2>2, <2>4
<1>6. PolicyPinned' BY <1>0, <1>a DEF TablesInv, PolicyPinned
<1>7. RecoveryLineage'
  <2> SUFFICES ASSUME NEW k \in Candidates, HasRow(k), parent[k] # None
               PROVE  /\ home[parent[k]] = home[k] /\ state[parent[k]] = "RECOVERY_ELIGIBLE"
                      /\ \A n \in DOMAIN events'[home[k]] :
                            events'[home[k]][n].entity = k => sequence[parent[k]] < n
    BY DEF RecoveryLineage, HasRow
  <2>0. home[k] \in Runs BY RowHasHome
  <2>1. /\ home[parent[k]] = home[k] /\ state[parent[k]] = "RECOVERY_ELIGIBLE"
        /\ \A n \in DOMAIN events[home[k]] :
              events[home[k]][n].entity = k => sequence[parent[k]] < n
    BY <1>0 DEF TablesInv, RecoveryLineage
  <2>2. parent[k] \in Candidates /\ parent[k] \in Entities /\ parent[k] \notin Runs
    BY <1>0, IdentityAssumption DEF TypeOK, Entities
  <2>3. sequence[parent[k]] \in DOMAIN events[home[k]]
    BY <1>0, <2>1, <2>2 DEF TablesInv, RowIsLastChange, LastChange, NoChange, HomeOf
  <2>4. sequence[parent[k]] < Len(events[home[k]]) + 1 BY <1>a, <2>0, <2>3
  <2> QED BY <1>a, <2>0, <2>1, <2>4
<1> QED BY <1>1, <1>2, <1>3, <1>4, <1>5, <1>6, <1>7 DEF TablesInv

\* What a state change is committed under, in terms of its event.
ChangeAllowed(r, ev, par) ==
    \/ /\ ev.kind = "RUN" /\ ev.entity = r
       /\ ev.prior = state[r] /\ Legal(RunTransitions, ev.prior, ev.new)
       /\ HasRow(r) => policy[r] = ev.policy
    \/ /\ ev.kind = "CANDIDATE" /\ ev.entity \in Candidates
       /\ ev.prior = None /\ ev.new = "PROPOSED"
       /\ HasRow(r) /\ policy[r] = ev.policy /\ ~HasRow(ev.entity)
       /\ par # None => home[par] = r /\ state[par] = "RECOVERY_ELIGIBLE"
    \/ /\ ev.kind = "CANDIDATE" /\ ev.entity \in Candidates
       /\ HasRow(r) /\ policy[r] = ev.policy
       /\ HasRow(ev.entity) /\ home[ev.entity] = r /\ par = parent[ev.entity]
       /\ ev.prior = state[ev.entity] /\ Legal(CandidateTransitions, ev.prior, ev.new)

LEMMA ChangeKept ==
    ASSUME Inv, NEW r \in Runs, NEW ev \in EventRecord, NEW par \in Candidates \cup {None},
           events' = [events EXCEPT ![r] = Append(@, ev)], WriteRow(r, ev, par),
           UNCHANGED stored, ev.sequence = Len(events[r]) + 1, ev.payload \in stored,
           ChangeAllowed(r, ev, par)
    PROVE  TablesInv'
<1>0. TypeOK /\ TablesInv BY DEF Inv, JournalInvariant, TablesInv
<1>n. PICK N \in Nat \ {0} : N = Len(events[r]) + 1 BY <1>0 DEF TypeOK
<1>e. PICK x \in Entities : x = ev.entity BY DEF ChangeAllowed, Entities
<1>k. \/ x = r /\ ev.kind = "RUN"
      \/ x \in Candidates /\ x \notin Runs /\ ev.kind = "CANDIDATE" /\ HasRow(r)
  BY <1>e, IdentityAssumption DEF ChangeAllowed, Entities
<1>a. /\ Len(events'[r]) = N /\ events'[r][N] = ev
      /\ \A q \in Runs : /\ Len(events[q]) \in Nat /\ DOMAIN events[q] = 1 .. Len(events[q])
                         /\ Len(events'[q]) \in Nat /\ DOMAIN events'[q] = 1 .. Len(events'[q])
                         /\ q # r => events'[q] = events[q]
                         /\ \A n \in DOMAIN events[q] : /\ n \in DOMAIN events'[q]
                                                       /\ events'[q][n] = events[q][n]
                         /\ \A n \in DOMAIN events'[q] :
                               n \in DOMAIN events[q] \/ (q = r /\ n = N)
  BY <1>0, <1>n, Appended
<1>b. \A q \in Runs, e \in Entities : \A n \in DOMAIN events[q] :
          Changes(q, n, e)' <=> Changes(q, n, e)
  BY <1>a DEF Changes
<1>c. /\ Changes(r, N, x)' /\ \A e \in Entities \ {x} : ~Changes(r, N, e)'
  BY <1>a, <1>e, <1>k DEF Changes
<1>d. /\ state'[x] = ev.new /\ sequence'[x] = N
      /\ \A e \in Entities \ {x} : state'[e] = state[e] /\ sequence'[e] = sequence[e]
  BY <1>0, <1>n, <1>e DEF WriteRow, TypeOK
<1>f. /\ \A k \in Candidates \ {x} : home'[k] = home[k] /\ parent'[k] = parent[k]
      /\ x \in Candidates => home'[x] = r /\ parent'[x] = par
      /\ \A q \in Runs \ {r} : policy'[q] = policy[q]
      /\ policy'[r] = ev.policy
  <2>1. CASE x = r /\ ev.kind = "RUN"
    BY <1>0, <2>1, IdentityAssumption DEF WriteRow, TypeOK
  <2>2. CASE x \in Candidates /\ ev.kind = "CANDIDATE"
    BY <1>0, <1>e, <2>2 DEF WriteRow, TypeOK, ChangeAllowed
  <2> QED BY <1>k, <2>1, <2>2
<1>g. HasRow(x) => HomeOf(x) = r
  BY <1>e, <1>k DEF ChangeAllowed, HomeOf
<1>h. /\ \A e \in Entities : HasRow(e) => HasRow(e)'
      /\ \A e \in Entities \ {x} : HasRow(e)' <=> HasRow(e)
      /\ HasRow(x)' /\ HasRow(r)'
  BY <1>d, <1>k DEF HasRow, Entities
<1>i. \A k \in Candidates : HasRow(k) => home'[k] = home[k]
  BY <1>e, <1>f, <1>g, IdentityAssumption DEF HomeOf
<1>j. ev.new \notin {"CREATED", "ABSENT"} BY RunEdges, CandidateEdges DEF ChangeAllowed
<1>1. EventsAtHome'
  <2> SUFFICES ASSUME NEW q \in Runs, NEW n \in DOMAIN events'[q]
               PROVE  LET v == events'[q][n] IN
                      /\ HasRow(q)' /\ v.payload \in stored'
                      /\ v.kind = "RUN" => v.entity = q
                      /\ v.kind \in {"CANDIDATE", "CANDIDATE_GATE"} =>
                            v.entity \in Candidates /\ (sequence'[v.entity] > 0) /\ home'[v.entity] = q
                      /\ v.kind = "STAGE" => v.entity \in Stages
    BY DEF EventsAtHome, HasRow
  <2>1. CASE n \in DOMAIN events[q]
    <3>1. LET v == events[q][n] IN
          /\ HasRow(q) /\ v.payload \in stored
          /\ v.kind = "RUN" => v.entity = q
          /\ v.kind \in {"CANDIDATE", "CANDIDATE_GATE"} =>
                v.entity \in Candidates /\ HasRow(v.entity) /\ home[v.entity] = q
          /\ v.kind = "STAGE" => v.entity \in Stages
      BY <1>0, <2>1 DEF TablesInv, EventsAtHome
    <3> QED BY <1>a, <1>h, <1>i, <2>1, <3>1 DEF HasRow, Entities
  <2>2. CASE q = r /\ n = N
    BY <1>a, <1>d, <1>e, <1>f, <1>h, <1>k, <2>2 DEF HasRow
  <2> QED BY <1>a, <2>1, <2>2
<1>2. RowsConsistent'
  <2>1. \A k \in Candidates : ~HasRow(k)' => home'[k] = None /\ parent'[k] = None
    BY <1>0, <1>f, <1>h DEF TablesInv, RowsConsistent, Entities
  <2>2. \A e \in Entities : HasRow(e)' => state'[e] \notin {"CREATED", "ABSENT"}
    BY <1>0, <1>d, <1>h, <1>j DEF TablesInv, RowsConsistent
  <2> QED BY <2>1, <2>2 DEF RowsConsistent, HasRow
<1>3. SequencesGapless' BY <1>0, <1>n, <1>a DEF TablesInv, SequencesGapless
<1>4. RowIsLastChange'
  <2> SUFFICES ASSUME NEW e \in Entities
               PROVE  (IF HasRow(e) THEN HomeOf(e) \in Runs /\ LastChange(HomeOf(e), sequence[e], e)
                       ELSE NoChange(e))'
    BY DEF RowIsLastChange
  <2>0. CASE e = x
    <3>1. LastChange(r, N, x)' BY <1>a, <1>c, <1>d DEF LastChange
    <3>2. HomeOf(x)' = r BY <1>f, <1>k DEF HomeOf
    <3> QED BY <1>d, <1>h, <2>0, <3>1, <3>2
  <2>1. CASE HasRow(e) /\ e # x
    <3>1. PICK q \in Runs, n \in Nat :
              q = HomeOf(e) /\ n = sequence[e] /\ LastChange(q, n, e)
      BY <1>0, <2>1 DEF TablesInv, RowIsLastChange, TypeOK
    <3>2. \A m \in n + 1 .. Len(events'[q]) : ~Changes(q, m, e)'
      BY <1>a, <1>b, <1>c, <2>1, <3>1 DEF LastChange
    <3>3. LastChange(q, n, e)'
      BY <1>a, <1>b, <1>d, <2>1, <3>1, <3>2 DEF LastChange
    <3>4. HasRow(e)' /\ HomeOf(e)' = q /\ sequence'[e] = n
      BY <1>d, <1>f, <1>h, <2>1, <3>1 DEF HomeOf, Entities
    <3> QED BY <3>3, <3>4
  <2>2. CASE ~HasRow(e) /\ e # x
    <3>1. NoChange(e)'
      BY <1>0, <1>a, <1>b, <1>c, <1>d, <2>2 DEF TablesInv, RowIsLastChange, NoChange
    <3> QED BY <1>h, <2>2, <3>1
  <2> QED BY <2>0, <2>1, <2>2
<1>5. HistoryIsPath'
  <2> SUFFICES ASSUME NEW q \in Runs, NEW e \in Entities, NEW n \in DOMAIN events'[q],
                      Changes(q, n, e)'
               PROVE  LegalChange(events'[q][n]) /\ Continues(q, n, e)'
    BY DEF HistoryIsPath, LegalChange
  <2>1. CASE n \in DOMAIN events[q]
    <3>2. LegalChange(events[q][n]) /\ Continues(q, n, e)
      BY <1>0, <1>b, <2>1 DEF TablesInv, HistoryIsPath
    <3>3. \A m \in 1 .. n - 1 : m \in DOMAIN events[q] BY <1>a, <2>1
    <3>4. Continues(q, n, e)'
      BY <1>a, <1>b, <2>1, <3>2, <3>3 DEF Continues
    <3> QED BY <1>a, <2>1, <3>2, <3>4
  <2>2. CASE q = r /\ n = N
    <3>1. e = x BY <1>c, <2>2
    <3>2. LegalChange(ev) BY DEF LegalChange, ChangeAllowed
    <3>3. CASE HasRow(x)
      <4>1. PICK m \in Nat : m = sequence[x] /\ LastChange(r, m, x)
        BY <1>0, <1>g, <3>3 DEF TablesInv, RowIsLastChange, TypeOK
      <4>2. ev.prior = state[x] BY <1>e, <3>3 DEF ChangeAllowed
      <4>3. /\ m \in 1 .. N - 1 /\ Changes(r, m, x)' /\ events'[r][m].new = ev.prior
            /\ \A i \in m + 1 .. N - 1 : ~Changes(r, i, x)'
        BY <1>a, <1>b, <1>n, <4>1, <4>2 DEF LastChange
      <4>4. events'[r][N] = ev BY <1>a
      <4>5. Continues(r, N, x)' BY <4>3, <4>4 DEF Continues
      <4> QED BY <2>2, <3>1, <3>2, <4>4, <4>5
    <3>4. CASE ~HasRow(x)
      <4>1. NoChange(x) BY <1>0, <3>4 DEF TablesInv, RowIsLastChange
      <4>2. ev.prior = IF x \in Runs THEN "CREATED" ELSE None
        BY <1>e, <1>k, <3>4, <4>1 DEF ChangeAllowed, NoChange
      <4>3. \A m \in 1 .. N - 1 : ~Changes(r, m, x)'
        BY <1>a, <1>b, <1>n, <4>1 DEF NoChange
      <4> QED BY <1>a, <2>2, <3>1, <3>2, <4>2, <4>3 DEF Continues
    <3> QED BY <3>3, <3>4
  <2> QED BY <1>a, <2>1, <2>2
<1>6. PolicyPinned'
  <2>1. DOMAIN events[r] # {} => HasRow(r) BY <1>0 DEF TablesInv, EventsAtHome
  <2>2. HasRow(r) => policy[r] = ev.policy BY DEF ChangeAllowed
  <2> QED BY <1>0, <1>a, <1>f, <2>1, <2>2 DEF TablesInv, PolicyPinned
<1>7. RecoveryLineage'
  <2> SUFFICES ASSUME NEW k \in Candidates, HasRow(k)', parent'[k] # None
               PROVE  /\ home'[parent'[k]] = home'[k] /\ state'[parent'[k]] = "RECOVERY_ELIGIBLE"
                      /\ \A n \in DOMAIN events'[home'[k]] :
                            events'[home'[k]][n].entity = k => sequence'[parent'[k]] < n
    BY DEF RecoveryLineage, HasRow
  <2>0. /\ \A y \in Candidates : state[y] = "RECOVERY_ELIGIBLE" =>
              y # x /\ HasRow(y)
    <3> SUFFICES ASSUME NEW y \in Candidates, state[y] = "RECOVERY_ELIGIBLE"
                 PROVE  y # x /\ HasRow(y)
      OBVIOUS
    <3>1. y \in Entities /\ y \notin Runs BY IdentityAssumption DEF Entities
    <3>2. HasRow(y) BY <1>0, <3>1 DEF TablesInv, RowIsLastChange, NoChange
    <3>3. y # x
      BY <1>e, <3>1, <3>2, CandidateEdges, StartState DEF ChangeAllowed
    <3> QED BY <3>2, <3>3
  <2>1. PICK y \in Candidates : /\ y = parent'[k] /\ home[y] = home'[k]
                               /\ state[y] = "RECOVERY_ELIGIBLE"
    <3>1. CASE k = x /\ ~HasRow(k)
      BY <1>e, <1>f, <3>1, IdentityAssumption DEF ChangeAllowed
    <3>2. CASE HasRow(k)
      <4>1. parent'[k] = parent[k] /\ home'[k] = home[k]
        BY <1>e, <1>f, <1>i, <3>2, IdentityAssumption DEF ChangeAllowed
      <4>2. parent[k] \in Candidates BY <1>0, <4>1 DEF TypeOK
      <4> QED BY <1>0, <3>2, <4>1, <4>2 DEF TablesInv, RecoveryLineage
    <3> QED BY <1>h, <3>1, <3>2 DEF Entities
  <2>2. y # x /\ HasRow(y) /\ y \in Entities /\ y \notin Runs
    BY <2>0, <2>1, IdentityAssumption DEF Entities
  <2>3. /\ home'[y] = home[y] /\ state'[y] = state[y] /\ sequence'[y] = sequence[y]
    BY <1>d, <1>f, <2>2
  <2>4. home[y] \in Runs /\ sequence[y] \in DOMAIN events[home[y]]
    BY <1>0, <2>2 DEF TablesInv, RowIsLastChange, LastChange, HomeOf
  <2>5. \A n \in DOMAIN events'[home[y]] :
            events'[home[y]][n].entity = k => sequence[y] < n
    <3> SUFFICES ASSUME NEW n \in DOMAIN events'[home[y]], events'[home[y]][n].entity = k
                 PROVE  sequence[y] < n
      OBVIOUS
    <3>1. CASE n \notin DOMAIN events[home[y]]
      BY <1>a, <1>n, <2>4, <3>1
    <3>2. CASE n \in DOMAIN events[home[y]]
      <4>1. events[home[y]][n].entity = k BY <1>a, <2>4, <3>2
      <4>2. events[home[y]][n].kind \in {"CANDIDATE", "CANDIDATE_GATE"}
        <5>1. events[home[y]][n] \in EventRecord BY <1>0, <2>4, <3>2 DEF TypeOK
        <5>2. k \notin Runs /\ k \notin Stages BY IdentityAssumption DEF Entities
        <5> QED BY <1>0, <2>4, <3>2, <4>1, <5>1, <5>2 DEF TablesInv, EventsAtHome, EventRecord
      <4>3. HasRow(k) BY <1>0, <2>4, <3>2, <4>1, <4>2 DEF TablesInv, EventsAtHome
      <4>4. parent[k] = y /\ home[k] = home[y]
        BY <1>e, <1>f, <1>i, <2>1, <4>3, IdentityAssumption DEF ChangeAllowed
      <4>5. parent[k] # None BY <2>1, <4>4
      <4> QED BY <1>0, <3>2, <4>1, <4>3, <4>4, <4>5 DEF TablesInv, RecoveryLineage
    <3> QED BY <3>1, <3>2
  <2> QED BY <2>1, <2>3, <2>5
<1> QED BY <1>1, <1>2, <1>3, <1>4, <1>5, <1>6, <1>7 DEF TablesInv

-----------------------------------------------------------------------------
(* The steps *)

\* BEGIN IMMEDIATE: nobody else is in a transaction.
LEMMA BeginStep ==
    ASSUME Inv, NEW c \in Callers, NEW r \in Runs, NEW kind \in {"RUN", "CANDIDATE", "CANDIDATE_GATE"},
           NEW e \in Entities, NEW s \in RunStates \cup CandidateStates \cup {None},
           NEW t \in RunStates \cup CandidateStates \cup {None},
           NEW p \in Payloads, NEW par \in Candidates \cup {None},
           Begin(c, r, kind, e, s, t, p, par),
           kind = "RUN" => e = r, kind # "RUN" => e \in Candidates,
           kind # "CANDIDATE_GATE" => t # None,
           PreconditionsHold(At("store", r, Event(kind, e, s, t, PolicyOf[c], p, 0), par))
    PROVE  Inv'
<1> DEFINE ev == Event(kind, e, s, t, PolicyOf[c], p, 0)
           d == At("store", r, ev, par)
<1>1. ev \in EventRecord BY DEF Event, EventRecord, Policies, Entities
<1>2. /\ ev.kind = kind /\ ev.entity = e /\ ev.new = t /\ ev.payload = p BY DEF Event
<1> HIDE DEF ev
<1>3. /\ d \in Drafts /\ d.pc = "store" /\ d.event = ev /\ d.run = r
  BY <1>1 DEF At, Drafts
<1>4. DraftOK(d) BY <1>1, <1>2, <1>3 DEF DraftOK
<1>5. Set(c, d) /\ UNCHANGED <<tables, stored>> /\ Unlocked BY DEF Begin, ev
<1>6. PreconditionsHold(d) BY DEF ev
<1>7. \A q \in Callers \ {c} : ~InTransaction(q) BY <1>5 DEF Unlocked, InTransaction
<1>8. stored \subseteq Payloads BY DEF Inv, TypeOK
<1> HIDE DEF d
<1> QED BY <1>3, <1>4, <1>5, <1>6, <1>7, <1>8, LocalStep

LEMMA EntitiesDisjoint ==
    /\ \A r \in Runs : r \in Entities /\ r \notin Candidates
    /\ \A k \in Candidates : k \in Entities /\ k \notin Runs /\ k # None
BY IdentityAssumption DEF Entities

LEMMA TransitionStep ==
    ASSUME Inv, NEW c \in Callers, NEW r \in Runs, NEW t, NEW p \in Payloads,
           Transition(c, r, t, p)
    PROVE  Inv'
<1>1. Legal(RunTransitions, state[r], t) BY DEF Transition
<1>2. state[r] \in RunStates /\ t \in RunStates /\ t # None
  BY <1>1, RunEdges, IdentityAssumption
<1>3. PreconditionsHold(At("store", r, Event("RUN", r, state[r], t, PolicyOf[c], p, 0), None))
  BY <1>1 DEF PreconditionsHold, At, Event, Transition
<1> QED BY <1>2, <1>3, BeginStep, EntitiesDisjoint DEF Transition

LEMMA CreateCandidateStep ==
    ASSUME Inv, NEW c \in Callers, NEW r \in Runs, NEW k \in Candidates,
           NEW par \in Candidates \cup {None}, NEW p \in Payloads,
           CreateCandidate(c, r, k, par, p)
    PROVE  Inv'
<1>1. PreconditionsHold(At("store", r, Event("CANDIDATE", k, None, "PROPOSED", PolicyOf[c], p, 0), par))
  BY DEF PreconditionsHold, At, Event, CreateCandidate
<1>2. "PROPOSED" # None BY StartState, IdentityAssumption
<1> QED BY <1>1, <1>2, BeginStep, EntitiesDisjoint, StartState DEF CreateCandidate

LEMMA TransitionCandidateStep ==
    ASSUME Inv, NEW c \in Callers, NEW k \in Candidates, NEW t, NEW p \in Payloads,
           TransitionCandidate(c, k, t, p)
    PROVE  Inv'
<1>1. /\ Legal(CandidateTransitions, state[k], t) /\ HasRow(k)
      /\ policy[home[k]] = PolicyOf[c]
  BY DEF TransitionCandidate
<1>2. state[k] \in CandidateStates /\ t \in CandidateStates /\ t # None /\ state[k] # None
  BY <1>1, CandidateEdges, IdentityAssumption
<1>3. home[k] \in Runs BY <1>1, RowHasHome
<1>4. HasRow(home[k])
  <2>1. LastChange(home[k], sequence[k], k)
    BY <1>1, EntitiesDisjoint DEF Inv, JournalInvariant, RowIsLastChange, HomeOf
  <2> QED BY <1>3, <2>1 DEF LastChange, Inv, JournalInvariant, EventsAtHome
<1>5. parent[k] \in Candidates \cup {None} BY DEF Inv, TypeOK
<1>6. PreconditionsHold(At("store", home[k],
          Event("CANDIDATE", k, state[k], t, PolicyOf[c], p, 0), parent[k]))
  BY <1>1, <1>2, <1>4 DEF PreconditionsHold, At, Event
<1> QED BY <1>2, <1>3, <1>5, <1>6, BeginStep, EntitiesDisjoint DEF TransitionCandidate

LEMMA RecordEventStep ==
    ASSUME Inv, NEW c \in Callers, NEW k \in Candidates, NEW p \in Payloads,
           RecordEvent(c, k, p)
    PROVE  Inv'
<1>1. HasRow(k) /\ policy[home[k]] = PolicyOf[c] BY DEF RecordEvent
<1>3. home[k] \in Runs BY <1>1, RowHasHome
<1>4. HasRow(home[k])
  <2>1. LastChange(home[k], sequence[k], k)
    BY <1>1, EntitiesDisjoint DEF Inv, JournalInvariant, RowIsLastChange, HomeOf
  <2> QED BY <1>3, <2>1 DEF LastChange, Inv, JournalInvariant, EventsAtHome
<1>6. PreconditionsHold(At("store", home[k],
          Event("CANDIDATE_GATE", k, None, None, PolicyOf[c], p, 0), None))
  BY <1>1, <1>4 DEF PreconditionsHold, At, Event
<1> QED BY <1>3, <1>6, BeginStep, EntitiesDisjoint DEF RecordEvent

LEMMA ReadLastEventStep ==
    ASSUME Inv, NEW c \in Callers, NEW r \in Runs, NEW s \in Stages, NEW p \in Payloads,
           ReadLastEvent(c, r, s, p)
    PROVE  Inv'
<1> DEFINE ev == Event("STAGE", s, None, None, PolicyOf[c], p, MaxSequence(r) + 1)
           d == At("append", r, ev, None)
<1>0. MaxSequence(r) = Len(events[r]) /\ Len(events[r]) \in Nat
  BY MaxIsLen DEF Inv, JournalInvariant
<1>1. ev \in EventRecord BY <1>0 DEF Event, EventRecord, Policies
<1>2. ev.kind = "STAGE" /\ ev.entity = s /\ ev.payload = p /\ ev.sequence = Len(events[r]) + 1
      /\ ev.new = None
  BY <1>0 DEF Event
<1> HIDE DEF ev
<1>3. d \in Drafts /\ d.pc = "append" /\ d.event = ev /\ d.run = r BY <1>1 DEF At, Drafts
<1>4. DraftOK(d) BY <1>1, <1>2, <1>3 DEF DraftOK
<1>5. Set(c, d) /\ UNCHANGED tables /\ stored' = stored \cup {p} BY DEF ReadLastEvent, ev
<1>6. HasRow(r)
  BY EntitiesDisjoint DEF ReadLastEvent, Inv, JournalInvariant, RowIsLastChange, NoChange
<1>7. stored' \subseteq Payloads BY <1>5 DEF Inv, TypeOK
<1> HIDE DEF d
<1> QED BY <1>0, <1>2, <1>3, <1>4, <1>5, <1>6, <1>7, LocalStep

LEMMA StorePayloadStep ==
    ASSUME Inv, NEW c \in Callers, StorePayload(c)
    PROVE  Inv'
<1> DEFINE d == [th[c] EXCEPT !.pc = "commit"]
<1>1. DraftOK(th[c]) /\ th[c] \in Drafts /\ th[c].event \in EventRecord
  BY CallFacts DEF Inv, StorePayload
<1>2. /\ d \in Drafts /\ d.pc = "commit" /\ d.event = th[c].event /\ d.run = th[c].run
      /\ d.parent = th[c].parent
  BY <1>1 DEF Drafts
<1>3. DraftOK(d) BY <1>1, <1>2 DEF DraftOK
<1>4. Set(c, d) /\ UNCHANGED tables /\ stored' = stored \cup {th[c].event.payload}
  BY DEF StorePayload
<1> HIDE DEF d
<1>5. PreconditionsHold(th[c]) /\ \A q \in Callers \ {c} : ~InTransaction(q)
  BY DEF Inv, JournalInvariant, CallsConsistent, CallConsistent, OneWriter, InTransaction, StorePayload
<1>6. PreconditionsHold(d) BY <1>2, <1>5 DEF PreconditionsHold
<1>7. stored' \subseteq Payloads BY <1>1, <1>4 DEF Inv, TypeOK, EventRecord
<1> QED BY <1>2, <1>3, <1>4, <1>5, <1>6, <1>7, LocalStep

LEMMA AbandonStep ==
    ASSUME Inv, NEW c \in Callers, Abandon(c)
    PROVE  Inv'
<1>1. stored \subseteq Payloads BY DEF Inv, TypeOK
<1> QED BY <1>1, IdleFacts, LocalStep DEF Abandon

\* A call that ends with its event in the journal: the calls of the others,
\* none of which is in a transaction, are as consistent as before.
LEMMA AppendingStep ==
    ASSUME Inv, NEW c \in Callers, NEW r \in Runs, NEW ev \in EventRecord,
           Set(c, Idle), UNCHANGED stored,
           events' = [events EXCEPT ![r] = Append(@, ev)],
           state' \in [Entities -> RunStates \cup CandidateStates \cup {"ABSENT"}],
           sequence' \in [Entities -> Nat], policy' \in [Runs -> Policies \cup {None}],
           home' \in [Candidates -> Runs \cup {None}],
           parent' \in [Candidates -> Candidates \cup {None}],
           \A e \in Entities : HasRow(e) => HasRow(e)',
           \A d \in Callers \ {c} : ~InTransaction(d),
           TablesInv'
    PROVE  Inv'
<1>0. /\ th' = [th EXCEPT ![c] = Idle] /\ th'[c] = Idle
      /\ \A d \in Callers \ {c} : th'[d] = th[d]
  BY DEF Inv, TypeOK, Set
<1>1. TypeOK'
  <2>1. events' \in [Runs -> Seq(EventRecord)] BY Appended DEF Inv
  <2>2. th' \in [Callers -> Drafts \cup {Idle}] BY <1>0 DEF Inv, TypeOK
  <2>3. \A d \in Callers : th'[d] = Idle \/ DraftOK(th'[d]) BY <1>0 DEF Inv, TypeOK
  <2>4. (\A d \in Callers : th[d] = Idle \/ DraftOK(th[d]))' BY <2>3
  <2> QED BY <2>1, <2>2, <2>4 DEF Inv, TypeOK
<1>2. OneWriter' BY <1>0, IdleFacts DEF OneWriter, InTransaction
<1>3. CallsConsistent'
  <2> SUFFICES ASSUME NEW d \in Callers PROVE CallConsistent(d)'
    BY DEF CallsConsistent
  <2>1. CASE d = c BY <1>0, <2>1, IdleFacts DEF CallConsistent, InTransaction
  <2>2. CASE d # c /\ th[d].pc # "append"
    <3>1. th'[d].pc \notin {"store", "commit", "append"}
      BY <1>0, <2>2 DEF InTransaction
    <3> QED BY <3>1 DEF CallConsistent, InTransaction
  <2>3. CASE d # c /\ th[d].pc = "append"
    <3>1. /\ th[d].event.payload \in stored
          /\ th[d].event.kind = "STAGE" /\ th[d].event.entity \in Stages
          /\ th[d].event.new = None
          /\ HasRow(th[d].run) /\ th[d].event.sequence \in 1 .. Len(events[th[d].run]) + 1
      BY <2>3 DEF Inv, JournalInvariant, CallsConsistent, CallConsistent
    <3>2. PICK q \in Runs : q = th[d].run BY <2>3, CallFacts DEF Inv
    <3>3. /\ Len(events[q]) \in Nat /\ Len(events'[q]) \in Nat
          /\ Len(events[q]) <= Len(events'[q])
      BY Appended DEF Inv
    <3>4. HasRow(q)' BY <3>1, <3>2 DEF Entities
    <3>5. th'[d] = th[d] BY <1>0, <2>3
    <3> QED BY <2>3, <3>1, <3>2, <3>3, <3>4, <3>5 DEF CallConsistent, InTransaction
  <2> QED BY <2>1, <2>2, <2>3
<1> QED BY <1>1, <1>2, <1>3 DEF Inv, JournalInvariant, TablesInv

\* What a commit appends, and under what.
LEMMA CommitFacts ==
    ASSUME Inv, NEW c \in Callers, Commit(c)
    PROVE  \E r \in Runs, par \in Candidates \cup {None}, ev \in EventRecord :
              /\ events' = [events EXCEPT ![r] = Append(@, ev)]
              /\ Len(events[r]) \in Nat /\ ev.sequence = Len(events[r]) + 1
              /\ ev.payload \in stored
              /\ \/ /\ ev.kind = "CANDIDATE_GATE"
                    /\ HasRow(r) /\ policy[r] = ev.policy /\ ev.entity \in Candidates
                    /\ HasRow(ev.entity) /\ home[ev.entity] = r /\ ev.new = None
                    /\ UNCHANGED <<state, sequence, policy, home, parent>>
                 \/ /\ ev.kind # "CANDIDATE_GATE"
                    /\ WriteRow(r, ev, par) /\ ChangeAllowed(r, ev, par)
<1>0. th[c].pc = "commit" /\ Set(c, Idle) BY DEF Commit
<1>1. /\ DraftOK(th[c]) /\ th[c].run \in Runs /\ th[c].event \in EventRecord
      /\ th[c].parent \in Candidates \cup {None}
  BY <1>0, CallFacts DEF Inv
<1>2. PICK r \in Runs, par \in Candidates \cup {None} : r = th[c].run /\ par = th[c].parent
  BY <1>1
<1>3. MaxSequence(r) = Len(events[r]) /\ Len(events[r]) \in Nat
  BY MaxIsLen DEF Inv, JournalInvariant
<1>4. [th[c].event EXCEPT !.sequence = MaxSequence(r) + 1] \in EventRecord
  BY <1>1, <1>3 DEF EventRecord
<1>5. PICK ev \in EventRecord : ev = [th[c].event EXCEPT !.sequence = MaxSequence(r) + 1]
  BY <1>4
<1>6. /\ ev.sequence = Len(events[r]) + 1 /\ ev.kind = th[c].event.kind
      /\ ev.entity = th[c].event.entity /\ ev.prior = th[c].event.prior
      /\ ev.new = th[c].event.new /\ ev.policy = th[c].event.policy
      /\ ev.payload = th[c].event.payload
  BY <1>1, <1>3, <1>5 DEF EventRecord
<1>7. /\ events' = [events EXCEPT ![r] = Append(@, ev)]
      /\ IF ev.kind = "CANDIDATE_GATE"
         THEN UNCHANGED <<state, sequence, policy, home, parent>>
         ELSE WriteRow(r, ev, par)
  BY <1>2, <1>5 DEF Commit
<1>8. InTransaction(c) /\ \A d \in Callers \ {c} : ~InTransaction(d)
  BY <1>0 DEF Inv, JournalInvariant, OneWriter, InTransaction
<1>9. PreconditionsHold(th[c]) /\ ev.payload \in stored
  BY <1>0, <1>6, <1>8 DEF Inv, JournalInvariant, CallsConsistent, CallConsistent
<1>a. CASE ev.kind = "CANDIDATE_GATE"
  <2>1. /\ HasRow(r) /\ policy[r] = ev.policy /\ ev.entity \in Candidates
        /\ HasRow(ev.entity) /\ home[ev.entity] = r /\ ev.new = None
    BY <1>1, <1>2, <1>6, <1>9, <1>a DEF PreconditionsHold, DraftOK
  <2> QED BY <1>3, <1>6, <1>7, <1>9, <1>a, <2>1
<1>b. CASE ev.kind # "CANDIDATE_GATE"
  <2>1. WriteRow(r, ev, par) BY <1>7, <1>b
  <2>2. ChangeAllowed(r, ev, par)
    BY <1>1, <1>2, <1>6, <1>9, <1>b DEF PreconditionsHold, DraftOK, ChangeAllowed
  <2> QED BY <1>3, <1>6, <1>7, <1>9, <1>b, <2>1, <2>2
<1> QED BY <1>a, <1>b

LEMMA CommitStep ==
    ASSUME Inv, NEW c \in Callers, Commit(c)
    PROVE  Inv'
<1>0. th[c].pc = "commit" /\ Set(c, Idle) /\ UNCHANGED stored BY DEF Commit
<1>1. PICK r \in Runs, par \in Candidates \cup {None}, ev \in EventRecord :
         /\ events' = [events EXCEPT ![r] = Append(@, ev)]
         /\ Len(events[r]) \in Nat /\ ev.sequence = Len(events[r]) + 1
         /\ ev.payload \in stored
         /\ \/ /\ ev.kind = "CANDIDATE_GATE"
               /\ HasRow(r) /\ policy[r] = ev.policy /\ ev.entity \in Candidates
               /\ HasRow(ev.entity) /\ home[ev.entity] = r /\ ev.new = None
               /\ UNCHANGED <<state, sequence, policy, home, parent>>
            \/ /\ ev.kind # "CANDIDATE_GATE"
               /\ WriteRow(r, ev, par) /\ ChangeAllowed(r, ev, par)
  BY CommitFacts
<1>8. InTransaction(c) /\ \A d \in Callers \ {c} : ~InTransaction(d)
  BY <1>0 DEF Inv, JournalInvariant, OneWriter, InTransaction
<1>a. CASE ev.kind = "CANDIDATE_GATE"
  <2>1. TablesInv' BY <1>0, <1>1, <1>a, ObservationKept
  <2>2. \A e \in Entities : HasRow(e) => HasRow(e)' BY <1>1, <1>a DEF HasRow
  <2> QED BY <1>0, <1>1, <1>8, <1>a, <2>1, <2>2, AppendingStep DEF Inv, TypeOK
<1>b. CASE ev.kind # "CANDIDATE_GATE"
  <2>1. WriteRow(r, ev, par) /\ ChangeAllowed(r, ev, par) BY <1>1, <1>b
  <2>3. TablesInv' BY <1>0, <1>1, <2>1, ChangeKept
  <2>4. ev.entity \in Entities /\ (ev.kind = "CANDIDATE" => ev.entity \in Candidates)
    BY <2>1 DEF ChangeAllowed, Entities
  <2>5. ev.new \in RunStates \cup CandidateStates
    BY <2>1, RunEdges, CandidateEdges, StartState DEF ChangeAllowed
  <2>6. ev.policy \in Policies /\ ev.sequence \in Nat BY DEF EventRecord
  <2>7. /\ state' \in [Entities -> RunStates \cup CandidateStates \cup {"ABSENT"}]
        /\ sequence' \in [Entities -> Nat] /\ policy' \in [Runs -> Policies \cup {None}]
        /\ home' \in [Candidates -> Runs \cup {None}]
        /\ parent' \in [Candidates -> Candidates \cup {None}]
    BY <2>1, <2>4, <2>5, <2>6 DEF WriteRow, Inv, TypeOK
  <2>8. \A e \in Entities : HasRow(e) => HasRow(e)'
    BY <1>1, <2>1 DEF WriteRow, HasRow, Inv, TypeOK
  <2> QED BY <1>0, <1>1, <1>8, <2>3, <2>7, <2>8, AppendingStep
<1> QED BY <1>1, <1>a, <1>b

LEMMA AppendStageEventStep ==
    ASSUME Inv, NEW c \in Callers, AppendStageEvent(c)
    PROVE  Inv'
<1>0. /\ th[c].pc = "append" /\ Unlocked /\ Set(c, Idle)
      /\ UNCHANGED <<state, sequence, policy, home, parent, stored>>
  BY DEF AppendStageEvent
<1>1. PICK r \in Runs, ev \in EventRecord : r = th[c].run /\ ev = th[c].event
  BY <1>0, CallFacts DEF Inv
<1>2. /\ ev.payload \in stored /\ ev.kind = "STAGE" /\ ev.entity \in Stages
      /\ HasRow(r) /\ ev.sequence \in 1 .. Len(events[r]) + 1
  BY <1>0, <1>1 DEF Inv, JournalInvariant, CallsConsistent, CallConsistent
<1>3. MaxSequence(r) = Len(events[r]) /\ Len(events[r]) \in Nat
  BY MaxIsLen DEF Inv, JournalInvariant
<1>4. events' = IF ev.sequence > MaxSequence(r)
                THEN [events EXCEPT ![r] = Append(@, ev)] ELSE events
  BY <1>1 DEF AppendStageEvent
<1>5. \A d \in Callers \ {c} : ~InTransaction(d) BY <1>0 DEF Unlocked, InTransaction
<1>6. CASE ev.sequence > MaxSequence(r)
  <2>1. ev.sequence = Len(events[r]) + 1 BY <1>2, <1>3, <1>6
  <2>2. events' = [events EXCEPT ![r] = Append(@, ev)] BY <1>4, <1>6
  <2>3. TablesInv' BY <1>0, <1>2, <2>1, <2>2, ObservationKept
  <2>4. \A e \in Entities : HasRow(e) => HasRow(e)' BY <1>0 DEF HasRow
  <2> QED BY <1>0, <1>5, <2>2, <2>3, <2>4, AppendingStep DEF Inv, TypeOK
<1>7. CASE ~(ev.sequence > MaxSequence(r))
  <2>1. UNCHANGED tables BY <1>0, <1>4, <1>7 DEF tables
  <2>2. stored \subseteq Payloads BY DEF Inv, TypeOK
  <2> QED BY <1>0, <2>1, <2>2, IdleFacts, LocalStep
<1> QED BY <1>6, <1>7

LEMMA InitInv == Init => Inv
<1> SUFFICES ASSUME Init PROVE Inv OBVIOUS
<1> USE DEF Init
<1>0. /\ \A e \in Entities : ~HasRow(e) /\ sequence[e] = 0
      /\ \A r \in Runs : events[r] = <<>> /\ DOMAIN events[r] = {}
      /\ \A c \in Callers : th[c] = Idle
  BY DEF HasRow, Entities
<1>1. TypeOK
  <2>1. "CREATED" \in RunStates BY DEF RunStates, RunTransitions
  <2> QED BY <1>0, <2>1 DEF TypeOK
<1>2. OneWriter /\ CallsConsistent
  BY <1>0, IdleFacts DEF OneWriter, CallsConsistent, CallConsistent, InTransaction
<1>3. EventsAtHome /\ SequencesGapless /\ PolicyPinned
  BY <1>0 DEF EventsAtHome, SequencesGapless, PolicyPinned
<1>4. RowsConsistent BY <1>0 DEF RowsConsistent, Entities
<1>5. RowIsLastChange BY <1>0 DEF RowIsLastChange, NoChange
<1>6. HistoryIsPath BY <1>0 DEF HistoryIsPath
<1>7. RecoveryLineage BY <1>0, EntitiesDisjoint DEF RecoveryLineage
<1> QED BY <1>1, <1>2, <1>3, <1>4, <1>5, <1>6, <1>7 DEF Inv, JournalInvariant

LEMMA StepInv == Inv /\ [Next]_vars => Inv'
<1> SUFFICES ASSUME Inv, [Next]_vars PROVE Inv' OBVIOUS
<1>1. CASE UNCHANGED vars
  <2>1. UNCHANGED <<state, sequence, policy, home, parent, events, stored, th>>
    BY <1>1 DEF vars, tables
  <2>2. TablesInv' BY <2>1, TablesSame DEF Inv, JournalInvariant, TablesInv, tables
  <2>3. TypeOK' BY <2>1 DEF Inv, TypeOK
  <2>4. OneWriter' BY <2>1 DEF Inv, JournalInvariant, OneWriter, InTransaction
  <2>5. CallsConsistent'
    BY <2>1 DEF Inv, JournalInvariant, CallsConsistent, CallConsistent, InTransaction,
                PreconditionsHold, HasRow
  <2> QED BY <2>2, <2>3, <2>4, <2>5 DEF Inv, JournalInvariant, TablesInv
<1>2. ASSUME NEW c \in Callers, Call(c) PROVE Inv'
  <2>1. PICK p \in Payloads :
           \/ \E r \in Runs :
                 \/ \E t \in RunStates : Transition(c, r, t, p)
                 \/ \E k \in Candidates, par \in Candidates \cup {None} :
                       CreateCandidate(c, r, k, par, p)
                 \/ \E s \in Stages : ReadLastEvent(c, r, s, p)
           \/ \E k \in Candidates :
                 \/ \E t \in CandidateStates : TransitionCandidate(c, k, t, p)
                 \/ RecordEvent(c, k, p)
    BY <1>2 DEF Call
  <2> QED BY <2>1, TransitionStep, CreateCandidateStep, ReadLastEventStep,
             TransitionCandidateStep, RecordEventStep
<1> QED BY <1>1, <1>2, StorePayloadStep, CommitStep, AppendStageEventStep, AbandonStep DEF Next

-----------------------------------------------------------------------------
(* The theorems *)

\* The journal invariant: what every committed transaction of the orchestrator
\* and the stage appends preserve together, for any number of processes.
THEOREM JournalCorrect == Spec => []Inv
<1>1. Init => Inv BY InitInv
<1>2. Inv /\ [Next]_vars => Inv' BY StepInv
<1> QED BY <1>1, <1>2, PTL DEF Spec

\* Every row, event and call in progress keeps its type.
THEOREM TypeCorrect == Spec => []TypeOK
<1>1. Inv => TypeOK BY DEF Inv
<1> QED BY <1>1, JournalCorrect, PTL

\* run_events is numbered 1, 2, 3, ... without a gap in every run, whoever
\* appends to it.
THEOREM Gapless == Spec => []SequencesGapless
<1>1. Inv => SequencesGapless BY DEF Inv, JournalInvariant
<1> QED BY <1>1, JournalCorrect, PTL

\* The journal of a run or candidate is a path of the state machine of
\* orchestrator/state.py.
THEOREM HistoryLegal == Spec => []HistoryIsPath
<1>1. Inv => HistoryIsPath BY DEF Inv, JournalInvariant
<1> QED BY <1>1, JournalCorrect, PTL

\* The current-state tables agree with the journal.
THEOREM RowsAgree == Spec => []RowIsLastChange
<1>1. Inv => RowIsLastChange BY DEF Inv, JournalInvariant
<1> QED BY <1>1, JournalCorrect, PTL

\* The events of a run carry the policy that its first transition pinned.
THEOREM OnePolicy == Spec => []PolicyPinned
<1>1. Inv => PolicyPinned BY DEF Inv, JournalInvariant
<1> QED BY <1>1, JournalCorrect, PTL

\* The journal of every run is one sound history, whoever writes it.
THEOREM JournalIsSound == Spec => []JournalSound
BY Gapless, HistoryLegal, RowsAgree, OnePolicy, PTL DEF JournalSound

\* A recovery child descends from an earlier RECOVERY_ELIGIBLE candidate of its
\* own run.
THEOREM LineageSound == Spec => []RecoveryLineage
<1>1. Inv => RecoveryLineage BY DEF Inv, JournalInvariant
<1> QED BY <1>1, JournalCorrect, PTL

\* replay_run accepts every run that has a state.
THEOREM Replay == Spec => []ReplaySucceeds
<1>1. Inv => ReplaySucceeds
  <2> SUFFICES ASSUME Inv, NEW r \in Runs, HasRow(r) PROVE Replayable(r)
    BY DEF ReplaySucceeds
  <2>1. LastChange(r, sequence[r], r)
    BY EntitiesDisjoint DEF Inv, JournalInvariant, RowIsLastChange, HomeOf
  <2>2. events[r] # <<>> BY <2>1 DEF LastChange
  <2>3. \A n \in DOMAIN events[r] : n \in Nat /\ (n > 1 => n - 1 \in DOMAIN events[r])
    BY DEF Inv, TypeOK
  <2>4. \A n \in DOMAIN events[r] : events[r][n].sequence = n /\ events[r][n].payload \in stored
    BY DEF Inv, JournalInvariant, SequencesGapless, EventsAtHome
  <2> QED BY <2>2, <2>3, <2>4 DEF Replayable
<1> QED BY <1>1, JournalCorrect, PTL

\* A run or candidate that has ended is never moved again.
THEOREM EndedStays == Spec => EndedForGood
<1> DEFINE Stays == \A e \in Entities :
                       Ended(e) => state'[e] = state[e] /\ sequence'[e] = sequence[e]
<1>1. Inv /\ [Next]_vars => [Stays]_vars
  <2> SUFFICES ASSUME Inv, Next, NEW e \in Entities, Ended(e)
               PROVE  state'[e] = state[e] /\ sequence'[e] = sequence[e]
    OBVIOUS
  <2>1. CASE UNCHANGED <<state, sequence>> BY <2>1
  <2>2. ASSUME NEW c \in Callers, Commit(c)
        PROVE  state'[e] = state[e] /\ sequence'[e] = sequence[e]
    <3>1. PreconditionsHold(th[c]) /\ DraftOK(th[c])
      BY <2>2, CallFacts DEF Inv, JournalInvariant, CallsConsistent, CallConsistent,
                             InTransaction, Commit
    <3>2. th[c].event.kind # "CANDIDATE_GATE" => th[c].event.entity # e
      <4>1. CASE th[c].event.kind = "RUN"
        <5>1. /\ th[c].event.entity = th[c].run
              /\ Legal(RunTransitions, state[th[c].run], th[c].event.new)
          BY <3>1, <4>1 DEF PreconditionsHold, DraftOK
        <5>2. th[c].run \in Runs BY <3>1 DEF DraftOK, Drafts
        <5> QED BY <5>1, <5>2, RunEdges DEF Ended
      <4>2. CASE th[c].event.kind = "CANDIDATE" /\ HasRow(th[c].event.entity)
        BY <3>1, <4>2, CandidateEdges, EntitiesDisjoint DEF PreconditionsHold, DraftOK, Ended
      <4>3. CASE th[c].event.kind = "CANDIDATE" /\ ~HasRow(th[c].event.entity)
        <5>1. th[c].event.entity \in Candidates BY <3>1, <4>3 DEF DraftOK
        <5>2. state[th[c].event.entity] = "ABSENT"
          BY <4>3, <5>1, EntitiesDisjoint DEF Inv, JournalInvariant, RowIsLastChange, NoChange
        <5> QED BY <5>1, <5>2, EntitiesDisjoint DEF Ended, EvaluationFailures
      <4>4. th[c].event.kind \in {"RUN", "CANDIDATE", "CANDIDATE_GATE"}
        BY <3>1 DEF PreconditionsHold
      <4> QED BY <4>1, <4>2, <4>3, <4>4
    <3>3. th[c].event \in EventRecord BY <3>1 DEF DraftOK, Drafts
    <3>4. PICK n : n = MaxSequence(th[c].run) + 1 OBVIOUS
    <3>5. PICK ev : ev = [th[c].event EXCEPT !.sequence = n] OBVIOUS
    <3>6. ev.kind = th[c].event.kind /\ ev.entity = th[c].event.entity
      BY <3>3, <3>5 DEF EventRecord
    <3>7. IF ev.kind = "CANDIDATE_GATE" THEN UNCHANGED <<state, sequence>>
          ELSE WriteRow(th[c].run, ev, th[c].parent)
      BY <2>2, <3>4, <3>5 DEF Commit
    <3> QED BY <3>2, <3>6, <3>7 DEF WriteRow, Inv, TypeOK
  <2>3. \/ UNCHANGED <<state, sequence>> \/ \E c \in Callers : Commit(c)
    BY DEF Next, Call, Transition, CreateCandidate, ReadLastEvent, TransitionCandidate,
           RecordEvent, Begin, StorePayload, AppendStageEvent, Abandon, tables
  <2> QED BY <2>1, <2>2, <2>3
<1> QED BY <1>1, JournalCorrect, PTL DEF Spec, EndedForGood

-----------------------------------------------------------------------------
(* The orchestrator implements Journal *)

Entries == [entity : Entities \cup Stages, to : RunStates \cup CandidateStates \cup {None},
            number : Nat]

\* The log of Journal, as Orchestrator defines it.
TheLog == [r \in Runs |-> [n \in DOMAIN events[r] |-> EntryOf(events[r][n])]]

LEMMA LogType ==
    ASSUME TypeOK
    PROVE  /\ TheLog \in [Runs -> Seq(Entries)]
           /\ \A r \in Runs : /\ Len(TheLog[r]) = Len(events[r]) /\ Len(events[r]) \in Nat
                              /\ DOMAIN TheLog[r] = 1 .. Len(events[r])
                              /\ \A n \in 1 .. Len(events[r]) :
                                    TheLog[r][n] = EntryOf(events[r][n])
<1> SUFFICES ASSUME NEW r \in Runs
             PROVE  /\ TheLog[r] \in Seq(Entries) /\ Len(events[r]) \in Nat
                    /\ Len(TheLog[r]) = Len(events[r])
                    /\ DOMAIN TheLog[r] = 1 .. Len(events[r])
                    /\ \A n \in 1 .. Len(events[r]) : TheLog[r][n] = EntryOf(events[r][n])
    BY DEF TheLog
<1>1. /\ events[r] \in Seq(EventRecord) /\ Len(events[r]) \in Nat
      /\ DOMAIN events[r] = 1 .. Len(events[r])
    BY DEF TypeOK
<1>2. \A n \in 1 .. Len(events[r]) : EntryOf(events[r][n]) \in Entries
    <2> SUFFICES ASSUME NEW n \in 1 .. Len(events[r]) PROVE EntryOf(events[r][n]) \in Entries
        OBVIOUS
    <2>1. events[r][n] \in EventRecord BY <1>1
    <2> QED BY <2>1 DEF EntryOf, Entries, EventRecord
<1>3. TheLog[r] = [n \in 1 .. Len(events[r]) |-> EntryOf(events[r][n])] BY <1>1 DEF TheLog
<1>4. TheLog[r] \in [1 .. Len(events[r]) -> Entries] BY <1>2, <1>3
<1>5. TheLog[r] \in Seq(Entries) /\ Len(TheLog[r]) = Len(events[r]) BY <1>1, <1>4
<1> QED BY <1>1, <1>3, <1>5

\* An event appended is an entry appended, numbered as the abstract log does.
LEMMA LogAppended ==
    ASSUME TypeOK, TypeOK', NEW r \in Runs, NEW ev \in EventRecord,
           events' = [events EXCEPT ![r] = Append(@, ev)],
           ev.sequence = Len(events[r]) + 1
    PROVE  TheLog' = [TheLog EXCEPT ![r] =
                         Append(@, [entity |-> ev.entity, to |-> ev.new, number |-> Len(@) + 1])]
<1> DEFINE x == EntryOf(ev)
           t == Append(TheLog[r], x)
<1>1. /\ TheLog \in [Runs -> Seq(Entries)] /\ Len(TheLog[r]) = Len(events[r])
      /\ Len(events[r]) \in Nat
    BY LogType
<1>2. x = [entity |-> ev.entity, to |-> ev.new, number |-> Len(TheLog[r]) + 1]
    BY <1>1 DEF EntryOf
<1>3. x \in Entries BY DEF EntryOf, Entries, EventRecord
<1>4. (TheLog \in [Runs -> Seq(Entries)])' BY LogType, PTL
<1>5. \A q \in Runs \ {r} : TheLog'[q] = TheLog[q]
    <2>1. \A q \in Runs \ {r} : events'[q] = events[q] BY DEF TypeOK
    <2> QED BY <2>1 DEF TheLog
<1>6. TheLog'[r] = t
    <2>1. /\ Len(events'[r]) = Len(events[r]) + 1 /\ events'[r][Len(events[r]) + 1] = ev
          /\ \A n \in DOMAIN events[r] : events'[r][n] = events[r][n]
          /\ DOMAIN events[r] = 1 .. Len(events[r])
          /\ DOMAIN events'[r] = 1 .. Len(events'[r])
        BY Appended
    <2>2. TheLog'[r] = [n \in DOMAIN events'[r] |-> EntryOf(events'[r][n])] BY DEF TheLog, EntryOf
    <2>3. /\ t \in Seq(Entries) /\ Len(t) = Len(events[r]) + 1 /\ t[Len(events[r]) + 1] = x
          /\ \A n \in 1 .. Len(events[r]) : t[n] = TheLog[r][n]
        BY <1>1, <1>3
    <2>4. TheLog'[r] \in Seq(Entries) /\ Len(TheLog'[r]) = Len(events[r]) + 1
        <3>1. TheLog'[r] \in Seq(Entries) BY <1>4
        <3>2. DOMAIN TheLog'[r] = 1 .. Len(events[r]) + 1 BY <2>1, <2>2
        <3>3. Len(TheLog'[r]) \in Nat /\ DOMAIN TheLog'[r] = 1 .. Len(TheLog'[r]) BY <3>1
        <3> HIDE DEF t, x
        <3> QED BY <1>1, <3>1, <3>2, <3>3
    <2>5. \A n \in 1 .. Len(events[r]) : t[n] = EntryOf(events[r][n]) BY <2>3, LogType
    <2> HIDE DEF t
    <2>6. \A n \in 1 .. Len(TheLog'[r]) : TheLog'[r][n] = t[n]
        <3> SUFFICES ASSUME NEW n \in 1 .. Len(events[r]) + 1 PROVE TheLog'[r][n] = t[n]
            BY <2>4
        <3>1. TheLog'[r][n] = EntryOf(events'[r][n]) BY <1>1, <2>1, <2>2
        <3>2. CASE n = Len(events[r]) + 1 BY <2>1, <2>3, <3>1, <3>2
        <3>3. CASE n # Len(events[r]) + 1
            <4>1. n \in 1 .. Len(events[r]) BY <1>1, <3>3
            <4> QED BY <2>1, <2>5, <3>1, <4>1
        <3> QED BY <3>2, <3>3
    <2> QED BY <2>3, <2>4, <2>6, SeqEqual
<1> HIDE DEF t, x
<1>7. TheLog' = [TheLog EXCEPT ![r] = t] BY <1>1, <1>4, <1>5, <1>6
<1> QED BY <1>2, <1>7 DEF t

\* A step of Journal for each commit ...
LEMMA CommitImplements ==
    ASSUME Inv, Inv', NEW c \in Callers, Commit(c)
    PROVE  J!Next
<1>1. PICK r \in Runs, par \in Candidates \cup {None}, ev \in EventRecord :
         /\ events' = [events EXCEPT ![r] = Append(@, ev)]
         /\ Len(events[r]) \in Nat /\ ev.sequence = Len(events[r]) + 1
         /\ ev.payload \in stored
         /\ \/ /\ ev.kind = "CANDIDATE_GATE"
               /\ HasRow(r) /\ policy[r] = ev.policy /\ ev.entity \in Candidates
               /\ HasRow(ev.entity) /\ home[ev.entity] = r /\ ev.new = None
               /\ UNCHANGED <<state, sequence, policy, home, parent>>
            \/ /\ ev.kind # "CANDIDATE_GATE"
               /\ WriteRow(r, ev, par) /\ ChangeAllowed(r, ev, par)
  BY CommitFacts
<1>2. TheLog' = [TheLog EXCEPT ![r] =
                    Append(@, [entity |-> ev.entity, to |-> ev.new, number |-> Len(@) + 1])]
  BY <1>1, LogAppended DEF Inv
<1>3. J!Write(r, ev.entity, ev.new) BY <1>2 DEF J!Write, J!Entry, TheLog
<1>4. HasRow(r) => state[r] # "CREATED"
  BY EntitiesDisjoint DEF Inv, JournalInvariant, RowsConsistent
<1>5. CASE ev.kind = "CANDIDATE_GATE"
  <2>1. J!Note(r, ev.entity) BY <1>1, <1>3, <1>4, <1>5 DEF J!Note
  <2> QED BY <1>1, <1>5, <2>1 DEF J!Next
<1>6. CASE ev.kind = "RUN"
  <2>1. /\ ev.entity = r /\ ev.prior = state[r] /\ Legal(RunTransitions, state[r], ev.new)
        /\ WriteRow(r, ev, par)
    BY <1>1, <1>6 DEF ChangeAllowed
  <2>2. state' = [state EXCEPT ![r] = ev.new] /\ UNCHANGED <<home, parent>>
    BY <1>6, <2>1 DEF WriteRow
  <2>3. J!Legal(J!RunTransitions, state[r], ev.new)
    BY <2>1 DEF J!Legal, J!RunTransitions, Legal, RunTransitions
  <2>4. ev.new \in J!RunStates
    BY <2>1, RunEdges DEF J!RunStates, J!RunTransitions, RunStates, RunTransitions
  <2>5. J!MoveRun(r, ev.new) BY <1>3, <2>1, <2>2, <2>3 DEF J!MoveRun
  <2> QED BY <2>4, <2>5 DEF J!Next
<1>7. CASE ev.kind = "CANDIDATE"
  <2>0. PICK k \in Candidates : k = ev.entity BY <1>1, <1>7 DEF ChangeAllowed
  <2>1. /\ state' = [state EXCEPT ![k] = ev.new] /\ home' = [home EXCEPT ![k] = r]
        /\ parent' = [parent EXCEPT ![k] = par]
    BY <1>1, <1>7, <2>0 DEF WriteRow
  <2>2. CASE ~HasRow(k)
    <3>1. /\ ev.new = "PROPOSED" /\ HasRow(r)
          /\ par # None => home[par] = r /\ state[par] = "RECOVERY_ELIGIBLE"
      BY <1>1, <1>7, <2>0, <2>2 DEF ChangeAllowed
    <3>2. state[k] = "ABSENT"
      BY <2>2, EntitiesDisjoint DEF Inv, JournalInvariant, RowIsLastChange, NoChange
    <3>3. J!Propose(r, k, par)
      BY <1>3, <1>4, <2>0, <2>1, <3>1, <3>2 DEF J!Propose
    <3> QED BY <3>3 DEF J!Next
  <2>3. CASE HasRow(k)
    <3>1. home[k] = r /\ par = parent[k] /\ Legal(CandidateTransitions, state[k], ev.new)
      BY <1>1, <1>7, <2>0, <2>3 DEF ChangeAllowed
    <3>2. UNCHANGED <<home, parent>> BY <2>1, <3>1 DEF Inv, TypeOK
    <3>3. J!Legal(J!CandidateTransitions, state[k], ev.new)
      BY <3>1 DEF J!Legal, J!CandidateTransitions, J!EvaluationFailures, Legal,
                  CandidateTransitions, EvaluationFailures
    <3>4. ev.new \in J!CandidateStates
      BY <3>1, CandidateEdges DEF J!CandidateStates, J!CandidateTransitions,
         J!EvaluationFailures, CandidateStates, CandidateTransitions, EvaluationFailures
    <3>5. J!MoveCandidate(r, k, ev.new) BY <1>3, <2>0, <2>1, <3>1, <3>2, <3>3 DEF J!MoveCandidate
    <3> QED BY <3>4, <3>5 DEF J!Next
  <2> QED BY <2>2, <2>3
<1> QED BY <1>1, <1>5, <1>6, <1>7 DEF ChangeAllowed

\* ... and for each stage event whose number was still free.
LEMMA AppendStageEventImplements ==
    ASSUME Inv, Inv', NEW c \in Callers, AppendStageEvent(c)
    PROVE  J!Next \/ UNCHANGED tables
<1>1. PICK r \in Runs, ev \in EventRecord : r = th[c].run /\ ev = th[c].event
  BY CallFacts DEF AppendStageEvent, Inv
<1>2. /\ ev.entity \in Stages /\ ev.new = None
      /\ HasRow(r) /\ ev.sequence \in 1 .. Len(events[r]) + 1
  BY <1>1 DEF AppendStageEvent, Inv, JournalInvariant, CallsConsistent, CallConsistent
<1>3. MaxSequence(r) = Len(events[r]) /\ Len(events[r]) \in Nat
  BY MaxIsLen DEF Inv, JournalInvariant
<1>4. /\ events' = IF ev.sequence > MaxSequence(r)
                   THEN [events EXCEPT ![r] = Append(@, ev)] ELSE events
      /\ UNCHANGED <<state, sequence, policy, home, parent>>
  BY <1>1 DEF AppendStageEvent
<1>5. CASE ev.sequence > MaxSequence(r)
  <2>1. ev.sequence = Len(events[r]) + 1 /\ events' = [events EXCEPT ![r] = Append(@, ev)]
    BY <1>2, <1>3, <1>4, <1>5
  <2>2. TheLog' = [TheLog EXCEPT ![r] =
                      Append(@, [entity |-> ev.entity, to |-> ev.new, number |-> Len(@) + 1])]
    BY <2>1, LogAppended DEF Inv
  <2>3. J!Write(r, ev.entity, None) BY <1>2, <2>2 DEF J!Write, J!Entry, TheLog
  <2>4. state[r] # "CREATED"
    BY <1>2, EntitiesDisjoint DEF Inv, JournalInvariant, RowsConsistent
  <2>5. ev.entity \notin Candidates BY <1>2, IdentityAssumption DEF Entities
  <2>6. J!Note(r, ev.entity) BY <1>4, <2>3, <2>4, <2>5 DEF J!Note
  <2> QED BY <1>2, <2>6 DEF J!Next
<1>6. CASE ~(ev.sequence > MaxSequence(r))
  BY <1>4, <1>6 DEF tables
<1> QED BY <1>5, <1>6

\* The orchestrator, with any number of processes that share it, fail or die in
\* the middle of a call, implements the abstract journal: the log is only added
\* to, and a state moves only by a legal move logged in the same step.
THEOREM JournalImplemented == Spec => ImplementsJournal
<1>1. Init => J!Init
  BY DEF Init, J!Init, Entities
<1>2. Inv /\ Inv' /\ [Next]_vars => [J!Next]_(J!journalVars)
  <2> SUFFICES ASSUME Inv, Inv', [Next]_vars PROVE [J!Next]_(J!journalVars)
    OBVIOUS
  <2>1. CASE UNCHANGED tables
    BY <2>1 DEF tables, J!journalVars
  <2>2. CASE \E c \in Callers : Commit(c) BY <2>2, CommitImplements
  <2>3. CASE \E c \in Callers : AppendStageEvent(c)
    BY <2>1, <2>3, AppendStageEventImplements
  <2>4. ASSUME NEW c \in Callers, Call(c) PROVE UNCHANGED tables
    BY <2>4 DEF Call, Transition, CreateCandidate, ReadLastEvent, TransitionCandidate,
                RecordEvent, Begin
  <2>5. ASSUME NEW c \in Callers, StorePayload(c) \/ Abandon(c) PROVE UNCHANGED tables
    BY <2>5 DEF StorePayload, Abandon
  <2>6. CASE UNCHANGED vars BY <2>1, <2>6 DEF vars
  <2> QED BY <2>1, <2>2, <2>3, <2>4, <2>5, <2>6 DEF Next
<1> QED BY <1>1, <1>2, JournalCorrect, PTL DEF Spec, ImplementsJournal, J!Spec

=============================================================================
