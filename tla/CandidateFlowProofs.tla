------------------------- MODULE CandidateFlowProofs -------------------------
(***************************************************************************)
(* Proofs about CandidateFlow: for any number of processes, failing        *)
(* anywhere, and any number of foreign events in the journal, a            *)
(* candidate's states follow its gates (LadderFollowsGates), and what is   *)
(* sealed stands for ever beside a final record, and verifies until an     *)
(* index it binds is rewritten (SealedIsFinal).                            *)
(***************************************************************************)
EXTENDS CandidateFlow, SequenceTheorems, WellFoundedInduction, TLAPS

-----------------------------------------------------------------------------
(* The invariant *)

Kinds == {"GATE_STARTED", "GATE_COMPLETED", "GATE_FAILED", "GATE_INCONCLUSIVE",
          "GATE_INFRASTRUCTURE_ERROR"}

Events == {StateEvent(s) : s \in CandidateStates}
          \cup {GateEvent(kind, g) : kind \in Kinds, g \in Gates}
          \cup {OtherEvent}

\* Gates completed, and gates mentioned, by the first n events of q.
Passed(q, n) == {g \in Gates : \E j \in 1 .. n : q[j] = GateEvent("GATE_COMPLETED", g)}
Seen(q, n) == {q[j].gate : j \in 1 .. n}

\* What LadderFollowsGates asks of a state that comes after the gates C were
\* completed and the gates S mentioned.
Rung(s, C, S) ==
    /\ \A g \in DOMAIN StateAfterGate : s = StateAfterGate[g] => C = UpTo(g)
    /\ s \in {"PARETO", "DOMINATED"} => C = Gates
    /\ s \in EvaluationFailures =>
          \E g \in Gates : C = UpTo(g) \ {g} /\ g \in S /\ S \subseteq UpTo(g) \cup {None}

\* The states in q are on their rungs, if q comes after C and S.
Climbs(q, C, S) ==
    \A m \in DOMAIN q : q[m].kind = "STATE" =>
        Rung(q[m].to, C \cup Passed(q, m - 1), S \cup Seen(q, m - 1))

\* s is a last state that agrees with classification c.
Agrees(s, c) == Ended(s) /\ s \in ExpectedStates([class |-> c])

\* The last thing to be journaled is such a state.
EndsWith(q, c) == \E s \in CandidateStates : Last(q) = StateEvent(s) /\ Agrees(s, c)

Drafts == [start : Nat, end : Nat, prefix : Seq(Events), gates : Seq(Nat),
           evaluation : Seq(Events), class : Classes, parent : Nat, index : Nat]

Threads == [pc : {"idle", "analyze", "create", "journal", "replay", "write", "close", "verify"},
            todo : Seq(Events), class : Classes \cup {None}, start : Nat, gates : Seq(Nat),
            draft : Drafts \cup {None}, parent : Nat, index : Nat]

Typed ==
    /\ journal \in Seq(Events)
    /\ row \in CandidateStates \cup {"ABSENT"} /\ experiment \in Classes \cup {None}
    /\ file \in {"absent", "partial", "whole"}
    /\ th \in [Callers -> Threads]
    /\ \A p \in Callers : th[p].pc = "idle" => th[p] = Idle
    /\ orphaned \in BOOLEAN /\ others \in 0 .. MaxOther
    /\ parentIndex \in 0 .. MaxReanalyses /\ candidateIndex \in 0 .. MaxRewrites

\* A call that has created the candidate and is not over.
IsAuthor(p) == th[p].pc \in {"journal", "replay", "write", "close", "verify"}

OneAuthor == \A p, q \in Callers : IsAuthor(p) /\ IsAuthor(q) => p = q

\* Before the candidate is created nothing of it exists.
Untouched ==
    row = "ABSENT" => /\ \A i \in DOMAIN journal : journal[i] = OtherEvent
                      /\ experiment = None /\ file = "absent"
                      /\ \A p \in Callers : ~ IsAuthor(p)

Climbing == Climbs(journal, {}, {})

\* A bundle whose records stand and will: its range lies in the journal.
Sound(b) == b \in Drafts /\ b.start # 0 /\ RecordsStand(b)

\* The gate events of an author are in its range.
RangeKept(t) == /\ t.start \in 1 .. Len(journal)
                /\ \A k \in DOMAIN t.gates : t.gates[k] \in t.start .. Len(journal)

\* What an author has journaled and has yet to journal fit together.
Journaling(t) ==
    /\ RangeKept(t)
    /\ Climbs(t.todo, Passed(journal, Len(journal)), Seen(journal, Len(journal)))
    /\ t.todo # <<>> => EndsWith(t.todo, t.class)
    /\ t.todo = <<>> => Agrees(row, t.class)

Prepared(t) ==
    /\ t.pc = "analyze" => t.gates = <<>>
    /\ t.pc = "create" => /\ t.class \in Classes /\ t.gates = <<>> /\ t.todo # <<>>
                          /\ EndsWith(t.todo, t.class) /\ Climbs(t.todo, {}, {None})
    /\ t.pc = "journal" => t.class \in Classes /\ Journaling(t)
    /\ t.pc = "replay" => /\ t.class \in Classes /\ RangeKept(t)
                          /\ Agrees(row, t.class) /\ experiment = t.class
    /\ t.pc \in {"write", "close"} => Sound(t.draft)

\* The file and the record are written by the author, after the last state.
Written ==
    /\ file # "absent" => \A p \in Callers : th[p].pc \notin {"journal", "replay", "write"}
    /\ file = "whole" => Sound(bundle) /\ \A p \in Callers : th[p].pc # "close"
    /\ experiment # None => /\ Agrees(row, experiment)
                            /\ \A p \in Callers : th[p].pc # "journal"

Inv == /\ Typed /\ OneAuthor /\ Untouched /\ Climbing /\ Written
       /\ \A p \in Callers : Prepared(th[p])

-----------------------------------------------------------------------------
(* Gates of a journal, and climbing, under the operations on sequences *)

LEMMA EventShape ==
    ASSUME NEW e \in Events
    PROVE  /\ e.kind = "STATE" => e = StateEvent(e.to) /\ e.gate = None /\ e.to \in CandidateStates
           /\ e.gate \in Gates \cup {None} /\ e.to \in CandidateStates \cup {None}
BY DEF Events, StateEvent, GateEvent, OtherEvent, Kinds

LEMMA AfterNothing ==
    ASSUME NEW q
    PROVE  Passed(q, 0) = {} /\ Seen(q, 0) = {}
BY DEF Passed, Seen

\* One more event.
LEMMA AfterOneMore ==
    ASSUME NEW q, NEW n \in Nat
    PROVE  /\ Passed(q, n + 1) = Passed(q, n)
                                 \cup {g \in Gates : q[n + 1] = GateEvent("GATE_COMPLETED", g)}
           /\ Seen(q, n + 1) = Seen(q, n) \cup {q[n + 1].gate}
<1>1. \A j : j \in 1 .. n + 1 <=> j \in 1 .. n \/ j = n + 1 OBVIOUS
<1> QED BY <1>1 DEF Passed, Seen

\* Only the first n events count.
LEMMA SamePrefix ==
    ASSUME NEW q, NEW r, NEW n \in Nat, \A j \in 1 .. n : q[j] = r[j]
    PROVE  Passed(q, n) = Passed(r, n) /\ Seen(q, n) = Seen(r, n)
BY DEF Passed, Seen

LEMMA AfterConcat ==
    ASSUME NEW q \in Seq(Events), NEW r \in Seq(Events), NEW n \in 0 .. Len(r)
    PROVE  /\ Passed(q \o r, Len(q) + n) = Passed(q, Len(q)) \cup Passed(r, n)
           /\ Seen(q \o r, Len(q) + n) = Seen(q, Len(q)) \cup Seen(r, n)
<1> DEFINE s == q \o r
           a == Len(q)
<1>1. /\ \A j \in 1 .. a : j \in 1 .. a + n /\ s[j] = q[j]
      /\ \A j \in 1 .. n : a + j \in 1 .. a + n /\ s[a + j] = r[j]
      /\ \A j \in 1 .. a + n : j \in 1 .. a
                                \/ (j - a \in 1 .. n /\ s[j] = r[j - a])
    BY ConcatProperties
<1> HIDE DEF s, a
<1>2. ASSUME NEW x
      PROVE  (\E j \in 1 .. a + n : s[j] = x)
             <=> (\E j \in 1 .. a : q[j] = x) \/ (\E j \in 1 .. n : r[j] = x)
    <2>1. ASSUME NEW j \in 1 .. a + n, s[j] = x
          PROVE  (\E k \in 1 .. a : q[k] = x) \/ (\E k \in 1 .. n : r[k] = x)
        BY <1>1, <2>1
    <2>2. ASSUME NEW j \in 1 .. a, q[j] = x PROVE \E k \in 1 .. a + n : s[k] = x
        BY <1>1, <2>2
    <2>3. ASSUME NEW j \in 1 .. n, r[j] = x PROVE \E k \in 1 .. a + n : s[k] = x
        BY <1>1, <2>3
    <2> QED BY <2>1, <2>2, <2>3
<1>3. Passed(s, a + n) = Passed(q, a) \cup Passed(r, n)
    BY <1>2 DEF Passed
<1>4. Seen(s, a + n) = Seen(q, a) \cup Seen(r, n)
    <2>1. ASSUME NEW j \in 1 .. a + n PROVE s[j].gate \in Seen(q, a) \cup Seen(r, n)
        BY <1>1 DEF Seen
    <2>2. ASSUME NEW j \in 1 .. a PROVE q[j].gate \in Seen(s, a + n)
        BY <1>1 DEF Seen
    <2>3. ASSUME NEW j \in 1 .. n PROVE r[j].gate \in Seen(s, a + n)
        <3>1. a + j \in 1 .. a + n /\ s[a + j] = r[j] BY <1>1
        <3>2. s[a + j].gate \in Seen(s, a + n) BY <3>1 DEF Seen
        <3> QED BY <3>1, <3>2
    <2> QED BY <2>1, <2>2, <2>3 DEF Seen
<1> QED BY <1>3, <1>4 DEF s, a

LEMMA ClimbsConcat ==
    ASSUME NEW q \in Seq(Events), NEW r \in Seq(Events), NEW C, NEW S,
           Climbs(q, C, S), Climbs(r, C \cup Passed(q, Len(q)), S \cup Seen(q, Len(q)))
    PROVE  Climbs(q \o r, C, S)
<1> DEFINE s == q \o r
<1>1. s \in Seq(Events) /\ Len(s) = Len(q) + Len(r) /\ DOMAIN s = 1 .. Len(q) + Len(r)
    BY ConcatProperties
<1>2. SUFFICES ASSUME NEW m \in 1 .. Len(q) + Len(r), s[m].kind = "STATE"
               PROVE  Rung(s[m].to, C \cup Passed(s, m - 1), S \cup Seen(s, m - 1))
    BY <1>1 DEF Climbs
<1>3. CASE m <= Len(q)
    <2>1. m \in DOMAIN q /\ s[m] = q[m] BY <1>3, ConcatProperties
    <2>2. \A j \in 1 .. m - 1 : s[j] = q[j] BY <1>3, ConcatProperties
    <2>3. m - 1 \in Nat OBVIOUS
    <2> HIDE DEF s
    <2>4. Passed(s, m - 1) = Passed(q, m - 1) /\ Seen(s, m - 1) = Seen(q, m - 1)
        BY <2>2, <2>3, SamePrefix
    <2> QED BY <1>2, <2>1, <2>4 DEF Climbs
<1>4. CASE ~ m <= Len(q)
    <2> DEFINE k == m - Len(q)
    <2>1. k \in DOMAIN r /\ k - 1 \in 0 .. Len(r) /\ m - 1 = Len(q) + (k - 1) BY <1>4
    <2>2. s[m] = r[k] BY <1>4, ConcatProperties
    <2> HIDE DEF k
    <2>3. /\ Passed(s, m - 1) = Passed(q, Len(q)) \cup Passed(r, k - 1)
          /\ Seen(s, m - 1) = Seen(q, Len(q)) \cup Seen(r, k - 1)
        BY <2>1, AfterConcat
    <2> HIDE DEF s
    <2>4. Rung(r[k].to, (C \cup Passed(q, Len(q))) \cup Passed(r, k - 1),
                        (S \cup Seen(q, Len(q))) \cup Seen(r, k - 1))
        BY <1>2, <2>1, <2>2 DEF Climbs
    <2>5. /\ (C \cup Passed(q, Len(q))) \cup Passed(r, k - 1) = C \cup Passed(s, m - 1)
          /\ (S \cup Seen(q, Len(q))) \cup Seen(r, k - 1) = S \cup Seen(s, m - 1)
        BY <2>3
    <2> QED BY <2>2, <2>4, <2>5
<1> QED BY <1>3, <1>4

\* The first event of q may be journaled next, and the rest after it.
LEMMA ClimbsTail ==
    ASSUME NEW q \in Seq(Events), q # <<>>, NEW C, NEW S, Climbs(q, C, S)
    PROVE  /\ Head(q).kind = "STATE" => Rung(Head(q).to, C, S)
           /\ Climbs(Tail(q), C \cup {g \in Gates : Head(q) = GateEvent("GATE_COMPLETED", g)},
                     S \cup {Head(q).gate})
<1> DEFINE t == Tail(q)
           h == Head(q)
           P == {g \in Gates : h = GateEvent("GATE_COMPLETED", g)}
<1>1. /\ t \in Seq(Events) /\ Len(t) = Len(q) - 1 /\ Len(q) \in Nat /\ Len(q) >= 1
      /\ h = q[1] /\ \A i \in 1 .. Len(t) : t[i] = q[i + 1]
    BY HeadTailProperties
<1>2. DOMAIN q = 1 .. Len(q) /\ DOMAIN t = 1 .. Len(t) BY <1>1
<1> HIDE DEF t, h
<1>3. h.kind = "STATE" => Rung(h.to, C, S)
    <2>1. 1 \in DOMAIN q /\ 1 - 1 = 0 BY <1>1, <1>2
    <2>2. Passed(q, 1 - 1) = {} /\ Seen(q, 1 - 1) = {} BY <2>1, AfterNothing
    <2>3. C \cup Passed(q, 1 - 1) = C /\ S \cup Seen(q, 1 - 1) = S BY <2>2
    <2> QED BY <1>1, <2>1, <2>3 DEF Climbs
<1>4. ASSUME NEW m \in DOMAIN t, t[m].kind = "STATE"
      PROVE  Rung(t[m].to, (C \cup P) \cup Passed(t, m - 1), (S \cup {h.gate}) \cup Seen(t, m - 1))
    <2>1. m + 1 \in DOMAIN q /\ t[m] = q[m + 1] /\ m \in Nat /\ m >= 1 /\ (m + 1) - 1 = m
        BY <1>1, <1>2
    <2>2. Rung(q[m + 1].to, C \cup Passed(q, m), S \cup Seen(q, m))
        BY <1>4, <2>1 DEF Climbs
    <2>3. \A j \in 1 .. m : j = 1 \/ (j - 1 \in 1 .. m - 1 /\ q[j] = t[j - 1])
        BY <1>1, <1>2, <2>1
    <2>4. 1 \in 1 .. m /\ \A j \in 1 .. m - 1 : j + 1 \in 1 .. m /\ q[j + 1] = t[j]
        BY <1>1, <1>2, <2>1
    <2>5. Passed(q, m) = P \cup Passed(t, m - 1)
        <3>1. ASSUME NEW g \in Gates, g \in Passed(q, m) PROVE g \in P \cup Passed(t, m - 1)
            <4>1. PICK j \in 1 .. m : q[j] = GateEvent("GATE_COMPLETED", g)
                BY <3>1 DEF Passed
            <4>2. CASE j = 1 BY <1>1, <4>1, <4>2
            <4>3. CASE j # 1
                <5>1. j - 1 \in 1 .. m - 1 /\ t[j - 1] = GateEvent("GATE_COMPLETED", g)
                    BY <2>3, <4>1, <4>3
                <5> QED BY <5>1 DEF Passed
            <4> QED BY <4>2, <4>3
        <3>2. P \subseteq Passed(q, m) BY <1>1, <2>4 DEF Passed
        <3>3. ASSUME NEW g \in Gates, g \in Passed(t, m - 1) PROVE g \in Passed(q, m)
            <4>1. PICK j \in 1 .. m - 1 : t[j] = GateEvent("GATE_COMPLETED", g)
                BY <3>3 DEF Passed
            <4>2. j + 1 \in 1 .. m /\ q[j + 1] = GateEvent("GATE_COMPLETED", g) BY <2>4, <4>1
            <4> QED BY <4>2 DEF Passed
        <3>4. Passed(q, m) \subseteq Gates /\ Passed(t, m - 1) \subseteq Gates BY DEF Passed
        <3> HIDE DEF P
        <3> QED BY <3>1, <3>2, <3>3, <3>4
    <2>6. Seen(q, m) = {h.gate} \cup Seen(t, m - 1)
        BY <1>1, <2>3, <2>4 DEF Seen
    <2>7. /\ (C \cup P) \cup Passed(t, m - 1) = C \cup Passed(q, m)
          /\ (S \cup {h.gate}) \cup Seen(t, m - 1) = S \cup Seen(q, m)
        BY <2>5, <2>6
    <2> QED BY <2>1, <2>2, <2>7
<1> QED BY <1>3, <1>4 DEF Climbs, t, h

\* Foreign events take nobody off the ladder.
LEMMA ClimbsNone ==
    ASSUME NEW q, NEW C, NEW S, Climbs(q, C, S)
    PROVE  Climbs(q, C, S \cup {None})
<1> SUFFICES ASSUME NEW m \in DOMAIN q, q[m].kind = "STATE"
             PROVE  Rung(q[m].to, C \cup Passed(q, m - 1), (S \cup {None}) \cup Seen(q, m - 1))
    BY DEF Climbs
<1>1. Rung(q[m].to, C \cup Passed(q, m - 1), S \cup Seen(q, m - 1)) BY DEF Climbs
<1> QED BY <1>1 DEF Rung

\* A journal goes on climbing with the next event.
LEMMA ClimbsAppend ==
    ASSUME NEW q \in Seq(Events), NEW e \in Events, Climbs(q, {}, {}),
           e.kind = "STATE" => Rung(e.to, Passed(q, Len(q)), Seen(q, Len(q)))
    PROVE  /\ Climbs(Append(q, e), {}, {})
           /\ Passed(Append(q, e), Len(Append(q, e)))
                 = Passed(q, Len(q)) \cup {g \in Gates : e = GateEvent("GATE_COMPLETED", g)}
           /\ Seen(Append(q, e), Len(Append(q, e))) = Seen(q, Len(q)) \cup {e.gate}
<1> DEFINE r == Append(q, e)
           n == Len(q)
<1>1. /\ n \in Nat /\ Len(r) = n + 1 /\ DOMAIN r = 1 .. n + 1 /\ DOMAIN q = 1 .. n
      /\ r[n + 1] = e /\ \A j \in 1 .. n : r[j] = q[j]
    OBVIOUS
<1> HIDE DEF r, n
<1>2. \A k \in 0 .. n : Passed(r, k) = Passed(q, k) /\ Seen(r, k) = Seen(q, k)
    BY <1>1 DEF Passed, Seen
<1>3. /\ Passed(r, n + 1) = Passed(q, n) \cup {g \in Gates : e = GateEvent("GATE_COMPLETED", g)}
      /\ Seen(r, n + 1) = Seen(q, n) \cup {e.gate}
    <2>1. n \in 0 .. n BY <1>1
    <2>2. Passed(r, n) = Passed(q, n) /\ Seen(r, n) = Seen(q, n) BY <1>2, <2>1
    <2>3. /\ Passed(r, n + 1) = Passed(r, n)
                                \cup {g \in Gates : r[n + 1] = GateEvent("GATE_COMPLETED", g)}
          /\ Seen(r, n + 1) = Seen(r, n) \cup {r[n + 1].gate}
        BY <1>1, AfterOneMore
    <2>4. r[n + 1] = e BY <1>1
    <2> QED BY <2>2, <2>3, <2>4
<1>4. ASSUME NEW m \in DOMAIN r, r[m].kind = "STATE"
      PROVE  Rung(r[m].to, {} \cup Passed(r, m - 1), {} \cup Seen(r, m - 1))
    <2>1. m - 1 \in 0 .. n BY <1>1
    <2>2. /\ {} \cup Passed(r, m - 1) = {} \cup Passed(q, m - 1)
          /\ {} \cup Seen(r, m - 1) = {} \cup Seen(q, m - 1)
        BY <1>2, <2>1
    <2>3. CASE m = n + 1
        <3>1. m - 1 = n BY <1>1, <2>3
        <3>2. {} \cup Passed(q, m - 1) = Passed(q, n) /\ {} \cup Seen(q, m - 1) = Seen(q, n)
            BY <3>1
        <3> QED BY <1>1, <1>4, <2>2, <2>3, <3>2 DEF n
    <2>4. CASE m # n + 1
        <3>1. m \in DOMAIN q /\ r[m] = q[m] BY <1>1, <2>4
        <3> QED BY <1>4, <2>2, <3>1 DEF Climbs
    <2> QED BY <2>3, <2>4
<1> QED BY <1>1, <1>3, <1>4 DEF Climbs, r, n

-----------------------------------------------------------------------------
(* Induction over the naturals *)

\* Every non-empty set of naturals has a least element.
LEMMA LeastNumber ==
    ASSUME NEW N \in SUBSET Nat, N # {}
    PROVE  \E n \in N : \A m \in N : n <= m
<1> DEFINE Below == OpToRel(<, Nat)
<1>1. PICK n \in N : \A m \in N : <<m, n>> \notin Below
    BY NatLessThanWellFounded, WFMin, Zenon
<1>2. \A m \in N : <<m, n>> \in Below <=> m < n BY DEF OpToRel
<1> HIDE DEF Below
<1>3. ASSUME NEW m \in N PROVE n <= m
    <2>1. ~ m < n BY <1>1, <1>2
    <2> QED BY <2>1
<1> QED BY <1>3

\* Induction over the naturals, about a set instead of a predicate.
LEMMA NaturalsIn ==
    ASSUME NEW S, 0 \in S, \A n \in Nat : n \in S => n + 1 \in S
    PROVE  Nat \subseteq S
<1> SUFFICES ASSUME Nat \ S # {} PROVE FALSE
    OBVIOUS
<1>1. PICK m \in Nat \ S : \A n \in Nat \ S : m <= n
    BY LeastNumber
<1>2. m # 0 /\ m - 1 \in Nat \ S
    BY <1>1
<1> QED BY <1>1, <1>2

-----------------------------------------------------------------------------
(* What an author is going to journal *)

\* The first n gates.
Before(n) == {GateOrder[k] : k \in 1 .. n}

LEMMA GateFacts ==
    /\ DOMAIN GateOrder = 1 .. 9 /\ Len(GateOrder) = 9
    /\ \A i, j \in 1 .. 9 : GateOrder[i] = GateOrder[j] => i = j
    /\ \A i \in 1 .. 9 : GateOrder[i] \in Gates
    /\ Gates = Before(9) /\ Before(0) = {}
    /\ Gates = {"0", "0.5", "1", "2", "3", "4", "5", "6", "7"}
<1>1. /\ GateOrder[1] = "0" /\ GateOrder[2] = "0.5" /\ GateOrder[3] = "1" /\ GateOrder[4] = "2"
      /\ GateOrder[5] = "3" /\ GateOrder[6] = "4" /\ GateOrder[7] = "5" /\ GateOrder[8] = "6"
      /\ GateOrder[9] = "7"
    BY DEF GateOrder
<1>2. DOMAIN GateOrder = 1 .. 9 /\ Len(GateOrder) = 9 BY DEF GateOrder
<1>3. \A i \in 1 .. 9 : i = 1 \/ i = 2 \/ i = 3 \/ i = 4 \/ i = 5 \/ i = 6 \/ i = 7 \/ i = 8 \/ i = 9
    OBVIOUS
<1>4. \A i, j \in 1 .. 9 : GateOrder[i] = GateOrder[j] => i = j BY <1>1, <1>3
<1>5. Gates = Before(9) BY <1>2 DEF Gates, Before
<1>6. Before(0) = {} BY DEF Before
<1>7. /\ 1 \in 1 .. 9 /\ 2 \in 1 .. 9 /\ 3 \in 1 .. 9 /\ 4 \in 1 .. 9 /\ 5 \in 1 .. 9
      /\ 6 \in 1 .. 9 /\ 7 \in 1 .. 9 /\ 8 \in 1 .. 9 /\ 9 \in 1 .. 9
    OBVIOUS
<1>8. Gates = {"0", "0.5", "1", "2", "3", "4", "5", "6", "7"}
    <2>1. \A g \in Gates : g \in {"0", "0.5", "1", "2", "3", "4", "5", "6", "7"}
        BY <1>1, <1>2, <1>3 DEF Gates
    <2>2. \A g \in {"0", "0.5", "1", "2", "3", "4", "5", "6", "7"} : g \in Gates
        BY <1>1, <1>2, <1>7 DEF Gates
    <2> QED BY <2>1, <2>2
<1> QED BY <1>2, <1>4, <1>5, <1>6, <1>8 DEF Gates

LEMMA BeforeGrows ==
    ASSUME NEW n \in 0 .. 8
    PROVE  /\ Before(n + 1) = Before(n) \cup {GateOrder[n + 1]}
           /\ UpTo(GateOrder[n + 1]) = Before(n + 1)
           /\ GateOrder[n + 1] \notin Before(n)
<1>1. \A k : k \in 1 .. n + 1 <=> k \in 1 .. n \/ k = n + 1 OBVIOUS
<1>2. Before(n + 1) = Before(n) \cup {GateOrder[n + 1]} BY <1>1 DEF Before
<1>3. ASSUME NEW k \in 1 .. 9
      PROVE  (\E l \in k .. 9 : GateOrder[l] = GateOrder[n + 1]) <=> k \in 1 .. n + 1
    <2>1. ASSUME NEW l \in k .. 9, GateOrder[l] = GateOrder[n + 1] PROVE k \in 1 .. n + 1
        <3>1. l \in 1 .. 9 /\ n + 1 \in 1 .. 9 OBVIOUS
        <3>2. l = n + 1 BY <2>1, <3>1, GateFacts
        <3> QED BY <3>2
    <2>2. ASSUME k \in 1 .. n + 1 PROVE \E l \in k .. 9 : GateOrder[l] = GateOrder[n + 1]
        <3>1. n + 1 \in k .. 9 BY <2>2
        <3> QED BY <3>1
    <2> QED BY <2>1, <2>2
<1>4. UpTo(GateOrder[n + 1]) = Before(n + 1)
    <2> DEFINE K == {k \in DOMAIN GateOrder :
                        \E l \in k .. Len(GateOrder) : GateOrder[l] = GateOrder[n + 1]}
    <2>1. K = {k \in 1 .. 9 : \E l \in k .. 9 : GateOrder[l] = GateOrder[n + 1]} BY GateFacts
    <2>2. K = {k \in 1 .. 9 : k \in 1 .. n + 1} BY <1>3, <2>1
    <2>3. K = 1 .. n + 1 BY <2>2
    <2> QED BY <2>3 DEF UpTo, Before
<1>5. GateOrder[n + 1] \notin Before(n)
    <2> SUFFICES ASSUME NEW k \in 1 .. n, GateOrder[n + 1] = GateOrder[k] PROVE FALSE
        BY DEF Before
    <2>1. n + 1 \in 1 .. 9 /\ k \in 1 .. 9 OBVIOUS
    <2>2. n + 1 = k BY <2>1, GateFacts
    <2> QED BY <2>2
<1> QED BY <1>2, <1>4, <1>5

\* The states of the ladder are no last states and differ from gate to gate.
LEMMA LadderFacts ==
    /\ DOMAIN StateAfterGate \subseteq Gates
    /\ \A g \in DOMAIN StateAfterGate :
          /\ StateAfterGate[g] \in CandidateStates
          /\ StateAfterGate[g] \notin EvaluationFailures \cup {"PARETO", "DOMINATED"}
          /\ \A h \in DOMAIN StateAfterGate : StateAfterGate[g] = StateAfterGate[h] => g = h
    /\ \A s \in {"PROPOSED", "VALIDATED", "MATERIALIZED", "PARETO", "DOMINATED"} \cup EvaluationFailures :
          /\ s \in CandidateStates
          /\ \A g \in DOMAIN StateAfterGate : s # StateAfterGate[g]
    /\ "PARETO" \notin EvaluationFailures /\ "DOMINATED" \notin EvaluationFailures
    /\ {"PROPOSED", "VALIDATED", "MATERIALIZED"} \cap (EvaluationFailures \cup {"PARETO", "DOMINATED"}) = {}
<1> DEFINE D == {"1", "3", "4", "5", "6", "7"}
<1>1. DOMAIN StateAfterGate = D BY DEF StateAfterGate
<1>2. /\ StateAfterGate["1"] = "PREFLIGHT" /\ StateAfterGate["3"] = "FAST_SYNTH"
      /\ StateAfterGate["4"] = "FORMAL" /\ StateAfterGate["5"] = "FULL_STA"
      /\ StateAfterGate["6"] = "PHYSICAL" /\ StateAfterGate["7"] = "FEASIBLE"
    BY DEF StateAfterGate
<1>3. CandidateStates = {"PROPOSED", "VALIDATED", "MATERIALIZED", "PREFLIGHT", "FAST_SYNTH",
                         "FORMAL", "FULL_STA", "PHYSICAL", "FEASIBLE", "REJECTED",
                         "INCONCLUSIVE", "INFRASTRUCTURE_ERROR", "RECOVERY_ELIGIBLE",
                         "PARETO", "DOMINATED", "SELECTED"}
    <2>1. DOMAIN CandidateTransitions = {"PROPOSED", "VALIDATED", "MATERIALIZED", "PREFLIGHT",
              "FAST_SYNTH", "FORMAL", "FULL_STA", "PHYSICAL", "FEASIBLE"}
        BY DEF CandidateTransitions
    <2> QED BY <2>1, Zenon DEF CandidateStates, EvaluationFailures
<1>4. D \subseteq Gates BY GateFacts
<1>5. \A g \in D : g = "1" \/ g = "3" \/ g = "4" \/ g = "5" \/ g = "6" \/ g = "7" OBVIOUS
<1>6. \A g \in D : /\ StateAfterGate[g] \in CandidateStates
                   /\ StateAfterGate[g] \notin EvaluationFailures \cup {"PARETO", "DOMINATED"}
    BY <1>2, <1>3, <1>5 DEF EvaluationFailures
<1>7. \A g, h \in D : StateAfterGate[g] = StateAfterGate[h] => g = h
    BY <1>2, <1>5
<1>8. \A s \in {"PROPOSED", "VALIDATED", "MATERIALIZED", "PARETO", "DOMINATED"} \cup EvaluationFailures :
          s \in CandidateStates /\ \A g \in D : s # StateAfterGate[g]
    BY <1>2, <1>3, <1>5 DEF EvaluationFailures
<1> QED BY <1>1, <1>4, <1>6, <1>7, <1>8 DEF EvaluationFailures

\* The state after a gate belongs where that gate is the last one passed.
LEMMA RungAfterGate ==
    ASSUME NEW g \in DOMAIN StateAfterGate, NEW S
    PROVE  Rung(StateAfterGate[g], UpTo(g), S)
BY LadderFacts DEF Rung

\* States before the first gate belong anywhere.
LEMMA RungBeforeGates ==
    ASSUME NEW s \in {"PROPOSED", "VALIDATED", "MATERIALIZED"}, NEW C, NEW S
    PROVE  Rung(s, C, S) /\ s \in CandidateStates
BY LadderFacts DEF Rung

LEMMA ShortSeq ==
    /\ \A a, b \in Events : /\ <<a, b>> \in Seq(Events) /\ Len(<<a, b>>) = 2
                            /\ <<a, b>>[1] = a /\ <<a, b>>[2] = b
    /\ \A a \in Events : <<a>> \in Seq(Events) /\ Len(<<a>>) = 1 /\ <<a>>[1] = a
    /\ <<>> \in Seq(Events) /\ Len(<<>>) = 0
OBVIOUS

\* What is journaled about one gate, where the gates before it were passed.
LEMMA JournalOfIs ==
    ASSUME NEW g \in Gates, NEW s \in {"PASS", "FAIL"}, NEW C, NEW S,
           s = "PASS" => C \cup {g} = UpTo(g)
    PROVE  LET q == JournalOf(g, s) IN
           /\ q \in Seq(Events)
           /\ Passed(q, Len(q)) = IF s = "PASS" THEN {g} ELSE {}
           /\ g \in Seen(q, Len(q)) /\ Seen(q, Len(q)) \subseteq {g, None}
           /\ Climbs(q, C, S)
<1> DEFINE e1 == GateEvent("GATE_STARTED", g)
           e2 == GateEvent(TerminalKind[s], g)
           a == <<e1, e2>>
<1>1. TerminalKind[s] = IF s = "PASS" THEN "GATE_COMPLETED" ELSE "GATE_FAILED"
    BY DEF TerminalKind
<1>2. e1 \in Events /\ e2 \in Events
    <2>1. TerminalKind[s] \in Kinds /\ "GATE_STARTED" \in Kinds BY <1>1 DEF Kinds
    <2> QED BY <2>1 DEF Events
<1>3. /\ e1.kind # "STATE" /\ e2.kind # "STATE" /\ e1.gate = g /\ e2.gate = g
      /\ \A h : e1 # GateEvent("GATE_COMPLETED", h)
      /\ \A h : e2 = GateEvent("GATE_COMPLETED", h) <=> s = "PASS" /\ h = g
    BY <1>1 DEF GateEvent
<1> HIDE DEF e1, e2
<1>4. a \in Seq(Events) /\ Len(a) = 2 /\ a[1] = e1 /\ a[2] = e2 BY <1>2, ShortSeq
<1> HIDE DEF a
<1>5. \A j : j \in 1 .. 2 <=> j = 1 \/ j = 2 OBVIOUS
<1>6. Passed(a, 2) = IF s = "PASS" THEN {g} ELSE {}
    BY <1>3, <1>4, <1>5 DEF Passed
<1>7. Seen(a, 2) = {g} BY <1>3, <1>4, <1>5 DEF Seen
<1>8. Climbs(a, C, S)
    <2>1. DOMAIN a = 1 .. 2 BY <1>4
    <2> QED BY <1>3, <1>4, <1>5, <2>1 DEF Climbs
<1>9. CASE s = "PASS" /\ g \in DOMAIN StateAfterGate
    <2> DEFINE e3 == StateEvent(StateAfterGate[g])
               b == <<e3>>
    <2>1. /\ e3 \in Events /\ e3.to = StateAfterGate[g] /\ e3.gate = None
          /\ \A h : e3 # GateEvent("GATE_COMPLETED", h)
        <3>1. StateAfterGate[g] \in CandidateStates BY <1>9, LadderFacts
        <3> QED BY <3>1 DEF Events, StateEvent, GateEvent
    <2> HIDE DEF e3
    <2>2. b \in Seq(Events) /\ Len(b) = 1 /\ b[1] = e3 BY <2>1, ShortSeq
    <2> HIDE DEF b
    <2>3. \A j : j \in 1 .. 1 <=> j = 1 OBVIOUS
    <2>4. Passed(b, 1) = {} /\ Seen(b, 1) = {None} BY <2>1, <2>2, <2>3 DEF Passed, Seen
    <2>5. Climbs(b, C \cup Passed(a, Len(a)), S \cup Seen(a, Len(a)))
        <3>1. C \cup Passed(a, Len(a)) = UpTo(g) BY <1>4, <1>6, <1>9
        <3>2. DOMAIN b = 1 .. 1 /\ Passed(b, 1 - 1) = {} BY <2>2, AfterNothing
        <3>3. UpTo(g) \cup Passed(b, 1 - 1) = UpTo(g) BY <3>2
        <3>4. Rung(e3.to, UpTo(g), S \cup Seen(a, Len(a)) \cup Seen(b, 1 - 1))
            BY <1>9, <2>1, RungAfterGate
        <3> QED BY <2>2, <2>3, <3>1, <3>2, <3>3, <3>4 DEF Climbs
    <2>6. JournalOf(g, s) = a \o b BY <1>9 DEF JournalOf, a, b, e1, e2, e3
    <2>7. a \o b \in Seq(Events) /\ Len(a \o b) = 2 + 1
        <3>1. a \in Seq(Events) /\ b \in Seq(Events) BY <1>4, <2>2
        <3>2. a \o b \in Seq(Events) /\ Len(a \o b) = Len(a) + Len(b)
            BY <3>1, ConcatProperties
        <3> QED BY <1>4, <2>2, <3>2
    <2>8. Climbs(a \o b, C, S) BY <1>4, <1>8, <2>2, <2>5, ClimbsConcat
    <2>9. 1 \in 0 .. Len(b) BY <2>2
    <2>10. /\ Passed(a \o b, 2 + 1) = Passed(a, 2) \cup Passed(b, 1)
           /\ Seen(a \o b, 2 + 1) = Seen(a, 2) \cup Seen(b, 1)
        <3>1. a \in Seq(Events) /\ b \in Seq(Events) BY <1>4, <2>2
        <3>2. /\ Passed(a \o b, Len(a) + 1) = Passed(a, Len(a)) \cup Passed(b, 1)
              /\ Seen(a \o b, Len(a) + 1) = Seen(a, Len(a)) \cup Seen(b, 1)
            BY <2>9, <3>1, AfterConcat
        <3> QED BY <1>4, <3>2
    <2> QED BY <1>6, <1>7, <2>4, <2>6, <2>7, <2>8, <2>10
<1>10. CASE ~ (s = "PASS" /\ g \in DOMAIN StateAfterGate)
    <2>1. JournalOf(g, s) = a \o <<>> BY <1>10 DEF JournalOf, a, e1, e2
    <2>2. JournalOf(g, s) = a BY <1>4, <2>1, ConcatEmptySeq
    <2> QED BY <1>4, <1>6, <1>7, <1>8, <2>2
<1> QED BY <1>9, <1>10

\* EvaluationCascade passes every gate before the last one attempted.
LEMMA AttemptedIs ==
    ASSUME NEW r \in Assessments
    PROVE  LET n == Attempted(r) IN
           /\ n \in 1 .. 9
           /\ \A i \in 1 .. n - 1 : r[GateOrder[i]] = "PASS"
           /\ Outcome(r) = r[GateOrder[n]] /\ Outcome(r) \in {"PASS", "FAIL"}
           /\ Outcome(r) = "PASS" => n = 9
<1> DEFINE F == {i \in DOMAIN GateOrder : r[GateOrder[i]] # "PASS"}
           n == Attempted(r)
<1>1. F \subseteq 1 .. 9 /\ \A i \in 1 .. 9 : i \in F <=> r[GateOrder[i]] # "PASS"
    BY GateFacts
<1>2. \A i \in 1 .. 9 : r[GateOrder[i]] \in {"PASS", "FAIL"} BY GateFacts DEF Assessments
<1>3. n = IF F = {} THEN 9 ELSE Min(F) BY GateFacts DEF Attempted
<1>4. Outcome(r) = r[GateOrder[n]] BY DEF Outcome
<1> HIDE DEF n
<1>5. CASE F = {}
    BY <1>1, <1>2, <1>3, <1>4, <1>5 DEF n
<1>6. CASE F # {}
    <2> HIDE DEF F
    <2>1. PICK x \in F : \A y \in F : x <= y
        <3>1. F \in SUBSET Nat BY <1>1
        <3> QED BY <1>6, <3>1, LeastNumber
    <2>2. n = CHOOSE z \in F : \A y \in F : z <= y BY <1>3, <1>6 DEF Min
    <2>3. n \in F /\ \A y \in F : n <= y BY <2>1, <2>2
    <2>4. \A i \in 1 .. n - 1 : i \in 1 .. 9 /\ i \notin F BY <1>1, <2>3
    <2>5. n \in 1 .. 9 /\ r[GateOrder[n]] # "PASS" BY <1>1, <2>3
    <2> QED BY <1>1, <1>2, <1>4, <2>4, <2>5 DEF n
<1> QED BY <1>5, <1>6

\* FlattenSeq joins its sequences one after the other.
Joins(f, seqs, n) ==
    f = [i \in 1 .. n |-> IF i = 1 THEN seqs[i] ELSE f[i - 1] \o seqs[i]]

LEMMA JoinExists ==
    ASSUME NEW seqs, NEW k \in Nat
    PROVE  \E f : Joins(f, seqs, k)
<1> DEFINE E == {n \in Nat : \E f : Joins(f, seqs, n)}
           J(f, i) == IF i = 1 THEN seqs[i] ELSE f[i - 1] \o seqs[i]
<1>1. 0 \in E
    <2> DEFINE f == [i \in 1 .. 0 |-> seqs[i]]
    <2>1. f = [i \in 1 .. 0 |-> J(f, i)] OBVIOUS
    <2> HIDE DEF f
    <2>2. Joins(f, seqs, 0) BY <2>1 DEF Joins
    <2> QED BY <2>2
<1>2. ASSUME NEW n \in Nat, n \in E PROVE n + 1 \in E
    <2>1. PICK f : Joins(f, seqs, n) BY <1>2
    <2> DEFINE g == [i \in 1 .. n + 1 |-> J(f, i)]
    <2>2. ASSUME NEW i \in 1 .. n PROVE g[i] = f[i]
        <3>1. i \in 1 .. n + 1 OBVIOUS
        <3>2. g[i] = J(f, i) BY <3>1
        <3>3. f[i] = J(f, i) BY <2>1 DEF Joins
        <3> QED BY <3>2, <3>3
    <2>3. \A i \in 1 .. n + 1 : J(g, i) = J(f, i)
        <3> TAKE i \in 1 .. n + 1
        <3>1. i # 1 => i - 1 \in 1 .. n OBVIOUS
        <3> HIDE DEF g
        <3> QED BY <3>1, <2>2
    <2>4. g = [i \in 1 .. n + 1 |-> J(g, i)]
        <3>1. [i \in 1 .. n + 1 |-> J(g, i)] = [i \in 1 .. n + 1 |-> J(f, i)]
            <4> HIDE DEF g, J
            <4> QED BY <2>3
        <3> QED BY <3>1
    <2> HIDE DEF g
    <2>5. Joins(g, seqs, n + 1) BY <2>4 DEF Joins
    <2> QED BY <2>5
<1> HIDE DEF E
<1>3. Nat \subseteq E BY <1>1, <1>2, NaturalsIn
<1> QED BY <1>3 DEF E

LEMMA FlattenIs ==
    ASSUME NEW seqs, NEW n \in Nat \ {0}, Len(seqs) = n
    PROVE  \E f : Joins(f, seqs, n) /\ FlattenSeq(seqs) = f[n]
<1> DEFINE P(f) == f = [i \in 1 .. Len(seqs) |->
                          IF i = 1 THEN seqs[i] ELSE f[i - 1] \o seqs[i]]
<1>1. \E f : P(f)
    <2>1. PICK f : Joins(f, seqs, n) BY JoinExists
    <2>2. P(f) BY <2>1 DEF Joins
    <2> QED BY <2>2
<1>2. FlattenSeq(seqs) = (CHOOSE f : P(f))[Len(seqs)] BY DEF FlattenSeq
<1>3. P(CHOOSE f : P(f)) BY <1>1
<1>4. Joins(CHOOSE f : P(f), seqs, n) BY <1>3 DEF Joins
<1> QED BY <1>2, <1>4

\* What is journaled about the gates that were attempted climbs the ladder.
LEMMA GatesClimb ==
    ASSUME NEW r \in Assessments
    PROVE  LET n == Attempted(r)
               q == FlattenSeq([i \in 1 .. n |-> JournalOf(GateOrder[i], r[GateOrder[i]])]) IN
           /\ q \in Seq(Events)
           /\ Climbs(q, {}, {None})
           /\ Passed(q, Len(q)) = IF Outcome(r) = "PASS" THEN Gates ELSE Before(n - 1)
           /\ GateOrder[n] \in Seen(q, Len(q)) /\ Seen(q, Len(q)) \subseteq Before(n) \cup {None}
<1> DEFINE n == Attempted(r)
           g(i) == GateOrder[i]
           J(i) == JournalOf(g(i), r[g(i)])
           js == [i \in 1 .. n |-> J(i)]
           Climbed(q, i) ==
               /\ q \in Seq(Events)
               /\ Climbs(q, {}, {None})
               /\ Passed(q, Len(q)) = IF r[g(i)] = "PASS" THEN Before(i) ELSE Before(i - 1)
               /\ g(i) \in Seen(q, Len(q)) /\ Seen(q, Len(q)) \subseteq Before(i) \cup {None}
<1>1. /\ n \in 1 .. 9 /\ \A i \in 1 .. n - 1 : r[g(i)] = "PASS"
      /\ Outcome(r) = r[g(n)] /\ Outcome(r) \in {"PASS", "FAIL"}
      /\ Outcome(r) = "PASS" => n = 9
    BY AttemptedIs
<1>2. \A i \in 1 .. n : g(i) \in Gates /\ r[g(i)] \in {"PASS", "FAIL"}
    BY <1>1, GateFacts DEF Assessments
<1> HIDE DEF n
<1>3. n \in Nat \ {0} /\ Len(js) = n BY <1>1
<1>4. PICK f : Joins(f, js, n) /\ FlattenSeq(js) = f[n]
    <2> HIDE DEF js
    <2> QED BY <1>3, FlattenIs
<1>5. \A i \in 1 .. n : f[i] = IF i = 1 THEN J(1) ELSE f[i - 1] \o J(i)
    <2> HIDE DEF J
    <2> QED BY <1>4 DEF Joins
<1>6. ASSUME NEW i \in 1 .. n, NEW S
      PROVE  /\ J(i) \in Seq(Events)
             /\ Passed(J(i), Len(J(i))) = IF r[g(i)] = "PASS" THEN {g(i)} ELSE {}
             /\ g(i) \in Seen(J(i), Len(J(i))) /\ Seen(J(i), Len(J(i))) \subseteq {g(i), None}
             /\ Climbs(J(i), Before(i - 1), S)
    <2>1. Before(i - 1) \cup {g(i)} = UpTo(g(i))
        <3>1. i - 1 \in 0 .. 8 /\ (i - 1) + 1 = i BY <1>1
        <3> QED BY <3>1, BeforeGrows
    <2>2. g(i) \in Gates /\ r[g(i)] \in {"PASS", "FAIL"} BY <1>2
    <2> HIDE DEF g
    <2> QED BY <2>1, <2>2, JournalOfIs
<1> DEFINE E == {i \in Nat : i \in 1 .. n => Climbed(f[i], i)}
<1>7. 0 \in E OBVIOUS
<1>8. ASSUME NEW i \in Nat, i \in E PROVE i + 1 \in E
    <2> SUFFICES ASSUME i + 1 \in 1 .. n PROVE Climbed(f[i + 1], i + 1)
        OBVIOUS
    <2> DEFINE k == i + 1
               b == J(k)
    <2>1. k \in 1 .. n /\ k - 1 = i /\ i \in 0 .. 8 BY <1>1
    <2>2. /\ Before(k) = Before(i) \cup {g(k)} /\ g(k) \notin Before(i)
        BY <2>1, BeforeGrows
    <2>3. \A S : /\ b \in Seq(Events)
                 /\ Passed(b, Len(b)) = IF r[g(k)] = "PASS" THEN {g(k)} ELSE {}
                 /\ g(k) \in Seen(b, Len(b)) /\ Seen(b, Len(b)) \subseteq {g(k), None}
                 /\ Climbs(b, Before(i), S)
        <3> HIDE DEF J, g
        <3> QED BY <1>6, <2>1
    <2>4. CASE i = 0
        <3>1. Before(i) = {} BY <2>4, GateFacts
        <3>2. f[k] = b BY <1>5, <2>1, <2>4
        <3> HIDE DEF b, J, g
        <3> QED BY <2>1, <2>2, <2>3, <3>1, <3>2
    <2>5. CASE i # 0
        <3> DEFINE a == f[i]
        <3>1. i \in 1 .. n /\ i \in 1 .. n - 1 BY <1>1, <2>1, <2>5
        <3>2. Climbed(a, i) /\ r[g(i)] = "PASS" BY <1>1, <1>8, <3>1
        <3>3. f[k] = a \o b
            <4>1. k # 1 BY <2>5
            <4> HIDE DEF J
            <4> QED BY <1>5, <2>1, <4>1
        <3> HIDE DEF a, b, J, g, k
        <3>4. /\ a \in Seq(Events) /\ Climbs(a, {}, {None}) /\ Passed(a, Len(a)) = Before(i)
              /\ Seen(a, Len(a)) \subseteq Before(i) \cup {None}
            BY <3>2
        <3>5. Climbs(b, {} \cup Passed(a, Len(a)), {None} \cup Seen(a, Len(a)))
            <4>1. {} \cup Passed(a, Len(a)) = Before(i) BY <3>4
            <4> QED BY <2>3, <4>1
        <3>6. b \in Seq(Events) BY <2>3
        <3>7. Climbs(a \o b, {}, {None}) BY <3>4, <3>5, <3>6, ClimbsConcat
        <3>8. a \o b \in Seq(Events) /\ Len(a \o b) = Len(a) + Len(b)
            BY <3>4, <3>6, ConcatProperties
        <3>9. /\ Passed(a \o b, Len(a) + Len(b)) = Passed(a, Len(a)) \cup Passed(b, Len(b))
              /\ Seen(a \o b, Len(a) + Len(b)) = Seen(a, Len(a)) \cup Seen(b, Len(b))
            <4>1. Len(b) \in 0 .. Len(b) BY <3>6
            <4> QED BY <3>4, <3>6, <4>1, AfterConcat
        <3>10. Passed(a \o b, Len(a \o b)) = IF r[g(k)] = "PASS" THEN Before(k) ELSE Before(i)
            BY <2>2, <2>3, <3>4, <3>8, <3>9
        <3>11. /\ g(k) \in Seen(a \o b, Len(a \o b))
               /\ Seen(a \o b, Len(a \o b)) \subseteq Before(k) \cup {None}
            BY <2>2, <2>3, <3>4, <3>8, <3>9
        <3>12. Climbed(f[k], k)
            BY <2>1, <3>3, <3>7, <3>8, <3>10, <3>11
        <3> QED BY <3>12 DEF k
    <2> QED BY <2>4, <2>5
<1> HIDE DEF E
<1>9. Nat \subseteq E BY <1>7, <1>8, NaturalsIn
<1>10. Climbed(f[n], n)
    <2>1. n \in E /\ n \in 1 .. n BY <1>1, <1>9
    <2> HIDE DEF Climbed
    <2> QED BY <2>1 DEF E
<1>11. (IF r[g(n)] = "PASS" THEN Before(n) ELSE Before(n - 1))
          = (IF Outcome(r) = "PASS" THEN Gates ELSE Before(n - 1))
    BY <1>1, GateFacts
<1>12. FlattenSeq([i \in 1 .. n |-> JournalOf(GateOrder[i], r[GateOrder[i]])]) = f[n] BY <1>4
<1> QED BY <1>10, <1>11, <1>12 DEF n

\* Last states and the classifications they agree with.
LEMMA LastStates ==
    ASSUME NEW r \in Assessments, NEW improved \in BOOLEAN
    PROVE  LET c == Classification(r, improved)
               s == IF Outcome(r) = "PASS" THEN IF improved THEN "PARETO" ELSE "DOMINATED"
                    ELSE "REJECTED" IN
           /\ c \in Classes
           /\ Closing(r, improved) = <<StateEvent(s)>>
           /\ s \in CandidateStates /\ Agrees(s, c)
<1> DEFINE c == Classification(r, improved)
           s == IF Outcome(r) = "PASS" THEN IF improved THEN "PARETO" ELSE "DOMINATED"
                ELSE "REJECTED"
<1>1. Outcome(r) \in {"PASS", "FAIL"} BY AttemptedIs
<1>2. s \in CandidateStates BY LadderFacts DEF EvaluationFailures
<1>3. s \notin DOMAIN CandidateTransitions
    <2>1. DOMAIN CandidateTransitions = {"PROPOSED", "VALIDATED", "MATERIALIZED", "PREFLIGHT",
              "FAST_SYNTH", "FORMAL", "FULL_STA", "PHYSICAL", "FEASIBLE"}
        BY DEF CandidateTransitions
    <2>2. s \in {"PARETO", "DOMINATED", "REJECTED"} OBVIOUS
    <2> HIDE DEF s
    <2> QED BY <2>1, <2>2
<1>4. CASE Outcome(r) = "PASS"
    <2>1. c = IF improved THEN "FEASIBLE_PARETO" ELSE "VALID_NEGATIVE_RESULT"
        <3>1. GateOrder[Attempted(r)] = "7"
            <4>1. Attempted(r) = 9 BY <1>4, AttemptedIs
            <4> QED BY <4>1 DEF GateOrder
        <3> QED BY <1>4, <3>1 DEF Classification
    <2>2. Closing(r, improved) = <<StateEvent(s)>> BY <1>4 DEF Closing
    <2>3. s \in ExpectedStates([class |-> c]) BY <1>4, <2>1 DEF ExpectedStates
    <2>4. c \in Classes BY <2>1 DEF Classes
    <2> QED BY <1>2, <1>3, <2>2, <2>3, <2>4 DEF Agrees, Ended
<1>5. CASE Outcome(r) = "FAIL"
    <2>1. c \in {"REJECTED_SAFETY", "REJECTED_CORRECTNESS", "REJECTED_POLICY"}
        BY <1>5 DEF Classification
    <2>2. Closing(r, improved) = <<StateEvent(s)>> BY <1>5 DEF Closing
    <2> HIDE DEF c
    <2>3. s \in ExpectedStates([class |-> c]) BY <1>5, <2>1 DEF ExpectedStates
    <2>4. c \in Classes BY <2>1 DEF Classes
    <2> QED BY <1>2, <1>3, <2>2, <2>3, <2>4 DEF Agrees, Ended, c
<1> QED BY <1>1, <1>4, <1>5

\* Everything an author is going to journal is on its rung.
LEMMA ScriptClimbs ==
    ASSUME NEW r \in Assessments, NEW improved \in BOOLEAN
    PROVE  LET q == Script(r, improved) IN
           /\ q \in Seq(Events) /\ q # <<>>
           /\ Climbs(q, {}, {None})
           /\ EndsWith(q, Classification(r, improved))
<1> DEFINE n == Attempted(r)
           a == <<StateEvent("VALIDATED"), StateEvent("MATERIALIZED")>>
           b == FlattenSeq([i \in 1 .. n |-> JournalOf(GateOrder[i], r[GateOrder[i]])])
           s == IF Outcome(r) = "PASS" THEN IF improved THEN "PARETO" ELSE "DOMINATED"
                ELSE "REJECTED"
           e == StateEvent(s)
           d == <<e>>
           c == Classification(r, improved)
<1>1. Script(r, improved) = a \o b \o d BY LastStates DEF Script
<1>2. s \in CandidateStates /\ Agrees(s, c) BY LastStates
<1>3. /\ n \in 1 .. 9 /\ Outcome(r) \in {"PASS", "FAIL"}
      /\ Outcome(r) = "PASS" => n = 9
    BY AttemptedIs
<1>4. /\ b \in Seq(Events) /\ Climbs(b, {}, {None})
      /\ Passed(b, Len(b)) = IF Outcome(r) = "PASS" THEN Gates ELSE Before(n - 1)
      /\ GateOrder[n] \in Seen(b, Len(b)) /\ Seen(b, Len(b)) \subseteq Before(n) \cup {None}
    BY GatesClimb
<1> HIDE DEF n, b
<1>5. /\ a \in Seq(Events) /\ Climbs(a, {}, {None})
      /\ Passed(a, Len(a)) = {} /\ Seen(a, Len(a)) = {None}
    <2> DEFINE e1 == StateEvent("VALIDATED")
               e2 == StateEvent("MATERIALIZED")
    <2>1. e1 \in Events /\ e2 \in Events
        <3>1. "VALIDATED" \in CandidateStates /\ "MATERIALIZED" \in CandidateStates
            BY LadderFacts
        <3> QED BY <3>1 DEF Events
    <2>2. /\ e1.gate = None /\ e2.gate = None /\ e1.to = "VALIDATED" /\ e2.to = "MATERIALIZED"
          /\ \A h : e1 # GateEvent("GATE_COMPLETED", h) /\ e2 # GateEvent("GATE_COMPLETED", h)
        BY DEF StateEvent, GateEvent
    <2>3. a \in Seq(Events) /\ Len(a) = 2 /\ a[1] = e1 /\ a[2] = e2 BY <2>1, ShortSeq
    <2> HIDE DEF a, e1, e2
    <2>4. DOMAIN a = 1 .. 2 /\ \A j : j \in 1 .. 2 <=> j = 1 \/ j = 2 BY <2>3
    <2>5. Passed(a, 2) = {} /\ Seen(a, 2) = {None}
        BY <2>2, <2>3, <2>4 DEF Passed, Seen
    <2>6. \A C, S : Rung(e1.to, C, S) /\ Rung(e2.to, C, S) BY <2>2, RungBeforeGates
    <2>7. Climbs(a, {}, {None}) BY <2>3, <2>4, <2>6 DEF Climbs
    <2> QED BY <2>3, <2>5, <2>7
<1>6. /\ d \in Seq(Events) /\ Len(d) = 1 /\ d[1] = e /\ DOMAIN d = 1 .. 1
      /\ e.to = s
    <2>1. e \in Events BY <1>2 DEF Events
    <2>2. d \in Seq(Events) /\ Len(d) = 1 /\ d[1] = e
        <3> HIDE DEF e
        <3> QED BY <2>1, ShortSeq
    <2>3. e.to = s BY DEF StateEvent
    <2> HIDE DEF d, e, s
    <2> QED BY <2>2, <2>3
<1> HIDE DEF a, d
<1>7. /\ a \o b \in Seq(Events) /\ Len(a \o b) = Len(a) + Len(b)
      /\ Climbs(a \o b, {}, {None})
      /\ Passed(a \o b, Len(a \o b)) = Passed(b, Len(b))
      /\ Seen(a \o b, Len(a \o b)) = {None} \cup Seen(b, Len(b))
    <2>1. a \o b \in Seq(Events) /\ Len(a \o b) = Len(a) + Len(b)
        BY <1>4, <1>5, ConcatProperties
    <2>2. {} \cup Passed(a, Len(a)) = {} /\ {None} \cup Seen(a, Len(a)) = {None} BY <1>5
    <2>3. Climbs(b, {} \cup Passed(a, Len(a)), {None} \cup Seen(a, Len(a))) BY <1>4, <2>2
    <2>4. Climbs(a \o b, {}, {None}) BY <1>4, <1>5, <2>3, ClimbsConcat
    <2>5. a \in Seq(Events) /\ b \in Seq(Events) /\ Len(b) \in 0 .. Len(b) BY <1>4, <1>5
    <2>6. /\ Passed(a \o b, Len(a) + Len(b)) = Passed(a, Len(a)) \cup Passed(b, Len(b))
          /\ Seen(a \o b, Len(a) + Len(b)) = Seen(a, Len(a)) \cup Seen(b, Len(b))
        BY <2>5, AfterConcat
    <2>7. Passed(a, Len(a)) = {} /\ Seen(a, Len(a)) = {None} BY <1>5
    <2>8. /\ Passed(a \o b, Len(a \o b)) = Passed(b, Len(b))
          /\ Seen(a \o b, Len(a \o b)) = {None} \cup Seen(b, Len(b))
        BY <2>1, <2>6, <2>7
    <2> QED BY <2>1, <2>4, <2>8
<1> DEFINE C == Passed(a \o b, Len(a \o b))
           S == {None} \cup Seen(a \o b, Len(a \o b))
<1>8. Rung(s, C, S)
    <2>1. CASE Outcome(r) = "PASS"
        <3>1. C = Gates BY <1>4, <1>7, <2>1
        <3>2. s \in {"PARETO", "DOMINATED"} BY <2>1
        <3> HIDE DEF s, C, S
        <3> QED BY <3>1, <3>2, LadderFacts DEF Rung
    <2>2. CASE Outcome(r) # "PASS"
        <3> DEFINE g == GateOrder[n]
        <3>1. /\ UpTo(g) = Before(n) /\ Before(n) = Before(n - 1) \cup {g}
              /\ g \notin Before(n - 1) /\ g \in Gates
            <4>1. n - 1 \in 0 .. 8 /\ (n - 1) + 1 = n BY <1>3
            <4> QED BY <1>3, <4>1, BeforeGrows, GateFacts
        <3> HIDE DEF g
        <3>2. C = UpTo(g) \ {g} BY <1>4, <1>7, <2>2, <3>1
        <3>3. g \in S /\ S \subseteq UpTo(g) \cup {None} BY <1>4, <1>7, <3>1 DEF g
        <3>4. s = "REJECTED" BY <2>2
        <3> HIDE DEF s, C, S
        <3>5. s \notin {"PARETO", "DOMINATED"} /\ \A h \in DOMAIN StateAfterGate : s # StateAfterGate[h]
            BY <3>4, LadderFacts DEF EvaluationFailures
        <3> QED BY <3>1, <3>2, <3>3, <3>5 DEF Rung
    <2> QED BY <2>1, <2>2
<1>9. Climbs(d, {} \cup Passed(a \o b, Len(a \o b)), {None} \cup Seen(a \o b, Len(a \o b)))
    <2> DEFINE C0 == {} \cup Passed(a \o b, Len(a \o b))
    <2>1. C0 = C OBVIOUS
    <2>2. \A m \in DOMAIN d : m = 1 BY <1>6
    <2>3. Passed(d, 1 - 1) = {} /\ Seen(d, 1 - 1) = {} BY AfterNothing
    <2> HIDE DEF C0, C, S, s, e
    <2>4. C0 \cup Passed(d, 1 - 1) = C /\ S \cup Seen(d, 1 - 1) = S BY <2>1, <2>3
    <2>5. Climbs(d, C0, S) BY <1>6, <1>8, <2>2, <2>4 DEF Climbs
    <2> QED BY <2>5 DEF C0, S
<1>10. Climbs((a \o b) \o d, {}, {None}) BY <1>6, <1>7, <1>9, ClimbsConcat
<1>11. /\ (a \o b) \o d \in Seq(Events) /\ Len((a \o b) \o d) = Len(a \o b) + 1
       /\ ((a \o b) \o d)[Len(a \o b) + 1] = d[1]
    <2> DEFINE x == a \o b
    <2>1. x \in Seq(Events) /\ d \in Seq(Events) /\ Len(d) = 1 BY <1>6, <1>7
    <2> HIDE DEF x
    <2>2. Len(x) + 1 \in 1 .. Len(x) + Len(d) /\ ~ (Len(x) + 1 <= Len(x))
          /\ (Len(x) + 1) - Len(x) = 1
        BY <2>1
    <2>3. /\ x \o d \in Seq(Events) /\ Len(x \o d) = Len(x) + Len(d)
          /\ (x \o d)[Len(x) + 1] = d[(Len(x) + 1) - Len(x)]
        BY <2>1, <2>2, ConcatProperties
    <2> QED BY <2>1, <2>2, <2>3 DEF x
<1>12. (a \o b) \o d # <<>>
    <2> DEFINE x == (a \o b) \o d
    <2>1. Len(x) # 0 BY <1>7, <1>11
    <2> HIDE DEF x
    <2>2. x # <<>> BY <2>1
    <2> QED BY <2>2 DEF x
<1>13. EndsWith((a \o b) \o d, c)
    <2>1. Last((a \o b) \o d) = e BY <1>6, <1>11 DEF Last
    <2> QED BY <1>2, <2>1 DEF EndsWith
<1> QED BY <1>1, <1>10, <1>11, <1>12, <1>13

-----------------------------------------------------------------------------
(* What a longer journal keeps *)

Grows == /\ journal' \in Seq(Events) /\ Len(journal) <= Len(journal')
         /\ \A j \in 1 .. Len(journal) : journal'[j] = journal[j]

LEMMA AppendGrows ==
    ASSUME Typed, NEW e \in Events, journal' = Append(journal, e)
    PROVE  Grows /\ Len(journal') = Len(journal) + 1 /\ journal'[Len(journal) + 1] = e
<1>1. journal \in Seq(Events) BY DEF Typed
<1> QED BY <1>1 DEF Grows

LEMMA SameGrows ==
    ASSUME Typed, journal' = journal
    PROVE  Grows
<1>1. journal \in Seq(Events) BY DEF Typed
<1> QED BY <1>1 DEF Grows

\* Records that stand go on standing, whatever is appended.
LEMMA SoundKept ==
    ASSUME Typed, Grows, row' = row, experiment' = experiment, NEW b, Sound(b)
    PROVE  Sound(b)'
<1>1. journal \in Seq(Events) /\ b \in Drafts /\ b.start # 0 BY DEF Typed, Sound
<1>2. /\ experiment = b.class /\ b.end <= Len(journal) /\ SubSeq(journal, 1, b.end) = b.prefix
      /\ \A k \in DOMAIN b.gates : b.gates[k] \in b.start .. b.end
      /\ Recorded(b) = b.evaluation /\ row \in ExpectedStates(b)
    BY DEF Sound, RecordsStand
<1>3. b.start \in Nat /\ b.end \in Nat BY <1>1 DEF Drafts
<1>4. b.end <= Len(journal') BY <1>1, <1>2, <1>3 DEF Grows
<1>5. \A k \in DOMAIN b.gates : journal'[b.gates[k]] = journal[b.gates[k]]
    <2>1. \A k \in DOMAIN b.gates : b.gates[k] \in 1 .. Len(journal) BY <1>1, <1>2, <1>3
    <2> QED BY <2>1 DEF Grows
<1>6. Recorded(b)' = Recorded(b) BY <1>5 DEF Recorded
<1>7. SubSeq(journal', 1, b.end) = SubSeq(journal, 1, b.end)
    <2> DEFINE x == b.end
    <2>1. x \in Nat /\ x <= Len(journal) BY <1>2, <1>3
    <2>2. journal' \in Seq(Events) /\ Len(journal) <= Len(journal') BY DEF Grows
    <2> HIDE DEF x
    <2>3. \A i \in 1 .. x : journal[i] \in Events /\ journal'[i] = journal[i]
        BY <1>1, <2>1 DEF Grows
    <2> DEFINE u == SubSeq(journal, 1, x)
               v == SubSeq(journal', 1, x)
    <2>4. u \in Seq(Events) /\ Len(u) = x /\ \A i \in 1 .. x : u[i] = journal[i]
        BY <1>1, <2>1
    <2>5. v \in Seq(Events) /\ Len(v) = x /\ \A i \in 1 .. x : v[i] = journal'[i]
        BY <2>1, <2>2
    <2> HIDE DEF u, v
    <2>6. u = v BY <2>3, <2>4, <2>5, SeqEqual
    <2> QED BY <2>6 DEF u, v, x
<1>8. RecordsStand(b)'
    <2>1. ExpectedStates(b)' = ExpectedStates(b) BY DEF ExpectedStates
    <2> QED BY <1>2, <1>4, <1>6, <1>7, <2>1 DEF RecordsStand
<1> QED BY <1>1, <1>8 DEF Sound

LEMMA RangeStays ==
    ASSUME Typed, Grows, NEW t \in Threads, RangeKept(t)
    PROVE  RangeKept(t)'
<1>1. journal \in Seq(Events) /\ Len(journal) \in Nat BY DEF Typed
<1>2. t.start \in Nat /\ t.gates \in Seq(Nat) BY DEF Threads
<1>3. /\ t.start \in 1 .. Len(journal')
      /\ \A k \in DOMAIN t.gates : t.gates[k] \in t.start .. Len(journal')
    <2>1. Len(journal) <= Len(journal') /\ Len(journal') \in Nat BY DEF Grows
    <2> QED BY <1>1, <1>2, <2>1 DEF RangeKept
<1> QED BY <1>3 DEF RangeKept

\* Who is no author is prepared whatever happens to what authors write.
LEMMA PreparedAside ==
    ASSUME NEW t, t.pc \notin {"journal", "replay", "write", "close"}, Prepared(t)
    PROVE  Prepared(t)'
BY DEF Prepared

LEMMA PreparedSame ==
    ASSUME UNCHANGED <<journal, row, experiment>>, NEW t, Prepared(t)
    PROVE  Prepared(t)'
<1>1. Recorded(t.draft)' = Recorded(t.draft) BY DEF Recorded
<1>2. Sound(t.draft)' = Sound(t.draft) BY <1>1 DEF Sound, RecordsStand
<1>3. RangeKept(t)' = RangeKept(t) BY DEF RangeKept
<1>4. Journaling(t)' = Journaling(t) BY <1>3 DEF Journaling
<1> QED BY <1>2, <1>3, <1>4 DEF Prepared

\* What holds of a call's record holds of the caller that has it.
LEMMA PreparedAt ==
    ASSUME NEW q, NEW u, th'[q] = u, Prepared(u)'
    PROVE  Prepared(th[q])'
<1>1. Recorded(th[q].draft)' = Recorded(u.draft)' BY DEF Recorded
<1>2. Sound(th[q].draft)' = Sound(u.draft)' BY <1>1 DEF Sound, RecordsStand
<1>3. RangeKept(th[q])' = RangeKept(u)' BY DEF RangeKept
<1>4. Journaling(th[q])' = Journaling(u)' BY <1>3 DEF Journaling
<1> QED BY <1>2, <1>3, <1>4 DEF Prepared

-----------------------------------------------------------------------------
(* The steps *)

\* A step after which the caller is no author and nothing shared has changed.
LEMMA QuietStep ==
    ASSUME Inv, NEW p \in Callers, NEW t \in Threads, th' = [th EXCEPT ![p] = t],
           UNCHANGED <<journal, row, experiment, file, bundle, others>>, orphaned' \in BOOLEAN,
           parentIndex' \in 0 .. MaxReanalyses, candidateIndex' \in 0 .. MaxRewrites,
           t.pc \in {"idle", "analyze", "create"}, t.pc = "idle" => t = Idle, Prepared(t)
    PROVE  Inv'
<1>1. th \in [Callers -> Threads] BY DEF Inv, Typed
<1>2. th'[p] = t /\ \A q \in Callers : q # p => th'[q] = th[q] BY <1>1
<1>3. Typed'
    <2>1. th' \in [Callers -> Threads] BY <1>1
    <2>2. Typed BY DEF Inv
    <2>3. \A q \in Callers : th'[q].pc = "idle" => th'[q] = Idle' BY <1>2, <2>2 DEF Typed, Idle, indexes
    <2> QED BY <2>1, <2>2, <2>3 DEF Typed
<1>4. \A q \in Callers : IsAuthor(q)' => q # p /\ IsAuthor(q) BY <1>2 DEF IsAuthor
<1>5. OneAuthor' BY <1>4 DEF Inv, OneAuthor
<1>6. Untouched' BY <1>4 DEF Inv, Untouched
<1>7. Climbing' BY DEF Inv, Climbing, Climbs, Rung, Passed, Seen
<1>8. Written'
    <2>1. file = "whole" => Sound(bundle)' /\ bundle' = bundle
        <3>1. Typed BY DEF Inv
        <3>2. Grows BY <3>1, SameGrows
        <3>3. file = "whole" => Sound(bundle) BY DEF Inv, Written
        <3> QED BY <3>3 DEF Sound, RecordsStand, Recorded, ExpectedStates
    <2>2. experiment # None => Agrees(row, experiment)'
        BY DEF Inv, Written, Agrees, ExpectedStates
    <2>3. \A q \in Callers : th'[q].pc \in {"journal", "replay", "write", "close"}
                             => th'[q].pc = th[q].pc
        BY <1>2
    <2> QED BY <2>1, <2>2, <2>3 DEF Inv, Written
<1>9. \A q \in Callers : Prepared(th[q])'
    <2>1. Prepared(t)' BY PreparedSame
    <2>2. ASSUME NEW q \in Callers, q # p PROVE Prepared(th[q])'
        <3>1. Prepared(th[q]) BY DEF Inv
        <3>2. Prepared(th[q]) => \E u : u = th[q] /\ Prepared(u) OBVIOUS
        <3>3. PICK u : u = th[q] /\ Prepared(u) BY <3>1, <3>2
        <3>4. Prepared(u)' BY <3>3, PreparedSame
        <3>5. th'[q] = u BY <1>2, <2>2, <3>3
        <3> QED BY <3>4, <3>5, PreparedAt
    <2>3. Prepared(th[p])' BY <1>2, <2>1, PreparedAt
    <2> QED BY <2>2, <2>3
<1> QED BY <1>3, <1>5, <1>6, <1>7, <1>8, <1>9 DEF Inv

\* What a step of the only author leaves to be shown.
LEMMA AuthorStep ==
    ASSUME Inv, NEW p \in Callers, NEW t \in Threads, th' = [th EXCEPT ![p] = t],
           t.pc # "idle", \A q \in Callers : q # p => ~ IsAuthor(q), row' # "ABSENT",
           Prepared(t)'
    PROVE  /\ th' \in [Callers -> Threads]
           /\ \A q \in Callers : th'[q].pc = "idle" => th'[q] = Idle
           /\ OneAuthor' /\ Untouched'
           /\ \A q \in Callers : Prepared(th[q])'
           /\ \A q \in Callers :
                 th'[q].pc \in {"journal", "replay", "write", "close"} => q = p /\ th'[q] = t
<1>1. th \in [Callers -> Threads] BY DEF Inv, Typed
<1>2. th'[p] = t /\ \A q \in Callers : q # p => th'[q] = th[q] BY <1>1
<1>3. th' \in [Callers -> Threads] BY <1>1
<1>4. \A q \in Callers : th'[q].pc = "idle" => th'[q] = Idle
    BY <1>2 DEF Inv, Typed
<1>5. \A q \in Callers : IsAuthor(q)' => q = p BY <1>2 DEF IsAuthor
<1>6. OneAuthor' BY <1>5 DEF OneAuthor
<1>7. Untouched' BY DEF Untouched
<1>8. ASSUME NEW q \in Callers PROVE Prepared(th[q])'
    <2>1. CASE q = p BY <1>2, <2>1, PreparedAt
    <2>2. CASE q # p
        <3>1. Prepared(th[q]) BY DEF Inv
        <3>2. Prepared(th[q]) => \E u : u = th[q] /\ Prepared(u) OBVIOUS
        <3>3. PICK u : u = th[q] /\ Prepared(u) BY <3>1, <3>2
        <3>4. u.pc \notin {"journal", "replay", "write", "close"}
            BY <2>2, <3>3 DEF IsAuthor
        <3>5. Prepared(u)' BY <3>3, <3>4, PreparedAside
        <3>6. th'[q] = u BY <1>2, <2>2, <3>3
        <3> QED BY <3>5, <3>6, PreparedAt
    <2> QED BY <2>1, <2>2
<1>9. \A q \in Callers : th'[q].pc \in {"journal", "replay", "write", "close"}
                         => q = p /\ th'[q] = t
    BY <1>2, <1>5 DEF IsAuthor
<1> QED BY <1>3, <1>4, <1>6, <1>7, <1>8, <1>9

\* The rest of a script ends like the script.
LEMMA TailEnds ==
    ASSUME NEW q \in Seq(Events), q # <<>>, NEW c, EndsWith(q, c)
    PROVE  /\ Tail(q) # <<>> => EndsWith(Tail(q), c)
           /\ Tail(q) = <<>> => \E s \in CandidateStates : Head(q) = StateEvent(s) /\ Agrees(s, c)
<1> DEFINE t == Tail(q)
<1>1. /\ t \in Seq(Events) /\ Len(t) = Len(q) - 1 /\ Len(q) \in Nat /\ Head(q) = q[1]
      /\ \A i \in 1 .. Len(t) : t[i] = q[i + 1]
    BY HeadTailProperties
<1> HIDE DEF t
<1>2. CASE t # <<>>
    <2>1. Len(t) \in 1 .. Len(t) /\ Len(t) + 1 = Len(q) BY <1>1, <1>2
    <2>2. Last(t) = Last(q) BY <1>1, <2>1 DEF Last
    <2> QED BY <1>2, <2>2 DEF EndsWith, t
<1>3. CASE t = <<>>
    <2>1. Len(t) = 0 BY <1>3
    <2>2. Len(q) = 1 BY <1>1, <2>1
    <2>3. Last(q) = Head(q) BY <1>1, <2>2 DEF Last
    <2> QED BY <1>3, <2>3 DEF EndsWith, t
<1> QED BY <1>2, <1>3

\* What an author finds when it comes to journal: nothing is written yet.
LEMMA AtJournal ==
    ASSUME Inv, NEW p \in Callers, th[p].pc = "journal"
    PROVE  /\ th[p] \in Threads /\ th[p].class \in Classes /\ Journaling(th[p])
           /\ \A q \in Callers : q # p => ~ IsAuthor(q)
           /\ row # "ABSENT" /\ file = "absent" /\ experiment = None
<1>1. th[p] \in Threads BY DEF Inv, Typed
<1>2. IsAuthor(p) BY DEF IsAuthor
<1>3. \A q \in Callers : q # p => ~ IsAuthor(q) BY <1>2 DEF Inv, OneAuthor
<1>4. row # "ABSENT" BY <1>2 DEF Inv, Untouched
<1>5. file = "absent" /\ experiment = None BY DEF Inv, Written
<1>6. Prepared(th[p]) BY DEF Inv
<1> QED BY <1>1, <1>3, <1>4, <1>5, <1>6 DEF Prepared

\* The next event is journaled: what is left fits what is there.
LEMMA NextJournaled ==
    ASSUME Inv, NEW p \in Callers, th[p].pc = "journal", th[p].todo # <<>>,
           NEW e \in Events, e = Head(th[p].todo), journal' = Append(journal, e),
           e.kind = "STATE" => row' = e.to,
           NEW t \in Threads, t.todo = Tail(th[p].todo), t.class = th[p].class,
           t.start = th[p].start,
           \A k \in DOMAIN t.gates :
              t.gates[k] = Len(journal) + 1
              \/ \E l \in DOMAIN th[p].gates : t.gates[k] = th[p].gates[l]
    PROVE  Climbing' /\ Journaling(t)' /\ journal' \in Seq(Events)
<1> DEFINE q == th[p].todo
           n == Len(journal)
           c == th[p].class
<1>1. journal \in Seq(Events) /\ n \in Nat BY DEF Inv, Typed
<1>2. /\ RangeKept(th[p]) /\ Climbs(q, Passed(journal, n), Seen(journal, n))
      /\ EndsWith(q, c)
    BY AtJournal DEF Journaling
<1>3. q \in Seq(Events) /\ q # <<>> BY AtJournal DEF Threads
<1>4. Grows /\ Len(journal') = n + 1 BY AppendGrows DEF Inv
<1> HIDE DEF q
<1>5. /\ e.kind = "STATE" => Rung(e.to, Passed(journal, n), Seen(journal, n))
      /\ Climbs(Tail(q), Passed(journal, n) \cup {g \in Gates : e = GateEvent("GATE_COMPLETED", g)},
                Seen(journal, n) \cup {e.gate})
    BY <1>2, <1>3, ClimbsTail DEF q
<1>6. /\ Climbs(Append(journal, e), {}, {})
      /\ Passed(Append(journal, e), Len(Append(journal, e)))
            = Passed(journal, n) \cup {g \in Gates : e = GateEvent("GATE_COMPLETED", g)}
      /\ Seen(Append(journal, e), Len(Append(journal, e))) = Seen(journal, n) \cup {e.gate}
    <2>1. Climbs(journal, {}, {}) BY DEF Inv, Climbing
    <2> QED BY <1>1, <1>5, <2>1, ClimbsAppend
<1>7. Climbs(journal', {}, {}) BY <1>6
<1>8. Climbs(t.todo, Passed(journal', Len(journal')), Seen(journal', Len(journal')))
    BY <1>5, <1>6 DEF q
<1>9. /\ t.start \in 1 .. Len(journal')
      /\ \A k \in DOMAIN t.gates : t.gates[k] \in t.start .. Len(journal')
    <2>1. /\ t.start \in 1 .. n
          /\ \A l \in DOMAIN th[p].gates : th[p].gates[l] \in t.start .. n
        BY <1>2 DEF RangeKept
    <2>2. ASSUME NEW k \in DOMAIN t.gates PROVE t.gates[k] \in t.start .. n + 1
        BY <1>1, <2>1
    <2> QED BY <1>1, <1>4, <2>1, <2>2
<1>10. t.todo # <<>> => EndsWith(t.todo, t.class) BY <1>2, <1>3, TailEnds DEF q
<1>11. t.todo = <<>> => Agrees(row', t.class)
    <2> SUFFICES ASSUME t.todo = <<>> PROVE Agrees(row', c)
        OBVIOUS
    <2>1. PICK s \in CandidateStates : e = StateEvent(s) /\ Agrees(s, c)
        BY <1>2, <1>3, TailEnds DEF q
    <2>2. e.kind = "STATE" /\ e.to = s BY <2>1 DEF StateEvent
    <2> QED BY <2>1, <2>2
<1>12. Journaling(t)'
    <2>1. RangeKept(t)' BY <1>9 DEF RangeKept
    <2> QED BY <1>8, <1>10, <1>11, <2>1 DEF Journaling
<1> QED BY <1>4, <1>7, <1>12 DEF Climbing, Grows

LEMMA AbsentIsNoState == "ABSENT" \notin CandidateStates
<1>1. DOMAIN CandidateTransitions = {"PROPOSED", "VALIDATED", "MATERIALIZED", "PREFLIGHT",
          "FAST_SYNTH", "FORMAL", "FULL_STA", "PHYSICAL", "FEASIBLE"}
    BY DEF CandidateTransitions
<1> QED BY <1>1 DEF CandidateStates, EvaluationFailures

LEMMA IdleIs == Idle \in Threads /\ Idle.pc = "idle" /\ Prepared(Idle)
<1>1. <<>> \in Seq(Events) /\ <<>> \in Seq(Nat) OBVIOUS
<1> QED BY <1>1 DEF Idle, Threads, Prepared

\* A call that ends leaves all there is.
LEMMA EndStep ==
    ASSUME Inv, NEW p \in Callers, End(p), orphaned' \in BOOLEAN,
           UNCHANGED <<journal, row, experiment, file, bundle, others>>, UNCHANGED indexes
    PROVE  Inv'
<1>1. parentIndex' \in 0 .. MaxReanalyses /\ candidateIndex' \in 0 .. MaxRewrites
    BY DEF Inv, Typed, indexes
<1> QED BY <1>1, IdleIs, QuietStep DEF End

LEMMA CallStep ==
    ASSUME Inv, NEW p \in Callers, Call(p)
    PROVE  Inv'
<1> DEFINE t == [th[p] EXCEPT !.pc = "analyze", !.parent = parentIndex]
<1>1. /\ th[p] \in Threads /\ orphaned' \in BOOLEAN /\ parentIndex \in Nat
      /\ parentIndex' \in 0 .. MaxReanalyses /\ candidateIndex' \in 0 .. MaxRewrites
    BY DEF Inv, Typed, Call, indexes
<1>2. t \in Threads /\ t.pc = "analyze" BY <1>1 DEF Threads
<1>3. th' = [th EXCEPT ![p] = t] BY DEF Call
<1>4. t.gates = <<>> BY <1>1 DEF Inv, Typed, Call, Idle
<1>5. Prepared(t) BY <1>2, <1>4 DEF Prepared
<1> HIDE DEF t
<1> QED BY <1>1, <1>2, <1>3, <1>5, QuietStep DEF Call

LEMMA AnalyzeStep ==
    ASSUME Inv, NEW p \in Callers, Analyze(p)
    PROVE  Inv'
<1>1. PICK r \in Assessments, improved \in BOOLEAN :
          th' = [th EXCEPT ![p].pc = "create", ![p].todo = Script(r, improved),
                           ![p].class = Classification(r, improved),
                           ![p].index = candidateIndex + 1]
    BY DEF Analyze
<1> DEFINE c == Classification(r, improved)
           q == Script(r, improved)
           t == [th[p] EXCEPT !.pc = "create", !.todo = q, !.class = c,
                              !.index = candidateIndex + 1]
<1>2. /\ th[p] \in Threads /\ th[p].pc = "analyze" /\ orphaned' \in BOOLEAN
      /\ candidateIndex + 1 \in Nat
      /\ parentIndex' \in 0 .. MaxReanalyses /\ candidateIndex' \in 0 .. MaxRewrites
    BY CandidateFlowAssumption DEF Inv, Typed, Analyze
<1>3. c \in Classes BY LastStates
<1>4. q \in Seq(Events) /\ q # <<>> /\ Climbs(q, {}, {None}) /\ EndsWith(q, c)
    BY ScriptClimbs
<1>5. th' = [th EXCEPT ![p] = t] BY <1>1
<1> HIDE DEF c, q
<1>6. t \in Threads /\ t.pc = "create" /\ t.todo = q /\ t.class = c
    BY <1>2, <1>3, <1>4 DEF Threads
<1>7. t.gates = <<>>
    <2>1. th[p].gates = <<>> BY <1>2 DEF Inv, Prepared
    <2> QED BY <1>2, <2>1 DEF Threads
<1> HIDE DEF t
<1>8. Prepared(t) BY <1>3, <1>4, <1>6, <1>7 DEF Prepared
<1> QED BY <1>2, <1>5, <1>6, <1>8, QuietStep DEF Analyze

LEMMA CreateStep ==
    ASSUME Inv, NEW p \in Callers, Create(p)
    PROVE  Inv'
<1>1. CASE row # "ABSENT"
    <2>1. End(p) /\ UNCHANGED <<journal, row, experiment, file, bundle, others>>
          /\ UNCHANGED indexes /\ orphaned' \in BOOLEAN
        BY <1>1 DEF Create, Inv, Typed
    <2> QED BY <2>1, EndStep
<1>2. CASE row = "ABSENT"
    <2> DEFINE e == StateEvent("PROPOSED")
               n == Len(journal)
    <2>0. PICK t : t = [th[p] EXCEPT !.pc = "journal", !.start = n + 1] OBVIOUS
    <2>1. /\ th[p] \in Threads /\ th[p].pc = "create" /\ journal \in Seq(Events) /\ n \in Nat
          /\ Typed /\ Climbs(journal, {}, {})
        BY DEF Inv, Typed, Climbing, Create
    <2>2. /\ journal' = Append(journal, e) /\ row' = "PROPOSED" /\ th' = [th EXCEPT ![p] = t]
          /\ UNCHANGED <<experiment, file, bundle, orphaned, others, indexes>>
        BY <1>2, <2>0 DEF Create
    <2>3. /\ th[p].class \in Classes /\ th[p].gates = <<>> /\ th[p].todo # <<>>
          /\ EndsWith(th[p].todo, th[p].class) /\ Climbs(th[p].todo, {}, {None})
        BY <2>1 DEF Inv, Prepared
    <2>4. /\ \A i \in DOMAIN journal : journal[i] = OtherEvent
          /\ experiment = None /\ file = "absent" /\ \A q \in Callers : ~ IsAuthor(q)
        BY <1>2 DEF Inv, Untouched
    <2>5. /\ "PROPOSED" \in CandidateStates
          /\ \A C, S : Rung("PROPOSED", C, S)
        BY RungBeforeGates
    <2>6. /\ e \in Events /\ e.kind = "STATE" /\ e.to = "PROPOSED" /\ e.gate = None
          /\ \A g : e # GateEvent("GATE_COMPLETED", g)
        BY <2>5 DEF Events, StateEvent, GateEvent
    <2> HIDE DEF e
    <2>7. Grows /\ Len(journal') = n + 1 BY <2>1, <2>2, <2>6, AppendGrows
    <2>8. /\ Climbs(Append(journal, e), {}, {})
          /\ Passed(Append(journal, e), Len(Append(journal, e)))
                = Passed(journal, n) \cup {g \in Gates : e = GateEvent("GATE_COMPLETED", g)}
          /\ Seen(Append(journal, e), Len(Append(journal, e))) = Seen(journal, n) \cup {e.gate}
        BY <2>1, <2>5, <2>6, ClimbsAppend
    <2>9. Passed(journal, n) = {} /\ Seen(journal, n) \subseteq {None}
        <3>1. \A j \in 1 .. n : journal[j] = OtherEvent BY <2>1, <2>4
        <3> HIDE DEF n
        <3> QED BY <3>1 DEF Passed, Seen, OtherEvent, GateEvent
    <2>10. Passed(journal', Len(journal')) = {} /\ Seen(journal', Len(journal')) = {None}
        BY <2>2, <2>6, <2>8, <2>9
    <2>11. /\ t \in Threads /\ t.pc = "journal" /\ t.start = n + 1 /\ t.gates = <<>>
           /\ t.todo = th[p].todo /\ t.class = th[p].class
        <3>1. th[p] \in Threads /\ th[p].gates = <<>> /\ n + 1 \in Nat BY <2>1, <2>3
        <3> HIDE DEF n
        <3>2. t \in Threads /\ t.start = n + 1 BY <2>0, <3>1 DEF Threads
        <3>3. t.pc = "journal" BY <2>0, <3>1 DEF Threads
        <3>4. t.gates = th[p].gates /\ t.todo = th[p].todo /\ t.class = th[p].class
            BY <2>0, <3>1 DEF Threads
        <3> QED BY <3>1, <3>2, <3>3, <3>4
    <2>12. Prepared(t)'
        <3>1. RangeKept(t)'
            <4>1. n + 1 \in 1 .. Len(journal') BY <2>1, <2>7
            <4>2. DOMAIN t.gates = {} BY <2>11
            <4> QED BY <2>11, <4>1, <4>2 DEF RangeKept
        <3>2. Journaling(t)' BY <2>3, <2>10, <2>11, <3>1 DEF Journaling
        <3> QED BY <2>3, <2>11, <3>2 DEF Prepared
    <2>13. /\ th' \in [Callers -> Threads]
           /\ \A q \in Callers : th'[q].pc = "idle" => th'[q] = Idle
           /\ OneAuthor' /\ Untouched'
           /\ \A q \in Callers : Prepared(th[q])'
        BY <2>2, <2>4, <2>11, <2>12, AuthorStep
    <2>14. Typed' BY <2>1, <2>2, <2>5, <2>7, <2>13 DEF Typed, Grows, Idle, indexes
    <2>15. Climbing' BY <2>2, <2>8 DEF Climbing
    <2>16. Written' BY <2>2, <2>4 DEF Written
    <2> QED BY <2>13, <2>14, <2>15, <2>16 DEF Inv
<1> QED BY <1>1, <1>2

LEMMA RecordGateStep ==
    ASSUME Inv, NEW p \in Callers, RecordGate(p)
    PROVE  Inv'
<1> DEFINE n == Len(journal)
<1>0. PICK t : t = [th[p] EXCEPT !.todo = Tail(@), !.gates = Append(@, n + 1)] OBVIOUS
<1>1. PICK e : e = Head(th[p].todo) OBVIOUS
<1>2. /\ th[p].pc = "journal" /\ th[p].todo # <<>> /\ e.kind # "STATE"
      /\ journal' = Append(journal, e) /\ th' = [th EXCEPT ![p] = t]
      /\ UNCHANGED <<row, experiment, file, bundle, orphaned, others, indexes>>
    BY <1>0, <1>1 DEF RecordGate
<1>3. /\ th[p] \in Threads /\ th[p].class \in Classes
      /\ \A q \in Callers : q # p => ~ IsAuthor(q)
      /\ row # "ABSENT" /\ file = "absent" /\ experiment = None
    BY <1>2, AtJournal
<1>4. th[p].todo \in Seq(Events) /\ th[p].gates \in Seq(Nat) /\ n \in Nat
    BY <1>3 DEF Threads, Inv, Typed
<1>5. e \in Events /\ Tail(th[p].todo) \in Seq(Events)
    BY <1>1, <1>2, <1>4, HeadTailProperties
<1>6. /\ Append(th[p].gates, n + 1) \in Seq(Nat)
      /\ \A k \in DOMAIN Append(th[p].gates, n + 1) :
            \/ Append(th[p].gates, n + 1)[k] = n + 1
            \/ \E l \in DOMAIN th[p].gates : Append(th[p].gates, n + 1)[k] = th[p].gates[l]
    <2> DEFINE g == th[p].gates
               x == n + 1
    <2>1. g \in Seq(Nat) /\ x \in Nat BY <1>4
    <2> HIDE DEF g, x
    <2>2. Append(g, x) \in Seq(Nat) BY <2>1
    <2>3. /\ Len(g) \in Nat /\ Append(g, x)[Len(g) + 1] = x
          /\ \A l \in 1 .. Len(g) : Append(g, x)[l] = g[l] /\ l \in DOMAIN g
          /\ DOMAIN Append(g, x) = 1 .. Len(g) + 1
        BY <2>1
    <2>4. \A k \in DOMAIN Append(g, x) : Append(g, x)[k] = x
                                         \/ \E l \in DOMAIN g : Append(g, x)[k] = g[l]
        <3> TAKE k \in DOMAIN Append(g, x)
        <3>1. k = Len(g) + 1 \/ k \in 1 .. Len(g) BY <2>3
        <3> QED BY <2>3, <3>1
    <2> QED BY <2>2, <2>4 DEF g, x
<1>7. /\ t.todo = Tail(th[p].todo) /\ t.gates = Append(th[p].gates, n + 1)
      /\ t.class = th[p].class /\ t.start = th[p].start /\ t.pc = "journal"
    <2> HIDE DEF n
    <2> QED BY <1>0, <1>2, <1>3 DEF Threads
<1>8. t \in Threads
    <2> HIDE DEF n
    <2> QED BY <1>0, <1>3, <1>5, <1>6 DEF Threads
<1>9. \A k \in DOMAIN t.gates :
         t.gates[k] = Len(journal) + 1 \/ \E l \in DOMAIN th[p].gates : t.gates[k] = th[p].gates[l]
    BY <1>6, <1>7
<1>10. Climbing' /\ Journaling(t)' /\ journal' \in Seq(Events)
    BY <1>1, <1>2, <1>5, <1>7, <1>8, <1>9, NextJournaled
<1>11. Prepared(t)' BY <1>3, <1>7, <1>10 DEF Prepared
<1>12. /\ th' \in [Callers -> Threads]
       /\ \A q \in Callers : th'[q].pc = "idle" => th'[q] = Idle
       /\ OneAuthor' /\ Untouched' /\ \A q \in Callers : Prepared(th[q])'
    BY <1>2, <1>3, <1>7, <1>8, <1>11, AuthorStep
<1>13. Typed'
    <2>1. Typed BY DEF Inv
    <2> QED BY <1>2, <1>10, <1>12, <2>1 DEF Typed, Idle, indexes
<1>14. Written' BY <1>2, <1>3 DEF Written
<1> QED BY <1>10, <1>12, <1>13, <1>14 DEF Inv

LEMMA TransitionStep ==
    ASSUME Inv, NEW p \in Callers, Transition(p)
    PROVE  Inv'
<1>1. CASE ~ Legal(CandidateTransitions, row, Head(th[p].todo).to)
    <2>1. End(p) /\ UNCHANGED <<journal, row, experiment, file, bundle, others>>
          /\ UNCHANGED indexes /\ orphaned' \in BOOLEAN
        BY <1>1 DEF Transition, Inv, Typed
    <2> QED BY <2>1, EndStep
<1>2. CASE Legal(CandidateTransitions, row, Head(th[p].todo).to)
    <2>0. PICK t : t = [th[p] EXCEPT !.todo = Tail(@)] OBVIOUS
    <2>1. PICK e : e = Head(th[p].todo) OBVIOUS
    <2>2. /\ th[p].pc = "journal" /\ th[p].todo # <<>> /\ e.kind = "STATE"
          /\ journal' = Append(journal, StateEvent(e.to)) /\ row' = e.to
          /\ th' = [th EXCEPT ![p] = t]
          /\ UNCHANGED <<experiment, file, bundle, orphaned, others, indexes>>
        BY <1>2, <2>0, <2>1 DEF Transition
    <2>3. /\ th[p] \in Threads /\ th[p].class \in Classes
          /\ \A q \in Callers : q # p => ~ IsAuthor(q)
          /\ file = "absent" /\ experiment = None
        BY <2>2, AtJournal
    <2>4. th[p].todo \in Seq(Events) BY <2>3 DEF Threads
    <2>5. e \in Events /\ Tail(th[p].todo) \in Seq(Events)
        BY <2>1, <2>2, <2>4, HeadTailProperties
    <2>6. e = StateEvent(e.to) /\ e.to \in CandidateStates BY <2>2, <2>5, EventShape
    <2>7. row' # "ABSENT" /\ row' \in CandidateStates BY <2>2, <2>6, AbsentIsNoState
    <2>8. /\ t.todo = Tail(th[p].todo) /\ t.gates = th[p].gates
          /\ t.class = th[p].class /\ t.start = th[p].start /\ t.pc = "journal"
        BY <2>0, <2>2, <2>3 DEF Threads
    <2>9. t \in Threads BY <2>0, <2>3, <2>5 DEF Threads
    <2>10. \A k \in DOMAIN t.gates :
              t.gates[k] = Len(journal) + 1
              \/ \E l \in DOMAIN th[p].gates : t.gates[k] = th[p].gates[l]
        BY <2>8
    <2>11. Climbing' /\ Journaling(t)' /\ journal' \in Seq(Events)
        BY <2>1, <2>2, <2>5, <2>6, <2>8, <2>9, <2>10, NextJournaled
    <2>12. Prepared(t)' BY <2>3, <2>8, <2>11 DEF Prepared
    <2>13. /\ th' \in [Callers -> Threads]
           /\ \A q \in Callers : th'[q].pc = "idle" => th'[q] = Idle
           /\ OneAuthor' /\ Untouched' /\ \A q \in Callers : Prepared(th[q])'
        BY <2>2, <2>3, <2>7, <2>8, <2>9, <2>12, AuthorStep
    <2>14. Typed'
        <3>1. Typed BY DEF Inv
        <3> QED BY <2>2, <2>7, <2>11, <2>13, <3>1 DEF Typed, Idle, indexes
    <2>15. Written' BY <2>2, <2>3 DEF Written
    <2> QED BY <2>11, <2>13, <2>14, <2>15 DEF Inv
<1> QED BY <1>1, <1>2

LEMMA AppendExperimentStep ==
    ASSUME Inv, NEW p \in Callers, AppendExperiment(p)
    PROVE  Inv'
<1>0. PICK t : t = [th[p] EXCEPT !.pc = "replay"] OBVIOUS
<1>1. /\ th[p].pc = "journal" /\ th[p].todo = <<>> /\ experiment' = th[p].class
      /\ th' = [th EXCEPT ![p] = t]
      /\ UNCHANGED <<orphaned, others, journal, row, file, bundle, indexes>>
    BY <1>0 DEF AppendExperiment, Go
<1>2. /\ th[p] \in Threads /\ th[p].class \in Classes /\ Journaling(th[p])
      /\ \A q \in Callers : q # p => ~ IsAuthor(q)
      /\ row # "ABSENT" /\ file = "absent"
    BY <1>1, AtJournal
<1>3. /\ t \in Threads /\ t.pc = "replay" /\ t.class = th[p].class
      /\ t.start = th[p].start /\ t.gates = th[p].gates
    BY <1>0, <1>2 DEF Threads
<1>4. RangeKept(th[p]) /\ Agrees(row, t.class) BY <1>1, <1>2, <1>3 DEF Journaling
<1>5. Prepared(t)'
    <2>1. RangeKept(t)' BY <1>1, <1>3, <1>4 DEF RangeKept
    <2> QED BY <1>1, <1>2, <1>3, <1>4, <2>1 DEF Prepared
<1>6. /\ th' \in [Callers -> Threads]
      /\ \A q \in Callers : th'[q].pc = "idle" => th'[q] = Idle
      /\ OneAuthor' /\ Untouched' /\ \A q \in Callers : Prepared(th[q])'
      /\ \A q \in Callers :
            th'[q].pc \in {"journal", "replay", "write", "close"} => q = p /\ th'[q] = t
    BY <1>1, <1>2, <1>3, <1>5, AuthorStep
<1>7. Typed'
    <2>1. Typed BY DEF Inv
    <2> QED BY <1>1, <1>2, <1>6, <2>1 DEF Typed, Idle, indexes
<1>8. Written' BY <1>1, <1>2, <1>3, <1>4, <1>6 DEF Written
<1>9. Climbing' BY <1>1 DEF Inv, Climbing
<1> QED BY <1>6, <1>7, <1>8, <1>9 DEF Inv

\* The bundle's content, taken from the journal as it is, stands.
LEMMA ReplayStep ==
    ASSUME Inv, NEW p \in Callers, Replay(p)
    PROVE  Inv'
<1> DEFINE g == th[p].gates
           ev == [k \in DOMAIN g |-> journal[g[k]]]
<1>1. PICK b : b = [start |-> th[p].start, end |-> Len(journal), prefix |-> journal,
                    gates |-> g, evaluation |-> ev, class |-> th[p].class,
                    parent |-> th[p].parent, index |-> th[p].index]
    OBVIOUS
<1>2. PICK t : t = [th[p] EXCEPT !.pc = "write", !.draft = b] OBVIOUS
<1>3. /\ th[p].pc = "replay" /\ th' = [th EXCEPT ![p] = t]
      /\ UNCHANGED <<journal, row, experiment, file, bundle, orphaned, others, indexes>>
    BY <1>1, <1>2 DEF Replay
<1>4. th[p] \in Threads /\ journal \in Seq(Events) /\ Typed BY DEF Inv, Typed
<1>5. /\ th[p].class \in Classes /\ RangeKept(th[p]) /\ Agrees(row, th[p].class)
      /\ experiment = th[p].class
    BY <1>3 DEF Inv, Prepared
<1>6. IsAuthor(p) BY <1>3 DEF IsAuthor
<1>7. /\ \A q \in Callers : q # p => ~ IsAuthor(q)
      /\ row # "ABSENT" /\ file = "absent"
    BY <1>3, <1>6 DEF Inv, OneAuthor, Untouched, Written
<1>8. g \in Seq(Nat) /\ th[p].start \in Nat /\ th[p].parent \in Nat /\ th[p].index \in Nat
    BY <1>4 DEF Threads
<1>9. /\ th[p].start \in 1 .. Len(journal)
      /\ \A k \in DOMAIN g : g[k] \in th[p].start .. Len(journal)
    BY <1>5 DEF RangeKept
<1>10. ev \in Seq(Events)
    <2>1. DOMAIN g = 1 .. Len(g) /\ Len(g) \in Nat BY <1>8
    <2>2. \A k \in DOMAIN g : journal[g[k]] \in Events BY <1>4, <1>8, <1>9
    <2> HIDE DEF g
    <2>3. ev \in [1 .. Len(g) -> Events] BY <2>1, <2>2
    <2> HIDE DEF ev
    <2> QED BY <2>1, <2>3, SeqDef
<1>11. b \in Drafts /\ b.start # 0 /\ b.start = th[p].start /\ b.end = Len(journal)
       /\ b.prefix = journal /\ b.gates = g /\ b.evaluation = ev /\ b.class = th[p].class
    <2> HIDE DEF ev, g
    <2> QED BY <1>1, <1>4, <1>5, <1>8, <1>9, <1>10 DEF Drafts, g
<1>12. Recorded(b) = b.evaluation BY <1>11 DEF Recorded
<1>13. SubSeq(journal, 1, b.end) = b.prefix BY <1>4, <1>11, SubSeqFull
<1>14. row \in ExpectedStates(b)
    BY <1>5, <1>11 DEF Agrees, ExpectedStates
<1>15. RecordsStand(b)
    <2> HIDE DEF g, ev
    <2>1. b.end <= Len(journal) BY <1>4, <1>11
    <2>2. \A k \in DOMAIN b.gates : b.gates[k] \in b.start .. b.end BY <1>9, <1>11 DEF g
    <2> QED BY <1>5, <1>11, <1>12, <1>13, <1>14, <2>1, <2>2 DEF RecordsStand
<1>16. Sound(b)'
    <2>1. Sound(b) BY <1>11, <1>15 DEF Sound
    <2>2. Grows BY <1>3, <1>4, SameGrows
    <2> QED BY <1>3, <1>4, <2>1, <2>2, SoundKept
<1> HIDE DEF g, ev
<1>17. t \in Threads /\ t.pc = "write" /\ t.draft = b BY <1>2, <1>4, <1>11 DEF Threads
<1>18. Prepared(t)' BY <1>16, <1>17 DEF Prepared
<1>19. /\ th' \in [Callers -> Threads]
       /\ \A q \in Callers : th'[q].pc = "idle" => th'[q] = Idle
       /\ OneAuthor' /\ Untouched' /\ \A q \in Callers : Prepared(th[q])'
       /\ \A q \in Callers :
             th'[q].pc \in {"journal", "replay", "write", "close"} => q = p /\ th'[q] = t
    BY <1>3, <1>7, <1>17, <1>18, AuthorStep
<1>20. Typed' BY <1>3, <1>4, <1>19 DEF Typed, Idle, indexes
<1>21. Written'
    <2>1. experiment # None => Agrees(row, experiment) BY DEF Inv, Written
    <2> QED BY <1>3, <1>7, <1>17, <1>19, <2>1 DEF Written
<1>22. Climbing' BY <1>3 DEF Inv, Climbing
<1> QED BY <1>19, <1>20, <1>21, <1>22 DEF Inv

LEMMA OpenBundleStep ==
    ASSUME Inv, NEW p \in Callers, OpenBundle(p)
    PROVE  Inv'
<1>0. PICK t : t = [th[p] EXCEPT !.pc = "close"] OBVIOUS
<1>1. /\ th[p].pc = "write" /\ file' = "partial" /\ th' = [th EXCEPT ![p] = t]
      /\ UNCHANGED <<bundle, journal, row, experiment, orphaned, others, indexes>>
    BY <1>0 DEF OpenBundle, Go
<1>2. th[p] \in Threads /\ Typed BY DEF Inv, Typed
<1>3. IsAuthor(p) BY <1>1 DEF IsAuthor
<1>4. /\ \A q \in Callers : q # p => ~ IsAuthor(q)
      /\ row # "ABSENT"
    BY <1>3 DEF Inv, OneAuthor, Untouched
<1>5. t \in Threads /\ t.pc = "close" /\ t.draft = th[p].draft BY <1>0, <1>2 DEF Threads
<1>6. Sound(t.draft)'
    <2>1. Sound(t.draft) BY <1>1, <1>5 DEF Inv, Prepared
    <2>2. Grows BY <1>1, <1>2, SameGrows
    <2> QED BY <1>1, <1>2, <2>1, <2>2, SoundKept
<1>7. Prepared(t)' BY <1>5, <1>6 DEF Prepared
<1>8. /\ th' \in [Callers -> Threads]
      /\ \A q \in Callers : th'[q].pc = "idle" => th'[q] = Idle
      /\ OneAuthor' /\ Untouched' /\ \A q \in Callers : Prepared(th[q])'
      /\ \A q \in Callers :
            th'[q].pc \in {"journal", "replay", "write", "close"} => q = p /\ th'[q] = t
    BY <1>1, <1>4, <1>5, <1>7, AuthorStep
<1>9. Typed' BY <1>1, <1>2, <1>8 DEF Typed, Idle, indexes
<1>10. Written'
    <2>1. experiment # None => Agrees(row, experiment) BY DEF Inv, Written
    <2> QED BY <1>1, <1>5, <1>8, <2>1 DEF Written
<1>11. Climbing' BY <1>1 DEF Inv, Climbing
<1> QED BY <1>8, <1>9, <1>10, <1>11 DEF Inv

LEMMA WriteBundleStep ==
    ASSUME Inv, NEW p \in Callers, WriteBundle(p)
    PROVE  Inv'
<1>0. PICK t : t = [th[p] EXCEPT !.pc = "verify"] OBVIOUS
<1>1. PICK b : b = th[p].draft OBVIOUS
<1>2. /\ th[p].pc = "close" /\ file' = "whole" /\ bundle' = b /\ th' = [th EXCEPT ![p] = t]
      /\ UNCHANGED <<journal, row, experiment, orphaned, others, indexes>>
    BY <1>0, <1>1 DEF WriteBundle, Go
<1>3. th[p] \in Threads /\ Typed BY DEF Inv, Typed
<1>4. IsAuthor(p) BY <1>2 DEF IsAuthor
<1>5. /\ \A q \in Callers : q # p => ~ IsAuthor(q)
      /\ row # "ABSENT"
    BY <1>4 DEF Inv, OneAuthor, Untouched
<1>6. t \in Threads /\ t.pc = "verify" BY <1>0, <1>3 DEF Threads
<1>7. Sound(b)'
    <2>1. Sound(b) BY <1>1, <1>2 DEF Inv, Prepared
    <2>2. Grows BY <1>2, <1>3, SameGrows
    <2> QED BY <1>2, <1>3, <2>1, <2>2, SoundKept
<1>8. Sound(bundle)'
    <2>1. Recorded(bundle)' = Recorded(b)' BY <1>2 DEF Recorded
    <2> QED BY <1>2, <1>7, <2>1 DEF Sound, RecordsStand
<1>9. Prepared(t)' BY <1>6 DEF Prepared
<1>10. /\ th' \in [Callers -> Threads]
       /\ \A q \in Callers : th'[q].pc = "idle" => th'[q] = Idle
       /\ OneAuthor' /\ Untouched' /\ \A q \in Callers : Prepared(th[q])'
       /\ \A q \in Callers :
             th'[q].pc \in {"journal", "replay", "write", "close"} => q = p /\ th'[q] = t
    BY <1>2, <1>5, <1>6, <1>9, AuthorStep
<1>11. Typed' BY <1>2, <1>3, <1>10 DEF Typed, Idle, indexes
<1>12. Written'
    <2>1. experiment # None => Agrees(row, experiment) BY DEF Inv, Written
    <2>2. \A q \in Callers : th'[q].pc \notin {"journal", "replay", "write", "close"}
        BY <1>6, <1>10
    <2> QED BY <1>2, <1>8, <2>1, <2>2 DEF Written
<1>13. Climbing' BY <1>2 DEF Inv, Climbing
<1> QED BY <1>10, <1>11, <1>12, <1>13 DEF Inv

\* Others append to the journal: nothing that is said of the candidate changes.
LEMMA OtherStep ==
    ASSUME Inv, Other
    PROVE  Inv'
<1> DEFINE n == Len(journal)
<1>1. /\ journal' = Append(journal, OtherEvent) /\ others' \in 0 .. MaxOther
      /\ UNCHANGED <<row, experiment, file, bundle, th, orphaned, indexes>>
    BY CandidateFlowAssumption DEF Other, Inv, Typed
<1>2. Typed /\ journal \in Seq(Events) /\ n \in Nat /\ Climbs(journal, {}, {})
    BY DEF Inv, Typed, Climbing
<1>3. /\ OtherEvent \in Events /\ OtherEvent.kind # "STATE" /\ OtherEvent.gate = None
      /\ \A g : OtherEvent # GateEvent("GATE_COMPLETED", g)
    BY DEF Events, OtherEvent, GateEvent
<1>4. Grows /\ Len(journal') = n + 1 /\ journal'[n + 1] = OtherEvent
    BY <1>1, <1>2, <1>3, AppendGrows
<1>5. /\ Climbs(journal', {}, {})
      /\ Passed(journal', Len(journal')) = Passed(journal, n)
      /\ Seen(journal', Len(journal')) = Seen(journal, n) \cup {None}
    <2> DEFINE e == OtherEvent
    <2> HIDE DEF e
    <2>1. e \in Events /\ e.kind # "STATE" /\ e.gate = None
          /\ \A g : e # GateEvent("GATE_COMPLETED", g)
        BY <1>3 DEF e
    <2>2. /\ Climbs(Append(journal, e), {}, {})
          /\ Passed(Append(journal, e), Len(Append(journal, e)))
                = Passed(journal, n) \cup {g \in Gates : e = GateEvent("GATE_COMPLETED", g)}
          /\ Seen(Append(journal, e), Len(Append(journal, e))) = Seen(journal, n) \cup {e.gate}
        BY <1>2, <2>1, ClimbsAppend
    <2>3. journal' = Append(journal, e) BY <1>1 DEF e
    <2> QED BY <2>1, <2>2, <2>3
<1>6. Typed' BY <1>1, <1>2, <1>4 DEF Typed, Grows, Idle, indexes
<1>7. OneAuthor' BY <1>1 DEF Inv, OneAuthor, IsAuthor
<1>8. Untouched'
    <2>1. ASSUME row = "ABSENT" PROVE \A i \in DOMAIN journal' : journal'[i] = OtherEvent
        <3>1. \A i \in 1 .. n : journal[i] = OtherEvent BY <1>2, <2>1 DEF Inv, Untouched
        <3>2. DOMAIN journal' = 1 .. n + 1 BY <1>4 DEF Grows
        <3>3. \A i \in 1 .. n + 1 : i \in 1 .. n \/ i = n + 1 BY <1>2
        <3> QED BY <1>4, <3>1, <3>2, <3>3 DEF Grows
    <2> QED BY <1>1, <2>1 DEF Inv, Untouched, IsAuthor
<1>9. Climbing' BY <1>5 DEF Climbing
<1>10. Written'
    <2>1. PICK b : b = bundle OBVIOUS
    <2>2. file = "whole" => Sound(b)' BY <1>1, <1>2, <1>4, <2>1, SoundKept DEF Inv, Written
    <2>3. file = "whole" => Sound(bundle)'
        <3>1. bundle' = b BY <1>1, <2>1
        <3>2. Recorded(bundle)' = Recorded(b)' BY <3>1 DEF Recorded
        <3> QED BY <2>2, <3>1, <3>2 DEF Sound, RecordsStand
    <2> QED BY <1>1, <2>3 DEF Inv, Written
<1>11. ASSUME NEW q \in Callers PROVE Prepared(th[q])'
    <2>1. PICK u : u = th[q] OBVIOUS
    <2>2. th'[q] = u BY <1>1, <2>1
    <2>3. Prepared(u) /\ u \in Threads
        <3>1. Prepared(th[q]) /\ th[q] \in Threads BY <1>2 DEF Inv, Typed
        <3> QED BY <2>1, <3>1
    <2>4. Prepared(u)'
        <3>1. RangeKept(u) => RangeKept(u)' BY <1>2, <1>4, <2>3, RangeStays
        <3>2. Sound(u.draft) => Sound(u.draft)' BY <1>1, <1>2, <1>4, SoundKept
        <3>3. Journaling(u) => Journaling(u)'
            <4> SUFFICES ASSUME Journaling(u) PROVE Journaling(u)'
                OBVIOUS
            <4>1. Climbs(u.todo, Passed(journal, n), Seen(journal, n) \cup {None})
                BY ClimbsNone DEF Journaling
            <4>2. Climbs(u.todo, Passed(journal', Len(journal')), Seen(journal', Len(journal')))
                BY <1>5, <4>1
            <4> QED BY <1>1, <3>1, <4>2 DEF Journaling
        <3> QED BY <1>1, <2>3, <3>1, <3>2, <3>3 DEF Prepared
    <2> QED BY <2>2, <2>4, PreparedAt
<1> QED BY <1>6, <1>7, <1>8, <1>9, <1>10, <1>11 DEF Inv

-----------------------------------------------------------------------------
(* The theorems *)

LEMMA InvInit == Init => Inv
<1> SUFFICES ASSUME Init PROVE Inv
    OBVIOUS
<1>1. /\ journal = <<>> /\ row = "ABSENT" /\ experiment = None /\ file = "absent"
      /\ th = [p \in Callers |-> Idle] /\ orphaned = FALSE /\ others = 0
      /\ parentIndex = 0 /\ candidateIndex = 0
    BY DEF Init
<1>2. journal \in Seq(Events) /\ DOMAIN journal = {} BY <1>1
<1>3. Typed
    <2>1. th \in [Callers -> Threads] /\ \A p \in Callers : th[p] = Idle BY <1>1, IdleIs
    <2>2. /\ others \in 0 .. MaxOther
          /\ parentIndex \in 0 .. MaxReanalyses /\ candidateIndex \in 0 .. MaxRewrites
        BY <1>1, CandidateFlowAssumption
    <2> QED BY <1>1, <1>2, <2>1, <2>2 DEF Typed
<1>4. \A p \in Callers : th[p] = Idle /\ th[p].pc = "idle" BY <1>1, IdleIs
<1>5. OneAuthor /\ Untouched /\ Written BY <1>1, <1>2, <1>4 DEF OneAuthor, Untouched, Written, IsAuthor
<1>6. Climbing BY <1>2 DEF Climbing, Climbs
<1>7. \A p \in Callers : Prepared(th[p]) BY <1>4, IdleIs
<1> QED BY <1>3, <1>5, <1>6, <1>7 DEF Inv

\* The step of a call to its end that is no author's step.
LEMMA LeaveStep ==
    ASSUME Inv, NEW p \in Callers, AnalyzeRaises(p) \/ VerifyBundle(p) \/ Fail(p)
    PROVE  Inv'
<1>1. /\ End(p) /\ orphaned' \in BOOLEAN /\ UNCHANGED indexes
      /\ UNCHANGED <<journal, row, experiment, file, bundle, others>>
    BY DEF AnalyzeRaises, VerifyBundle, Fail, Inv, Typed
<1> QED BY <1>1, EndStep

\* Writings of the indexes change nothing else.
LEMMA IndexStep ==
    ASSUME Inv, UNCHANGED <<journal, row, experiment, file, bundle, th, orphaned, others>>,
           parentIndex' \in 0 .. MaxReanalyses, candidateIndex' \in 0 .. MaxRewrites
    PROVE  Inv'
<1>1. /\ UNCHANGED <<journal, row, experiment>> /\ UNCHANGED <<file, bundle, th, orphaned, others>>
    OBVIOUS
<1>2. Typed' /\ OneAuthor' /\ Untouched' /\ Climbing'
    BY <1>1 DEF Inv, Typed, OneAuthor, Untouched, Climbing, IsAuthor, Idle
<1>3. Written'
    <2>1. Recorded(bundle)' = Recorded(bundle) BY <1>1 DEF Recorded
    <2>2. Sound(bundle)' = Sound(bundle) BY <1>1, <2>1 DEF Sound, RecordsStand
    <2> QED BY <1>1, <2>2 DEF Inv, Written
<1>4. ASSUME NEW q \in Callers PROVE Prepared(th[q])'
    <2>1. PICK u : u = th[q] OBVIOUS
    <2>2. Prepared(u)
        <3>1. Prepared(th[q]) BY DEF Inv
        <3> QED BY <2>1, <3>1
    <2>3. Prepared(u)' BY <1>1, <2>2, PreparedSame
    <2> QED BY <1>1, <2>1, <2>3, PreparedAt
<1> QED BY <1>2, <1>3, <1>4 DEF Inv

LEMMA InvStutter ==
    ASSUME Inv, UNCHANGED vars
    PROVE  Inv'
BY IndexStep DEF vars, indexes, Inv, Typed

LEMMA PersistStep ==
    ASSUME Inv, NEW p \in Callers, Persist(p)
    PROVE  Inv'
BY CandidateFlowAssumption, IndexStep DEF Persist, Inv, Typed

LEMMA ReanalyzeStep ==
    ASSUME Inv, Reanalyze
    PROVE  Inv'
BY CandidateFlowAssumption, IndexStep DEF Reanalyze, Inv, Typed

LEMMA InvNext == Inv /\ [Next]_vars => Inv'
<1> SUFFICES ASSUME Inv, [Next]_vars PROVE Inv'
    OBVIOUS
<1>1. ASSUME NEW p \in Callers, Call(p) PROVE Inv' BY <1>1, CallStep
<1>2. ASSUME NEW p \in Callers, Reuse(p) PROVE Inv' BY <1>2, InvStutter DEF Reuse
<1>3. ASSUME NEW p \in Callers, Analyze(p) PROVE Inv' BY <1>3, AnalyzeStep
<1>4. ASSUME NEW p \in Callers, AnalyzeRaises(p) \/ VerifyBundle(p) \/ Fail(p) PROVE Inv'
    BY <1>4, LeaveStep
<1>5. ASSUME NEW p \in Callers, Create(p) PROVE Inv' BY <1>5, CreateStep
<1>6. ASSUME NEW p \in Callers, RecordGate(p) PROVE Inv' BY <1>6, RecordGateStep
<1>7. ASSUME NEW p \in Callers, Transition(p) PROVE Inv' BY <1>7, TransitionStep
<1>8. ASSUME NEW p \in Callers, AppendExperiment(p) PROVE Inv' BY <1>8, AppendExperimentStep
<1>9. ASSUME NEW p \in Callers, Replay(p) PROVE Inv' BY <1>9, ReplayStep
<1>10. ASSUME NEW p \in Callers, OpenBundle(p) PROVE Inv' BY <1>10, OpenBundleStep
<1>11. ASSUME NEW p \in Callers, WriteBundle(p) PROVE Inv' BY <1>11, WriteBundleStep
<1>12. CASE Other BY <1>12, OtherStep
<1>13. CASE UNCHANGED vars BY <1>13, InvStutter
<1>14. ASSUME NEW p \in Callers, Persist(p) PROVE Inv' BY <1>14, PersistStep
<1>15. CASE Reanalyze BY <1>15, ReanalyzeStep
<1> QED BY <1>1, <1>2, <1>3, <1>4, <1>5, <1>6, <1>7, <1>8, <1>9, <1>10, <1>11, <1>12, <1>13,
           <1>14, <1>15
        DEF Next, Author

\* The strengthened invariant: one author, whose script, journal and bundle
\* agree at every step.
THEOREM InvHolds == Spec => []Inv
<1>1. Init => Inv BY InvInit
<1>2. Inv /\ [Next]_vars => Inv' BY InvNext
<1> QED BY <1>1, <1>2, PTL DEF Spec

\* Wherever the journal is cut, the candidate is as far as the gates it has
\* passed (the transitions of optimization/flow.py after each gate).
THEOREM LadderHolds == Spec => []LadderFollowsGates
<1>1. Inv => LadderFollowsGates
    <2> SUFFICES ASSUME Inv, NEW i \in DOMAIN journal, journal[i].kind = "STATE"
                 PROVE  LET s == journal[i].to IN
                        /\ \A g \in DOMAIN StateAfterGate : s = StateAfterGate[g] => Completed(i) = UpTo(g)
                        /\ s \in {"PARETO", "DOMINATED"} => Completed(i) = Gates
                        /\ s \in EvaluationFailures =>
                              \E g \in Gates : /\ Completed(i) = UpTo(g) \ {g}
                                               /\ \E j \in 1 .. i - 1 : journal[j].gate = g
                                               /\ \A j \in 1 .. i - 1 : journal[j].gate \in UpTo(g) \cup {None}
        BY DEF LadderFollowsGates
    <2>1. Rung(journal[i].to, {} \cup Passed(journal, i - 1), {} \cup Seen(journal, i - 1))
        BY DEF Inv, Climbing, Climbs
    <2>2. {} \cup Passed(journal, i - 1) = Completed(i) BY DEF Passed, Completed
    <2>3. {} \cup Seen(journal, i - 1) = {journal[j].gate : j \in 1 .. i - 1} BY DEF Seen
    <2>4. Rung(journal[i].to, Completed(i), {journal[j].gate : j \in 1 .. i - 1})
        BY <2>1, <2>2, <2>3
    <2> QED BY <2>4 DEF Rung
<1> QED BY <1>1, InvHolds, PTL

\* What a bundle says of the records stands as long as it is sealed, and types and
\* the experiment's record agree with the invariant.
LEMMA InvGivesRecords ==
    ASSUME Inv
    PROVE  TypeOK /\ (Sealed => RecordsStand(bundle)) /\ ExperimentIsFinal
<1>1. Typed /\ Written BY DEF Inv
<1>2. TypeOK
    <2>1. \A i \in DOMAIN journal : journal[i].to \in CandidateStates \cup {None}
                                    /\ journal[i].gate \in Gates \cup {None}
        <3> TAKE i \in DOMAIN journal
        <3>1. journal[i] \in Events BY <1>1 DEF Typed
        <3> QED BY <3>1, EventShape
    <2>2. Sealed => bundle.class \in Classes BY <1>1 DEF Sealed, Written, Sound, Drafts
    <2>3. ASSUME NEW p \in Callers
          PROVE  /\ th[p].pc \in {"idle", "analyze", "create", "journal", "replay",
                                  "write", "close", "verify"}
                 /\ th[p].pc = "idle" => th[p] = Idle
                 /\ th[p].pc \in {"journal", "replay"} => th[p].class \in Classes
        <3>1. th[p] \in Threads BY <1>1 DEF Typed
        <3>2. Prepared(th[p]) BY DEF Inv
        <3>3. th[p].pc \in {"journal", "replay"} => th[p].class \in Classes
            BY <3>2 DEF Prepared
        <3> QED BY <1>1, <3>1, <3>3 DEF Typed, Threads
    <2> QED BY <1>1, <2>1, <2>2, <2>3 DEF Typed, TypeOK
<1>3. Sealed => RecordsStand(bundle) BY <1>1 DEF Written, Sound, Sealed
<1>4. ExperimentIsFinal BY <1>1 DEF Written, Agrees, ExperimentIsFinal
<1> QED BY <1>2, <1>3, <1>4

\* Once a bundle is sealed and no call is analysing, none begins to, the bundle
\* is written no more and the candidate's index neither.
LEMMA SealedStep ==
    ASSUME Inv, Sealed, Quiet, [Next]_vars
    PROVE  Quiet' /\ Sealed' /\ bundle' = bundle /\ candidateIndex' = candidateIndex
<1>1. /\ th \in [Callers -> Threads] /\ file = "whole" /\ row \in CandidateStates \cup {"ABSENT"}
      /\ \A p \in Callers : th[p].pc \notin {"analyze", "journal", "replay", "write", "close"}
    BY DEF Inv, Typed, Written, Sealed, Quiet
<1>2. ASSUME NEW p \in Callers, Create(p) \/ VerifyBundle(p) \/ Fail(p)
      PROVE  Quiet' /\ Sealed' /\ bundle' = bundle /\ candidateIndex' = candidateIndex
    <2>1. UNCHANGED <<file, bundle, candidateIndex>>
        BY <1>2 DEF Create, VerifyBundle, Fail, indexes
    <2>2. ASSUME NEW q \in Callers PROVE th'[q].pc # "analyze"
        <3>1. \/ th' = [th EXCEPT ![p] = Idle]
              \/ th' = [th EXCEPT ![p].pc = "journal", ![p].start = Len(journal) + 1]
            BY <1>2 DEF Create, VerifyBundle, Fail, End
        <3>2. CASE th' = [th EXCEPT ![p] = Idle]
            BY <1>1, <3>2, IdleIs DEF Idle
        <3>3. CASE th' = [th EXCEPT ![p].pc = "journal", ![p].start = Len(journal) + 1]
            <4>1. th[p] \in Threads /\ th[q] \in Threads BY <1>1
            <4>2. q # p => th'[q] = th[q] BY <1>1, <3>3
            <4>3. th'[p] = [th[p] EXCEPT !.pc = "journal", !.start = Len(journal) + 1]
                BY <1>1, <3>3
            <4>4. th'[p].pc = "journal" BY <4>1, <4>3 DEF Threads
            <4> QED BY <1>1, <4>2, <4>4
        <3> QED BY <3>1, <3>2, <3>3
    <2> QED BY <1>1, <2>1, <2>2 DEF Quiet, Sealed
<1>3. ASSUME UNCHANGED <<file, bundle, th, candidateIndex>>
      PROVE  Quiet' /\ Sealed' /\ bundle' = bundle /\ candidateIndex' = candidateIndex
    BY <1>1, <1>3 DEF Quiet, Sealed
<1>4. CASE UNCHANGED vars BY <1>3, <1>4 DEF vars, indexes
<1>5. CASE Other \/ Reanalyze BY <1>3, <1>5 DEF Other, Reanalyze, indexes
<1>6. ASSUME NEW p \in Callers, Reuse(p) PROVE UNCHANGED vars BY <1>6 DEF Reuse
<1>7. ASSUME NEW p \in Callers
      PROVE  /\ ~ Call(p) /\ ~ Persist(p) /\ ~ Analyze(p) /\ ~ AnalyzeRaises(p)
             /\ ~ RecordGate(p) /\ ~ Transition(p) /\ ~ AppendExperiment(p) /\ ~ Replay(p)
             /\ ~ OpenBundle(p) /\ ~ WriteBundle(p)
    BY <1>1 DEF Call, Persist, Analyze, AnalyzeRaises, RecordGate, Transition, AppendExperiment,
                Replay, OpenBundle, WriteBundle
<1> QED BY <1>2, <1>4, <1>5, <1>6, <1>7 DEF Next, Author

\* What a sealed bundle says of the records stands for ever beside an experiment
\* that agrees with a last state; the bundle as a whole verifies until the parent
\* run is analysed again, once no analysis that overlapped the call is left
\* (verify_candidate_bundle on a journal others append to and on two indexes
\* that analyze_run rewrites).
THEOREM SealedStays == Spec => SealedIsFinal
<1>1. Inv => TypeOK /\ (Sealed => RecordsStand(bundle)) /\ ExperimentIsFinal
    BY InvGivesRecords
<1>2. Inv' => (Sealed => RecordsStand(bundle))' BY <1>1, PTL
<1>3. Inv /\ Inv' /\ [Next]_vars =>
         [Sealed /\ Quiet =>
             Quiet' /\ (Verifies(bundle) /\ parentIndex' = parentIndex => Verifies(bundle)')]_vars
    <2> SUFFICES ASSUME Inv, Inv', [Next]_vars, Sealed, Quiet
                 PROVE  /\ Quiet'
                        /\ Verifies(bundle) /\ parentIndex' = parentIndex => Verifies(bundle)'
        OBVIOUS
    <2>1. Quiet' /\ Sealed' /\ bundle' = bundle /\ candidateIndex' = candidateIndex
        BY SealedStep
    <2>2. RecordsStand(bundle)' BY <1>2, <2>1
    <2>3. Verifies(bundle) /\ parentIndex' = parentIndex => IndexesKept(bundle)'
        BY <2>1 DEF Verifies, IndexesKept
    <2> QED BY <2>1, <2>2, <2>3 DEF Verifies
<1> QED BY <1>1, <1>3, InvHolds, PTL DEF Spec, SealedIsFinal

=============================================================================
