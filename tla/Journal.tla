------------------------------- MODULE Journal -------------------------------
(***************************************************************************)
(* What orchestrator/state.py and artifacts/ledger.py promise to a reader  *)
(* of a run directory, without their callers, transactions and policies: a *)
(* run has a log of numbered entries that is only ever added to, one entry *)
(* at a time; a run or candidate changes its state by a move of its state  *)
(* machine that is logged in the same step, and in no other way; where a   *)
(* candidate belongs and whom it recovers is decided once and for all.     *)
(* Orchestrator.tla implements this module.                                *)
(***************************************************************************)
EXTENDS Naturals, Sequences, StateTables

CONSTANTS Runs, Candidates, Stages, None

VARIABLES at,      \* run or candidate -> its state
          of,      \* candidate -> its run, None before it is proposed
          origin,  \* candidate -> the candidate it is a recovery of, or None
          log      \* run -> its entries

journalVars == <<at, of, origin, log>>

Entry(e, to, n) == [entity |-> e, to |-> to, number |-> n]

Write(r, e, to) == log' = [log EXCEPT ![r] = Append(@, Entry(e, to, Len(@) + 1))]

Init == /\ at = [e \in Runs \cup Candidates |-> IF e \in Runs THEN "CREATED" ELSE "ABSENT"]
        /\ of = [k \in Candidates |-> None]
        /\ origin = [k \in Candidates |-> None]
        /\ log = [r \in Runs |-> <<>>]

MoveRun(r, s) == /\ Legal(RunTransitions, at[r], s)
                 /\ at' = [at EXCEPT ![r] = s]
                 /\ Write(r, r, s)
                 /\ UNCHANGED <<of, origin>>

\* A run that has not left CREATED has no candidates.
Propose(r, k, p) == /\ at[r] # "CREATED" /\ at[k] = "ABSENT"
                    /\ p # None => of[p] = r /\ at[p] = "RECOVERY_ELIGIBLE"
                    /\ at' = [at EXCEPT ![k] = "PROPOSED"]
                    /\ of' = [of EXCEPT ![k] = r]
                    /\ origin' = [origin EXCEPT ![k] = p]
                    /\ Write(r, k, "PROPOSED")

MoveCandidate(r, k, s) == /\ of[k] = r
                          /\ Legal(CandidateTransitions, at[k], s)
                          /\ at' = [at EXCEPT ![k] = s]
                          /\ Write(r, k, s)
                          /\ UNCHANGED <<of, origin>>

\* What a gate or a stage had to say; nobody's state changes.
Note(r, e) == /\ at[r] # "CREATED"
              /\ e \in Candidates => of[e] = r
              /\ Write(r, e, None)
              /\ UNCHANGED <<at, of, origin>>

Next == \E r \in Runs :
           \/ \E s \in RunStates : MoveRun(r, s)
           \/ \E k \in Candidates : \/ \E p \in Candidates \cup {None} : Propose(r, k, p)
                                    \/ \E s \in CandidateStates : MoveCandidate(r, k, s)
           \/ \E e \in Candidates \cup Stages : Note(r, e)

Spec == Init /\ [][Next]_journalVars
=============================================================================
