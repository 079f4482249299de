------------------------------- MODULE Leases -------------------------------
(***************************************************************************)
(* What orchestrator/scheduler.py promises to a caller, without its        *)
(* threads, workers, cancellations or restarts: a job takes a ticket when  *)
(* it is submitted, is granted a lease at most once and in ticket order    *)
(* within its kind, never above the kind's concurrency limit, and gives    *)
(* the lease back at most once.  Scheduler.tla implements this module.     *)
(***************************************************************************)
EXTENDS Naturals, FiniteSets

CONSTANTS Jobs, Kinds, KindOf, MaxConcurrency

VARIABLES lease,   \* job -> "absent" | "queued" | "leased" | "done"
          ticket,  \* job -> its place in the submission order, 0 if absent
          next     \* the ticket the next submission takes

leaseVars == <<lease, ticket, next>>

LeasedOf(k) == {j \in Jobs : lease[j] = "leased" /\ KindOf[j] = k}

Init == /\ lease = [j \in Jobs |-> "absent"]
        /\ ticket = [j \in Jobs |-> 0]
        /\ next = 1

Enqueue(j) == /\ lease[j] = "absent"
              /\ lease' = [lease EXCEPT ![j] = "queued"]
              /\ ticket' = [ticket EXCEPT ![j] = next]
              /\ next' = next + 1

Grant(j) == /\ lease[j] = "queued"
            /\ \A i \in Jobs : lease[i] = "queued" /\ KindOf[i] = KindOf[j]
                                  => ticket[j] <= ticket[i]
            /\ Cardinality(LeasedOf(KindOf[j])) < MaxConcurrency[KindOf[j]]
            /\ lease' = [lease EXCEPT ![j] = "leased"]
            /\ UNCHANGED <<ticket, next>>

\* A queued job may be withdrawn without ever holding a lease.
Withdraw(j) == /\ lease[j] = "queued"
               /\ lease' = [lease EXCEPT ![j] = "done"]
               /\ UNCHANGED <<ticket, next>>

Release(j) == /\ lease[j] = "leased"
              /\ lease' = [lease EXCEPT ![j] = "done"]
              /\ UNCHANGED <<ticket, next>>

Next == \E j \in Jobs : Enqueue(j) \/ Grant(j) \/ Withdraw(j) \/ Release(j)

Spec == Init /\ [][Next]_leaseVars
=============================================================================
