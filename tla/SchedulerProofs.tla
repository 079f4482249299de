--------------------------- MODULE SchedulerProofs ---------------------------
(* Machine-checked proofs about Scheduler, for every value of its constants. *)
EXTENDS Scheduler, FiniteSetTheorems, WellFoundedInduction, TLAPS

\* Where a caller may be and what its local record holds.
LEMMA IdleControl == Idle \in Control
BY DEF Idle, At, Control

LEMMA ReturnedControl ==
    ASSUME NEW c \in Callers, th[c] \in Control
    PROVE  /\ Returned(c) \in Control /\ Returned(c).pc \notin HasJob
           /\ Dispatching(c) \in Control /\ Dispatching(c).pc \notin HasJob
BY DEF Returned, Dispatching, At, Control, HasJob

LEMMA FinalStatusType ==
    \A w \in Why : FinalStatus(w) \in Terminal
BY DEF FinalStatus, Terminal, Why

\* A caller's next record keeps the type of the control state.
LEMMA SetType ==
    ASSUME TypeOK, NEW c \in Callers, NEW t \in Control, Set(c, t),
           t.pc \in HasJob => t.job \in Jobs,
           t.pc \in {"kill", "close"} => t.why \in Why
    PROVE  ControlOK'
BY DEF TypeOK, ControlOK, Set

LEMMA AbortType ==
    ASSUME TypeOK, NEW c \in Callers, Abort(c)
    PROVE  ControlOK'
<1>1. Idle.pc = "idle" BY DEF Idle, At
<1> QED BY <1>1, IdleControl, SetType DEF Abort, HasJob

LEMMA MoveType ==
    ASSUME TypeOK, NEW j \in Jobs, NEW s \in JobStatus, NEW e \in EventType, Move(j, s, e)
    PROVE  /\ status' \in [Jobs -> {"ABSENT"} \cup JobStatus]
           /\ events' \in [Jobs -> Seq(EventType)]
           /\ submitIndex' \in [Jobs -> Nat]
           /\ nextIndex' \in Nat \ {0}
BY DEF TypeOK, Move

LEMMA Statuses ==
    /\ Terminal \subseteq JobStatus /\ Active \subseteq JobStatus
    /\ Nonterminal \subseteq JobStatus
    /\ Terminal \subseteq EventType /\ "QUARANTINED" \in EventType
    /\ "DISPATCHING" \in EventType /\ "RUNNING" \in EventType
    /\ "CANCELLATION_REQUESTED" \in EventType /\ "QUEUED" \in EventType
BY DEF Terminal, Active, Nonterminal, JobStatus, EventType

-----------------------------------------------------------------------------
(* Type correctness *)

LEMMA SubmitType ==
    ASSUME TypeOK, NEW c \in Callers, NEW j \in Jobs, Submit(c, j)
    PROVE  TypeOK'
<1> DEFINE t == [Idle EXCEPT !.pc = "attach", !.job = j]
           u == At("dispatch", "idle", {})
<1>1. t \in Control /\ t.job \in Jobs /\ t.pc = "attach"
  BY DEF Idle, At, Control
<1>2. u \in Control /\ u.pc = "dispatch"
  BY DEF At, Control
<1>3. Set(c, t) \/ Set(c, u) BY DEF Submit
<1> HIDE DEF t, u
<1>4. ControlOK' BY <1>1, <1>2, <1>3, SetType DEF HasJob
<1>5. events' \in [Jobs -> Seq(EventType)]
  <2>1. Append(events[j], "QUEUED") \in Seq(EventType) BY Statuses DEF TypeOK
  <2> QED BY <2>1 DEF Submit, TypeOK
<1>6. /\ status' \in [Jobs -> {"ABSENT"} \cup JobStatus]
      /\ submitIndex' \in [Jobs -> Nat] /\ nextIndex' \in Nat \ {0}
  BY Statuses DEF Submit, TypeOK, Nonterminal
<1> QED BY <1>4, <1>5, <1>6 DEF Submit, TypeOK

\* Steps that leave the database and the process table alone.
LEMMA LocalStepType ==
    ASSUME TypeOK, NEW c \in Callers,
           \/ Fetch(c) \/ SweepDone(c) \/ BootDone(c) \/ Restart(c) \/ Sweep(c)
           \/ Attach(c) \/ Drained(c) \/ Start(c) \/ StartFails(c)
           \/ \E j \in Jobs : AttachWorker(c, j)
    PROVE  TypeOK'
<1> DEFINE t == th[c]
<1>0. t \in Control /\ (t.pc \in HasJob => t.job \in Jobs)
  BY DEF TypeOK, ControlOK
<1>1. CASE Fetch(c)
  <2>1. [t EXCEPT !.pc = "start"] \in Control BY <1>0 DEF Control
  <2>2. ControlOK'
    BY <1>0, <1>1, <2>1, SetType, AbortType DEF Fetch, HasJob, Control
  <2> QED BY <1>1, <2>2 DEF Fetch, TypeOK, durable
<1>2. CASE SweepDone(c)
  BY <1>2, AbortType DEF SweepDone, Abort, TypeOK, durable
<1>3. CASE BootDone(c)
  <2>1. At("dispatch", "idle", {}) \in Control BY DEF At, Control
  <2>2. ControlOK' BY <1>3, <2>1, SetType DEF BootDone, HasJob, At
  <2> QED BY <1>3, <2>2 DEF BootDone, TypeOK, durable
<1>4. CASE Restart(c)
  <2> DEFINE S == {j \in Jobs : status[j] \in Nonterminal}
  <2>1. At("boot", "boot", S) \in Control BY DEF At, Control
  <2>2. ControlOK' BY <1>4, <2>1, SetType DEF Restart, HasJob, At
  <2> QED BY <1>4, <2>2 DEF Restart, TypeOK, durable
<1>5. CASE Sweep(c)
  <2>1. PICK S \in SUBSET Jobs : Set(c, At("sweep", "sweep", S))
    BY <1>5 DEF Sweep
  <2>2. At("sweep", "sweep", S) \in Control BY DEF At, Control
  <2>3. ControlOK' BY <2>1, <2>2, SetType DEF HasJob, At
  <2> QED BY <1>5, <2>3 DEF Sweep, TypeOK, durable
<1>6. CASE Attach(c)
  <2>1. At("dispatch", "idle", {}) \in Control BY DEF At, Control
  <2>2. ControlOK' BY <1>6, <2>1, SetType DEF Attach, HasJob, At
  <2>3. attached' \subseteq Jobs BY <1>0, <1>6 DEF Attach, TypeOK, HasJob
  <2> QED BY <1>6, <2>2, <2>3 DEF Attach, TypeOK, durable
<1>7. CASE Drained(c)
  <2>1. ControlOK'
    BY <1>0, <1>7, ReturnedControl, SetType DEF Drained, HasJob
  <2> QED BY <1>7, <2>1 DEF Drained, TypeOK, durable
<1>8. CASE Start(c)
  <2>1. [t EXCEPT !.pc = "commit"] \in Control BY <1>0 DEF Control
  <2>2. ControlOK' BY <1>0, <1>8, <2>1, SetType DEF Start, HasJob, Control
  <2>3. alive' \subseteq Jobs BY <1>0, <1>8 DEF Start, TypeOK, HasJob
  <2> QED BY <1>8, <2>2, <2>3 DEF Start, TypeOK, durable
<1>9. CASE StartFails(c)
  <2> DEFINE u == [t EXCEPT !.pc = "kill", !.why = "start_failed"]
  <2>1. u \in Control /\ u.why \in Why /\ u.job = t.job
    BY <1>0 DEF Control, Why
  <2>2. Set(c, u) BY <1>9 DEF StartFails
  <2>3. t.job \in Jobs BY <1>0, <1>9 DEF StartFails, HasJob
  <2> HIDE DEF u
  <2>4. ControlOK' BY <2>1, <2>2, <2>3, SetType
  <2>5. alive' \subseteq Jobs BY <2>3, <1>9 DEF StartFails, TypeOK
  <2> QED BY <1>9, <2>4, <2>5 DEF StartFails, TypeOK, durable
<1>10. ASSUME NEW j \in Jobs, AttachWorker(c, j) PROVE TypeOK'
  <2> DEFINE u == [Idle EXCEPT !.pc = "attach", !.job = j]
  <2>1. u \in Control /\ u.job \in Jobs /\ u.pc = "attach"
    BY DEF Idle, At, Control
  <2>2. Set(c, u) BY <1>10 DEF AttachWorker
  <2> HIDE DEF u
  <2>3. ControlOK' BY <2>1, <2>2, SetType
  <2> QED BY <1>10, <2>3 DEF AttachWorker, TypeOK, durable
<1> QED BY <1>1, <1>2, <1>3, <1>4, <1>5, <1>6, <1>7, <1>8, <1>9, <1>10

LEMMA ReserveType ==
    ASSUME TypeOK, NEW c \in Callers, Reserve(c)
    PROVE  TypeOK'
<1>1. PICK j \in Jobs : /\ Move(j, "DISPATCHING", "DISPATCHING")
                        /\ Set(c, [th[c] EXCEPT !.pc = "fetch", !.job = j])
  BY DEF Reserve, First, Eligible
<1> DEFINE t == [th[c] EXCEPT !.pc = "fetch", !.job = j]
<1>2. t \in Control /\ t.job \in Jobs /\ t.pc = "fetch"
  BY DEF TypeOK, ControlOK, Control
<1>3. Set(c, t) BY <1>1
<1> HIDE DEF t
<1>4. ControlOK' BY <1>2, <1>3, SetType DEF HasJob
<1>5. "DISPATCHING" \in JobStatus BY Statuses DEF Active
<1> QED BY <1>1, <1>4, <1>5, MoveType, Statuses DEF Reserve, TypeOK

LEMMA CommitType ==
    ASSUME TypeOK, NEW c \in Callers, Commit(c)
    PROVE  TypeOK'
<1>0. th[c] \in Control /\ th[c].job \in Jobs
  BY DEF TypeOK, ControlOK, Commit, HasJob
<1>1. CASE status[th[c].job] = "DISPATCHING"
  <2>1. Move(th[c].job, "RUNNING", "RUNNING") /\ Set(c, Dispatching(c))
    BY <1>1 DEF Commit
  <2>2. ControlOK' BY <1>0, <2>1, ReturnedControl, SetType DEF HasJob
  <2>3. "RUNNING" \in JobStatus BY Statuses DEF Active
  <2> QED BY <1>0, <1>1, <2>1, <2>2, <2>3, MoveType, Statuses DEF Commit, TypeOK
<1>2. CASE status[th[c].job] # "DISPATCHING"
  <2>1. ControlOK' BY <1>2, AbortType DEF Commit
  <2>2. alive' \subseteq Jobs BY <1>2 DEF Commit, Terminated, TypeOK
  <2> QED BY <1>2, <2>1, <2>2 DEF Commit, TypeOK, durable
<1> QED BY <1>1, <1>2

LEMMA KillType ==
    ASSUME TypeOK, NEW c \in Callers, Kill(c)
    PROVE  TypeOK'
<1> DEFINE t == th[c]
<1>0. t \in Control /\ t.job \in Jobs /\ t.why \in Why
  BY DEF TypeOK, ControlOK, Kill, HasJob
<1>1. CASE t.why = "cancel" /\ t.job \notin attached
  <2> DEFINE u == [t EXCEPT !.pc = "close", !.confirmed = FALSE]
  <2>1. u \in Control /\ u.job = t.job /\ u.why = t.why BY <1>0 DEF Control
  <2>2. Set(c, u) BY <1>1 DEF Kill
  <2> HIDE DEF u
  <2>3. ControlOK' BY <1>0, <2>1, <2>2, SetType
  <2> QED BY <1>1, <2>3 DEF Kill, TypeOK, durable
<1>2. CASE ~(t.why = "cancel" /\ t.job \notin attached)
  <2>1. PICK ok \in BOOLEAN, K \in SUBSET Logs :
           /\ Terminated(t.job, ok)
           /\ Set(c, [t EXCEPT !.pc = "close", !.confirmed = ok, !.logs = @ \cup K])
    BY <1>2 DEF Kill
  <2> DEFINE u == [t EXCEPT !.pc = "close", !.confirmed = ok, !.logs = @ \cup K]
  <2>2. u \in Control /\ u.job = t.job /\ u.why = t.why BY <1>0 DEF Control
  <2>3. Set(c, u) BY <2>1
  <2> HIDE DEF u
  <2>4. ControlOK' BY <1>0, <2>2, <2>3, SetType
  <2>5. alive' \subseteq Jobs BY <2>1 DEF Terminated, TypeOK
  <2> QED BY <2>4, <2>5 DEF Kill, TypeOK, durable
<1> QED BY <1>1, <1>2

LEMMA PresumeType ==
    ASSUME TypeOK, NEW c \in Callers, Presume(c)
    PROVE  TypeOK'
<1> DEFINE t == th[c]
           u == [t EXCEPT !.pc = "close", !.confirmed = TRUE]
<1>0. t \in Control /\ t.job \in Jobs /\ t.why \in Why
  BY DEF TypeOK, ControlOK, Presume, HasJob
<1>1. u \in Control /\ u.job = t.job /\ u.why = t.why BY <1>0 DEF Control
<1>2. Set(c, u) BY DEF Presume
<1> HIDE DEF u
<1>3. ControlOK' BY <1>0, <1>1, <1>2, SetType
<1> QED BY <1>3 DEF Presume, TypeOK, durable

\* The two transactions that close a job keep the durable state typed.
LEMMA FinishType ==
    ASSUME TypeOK, NEW j \in Jobs, NEW s \in Terminal, NEW K \in SUBSET Logs,
           Finish(j, s, K) \/ Quarantine(j, K),
           ControlOK', UNCHANGED <<phase, alive, orphans, crashes>>
    PROVE  TypeOK'
<1>1. Move(j, s, s) \/ Move(j, "QUARANTINED", "QUARANTINED")
  BY DEF Finish, Quarantine
<1>2. s \in JobStatus /\ s \in EventType /\ "QUARANTINED" \in JobStatus
  BY Statuses DEF Active
<1>3. /\ status' \in [Jobs -> {"ABSENT"} \cup JobStatus]
      /\ events' \in [Jobs -> Seq(EventType)]
      /\ submitIndex' \in [Jobs -> Nat] /\ nextIndex' \in Nat \ {0}
  BY <1>1, <1>2, MoveType, Statuses
<1>4. logs' \in [Jobs -> SUBSET Logs] /\ attached' \subseteq Jobs
  BY DEF Finish, Quarantine, TypeOK
<1> QED BY <1>3, <1>4 DEF TypeOK

LEMMA CloseType ==
    ASSUME TypeOK, NEW c \in Callers, Close(c)
    PROVE  TypeOK'
<1> DEFINE t == th[c]
<1>0. /\ t \in Control /\ t.job \in Jobs /\ t.why \in Why
      /\ t.logs \in SUBSET Logs
  BY DEF TypeOK, ControlOK, Close, HasJob, Control
<1>1. ControlOK'
  BY <1>0, ReturnedControl, SetType, AbortType DEF Close, HasJob
<1>2. CASE Finish(t.job, FinalStatus(t.why), t.logs) \/ Quarantine(t.job, t.logs)
  <2>1. FinalStatus(t.why) \in Terminal BY <1>0, FinalStatusType
  <2> QED BY <1>0, <1>1, <1>2, <2>1, FinishType DEF Close
<1>3. CASE UNCHANGED <<durable, attached>>
  BY <1>1, <1>3 DEF Close, TypeOK, durable
<1> QED BY <1>2, <1>3 DEF Close

LEMMA CompleteType ==
    ASSUME TypeOK, NEW c \in Callers, NEW j \in Jobs, Complete(c, j)
    PROVE  TypeOK'
<1>0. th[c] \in Control BY DEF TypeOK, ControlOK
<1>1. ControlOK' BY <1>0, ReturnedControl, SetType DEF Complete, HasJob
<1>2. PICK K \in SUBSET Logs : Finish(j, "COMPLETED", K) BY DEF Complete
<1>3. "COMPLETED" \in Terminal BY DEF Terminal
<1> QED BY <1>1, <1>2, <1>3, FinishType DEF Complete

LEMMA RequestCancelType ==
    ASSUME TypeOK, NEW c \in Callers, NEW j \in Jobs, NEW K \in SUBSET Logs,
           NEW t \in Control, RequestCancel(c, j, K, t)
    PROVE  TypeOK'
<1> DEFINE p == IF status[j] = "QUEUED" THEN "close" ELSE "kill"
           q == (status[j] = "QUEUED")
           u == [t EXCEPT !.pc = p, !.job = j, !.logs = logs[j] \cup K,
                          !.why = "cancel", !.confirmed = q]
<1>1. u \in Control /\ u.job = j /\ u.why \in Why
  <2>1. p \in {"close", "kill"} /\ q \in BOOLEAN /\ logs[j] \cup K \in SUBSET Logs
    BY DEF TypeOK
  <2> HIDE DEF p, q
  <2> QED BY <2>1 DEF Control, Why
<1>2. Set(c, u) BY DEF RequestCancel
<1> HIDE DEF u
<1>3. ControlOK' BY <1>1, <1>2, SetType
<1>4. "CANCELLING" \in JobStatus BY Statuses DEF Active
<1>5. logs' \in [Jobs -> SUBSET Logs] BY DEF RequestCancel, TypeOK
<1> QED BY <1>3, <1>4, <1>5, MoveType, Statuses DEF RequestCancel, TypeOK

LEMMA CancelType ==
    ASSUME TypeOK, NEW c \in Callers, NEW j \in Jobs, Cancel(c, j)
    PROVE  TypeOK'
BY RequestCancelType, IdleControl DEF Cancel

LEMMA SweepNextType ==
    ASSUME TypeOK, NEW c \in Callers, SweepNext(c)
    PROVE  TypeOK'
<1> DEFINE rest(j) == At("sweep", "sweep", th[c].todo \ {j})
<1>1. th[c].todo \in SUBSET Jobs BY DEF TypeOK, ControlOK, Control
<1>2. ASSUME NEW j \in Jobs
      PROVE  rest(j) \in Control /\ rest(j).pc = "sweep"
  BY <1>1 DEF At, Control
<1>3. PICK j \in First(th[c].todo) :
         \/ RequestCancel(c, j, {}, rest(j))
         \/ /\ Set(c, rest(j)) \/ Abort(c)
            /\ UNCHANGED <<durable, attached, phase, alive, orphans, crashes>>
  BY DEF SweepNext
<1>4. j \in Jobs BY <1>1 DEF First
<1>5. CASE RequestCancel(c, j, {}, rest(j))
  BY <1>2, <1>4, <1>5, RequestCancelType
<1>6. CASE /\ Set(c, rest(j)) \/ Abort(c)
           /\ UNCHANGED <<durable, attached, phase, alive, orphans, crashes>>
  <2>1. ControlOK' BY <1>2, <1>4, <1>6, SetType, AbortType DEF HasJob
  <2> QED BY <1>6, <2>1 DEF TypeOK, durable
<1> QED BY <1>3, <1>5, <1>6

LEMMA ReconcileType ==
    ASSUME TypeOK, NEW c \in Callers, NEW j \in Jobs, ReconcileQuarantined(c, j)
    PROVE  TypeOK'
<1> DEFINE u == [Idle EXCEPT !.pc = "kill", !.job = j, !.logs = logs[j],
                             !.why = "reconcile"]
<1>1. u \in Control /\ u.job = j /\ u.why \in Why
  <2>1. logs[j] \in SUBSET Logs BY DEF TypeOK
  <2> QED BY <2>1 DEF Idle, At, Control, Why
<1>2. Set(c, u) BY DEF ReconcileQuarantined
<1> HIDE DEF u
<1>3. ControlOK' BY <1>1, <1>2, SetType
<1> QED BY <1>3 DEF ReconcileQuarantined, TypeOK, durable

LEMMA BootNextType ==
    ASSUME TypeOK, NEW c \in Callers, BootNext(c)
    PROVE  TypeOK'
<1>1. th[c].todo \in SUBSET Jobs BY DEF TypeOK, ControlOK, Control
<1>2. PICK j \in First(th[c].todo), answer \in {"none", "control", "witness"} :
         LET rest == At("boot", "boot", th[c].todo \ {j})
             w == BootPlan(j, answer)
         IN /\ answer \in Answers(j)
            /\ attached' = IF answer = "none" THEN attached ELSE attached \cup {j}
            /\ Set(c, IF w = None THEN rest
                      ELSE [rest EXCEPT !.pc = IF answer = "none" THEN "close" ELSE "kill",
                                        !.job = j, !.logs = logs[j], !.why = w])
  BY DEF BootNext, Answers
<1>3. j \in Jobs BY <1>1 DEF First
<1> DEFINE rest == At("boot", "boot", th[c].todo \ {j})
           w == BootPlan(j, answer)
           p == IF answer = "none" THEN "close" ELSE "kill"
           u == [rest EXCEPT !.pc = p, !.job = j, !.logs = logs[j], !.why = w]
<1>4. rest \in Control /\ rest.pc = "boot" BY <1>1, <1>3 DEF At, Control
<1>5. w \in Why \cup {None} BY DEF BootPlan, Why
<1>6. p \in {"kill", "close"} OBVIOUS
<1>7. u \in Control /\ u.job = j /\ u.why = w
  <2>1. logs[j] \in SUBSET Logs BY <1>3 DEF TypeOK
  <2> HIDE DEF w, p
  <2> QED BY <1>1, <1>3, <1>5, <1>6, <2>1 DEF Control, At
<1>8. (w = None /\ Set(c, rest)) \/ (w # None /\ Set(c, u))
  BY <1>2
<1>9. attached' \subseteq Jobs BY <1>2, <1>3 DEF TypeOK
<1> HIDE DEF rest, u, w
<1>10. ControlOK' BY <1>3, <1>4, <1>5, <1>7, <1>8, SetType DEF HasJob
<1> QED BY <1>9, <1>10 DEF BootNext, TypeOK, durable

LEMMA EnvironmentType ==
    ASSUME TypeOK, Crash \/ (\E j \in Jobs : WorkerExit(j)
                              \/ \E c \in Callers : RecordPartialLogs(c, j))
    PROVE  TypeOK'
<1>1. CASE Crash
  <2>1. ControlOK' BY <1>1, IdleControl DEF Crash, ControlOK, Idle, At, HasJob
  <2> QED BY <1>1, <2>1 DEF Crash, TypeOK, durable
<1>2. ASSUME NEW j \in Jobs, WorkerExit(j) PROVE TypeOK'
  BY <1>2 DEF WorkerExit, TypeOK, ControlOK, durable
<1>3. ASSUME NEW c \in Callers, NEW j \in Jobs, RecordPartialLogs(c, j) PROVE TypeOK'
  BY <1>3 DEF RecordPartialLogs, TypeOK, ControlOK, durable
<1> QED BY <1>1, <1>2, <1>3

\* Every action of the scheduler keeps every variable in its type, and a caller
\* in the middle of a job keeps knowing the job and the path that closes it.
THEOREM TypeCorrect == Spec => []TypeOK
<1>1. Init => TypeOK
  BY RequestAssumption, IdleControl DEF Init, TypeOK, ControlOK, Idle, At, HasJob
<1>2. TypeOK /\ [Next]_vars => TypeOK'
  <2> SUFFICES ASSUME TypeOK, [Next]_vars PROVE TypeOK'
    OBVIOUS
  <2>1. CASE UNCHANGED vars
    BY <2>1 DEF vars, durable, TypeOK, ControlOK
  <2>2. ASSUME NEW c \in Callers, Step(c) PROVE TypeOK'
    BY <2>2, LocalStepType, ReserveType, CommitType, KillType, PresumeType, CloseType,
       SweepNextType, BootNextType DEF Step
  <2>3. ASSUME NEW c \in Callers, Request(c) PROVE TypeOK'
    BY <2>3, LocalStepType, SubmitType, CompleteType, CancelType,
       ReconcileType, EnvironmentType DEF Request
  <2>4. ASSUME NEW c \in Callers, Restart(c) PROVE TypeOK'
    BY <2>4, LocalStepType
  <2>5. CASE Crash \/ \E j \in Jobs : WorkerExit(j)
    BY <2>5, EnvironmentType
  <2> QED BY <2>1, <2>2, <2>3, <2>4, <2>5 DEF Next
<1> QED BY <1>1, <1>2, PTL DEF Spec

-----------------------------------------------------------------------------
(* What a step can do to a row of scheduler_jobs and to its journal.       *)

rows == <<status, events, submitIndex, nextIndex>>

EventOf(s) == IF s = "CANCELLING" THEN "CANCELLATION_REQUESTED" ELSE s

Enrolled(j) == /\ status[j] = "ABSENT" /\ WithinRunBudget(j)
               /\ status' = [status EXCEPT ![j] = "QUEUED"]
               /\ events' = [events EXCEPT ![j] = Append(@, "QUEUED")]
               /\ submitIndex' = [submitIndex EXCEPT ![j] = nextIndex]
               /\ nextIndex' = nextIndex + 1

Reserved(j) == j \in Eligible /\ Move(j, "DISPATCHING", "DISPATCHING")

Moved(j, s) == /\ status[j] \in Nonterminal
               /\ s \in JobStatus \ {"QUEUED", "DISPATCHING"}
               /\ status[j] = "QUEUED" => s = "CANCELLING"
               /\ s = "RUNNING" => status[j] = "DISPATCHING"
               /\ Move(j, s, EventOf(s))

RowStep == \/ UNCHANGED rows
           \/ \E j \in Jobs : Enrolled(j) \/ Reserved(j)
           \/ \E j \in Jobs, s \in JobStatus : Moved(j, s)

LogStep == \A j \in Jobs : status[j] \in Terminal \cup {"ABSENT"} => logs'[j] = logs[j]

LEMMA ExpectedStatusType == \A w \in Why : ExpectedStatus(w) \in Active
BY DEF ExpectedStatus, Active, Why

LEMMA CloseRow ==
    ASSUME TypeOK, NEW c \in Callers, Close(c)
    PROVE  RowStep /\ LogStep
<1> DEFINE t == th[c]
<1>0. t.job \in Jobs /\ t.why \in Why
  BY DEF TypeOK, ControlOK, Close, HasJob
<1>1. CASE UNCHANGED durable
  BY <1>1 DEF RowStep, LogStep, rows, durable
<1>2. CASE /\ status[t.job] = ExpectedStatus(t.why)
           /\ Finish(t.job, FinalStatus(t.why), t.logs) \/ Quarantine(t.job, t.logs)
  <2>1. status[t.job] \in Active BY <1>0, <1>2, ExpectedStatusType
  <2>2. FinalStatus(t.why) \in Terminal BY <1>0, FinalStatusType
  <2>3. PICK s \in Terminal \cup {"QUARANTINED"} : Move(t.job, s, s)
    BY <1>2, <2>2 DEF Finish, Quarantine
  <2>4. Moved(t.job, s) /\ s \in JobStatus
    BY <2>1, <2>3 DEF Moved, EventOf, Terminal, Active, Nonterminal, JobStatus
  <2>5. LogStep
    BY <1>0, <1>2, <2>1 DEF LogStep, Finish, Quarantine, TypeOK, Active, Terminal
  <2> QED BY <1>0, <2>4, <2>5 DEF RowStep
<1> QED BY <1>1, <1>2 DEF Close

LEMMA CancelRow ==
    ASSUME TypeOK, NEW c \in Callers, NEW j \in Jobs, NEW K, NEW t,
           RequestCancel(c, j, K, t)
    PROVE  RowStep /\ LogStep
<1>1. Moved(j, "CANCELLING") /\ "CANCELLING" \in JobStatus
  BY DEF RequestCancel, Moved, EventOf, Nonterminal, Active, JobStatus
<1>2. LogStep
  BY DEF RequestCancel, LogStep, TypeOK, Nonterminal, Active, Terminal
<1> QED BY <1>1, <1>2 DEF RowStep

\* Every step of the specification is a step of the row's life cycle.
LEMMA RowSteps ==
    ASSUME TypeOK, [Next]_vars
    PROVE  RowStep /\ LogStep
<1>1. CASE UNCHANGED durable
  BY <1>1 DEF RowStep, LogStep, rows, durable
<1>2. ASSUME NEW c \in Callers, NEW j \in Jobs, Submit(c, j) PROVE RowStep /\ LogStep
  BY <1>2 DEF Submit, RowStep, LogStep, Enrolled
<1>3. ASSUME NEW c \in Callers, Reserve(c) PROVE RowStep /\ LogStep
  <2>1. PICK j \in Eligible : Move(j, "DISPATCHING", "DISPATCHING")
    BY <1>3 DEF Reserve, First
  <2>2. j \in Jobs BY DEF Eligible
  <2> QED BY <1>3, <2>1, <2>2 DEF Reserve, RowStep, LogStep, Reserved
<1>4. ASSUME NEW c \in Callers, Commit(c) PROVE RowStep /\ LogStep
  <2>0. th[c].job \in Jobs BY <1>4 DEF Commit, TypeOK, ControlOK, HasJob
  <2>1. CASE status[th[c].job] = "DISPATCHING"
    <3>1. Moved(th[c].job, "RUNNING") /\ "RUNNING" \in JobStatus
      BY <1>4, <2>1 DEF Commit, Moved, EventOf, Nonterminal, Active, JobStatus
    <3> QED BY <1>4, <2>0, <2>1, <3>1 DEF Commit, RowStep, LogStep
  <2>2. CASE status[th[c].job] # "DISPATCHING"
    BY <1>1, <1>4, <2>2 DEF Commit
  <2> QED BY <2>1, <2>2
<1>5. ASSUME NEW c \in Callers, Close(c) PROVE RowStep /\ LogStep
  BY <1>5, CloseRow
<1>6. ASSUME NEW c \in Callers, NEW j \in Jobs, Complete(c, j) PROVE RowStep /\ LogStep
  <2>1. Moved(j, "COMPLETED") /\ "COMPLETED" \in JobStatus
    BY <1>6 DEF Complete, Finish, Moved, EventOf, Nonterminal, Active, Terminal, JobStatus
  <2>2. LogStep BY <1>6 DEF Complete, Finish, LogStep, TypeOK, Terminal
  <2> QED BY <2>1, <2>2 DEF RowStep
<1>7. ASSUME NEW c \in Callers, NEW j \in Jobs, Cancel(c, j) PROVE RowStep /\ LogStep
  BY <1>7, CancelRow DEF Cancel
<1>8. ASSUME NEW c \in Callers, SweepNext(c) PROVE RowStep /\ LogStep
  <2>1. th[c].todo \in SUBSET Jobs BY DEF TypeOK, ControlOK, Control
  <2>2. PICK j \in Jobs : RequestCancel(c, j, {}, At("sweep", "sweep", th[c].todo \ {j}))
                          \/ UNCHANGED durable
    BY <1>8, <2>1 DEF SweepNext, First
  <2> QED BY <1>1, <2>2, CancelRow
<1>9. ASSUME NEW c \in Callers, NEW j \in Jobs, RecordPartialLogs(c, j)
      PROVE RowStep /\ LogStep
  BY <1>9 DEF RecordPartialLogs, RowStep, LogStep, rows, TypeOK, Nonterminal, Active, Terminal
<1>10. ASSUME NEW c \in Callers, Step(c) PROVE RowStep /\ LogStep
  BY <1>1, <1>3, <1>4, <1>5, <1>8, <1>10
     DEF Step, Attach, Drained, Fetch, Start, StartFails, Kill, Presume, SweepDone, BootNext, BootDone
<1>11. ASSUME NEW c \in Callers, Request(c) PROVE RowStep /\ LogStep
  BY <1>1, <1>2, <1>6, <1>7, <1>9, <1>11 DEF Request, Sweep, AttachWorker, ReconcileQuarantined
<1> QED BY <1>1, <1>10, <1>11 DEF Next, Restart, Crash, WorkerExit, vars

-----------------------------------------------------------------------------
(* A finished job is finished. *)

\* No step of any caller, restart or crash touches a row whose status is
\* terminal, its logs or its journal.
THEOREM FinishedForGood == Spec => TerminalIsFinal
<1>1. TypeOK /\ [Next]_vars
        => [\A j \in Jobs : status[j] \in Terminal
              => /\ status'[j] = status[j] /\ events'[j] = events[j]
                 /\ logs'[j] = logs[j]]_vars
  <2> SUFFICES ASSUME TypeOK, [Next]_vars, NEW j \in Jobs, status[j] \in Terminal
               PROVE  /\ status'[j] = status[j] /\ events'[j] = events[j]
                      /\ logs'[j] = logs[j]
    OBVIOUS
  <2>1. RowStep /\ LogStep BY RowSteps
  <2>2. logs'[j] = logs[j] BY <2>1 DEF LogStep
  <2>3. ASSUME NEW i \in Jobs, Enrolled(i) \/ Reserved(i) \/ \E s \in JobStatus : Moved(i, s)
        PROVE  status'[j] = status[j] /\ events'[j] = events[j]
    <3>1. i # j
      BY <2>3 DEF Enrolled, Reserved, Moved, Eligible, IsHead, Terminal, Nonterminal, Active
    <3> QED BY <2>3, <3>1 DEF Enrolled, Reserved, Moved, Move, TypeOK
  <2> QED BY <2>1, <2>2, <2>3 DEF RowStep, rows
<1> QED BY <1>1, TypeCorrect, PTL DEF Spec, TerminalIsFinal

-----------------------------------------------------------------------------
(* Order, journal and at-most-once dispatch *)

\* What a step that moves one row leaves of the journals.
LEMMA MoveJournal ==
    ASSUME TypeOK, NEW j \in Jobs, NEW s \in JobStatus, NEW e \in EventType, Move(j, s, e)
    PROVE  /\ status'[j] = s /\ Len(events'[j]) = Len(events[j]) + 1
           /\ events'[j][Len(events[j]) + 1] = e
           /\ DOMAIN events'[j] = 1..(Len(events[j]) + 1)
           /\ \A n \in DOMAIN events[j] : events'[j][n] = events[j][n]
           /\ DOMAIN events[j] = 1..Len(events[j]) /\ Len(events[j]) \in Nat
           /\ \A i \in Jobs \ {j} : status'[i] = status[i] /\ events'[i] = events[i]
           /\ submitIndex' = submitIndex /\ nextIndex' = nextIndex
<1>1. events[j] \in Seq(EventType) BY DEF TypeOK
<1>2. events'[j] = Append(events[j], e) BY DEF Move, TypeOK
<1>3. /\ status'[j] = s /\ submitIndex' = submitIndex /\ nextIndex' = nextIndex
      /\ \A i \in Jobs \ {j} : status'[i] = status[i] /\ events'[i] = events[i]
  BY DEF Move, TypeOK
<1> QED BY <1>1, <1>2, <1>3

LEMMA EventOfType == \A s \in JobStatus : EventOf(s) \in EventType
BY DEF EventOf, JobStatus, EventType

LEMMA EnrolStep ==
    ASSUME TypeOK, QueueInvariant, NEW j \in Jobs, Enrolled(j)
    PROVE  QueueInvariant'
<1>1. events[j] = <<>> /\ events'[j] = <<"QUEUED">>
  <2>1. events[j] = <<>> BY DEF QueueInvariant, JournalMatchesStatus, Enrolled
  <2>2. events'[j] = Append(events[j], "QUEUED") BY DEF Enrolled, TypeOK
  <2>3. Append(<<>>, "QUEUED") = <<"QUEUED">> OBVIOUS
  <2> QED BY <2>1, <2>2, <2>3
<1>2. /\ status'[j] = "QUEUED" /\ submitIndex'[j] = nextIndex /\ nextIndex' = nextIndex + 1
      /\ \A i \in Jobs \ {j} : /\ status'[i] = status[i] /\ events'[i] = events[i]
                              /\ submitIndex'[i] = submitIndex[i]
  BY DEF Enrolled, TypeOK
<1>3. nextIndex \in Nat /\ \A i \in Jobs : submitIndex[i] \in Nat BY DEF TypeOK
<1>4. ~Dispatched(j)' BY <1>1 DEF Dispatched
<1>5. \A i \in Jobs \ {j} : Dispatched(i)' <=> Dispatched(i) BY <1>2 DEF Dispatched
<1>6. TicketsUnique'
  BY <1>2, <1>3 DEF QueueInvariant, TicketsUnique, Submitted
<1>7. JournalMatchesStatus'
  BY <1>1, <1>2 DEF QueueInvariant, JournalMatchesStatus
<1>8. JournalShape'
  <2> SUFFICES ASSUME NEW i \in Jobs
               PROVE /\ status'[i] = "QUEUED" => events'[i] = <<"QUEUED">>
                     /\ \A n \in DOMAIN events'[i] : events'[i][n] = "DISPATCHING" => n = 2
                     /\ status'[i] \in {"DISPATCHING", "RUNNING"} => Dispatched(i)'
    BY DEF JournalShape
  <2> QED BY <1>1, <1>2, <1>5 DEF QueueInvariant, JournalShape
<1>9. \A i \in Jobs \ {j} : Dispatched(i) => status[i] # "ABSENT"
  BY DEF QueueInvariant, JournalMatchesStatus, Dispatched
<1>10. FifoWithinKind'
  BY <1>2, <1>3, <1>4, <1>5, <1>9
     DEF QueueInvariant, FifoWithinKind, TicketsUnique, Submitted
<1> QED BY <1>6, <1>7, <1>8, <1>10 DEF QueueInvariant

LEMMA ReserveStep ==
    ASSUME TypeOK, QueueInvariant, NEW j \in Jobs, Reserved(j)
    PROVE  QueueInvariant'
<1>0. /\ Move(j, "DISPATCHING", "DISPATCHING") /\ IsHead(j)
      /\ "DISPATCHING" \in JobStatus /\ "DISPATCHING" \in EventType
  BY Statuses DEF Reserved, Eligible, Active
<1>1. events[j] = <<"QUEUED">> BY <1>0 DEF QueueInvariant, JournalShape, IsHead
<1>2. /\ Len(events'[j]) = 2 /\ DOMAIN events'[j] = 1..2
      /\ events'[j][1] = "QUEUED" /\ events'[j][2] = "DISPATCHING"
  <2>1. Len(events[j]) = 1 /\ events[j][1] = "QUEUED" BY <1>1
  <2>2. /\ Len(events'[j]) = Len(events[j]) + 1
        /\ events'[j][Len(events[j]) + 1] = "DISPATCHING"
        /\ DOMAIN events'[j] = 1..(Len(events[j]) + 1)
        /\ DOMAIN events[j] = 1..Len(events[j])
        /\ \A n \in DOMAIN events[j] : events'[j][n] = events[j][n]
    BY <1>0, MoveJournal
  <2> QED BY <2>1, <2>2
<1>3. /\ status'[j] = "DISPATCHING" /\ submitIndex' = submitIndex /\ nextIndex' = nextIndex
      /\ \A i \in Jobs \ {j} : status'[i] = status[i] /\ events'[i] = events[i]
  BY <1>0, MoveJournal
<1>4. \A i \in Jobs \ {j} : Dispatched(i)' <=> Dispatched(i) BY <1>3 DEF Dispatched
<1>5. Dispatched(j)' BY <1>2 DEF Dispatched
<1>6. TicketsUnique'
  BY <1>0, <1>3 DEF QueueInvariant, TicketsUnique, Submitted, IsHead
<1>7. JournalMatchesStatus'
  BY <1>2, <1>3 DEF QueueInvariant, JournalMatchesStatus
<1>8. JournalShape'
  BY <1>2, <1>3, <1>4, <1>5 DEF QueueInvariant, JournalShape
<1>9. FifoWithinKind'
  <2> SUFFICES ASSUME NEW i \in Jobs, NEW k \in Jobs, KindOf[i] = KindOf[k], i # k,
                      status'[i] = "QUEUED", Dispatched(k)'
               PROVE  submitIndex'[k] < submitIndex'[i]
    BY DEF FifoWithinKind
  <2>1. i # j /\ status[i] = "QUEUED" BY <1>3
  <2>2. CASE k # j BY <1>3, <1>4, <2>1, <2>2 DEF QueueInvariant, FifoWithinKind
  <2>3. CASE k = j
    <3>1. submitIndex[j] <= submitIndex[i] BY <1>0, <2>1, <2>3 DEF IsHead
    <3>2. submitIndex[j] # submitIndex[i]
      BY <1>0, <2>1 DEF QueueInvariant, TicketsUnique, Submitted, IsHead
    <3>3. submitIndex[j] \in Nat /\ submitIndex[i] \in Nat BY DEF TypeOK
    <3> QED BY <1>3, <2>3, <3>1, <3>2, <3>3
  <2> QED BY <2>2, <2>3
<1> QED BY <1>6, <1>7, <1>8, <1>9 DEF QueueInvariant

LEMMA MovedStep ==
    ASSUME TypeOK, QueueInvariant, NEW j \in Jobs, NEW s \in JobStatus, Moved(j, s)
    PROVE  QueueInvariant' /\ \A i \in Jobs : Dispatched(i)' <=> Dispatched(i)
<1>0. /\ Move(j, s, EventOf(s)) /\ EventOf(s) \in EventType
      /\ EventOf(s) # "DISPATCHING" /\ s # "QUEUED" /\ s # "DISPATCHING"
  BY EventOfType DEF Moved, EventOf
<1>1. /\ status'[j] = s /\ Len(events'[j]) = Len(events[j]) + 1
      /\ events'[j][Len(events[j]) + 1] = EventOf(s)
      /\ DOMAIN events'[j] = 1..(Len(events[j]) + 1)
      /\ \A n \in DOMAIN events[j] : events'[j][n] = events[j][n]
      /\ DOMAIN events[j] = 1..Len(events[j]) /\ Len(events[j]) \in Nat
  BY <1>0, MoveJournal
<1>2. /\ \A i \in Jobs \ {j} : status'[i] = status[i] /\ events'[i] = events[i]
      /\ submitIndex' = submitIndex /\ nextIndex' = nextIndex
  BY <1>0, MoveJournal
<1>3. Dispatched(j)' <=> Dispatched(j) BY <1>0, <1>1 DEF Dispatched
<1>4. \A i \in Jobs : Dispatched(i)' <=> Dispatched(i) BY <1>2, <1>3 DEF Dispatched
<1>5. s # "ABSENT" /\ status[j] # "ABSENT"
  BY DEF Moved, JobStatus, Nonterminal, Active, Terminal
<1>6. TicketsUnique' BY <1>1, <1>2, <1>5 DEF QueueInvariant, TicketsUnique, Submitted
<1>7. JournalMatchesStatus'
  <2>1. /\ Len(events'[j]) > 0
        /\ events'[j][Len(events'[j])] =
              IF s = "CANCELLING" THEN "CANCELLATION_REQUESTED" ELSE s
    BY <1>1 DEF EventOf
  <2> QED BY <1>1, <1>2, <1>5, <2>1 DEF QueueInvariant, JournalMatchesStatus
<1>8. JournalShape'
  <2>1. \A n \in DOMAIN events'[j] : events'[j][n] = "DISPATCHING" => n = 2
    BY <1>0, <1>1 DEF QueueInvariant, JournalShape
  <2>2. s = "RUNNING" => Dispatched(j) BY DEF Moved, QueueInvariant, JournalShape
  <2> QED BY <1>0, <1>1, <1>2, <1>4, <2>1, <2>2 DEF QueueInvariant, JournalShape
<1>9. FifoWithinKind'
  BY <1>0, <1>1, <1>2, <1>4 DEF QueueInvariant, FifoWithinKind
<1> QED BY <1>4, <1>6, <1>7, <1>8, <1>9 DEF QueueInvariant

\* Submission order, journal and dispatch agree in every reachable state,
\* whatever the number of callers and crashes.
THEOREM QueueCorrect == Spec => []QueueInvariant
<1>1. Init => QueueInvariant
  BY DEF Init, QueueInvariant, JournalMatchesStatus, FifoWithinKind, TicketsUnique,
         JournalShape, Submitted, Dispatched
<1>2. TypeOK /\ QueueInvariant /\ [Next]_vars => QueueInvariant'
  <2> SUFFICES ASSUME TypeOK, QueueInvariant, [Next]_vars PROVE QueueInvariant'
    OBVIOUS
  <2>1. CASE UNCHANGED rows
    BY <2>1 DEF rows, QueueInvariant, JournalMatchesStatus, FifoWithinKind,
                TicketsUnique, JournalShape, Submitted, Dispatched
  <2> QED BY <2>1, RowSteps, EnrolStep, ReserveStep, MovedStep DEF RowStep
<1> QED BY <1>1, <1>2, TypeCorrect, PTL DEF Spec

\* No job overtakes an earlier waiting job of its kind.
THEOREM FirstInFirstOut == Spec => []FifoWithinKind
BY QueueCorrect, PTL DEF QueueInvariant

\* A worker is started for a job at most once, across crashes and restarts.
THEOREM DispatchOnce == Spec => []DispatchedAtMostOnce
<1>1. QueueInvariant => DispatchedAtMostOnce
  BY DEF QueueInvariant, JournalShape, DispatchedAtMostOnce
<1> QED BY <1>1, QueueCorrect, PTL

\* Both together: the queue is served in order, and each job once.
THEOREM QueueServed == Spec => []QueueDiscipline
BY FirstInFirstOut, DispatchOnce, PTL DEF QueueDiscipline

\* The journal's last event is the row's status.
THEOREM JournalFaithful == Spec => []JournalMatchesStatus
BY QueueCorrect, PTL DEF QueueInvariant

-----------------------------------------------------------------------------
(* Induction over the naturals, from the least element of a set *)

\* Any nonempty set of naturals has a least element.
LEMMA LeastNumber ==
    ASSUME NEW T, T \subseteq Nat, T # {}
    PROVE  \E m \in T : \A n \in T : m <= n
<1> DEFINE Below == OpToRel(<, Nat)
<1>1. PICK m \in T : \A n \in T : <<n, m>> \notin Below
    BY NatLessThanWellFounded, WFMin, Zenon
<1>2. ASSUME NEW n \in T PROVE m <= n
    <2>1. <<n, m>> \in Below <=> n < m
        BY DEF OpToRel
    <2> HIDE DEF Below
    <2>2. ~ n < m
        BY <1>1, <2>1
    <2> QED BY <2>2
<1> QED BY <1>2

\* Induction over the naturals, about a set instead of a predicate.
LEMMA NaturalsIn ==
    ASSUME NEW S, 0 \in S, \A n \in Nat : n \in S => n + 1 \in S
    PROVE  Nat \subseteq S
<1> SUFFICES ASSUME Nat \ S # {} PROVE FALSE
    OBVIOUS
<1>1. PICK m \in Nat \ S : \A n \in Nat \ S : m <= n
    BY LeastNumber
<1>2. m # 0 /\ m - 1 \in Nat \ S
    BY <1>1
<1> QED BY <1>1, <1>2

-----------------------------------------------------------------------------
(* What a finite set of jobs adds up to.  Total folds over the set with a   *)
(* CHOOSE at every step; the lemmas show that it is the sum all the same,  *)
(* by induction on the number of jobs.                                     *)

Pick1(S) == CHOOSE j \in S : TRUE

Summed(a, g, S) == IF S = {} THEN 0 ELSE Demand[Pick1(S)][a] + g[S \ {Pick1(S)}]

\* g adds up the amounts of every subset of S that has at most n elements.
AddsUp(a, g, D) == g = [T \in D |-> Summed(a, g, T)]

Upto(S, n) == {T \in SUBSET S : Cardinality(T) <= n}

LEMMA SmallerSubset ==
    ASSUME NEW S, IsFiniteSet(S), NEW T \in SUBSET S, T # {}
    PROVE  /\ Pick1(T) \in T /\ T \ {Pick1(T)} \in SUBSET S
           /\ IsFiniteSet(T)
           /\ Cardinality(T \ {Pick1(T)}) = Cardinality(T) - 1
           /\ Cardinality(T) \in Nat \ {0}
<1>1. Pick1(T) \in T BY DEF Pick1
<1>2. IsFiniteSet(T) BY FS_Subset
<1>3. Cardinality(T \ {Pick1(T)}) = Cardinality(T) - 1 BY <1>1, <1>2, FS_RemoveElement
<1>4. Cardinality(T) \in Nat \ {0} BY <1>2, FS_CardinalityType, FS_EmptySet
<1> QED BY <1>1, <1>2, <1>3, <1>4

LEMMA SumExists ==
    ASSUME NEW a, NEW S, IsFiniteSet(S)
    PROVE  \E g : AddsUp(a, g, SUBSET S)
<1> DEFINE E == {n \in Nat : \E g : AddsUp(a, g, Upto(S, n))}
<1>1. 0 \in E
    <2> DEFINE g == [T \in Upto(S, 0) |-> 0]
    <2>1. \A T \in Upto(S, 0) : T = {}
        BY FS_Subset, FS_EmptySet, FS_CardinalityType DEF Upto
    <2>2. g = [T \in Upto(S, 0) |-> Summed(a, g, T)]
        BY <2>1 DEF Summed
    <2> QED BY <2>2 DEF AddsUp
<1>2. ASSUME NEW n \in Nat, n \in E PROVE n + 1 \in E
    <2>1. PICK g : AddsUp(a, g, Upto(S, n)) BY <1>2
    <2> DEFINE h == [T \in Upto(S, n + 1) |-> Summed(a, g, T)]
    <2>2. \A T \in Upto(S, n) : T \in Upto(S, n + 1) /\ h[T] = g[T]
        <3> TAKE T \in Upto(S, n)
        <3>1. T \in Upto(S, n + 1)
            BY FS_Subset, FS_CardinalityType DEF Upto
        <3>2. g[T] = Summed(a, g, T)
            BY <2>1 DEF AddsUp
        <3> QED BY <3>1, <3>2
    <2>3. ASSUME NEW T \in Upto(S, n + 1) PROVE h[T] = Summed(a, h, T)
        <3>1. CASE T = {}
            BY <3>1 DEF Summed
        <3>2. CASE T # {}
            <4>1. T \ {Pick1(T)} \in Upto(S, n)
                BY <3>2, SmallerSubset DEF Upto
            <4>2. h[T \ {Pick1(T)}] = g[T \ {Pick1(T)}]
                BY <4>1, <2>2
            <4> QED BY <4>2, <3>2 DEF Summed
        <3> QED BY <3>1, <3>2
    <2>4. h = [T \in Upto(S, n + 1) |-> Summed(a, h, T)]
        BY <2>3
    <2> HIDE DEF h
    <2> QED BY <2>4 DEF AddsUp
<1> HIDE DEF E
<1>3. Nat \subseteq E BY <1>1, <1>2, NaturalsIn
<1>4. Cardinality(S) \in E BY <1>3, FS_CardinalityType
<1>5. Upto(S, Cardinality(S)) = SUBSET S
    BY FS_Subset DEF Upto
<1> QED BY <1>4, <1>5 DEF E

LEMMA SumAgree ==
    ASSUME NEW a, NEW S, IsFiniteSet(S), NEW R \in SUBSET S, NEW g, NEW h,
           AddsUp(a, g, SUBSET S), AddsUp(a, h, SUBSET R)
    PROVE  \A T \in SUBSET R : g[T] = h[T]
<1> DEFINE E == {n \in Nat : \A T \in SUBSET R : Cardinality(T) = n => g[T] = h[T]}
<1>0. \A T \in SUBSET R : g[T] = Summed(a, g, T) /\ h[T] = Summed(a, h, T)
    BY DEF AddsUp
<1>1. 0 \in E
    <2>1. \A T \in SUBSET R : Cardinality(T) = 0 => T = {}
        BY FS_Subset, FS_EmptySet
    <2> QED BY <2>1, <1>0 DEF Summed
<1>2. ASSUME NEW n \in Nat, n \in E PROVE n + 1 \in E
    <2> SUFFICES ASSUME NEW T \in SUBSET R, Cardinality(T) = n + 1 PROVE g[T] = h[T]
        OBVIOUS
    <2>0. IsFiniteSet(R) BY FS_Subset
    <2>1. T # {} BY FS_EmptySet
    <2>2. T \ {Pick1(T)} \in SUBSET R /\ Cardinality(T \ {Pick1(T)}) = n
        BY <2>0, <2>1, SmallerSubset
    <2>3. g[T \ {Pick1(T)}] = h[T \ {Pick1(T)}] BY <1>2, <2>2
    <2> QED BY <1>0, <2>1, <2>3 DEF Summed
<1> HIDE DEF E
<1>3. Nat \subseteq E BY <1>1, <1>2, NaturalsIn
<1>4. \A T \in SUBSET R : Cardinality(T) \in Nat
    BY FS_Subset, FS_CardinalityType
<1> QED BY <1>3, <1>4 DEF E

\* Total, as one of the functions that add up.
LEMMA TotalIs ==
    ASSUME NEW a, NEW S, IsFiniteSet(S)
    PROVE  \E g : AddsUp(a, g, SUBSET S) /\ Total(a, S) = g[S]
<1> DEFINE P(g) == g = [s \in SUBSET S |-> IF s = {} THEN 0
                           ELSE Demand[CHOOSE x \in s : TRUE][a] + g[s \ {CHOOSE x \in s : TRUE}]]
<1>1. \A g : P(g) <=> AddsUp(a, g, SUBSET S)
    BY DEF AddsUp, Summed, Pick1
<1>2. Total(a, S) = (CHOOSE g : P(g))[S]
    BY DEF Total, MapThenSumSet, MapThenFoldSet
<1> HIDE DEF P
<1>3. \E g : P(g)
    <2>1. PICK g : AddsUp(a, g, SUBSET S) BY SumExists
    <2> QED BY <1>1, <2>1
<1>4. P(CHOOSE g : P(g)) BY <1>3
<1> QED BY <1>1, <1>2, <1>4

LEMMA TotalUnfolds ==
    ASSUME NEW a, NEW S, IsFiniteSet(S), S # {}
    PROVE  Total(a, S) = Demand[Pick1(S)][a] + Total(a, S \ {Pick1(S)})
<1>1. PICK g : AddsUp(a, g, SUBSET S) /\ Total(a, S) = g[S]
    BY TotalIs
<1>2. S \ {Pick1(S)} \in SUBSET S /\ IsFiniteSet(S \ {Pick1(S)})
    BY FS_Subset
<1>3. PICK h : AddsUp(a, h, SUBSET (S \ {Pick1(S)})) /\ Total(a, S \ {Pick1(S)}) = h[S \ {Pick1(S)}]
    BY <1>2, TotalIs
<1>4. g[S \ {Pick1(S)}] = h[S \ {Pick1(S)}]
    <2> DEFINE R == S \ {Pick1(S)}
    <2>1. R \in SUBSET S /\ AddsUp(a, h, SUBSET R) BY <1>2, <1>3
    <2> HIDE DEF R
    <2>2. \A T \in SUBSET R : g[T] = h[T] BY <1>1, <2>1, SumAgree
    <2>3. g[R] = h[R] BY <2>2
    <2> QED BY <2>3 DEF R
<1>5. g[S] = Demand[Pick1(S)][a] + g[S \ {Pick1(S)}]
    BY <1>1 DEF AddsUp, Summed
<1> QED BY <1>1, <1>3, <1>4, <1>5

LEMMA TotalEmpty == \A a : Total(a, {}) = 0
<1> TAKE a
<1>1. PICK g : AddsUp(a, g, SUBSET {}) /\ Total(a, {}) = g[{}]
    BY TotalIs, FS_EmptySet
<1> QED BY <1>1 DEF AddsUp, Summed

LEMMA TotalType ==
    ASSUME NEW a \in Amounts, NEW S \in SUBSET Jobs
    PROVE  Total(a, S) \in Nat
<1> DEFINE E == {n \in Nat : \A T \in SUBSET Jobs : Cardinality(T) = n => Total(a, T) \in Nat}
<1>0. \A T \in SUBSET Jobs : IsFiniteSet(T) /\ Cardinality(T) \in Nat
    BY RequestAssumption, FS_Subset, FS_CardinalityType
<1>1. 0 \in E
    BY <1>0, FS_EmptySet, TotalEmpty
<1>2. ASSUME NEW n \in Nat, n \in E PROVE n + 1 \in E
    <2> SUFFICES ASSUME NEW T \in SUBSET Jobs, Cardinality(T) = n + 1 PROVE Total(a, T) \in Nat
        OBVIOUS
    <2>1. T # {} BY FS_EmptySet
    <2>2. /\ T \ {Pick1(T)} \in SUBSET Jobs /\ Cardinality(T \ {Pick1(T)}) = n
          /\ Pick1(T) \in Jobs
        <3>1. /\ Pick1(T) \in T /\ T \ {Pick1(T)} \in SUBSET Jobs
              /\ Cardinality(T \ {Pick1(T)}) = Cardinality(T) - 1
            BY <2>1, SmallerSubset, RequestAssumption
        <3> HIDE DEF E
        <3> QED BY <3>1
    <2>3. Total(a, T \ {Pick1(T)}) \in Nat BY <1>2, <2>2
    <2>4. Demand[Pick1(T)][a] \in Nat BY <2>2, RequestAssumption
    <2> HIDE DEF E
    <2> QED BY <1>0, <2>1, <2>3, <2>4, TotalUnfolds
<1> HIDE DEF E
<1>3. Nat \subseteq E BY <1>1, <1>2, NaturalsIn
<1> QED BY <1>0, <1>3 DEF E

\* An element may be taken out of a sum anywhere.
LEMMA TotalWithout ==
    ASSUME NEW a \in Amounts, NEW S \in SUBSET Jobs, NEW x \in S
    PROVE  Total(a, S) = Demand[x][a] + Total(a, S \ {x})
<1> DEFINE Splits(T) == \A y \in T : Total(a, T) = Demand[y][a] + Total(a, T \ {y})
           E == {n \in Nat : \A T \in SUBSET Jobs : Cardinality(T) = n => Splits(T)}
<1>0. \A T \in SUBSET Jobs : IsFiniteSet(T) /\ Cardinality(T) \in Nat
    BY RequestAssumption, FS_Subset, FS_CardinalityType
<1>1. 0 \in E
    BY <1>0, FS_EmptySet
<1>2. ASSUME NEW n \in Nat, n \in E PROVE n + 1 \in E
    <2> SUFFICES ASSUME NEW T \in SUBSET Jobs, Cardinality(T) = n + 1, NEW y \in T
                 PROVE  Total(a, T) = Demand[y][a] + Total(a, T \ {y})
        OBVIOUS
    <2> DEFINE c == Pick1(T)
    <2>1. /\ T # {} /\ IsFiniteSet(T) /\ c \in T
          /\ Total(a, T) = Demand[c][a] + Total(a, T \ {c})
        BY <1>0, TotalUnfolds, SmallerSubset, RequestAssumption
    <2>2. ASSUME NEW z \in T PROVE /\ Cardinality(T \ {z}) = n /\ T \ {z} \in SUBSET Jobs
                                   /\ Splits(T \ {z})
        <3>1. Cardinality(T \ {z}) = Cardinality(T) - 1 BY <2>1, FS_RemoveElement
        <3>2. Cardinality(T \ {z}) = n
            <4> HIDE DEF E
            <4> QED BY <3>1
        <3> QED BY <3>2, <1>2
    <2>3. CASE y = c
        BY <2>1, <2>3
    <2>4. CASE y # c
        <3> DEFINE R == T \ {c, y}
        <3>1. /\ y \in T \ {c} /\ c \in T \ {y}
              /\ (T \ {c}) \ {y} = R /\ (T \ {y}) \ {c} = R /\ R \in SUBSET Jobs
            BY <2>1, <2>4
        <3> HIDE DEF c, R, E
        <3>2. Total(a, T \ {c}) = Demand[y][a] + Total(a, R)
            BY <2>1, <2>2, <3>1
        <3>3. Total(a, T \ {y}) = Demand[c][a] + Total(a, R)
            BY <2>2, <3>1
        <3>4. /\ Total(a, R) \in Nat /\ Demand[y][a] \in Nat /\ Demand[c][a] \in Nat
            BY <2>1, <3>1, TotalType, RequestAssumption
        <3> QED BY <2>1, <3>2, <3>3, <3>4
    <2> QED BY <2>3, <2>4
<1> HIDE DEF E
<1>3. Nat \subseteq E BY <1>1, <1>2, NaturalsIn
<1> QED BY <1>0, <1>3 DEF E

LEMMA TotalAdds ==
    ASSUME NEW a \in Amounts, NEW S \in SUBSET Jobs, NEW x \in Jobs \ S
    PROVE  Total(a, S \cup {x}) = Total(a, S) + Demand[x][a]
<1>1. /\ S \cup {x} \in SUBSET Jobs /\ x \in S \cup {x} /\ (S \cup {x}) \ {x} = S
    OBVIOUS
<1>2. Total(a, S) \in Nat /\ Demand[x][a] \in Nat
    BY TotalType, RequestAssumption
<1> QED BY <1>1, <1>2, TotalWithout

\* Fewer jobs never add up to more.
LEMMA TotalMonotone ==
    ASSUME NEW a \in Amounts, NEW S \in SUBSET Jobs, NEW R \in SUBSET S
    PROVE  Total(a, R) <= Total(a, S)
<1> DEFINE E == {n \in Nat : \A T \in SUBSET Jobs :
                    Cardinality(T) = n => \A Q \in SUBSET T : Total(a, Q) <= Total(a, T)}
<1>0. \A T \in SUBSET Jobs : IsFiniteSet(T) /\ Cardinality(T) \in Nat /\ Total(a, T) \in Nat
    BY RequestAssumption, FS_Subset, FS_CardinalityType, TotalType
<1>1. 0 \in E
    <2>1. \A T \in SUBSET Jobs : Cardinality(T) = 0 => T = {}
        BY <1>0, FS_EmptySet
    <2> QED BY <2>1, TotalEmpty
<1>2. ASSUME NEW n \in Nat, n \in E PROVE n + 1 \in E
    <2> SUFFICES ASSUME NEW T \in SUBSET Jobs, Cardinality(T) = n + 1, NEW Q \in SUBSET T
                 PROVE  Total(a, Q) <= Total(a, T)
        OBVIOUS
    <2>1. CASE Q = T
        BY <1>0, <2>1
    <2>2. CASE Q # T
        <3>1. PICK x \in T : x \notin Q BY <2>2
        <3>2. Cardinality(T \ {x}) = n /\ T \ {x} \in SUBSET Jobs /\ Q \in SUBSET (T \ {x})
            BY <1>0, <3>1, FS_RemoveElement
        <3>3. Total(a, Q) <= Total(a, T \ {x}) BY <1>2, <3>2
        <3>4. Total(a, T) = Demand[x][a] + Total(a, T \ {x}) BY TotalWithout
        <3>5. /\ Demand[x][a] \in Nat /\ Total(a, T \ {x}) \in Nat /\ Total(a, Q) \in Nat
            BY <1>0, <3>2, RequestAssumption
        <3> HIDE DEF E
        <3> QED BY <3>3, <3>4, <3>5
    <2> QED BY <2>1, <2>2
<1> HIDE DEF E
<1>3. Nat \subseteq E BY <1>1, <1>2, NaturalsIn
<1> QED BY <1>0, <1>3 DEF E

-----------------------------------------------------------------------------
(* Concurrency limits and the abstract lease manager *)

LEMMA LeasedFinite ==
    \A k \in Kinds : /\ IsFiniteSet(ActiveOf(k)) /\ IsFiniteSet(LeasedOf(k))
                     /\ Cardinality(LeasedOf(k)) <= Cardinality(ActiveOf(k))
                     /\ Cardinality(LeasedOf(k)) \in Nat
                     /\ Cardinality(ActiveOf(k)) \in Nat
<1> TAKE k \in Kinds
<1>1. ActiveOf(k) \in SUBSET Jobs /\ LeasedOf(k) \in SUBSET ActiveOf(k)
  BY DEF ActiveOf, LeasedOf
<1>2. IsFiniteSet(ActiveOf(k)) BY <1>1, FS_Subset, RequestAssumption
<1> QED BY <1>1, <1>2, FS_Subset, FS_CardinalityType

\* A step that does not dispatch leaves no kind with more leases.
LEMMA MovedLeases ==
    ASSUME TypeOK, QueueInvariant, NEW j \in Jobs, NEW s \in JobStatus, Moved(j, s),
           NEW k \in Kinds
    PROVE  LeasedOf(k)' \subseteq LeasedOf(k)
<1>1. /\ status'[j] = s /\ \A i \in Jobs \ {j} : status'[i] = status[i]
  BY DEF Moved, Move, TypeOK
<1>2. \A i \in Jobs : Dispatched(i)' <=> Dispatched(i) BY MovedStep
<1>3. Dispatched(j) => status[j] \in Active
  <2>1. status[j] = "QUEUED" => ~Dispatched(j)
    <3>1. status[j] = "QUEUED" => Len(events[j]) = 1 /\ events[j][1] = "QUEUED"
      BY DEF QueueInvariant, JournalShape
    <3>2. status[j] = "QUEUED" => DOMAIN events[j] = 1..1
      BY <3>1 DEF TypeOK
    <3> QED BY <3>1, <3>2 DEF Dispatched
  <2> QED BY <2>1 DEF Moved, Nonterminal
<1> QED BY <1>1, <1>2, <1>3 DEF LeasedOf, ActiveOf

\* The number of dispatched and unfinished jobs of a kind never exceeds the
\* policy's max_concurrency: the reservation counts every active row in the
\* transaction that adds one, and nothing else adds one.
THEOREM ConcurrencyBounded == Spec => []ConcurrencyWithinLimits
<1>1. Init => ConcurrencyWithinLimits
  <2> SUFFICES ASSUME Init, NEW k \in Kinds
               PROVE  Cardinality(LeasedOf(k)) <= Limits[k]["max_concurrency"]
    BY DEF ConcurrencyWithinLimits
  <2>1. LeasedOf(k) = {} BY DEF Init, LeasedOf, ActiveOf, Active
  <2> QED BY <2>1, FS_EmptySet, PolicyAssumption
<1>2. TypeOK /\ QueueInvariant /\ ConcurrencyWithinLimits /\ [Next]_vars
        => ConcurrencyWithinLimits'
  <2> SUFFICES ASSUME TypeOK, QueueInvariant, ConcurrencyWithinLimits, [Next]_vars,
                      NEW k \in Kinds
               PROVE  Cardinality(LeasedOf(k)') <= Limits[k]["max_concurrency"]
    BY DEF ConcurrencyWithinLimits
  <2>0. /\ Cardinality(LeasedOf(k)) <= Limits[k]["max_concurrency"]
        /\ Limits[k]["max_concurrency"] \in Nat
    BY PolicyAssumption DEF ConcurrencyWithinLimits
  <2>1. ASSUME LeasedOf(k)' \subseteq LeasedOf(k)
        PROVE  Cardinality(LeasedOf(k)') <= Limits[k]["max_concurrency"]
    <3>1. /\ Cardinality(LeasedOf(k)') <= Cardinality(LeasedOf(k))
          /\ IsFiniteSet(LeasedOf(k)')
      BY <2>1, LeasedFinite, FS_Subset
    <3>2. Cardinality(LeasedOf(k)') \in Nat /\ Cardinality(LeasedOf(k)) \in Nat
      BY <3>1, LeasedFinite, FS_CardinalityType
    <3> QED BY <2>0, <3>1, <3>2
  <2>2. CASE UNCHANGED rows
    <3>1. LeasedOf(k)' = LeasedOf(k)
      BY <2>2 DEF rows, LeasedOf, ActiveOf, Dispatched
    <3> QED BY <2>1, <3>1
  <2>3. ASSUME NEW j \in Jobs, Enrolled(j)
        PROVE  Cardinality(LeasedOf(k)') <= Limits[k]["max_concurrency"]
    <3>1. LeasedOf(k)' \subseteq LeasedOf(k)
      BY <2>3 DEF Enrolled, LeasedOf, ActiveOf, Active, Dispatched, TypeOK
    <3> QED BY <2>1, <3>1
  <2>4. ASSUME NEW j \in Jobs, Reserved(j)
        PROVE  Cardinality(LeasedOf(k)') <= Limits[k]["max_concurrency"]
    <3>1. LeasedOf(k)' \subseteq LeasedOf(k) \cup {j}
      BY <2>4 DEF Reserved, Move, LeasedOf, ActiveOf, Dispatched, TypeOK
    <3>2. CASE KindOf[j] # k
      <4>1. LeasedOf(k)' \subseteq LeasedOf(k) BY <3>1, <3>2 DEF LeasedOf, ActiveOf
      <4> QED BY <2>1, <4>1
    <3>3. CASE KindOf[j] = k
      <4>1. Cardinality(ActiveOf(k)) < Limits[k]["max_concurrency"]
        BY <2>4, <3>3 DEF Reserved, Eligible, Fits
      <4>2. IsFiniteSet(LeasedOf(k) \cup {j})
            /\ Cardinality(LeasedOf(k) \cup {j}) <= Cardinality(LeasedOf(k)) + 1
        <5>1. IsFiniteSet(LeasedOf(k)) /\ Cardinality(LeasedOf(k)) \in Nat
          BY LeasedFinite
        <5> QED BY <5>1, FS_AddElement
      <4>3. IsFiniteSet(LeasedOf(k)')
            /\ Cardinality(LeasedOf(k)') <= Cardinality(LeasedOf(k) \cup {j})
        BY <3>1, <4>2, FS_Subset
      <4>4. /\ Cardinality(LeasedOf(k)') \in Nat
            /\ Cardinality(LeasedOf(k) \cup {j}) \in Nat
        BY <4>2, <4>3, FS_CardinalityType
      <4> QED BY <2>0, <4>1, <4>2, <4>3, <4>4, LeasedFinite
    <3> QED BY <3>2, <3>3
  <2>5. ASSUME NEW j \in Jobs, NEW s \in JobStatus, Moved(j, s)
        PROVE  Cardinality(LeasedOf(k)') <= Limits[k]["max_concurrency"]
    BY <2>1, <2>5, MovedLeases
  <2> QED BY <2>2, <2>3, <2>4, <2>5, RowSteps DEF RowStep
<1> QED BY <1>1, <1>2, TypeCorrect, QueueCorrect, PTL DEF Spec

\* Submitted jobs of a run, the set whose costs count against its budgets.
RowsOf(r) == {j \in Submitted : RunOf[j] = r}

LEMMA ConsumedGrows ==
    ASSUME TypeOK, [Next]_vars, NEW r \in Runs
    PROVE  \/ RowsOf(r)' = RowsOf(r)
           \/ \E j \in Jobs : /\ RunOf[j] = r /\ j \notin RowsOf(r) /\ WithinRunBudget(j)
                              /\ RowsOf(r)' = RowsOf(r) \cup {j}
<1>1. RowStep BY RowSteps
<1>2. CASE UNCHANGED rows
  BY <1>2 DEF rows, RowsOf, Submitted
<1>3. ASSUME NEW j \in Jobs, Enrolled(j)
      PROVE  \/ RowsOf(r)' = RowsOf(r)
             \/ /\ RunOf[j] = r /\ j \notin RowsOf(r) /\ WithinRunBudget(j)
                /\ RowsOf(r)' = RowsOf(r) \cup {j}
  BY <1>3 DEF Enrolled, RowsOf, Submitted, TypeOK
<1>4. ASSUME NEW j \in Jobs, NEW s \in JobStatus, NEW e, Move(j, s, e), status[j] # "ABSENT"
      PROVE  RowsOf(r)' = RowsOf(r)
  <2>1. s # "ABSENT" BY DEF JobStatus, Nonterminal, Active, Terminal
  <2> QED BY <1>4, <2>1 DEF Move, RowsOf, Submitted, TypeOK
<1>5. ASSUME NEW j \in Jobs, Reserved(j) PROVE RowsOf(r)' = RowsOf(r)
  <2>1. /\ status[j] = "QUEUED" /\ Move(j, "DISPATCHING", "DISPATCHING")
        /\ "DISPATCHING" \in JobStatus
    BY <1>5, Statuses DEF Reserved, Eligible, IsHead, Active
  <2> QED BY <1>4, <2>1
<1>6. ASSUME NEW j \in Jobs, NEW s \in JobStatus, Moved(j, s) PROVE RowsOf(r)' = RowsOf(r)
  BY <1>4, <1>6 DEF Moved, Nonterminal, Active
<1> QED BY <1>1, <1>2, <1>3, <1>5, <1>6 DEF RowStep

\* What every run has consumed stays within the policy: submission checks the
\* sum over all its rows in the transaction that adds one, and no cancellation,
\* failure or restart removes a row.
THEOREM BudgetsHold == Spec => []RunBudgetsHold
<1>1. Init => RunBudgetsHold
  <2> SUFFICES ASSUME Init, NEW r \in Runs
               PROVE  /\ Consumed(r, "candidate_cost") <= MaxCandidates
                      /\ Consumed(r, "token_cost") <= MaxTokens
    BY DEF RunBudgetsHold
  <2>1. {j \in Submitted : RunOf[j] = r} = {} BY DEF Init, Submitted
  <2> QED BY <2>1, TotalEmpty, PolicyAssumption DEF Consumed
<1>2. TypeOK /\ RunBudgetsHold /\ [Next]_vars => RunBudgetsHold'
  <2> SUFFICES ASSUME TypeOK, RunBudgetsHold, [Next]_vars, NEW r \in Runs
               PROVE  /\ Total("candidate_cost", RowsOf(r)') <= MaxCandidates
                      /\ Total("token_cost", RowsOf(r)') <= MaxTokens
    BY DEF RunBudgetsHold, Consumed, RowsOf
  <2>1. /\ Total("candidate_cost", RowsOf(r)) <= MaxCandidates
        /\ Total("token_cost", RowsOf(r)) <= MaxTokens
    BY DEF RunBudgetsHold, Consumed, RowsOf
  <2>2. CASE RowsOf(r)' = RowsOf(r)
    BY <2>1, <2>2
  <2>3. ASSUME NEW j \in Jobs, RunOf[j] = r, j \notin RowsOf(r), WithinRunBudget(j),
               RowsOf(r)' = RowsOf(r) \cup {j}
        PROVE  /\ Total("candidate_cost", RowsOf(r)') <= MaxCandidates
               /\ Total("token_cost", RowsOf(r)') <= MaxTokens
    <3>1. \A a \in Amounts : Total(a, RowsOf(r) \cup {j}) = Total(a, RowsOf(r)) + Demand[j][a]
      <4>1. RowsOf(r) \in SUBSET Jobs BY DEF RowsOf, Submitted
      <4> QED BY <2>3, <4>1, TotalAdds
    <3>2. /\ Total("candidate_cost", RowsOf(r)) + Demand[j]["candidate_cost"] <= MaxCandidates
          /\ Total("token_cost", RowsOf(r)) + Demand[j]["token_cost"] <= MaxTokens
      BY <2>3 DEF WithinRunBudget, Consumed, RowsOf
    <3> QED BY <2>3, <3>1, <3>2 DEF Amounts
  <2> QED BY <2>2, <2>3, ConsumedGrows
<1> QED BY <1>1, <1>2, TypeCorrect, PTL DEF Spec

SharesWithinLimits ==
    \A k \in Kinds, a \in {"cpu_cores", "memory_bytes"} :
        Total(a, LeasedOf(k)) <= Limits[k][a]

\* The CPU and memory of the dispatched and unfinished jobs of a kind: the
\* reservation sums every active row, quarantined ones included, in the
\* transaction that adds one; fewer jobs never add up to more.
THEOREM SharesBounded == Spec => []SharesWithinLimits
<1>0. \A k \in Kinds : /\ LeasedOf(k) \in SUBSET ActiveOf(k) /\ ActiveOf(k) \in SUBSET Jobs
                       /\ LeasedOf(k) \in SUBSET Jobs
  BY DEF LeasedOf, ActiveOf
<1>1. Init => SharesWithinLimits
  <2> SUFFICES ASSUME Init, NEW k \in Kinds, NEW a \in {"cpu_cores", "memory_bytes"}
               PROVE  Total(a, LeasedOf(k)) <= Limits[k][a]
    BY DEF SharesWithinLimits
  <2>1. LeasedOf(k) = {} BY DEF Init, LeasedOf, ActiveOf, Active
  <2>2. Limits[k][a] \in Nat BY PolicyAssumption
  <2> QED BY <2>1, <2>2, TotalEmpty
<1>2. TypeOK /\ QueueInvariant /\ SharesWithinLimits /\ [Next]_vars => SharesWithinLimits'
  <2> SUFFICES ASSUME TypeOK, QueueInvariant, SharesWithinLimits, [Next]_vars,
                      NEW k \in Kinds, NEW a \in {"cpu_cores", "memory_bytes"}
               PROVE  Total(a, LeasedOf(k)') <= Limits[k][a]
    BY DEF SharesWithinLimits
  <2>0. /\ Total(a, LeasedOf(k)) <= Limits[k][a] /\ Limits[k][a] \in Nat /\ a \in Amounts
    BY PolicyAssumption DEF SharesWithinLimits, Amounts
  <2>1. ASSUME LeasedOf(k)' \subseteq LeasedOf(k) PROVE Total(a, LeasedOf(k)') <= Limits[k][a]
    <3>1. LeasedOf(k)' \in SUBSET Jobs /\ LeasedOf(k)' \in SUBSET LeasedOf(k)
      BY <1>0, <2>1
    <3>2. Total(a, LeasedOf(k)') <= Total(a, LeasedOf(k))
      BY <1>0, <2>0, <3>1, TotalMonotone
    <3>3. Total(a, LeasedOf(k)') \in Nat /\ Total(a, LeasedOf(k)) \in Nat
      BY <1>0, <2>0, <3>1, TotalType
    <3> QED BY <2>0, <3>2, <3>3
  <2>2. CASE UNCHANGED rows
    <3>1. LeasedOf(k)' = LeasedOf(k)
      BY <2>2 DEF rows, LeasedOf, ActiveOf, Dispatched
    <3> QED BY <2>1, <3>1
  <2>3. ASSUME NEW j \in Jobs, Enrolled(j) PROVE Total(a, LeasedOf(k)') <= Limits[k][a]
    <3>1. LeasedOf(k)' \subseteq LeasedOf(k)
      BY <2>3 DEF Enrolled, LeasedOf, ActiveOf, Active, Dispatched, TypeOK
    <3> QED BY <2>1, <3>1
  <2>4. ASSUME NEW j \in Jobs, Reserved(j) PROVE Total(a, LeasedOf(k)') <= Limits[k][a]
    <3>1. LeasedOf(k)' \subseteq LeasedOf(k) \cup {j} /\ j \notin ActiveOf(k)
      BY <2>4 DEF Reserved, Eligible, IsHead, Move, LeasedOf, ActiveOf, Active, Dispatched, TypeOK
    <3>2. CASE KindOf[j] # k
      <4>1. LeasedOf(k)' \subseteq LeasedOf(k) BY <3>1, <3>2 DEF LeasedOf, ActiveOf
      <4> QED BY <2>1, <4>1
    <3>3. CASE KindOf[j] = k
      <4>1. Total(a, ActiveOf(k)) + Demand[j][a] <= Limits[k][a]
        BY <2>4, <3>3 DEF Reserved, Eligible, Fits
      <4>2. Total(a, ActiveOf(k) \cup {j}) = Total(a, ActiveOf(k)) + Demand[j][a]
        BY <1>0, <2>0, <3>1, TotalAdds
      <4>3. /\ LeasedOf(k)' \in SUBSET (ActiveOf(k) \cup {j})
            /\ ActiveOf(k) \cup {j} \in SUBSET Jobs
        BY <1>0, <3>1
      <4>4. Total(a, LeasedOf(k)') <= Total(a, ActiveOf(k) \cup {j})
        BY <2>0, <4>3, TotalMonotone
      <4>5. /\ Total(a, LeasedOf(k)') \in Nat /\ Total(a, ActiveOf(k) \cup {j}) \in Nat
        <5>1. LeasedOf(k)' \in SUBSET Jobs BY <4>3
        <5> QED BY <2>0, <4>3, <5>1, TotalType
      <4> QED BY <2>0, <4>1, <4>2, <4>4, <4>5
    <3> QED BY <3>2, <3>3
  <2>5. ASSUME NEW j \in Jobs, NEW s \in JobStatus, Moved(j, s)
        PROVE  Total(a, LeasedOf(k)') <= Limits[k][a]
    BY <2>1, <2>5, MovedLeases
  <2> QED BY <2>2, <2>3, <2>4, <2>5, RowSteps DEF RowStep
<1> QED BY <1>1, <1>2, TypeCorrect, QueueCorrect, PTL DEF Spec

\* No interleaving of callers, aborted dispatch, cancellation, crash or restart
\* gets past the concurrency, CPU, memory, candidate or token limits.
THEOREM PolicyHolds == Spec => []PolicyKept
<1>1. ConcurrencyWithinLimits /\ SharesWithinLimits /\ RunBudgetsHold => PolicyKept
  BY DEF PolicyKept, LeasesWithinLimits, SharesWithinLimits
<1> QED BY <1>1, ConcurrencyBounded, SharesBounded, BudgetsHold, PTL

\* How a row step moves the lease of its job.
LEMMA LeaseOfMoved ==
    ASSUME TypeOK, QueueInvariant, NEW j \in Jobs, NEW s \in JobStatus, Moved(j, s)
    PROVE  /\ \A i \in Jobs \ {j} : LeaseState(i)' = LeaseState(i)
           /\ \/ LeaseState(j)' = LeaseState(j)
              \/ LeaseState(j) \in {"queued", "leased"} /\ LeaseState(j)' = "done"
<1>1. /\ status'[j] = s /\ \A i \in Jobs \ {j} : status'[i] = status[i]
  BY DEF Moved, Move, TypeOK
<1>2. \A i \in Jobs : Dispatched(i)' <=> Dispatched(i) BY MovedStep
<1>3. \A i \in Jobs \ {j} : LeaseState(i)' = LeaseState(i)
  BY <1>1, <1>2 DEF LeaseState
<1>4. CASE status[j] = "QUEUED"
  <2>1. s = "CANCELLING" BY <1>4 DEF Moved
  <2>2. ~Dispatched(j)
    <3>1. Len(events[j]) = 1 /\ events[j][1] = "QUEUED"
      BY <1>4 DEF QueueInvariant, JournalShape
    <3>2. DOMAIN events[j] = 1..1 BY <3>1 DEF TypeOK
    <3> QED BY <3>1, <3>2 DEF Dispatched
  <2>3. ~Dispatched(j)' BY <1>2, <2>2
  <2>4. LeaseState(j) = "queued" BY <1>4 DEF LeaseState
  <2>5. LeaseState(j)' = "done" BY <1>1, <2>1, <2>3 DEF LeaseState
  <2> QED BY <1>3, <2>4, <2>5
<1>5. CASE status[j] \in Active /\ s \in Active
  <2>1. LeaseState(j)' = LeaseState(j)
    BY <1>1, <1>2, <1>5 DEF LeaseState, Active
  <2> QED BY <1>3, <2>1
<1>6. CASE status[j] \in Active /\ s \notin Active
  <2>1. s \in Terminal
    BY <1>6 DEF Moved, JobStatus, Nonterminal
  <2>2. LeaseState(j)' = "done" BY <1>1, <2>1 DEF LeaseState, Terminal, Active
  <2>3. LeaseState(j) \in {"leased", "done"} BY <1>6 DEF LeaseState, Active
  <2> QED BY <1>3, <2>2, <2>3
<1> QED BY <1>4, <1>5, <1>6 DEF Moved, Nonterminal

\* The scheduler, with its threads, failures and restarts, implements the
\* abstract lease manager of Leases.tla.
THEOREM Refinement == Spec => ImplementsLeases
<1> DEFINE lease == [j \in Jobs |-> LeaseState(j)]
<1>1. Init => L!Init
  BY DEF Init, L!Init, LeaseState
<1>2. TypeOK /\ QueueInvariant /\ [Next]_vars => [L!Next]_(L!leaseVars)
  <2> SUFFICES ASSUME TypeOK, QueueInvariant, [Next]_vars
               PROVE  [L!Next]_(L!leaseVars)
    OBVIOUS
  <2>1. CASE UNCHANGED rows
    BY <2>1 DEF rows, L!leaseVars, LeaseState, Dispatched
  <2>2. ASSUME NEW j \in Jobs, Enrolled(j) PROVE L!Next
    <3>1. status'[j] = "QUEUED" /\ \A i \in Jobs \ {j} : status'[i] = status[i] /\ events'[i] = events[i]
      BY <2>2 DEF Enrolled, TypeOK
    <3>2. lease' = [lease EXCEPT ![j] = "queued"]
      BY <3>1 DEF LeaseState, Dispatched
    <3>3. lease[j] = "absent" BY <2>2 DEF Enrolled, LeaseState
    <3>4. L!Enqueue(j)
      BY <2>2, <3>2, <3>3 DEF L!Enqueue, Enrolled
    <3> QED BY <3>4 DEF L!Next
  <2>3. ASSUME NEW j \in Jobs, Reserved(j) PROVE L!Next
    <3>0. /\ Move(j, "DISPATCHING", "DISPATCHING") /\ IsHead(j) /\ Fits(j)
          /\ "DISPATCHING" \in JobStatus /\ "DISPATCHING" \in EventType
      BY <2>3, Statuses DEF Reserved, Eligible, Active
    <3>1. /\ status'[j] = "DISPATCHING" /\ submitIndex' = submitIndex /\ nextIndex' = nextIndex
          /\ \A i \in Jobs \ {j} : status'[i] = status[i] /\ events'[i] = events[i]
          /\ Dispatched(j)'
      <4>1. Len(events[j]) \in Nat BY <3>0, MoveJournal
      <4> QED BY <3>0, <4>1, MoveJournal DEF Dispatched
    <3>2. lease' = [lease EXCEPT ![j] = "leased"]
      BY <3>1 DEF LeaseState, Dispatched, Active
    <3>3. \A i \in Jobs : lease[i] = "queued" <=> status[i] = "QUEUED"
      BY DEF LeaseState
    <3>4. \A k \in Kinds : L!LeasedOf(k) = LeasedOf(k)
      BY DEF L!LeasedOf, LeasedOf, ActiveOf, LeaseState, Active
    <3>5. KindOf[j] \in Kinds BY RequestAssumption
    <3>6. Cardinality(LeasedOf(KindOf[j])) < Limits[KindOf[j]]["max_concurrency"]
      <4>1. Cardinality(ActiveOf(KindOf[j])) < Limits[KindOf[j]]["max_concurrency"]
        BY <3>0 DEF Fits
      <4>2. Limits[KindOf[j]]["max_concurrency"] \in Nat BY <3>5, PolicyAssumption
      <4> QED BY <3>5, <4>1, <4>2, LeasedFinite
    <3>7. L!Cardinality(L!LeasedOf(KindOf[j]))
            < [k \in Kinds |-> Limits[k]["max_concurrency"]][KindOf[j]]
      <4>1. \A S : L!Cardinality(S) = Cardinality(S)
        BY DEF L!Cardinality, Cardinality
      <4> QED BY <3>4, <3>5, <3>6, <4>1
    <3>8. /\ lease[j] = "queued"
          /\ \A i \in Jobs : lease[i] = "queued" /\ KindOf[i] = KindOf[j]
                                => submitIndex[j] <= submitIndex[i]
      BY <3>0, <3>3 DEF IsHead
    <3> HIDE DEF lease
    <3>9. L!Grant(j)
      BY <3>1, <3>2, <3>7, <3>8 DEF L!Grant, lease
    <3> QED BY <3>9 DEF L!Next
  <2>4. ASSUME NEW j \in Jobs, NEW s \in JobStatus, Moved(j, s)
        PROVE  [L!Next]_(L!leaseVars)
    <3>1. submitIndex' = submitIndex /\ nextIndex' = nextIndex
      BY <2>4 DEF Moved, Move
    <3>2. CASE LeaseState(j)' = LeaseState(j)
      BY <2>4, <3>1, <3>2, LeaseOfMoved DEF L!leaseVars
    <3>3. CASE LeaseState(j) \in {"queued", "leased"} /\ LeaseState(j)' = "done"
      <4>1. lease' = [lease EXCEPT ![j] = "done"]
        BY <2>4, <3>3, LeaseOfMoved
      <4>2. L!Withdraw(j) \/ L!Release(j)
        BY <3>1, <3>3, <4>1 DEF L!Withdraw, L!Release
      <4> QED BY <4>2 DEF L!Next
    <3> QED BY <2>4, <3>2, <3>3, LeaseOfMoved
  <2> QED BY <2>1, <2>2, <2>3, <2>4, RowSteps DEF RowStep
<1> QED BY <1>1, <1>2, TypeCorrect, QueueCorrect, PTL DEF Spec, ImplementsLeases, L!Spec

-----------------------------------------------------------------------------
(* One caller: a live worker is always covered by a lease *)

LeaseInvariant == LeaseCoversWorker /\ PathAgreesWithRow

\* A worker that this process has started is in its table, and so is none of
\* those a restart has still to ask about.
TableKnown ==
    /\ alive \ orphans \subseteq attached
    /\ phase = "down" => attached = {}
    /\ \A c \in Callers :
          /\ phase = "down" => th[c].pc = "idle"
          /\ th[c].pc = "boot" \/ th[c].back = "boot" => th[c].todo \cap attached = {}
          /\ th[c].pc = "start" => th[c].job \in attached

LEMMA OrphansKept ==
    ASSUME NEW c \in Callers, Step(c) \/ Request(c)
    PROVE  orphans' = orphans
<1>1. CASE SweepNext(c) BY <1>1 DEF SweepNext, RequestCancel
<1>2. CASE Step(c) /\ ~SweepNext(c)
  BY <1>2 DEF Step, Attach, Reserve, Drained, Fetch, Start, StartFails, Commit, Kill, Presume,
              Close, SweepDone, BootNext, BootDone
<1>3. CASE Request(c)
  BY <1>3 DEF Request, Sweep, Submit, AttachWorker, Complete, Cancel, RequestCancel,
              RecordPartialLogs, ReconcileQuarantined
<1> QED BY <1>1, <1>2, <1>3

\* A lease that was given up stays given up: the row is terminal.
LEMMA GivenUpStays ==
    ASSUME TypeOK, [Next]_vars, NEW j \in alive', j \in alive, GivenUp(j)
    PROVE  GivenUp(j)'
<1>0. j \in Jobs /\ status[j] \in Terminal BY DEF GivenUp, TypeOK, Terminal
<1>1. RowStep /\ LogStep BY RowSteps
<1>2. status'[j] = status[j] /\ events'[j] = events[j]
  <2>1. ASSUME NEW i \in Jobs, Enrolled(i) \/ Reserved(i) \/ \E s \in JobStatus : Moved(i, s)
        PROVE  status'[j] = status[j] /\ events'[j] = events[j]
    <3>1. i # j
      BY <1>0, <2>1 DEF Enrolled, Reserved, Moved, Eligible, IsHead, Terminal, Nonterminal, Active
    <3> QED BY <1>0, <2>1, <3>1 DEF Enrolled, Reserved, Moved, Move, TypeOK
  <2> QED BY <1>1, <2>1 DEF RowStep, rows
<1>3. j \in orphans'
  <2>1. CASE Crash BY <2>1 DEF Crash
  <2>2. CASE ~Crash
    BY <2>2, OrphansKept DEF GivenUp, Next, Restart, WorkerExit, vars
  <2> QED BY <2>1, <2>2
<1> QED BY <1>2, <1>3 DEF GivenUp

\* So only the rows that are active, and the workers that are new, matter.
LEMMA LeaseKept ==
    ASSUME TypeOK, LeaseCoversWorker, [Next]_vars,
           \A j \in alive' : j \notin alive \/ status[j] \in Active
                            => status'[j] \in Active \/ GivenUp(j)'
    PROVE  LeaseCoversWorker'
<1> SUFFICES ASSUME NEW j \in alive' PROVE (status[j] \in Active)' \/ GivenUp(j)'
  BY DEF LeaseCoversWorker
<1> QED BY GivenUpStays DEF LeaseCoversWorker

LEMMA OnlyCaller ==
    ASSUME TypeOK, OneCaller, NEW c \in Callers, NEW t, Set(c, t)
    PROVE  \A d \in Callers : th'[d] = t
BY DEF OneCaller, Set, TypeOK, ControlOK

\* A caller that is not inside a job's path claims nothing about its row.
LEMMA NoClaim ==
    ASSUME TypeOK, OneCaller, NEW c \in Callers, NEW t, Set(c, t),
           t.pc \notin {"fetch", "start", "commit", "kill", "close"}
    PROVE  PathAgreesWithRow'
BY OnlyCaller DEF PathAgreesWithRow

LEMMA NoClaimAt ==
    ASSUME TypeOK, OneCaller, NEW c \in Callers,
           Abort(c) \/ Set(c, Returned(c)) \/ Set(c, Dispatching(c))
    PROVE  PathAgreesWithRow'
<1>1. th[c].back \in {"idle", "sweep", "boot"} BY DEF TypeOK, ControlOK, Control
<1>2. /\ Idle.pc = "idle" /\ Returned(c).pc = th[c].back /\ Dispatching(c).pc = "dispatch"
  BY DEF Idle, Returned, Dispatching, At
<1> QED BY <1>1, <1>2, NoClaim DEF Abort

LEMMA CancelLease ==
    ASSUME TypeOK, OneCaller, LeaseInvariant, [Next]_vars, NEW c \in Callers, NEW j \in Jobs,
           NEW K \in SUBSET Logs, NEW p, NEW b, NEW S, RequestCancel(c, j, K, At(p, b, S))
    PROVE  LeaseInvariant'
<1> DEFINE q == IF status[j] = "QUEUED" THEN "close" ELSE "kill"
           ok == (status[j] = "QUEUED")
           u == [At(p, b, S) EXCEPT !.pc = q, !.job = j, !.logs = logs[j] \cup K,
                                    !.why = "cancel", !.confirmed = ok]
<1>1. u.pc = q /\ u.job = j /\ u.why = "cancel" /\ u.confirmed = ok
  <2> HIDE DEF q, ok
  <2> QED BY DEF At
<1>2. Set(c, u) BY DEF RequestCancel
<1>3. /\ status'[j] = "CANCELLING" /\ alive' = alive
      /\ \A i \in Jobs \ {j} : status'[i] = status[i]
  BY DEF RequestCancel, Move, TypeOK
<1>4. ok => j \notin alive
  BY DEF LeaseInvariant, LeaseCoversWorker, Active, GivenUp
<1>5. q \in {"close", "kill"} OBVIOUS
<1> HIDE DEF u, q, ok
<1>6. PathAgreesWithRow'
  BY <1>1, <1>2, <1>3, <1>4, <1>5, OnlyCaller DEF PathAgreesWithRow, ExpectedStatus
<1>7. LeaseCoversWorker'
  BY <1>3, LeaseKept DEF LeaseInvariant, TypeOK, Active
<1> QED BY <1>6, <1>7 DEF LeaseInvariant

LEMMA BootLease ==
    ASSUME TypeOK, OneCaller, LeaseInvariant, TableKnown, NEW c \in Callers, BootNext(c)
    PROVE  LeaseInvariant'
<1>1. th[c].todo \in SUBSET Jobs BY DEF TypeOK, ControlOK, Control
<1>2. PICK j \in First(th[c].todo), answer \in {"none", "control", "witness"} :
         LET rest == At("boot", "boot", th[c].todo \ {j})
             w == BootPlan(j, answer)
         IN Set(c, IF w = None THEN rest
                   ELSE [rest EXCEPT !.pc = IF answer = "none" THEN "close" ELSE "kill",
                                     !.job = j, !.logs = logs[j], !.why = w])
  BY DEF BootNext, Answers
<1>3. j \in Jobs BY <1>1 DEF First
<1> DEFINE rest == At("boot", "boot", th[c].todo \ {j})
           w == BootPlan(j, answer)
           p == IF answer = "none" THEN "close" ELSE "kill"
           u == [rest EXCEPT !.pc = p, !.job = j, !.logs = logs[j], !.why = w]
<1>4. (w = None /\ Set(c, rest)) \/ (w # None /\ Set(c, u)) BY <1>2
<1>5. rest.pc = "boot" BY DEF At
<1>6. w # None => ExpectedStatus(w) = status[j]
  BY DEF BootPlan, ExpectedStatus
<1>7. u.pc = p /\ u.job = j /\ u.why = w /\ u.confirmed = FALSE
  <2> HIDE DEF p, w
  <2> QED BY DEF At
<1>8. p \in {"kill", "close"} OBVIOUS
<1>9. status' = status /\ alive' = alive /\ orphans' = orphans BY DEF BootNext, durable
<1>12. j \in alive => j \in orphans BY <1>1, <1>3 DEF BootNext, First, TableKnown
<1>13. LeaseCoversWorker'
  BY <1>9, LeaseKept DEF LeaseInvariant, Next, Step, TypeOK
<1> HIDE DEF rest, u, w, p
<1>10. CASE w = None /\ Set(c, rest)
  <2>1. PathAgreesWithRow' BY <1>5, <1>10, NoClaim
  <2> QED BY <1>13, <2>1 DEF LeaseInvariant
<1>11. CASE w # None /\ Set(c, u)
  <2>1. PathAgreesWithRow'
    BY <1>6, <1>7, <1>8, <1>9, <1>11, <1>12, OnlyCaller DEF PathAgreesWithRow
  <2> QED BY <1>13, <2>1 DEF LeaseInvariant
<1> QED BY <1>4, <1>10, <1>11

LEMMA LeaseStep ==
    ASSUME TypeOK, QueueInvariant, OneCaller, LeaseInvariant, TableKnown,
           NEW c \in Callers, Step(c)
    PROVE  LeaseInvariant'
<1> DEFINE t == th[c]
<1>0. /\ t \in Control /\ (t.pc \in HasJob => t.job \in Jobs)
      /\ (t.pc \in {"kill", "close"} => t.why \in Why)
      /\ (t.pc \in {"fetch", "start", "commit"} => status[t.job] = "DISPATCHING")
      /\ (t.pc \in {"kill", "close"} => status[t.job] = ExpectedStatus(t.why))
      /\ (t.pc = "close" /\ t.confirmed /\ t.why # "presumed" => t.job \notin alive)
      /\ (t.pc \in {"kill", "close"} /\ t.why = "presumed" /\ t.job \in alive => t.job \in orphans)
      /\ alive \subseteq Jobs /\ [Next]_vars
  BY DEF TypeOK, ControlOK, LeaseInvariant, PathAgreesWithRow, Next
<1>a. orphans' = orphans BY OrphansKept
<1>b. ASSUME PathAgreesWithRow',
             \A j \in alive' : j \notin alive \/ status[j] \in Active
                              => status'[j] \in Active \/ GivenUp(j)'
      PROVE  LeaseInvariant'
  BY <1>0, <1>b, LeaseKept DEF LeaseInvariant
<1>c. ASSUME PathAgreesWithRow', status' = status, alive' \subseteq alive PROVE LeaseInvariant'
  BY <1>b, <1>c
<1>1. CASE Attach(c)
  <2>1. PathAgreesWithRow' BY <1>1, NoClaim DEF Attach, At
  <2> QED BY <1>1, <1>c, <2>1 DEF Attach, durable
<1>2. CASE Reserve(c)
  <2>1. PICK j \in Jobs : /\ status[j] = "QUEUED"
                          /\ Move(j, "DISPATCHING", "DISPATCHING")
                          /\ Set(c, [t EXCEPT !.pc = "fetch", !.job = j])
    BY <1>2 DEF Reserve, First, Eligible, IsHead
  <2> DEFINE u == [t EXCEPT !.pc = "fetch", !.job = j]
  <2>2. u.pc = "fetch" /\ u.job = j BY <1>0 DEF Control
  <2>3. /\ status'[j] = "DISPATCHING" /\ \A i \in Jobs \ {j} : status'[i] = status[i]
    BY <2>1 DEF Move, TypeOK
  <2>4. Set(c, u) BY <2>1
  <2> HIDE DEF u
  <2>5. PathAgreesWithRow' BY <2>2, <2>3, <2>4, OnlyCaller DEF PathAgreesWithRow
  <2> QED BY <1>0, <1>2, <1>b, <2>3, <2>5 DEF Reserve, Active
<1>3. CASE Drained(c)
  <2>1. PathAgreesWithRow' BY <1>3, NoClaimAt DEF Drained
  <2> QED BY <1>3, <1>c, <2>1 DEF Drained, durable
<1>4. CASE Fetch(c)
  <2> DEFINE u == [t EXCEPT !.pc = "start"]
  <2>1. u.pc = "start" /\ u.job = t.job BY <1>0 DEF Control
  <2>2. Set(c, u) \/ Abort(c) BY <1>4 DEF Fetch
  <2>3. status' = status /\ alive' = alive /\ t.pc = "fetch" BY <1>4 DEF Fetch, durable
  <2> HIDE DEF u
  <2>4. PathAgreesWithRow'
    BY <1>0, <2>1, <2>2, <2>3, OnlyCaller, NoClaimAt DEF PathAgreesWithRow
  <2> QED BY <1>c, <2>3, <2>4
<1>5. CASE Start(c)
  <2> DEFINE u == [t EXCEPT !.pc = "commit"]
  <2>1. u.pc = "commit" /\ u.job = t.job BY <1>0 DEF Control
  <2>2. Set(c, u) /\ t.pc = "start" BY <1>5 DEF Start
  <2>3. status' = status /\ alive' = alive \cup {t.job} BY <1>5 DEF Start, durable
  <2> HIDE DEF u
  <2>4. PathAgreesWithRow'
    BY <1>0, <2>1, <2>2, <2>3, OnlyCaller DEF PathAgreesWithRow
  <2> QED BY <1>0, <1>b, <2>2, <2>3, <2>4 DEF Active
<1>6. CASE StartFails(c)
  <2> DEFINE u == [t EXCEPT !.pc = "kill", !.why = "start_failed"]
  <2>1. u.pc = "kill" /\ u.job = t.job /\ u.why = "start_failed" BY <1>0 DEF Control
  <2>2. Set(c, u) /\ t.pc = "start" BY <1>6 DEF StartFails
  <2>3. status' = status /\ alive' \subseteq alive \cup {t.job}
    BY <1>6 DEF StartFails, durable
  <2> HIDE DEF u
  <2>4. PathAgreesWithRow'
    BY <1>0, <2>1, <2>2, <2>3, OnlyCaller DEF PathAgreesWithRow, ExpectedStatus
  <2> QED BY <1>0, <1>b, <2>2, <2>3, <2>4 DEF Active
<1>7. CASE Commit(c)
  <2>1. status[t.job] = "DISPATCHING" /\ t.job \in Jobs BY <1>0, <1>7 DEF Commit, HasJob
  <2>2. /\ Move(t.job, "RUNNING", "RUNNING") /\ Set(c, Dispatching(c)) /\ alive' = alive
    BY <1>7, <2>1 DEF Commit
  <2>3. PathAgreesWithRow' BY <2>2, NoClaimAt
  <2> QED BY <1>0, <1>b, <2>1, <2>2, <2>3 DEF Move, TypeOK, Active
<1>8. CASE Kill(c)
  <2>1. PICK ok \in BOOLEAN, K \in SUBSET Logs :
          /\ (ok => t.job \notin alive') /\ alive' \subseteq alive
          /\ Set(c, [t EXCEPT !.pc = "close", !.confirmed = ok, !.logs = K])
    <3>0. t.logs \in SUBSET Logs BY <1>0 DEF Control
    <3>1. CASE t.why = "cancel" /\ t.job \notin attached
      <4>1. Set(c, [t EXCEPT !.pc = "close", !.confirmed = FALSE, !.logs = t.logs])
        BY <1>0, <1>8, <3>1 DEF Kill, Control
      <4> QED BY <1>8, <3>0, <3>1, <4>1 DEF Kill
    <3>2. CASE ~(t.why = "cancel" /\ t.job \notin attached)
      <4>1. PICK ok \in BOOLEAN, M \in SUBSET Logs :
               /\ Terminated(t.job, ok)
               /\ Set(c, [t EXCEPT !.pc = "close", !.confirmed = ok, !.logs = @ \cup M])
        BY <1>8, <3>2 DEF Kill
      <4>2. Set(c, [t EXCEPT !.pc = "close", !.confirmed = ok, !.logs = t.logs \cup M])
        BY <4>1
      <4>3. t.logs \cup M \in SUBSET Logs BY <3>0
      <4> QED BY <4>1, <4>2, <4>3 DEF Terminated
    <3> QED BY <3>1, <3>2
  <2> DEFINE u == [t EXCEPT !.pc = "close", !.confirmed = ok, !.logs = K]
  <2>2. u.pc = "close" /\ u.job = t.job /\ u.why = t.why /\ u.confirmed = ok
    BY <1>0 DEF Control
  <2>3. Set(c, u) BY <2>1
  <2>4. status' = status /\ t.pc = "kill" /\ t.why # "presumed" BY <1>8 DEF Kill, durable
  <2> HIDE DEF u
  <2>5. PathAgreesWithRow'
    BY <1>0, <2>1, <2>2, <2>3, <2>4, OnlyCaller DEF PathAgreesWithRow
  <2> QED BY <1>c, <2>1, <2>4, <2>5
<1>14. CASE Presume(c)
  <2> DEFINE u == [t EXCEPT !.pc = "close", !.confirmed = TRUE]
  <2>1. u.pc = "close" /\ u.job = t.job /\ u.why = t.why BY <1>0 DEF Control
  <2>2. Set(c, u) BY <1>14 DEF Presume
  <2>3. status' = status /\ alive' = alive /\ t.pc = "kill" /\ t.why = "presumed"
    BY <1>14 DEF Presume, durable
  <2> HIDE DEF u
  <2>4. PathAgreesWithRow'
    BY <1>0, <1>a, <2>1, <2>2, <2>3, OnlyCaller DEF PathAgreesWithRow
  <2> QED BY <1>c, <2>3, <2>4
<1>9. CASE Close(c)
  <2>1. PathAgreesWithRow' BY <1>9, NoClaimAt DEF Close
  <2>2. t.job \in Jobs /\ alive' = alive BY <1>0, <1>9 DEF Close, HasJob
  <2>3. CASE t.confirmed
    <3>1. \A i \in Jobs \ {t.job} : status'[i] = status[i]
      BY <1>9, <2>2 DEF Close, Finish, Quarantine, Move, durable, TypeOK
    <3>2. ASSUME NEW j \in Jobs, j = t.job, j \in alive PROVE GivenUp(j)'
      <4>1. t.why = "presumed" /\ j \in orphans' /\ status[j] = "QUARANTINED"
        BY <1>0, <1>9, <1>a, <2>3, <3>2 DEF Close, ExpectedStatus
      <4>2. Move(j, "INFRASTRUCTURE_ERROR", "INFRASTRUCTURE_ERROR")
        BY <1>0, <1>9, <2>3, <3>2, <4>1 DEF Close, Finish, FinalStatus
      <4>3. Len(events[j]) > 0 /\ events[j][Len(events[j])] = "QUARANTINED"
        BY <4>1 DEF QueueInvariant, JournalMatchesStatus
      <4>4. "INFRASTRUCTURE_ERROR" \in JobStatus /\ "INFRASTRUCTURE_ERROR" \in EventType
        BY DEF JobStatus, Terminal, EventType
      <4>5. /\ status'[j] = "INFRASTRUCTURE_ERROR"
            /\ Len(events'[j]) = Len(events[j]) + 1 /\ Len(events[j]) \in Nat
            /\ Len(events[j]) \in DOMAIN events[j]
            /\ events'[j][Len(events[j])] = events[j][Len(events[j])]
        BY <4>2, <4>3, <4>4, MoveJournal
      <4>6. Len(events'[j]) > 1 /\ Len(events'[j]) - 1 = Len(events[j])
        BY <4>3, <4>5
      <4> QED BY <4>1, <4>3, <4>5, <4>6 DEF GivenUp
    <3> QED BY <1>0, <1>b, <2>1, <2>2, <3>1, <3>2
  <2>4. CASE ~t.confirmed
    <3>1. Quarantine(t.job, t.logs) \/ status' = status
      BY <1>9, <2>4 DEF Close, durable
    <3> QED BY <1>0, <1>b, <2>1, <2>2, <3>1 DEF Quarantine, Move, TypeOK, Active
  <2> QED BY <2>3, <2>4
<1>10. CASE SweepNext(c)
  <2> DEFINE rest(j) == At("sweep", "sweep", t.todo \ {j})
  <2>0. \A j : rest(j).pc = "sweep" BY DEF At
  <2>1. PICK j \in Jobs :
           \/ RequestCancel(c, j, {}, rest(j))
           \/ /\ Set(c, rest(j)) \/ Abort(c)
              /\ UNCHANGED <<durable, attached, phase, alive, orphans, crashes>>
    BY <1>0, <1>10 DEF SweepNext, First, Control
  <2>2. CASE /\ Set(c, rest(j)) \/ Abort(c)
             /\ UNCHANGED <<durable, attached, phase, alive, orphans, crashes>>
    <3>1. PathAgreesWithRow' BY <2>0, <2>2, NoClaim, NoClaimAt
    <3> QED BY <1>c, <2>2, <3>1 DEF durable
  <2>3. CASE RequestCancel(c, j, {}, rest(j))
    BY <1>0, <2>3, CancelLease
  <2> QED BY <2>1, <2>2, <2>3
<1>11. CASE SweepDone(c)
  <2>1. PathAgreesWithRow' BY <1>11, NoClaimAt DEF SweepDone, Abort
  <2> QED BY <1>11, <1>c, <2>1 DEF SweepDone, durable
<1>12. CASE BootNext(c)
  BY <1>12, BootLease
<1>13. CASE BootDone(c)
  <2>1. PathAgreesWithRow' BY <1>13, NoClaim DEF BootDone, At
  <2> QED BY <1>13, <1>c, <2>1 DEF BootDone, durable
<1> QED BY <1>1, <1>2, <1>3, <1>4, <1>5, <1>6, <1>7, <1>8, <1>9, <1>10, <1>11, <1>12, <1>13, <1>14
        DEF Step

LEMMA LeaseRequest ==
    ASSUME TypeOK, OneCaller, LeaseInvariant, NEW c \in Callers, Request(c) \/ Restart(c)
    PROVE  LeaseInvariant'
<1>0. alive \subseteq Jobs /\ [Next]_vars BY DEF TypeOK, Next
<1>b. ASSUME PathAgreesWithRow',
             \A j \in alive' : j \notin alive \/ status[j] \in Active
                              => status'[j] \in Active \/ GivenUp(j)'
      PROVE  LeaseInvariant'
  BY <1>0, <1>b, LeaseKept DEF LeaseInvariant
<1>1. ASSUME UNCHANGED <<status, alive>>, NEW t, Set(c, t),
             t.pc \notin {"fetch", "start", "commit", "kill", "close"}
      PROVE  LeaseInvariant'
  <2>1. PathAgreesWithRow' BY <1>1, NoClaim
  <2> QED BY <1>1, <1>b, <2>1
<1>2. CASE Sweep(c)
  <2>1. PICK S : Set(c, At("sweep", "sweep", S)) BY <1>2 DEF Sweep
  <2> QED BY <1>1, <1>2, <2>1 DEF Sweep, durable, At
<1>3. CASE Restart(c)
  BY <1>1, <1>3 DEF Restart, durable, At
<1>4. ASSUME NEW j \in Jobs, Submit(c, j) PROVE LeaseInvariant'
  <2> DEFINE t == [Idle EXCEPT !.pc = "attach", !.job = j]
  <2>1. t.pc = "attach" BY DEF Idle, At
  <2>2. Set(c, t) \/ Set(c, At("dispatch", "idle", {})) BY <1>4 DEF Submit
  <2> HIDE DEF t
  <2>3. PathAgreesWithRow' BY <2>1, <2>2, NoClaim DEF At
  <2> QED BY <1>0, <1>4, <1>b, <2>3 DEF Submit, TypeOK, Active
<1>5. ASSUME NEW j \in Jobs, AttachWorker(c, j) PROVE LeaseInvariant'
  <2> DEFINE t == [Idle EXCEPT !.pc = "attach", !.job = j]
  <2>1. t.pc = "attach" BY DEF Idle, At
  <2>2. Set(c, t) /\ UNCHANGED <<status, alive>> BY <1>5 DEF AttachWorker, durable
  <2> HIDE DEF t
  <2> QED BY <1>1, <2>1, <2>2
<1>6. ASSUME NEW j \in Jobs, Complete(c, j) PROVE LeaseInvariant'
  <2>1. PathAgreesWithRow' BY <1>6, NoClaimAt DEF Complete
  <2> QED BY <1>0, <1>6, <1>b, <2>1 DEF Complete, Finish, Move, TypeOK
<1>7. ASSUME NEW j \in Jobs, Cancel(c, j) PROVE LeaseInvariant'
  BY <1>0, <1>7, CancelLease DEF Cancel, Idle
<1>8. ASSUME NEW j \in Jobs, RecordPartialLogs(c, j) PROVE LeaseInvariant'
  <2>1. PathAgreesWithRow' BY <1>8 DEF RecordPartialLogs, LeaseInvariant, PathAgreesWithRow
  <2> QED BY <1>8, <1>b, <2>1 DEF RecordPartialLogs
<1>9. ASSUME NEW j \in Jobs, ReconcileQuarantined(c, j) PROVE LeaseInvariant'
  <2> DEFINE u == [Idle EXCEPT !.pc = "kill", !.job = j, !.logs = logs[j],
                               !.why = "reconcile"]
  <2>1. u.pc = "kill" /\ u.job = j /\ u.why = "reconcile" BY DEF Idle, At
  <2>2. Set(c, u) /\ UNCHANGED <<status, alive>> /\ status[j] = "QUARANTINED"
    BY <1>9 DEF ReconcileQuarantined, durable
  <2> HIDE DEF u
  <2>3. PathAgreesWithRow'
    BY <2>1, <2>2, OnlyCaller DEF PathAgreesWithRow, ExpectedStatus
  <2> QED BY <1>b, <2>2, <2>3
<1> QED BY <1>2, <1>3, <1>4, <1>5, <1>6, <1>7, <1>8, <1>9 DEF Request

\* What a caller's next record has to promise about the table of workers.
LEMMA TableSet ==
    ASSUME TypeOK, OneCaller, NEW c \in Callers, NEW u, Set(c, u), phase' # "down",
           alive' \ orphans' \subseteq attached',
           u.pc = "boot" \/ u.back = "boot" => u.todo \cap attached' = {},
           u.pc = "start" => u.job \in attached'
    PROVE  TableKnown'
BY OnlyCaller DEF TableKnown

LEMMA TableCancel ==
    ASSUME TypeOK, OneCaller, TableKnown, phase # "down",
           NEW c \in Callers, NEW j \in Jobs, NEW K, NEW p, NEW b \in {"idle", "sweep"}, NEW S,
           RequestCancel(c, j, K, At(p, b, S)), orphans' = orphans
    PROVE  TableKnown'
<1> DEFINE q == IF status[j] = "QUEUED" THEN "close" ELSE "kill"
           ok == (status[j] = "QUEUED")
           u == [At(p, b, S) EXCEPT !.pc = q, !.job = j, !.logs = logs[j] \cup K,
                                    !.why = "cancel", !.confirmed = ok]
<1>1. u.pc = q /\ u.back = b
  <2> HIDE DEF q, ok
  <2> QED BY DEF At
<1>2. Set(c, u) /\ UNCHANGED <<attached, phase, alive>> BY DEF RequestCancel
<1>3. q \in {"kill", "close"} OBVIOUS
<1> HIDE DEF u, q, ok
<1> QED BY <1>1, <1>2, <1>3, TableSet DEF TableKnown

LEMMA TableStep ==
    ASSUME TypeOK, OneCaller, LeaseInvariant, TableKnown, NEW c \in Callers, Step(c)
    PROVE  TableKnown'
<1> DEFINE t == th[c]
<1>0. /\ t \in Control /\ (t.pc \in HasJob => t.job \in Jobs)
      /\ alive \ orphans \subseteq attached /\ orphans' = orphans
      /\ t.pc = "boot" \/ t.back = "boot" => t.todo \cap attached = {}
      /\ t.pc = "start" => t.job \in attached
  BY OrphansKept DEF TypeOK, ControlOK, TableKnown
<1>1. phase # "down" /\ phase' # "down"
  <2>1. CASE SweepNext(c) BY <2>1 DEF SweepNext, RequestCancel, TableKnown
  <2> QED BY <2>1
      DEF TableKnown, Step, Attach, Reserve, Drained, Fetch, Start, StartFails, Commit, Kill,
          Presume, Close, SweepDone, BootNext, BootDone
<1>2. /\ Returned(c).pc = t.back /\ Returned(c).back = t.back /\ Returned(c).todo = t.todo
      /\ Dispatching(c).pc = "dispatch" /\ Dispatching(c).back = t.back
      /\ Dispatching(c).todo = t.todo
      /\ Idle.pc = "idle" /\ Idle.back = "idle"
      /\ \A p, b, S : At(p, b, S).pc = p /\ At(p, b, S).back = b /\ At(p, b, S).todo = S
      /\ t.back # "start"
  BY <1>0 DEF Returned, Dispatching, Idle, At, Control
\* A record that stays where it was in its loop, over a table that grows.
<1>3. ASSUME NEW u, Set(c, u), (u.back = t.back /\ u.todo = t.todo) \/ u.back = "idle",
             u.pc = "boot" => u.back = "boot",
             u.pc = "start" => u.job \in attached,
             alive' \subseteq alive \cup attached, attached' = attached
      PROVE  TableKnown'
  BY <1>0, <1>1, <1>3, TableSet
<1>4. CASE Attach(c)
  <2>1. Set(c, At("dispatch", "idle", {})) /\ attached \subseteq attached' /\ alive' = alive
    BY <1>4 DEF Attach
  <2> QED BY <1>0, <1>1, <1>2, <2>1, TableSet
<1>5. CASE Reserve(c)
  <2>1. PICK j \in Jobs : Set(c, [t EXCEPT !.pc = "fetch", !.job = j])
    BY <1>5 DEF Reserve, First, Eligible
  <2> DEFINE u == [t EXCEPT !.pc = "fetch", !.job = j]
  <2>2. Set(c, u) /\ u.pc = "fetch" /\ u.back = t.back /\ u.todo = t.todo
    BY <1>0, <2>1 DEF Control
  <2> HIDE DEF u
  <2> QED BY <1>3, <1>5, <2>2 DEF Reserve
<1>6. CASE Drained(c)
  BY <1>2, <1>3, <1>6 DEF Drained
<1>7. CASE Fetch(c)
  <2> DEFINE u == [t EXCEPT !.pc = "start"]
  <2>1. u.pc = "start" /\ u.back = t.back /\ u.todo = t.todo /\ u.job = t.job
    BY <1>0 DEF Control
  <2>2. (Set(c, u) /\ t.job \in attached) \/ Set(c, Idle) BY <1>7 DEF Fetch, Abort
  <2> HIDE DEF u
  <2> QED BY <1>2, <1>3, <1>7, <2>1, <2>2 DEF Fetch
<1>8. CASE Start(c)
  <2> DEFINE u == [t EXCEPT !.pc = "commit"]
  <2>1. Set(c, u) /\ u.pc = "commit" /\ u.back = t.back /\ u.todo = t.todo
    BY <1>0, <1>8 DEF Control, Start
  <2>2. alive' = alive \cup {t.job} /\ t.job \in attached /\ attached' = attached
    BY <1>0, <1>8 DEF Start
  <2> HIDE DEF u
  <2> QED BY <1>3, <2>1, <2>2
<1>9. CASE StartFails(c)
  <2> DEFINE u == [t EXCEPT !.pc = "kill", !.why = "start_failed"]
  <2>1. Set(c, u) /\ u.pc = "kill" /\ u.back = t.back /\ u.todo = t.todo
    BY <1>0, <1>9 DEF Control, StartFails
  <2>2. alive' \subseteq alive \cup {t.job} /\ t.job \in attached /\ attached' = attached
    BY <1>0, <1>9 DEF StartFails
  <2> HIDE DEF u
  <2> QED BY <1>3, <2>1, <2>2
<1>10. CASE Commit(c)
  <2>1. status[t.job] = "DISPATCHING"
    BY <1>10 DEF Commit, LeaseInvariant, PathAgreesWithRow
  <2> QED BY <1>2, <1>3, <1>10, <2>1 DEF Commit
<1>11. CASE Kill(c) \/ Presume(c)
  <2>1. PICK ok, K : Set(c, [t EXCEPT !.pc = "close", !.confirmed = ok, !.logs = K])
    <3>0. t = [t EXCEPT !.logs = t.logs] BY <1>0 DEF Control
    <3>1. CASE Presume(c) \/ (Kill(c) /\ t.why = "cancel" /\ t.job \notin attached)
      <4>1. PICK ok \in BOOLEAN : Set(c, [t EXCEPT !.pc = "close", !.confirmed = ok])
        BY <3>1 DEF Kill, Presume
      <4>2. Set(c, [t EXCEPT !.pc = "close", !.confirmed = ok, !.logs = t.logs])
        BY <1>0, <4>1 DEF Control
      <4> QED BY <4>2
    <3>2. CASE Kill(c) /\ ~(t.why = "cancel" /\ t.job \notin attached)
      <4>1. PICK ok \in BOOLEAN, M \in SUBSET Logs :
               Set(c, [t EXCEPT !.pc = "close", !.confirmed = ok, !.logs = @ \cup M])
        BY <3>2 DEF Kill
      <4>2. Set(c, [t EXCEPT !.pc = "close", !.confirmed = ok, !.logs = t.logs \cup M])
        BY <4>1
      <4> QED BY <4>2
    <3> QED BY <1>11, <3>1, <3>2
  <2> DEFINE u == [t EXCEPT !.pc = "close", !.confirmed = ok, !.logs = K]
  <2>2. Set(c, u) /\ u.pc = "close" /\ u.back = t.back /\ u.todo = t.todo
    BY <1>0, <2>1 DEF Control
  <2>3. alive' \subseteq alive /\ attached' = attached
    BY <1>11 DEF Kill, Presume, Terminated
  <2> HIDE DEF u
  <2> QED BY <1>3, <2>2, <2>3
<1>12. CASE Close(c)
  <2>1. Set(c, Returned(c)) \/ Set(c, Dispatching(c)) \/ Set(c, Idle)
    BY <1>12 DEF Close, Abort
  <2>2. attached' \subseteq attached /\ alive' = alive
    BY <1>12 DEF Close, Finish, Quarantine
  <2>3. \A j \in attached \ attached' : j \in alive => j \in orphans
    BY <1>12 DEF Close, Finish, Quarantine, LeaseInvariant, PathAgreesWithRow
  <2>4. ASSUME NEW u, Set(c, u), (u.back = t.back /\ u.todo = t.todo) \/ u.back = "idle",
               u.pc = "boot" => u.back = "boot", u.pc # "start"
        PROVE  TableKnown'
    BY <1>0, <1>1, <2>2, <2>3, <2>4, TableSet
  <2> QED BY <1>2, <2>1, <2>4
<1>13. CASE SweepNext(c) \/ SweepDone(c)
  <2>1. ASSUME UNCHANGED <<attached, alive>>, NEW S,
               Set(c, Idle) \/ Set(c, At("sweep", "sweep", S))
        PROVE  TableKnown'
    BY <1>0, <1>1, <1>2, <2>1, TableSet
  <2>2. CASE SweepNext(c)
    <3>1. t.todo \in SUBSET Jobs BY <1>0 DEF Control
    <3>2. PICK j \in Jobs :
             \/ RequestCancel(c, j, {}, At("sweep", "sweep", t.todo \ {j}))
             \/ /\ Set(c, At("sweep", "sweep", t.todo \ {j})) \/ Set(c, Idle)
                /\ UNCHANGED <<attached, alive>>
      BY <2>2, <3>1 DEF SweepNext, First, Abort
    <3> QED BY <1>0, <1>1, <2>1, <3>2, TableCancel
  <2>3. CASE SweepDone(c)
    BY <2>1, <2>3 DEF SweepDone
  <2> QED BY <1>13, <2>2, <2>3
<1>14. CASE BootNext(c)
  <2>1. PICK j \in t.todo, answer \in {"none", "control", "witness"} :
           LET rest == At("boot", "boot", t.todo \ {j})
               w == BootPlan(j, answer)
           IN /\ attached' = IF answer = "none" THEN attached ELSE attached \cup {j}
              /\ Set(c, IF w = None THEN rest
                        ELSE [rest EXCEPT !.pc = IF answer = "none" THEN "close" ELSE "kill",
                                          !.job = j, !.logs = logs[j], !.why = w])
    BY <1>14 DEF BootNext, First, Answers
  <2> DEFINE rest == At("boot", "boot", t.todo \ {j})
             w == BootPlan(j, answer)
             p == IF answer = "none" THEN "close" ELSE "kill"
             u == [rest EXCEPT !.pc = p, !.job = j, !.logs = logs[j], !.why = w]
  <2>2. Set(c, rest) \/ Set(c, u) BY <2>1
  <2>3. rest.pc = "boot" /\ rest.back = "boot" /\ rest.todo = t.todo \ {j} BY DEF At
  <2>4. u.pc = p /\ u.back = "boot" /\ u.todo = t.todo \ {j}
    <3> HIDE DEF p, w
    <3> QED BY DEF At
  <2>5. p # "start" OBVIOUS
  <2>6. (t.todo \ {j}) \cap attached' = {} /\ attached \subseteq attached' /\ alive' = alive
    BY <1>0, <1>14, <2>1 DEF BootNext
  <2> HIDE DEF rest, u, w, p
  <2> QED BY <1>0, <1>1, <2>2, <2>3, <2>4, <2>5, <2>6, TableSet
<1>15. CASE BootDone(c)
  BY <1>2, <1>3, <1>15 DEF BootDone
<1> QED BY <1>4, <1>5, <1>6, <1>7, <1>8, <1>9, <1>10, <1>11, <1>12, <1>13, <1>14, <1>15
        DEF Step

LEMMA TableRequest ==
    ASSUME TypeOK, OneCaller, TableKnown, NEW c \in Callers, Request(c) \/ Restart(c)
    PROVE  TableKnown'
<1>0. /\ alive \ orphans \subseteq attached
      /\ \A p, b, S : At(p, b, S).pc = p /\ At(p, b, S).back = b /\ At(p, b, S).todo = S
  BY DEF TableKnown, At
<1>1. CASE Restart(c)
  <2>1. PICK S : Set(c, At("boot", "boot", S)) BY <1>1 DEF Restart
  <2>2. attached = {} /\ attached' = attached /\ alive' = alive /\ orphans' = orphans /\ phase' = "boot"
    BY <1>1 DEF Restart, TableKnown
  <2> QED BY <1>0, <2>1, <2>2, TableSet
<1>2. ASSUME NEW j \in Jobs, Cancel(c, j) PROVE TableKnown'
  <2>1. orphans' = orphans BY <1>2, OrphansKept DEF Request
  <2> QED BY <1>2, <2>1, TableCancel DEF Cancel, Calling, Idle
<1>3. ASSUME NEW j \in Jobs, RecordPartialLogs(c, j) PROVE TableKnown'
  BY <1>3 DEF RecordPartialLogs, TableKnown
<1>4. ASSUME NEW j \in Jobs, Complete(c, j) PROVE TableKnown'
  <2>1. Dispatching(c).pc = "dispatch" /\ Dispatching(c).back = th[c].back
        /\ Dispatching(c).todo = th[c].todo
    BY <1>0 DEF Dispatching
  <2>2. /\ attached' = attached \ {j} /\ j \notin alive /\ alive' = alive /\ orphans' = orphans
        /\ Set(c, Dispatching(c)) /\ phase' # "down"
    BY <1>4 DEF Complete, Finish, Calling
  <2> QED BY <1>0, <2>1, <2>2, TableSet DEF TableKnown
<1>5. ASSUME Calling(c), NEW u, Set(c, u), u.back # "boot", u.pc \notin {"start", "boot"},
             attached \subseteq attached', UNCHANGED <<alive, orphans, phase>>
      PROVE  TableKnown'
  BY <1>0, <1>5, TableSet DEF Calling
<1>6. CASE Sweep(c)
  <2>1. PICK S : Set(c, At("sweep", "sweep", S)) BY <1>6 DEF Sweep
  <2> QED BY <1>0, <1>5, <1>6, <2>1 DEF Sweep
<1>7. ASSUME NEW j \in Jobs, Submit(c, j) \/ AttachWorker(c, j) PROVE TableKnown'
  <2> DEFINE u == [Idle EXCEPT !.pc = "attach", !.job = j]
  <2>1. u.pc = "attach" /\ u.back = "idle" BY DEF Idle, At
  <2>2. Set(c, u) \/ Set(c, At("dispatch", "idle", {})) BY <1>7 DEF Submit, AttachWorker
  <2> HIDE DEF u
  <2> QED BY <1>0, <1>5, <1>7, <2>1, <2>2 DEF Submit, AttachWorker
<1>8. ASSUME NEW j \in Jobs, ReconcileQuarantined(c, j) PROVE TableKnown'
  <2> DEFINE u == [Idle EXCEPT !.pc = "kill", !.job = j, !.logs = logs[j],
                               !.why = "reconcile"]
  <2>1. u.pc = "kill" /\ u.back = "idle" BY DEF Idle, At
  <2>2. Set(c, u) BY <1>8 DEF ReconcileQuarantined
  <2> HIDE DEF u
  <2> QED BY <1>5, <1>8, <2>1, <2>2 DEF ReconcileQuarantined
<1> QED BY <1>1, <1>2, <1>3, <1>4, <1>6, <1>7, <1>8 DEF Request

\* One caller's path and its job's row agree, and so do rows and workers.
THEOREM LeasesAgree ==
    ASSUME OneCaller
    PROVE  Spec => [](LeaseInvariant /\ TableKnown)
<1>1. Init => LeaseInvariant /\ TableKnown
  BY DEF Init, LeaseInvariant, LeaseCoversWorker, PathAgreesWithRow, TableKnown, Idle, At
<1>2. TypeOK /\ QueueInvariant /\ LeaseInvariant /\ TableKnown /\ [Next]_vars
        => (LeaseInvariant /\ TableKnown)'
  <2> SUFFICES ASSUME TypeOK, QueueInvariant, LeaseInvariant, TableKnown, [Next]_vars
               PROVE  LeaseInvariant' /\ TableKnown'
    OBVIOUS
  <2>1. CASE UNCHANGED vars
    BY <2>1 DEF vars, durable, LeaseInvariant, LeaseCoversWorker, GivenUp, PathAgreesWithRow, TableKnown
  <2>2. CASE Crash
    <3>1. \A c \in Callers : th'[c].pc = "idle" /\ th'[c].back = "idle" BY <2>2 DEF Crash, Idle, At
    <3>2. PathAgreesWithRow' BY <3>1 DEF PathAgreesWithRow
    <3>3. TableKnown' BY <2>2, <3>1 DEF Crash, TableKnown
    <3>4. alive' \subseteq alive /\ status' = status BY <2>2 DEF Crash, durable
    <3>5. LeaseCoversWorker' BY <3>4, LeaseKept DEF LeaseInvariant
    <3> QED BY <3>2, <3>3, <3>5 DEF LeaseInvariant
  <2>3. ASSUME NEW j \in Jobs, WorkerExit(j) PROVE LeaseInvariant' /\ TableKnown'
    <3>1. alive' \subseteq alive /\ status' = status BY <2>3 DEF WorkerExit, durable
    <3>2. LeaseCoversWorker' BY <3>1, LeaseKept DEF LeaseInvariant
    <3>3. PathAgreesWithRow' BY <2>3 DEF WorkerExit, durable, LeaseInvariant, PathAgreesWithRow
    <3>4. TableKnown' BY <2>3 DEF WorkerExit, TableKnown
    <3> QED BY <3>2, <3>3, <3>4 DEF LeaseInvariant
  <2> QED BY <2>1, <2>2, <2>3, LeaseStep, LeaseRequest, TableStep, TableRequest DEF Next
<1> QED BY <1>1, <1>2, TypeCorrect, QueueCorrect, PTL DEF Spec

\* With one calling thread a live worker process belongs to a job in an active
\* status, or has outlived the process that started it and a restart took it for
\* dead: neither a failed start, nor an unconfirmed termination, nor a crash at any
\* point lets a worker escape the accounting of its kind in another way.
THEOREM WorkersAreLeased ==
    ASSUME OneCaller
    PROVE  Spec => []LeaseCoversWorker
<1>1. LeaseInvariant => LeaseCoversWorker BY DEF LeaseInvariant
<1> QED BY <1>1, LeasesAgree, PTL

\* A lease is taken out of quarantine only by a caller that reconciles its job, with
\* a worker that is dead, or by a restart's witness, and then a worker that lives on
\* is one of an earlier process.
THEOREM QuarantineEndsByDeath ==
    ASSUME OneCaller
    PROVE  Spec => QuarantineReleasedByDeath
<1> DEFINE Released(j) ==
      /\ status'[j] = "INFRASTRUCTURE_ERROR"
      /\ j \in alive => /\ j \in orphans
                        /\ \E c \in Callers : th[c].job = j /\ th[c].why = "presumed"
<1>1. TypeOK /\ LeaseInvariant /\ [Next]_vars
        => [\A j \in Jobs : status[j] = "QUARANTINED" /\ status'[j] # "QUARANTINED"
              => Released(j)]_vars
  <2> SUFFICES ASSUME TypeOK, LeaseInvariant, [Next]_vars, NEW j \in Jobs,
                      status[j] = "QUARANTINED", status'[j] # "QUARANTINED"
               PROVE  Released(j)
    OBVIOUS
  <2>1. ASSUME NEW c \in Callers, Close(c)
        PROVE  Released(j)
    <3> DEFINE t == th[c]
    <3>1. t.job \in Jobs /\ t.why \in Why BY <2>1 DEF TypeOK, ControlOK, Close, HasJob
    <3>2. /\ t.confirmed /\ status[t.job] = ExpectedStatus(t.why)
          /\ Move(t.job, FinalStatus(t.why), FinalStatus(t.why)) /\ t.job = j
      BY <2>1, <3>1 DEF Close, Finish, Quarantine, Move, durable, TypeOK
    <3>3. t.why \in {"reconcile", "presumed"} BY <3>1, <3>2 DEF ExpectedStatus, Why
    <3>4. status'[j] = "INFRASTRUCTURE_ERROR" BY <3>2, <3>3 DEF FinalStatus, Move, TypeOK
    <3>5. j \in alive => t.why = "presumed" /\ j \in orphans
      BY <2>1, <3>2 DEF LeaseInvariant, PathAgreesWithRow, Close
    <3> QED BY <3>2, <3>4, <3>5
  <2>2. ASSUME NEW i \in Jobs, NEW s, NEW e, Move(i, s, e), status[i] # "QUARANTINED"
        PROVE  FALSE
    BY <2>2 DEF Move, TypeOK
  <2>3. ASSUME NEW c \in Callers, NEW i \in Jobs, NEW K, NEW t, RequestCancel(c, i, K, t)
        PROVE  FALSE
    BY <2>2, <2>3 DEF RequestCancel
  <2>4. ASSUME NEW c \in Callers, Step(c), ~Close(c) PROVE FALSE
    <3>1. CASE Reserve(c)
      BY <2>2, <3>1 DEF Reserve, First, Eligible, IsHead
    <3>2. CASE Commit(c)
      <4>1. th[c].job \in Jobs BY <3>2 DEF Commit, TypeOK, ControlOK, HasJob
      <4> QED BY <2>2, <3>2, <4>1 DEF Commit, durable
    <3>3. CASE SweepNext(c)
      <4>1. th[c].todo \in SUBSET Jobs BY DEF TypeOK, ControlOK, Control
      <4> QED BY <2>3, <3>3, <4>1 DEF SweepNext, First, durable
    <3> QED BY <2>4, <3>1, <3>2, <3>3
        DEF Step, Attach, Drained, Fetch, Start, StartFails, Kill, Presume, SweepDone, BootNext, BootDone,
            durable
  <2>5. ASSUME NEW c \in Callers, Request(c) PROVE FALSE
    <3>1. ASSUME NEW i \in Jobs, Submit(c, i) PROVE FALSE
      BY <3>1 DEF Submit, TypeOK
    <3>2. ASSUME NEW i \in Jobs, Complete(c, i) PROVE FALSE
      BY <2>2, <3>2 DEF Complete, Finish
    <3>3. ASSUME NEW i \in Jobs, Cancel(c, i) PROVE FALSE
      BY <2>3, <3>3 DEF Cancel
    <3> QED BY <2>5, <3>1, <3>2, <3>3
        DEF Request, Sweep, AttachWorker, RecordPartialLogs, ReconcileQuarantined, durable
  <2> QED BY <2>1, <2>4, <2>5 DEF Next, Restart, Crash, WorkerExit, vars, durable
<1> QED BY <1>1, TypeCorrect, LeasesAgree, PTL DEF Spec, QuarantineReleasedByDeath, Released

-----------------------------------------------------------------------------
(* One caller: nothing that could be dispatched is left waiting *)

WakeupInvariant ==
    \A c \in Callers :
        /\ th[c].pc = "boot" \/ th[c].back = "boot" => phase # "up"
        /\ phase = "up" /\ th[c].pc \in {"idle", "sweep"} => Eligible = {}
        /\ /\ phase = "up" /\ th[c].pc \in {"kill", "close"} /\ th[c].why # "start_failed"
           /\ th[c].pc = "close" => ~th[c].confirmed
           => Eligible = {}
        /\ th[c].pc \in {"kill", "close"} /\ th[c].why \in {"interrupted", "resume_cancellation"}
              => phase # "up"
        /\ th[c].pc = "fetch" => th[c].job \in attached

\* What the next control record has to promise.
Promise(t, up, eligible, table) ==
    /\ t.pc = "boot" \/ t.back = "boot" => ~up
    /\ up /\ t.pc \in {"idle", "sweep"} => eligible = {}
    /\ /\ up /\ t.pc \in {"kill", "close"} /\ t.why # "start_failed"
       /\ t.pc = "close" => ~t.confirmed
       => eligible = {}
    /\ t.pc \in {"kill", "close"} /\ t.why \in {"interrupted", "resume_cancellation"} => ~up
    /\ t.pc = "fetch" => t.job \in table

LEMMA Promised ==
    ASSUME TypeOK, OneCaller, NEW c \in Callers, NEW t, Set(c, t),
           Promise(t, phase' = "up", Eligible', attached')
    PROVE  WakeupInvariant'
<1>1. \A d \in Callers : th'[d] = t BY OnlyCaller
<1> QED BY <1>1 DEF WakeupInvariant, Promise

\* Rows that stay active, and workers of jobs that do not wait, change nothing
\* for the dispatcher.
LEMMA SameEligible ==
    ASSUME TypeOK, submitIndex' = submitIndex,
           \A j \in Jobs : \/ status'[j] = status[j]
                           \/ status[j] \in Active /\ status'[j] \in Active,
           attached \subseteq attached',
           \A j \in attached' \ attached : status[j] # "QUEUED"
    PROVE  Eligible' = Eligible
<1>1. \A k : ActiveOf(k)' = ActiveOf(k) BY DEF ActiveOf
<1>2. \A j \in Jobs : Fits(j)' <=> Fits(j) BY <1>1 DEF Fits
<1>3. \A j \in Jobs : status'[j] = "QUEUED" <=> status[j] = "QUEUED" BY DEF Active
<1>4. \A j \in Jobs : IsHead(j)' <=> IsHead(j) BY <1>3 DEF IsHead
<1>5. \A j \in Jobs : IsHead(j) => (j \in attached' <=> j \in attached) BY DEF IsHead
<1> QED BY <1>2, <1>4, <1>5 DEF Eligible

LEMMA CancelWakes ==
    ASSUME TypeOK, OneCaller, WakeupInvariant, NEW c \in Callers, NEW j \in Jobs,
           NEW K \in SUBSET Logs, NEW p, NEW b, NEW S,
           RequestCancel(c, j, K, At(p, b, S)), b # "boot", phase = "up" => Eligible = {}
    PROVE  WakeupInvariant'
<1> DEFINE q == IF status[j] = "QUEUED" THEN "close" ELSE "kill"
           ok == (status[j] = "QUEUED")
           u == [At(p, b, S) EXCEPT !.pc = q, !.job = j, !.logs = logs[j] \cup K,
                                    !.why = "cancel", !.confirmed = ok]
<1>1. u.pc = q /\ u.job = j /\ u.why = "cancel" /\ u.confirmed = ok /\ u.back = b
  <2> HIDE DEF q, ok
  <2> QED BY DEF At
<1>2. Set(c, u) /\ phase' = phase BY DEF RequestCancel
<1>3. q \in {"kill", "close"} /\ (q = "close" <=> ok) OBVIOUS
<1>4. ~ok => Eligible' = Eligible
  BY SameEligible DEF RequestCancel, Move, TypeOK, Nonterminal, Active
<1> HIDE DEF u, q, ok
<1>5. Promise(u, phase' = "up", Eligible', attached')
  BY <1>1, <1>2, <1>3, <1>4 DEF Promise
<1> QED BY <1>2, <1>5, Promised

LEMMA BootWakes ==
    ASSUME TypeOK, OneCaller, WakeupInvariant, NEW c \in Callers, BootNext(c)
    PROVE  WakeupInvariant'
<1>0. th[c].pc = "boot" /\ phase # "up" /\ phase' = phase BY DEF BootNext, WakeupInvariant
<1>2. PICK j \in First(th[c].todo), answer \in {"none", "control", "witness"} :
         LET rest == At("boot", "boot", th[c].todo \ {j})
             w == BootPlan(j, answer)
         IN Set(c, IF w = None THEN rest
                   ELSE [rest EXCEPT !.pc = IF answer = "none" THEN "close" ELSE "kill",
                                     !.job = j, !.logs = logs[j], !.why = w])
  BY DEF BootNext, Answers
<1> DEFINE rest == At("boot", "boot", th[c].todo \ {j})
           w == BootPlan(j, answer)
           p == IF answer = "none" THEN "close" ELSE "kill"
           u == [rest EXCEPT !.pc = p, !.job = j, !.logs = logs[j], !.why = w]
<1>4. (w = None /\ Set(c, rest)) \/ (w # None /\ Set(c, u)) BY <1>2
<1>5. rest.pc = "boot" BY DEF At
<1>7. u.pc = p
  <2> HIDE DEF p, w
  <2> QED BY DEF At
<1>8. p \in {"kill", "close"} OBVIOUS
<1> HIDE DEF rest, u, w, p
<1>9. /\ Promise(rest, phase' = "up", Eligible', attached')
      /\ Promise(u, phase' = "up", Eligible', attached')
  BY <1>0, <1>5, <1>7, <1>8 DEF Promise
<1> QED BY <1>4, <1>9, Promised

LEMMA ClosingWakes ==
    ASSUME TypeOK, OneCaller, LeaseInvariant, WakeupInvariant, NEW c \in Callers,
           Kill(c) \/ Presume(c) \/ Close(c)
    PROVE  WakeupInvariant'
<1> DEFINE t == th[c]
<1>0. /\ t \in Control /\ t.job \in Jobs /\ t.why \in Why /\ phase' = phase
      /\ status[t.job] = ExpectedStatus(t.why) /\ status[t.job] \in Active
      /\ t.back = "boot" => phase # "up"
      /\ t.why \in {"interrupted", "resume_cancellation"} => phase # "up"
      /\ /\ phase = "up" /\ t.why # "start_failed"
         /\ t.pc = "close" => ~t.confirmed
         => Eligible = {}
  <2>1. t.pc \in {"kill", "close"} BY DEF Kill, Presume, Close
  <2>2. t.why \in Why BY <2>1 DEF TypeOK, ControlOK
  <2> QED BY <2>1, <2>2, ExpectedStatusType
      DEF TypeOK, ControlOK, HasJob, LeaseInvariant, PathAgreesWithRow, WakeupInvariant,
          Kill, Presume, Close
<1>1. CASE Kill(c) \/ Presume(c)
  <2>1. PICK ok, K :
          Set(c, [t EXCEPT !.pc = "close", !.confirmed = ok, !.logs = K])
    <3>1. CASE Presume(c) \/ (t.why = "cancel" /\ t.job \notin attached)
      <4>1. PICK ok \in BOOLEAN : Set(c, [t EXCEPT !.pc = "close", !.confirmed = ok])
        BY <1>1, <3>1 DEF Kill, Presume
      <4>2. Set(c, [t EXCEPT !.pc = "close", !.confirmed = ok, !.logs = t.logs])
        BY <1>0, <4>1 DEF Control
      <4> QED BY <4>2
    <3>2. CASE ~Presume(c) /\ ~(t.why = "cancel" /\ t.job \notin attached)
      <4>1. PICK ok \in BOOLEAN, M \in SUBSET Logs :
               Set(c, [t EXCEPT !.pc = "close", !.confirmed = ok, !.logs = @ \cup M])
        BY <1>1, <3>2 DEF Kill
      <4>2. Set(c, [t EXCEPT !.pc = "close", !.confirmed = ok, !.logs = t.logs \cup M])
        BY <4>1
      <4> QED BY <4>2
    <3> QED BY <3>1, <3>2
  <2> DEFINE u == [t EXCEPT !.pc = "close", !.confirmed = ok, !.logs = K]
  <2>2. /\ u.pc = "close" /\ u.why = t.why /\ u.back = t.back
    BY <1>0 DEF Control
  <2>3. Set(c, u) BY <2>1
  <2>4. Eligible' = Eligible /\ t.pc = "kill" BY <1>1, SameEligible DEF Kill, Presume, durable
  <2> HIDE DEF u
  <2>5. Promise(u, phase' = "up", Eligible', attached')
    BY <1>0, <2>2, <2>4 DEF Promise
  <2> QED BY <2>3, <2>5, Promised
<1>2. CASE Close(c)
  <2>1. /\ Returned(c).pc = t.back /\ Returned(c).back = t.back
        /\ Dispatching(c).pc = "dispatch" /\ Dispatching(c).back = t.back
        /\ t.back \in {"idle", "sweep", "boot"} /\ t.pc = "close"
    BY <1>0, <1>2 DEF Returned, Dispatching, At, Control, Close
  <2>2. Promise(Dispatching(c), phase' = "up", Eligible', attached')
    BY <1>0, <2>1 DEF Promise
  <2>3. CASE t.confirmed
    <3>1. \/ Set(c, Dispatching(c))
          \/ t.why \in {"interrupted", "resume_cancellation"} /\ Set(c, Returned(c))
      BY <1>0, <1>2, <2>3 DEF Close
    <3>2. t.why \in {"interrupted", "resume_cancellation"}
             => Promise(Returned(c), phase' = "up", Eligible', attached')
      BY <1>0, <2>1 DEF Promise
    <3> QED BY <2>2, <3>1, <3>2, Promised
  <2>4. CASE ~t.confirmed
    <3>1. /\ Quarantine(t.job, t.logs)
          /\ \/ Set(c, Dispatching(c))
             \/ t.why # "start_failed" /\ Set(c, Returned(c))
      BY <1>0, <1>2, <2>4 DEF Close
    <3>2. Eligible' = Eligible
      BY <1>0, <3>1, SameEligible DEF Quarantine, Move, TypeOK, Active
    <3>3. t.why # "start_failed" => Promise(Returned(c), phase' = "up", Eligible', attached')
      BY <1>0, <2>1, <2>4, <3>2 DEF Promise
    <3> QED BY <2>2, <3>1, <3>3, Promised
  <2> QED BY <2>3, <2>4
<1> QED BY <1>1, <1>2

LEMMA StepWakes ==
    ASSUME TypeOK, OneCaller, LeaseInvariant, WakeupInvariant, NEW c \in Callers, Step(c)
    PROVE  WakeupInvariant'
<1> DEFINE t == th[c]
<1>0. /\ t \in Control /\ (t.pc \in HasJob => t.job \in Jobs)
      /\ (t.pc = "boot" \/ t.back = "boot" => phase # "up")
      /\ (t.pc \in {"fetch", "start", "commit"} => status[t.job] = "DISPATCHING")
      /\ t.back \in {"idle", "sweep", "boot"}
  BY DEF TypeOK, ControlOK, LeaseInvariant, PathAgreesWithRow, WakeupInvariant, Control
<1>1. /\ Returned(c).pc = t.back /\ Returned(c).back = t.back
      /\ Dispatching(c).pc = "dispatch" /\ Dispatching(c).back = t.back
      /\ At("dispatch", "idle", {}).pc = "dispatch" /\ At("dispatch", "idle", {}).back = "idle"
  BY DEF Returned, Dispatching, At
<1>2. CASE Attach(c) \/ BootDone(c)
  <2>1. Set(c, At("dispatch", "idle", {})) BY <1>2 DEF Attach, BootDone
  <2>2. Promise(At("dispatch", "idle", {}), phase' = "up", Eligible', attached')
    BY <1>1 DEF Promise
  <2> QED BY <2>1, <2>2, Promised
<1>3. CASE Reserve(c)
  <2>1. PICK j \in attached : Set(c, [t EXCEPT !.pc = "fetch", !.job = j])
    BY <1>3 DEF Reserve, First, Eligible
  <2> DEFINE u == [t EXCEPT !.pc = "fetch", !.job = j]
  <2>2. u.pc = "fetch" /\ u.job = j /\ u.back = t.back BY <1>0 DEF Control
  <2>3. phase' = phase /\ attached' = attached BY <1>3 DEF Reserve
  <2>4. Set(c, u) BY <2>1
  <2> HIDE DEF u
  <2>5. Promise(u, phase' = "up", Eligible', attached')
    BY <1>0, <2>1, <2>2, <2>3 DEF Promise
  <2> QED BY <2>4, <2>5, Promised
<1>4. CASE Drained(c)
  <2>1. Eligible = {} /\ Set(c, Returned(c)) BY <1>4 DEF Drained
  <2>2. Eligible' = Eligible BY <1>4, SameEligible DEF Drained, durable
  <2>3. t.back # "idle" => phase' = phase BY <1>4 DEF Drained
  <2>4. Promise(Returned(c), phase' = "up", Eligible', attached')
    BY <1>0, <1>1, <2>1, <2>2, <2>3 DEF Promise
  <2> QED BY <2>1, <2>4, Promised
<1>5. CASE Fetch(c)
  <2> DEFINE u == [t EXCEPT !.pc = "start"]
  <2>1. u.pc = "start" /\ u.back = t.back BY <1>0 DEF Control
  <2>2. t.job \in attached BY <1>5 DEF Fetch, WakeupInvariant
  <2>3. Set(c, u) /\ phase' = phase BY <1>5, <2>2 DEF Fetch
  <2> HIDE DEF u
  <2>4. Promise(u, phase' = "up", Eligible', attached') BY <1>0, <2>1, <2>3 DEF Promise
  <2> QED BY <2>3, <2>4, Promised
<1>6. CASE Start(c)
  <2> DEFINE u == [t EXCEPT !.pc = "commit"]
  <2>1. u.pc = "commit" /\ u.back = t.back BY <1>0 DEF Control
  <2>3. Set(c, u) /\ phase' = phase BY <1>6 DEF Start
  <2> HIDE DEF u
  <2>4. Promise(u, phase' = "up", Eligible', attached') BY <1>0, <2>1, <2>3 DEF Promise
  <2> QED BY <2>3, <2>4, Promised
<1>7. CASE StartFails(c)
  <2> DEFINE u == [t EXCEPT !.pc = "kill", !.why = "start_failed"]
  <2>1. u.pc = "kill" /\ u.why = "start_failed" /\ u.back = t.back BY <1>0 DEF Control
  <2>3. Set(c, u) /\ phase' = phase BY <1>7 DEF StartFails
  <2> HIDE DEF u
  <2>4. Promise(u, phase' = "up", Eligible', attached') BY <1>0, <2>1, <2>3 DEF Promise
  <2> QED BY <2>3, <2>4, Promised
<1>8. CASE Commit(c)
  <2>1. status[t.job] = "DISPATCHING" BY <1>0, <1>8 DEF Commit
  <2>2. Set(c, Dispatching(c)) /\ phase' = phase BY <1>8, <2>1 DEF Commit
  <2>3. Promise(Dispatching(c), phase' = "up", Eligible', attached')
    BY <1>0, <1>1, <2>2 DEF Promise
  <2> QED BY <2>2, <2>3, Promised
<1>9. CASE Kill(c) \/ Presume(c) \/ Close(c)
  BY <1>9, ClosingWakes
<1>10. CASE SweepNext(c) \/ SweepDone(c)
  <2> DEFINE rest(j) == At("sweep", "sweep", t.todo \ {j})
  <2>0. /\ phase = "up" => Eligible = {}
        /\ \A j : rest(j).pc = "sweep" /\ rest(j).back = "sweep"
        /\ Idle.pc = "idle" /\ Idle.back = "idle"
    BY <1>10 DEF SweepNext, SweepDone, WakeupInvariant, At, Idle
  <2>1. CASE /\ Abort(c) \/ \E j \in Jobs : Set(c, rest(j))
             /\ UNCHANGED <<durable, attached, phase, alive, orphans, crashes>>
    <3>1. Eligible' = Eligible /\ phase' = phase BY <2>1, SameEligible DEF durable
    <3> HIDE DEF rest
    <3>2. \A u : u.pc \in {"idle", "sweep"} /\ u.back \in {"idle", "sweep"}
                    => Promise(u, phase' = "up", Eligible', attached')
      BY <2>0, <3>1 DEF Promise
    <3>3. Promise(Idle, phase' = "up", Eligible', attached') BY <2>0, <3>2
    <3>4. \A j \in Jobs : Promise(rest(j), phase' = "up", Eligible', attached') BY <2>0, <3>2
    <3> QED BY <2>1, <3>3, <3>4, Promised DEF Abort
  <2>2. ASSUME NEW j \in Jobs, RequestCancel(c, j, {}, rest(j)) PROVE WakeupInvariant'
    BY <2>0, <2>2, CancelWakes
  <2> QED BY <1>0, <1>10, <2>1, <2>2 DEF SweepNext, SweepDone, First, Control, Abort
<1>11. CASE BootNext(c)
  BY <1>11, BootWakes
<1> QED BY <1>2, <1>3, <1>4, <1>5, <1>6, <1>7, <1>8, <1>9, <1>10, <1>11 DEF Step

LEMMA RequestWakes ==
    ASSUME TypeOK, OneCaller, WakeupInvariant, NEW c \in Callers, Request(c) \/ Restart(c)
    PROVE  WakeupInvariant'
<1>0. Calling(c) => Eligible = {} /\ phase = "up"
  BY DEF Calling, WakeupInvariant
<1>1. ASSUME NEW u, Set(c, u), u.pc \in {"attach", "dispatch"}, u.back = "idle"
      PROVE  WakeupInvariant'
  <2>1. Promise(u, phase' = "up", Eligible', attached') BY <1>1 DEF Promise
  <2> QED BY <1>1, <2>1, Promised
<1>2. /\ At("dispatch", "idle", {}).pc = "dispatch" /\ At("dispatch", "idle", {}).back = "idle"
      /\ \A j : LET u == [Idle EXCEPT !.pc = "attach", !.job = j]
                IN u.pc = "attach" /\ u.back = "idle"
  BY DEF At, Idle
<1>3. ASSUME NEW j \in Jobs, Submit(c, j) \/ AttachWorker(c, j) PROVE WakeupInvariant'
  BY <1>1, <1>2, <1>3 DEF Submit, AttachWorker
<1>4. ASSUME NEW j \in Jobs, Complete(c, j) PROVE WakeupInvariant'
  <2>1. Set(c, Dispatching(c)) /\ phase = "up" /\ phase' = phase
    BY <1>4 DEF Complete, Calling
  <2>2. Dispatching(c).pc = "dispatch" /\ Dispatching(c).back = th[c].back
    BY DEF Dispatching, At
  <2>3. th[c].back # "boot" BY <2>1 DEF WakeupInvariant
  <2>4. Promise(Dispatching(c), phase' = "up", Eligible', attached')
    BY <2>2, <2>3 DEF Promise
  <2> QED BY <2>1, <2>4, Promised
<1>5. ASSUME NEW j \in Jobs, Cancel(c, j) PROVE WakeupInvariant'
  BY <1>0, <1>5, CancelWakes DEF Cancel, Idle
<1>6. ASSUME NEW j \in Jobs, RecordPartialLogs(c, j) PROVE WakeupInvariant'
  <2>1. Eligible' = Eligible BY <1>6, SameEligible DEF RecordPartialLogs
  <2> QED BY <1>6, <2>1 DEF RecordPartialLogs, WakeupInvariant
<1>7. ASSUME NEW j \in Jobs, ReconcileQuarantined(c, j) PROVE WakeupInvariant'
  <2> DEFINE u == [Idle EXCEPT !.pc = "kill", !.job = j, !.logs = logs[j],
                               !.why = "reconcile"]
  <2>1. u.pc = "kill" /\ u.back = "idle" /\ u.why = "reconcile" BY DEF Idle, At
  <2>2. Set(c, u) BY <1>7 DEF ReconcileQuarantined
  <2>3. Eligible' = Eligible
    BY <1>7, SameEligible DEF ReconcileQuarantined, durable
  <2>4. Eligible = {} BY <1>0, <1>7 DEF ReconcileQuarantined
  <2> HIDE DEF u
  <2>5. Promise(u, phase' = "up", Eligible', attached') BY <2>1, <2>3, <2>4 DEF Promise
  <2> QED BY <2>2, <2>5, Promised
<1>8. CASE Sweep(c)
  <2>1. PICK S : Set(c, At("sweep", "sweep", S)) BY <1>8 DEF Sweep
  <2>2. Eligible' = Eligible BY <1>8, SameEligible DEF Sweep, durable
  <2>3. Eligible = {} BY <1>0, <1>8 DEF Sweep
  <2>4. Promise(At("sweep", "sweep", S), phase' = "up", Eligible', attached')
    BY <2>2, <2>3 DEF Promise, At
  <2> QED BY <2>1, <2>4, Promised
<1>9. CASE Restart(c)
  <2>1. PICK S : Set(c, At("boot", "boot", S)) BY <1>9 DEF Restart
  <2>2. Promise(At("boot", "boot", S), phase' = "up", Eligible', attached')
    BY <1>9 DEF Promise, At, Restart
  <2> QED BY <2>1, <2>2, Promised
<1> QED BY <1>3, <1>4, <1>5, <1>6, <1>7, <1>8, <1>9 DEF Request

\* With one calling thread, when no call is in progress nothing that could be
\* dispatched is waiting: every path that gives a lease back, or enters a
\* worker, goes through a dispatch before it returns to its caller.
THEOREM WakeupNotLost ==
    ASSUME OneCaller
    PROVE  Spec => []NoLostWakeup
<1>1. Init => WakeupInvariant
  BY DEF Init, WakeupInvariant, Idle, At
<1>2. TypeOK /\ LeaseInvariant /\ WakeupInvariant /\ [Next]_vars => WakeupInvariant'
  <2> SUFFICES ASSUME TypeOK, LeaseInvariant, WakeupInvariant, [Next]_vars
               PROVE  WakeupInvariant'
    OBVIOUS
  <2>1. CASE UNCHANGED <<durable, th, phase, attached>>
    <3>1. Eligible' = Eligible BY <2>1, SameEligible DEF durable
    <3> QED BY <2>1, <3>1 DEF WakeupInvariant
  <2>2. CASE Crash
    <3>1. \A d \in Callers : th'[d].pc = "idle" BY <2>2 DEF Crash, Idle, At
    <3>2. phase' = "down" BY <2>2 DEF Crash
    <3> QED BY <3>1, <3>2 DEF WakeupInvariant
  <2>3. ASSUME NEW j \in Jobs, WorkerExit(j) PROVE WakeupInvariant'
    BY <2>1, <2>3 DEF WorkerExit
  <2> QED BY <2>1, <2>2, <2>3, StepWakes, RequestWakes DEF Next, vars
<1>3. CASE Callers # {}
  <2>1. WakeupInvariant => NoLostWakeup BY <1>3 DEF WakeupInvariant, NoLostWakeup
  <2> QED BY <1>1, <1>2, <2>1, TypeCorrect, LeasesAgree, PTL DEF Spec
<1>4. CASE Callers = {}
  <2> DEFINE Down == phase = "down"
  <2>1. Init => Down BY DEF Init
  <2>2. Down /\ [Next]_vars => Down' BY <1>4 DEF Next, Crash, WorkerExit, vars
  <2>3. Down => NoLostWakeup BY DEF NoLostWakeup
  <2> HIDE DEF Down
  <2> QED BY <2>1, <2>2, <2>3, PTL DEF Spec
<1> QED BY <1>3, <1>4
=============================================================================
