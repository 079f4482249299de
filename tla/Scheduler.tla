------------------------------ MODULE Scheduler ------------------------------
(***************************************************************************)
(* orchestrator/scheduler.py: BoundedScheduler, the durable job queue that *)
(* every EDA tool job of NOVA-RTL runs through.                            *)
(*                                                                         *)
(* Jobs, their order, their logs and their journal live in SQLite and      *)
(* survive a crash; every transaction of the code (BEGIN IMMEDIATE ...     *)
(* COMMIT) is one atomic step here.  The worker table (self._workers) and  *)
(* the callers' control state live in the process and are lost by a crash. *)
(* Worker processes live outside (they have a session of their own) and    *)
(* may outlive the scheduler process.  A public method is therefore a      *)
(* chain of steps, one per transaction or call into a worker, and the      *)
(* chains of different callers interleave.                                 *)
(***************************************************************************)
EXTENDS Naturals, Sequences, FiniteSets, FiniteSetsExt

CONSTANTS
    Jobs, Kinds, Runs,  \* the jobs ever requested, JobKind, the run ids
    Callers,            \* threads that call the public methods
    Logs,               \* partial log artifacts a worker may hand over
    KindOf, RunOf,      \* JobRequest.kind, JobRequest.run_id
    Demand,             \* the numeric fields of JobRequest
    Limits,             \* SchedulerPolicy.kind_limits
    MaxCandidates, MaxTokens, MaxRetryDepth,
    StartMayFail,       \* jobs whose worker.start() may raise
    KillMayFail,        \* jobs whose terminate_and_wait() may not confirm
    MaxCrashes,         \* bound: crashes of the scheduler process
    MaxAttempts,        \* bound: cancellations, and reconciliations, of a job
    None

Amounts == {"cpu_cores", "memory_bytes", "wall_time_ms", "candidate_cost",
            "token_cost", "retry_depth"}

\* JobKindLimits and SchedulerPolicy demand positive limits.
ASSUME PolicyAssumption ==
    /\ Limits \in [Kinds -> [{"max_concurrency", "cpu_cores", "memory_bytes",
                              "wall_time_ms"} -> Nat \ {0}]]
    /\ MaxCandidates \in Nat \ {0} /\ MaxTokens \in Nat \ {0}
    /\ MaxRetryDepth \in Nat

ASSUME RequestAssumption ==
    /\ IsFiniteSet(Jobs)
    /\ KindOf \in [Jobs -> Kinds] /\ RunOf \in [Jobs -> Runs]
    /\ Demand \in [Jobs -> [Amounts -> Nat]]
    /\ None \notin Jobs

ASSUME BoundAssumption ==
    /\ StartMayFail \subseteq Jobs /\ KillMayFail \subseteq Jobs
    /\ MaxCrashes \in Nat /\ MaxAttempts \in Nat

VARIABLES
    status,       \* job -> scheduler_jobs.status, "ABSENT" when there is no row
    submitIndex,  \* job -> scheduler_jobs.submit_index
    nextIndex,    \* the AUTOINCREMENT counter behind it
    logs,         \* job -> scheduler_jobs.partial_logs_json
    events,       \* job -> its rows of scheduler_job_events, in order
    attached,     \* the keys of self._workers
    th,           \* caller -> where it is in the method it is executing
    phase,        \* the scheduler process: "down", "boot" (in __init__), "up"
    alive,        \* jobs with a live worker process
    orphans,      \* the ones of them that have outlived the scheduler process
                  \* which started them
    crashes

durable == <<status, submitIndex, nextIndex, logs, events>>
vars == <<durable, attached, th, phase, alive, orphans, crashes>>

Active == {"DISPATCHING", "RUNNING", "CANCELLING", "QUARANTINED"}
Nonterminal == {"QUEUED"} \cup Active
Terminal == {"COMPLETED", "CANCELLED", "INFRASTRUCTURE_ERROR"}
JobStatus == Nonterminal \cup Terminal
EventType == (JobStatus \ {"CANCELLING"}) \cup {"CANCELLATION_REQUESTED"}

-----------------------------------------------------------------------------
(* A caller's control state.  "back" is where the method that is running   *)
(* returns to: its caller, the loop of enforce_deadlines, or the loop of   *)
(* _reconcile_nonterminal.  "why" says which code path is closing a job.   *)

Why == {"start_failed", "interrupted", "cancel", "resume_cancellation",
        "lost", "reconcile", "presumed"}

At(pc, back, todo) ==
    [pc |-> pc, back |-> back, todo |-> todo,
     job |-> None, logs |-> {}, confirmed |-> FALSE, why |-> None]

Idle == At("idle", "idle", {})

\* The status each path passes to _finish or _quarantine as expected_status,
ExpectedStatus(w) ==
    CASE w \in {"start_failed", "interrupted"} -> "DISPATCHING"
      [] w \in {"cancel", "resume_cancellation"} -> "CANCELLING"
      [] w = "lost" -> "RUNNING"
      [] w \in {"reconcile", "presumed"} -> "QUARANTINED"

\* and the terminal status it asks for once told that the worker is dead.
FinalStatus(w) == IF w \in {"cancel", "resume_cancellation"}
                  THEN "CANCELLED" ELSE "INFRASTRUCTURE_ERROR"

Set(c, t) == th' = [th EXCEPT ![c] = t]

Returned(c) == At(th[c].back, th[c].back, th[c].todo)

Dispatching(c) == At("dispatch", th[c].back, th[c].todo)

\* An exception leaves every loop the caller is in.
Abort(c) == Set(c, Idle)

-----------------------------------------------------------------------------
Submitted == {j \in Jobs : status[j] # "ABSENT"}

Total(amount, S) == MapThenSumSet(LAMBDA j : Demand[j][amount], S)

\* _consumed_on_connection: every row of the run counts, whatever its status.
Consumed(r, amount) == Total(amount, {j \in Submitted : RunOf[j] = r})

ActiveOf(k) == {j \in Jobs : status[j] \in Active /\ KindOf[j] = k}

Fits(j) ==
    LET k == KindOf[j] IN
    /\ Cardinality(ActiveOf(k)) < Limits[k]["max_concurrency"]
    /\ Total("cpu_cores", ActiveOf(k)) + Demand[j]["cpu_cores"]
          <= Limits[k]["cpu_cores"]
    /\ Total("memory_bytes", ActiveOf(k)) + Demand[j]["memory_bytes"]
          <= Limits[k]["memory_bytes"]

\* Faulty variant: a job without a worker does not hold its kind back.
IsHeadAmongAttached(j) ==
    /\ status[j] = "QUEUED"
    /\ \A i \in attached : status[i] = "QUEUED" /\ KindOf[i] = KindOf[j]
                               => submitIndex[j] <= submitIndex[i]

\* A head without a worker, or one that does not fit, blocks its whole kind.
IsHead(j) == /\ status[j] = "QUEUED"
             /\ \A i \in Jobs : status[i] = "QUEUED" /\ KindOf[i] = KindOf[j]
                                   => submitIndex[j] <= submitIndex[i]

Eligible == {j \in Jobs : IsHead(j) /\ j \in attached /\ Fits(j)}

\* _validate_request, for a deadline that leaves room for the wall time.
Admissible(j) ==
    LET lim == Limits[KindOf[j]] IN
    /\ \A a \in {"cpu_cores", "memory_bytes", "wall_time_ms"} :
          Demand[j][a] > 0 /\ Demand[j][a] <= lim[a]
    /\ Demand[j]["retry_depth"] <= MaxRetryDepth

\* Faulty variant: a finished job gives its share of the budget back.
RefundedBudget(j) ==
    LET open == {i \in Jobs : status[i] \in Nonterminal /\ RunOf[i] = RunOf[j]} IN
    Total("token_cost", open) + Demand[j]["token_cost"] <= MaxTokens

WithinRunBudget(j) ==
    /\ Consumed(RunOf[j], "candidate_cost") + Demand[j]["candidate_cost"]
          <= MaxCandidates
    /\ Consumed(RunOf[j], "token_cost") + Demand[j]["token_cost"] <= MaxTokens

\* ORDER BY submit_index: indices are unique, so this has one element.
First(S) == {j \in S : \A i \in S : submitIndex[j] <= submitIndex[i]}

Move(j, s, e) == /\ status' = [status EXCEPT ![j] = s]
                 /\ events' = [events EXCEPT ![j] = Append(@, e)]
                 /\ UNCHANGED <<submitIndex, nextIndex>>

-----------------------------------------------------------------------------
Init ==
    /\ status = [j \in Jobs |-> "ABSENT"]
    /\ submitIndex = [j \in Jobs |-> 0]
    /\ nextIndex = 1
    /\ logs = [j \in Jobs |-> {}]
    /\ events = [j \in Jobs |-> <<>>]
    /\ attached = {}
    /\ th = [c \in Callers |-> Idle]
    /\ phase = "down"
    /\ alive = {} /\ orphans = {}
    /\ crashes = 0

Calling(c) == phase = "up" /\ th[c].pc = "idle"

\* submit(): the worker of the request, if it carries one, is entered in the
\* table only after the transaction.
Submit(c, j) ==
    /\ Calling(c)
    /\ status[j] = "ABSENT" /\ Admissible(j) /\ WithinRunBudget(j)
    /\ status' = [status EXCEPT ![j] = "QUEUED"]
    /\ events' = [events EXCEPT ![j] = Append(@, "QUEUED")]
    /\ submitIndex' = [submitIndex EXCEPT ![j] = nextIndex]
    /\ nextIndex' = nextIndex + 1
    /\ \/ Set(c, [Idle EXCEPT !.pc = "attach", !.job = j])
       \/ Set(c, At("dispatch", "idle", {}))
    /\ UNCHANGED <<logs, attached, phase, alive, orphans, crashes>>

\* attach_worker(): the status is read first, the table written afterwards.
AttachWorker(c, j) ==
    /\ Calling(c)
    /\ status[j] = "QUEUED"
    /\ Set(c, [Idle EXCEPT !.pc = "attach", !.job = j])
    /\ UNCHANGED <<durable, attached, phase, alive, orphans, crashes>>

Attach(c) ==
    /\ th[c].pc = "attach"
    /\ attached' = attached \cup {th[c].job}
    /\ Set(c, At("dispatch", "idle", {}))
    /\ UNCHANGED <<durable, phase, alive, orphans, crashes>>

-----------------------------------------------------------------------------
(* dispatch(): reserve a head, start its worker, commit RUNNING, repeat.   *)

Reserve(c) ==
    /\ th[c].pc = "dispatch"
    /\ \E j \in First(Eligible) :
          /\ Move(j, "DISPATCHING", "DISPATCHING")
          /\ Set(c, [th[c] EXCEPT !.pc = "fetch", !.job = j])
    /\ UNCHANGED <<logs, attached, phase, alive, orphans, crashes>>

\* The constructor's last act is a dispatch: when it returns the scheduler is up.
Drained(c) ==
    /\ th[c].pc = "dispatch" /\ Eligible = {}
    /\ Set(c, Returned(c))
    /\ phase' = IF th[c].back = "idle" THEN "up" ELSE phase
    /\ UNCHANGED <<durable, attached, alive, orphans, crashes>>

\* self._workers[record.job_id] raises KeyError when another caller has
\* finished the job in the meantime.
Fetch(c) ==
    /\ th[c].pc = "fetch"
    /\ IF th[c].job \in attached
       THEN Set(c, [th[c] EXCEPT !.pc = "start"])
       ELSE Abort(c)
    /\ UNCHANGED <<durable, attached, phase, alive, orphans, crashes>>

Start(c) ==
    /\ th[c].pc = "start"
    /\ alive' = alive \cup {th[c].job}
    /\ Set(c, [th[c] EXCEPT !.pc = "commit"])
    /\ UNCHANGED <<durable, attached, phase, orphans, crashes>>

\* worker.start() raises, before or after it has created the process.
StartFails(c) ==
    /\ th[c].pc = "start" /\ th[c].job \in StartMayFail
    /\ alive' \in {alive, alive \cup {th[c].job}}
    /\ Set(c, [th[c] EXCEPT !.pc = "kill", !.why = "start_failed"])
    /\ UNCHANGED <<durable, attached, phase, orphans, crashes>>

\* Outcomes of terminate_and_wait() of a control that can reach its process:
\* a confirmed death is a real one.
Terminated(j, confirmed) ==
    /\ confirmed \/ j \in KillMayFail
    /\ alive' = IF confirmed THEN alive \ {j} ELSE alive

\* Faulty variant: UPDATE ... without "AND status = 'DISPATCHING'".
CommitUnguarded(c) ==
    /\ th[c].pc = "commit"
    /\ Move(th[c].job, "RUNNING", "RUNNING")
    /\ Set(c, Dispatching(c))
    /\ UNCHANGED <<logs, attached, alive, phase, orphans, crashes>>

Commit(c) ==
    /\ th[c].pc = "commit"
    /\ IF status[th[c].job] = "DISPATCHING"
       THEN /\ Move(th[c].job, "RUNNING", "RUNNING")
            /\ Set(c, Dispatching(c))
            /\ UNCHANGED <<logs, alive>>
       ELSE /\ \E ok \in BOOLEAN : Terminated(th[c].job, ok)
            /\ Abort(c)
            /\ UNCHANGED durable
    /\ UNCHANGED <<attached, phase, orphans, crashes>>

-----------------------------------------------------------------------------
(* Closing a job: terminate the worker, then _finish or _quarantine it in  *)
(* a transaction that only applies to the expected status.                 *)

\* Faulty variant: WorkerTermination.terminated is not looked at.
KillTrusting(c) ==
    LET t == th[c] IN
    /\ t.pc = "kill" /\ t.why # "presumed"
    /\ \E ok \in BOOLEAN : Terminated(t.job, ok)
    /\ Set(c, [t EXCEPT !.pc = "close", !.confirmed = TRUE])
    /\ UNCHANGED <<durable, attached, phase, orphans, crashes>>

\* _attempt_termination.  _cancel has no worker to terminate when the table
\* has no entry; every other path already holds its worker.
Kill(c) ==
    LET t == th[c] IN
    /\ t.pc = "kill" /\ t.why # "presumed"
    /\ IF t.why = "cancel" /\ t.job \notin attached
       THEN /\ Set(c, [t EXCEPT !.pc = "close", !.confirmed = FALSE])
            /\ UNCHANGED alive
       ELSE \E ok \in BOOLEAN, L \in SUBSET Logs :
               /\ Terminated(t.job, ok)
               /\ Set(c, [t EXCEPT !.pc = "close", !.confirmed = ok,
                                   !.logs = @ \cup L])
    /\ UNCHANGED <<durable, attached, phase, orphans, crashes>>

\* _TerminatedPriorWorker.terminate_and_wait(): a restart's word that a worker
\* of an earlier process is gone.  It looks at no process and ends none.
Presume(c) ==
    /\ th[c].pc = "kill" /\ th[c].why = "presumed"
    /\ Set(c, [th[c] EXCEPT !.pc = "close", !.confirmed = TRUE])
    /\ UNCHANGED <<durable, attached, phase, alive, orphans, crashes>>

\* _finish: the row and its event in one transaction, then the worker leaves
\* the table.  The logs column is overwritten, not merged.
Finish(j, final, L) ==
    /\ Move(j, final, final)
    /\ logs' = [logs EXCEPT ![j] = L]
    /\ attached' = attached \ {j}

\* Faulty variant: an unconfirmed worker's job is queued again.
QuarantineByRequeue(j, L) ==
    /\ Move(j, "QUEUED", "QUEUED")
    /\ logs' = [logs EXCEPT ![j] = L]
    /\ UNCHANGED attached

Quarantine(j, L) ==
    /\ Move(j, "QUARANTINED", "QUARANTINED")
    /\ logs' = [logs EXCEPT ![j] = L]
    /\ UNCHANGED attached

Close(c) ==
    LET t == th[c] IN
    /\ t.pc = "close"
    /\ \/ /\ status[t.job] = ExpectedStatus(t.why) /\ t.confirmed
          /\ Finish(t.job, FinalStatus(t.why), t.logs)
          /\ Set(c, IF t.why \in {"interrupted", "resume_cancellation"}
                    THEN Returned(c) ELSE Dispatching(c))
       \/ /\ status[t.job] = ExpectedStatus(t.why) /\ ~t.confirmed
          /\ Quarantine(t.job, t.logs)
          /\ Set(c, IF t.why = "start_failed"
                    THEN Dispatching(c) ELSE Returned(c))
       \/ /\ status[t.job] # ExpectedStatus(t.why)
          /\ Abort(c)
          /\ UNCHANGED <<durable, attached>>
    /\ UNCHANGED <<phase, alive, orphans, crashes>>

\* Faulty variant: dispatch_after=False.
CompleteWithoutDispatch(c, j) ==
    /\ Calling(c)
    /\ status[j] = "RUNNING" /\ j \notin alive
    /\ \E L \in SUBSET Logs : Finish(j, "COMPLETED", L)
    /\ Set(c, Idle)
    /\ UNCHANGED <<phase, alive, orphans, crashes>>

\* JobHandle.complete(), called once the worker is done (result() waits).
Complete(c, j) ==
    /\ Calling(c)
    /\ status[j] = "RUNNING" /\ j \notin alive
    /\ \E L \in SUBSET Logs : Finish(j, "COMPLETED", L)
    /\ Set(c, Dispatching(c))
    /\ UNCHANGED <<phase, alive, orphans, crashes>>

\* Faulty variant: the QUARANTINED check is missing.
RequestCancelAnyway(c, j, L, t) ==
    /\ status[j] \in Nonterminal
    /\ Move(j, "CANCELLING", "CANCELLATION_REQUESTED")
    /\ logs' = [logs EXCEPT ![j] = @ \cup L]
    /\ Set(c, [t EXCEPT !.pc = IF status[j] = "QUEUED" THEN "close" ELSE "kill",
                        !.job = j, !.logs = logs[j] \cup L, !.why = "cancel",
                        !.confirmed = (status[j] = "QUEUED")])
    /\ UNCHANGED <<attached, phase, alive, orphans, crashes>>

\* The first transaction of _cancel.  A job that was still queued has no
\* process and is finished without a termination.
RequestCancel(c, j, L, t) ==
    /\ status[j] \in Nonterminal \ {"QUARANTINED"}
    /\ Move(j, "CANCELLING", "CANCELLATION_REQUESTED")
    /\ logs' = [logs EXCEPT ![j] = @ \cup L]
    /\ Set(c, [t EXCEPT !.pc = IF status[j] = "QUEUED" THEN "close" ELSE "kill",
                        !.job = j, !.logs = logs[j] \cup L, !.why = "cancel",
                        !.confirmed = (status[j] = "QUEUED")])
    /\ UNCHANGED <<attached, phase, alive, orphans, crashes>>

Count(j, e) == Cardinality({n \in DOMAIN events[j] : events[j][n] = e})

\* JobHandle.cancel()
Cancel(c, j) ==
    /\ Calling(c)
    /\ Count(j, "CANCELLATION_REQUESTED") < MaxAttempts
    /\ \E L \in SUBSET Logs : RequestCancel(c, j, L, Idle)

-----------------------------------------------------------------------------
(* enforce_deadlines(): the caller supplies the instant, so which of the   *)
(* jobs read by the query have expired is arbitrary.                       *)

Sweep(c) ==
    /\ Calling(c)
    /\ \E expired \in SUBSET {j \in Jobs : /\ status[j] \in {"QUEUED", "DISPATCHING", "RUNNING"}
                                           /\ Count(j, "CANCELLATION_REQUESTED") < MaxAttempts} :
          /\ expired # {}
          /\ Set(c, At("sweep", "sweep", expired))
    /\ UNCHANGED <<durable, attached, phase, alive, orphans, crashes>>

SweepNext(c) ==
    /\ th[c].pc = "sweep"
    /\ \E j \in First(th[c].todo) :
          LET rest == At("sweep", "sweep", th[c].todo \ {j}) IN
          \/ RequestCancel(c, j, {}, rest)
          \/ /\ status[j] \in Terminal      \* skip_if_terminal
             /\ Set(c, rest)
             /\ UNCHANGED <<durable, attached, phase, alive, orphans, crashes>>
          \/ /\ status[j] = "QUARANTINED"   \* "requires explicit reconciliation"
             /\ Abort(c)
             /\ UNCHANGED <<durable, attached, phase, alive, orphans, crashes>>

SweepDone(c) ==
    /\ th[c].pc = "sweep" /\ th[c].todo = {}
    /\ Set(c, Idle)
    /\ UNCHANGED <<durable, attached, phase, alive, orphans, crashes>>

RecordPartialLogs(c, j) ==
    /\ Calling(c)
    /\ status[j] \in Nonterminal
    /\ \E L \in SUBSET Logs : logs' = [logs EXCEPT ![j] = @ \cup L]
    /\ UNCHANGED <<status, submitIndex, nextIndex, events,
                   attached, th, phase, alive, orphans, crashes>>

\* reconcile_quarantined(): a new worker control is entered in the table.
ReconcileQuarantined(c, j) ==
    /\ Calling(c)
    /\ status[j] = "QUARANTINED" /\ Count(j, "QUARANTINED") < MaxAttempts
    /\ attached' = attached \cup {j}
    /\ Set(c, [Idle EXCEPT !.pc = "kill", !.job = j, !.logs = logs[j],
                           !.why = "reconcile"])
    /\ UNCHANGED <<durable, phase, alive, orphans, crashes>>

-----------------------------------------------------------------------------
(* A restart: __init__ walks the nonterminal rows in submission order and  *)
(* asks the resolver for each one's worker: none, a control that reaches   *)
(* it, or, as a resumed run answers for quarantined rows, a witness.       *)

Restart(c) ==
    /\ phase = "down"
    /\ phase' = "boot"
    /\ Set(c, At("boot", "boot", {j \in Jobs : status[j] \in Nonterminal}))
    /\ UNCHANGED <<durable, attached, alive, orphans, crashes>>

Answers(j) == {"none", "control"} \cup (IF status[j] = "QUARANTINED" THEN {"witness"} ELSE {})

\* Faulty variant: a restart overlooks interrupted cancellations.
BootPlanWithoutResume(j, answer) ==
    CASE status[j] = "DISPATCHING" -> "interrupted"
      [] status[j] = "RUNNING" /\ answer = "none" -> "lost"
      [] status[j] = "QUARANTINED" /\ answer = "control" -> "reconcile"
      [] status[j] = "QUARANTINED" /\ answer = "witness" -> "presumed"
      [] OTHER -> None

\* No other caller exists yet and a dispatch made on the way touches only
\* rows already walked, so a row still has the status the query returned.
BootPlan(j, answer) ==
    CASE status[j] = "DISPATCHING" -> "interrupted"
      [] status[j] = "CANCELLING" -> "resume_cancellation"
      [] status[j] = "RUNNING" /\ answer = "none" -> "lost"
      [] status[j] = "QUARANTINED" /\ answer = "control" -> "reconcile"
      [] status[j] = "QUARANTINED" /\ answer = "witness" -> "presumed"
      [] OTHER -> None

BootNext(c) ==
    /\ th[c].pc = "boot"
    /\ \E j \in First(th[c].todo) : \E answer \in Answers(j) :
          LET rest == At("boot", "boot", th[c].todo \ {j})
              w == BootPlan(j, answer)
          IN /\ attached' = IF answer = "none" THEN attached ELSE attached \cup {j}
             /\ Set(c, IF w = None THEN rest
                       ELSE [rest EXCEPT !.pc = IF answer = "none" THEN "close" ELSE "kill",
                                         !.job = j, !.logs = logs[j], !.why = w])
    /\ UNCHANGED <<durable, phase, alive, orphans, crashes>>

BootDone(c) ==
    /\ th[c].pc = "boot" /\ th[c].todo = {}
    /\ Set(c, At("dispatch", "idle", {}))
    /\ UNCHANGED <<durable, attached, phase, alive, orphans, crashes>>

\* The process dies between two transactions; its workers may or may not.
Crash ==
    /\ phase # "down" /\ crashes < MaxCrashes
    /\ phase' = "down"
    /\ crashes' = crashes + 1
    /\ th' = [c \in Callers |-> Idle]
    /\ attached' = {}
    /\ alive' \in SUBSET alive
    /\ orphans' = alive'
    /\ UNCHANGED durable

WorkerExit(j) ==
    /\ j \in alive
    /\ alive' = alive \ {j}
    /\ UNCHANGED <<durable, attached, th, phase, orphans, crashes>>

-----------------------------------------------------------------------------
\* What a caller does without being asked again: the rest of its method.
Step(c) ==
    \/ Attach(c) \/ Reserve(c) \/ Drained(c) \/ Fetch(c)
    \/ Start(c) \/ StartFails(c) \/ Commit(c) \/ Kill(c) \/ Presume(c) \/ Close(c)
    \/ SweepNext(c) \/ SweepDone(c) \/ BootNext(c) \/ BootDone(c)

Request(c) ==
    \/ Sweep(c)
    \/ \E j \in Jobs : \/ Submit(c, j) \/ AttachWorker(c, j) \/ Complete(c, j)
                       \/ Cancel(c, j) \/ RecordPartialLogs(c, j)
                       \/ ReconcileQuarantined(c, j)

Next ==
    \/ \E c \in Callers : Step(c) \/ Request(c) \/ Restart(c)
    \/ Crash
    \/ \E j \in Jobs : WorkerExit(j)

Spec == Init /\ [][Next]_vars

\* A method that has begun runs on, and a run that was interrupted is
\* eventually resumed.  Nothing obliges a caller to call, a worker to exit, or
\* a termination to be confirmed.
Fairness == /\ \A c \in Callers : WF_vars(Step(c))
            /\ WF_vars(\E c \in Callers : Restart(c))

FairSpec == Spec /\ Fairness

-----------------------------------------------------------------------------
(* Properties *)

Control == [pc : {"idle", "attach", "dispatch", "fetch", "start", "commit",
                  "kill", "close", "sweep", "boot"},
            back : {"idle", "sweep", "boot"},
            job : Jobs \cup {None},
            todo : SUBSET Jobs,
            logs : SUBSET Logs,
            confirmed : BOOLEAN,
            why : Why \cup {None}]

HasJob == {"attach", "fetch", "start", "commit", "kill", "close"}

ControlOK ==
    /\ th \in [Callers -> Control]
    /\ \A c \in Callers : /\ th[c].pc \in HasJob => th[c].job \in Jobs
                          /\ th[c].pc \in {"kill", "close"} => th[c].why \in Why

\* Types, and that a caller in the middle of a job knows which job and why.
TypeOK ==
    /\ status \in [Jobs -> {"ABSENT"} \cup JobStatus]
    /\ submitIndex \in [Jobs -> Nat]
    /\ nextIndex \in Nat \ {0}
    /\ logs \in [Jobs -> SUBSET Logs]
    /\ events \in [Jobs -> Seq(EventType)]
    /\ attached \subseteq Jobs
    /\ ControlOK
    /\ phase \in {"down", "boot", "up"}
    /\ alive \subseteq Jobs /\ orphans \subseteq Jobs
    /\ crashes \in Nat

Dispatched(j) == \E n \in DOMAIN events[j] : events[j][n] = "DISPATCHING"

\* A worker of an earlier process whose lease was given up because a restart
\* took it for dead.
GivenUp(j) ==
    /\ j \in orphans /\ status[j] = "INFRASTRUCTURE_ERROR"
    /\ Len(events[j]) > 1 /\ events[j][Len(events[j]) - 1] = "QUARANTINED"

\* A worker process that the scheduler has started and that is alive is covered
\* by a lease: its job is in an active status, so its cores and memory are counted by
\* _reserve_next_dispatch, through failed starts, unconfirmed terminations, crashes
\* and restarts, and until a termination reaches it.  The one way to lose the lease
\* alive is a restart's witness, which speaks only of workers that have outlived the
\* process that started them.  (For one calling thread: of two, one may cancel the
\* row while the other is about to start its worker.)
LeaseCoversWorker == \A j \in alive : status[j] \in Active \/ GivenUp(j)

OneCaller == \A c, d \in Callers : c = d

\* Its strengthening for one caller: the row has the status that the caller's
\* path expects, a death that a control has confirmed still is one when the job is
\* closed, and a witness is never asked about a worker of this process.
PathAgreesWithRow ==
    \A c \in Callers :
        /\ th[c].pc \in {"fetch", "start", "commit"} => status[th[c].job] = "DISPATCHING"
        /\ th[c].pc \in {"kill", "close"} => status[th[c].job] = ExpectedStatus(th[c].why)
        /\ th[c].pc = "close" /\ th[c].confirmed /\ th[c].why # "presumed" => th[c].job \notin alive
        /\ th[c].pc \in {"kill", "close"} /\ th[c].why = "presumed" /\ th[c].job \in alive
              => th[c].job \in orphans

LeasedOf(k) == {j \in ActiveOf(k) : Dispatched(j)}

\* At most max_concurrency jobs of a kind have been dispatched and are not
\* finished, a quarantined lease included.
ConcurrencyWithinLimits ==
    \A k \in Kinds : Cardinality(LeasedOf(k)) <= Limits[k]["max_concurrency"]

\* The jobs that were dispatched and are not finished stay within the
\* concurrency, CPU and memory limits of their kind ("enforces per-kind
\* CPU/memory/concurrency ... budgets").
LeasesWithinLimits ==
    /\ ConcurrencyWithinLimits
    /\ \A k \in Kinds, a \in {"cpu_cores", "memory_bytes"} :
          Total(a, LeasedOf(k)) <= Limits[k][a]

\* Cumulative candidate and token costs of a run stay within the policy,
\* whatever was cancelled, failed, quarantined or resumed in between.
RunBudgetsHold ==
    \A r \in Runs : /\ Consumed(r, "candidate_cost") <= MaxCandidates
                    /\ Consumed(r, "token_cost") <= MaxTokens

\* "enforces per-kind CPU/memory/concurrency, total candidate ... budgets": no
\* interleaving of two callers, aborted dispatch, cancellation or restart gets
\* past the policy, for the moment or for the whole run.
PolicyKept == LeasesWithinLimits /\ RunBudgetsHold

\* Within a kind no job is dispatched past an earlier one that still waits,
\* also when dispatches of several callers and of a restart interleave.
FifoWithinKind ==
    \A i, j \in Jobs :
        /\ KindOf[i] = KindOf[j] /\ i # j
        /\ status[i] = "QUEUED" /\ Dispatched(j)
        => submitIndex[j] < submitIndex[i]

\* A job is dispatched at most once, so a worker is started at most once,
\* even if the process dies between the reservation and the start.
DispatchedAtMostOnce ==
    \A j \in Jobs : \A m, n \in DOMAIN events[j] :
        events[j][m] = "DISPATCHING" /\ events[j][n] = "DISPATCHING" => m = n

\* What the order of submission and the journal promise together: a job is
\* dispatched in its turn and never again.
QueueDiscipline == FifoWithinKind /\ DispatchedAtMostOnce

\* The journal agrees with the row: its last event is the row's status.
JournalMatchesStatus ==
    \A j \in Jobs :
        IF status[j] = "ABSENT" THEN events[j] = <<>>
        ELSE /\ Len(events[j]) > 0
             /\ events[j][Len(events[j])] =
                   IF status[j] = "CANCELLING" THEN "CANCELLATION_REQUESTED"
                   ELSE status[j]

\* The strengthening behind the three properties above: tickets are unique and
\* taken in order, a queued job has only its first event, a dispatch can only
\* be the second event, and a running job has been dispatched.
TicketsUnique ==
    /\ \A j \in Submitted : submitIndex[j] < nextIndex
    /\ \A i, j \in Submitted : submitIndex[i] = submitIndex[j] => i = j

JournalShape ==
    \A j \in Jobs :
        /\ status[j] = "QUEUED" => events[j] = <<"QUEUED">>
        /\ \A n \in DOMAIN events[j] : events[j][n] = "DISPATCHING" => n = 2
        /\ status[j] \in {"DISPATCHING", "RUNNING"} => Dispatched(j)

QueueInvariant == /\ JournalMatchesStatus /\ FifoWithinKind
                  /\ TicketsUnique /\ JournalShape

\* When no call is in progress nothing that could be dispatched is waiting:
\* every release of a lease and every new worker is followed by a dispatch.
\* (For one calling thread: an aborted dispatch of one of several callers
\* may leave work to the next call.)
NoLostWakeup ==
    phase = "up" /\ (\A c \in Callers : th[c].pc = "idle") => Eligible = {}

\* A finished job is finished: no late completion, cancellation, sweep,
\* reconciliation or restart changes its row or adds to its journal.
TerminalIsFinal ==
    [][\A j \in Jobs : status[j] \in Terminal
          => /\ status'[j] = status[j] /\ events'[j] = events[j]
             /\ logs'[j] = logs[j]]_vars

\* The lease of a quarantined job is given back in one way only, with the row ending
\* in INFRASTRUCTURE_ERROR ("Release a quarantined lease only after process death is
\* confirmed"): by a control that has ended the worker, or by a restart's witness, and
\* then the worker, should it be alive, is one that its scheduler did not outlive.
\* No cancellation, sweep or late completion releases a worker of this process.
QuarantineReleasedByDeath ==
    [][\A j \in Jobs : status[j] = "QUARANTINED" /\ status'[j] # "QUARANTINED"
          => /\ status'[j] = "INFRASTRUCTURE_ERROR"
             /\ j \in alive => /\ j \in orphans
                               /\ \E c \in Callers : th[c].job = j /\ th[c].why = "presumed"]_vars

\* No job stays half-dispatched or half-cancelled: whatever the order of the
\* callers' steps and wherever the process dies, it is resolved.
TransientSettles ==
    \A j \in Jobs : status[j] \in {"DISPATCHING", "CANCELLING"}
                       ~> status[j] \notin {"DISPATCHING", "CANCELLING"}

\* The scheduler implements the abstract lease manager.  A job cancelled
\* before it was dispatched never held a lease.
LeaseState(j) ==
    IF status[j] = "ABSENT" THEN "absent"
    ELSE IF status[j] = "QUEUED" THEN "queued"
    ELSE IF status[j] \in Active /\ Dispatched(j) THEN "leased" ELSE "done"

L == INSTANCE Leases WITH
        lease <- [j \in Jobs |-> LeaseState(j)],
        ticket <- submitIndex,
        next <- nextIndex,
        MaxConcurrency <- [k \in Kinds |-> Limits[k]["max_concurrency"]]

ImplementsLeases == L!Spec

=============================================================================
