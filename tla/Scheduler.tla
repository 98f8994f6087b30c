----------------------------- MODULE Scheduler -----------------------------
(***************************************************************************)
(* One call of execute_plan: the inner asyncio scheduler of the engine.    *)
(*                                                                         *)
(* Actors: the scheduler coroutine (pc), one task per launched step, the   *)
(* API handler that cancels and the clock.  An action is the code between  *)
(* two awaits of one of them; asyncio runs nothing else in between.        *)
(***************************************************************************)
EXTENDS PlanDag, Integers

CONSTANTS Concurrency,    \* permits of the call's semaphore
          None            \* an absent dictionary entry

\* AgentResult.status, as an agent may return it.
AgentStatus == {"completed", "completed_degraded", "failed"}

ASSUME ConcurrencyAssumption == Concurrency \in Nat \ {0}
ASSUME StepIdAssumption == IsFiniteSet(StepId)
ASSUME NoneAssumption == None \notin StepId /\ None \notin StepStatus \cup AgentStatus

(* none: no task.  queued: created, or waiting for a permit.  running: its  *)
(* runner is awaited.  done: finished, not yet seen by the scheduler.       *)
(* cancelling: Task.cancel was called.  unwound: it ended by CancelledError *)
TaskStatus == {"none", "queued", "running", "done", "cancelling", "unwound"}

VARIABLES
  plan,        \* monitor.plan, the plan this call executes
  inherited,   \* history: its steps that were lost before the call began
  status,      \* monitor.step_status
  results,     \* monitor.results: the status of the stored AgentResult
  trace,       \* monitor.trace: how many entries each step has
  cancel,      \* monitor._cancel
  expired,     \* the deadline has passed
  replan,      \* monitor._replan
  failedStep,  \* monitor.failed_step_id
  pending,     \* execute_plan's set of steps not yet launched
  task,        \* execute_plan's in-flight tasks, by step
  sem,         \* free permits of the semaphore
  pc           \* where execute_plan is

monitorVars == <<status, results, trace>>
signalVars  == <<cancel, expired>>
replanVars  == <<replan, failedStep>>
vars == <<plan, inherited, monitorVars, signalVars, replanVars, pending, task, sem, pc>>

TypeOK ==
  /\ IsPlan(plan) /\ inherited \subseteq plan.steps
  /\ status \in [StepId -> StepStatus \cup {None}]
  /\ results \in [StepId -> AgentStatus \cup {None}]
  /\ trace \in [StepId -> Nat]
  /\ cancel \in BOOLEAN /\ expired \in BOOLEAN /\ replan \in BOOLEAN
  /\ failedStep \in StepId \cup {None}
  /\ pending \subseteq StepId
  /\ task \in [StepId -> TaskStatus]
  /\ sem \in 0 .. Concurrency
  /\ pc \in {"start", "waiting", "cancelling", "returned"}

----------------------------------------------------------------------------
NoTasks == [s \in StepId |-> "none"]

\* What an earlier round can have left of a step that was lost in it.
LostRecord == [status : {"failed"}, result : {"completed_degraded", "failed"}]
                \cup [status : {"skipped", "cancelled"}, result : {None}]

(* A fresh plan has every step pending; a merged one also carries the       *)
(* frozen completed steps, whose dependencies are completed steps too.      *)
(* attach_plan keeps the status of an id it has seen before: a merged step  *)
(* with the id of a lost one starts lost.                                   *)
InitRun ==
  /\ \E frozen \in SUBSET plan.steps :
       /\ \A s \in frozen : plan.deps[s] \subseteq frozen
       /\ inherited \in SUBSET (plan.steps \ frozen)
       /\ \E old \in [inherited -> LostRecord] :
            /\ status = [s \in StepId |-> IF s \in frozen THEN "completed"
                                          ELSE IF s \in inherited THEN old[s].status
                                          ELSE IF s \in plan.steps THEN "pending" ELSE None]
            /\ results = [s \in StepId |-> IF s \in frozen THEN "completed"
                                           ELSE IF s \in inherited THEN old[s].result ELSE None]
       /\ trace = [s \in StepId |-> IF results[s] = None THEN 0 ELSE 1]
  /\ cancel = FALSE /\ expired = FALSE
  /\ replan = FALSE /\ failedStep = None
  /\ pending = {}
  /\ task = NoTasks
  /\ sem = Concurrency
  /\ pc = "start"

Init ==
  /\ \E S \in SUBSET StepId : plan \in {p \in PlansOver(S) : ValidPlan(p)}
  /\ InitRun

----------------------------------------------------------------------------
\* Mutant of ShouldStopLaunching: overlooks the deadline.
StopIgnoringDeadline == cancel \/ replan

ShouldStopLaunching == cancel \/ replan \/ expired

\* mark_skipped and mark_cancelled: the statuses they leave behind.
MarkSkipped(S) ==
  [s \in StepId |-> IF s \in S /\ status[s] = "pending" THEN "skipped" ELSE status[s]]

MarkCancelled(S) ==
  [s \in StepId |-> IF s \in S /\ status[s] \in {"pending", "running"}
                    THEN "cancelled" ELSE status[s]]

\* Mutant of Ready: a dependency that runs counts as met.
ReadyTooEarly(S) == {s \in S : \A d \in plan.deps[s] : status[d] \in {"completed", "running"}}

\* _classify_pending
Ready(S)   == {s \in S : \A d \in plan.deps[s] : status[d] = "completed"}
Blocked(S) == {s \in S : \E d \in plan.deps[s] : status[d] \in Lost}

\* Mutant of LaunchReady: a new wave of steps starts only when the last one is over.
LaunchByWaves(unlaunched, inFlight) ==
  LET idle    == inFlight = NoTasks /\ ~ShouldStopLaunching
      skipped == IF ShouldStopLaunching THEN {} ELSE Blocked(unlaunched)
      ready   == IF idle THEN Ready(unlaunched) ELSE {}
      left    == unlaunched \ (skipped \cup ready)
  IN  /\ task' = [s \in StepId |-> IF s \in ready THEN "queued" ELSE inFlight[s]]
      /\ \/ /\ task' # NoTasks
            /\ status' = MarkSkipped(skipped)
            /\ pending' = left
            /\ pc' = "waiting"
         \/ /\ task' = NoTasks
            /\ status' = MarkSkipped(skipped \cup left)
            /\ pending' = {}
            /\ pc' = "returned"

(* One turn of execute_plan's loop up to its await: skip the blocked steps  *)
(* of unlaunched, start a task for each ready one beside those inFlight,    *)
(* and either wait or, with nothing in flight, skip the rest and return.    *)
LaunchReady(unlaunched, inFlight) ==
  LET skipped == IF ShouldStopLaunching THEN {} ELSE Blocked(unlaunched)
      ready   == IF ShouldStopLaunching THEN {} ELSE Ready(unlaunched)
      left    == unlaunched \ (skipped \cup ready)
  IN  /\ task' = [s \in StepId |-> IF s \in ready THEN "queued" ELSE inFlight[s]]
      /\ \/ /\ task' # NoTasks
            /\ status' = MarkSkipped(skipped)
            /\ pending' = left
            /\ pc' = "waiting"
         \/ /\ task' = NoTasks
            /\ status' = MarkSkipped(skipped \cup left)
            /\ pending' = {}
            /\ pc' = "returned"

Begin ==
  /\ pc = "start"
  /\ LaunchReady({s \in plan.steps : status[s] = "pending"}, task)
  /\ UNCHANGED <<plan, inherited, results, trace, signalVars, replanVars, sem>>

----------------------------------------------------------------------------
(* The tasks: _run_one *)

\* The task of s gets a permit and its runner is called.
StartStep(s) ==
  /\ task[s] = "queued" /\ sem > 0
  /\ ~ShouldStopLaunching
  /\ sem' = sem - 1
  /\ status' = [status EXCEPT ![s] = "running"]
  /\ task' = [task EXCEPT ![s] = "running"]
  /\ UNCHANGED <<plan, inherited, results, trace, signalVars, replanVars, pending, pc>>

\* The task of s gets a permit after the run was told to stop, and gives it back.
StandDown(s) ==
  /\ task[s] = "queued" /\ sem > 0
  /\ ShouldStopLaunching
  /\ status' = MarkCancelled({s})
  /\ task' = [task EXCEPT ![s] = "done"]
  /\ UNCHANGED <<plan, inherited, results, trace, signalVars, replanVars, pending, sem, pc>>

\* Mutant of RecordResult: a failure is not traced.
RecordUntraced(s, r) ==
  /\ results' = [results EXCEPT ![s] = r]
  /\ status' = [status EXCEPT ![s] = IF r = "completed" THEN "completed" ELSE "failed"]
  /\ trace' = IF r = "completed" THEN [trace EXCEPT ![s] = @ + 1] ELSE trace

\* record_result: anything but "completed" is a failed step.
RecordResult(s, r) ==
  /\ results' = [results EXCEPT ![s] = r]
  /\ status' = [status EXCEPT ![s] = IF r = "completed" THEN "completed" ELSE "failed"]
  /\ trace' = [trace EXCEPT ![s] = @ + 1]

\* Mutant of FinishStep: the permit is never given back.
FinishKeepingPermit(s, r) ==
  /\ task[s] = "running"
  /\ RecordResult(s, r)
  /\ task' = [task EXCEPT ![s] = "done"]
  /\ UNCHANGED <<plan, inherited, signalVars, replanVars, pending, sem, pc>>

\* The runner of s returns a result of status r.
FinishStep(s, r) ==
  /\ task[s] = "running"
  /\ RecordResult(s, r)
  /\ sem' = sem + 1
  /\ task' = [task EXCEPT ![s] = "done"]
  /\ UNCHANGED <<plan, inherited, signalVars, replanVars, pending, pc>>

\* Mutant of Unwind: a task that never had a permit returns one too.
UnwindReleasingAlways(s) ==
  /\ task[s] = "cancelling"
  /\ task' = [task EXCEPT ![s] = "unwound"]
  /\ sem' = sem + 1
  /\ UNCHANGED <<plan, inherited, monitorVars, signalVars, replanVars, pending, pc>>

\* CancelledError is thrown into the task of s, which returns its permit if it had one.
Unwind(s) ==
  /\ task[s] = "cancelling"
  /\ task' = [task EXCEPT ![s] = "unwound"]
  /\ sem' = IF status[s] = "running" THEN sem + 1 ELSE sem
  /\ UNCHANGED <<plan, inherited, monitorVars, signalVars, replanVars, pending, pc>>

----------------------------------------------------------------------------
(* The scheduler coroutine, woken by asyncio.wait *)

Done == {s \in StepId : task[s] = "done"}

\* Mutant of StructuralFailures: every failure counts as structural.
FailuresUnclassified == {s \in Done : results[s] = "failed"}

\* _on_done: the finished steps that call for the re-plan decider.
StructuralFailures ==
  {s \in Done : results[s] = "failed" /\ Structural(plan, s, status)}

\* No failure needs the decider: drop the finished tasks and go round the loop.
WakeAndLaunch ==
  /\ pc = "waiting" /\ Done # {}
  /\ StructuralFailures = {}
  /\ LaunchReady(pending, [s \in StepId |-> IF s \in Done THEN "none" ELSE task[s]])
  /\ UNCHANGED <<plan, inherited, results, trace, signalVars, replanVars, sem>>

\* Mutant of WakeAndPreempt: leaves the running steps alone.
PreemptQueuedOnly ==
  /\ pc = "waiting"
  /\ failedStep' \in StructuralFailures
  /\ replan' = TRUE
  /\ task' = [s \in StepId |-> CASE task[s] = "done" -> "none"
                                 [] task[s] = "queued" -> "cancelling"
                                 [] OTHER -> task[s]]
  /\ pc' = "cancelling"
  /\ UNCHANGED <<plan, inherited, monitorVars, signalVars, pending, sem>>

\* A structural failure: request the re-plan and cancel everything in flight.
WakeAndPreempt ==
  /\ pc = "waiting"
  /\ failedStep' \in StructuralFailures
  /\ replan' = TRUE
  /\ task' = [s \in StepId |-> CASE task[s] = "done" -> "none"
                                 [] task[s] \in {"queued", "running"} -> "cancelling"
                                 [] OTHER -> task[s]]
  /\ pc' = "cancelling"
  /\ UNCHANGED <<plan, inherited, monitorVars, signalVars, pending, sem>>

\* Mutants of FinishPreempt: marks no step, or every step that was ever launched.
FinishUnmarked ==
  /\ pc = "cancelling"
  /\ \A s \in StepId : task[s] # "cancelling"
  /\ task' = NoTasks
  /\ pc' = "returned"
  /\ UNCHANGED <<plan, inherited, monitorVars, signalVars, replanVars, pending, sem>>

FinishMarkingAll ==
  /\ pc = "cancelling"
  /\ \A s \in StepId : task[s] # "cancelling"
  /\ status' = [s \in StepId |-> IF s \in plan.steps \ pending THEN "cancelled" ELSE status[s]]
  /\ task' = NoTasks
  /\ pc' = "returned"
  /\ UNCHANGED <<plan, inherited, results, trace, signalVars, replanVars, pending, sem>>

\* _cancel_inflight after its gather, and the break out of the loop.
FinishPreempt ==
  /\ pc = "cancelling"
  /\ \A s \in StepId : task[s] # "cancelling"
  /\ status' = MarkCancelled({s \in StepId : task[s] = "unwound"})
  /\ task' = NoTasks
  /\ pc' = "returned"
  /\ UNCHANGED <<plan, inherited, results, trace, signalVars, replanVars, pending, sem>>

----------------------------------------------------------------------------
\* POST /tasks/{id}/cancel
RequestCancel ==
  /\ ~cancel
  /\ cancel' = TRUE
  /\ UNCHANGED <<plan, inherited, monitorVars, expired, replanVars, pending, task, sem, pc>>

\* time.monotonic() reaches the run's deadline, if it has one.
DeadlinePasses ==
  /\ ~expired
  /\ expired' = TRUE
  /\ UNCHANGED <<plan, inherited, monitorVars, cancel, replanVars, pending, task, sem, pc>>

TaskStep(s) == StartStep(s) \/ StandDown(s) \/ Unwind(s)
                 \/ \E r \in AgentStatus : FinishStep(s, r)

ExecutePlan == Begin \/ WakeAndLaunch \/ WakeAndPreempt \/ FinishPreempt

Next ==
  \/ ExecutePlan
  \/ \E s \in StepId : TaskStep(s)
  \/ RequestCancel
  \/ DeadlinePasses

Spec == Init /\ [][Next]_vars

(* asyncio resumes every coroutine whose await is over, the semaphore wakes  *)
(* its waiters in turn, and an agent call returns.  Nobody has to cancel.    *)
Fairness == WF_vars(ExecutePlan) /\ \A s \in StepId : WF_vars(TaskStep(s))

FairSpec == Spec /\ Fairness

----------------------------------------------------------------------------
(* Safety *)

\* A step of this call runs, ends or is cancelled in flight only with every dependency
\* completed, however the tasks interleave (scheduler.py's launch rule).
DependenciesMet ==
  \A s \in plan.steps \ inherited : status[s] \in {"running", "completed", "failed", "cancelled"} =>
    \A d \in plan.deps[s] : status[d] = "completed"

\* No more steps run at once than the semaphore has permits, also while
\* cancelled tasks hand theirs back.
Capped == Cardinality({s \in StepId : status[s] = "running"}) <= Concurrency

\* A step's status, its stored result and its trace entry agree: it ended iff
\* it left exactly one of each, and a preempted step left neither.
ResultsRecorded ==
  \A s \in StepId :
    /\ status[s] = "completed" <=> results[s] = "completed"
    /\ status[s] = "failed" <=> results[s] \in {"completed_degraded", "failed"}
    /\ trace[s] = IF results[s] = None THEN 0 ELSE 1

\* While the scheduler sleeps and nothing tells it to stop, every step whose
\* dependencies are complete has been launched: no waves.
LaunchedAtOnce ==
  pc = "waiting" /\ Done = {} /\ ~ShouldStopLaunching =>
    \A s \in pending : \E d \in plan.deps[s] : status[d] # "completed"

\* The call skips a step only because a dependency was lost or it was told to stop.
SkipJustified ==
  \A s \in plan.steps \ inherited : status[s] = "skipped" =>
    cancel \/ expired \/ \E d \in plan.deps[s] : status[d] \in Lost

\* When execute_plan returns it leaves no task, no running step and no permit
\* taken, and unless it was preempted no step unaccounted for.
ReturnsClean ==
  pc = "returned" =>
    /\ task = NoTasks /\ sem = Concurrency
    /\ \A s \in plan.steps : status[s] # "running"
    /\ ~replan => \A s \in plan.steps : status[s] # "pending"

\* The steps that cannot complete whatever the call does: those that were lost before
\* it, and all that depends on them.
Doomed == inherited \cup UNION {TransitiveDependents(plan, i) : i \in inherited}

\* Unless its agents return degraded results, a call nobody stopped loses a non-optional
\* step without asking for the re-plan decider only where it was doomed from the start.
CrucialLossConsulted ==
  /\ pc = "returned" /\ ~ShouldStopLaunching
  /\ \A s \in plan.steps \ inherited : results[s] # "completed_degraded"
  => \A s \in plan.steps \ (plan.optional \cup Doomed) : status[s] = "completed"

----------------------------------------------------------------------------
(* Action properties *)

\* Once a step has ended, was skipped or was cancelled, nothing changes that.
TerminalIsFinal ==
  [][\A s \in StepId : status[s] \in Lost \cup {"completed"} =>
       status'[s] = status[s] /\ results'[s] = results[s]]_vars

\* After a re-plan request no step starts or ends: a result that arrives then is
\* dropped and the only thing that happens to a step is being cancelled.
QuietAfterPreempt ==
  [][replan => /\ UNCHANGED <<results, trace>>
               /\ \A s \in StepId : status'[s] \in {status[s], "cancelled"}]_vars

\* A user's cancel and a deadline are cooperative: they let running steps end,
\* and no step starts after them.
CooperativeStop ==
  [][\A s \in StepId :
       /\ status[s] = "running" /\ status'[s] = "cancelled" => replan
       /\ cancel \/ expired => (status'[s] = "running" => status[s] = "running")]_vars

----------------------------------------------------------------------------
(* Liveness, and the contract of the call *)

\* execute_plan returns, whatever fails, is cancelled or expires.
Returns == <>(pc = "returned")

\* What the rest of the engine may rely on, in the terms of PlanRun.
Contract == INSTANCE PlanRun WITH halted <- cancel \/ expired, finished <- pc = "returned"

ImplementsPlanRun == Contract!Spec

----------------------------------------------------------------------------
(* What the comments say and the code does not do *)

\* monitor.py:91-92: a step that fails and is non-optional consults the decider.
FailedCrucialStepConsults ==
  pc = "returned" /\ ~ShouldStopLaunching =>
    \A s \in plan.steps \ inherited : status[s] = "failed" => s \in plan.optional
=============================================================================
