----------------------------- MODULE OuterLoop -----------------------------
(***************************************************************************)
(* The engine's outer loop, as run_task drives it through the graph:       *)
(* plan -> execute -> evaluate -> synthesize -> judge, with re-plans and   *)
(* re-syntheses under their budgets.                                       *)
(*                                                                         *)
(* Actors: the run's coroutine and the API handler that cancels.  A node   *)
(* is entered at its own name and, where it awaits a model or the          *)
(* scheduler, left from a second location.  Plans are counted, not         *)
(* listed: Scheduler holds what one execution does to each step.           *)
(***************************************************************************)
EXTENDS Integers

CONSTANTS MaxReplans,         \* the run's max_replans
          MaxResynth,         \* its max_resynth
          PlannerMaxAttempts, \* orchestrator.planner_max_attempts
          MaxSteps            \* bound: the steps one model answer proposes

ASSUME BudgetAssumption == MaxReplans \in Nat /\ MaxResynth \in Nat
ASSUME PlannerAssumption == PlannerMaxAttempts \in Nat \ {0}
ASSUME MaxStepsAssumption == MaxSteps \in Nat \ {0}

VARIABLES
  at,            \* where the run's coroutine is
  visits,        \* graph nodes entered so far (LangGraph's step counter)
  attempts,      \* planner answers refused so far
  planSize,      \* len(monitor.plan.steps), 0 while there is no plan
  completed,     \* monitor.completed_count()
  taskState,     \* monitor.state
  finalResult,   \* the status of monitor.final_result, or "none"
  draft,         \* monitor.draft, and how many completed steps it was made from
  cancel,        \* monitor._cancel
  replan,        \* monitor._replan
  replans,       \* RunState.replans
  resynthRounds, \* RunState.resynth_rounds
  synthFailed    \* RunState.synth_failed

planVars  == <<attempts, planSize, completed>>
endVars   == <<taskState, finalResult>>
roundVars == <<replans, resynthRounds, synthFailed>>
vars == <<at, visits, planVars, endVars, draft, cancel, replan, roundVars>>

Node == {"plan", "execute", "evaluate", "synthesize", "judge"}
Waiting == {"planning", "executing", "deciding", "synthesizing", "judging"}
FinalStatus == {"completed", "completed_degraded", "failed", "cancelled"}
TerminalState == {"completed", "failed", "cancelled"}

TypeOK ==
  /\ at \in Node \cup Waiting \cup {"end", "crashed"}
  /\ visits \in Nat
  /\ attempts \in 0 .. PlannerMaxAttempts
  /\ planSize \in Nat /\ completed \in Nat
  /\ taskState \in {"pending", "planning", "executing"} \cup TerminalState
  /\ finalResult \in FinalStatus \cup {"none"}
  /\ draft \in [kind : {"none", "empty", "model", "fallback"}, covers : Nat]
  /\ cancel \in BOOLEAN /\ replan \in BOOLEAN /\ synthFailed \in BOOLEAN
  /\ replans \in 0 .. MaxReplans /\ resynthRounds \in 0 .. MaxResynth

Init ==
  /\ at = "plan" /\ visits = 1
  /\ attempts = 0 /\ planSize = 0 /\ completed = 0
  /\ taskState = "pending" /\ finalResult = "none"
  /\ draft = [kind |-> "none", covers |-> 0]
  /\ cancel = FALSE /\ replan = FALSE
  /\ replans = 0 /\ resynthRounds = 0 /\ synthFailed = FALSE

----------------------------------------------------------------------------
RecursionLimit ==
  LET needed == (MaxReplans + 1) * (5 + 2 * MaxResynth) + 10
  IN  IF needed > 40 THEN needed ELSE 40

\* The graph enters node n, or gives up with GraphRecursionError.
Goto(n) ==
  /\ visits' = visits + 1
  /\ at' = IF visits < RecursionLimit THEN n ELSE "crashed"

Await(place) == at' = place /\ visits' = visits

----------------------------------------------------------------------------
(* plan_node *)

EnterPlan ==
  /\ at = "plan" /\ Await("planning")
  /\ taskState' = "planning"
  /\ UNCHANGED <<planVars, finalResult, draft, cancel, replan, roundVars>>

\* The validator refuses the planner's answer, and asks again.
RetryPlan ==
  /\ at = "planning" /\ attempts + 1 < PlannerMaxAttempts
  /\ attempts' = attempts + 1
  /\ UNCHANGED <<at, visits, planSize, completed, endVars, draft, cancel, replan, roundVars>>

\* It refuses the last answer: the run goes on to its end without a plan.
GiveUpPlanning ==
  /\ at = "planning" /\ attempts + 1 = PlannerMaxAttempts
  /\ attempts' = attempts + 1
  /\ Goto("synthesize")
  /\ UNCHANGED <<planSize, completed, endVars, draft, cancel, replan, roundVars>>

\* A valid plan of n steps is attached.
AttachPlan(n) ==
  /\ at = "planning"
  /\ planSize' = n
  /\ Goto("execute")
  /\ UNCHANGED <<attempts, completed, endVars, draft, cancel, replan, roundVars>>

----------------------------------------------------------------------------
(* execute_node *)

EnterExecute ==
  /\ at = "execute" /\ Await("executing")
  /\ taskState' = "executing"
  /\ UNCHANGED <<planVars, finalResult, draft, cancel, replan, roundVars>>

\* One more step completes; after a re-plan request none does.
StepCompletes ==
  /\ at = "executing" /\ ~replan /\ completed < planSize
  /\ completed' = completed + 1
  /\ UNCHANGED <<at, visits, attempts, planSize, endVars, draft, cancel, replan, roundVars>>

\* A step fails and takes crucial work with it.
StructuralFailure ==
  /\ at = "executing" /\ ~replan /\ completed < planSize
  /\ replan' = TRUE
  /\ UNCHANGED <<at, visits, planVars, endVars, draft, cancel, roundVars>>

ExecuteReturns ==
  /\ at = "executing" /\ Goto("evaluate")
  /\ UNCHANGED <<planVars, endVars, draft, cancel, replan, roundVars>>

----------------------------------------------------------------------------
(* evaluate_node and _decide_and_merge *)

\* Mutant of MergeReplan: the frozen completed steps are left out.
MergeForgettingFrozen(k) ==
  /\ k > 0
  /\ planSize' = k
  /\ replans' = replans + 1

\* merge_replan: the completed steps and k new ones, if that makes a plan at all.
MergeReplan(k) ==
  /\ completed + k > 0
  /\ planSize' = completed + k
  /\ replans' = replans + 1

EvaluatePasses ==
  /\ at = "evaluate" /\ ~replan
  /\ Goto("synthesize")
  /\ UNCHANGED <<planVars, endVars, draft, cancel, replan, roundVars>>

\* Mutant of EvaluateExhausted: leaves the signal raised.
ExhaustedUncleared ==
  /\ at = "evaluate" /\ replan /\ replans >= MaxReplans
  /\ Goto("synthesize")
  /\ UNCHANGED <<planVars, endVars, draft, cancel, replan, roundVars>>

EvaluateExhausted ==
  /\ at = "evaluate" /\ replan /\ replans >= MaxReplans
  /\ replan' = FALSE
  /\ Goto("synthesize")
  /\ UNCHANGED <<planVars, endVars, draft, cancel, roundVars>>

EvaluateConsults ==
  /\ at = "evaluate" /\ replan /\ replans < MaxReplans
  /\ Await("deciding")
  /\ UNCHANGED <<planVars, endVars, draft, cancel, replan, roundVars>>

\* The decider says continue, or its new steps make no valid plan.
DecideContinue ==
  /\ at = "deciding"
  /\ replan' = FALSE
  /\ Goto("synthesize")
  /\ UNCHANGED <<planVars, endVars, draft, cancel, roundVars>>

DecideReplan(k) ==
  /\ at = "deciding"
  /\ replan' = FALSE
  /\ MergeReplan(k)
  /\ Goto("execute")
  /\ UNCHANGED <<attempts, completed, endVars, draft, cancel, resynthRounds, synthFailed>>

----------------------------------------------------------------------------
(* synthesize_node *)

NothingDone == planSize = 0 \/ completed = 0

SetDraft(k) == draft' = [kind |-> k, covers |-> completed]

SynthesizeNothing ==
  /\ at = "synthesize" /\ NothingDone
  /\ SetDraft("empty")
  /\ Goto("judge")
  /\ UNCHANGED <<planVars, endVars, cancel, replan, roundVars>>

EnterSynthesize ==
  /\ at = "synthesize" /\ ~NothingDone
  /\ Await("synthesizing")
  /\ UNCHANGED <<planVars, endVars, draft, cancel, replan, roundVars>>

SynthesizeOk ==
  /\ at = "synthesizing"
  /\ SetDraft("model")
  /\ Goto("judge")
  /\ UNCHANGED <<planVars, endVars, cancel, replan, roundVars>>

\* Mutant of SynthesizeFails: keeps an earlier draft.
FailsKeepingDraft ==
  /\ at = "synthesizing"
  /\ IF draft.kind = "model" THEN draft' = draft ELSE SetDraft("fallback")
  /\ synthFailed' = TRUE
  /\ Goto("judge")
  /\ UNCHANGED <<planVars, endVars, cancel, replan, replans, resynthRounds>>

\* The synthesizer raised: assemble the fallback.
SynthesizeFails ==
  /\ at = "synthesizing"
  /\ SetDraft("fallback")
  /\ synthFailed' = TRUE
  /\ Goto("judge")
  /\ UNCHANGED <<planVars, endVars, cancel, replan, replans, resynthRounds>>

----------------------------------------------------------------------------
(* judge_node and _accept *)

\* Mutant of BaseStatus: looks at the cancellation last.
CancelledLast ==
  CASE completed = 0 -> "failed"
    [] completed > 0 -> "completed"

\* _final_status
BaseStatus ==
  CASE cancel -> "cancelled"
    [] ~cancel /\ completed = 0 -> "failed"
    [] ~cancel /\ completed > 0 -> "completed"

Accept(degraded) ==
  /\ taskState' = BaseStatus
  /\ finalResult' = IF degraded /\ BaseStatus = "completed"
                    THEN "completed_degraded" ELSE BaseStatus
  /\ at' = "end"
  /\ UNCHANGED <<visits, planVars, draft, cancel, replan, roundVars>>

\* No plan, no completed step, or a fallback draft: nobody is asked.
JudgeSkipped ==
  /\ at = "judge" /\ (NothingDone \/ synthFailed)
  /\ Accept(~NothingDone)

EnterJudge ==
  /\ at = "judge" /\ ~NothingDone /\ ~synthFailed
  /\ Await("judging")
  /\ UNCHANGED <<planVars, endVars, draft, cancel, replan, roundVars>>

\* The judge accepts; the deterministic checks may still have found errors.
VerdictAccept ==
  /\ at = "judging"
  /\ \E detErrors \in BOOLEAN : Accept(detErrors)

\* It raised, asked for what the budget refuses, or its new steps make no plan.
AcceptAnyway ==
  /\ at = "judging"
  /\ Accept(TRUE)

\* Mutant of VerdictResynthesize: the round is not counted.
ResynthesizeUncounted ==
  /\ at = "judging" /\ resynthRounds < MaxResynth
  /\ Goto("synthesize")
  /\ UNCHANGED <<planVars, endVars, draft, cancel, replan, roundVars>>

VerdictResynthesize ==
  /\ at = "judging" /\ resynthRounds < MaxResynth
  /\ resynthRounds' = resynthRounds + 1
  /\ Goto("synthesize")
  /\ UNCHANGED <<planVars, endVars, draft, cancel, replan, replans, synthFailed>>

\* _stage_replan
VerdictReplan(k) ==
  /\ at = "judging" /\ replans < MaxReplans
  /\ MergeReplan(k)
  /\ resynthRounds' = 0
  /\ Goto("execute")
  /\ UNCHANGED <<attempts, completed, endVars, draft, cancel, replan, synthFailed>>

----------------------------------------------------------------------------
(* What no node catches *)

\* The planner's or the decider's model call raises, or its answer did not parse.
UncaughtModelError ==
  /\ at \in {"planning", "deciding"}
  /\ at' = "crashed"
  /\ UNCHANGED <<visits, planVars, endVars, draft, cancel, replan, roundVars>>

\* The synthesizer's or the judge's answer did not parse: invoke_structured returns
\* None, and the node uses it after its try block.
UnparsedAnswer ==
  /\ at \in {"synthesizing", "judging"}
  /\ at' = "crashed"
  /\ UNCHANGED <<visits, planVars, endVars, draft, cancel, replan, roundVars>>

\* Mutant of RequestCancel: stamps the state itself.
CancelStampingState ==
  /\ ~cancel
  /\ cancel' = TRUE /\ taskState' = "cancelled"
  /\ UNCHANGED <<at, visits, planVars, finalResult, draft, replan, roundVars>>

\* POST /tasks/{id}/cancel, at any time and also after the end.
RequestCancel ==
  /\ ~cancel
  /\ cancel' = TRUE
  /\ UNCHANGED <<at, visits, planVars, endVars, draft, replan, roundVars>>

Planning == EnterPlan \/ RetryPlan \/ GiveUpPlanning \/ \E n \in 1 .. MaxSteps : AttachPlan(n)

Executing == EnterExecute \/ StepCompletes \/ StructuralFailure \/ ExecuteReturns

Evaluating ==
  \/ EvaluatePasses \/ EvaluateExhausted \/ EvaluateConsults \/ DecideContinue
  \/ \E k \in 0 .. MaxSteps : DecideReplan(k)

Synthesizing == SynthesizeNothing \/ EnterSynthesize \/ SynthesizeOk \/ SynthesizeFails

Judging ==
  \/ JudgeSkipped \/ EnterJudge \/ VerdictAccept \/ AcceptAnyway \/ VerdictResynthesize
  \/ \E k \in 0 .. MaxSteps : VerdictReplan(k)

Crashing == UncaughtModelError \/ UnparsedAnswer

Run == Planning \/ Executing \/ Evaluating \/ Synthesizing \/ Judging \/ Crashing

Next == Run \/ RequestCancel

Spec == Init /\ [][Next]_vars

\* A model call returns or raises, execute_plan returns (Scheduler's Returns), and
\* the event loop resumes the run.  Nobody has to cancel.
FairSpec == Spec /\ WF_vars(Run)

----------------------------------------------------------------------------
(* Safety *)

\* The node visits of any run stay in their budget of rounds, so the recursion
\* limit run_task computes never cuts a run short.
BackstopUnused ==
  /\ visits <= 1 + (MaxReplans + 1) * (4 + 2 * MaxResynth)
  /\ visits <= RecursionLimit

\* A re-plan request is consumed by the evaluation that follows it: none leaks
\* into another execution, which would refuse to launch anything, nor to the end.
ReplanConsumed == replan => at \in {"executing", "evaluate", "deciding", "crashed"}

\* The active plan holds every completed step, through any number of merges: the
\* completion ratio that caps the confidence never exceeds one.
FrozenWorkKept == completed <= planSize

\* What is judged and what is shipped was synthesized from all the completed
\* work, never from the work of an earlier round.
DraftIsCurrent == at \in {"judge", "judging", "end"} => draft.covers = completed

\* An undegraded result is a draft the model wrote from some completed work.
CompletedIsSynthesized ==
  finalResult = "completed" => draft.kind = "model" /\ draft.covers > 0

\* The state and the result the API shows become terminal together, at the end of
\* the run, and agree.
TerminalTogether ==
  /\ taskState \in TerminalState <=> at = "end"
  /\ finalResult # "none" <=> at = "end"
  /\ at = "end" => \/ finalResult = taskState
                   \/ finalResult = "completed_degraded" /\ taskState = "completed"

----------------------------------------------------------------------------
(* Liveness *)

\* A task cancelled before it had a result ends cancelled, however little of it
\* was done and whatever the judge says, unless the run dies.
CancelWins == cancel /\ finalResult = "none" ~> taskState = "cancelled" \/ at = "crashed"

----------------------------------------------------------------------------
(* What README.md says and the code does not do *)

\* README.md:236 and app.py:160: the stream ends, as every task gets to a terminal state.
TaskBecomesTerminal == <>(taskState \in TerminalState)

=============================================================================
