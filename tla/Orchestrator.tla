---------------------------- MODULE Orchestrator ----------------------------
(***************************************************************************)
(* One task from its planner's answer to its final result, with the steps  *)
(* by name: the outer loop composed with an execution of its plan, and     *)
(* what passes between them (the attached plan, the statuses and results   *)
(* the monitor keeps over all rounds, the merges).                         *)
(*                                                                         *)
(* The nodes that look only at counts are OuterLoop's actions; one call of *)
(* execute_plan moves the statuses as PlanRun allows, which Scheduler is   *)
(* proved to implement.  Step ids are sequences: "a" is <<a>>, and the     *)
(* prefix of re-plan round r puts r in front.                              *)
(***************************************************************************)
EXTENDS Integers, FiniteSets, Sequences

CONSTANTS Names,              \* the step names the models' answers use
          Squatted,           \* names the planner also uses in the form "r1_name"
          MaxReplans, MaxResynth, PlannerMaxAttempts, Concurrency,
          MaxSteps            \* bound: the steps one model answer proposes

Drafted    == {<<n>> : n \in Names}

\* The planner's own ids of the form that a re-plan gives to its steps.
Guessed    == {<<1, n>> : n \in Squatted}
PlannerIds == Drafted \cup Guessed

\* merge_replan: the id of step s of the answer in re-plan round r.
Prefixed(r, s) == <<r>> \o s

ReplanIds == {Prefixed(r, d) : r \in 1 .. MaxReplans, d \in Drafted}
StepId    == PlannerIds \cup ReplanIds

ASSUME NamesAssumption == IsFiniteSet(Names) /\ IsFiniteSet(Squatted)
ASSUME BudgetAssumption == MaxReplans \in Nat /\ MaxResynth \in Nat
ASSUME PlannerAssumption == PlannerMaxAttempts \in Nat \ {0}
ASSUME MaxStepsAssumption == MaxSteps \in Nat \ {0}

VARIABLES
  at, visits, attempts, taskState, finalResult, draft, cancel, replan,
  replans, resynthRounds, synthFailed,   \* as in OuterLoop
  plan,     \* monitor.plan, without steps while it is None
  status,   \* monitor.step_status, "none" for an id it never saw
  result,   \* the status of monitor.results[s], or "none"
  ended,    \* steps whose task is done and not yet looked at by _on_done
  expired   \* the deadline has passed

stepVars == <<status, result, ended>>
ctlVars  == <<at, visits, attempts, taskState, finalResult, draft, cancel, replan,
              replans, resynthRounds, synthFailed>>
vars     == <<ctlVars, plan, stepVars, expired>>

INSTANCE PlanLevels

\* completed_step_ids
Completed == {s \in StepId : status[s] = "completed"}

Outer == INSTANCE OuterLoop WITH planSize  <- Cardinality(plan.steps),
                                 completed <- Cardinality(Completed)
Round == INSTANCE PlanRun WITH halted   <- cancel \/ expired,
                               finished <- at # "executing"

Init ==
  /\ plan = [steps |-> {}, deps |-> <<>>, optional |-> {}]
  /\ status = [s \in StepId |-> "none"] /\ result = [s \in StepId |-> "none"]
  /\ ended = {} /\ expired = FALSE
  /\ Outer!Init

----------------------------------------------------------------------------
(* Plans: the models' answers, attach_plan and merge_replan *)

\* Answers with up to MaxSteps steps named in Ids, each depending on ids in Refs.
\* An answer with a duplicate id is refused as one with an unknown reference is.
Answers(Ids, Refs) ==
  UNION {[steps : {S}, deps : [S -> SUBSET Refs], optional : SUBSET S] :
           S \in {T \in SUBSET Ids : Cardinality(T) <= MaxSteps}}

PlannerDrafts == Answers(PlannerIds, PlannerIds)

\* The replacement steps of a decider or judge: by the prompt they build on each
\* other and on completed work.  Bound: all of them optional, or none.
NewSteps == {p \in Answers(Drafted, Drafted \cup Completed) : p.optional \in {{}, p.steps}}

\* attach_plan: setdefault leaves the status of an id it has seen before.
Attach(p) ==
  /\ plan' = p
  /\ status' = [s \in StepId |-> IF s \in p.steps /\ status[s] = "none"
                                 THEN "pending" ELSE status[s]]

RoundNo == replans + 1

Renamed(new) == {Prefixed(RoundNo, s) : s \in new.steps}

\* Mutant of Frozen: every step that has ended stays, failed ones too.
FrozenIfEnded == {s \in plan.steps : status[s] \in {"completed", "failed"}}

\* completed, in merge_replan: the plan's completed steps stay as they are.
Frozen == {s \in plan.steps : status[s] = "completed"}

\* Mutants of Merged: the completed steps are left out; their dependencies are
\* renamed along with the new steps'.
MergedWithoutFrozen(new) ==
  LET Rename(d) == IF d \in new.steps THEN Prefixed(RoundNo, d) ELSE d
  IN  [steps    |-> Renamed(new),
       deps     |-> [s \in Renamed(new) |-> {Rename(d) : d \in new.deps[Tail(s)]}],
       optional |-> {Rename(s) : s \in new.optional}]

MergedRenamingAll(new) ==
  LET Rename(d) == IF d \in new.steps THEN Prefixed(RoundNo, d) ELSE d
  IN  [steps    |-> Frozen \cup Renamed(new),
       deps     |-> [s \in Frozen \cup Renamed(new) |->
                       {Rename(d) : d \in IF s \in Frozen THEN plan.deps[s]
                                          ELSE new.deps[Tail(s)]}],
       optional |-> (plan.optional \cap Frozen) \cup {Rename(s) : s \in new.optional}]

\* The plan's completed steps and the new ones, whose ids get the round's prefix,
\* also where the new steps refer to each other.
Merged(new) ==
  LET Rename(d) == IF d \in new.steps THEN Prefixed(RoundNo, d) ELSE d
  IN  [steps    |-> Frozen \cup Renamed(new),
       deps     |-> [s \in Frozen \cup Renamed(new) |->
                       IF s \in Frozen THEN plan.deps[s]
                       ELSE {Rename(d) : d \in new.deps[Tail(s)]}],
       optional |-> (plan.optional \cap Frozen) \cup {Rename(s) : s \in new.optional}]

Collides(new) == Renamed(new) \cap Frozen # {}

\* merge_replan returns a plan; otherwise it raises PlanValidationError.
Merges(new) == ~Collides(new) /\ Validates(Merged(new))

----------------------------------------------------------------------------
(* plan_node *)

AdoptPlan ==
  /\ at = "planning"
  /\ \E d \in PlannerDrafts : Validates(d) /\ Attach(d)
  /\ Outer!Goto("execute")
  /\ UNCHANGED <<attempts, taskState, finalResult, draft, cancel, replan, replans,
                 resynthRounds, synthFailed, result, ended, expired>>

RefuseDraft ==
  /\ at = "planning"
  /\ \E d \in PlannerDrafts : ~Validates(d)
  /\ UNCHANGED <<plan, stepVars, expired>>
  /\ Outer!RetryPlan \/ Outer!GiveUpPlanning

----------------------------------------------------------------------------
(* execute_node: one call of execute_plan *)

ExecutionFrame == at = "executing" /\ UNCHANGED <<ctlVars, plan, expired>>

StartStep(s) ==
  /\ ExecutionFrame
  /\ Cardinality(Round!Running) < Concurrency
  /\ status' = [status EXCEPT ![s] = "running"] /\ Round!Starts(s)
  /\ UNCHANGED <<result, ended>>

\* Mutant of Recorded: only "failed" counts as a failure.
RecordedByError(r) == IF r = "failed" THEN "failed" ELSE "completed"

\* record_result: anything but "completed" is a failure.
Recorded(r) == IF r = "completed" THEN "completed" ELSE "failed"

EndStep(s, r) ==
  /\ ExecutionFrame
  /\ status' = [status EXCEPT ![s] = Recorded(r)] /\ Round!Ends(s)
  /\ result' = [result EXCEPT ![s] = r]
  /\ ended' = ended \cup {s}

\* _on_done looks at one finished task and may raise the re-plan event.
InspectStep(s) ==
  /\ at = "executing" /\ s \in ended /\ ~replan
  /\ ended' = ended \ {s}
  /\ replan' = (result[s] = "failed" /\ Structural(plan, s, status))
  /\ UNCHANGED <<at, visits, attempts, taskState, finalResult, draft, cancel, replans,
                 resynthRounds, synthFailed, plan, status, result, expired>>

SkipStep(s) ==
  /\ ExecutionFrame /\ ~replan
  /\ status' = [status EXCEPT ![s] = "skipped"] /\ Round!Skips(s)
  /\ UNCHANGED <<result, ended>>

\* A task that stands down, or that a preemption cancels.
CancelStep(s) ==
  /\ ExecutionFrame
  /\ status' = [status EXCEPT ![s] = "cancelled"] /\ Round!Cancels(s)
  /\ UNCHANGED <<result, ended>>

\* Mutant of Returns: leaves the loop as soon as no task is left.
ReturnsOnIdle == Round!Running = {} /\ (replan \/ ended = {})

\* The loop ends with nothing pending and no task, or by a preemption that leaves
\* behind what it had not launched.
Returns ==
  /\ Round!Running = {}
  /\ replan \/ (ended = {} /\ \A s \in plan.steps : status[s] # "pending")

ExecuteReturns ==
  /\ at = "executing" /\ Returns
  /\ ended' = {}
  /\ UNCHANGED <<plan, status, result, expired>>
  /\ Outer!ExecuteReturns

\* Only should_stop_launching reads the clock, so passing earlier shows no sooner.
DeadlinePasses ==
  /\ at = "executing" /\ ~expired
  /\ expired' = TRUE
  /\ UNCHANGED <<ctlVars, plan, stepVars>>

Executing ==
  \/ \E s \in plan.steps :
       \/ StartStep(s) \/ SkipStep(s) \/ CancelStep(s) \/ InspectStep(s)
       \/ \E r \in {"completed", "completed_degraded", "failed"} : EndStep(s, r)
  \/ ExecuteReturns

----------------------------------------------------------------------------
(* evaluate_node and judge_node, where they touch the plan *)

AdoptMerged(new) ==
  /\ Merges(new) /\ Attach(Merged(new))
  /\ replan' = FALSE
  /\ replans' = RoundNo
  /\ Outer!Goto("execute")
  /\ UNCHANGED <<attempts, taskState, finalResult, draft, cancel, synthFailed,
                 result, ended, expired>>

DecideReplan ==
  /\ at = "deciding"
  /\ \E new \in NewSteps : AdoptMerged(new)
  /\ UNCHANGED resynthRounds

VerdictReplan ==
  /\ at = "judging" /\ replans < MaxReplans
  /\ \E new \in NewSteps : AdoptMerged(new)
  /\ resynthRounds' = 0

\* The nodes that leave plan and steps alone.  DecideContinue and AcceptAnyway are
\* also what a merge that raises comes to.
CountedNodes ==
  /\ UNCHANGED <<plan, stepVars, expired>>
  /\ \/ Outer!EnterPlan \/ Outer!EnterExecute
     \/ Outer!EvaluatePasses \/ Outer!EvaluateExhausted \/ Outer!EvaluateConsults
     \/ Outer!DecideContinue
     \/ Outer!Synthesizing
     \/ Outer!JudgeSkipped \/ Outer!EnterJudge \/ Outer!VerdictAccept
     \/ Outer!AcceptAnyway \/ Outer!VerdictResynthesize
     \/ Outer!Crashing
     \/ Outer!RequestCancel

Next ==
  \/ AdoptPlan \/ RefuseDraft \/ Executing \/ DecideReplan \/ VerdictReplan
  \/ CountedNodes \/ DeadlinePasses

Spec == Init /\ [][Next]_vars

----------------------------------------------------------------------------
(* build_final_result *)

\* The plan's steps with their results.
Provenance == {s \in plan.steps : result[s] # "none"}

FailedSteps == {s \in StepId : status[s] = "failed"}

SkippedSteps == {s \in StepId : status[s] \in {"skipped", "cancelled"}}

\* calibrated_confidence, in percent: at most the share of the plan that completed.
Calibrated(confidence) ==
  LET total == Cardinality(plan.steps)
      share == IF total = 0 THEN 0 ELSE (100 * Cardinality(Completed)) \div total
  IN  IF confidence < share THEN confidence ELSE share

\* The steps whose outputs the decider, the synthesizer and the judge are shown.
Rendered == {s \in plan.steps : result[s] = "completed"}

\* _completed_upstream: the dependencies whose outputs the agent of s is given, before
\* they are trimmed to the context's budget.
Upstream(s) == {d \in plan.deps[s] : result[d] = "completed"}

\* _check_attribution
UnknownCitations(d) == d.cited \ plan.steps

\* check_synthesis finds nothing wrong with a draft: what it cites, whether it is
\* blank, and whether it misses the requested format.
Passes(d) ==
  /\ ~(Completed # {} /\ d.blank)
  /\ ~d.misformatted
  /\ UnknownCitations(d) = {}

----------------------------------------------------------------------------
(* Safety *)

\* derive_parallel_groups resolves every step iff no steps wait on each other, and
\* puts each step into the first group that comes after all of its dependencies.
\* A wrong count would refuse a sound plan or let one through that never ends.
KahnDecides ==
  at = "planning" => \A S \in SUBSET PlannerIds : \A D \in [S -> SUBSET S] :
    LET p == [steps |-> S, deps |-> D, optional |-> {}]
    IN  ReferencesOK(p) =>
          /\ DerivesGroups(p) <=> Acyclic(p)
          /\ Acyclic(p) => \A n \in Rounds(p) :
               Groups(p)[n] = {s \in S \ Before(p, n) : D[s] \subseteq Before(p, n)}

\* The attached plan is sound however often it was merged: its steps refer to each
\* other, none waits on itself, and its completed steps are all there.
PlanSound == plan.steps # {} => IsPlan(plan) /\ ValidPlan(plan) /\ Completed \subseteq plan.steps

\* An agent has the outputs of all the steps it depends on at hand, over all rounds (those
\* it takes its input from: not a research step with a topic, nor an analysis step with
\* data of its own), and the engine's own models are shown all the completed work: nothing is made
\* from less, and a draft that cites any of it is not held against its author.
GroundedInputs ==
  /\ \A s \in plan.steps : status[s] \in {"running", "completed"} => Upstream(s) = plan.deps[s]
  /\ at \in {"deciding", "synthesizing", "judging"} => Rendered = Completed
  /\ at = "judging" => Passes([cited |-> Completed, blank |-> FALSE, misformatted |-> FALSE])

\* Completed work is frozen: no later round drops it, runs it again or changes what
\* it was made from.
FrozenForGood ==
  [][\A s \in Completed : /\ s \in plan'.steps /\ plan'.deps[s] = plan.deps[s]
                          /\ status'[s] = "completed" /\ result'[s] = result[s]]_vars

\* No plan is handed to execute_plan with a step that is lost already, which no one would
\* run, count as a failure or ask the decider about: a merge leaves the lost steps of the
\* earlier rounds behind, and attach_plan finds no trace of a new step's id.  It finds one
\* only for an id that the planner wrote itself in the form of a re-plan's.
HandedOverFresh ==
  at = "execute" =>
    \A s \in plan.steps : status[s] \in {"pending", "completed"} \/ s \in Guessed

\* The final result accounts for the plan.  A step it lists nowhere (no result, not
\* failed, not skipped) was left behind by the failure of crucial work; and it is
\* fully confident only when every step completed.
ResultHonest ==
  at = "end" =>
    /\ ~(plan.steps \subseteq Provenance \cup FailedSteps \cup SkippedSteps)
         => \E f \in plan.steps : result[f] = "failed" /\ f \notin Completed
    /\ Calibrated(100) = 100 => plan.steps = Completed

\* The outer loop that only counts is what this composition does.
ImplementsOuterLoop == Outer!Spec

=============================================================================
