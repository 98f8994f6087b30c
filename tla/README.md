# A verification project for the Agent Orchestration Platform

The platform takes a goal, has a model plan it as a DAG of steps, runs the steps
concurrently on four kinds of agents, re-plans when crucial work is lost,
synthesizes an answer and has it judged. These modules model its engine
(`app/src/engine`), its HTTP API (`app/src/api`) and its four agents
(`app/src/sub_agents`) in TLA+; TLC checks them on small instances and TLAPS proves the
most important invariants for every value of the constants.

Paths below are relative to the repository; those of engine files to
`app/src/engine/`, those of agents to `app/src/sub_agents/`.

## Inventory

| Component | State | Operations | Modelled in |
| --- | --- | --- | --- |
| Inner scheduler, `scheduler.py` | pending set, in-flight tasks, semaphore | `execute_plan`, `_launch_ready`, `_run_one`, `_on_done`, `_cancel_inflight` | `Scheduler`, abstractly `PlanRun` |
| Run monitor, `monitor.py` | step statuses, results, trace, cancel/re-plan signals, deadline, draft, final result, task state | start, record, mark, request, classify, attach | `Scheduler` (one call), `Orchestrator` (all rounds), `OuterLoop` |
| Plans and validation, `schemas/plan.py`, `validation.py` | none | structural, referential and cycle checks, parallel groups | `PlanDag`, `PlanLevels` |
| Outer loop, `nodes.py`, `graph.py` | graph state (budgets used, decision), position | five nodes, three routers, the recursion limit | `OuterLoop`, `Orchestrator` |
| Planner, `planner.py` | attempts | bounded re-asks | `OuterLoop`, `Orchestrator` |
| Re-plan decider and merge, `evaluation.py` | none | verdict, merge with renaming | `Orchestrator` |
| Synthesizer, judge, `synthesizer.py`, `synthesis_judge.py` | none | draft, fallback, checks, verdict, final result | `OuterLoop`, `Orchestrator` |
| Registry and HTTP API, `runs.py`, `api/` | monitors and tasks by id | submit, poll, stream, cancel | `TaskApi` |
| Dispatch, `dispatch.py`, `registry.py` | none; worker threads | route a step to its agent, with its upstream results | `Dispatch`, `Orchestrator` |
| Writing agent, `writing/` | graph state: texts, issues, cycles | generate, edit, format, judge | `WritingLoop` |
| Code agent, `code/` | graph state: code, parse state, problem, attempts | generate, judge, refine | `CodeLoop` |
| Research agent, `research/` | per-attempt context: search count, sources | agent loop, `web_search`, re-asks, summary | `ResearchLoop` |
| Analysis agent, `analysis/` | per-call context: compute count, tokens | agent loop, `compute`, summary | `AnalysisLoop`, `Metrics` |
| Search client and caches, `services/`, `general_utils/caching.py` | TTL cache | get, set | `ResearchLoop` (search only) |
| Model-call helpers, `general_utils/` | attempts, token counts | call with bounded retry, middleware | inside the loops |
| Prompts, configuration files, CLI, evaluation scripts | | | left out: text, I/O, offline scoring |

How they interact. `POST /tasks` creates a monitor and an asyncio task that drives
the graph. Every node reads and writes that monitor; `execute` hands it to the
scheduler, whose tasks write statuses and results into it, and a re-plan merges new
steps into its plan. The API handlers read it between any two awaits and one of them
sets its cancel signal. The re-plan signal goes from the scheduler (a structural
failure) to `evaluate`, which clears it. All of this runs on one event loop, so code
between two awaits is atomic; only model calls, the `compute` calls of the analysis agent
and the writing agent as a whole run in worker threads, which all tasks share.

What is hard here, and which properties are about it, is listed with its lines under
`hazards` in `PROJECT.json`. In short: tasks that end while the scheduler handles
others; permits in the presence of cancellation; results that arrive during a
preemption; several failures in one wake-up; merges of merges, and ids that come back;
statuses and results that outlive the plan they belong to; signals that outlive their
round; drafts that outlive the work they are made from; two loops that share a budget; a
cancel at any moment; threads that nobody waits for any more; clients that look at a run
between two of its steps; exceptions where no node catches them; verdicts on a text or a
piece of code that has changed since; parallel tool calls on one budget.

What makes each component correct. Scheduler: a step runs only after its
dependencies completed, as early as that allows, never more at once than the
permits; every step of a call that was not preempted is accounted for; an ended step
never changes. Validation: it refuses exactly the plans that could not run to their end.
Merge: completed work survives it, and what it makes is again a valid plan. Agents: they
stop within their budget of rounds and calls, and what they ship is what was judged,
with the verdict and the evidence that belong to it. Monitor: status, result and trace
agree. Outer loop: budgets hold, nothing stale is judged or shipped, every run ends, a
cancel wins. API: the state and the result become terminal together, and a watching
client sees the end. Dispatch: no call waits for nobody, and none waits forever.

## Modules

- **`PlanDag`** — plans as `[steps, deps, optional]`, what the validator admits, the
  transitive dependents of a step and `Structural` (`classify_failure`). The
  validator's Kahn iteration and the worklist of `transitive_dependents` are given by
  what they compute: no set of steps waits on itself; the least set closed under
  "depends on". Agent, action and input of a step are not told apart, so the
  allowlist check always succeeds. A plan is a set of steps, so a list with duplicate
  ids, which the validator refuses, cannot be written down.
- **`Scheduler`** — one call of `execute_plan`. `pc` is where the scheduler coroutine
  is (`start`, `waiting` in `asyncio.wait`, `cancelling` in the gather of
  `_cancel_inflight`, `returned`); `task[s]` is the asyncio task of step `s`. One
  action is the code between two awaits: `Begin` and `WakeAndLaunch` are a turn of the
  `while` loop, `WakeAndPreempt` and `FinishPreempt` the two halves of a preemption,
  `StartStep`, `StandDown`, `FinishStep` and `Unwind` the pieces of `_run_one`.
  `RequestCancel` and `DeadlinePasses` are the environment. A run starts with a fresh
  plan, or with a merged one whose frozen steps are completed; and as `attach_plan` keeps
  the status of an id it has seen (`monitor.py:183`), any of its other steps may start
  lost, with the record (`LostRecord`) an earlier round left. `inherited` is a history
  value: which steps those were. The call never launches them.
- **`PlanRun`** — what a caller of `execute_plan` may rely on, without tasks and
  permits: how each status may move. `Scheduler` is shown to implement it
  (`ImplementsPlanRun`), with `halted <- cancel \/ expired` and
  `finished <- pc = "returned"`.
- **`OuterLoop`** — `run_task` through the graph. `at` is the node about to run, or
  what it awaits (`planning`, `executing`, `deciding`, `synthesizing`, `judging`).
  Model answers are nondeterministic: any verdict, any number of new steps up to
  `MaxSteps`, an exception, an answer that did not parse. Plans are counted:
  `planSize`, `completed`. `Goto` counts node visits against the recursion limit that
  `run_task` passes to LangGraph. `draft.covers` is a history value: how many
  completed steps the draft was made from. `executing` lets steps complete in any
  number until a structural failure; after a cancel the code completes only steps that
  already run, so the model allows a little more than the code here.
- **`Orchestrator`** — the composition: one task from the planner's answer to its final
  result, with the steps by name. It INSTANCEs `OuterLoop` with `planSize` and
  `completed` replaced by the cardinalities of the named plan and of the completed steps,
  and `PlanRun` for the moves of the statuses; the nodes that look at counts only are
  `OuterLoop`'s own actions. Its own are what passes between the rounds: the
  planner's drafts and their validation, `attach_plan` (which keeps the status of an id
  it has seen), `merge_replan` with its `r1_` renaming and its collisions, results and
  `record_result`, `_on_done`, what a preemption leaves behind, and the lists and the
  calibrated confidence of the final result. Ids are sequences, so that `<<1, "a">>` is
  both the renamed `a` of round 1 and an id the planner may have used itself
  (`Squatted`). In an execution each status moves as `PlanRun` allows, which `Scheduler`
  is proved to implement; to that come the results, the tasks not yet looked at
  (`ended`) and the two ways out of the loop (`Returns`).
- **`PlanLevels`** — Kahn's peeling as the validator runs it, in-degrees per round as a
  recursive function, beside `PlanDag`'s declarative `Acyclic`. `KahnDecides` compares
  the two, and `KahnCorrect` proves them equal for every finite plan.
- **`Dispatch`** — the worker threads under several runs: which call is queued, which one
  a thread is at, which answer is there and not yet taken. A call is named by its run,
  round and step (or `Engine`), so an abandoned call of an earlier round is told apart.
  The analysis agent's computations, which run in the same threads, are left out: they are
  short and wait for nobody. Cancelling a task drops a queued call, but a call that a
  thread has begun runs to its end. The planner's repeated attempts and re-synthesis are
  left out: they repeat a call that is there.
- **`TaskApi`** — extends `OuterLoop` with a client: submission, cancel, and a stream
  that wakes, compares its key and sends a frame. The read-only endpoints are operators
  (`GetStatus`, `GetResult`, `GetPlan`) that the properties compare with the stream.
- **`BoundedReview`** — what a reflection loop promises: it submits, is sent back at
  most `budget` times, each time with a review of what it last submitted, and ships only
  what was reviewed last. `WritingLoop` and `CodeLoop` implement it; the budget is a
  variable, as the code agent's depends on its tier.
- **`WritingLoop`** — the writing agent's graph. `at` is the node whose call is awaited;
  `CallRetried` and `CallExhausted` are the retry of `invoke_structured`, `Unparsed` an
  answer that does not parse. Texts are told apart by the run of the node that made
  them (`edit_runs`, `format_runs`); `content` is the edit the current formatting came
  from and `about` the formatting the judge answered last. The verdict `none` is
  the empty string of the code. Left out: word counts, tokens, and the fallback to the
  draft of an edit that came back empty, which makes no difference to when it was made.
- **`CodeLoop`** — the code agent's graph on both tiers: the first judged by its parser,
  the second by the critic. Whether a version of the code parses is nondeterministic, per
  version. `corrections` counts the calls of the critic and of the refiner, which are the
  same model and which the estimate prices together.
- **`ResearchLoop`** — `run_research_agent`: the tool loop of one attempt, the
  `web_search` calls of a turn interleaving at their await, the cache behind them, the
  re-asks of a malformed call with a fresh context, the closing summary. Hits are told
  apart by the query they answer; a hit without a usable URL counts as none. A slot
  that is not called stands for a call of `think`. `EntryExpires` is the passing of
  time. A model injected by a test, which is never re-asked, is left out, and so is
  compaction.
- **`AnalysisLoop`** — `run_analysis_agent`: the agent loop, the `compute` calls of a turn
  in their threads, the model-call limit, compaction (`Compacts`, at most once before each
  model call but the first), the summary. `tokens_used` has one token per call that
  `capture_usage` sees; the history value `spent` has one per call made. A thread can be
  interrupted at a call, so counting and testing the count is one step and working the
  call out another; whether that yields a result, an error or an exception is
  nondeterministic. A thread goes on after the agent has failed.
- **`Metrics`** — what `compute` returns, as pure functions over a dataset: a value is
  an int, a float, a text or missing, together with what its `str()` equals and, for a
  number, what it adds up to in units of one `Scale`-th. Every finite float is a whole
  number of such units for some `Scale`, which is a constant; the average alone is
  rounded, to ten-thousandths. A Boolean is an int with another text. A dataset is a
  list and the positions of the dicts in it, which stand for the list without the rest.
- **`MCScheduler`** — every plan of up to `MaxSteps` steps up to renaming, for TLC.
- **`Scheduler_proofs`**, **`Orchestrator_proofs`**, **`OuterLoop_proofs`** (with
  `TaskApi`), **`Dispatch_proofs`**, **`WritingLoop_proofs`**, **`CodeLoop_proofs`**,
  **`ResearchLoop_proofs`**, **`AnalysisLoop_proofs`** (with `Metrics`) — the theorems.

Operators whose comment begins with "Mutant" are faulty variants of the definition
that follows them. No specification uses them; each is a bug that one of the
properties must detect when it replaces the real definition.

### Where the scheduler model is wider than asyncio

A task that waits for a permit gets one in any order (asyncio is first come, first
served), and the scheduler may wake any time after a task finished (asyncio wakes it
within a loop iteration, with the tasks done so far). `FinishPreempt` is a step of its
own also when nothing is in flight. The safety results therefore hold for the
narrower behaviours too. A runner is assumed to return an `AgentResult`:
`dispatch` turns every exception except cancellation into a failed one. In `Dispatch`
any idle step may start, whatever its dependencies, for the same reason.

## Runs

| Run | Question | Bounds |
| --- | --- | --- |
| `scheduler_safety` | Do launches, skips, preemption and the state left behind obey the rules in every interleaving? | all DAGs and optional-flags of 1 to 4 steps, frozen prefixes, 2 permits, cancel and deadline at any moment; steps lost before the call in plans where steps plus lost steps are at most 4 (`MaxWeight`) |
| `scheduler_steps` | Can a step undo something? Does the call return? Does it implement `PlanRun`? | 3 steps, of which up to 2 lost before the call (`MaxWeight` 5), 2 permits |
| `orchestrator` | Does Kahn's peeling decide what it should? Is every merged plan sound and its completed work frozen? Is none handed on with a step that is lost already? Is everything an agent or a model is given there, and is the final result honest? Does the composition implement `OuterLoop`? | 2 names, one of them also used with a round's prefix; 2 steps per answer, 1 re-plan, 1 re-synthesis, 2 planner attempts, 2 permits |
| `task_api` | Budgets, stale signals and drafts, terminal states, a client's stream; does the stream end, does a cancel win? | 2 re-plans, 1 re-synthesis, 2 planner attempts, 3 steps per answer, one client |
| `dispatch` | How many agents of a round are at work? Does a call wait for nobody? Does every run end? | 2 runs of a writing and a code step, 1 permit each, 2 threads, 2 re-plans |
| `analysis_loop` | Does the compute budget hold, and is the model told the truth about it? Which calls of a model does the result report? Do the metrics agree with each other? | 3 calls per turn, 4 computations, 4 model calls; compaction before any model call but the first; all datasets of up to 3 rows with 2 fields and 6 values, among them a float of 1/32768 |
| `writing_loop` | Is the shipped text the one that was read last? Are its issues current? Does it implement `BoundedReview`? | 2 revisions, 3 attempts per call |
| `code_loop` | Does the output carry the verdict on its own code? Do the calls stay in the estimate? Does it implement `BoundedReview`? | 8 and 5 retries |
| `research_loop` | Do parallel searches stay in the budget? Does the confidence rest on the summarized attempt? | 2 queries, 2 calls per turn, 2 searches, 2 model calls, 1 re-ask |
| `crucial_failure_unconsulted` | finding: a degraded result of a non-optional step never reaches the decider | 2 steps |
| `task_never_terminal` | finding: a model exception leaves the task non-terminal for good | budgets of 1 |
| `calls_capped` | finding: threads of a preempted round go on beside the next round's agents | as `dispatch` |

What they show. All properties of the passing runs hold: in particular, no interleaving
of tasks, results, a cancel and a deadline launches a step too early or too late, loses a
result or a step, or lets a completed step be touched again, within one call
of `execute_plan` or over the rounds of a task; a merge never makes a plan that
waits on itself, also when the planner already used ids of the form `r1_a`; and the
budgets end every run that does not die of an exception.

Six of the properties say exactly how far the code goes, and are worth reading as such.
`CrucialLossConsulted` excepts calls whose agents returned a degraded result (finding 1),
and the steps that were lost before the call or depend on one that was; `HandedOverFresh`
shows when a call gets such a step at all: only when the planner itself wrote an id of the
form that a re-plan gives to its steps. `SpendReported` says what is missing from a
reported spend: the calls that compacted the history, each of them, and nothing else.
`ResultHonest` allows a step that the final result lists nowhere, if a step of the plan
failed: a preemption leaves behind what it had not launched, and when the decider then
says "continue", or no re-plan is left, those steps stay `pending`. `CappedByRound` bounds
the agents at work of *one* round; the sum over the rounds is finding 3. `MetricsAgree`
excepts the text `None`, which in a filter also finds the rows whose field is missing; it
compares sums over filters for ints only, as sums of floats depend on the order of adding;
and it lets the rounded average lie outside the minimum and the maximum, by less than a
ten-thousandth: the average of rows that are all 0.12344 is given as 0.1234.

Why the bounds are enough. Four steps give chains, diamonds, two independent
branches and a step with three dependents; with two permits there are steps that run,
one that waits for a permit and one that is not launched, all at once, so every
branch of the scheduler meets every other. Two structural failures can be in one
wake-up, and their cascades can overlap. Liveness and refinement use three steps,
which still has a queue for the permits and a cascade of two.
A step that starts the call lost counts twice against `MaxWeight`. Three steps of which
one is lost are enough for a lost step that others depend on, directly or through one
another, for one beside the others, and for one at the end of what is run.

The orchestrator's plans are small because all of them are tried, with every wrong
reference and every optional flag. Two steps per answer give a completed and a lost step
in each round, a new step that depends on a frozen one, on another new one, or on
both, and a collision of a renamed id with one of the planner's; the re-plan comes
from the evaluator or from the judge. With one re-plan there are merges of a plan but
none of a merged plan. `KahnDecides` looks at every graph over three ids. The theorems
remove these bounds: they hold for any names, any plan sizes and any number of re-plans.

For the task, two re-plans and a re-synthesis are what it takes for a re-plan by the
evaluator to meet one by the judge, with a re-synthesis in each round; the theorems
remove the bound. `BackstopUnused` cannot be seen on one instance only, as the recursion
limit is a formula of the budgets, and is proved for all of them. One client is enough:
streams do not interact, and change nothing.

Two runs, two threads and one step in a thread for each run let both threads be taken by
abandoned calls while the runs' own calls wait, which is the case where a run could
starve; with two re-plans a run can abandon calls twice. Three parallel computations
on a budget of four meet the budget's end in the middle of a turn. One 32768th is less
than half a ten-thousandth, so the average of such floats is rounded to zero.

The writing loop with two revisions has a first, a middle and a last cycle. The code
loop is linear and its state space small, so its retries are set above the configured
ones at no cost. Two searches of a turn on a budget of two, over two turns and two
attempts, are enough for a budget passed by an interleaving, a cached answer beside a
pending one, and sources of an attempt that was thrown away. The theorems remove all of
these bounds.

Deadlock checking is off: `execute_plan` returns, a run ends and an agent answers; that
the first two get there is checked as liveness. Every step of an agent's loop, the
expiry of a cache entry aside, is a model call, a tool call or the one that returns, so
the bounds on calls (`CallBudget`, `WithinEstimate`, `TotalBudget`, `BudgetHonest` with
the limit on model calls) are also the reason why they end, and their modules assume no
fairness.

### Fairness

`Scheduler`: weak fairness of the scheduler coroutine and of each step's task. It
stands for three facts: asyncio resumes a coroutine whose await is over; a released
semaphore wakes a waiter; an agent call returns. The third is an assumption on the
agents: `step_timeout_seconds` is configured (`schemas/config.py:92`) but nothing
enforces it. `RequestCancel` and `DeadlinePasses` are not fair.

`TaskApi`: weak fairness of the run as a whole (`RunStep`) and of the stream's turns. A
model call returns or raises (`invoke_structured` stops after three attempts),
`execute_plan` returns, which is `Returns` of the scheduler, and the stream's sleep ends.
Which answer comes is not subject to fairness, so `StreamsEnd` and `CancelWins` do not
rely on a judge that finally accepts: the budgets end the run. No client has to come.

`Dispatch`: weak fairness of each run, and of each call's being taken up by a thread and
ending there. The executor's queue is first come, first served, so a call that waits is
taken up as soon as threads keep coming free; that they do is the assumption on
model calls again. Preemption and submission are not fair.

## What is proved

With TLAPS, for every plan, concurrency and budget:

- `Scheduler_proofs`: `IInvInvariant` shows `IInv` inductive. `DependenciesMet` is not
  inductive alone. What a step's task may do next depends on how it was launched, so
  `LaunchInv` says that a task exists only for a step whose dependencies completed;
  `PcInv` ties the tasks to where the scheduler is (no task once it has returned, none
  being cancelled before a preemption); `TaskInv` ties each task's stage to its step's
  status; `PermitInv` says that the free permits and the tasks that hold one add up to
  the concurrency, which keeps `sem` in its range when a permit is handed back. The
  holders are not the running steps: a cancelled task may have returned its permit
  while its step still shows `running`, so the cap on running steps is a conjunct of
  its own. From it: `TypeCorrect` and `DependenciesAlwaysMet`.
  `RefinesPlanRun`: every step of the scheduler is a step of `PlanRun` or a stutter. It
  needs `AccountInv` beside `IInv`: while the scheduler sleeps every pending step is in
  the pending set or has a task, so the last skip of a returning call leaves nothing
  pending, and each status agrees with its result. The turn of the loop (`LaunchMoves`)
  is the hard case: a step is skipped for a dependency that is skipped in the same turn.
  `AlwaysCapped`, `AlwaysRecorded` and `AlwaysReturnsClean` follow from the invariants;
  `AlwaysSkipJustified`, `AlwaysCooperativeStop` and the status half of
  `TerminalAlwaysFinal` from the abstract run; `AlwaysQuietAfterPreempt` from the
  actions enabled after a re-plan request.

  `AlwaysLaunchedAtOnce` rests on `WaitInv`: a step that waits has a dependency that has
  not completed, or one whose completion the scheduler has not been woken for yet
  (`TurnWaits`: what a turn leaves waiting was not ready).
  `CrucialLossAlwaysConsulted` rests on `LossInv`: while no one stops the run and no
  agent degrades, each lost step that was looked at was doomed before the call, or is
  harmless, optional as are all that depend on it; a cascade passes either on to the
  steps it skips (`DirectDependent`). The theorems hold whatever was lost before the call.
- `Orchestrator_proofs`, about a task by name:
  - `KahnCorrect`: for every finite plan, Kahn's peeling resolves every step exactly when
    the plan is acyclic. In-degrees per round are shown to be what is left of the
    dependencies (`GroupFromCounts`); a plan that peels has no cycle because of a set of
    steps that wait on each other none could be the first one peeled (`PeelingSound`),
    and an acyclic plan peels because the steps left after a round have one without
    dependencies among them (`RoundResolves`).
    Inductions are replaced by minimal counterexamples (`LeastNat`), as no
    induction theorem with an operator for a parameter can be used.
    `KahnAlwaysDecides` carries it to the drafts of the planner.
  - `CompositionInvariant`: `OInv`. `StateOK` says that the active plan is valid, that is,
    references its own steps and has no cycle; for a merge this is `KahnCorrect` again, as
    the merged plan is validated before it is adopted (`MergesPlan`, which also shows that
    the merge changes no dependency of a frozen step); `KeptInv` that the plan has every
    completed step; `RecordInv` that statuses and results go together, over all rounds;
    `GroundInv` that what runs or has completed has completed dependencies; `SignalInv`
    that a raised re-plan signal has a failed step behind it, and that what an execution
    left pending was left by a failure. They need each other: a merge keeps exactly the
    steps that are completed by status and by result, and a step ends with dependencies in
    the plan.
  - From it `PlanAlwaysSound`, `AlwaysGrounded`, `CompletedWorkFrozen` (no step of the
    whole task touches a completed step or its dependencies) and `ResultAlwaysHonest`
    (with `FullShare`, about the calibrated confidence).
  - `AlwaysHandedOverFresh`, by `FreshInv`. That no step of a handed-over plan is lost is
    not inductive: it needs `SeenInv`, that the ids the monitor has seen are the
    planner's or carry the prefix of a round there has been, so that the next round's
    prefix is new (`RenamedUnseen`).
  - `ComposesOuterLoop`: the composition implements `OuterLoop`, by what each merge and
    each attached plan does to the two cardinalities; and `LoopAlwaysHolds`, which
    carries the theorems about `OuterLoop` over: in a task by name, too, the recursion
    limit cuts no run short and what is shipped covers the completed work.
- `OuterLoop_proofs`: `LoopInvariant`. `BackstopUnused` needs `VisitsInv`, a bound on the
  node visits for each place, of the form *re-plans so far x visits of a round + part of
  this round*, and the facts that the re-syntheses start from zero in each round and that
  the decider is only asked with budget left. `WorkInv` and `DraftInv` carry
  `FrozenWorkKept`, `DraftIsCurrent` and `CompletedIsSynthesized`. `ApiRunsTheLoop` says
  that all a client's request can do to the run, to cancel it, is a step of the run's own,
  so that all this holds of `TaskApi`; `FrameInv` adds that a frame never runs ahead of
  the run and that a terminal one is what there is to show, from which
  `StreamAlwaysShowsEnd` and `ProgressAlwaysSound`.
- `WritingLoop_proofs`: `WritingInvariant`. `CallBudget` is not inductive: `WritingInv`
  bounds the calls at each node by the cycles completed, and ties the runs of edit and
  format to what is shown to the judge, which gives `ShipsReviewedText` and
  `IssuesCurrent`.
- `CodeLoop_proofs`: `CodeInvariant`, which ties the parse state to the version that
  was judged and the calls to the attempts made, on each tier.
- `ResearchLoop_proofs`: `ResearchInvariant`. A run is charged its earlier attempts in
  full and the current one for what it used; `collected` and the history of what this
  attempt was given are equal.
- `Dispatch_proofs`: `DispatchInvariant`. The cap on a round is not inductive: a call
  that a thread begins must belong to a step that still holds a permit. That is
  `NothingForNobody` for queued calls, with `WorkInv` for begun ones: none belongs to a
  later round, and one of the current round to a step that is being worked on, as long
  as the run executes. `Apart` (a call is queued, begun or answered, never two of them)
  is what an ending step and a run that takes its answer rely on. `BegunInv` then
  carries the cap over a preemption, when the permits are free and the threads are not.
- `AnalysisLoop_proofs`: `AnalysisInvariant`. While computations run, what is left of the
  budget is told already or held by one of them (`ToldInv`); when the turn is over none
  is, so it was told, and it is the least value told because nobody was told less.
  `SpendAlwaysReported` follows the two counts apart by the compactions (`SpendInv`).
  `AgreeOnAnyRows` proves what `MetricsAgree` says of three rows for any finite set of
  them, with any texts, ints and floats of any `Scale`: each metric is brought to the size
  of a set of rows or to a sum over one. The sum that `MapThenSumSet` computes is the
  solution of a recursive equation (`SumExists`, `SumIs`) that does not depend on the
  order of adding (`SumOrder`); its laws are proved on a smallest subset that would break
  them (`LeastSubset`). `SumByLabel` then says that the filters for all labels find each
  row once, and `IsMean` and `RoundedBetween` put the rounded average less than a
  ten-thousandth beyond the bounds.

The assumptions are those named in the modules: at least one permit, finitely many step
ids, finitely many names a model may give a step (`NamesAssumption`; an answer is a finite
text), steps per answer at least one, `None` is no step and no status, budgets are
naturals, a `Scale` is positive, at least one planner attempt, at least one attempt per
structured call.

Some theorems state properties that no run repeats, because the proof covers every
instance and a run would show less: `AlwaysCapped`, `AlwaysSkipJustified`,
`FrozenWorkAlwaysKept`, `AlwaysInTotalBudget`, `AlwaysFailsWhenExhausted`,
`CompletedAlwaysSynthesized` (an undegraded result was written by the model),
`AlwaysDegradedAtCap`, `AlwaysInCallBudget`, `AlwaysGivesUpAtBudget` and the type
invariants of the loops.

Only model-checked is liveness: `Returns`, `RunsEnd`, `StreamsEnd` and `CancelWins`. It
needs fairness, which is out of the prover's reach. Every other property of a passing run
is stated by a theorem.

## Findings

Each has a run that must find the violation, and an entry in `PROJECT.json`.

1. `completed_degraded` is recorded as a failure but not classified as one, so a
   non-optional step can be lost without the decider (`monitor.py:227`,
   `scheduler.py:105`). `CrucialLossConsulted` shows that within a call nobody stops this
   is the only way; the other is a step that was lost before the call, below.
2. An exception from the planner's or the decider's model call, or an answer of any of
   the engine's calls that does not parse, leaves the task in `planning` or `executing`
   for good: no result, a stream that does not end.
3. A preempted writing step hands its permit back while its thread and the model call in
   it go on, so over the rounds more calls are at work than the semaphore allows
   (`dispatch.py:102`); `DECISIONS.md:71-72` says that it caps simultaneous calls.

Noticed while reading, without a run of their own:

- a structured call whose answer did not parse returns `None`, as `include_raw=True`
  returns instead of raising: it is not asked again (`agent_base.py:70`, where
  `app/SECURITY.md:27` says bounded retry), and `synthesize_node` and `judge_node` use
  it after their `try`, where `DECISIONS.md:121` says that synthesis never crashes a run;
- `assemble_result` of the writing agent drops open issues when the verdict is
  `return` (`writing/agent.py:99`); its docstring says `completed_degraded`;
- from the first refinement on the critic judges code its own model wrote
  (`code/agent.py:56`), while `code/README.md:41-43` relies on a different one;
- `attach_plan` lets a new step inherit the status of an equal id (`monitor.py:183`).
  When the planner wrote an `r1_` id itself, the inherited status can be `failed`,
  `skipped` or `cancelled`; the step then never runs, its loss is not a failure that
  anyone classifies, and it is listed as lost (`HandedOverFresh` shows that there is no
  other way to such a step, `CrucialLossConsulted` that it takes only its dependents along);
- the calls of the cheap model that compact a history are counted nowhere:
  `capture_usage` adds up the latest message of the main model only
  (`middleware.py:67-79`, `analysis/agent.py:55`), so a long analysis reports less than it
  spent;
- `step_timeout_seconds` and `max_steps` are configured and documented, and read by
  nothing; the deadline stops launches but is not a budget of the whole run;
- an arithmetic expression such as `2(3)` raises a `TypeError` that `compute` does not
  catch, which fails the analysis agent;
- the docstring at `monitor.py:11-13` describes the classifier before it was changed
  (`DECISIONS.md:115`); `edit_ok` and `format_ok` of the writing agent's verdict are read
  nowhere; the cancel endpoint answers `cancelled` also for a finished task;
  `DECISIONS.md:96` says six attempts where `agent_base.py:53` has three; a research
  result's tokens leave out the attempts that were thrown away; an analysis estimate
  is for fewer calls than its limit allows.

## Not modelled

- Prompts, wording and layout of what models and agents are given. `Orchestrator` says
  *which* outputs they are given; that these are trimmed to a budget of characters, from
  the end, is left out, and so is that a research step with a subtopic of its own is not
  given its upstream outputs.
- The text of the fallback answer and of the final result; `OuterLoop` has only its kind
  and what it covers.
- Totals of tokens and costs over a task, the price cards and the token estimate:
  bookkeeping no decision depends on. `SpendReported` covers the one place where two
  counts meet.
- Infinities, NaN, ints that no float holds exactly, and the rounding of sums of floats
  in `Metrics`; and the parser of arithmetic expressions: whether an expression
  evaluates is nondeterministic.
- The threads that the analysis agent's computations take from the executor of `Dispatch`.
- Compaction of the research agent's context; the process-wide cache of model answers,
  which is only set up.
- Loading configuration (the bounds are the modules' constants), the command line, the
  server's entry, the health probe and the agent catalog: I/O and constants.
- The evaluation scripts under `app/evals`, which score the program offline.

There is no crash recovery to model: the registry and the monitors are in memory, and a
restart forgets every task.

## Plan

Done: all modules above, their runs, and a theorem for each safety and action property of
the runs. Next:

1. `ResearchLoop`: what a failed search does to the calls that share its cache entry, the
   one hazard without a property.
2. `Dispatch`: that it implements `PlanRun` for each run, as `Scheduler` does.
3. `Metrics`: the remaining arithmetic of formulas, beyond a percentage.

## Checking it

    tlc -workers 2 -config MCScheduler.cfg MCScheduler
    tlc -workers 2 -config MCSchedulerLive.cfg MCScheduler
    tlc -workers 2 -config MCOrchestrator.cfg Orchestrator
    tlc -workers 2 -config MCTaskApi.cfg TaskApi
    tlc -workers 2 -config MCDispatch.cfg Dispatch
    tlc -workers 2 -config MCAnalysisLoop.cfg AnalysisLoop
    tlc -workers 2 -config MCWritingLoop.cfg WritingLoop
    tlc -workers 2 -config MCCodeLoop.cfg CodeLoop
    tlc -workers 2 -config MCResearchLoop.cfg ResearchLoop
    tlapm Scheduler_proofs.tla
    tlapm Orchestrator_proofs.tla
    tlapm OuterLoop_proofs.tla
    tlapm WritingLoop_proofs.tla
    tlapm CodeLoop_proofs.tla
    tlapm ResearchLoop_proofs.tla
    tlapm Dispatch_proofs.tla
    tlapm AnalysisLoop_proofs.tla
