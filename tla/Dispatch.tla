------------------------------ MODULE Dispatch ------------------------------
(***************************************************************************)
(* The event loop's tasks and the worker threads under them.  Every model  *)
(* call of the engine itself, and the whole writing agent, is a blocking   *)
(* call in a thread of the process-wide executor (asyncio.to_thread); the  *)
(* other agents are coroutines.  A pre-empted task gives its permit back   *)
(* at once, but a call that a thread has begun cannot be taken back.       *)
(*                                                                         *)
(* Actors: the runs, their step tasks, and the worker threads.  Which step *)
(* may start is Scheduler's matter; here any idle step may.  Left out are  *)
(* the planner's second attempt and re-synthesis, which repeat a call, and *)
(* the analysis agent's computations, short calls in the same threads that *)
(* wait for nobody.                                                        *)
(***************************************************************************)
EXTENDS Integers, FiniteSets

CONSTANTS Runs,         \* tasks submitted to one process
          Steps,        \* the steps of a plan
          Threaded,     \* those of the writing agent
          Engine,       \* stands for the run itself as the one that waits for a call
          Concurrency,  \* permits of one execution
          Workers,      \* threads of the executor
          MaxReplans

ASSUME StepAssumption == IsFiniteSet(Steps) /\ Threaded \subseteq Steps /\ Engine \notin Steps
ASSUME SizeAssumption == Concurrency \in Nat \ {0} /\ Workers \in Nat \ {0} /\ MaxReplans \in Nat

VARIABLES
  phase,     \* what run r does; but for executing it waits for its engine call
  round,     \* its re-plan rounds so far
  task,      \* its step tasks in the current round
  queued,    \* blocking calls no thread has begun
  working,   \* calls that threads are at
  answered   \* calls whose future is done, before the one that awaits it resumes

vars == <<phase, round, task, queued, working, answered>>

Call == Runs \X (0 .. MaxReplans) \X (Steps \cup {Engine})

Asking == {"plan", "decide", "synthesize", "judge"}

TypeOK ==
  /\ phase \in [Runs -> Asking \cup {"new", "executing", "end"}]
  /\ round \in [Runs -> 0 .. MaxReplans]
  /\ task \in [Runs -> [Steps -> {"idle", "working", "done", "cancelled"}]]
  /\ queued \subseteq Call /\ working \subseteq Call /\ answered \subseteq Call

Init ==
  /\ phase = [r \in Runs |-> "new"]
  /\ round = [r \in Runs |-> 0]
  /\ task = [r \in Runs |-> [s \in Steps |-> "idle"]]
  /\ queued = {} /\ working = {} /\ answered = {}

Holding(r) == {s \in Steps : task[r][s] = "working"}

\* Somebody still waits for call c.
Awaited(c) ==
  LET r == c[1] IN
  /\ c[2] = round[r]
  /\ IF c[3] = Engine THEN phase[r] \in Asking
     ELSE phase[r] = "executing" /\ task[r][c[3]] = "working"

----------------------------------------------------------------------------
(* The executor *)

\* A free thread begins a queued call.
BeginCall(c) ==
  /\ c \in queued /\ Cardinality(working) < Workers
  /\ queued' = queued \ {c}
  /\ working' = working \cup {c}
  /\ UNCHANGED <<phase, round, task, answered>>

\* Mutant of EndCall: an abandoned call never gives its thread back.
EndAwaitedCall(c) ==
  /\ c \in working /\ Awaited(c)
  /\ working' = working \ {c}
  /\ answered' = answered \cup {c}
  /\ UNCHANGED <<phase, round, task, queued>>

\* The call returns or raises; what nobody awaits is dropped.
EndCall(c) ==
  /\ c \in working
  /\ working' = working \ {c}
  /\ answered' = IF Awaited(c) THEN answered \cup {c} ELSE answered
  /\ UNCHANGED <<phase, round, task, queued>>

----------------------------------------------------------------------------
(* The runs *)

EngineCall(r) == <<r, round[r], Engine>>

\* Run r goes to p, where it waits for a model call of its own.
Ask(r, p) ==
  /\ phase' = [phase EXCEPT ![r] = p]
  /\ queued' = queued \cup {EngineCall(r)}

Submit(r) ==
  /\ phase[r] = "new"
  /\ Ask(r, "plan")
  /\ UNCHANGED <<round, task, working, answered>>

TakeAnswer(r) ==
  /\ EngineCall(r) \in answered
  /\ answered' = answered \ {EngineCall(r)}

\* The planner's plan, or the merge of a decider's or a judge's new steps, is executed.
Execute(r) ==
  /\ phase[r] \in {"plan", "decide", "judge"} /\ TakeAnswer(r)
  /\ \/ phase[r] = "plan" /\ UNCHANGED round
     \/ phase[r] # "plan" /\ round[r] < MaxReplans
        /\ round' = [round EXCEPT ![r] = @ + 1]
  /\ phase' = [phase EXCEPT ![r] = "executing"]
  /\ task' = [task EXCEPT ![r] = [s \in Steps |-> "idle"]]
  /\ UNCHANGED <<queued, working>>

\* The decider says continue.
AskSynthesizer(r) ==
  /\ phase[r] = "decide" /\ TakeAnswer(r)
  /\ Ask(r, "synthesize")
  /\ UNCHANGED <<round, task, working>>

\* The draft goes to the judge.
AskJudge(r) ==
  /\ phase[r] = "synthesize" /\ TakeAnswer(r)
  /\ Ask(r, "judge")
  /\ UNCHANGED <<round, task, working>>

\* The run accepts a draft, or ends for want of a plan, or by an exception.
Conclude(r) ==
  /\ phase[r] \in Asking /\ TakeAnswer(r)
  /\ phase' = [phase EXCEPT ![r] = "end"]
  /\ UNCHANGED <<round, task, queued, working>>

\* Mutant of StartStep: the permits of all runs and rounds are never counted.
StartUncapped(r, s) ==
  /\ phase[r] = "executing" /\ task[r][s] = "idle"
  /\ task' = [task EXCEPT ![r][s] = "working"]
  /\ queued' = IF s \in Threaded THEN queued \cup {<<r, round[r], s>>} ELSE queued
  /\ UNCHANGED <<phase, round, working, answered>>

\* A step gets a permit and calls its agent.
StartStep(r, s) ==
  /\ phase[r] = "executing" /\ task[r][s] = "idle"
  /\ Cardinality(Holding(r)) < Concurrency
  /\ task' = [task EXCEPT ![r][s] = "working"]
  /\ queued' = IF s \in Threaded THEN queued \cup {<<r, round[r], s>>} ELSE queued
  /\ UNCHANGED <<phase, round, working, answered>>

\* Its agent's result is recorded.
EndStep(r, s) ==
  /\ phase[r] = "executing" /\ task[r][s] = "working"
  /\ s \in Threaded => <<r, round[r], s>> \in answered
  /\ answered' = answered \ {<<r, round[r], s>>}
  /\ task' = [task EXCEPT ![r][s] = "done"]
  /\ UNCHANGED <<phase, round, queued, working>>

\* Nothing is left to run.
Drain(r) ==
  /\ phase[r] = "executing" /\ Holding(r) = {}
  /\ Ask(r, "synthesize")
  /\ UNCHANGED <<round, task, working, answered>>

StepCalls(r) == {r} \X {round[r]} \X Steps

\* Mutant of Preempt: cancelling a task leaves its call in the executor's queue.
PreemptLeavingCalls(r) ==
  /\ phase[r] = "executing" /\ \E s \in Steps : task[r][s] = "done"
  /\ task' = [task EXCEPT ![r] =
                [s \in Steps |-> IF @[s] = "working" THEN "cancelled" ELSE @[s]]]
  /\ phase' = [phase EXCEPT ![r] = IF round[r] < MaxReplans THEN "decide" ELSE "synthesize"]
  /\ queued' = queued \cup {EngineCall(r)}
  /\ answered' = answered \ StepCalls(r)
  /\ UNCHANGED <<round, working>>

\* A structural failure: every task is cancelled.  That cancels the calls no thread
\* has begun, and drops the answers not yet taken.
Preempt(r) ==
  /\ phase[r] = "executing" /\ \E s \in Steps : task[r][s] = "done"
  /\ task' = [task EXCEPT ![r] =
                [s \in Steps |-> IF @[s] = "working" THEN "cancelled" ELSE @[s]]]
  /\ phase' = [phase EXCEPT ![r] = IF round[r] < MaxReplans THEN "decide" ELSE "synthesize"]
  /\ queued' = (queued \ StepCalls(r)) \cup {EngineCall(r)}
  /\ answered' = answered \ StepCalls(r)
  /\ UNCHANGED <<round, working>>

RunStep(r) ==
  \/ Execute(r) \/ AskSynthesizer(r) \/ AskJudge(r) \/ Conclude(r) \/ Drain(r)
  \/ \E s \in Steps : StartStep(r, s) \/ EndStep(r, s)

Next ==
  \/ \E r \in Runs : Submit(r) \/ RunStep(r) \/ Preempt(r)
  \/ \E c \in Call : BeginCall(c) \/ EndCall(c)

Spec == Init /\ [][Next]_vars

\* The event loop resumes what can go on, threads take up queued calls, and every
\* call of a model returns or raises.
FairSpec ==
  /\ Spec
  /\ \A r \in Runs : WF_vars(RunStep(r))
  /\ \A c \in Call : WF_vars(BeginCall(c)) /\ WF_vars(EndCall(c))

----------------------------------------------------------------------------
(* Safety *)

\* The agents of run r that are at work for its n-th round, also after it was given up.
AtWork(r, n) ==
  {s \in Steps : \/ <<r, n, s>> \in working
                 \/ n = round[r] /\ s \notin Threaded /\ s \in Holding(r)}

\* What the semaphore really bounds: of each round at most Concurrency agents are at
\* work.  Pre-empted rounds may add theirs to it, as long as their threads run.
CappedByRound ==
  \A r \in Runs, n \in 0 .. MaxReplans : Cardinality(AtWork(r, n)) <= Concurrency

\* A call waits for a thread only while somebody waits for it, and every answer is
\* for someone: a pre-emption leaves no work that has not begun, and nothing of it
\* reaches a later round.
NothingForNobody == \A c \in queued \cup answered : Awaited(c)

----------------------------------------------------------------------------
(* Liveness *)

\* Every submitted run ends: with however many threads abandoned, its own calls come
\* to a thread.
RunsEnd == \A r \in Runs : phase[r] = "plan" ~> phase[r] = "end"

----------------------------------------------------------------------------
(* What the docs say and the code does not do *)

\* DECISIONS.md:71: the semaphore caps simultaneous model and search calls.
CallsCapped ==
  \A r \in Runs : Cardinality(UNION {AtWork(r, n) \X {n} : n \in 0 .. MaxReplans}) <= Concurrency
=============================================================================
