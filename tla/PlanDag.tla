------------------------------ MODULE PlanDag ------------------------------
(***************************************************************************)
(* Execution plans: the step DAG the planner proposes, the validator       *)
(* admits and the scheduler runs.  A plan keeps the ids of its steps, each *)
(* step's dependencies and which steps are optional; what a step does      *)
(* (agent, action, input) is not told apart here.                          *)
(***************************************************************************)
EXTENDS FiniteSets

CONSTANT StepId    \* every step id that can appear in a plan

StepStatus == {"pending", "running", "completed", "failed", "skipped", "cancelled"}

\* The statuses of a step whose output will never come (_LOST, _TERMINAL_LOST).
Lost == {"failed", "skipped", "cancelled"}

PlansOver(S) == [steps : {S}, deps : [S -> SUBSET StepId], optional : SUBSET S]

IsPlan(p) == p.steps \subseteq StepId /\ p \in PlansOver(p.steps)

----------------------------------------------------------------------------
\* _check_structure: duplicate ids cannot be written as a set of steps.
StructureOK(p) == p.steps # {}

ReferencesOK(p) == \A s \in p.steps : p.deps[s] \subseteq p.steps \ {s}

\* What derive_parallel_groups finds out by peeling off the steps whose
\* dependencies are all resolved: it gets stuck iff some steps wait on each other.
Acyclic(p) ==
  \A S \in SUBSET p.steps : S # {} => \E s \in S : p.deps[s] \cap S = {}

ValidPlan(p) == StructureOK(p) /\ ReferencesOK(p) /\ Acyclic(p)

----------------------------------------------------------------------------
\* The least set holding the steps that depend on s, directly or through another.
TransitiveDependents(p, s) ==
  LET Closed(U) == \A t \in p.steps : p.deps[t] \cap (U \cup {s}) # {} => t \in U
  IN  {t \in p.steps : \A U \in SUBSET p.steps : Closed(U) => t \in U}

\* Mutant of Structural: forgets the steps skipped along with s.
StructuralByItself(p, s, status) == s \notin p.optional

\* classify_failure: losing s loses work the plan calls crucial.
Structural(p, s, status) ==
  \/ s \notin p.optional
  \/ \E t \in TransitiveDependents(p, s) : t \notin p.optional /\ status[t] \notin Lost
=============================================================================
