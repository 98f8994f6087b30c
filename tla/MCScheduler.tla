---------------------------- MODULE MCScheduler ----------------------------
(***************************************************************************)
(* Every plan of at most MaxSteps steps, up to a renaming of its steps:    *)
(* step n depends on lower-numbered steps only.  A step that starts the    *)
(* call lost weighs as much as two.                                        *)
(***************************************************************************)
EXTENDS Scheduler

CONSTANTS MaxSteps, MaxWeight    \* bounds

MCStepId == 1 .. MaxSteps

Edges(n) == {e \in (1 .. n) \X (1 .. n) : e[1] < e[2]}

OrderedPlans(n) ==
  {[steps |-> 1 .. n, deps |-> [s \in 1 .. n |-> {e[1] : e \in {f \in E : f[2] = s}}],
    optional |-> O] : E \in SUBSET Edges(n), O \in SUBSET (1 .. n)}

MCInit ==
  /\ \E n \in StepId : plan \in {p \in OrderedPlans(n) : ValidPlan(p)}
  /\ InitRun
  /\ Cardinality(plan.steps) + Cardinality(inherited) <= MaxWeight

MCSpec == MCInit /\ [][Next]_vars
MCFairSpec == MCSpec /\ Fairness
=============================================================================
