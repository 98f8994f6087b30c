------------------------------ MODULE PlanRun ------------------------------
(***************************************************************************)
(* What execute_plan promises its callers, without tasks, semaphore or     *)
(* wake-ups: how the status of each step may move until the call is over.  *)
(***************************************************************************)
EXTENDS PlanDag, Integers

CONSTANT Concurrency

VARIABLES plan, status,
          halted,     \* the run was cancelled or its deadline has passed
          replan,     \* a structural failure asked for the re-plan decider
          finished    \* the call is over

vars == <<plan, status, halted, replan, finished>>

Running == {s \in StepId : status[s] = "running"}

Init ==
  /\ ValidPlan(plan)
  /\ \A s \in plan.steps : status[s] \in {"pending", "completed"} \cup Lost
  /\ Running = {}
  /\ ~halted /\ ~replan /\ ~finished

Starts(s) ==
  /\ status[s] = "pending" /\ status'[s] = "running"
  /\ ~halted /\ ~replan
  /\ \A d \in plan.deps[s] : status[d] = "completed"

Ends(s) ==
  /\ status[s] = "running" /\ status'[s] \in {"completed", "failed"}
  /\ ~replan

Skips(s) ==
  /\ status[s] = "pending" /\ status'[s] = "skipped"
  /\ halted \/ \E d \in plan.deps[s] : status'[d] \in Lost

Cancels(s) ==
  /\ status'[s] = "cancelled"
  /\ \/ status[s] = "pending" /\ (halted \/ replan)
     \/ status[s] = "running" /\ replan

\* Any number of steps move, and the call may end with the last of them.
Advance ==
  /\ ~finished
  /\ \A s \in StepId : status'[s] # status[s] =>
       s \in plan.steps /\ (Starts(s) \/ Ends(s) \/ Skips(s) \/ Cancels(s))
  /\ Cardinality(Running') <= Concurrency
  /\ finished' => /\ Running' = {}
                  /\ replan \/ \A s \in plan.steps : status'[s] # "pending"
  /\ UNCHANGED <<plan, halted, replan>>

Halt == halted' /\ UNCHANGED <<plan, status, replan, finished>>

RequestReplan ==
  /\ ~finished
  /\ \E s \in plan.steps : status[s] = "failed" /\ Structural(plan, s, status)
  /\ replan'
  /\ UNCHANGED <<plan, status, halted, finished>>

Next == Advance \/ Halt \/ RequestReplan

Spec == Init /\ [][Next]_vars
=============================================================================
