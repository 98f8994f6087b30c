-------------------------- MODULE Scheduler_proofs --------------------------
(***************************************************************************)
(* Proofs about one call of execute_plan, for every plan, every number of  *)
(* steps and every number of permits: its inductive invariant, that it     *)
(* implements PlanRun, and what follows from the two.                      *)
(***************************************************************************)
EXTENDS Scheduler, FiniteSetTheorems, TLAPS

\* How a step's task, its status and the pending set go together.
TaskInv ==
  \A s \in StepId :
    /\ s \in pending => s \in plan.steps /\ status[s] = "pending" /\ task[s] = "none"
    /\ task[s] # "none" => s \in plan.steps
    /\ task[s] = "queued" => status[s] = "pending"
    /\ task[s] = "done" => status[s] \in {"completed", "failed", "cancelled"}
    /\ task[s] \in {"cancelling", "unwound"} => status[s] \in {"pending", "running"}
    /\ status[s] = "running" => task[s] \in {"running", "cancelling", "unwound"}
    /\ task[s] = "running" => status[s] = "running"

\* Where the scheduler is tells which tasks can be in flight.
PcInv ==
  /\ pc = "start" => /\ task = NoTasks /\ pending = {} /\ ~replan
                     /\ \A s \in plan.steps : status[s] \in {"pending", "completed"} \cup Lost
  /\ pc = "waiting" => /\ ~replan
                       /\ \A s \in StepId : task[s] \in {"none", "queued", "running", "done"}
  /\ pc = "cancelling" => /\ replan
                          /\ \A s \in StepId : task[s] \in {"none", "cancelling", "unwound"}
  /\ pc = "returned" => task = NoTasks /\ (~replan => pending = {})

\* A step that was lost before the call is left alone.
LeftAloneInv == \A s \in inherited : status[s] \in Lost /\ task[s] = "none"

\* A launched step has all its dependencies completed.
LaunchInv ==
  \A s \in plan.steps \ inherited :
    task[s] # "none" \/ status[s] \in {"running", "completed", "failed", "cancelled"} =>
      \A d \in plan.deps[s] : status[d] = "completed"

PlanInv == \A s \in plan.steps : plan.deps[s] \subseteq plan.steps

\* The steps whose task holds a permit.  A cancelled task may have returned its
\* permit while its step still shows running, so Capped needs its own conjunct.
Holders == {s \in StepId : task[s] = "running" \/ (task[s] = "cancelling" /\ status[s] = "running")}
Running == {s \in StepId : status[s] = "running"}

PermitInv == sem + Cardinality(Holders) = Concurrency /\ Cardinality(Running) <= Concurrency

IInv == TypeOK /\ PlanInv /\ TaskInv /\ PcInv /\ LeftAloneInv /\ LaunchInv /\ PermitInv

LEMMA PermitSetsFinite ==
  /\ IsFiniteSet(Holders) /\ Cardinality(Holders) \in Nat
  /\ IsFiniteSet(Running) /\ Cardinality(Running) \in Nat
<1>1. Holders \subseteq StepId /\ Running \subseteq StepId
  BY DEF Holders, Running
<1> QED
  BY <1>1, StepIdAssumption, FS_Subset, FS_CardinalityType

\* Steps that leave both sets alone keep the permits right.
LEMMA PermitsUnmoved ==
  ASSUME PermitInv, Holders' = Holders, Running' \subseteq Running, UNCHANGED sem
  PROVE  PermitInv'
<1>1. Cardinality(Running') <= Cardinality(Running)
  BY PermitSetsFinite, FS_Subset
<1>2. Cardinality(Running') \in Nat
  BY PermitSetsFinite, FS_Subset, FS_CardinalityType
<1> QED
  BY <1>1, <1>2, PermitSetsFinite, ConcurrencyAssumption DEF PermitInv

\* Launched steps stay rightly launched if none is new and no completion is undone.
LEMMA LaunchKept ==
  ASSUME LaunchInv, PlanInv, IsPlan(plan), UNCHANGED <<plan, inherited>>,
         \A u \in StepId :
           /\ status[u] = "completed" => status'[u] = "completed"
           /\ task'[u] # "none" \/ status'[u] \in {"running", "completed", "failed", "cancelled"}
              => task[u] # "none" \/ status[u] \in {"running", "completed", "failed", "cancelled"}
  PROVE  LaunchInv'
<1>1. plan.steps \subseteq StepId
  BY DEF IsPlan
<1> SUFFICES ASSUME NEW u \in plan.steps \ inherited, NEW d \in plan.deps[u],
                    task'[u] # "none"
                      \/ status'[u] \in {"running", "completed", "failed", "cancelled"}
             PROVE  status'[d] = "completed"
  BY DEF LaunchInv
<1>2. d \in StepId
  BY <1>1 DEF PlanInv
<1>3. status[d] = "completed"
  BY <1>1 DEF LaunchInv
<1> QED
  BY <1>2, <1>3

\* What the monitor holds of each step when the call begins.
Begun(frozen) ==
  /\ \A s \in frozen : plan.deps[s] \subseteq frozen
  /\ inherited \subseteq plan.steps \ frozen
  /\ status \in [StepId -> StepStatus \cup {None}]
  /\ results \in [StepId -> AgentStatus \cup {None}]
  /\ trace = [s \in StepId |-> IF results[s] = None THEN 0 ELSE 1]
  /\ \A s \in frozen : status[s] = "completed" /\ results[s] = "completed"
  /\ \A s \in inherited : /\ status[s] \in Lost
                          /\ results[s] \in {"completed_degraded", "failed", None}
                          /\ status[s] = "failed" <=> results[s] # None
  /\ \A s \in plan.steps \ (frozen \cup inherited) : status[s] = "pending" /\ results[s] = None
  /\ \A s \in StepId \ plan.steps : status[s] = None /\ results[s] = None

LEMMA InitRecords == Init => \E frozen \in SUBSET plan.steps : Begun(frozen)
<1> SUFFICES ASSUME Init PROVE \E frozen \in SUBSET plan.steps : Begun(frozen)
  OBVIOUS
<1>1. plan.steps \subseteq StepId
  BY DEF Init, PlansOver
<1>2. PICK frozen \in SUBSET plan.steps :
        /\ \A s \in frozen : plan.deps[s] \subseteq frozen
        /\ inherited \in SUBSET (plan.steps \ frozen)
        /\ \E old \in [inherited -> LostRecord] :
             /\ status = [s \in StepId |-> IF s \in frozen THEN "completed"
                                           ELSE IF s \in inherited THEN old[s].status
                                           ELSE IF s \in plan.steps THEN "pending" ELSE None]
             /\ results = [s \in StepId |-> IF s \in frozen THEN "completed"
                                            ELSE IF s \in inherited THEN old[s].result ELSE None]
        /\ trace = [s \in StepId |-> IF results[s] = None THEN 0 ELSE 1]
  BY DEF Init, InitRun
<1>3. PICK old \in [inherited -> LostRecord] :
        /\ status = [s \in StepId |-> IF s \in frozen THEN "completed"
                                      ELSE IF s \in inherited THEN old[s].status
                                      ELSE IF s \in plan.steps THEN "pending" ELSE None]
        /\ results = [s \in StepId |-> IF s \in frozen THEN "completed"
                                       ELSE IF s \in inherited THEN old[s].result ELSE None]
  BY <1>2
<1>4. \A o \in LostRecord : /\ o.status \in Lost
                            /\ o.result \in {"completed_degraded", "failed", None}
                            /\ o.status = "failed" <=> o.result # None
  BY NoneAssumption DEF LostRecord, Lost, AgentStatus
<1>5. \A s \in inherited : /\ old[s].status \in Lost
                           /\ old[s].result \in {"completed_degraded", "failed", None}
                           /\ old[s].status = "failed" <=> old[s].result # None
  BY <1>4
<1>6. /\ status \in [StepId -> StepStatus \cup {None}]
      /\ results \in [StepId -> AgentStatus \cup {None}]
  <2>1. \A s \in inherited : /\ old[s].status \in StepStatus \cup {None}
                             /\ old[s].result \in AgentStatus \cup {None}
    BY <1>5 DEF StepStatus, AgentStatus, Lost
  <2>2. /\ "completed" \in StepStatus /\ "pending" \in StepStatus
        /\ "completed" \in AgentStatus
    BY DEF StepStatus, AgentStatus
  <2> QED
    BY <1>3, <2>1, <2>2
<1>7. \A s \in inherited : s \in StepId /\ s \notin frozen
  BY <1>1, <1>2
<1>8. /\ \A s \in frozen : status[s] = "completed" /\ results[s] = "completed"
      /\ \A s \in plan.steps \ (frozen \cup inherited) : status[s] = "pending" /\ results[s] = None
      /\ \A s \in StepId \ plan.steps : status[s] = None /\ results[s] = None
  BY <1>1, <1>2, <1>3
<1>9. \A s \in inherited : status[s] = old[s].status /\ results[s] = old[s].result
  BY <1>3, <1>7
<1>10. \A s \in inherited : /\ status[s] \in Lost
                            /\ results[s] \in {"completed_degraded", "failed", None}
                            /\ status[s] = "failed" <=> results[s] # None
  BY <1>5, <1>9
<1> QED
  BY <1>2, <1>6, <1>8, <1>10 DEF Begun

LEMMA InitIInv == Init => IInv
<1> SUFFICES ASSUME Init PROVE IInv
  OBVIOUS
<1>1. IsPlan(plan) /\ plan.steps \subseteq StepId /\ ReferencesOK(plan)
  BY DEF Init, IsPlan, PlansOver, ValidPlan
<1>2. PICK frozen \in SUBSET plan.steps : Begun(frozen)
  BY InitRecords
<1>3. /\ cancel = FALSE /\ expired = FALSE /\ replan = FALSE /\ failedStep = None
      /\ pending = {} /\ task = NoTasks /\ sem = Concurrency /\ pc = "start"
  BY DEF Init, InitRun
<1>4. TypeOK
  <2>1. /\ status \in [StepId -> StepStatus \cup {None}]
        /\ results \in [StepId -> AgentStatus \cup {None}]
        /\ trace \in [StepId -> Nat]
    BY <1>2 DEF Begun
  <2>2. task \in [StepId -> TaskStatus]
    BY <1>3 DEF NoTasks, TaskStatus
  <2>3. cancel \in BOOLEAN /\ expired \in BOOLEAN /\ replan \in BOOLEAN
    BY <1>3
  <2>4. sem \in 0 .. Concurrency
    BY <1>3, ConcurrencyAssumption
  <2>5. failedStep \in StepId \cup {None} /\ pending \subseteq StepId /\ inherited \subseteq plan.steps
    BY <1>2, <1>3 DEF Begun
  <2>6. pc \in {"start", "waiting", "cancelling", "returned"}
    BY <1>3
  <2> QED
    BY <1>1, <2>1, <2>2, <2>3, <2>4, <2>5, <2>6 DEF TypeOK
<1>5. PlanInv
  BY <1>1 DEF PlanInv, ReferencesOK
<1>6. \A s \in StepId : /\ status[s] \in {"pending", "completed", None} \cup Lost
                        /\ task[s] = "none"
                        /\ s \in inherited <=> status[s] \in Lost
                        /\ s \in plan.steps => status[s] # None
  <2> SUFFICES ASSUME NEW s \in StepId
               PROVE  /\ status[s] \in {"pending", "completed", None} \cup Lost
                      /\ s \in inherited <=> status[s] \in Lost
                      /\ s \in plan.steps => status[s] # None
    BY <1>3 DEF NoTasks
  <2>1. CASE s \in inherited
    BY <1>2, <2>1, NoneAssumption DEF Begun, Lost, StepStatus
  <2>2. CASE s \in frozen
    BY <1>2, <2>2, NoneAssumption DEF Begun, Lost, StepStatus
  <2>3. CASE s \in plan.steps \ (frozen \cup inherited)
    BY <1>2, <2>3, NoneAssumption DEF Begun, Lost, StepStatus
  <2>4. CASE s \notin plan.steps
    BY <1>2, <2>4, NoneAssumption DEF Begun, Lost, StepStatus
  <2> QED
    BY <2>1, <2>2, <2>3, <2>4
<1>7. TaskInv
  <2>1. \A s \in StepId : status[s] # "running" /\ s \notin pending
    BY <1>3, <1>6, NoneAssumption DEF StepStatus, Lost
  <2> QED
    BY <1>6, <2>1 DEF TaskInv
<1>8. PcInv
  BY <1>1, <1>3, <1>6 DEF PcInv
<1>12. LeftAloneInv
  BY <1>1, <1>2, <1>3 DEF LeftAloneInv, Begun, NoTasks
<1>9. LaunchInv
  <2> SUFFICES ASSUME NEW s \in plan.steps \ inherited,
                      task[s] # "none" \/ status[s] \in {"running", "completed", "failed", "cancelled"},
                      NEW d \in plan.deps[s]
               PROVE  status[d] = "completed"
    BY DEF LaunchInv
  <2>1. s \in frozen
    BY <1>1, <1>2, <1>3 DEF Begun, NoTasks
  <2> QED
    BY <1>2, <2>1 DEF Begun
<1>10. PermitInv
  <2>1. Holders = {} /\ Running = {}
    BY <1>6, <1>7 DEF Holders, Running, TaskInv
  <2> QED
    BY <1>3, <2>1, FS_EmptySet, ConcurrencyAssumption DEF PermitInv
<1> QED
  BY <1>4, <1>5, <1>7, <1>8, <1>9, <1>10, <1>12 DEF IInv

----------------------------------------------------------------------------
\* What a turn of the loop makes of step s: nothing, a skip, or a launch.
Kept(s, inFlight) == task'[s] = inFlight[s] /\ status'[s] = status[s]

Dropped(s, unlaunched, inFlight) ==
  /\ s \in unlaunched /\ s \notin pending'
  /\ task'[s] = inFlight[s] /\ status'[s] = "skipped"

Launched(s, unlaunched) ==
  /\ s \in unlaunched /\ s \notin pending'
  /\ task'[s] = "queued" /\ status'[s] = status[s]
  /\ \A d \in plan.deps[s] : status[d] = "completed"

Effect(unlaunched, inFlight) ==
  /\ status' \in [StepId -> StepStatus \cup {None}]
  /\ task' \in [StepId -> TaskStatus]
  /\ pending' \subseteq unlaunched
  /\ pc' \in {"waiting", "returned"}
  /\ pc' = "returned" => task' = NoTasks /\ pending' = {}
  /\ \A s \in StepId : Kept(s, inFlight) \/ Dropped(s, unlaunched, inFlight)
                         \/ Launched(s, unlaunched)
  /\ \A s \in unlaunched : s \in pending' \/ task'[s] = "queued" \/ status'[s] = "skipped"

LEMMA LaunchReadyEffect ==
  ASSUME TypeOK,
         NEW unlaunched \in SUBSET plan.steps,
         \A s \in unlaunched : status[s] = "pending",
         NEW inFlight \in [StepId -> TaskStatus],
         LaunchReady(unlaunched, inFlight)
  PROVE  Effect(unlaunched, inFlight)
<1> DEFINE skipped == IF ShouldStopLaunching THEN {} ELSE Blocked(unlaunched)
           ready   == IF ShouldStopLaunching THEN {} ELSE Ready(unlaunched)
           left    == unlaunched \ (skipped \cup ready)
<1>1. /\ skipped \subseteq unlaunched
      /\ ready \subseteq unlaunched
      /\ skipped \cap ready = {}
      /\ \A s \in ready : \A d \in plan.deps[s] : status[d] = "completed"
  BY DEF Blocked, Ready, Lost
<1>2. unlaunched \subseteq StepId
  BY DEF TypeOK, IsPlan
<1>3. task' = [s \in StepId |-> IF s \in ready THEN "queued" ELSE inFlight[s]]
  BY DEF LaunchReady
<1>4. \/ task' # NoTasks /\ status' = MarkSkipped(skipped) /\ pending' = left /\ pc' = "waiting"
      \/ task' = NoTasks /\ status' = MarkSkipped(skipped \cup left) /\ pending' = {}
           /\ pc' = "returned"
  BY DEF LaunchReady
<1> HIDE DEF skipped, ready
<1>5. task' \in [StepId -> TaskStatus]
  BY <1>3 DEF TaskStatus
<1>6. CASE task' # NoTasks /\ status' = MarkSkipped(skipped) /\ pending' = left /\ pc' = "waiting"
  <2>1. \A s \in StepId : status'[s] = IF s \in skipped THEN "skipped" ELSE status[s]
    BY <1>1, <1>6 DEF MarkSkipped
  <2>2. status' \in [StepId -> StepStatus \cup {None}]
    BY <1>6 DEF MarkSkipped, TypeOK, StepStatus
  <2> QED
    BY <1>1, <1>2, <1>3, <1>5, <1>6, <2>1, <2>2 DEF Effect, Kept, Dropped, Launched
<1>7. CASE task' = NoTasks /\ status' = MarkSkipped(skipped \cup left) /\ pending' = {}
             /\ pc' = "returned"
  <2>1. ready = {}
    BY <1>1, <1>2, <1>3, <1>7 DEF NoTasks
  <2>2. \A s \in StepId : status'[s] = IF s \in unlaunched THEN "skipped" ELSE status[s]
    BY <1>1, <1>7, <2>1 DEF MarkSkipped
  <2>3. status' \in [StepId -> StepStatus \cup {None}]
    BY <1>7 DEF MarkSkipped, TypeOK, StepStatus
  <2> QED
    BY <1>1, <1>2, <1>3, <1>5, <1>7, <2>1, <2>2, <2>3 DEF Effect, Kept, Dropped, Launched
<1> QED
  BY <1>4, <1>6, <1>7

\* The turn keeps the invariant when the tasks left in flight satisfy it.
LEMMA LaunchReadyIInv ==
  ASSUME TypeOK, PlanInv, LeftAloneInv, LaunchInv, PermitInv, ~replan,
         \A s \in StepId : task[s] \in {"none", "queued", "running", "done"},
         NEW unlaunched \in SUBSET plan.steps,
         \A s \in unlaunched : status[s] = "pending",
         NEW inFlight \in [StepId -> {"none", "queued", "running"}],
         \A s \in StepId :
           /\ inFlight[s] # "none" => s \in plan.steps /\ task[s] = inFlight[s]
           /\ inFlight[s] = "queued" => status[s] = "pending"
           /\ inFlight[s] = "running" <=> status[s] = "running"
           /\ inFlight[s] = "running" <=> task[s] = "running",
         \A s \in unlaunched : inFlight[s] = "none",
         LaunchReady(unlaunched, inFlight),
         UNCHANGED <<plan, inherited, results, trace, signalVars, replanVars, sem>>
  PROVE  IInv'
<1>1. inFlight \in [StepId -> TaskStatus]
  BY DEF TaskStatus
<1>2. Effect(unlaunched, inFlight)
  BY <1>1, LaunchReadyEffect
<1>3. plan.steps \subseteq StepId /\ (plan.deps \in [plan.steps -> SUBSET StepId])
  BY DEF TypeOK, IsPlan, PlansOver
<1>4. plan' = plan /\ inherited' = inherited /\ replan' = replan
  BY DEF replanVars
<1>5. TypeOK'
  BY <1>2, <1>3 DEF Effect, TypeOK, signalVars, replanVars
<1>6. PlanInv'
  BY <1>4 DEF PlanInv
<1>7. TaskInv'
  <2> SUFFICES ASSUME NEW s \in StepId
               PROVE  /\ s \in pending' => s \in plan.steps /\ status'[s] = "pending" /\ task'[s] = "none"
                      /\ task'[s] # "none" => s \in plan.steps
                      /\ task'[s] = "queued" => status'[s] = "pending"
                      /\ task'[s] \in {"none", "queued", "running"}
                      /\ task'[s] = "running" <=> status'[s] = "running"
    BY <1>4 DEF TaskInv
  <2>1. CASE Kept(s, inFlight)
    BY <1>2, <2>1 DEF Effect, Kept
  <2>2. CASE Dropped(s, unlaunched, inFlight)
    BY <1>2, <2>2 DEF Effect, Dropped
  <2>3. CASE Launched(s, unlaunched)
    BY <1>2, <2>3 DEF Effect, Launched
  <2> QED
    BY <1>2, <2>1, <2>2, <2>3 DEF Effect
<1>8. PcInv'
  <2>1. \A s \in StepId : task'[s] \in {"none", "queued", "running"}
    BY <1>2 DEF Effect, Kept, Dropped, Launched
  <2> QED
    BY <1>2, <1>4, <2>1 DEF Effect, PcInv
<1>9. LaunchInv'
  <2> SUFFICES ASSUME NEW s \in plan.steps \ inherited,
                      task'[s] # "none" \/ status'[s] \in {"running", "completed", "failed", "cancelled"},
                      NEW d \in plan.deps[s]
               PROVE  status'[d] = "completed"
    BY <1>4 DEF LaunchInv
  <2>1. d \in StepId /\ (status[d] = "completed" => status'[d] = "completed")
    BY <1>2, <1>3 DEF Effect, Kept, Dropped, Launched
  <2>2. CASE Kept(s, inFlight)
    BY <1>3, <2>1, <2>2 DEF Effect, Kept, LaunchInv
  <2>3. CASE Dropped(s, unlaunched, inFlight)
    BY <2>3 DEF Effect, Dropped
  <2>4. CASE Launched(s, unlaunched)
    BY <2>1, <2>4 DEF Effect, Launched
  <2> QED
    BY <1>2, <1>3, <2>2, <2>3, <2>4 DEF Effect
<1>10. PermitInv'
  <2>1. \A s \in StepId : /\ task[s] = "running" <=> task'[s] = "running"
                          /\ status'[s] = "running" <=> status[s] = "running"
                          /\ task'[s] # "cancelling"
    BY <1>2 DEF Effect, Kept, Dropped, Launched
  <2>2. Holders' = Holders /\ Running' = Running
    BY <2>1 DEF Holders, Running
  <2> QED
    BY <2>2, PermitsUnmoved
<1>11. LeftAloneInv'
  <2> SUFFICES ASSUME NEW s \in inherited PROVE status'[s] = status[s] /\ task'[s] = "none"
    BY <1>4 DEF LeftAloneInv
  <2>1. s \in StepId /\ s \notin unlaunched /\ inFlight[s] = "none"
    BY <1>3 DEF LeftAloneInv, TypeOK, Lost
  <2> QED
    BY <1>2, <2>1 DEF Effect, Kept, Dropped, Launched
<1> QED
  BY <1>5, <1>6, <1>7, <1>8, <1>9, <1>10, <1>11 DEF IInv

LEMMA BeginIInv == IInv /\ Begin => IInv'
<1> SUFFICES ASSUME IInv, Begin PROVE IInv'
  OBVIOUS
<1> DEFINE unlaunched == {s \in plan.steps : status[s] = "pending"}
<1>1. /\ task = NoTasks /\ ~replan
      /\ \A s \in plan.steps : status[s] \in {"pending", "completed"} \cup Lost
  BY DEF IInv, PcInv, Begin
<1>2. /\ NoTasks \in [StepId -> {"none", "queued", "running"}]
      /\ \A s \in StepId : NoTasks[s] = "none"
  BY DEF NoTasks
<1>3. \A s \in StepId : status[s] # "running"
  BY <1>1, <1>2 DEF IInv, TaskInv
<1>4. LaunchReady(unlaunched, NoTasks) /\ UNCHANGED <<plan, inherited, results, trace, signalVars, replanVars, sem>>
  BY <1>1 DEF Begin
<1>5. unlaunched \subseteq StepId
  BY DEF IInv, TypeOK, IsPlan
<1> HIDE DEF unlaunched
<1>6. unlaunched \in SUBSET plan.steps /\ \A s \in unlaunched : status[s] = "pending"
  BY DEF unlaunched
<1> QED
  BY <1>1, <1>2, <1>3, <1>4, <1>5, <1>6, LaunchReadyIInv DEF IInv

LEMMA WakeAndLaunchIInv == IInv /\ WakeAndLaunch => IInv'
<1> SUFFICES ASSUME IInv, WakeAndLaunch PROVE IInv'
  OBVIOUS
<1> DEFINE inFlight == [s \in StepId |-> IF s \in Done THEN "none" ELSE task[s]]
<1>1. ~replan /\ \A s \in StepId : task[s] \in {"none", "queued", "running", "done"}
  BY DEF IInv, PcInv, WakeAndLaunch
<1>2. \A s \in StepId : inFlight[s] = IF task[s] = "done" THEN "none" ELSE task[s]
  BY DEF Done
<1>3. inFlight \in [StepId -> {"none", "queued", "running"}]
  BY <1>1 DEF Done
<1>4. LaunchReady(pending, inFlight) /\ UNCHANGED <<plan, inherited, results, trace, signalVars, replanVars, sem>>
  BY DEF WakeAndLaunch
<1>5. pending \in SUBSET plan.steps /\ \A s \in pending : status[s] = "pending" /\ task[s] = "none"
  BY DEF IInv, TypeOK, TaskInv
<1> HIDE DEF inFlight
<1>6. \A s \in StepId :
        /\ inFlight[s] # "none" => s \in plan.steps /\ task[s] = inFlight[s]
        /\ inFlight[s] = "queued" => status[s] = "pending"
        /\ inFlight[s] = "running" <=> status[s] = "running"
        /\ inFlight[s] = "running" <=> task[s] = "running"
  BY <1>1, <1>2 DEF IInv, TaskInv
<1>7. \A s \in pending : inFlight[s] = "none"
  BY <1>2, <1>5 DEF IInv, TypeOK
<1> QED
  BY <1>1, <1>3, <1>4, <1>5, <1>6, <1>7, LaunchReadyIInv DEF IInv

LEMMA WakeAndPreemptIInv == IInv /\ WakeAndPreempt => IInv'
<1> SUFFICES ASSUME IInv, WakeAndPreempt PROVE IInv'
  OBVIOUS
<1> USE DEF WakeAndPreempt
<1>1. \A s \in StepId : task[s] \in {"none", "queued", "running", "done"}
  BY DEF IInv, PcInv
<1>2. \A s \in StepId : task'[s] = IF task[s] \in {"queued", "running"} THEN "cancelling" ELSE "none"
  BY <1>1
<1>3. task' \in [StepId -> TaskStatus]
  BY <1>1 DEF TaskStatus
<1>4. failedStep' \in StepId
  BY DEF StructuralFailures, Done
<1>5. TypeOK'
  BY <1>3, <1>4 DEF IInv, TypeOK, monitorVars, signalVars
<1>6. TaskInv' /\ LaunchInv' /\ PlanInv'
  BY <1>1, <1>2 DEF IInv, TypeOK, IsPlan, TaskInv, LaunchInv, PlanInv, monitorVars
<1>10. LeftAloneInv'
  BY <1>2 DEF IInv, TypeOK, IsPlan, LeftAloneInv, monitorVars
<1>7. PcInv'
  BY <1>2 DEF PcInv
<1>8. Holders' = Holders /\ Running' = Running
  BY <1>1, <1>2 DEF Holders, Running, IInv, TaskInv, monitorVars
<1>9. PermitInv'
  BY <1>8, PermitsUnmoved DEF IInv
<1> QED
  BY <1>5, <1>6, <1>7, <1>9, <1>10 DEF IInv

LEMMA FinishPreemptIInv == IInv /\ FinishPreempt => IInv'
<1> SUFFICES ASSUME IInv, FinishPreempt PROVE IInv'
  OBVIOUS
<1> USE DEF FinishPreempt
<1>1. replan /\ \A s \in StepId : task[s] \in {"none", "unwound"}
  BY DEF IInv, PcInv
<1>2. \A s \in StepId :
        status'[s] = IF task[s] = "unwound" THEN "cancelled" ELSE status[s]
  BY DEF MarkCancelled, IInv, TaskInv
<1>3. status' \in [StepId -> StepStatus \cup {None}]
  BY DEF MarkCancelled, IInv, TypeOK, StepStatus
<1>4. \A s \in StepId : task'[s] = "none"
  BY DEF NoTasks
<1>5. task' \in [StepId -> TaskStatus]
  BY DEF NoTasks, TaskStatus
<1>6. TypeOK'
  BY <1>3, <1>5 DEF IInv, TypeOK, signalVars, replanVars
<1>7. PlanInv'
  BY DEF IInv, PlanInv
<1>8. TaskInv'
  BY <1>1, <1>2, <1>4 DEF IInv, TaskInv
<1>9. PcInv'
  BY <1>1 DEF PcInv, replanVars
<1>10. LaunchInv'
  <2> SUFFICES ASSUME NEW s \in plan.steps \ inherited,
                      status'[s] \in {"running", "completed", "failed", "cancelled"},
                      NEW d \in plan.deps[s]
               PROVE  status'[d] = "completed"
    BY <1>4 DEF LaunchInv, IInv, TypeOK, IsPlan
  <2>1. s \in StepId /\ d \in StepId
    BY DEF IInv, TypeOK, IsPlan, PlanInv
  <2>2. status[d] = "completed"
    BY <1>2, <2>1 DEF IInv, LaunchInv
  <2>3. task[d] # "unwound"
    BY <2>1, <2>2 DEF IInv, TaskInv
  <2> QED
    BY <1>2, <2>1, <2>2, <2>3
<1>11. Holders' = Holders /\ Running' \subseteq Running
  BY <1>1, <1>2, <1>4 DEF Holders, Running
<1>12. PermitInv'
  BY <1>11, PermitsUnmoved DEF IInv
<1>13. LeftAloneInv'
  BY <1>2, <1>4 DEF IInv, TypeOK, IsPlan, LeftAloneInv
<1> QED
  BY <1>6, <1>7, <1>8, <1>9, <1>10, <1>12, <1>13 DEF IInv

LEMMA TaskStepIInv ==
  ASSUME IInv, NEW s \in StepId, TaskStep(s)
  PROVE  IInv'
<1>1. task \in [StepId -> TaskStatus] /\ status \in [StepId -> StepStatus \cup {None}]
  BY DEF IInv, TypeOK
<1>2. ASSUME PermitInv', sem' \in Nat PROVE sem' \in 0 .. Concurrency
  <2>1. Holders' \subseteq StepId
    BY DEF Holders
  <2>2. Cardinality(Holders') \in Nat
    BY <2>1, StepIdAssumption, FS_Subset, FS_CardinalityType
  <2>3. sem' + Cardinality(Holders') = Concurrency
    BY <1>2 DEF PermitInv
  <2> QED
    BY <1>2, <2>2, <2>3, ConcurrencyAssumption
<1>8. LeftAloneInv'
  <2> SUFFICES ASSUME NEW u \in inherited PROVE status'[u] = status[u] /\ task'[u] = task[u]
    BY DEF IInv, LeftAloneInv, TaskStep, StartStep, StandDown, Unwind, FinishStep
  <2>1. u \in StepId /\ u # s
    BY DEF IInv, LeftAloneInv, TypeOK, IsPlan, TaskStep, StartStep, StandDown, Unwind, FinishStep
  <2> QED
    BY <1>1, <2>1 DEF TaskStep, StartStep, StandDown, Unwind, FinishStep, RecordResult,
                      MarkCancelled, monitorVars
<1>3. sem \in Nat /\ s \notin pending
  BY ConcurrencyAssumption
  DEF IInv, TypeOK, TaskInv, TaskStep, StartStep, StandDown, Unwind, FinishStep
<1>4. CASE StartStep(s)
  <2> USE <1>4 DEF StartStep
  <2>1. pc = "waiting"
    BY DEF IInv, TypeOK, PcInv, NoTasks
  <2>2. Holders = Running
    BY <2>1 DEF Holders, Running, IInv, TaskInv, PcInv
  <2>3. Holders' = Holders \cup {s} /\ Running' = Running \cup {s} /\ s \notin Holders
    BY <1>1, <2>1 DEF Holders, Running, IInv, TaskInv, PcInv
  <2>4. PermitInv'
    <3>1. Cardinality(Holders') = Cardinality(Holders) + 1 /\ Running' = Holders'
      BY <2>2, <2>3, PermitSetsFinite, FS_AddElement
    <3>2. sem > 0 /\ sem' = sem - 1 /\ sem + Cardinality(Holders) = Concurrency
      BY DEF IInv, PermitInv
    <3>3. sem' + Cardinality(Holders') = Concurrency /\ Cardinality(Running') <= Concurrency
      BY <1>3, <3>1, <3>2, PermitSetsFinite, ConcurrencyAssumption
    <3> QED
      BY <3>3 DEF PermitInv
  <2>5. TypeOK'
    BY <1>2, <1>3, <2>4 DEF IInv, TypeOK, StepStatus, TaskStatus, signalVars, replanVars
  <2>6. TaskInv' /\ PcInv' /\ PlanInv'
    BY <1>1, <1>3 DEF IInv, TaskInv, PcInv, PlanInv, NoTasks, replanVars
  <2>7. LaunchInv'
    <3>1. \A u \in StepId : u # s => task'[u] = task[u] /\ status'[u] = status[u]
      BY <1>1
    <3>2. task[s] = "queued" /\ status[s] = "pending"
      BY DEF IInv, TaskInv
    <3> QED
      BY <3>1, <3>2, LaunchKept DEF IInv, TypeOK
  <2> QED
    BY <1>8, <2>4, <2>5, <2>6, <2>7 DEF IInv
<1>5. CASE StandDown(s)
  <2> USE <1>5 DEF StandDown
  <2>1. status' = [status EXCEPT ![s] = "cancelled"]
    BY <1>1 DEF MarkCancelled, IInv, TaskInv
  <2>2. TypeOK'
    BY <2>1 DEF IInv, TypeOK, StepStatus, TaskStatus, signalVars, replanVars
  <2>3. TaskInv' /\ PcInv' /\ PlanInv'
    BY <1>1, <1>3, <2>1 DEF IInv, TaskInv, PcInv, PlanInv, NoTasks, replanVars
  <2>4. LaunchInv'
    <3>1. \A u \in StepId : u # s => task'[u] = task[u] /\ status'[u] = status[u]
      BY <1>1, <2>1
    <3>2. task[s] = "queued" /\ status[s] = "pending"
      BY DEF IInv, TaskInv
    <3> QED
      BY <3>1, <3>2, LaunchKept DEF IInv, TypeOK
  <2>5. Holders' = Holders /\ Running' = Running
    BY <1>1, <2>1 DEF Holders, Running, IInv, TaskInv
  <2>6. PermitInv'
    BY <2>5, PermitsUnmoved DEF IInv
  <2> QED
    BY <1>8, <2>2, <2>3, <2>4, <2>6 DEF IInv
<1>6. CASE Unwind(s)
  <2> USE <1>6 DEF Unwind
  <2>1. PermitInv' /\ sem' \in Nat
    <3>1. Running' = Running
      BY DEF Running, monitorVars
    <3>2. CASE status[s] = "running"
      <4>1. Holders' = Holders \ {s} /\ s \in Holders
        BY <1>1, <3>2 DEF Holders, monitorVars
      <4>2. Cardinality(Holders') = Cardinality(Holders) - 1
        BY <4>1, PermitSetsFinite, FS_RemoveElement
      <4>3. sem' = sem + 1 /\ sem + Cardinality(Holders) = Concurrency
        BY <3>2 DEF IInv, PermitInv
      <4>4. sem' + Cardinality(Holders') = Concurrency /\ Cardinality(Running') <= Concurrency
        BY <1>3, <3>1, <4>2, <4>3, PermitSetsFinite DEF IInv, PermitInv
      <4> QED
        BY <1>3, <4>3, <4>4 DEF PermitInv
    <3>3. CASE status[s] # "running"
      <4>1. Holders' = Holders /\ sem' = sem
        BY <1>1, <3>3 DEF Holders, monitorVars
      <4> QED
        BY <1>3, <3>1, <4>1, PermitsUnmoved DEF IInv
    <3> QED
      BY <3>2, <3>3
  <2>2. TypeOK'
    BY <1>2, <2>1 DEF IInv, TypeOK, TaskStatus, monitorVars, signalVars, replanVars
  <2>3. TaskInv' /\ PcInv' /\ PlanInv'
    BY <1>1, <1>3 DEF IInv, TaskInv, PcInv, PlanInv, NoTasks, replanVars, monitorVars
  <2>4. LaunchInv'
    <3>1. \A u \in StepId : u # s => task'[u] = task[u]
      BY <1>1
    <3> QED
      BY <3>1, LaunchKept DEF IInv, TypeOK, monitorVars
  <2> QED
    BY <1>8, <2>1, <2>2, <2>3, <2>4 DEF IInv
<1>7. ASSUME NEW r \in AgentStatus, FinishStep(s, r)
      PROVE  IInv'
  <2> USE <1>7 DEF FinishStep, RecordResult
  <2>1. /\ Holders' = Holders \ {s} /\ s \in Holders
        /\ Running' = Running \ {s} /\ s \in Running
    BY <1>1 DEF Holders, Running, IInv, TaskInv
  <2>2. PermitInv' /\ sem' \in Nat
    <3>1. /\ Cardinality(Holders') = Cardinality(Holders) - 1
          /\ Cardinality(Running') = Cardinality(Running) - 1
      BY <2>1, PermitSetsFinite, FS_RemoveElement
    <3>2. /\ sem' = sem + 1 /\ sem + Cardinality(Holders) = Concurrency
          /\ Cardinality(Running) <= Concurrency
      BY DEF IInv, PermitInv
    <3>3. sem' + Cardinality(Holders') = Concurrency /\ Cardinality(Running') <= Concurrency
      BY <1>3, <3>1, <3>2, PermitSetsFinite, ConcurrencyAssumption
    <3> QED
      BY <1>3, <3>2, <3>3 DEF PermitInv
  <2>3. TypeOK'
    BY <1>2, <2>2 DEF IInv, TypeOK, StepStatus, TaskStatus, signalVars, replanVars
  <2>4. TaskInv' /\ PcInv' /\ PlanInv'
    BY <1>1, <1>3 DEF IInv, TaskInv, PcInv, PlanInv, NoTasks, replanVars
  <2>5. LaunchInv'
    <3>1. \A u \in StepId : u # s => task'[u] = task[u] /\ status'[u] = status[u]
      BY <1>1
    <3>2. task[s] = "running" /\ status[s] = "running"
      BY DEF IInv, TaskInv
    <3> QED
      BY <3>1, <3>2, LaunchKept DEF IInv, TypeOK
  <2> QED
    BY <1>8, <2>2, <2>3, <2>4, <2>5 DEF IInv
<1> QED
  BY <1>4, <1>5, <1>6, <1>7 DEF TaskStep

LEMMA NextIInv == IInv /\ [Next]_vars => IInv'
<1> SUFFICES ASSUME IInv, [Next]_vars PROVE IInv'
  OBVIOUS
<1>1. CASE ExecutePlan
  BY <1>1, BeginIInv, WakeAndLaunchIInv, WakeAndPreemptIInv, FinishPreemptIInv DEF ExecutePlan
<1>2. ASSUME NEW s \in StepId, TaskStep(s) PROVE IInv'
  BY <1>2, TaskStepIInv
<1>3. CASE RequestCancel \/ DeadlinePasses \/ UNCHANGED vars
  <2>1. UNCHANGED <<plan, inherited, status, results, trace, replan, failedStep, pending, task, sem, pc>>
    BY <1>3 DEF RequestCancel, DeadlinePasses, vars, monitorVars, replanVars
  <2>2. cancel' \in BOOLEAN /\ expired' \in BOOLEAN
    BY <1>3 DEF RequestCancel, DeadlinePasses, vars, signalVars, IInv, TypeOK
  <2>3. TypeOK'
    BY <2>1, <2>2 DEF IInv, TypeOK
  <2> QED
    BY <2>1, <2>3 DEF IInv, TaskInv, PcInv, LeftAloneInv, LaunchInv, PlanInv, PermitInv, Holders, Running
<1> QED
  BY <1>1, <1>2, <1>3 DEF Next

THEOREM IInvInvariant == Spec => []IInv
  BY InitIInv, NextIInv, PTL DEF Spec

----------------------------------------------------------------------------
\* The type invariant, for every plan and every number of permits.
THEOREM TypeCorrect == Spec => []TypeOK
  BY IInvInvariant, PTL DEF IInv

\* No step ever ran on an incomplete dependency.
THEOREM DependenciesAlwaysMet == Spec => []DependenciesMet
<1>1. IInv => DependenciesMet
  BY DEF IInv, LaunchInv, DependenciesMet
<1> QED
  BY <1>1, IInvInvariant, PTL

----------------------------------------------------------------------------
(* execute_plan implements PlanRun *)

\* The abstract specification's copies of PlanDag's operators.
LEMMA SameOperators ==
  /\ Contract!Lost = Lost
  /\ Contract!Running = Running /\ Contract!Running' = Running'
  /\ \A p : Contract!ValidPlan(p) <=> ValidPlan(p)
  /\ \A p, s, st : Contract!Structural(p, s, st) <=> Structural(p, s, st)
  /\ \A S : Contract!Cardinality(S) = Cardinality(S)
BY DEF Contract!Lost, Lost, Contract!Running, Running, Contract!ValidPlan, ValidPlan,
       Contract!StructureOK, StructureOK, Contract!ReferencesOK, ReferencesOK,
       Contract!Acyclic, Acyclic, Contract!Structural, Structural,
       Contract!TransitiveDependents, TransitiveDependents,
       Contract!Cardinality, Cardinality

(* Every step of the plan is accounted for: it waits in pending, has a task, *)
(* or is over, and a step that is over left the records that belong to it.   *)
AccountInv ==
  /\ \A s \in plan.steps : status[s] # None
  /\ pc = "waiting" =>
       \A s \in plan.steps : status[s] = "pending" /\ task[s] = "none" => s \in pending
  /\ pc = "returned" /\ ~replan => \A s \in plan.steps : status[s] # "pending"
  /\ ResultsRecorded

RInv == IInv /\ AccountInv

LEMMA InitRInv == Init => AccountInv /\ Contract!Init
<1> SUFFICES ASSUME Init PROVE AccountInv /\ Contract!Init
  OBVIOUS
<1>1. ValidPlan(plan) /\ plan.steps \subseteq StepId
  BY DEF Init, PlansOver
<1>2. PICK frozen \in SUBSET plan.steps : Begun(frozen)
  BY InitRecords
<1>3. ~cancel /\ ~expired /\ ~replan /\ pc = "start"
  BY DEF Init, InitRun
<1>4. \A s \in plan.steps : status[s] \in {"pending", "completed"} \cup Lost
  BY <1>2 DEF Begun
<1>5. ResultsRecorded
  <2> SUFFICES ASSUME NEW s \in StepId
               PROVE  /\ status[s] = "completed" <=> results[s] = "completed"
                      /\ status[s] = "failed" <=> results[s] \in {"completed_degraded", "failed"}
                      /\ trace[s] = IF results[s] = None THEN 0 ELSE 1
    BY DEF ResultsRecorded
  <2>1. trace[s] = IF results[s] = None THEN 0 ELSE 1
    BY <1>2 DEF Begun
  <2>2. CASE s \in inherited
    BY <1>2, <2>1, <2>2, NoneAssumption DEF Begun, StepStatus, AgentStatus, Lost
  <2>3. CASE s \notin inherited
    BY <1>2, <2>1, <2>3, NoneAssumption DEF Begun, StepStatus, AgentStatus
  <2> QED
    BY <2>2, <2>3
<1>6. Running = {}
  BY <1>1, <1>2, NoneAssumption DEF Begun, Running, StepStatus, Lost
<1>7. AccountInv
  BY <1>1, <1>3, <1>4, <1>5, NoneAssumption DEF AccountInv, StepStatus, Lost
<1> QED
  BY <1>1, <1>3, <1>4, <1>6, <1>7, SameOperators DEF Contract!Init

\* What it takes for a step of the call to be a step of the abstract run.
LEMMA MakesAdvance ==
  ASSUME pc # "returned",
         \A s \in StepId : status'[s] # status[s] => s \in plan.steps /\
           (Contract!Starts(s) \/ Contract!Ends(s) \/ Contract!Skips(s) \/ Contract!Cancels(s)),
         Cardinality(Running') <= Concurrency,
         pc' = "returned" =>
           Running' = {} /\ (replan \/ \A s \in plan.steps : status'[s] # "pending"),
         UNCHANGED <<plan, cancel, expired, replan>>
  PROVE  Contract!Advance
<1>1. Contract!Cardinality(Contract!Running') <= Concurrency
  BY SameOperators
<1>2. UNCHANGED <<plan, cancel \/ expired, replan>>
  OBVIOUS
<1>3. (pc = "returned")' => /\ Contract!Running' = {}
                            /\ replan \/ \A s \in plan.steps : status'[s] # "pending"
  BY SameOperators
<1> QED
  BY <1>1, <1>2, <1>3 DEF Contract!Advance

----------------------------------------------------------------------------
(* The scheduler's turns *)

\* A turn of the loop only skips steps, each of them rightly, and loses none.
LEMMA LaunchMoves ==
  ASSUME TypeOK, PlanInv, ~replan,
         NEW unlaunched \in SUBSET plan.steps,
         \A s \in unlaunched : status[s] = "pending",
         NEW inFlight \in [StepId -> TaskStatus],
         \A s \in plan.steps : status[s] = "pending" => s \in unlaunched \/ inFlight[s] # "none",
         \A s \in plan.steps : status[s] = "running" => inFlight[s] # "none",
         \A s \in plan.steps : status[s] # None,
         LaunchReady(unlaunched, inFlight)
  PROVE  /\ \A s \in StepId : status'[s] # status[s] =>
              /\ s \in plan.steps /\ status[s] = "pending" /\ status'[s] = "skipped"
              /\ cancel \/ expired \/ \E d \in plan.deps[s] : status'[d] \in Lost
         /\ pc' = "waiting" => \A s \in plan.steps :
              status'[s] = "pending" /\ task'[s] = "none" => s \in pending'
         /\ pc' = "returned" => \A s \in plan.steps : status'[s] # "pending"
         /\ \A s \in plan.steps : status'[s] # None
<1> DEFINE skipped == IF ShouldStopLaunching THEN {} ELSE Blocked(unlaunched)
           ready   == IF ShouldStopLaunching THEN {} ELSE Ready(unlaunched)
           left    == unlaunched \ (skipped \cup ready)
           Lawful(s) == cancel \/ expired \/ \E d \in plan.deps[s] : status'[d] \in Lost
<1>1. plan.steps \subseteq StepId /\ status \in [StepId -> StepStatus \cup {None}]
  BY DEF TypeOK, IsPlan
<1>2. \A s \in plan.steps : plan.deps[s] \subseteq plan.steps
  BY DEF PlanInv
<1>3. /\ skipped \subseteq unlaunched /\ ready \subseteq unlaunched
      /\ ShouldStopLaunching <=> cancel \/ expired
      /\ \A s \in skipped : \E d \in plan.deps[s] : status[d] \in Lost
      /\ \A s \in left : cancel \/ expired \/ \E d \in plan.deps[s] : status[d] # "completed"
      /\ \A s \in left : cancel \/ expired \/ \A d \in plan.deps[s] : status[d] \notin Lost
  BY DEF ShouldStopLaunching, Blocked, Ready
<1>4. /\ task' = [s \in StepId |-> IF s \in ready THEN "queued" ELSE inFlight[s]]
      /\ \/ task' # NoTasks /\ status' = MarkSkipped(skipped) /\ pending' = left /\ pc' = "waiting"
         \/ task' = NoTasks /\ status' = MarkSkipped(skipped \cup left) /\ pc' = "returned"
  BY DEF LaunchReady
<1> HIDE DEF skipped, ready
<1>5. CASE task' # NoTasks /\ status' = MarkSkipped(skipped) /\ pending' = left /\ pc' = "waiting"
  <2>1. \A s \in StepId : status'[s] = IF s \in skipped THEN "skipped" ELSE status[s]
    BY <1>3, <1>5 DEF MarkSkipped
  <2>2. \A s \in skipped : Lawful(s)
    BY <1>1, <1>2, <1>3, <2>1 DEF Lost
  <2>3. \A s \in plan.steps : status'[s] = "pending" /\ task'[s] = "none" => s \in pending'
    BY <1>1, <1>3, <1>4, <1>5, <2>1
  <2> QED
    BY <1>1, <1>3, <1>5, <2>1, <2>2, <2>3, NoneAssumption DEF StepStatus
<1>6. CASE task' = NoTasks /\ status' = MarkSkipped(skipped \cup left) /\ pc' = "returned"
  <2>1. ready = {} /\ \A s \in StepId : inFlight[s] = "none"
    BY <1>1, <1>3, <1>4, <1>6 DEF NoTasks
  <2>2. skipped \cup left = unlaunched
    BY <1>3, <2>1
  <2>3. \A s \in StepId : status'[s] = IF s \in unlaunched THEN "skipped" ELSE status[s]
    BY <1>6, <2>2 DEF MarkSkipped
  <2>4. \A s \in skipped : Lawful(s)
    BY <1>1, <1>2, <1>3, <2>3 DEF Lost
  <2>5. \A s \in left : Lawful(s)
    <3> SUFFICES ASSUME NEW s \in left, ~cancel, ~expired PROVE Lawful(s)
      OBVIOUS
    <3>1. PICK d \in plan.deps[s] : status[d] # "completed" /\ status[d] \notin Lost
      BY <1>3
    <3>2. d \in plan.steps
      BY <1>2, <3>1
    <3>3. status[d] = "pending"
      BY <1>1, <2>1, <3>1, <3>2 DEF StepStatus, Lost
    <3>4. status'[d] = "skipped"
      BY <1>1, <2>1, <2>3, <3>2, <3>3
    <3> QED
      BY <3>1, <3>4 DEF Lost
  <2> QED
    BY <1>1, <1>6, <2>1, <2>2, <2>3, <2>4, <2>5, NoneAssumption DEF StepStatus
<1> QED
  BY <1>4, <1>5, <1>6

\* Such a turn is a step of the abstract run.
LEMMA TurnRefines ==
  ASSUME RInv, IInv', ~replan, pc \in {"start", "waiting"},
         NEW unlaunched \in SUBSET plan.steps,
         \A s \in unlaunched : status[s] = "pending",
         NEW inFlight \in [StepId -> TaskStatus],
         \A s \in plan.steps : status[s] = "pending" => s \in unlaunched \/ inFlight[s] # "none",
         \A s \in plan.steps : status[s] = "running" => inFlight[s] # "none",
         LaunchReady(unlaunched, inFlight),
         UNCHANGED <<plan, inherited, results, trace, signalVars, replanVars, sem>>
  PROVE  AccountInv' /\ Contract!Advance
<1>1. /\ \A s \in StepId : status'[s] # status[s] =>
           /\ s \in plan.steps /\ status[s] = "pending" /\ status'[s] = "skipped"
           /\ cancel \/ expired \/ \E d \in plan.deps[s] : status'[d] \in Lost
      /\ pc' = "waiting" => \A s \in plan.steps :
           status'[s] = "pending" /\ task'[s] = "none" => s \in pending'
      /\ pc' = "returned" => \A s \in plan.steps : status'[s] # "pending"
      /\ \A s \in plan.steps : status'[s] # None
  BY LaunchMoves DEF RInv, IInv, AccountInv
<1>2. pc' \in {"waiting", "returned"}
  BY DEF LaunchReady
<1>3. UNCHANGED <<plan, results, trace, cancel, expired, replan>>
  BY DEF signalVars, replanVars
<1>4. ResultsRecorded'
  <2>1. ResultsRecorded
    BY DEF RInv, AccountInv
  <2>2. \A s \in StepId : \/ status'[s] = status[s]
                          \/ status[s] = "pending" /\ status'[s] = "skipped"
    BY <1>1
  <2>3. \A s \in StepId : results'[s] = results[s] /\ trace'[s] = trace[s]
    BY <1>3
  <2> QED
    BY <2>1, <2>2, <2>3 DEF ResultsRecorded
<1>5. AccountInv'
  BY <1>1, <1>2, <1>3, <1>4 DEF AccountInv
<1>6. \A s \in StepId : status'[s] # status[s] => s \in plan.steps /\ Contract!Skips(s)
  BY <1>1, SameOperators DEF Contract!Skips
<1>7. Cardinality(Running') <= Concurrency
  BY DEF IInv, PermitInv
<1>8. pc' = "returned" => Running' = {}
  <2> SUFFICES ASSUME pc' = "returned", NEW s \in StepId PROVE status'[s] # "running"
    BY DEF Running
  <2>1. task'[s] = "none"
    BY DEF IInv, PcInv, NoTasks
  <2> QED
    BY <2>1 DEF IInv, TaskInv
<1> QED
  BY <1>1, <1>3, <1>5, <1>6, <1>7, <1>8, MakesAdvance

LEMMA BeginRefines ==
  ASSUME RInv, IInv', Begin
  PROVE  AccountInv' /\ Contract!Next
<1> DEFINE unlaunched == {s \in plan.steps : status[s] = "pending"}
<1>1. /\ pc = "start" /\ task = NoTasks /\ ~replan
      /\ \A s \in plan.steps : status[s] \in {"pending", "completed"} \cup Lost
  BY DEF Begin, RInv, IInv, PcInv
<1>2. NoTasks \in [StepId -> TaskStatus]
  BY DEF NoTasks, TaskStatus
<1>3. /\ LaunchReady(unlaunched, NoTasks)
      /\ UNCHANGED <<plan, inherited, results, trace, signalVars, replanVars, sem>>
  BY <1>1 DEF Begin
<1>4. /\ unlaunched \in SUBSET plan.steps
      /\ \A s \in unlaunched : status[s] = "pending"
      /\ \A s \in plan.steps : status[s] = "pending" => s \in unlaunched
  OBVIOUS
<1>5. \A s \in plan.steps : status[s] # "running"
  BY <1>1 DEF Lost
<1> HIDE DEF unlaunched
<1> QED
  BY <1>1, <1>2, <1>3, <1>4, <1>5, TurnRefines DEF Contract!Next

LEMMA WakeAndLaunchRefines ==
  ASSUME RInv, IInv', WakeAndLaunch
  PROVE  AccountInv' /\ Contract!Next
<1> DEFINE inFlight == [s \in StepId |-> IF s \in Done THEN "none" ELSE task[s]]
<1>1. pc = "waiting" /\ ~replan
  BY DEF WakeAndLaunch, RInv, IInv, PcInv
<1>2. inFlight \in [StepId -> TaskStatus]
  BY DEF RInv, IInv, TypeOK, TaskStatus
<1>3. /\ LaunchReady(pending, inFlight)
      /\ UNCHANGED <<plan, inherited, results, trace, signalVars, replanVars, sem>>
  BY DEF WakeAndLaunch
<1>4. plan.steps \subseteq StepId
  BY DEF RInv, IInv, TypeOK, IsPlan
<1>5. pending \in SUBSET plan.steps /\ \A s \in pending : status[s] = "pending"
  BY DEF RInv, IInv, TypeOK, TaskInv
<1>6. \A s \in StepId : inFlight[s] = IF task[s] = "done" THEN "none" ELSE task[s]
  BY DEF Done
<1> HIDE DEF inFlight
<1>7. \A s \in plan.steps :
        /\ status[s] = "pending" => s \in pending \/ inFlight[s] # "none"
        /\ status[s] = "running" => inFlight[s] # "none"
  BY <1>1, <1>4, <1>6 DEF RInv, AccountInv, IInv, TaskInv
<1> QED
  BY <1>1, <1>2, <1>3, <1>5, <1>7, TurnRefines DEF Contract!Next

LEMMA WakeAndPreemptRefines ==
  ASSUME RInv, IInv', WakeAndPreempt
  PROVE  AccountInv' /\ Contract!Next
<1> USE DEF WakeAndPreempt
<1>1. /\ failedStep' \in StepId /\ task[failedStep'] = "done"
      /\ results[failedStep'] = "failed" /\ Structural(plan, failedStep', status)
  BY DEF StructuralFailures, Done
<1>2. failedStep' \in plan.steps /\ status[failedStep'] = "failed"
  BY <1>1 DEF RInv, IInv, TaskInv, AccountInv, ResultsRecorded
<1>3. UNCHANGED <<plan, status, results, trace, cancel, expired>> /\ replan'
      /\ pc = "waiting" /\ pc' = "cancelling"
  BY DEF monitorVars, signalVars
<1>4. AccountInv'
  BY <1>3 DEF RInv, AccountInv, ResultsRecorded
<1>5. Contract!RequestReplan
  BY <1>1, <1>2, <1>3, SameOperators DEF Contract!RequestReplan
<1> QED
  BY <1>4, <1>5 DEF Contract!Next

LEMMA FinishPreemptRefines ==
  ASSUME RInv, IInv', FinishPreempt
  PROVE  AccountInv' /\ Contract!Next
<1> USE DEF FinishPreempt
<1>1. /\ replan /\ pc = "cancelling" /\ pc' = "returned"
      /\ \A s \in StepId : task[s] \in {"none", "unwound"}
  BY DEF RInv, IInv, PcInv
<1>2. UNCHANGED <<plan, results, trace, cancel, expired, replan>>
  BY DEF signalVars, replanVars
<1>3. \A s \in StepId : status'[s] = IF task[s] = "unwound" THEN "cancelled" ELSE status[s]
  BY DEF MarkCancelled, RInv, IInv, TaskInv
<1>4. \A s \in StepId :
        /\ task[s] = "unwound" => s \in plan.steps /\ status[s] \in {"pending", "running"}
        /\ status[s] = "running" => task[s] = "unwound"
  BY <1>1 DEF RInv, IInv, TaskInv
<1>5. Running' = {}
  BY <1>3, <1>4 DEF Running
<1>6. ResultsRecorded'
  <2>1. ResultsRecorded
    BY DEF RInv, AccountInv
  <2>2. \A s \in StepId : \/ status'[s] = status[s]
                          \/ status[s] \in {"pending", "running"} /\ status'[s] = "cancelled"
    BY <1>3, <1>4
  <2> QED
    BY <1>2, <2>1, <2>2 DEF ResultsRecorded
<1>7. AccountInv'
  <2>1. plan.steps \subseteq StepId
    BY DEF RInv, IInv, TypeOK, IsPlan
  <2> QED
    BY <1>1, <1>2, <1>3, <1>6, <2>1, NoneAssumption DEF RInv, AccountInv, StepStatus
<1>8. Contract!Advance
  <2>1. \A s \in StepId : status'[s] # status[s] => s \in plan.steps /\ Contract!Cancels(s)
    BY <1>1, <1>3, <1>4 DEF Contract!Cancels
  <2>2. Cardinality(Running') <= Concurrency
    BY DEF IInv, PermitInv
  <2> QED
    BY <1>1, <1>2, <1>5, <2>1, <2>2, MakesAdvance
<1> QED
  BY <1>7, <1>8 DEF Contract!Next
----------------------------------------------------------------------------
(* The tasks *)

\* A task's action keeps the accounts if it moves only its own step.
LEMMA AccountKept ==
  ASSUME RInv, NEW s \in StepId, ResultsRecorded', UNCHANGED <<plan, pending, replan, pc>>,
         \A u \in StepId \ {s} : status'[u] = status[u] /\ task'[u] = task[u],
         task'[s] # "none", s \in plan.steps, status'[s] # None, pc # "returned"
  PROVE  AccountInv'
<1>1. plan.steps \subseteq StepId
  BY DEF RInv, IInv, TypeOK, IsPlan
<1> QED
  BY <1>1 DEF RInv, AccountInv

LEMMA StartStepRefines ==
  ASSUME RInv, IInv', NEW s \in StepId, StartStep(s)
  PROVE  AccountInv' /\ Contract!Next
<1> USE DEF StartStep
<1>1. s \in plan.steps /\ status[s] = "pending"
  BY DEF RInv, IInv, TaskInv
<1>2. pc # "returned" /\ UNCHANGED <<plan, results, trace, cancel, expired, replan, pending, pc>>
  BY DEF RInv, IInv, PcInv, NoTasks, signalVars, replanVars
<1>3. /\ status'[s] = "running" /\ task'[s] = "running"
      /\ \A u \in StepId \ {s} : status'[u] = status[u] /\ task'[u] = task[u]
  BY DEF RInv, IInv, TypeOK
<1>4. ResultsRecorded'
  BY <1>1, <1>2, <1>3 DEF RInv, AccountInv, ResultsRecorded
<1>5. AccountInv'
  BY <1>1, <1>2, <1>3, <1>4, AccountKept, NoneAssumption DEF StepStatus
<1>6. \A d \in plan.deps[s] : status[d] = "completed"
  BY <1>1 DEF RInv, IInv, LaunchInv, LeftAloneInv, Lost
<1>7. Contract!Starts(s)
  BY <1>1, <1>3, <1>6 DEF Contract!Starts, ShouldStopLaunching
<1>8. Cardinality(Running') <= Concurrency
  BY DEF IInv, PermitInv
<1> QED
  BY <1>1, <1>2, <1>3, <1>5, <1>7, <1>8, MakesAdvance DEF Contract!Next

LEMMA StandDownRefines ==
  ASSUME RInv, IInv', NEW s \in StepId, StandDown(s)
  PROVE  AccountInv' /\ Contract!Next
<1> USE DEF StandDown
<1>1. s \in plan.steps /\ status[s] = "pending"
  BY DEF RInv, IInv, TaskInv
<1>2. pc # "returned" /\ UNCHANGED <<plan, results, trace, cancel, expired, replan, pending, pc>>
  BY DEF RInv, IInv, PcInv, NoTasks, signalVars, replanVars
<1>3. /\ status'[s] = "cancelled" /\ task'[s] = "done"
      /\ \A u \in StepId \ {s} : status'[u] = status[u] /\ task'[u] = task[u]
  BY <1>1 DEF MarkCancelled, RInv, IInv, TypeOK
<1>4. ResultsRecorded'
  BY <1>1, <1>2, <1>3 DEF RInv, AccountInv, ResultsRecorded
<1>5. AccountInv'
  BY <1>1, <1>2, <1>3, <1>4, AccountKept, NoneAssumption DEF StepStatus
<1>6. Contract!Cancels(s)
  BY <1>1, <1>3 DEF Contract!Cancels, ShouldStopLaunching
<1>7. Cardinality(Running') <= Concurrency
  BY DEF IInv, PermitInv
<1> QED
  BY <1>1, <1>2, <1>3, <1>5, <1>6, <1>7, MakesAdvance DEF Contract!Next

LEMMA FinishStepRefines ==
  ASSUME RInv, IInv', NEW s \in StepId, NEW r \in AgentStatus, FinishStep(s, r)
  PROVE  AccountInv' /\ Contract!Next
<1> USE DEF FinishStep
<1>1. s \in plan.steps /\ status[s] = "running"
  BY DEF RInv, IInv, TaskInv
<1>2. /\ pc # "returned" /\ ~replan
      /\ UNCHANGED <<plan, cancel, expired, replan, pending, pc>>
  BY DEF RInv, IInv, TypeOK, PcInv, NoTasks, signalVars, replanVars
<1>3. /\ status'[s] = IF r = "completed" THEN "completed" ELSE "failed"
      /\ results'[s] = r /\ trace'[s] = trace[s] + 1 /\ task'[s] = "done"
      /\ \A u \in StepId \ {s} : /\ status'[u] = status[u] /\ task'[u] = task[u]
                                 /\ results'[u] = results[u] /\ trace'[u] = trace[u]
  BY DEF RecordResult, RInv, IInv, TypeOK
<1>4. ResultsRecorded'
  <2>1. results[s] = None
    BY <1>1 DEF RInv, AccountInv, IInv, TypeOK, ResultsRecorded, AgentStatus
  <2>2. trace[s] = 0
    BY <2>1 DEF RInv, AccountInv, ResultsRecorded
  <2> QED
    BY <1>3, <2>1, <2>2, NoneAssumption DEF RInv, AccountInv, ResultsRecorded, AgentStatus
<1>5. AccountInv'
  BY <1>1, <1>2, <1>3, <1>4, AccountKept, NoneAssumption DEF StepStatus
<1>6. Contract!Ends(s)
  BY <1>1, <1>2, <1>3 DEF Contract!Ends
<1>7. Cardinality(Running') <= Concurrency
  BY DEF IInv, PermitInv
<1> QED
  BY <1>1, <1>2, <1>3, <1>5, <1>6, <1>7, MakesAdvance DEF Contract!Next

LEMMA UnwindRefines ==
  ASSUME RInv, NEW s \in StepId, Unwind(s)
  PROVE  AccountInv' /\ UNCHANGED Contract!vars
<1> USE DEF Unwind, monitorVars, signalVars, replanVars
<1>1. UNCHANGED Contract!vars
  BY DEF Contract!vars
<1>2. \A u \in StepId : task'[u] = "none" => task[u] = "none"
  BY DEF RInv, IInv, TypeOK
<1>3. plan.steps \subseteq StepId
  BY DEF RInv, IInv, TypeOK, IsPlan
<1> QED
  BY <1>1, <1>2, <1>3 DEF RInv, AccountInv, ResultsRecorded

----------------------------------------------------------------------------
(* The whole call *)

LEMMA SignalRefines ==
  ASSUME RInv, RequestCancel \/ DeadlinePasses
  PROVE  AccountInv' /\ Contract!Next
<1> USE DEF RequestCancel, DeadlinePasses, monitorVars, signalVars, replanVars
<1>1. Contract!Halt
  BY DEF Contract!Halt
<1>2. AccountInv'
  BY DEF RInv, AccountInv, ResultsRecorded
<1> QED
  BY <1>1, <1>2 DEF Contract!Next

LEMMA NextRefines ==
  ASSUME RInv, [Next]_vars
  PROVE  RInv' /\ [Contract!Next]_(Contract!vars)
<1>1. IInv'
  BY NextIInv DEF RInv
<1>2. CASE ExecutePlan
  BY <1>1, <1>2, BeginRefines, WakeAndLaunchRefines, WakeAndPreemptRefines, FinishPreemptRefines
     DEF ExecutePlan, RInv
<1>3. CASE \E s \in StepId : TaskStep(s)
  BY <1>1, <1>3, StartStepRefines, StandDownRefines, FinishStepRefines, UnwindRefines
     DEF TaskStep, RInv
<1>4. CASE RequestCancel \/ DeadlinePasses
  BY <1>1, <1>4, SignalRefines DEF RInv
<1>5. CASE UNCHANGED vars
  <2>1. UNCHANGED Contract!vars
    BY <1>5 DEF Contract!vars, vars, monitorVars, signalVars, replanVars
  <2>2. AccountInv'
    BY <1>5 DEF RInv, AccountInv, ResultsRecorded, vars, monitorVars, signalVars, replanVars
  <2> QED
    BY <1>1, <2>1, <2>2 DEF RInv
<1> QED
  BY <1>2, <1>3, <1>4, <1>5 DEF Next

THEOREM RInvInvariant == Spec => []RInv
<1>1. Init => RInv
  BY InitIInv, InitRInv DEF RInv
<1>2. RInv /\ [Next]_vars => RInv'
  BY NextRefines
<1> QED
  BY <1>1, <1>2, PTL DEF Spec

\* execute_plan implements the abstract run, with any plan and any number of permits.
THEOREM RefinesPlanRun == Spec => ImplementsPlanRun
<1>1. Init => Contract!Init
  BY InitRInv
<1>2. RInv /\ [Next]_vars => [Contract!Next]_(Contract!vars)
  BY NextRefines
<1> QED
  BY <1>1, <1>2, RInvInvariant, PTL DEF Spec, ImplementsPlanRun, Contract!Spec

\* The semaphore caps the steps that run, also while cancelled tasks unwind.
THEOREM AlwaysCapped == Spec => []Capped
<1>1. IInv => Capped
  BY DEF IInv, PermitInv, Capped, Running
<1> QED
  BY <1>1, IInvInvariant, PTL

\* A step's status, its result and its trace entry never disagree.
THEOREM AlwaysRecorded == Spec => []ResultsRecorded
<1>1. RInv => ResultsRecorded
  BY DEF RInv, AccountInv
<1> QED
  BY <1>1, RInvInvariant, PTL

\* The call never returns with a task, a running step, a taken permit or,
\* unless preempted, an unaccounted step.
THEOREM AlwaysReturnsClean == Spec => []ReturnsClean
<1>1. RInv => ReturnsClean
  <2> SUFFICES ASSUME RInv, pc = "returned"
               PROVE  /\ task = NoTasks /\ sem = Concurrency
                      /\ \A s \in plan.steps : status[s] # "running"
                      /\ ~replan => \A s \in plan.steps : status[s] # "pending"
    BY DEF ReturnsClean
  <2>1. task = NoTasks /\ \A s \in StepId : task[s] = "none"
    BY DEF RInv, IInv, PcInv, NoTasks
  <2>2. Holders = {}
    BY <2>1 DEF Holders
  <2>3. sem = Concurrency
    BY <2>2, FS_EmptySet, ConcurrencyAssumption DEF RInv, IInv, TypeOK, PermitInv
  <2>4. plan.steps \subseteq StepId
    BY DEF RInv, IInv, TypeOK, IsPlan
  <2> QED
    BY <2>1, <2>3, <2>4 DEF RInv, IInv, TaskInv, AccountInv
<1> QED
  BY <1>1, RInvInvariant, PTL
----------------------------------------------------------------------------
(* What the abstract run already tells *)

\* How a status can move, whatever step of the call moved it.
LEMMA StatusMoves ==
  ASSUME [Contract!Next]_(Contract!vars), NEW s \in StepId, status'[s] # status[s]
  PROVE  /\ s \in plan.steps /\ UNCHANGED <<plan, cancel \/ expired, replan>>
         /\ Contract!Starts(s) \/ Contract!Ends(s) \/ Contract!Skips(s) \/ Contract!Cancels(s)
BY DEF Contract!Next, Contract!vars, Contract!Advance, Contract!Halt, Contract!RequestReplan

LEMMA PlanKept ==
  ASSUME [Contract!Next]_(Contract!vars)
  PROVE  plan' = plan /\ (cancel \/ expired => cancel' \/ expired')
BY DEF Contract!Next, Contract!vars, Contract!Advance, Contract!Halt, Contract!RequestReplan

LEMMA InheritedKept == [Next]_vars => inherited' = inherited
BY DEF Next, ExecutePlan, Begin, WakeAndLaunch, WakeAndPreempt, FinishPreempt, TaskStep,
       StartStep, StandDown, Unwind, FinishStep, RequestCancel, DeadlinePasses, vars

\* A lost step stays lost, and a step that the call skips has a lost dependency or
\* the call was told to stop.
THEOREM AlwaysSkipJustified == Spec => []SkipJustified
<1>1. Init => SkipJustified
  <2> SUFFICES ASSUME Init, NEW s \in plan.steps \ inherited PROVE status[s] # "skipped"
    BY DEF SkipJustified
  <2> QED
    BY InitRecords DEF Begun
<1>2. RInv /\ SkipJustified /\ [Next]_vars => SkipJustified'
  <2> SUFFICES ASSUME RInv, SkipJustified, [Next]_vars PROVE SkipJustified'
    OBVIOUS
  <2>1. [Contract!Next]_(Contract!vars)
    BY NextRefines
  <2>2. plan' = plan /\ inherited' = inherited /\ (cancel \/ expired => cancel' \/ expired')
    BY <2>1, PlanKept, InheritedKept
  <2>3. plan.steps \subseteq StepId /\ \A s \in plan.steps : plan.deps[s] \subseteq plan.steps
    BY DEF RInv, IInv, TypeOK, IsPlan, PlanInv
  <2> SUFFICES ASSUME NEW s \in plan.steps \ inherited, status'[s] = "skipped", ~cancel', ~expired'
               PROVE  \E d \in plan.deps[s] : status'[d] \in Lost
    BY <2>2 DEF SkipJustified
  <2>4. CASE status[s] = "skipped"
    <3>1. PICK d \in plan.deps[s] : status[d] \in Lost
      BY <2>2, <2>4 DEF SkipJustified
    <3>2. d \in StepId
      BY <2>3
    <3>3. status'[d] = status[d]
      BY <2>1, <3>1, <3>2, StatusMoves
         DEF Lost, Contract!Starts, Contract!Ends, Contract!Skips, Contract!Cancels
    <3> QED
      BY <3>1, <3>3
  <2>5. CASE status[s] # "skipped"
    <3>1. Contract!Skips(s)
      BY <2>1, <2>3, <2>5, StatusMoves DEF Contract!Starts, Contract!Ends, Contract!Cancels
    <3> QED
      BY <2>2, <3>1, SameOperators DEF Contract!Skips
  <2> QED
    BY <2>4, <2>5
<1> QED
  BY <1>1, <1>2, RInvInvariant, PTL DEF Spec

\* A user's cancel and a deadline let running steps end and no other step start.
THEOREM AlwaysCooperativeStop == Spec => CooperativeStop
<1> DEFINE Step == \A s \in StepId :
             /\ status[s] = "running" /\ status'[s] = "cancelled" => replan
             /\ cancel \/ expired => (status'[s] = "running" => status[s] = "running")
<1>1. RInv /\ [Next]_vars => [Step]_vars
  <2> SUFFICES ASSUME RInv, [Next]_vars, NEW s \in StepId
               PROVE  /\ status[s] = "running" /\ status'[s] = "cancelled" => replan
                      /\ cancel \/ expired => (status'[s] = "running" => status[s] = "running")
    OBVIOUS
  <2>1. [Contract!Next]_(Contract!vars)
    BY NextRefines
  <2>2. CASE status'[s] = status[s]
    BY <2>2
  <2>3. CASE status'[s] # status[s]
    BY <2>1, <2>3, StatusMoves
       DEF Contract!Starts, Contract!Ends, Contract!Skips, Contract!Cancels
  <2> QED
    BY <2>2, <2>3
<1> QED
  BY <1>1, RInvInvariant, PTL DEF Spec, CooperativeStop

\* After a re-plan request a step can only be cancelled, and no result is taken.
THEOREM AlwaysQuietAfterPreempt == Spec => QuietAfterPreempt
<1> DEFINE Step == replan => /\ UNCHANGED <<results, trace>>
                             /\ \A s \in StepId : status'[s] \in {status[s], "cancelled"}
<1>1. RInv /\ [Next]_vars => [Step]_vars
  <2> SUFFICES ASSUME RInv, [Next]_vars, replan
               PROVE  /\ UNCHANGED <<results, trace>>
                      /\ \A s \in StepId : status'[s] \in {status[s], "cancelled"}
    OBVIOUS
  <2>1. pc \in {"cancelling", "returned"} /\ \A s \in StepId : task[s] # "running"
    BY DEF RInv, IInv, TypeOK, PcInv, NoTasks
  <2>2. \A s \in StepId : task[s] # "queued"
    BY DEF RInv, IInv, TypeOK, PcInv, NoTasks
  <2>3. FinishPreempt \/ (\E s \in StepId : Unwind(s)) \/ RequestCancel \/ DeadlinePasses
          \/ UNCHANGED vars
    BY <2>1, <2>2 DEF Next, ExecutePlan, Begin, WakeAndLaunch, WakeAndPreempt,
                      TaskStep, StartStep, StandDown, FinishStep
  <2>4. CASE FinishPreempt
    BY <2>4 DEF FinishPreempt, MarkCancelled
  <2>5. CASE (\E s \in StepId : Unwind(s)) \/ RequestCancel \/ DeadlinePasses \/ UNCHANGED vars
    BY <2>5 DEF Unwind, RequestCancel, DeadlinePasses, vars, monitorVars
  <2> QED
    BY <2>3, <2>4, <2>5
<1> QED
  BY <1>1, RInvInvariant, PTL DEF Spec, QuietAfterPreempt
\* A step that has ended, was skipped or was cancelled keeps its status and result.
THEOREM TerminalAlwaysFinal == Spec => TerminalIsFinal
<1> DEFINE Step == \A s \in StepId : status[s] \in Lost \cup {"completed"} =>
                     status'[s] = status[s] /\ results'[s] = results[s]
<1>1. RInv /\ [Next]_vars => [Step]_vars
  <2> SUFFICES ASSUME RInv, [Next]_vars, NEW s \in StepId, status[s] \in Lost \cup {"completed"}
               PROVE  status'[s] = status[s] /\ results'[s] = results[s]
    OBVIOUS
  <2>1. status'[s] = status[s]
    BY NextRefines, StatusMoves
       DEF Lost, Contract!Starts, Contract!Ends, Contract!Skips, Contract!Cancels
  <2>2. task[s] # "running"
    BY DEF RInv, IInv, TaskInv, Lost
  <2>3. CASE \E u \in StepId, r \in AgentStatus : FinishStep(u, r)
    <3>1. PICK u \in StepId, r \in AgentStatus : FinishStep(u, r)
      BY <2>3
    <3>2. u # s
      BY <2>2, <3>1 DEF FinishStep
    <3> QED
      BY <2>1, <3>1, <3>2 DEF FinishStep, RecordResult, RInv, IInv, TypeOK
  <2>4. CASE ~\E u \in StepId, r \in AgentStatus : FinishStep(u, r)
    <3>1. results' = results
      BY <2>4 DEF Next, ExecutePlan, Begin, WakeAndLaunch, WakeAndPreempt, FinishPreempt,
                  TaskStep, StartStep, StandDown, Unwind, RequestCancel, DeadlinePasses,
                  vars, monitorVars
    <3> QED
      BY <2>1, <3>1
  <2> QED
    BY <2>3, <2>4
<1> QED
  BY <1>1, RInvInvariant, PTL DEF Spec, TerminalIsFinal

----------------------------------------------------------------------------
(* No step waits once its dependencies are complete *)

\* A waiting step has a dependency that has not completed, or whose completion the
\* scheduler has yet to see.
WaitInv ==
  pc = "waiting" /\ ~ShouldStopLaunching =>
    \A s \in pending : \E d \in plan.deps[s] : status[d] # "completed" \/ task[d] = "done"

\* What a turn leaves waiting was not ready.
LEMMA TurnWaits ==
  ASSUME TypeOK, PlanInv,
         NEW unlaunched \in SUBSET plan.steps,
         \A s \in unlaunched : status[s] = "pending",
         NEW inFlight \in [StepId -> TaskStatus],
         LaunchReady(unlaunched, inFlight),
         UNCHANGED <<plan, signalVars, replanVars>>
  PROVE  WaitInv'
<1>1. Effect(unlaunched, inFlight)
  BY LaunchReadyEffect
<1>2. ShouldStopLaunching' <=> ShouldStopLaunching
  BY DEF ShouldStopLaunching, signalVars, replanVars
<1> SUFFICES ASSUME pc' = "waiting", ~ShouldStopLaunching, NEW s \in pending'
             PROVE  \E d \in plan'.deps[s] : status'[d] # "completed" \/ task'[d] = "done"
  BY <1>2 DEF WaitInv
<1>3. s \in unlaunched /\ s \notin Ready(unlaunched)
  BY DEF LaunchReady
<1>4. PICK d \in plan.deps[s] : status[d] # "completed"
  BY <1>3 DEF Ready
<1>5. d \in StepId
  BY <1>3, <1>4 DEF PlanInv, TypeOK, IsPlan
<1>6. status'[d] # "completed"
  BY <1>1, <1>4, <1>5 DEF Effect, Kept, Dropped, Launched
<1> QED
  BY <1>4, <1>6

LEMMA NextWaits == RInv /\ WaitInv /\ [Next]_vars => WaitInv'
<1> SUFFICES ASSUME RInv, WaitInv, [Next]_vars PROVE WaitInv'
  OBVIOUS
<1>1. TypeOK /\ PlanInv /\ TaskInv
  BY DEF RInv, IInv
<1>2. CASE Begin
  <2> DEFINE unlaunched == {s \in plan.steps : status[s] = "pending"}
  <2>1. LaunchReady(unlaunched, task) /\ UNCHANGED <<plan, signalVars, replanVars>>
    BY <1>2 DEF Begin
  <2>2. task \in [StepId -> TaskStatus]
    BY <1>1 DEF TypeOK
  <2> QED
    BY <1>1, <2>1, <2>2, TurnWaits
<1>3. CASE WakeAndLaunch
  <2> DEFINE inFlight == [s \in StepId |-> IF s \in Done THEN "none" ELSE task[s]]
  <2>1. LaunchReady(pending, inFlight) /\ UNCHANGED <<plan, signalVars, replanVars>>
    BY <1>3 DEF WakeAndLaunch
  <2>2. inFlight \in [StepId -> TaskStatus]
    BY <1>1 DEF TypeOK, TaskStatus
  <2>3. pending \in SUBSET plan.steps /\ \A s \in pending : status[s] = "pending"
    BY <1>1 DEF TypeOK, TaskInv
  <2> HIDE DEF inFlight
  <2> QED
    BY <1>1, <2>1, <2>2, <2>3, TurnWaits
<1>4. CASE WakeAndPreempt \/ FinishPreempt \/ RequestCancel \/ DeadlinePasses
  BY <1>4 DEF WakeAndPreempt, FinishPreempt, RequestCancel, DeadlinePasses, WaitInv,
              ShouldStopLaunching
<1>5. CASE \E s \in StepId : TaskStep(s)
  <2>1. PICK u \in StepId : TaskStep(u)
    BY <1>5
  <2>2. /\ UNCHANGED <<plan, signalVars, replanVars, pending, pc>>
        /\ \A d \in StepId \ {u} : status'[d] = status[d] /\ task'[d] = task[d]
        /\ ~ShouldStopLaunching => status'[u] # "completed" \/ task'[u] = "done"
    <3>1. CASE StartStep(u)
      BY <1>1, <3>1 DEF StartStep, TypeOK
    <3>2. CASE StandDown(u)
      BY <1>1, <3>2 DEF StandDown, MarkCancelled, TypeOK
    <3>3. CASE Unwind(u)
      BY <1>1, <3>3 DEF Unwind, TypeOK, TaskInv, monitorVars
    <3>4. CASE \E r \in AgentStatus : FinishStep(u, r)
      BY <1>1, <3>4 DEF FinishStep, RecordResult, TypeOK
    <3> QED
      BY <2>1, <3>1, <3>2, <3>3, <3>4 DEF TaskStep
  <2>3. ShouldStopLaunching' <=> ShouldStopLaunching
    BY <2>2 DEF ShouldStopLaunching, signalVars, replanVars
  <2> SUFFICES ASSUME pc = "waiting", ~ShouldStopLaunching, NEW s \in pending
               PROVE  \E d \in plan.deps[s] : status'[d] # "completed" \/ task'[d] = "done"
    BY <2>2, <2>3 DEF WaitInv
  <2>4. PICK d \in plan.deps[s] : status[d] # "completed" \/ task[d] = "done"
    BY DEF WaitInv
  <2>5. d \in StepId
    BY <1>1, <2>4 DEF PlanInv, TypeOK, IsPlan, TaskInv
  <2> QED
    BY <2>2, <2>4, <2>5
<1>6. CASE UNCHANGED vars
  BY <1>6 DEF vars, monitorVars, signalVars, replanVars, WaitInv, ShouldStopLaunching
<1> QED
  BY <1>2, <1>3, <1>4, <1>5, <1>6 DEF Next, ExecutePlan

\* While the scheduler sleeps, every step whose dependencies completed was launched.
THEOREM AlwaysLaunchedAtOnce == Spec => []LaunchedAtOnce
<1>1. Init => WaitInv
  BY DEF Init, InitRun, WaitInv
<1>3. RInv /\ WaitInv => LaunchedAtOnce
  <2> SUFFICES ASSUME RInv, WaitInv, pc = "waiting", Done = {}, ~ShouldStopLaunching,
                      NEW s \in pending
               PROVE  \E d \in plan.deps[s] : status[d] # "completed"
    BY DEF LaunchedAtOnce
  <2>1. PICK d \in plan.deps[s] : status[d] # "completed" \/ task[d] = "done"
    BY DEF WaitInv
  <2>2. d \in StepId
    BY <2>1 DEF RInv, IInv, PlanInv, TypeOK, IsPlan, TaskInv
  <2> QED
    BY <2>1, <2>2 DEF Done
<1> QED
  BY <1>1, <1>3, NextWaits, RInvInvariant, PTL DEF Spec

----------------------------------------------------------------------------
(* No crucial step is lost in silence *)

\* The steps whose loss the plan, or an earlier round, has allowed for.
Spared == plan.optional \cup Doomed

\* Losing step d loses nothing the plan calls crucial that was not doomed before.
Harmless(d) == d \in Spared /\ TransitiveDependents(plan, d) \subseteq Spared

(* While nobody stops the run and no agent degrades, what is lost and was seen  *)
(* to be lost is harmless: the loss of anything else asks for the decider.      *)
LossInv ==
  ~ShouldStopLaunching /\ (\A s \in plan.steps \ inherited : results[s] # "completed_degraded") =>
    \A d \in plan.steps :
      /\ status[d] = "cancelled" => d \in inherited
      /\ status[d] \in Lost => task[d] = "done" \/ Harmless(d)

\* A step depends on what its dependency depends on.
LEMMA DirectDependent ==
  ASSUME NEW p, NEW s \in p.steps, NEW d \in p.deps[s]
  PROVE  /\ s \in TransitiveDependents(p, d)
         /\ TransitiveDependents(p, s) \subseteq TransitiveDependents(p, d)
<1> DEFINE Closed(U, v) == \A t \in p.steps : p.deps[t] \cap (U \cup {v}) # {} => t \in U
<1>1. ASSUME NEW U \in SUBSET p.steps, Closed(U, d) PROVE s \in U /\ Closed(U, s)
  <2>1. p.deps[s] \cap (U \cup {d}) # {}
    OBVIOUS
  <2>2. s \in U
    BY <1>1, <2>1
  <2>3. U \cup {s} \subseteq U \cup {d}
    BY <2>2
  <2> QED
    BY <1>1, <2>2, <2>3
<1>2. \A v : TransitiveDependents(p, v)
              = {t \in p.steps : \A U \in SUBSET p.steps : Closed(U, v) => t \in U}
  BY DEF TransitiveDependents
<1> HIDE DEF Closed
<1> QED
  BY <1>1, <1>2

LEMMA HarmlessDependent ==
  ASSUME PlanInv, NEW s \in plan.steps, NEW d \in plan.deps[s], Harmless(d)
  PROVE  Harmless(s)
BY DirectDependent DEF Harmless

\* A turn of the loop skips no crucial step, unless told to stop.
LEMMA TurnLosesHarmless ==
  ASSUME TypeOK, PlanInv, Acyclic(plan), ~ShouldStopLaunching,
         \A s \in plan.steps : status[s] \in Lost => Harmless(s),
         \A s \in plan.steps : status[s] # None,
         \A s \in plan.steps : status[s] = "cancelled" => s \in inherited,
         NEW unlaunched \in SUBSET plan.steps,
         \A s \in unlaunched : status[s] = "pending",
         NEW inFlight \in [StepId -> TaskStatus],
         \A s \in plan.steps : status[s] = "pending" => s \in unlaunched \/ inFlight[s] # "none",
         \A s \in plan.steps : status[s] = "running" => inFlight[s] # "none",
         LaunchReady(unlaunched, inFlight)
  PROVE  \A s \in plan.steps : /\ status'[s] = "cancelled" => s \in inherited
                               /\ status'[s] \in Lost => Harmless(s)
<1> DEFINE skipped == Blocked(unlaunched)
           ready   == Ready(unlaunched)
           left    == unlaunched \ (skipped \cup ready)
<1>1. plan.steps \subseteq StepId /\ status \in [StepId -> StepStatus \cup {None}]
  BY DEF TypeOK, IsPlan
<1>2. \A s \in plan.steps : plan.deps[s] \subseteq plan.steps
  BY DEF PlanInv
<1>3. \A s \in skipped : Harmless(s)
  <2> SUFFICES ASSUME NEW s \in skipped PROVE Harmless(s)
    OBVIOUS
  <2>1. s \in plan.steps /\ \E d \in plan.deps[s] : status[d] \in Lost
    BY DEF Blocked
  <2> QED
    BY <1>2, <2>1, HarmlessDependent
<1>4. /\ task' = [s \in StepId |-> IF s \in ready THEN "queued" ELSE inFlight[s]]
      /\ \/ task' # NoTasks /\ status' = MarkSkipped(skipped)
         \/ task' = NoTasks /\ status' = MarkSkipped(skipped \cup left)
  BY DEF LaunchReady
<1>5. skipped \subseteq unlaunched /\ ready \subseteq unlaunched
  BY DEF Blocked, Ready
<1>6. /\ \A s \in left : \E d \in plan.deps[s] : status[d] # "completed"
      /\ \A s \in left : \A d \in plan.deps[s] : status[d] \notin Lost
  BY DEF Blocked, Ready
<1> HIDE DEF skipped, ready
<1>7. CASE task' # NoTasks /\ status' = MarkSkipped(skipped)
  <2>1. \A s \in StepId : status'[s] = IF s \in skipped THEN "skipped" ELSE status[s]
    BY <1>1, <1>5, <1>7 DEF MarkSkipped
  <2> QED
    BY <1>1, <1>3, <2>1 DEF Lost
<1>8. CASE task' = NoTasks /\ status' = MarkSkipped(skipped \cup left)
  <2>1. ready = {} /\ \A s \in StepId : inFlight[s] = "none"
    BY <1>1, <1>4, <1>5, <1>8 DEF NoTasks
  <2>2. \A s \in StepId : status'[s] = IF s \in skipped \cup left THEN "skipped" ELSE status[s]
    BY <1>1, <1>5, <1>8 DEF MarkSkipped
  <2> DEFINE Bad == {s \in left : ~Harmless(s)}
  <2>3. \A s \in Bad : plan.deps[s] \cap Bad # {}
    <3> SUFFICES ASSUME NEW s \in Bad PROVE plan.deps[s] \cap Bad # {}
      OBVIOUS
    <3>1. PICK d \in plan.deps[s] : status[d] # "completed" /\ status[d] \notin Lost
      BY <1>6
    <3>2. s \in plan.steps /\ d \in plan.steps
      BY <1>2, <3>1
    <3>3. status[d] = "pending"
      BY <1>1, <2>1, <3>1, <3>2 DEF StepStatus, Lost
    <3>4. d \in unlaunched
      BY <1>1, <2>1, <3>2, <3>3
    <3>5. ~Harmless(d)
      BY <3>1, <3>2, HarmlessDependent
    <3> QED
      BY <1>3, <2>1, <3>1, <3>4, <3>5
  <2>4. Bad = {}
    BY <2>3 DEF Acyclic
  <2> HIDE DEF Bad
  <2>5. \A s \in left : Harmless(s)
    BY <2>4 DEF Bad
  <2> QED
    BY <1>1, <1>3, <2>2, <2>5 DEF Lost
<1> QED
  BY <1>4, <1>7, <1>8

CInv == RInv /\ Acyclic(plan) /\ LossInv

LEMMA NextLoss == CInv /\ [Next]_vars => LossInv' /\ Acyclic(plan)'
<1> SUFFICES ASSUME CInv, [Next]_vars PROVE LossInv' /\ Acyclic(plan)'
  OBVIOUS
<1>1. plan' = plan
  BY NextRefines, PlanKept DEF CInv
<1>2. Acyclic(plan)'
  BY <1>1 DEF CInv, Acyclic
<1>3. TypeOK /\ PlanInv /\ TaskInv /\ PcInv /\ AccountInv /\ ResultsRecorded
  BY DEF CInv, RInv, IInv, AccountInv
<1>9. inherited' = inherited /\ LeftAloneInv
  BY InheritedKept DEF CInv, RInv, IInv
<1>10. \A i \in inherited : Harmless(i) /\ i \in plan.steps
  BY <1>3 DEF Harmless, Spared, Doomed, TypeOK
<1>4. plan.steps \subseteq StepId /\ \A d : Harmless(d)' <=> Harmless(d)
  BY <1>1, <1>3, <1>9 DEF TypeOK, IsPlan, Harmless, Spared, Doomed, TransitiveDependents
<1> DEFINE Unstopped == /\ ~ShouldStopLaunching
                        /\ \A s \in plan.steps \ inherited : results[s] # "completed_degraded"
<1>5. ASSUME Unstopped' PROVE LossInv'
  <2>1. Unstopped
    <3>1. ~ShouldStopLaunching
      BY <1>5 DEF Next, ExecutePlan, Begin, WakeAndLaunch, WakeAndPreempt, FinishPreempt, TaskStep,
                  StartStep, StandDown, Unwind, FinishStep, RequestCancel, DeadlinePasses, vars,
                  signalVars, replanVars, ShouldStopLaunching
    <3>2. \A s \in plan.steps : results[s] = "completed_degraded" => results'[s] = "completed_degraded"
      <4> SUFFICES ASSUME NEW s \in plan.steps, results[s] = "completed_degraded"
                   PROVE  results'[s] = "completed_degraded"
        OBVIOUS
      <4>1. status[s] = "failed" /\ task[s] # "running"
        BY <1>3, <1>4 DEF ResultsRecorded, TaskInv, AccountInv
      <4>2. CASE \E u \in StepId, r \in AgentStatus : FinishStep(u, r)
        BY <1>3, <1>4, <4>1, <4>2 DEF FinishStep, RecordResult, TypeOK
      <4>3. CASE ~\E u \in StepId, r \in AgentStatus : FinishStep(u, r)
        BY <4>3 DEF Next, ExecutePlan, Begin, WakeAndLaunch, WakeAndPreempt, FinishPreempt,
                    TaskStep, StartStep, StandDown, Unwind, RequestCancel, DeadlinePasses,
                    vars, monitorVars
      <4> QED
        BY <4>2, <4>3
    <3> QED
      BY <1>1, <1>5, <1>9, <3>1, <3>2
  <2>2. \A d \in plan.steps : /\ status[d] = "cancelled" => d \in inherited
                              /\ status[d] \in Lost => task[d] = "done" \/ Harmless(d)
    BY <2>1 DEF CInv, LossInv
  <2> SUFFICES ASSUME NEW d \in plan.steps
               PROVE  /\ status'[d] = "cancelled" => d \in inherited
                      /\ status'[d] \in Lost => task'[d] = "done" \/ Harmless(d)
    BY <1>1, <1>4, <1>9 DEF LossInv
  <2>3. CASE Begin
    <3> DEFINE unlaunched == {s \in plan.steps : status[s] = "pending"}
    <3>1. LaunchReady(unlaunched, task) /\ task \in [StepId -> TaskStatus]
      BY <1>3, <2>3 DEF Begin, TypeOK
    <3>2. task = NoTasks /\ \A s \in plan.steps : status[s] \in {"pending", "completed"} \cup Lost
      BY <1>3, <2>3 DEF Begin, PcInv
    <3>3. \A s \in plan.steps : status[s] \in Lost => Harmless(s)
      BY <1>4, <2>2, <3>2 DEF NoTasks
    <3>4. \A s \in plan.steps : status[s] # None /\ status[s] # "running"
      BY <3>2, NoneAssumption DEF Lost, StepStatus
    <3>5. unlaunched \in SUBSET plan.steps /\ \A s \in unlaunched : status[s] = "pending"
      OBVIOUS
    <3>6. \A s \in plan.steps : status[s] = "pending" => s \in unlaunched
      OBVIOUS
    <3> HIDE DEF unlaunched
    <3> QED
      BY <1>3, <2>1, <2>2, <3>1, <3>3, <3>4, <3>5, <3>6, TurnLosesHarmless DEF CInv
  <2>4. CASE WakeAndLaunch
    <3> DEFINE inFlight == [s \in StepId |-> IF s \in Done THEN "none" ELSE task[s]]
    <3>1. \A t \in plan.steps : status[t] \in Lost => t \in Spared
      <4> SUFFICES ASSUME NEW t \in plan.steps, status[t] \in Lost, t \notin Spared
                   PROVE  FALSE
        OBVIOUS
      <4>1. task[t] = "done" /\ t \notin plan.optional /\ t \notin inherited
        BY <2>2 DEF Harmless, Spared, Doomed
      <4>2. status[t] = "failed"
        BY <1>3, <1>4, <2>2, <4>1 DEF TaskInv, Lost
      <4>3. results[t] = "failed"
        BY <1>3, <1>4, <2>1, <4>1, <4>2 DEF ResultsRecorded, AccountInv
      <4> QED
        BY <1>4, <2>4, <4>1, <4>3 DEF WakeAndLaunch, StructuralFailures, Structural, Done
    <3>2. ASSUME NEW t \in plan.steps, status[t] \in Lost PROVE Harmless(t)
      <4>1. CASE task[t] = "done"
        <5>0. t \notin inherited
          BY <1>9, <4>1 DEF LeftAloneInv
        <5>1. status[t] = "failed"
          BY <1>3, <1>4, <2>2, <3>2, <4>1, <5>0 DEF TaskInv, Lost
        <5>2. results[t] = "failed"
          BY <1>3, <1>4, <2>1, <5>0, <5>1 DEF ResultsRecorded, AccountInv
        <5>3. ~Structural(plan, t, status)
          BY <1>4, <2>4, <4>1, <5>2 DEF WakeAndLaunch, StructuralFailures, Done
        <5>4. TransitiveDependents(plan, t) \subseteq plan.steps
          BY DEF TransitiveDependents
        <5> QED
          BY <3>1, <5>3, <5>4 DEF Structural, Harmless, Spared
      <4> QED
        BY <2>2, <3>2, <4>1
    <3>3. LaunchReady(pending, inFlight)
      BY <2>4 DEF WakeAndLaunch
    <3>4. inFlight \in [StepId -> TaskStatus]
      BY <1>3 DEF TypeOK, TaskStatus
    <3>5. pending \in SUBSET plan.steps /\ \A s \in pending : status[s] = "pending"
      BY <1>3 DEF TypeOK, TaskInv
    <3>6. \A s \in plan.steps : status[s] = "pending" => s \in pending \/ inFlight[s] # "none"
      BY <1>3, <1>4, <2>4 DEF AccountInv, TaskInv, Done, WakeAndLaunch
    <3>7. \A s \in plan.steps : status[s] = "running" => inFlight[s] # "none"
      BY <1>3, <1>4 DEF TaskInv, Done
    <3>8. \A s \in plan.steps : status[s] # None
      BY <1>3 DEF AccountInv
    <3> HIDE DEF inFlight
    <3> QED
      BY <1>3, <2>1, <2>2, <3>2, <3>3, <3>4, <3>5, <3>6, <3>7, <3>8, TurnLosesHarmless DEF CInv
  <2>5. CASE WakeAndPreempt \/ FinishPreempt
    BY <1>3, <1>5, <2>1, <2>5 DEF WakeAndPreempt, FinishPreempt, ShouldStopLaunching, PcInv
  <2>6. CASE \E s \in StepId : TaskStep(s)
    BY <1>3, <1>4, <2>1, <2>2, <2>6
    DEF TaskStep, StartStep, StandDown, Unwind, FinishStep, RecordResult, TypeOK, Lost, monitorVars
  <2>7. CASE RequestCancel \/ DeadlinePasses \/ UNCHANGED vars
    BY <2>2, <2>7 DEF RequestCancel, DeadlinePasses, vars, monitorVars
  <2> QED
    BY <2>3, <2>4, <2>5, <2>6, <2>7 DEF Next, ExecutePlan
<1>6. ASSUME ~Unstopped' PROVE LossInv'
  BY <1>6 DEF LossInv
<1> QED
  BY <1>2, <1>5, <1>6

\* A call nobody stopped, and whose agents do not degrade, returns with a crucial step
\* lost and no re-plan request only where an earlier round had lost it already.
THEOREM CrucialLossAlwaysConsulted == Spec => []CrucialLossConsulted
<1>1. Init => CInv
  <2> SUFFICES ASSUME Init PROVE CInv
    OBVIOUS
  <2>1. PICK frozen \in SUBSET plan.steps : Begun(frozen)
    BY InitRecords
  <2>2. \A d \in plan.steps : status[d] \in Lost => d \in inherited
    BY <2>1 DEF Begun, Lost
  <2>3. \A d \in inherited : Harmless(d)
    BY DEF Harmless, Spared, Doomed
  <2>4. LossInv
    BY <2>2, <2>3 DEF LossInv, Lost
  <2> QED
    BY <2>4, InitIInv, InitRInv DEF CInv, RInv, Init, ValidPlan
<1>2. CInv /\ [Next]_vars => CInv'
  BY NextLoss, NextRefines DEF CInv
<1>3. CInv => CrucialLossConsulted
  <2> SUFFICES ASSUME CInv, pc = "returned", ~ShouldStopLaunching,
                      \A s \in plan.steps \ inherited : results[s] # "completed_degraded",
                      NEW s \in plan.steps \ (plan.optional \cup Doomed)
               PROVE  status[s] = "completed"
    BY DEF CrucialLossConsulted
  <2>1. s \in StepId /\ status[s] \in StepStatus
    BY DEF CInv, RInv, IInv, TypeOK, IsPlan, AccountInv
  <2>2. task[s] = "none" /\ status[s] # "pending"
    BY <2>1 DEF CInv, RInv, IInv, PcInv, NoTasks, AccountInv, ShouldStopLaunching
  <2>3. status[s] # "running"
    BY <2>1, <2>2 DEF CInv, RInv, IInv, TaskInv
  <2>4. status[s] \notin Lost
    BY <2>2 DEF CInv, LossInv, Harmless, Spared
  <2> QED
    BY <2>1, <2>2, <2>3, <2>4 DEF StepStatus, Lost
<1> QED
  BY <1>1, <1>2, <1>3, PTL DEF Spec
=============================================================================
