-------------------------- MODULE OuterLoop_proofs --------------------------
(***************************************************************************)
(* Proofs about the outer loop and its API, for any budgets and plan       *)
(* sizes: what holds of a run at each place, and of the frames that a      *)
(* client's stream was sent.                                               *)
(***************************************************************************)
EXTENDS TaskApi, TLAPS

\* The most node visits of one round: execute, evaluate, and a synthesis with its
\* judgement for the first draft and for each re-synthesis.
RoundVisits == 4 + 2 * MaxResynth

(* How many nodes the run has entered, at most, by where it is: whole rounds  *)
(* for the re-plans made, and the part of this round that lies behind it.     *)
VisitsInv ==
  /\ at \in {"plan", "planning"} => visits = 1 /\ replans = 0
  /\ at \in {"execute", "executing"} => visits <= replans * RoundVisits + 2
  /\ at \in {"evaluate", "deciding"} => visits <= replans * RoundVisits + 3
  /\ at \in {"synthesize", "synthesizing"} =>
       visits <= replans * RoundVisits + 2 * resynthRounds + 4
  /\ visits <= replans * RoundVisits + 2 * resynthRounds + 5
  /\ at \in {"plan", "planning", "execute", "executing", "evaluate", "deciding"} =>
       resynthRounds = 0
  /\ at = "deciding" => replans < MaxReplans

\* Nothing is done before there is a plan, and every completed step is in it.
WorkInv ==
  /\ at \in {"plan", "planning"} => completed = 0 /\ planSize = 0
  /\ at \in {"execute", "executing"} => planSize > 0
  /\ FrozenWorkKept

\* The draft to be judged, or that was shipped, is made from the completed work,
\* and by the model unless there was nothing to do or the call failed.
DraftInv ==
  /\ DraftIsCurrent
  /\ at \in {"judge", "judging"} /\ ~NothingDone /\ ~synthFailed => draft.kind = "model"
  /\ at = "judging" => ~NothingDone /\ ~synthFailed
  /\ at # "judge" /\ at # "end" /\ at # "crashed" => ~synthFailed
  /\ at = "synthesizing" => ~NothingDone

IInv ==
  /\ TypeOK
  /\ VisitsInv
  /\ WorkInv
  /\ DraftInv
  /\ ReplanConsumed
  /\ CompletedIsSynthesized
  /\ TerminalTogether

----------------------------------------------------------------------------
(* Arithmetic of rounds *)

LEMMA RoundVisitsNat == RoundVisits \in Nat /\ RoundVisits >= 4
  BY BudgetAssumption DEF RoundVisits

LEMMA NextRound ==
  ASSUME NEW r \in Nat
  PROVE  /\ r * RoundVisits \in Nat
         /\ (r + 1) * RoundVisits = r * RoundVisits + RoundVisits
  BY RoundVisitsNat

LEMMA FewerRounds ==
  ASSUME NEW r \in Nat, NEW q \in Nat, r <= q
  PROVE  r * RoundVisits <= q * RoundVisits
  BY RoundVisitsNat

\* The limit covers all rounds.
LEMMA LimitCovers ==
  /\ RecursionLimit \in Nat
  /\ RecursionLimit > (MaxReplans + 1) * RoundVisits + 1
  <1>1. (MaxReplans + 1) * (5 + 2 * MaxResynth)
          = (MaxReplans + 1) * RoundVisits + (MaxReplans + 1)
    BY BudgetAssumption DEF RoundVisits
  <1>2. (MaxReplans + 1) * RoundVisits \in Nat
    BY BudgetAssumption, RoundVisitsNat
  <1> QED
    BY <1>1, <1>2, BudgetAssumption DEF RecursionLimit

\* A run within its rounds is within the bound and below the limit.
LEMMA VisitsBelow ==
  ASSUME TypeOK, VisitsInv
  PROVE  /\ visits <= (MaxReplans + 1) * RoundVisits + 1
         /\ visits < RecursionLimit
  <1>1. replans * RoundVisits <= MaxReplans * RoundVisits
    BY FewerRounds, BudgetAssumption DEF TypeOK
  <1>2. (MaxReplans + 1) * RoundVisits = MaxReplans * RoundVisits + RoundVisits
    BY NextRound, BudgetAssumption
  <1>3. /\ replans * RoundVisits \in Nat
        /\ MaxReplans * RoundVisits \in Nat
        /\ (MaxReplans + 1) * RoundVisits \in Nat
    BY RoundVisitsNat, BudgetAssumption DEF TypeOK
  <1>4. visits <= replans * RoundVisits + 2 * MaxResynth + 5
    BY <1>3, BudgetAssumption DEF TypeOK, VisitsInv
  <1>5. RoundVisits = 4 + 2 * MaxResynth
    BY DEF RoundVisits
  <1> HIDE DEF RoundVisits
  <1>6. visits <= (MaxReplans + 1) * RoundVisits + 1
    BY <1>1, <1>2, <1>3, <1>4, <1>5, BudgetAssumption DEF TypeOK
  <1> QED
    BY <1>6, <1>3, LimitCovers DEF TypeOK

\* Hence no node entry runs into the limit.
LEMMA GotoEnters ==
  ASSUME TypeOK, VisitsInv, NEW n, Goto(n)
  PROVE  at' = n /\ visits' = visits + 1
  BY VisitsBelow DEF Goto

----------------------------------------------------------------------------
LEMMA InitIInv == Init => IInv
  <1> SUFFICES ASSUME Init PROVE IInv
    OBVIOUS
  <1>1. TypeOK
    <2>1. cancel \in BOOLEAN /\ replan \in BOOLEAN /\ synthFailed \in BOOLEAN
      BY DEF Init
    <2> QED
      BY <2>1, BudgetAssumption, PlannerAssumption
      DEF Init, TypeOK, Node, Waiting, TerminalState, FinalStatus
  <1>2. VisitsInv
    BY RoundVisitsNat, NextRound DEF Init, VisitsInv
  <1> QED
    BY <1>1, <1>2
    DEF Init, IInv, WorkInv, DraftInv, FrozenWorkKept, DraftIsCurrent, NothingDone,
       ReplanConsumed, CompletedIsSynthesized, TerminalTogether, TerminalState

LEMMA EnterPlanIInv ==
  ASSUME IInv, EnterPlan
  PROVE  IInv'
  <1>1. visits' = visits
    BY DEF EnterPlan, Await
  <1>2. TypeOK'
    BY <1>1, BudgetAssumption, PlannerAssumption, MaxStepsAssumption
    DEF EnterPlan, Await, planVars, endVars, roundVars, IInv, TypeOK, Node, Waiting,
        TerminalState, FinalStatus
  <1>3. VisitsInv'
    BY <1>1, RoundVisitsNat, NextRound, BudgetAssumption
    DEF EnterPlan, Await, planVars, endVars, roundVars, IInv, TypeOK, VisitsInv
  <1> QED
    BY <1>1, <1>2, <1>3 DEF EnterPlan, Await, planVars, endVars, roundVars,
       IInv, TypeOK, WorkInv, DraftInv, FrozenWorkKept, DraftIsCurrent, NothingDone,
       ReplanConsumed, CompletedIsSynthesized, TerminalTogether, TerminalState, FinalStatus

LEMMA RetryPlanIInv ==
  ASSUME IInv, RetryPlan
  PROVE  IInv'
  <1>1. visits' = visits
    BY DEF RetryPlan
  <1>2. TypeOK'
    BY <1>1, BudgetAssumption, PlannerAssumption, MaxStepsAssumption
    DEF RetryPlan, planVars, endVars, roundVars, IInv, TypeOK, Node, Waiting, TerminalState,
        FinalStatus
  <1>3. VisitsInv'
    BY <1>1, RoundVisitsNat, NextRound, BudgetAssumption
    DEF RetryPlan, planVars, endVars, roundVars, IInv, TypeOK, VisitsInv
  <1> QED
    BY <1>1, <1>2, <1>3 DEF RetryPlan, planVars, endVars, roundVars,
       IInv, TypeOK, WorkInv, DraftInv, FrozenWorkKept, DraftIsCurrent, NothingDone,
       ReplanConsumed, CompletedIsSynthesized, TerminalTogether, TerminalState, FinalStatus

LEMMA GiveUpPlanningIInv ==
  ASSUME IInv, GiveUpPlanning
  PROVE  IInv'
  <1>1. at' = "synthesize" /\ visits' = visits + 1
    BY GotoEnters DEF GiveUpPlanning, IInv
  <1>2. TypeOK'
    BY <1>1, BudgetAssumption, PlannerAssumption, MaxStepsAssumption
    DEF GiveUpPlanning, planVars, endVars, roundVars, IInv, TypeOK, Node, Waiting,
        TerminalState, FinalStatus
  <1>3. VisitsInv'
    BY <1>1, RoundVisitsNat, NextRound, BudgetAssumption
    DEF GiveUpPlanning, planVars, endVars, roundVars, IInv, TypeOK, VisitsInv
  <1> QED
    BY <1>1, <1>2, <1>3 DEF GiveUpPlanning, planVars, endVars, roundVars,
       IInv, TypeOK, WorkInv, DraftInv, FrozenWorkKept, DraftIsCurrent, NothingDone,
       ReplanConsumed, CompletedIsSynthesized, TerminalTogether, TerminalState, FinalStatus

LEMMA AttachPlanIInv ==
  ASSUME IInv, NEW k \in 1 .. MaxSteps, AttachPlan(k)
  PROVE  IInv'
  <1>1. at' = "execute" /\ visits' = visits + 1
    BY GotoEnters DEF AttachPlan, IInv
  <1>2. TypeOK'
    BY <1>1, BudgetAssumption, PlannerAssumption, MaxStepsAssumption
    DEF AttachPlan, planVars, endVars, roundVars, IInv, TypeOK, Node, Waiting, TerminalState,
        FinalStatus
  <1>3. VisitsInv'
    BY <1>1, RoundVisitsNat, NextRound, BudgetAssumption
    DEF AttachPlan, planVars, endVars, roundVars, IInv, TypeOK, VisitsInv
  <1> QED
    BY <1>1, <1>2, <1>3 DEF AttachPlan, planVars, endVars, roundVars,
       IInv, TypeOK, WorkInv, DraftInv, FrozenWorkKept, DraftIsCurrent, NothingDone,
       ReplanConsumed, CompletedIsSynthesized, TerminalTogether, TerminalState, FinalStatus

LEMMA EnterExecuteIInv ==
  ASSUME IInv, EnterExecute
  PROVE  IInv'
  <1>1. visits' = visits
    BY DEF EnterExecute, Await
  <1>2. TypeOK'
    BY <1>1, BudgetAssumption, PlannerAssumption, MaxStepsAssumption
    DEF EnterExecute, Await, planVars, endVars, roundVars, IInv, TypeOK, Node, Waiting,
        TerminalState, FinalStatus
  <1>3. VisitsInv'
    BY <1>1, RoundVisitsNat, NextRound, BudgetAssumption
    DEF EnterExecute, Await, planVars, endVars, roundVars, IInv, TypeOK, VisitsInv
  <1> QED
    BY <1>1, <1>2, <1>3 DEF EnterExecute, Await, planVars, endVars, roundVars,
       IInv, TypeOK, WorkInv, DraftInv, FrozenWorkKept, DraftIsCurrent, NothingDone,
       ReplanConsumed, CompletedIsSynthesized, TerminalTogether, TerminalState, FinalStatus

LEMMA StepCompletesIInv ==
  ASSUME IInv, StepCompletes
  PROVE  IInv'
  <1>1. visits' = visits
    BY DEF StepCompletes
  <1>2. TypeOK'
    BY <1>1, BudgetAssumption, PlannerAssumption, MaxStepsAssumption
    DEF StepCompletes, planVars, endVars, roundVars, IInv, TypeOK, Node, Waiting,
        TerminalState, FinalStatus
  <1>3. VisitsInv'
    BY <1>1, RoundVisitsNat, NextRound, BudgetAssumption
    DEF StepCompletes, planVars, endVars, roundVars, IInv, TypeOK, VisitsInv
  <1> QED
    BY <1>1, <1>2, <1>3 DEF StepCompletes, planVars, endVars, roundVars,
       IInv, TypeOK, WorkInv, DraftInv, FrozenWorkKept, DraftIsCurrent, NothingDone,
       ReplanConsumed, CompletedIsSynthesized, TerminalTogether, TerminalState, FinalStatus

LEMMA StructuralFailureIInv ==
  ASSUME IInv, StructuralFailure
  PROVE  IInv'
  <1>1. visits' = visits
    BY DEF StructuralFailure
  <1>2. TypeOK'
    BY <1>1, BudgetAssumption, PlannerAssumption, MaxStepsAssumption
    DEF StructuralFailure, planVars, endVars, roundVars, IInv, TypeOK, Node, Waiting,
        TerminalState, FinalStatus
  <1>3. VisitsInv'
    BY <1>1, RoundVisitsNat, NextRound, BudgetAssumption
    DEF StructuralFailure, planVars, endVars, roundVars, IInv, TypeOK, VisitsInv
  <1> QED
    BY <1>1, <1>2, <1>3 DEF StructuralFailure, planVars, endVars, roundVars,
       IInv, TypeOK, WorkInv, DraftInv, FrozenWorkKept, DraftIsCurrent, NothingDone,
       ReplanConsumed, CompletedIsSynthesized, TerminalTogether, TerminalState, FinalStatus

LEMMA ExecuteReturnsIInv ==
  ASSUME IInv, ExecuteReturns
  PROVE  IInv'
  <1>1. at' = "evaluate" /\ visits' = visits + 1
    BY GotoEnters DEF ExecuteReturns, IInv
  <1>2. TypeOK'
    BY <1>1, BudgetAssumption, PlannerAssumption, MaxStepsAssumption
    DEF ExecuteReturns, planVars, endVars, roundVars, IInv, TypeOK, Node, Waiting,
        TerminalState, FinalStatus
  <1>3. VisitsInv'
    BY <1>1, RoundVisitsNat, NextRound, BudgetAssumption
    DEF ExecuteReturns, planVars, endVars, roundVars, IInv, TypeOK, VisitsInv
  <1> QED
    BY <1>1, <1>2, <1>3 DEF ExecuteReturns, planVars, endVars, roundVars,
       IInv, TypeOK, WorkInv, DraftInv, FrozenWorkKept, DraftIsCurrent, NothingDone,
       ReplanConsumed, CompletedIsSynthesized, TerminalTogether, TerminalState, FinalStatus

LEMMA EvaluatePassesIInv ==
  ASSUME IInv, EvaluatePasses
  PROVE  IInv'
  <1>1. at' = "synthesize" /\ visits' = visits + 1
    BY GotoEnters DEF EvaluatePasses, IInv
  <1>2. TypeOK'
    BY <1>1, BudgetAssumption, PlannerAssumption, MaxStepsAssumption
    DEF EvaluatePasses, planVars, endVars, roundVars, IInv, TypeOK, Node, Waiting,
        TerminalState, FinalStatus
  <1>3. VisitsInv'
    BY <1>1, RoundVisitsNat, NextRound, BudgetAssumption
    DEF EvaluatePasses, planVars, endVars, roundVars, IInv, TypeOK, VisitsInv
  <1> QED
    BY <1>1, <1>2, <1>3 DEF EvaluatePasses, planVars, endVars, roundVars,
       IInv, TypeOK, WorkInv, DraftInv, FrozenWorkKept, DraftIsCurrent, NothingDone,
       ReplanConsumed, CompletedIsSynthesized, TerminalTogether, TerminalState, FinalStatus

LEMMA EvaluateExhaustedIInv ==
  ASSUME IInv, EvaluateExhausted
  PROVE  IInv'
  <1>1. at' = "synthesize" /\ visits' = visits + 1
    BY GotoEnters DEF EvaluateExhausted, IInv
  <1>2. TypeOK'
    <2>1. replan' \in BOOLEAN
      BY DEF EvaluateExhausted
    <2> QED
      BY <1>1, <2>1, BudgetAssumption
      DEF EvaluateExhausted, planVars, endVars, roundVars, IInv, TypeOK, Node
  <1>3. VisitsInv'
    BY <1>1, RoundVisitsNat, NextRound, BudgetAssumption
    DEF EvaluateExhausted, planVars, endVars, roundVars, IInv, TypeOK, VisitsInv
  <1> QED
    BY <1>1, <1>2, <1>3 DEF EvaluateExhausted, planVars, endVars, roundVars,
       IInv, TypeOK, WorkInv, DraftInv, FrozenWorkKept, DraftIsCurrent, NothingDone,
       ReplanConsumed, CompletedIsSynthesized, TerminalTogether, TerminalState, FinalStatus

LEMMA EvaluateConsultsIInv ==
  ASSUME IInv, EvaluateConsults
  PROVE  IInv'
  <1>1. visits' = visits
    BY DEF EvaluateConsults, Await
  <1>2. TypeOK'
    BY <1>1, BudgetAssumption, PlannerAssumption, MaxStepsAssumption
    DEF EvaluateConsults, Await, planVars, endVars, roundVars, IInv, TypeOK, Node, Waiting,
        TerminalState, FinalStatus
  <1>3. VisitsInv'
    BY <1>1, RoundVisitsNat, NextRound, BudgetAssumption
    DEF EvaluateConsults, Await, planVars, endVars, roundVars, IInv, TypeOK, VisitsInv
  <1> QED
    BY <1>1, <1>2, <1>3 DEF EvaluateConsults, Await, planVars, endVars, roundVars,
       IInv, TypeOK, WorkInv, DraftInv, FrozenWorkKept, DraftIsCurrent, NothingDone,
       ReplanConsumed, CompletedIsSynthesized, TerminalTogether, TerminalState, FinalStatus

LEMMA DecideContinueIInv ==
  ASSUME IInv, DecideContinue
  PROVE  IInv'
  <1>1. at' = "synthesize" /\ visits' = visits + 1
    BY GotoEnters DEF DecideContinue, IInv
  <1>2. TypeOK'
    <2>1. replan' \in BOOLEAN
      BY DEF DecideContinue
    <2> QED
      BY <1>1, <2>1, BudgetAssumption
      DEF DecideContinue, planVars, endVars, roundVars, IInv, TypeOK, Node
  <1>3. VisitsInv'
    BY <1>1, RoundVisitsNat, NextRound, BudgetAssumption
    DEF DecideContinue, planVars, endVars, roundVars, IInv, TypeOK, VisitsInv
  <1> QED
    BY <1>1, <1>2, <1>3 DEF DecideContinue, planVars, endVars, roundVars,
       IInv, TypeOK, WorkInv, DraftInv, FrozenWorkKept, DraftIsCurrent, NothingDone,
       ReplanConsumed, CompletedIsSynthesized, TerminalTogether, TerminalState, FinalStatus

LEMMA DecideReplanIInv ==
  ASSUME IInv, NEW k \in 0 .. MaxSteps, DecideReplan(k)
  PROVE  IInv'
  <1>1. at' = "execute" /\ visits' = visits + 1
    BY GotoEnters DEF DecideReplan, IInv
  <1>2. TypeOK'
    <2>1. replan' \in BOOLEAN
      BY DEF DecideReplan
    <2> QED
      BY <1>1, <2>1, BudgetAssumption
      DEF DecideReplan, MergeReplan, planVars, endVars, roundVars, IInv, VisitsInv,
         TypeOK, Node
  <1>3. VisitsInv'
    BY <1>1, RoundVisitsNat, NextRound, BudgetAssumption
    DEF DecideReplan, MergeReplan, planVars, endVars, roundVars, IInv, TypeOK, VisitsInv
  <1> QED
    BY <1>1, <1>2, <1>3 DEF DecideReplan, MergeReplan, planVars, endVars, roundVars,
       IInv, TypeOK, WorkInv, DraftInv, FrozenWorkKept, DraftIsCurrent, NothingDone,
       ReplanConsumed, CompletedIsSynthesized, TerminalTogether, TerminalState, FinalStatus

LEMMA SynthesizeNothingIInv ==
  ASSUME IInv, SynthesizeNothing
  PROVE  IInv'
  <1>1. at' = "judge" /\ visits' = visits + 1
    BY GotoEnters DEF SynthesizeNothing, IInv
  <1>2. TypeOK'
    BY <1>1, BudgetAssumption, PlannerAssumption, MaxStepsAssumption
    DEF SynthesizeNothing, SetDraft, planVars, endVars, roundVars, IInv, TypeOK, Node, Waiting,
        TerminalState, FinalStatus
  <1>3. VisitsInv'
    BY <1>1, RoundVisitsNat, NextRound, BudgetAssumption
    DEF SynthesizeNothing, SetDraft, planVars, endVars, roundVars, IInv, TypeOK, VisitsInv
  <1> QED
    BY <1>1, <1>2, <1>3 DEF SynthesizeNothing, SetDraft, planVars, endVars, roundVars,
       IInv, TypeOK, WorkInv, DraftInv, FrozenWorkKept, DraftIsCurrent, NothingDone,
       ReplanConsumed, CompletedIsSynthesized, TerminalTogether, TerminalState, FinalStatus

LEMMA EnterSynthesizeIInv ==
  ASSUME IInv, EnterSynthesize
  PROVE  IInv'
  <1>1. visits' = visits
    BY DEF EnterSynthesize, Await
  <1>2. TypeOK'
    BY <1>1, BudgetAssumption, PlannerAssumption, MaxStepsAssumption
    DEF EnterSynthesize, Await, planVars, endVars, roundVars, IInv, TypeOK, Node, Waiting,
        TerminalState, FinalStatus
  <1>3. VisitsInv'
    BY <1>1, RoundVisitsNat, NextRound, BudgetAssumption
    DEF EnterSynthesize, Await, planVars, endVars, roundVars, IInv, TypeOK, VisitsInv
  <1> QED
    BY <1>1, <1>2, <1>3 DEF EnterSynthesize, Await, planVars, endVars, roundVars,
       IInv, TypeOK, WorkInv, DraftInv, FrozenWorkKept, DraftIsCurrent, NothingDone,
       ReplanConsumed, CompletedIsSynthesized, TerminalTogether, TerminalState, FinalStatus

LEMMA SynthesizeOkIInv ==
  ASSUME IInv, SynthesizeOk
  PROVE  IInv'
  <1>1. at' = "judge" /\ visits' = visits + 1
    BY GotoEnters DEF SynthesizeOk, IInv
  <1>2. TypeOK'
    BY <1>1, BudgetAssumption, PlannerAssumption, MaxStepsAssumption
    DEF SynthesizeOk, SetDraft, planVars, endVars, roundVars, IInv, TypeOK, Node, Waiting,
        TerminalState, FinalStatus
  <1>3. VisitsInv'
    BY <1>1, RoundVisitsNat, NextRound, BudgetAssumption
    DEF SynthesizeOk, SetDraft, planVars, endVars, roundVars, IInv, TypeOK, VisitsInv
  <1> QED
    BY <1>1, <1>2, <1>3 DEF SynthesizeOk, SetDraft, planVars, endVars, roundVars,
       IInv, TypeOK, WorkInv, DraftInv, FrozenWorkKept, DraftIsCurrent, NothingDone,
       ReplanConsumed, CompletedIsSynthesized, TerminalTogether, TerminalState, FinalStatus

LEMMA SynthesizeFailsIInv ==
  ASSUME IInv, SynthesizeFails
  PROVE  IInv'
  <1>1. at' = "judge" /\ visits' = visits + 1
    BY GotoEnters DEF SynthesizeFails, IInv
  <1>2. TypeOK'
    BY <1>1, BudgetAssumption, PlannerAssumption, MaxStepsAssumption
    DEF SynthesizeFails, SetDraft, planVars, endVars, roundVars, IInv, TypeOK, Node, Waiting,
        TerminalState, FinalStatus
  <1>3. VisitsInv'
    BY <1>1, RoundVisitsNat, NextRound, BudgetAssumption
    DEF SynthesizeFails, SetDraft, planVars, endVars, roundVars, IInv, TypeOK, VisitsInv
  <1> QED
    BY <1>1, <1>2, <1>3 DEF SynthesizeFails, SetDraft, planVars, endVars, roundVars,
       IInv, TypeOK, WorkInv, DraftInv, FrozenWorkKept, DraftIsCurrent, NothingDone,
       ReplanConsumed, CompletedIsSynthesized, TerminalTogether, TerminalState, FinalStatus

LEMMA JudgeSkippedIInv ==
  ASSUME IInv, JudgeSkipped
  PROVE  IInv'
  <1>1. visits' = visits
    BY DEF JudgeSkipped, Accept, BaseStatus
  <1>2. TypeOK'
    BY <1>1, BudgetAssumption, PlannerAssumption, MaxStepsAssumption
    DEF JudgeSkipped, Accept, BaseStatus, planVars, endVars, roundVars, IInv, TypeOK, Node,
        Waiting, TerminalState, FinalStatus
  <1>3. VisitsInv'
    BY <1>1, RoundVisitsNat, NextRound, BudgetAssumption
    DEF JudgeSkipped, Accept, BaseStatus, planVars, endVars, roundVars, IInv, TypeOK, VisitsInv
  <1> QED
    BY <1>1, <1>2, <1>3 DEF JudgeSkipped, Accept, BaseStatus, planVars, endVars, roundVars,
       IInv, TypeOK, WorkInv, DraftInv, FrozenWorkKept, DraftIsCurrent, NothingDone,
       ReplanConsumed, CompletedIsSynthesized, TerminalTogether, TerminalState, FinalStatus

LEMMA EnterJudgeIInv ==
  ASSUME IInv, EnterJudge
  PROVE  IInv'
  <1>1. visits' = visits
    BY DEF EnterJudge, Await
  <1>2. TypeOK'
    BY <1>1, BudgetAssumption, PlannerAssumption, MaxStepsAssumption
    DEF EnterJudge, Await, planVars, endVars, roundVars, IInv, TypeOK, Node, Waiting,
        TerminalState, FinalStatus
  <1>3. VisitsInv'
    BY <1>1, RoundVisitsNat, NextRound, BudgetAssumption
    DEF EnterJudge, Await, planVars, endVars, roundVars, IInv, TypeOK, VisitsInv
  <1> QED
    BY <1>1, <1>2, <1>3 DEF EnterJudge, Await, planVars, endVars, roundVars,
       IInv, TypeOK, WorkInv, DraftInv, FrozenWorkKept, DraftIsCurrent, NothingDone,
       ReplanConsumed, CompletedIsSynthesized, TerminalTogether, TerminalState, FinalStatus

LEMMA VerdictAcceptIInv ==
  ASSUME IInv, VerdictAccept
  PROVE  IInv'
  <1>1. visits' = visits
    BY DEF VerdictAccept, Accept, BaseStatus
  <1>2. TypeOK'
    BY <1>1, BudgetAssumption, PlannerAssumption, MaxStepsAssumption
    DEF VerdictAccept, Accept, BaseStatus, planVars, endVars, roundVars, IInv, TypeOK, Node,
        Waiting, TerminalState, FinalStatus
  <1>3. VisitsInv'
    BY <1>1, RoundVisitsNat, NextRound, BudgetAssumption
    DEF VerdictAccept, Accept, BaseStatus, planVars, endVars, roundVars, IInv, TypeOK,
        VisitsInv
  <1> QED
    BY <1>1, <1>2, <1>3 DEF VerdictAccept, Accept, BaseStatus, planVars, endVars, roundVars,
       IInv, TypeOK, WorkInv, DraftInv, FrozenWorkKept, DraftIsCurrent, NothingDone,
       ReplanConsumed, CompletedIsSynthesized, TerminalTogether, TerminalState, FinalStatus

LEMMA AcceptAnywayIInv ==
  ASSUME IInv, AcceptAnyway
  PROVE  IInv'
  <1>1. visits' = visits
    BY DEF AcceptAnyway, Accept, BaseStatus
  <1>2. TypeOK'
    BY <1>1, BudgetAssumption, PlannerAssumption, MaxStepsAssumption
    DEF AcceptAnyway, Accept, BaseStatus, planVars, endVars, roundVars, IInv, TypeOK, Node,
        Waiting, TerminalState, FinalStatus
  <1>3. VisitsInv'
    BY <1>1, RoundVisitsNat, NextRound, BudgetAssumption
    DEF AcceptAnyway, Accept, BaseStatus, planVars, endVars, roundVars, IInv, TypeOK, VisitsInv
  <1> QED
    BY <1>1, <1>2, <1>3 DEF AcceptAnyway, Accept, BaseStatus, planVars, endVars, roundVars,
       IInv, TypeOK, WorkInv, DraftInv, FrozenWorkKept, DraftIsCurrent, NothingDone,
       ReplanConsumed, CompletedIsSynthesized, TerminalTogether, TerminalState, FinalStatus

LEMMA VerdictResynthesizeIInv ==
  ASSUME IInv, VerdictResynthesize
  PROVE  IInv'
  <1>1. at' = "synthesize" /\ visits' = visits + 1
    BY GotoEnters DEF VerdictResynthesize, IInv
  <1>2. TypeOK'
    BY <1>1, BudgetAssumption, PlannerAssumption, MaxStepsAssumption
    DEF VerdictResynthesize, planVars, endVars, roundVars, IInv, TypeOK, Node, Waiting,
        TerminalState, FinalStatus
  <1>3. VisitsInv'
    BY <1>1, RoundVisitsNat, NextRound, BudgetAssumption
    DEF VerdictResynthesize, planVars, endVars, roundVars, IInv, TypeOK, VisitsInv
  <1> QED
    BY <1>1, <1>2, <1>3 DEF VerdictResynthesize, planVars, endVars, roundVars,
       IInv, TypeOK, WorkInv, DraftInv, FrozenWorkKept, DraftIsCurrent, NothingDone,
       ReplanConsumed, CompletedIsSynthesized, TerminalTogether, TerminalState, FinalStatus

LEMMA VerdictReplanIInv ==
  ASSUME IInv, NEW k \in 0 .. MaxSteps, VerdictReplan(k)
  PROVE  IInv'
  <1>1. at' = "execute" /\ visits' = visits + 1
    BY GotoEnters DEF VerdictReplan, IInv
  <1>2. TypeOK'
    BY <1>1, BudgetAssumption, PlannerAssumption, MaxStepsAssumption
    DEF VerdictReplan, MergeReplan, planVars, endVars, roundVars, IInv, TypeOK, Node, Waiting,
        TerminalState, FinalStatus
  <1>3. VisitsInv'
    <2>1. /\ replans \in Nat /\ resynthRounds \in Nat /\ resynthRounds <= MaxResynth
          /\ visits \in Nat /\ visits <= replans * RoundVisits + 2 * resynthRounds + 5
      BY BudgetAssumption DEF IInv, TypeOK, VisitsInv
    <2>2. replans' = replans + 1 /\ resynthRounds' = 0
      BY DEF VerdictReplan, MergeReplan
    <2>3. (replans + 1) * RoundVisits = replans * RoundVisits + 4 + 2 * MaxResynth
      BY <2>1, NextRound, BudgetAssumption DEF RoundVisits
    <2>4. replans * RoundVisits \in Nat
      BY <2>1, NextRound
    <2>5. visits' <= replans' * RoundVisits + 2
      BY <1>1, <2>1, <2>2, <2>3, <2>4, BudgetAssumption
    <2> QED
      BY <1>1, <2>1, <2>2, <2>3, <2>4, <2>5, BudgetAssumption DEF VisitsInv
  <1> QED
    BY <1>1, <1>2, <1>3 DEF VerdictReplan, MergeReplan, planVars, endVars, roundVars,
       IInv, TypeOK, WorkInv, DraftInv, FrozenWorkKept, DraftIsCurrent, NothingDone,
       ReplanConsumed, CompletedIsSynthesized, TerminalTogether, TerminalState, FinalStatus

LEMMA UncaughtModelErrorIInv ==
  ASSUME IInv, UncaughtModelError
  PROVE  IInv'
  <1>1. visits' = visits
    BY DEF UncaughtModelError
  <1>2. TypeOK'
    BY <1>1, BudgetAssumption, PlannerAssumption, MaxStepsAssumption
    DEF UncaughtModelError, planVars, endVars, roundVars, IInv, TypeOK, Node, Waiting,
        TerminalState, FinalStatus
  <1>3. VisitsInv'
    BY <1>1, RoundVisitsNat, NextRound, BudgetAssumption
    DEF UncaughtModelError, planVars, endVars, roundVars, IInv, TypeOK, VisitsInv
  <1> QED
    BY <1>1, <1>2, <1>3 DEF UncaughtModelError, planVars, endVars, roundVars,
       IInv, TypeOK, WorkInv, DraftInv, FrozenWorkKept, DraftIsCurrent, NothingDone,
       ReplanConsumed, CompletedIsSynthesized, TerminalTogether, TerminalState, FinalStatus

LEMMA UnparsedAnswerIInv ==
  ASSUME IInv, UnparsedAnswer
  PROVE  IInv'
  <1>1. visits' = visits
    BY DEF UnparsedAnswer
  <1>2. TypeOK'
    BY <1>1, BudgetAssumption, PlannerAssumption, MaxStepsAssumption
    DEF UnparsedAnswer, planVars, endVars, roundVars, IInv, TypeOK, Node, Waiting,
        TerminalState, FinalStatus
  <1>3. VisitsInv'
    BY <1>1, RoundVisitsNat, NextRound, BudgetAssumption
    DEF UnparsedAnswer, planVars, endVars, roundVars, IInv, TypeOK, VisitsInv
  <1> QED
    BY <1>1, <1>2, <1>3 DEF UnparsedAnswer, planVars, endVars, roundVars,
       IInv, TypeOK, WorkInv, DraftInv, FrozenWorkKept, DraftIsCurrent, NothingDone,
       ReplanConsumed, CompletedIsSynthesized, TerminalTogether, TerminalState, FinalStatus

LEMMA RequestCancelIInv ==
  ASSUME IInv, RequestCancel
  PROVE  IInv'
  <1>1. visits' = visits
    BY DEF RequestCancel
  <1>2. TypeOK'
    BY <1>1, BudgetAssumption, PlannerAssumption, MaxStepsAssumption
    DEF RequestCancel, planVars, endVars, roundVars, IInv, TypeOK, Node, Waiting,
        TerminalState, FinalStatus
  <1>3. VisitsInv'
    BY <1>1, RoundVisitsNat, NextRound, BudgetAssumption
    DEF RequestCancel, planVars, endVars, roundVars, IInv, TypeOK, VisitsInv
  <1> QED
    BY <1>1, <1>2, <1>3 DEF RequestCancel, planVars, endVars, roundVars,
       IInv, TypeOK, WorkInv, DraftInv, FrozenWorkKept, DraftIsCurrent, NothingDone,
       ReplanConsumed, CompletedIsSynthesized, TerminalTogether, TerminalState, FinalStatus

----------------------------------------------------------------------------
LEMMA NextIInv == IInv /\ [Next]_vars => IInv'
  <1> SUFFICES ASSUME IInv, [Next]_vars PROVE IInv'
    OBVIOUS
  <1>1. CASE Planning
    BY <1>1, EnterPlanIInv, RetryPlanIInv, GiveUpPlanningIInv, AttachPlanIInv DEF Planning
  <1>2. CASE Executing
    BY <1>2, EnterExecuteIInv, StepCompletesIInv, StructuralFailureIInv, ExecuteReturnsIInv
    DEF Executing
  <1>3. CASE Evaluating
    BY <1>3, EvaluatePassesIInv, EvaluateExhaustedIInv, EvaluateConsultsIInv,
       DecideContinueIInv, DecideReplanIInv DEF Evaluating
  <1>4. CASE Synthesizing
    BY <1>4, SynthesizeNothingIInv, EnterSynthesizeIInv, SynthesizeOkIInv, SynthesizeFailsIInv
    DEF Synthesizing
  <1>5. CASE Judging
    BY <1>5, JudgeSkippedIInv, EnterJudgeIInv, VerdictAcceptIInv, AcceptAnywayIInv,
       VerdictResynthesizeIInv, VerdictReplanIInv DEF Judging
  <1>6. CASE Crashing
    BY <1>6, UncaughtModelErrorIInv, UnparsedAnswerIInv DEF Crashing
  <1>7. CASE RequestCancel
    BY <1>7, RequestCancelIInv
  <1>8. CASE UNCHANGED vars
    BY <1>8 DEF vars, planVars, endVars, roundVars, IInv, TypeOK, VisitsInv, WorkInv, DraftInv,
       FrozenWorkKept, DraftIsCurrent, NothingDone, ReplanConsumed, CompletedIsSynthesized,
       TerminalTogether
  <1> QED
    BY <1>1, <1>2, <1>3, <1>4, <1>5, <1>6, <1>7, <1>8 DEF Next, Run

----------------------------------------------------------------------------
(* The invariant holds of every run, and with it what it is made of. *)

\* The strengthened invariant is inductive.
THEOREM LoopInvariant == Spec => []IInv
  <1> QED
    BY InitIInv, NextIInv, PTL DEF Spec

\* Every variable of the outer loop keeps its type and its budget.
THEOREM LoopTypeCorrect == Spec => []TypeOK
  <1>1. IInv => TypeOK
    BY DEF IInv
  <1> QED
    BY <1>1, LoopInvariant, PTL

\* For any max_replans and max_resynth, run_task's recursion limit covers every run.
THEOREM BackstopNeverUsed == Spec => []BackstopUnused
  <1>1. IInv => BackstopUnused
    <2> SUFFICES ASSUME IInv PROVE BackstopUnused
      OBVIOUS
    <2>1. /\ visits <= (MaxReplans + 1) * RoundVisits + 1
          /\ visits < RecursionLimit
      BY VisitsBelow DEF IInv
    <2>2. visits \in Nat /\ RecursionLimit \in Nat
      BY LimitCovers DEF IInv, TypeOK
    <2> QED
      BY <2>1, <2>2, BudgetAssumption DEF BackstopUnused, RoundVisits
  <1> QED
    BY <1>1, LoopInvariant, PTL

\* No re-plan request outlives the evaluation that follows it.
THEOREM ReplanAlwaysConsumed == Spec => []ReplanConsumed
  <1>1. IInv => ReplanConsumed
    BY DEF IInv
  <1> QED
    BY <1>1, LoopInvariant, PTL

\* However often plans are merged, the active one holds every completed step.
THEOREM FrozenWorkAlwaysKept == Spec => []FrozenWorkKept
  <1>1. IInv => FrozenWorkKept
    BY DEF IInv, WorkInv
  <1> QED
    BY <1>1, LoopInvariant, PTL

\* The judged and the shipped draft are made from all the completed work.
THEOREM DraftAlwaysCurrent == Spec => []DraftIsCurrent
  <1>1. IInv => DraftIsCurrent
    BY DEF IInv, DraftInv
  <1> QED
    BY <1>1, LoopInvariant, PTL

\* An undegraded result was written by the model from completed work.
THEOREM CompletedAlwaysSynthesized == Spec => []CompletedIsSynthesized
  <1>1. IInv => CompletedIsSynthesized
    BY DEF IInv
  <1> QED
    BY <1>1, LoopInvariant, PTL

\* State and result become terminal together.
THEOREM AlwaysTerminalTogether == Spec => []TerminalTogether
  <1>1. IInv => TerminalTogether
    BY DEF IInv
  <1> QED
    BY <1>1, LoopInvariant, PTL

----------------------------------------------------------------------------
(* The task as its clients see it *)

\* The API adds no behaviour of its own to the run: what holds of every run of
\* the loop holds whoever watches or cancels it.
THEOREM ApiRunsTheLoop == ApiSpec => Spec
  <1>1. ApiInit => Init
    BY DEF ApiInit
  <1>2. [ApiNext]_allVars => [Next]_vars
    BY DEF ApiNext, SubmitTask, RunStep, CancelTask, OpenStream, StreamTick, allVars, Next
  <1> QED
    BY <1>1, <1>2, PTL DEF ApiSpec, Spec

(* What the last frame shows never runs ahead of the run, and what it shows of *)
(* the end is all there is to show.                                            *)
FrameInv ==
  /\ frame \in [status : {"none", "pending", "planning", "executing"} \cup TerminalState,
                progress : [completed : Nat, total : Nat]]
  /\ registered \in BOOLEAN /\ stream \in {"closed", "open", "ended"}
  /\ frame.progress.completed <= completed
  /\ frame.progress.completed <= frame.progress.total
  /\ frame.progress.total > 0 => planSize > 0 /\ registered
  /\ frame.status \in TerminalState => frame = Snapshot
  /\ stream # "closed" => registered
  /\ stream = "ended" => frame.status \in TerminalState

\* A step of the run takes no progress back, and none is made after its end.
LEMMA LoopMovesOn ==
  ASSUME IInv, [Next]_vars
  PROVE  /\ completed <= completed'
         /\ planSize > 0 => planSize' > 0
         /\ taskState \in TerminalState => UNCHANGED <<taskState, completed, planSize>>
  <1>1. CASE UNCHANGED vars
    BY <1>1 DEF vars, planVars, endVars, IInv, TypeOK
  <1>2. CASE RequestCancel
    BY <1>2 DEF RequestCancel, planVars, endVars, IInv, TypeOK
  <1>3. CASE Run
    <2>1. at # "end" /\ taskState \notin TerminalState
      BY <1>3 DEF Run, Planning, EnterPlan, RetryPlan, GiveUpPlanning, AttachPlan,
           Executing, EnterExecute, StepCompletes, StructuralFailure, ExecuteReturns,
           Evaluating, EvaluatePasses, EvaluateExhausted, EvaluateConsults, DecideContinue,
           DecideReplan, Synthesizing, SynthesizeNothing, EnterSynthesize, SynthesizeOk,
           SynthesizeFails, Judging, JudgeSkipped, EnterJudge, VerdictAccept, AcceptAnyway,
           VerdictResynthesize, VerdictReplan, Crashing, UncaughtModelError, UnparsedAnswer,
           IInv, TerminalTogether
    <2>2. completed' \in {completed, completed + 1}
      BY <1>3 DEF Run, Planning, EnterPlan, RetryPlan, GiveUpPlanning, AttachPlan,
           Executing, EnterExecute, StepCompletes, StructuralFailure, ExecuteReturns,
           Evaluating, EvaluatePasses, EvaluateExhausted, EvaluateConsults, DecideContinue,
           DecideReplan, Synthesizing, SynthesizeNothing, EnterSynthesize, SynthesizeOk,
           SynthesizeFails, Judging, JudgeSkipped, EnterJudge, VerdictAccept, AcceptAnyway,
           VerdictResynthesize, VerdictReplan, Crashing, UncaughtModelError, UnparsedAnswer,
           planVars, Accept
    <2>3. planSize' = planSize \/ planSize' > 0
      BY <1>3 DEF Run, Planning, EnterPlan, RetryPlan, GiveUpPlanning, AttachPlan,
           Executing, EnterExecute, StepCompletes, StructuralFailure, ExecuteReturns,
           Evaluating, EvaluatePasses, EvaluateExhausted, EvaluateConsults, DecideContinue,
           DecideReplan, Synthesizing, SynthesizeNothing, EnterSynthesize, SynthesizeOk,
           SynthesizeFails, Judging, JudgeSkipped, EnterJudge, VerdictAccept, AcceptAnyway,
           VerdictResynthesize, VerdictReplan, Crashing, UncaughtModelError, UnparsedAnswer,
           planVars, Accept, MergeReplan
    <2> QED
      BY <2>1, <2>2, <2>3 DEF IInv, TypeOK
  <1> QED
    BY <1>1, <1>2, <1>3 DEF Next

LEMMA ApiStep ==
  ASSUME [ApiNext]_allVars
  PROVE  [Next]_vars
  BY DEF ApiNext, SubmitTask, RunStep, CancelTask, OpenStream, StreamTick, allVars, Next

LEMMA FrameKept ==
  ASSUME IInv, FrameInv, [ApiNext]_allVars
  PROVE  /\ FrameInv'
         /\ frame.progress.completed <= frame'.progress.completed
  <1>1. /\ completed \in Nat /\ planSize \in Nat /\ completed <= planSize
        /\ taskState \in {"pending", "planning", "executing"} \cup TerminalState
    BY DEF IInv, TypeOK, WorkInv, FrozenWorkKept
  <1>2. CASE StreamTick
    <2>1. UNCHANGED <<completed, planSize, taskState, registered>>
      BY <1>2 DEF StreamTick, vars, planVars, endVars
    <2>2. frame' \in {Snapshot, frame} /\ registered
      BY <1>2 DEF StreamTick, FrameInv
    <2>3. Snapshot = [status |-> taskState,
                      progress |-> [completed |-> completed, total |-> planSize]]
      BY DEF Snapshot, Progress
    <2>4. Snapshot' = Snapshot
      BY <2>1 DEF Snapshot, Progress
    <2>5. frame'.status \in TerminalState => frame' = Snapshot
      BY <2>2 DEF FrameInv
    <2>6. stream' = "ended" => frame'.status \in TerminalState
      BY <1>2, <2>3 DEF StreamTick, EndsStream, KeyChanged
    <2> QED
      BY <1>1, <1>2, <2>1, <2>2, <2>3, <2>4, <2>5, <2>6 DEF FrameInv, StreamTick
  <1>3. CASE ~StreamTick
    <2>1. frame' = frame
      BY <1>3 DEF ApiNext, SubmitTask, RunStep, CancelTask, OpenStream, allVars, apiVars
    <2>2. /\ registered' \in BOOLEAN /\ stream' \in {"closed", "open", "ended"}
          /\ registered => registered'
          /\ stream' # stream => stream' = "open" /\ registered
      BY <1>3 DEF ApiNext, SubmitTask, RunStep, CancelTask, OpenStream, allVars, apiVars, FrameInv, Known
    <2>3. /\ completed <= completed'
          /\ planSize > 0 => planSize' > 0
          /\ taskState \in TerminalState => UNCHANGED <<taskState, completed, planSize>>
      BY LoopMovesOn, ApiStep
    <2>4. completed' \in Nat
      BY NextIInv, ApiStep DEF IInv, TypeOK
    <2>5. frame.status \in TerminalState => frame = Snapshot'
      BY <2>3 DEF FrameInv, Snapshot, Progress
    <2> QED
      BY <1>1, <2>1, <2>2, <2>3, <2>4, <2>5 DEF FrameInv
  <1> QED
    BY <1>2, <1>3

THEOREM FrameInvariant == ApiSpec => [](IInv /\ FrameInv)
  <1>1. ApiInit => IInv /\ FrameInv
    <2> SUFFICES ASSUME ApiInit PROVE IInv /\ FrameInv
      OBVIOUS
    <2>1. IInv /\ completed \in Nat
      BY InitIInv DEF ApiInit, IInv, TypeOK
    <2>2. registered \in BOOLEAN /\ ~registered
      BY DEF ApiInit
    <2>3. stream = "closed" /\ frame = NoFrame
      BY DEF ApiInit
    <2> QED
      BY <2>1, <2>2, <2>3 DEF NoFrame, FrameInv, TerminalState
  <1>2. IInv /\ FrameInv /\ [ApiNext]_allVars => IInv' /\ FrameInv'
    BY FrameKept, NextIInv, ApiStep
  <1> QED
    BY <1>1, <1>2, PTL DEF ApiSpec

\* A stream that ended has shown the state and the counts the other endpoints
\* answer with, and there is a result to fetch.
THEOREM StreamAlwaysShowsEnd == ApiSpec => []StreamShowsEnd
  <1>1. IInv /\ FrameInv => StreamShowsEnd
    BY DEF IInv, TypeOK, TerminalTogether, FrameInv, StreamShowsEnd, GetStatus, GetResult,
           Known, Snapshot, FinalStatus
  <1> QED
    BY <1>1, FrameInvariant, PTL

\* The progress a client watches never falls back and never exceeds its total.
THEOREM ProgressAlwaysSound == ApiSpec => ProgressSound
  <1> DEFINE Step == /\ frame.progress.completed <= frame'.progress.completed
                     /\ frame'.progress.completed <= frame'.progress.total
                     /\ frame'.progress.total > 0 => GetPlan' = "plan"
  <1>1. IInv /\ FrameInv /\ [ApiNext]_allVars => [Step]_allVars
    <2> SUFFICES ASSUME IInv, FrameInv, [ApiNext]_allVars PROVE Step
      OBVIOUS
    <2>1. FrameInv' /\ IInv' /\ frame.progress.completed <= frame'.progress.completed
      BY FrameKept, NextIInv, ApiStep
    <2> QED
      BY <2>1 DEF FrameInv, IInv, TypeOK, GetPlan, Known
  <1> QED
    BY <1>1, FrameInvariant, PTL DEF ApiSpec, ProgressSound
=============================================================================
