--------------------------- MODULE Dispatch_proofs ---------------------------
(***************************************************************************)
(* For any number of runs, steps, permits, threads and re-plan rounds: of  *)
(* each round at most Concurrency agents are at work, and no call waits,   *)
(* and no answer lies, for nobody.                                         *)
(***************************************************************************)
EXTENDS Dispatch, FiniteSetTheorems, TLAPS

Apart == queued \cap working = {} /\ queued \cap answered = {} /\ working \cap answered = {}

ThreadInv == \A c \in queued \cup working \cup answered : c[3] \in Threaded \cup {Engine}

\* What a thread may be at: nothing of a later round, for this round only what its run
\* still waits for, unless the round was given up.
WorkInv ==
  /\ \A c \in working : c[2] <= round[c[1]]
  /\ \A r \in Runs, s \in Steps :
       phase[r] = "executing" /\ <<r, round[r], s>> \in working => task[r][s] = "working"
  /\ \A r \in Runs, s \in Steps :
       phase[r] \in {"new", "plan"} => <<r, round[r], s>> \notin working
  /\ \A r \in Runs : phase[r] \notin Asking => EngineCall(r) \notin working

HoldInv ==
  /\ \A r \in Runs : phase[r] # "executing" => Holding(r) = {}
  /\ \A r \in Runs : Cardinality(Holding(r)) <= Concurrency

\* The threads at work for the n-th round of run r.
Begun(r, n) == {s \in Steps : <<r, n, s>> \in working}

BegunInv == \A r \in Runs, n \in 0 .. MaxReplans : Cardinality(Begun(r, n)) <= Concurrency

CallInv == TypeOK /\ NothingForNobody /\ Apart /\ ThreadInv /\ WorkInv

DispatchInv == CallInv /\ HoldInv /\ BegunInv

----------------------------------------------------------------------------

\* Whom a call belongs to, and what its being awaited says of the run.
LEMMA CallParts ==
  ASSUME NEW c \in Call
  PROVE  /\ c = <<c[1], c[2], c[3]>>
         /\ c[1] \in Runs /\ c[2] \in 0 .. MaxReplans /\ c[3] \in Steps \cup {Engine}
<1> QED
  BY DEF Call

LEMMA EngineCalls ==
  ASSUME TypeOK, NEW r \in Runs
  PROVE  EngineCall(r) \in Call
<1> QED
  BY DEF EngineCall, Call, TypeOK

LEMMA StepCallIn ==
  ASSUME TypeOK, NEW r \in Runs, NEW s \in Steps
  PROVE  <<r, round[r], s>> \in Call
<1> QED
  BY DEF Call, TypeOK

\* While run r waits for an engine call, that call is the only one awaited.
LEMMA AskingAwaits ==
  ASSUME TypeOK, NEW r \in Runs, phase[r] # "executing", NEW c \in Call, c[1] = r, Awaited(c)
  PROVE  c = EngineCall(r) /\ phase[r] \in Asking
<1> QED
  BY CallParts, StepAssumption DEF Awaited, EngineCall

LEMMA ExecutingAwaits ==
  ASSUME TypeOK, NEW r \in Runs, phase[r] = "executing", NEW c \in Call, c[1] = r, Awaited(c)
  PROVE  /\ c[3] \in Steps /\ c = <<r, round[r], c[3]>>
         /\ task[r][c[3]] = "working"
<1>1. phase[r] \notin Asking
  BY DEF Asking
<1> QED
  BY <1>1, CallParts, StepAssumption DEF Awaited

LEMMA HoldingFinite ==
  ASSUME NEW S \in SUBSET Steps
  PROVE  IsFiniteSet(S) /\ Cardinality(S) \in Nat
<1> QED
  BY StepAssumption, FS_Subset, FS_CardinalityType

----------------------------------------------------------------------------

LEMMA DispatchInit == Init => DispatchInv
<1> SUFFICES ASSUME Init PROVE DispatchInv
  OBVIOUS
<1> USE DEF Init
<1>1. TypeOK
  BY SizeAssumption DEF TypeOK
<1>2. NothingForNobody /\ Apart /\ ThreadInv /\ WorkInv
  BY DEF NothingForNobody, Apart, ThreadInv, WorkInv
<1>3. \A r \in Runs : Holding(r) = {}
  BY DEF Holding
<1>4. \A r \in Runs, n \in 0 .. MaxReplans : Begun(r, n) = {}
  BY DEF Begun
<1>5. HoldInv /\ BegunInv
  BY <1>3, <1>4, FS_EmptySet, SizeAssumption DEF HoldInv, BegunInv
<1> QED
  BY <1>1, <1>2, <1>5 DEF DispatchInv, CallInv

LEMMA TypeKept == TypeOK /\ [Next]_vars => TypeOK'
<1> SUFFICES ASSUME TypeOK, [Next]_vars PROVE TypeOK'
  OBVIOUS
<1> USE SizeAssumption
<1>1. ASSUME NEW r \in Runs, Submit(r) PROVE TypeOK'
  BY <1>1, EngineCalls DEF TypeOK, Submit, Ask, Asking
<1>2. ASSUME NEW r \in Runs, Execute(r) PROVE TypeOK'
  <2>1. round' \in [Runs -> 0 .. MaxReplans]
    BY <1>2 DEF TypeOK, Execute
  <2> QED
    BY <1>2, <2>1 DEF TypeOK, Execute, TakeAnswer
<1>3. ASSUME NEW r \in Runs, AskSynthesizer(r) \/ AskJudge(r) PROVE TypeOK'
  BY <1>3, EngineCalls DEF TypeOK, AskSynthesizer, AskJudge, Ask, TakeAnswer, Asking
<1>4. ASSUME NEW r \in Runs, Conclude(r) PROVE TypeOK'
  BY <1>4 DEF TypeOK, Conclude, TakeAnswer
<1>5. ASSUME NEW r \in Runs, Drain(r) PROVE TypeOK'
  BY <1>5, EngineCalls DEF TypeOK, Drain, Ask, Asking
<1>6. ASSUME NEW r \in Runs, NEW s \in Steps, StartStep(r, s) PROVE TypeOK'
  <2>1. queued' \subseteq Call
    BY <1>6, StepCallIn DEF TypeOK, StartStep
  <2> QED
    BY <1>6, <2>1 DEF TypeOK, StartStep
<1>7. ASSUME NEW r \in Runs, NEW s \in Steps, EndStep(r, s) PROVE TypeOK'
  BY <1>7 DEF TypeOK, EndStep
<1>8. ASSUME NEW r \in Runs, Preempt(r) PROVE TypeOK'
  <2>1. queued' \subseteq Call
    BY <1>8, EngineCalls DEF TypeOK, Preempt
  <2>2. task' \in [Runs -> [Steps -> {"idle", "working", "done", "cancelled"}]]
    BY <1>8 DEF TypeOK, Preempt
  <2> QED
    BY <1>8, <2>1, <2>2 DEF TypeOK, Preempt, Asking
<1>9. ASSUME NEW c \in Call, BeginCall(c) \/ EndCall(c) PROVE TypeOK'
  BY <1>9 DEF TypeOK, BeginCall, EndCall
<1>10. CASE UNCHANGED vars
  BY <1>10 DEF TypeOK, vars
<1> QED
  BY <1>1, <1>2, <1>3, <1>4, <1>5, <1>6, <1>7, <1>8, <1>9, <1>10 DEF Next, RunStep

----------------------------------------------------------------------------
(* The calls *)

\* A run that goes on with the answer of its own call leaves no call behind.
LEMMA NothingLeft ==
  ASSUME CallInv, NEW r \in Runs, phase[r] \in Asking, TakeAnswer(r),
         NEW c \in queued \cup answered', c[1] = r
  PROVE  FALSE
<1>1. c \in Call /\ c \in queued \cup answered /\ c # EngineCall(r)
  BY DEF CallInv, TypeOK, TakeAnswer, Apart
<1>2. phase[r] # "executing"
  BY DEF Asking
<1> QED
  BY <1>1, <1>2, AskingAwaits DEF CallInv, NothingForNobody

\* Where only run r moves, what the others wait for is awaited as before.
LEMMA OthersAwait ==
  ASSUME TypeOK, NEW r \in Runs, NEW c \in Call, c[1] # r, Awaited(c),
         phase'[c[1]] = phase[c[1]], round'[c[1]] = round[c[1]], task'[c[1]] = task[c[1]]
  PROVE  Awaited(c)'
<1> QED
  BY DEF Awaited

LEMMA EngineAwaited ==
  ASSUME TypeOK, NEW r \in Runs, phase'[r] \in Asking, round' = round,
         NEW c \in Call, c = EngineCall(r)
  PROVE  Awaited(c)'
<1> QED
  BY CallParts, StepAssumption DEF Awaited, EngineCall

LEMMA AwaitKept == CallInv /\ [Next]_vars => NothingForNobody'
<1> SUFFICES ASSUME CallInv, [Next]_vars, NEW c \in queued' \cup answered'
             PROVE  Awaited(c)'
  BY DEF NothingForNobody
<1>t. TypeOK /\ TypeOK' /\ c \in Call
  BY TypeKept DEF CallInv, TypeOK
<1>o. c \in queued \cup answered => Awaited(c)
  BY DEF CallInv, NothingForNobody
<1>1. ASSUME NEW r \in Runs, Submit(r) PROVE Awaited(c)'
  <2>1. phase'[r] \in Asking /\ round' = round
    BY <1>1, <1>t DEF TypeOK, Submit, Ask, Asking
  <2>2. CASE c = EngineCall(r)
    BY <2>1, <2>2, <1>t, EngineAwaited
  <2>3. CASE c # EngineCall(r)
    <3>1. c \in queued \cup answered
      BY <1>1, <2>3 DEF Submit, Ask
    <3>2. c[1] # r
      BY <1>1, <1>t, <1>o, <3>1, AskingAwaits DEF Submit, Asking
    <3> QED
      BY <1>1, <1>t, <1>o, <3>1, <3>2, CallParts, OthersAwait DEF Submit, Ask, TypeOK
  <2> QED
    BY <2>2, <2>3
<1>2. ASSUME NEW r \in Runs, Execute(r) PROVE Awaited(c)'
  <2>1. phase[r] \in Asking /\ TakeAnswer(r) /\ queued' = queued
    BY <1>2 DEF Execute, Asking
  <2>2. c \in queued \cup answered' /\ c \in queued \cup answered
    BY <2>1 DEF TakeAnswer
  <2>3. c[1] # r
    BY <2>1, <2>2, NothingLeft
  <2> QED
    BY <1>2, <1>t, <1>o, <2>2, <2>3, CallParts, OthersAwait DEF Execute, TypeOK
<1>3. ASSUME NEW r \in Runs, AskSynthesizer(r) \/ AskJudge(r) PROVE Awaited(c)'
  <2>1. phase[r] \in Asking /\ TakeAnswer(r) /\ queued' = queued \cup {EngineCall(r)}
    BY <1>3 DEF AskSynthesizer, AskJudge, Ask, Asking
  <2>2. CASE c = EngineCall(r)
    <3>1. phase'[r] \in Asking /\ round' = round
      BY <1>3, <1>t DEF TypeOK, AskSynthesizer, AskJudge, Ask, Asking
    <3> QED
      BY <3>1, <2>2, <1>t, EngineAwaited
  <2>3. CASE c # EngineCall(r)
    <3>1. c \in queued \cup answered' /\ c \in queued \cup answered
      BY <2>1, <2>3 DEF TakeAnswer
    <3>2. c[1] # r
      BY <2>1, <3>1, NothingLeft
    <3> QED
      BY <1>3, <1>t, <1>o, <3>1, <3>2, CallParts, OthersAwait
      DEF AskSynthesizer, AskJudge, Ask, TypeOK
  <2> QED
    BY <2>2, <2>3
<1>4. ASSUME NEW r \in Runs, Conclude(r) PROVE Awaited(c)'
  <2>1. c \in queued \cup answered' /\ c \in queued \cup answered
    BY <1>4 DEF Conclude, TakeAnswer
  <2>2. c[1] # r
    BY <1>4, <2>1, NothingLeft DEF Conclude
  <2> QED
    BY <1>4, <1>t, <1>o, <2>1, <2>2, CallParts, OthersAwait DEF Conclude, TypeOK
<1>5. ASSUME NEW r \in Runs, Drain(r) PROVE Awaited(c)'
  <2>1. phase'[r] \in Asking /\ round' = round /\ phase[r] = "executing"
    BY <1>5, <1>t DEF TypeOK, Drain, Ask, Asking
  <2>2. CASE c = EngineCall(r)
    BY <2>1, <2>2, <1>t, EngineAwaited
  <2>3. CASE c # EngineCall(r)
    <3>1. c \in queued \cup answered
      BY <1>5, <2>3 DEF Drain, Ask
    <3>2. c[1] # r
      BY <1>5, <1>t, <1>o, <2>1, <3>1, ExecutingAwaits DEF Drain, Holding
    <3> QED
      BY <1>5, <1>t, <1>o, <3>1, <3>2, CallParts, OthersAwait DEF Drain, Ask, TypeOK
  <2> QED
    BY <2>2, <2>3
<1>6. ASSUME NEW r \in Runs, NEW s \in Steps, StartStep(r, s) PROVE Awaited(c)'
  <2>1. CASE c = <<r, round[r], s>>
    BY <1>6, <1>t, <2>1, StepAssumption DEF StartStep, TypeOK, Awaited
  <2>2. CASE c # <<r, round[r], s>>
    <3>1. c \in queued \cup answered
      BY <1>6, <2>2 DEF StartStep
    <3> QED
      BY <1>6, <1>t, <1>o, <3>1, CallParts DEF StartStep, TypeOK, Awaited
  <2> QED
    BY <2>1, <2>2
<1>7. ASSUME NEW r \in Runs, NEW s \in Steps, EndStep(r, s) PROVE Awaited(c)'
  <2>1. c \in queued \cup answered /\ Awaited(c)
    BY <1>7, <1>o DEF EndStep
  <2>2. CASE c[1] # r
    BY <1>7, <1>t, <2>1, <2>2, CallParts, OthersAwait DEF EndStep, TypeOK
  <2>3. CASE c[1] = r
    <3>1. c[3] \in Steps /\ c = <<r, round[r], c[3]>> /\ task[r][c[3]] = "working"
      BY <1>7, <1>t, <2>1, <2>3, ExecutingAwaits DEF EndStep
    <3>2. c # <<r, round[r], s>>
      <4>1. CASE s \in Threaded
        BY <1>7, <4>1 DEF EndStep, CallInv, Apart
      <4>2. CASE s \notin Threaded
        BY <2>1, <4>2, StepAssumption DEF CallInv, ThreadInv
      <4> QED
        BY <4>1, <4>2
    <3> QED
      BY <1>7, <1>t, <2>1, <2>3, <3>1, <3>2, StepAssumption DEF EndStep, TypeOK, Awaited
  <2> QED
    BY <2>2, <2>3
<1>8. ASSUME NEW r \in Runs, Preempt(r) PROVE Awaited(c)'
  <2>1. phase'[r] \in Asking /\ round' = round /\ phase[r] = "executing"
    BY <1>8, <1>t DEF TypeOK, Preempt, Asking
  <2>2. CASE c = EngineCall(r)
    BY <2>1, <2>2, <1>t, EngineAwaited
  <2>3. CASE c # EngineCall(r)
    <3>1. c \in queued \cup answered /\ c \notin StepCalls(r)
      BY <1>8, <2>3 DEF Preempt
    <3>2. c[1] # r
      BY <1>t, <1>o, <2>1, <3>1, ExecutingAwaits DEF StepCalls
    <3> QED
      BY <1>8, <1>t, <1>o, <3>1, <3>2, CallParts, OthersAwait DEF Preempt, TypeOK
  <2> QED
    BY <2>2, <2>3
<1>9. ASSUME NEW d \in Call, BeginCall(d) \/ EndCall(d) PROVE Awaited(c)'
  <2>1. Awaited(c)' <=> Awaited(c)
    BY <1>9 DEF BeginCall, EndCall, Awaited
  <2> QED
    BY <1>9, <1>o, <2>1 DEF BeginCall, EndCall
<1>10. CASE UNCHANGED vars
  BY <1>10, <1>o DEF vars, Awaited
<1> QED
  BY <1>1, <1>2, <1>3, <1>4, <1>5, <1>6, <1>7, <1>8, <1>9, <1>10 DEF Next, RunStep

\* A run that waits for no engine call, or for no call of one of its steps, has none.
LEMMA NoEngineCall ==
  ASSUME CallInv, NEW r \in Runs, phase[r] \notin Asking
  PROVE  EngineCall(r) \notin queued \cup working \cup answered
<1>1. EngineCall(r) \in Call /\ ~Awaited(EngineCall(r))
  BY EngineCalls, StepAssumption DEF CallInv, Awaited, EngineCall
<1> QED
  BY <1>1 DEF CallInv, NothingForNobody, WorkInv

LEMMA NoStepCall ==
  ASSUME CallInv, NEW r \in Runs, phase[r] = "executing", NEW s \in Steps,
         task[r][s] # "working"
  PROVE  <<r, round[r], s>> \notin queued \cup working \cup answered
<1>1. ~Awaited(<<r, round[r], s>>)
  BY StepAssumption DEF Awaited
<1> QED
  BY <1>1 DEF CallInv, NothingForNobody, WorkInv

LEMMA ApartKept == CallInv /\ [Next]_vars => Apart' /\ ThreadInv'
<1> SUFFICES ASSUME CallInv, [Next]_vars PROVE Apart' /\ ThreadInv'
  OBVIOUS
<1>a. Apart /\ ThreadInv
  BY DEF CallInv
<1>1. ASSUME NEW r \in Runs, Submit(r) \/ Drain(r) PROVE Apart' /\ ThreadInv'
  <2>1. phase[r] \notin Asking
    BY <1>1 DEF Submit, Drain, Asking
  <2>2. EngineCall(r) \notin working \cup answered
    BY <2>1, NoEngineCall
  <2> QED
    BY <1>1, <1>a, <2>2 DEF Submit, Drain, Ask, Apart, ThreadInv, EngineCall
<1>2. ASSUME NEW r \in Runs, Execute(r) \/ Conclude(r) PROVE Apart' /\ ThreadInv'
  BY <1>2, <1>a DEF Execute, Conclude, TakeAnswer, Apart, ThreadInv
<1>3. ASSUME NEW r \in Runs, AskSynthesizer(r) \/ AskJudge(r) PROVE Apart' /\ ThreadInv'
  BY <1>3, <1>a DEF AskSynthesizer, AskJudge, Ask, TakeAnswer, Apart, ThreadInv, EngineCall
<1>4. ASSUME NEW r \in Runs, NEW s \in Steps, StartStep(r, s) PROVE Apart' /\ ThreadInv'
  <2>1. <<r, round[r], s>> \notin working \cup answered
    BY <1>4, NoStepCall DEF StartStep
  <2> QED
    BY <1>4, <1>a, <2>1 DEF StartStep, Apart, ThreadInv
<1>5. ASSUME NEW r \in Runs, NEW s \in Steps, EndStep(r, s) PROVE Apart' /\ ThreadInv'
  BY <1>5, <1>a DEF EndStep, Apart, ThreadInv
<1>6. ASSUME NEW r \in Runs, Preempt(r) PROVE Apart' /\ ThreadInv'
  <2>1. phase[r] \notin Asking
    BY <1>6 DEF Preempt, Asking
  <2>2. EngineCall(r) \notin working \cup answered
    BY <2>1, NoEngineCall
  <2> QED
    BY <1>6, <1>a, <2>2 DEF Preempt, Apart, ThreadInv, EngineCall
<1>7. ASSUME NEW d \in Call, BeginCall(d) \/ EndCall(d) PROVE Apart' /\ ThreadInv'
  BY <1>7, <1>a DEF BeginCall, EndCall, Apart, ThreadInv
<1>8. CASE UNCHANGED vars
  BY <1>8, <1>a DEF vars, Apart, ThreadInv
<1> QED
  BY <1>1, <1>2, <1>3, <1>4, <1>5, <1>6, <1>7, <1>8 DEF Next, RunStep

LEMMA WorkKept == CallInv /\ [Next]_vars => WorkInv'
<1> SUFFICES ASSUME CallInv, [Next]_vars PROVE WorkInv'
  OBVIOUS
<1>t. TypeOK /\ WorkInv /\ Apart /\ ThreadInv /\ NothingForNobody
  BY DEF CallInv
<1>1. ASSUME NEW r \in Runs, Submit(r) \/ Drain(r) PROVE WorkInv'
  BY <1>1, <1>t DEF Submit, Drain, Ask, TypeOK, WorkInv, EngineCall, Asking
<1>2. ASSUME NEW r \in Runs, Execute(r) PROVE WorkInv'
  <2>1. /\ round'[r] \in {round[r], round[r] + 1} /\ round[r] \in 0 .. MaxReplans
        /\ phase[r] = "plan" \/ round'[r] = round[r] + 1
        /\ \A q \in Runs \ {r} : round'[q] = round[q] /\ phase'[q] = phase[q] /\ task'[q] = task[q]
        /\ working' = working /\ phase'[r] = "executing"
    BY <1>2, <1>t DEF Execute, TypeOK
  <2>2. \A c \in working : c[2] <= round'[c[1]]
    <3> SUFFICES ASSUME NEW c \in working PROVE c[2] <= round'[c[1]]
      OBVIOUS
    <3>1. c[1] \in Runs /\ c[2] \in 0 .. MaxReplans /\ c[2] <= round[c[1]]
      BY <1>t, CallParts DEF TypeOK, WorkInv
    <3> QED
      BY <3>1, <2>1, SizeAssumption
  <2>3. \A s \in Steps \cup {Engine} : <<r, round'[r], s>> \notin working
    <3> SUFFICES ASSUME NEW s \in Steps \cup {Engine} PROVE <<r, round'[r], s>> \notin working
      OBVIOUS
    <3>1. CASE round'[r] = round[r] + 1
      <4>1. ~(round[r] + 1 <= round[r])
        BY <2>1, SizeAssumption
      <4> QED
        BY <3>1, <4>1, <1>t DEF WorkInv
    <3>2. CASE round'[r] # round[r] + 1 /\ s = Engine
      BY <3>2, <2>1, <1>2, <1>t DEF Execute, TakeAnswer, EngineCall, Apart
    <3>3. CASE round'[r] # round[r] + 1 /\ s \in Steps
      BY <3>3, <2>1, <1>t DEF WorkInv
    <3> QED
      BY <3>1, <3>2, <3>3
  <2>4. ASSUME NEW q \in Runs \ {r}
        PROVE  /\ phase'[q] = phase[q] /\ task'[q] = task[q]
               /\ \A s \in Steps \cup {Engine} : <<q, round'[q], s>> \in working' <=> <<q, round[q], s>> \in working
    BY <2>1
  <2>5. \A q \in Runs, s \in Steps :
          /\ phase'[q] = "executing" /\ <<q, round'[q], s>> \in working' => task'[q][s] = "working"
          /\ phase'[q] \in {"new", "plan"} => <<q, round'[q], s>> \notin working'
    <3> SUFFICES ASSUME NEW q \in Runs, NEW s \in Steps
                 PROVE  /\ phase'[q] = "executing" /\ <<q, round'[q], s>> \in working'
                             => task'[q][s] = "working"
                        /\ phase'[q] \in {"new", "plan"} => <<q, round'[q], s>> \notin working'
      OBVIOUS
    <3>1. CASE q = r
      BY <3>1, <2>1, <2>3
    <3>2. CASE q # r
      BY <3>2, <1>t, <2>1 DEF WorkInv
    <3> QED
      BY <3>1, <3>2
  <2>6. \A q \in Runs : phase'[q] \notin Asking => <<q, round'[q], Engine>> \notin working'
    BY <1>t, <2>1, <2>3, <2>4 DEF WorkInv, EngineCall
  <2> QED
    BY <2>1, <2>2, <2>5, <2>6 DEF WorkInv, EngineCall
<1>3. ASSUME NEW r \in Runs, AskSynthesizer(r) \/ AskJudge(r) PROVE WorkInv'
  BY <1>3, <1>t DEF AskSynthesizer, AskJudge, Ask, TypeOK, WorkInv, EngineCall, Asking
<1>4. ASSUME NEW r \in Runs, Conclude(r) PROVE WorkInv'
  <2>1. EngineCall(r) \notin working
    BY <1>4, <1>t DEF Conclude, TakeAnswer, Apart
  <2> QED
    BY <1>4, <1>t, <2>1 DEF Conclude, TypeOK, WorkInv, EngineCall, Asking
<1>5. ASSUME NEW r \in Runs, NEW s \in Steps, StartStep(r, s) PROVE WorkInv'
  BY <1>5, <1>t DEF StartStep, TypeOK, WorkInv, EngineCall
<1>6. ASSUME NEW r \in Runs, NEW s \in Steps, EndStep(r, s) PROVE WorkInv'
  <2>1. <<r, round[r], s>> \notin working
    <3>1. CASE s \in Threaded
      BY <1>6, <1>t, <3>1 DEF EndStep, Apart
    <3>2. CASE s \notin Threaded
      BY <1>t, <3>2, StepAssumption DEF ThreadInv
    <3> QED
      BY <3>1, <3>2
  <2> QED
    BY <1>6, <1>t, <2>1 DEF EndStep, TypeOK, WorkInv, EngineCall
<1>7. ASSUME NEW r \in Runs, Preempt(r) PROVE WorkInv'
  <2>1. phase'[r] \in {"decide", "synthesize"} /\ round' = round /\ working' = working
        /\ \A q \in Runs \ {r} : phase'[q] = phase[q] /\ task'[q] = task[q]
    BY <1>7, <1>t DEF Preempt, TypeOK
  <2> QED
    BY <1>t, <2>1 DEF WorkInv, EngineCall, Asking
<1>8. ASSUME NEW d \in Call, BeginCall(d) PROVE WorkInv'
  <2>1. Awaited(d) /\ working' = working \cup {d} /\ UNCHANGED <<phase, round, task>>
    BY <1>8, <1>t DEF BeginCall, NothingForNobody
  <2>2. d[2] <= round[d[1]]
    BY <2>1, <1>t, CallParts, SizeAssumption DEF Awaited, TypeOK
  <2>3. ASSUME NEW r \in Runs, NEW s \in Steps, d = <<r, round[r], s>>
        PROVE  phase[r] = "executing" /\ task[r][s] = "working"
    BY <2>1, <2>3, StepAssumption DEF Awaited
  <2>4. ASSUME NEW r \in Runs, d = EngineCall(r) PROVE phase[r] \in Asking
    BY <2>1, <2>4 DEF Awaited, EngineCall
  <2> QED
    BY <1>t, <2>1, <2>2, <2>3, <2>4 DEF WorkInv, EngineCall
<1>9. ASSUME NEW d \in Call, EndCall(d) PROVE WorkInv'
  BY <1>9, <1>t DEF EndCall, WorkInv, EngineCall
<1>10. CASE UNCHANGED vars
  BY <1>10, <1>t DEF vars, WorkInv, EngineCall
<1> QED
  BY <1>1, <1>2, <1>3, <1>4, <1>5, <1>6, <1>7, <1>8, <1>9, <1>10 DEF Next, RunStep

LEMMA CallsKept == CallInv /\ [Next]_vars => CallInv'
<1> QED
  BY TypeKept, AwaitKept, ApartKept, WorkKept DEF CallInv

----------------------------------------------------------------------------
(* The permits *)

LEMMA HoldKept == TypeOK /\ HoldInv /\ [Next]_vars => HoldInv'
<1> SUFFICES ASSUME TypeOK, HoldInv, [Next]_vars PROVE HoldInv'
  OBVIOUS
<1>1. ASSUME NEW r \in Runs, Submit(r) \/ AskSynthesizer(r) \/ AskJudge(r) \/ Conclude(r) \/ Drain(r)
      PROVE  HoldInv'
  <2>1. task' = task /\ \A q \in Runs : phase'[q] = phase[q] \/ Holding(q) = {}
    BY <1>1 DEF Submit, AskSynthesizer, AskJudge, Conclude, Drain, Ask, Asking, TypeOK, HoldInv
  <2> QED
    BY <2>1 DEF HoldInv, Holding
<1>2. ASSUME NEW r \in Runs, Execute(r) \/ Preempt(r) PROVE HoldInv'
  <2>1. Holding(r)' = {}
    <3>1. \A s \in Steps : task'[r][s] # "working"
      <4>1. CASE Execute(r)
        BY <4>1 DEF Execute, TypeOK
      <4>2. CASE Preempt(r)
        BY <4>2 DEF Preempt, TypeOK
      <4> QED
        BY <1>2, <4>1, <4>2
    <3> QED
      BY <3>1 DEF Holding
  <2>2. Cardinality(Holding(r)') = 0 /\ 0 <= Concurrency
    BY <2>1, FS_EmptySet, SizeAssumption
  <2>3. \A q \in Runs \ {r} : phase'[q] = phase[q] /\ Holding(q)' = Holding(q)
    BY <1>2 DEF Execute, Preempt, TypeOK, Holding
  <2> QED
    BY <2>1, <2>2, <2>3 DEF HoldInv
<1>3. ASSUME NEW r \in Runs, NEW s \in Steps, StartStep(r, s) PROVE HoldInv'
  <2>1. Holding(r)' = Holding(r) \cup {s} /\ s \notin Holding(r)
    BY <1>3 DEF StartStep, TypeOK, Holding
  <2>2. Cardinality(Holding(r)') = Cardinality(Holding(r)) + 1
    <3>1. IsFiniteSet(Holding(r))
      BY HoldingFinite DEF Holding
    <3> QED
      BY <2>1, <3>1, FS_AddElement
  <2>3. Cardinality(Holding(r)') <= Concurrency
    <3>1. Cardinality(Holding(r)) \in Nat
      BY HoldingFinite DEF Holding
    <3> QED
      BY <1>3, <2>2, <3>1, SizeAssumption DEF StartStep
  <2>4. phase' = phase /\ phase[r] = "executing" /\ \A q \in Runs \ {r} : Holding(q)' = Holding(q)
    BY <1>3 DEF StartStep, TypeOK, Holding
  <2> QED
    BY <2>3, <2>4 DEF HoldInv
<1>4. ASSUME NEW r \in Runs, NEW s \in Steps, EndStep(r, s) PROVE HoldInv'
  <2>1. Holding(r)' \subseteq Holding(r)
    BY <1>4 DEF EndStep, TypeOK, Holding
  <2>2. Cardinality(Holding(r)') <= Concurrency
    <3>1. IsFiniteSet(Holding(r)) /\ Cardinality(Holding(r)) \in Nat
      BY HoldingFinite DEF Holding
    <3>2. Cardinality(Holding(r)') <= Cardinality(Holding(r)) /\ Cardinality(Holding(r)') \in Nat
      BY <2>1, <3>1, FS_Subset, FS_CardinalityType
    <3> QED
      BY <3>1, <3>2, SizeAssumption DEF HoldInv
  <2>3. phase' = phase /\ phase[r] = "executing" /\ \A q \in Runs \ {r} : Holding(q)' = Holding(q)
    BY <1>4 DEF EndStep, TypeOK, Holding
  <2> QED
    BY <2>2, <2>3 DEF HoldInv
<1>5. ASSUME NEW c \in Call, BeginCall(c) \/ EndCall(c) PROVE HoldInv'
  BY <1>5 DEF BeginCall, EndCall, HoldInv, Holding
<1>6. CASE UNCHANGED vars
  BY <1>6 DEF vars, HoldInv, Holding
<1> QED
  BY <1>1, <1>2, <1>3, <1>4, <1>5, <1>6 DEF Next, RunStep

\* Threads at work for a round grow only by a step that holds a permit.
LEMMA BegunKept == DispatchInv /\ [Next]_vars => BegunInv'
<1> SUFFICES ASSUME DispatchInv, [Next]_vars, NEW r \in Runs, NEW n \in 0 .. MaxReplans
             PROVE  Cardinality(Begun(r, n)') <= Concurrency
  BY DEF BegunInv
<1>1. IsFiniteSet(Begun(r, n)) /\ Cardinality(Begun(r, n)) \in Nat
      /\ Cardinality(Begun(r, n)') \in Nat
  BY HoldingFinite DEF Begun
<1>2. Cardinality(Begun(r, n)) <= Concurrency
  BY DEF DispatchInv, BegunInv
<1>3. CASE Begun(r, n)' \subseteq Begun(r, n)
  <2>1. Cardinality(Begun(r, n)') <= Cardinality(Begun(r, n))
    BY <1>1, <1>3, FS_Subset
  <2> QED
    BY <1>1, <1>2, <2>1, SizeAssumption
<1>4. CASE \E c \in Call : BeginCall(c) /\ c[1] = r /\ c[2] = n /\ c[3] \in Steps
  <2>1. PICK c \in Call : BeginCall(c) /\ c[1] = r /\ c[2] = n /\ c[3] \in Steps
    BY <1>4
  <2>2. n = round[r] /\ phase[r] = "executing"
    BY <2>1, StepAssumption DEF BeginCall, Awaited, DispatchInv, CallInv, NothingForNobody
  <2>3. \A s \in Steps : <<r, n, s>> \in working' => task[r][s] = "working"
    BY <2>1, <2>2, WorkKept DEF DispatchInv, WorkInv, BeginCall
  <2>4. Begun(r, n)' \subseteq Holding(r)
    BY <2>3 DEF Begun, Holding
  <2>5. IsFiniteSet(Holding(r)) /\ Cardinality(Holding(r)) \in Nat
    BY HoldingFinite DEF Holding
  <2>6. Cardinality(Begun(r, n)') <= Cardinality(Holding(r))
    BY <2>4, <2>5, FS_Subset
  <2> QED
    BY <1>1, <2>5, <2>6, SizeAssumption DEF DispatchInv, HoldInv
<1>5. ASSUME NEW c \in Call, BeginCall(c), ~(c[1] = r /\ c[2] = n /\ c[3] \in Steps)
      PROVE  Begun(r, n)' \subseteq Begun(r, n)
  BY <1>5 DEF BeginCall, Begun
<1>6. ASSUME NEW c \in Call, EndCall(c) PROVE Begun(r, n)' \subseteq Begun(r, n)
  BY <1>6 DEF EndCall, Begun
<1>7. ASSUME NEW q \in Runs, Submit(q) \/ RunStep(q) \/ Preempt(q)
      PROVE  Begun(r, n)' \subseteq Begun(r, n)
  BY <1>7 DEF Submit, RunStep, Preempt, Execute, AskSynthesizer, AskJudge, Conclude, Drain,
              StartStep, EndStep, Begun
<1>8. CASE UNCHANGED vars
  BY <1>3, <1>8 DEF vars, Begun
<1> QED
  BY <1>3, <1>4, <1>5, <1>6, <1>7, <1>8 DEF Next

----------------------------------------------------------------------------

LEMMA DispatchInvariant == Spec => []DispatchInv
<1>1. DispatchInv /\ [Next]_vars => DispatchInv'
  BY CallsKept, HoldKept, BegunKept DEF DispatchInv, CallInv
<1> QED
  BY DispatchInit, <1>1, PTL DEF Spec

LEMMA WorkCapped == DispatchInv => CappedByRound
<1> SUFFICES ASSUME DispatchInv, NEW r \in Runs, NEW n \in 0 .. MaxReplans
             PROVE  Cardinality(AtWork(r, n)) <= Concurrency
  BY DEF CappedByRound
<1>1. CASE n = round[r] /\ phase[r] = "executing"
  <2>1. AtWork(r, n) \subseteq Holding(r)
    BY <1>1 DEF AtWork, Holding, DispatchInv, CallInv, WorkInv
  <2>2. IsFiniteSet(Holding(r)) /\ Cardinality(Holding(r)) \in Nat
    BY HoldingFinite DEF Holding
  <2>3. Cardinality(AtWork(r, n)) <= Cardinality(Holding(r)) /\ Cardinality(AtWork(r, n)) \in Nat
    BY <2>1, <2>2, FS_Subset, FS_CardinalityType
  <2> QED
    BY <2>2, <2>3, SizeAssumption DEF DispatchInv, HoldInv
<1>2. CASE ~(n = round[r] /\ phase[r] = "executing")
  <2>1. AtWork(r, n) = Begun(r, n)
    BY <1>2 DEF AtWork, Begun, DispatchInv, HoldInv
  <2> QED
    BY <2>1 DEF DispatchInv, BegunInv
<1> QED
  BY <1>1, <1>2

\* The semaphore of scheduler.py bounds the agents at work of one round, also those in
\* threads that a pre-emption has abandoned, for every number of permits and threads.
THEOREM AlwaysCappedByRound == Spec => []CappedByRound
<1> QED
  BY DispatchInvariant, WorkCapped, PTL

\* Cancelling a task takes its call out of the executor's queue and drops its answer: no
\* call waits and no answer lies for somebody who has gone, in any number of runs.
THEOREM NeverForNobody == Spec => []NothingForNobody
<1>1. DispatchInv => NothingForNobody
  BY DEF DispatchInv, CallInv
<1> QED
  BY DispatchInvariant, <1>1, PTL

\* The variables of Dispatch stay in their types.
THEOREM DispatchTypeCorrect == Spec => []TypeOK
<1>1. DispatchInv => TypeOK
  BY DEF DispatchInv, CallInv
<1> QED
  BY DispatchInvariant, <1>1, PTL
=============================================================================
