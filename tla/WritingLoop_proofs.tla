-------------------------- MODULE WritingLoop_proofs --------------------------
(***************************************************************************)
(* For every revision cap and every number of attempts: the writing agent  *)
(* ships the text its judge read last, gives up only at the cap, stays in  *)
(* its budget of model calls, and is a bounded review.                     *)
(***************************************************************************)
EXTENDS WritingLoop, TLAPS

\* What each node may count on: how far this cycle has come.
CycleInv ==
  /\ at = "generate" => edit_runs = 0 /\ format_runs = 0 /\ cycles = 0
  /\ at = "edit" => edit_runs <= cycles /\ format_runs = cycles
  /\ at = "format" => edit_runs <= cycles + 1 /\ format_runs = cycles
  /\ at = "judge" => /\ edit_runs <= format_runs /\ content = edit_runs
                     /\ format_runs = IF Shipped THEN cycles ELSE cycles + 1
  /\ at # "judge" \/ ~Shipped => cycles <= MaxRevisions
  /\ Shipped => at = "judge"

IssuesInv ==
  /\ Shipped => about = format_runs /\ cycles > 0
  /\ IssuesCurrent /\ DegradedOnlyAtCap

\* The nodes that have run, each in at most MaxAttempts calls.
NodesRun == (IF at = "generate" THEN 0 ELSE 1) + edit_runs + format_runs + cycles

CallsInv ==
  /\ result = "none" \/ Shipped => calls <= MaxAttempts * NodesRun + tries
  /\ Shipped => tries = 0
  /\ CallBudget

WritingInv == TypeOK /\ CycleInv /\ IssuesInv /\ CallsInv

LEMMA WritingInit == Init => WritingInv
<1> SUFFICES ASSUME Init PROVE WritingInv
  OBVIOUS
<1> USE RevisionsAssumption, AttemptsAssumption DEF Init
<1>1. TypeOK
  <2>1. issues \in BOOLEAN
    OBVIOUS
  <2>2. 0 \in 0 .. MaxRevisions + 1 /\ 0 \in 0 .. MaxAttempts - 1
    OBVIOUS
  <2> QED
    BY <2>1, <2>2 DEF TypeOK, Node
<1>2. CycleInv /\ IssuesInv
  BY DEF CycleInv, IssuesInv, IssuesCurrent, DegradedOnlyAtCap, Shipped
<1>3. CallsInv
  <2>1. NodesRun = 0
    BY DEF NodesRun
  <2>2. 0 <= MaxAttempts * (4 + 3 * MaxRevisions)
    OBVIOUS
  <2>3. MaxAttempts * 0 = 0
    OBVIOUS
  <2> QED
    BY <2>1, <2>2, <2>3 DEF CallsInv, CallBudget, Shipped
<1> QED
  BY <1>1, <1>2, <1>3 DEF WritingInv

LEMMA TypeKept == WritingInv /\ [Next]_vars => TypeOK'
<1> SUFFICES ASSUME WritingInv, [Next]_vars PROVE TypeOK'
  OBVIOUS
<1> USE RevisionsAssumption, AttemptsAssumption DEF WritingInv, TypeOK
<1>1. CASE Generate
  <2>1. issues' = issues
    BY <1>1 DEF Generate, reviewVars
  <2> QED
    BY <1>1, <2>1 DEF Generate, Answers, Asking, textVars, reviewVars, Node
<1>2. CASE Edit
  <2>1. issues' = issues
    BY <1>2 DEF Edit, reviewVars
  <2>2. cycles <= MaxRevisions /\ edit_runs <= cycles /\ format_runs = cycles
    BY <1>2 DEF Edit, Answers, Asking, CycleInv, Shipped
  <2> QED
    BY <1>2, <2>1, <2>2 DEF Edit, Answers, Asking, reviewVars, Node
<1>3. CASE Format
  <2>1. issues' = issues
    BY <1>3 DEF Format, reviewVars
  <2>2. cycles <= MaxRevisions /\ edit_runs <= cycles + 1 /\ format_runs = cycles
    BY <1>3 DEF Format, Answers, Asking, CycleInv, Shipped
  <2> QED
    BY <1>3, <2>1, <2>2 DEF Format, Answers, Asking, reviewVars, Node
<1>4. ASSUME NEW v \in Verdict, NEW open \in BOOLEAN,
             SendBack(v, open) \/ Ship(v, open)
      PROVE  TypeOK'
  <2>1. cycles <= MaxRevisions
    BY <1>4 DEF SendBack, Ship, Answers, Asking, CycleInv, Shipped
  <2>2. /\ edit_runs' = edit_runs /\ format_runs' = format_runs /\ content' = content
        /\ cycles' = cycles + 1 /\ tries' = 0 /\ calls' = calls + 1 /\ verdict' = v
        /\ about' = format_runs
    BY <1>4 DEF SendBack, Ship, Answers, Review, textVars
  <2>3. issues' \in BOOLEAN
    BY <1>4 DEF SendBack, Ship, Review
  <2>4. at' \in Node /\ result' \in {"none", "completed", "completed_degraded", "failed"}
    BY <1>4 DEF SendBack, Ship, Status, Node
  <2> QED
    BY <2>1, <2>2, <2>3, <2>4
<1>5. CASE CallRetried
  BY <1>5 DEF CallRetried, textVars, reviewVars
<1>6. CASE CallExhausted
  <2>1. issues' = issues
    BY <1>6 DEF CallExhausted, reviewVars
  <2>2. result' = "failed" /\ calls' = calls + 1 /\ at' = at /\ tries' = tries
    BY <1>6 DEF CallExhausted
  <2> QED
    BY <1>6, <2>1, <2>2 DEF CallExhausted, textVars, reviewVars
<1>7. CASE Unparsed
  <2>1. issues' = issues
    BY <1>7 DEF Unparsed, reviewVars
  <2>2. result' = "failed" /\ calls' = calls + 1 /\ at' = at /\ tries' = tries
    BY <1>7 DEF Unparsed
  <2> QED
    BY <1>7, <2>1, <2>2 DEF Unparsed, textVars, reviewVars
<1>8. CASE UNCHANGED vars
  BY <1>8 DEF vars, textVars, reviewVars
<1> QED
  BY <1>1, <1>2, <1>3, <1>4, <1>5, <1>6, <1>7, <1>8 DEF Next, Judge

LEMMA CycleKept == WritingInv /\ [Next]_vars => CycleInv'
<1> SUFFICES ASSUME WritingInv, [Next]_vars PROVE CycleInv'
  OBVIOUS
<1> USE RevisionsAssumption DEF WritingInv, TypeOK, CycleInv, Shipped
<1>1. CASE Generate
  BY <1>1 DEF Generate, Answers, Asking, textVars, reviewVars
<1>2. CASE Edit
  BY <1>2 DEF Edit, Answers, Asking, reviewVars
<1>3. CASE Format
  BY <1>3 DEF Format, Answers, Asking, reviewVars
<1>4. ASSUME NEW v \in Verdict, NEW open \in BOOLEAN, SendBack(v, open)
      PROVE  CycleInv'
  BY <1>4 DEF SendBack, Answers, Asking, Review, Capped, textVars
<1>5. ASSUME NEW v \in Verdict, NEW open \in BOOLEAN, Ship(v, open)
      PROVE  CycleInv'
  BY <1>5 DEF Ship, Answers, Asking, Review, Status, textVars
<1>6. CASE CallRetried
  BY <1>6 DEF CallRetried, textVars, reviewVars
<1>7. CASE CallExhausted
  BY <1>7 DEF CallExhausted, textVars, reviewVars
<1>8. CASE Unparsed
  BY <1>8 DEF Unparsed, textVars, reviewVars
<1>9. CASE UNCHANGED vars
  BY <1>9 DEF vars, textVars, reviewVars
<1> QED
  BY <1>1, <1>2, <1>3, <1>4, <1>5, <1>6, <1>7, <1>8, <1>9 DEF Next, Judge

LEMMA IssuesKept == WritingInv /\ [Next]_vars => IssuesInv'
<1> SUFFICES ASSUME WritingInv, [Next]_vars PROVE IssuesInv'
  OBVIOUS
<1> USE RevisionsAssumption DEF WritingInv, TypeOK, CycleInv, IssuesInv, IssuesCurrent,
        DegradedOnlyAtCap, Shipped
<1>1. CASE Generate
  BY <1>1 DEF Generate, Answers, Asking, textVars, reviewVars
<1>2. CASE Edit
  BY <1>2 DEF Edit, Answers, Asking, reviewVars
<1>3. CASE Format
  BY <1>3 DEF Format, Answers, Asking, reviewVars
<1>4. ASSUME NEW v \in Verdict, NEW open \in BOOLEAN, SendBack(v, open)
      PROVE  IssuesInv'
  BY <1>4 DEF SendBack, Answers, Asking, Review, textVars
<1>5. ASSUME NEW v \in Verdict, NEW open \in BOOLEAN, Ship(v, open)
      PROVE  IssuesInv'
  <2>1. /\ about' = format_runs /\ format_runs' = format_runs
        /\ cycles' = cycles + 1 /\ cycles <= MaxRevisions /\ at' = "judge"
    BY <1>5 DEF Ship, Answers, Asking, Review, textVars
  <2>2. result' = "completed_degraded" => Capped(cycles + 1)
    BY <1>5 DEF Ship, Status
  <2> QED
    BY <2>1, <2>2 DEF Capped
<1>6. CASE CallRetried
  BY <1>6 DEF CallRetried, textVars, reviewVars
<1>7. CASE CallExhausted
  BY <1>7 DEF CallExhausted, textVars, reviewVars
<1>8. CASE Unparsed
  BY <1>8 DEF Unparsed, textVars, reviewVars
<1>9. CASE UNCHANGED vars
  BY <1>9 DEF vars, textVars, reviewVars
<1> QED
  BY <1>1, <1>2, <1>3, <1>4, <1>5, <1>6, <1>7, <1>8, <1>9 DEF Next, Judge

LEMMA ProductMonotone ==
  ASSUME NEW a \in Nat, NEW b \in Nat, NEW c \in Nat, b <= c
  PROVE  a * b <= a * c
  OBVIOUS

LEMMA CallsKept == WritingInv /\ [Next]_vars => CallsInv'
<1> SUFFICES ASSUME WritingInv, [Next]_vars PROVE CallsInv'
  OBVIOUS
<1> USE RevisionsAssumption, AttemptsAssumption DEF WritingInv, TypeOK
\* One more node has run, in at most MaxAttempts calls.
<1>1. ASSUME NodesRun' = NodesRun + 1, calls' = calls + 1, tries' = 0, result = "none"
      PROVE  calls' <= MaxAttempts * NodesRun' + tries'
  <2>1. NodesRun \in Nat
    BY DEF NodesRun
  <2>2. calls <= MaxAttempts * NodesRun + tries
    BY <1>1 DEF CallsInv
  <2>3. MaxAttempts * (NodesRun + 1) = MaxAttempts * NodesRun + MaxAttempts
    BY <2>1
  <2>4. MaxAttempts * NodesRun \in Nat
    BY <2>1
  <2> QED
    BY <1>1, <2>1, <2>2, <2>3, <2>4
\* The node that runs is within the budget, with all its attempts.
<1>2. ASSUME result = "none"
      PROVE  calls + 1 <= MaxAttempts * (4 + 3 * MaxRevisions)
  <2>1. NodesRun \in Nat /\ NodesRun + 1 <= 4 + 3 * MaxRevisions
    BY <1>2 DEF NodesRun, CycleInv, Shipped, Node
  <2>2. MaxAttempts * (NodesRun + 1) <= MaxAttempts * (4 + 3 * MaxRevisions)
    BY <2>1, ProductMonotone
  <2>3. MaxAttempts * (NodesRun + 1) = MaxAttempts * NodesRun + MaxAttempts
    BY <2>1
  <2>4. calls <= MaxAttempts * NodesRun + tries /\ tries + 1 <= MaxAttempts
    BY <1>2 DEF CallsInv
  <2>5. MaxAttempts * NodesRun \in Nat /\ MaxAttempts * (4 + 3 * MaxRevisions) \in Nat
    BY <2>1
  <2> QED
    BY <2>2, <2>3, <2>4, <2>5
<1>3. CASE Generate
  <2>1. NodesRun' = NodesRun + 1 /\ calls' = calls + 1 /\ tries' = 0 /\ result = "none"
    BY <1>3 DEF Generate, Answers, Asking, textVars, reviewVars, NodesRun
  <2>2. result' = "none"
    BY <1>3 DEF Generate, Answers, Asking
  <2> QED
    BY <2>1, <2>2, <1>1, <1>2 DEF CallsInv, CallBudget, Shipped
<1>4. CASE Edit
  <2>1. NodesRun' = NodesRun + 1 /\ calls' = calls + 1 /\ tries' = 0 /\ result = "none"
    BY <1>4 DEF Edit, Answers, Asking, reviewVars, NodesRun
  <2>2. result' = "none"
    BY <1>4 DEF Edit, Answers, Asking
  <2> QED
    BY <2>1, <2>2, <1>1, <1>2 DEF CallsInv, CallBudget, Shipped
<1>5. CASE Format
  <2>1. NodesRun' = NodesRun + 1 /\ calls' = calls + 1 /\ tries' = 0 /\ result = "none"
    BY <1>5 DEF Format, Answers, Asking, reviewVars, NodesRun
  <2>2. result' = "none"
    BY <1>5 DEF Format, Answers, Asking
  <2> QED
    BY <2>1, <2>2, <1>1, <1>2 DEF CallsInv, CallBudget, Shipped
<1>6. ASSUME NEW v \in Verdict, NEW open \in BOOLEAN,
             SendBack(v, open) \/ Ship(v, open)
      PROVE  CallsInv'
  <2>1. NodesRun' = NodesRun + 1 /\ calls' = calls + 1 /\ tries' = 0 /\ result = "none"
    BY <1>6 DEF SendBack, Ship, Answers, Asking, Review, textVars, NodesRun
  <2> QED
    BY <2>1, <1>1, <1>2 DEF CallsInv, CallBudget
<1>7. CASE CallRetried
  <2>1. /\ NodesRun' = NodesRun /\ calls' = calls + 1 /\ tries' = tries + 1
        /\ result = "none" /\ result' = "none"
    BY <1>7 DEF CallRetried, textVars, reviewVars, NodesRun
  <2>2. NodesRun \in Nat /\ MaxAttempts * NodesRun \in Nat
    BY DEF NodesRun
  <2>3. calls <= MaxAttempts * NodesRun + tries
    BY <2>1 DEF CallsInv
  <2> QED
    BY <2>1, <2>2, <2>3, <1>2 DEF CallsInv, CallBudget, Shipped
<1>8. CASE CallExhausted \/ Unparsed
  <2>1. calls' = calls + 1 /\ result = "none" /\ result' = "failed"
    BY <1>8 DEF CallExhausted, Unparsed
  <2> QED
    BY <2>1, <1>2 DEF CallsInv, CallBudget, Shipped
<1>9. CASE UNCHANGED vars
  BY <1>9 DEF vars, textVars, reviewVars, CallsInv, CallBudget, NodesRun, Shipped
<1> QED
  BY <1>3, <1>4, <1>5, <1>6, <1>7, <1>8, <1>9 DEF Next, Judge

\* WritingInv is inductive, so it holds always.
THEOREM WritingInvariant == Spec => []WritingInv
<1>1. WritingInv /\ [Next]_vars => WritingInv'
  BY TypeKept, CycleKept, IssuesKept, CallsKept DEF WritingInv
<1> QED
  BY WritingInit, <1>1, PTL DEF Spec

\* The writing agent ships the text its judge read last, made from the latest edit.
THEOREM AlwaysShipsReviewedText == Spec => []ShipsReviewedText
<1>1. WritingInv => ShipsReviewedText
  BY DEF WritingInv, CycleInv, IssuesInv, ShipsReviewedText
<1> QED
  BY WritingInvariant, <1>1, PTL

\* The editor and the formatter are handed, and the result lists, the issues of the text
\* the judge read last.
THEOREM IssuesAlwaysCurrent == Spec => []IssuesCurrent
<1>1. WritingInv => IssuesCurrent
  BY DEF WritingInv, IssuesInv
<1> QED
  BY WritingInvariant, <1>1, PTL

\* A degraded result has used every revision, whatever the cap.
THEOREM AlwaysDegradedAtCap == Spec => []DegradedOnlyAtCap
<1>1. WritingInv => DegradedOnlyAtCap
  BY DEF WritingInv, IssuesInv
<1> QED
  BY WritingInvariant, <1>1, PTL

\* The model calls of run_writing_agent are bounded for every cap and every number of
\* attempts; as every step is a call, every run ends.
THEOREM AlwaysInCallBudget == Spec => []CallBudget
<1>1. WritingInv => CallBudget
  BY DEF WritingInv, CallsInv
<1> QED
  BY WritingInvariant, <1>1, PTL

----------------------------------------------------------------------------
LEMMA ReviewInit == Init => Reviewing!Init
  BY RevisionsAssumption DEF Init, Reviewing!Init, Shipped

LEMMA ReviewStep == WritingInv /\ [Next]_vars => [Reviewing!Next]_Reviewing!vars
<1> SUFFICES ASSUME WritingInv, [Next]_vars PROVE [Reviewing!Next]_Reviewing!vars
  OBVIOUS
<1> USE RevisionsAssumption DEF WritingInv, TypeOK, CycleInv, Node, Shipped, Reviewing!Next,
        Reviewing!Submit, Reviewing!SendBack, Reviewing!Ship, Reviewing!Fail, Reviewing!vars
<1>1. CASE Generate
  BY <1>1 DEF Generate, Answers, Asking, reviewVars
<1>2. CASE Edit
  BY <1>2 DEF Edit, Answers, Asking, reviewVars
<1>3. CASE Format
  BY <1>3 DEF Format, Answers, Asking, reviewVars
<1>4. ASSUME NEW v \in Verdict, NEW open \in BOOLEAN, SendBack(v, open)
      PROVE  Reviewing!SendBack /\ UNCHANGED MaxRevisions
  BY <1>4 DEF SendBack, Answers, Asking, Review, Capped
<1>5. ASSUME NEW v \in Verdict, NEW open \in BOOLEAN, Ship(v, open)
      PROVE  Reviewing!Ship /\ UNCHANGED MaxRevisions
  BY <1>5 DEF Ship, Answers, Asking, Review, Status
<1>6. CASE CallRetried
  BY <1>6 DEF CallRetried, reviewVars
<1>7. CASE CallExhausted
  BY <1>7 DEF CallExhausted, reviewVars
<1>8. CASE Unparsed
  BY <1>8 DEF Unparsed, reviewVars
<1>9. CASE UNCHANGED vars
  BY <1>9 DEF vars, reviewVars
<1> QED
  BY <1>1, <1>2, <1>3, <1>4, <1>5, <1>6, <1>7, <1>8, <1>9 DEF Next, Judge

\* The writing agent's loop is a bounded review, for every cap.
THEOREM RefinesReview == Spec => ImplementsReview
<1> QED
  BY ReviewInit, ReviewStep, WritingInvariant, PTL DEF Spec, Reviewing!Spec, ImplementsReview
=============================================================================
