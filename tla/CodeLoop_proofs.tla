--------------------------- MODULE CodeLoop_proofs ---------------------------
(***************************************************************************)
(* For every retry setting: what the code agent ships was judged, its      *)
(* parse state is that of the shipped code, its corrector calls stay in    *)
(* the estimate, and the loop is a bounded review.                         *)
(***************************************************************************)
EXTENDS CodeLoop, TLAPS

\* The critic's calls of a run that has judged as often as it has refined.
CriticCalls == IF hasParser THEN 0 ELSE rounds

\* Where the loop is fixes how many corrections it has paid for.
RoundsInv ==
  /\ at = "generate" => rounds = 0 /\ result # "completed"
  /\ at = "refine" => rounds < MaxRounds /\ result # "completed"
  /\ at \in {"generate", "judge"} /\ result = "none" => corrections = rounds + CriticCalls
  /\ at = "refine" /\ result = "none" /\ hasParser => corrections = rounds
  /\ at = "refine" /\ result = "none" /\ ~hasParser => corrections = 2 * rounds + 1

JudgedInv ==
  /\ ~hasParser => parses = "null"
  /\ ShipsJudgedCode /\ ParseStateHonest /\ GivesUpOnlyAtBudget

CodeInv == TypeOK /\ RoundsInv /\ JudgedInv /\ WithinEstimate

LEMMA CodeInit == Init => CodeInv
<1> SUFFICES ASSUME Init PROVE CodeInv
  OBVIOUS
<1>1. TypeOK
  <2>1. hasParser \in BOOLEAN /\ parseable \in BOOLEAN /\ problem \in BOOLEAN
    BY DEF Init
  <2>2. rounds \in 0 .. Retries(hasParser) /\ judged \in 0 .. Retries(hasParser) + 1
    BY RetriesAssumption DEF Init, Retries
  <2> QED
    BY <2>1, <2>2 DEF Init, TypeOK
<1>2. RoundsInv /\ WithinEstimate
  BY RetriesAssumption DEF Init, RoundsInv, WithinEstimate, CriticCalls, EstimatedCorrections
<1>3. JudgedInv
  BY DEF Init, JudgedInv, ShipsJudgedCode, ParseStateHonest, GivesUpOnlyAtBudget
<1> QED
  BY <1>1, <1>2, <1>3 DEF CodeInv

\* Every step keeps the types: the router sends back only below the budget.
LEMMA TypeKept == CodeInv /\ [Next]_vars => TypeOK'
<1> SUFFICES ASSUME CodeInv, [Next]_vars PROVE TypeOK'
  OBVIOUS
<1> USE RetriesAssumption DEF CodeInv, TypeOK, Retries
<1>1. CASE Generate
  BY <1>1 DEF Generate, Running, Writes, judgeVars
<1>2. CASE JudgeByParser
  BY <1>2 DEF JudgeByParser, SyntaxError, Running, Route, Ships, codeVars
<1>3. CASE JudgeByCritic
  BY <1>3 DEF JudgeByCritic, Running, Route, Ships, codeVars
<1>4. CASE Refine
  BY <1>4 DEF Refine, Running, Writes, judgeVars, RoundsInv, MaxRounds
<1>5. CASE Raises
  BY <1>5 DEF Raises, codeVars, judgeVars
<1>6. CASE UNCHANGED vars
  BY <1>6 DEF vars, codeVars, judgeVars
<1> QED
  BY <1>1, <1>2, <1>3, <1>4, <1>5, <1>6 DEF Next

LEMMA RoundsKept == CodeInv /\ [Next]_vars => RoundsInv' /\ WithinEstimate'
<1> SUFFICES ASSUME CodeInv, [Next]_vars PROVE RoundsInv' /\ WithinEstimate'
  OBVIOUS
<1> USE RetriesAssumption DEF CodeInv, TypeOK, RoundsInv, WithinEstimate, CriticCalls, Retries,
        MaxRounds, EstimatedCorrections
<1>1. CASE Generate
  BY <1>1 DEF Generate, Running
<1>2. CASE JudgeByParser
  BY <1>2 DEF JudgeByParser, SyntaxError, Running, Route, Ships, Spent, codeVars
<1>3. CASE JudgeByCritic
  BY <1>3 DEF JudgeByCritic, Running, Route, Ships, Spent, codeVars
<1>4. CASE Refine
  BY <1>4 DEF Refine, Running
<1>5. CASE Raises
  BY <1>5 DEF Raises, codeVars
<1>6. CASE UNCHANGED vars
  BY <1>6 DEF vars, codeVars, judgeVars
<1> QED
  BY <1>1, <1>2, <1>3, <1>4, <1>5, <1>6 DEF Next

LEMMA JudgedKept == CodeInv /\ [Next]_vars => JudgedInv'
<1> SUFFICES ASSUME CodeInv, [Next]_vars PROVE JudgedInv'
  OBVIOUS
<1> USE RetriesAssumption DEF CodeInv, TypeOK, JudgedInv, ShipsJudgedCode, ParseStateHonest,
        GivesUpOnlyAtBudget, Retries, MaxRounds
<1>1. CASE Generate
  BY <1>1 DEF Generate, Running, judgeVars
<1>2. CASE JudgeByParser
  <2>1. hasParser' /\ judged' = rounds' + 1 /\ rounds' = rounds
    BY <1>2 DEF JudgeByParser, SyntaxError, codeVars
  <2>2. parses' = (IF parseable' THEN "true" ELSE "false")
    BY <1>2 DEF JudgeByParser, SyntaxError, codeVars
  <2>3. GivesUpOnlyAtBudget'
    <3>1. result' = "completed" /\ problem' => rounds >= MaxRounds
      BY <1>2 DEF JudgeByParser, SyntaxError, Running, Route, Ships, Spent
    <3>2. rounds >= MaxRounds => rounds = MaxRounds
      OBVIOUS
    <3>3. rounds' = rounds /\ MaxRounds' = MaxRounds
      BY <1>2 DEF JudgeByParser, SyntaxError, codeVars
    <3> QED
      BY <3>1, <3>2, <3>3 DEF GivesUpOnlyAtBudget
  <2> QED
    BY <2>1, <2>2, <2>3
<1>3. CASE JudgeByCritic
  <2>1. parses' = "null" /\ ~hasParser' /\ judged' = rounds' + 1
    BY <1>3 DEF JudgeByCritic, codeVars
  <2>2. GivesUpOnlyAtBudget'
    BY <1>3 DEF JudgeByCritic, Running, Route, Ships, Spent, codeVars
  <2> QED
    BY <2>1, <2>2
<1>4. CASE Refine
  BY <1>4 DEF Refine, Running, judgeVars
<1>5. CASE Raises
  BY <1>5 DEF Raises, codeVars, judgeVars
<1>6. CASE UNCHANGED vars
  BY <1>6 DEF vars, codeVars, judgeVars
<1> QED
  BY <1>1, <1>2, <1>3, <1>4, <1>5, <1>6 DEF Next

\* CodeInv is inductive, so it holds always.
THEOREM CodeInvariant == Spec => []CodeInv
<1>1. CodeInv /\ [Next]_vars => CodeInv'
  BY TypeKept, RoundsKept, JudgedKept DEF CodeInv
<1> QED
  BY CodeInit, <1>1, PTL DEF Spec

\* _estimate covers every run of run_code_agent, whatever the retry settings are.
THEOREM AlwaysWithinEstimate == Spec => []WithinEstimate
  BY CodeInvariant, PTL DEF CodeInv

\* The output's parses is a ruling on the shipped code, or null without a parser.
THEOREM ParseStateAlwaysHonest == Spec => []ParseStateHonest
<1>1. CodeInv => ParseStateHonest
  BY DEF CodeInv, JudgedInv
<1> QED
  BY CodeInvariant, <1>1, PTL

\* The code that is shipped was judged last.
THEOREM AlwaysShipsJudgedCode == Spec => []ShipsJudgedCode
<1>1. CodeInv => ShipsJudgedCode
  BY DEF CodeInv, JudgedInv
<1> QED
  BY CodeInvariant, <1>1, PTL

\* The loop gives up on an open problem only when its budget is spent.
THEOREM AlwaysGivesUpAtBudget == Spec => []GivesUpOnlyAtBudget
<1>1. CodeInv => GivesUpOnlyAtBudget
  BY DEF CodeInv, JudgedInv
<1> QED
  BY CodeInvariant, <1>1, PTL

----------------------------------------------------------------------------
LEMMA ReviewInit == Init => Reviewing!Init
  BY RetriesAssumption DEF Init, Reviewing!Init, MaxRounds, Retries

LEMMA ReviewStep == CodeInv /\ [Next]_vars => [Reviewing!Next]_Reviewing!vars
<1> SUFFICES ASSUME CodeInv, [Next]_vars PROVE [Reviewing!Next]_Reviewing!vars
  OBVIOUS
<1> USE RetriesAssumption DEF CodeInv, TypeOK, RoundsInv, Retries, MaxRounds, Reviewing!Next,
        Reviewing!Submit, Reviewing!SendBack, Reviewing!Ship, Reviewing!Fail
<1>1. CASE Generate
  BY <1>1 DEF Generate, Running
<1>2. CASE JudgeByParser
  BY <1>2 DEF JudgeByParser, SyntaxError, Running, Route, Ships, Spent, codeVars
<1>3. CASE JudgeByCritic
  BY <1>3 DEF JudgeByCritic, Running, Route, Ships, Spent, codeVars
<1>4. CASE Refine
  BY <1>4 DEF Refine, Running
<1>5. CASE Raises
  BY <1>5 DEF Raises, codeVars
<1>6. CASE UNCHANGED vars
  BY <1>6 DEF vars, codeVars, Reviewing!vars
<1> QED
  BY <1>1, <1>2, <1>3, <1>4, <1>5, <1>6 DEF Next

\* The code agent's loop is a bounded review, for every retry setting.
THEOREM RefinesReview == Spec => ImplementsReview
<1> QED
  BY ReviewInit, ReviewStep, CodeInvariant, PTL DEF Spec, Reviewing!Spec, ImplementsReview
=============================================================================
