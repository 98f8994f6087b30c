------------------------------ MODULE CodeLoop ------------------------------
(***************************************************************************)
(* One run of the code agent: generate -> judge -> (refine -> judge).  A   *)
(* language with a parser is judged by it, any other by a critic model;    *)
(* the corrector model is both the critic and the author of refinements.   *)
(*                                                                         *)
(* Code is told apart by the round that wrote it, and by whether it parses *)
(* in the requested language.  A model call here is made once.             *)
(***************************************************************************)
EXTENDS Naturals

CONSTANTS MaxSyntaxRetries,  \* code_agent.max_syntax_retries
          MaxReviewRetries   \* code_agent.max_review_retries

ASSUME RetriesAssumption == MaxSyntaxRetries \in Nat /\ MaxReviewRetries \in Nat

VARIABLES
  hasParser,  \* CodeState.has_parser
  at,         \* the node that runs, or the last one that ran
  rounds,     \* CodeState.rounds: refinements so far
  parseable,  \* does the current code parse in the requested language
  judged,     \* history: the versions written up to the one judged last
  problem,    \* is CodeState.problem open
  parses,     \* CodeState.parses
  result,     \* the AgentResult's status
  corrections \* history: calls of the corrector model

codeVars  == <<rounds, parseable>>
judgeVars == <<judged, problem, parses>>
vars == <<hasParser, at, codeVars, judgeVars, result, corrections>>

Retries(parser) == IF parser THEN MaxSyntaxRetries ELSE MaxReviewRetries

\* Mutant of MaxRounds: the two settings swapped.
MaxRoundsSwapped == Retries(~hasParser)

\* _max_rounds
MaxRounds == Retries(hasParser)

\* The corrector calls _estimate pays for.
EstimatedCorrections == IF hasParser THEN MaxSyntaxRetries ELSE 2 * MaxReviewRetries + 1

TypeOK ==
  /\ hasParser \in BOOLEAN /\ parseable \in BOOLEAN /\ problem \in BOOLEAN
  /\ at \in {"generate", "judge", "refine"}
  /\ rounds \in 0 .. Retries(hasParser) /\ judged \in 0 .. Retries(hasParser) + 1
  /\ parses \in {"null", "true", "false"}
  /\ result \in {"none", "completed", "failed"}
  /\ corrections \in Nat

Init ==
  /\ hasParser \in BOOLEAN
  /\ at = "generate" /\ rounds = 0 /\ parseable = TRUE
  /\ judged = 0 /\ problem = FALSE /\ parses = "null"
  /\ result = "none" /\ corrections = 0

----------------------------------------------------------------------------
Running(node) == at = node /\ result = "none"

\* A model's answer becomes the current code: it parses or it does not.
Writes == parseable' \in BOOLEAN

Generate ==
  /\ Running("generate") /\ at' = "judge"
  /\ Writes
  /\ UNCHANGED <<hasParser, rounds, judgeVars, result, corrections>>

Spent == rounds >= MaxRounds

\* assemble_result: completed whatever is still wrong with the code, whose parse state
\* is put into the output.
Ships == at' = at /\ result' = "completed"

\* route_after_judge, and the result once the loop ends.
Route(open) ==
  IF ~open \/ Spent THEN Ships ELSE at' = "refine" /\ result' = result

\* validate_syntax: the parser of the requested language rejects the current code.
SyntaxError == ~parseable

\* Mutant of JudgeByParser: a parse that succeeds leaves the earlier verdict.
ParserRecordingErrors ==
  /\ Running("judge") /\ hasParser
  /\ judged' = rounds + 1 /\ problem' = SyntaxError
  /\ parses' = IF SyntaxError THEN "false" ELSE parses
  /\ Route(SyntaxError)
  /\ UNCHANGED <<hasParser, codeVars, corrections>>

\* Tier 1: the parser.
JudgeByParser ==
  /\ Running("judge") /\ hasParser
  /\ judged' = rounds + 1 /\ problem' = SyntaxError
  /\ parses' = IF SyntaxError THEN "false" ELSE "true"
  /\ Route(SyntaxError)
  /\ UNCHANGED <<hasParser, codeVars, corrections>>

\* Tier 2: the critic says revise or return.
JudgeByCritic ==
  /\ Running("judge") /\ ~hasParser
  /\ corrections' = corrections + 1
  /\ judged' = rounds + 1 /\ problem' \in BOOLEAN
  /\ Route(problem')
  /\ UNCHANGED <<hasParser, codeVars, parses>>

\* Mutant of Refine: the last refinement is shipped without being judged.
RefineLastUnjudged ==
  /\ Running("refine")
  /\ corrections' = corrections + 1 /\ rounds' = rounds + 1
  /\ Writes
  /\ IF rounds' >= MaxRounds THEN Ships ELSE at' = "judge" /\ result' = result
  /\ UNCHANGED <<hasParser, judgeVars>>

Refine ==
  /\ Running("refine") /\ at' = "judge"
  /\ corrections' = corrections + 1 /\ rounds' = rounds + 1
  /\ Writes
  /\ UNCHANGED <<hasParser, judgeVars, result>>

\* A call raised, its answer did not parse, or the parser itself gave up:
\* run_code_agent returns a failed result.
Raises ==
  /\ result = "none"
  /\ result' = "failed"
  /\ corrections' = IF at = "refine" \/ (at = "judge" /\ ~hasParser)
                    THEN corrections + 1 ELSE corrections
  /\ UNCHANGED <<hasParser, at, codeVars, judgeVars>>

Next == Generate \/ JudgeByParser \/ JudgeByCritic \/ Refine \/ Raises

Spec == Init /\ [][Next]_vars

----------------------------------------------------------------------------
(* Properties *)

\* The code that is shipped is the code that was judged last.
ShipsJudgedCode == result = "completed" => judged = rounds + 1

\* The parse state in the output is the one of the shipped code: false and true only
\* where a parser ruled on this very code, null where there is none.
ParseStateHonest ==
  result = "completed" => /\ parses = "null" <=> ~hasParser
                          /\ hasParser => (parses = "true" <=> parseable)

\* Code with an open problem is shipped only when every retry of its tier is used.
GivesUpOnlyAtBudget == result = "completed" /\ problem => rounds = MaxRounds

\* A run never makes more corrector calls than the cost estimate in its result pays
\* for; with a parser that leaves none for the critic.
WithinEstimate == corrections <= EstimatedCorrections

\* The loop is a bounded review.
Reviewing == INSTANCE BoundedReview WITH
  budget <- MaxRounds,
  reviews <- IF at = "refine" \/ result = "completed" THEN rounds + 1 ELSE rounds,
  phase <- CASE result = "failed" -> "failed"
             [] result = "completed" -> "shipped"
             [] result = "none" /\ at = "judge" -> "reviewing"
             [] result = "none" /\ at # "judge" -> "drafting"
ImplementsReview == Reviewing!Spec

=============================================================================
