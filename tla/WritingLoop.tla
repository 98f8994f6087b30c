---------------------------- MODULE WritingLoop ----------------------------
(***************************************************************************)
(* One run of the writing agent: generate -> edit -> format -> judge, and  *)
(* back to edit or format as the judge says, up to the revision cap.       *)
(*                                                                         *)
(* Texts are told apart by when they were made: the n-th edit, the n-th    *)
(* formatting.  Every node is one call of invoke_structured, which may     *)
(* raise, be tried again, or give an answer that did not parse.            *)
(***************************************************************************)
EXTENDS Naturals

CONSTANTS MaxRevisions,  \* writing_agent.max_revisions
          MaxAttempts    \* attempts of invoke_structured

ASSUME RevisionsAssumption == MaxRevisions \in Nat
ASSUME AttemptsAssumption == MaxAttempts \in Nat \ {0}

VARIABLES
  at,          \* the node that runs, or the last one that ran
  tries,       \* attempts of its call that raised
  edit_runs,   \* WritingState.edit_runs: the latest edit
  format_runs, \* WritingState.format_runs: the latest formatting
  content,     \* the edit the latest formatting was made from
  cycles,      \* WritingState.cycles
  verdict,     \* WritingState.verdict, "none" before the first
  issues,      \* WritingState.issues: is any open
  about,       \* history: the formatting the judge answered last
  result,      \* the AgentResult's status
  calls        \* history: model calls made

textVars   == <<edit_runs, format_runs, content>>
reviewVars == <<cycles, verdict, issues, about>>
vars == <<at, tries, textVars, reviewVars, result, calls>>

Node == {"generate", "edit", "format", "judge"}
Verdict == {"reedit", "reformat", "return"}

TypeOK ==
  /\ at \in Node /\ tries \in 0 .. MaxAttempts - 1
  /\ edit_runs \in 0 .. MaxRevisions + 1 /\ format_runs \in 0 .. MaxRevisions + 1
  /\ content \in 0 .. MaxRevisions + 1 /\ cycles \in 0 .. MaxRevisions + 1
  /\ verdict \in Verdict \cup {"none"}
  /\ issues \in BOOLEAN
  /\ about \in 0 .. MaxRevisions + 1
  /\ result \in {"none", "completed", "completed_degraded", "failed"}
  /\ calls \in Nat

Init ==
  /\ at = "generate" /\ tries = 0
  /\ edit_runs = 0 /\ format_runs = 0 /\ content = 0
  /\ cycles = 0 /\ verdict = "none"
  /\ issues = FALSE /\ about = 0
  /\ result = "none" /\ calls = 0

----------------------------------------------------------------------------
(* The structured call every node makes *)

Asking(node) == at = node /\ result = "none"

\* The call returned a parsed answer.
Answers(node) == Asking(node) /\ calls' = calls + 1 /\ tries' = 0

\* It raised, and tenacity tries it again.
CallRetried ==
  /\ result = "none" /\ tries + 1 < MaxAttempts
  /\ tries' = tries + 1 /\ calls' = calls + 1
  /\ UNCHANGED <<at, textVars, reviewVars, result>>

\* It raised for the last time: run_writing_agent returns a failed result.
CallExhausted ==
  /\ result = "none" /\ tries + 1 = MaxAttempts
  /\ result' = "failed" /\ calls' = calls + 1
  /\ UNCHANGED <<at, tries, textVars, reviewVars>>

\* The answer did not parse: the call returns None and the node trips over it.
Unparsed ==
  /\ result = "none"
  /\ result' = "failed" /\ calls' = calls + 1
  /\ UNCHANGED <<at, tries, textVars, reviewVars>>

----------------------------------------------------------------------------
(* The nodes *)

Generate ==
  /\ Answers("generate") /\ at' = "edit"
  /\ UNCHANGED <<textVars, reviewVars, result>>

\* Mutant of Edit: a revised text goes to the judge without being formatted.
EditUnformatted ==
  /\ Answers("edit") /\ at' = IF cycles = 0 THEN "format" ELSE "judge"
  /\ edit_runs' = edit_runs + 1
  /\ UNCHANGED <<format_runs, content, reviewVars, result>>

Edit ==
  /\ Answers("edit") /\ at' = "format"
  /\ edit_runs' = edit_runs + 1
  /\ UNCHANGED <<format_runs, content, reviewVars, result>>

Format ==
  /\ Answers("format") /\ at' = "judge"
  /\ format_runs' = format_runs + 1
  /\ content' = edit_runs
  /\ UNCHANGED <<edit_runs, reviewVars, result>>

\* route_after_judge: no more revisions after n cycles.
Capped(n) == n > MaxRevisions

\* assemble_result
Status(v, open) == IF open /\ v # "return" THEN "completed_degraded" ELSE "completed"

\* Mutant of Review: an empty list of issues leaves the earlier ones in the state.
ReviewKeepingIssues(v, open) ==
  /\ verdict' = v /\ cycles' = cycles + 1
  /\ issues' = (open \/ issues) /\ about' = IF open THEN format_runs ELSE about

Review(v, open) ==
  /\ verdict' = v /\ cycles' = cycles + 1
  /\ issues' = open /\ about' = format_runs

\* Mutant of SendBack: a text sent back to be edited is judged again as it is.
SendBackUnrevised(v, open) ==
  /\ Answers("judge") /\ v # "return" /\ ~Capped(cycles + 1)
  /\ Review(v, open)
  /\ at' = IF v = "reedit" THEN "judge" ELSE "format"
  /\ UNCHANGED <<textVars, result>>

\* The judge's answer sends the text back.
SendBack(v, open) ==
  /\ Answers("judge") /\ v # "return" /\ ~Capped(cycles + 1)
  /\ Review(v, open)
  /\ at' = IF v = "reedit" THEN "edit" ELSE "format"
  /\ UNCHANGED <<textVars, result>>

\* It accepts, or the cap is reached: the run returns.
Ship(v, open) ==
  /\ Answers("judge") /\ (v = "return" \/ Capped(cycles + 1))
  /\ Review(v, open)
  /\ result' = Status(v, open)
  /\ UNCHANGED <<at, textVars>>

Judge == \E v \in Verdict, open \in BOOLEAN : SendBack(v, open) \/ Ship(v, open)

Next ==
  \/ Generate \/ Edit \/ Format \/ Judge
  \/ CallRetried \/ CallExhausted \/ Unparsed

Spec == Init /\ [][Next]_vars

----------------------------------------------------------------------------
(* Properties *)

Shipped == result \in {"completed", "completed_degraded"}

\* The agent ships the text the judge read last, formatted from the latest edit:
\* no revision is lost and none is shipped unread.
ShipsReviewedText ==
  Shipped => content = edit_runs /\ about = format_runs /\ cycles > 0

\* The issues handed to the editor and the formatter, and those assemble_result lists
\* beside the shipped text, are about the text the judge read last, not an earlier one.
IssuesCurrent == issues /\ (at # "judge" \/ Shipped) => about = format_runs

\* A degraded result has used up every revision: the loop gives up only at its cap.
DegradedOnlyAtCap == result = "completed_degraded" => cycles = MaxRevisions + 1

\* However calls fail and whatever the judge says, a run makes at most so many
\* model calls: one to generate and three per cycle, each with its attempts.  Every
\* step is a call, so every run comes to an end.
CallBudget == calls <= MaxAttempts * (4 + 3 * MaxRevisions)

\* The loop is a bounded review.
Reviewing == INSTANCE BoundedReview WITH
  budget <- MaxRevisions,
  reviews <- cycles,
  phase <- CASE result = "failed" -> "failed"
             [] Shipped -> "shipped"
             [] result = "none" /\ at = "judge" -> "reviewing"
             [] result = "none" /\ at # "judge" -> "drafting"
ImplementsReview == Reviewing!Spec

=============================================================================
