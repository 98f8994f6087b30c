---------------------------- MODULE AnalysisLoop ----------------------------
(***************************************************************************)
(* One run of the analysis agent: the model thinks and computes until it   *)
(* stops or its calls are used up, and a summary closes the run.           *)
(*                                                                         *)
(* Actors: the agent loop, and the compute calls of one turn, each in a    *)
(* thread of the executor.  A thread gives the interpreter away only at a  *)
(* call, so counting a call and testing the count is one step, working it  *)
(* out another.  LangChain runs the loop: its turns are modelled as src/   *)
(* uses them.                                                              *)
(***************************************************************************)
EXTENDS Metrics

CONSTANTS Slot,             \* bound: tool calls of one turn
          MaxComputeCalls,  \* analysis_agent.max_compute_calls
          RunLimit          \* analysis_agent.recursion_limit

ASSUME LimitsAssumption == MaxComputeCalls \in Nat /\ RunLimit \in Nat

VARIABLES
  at,             \* where the agent is
  model_calls,    \* counted by ModelCallLimitMiddleware
  compute_count,  \* AnalysisContext.compute_count
  tokens_used,    \* AnalysisContext.tokens_used, one for each call of a model
  compacted,      \* the history has been compacted in this turn
  call,           \* per slot: no call, called, or being worked out
  remaining,      \* per slot: the budget its answer will tell
  result,         \* the AgentResult's status
  reported,       \* its tokens_used
  told,           \* history: the budgets the model has been told
  computed,       \* history: calls that were let through to be worked out
  spent,          \* history: calls of a model, but for one that ended the run
  compactions     \* history: those that compacted the history

contextVars == <<compute_count, tokens_used>>
toolVars == <<call, remaining>>
resultVars == <<result, reported>>
history == <<told, computed>>
spentVars == <<spent, compactions>>
vars == <<at, model_calls, compacted, contextVars, toolVars, resultVars, history, spentVars>>

Init ==
  /\ at = "model" /\ model_calls = 0 /\ compacted = FALSE
  /\ compute_count = 0 /\ tokens_used = 0
  /\ call = [s \in Slot |-> "idle"] /\ remaining = [s \in Slot |-> 0]
  /\ result = "none" /\ reported = 0
  /\ told = {} /\ computed = 0 /\ spent = 0 /\ compactions = 0

----------------------------------------------------------------------------
(* The agent loop *)

\* SummarizationMiddleware, between the check of the limit and the call: a history that
\* has grown, so never the first turn's, is summed up by the cheap model.  A call that
\* raises leaves an apology for a summary; capture_usage sees none of them.
Compacts ==
  /\ at = "model" /\ model_calls \in 1 .. RunLimit - 1 /\ ~compacted
  /\ compacted' = TRUE
  /\ spent' = spent + 1 /\ compactions' = compactions + 1
  /\ UNCHANGED <<at, model_calls, contextVars, toolVars, resultVars, history>>

\* A model call, and capture_usage after it.
AsksModel ==
  /\ at = "model" /\ model_calls < RunLimit
  /\ model_calls' = model_calls + 1 /\ tokens_used' = tokens_used + 1
  /\ compacted' = FALSE /\ spent' = spent + 1 /\ UNCHANGED compactions

\* The model calls tools; a slot left idle is a call of think, which changes nothing.
ModelCallsTools ==
  /\ AsksModel /\ at' = "tools"
  /\ call' \in [Slot -> {"idle", "called"}]
  /\ UNCHANGED <<compute_count, remaining, resultVars, history>>

ModelStops ==
  /\ AsksModel /\ at' = "summarizing"
  /\ UNCHANGED <<compute_count, toolVars, resultVars, history>>

\* ModelCallLimitMiddleware ends the loop.
LimitReached ==
  /\ at = "model" /\ model_calls = RunLimit
  /\ at' = "summarizing"
  /\ UNCHANGED <<model_calls, contextVars, toolVars, resultVars, history, compacted, spentVars>>

ToolsReturn ==
  /\ at = "tools" /\ \A s \in Slot : call[s] = "idle"
  /\ at' = "model"
  /\ UNCHANGED <<model_calls, contextVars, toolVars, resultVars, history, compacted, spentVars>>

----------------------------------------------------------------------------
(* compute, in its thread, which runs on also when the agent has failed *)

Counts(s) == call[s] = "called" /\ compute_count' = compute_count + 1

Ends(s) == call' = [call EXCEPT ![s] = "idle"]

\* The call is past the budget: it is refused, and told so.
ComputeRefused(s) ==
  /\ Counts(s) /\ compute_count' > MaxComputeCalls
  /\ Ends(s) /\ told' = told \cup {0}
  /\ UNCHANGED <<at, model_calls, tokens_used, remaining, resultVars, computed, compacted, spentVars>>

\* Mutant of ComputeBegins: the budget is read before the call is counted.
BeginsBeforeCount(s) ==
  /\ Counts(s) /\ compute_count' <= MaxComputeCalls
  /\ call' = [call EXCEPT ![s] = "computing"]
  /\ remaining' = [remaining EXCEPT ![s] = MaxComputeCalls - compute_count]
  /\ computed' = computed + 1
  /\ UNCHANGED <<at, model_calls, tokens_used, resultVars, told, compacted, spentVars>>

ComputeBegins(s) ==
  /\ Counts(s) /\ compute_count' <= MaxComputeCalls
  /\ call' = [call EXCEPT ![s] = "computing"]
  /\ remaining' = [remaining EXCEPT ![s] = MaxComputeCalls - compute_count']
  /\ computed' = computed + 1
  /\ UNCHANGED <<at, model_calls, tokens_used, resultVars, told, compacted, spentVars>>

\* _with_budget: a result or an error, with the budget as it was when it began.
ComputeAnswers(s) ==
  /\ call[s] = "computing"
  /\ Ends(s) /\ told' = told \cup {remaining[s]}
  /\ UNCHANGED <<at, model_calls, contextVars, remaining, resultVars, computed, compacted, spentVars>>

----------------------------------------------------------------------------
(* run_analysis_agent *)

\* Any exception: the agent's result is failed, and its count of tokens starts over.
Fails == at' = "returned" /\ result' = "failed" /\ reported' = 0

\* Working a call out raises what compute does not catch (2(3) calls a number).
ComputeRaises(s) ==
  /\ call[s] = "computing" /\ Ends(s)
  /\ IF at = "tools" THEN Fails ELSE UNCHANGED <<at, resultVars>>
  /\ UNCHANGED <<model_calls, contextVars, remaining, history, compacted, spentVars>>

ModelRaises ==
  /\ at = "model" /\ model_calls < RunLimit /\ Fails
  /\ UNCHANGED <<model_calls, contextVars, toolVars, history, compacted, spentVars>>

\* Mutant of Summarized: the summary's own call is left out of the count.
SummarizedUncounted(status) ==
  /\ at = "summarizing" /\ at' = "returned"
  /\ result' = status /\ reported' = tokens_used
  /\ spent' = spent + 1 /\ UNCHANGED compactions
  /\ UNCHANGED <<model_calls, compacted, contextVars, toolVars, history>>

\* _summarize and _assemble_result: degraded when its confidence is under the threshold.
Summarized(status) ==
  /\ at = "summarizing" /\ at' = "returned"
  /\ result' = status /\ reported' = tokens_used + 1
  /\ spent' = spent + 1 /\ UNCHANGED compactions
  /\ UNCHANGED <<model_calls, compacted, contextVars, toolVars, history>>

\* The summary's call raises, or its answer did not parse.
SummaryFails ==
  /\ at = "summarizing" /\ Fails
  /\ UNCHANGED <<model_calls, contextVars, toolVars, history, compacted, spentVars>>

Compute(s) == ComputeRefused(s) \/ ComputeBegins(s) \/ ComputeAnswers(s) \/ ComputeRaises(s)

Next ==
  \/ Compacts \/ ModelCallsTools \/ ModelStops \/ LimitReached \/ ToolsReturn
  \/ ModelRaises \/ SummaryFails
  \/ \E status \in {"completed", "completed_degraded"} : Summarized(status)
  \/ \E s \in Slot : Compute(s)

Spec == Init /\ [][Next]_vars

----------------------------------------------------------------------------
(* Properties *)

\* However the compute calls of a turn interleave, never more of them are worked out
\* than the budget allows; and when the model is asked again, the least budget it was
\* told is what is left, in whatever order the answers came.
BudgetHonest ==
  /\ computed <= MaxComputeCalls
  /\ at \in {"model", "summarizing"} => Min(told \cup {MaxComputeCalls}) = MaxComputeCalls - computed

\* The result of a run that was not cut short reports every call of its main model, over
\* however many turns and with whatever its compute threads write to the same context,
\* and the summary's.  What is missing from the spend is the calls that compacted the
\* history, each of which goes unreported, and nothing else.
SpendReported == result \notin {"none", "failed"} => reported = spent - compactions

\* Any two ways to ask compute the same thing agree on a dataset: counting a value,
\* filtering for it and its group; the rows over all filters, and what their ints add up
\* to; a share of the whole.  Only a missing value, which has no group, is found by the
\* filter for the text None.  The average of some floats may lie outside their bounds, for
\* it alone is rounded, but by less than a ten-thousandth.
Agree(items, rows, field, other) ==
  LET n           == Cardinality(items)
      groups      == GroupBy(items, rows, field)
      looks(i)    == rows[i][field].str
      part(label) == Filtered(items, rows, field, {Text(label)})
      size(label) == Cardinality(part(label))
      sum(label)  == NumericMetric(part(label), rows, other, "sum")
      share(label) == Percentage([m \in {0, 1} |-> IF m = 0 THEN groups[label] ELSE n], 0, 1)
      average     == NumericMetric(items, rows, field, "average")
  IN  /\ Distinct(items, rows, field) = Cardinality(DOMAIN groups)
      /\ \A i \in Has(items, rows, field) : looks(i) # None =>
           /\ groups[looks(i)] = CountWhere(items, rows, field, rows[i][field])
           /\ groups[looks(i)] = size(looks(i))
      /\ \A label \in DOMAIN groups :
           share(label).error = "none" /\ share(label).times <= 100 * share(label).by
      /\ MapThenSumSet(size, DOMAIN groups \cup {None}) = n
      /\ (\A i \in items : rows[i][other].kind # "float") =>
           MapThenSumSet(sum, DOMAIN groups \cup {None}) = NumericMetric(items, rows, other, "sum")
      /\ 10000 * NumericMetric(items, rows, field, "min") - Scale < Scale * average
      /\ Scale * average < 10000 * NumericMetric(items, rows, field, "max") + Scale

Values == {Whole(0), Whole(1), Float(1), Text(Whole(1).str), Text(None), Missing}

\* The metrics agree on every dataset of up to three rows, with values that are equal
\* as numbers, as text or not at all, and floats finer than the average is told.
MetricsAgree ==
  at = "model" /\ model_calls = 0 =>
    \A data \in [1 .. 3 -> [{"f", "g"} -> Values] \cup {NotARow}] :
      Agree(Dataset(data), data, "f", "g")
=============================================================================
