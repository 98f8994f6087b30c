---------------------------- MODULE ResearchLoop ----------------------------
(***************************************************************************)
(* One run of the research agent: the model asks for searches, several at  *)
(* a time, until it stops or its calls are used up; a malformed tool call  *)
(* starts the loop again with a fresh context; a summary closes the run.   *)
(*                                                                         *)
(* Actors: the agent loop, and the web_search calls of one turn, which     *)
(* interleave at their await.  Hits are told apart by the query they       *)
(* answer.  LangChain runs the loop: its turns are modelled as src/ uses   *)
(* them (a turn's tool calls all end before the next model call).          *)
(***************************************************************************)
EXTENDS Naturals

CONSTANTS Query, Slot,        \* bounds: queries, and tool calls of one turn
          MaxSearchCalls,     \* research_agent.max_search_calls
          RunLimit,           \* research_agent.recursion_limit
          ToolRetryAttempts   \* research_agent.tool_retry_attempts

ASSUME LimitsAssumption ==
  MaxSearchCalls \in Nat /\ RunLimit \in Nat /\ ToolRetryAttempts \in Nat

VARIABLES
  at,           \* where the agent is
  attempt,      \* of _invoke_with_tool_retry
  modelCalls,   \* counted by ModelCallLimitMiddleware
  search_count, \* ResearchContext.search_count
  collected,    \* ResearchContext.collected_sources: the queries they came from
  tool,         \* per slot: no call, called, or waiting for the web
  asked,        \* per slot: the query of its call
  cache,        \* TavilySearch._cache: what is stored for each query
  result,       \* the AgentResult's status
  confident,    \* may its confidence exceed the cap
  malformed,    \* history: the last model call was refused as malformed
  found,        \* history: queries whose hits this attempt was given
  searches,     \* history: web searches of this attempt
  allSearches,  \* history: of all attempts
  allCalls      \* history: calls of all attempts and the summary, without compaction's

toolVars == <<tool, asked>>
contextVars == <<search_count, collected>>
resultVars == <<result, confident, malformed>>
countVars == <<searches, allSearches>>
vars == <<at, attempt, modelCalls, contextVars, toolVars, cache, resultVars, found, countVars,
          allCalls>>

TypeOK ==
  /\ at \in {"model", "tools", "summarizing", "returned"}
  /\ attempt \in 0 .. ToolRetryAttempts /\ modelCalls \in 0 .. RunLimit
  /\ search_count \in 0 .. MaxSearchCalls
  /\ collected \subseteq Query /\ found \subseteq Query
  /\ tool \in [Slot -> {"idle", "called", "searching"}] /\ asked \in [Slot -> Query]
  /\ cache \in [Query -> {"absent", "hits", "empty"}]
  /\ result \in {"none", "completed", "failed"}
  /\ confident \in BOOLEAN /\ malformed \in BOOLEAN
  /\ searches \in Nat /\ allSearches \in Nat /\ allCalls \in Nat

Init ==
  /\ at = "model" /\ attempt = 0 /\ modelCalls = 0
  /\ search_count = 0 /\ collected = {} /\ found = {}
  /\ tool = [s \in Slot |-> "idle"] /\ asked \in [Slot -> Query]
  /\ cache = [q \in Query |-> "absent"]
  /\ result = "none" /\ confident = FALSE /\ malformed = FALSE
  /\ searches = 0 /\ allSearches = 0 /\ allCalls = 0

----------------------------------------------------------------------------
(* The agent loop *)

Asks == at = "model" /\ modelCalls < RunLimit /\ allCalls' = allCalls + 1

CallsModel == Asks /\ modelCalls' = modelCalls + 1

\* The model calls tools; a slot left idle is a call of think, which changes nothing.
ModelCallsTools ==
  /\ CallsModel /\ at' = "tools"
  /\ tool' \in [Slot -> {"idle", "called"}] /\ asked' \in [Slot -> Query]
  /\ \A s \in Slot : tool'[s] = "idle" => asked'[s] = asked[s]
  /\ UNCHANGED <<attempt, contextVars, cache, resultVars, found, countVars>>

ModelStops ==
  /\ CallsModel /\ at' = "summarizing"
  /\ UNCHANGED <<attempt, contextVars, toolVars, cache, resultVars, found, countVars>>

\* ModelCallLimitMiddleware ends the loop.
LimitReached ==
  /\ at = "model" /\ modelCalls = RunLimit
  /\ at' = "summarizing"
  /\ UNCHANGED <<attempt, modelCalls, contextVars, toolVars, cache, resultVars, found,
                 countVars, allCalls>>

ToolsReturn ==
  /\ at = "tools" /\ \A s \in Slot : tool[s] = "idle"
  /\ at' = "model"
  /\ UNCHANGED <<attempt, modelCalls, contextVars, toolVars, cache, resultVars, found,
                 countVars, allCalls>>

----------------------------------------------------------------------------
(* web_search *)

Called(s) == at = "tools" /\ tool[s] = "called"

Ends(s) == tool' = [tool EXCEPT ![s] = "idle"] /\ asked' = asked

\* _record_sources
Records(q) == collected' = collected \cup {q} /\ found' = found \cup {q}

\* The search budget of this context is used up: only a notice is returned.
SearchRefused(s) ==
  /\ Called(s) /\ search_count >= MaxSearchCalls
  /\ Ends(s)
  /\ UNCHANGED <<at, attempt, modelCalls, contextVars, cache, resultVars, found, countVars,
                 allCalls>>

\* A live entry answers at once, also an empty one.
SearchCached(s) ==
  /\ Called(s) /\ search_count < MaxSearchCalls /\ cache[asked[s]] # "absent"
  /\ search_count' = search_count + 1
  /\ IF cache[asked[s]] = "hits" THEN Records(asked[s]) ELSE UNCHANGED <<collected, found>>
  /\ Ends(s)
  /\ UNCHANGED <<at, attempt, modelCalls, cache, resultVars, countVars, allCalls>>

\* Mutant of SearchSent: a search that is sent is never counted.
SentUncounted(s) ==
  /\ Called(s) /\ search_count < MaxSearchCalls /\ cache[asked[s]] = "absent"
  /\ tool' = [tool EXCEPT ![s] = "searching"]
  /\ searches' = searches + 1 /\ allSearches' = allSearches + 1
  /\ UNCHANGED <<at, attempt, modelCalls, contextVars, asked, cache, resultVars, found, allCalls>>

\* Nothing live is stored: the web is searched, and the call awaits its answer.
SearchSent(s) ==
  /\ Called(s) /\ search_count < MaxSearchCalls /\ cache[asked[s]] = "absent"
  /\ search_count' = search_count + 1
  /\ tool' = [tool EXCEPT ![s] = "searching"]
  /\ searches' = searches + 1 /\ allSearches' = allSearches + 1
  /\ UNCHANGED <<at, attempt, modelCalls, collected, asked, cache, resultVars, found, allCalls>>

\* The answer comes: hits, or an empty list, which is also what an error becomes.
SearchAnswered(s, answer) ==
  /\ at = "tools" /\ tool[s] = "searching"
  /\ cache' = [cache EXCEPT ![asked[s]] = answer]
  /\ IF answer = "hits" THEN Records(asked[s]) ELSE UNCHANGED <<collected, found>>
  /\ Ends(s)
  /\ UNCHANGED <<at, attempt, modelCalls, search_count, resultVars, countVars, allCalls>>

\* An entry outlives its time to live.
EntryExpires(q) ==
  /\ result = "none" /\ cache[q] # "absent"
  /\ cache' = [cache EXCEPT ![q] = "absent"]
  /\ UNCHANGED <<at, attempt, modelCalls, contextVars, toolVars, resultVars, found, countVars,
                 allCalls>>

----------------------------------------------------------------------------
(* _invoke_with_tool_retry and run_research_agent *)

\* Mutant of FreshContext: the sources collected so far are kept.
ContextKeepingSources == search_count' = 0 /\ collected' = collected

\* _build_context, once per attempt.
FreshContext == search_count' = 0 /\ collected' = {}

AttemptsLeft == attempt < ToolRetryAttempts

\* The provider refuses a malformed tool call: the loop starts over.
MalformedRetried ==
  /\ Asks /\ AttemptsLeft
  /\ attempt' = attempt + 1 /\ modelCalls' = 0 /\ FreshContext
  /\ found' = {} /\ searches' = 0
  /\ UNCHANGED <<at, toolVars, cache, resultVars, allSearches>>

Fails(refused) ==
  /\ at' = "returned" /\ result' = "failed" /\ malformed' = refused /\ confident' = FALSE
  /\ UNCHANGED <<attempt, contextVars, toolVars, cache, found, countVars>>

\* It refuses one in the last attempt.
MalformedAgain == CallsModel /\ ~AttemptsLeft /\ Fails(TRUE)

\* The model call raises anything else.
ModelRaises == CallsModel /\ Fails(FALSE)

\* _grounded_confidence: without sources it is capped.
MayBeConfident == collected # {}

Summarized ==
  /\ at = "summarizing" /\ at' = "returned"
  /\ result' = "completed"
  /\ confident' \in IF MayBeConfident THEN BOOLEAN ELSE {FALSE}
  /\ allCalls' = allCalls + 1
  /\ UNCHANGED <<attempt, modelCalls, contextVars, toolVars, cache, malformed, found, countVars>>

\* The summary's call raises, or its answer did not parse.
SummaryFails ==
  /\ at = "summarizing" /\ Fails(FALSE)
  /\ allCalls' = allCalls + 1 /\ UNCHANGED modelCalls

Search(s) ==
  \/ SearchRefused(s) \/ SearchCached(s) \/ SearchSent(s)
  \/ \E answer \in {"hits", "empty"} : SearchAnswered(s, answer)

AgentLoop == ModelCallsTools \/ ModelStops \/ LimitReached \/ ToolsReturn

Attempts == MalformedRetried \/ MalformedAgain \/ ModelRaises \/ Summarized \/ SummaryFails

Next ==
  \/ AgentLoop \/ Attempts
  \/ \E s \in Slot : Search(s)
  \/ \E q \in Query : EntryExpires(q)

Spec == Init /\ [][Next]_vars

----------------------------------------------------------------------------
(* Properties *)

\* However the searches of a turn interleave, an attempt never goes to the web more
\* often than its budget: the count is taken before the await.
SearchBudget == searches <= MaxSearchCalls

\* All attempts together stay in the budgets too, although each starts from zero.
TotalBudget ==
  /\ allSearches <= MaxSearchCalls * (ToolRetryAttempts + 1)
  /\ allCalls <= RunLimit * (ToolRetryAttempts + 1) + 1

\* Only findings of the attempt that is summarized lift the cap on the confidence:
\* none of an attempt that was thrown away.
Grounded == confident => result = "completed" /\ found # {}

\* A malformed tool call fails the step only after every attempt was made.
FailsWhenExhausted == result = "failed" /\ malformed => attempt = ToolRetryAttempts
=============================================================================
