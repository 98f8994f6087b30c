------------------------- MODULE ResearchLoop_proofs -------------------------
(***************************************************************************)
(* For every number of parallel searches, and every limit: the searches    *)
(* and model calls of a run stay in their budgets, and its confidence      *)
(* rests on what the summarized attempt found.                             *)
(***************************************************************************)
EXTENDS ResearchLoop, TLAPS

\* A run is charged its earlier attempts in full, and this one for what it used.
BudgetInv ==
  /\ searches <= search_count
  /\ allSearches <= MaxSearchCalls * attempt + searches
  /\ at # "returned" => allCalls <= RunLimit * attempt + modelCalls
  /\ at = "returned" => allCalls <= RunLimit * attempt + modelCalls + 1

EvidenceInv ==
  /\ collected = found
  /\ at # "returned" => result = "none" /\ ~malformed /\ ~confident
  /\ Grounded /\ FailsWhenExhausted

ResearchInv == TypeOK /\ BudgetInv /\ EvidenceInv

LEMMA ResearchInit == Init => ResearchInv
<1> SUFFICES ASSUME Init PROVE ResearchInv
  OBVIOUS
<1> USE LimitsAssumption DEF Init
<1>1. TypeOK
  <2>1. confident \in BOOLEAN /\ malformed \in BOOLEAN
    OBVIOUS
  <2>2. tool \in [Slot -> {"idle", "called", "searching"}] /\ asked \in [Slot -> Query]
    OBVIOUS
  <2>3. cache \in [Query -> {"absent", "hits", "empty"}]
    OBVIOUS
  <2> QED
    BY <2>1, <2>2, <2>3 DEF TypeOK
<1>2. BudgetInv
  <2>1. MaxSearchCalls * 0 = 0 /\ RunLimit * 0 = 0
    OBVIOUS
  <2> QED
    BY <2>1 DEF BudgetInv
<1>3. EvidenceInv
  BY DEF EvidenceInv, Grounded, FailsWhenExhausted
<1> QED
  BY <1>1, <1>2, <1>3 DEF ResearchInv

\* The parts of the state that a search may change keep their types.
LEMMA SearchTypes ==
  ASSUME TypeOK, NEW s \in Slot, Search(s)
  PROVE  TypeOK'
<1> USE LimitsAssumption DEF TypeOK
<1>1. asked[s] \in Query
  OBVIOUS
<1>2. UNCHANGED <<at, attempt, modelCalls, resultVars, allCalls>>
  BY DEF Search, SearchRefused, SearchCached, SearchSent, SearchAnswered
<1>3. confident' \in BOOLEAN /\ malformed' \in BOOLEAN
  BY <1>2 DEF resultVars
<1>4. tool' \in [Slot -> {"idle", "called", "searching"}] /\ asked' \in [Slot -> Query]
  BY DEF Search, SearchRefused, SearchCached, SearchSent, SearchAnswered, Ends
<1>5. cache' \in [Query -> {"absent", "hits", "empty"}]
  BY DEF Search, SearchRefused, SearchCached, SearchSent, SearchAnswered
<1>6. collected' \subseteq Query /\ found' \subseteq Query
  BY <1>1 DEF Search, SearchRefused, SearchCached, SearchSent, SearchAnswered, Records,
     contextVars
<1>7. search_count' \in 0 .. MaxSearchCalls /\ searches' \in Nat /\ allSearches' \in Nat
  BY DEF Search, SearchRefused, SearchCached, SearchSent, SearchAnswered, contextVars, countVars
<1> QED
  BY <1>2, <1>3, <1>4, <1>5, <1>6, <1>7 DEF resultVars

LEMMA TypeKept == ResearchInv /\ [Next]_vars => TypeOK'
<1> SUFFICES ASSUME ResearchInv, [Next]_vars PROVE TypeOK'
  OBVIOUS
<1> USE LimitsAssumption DEF ResearchInv
<1>1. CASE AgentLoop
  <2> USE <1>1 DEF AgentLoop, ModelCallsTools, ModelStops, LimitReached, ToolsReturn,
          CallsModel, Asks, TypeOK
  <2>1. /\ UNCHANGED <<attempt, contextVars, cache, resultVars, found, countVars>>
        /\ at' \in {"model", "tools", "summarizing"}
    OBVIOUS
  <2>2. confident' \in BOOLEAN /\ malformed' \in BOOLEAN
    BY <2>1 DEF resultVars
  <2>3. tool' \in [Slot -> {"idle", "called", "searching"}] /\ asked' \in [Slot -> Query]
    BY DEF toolVars
  <2>4. modelCalls' \in 0 .. RunLimit /\ allCalls' \in Nat
    OBVIOUS
  <2> QED
    BY <2>1, <2>2, <2>3, <2>4 DEF contextVars, resultVars, countVars
<1>2. CASE MalformedRetried
  <2>1. attempt' \in 0 .. ToolRetryAttempts
    BY <1>2 DEF MalformedRetried, AttemptsLeft, TypeOK
  <2>2. confident' = confident /\ malformed' = malformed
    BY <1>2 DEF MalformedRetried, resultVars
  <2>3. collected' = {} /\ found' = {} /\ search_count' = 0 /\ searches' = 0
    BY <1>2 DEF MalformedRetried, FreshContext
  <2> QED
    BY <1>2, <2>1, <2>2, <2>3 DEF MalformedRetried, Asks, TypeOK, toolVars, resultVars
<1>6. CASE MalformedAgain \/ ModelRaises \/ Summarized \/ SummaryFails
  <2> USE <1>6 DEF MalformedAgain, ModelRaises, Summarized, SummaryFails, CallsModel, Asks, Fails,
          TypeOK
  <2>1. UNCHANGED <<attempt, contextVars, toolVars, cache, found, countVars>> /\ at' = "returned"
    OBVIOUS
  <2>2. confident' \in BOOLEAN /\ malformed' \in BOOLEAN
    OBVIOUS
  <2>3. modelCalls' \in 0 .. RunLimit /\ allCalls' \in Nat
    <3>1. /\ allCalls' = allCalls + 1
          /\ \/ modelCalls' = modelCalls
             \/ modelCalls < RunLimit /\ modelCalls' = modelCalls + 1
      OBVIOUS
    <3> QED
      BY <3>1
  <2>4. result' \in {"none", "completed", "failed"}
    OBVIOUS
  <2> QED
    BY <2>1, <2>2, <2>3, <2>4 DEF contextVars, toolVars, countVars
<1>3. ASSUME NEW s \in Slot, Search(s) PROVE TypeOK'
  BY <1>3, SearchTypes
<1>4. ASSUME NEW q \in Query, EntryExpires(q) PROVE TypeOK'
  <2>1. cache' \in [Query -> {"absent", "hits", "empty"}]
    BY <1>4 DEF EntryExpires, TypeOK
  <2>2. confident' = confident /\ malformed' = malformed
    BY <1>4 DEF EntryExpires, resultVars
  <2> QED
    BY <1>4, <2>1, <2>2 DEF EntryExpires, TypeOK, contextVars, toolVars, resultVars, countVars
<1>5. CASE UNCHANGED vars
  <2>1. confident' = confident /\ malformed' = malformed
    BY <1>5 DEF vars, resultVars
  <2> QED
    BY <1>5, <2>1 DEF vars, TypeOK, contextVars, toolVars, resultVars, countVars
<1> QED
  BY <1>1, <1>2, <1>3, <1>4, <1>5, <1>6 DEF Next, Attempts

LEMMA BudgetKept == ResearchInv /\ [Next]_vars => BudgetInv'
<1> SUFFICES ASSUME ResearchInv, [Next]_vars PROVE BudgetInv'
  OBVIOUS
<1> USE LimitsAssumption DEF ResearchInv, TypeOK
<1> DEFINE SearchesBefore == MaxSearchCalls * attempt
           CallsBefore == RunLimit * attempt
<1>1. SearchesBefore \in Nat /\ CallsBefore \in Nat
  OBVIOUS
<1>2. CASE AgentLoop
  <2>1. UNCHANGED <<attempt, contextVars, countVars>> /\ at' # "returned" /\ at # "returned"
    BY <1>2 DEF AgentLoop, ModelCallsTools, ModelStops, LimitReached, ToolsReturn,
       CallsModel, Asks
  <2>2. \/ allCalls' = allCalls + 1 /\ modelCalls' = modelCalls + 1
        \/ allCalls' = allCalls /\ modelCalls' = modelCalls
    BY <1>2 DEF AgentLoop, ModelCallsTools, ModelStops, LimitReached, ToolsReturn,
       CallsModel, Asks
  <2>3. allCalls' \in Nat /\ modelCalls' \in Nat
    BY <1>2 DEF AgentLoop, ModelCallsTools, ModelStops, LimitReached, ToolsReturn,
       CallsModel, Asks
  <2> HIDE DEF SearchesBefore, CallsBefore
  <2>4. SearchesBefore' = SearchesBefore /\ CallsBefore' = CallsBefore
    BY <2>1 DEF SearchesBefore, CallsBefore
  <2>5. allCalls <= CallsBefore + modelCalls
    BY <2>1 DEF BudgetInv, CallsBefore
  <2>6. allCalls' <= CallsBefore + modelCalls'
    <3>1. allCalls \in Nat /\ modelCalls \in Nat
      OBVIOUS
    <3>2. CASE allCalls' = allCalls /\ modelCalls' = modelCalls
      BY <3>2, <2>5
    <3>3. CASE allCalls' = allCalls + 1 /\ modelCalls' = modelCalls + 1
      <4>1. CallsBefore + (modelCalls + 1) = (CallsBefore + modelCalls) + 1
        BY <3>1, <1>1
      <4> QED
        BY <3>1, <3>3, <4>1, <2>5, <1>1
    <3> QED
      BY <3>2, <3>3, <2>2
  <2> QED
    BY <2>1, <2>4, <2>6 DEF BudgetInv, contextVars, countVars, SearchesBefore, CallsBefore
<1>3. CASE MalformedRetried
  <2>1. /\ attempt' = attempt + 1 /\ at' = "model" /\ modelCalls' = 0 /\ searches' = 0
        /\ search_count' = 0 /\ allSearches' = allSearches /\ allCalls' = allCalls + 1
        /\ at = "model" /\ modelCalls + 1 <= RunLimit
    BY <1>3 DEF MalformedRetried, Asks, FreshContext
  <2>2. /\ MaxSearchCalls * (attempt + 1) = SearchesBefore + MaxSearchCalls
        /\ RunLimit * (attempt + 1) = CallsBefore + RunLimit
    OBVIOUS
  <2>3. /\ allSearches <= SearchesBefore + searches /\ searches <= MaxSearchCalls
        /\ allCalls <= CallsBefore + modelCalls
    BY <2>1 DEF BudgetInv
  <2> HIDE DEF SearchesBefore, CallsBefore
  <2>4. allSearches' <= MaxSearchCalls * (attempt + 1) /\ allCalls' <= RunLimit * (attempt + 1)
    BY <1>1, <2>1, <2>2, <2>3
  <2>5. MaxSearchCalls * (attempt + 1) \in Nat /\ RunLimit * (attempt + 1) \in Nat
    BY <1>1, <2>2
  <2> QED
    BY <2>1, <2>4, <2>5 DEF BudgetInv
<1>4. CASE MalformedAgain \/ ModelRaises \/ Summarized \/ SummaryFails
  <2>1. UNCHANGED <<attempt, contextVars, countVars>> /\ at' = "returned" /\ at # "returned"
    BY <1>4 DEF MalformedAgain, ModelRaises, Summarized, SummaryFails, CallsModel, Asks, Fails
  <2>2. allCalls' = allCalls + 1 /\ (modelCalls' = modelCalls \/ modelCalls' = modelCalls + 1)
    BY <1>4 DEF MalformedAgain, ModelRaises, Summarized, SummaryFails, CallsModel, Asks, Fails
  <2> HIDE DEF SearchesBefore, CallsBefore
  <2>3. allCalls <= CallsBefore + modelCalls
    BY <2>1 DEF BudgetInv, CallsBefore
  <2>4. allCalls' <= CallsBefore + modelCalls' + 1
    BY <2>2, <2>3, <1>1
  <2> QED
    BY <2>1, <2>4 DEF BudgetInv, contextVars, countVars, SearchesBefore, CallsBefore
<1>5. ASSUME NEW s \in Slot, Search(s) PROVE BudgetInv'
  <2>1. UNCHANGED <<at, attempt, modelCalls, allCalls>>
    BY <1>5 DEF Search, SearchRefused, SearchCached, SearchSent, SearchAnswered
  <2>2. \/ search_count' = search_count + 1 /\ searches' = searches + 1
           /\ allSearches' = allSearches + 1
        \/ search_count' \in {search_count, search_count + 1} /\ searches' = searches
           /\ allSearches' = allSearches
    BY <1>5 DEF Search, SearchRefused, SearchCached, SearchSent, SearchAnswered, contextVars,
       countVars
  <2> HIDE DEF SearchesBefore, CallsBefore
  <2>3. allSearches' <= SearchesBefore + searches' /\ searches' <= search_count'
    BY <2>2, <1>1 DEF BudgetInv, SearchesBefore
  <2> QED
    BY <2>1, <2>3 DEF BudgetInv, SearchesBefore
<1>6. ASSUME NEW q \in Query, EntryExpires(q) PROVE BudgetInv'
  BY <1>6 DEF EntryExpires, BudgetInv, contextVars, countVars
<1>7. CASE UNCHANGED vars
  BY <1>7 DEF vars, BudgetInv, contextVars, countVars
<1> QED
  BY <1>2, <1>3, <1>4, <1>5, <1>6, <1>7 DEF Next, Attempts

LEMMA EvidenceKept == ResearchInv /\ [Next]_vars => EvidenceInv'
<1> SUFFICES ASSUME ResearchInv, [Next]_vars PROVE EvidenceInv'
  OBVIOUS
<1> USE LimitsAssumption DEF ResearchInv, EvidenceInv, Grounded, FailsWhenExhausted
<1>1. CASE AgentLoop
  BY <1>1 DEF AgentLoop, ModelCallsTools, ModelStops, LimitReached, ToolsReturn, CallsModel,
     Asks, contextVars, resultVars
<1>2. CASE MalformedRetried
  BY <1>2 DEF MalformedRetried, Asks, FreshContext, resultVars
<1>3. CASE MalformedAgain
  <2>1. attempt' = attempt /\ attempt = ToolRetryAttempts
    BY <1>3 DEF MalformedAgain, AttemptsLeft, Fails, TypeOK
  <2>2. /\ collected' = collected /\ found' = found /\ at' = "returned" /\ ~confident'
    BY <1>3 DEF MalformedAgain, Fails, contextVars
  <2> QED
    BY <2>1, <2>2
<1>4. CASE ModelRaises \/ SummaryFails
  BY <1>4 DEF ModelRaises, SummaryFails, Fails, contextVars
<1>5. CASE Summarized
  <2>1. /\ collected' = collected /\ found' = found /\ at' = "returned"
        /\ result' = "completed"
    BY <1>5 DEF Summarized, contextVars
  <2>2. confident' => collected # {}
    BY <1>5 DEF Summarized, MayBeConfident
  <2> QED
    BY <2>1, <2>2
<1>6. ASSUME NEW s \in Slot, Search(s) PROVE EvidenceInv'
  BY <1>6 DEF Search, SearchRefused, SearchCached, SearchSent, SearchAnswered, Called, Records,
     contextVars, resultVars
<1>7. ASSUME NEW q \in Query, EntryExpires(q) PROVE EvidenceInv'
  BY <1>7 DEF EntryExpires, contextVars, resultVars
<1>8. CASE UNCHANGED vars
  BY <1>8 DEF vars, contextVars, resultVars
<1> QED
  BY <1>1, <1>2, <1>3, <1>4, <1>5, <1>6, <1>7, <1>8 DEF Next, Attempts

\* ResearchInv is inductive, so it holds always.
THEOREM ResearchInvariant == Spec => []ResearchInv
<1>1. ResearchInv /\ [Next]_vars => ResearchInv'
  BY TypeKept, BudgetKept, EvidenceKept DEF ResearchInv
<1> QED
  BY ResearchInit, <1>1, PTL DEF Spec

\* Parallel searches never exceed max_search_calls, however many a turn asks for.
THEOREM AlwaysInSearchBudget == Spec => []SearchBudget
<1>1. ResearchInv => SearchBudget
  BY LimitsAssumption DEF ResearchInv, TypeOK, BudgetInv, SearchBudget
<1> QED
  BY ResearchInvariant, <1>1, PTL

LEMMA ProductMonotone ==
  ASSUME NEW a \in Nat, NEW b \in Nat, NEW c \in Nat, b <= c
  PROVE  a * b <= a * c
  OBVIOUS

\* All attempts together search the web and call models a bounded number of times.
THEOREM AlwaysInTotalBudget == Spec => []TotalBudget
<1>1. ResearchInv => TotalBudget
  <2> SUFFICES ASSUME ResearchInv PROVE TotalBudget
    OBVIOUS
  <2> USE LimitsAssumption DEF ResearchInv, TypeOK
  <2>1. /\ MaxSearchCalls * (attempt + 1) <= MaxSearchCalls * (ToolRetryAttempts + 1)
        /\ RunLimit * (attempt + 1) <= RunLimit * (ToolRetryAttempts + 1)
    BY ProductMonotone
  <2>2. /\ MaxSearchCalls * (attempt + 1) = MaxSearchCalls * attempt + MaxSearchCalls
        /\ RunLimit * (attempt + 1) = RunLimit * attempt + RunLimit
    OBVIOUS
  <2>3. /\ MaxSearchCalls * attempt \in Nat /\ RunLimit * attempt \in Nat
        /\ MaxSearchCalls * (ToolRetryAttempts + 1) \in Nat
        /\ RunLimit * (ToolRetryAttempts + 1) \in Nat
    OBVIOUS
  <2>4. /\ allSearches <= MaxSearchCalls * attempt + MaxSearchCalls
        /\ allCalls <= RunLimit * attempt + RunLimit + 1
    BY <2>3 DEF BudgetInv
  <2> QED
    BY <2>1, <2>2, <2>3, <2>4 DEF TotalBudget
<1> QED
  BY ResearchInvariant, <1>1, PTL

\* A confidence above the cap rests on sources the summarized attempt found.
THEOREM AlwaysGrounded == Spec => []Grounded
<1>1. ResearchInv => Grounded
  BY DEF ResearchInv, EvidenceInv
<1> QED
  BY ResearchInvariant, <1>1, PTL

\* A malformed tool call fails the step only in the last attempt.
THEOREM AlwaysFailsWhenExhausted == Spec => []FailsWhenExhausted
<1>1. ResearchInv => FailsWhenExhausted
  BY DEF ResearchInv, EvidenceInv
<1> QED
  BY ResearchInvariant, <1>1, PTL
=============================================================================
