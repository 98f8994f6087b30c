------------------------- MODULE AnalysisLoop_proofs -------------------------
(***************************************************************************)
(* For any budget of computations, any limit on model calls and any number *)
(* of parallel tool calls: the compute budget holds, the model is told the *)
(* truth about it, and every call of a model but compaction's is reported. *)
(* Then, for any finite set of rows: the metrics computed over it agree.   *)
(***************************************************************************)
EXTENDS AnalysisLoop, FiniteSetTheorems, TLAPS

TypeInv ==
  /\ at \in {"model", "tools", "summarizing", "returned"}
  /\ model_calls \in Nat /\ compute_count \in Nat /\ tokens_used \in Nat
  /\ call \in [Slot -> {"idle", "called", "computing"}]
  /\ remaining \in [Slot -> Nat]
  /\ reported \in Nat
  /\ told \subseteq Nat /\ computed \in Nat
  /\ spent \in Nat /\ compactions \in Nat

\* A call is let through as long as the count is in the budget.
CountInv == computed = IF compute_count <= MaxComputeCalls THEN compute_count ELSE MaxComputeCalls

Computing == {s \in Slot : call[s] = "computing"}

\* What was told, or is about to be.
Known == told \cup {remaining[s] : s \in Computing} \cup {MaxComputeCalls}

Left == MaxComputeCalls - computed

\* Nobody is told less than what is left; and until the agent has failed, what is left
\* was told or will be, before the model is asked again.
ToldInv ==
  /\ \A v \in told \cup {MaxComputeCalls} : Left <= v
  /\ \A s \in Computing : Left <= remaining[s]
  /\ at # "returned" => Left \in Known
  /\ at \in {"model", "summarizing"} => \A s \in Slot : call[s] = "idle"

\* capture_usage has seen every call but those that compacted.
SpendInv ==
  /\ at # "returned" => tokens_used = spent - compactions
  /\ result \notin {"none", "failed"} => at = "returned" /\ reported = spent - compactions

AnalysisInv == TypeInv /\ CountInv /\ ToldInv /\ SpendInv

LEMMA MinIs ==
  ASSUME NEW S \in SUBSET Int, NEW m \in S, \A y \in S : m <= y
  PROVE  Min(S) = m
<1>1. \E x \in S : \A y \in S : x <= y
  OBVIOUS
<1>2. Min(S) \in S /\ \A y \in S : Min(S) <= y
  BY <1>1, Zenon DEF Min
<1>3. Min(S) <= m /\ m <= Min(S) /\ m \in Int /\ Min(S) \in Int
  BY <1>2
<1> QED
  BY <1>3

LEMMA AnalysisInit == Init => AnalysisInv
<1> SUFFICES ASSUME Init PROVE AnalysisInv
  OBVIOUS
<1> USE LimitsAssumption DEF Init
<1>1. TypeInv /\ CountInv
  BY DEF TypeInv, CountInv
<1>2. ToldInv /\ SpendInv
  BY DEF ToldInv, SpendInv, Computing, Known, Left
<1> QED
  BY <1>1, <1>2 DEF AnalysisInv

LEMMA TypeKept == TypeInv /\ CountInv /\ [Next]_vars => TypeInv'
<1> SUFFICES ASSUME TypeInv, CountInv, [Next]_vars PROVE TypeInv'
  OBVIOUS
<1> USE LimitsAssumption DEF TypeInv, contextVars, toolVars, resultVars, history, spentVars
<1>1. CASE ModelCallsTools
  <2>1. call' \in [Slot -> {"idle", "called", "computing"}]
    BY <1>1 DEF ModelCallsTools
  <2> QED
    BY <1>1, <2>1 DEF ModelCallsTools, AsksModel
<1>2. CASE ModelStops
  BY <1>2 DEF ModelStops, AsksModel
<1>3. CASE LimitReached \/ ToolsReturn
  BY <1>3 DEF LimitReached, ToolsReturn
<1>4. CASE ModelRaises \/ SummaryFails
  <2>1. at' = "returned" /\ reported' = 0 /\ told' = told /\ computed' = computed
        /\ UNCHANGED <<model_calls, compute_count, tokens_used, call, remaining, spent, compactions>>
    BY <1>4 DEF ModelRaises, SummaryFails, Fails
  <2> QED
    BY <2>1
<1>5. ASSUME NEW status \in {"completed", "completed_degraded"}, Summarized(status)
      PROVE  TypeInv'
  BY <1>5 DEF Summarized
<1>6. ASSUME NEW s \in Slot, ComputeRefused(s) PROVE TypeInv'
  BY <1>6 DEF ComputeRefused, Counts, Ends
<1>7. ASSUME NEW s \in Slot, ComputeBegins(s) PROVE TypeInv'
  BY <1>7 DEF ComputeBegins, Counts
<1>8. ASSUME NEW s \in Slot, ComputeAnswers(s) PROVE TypeInv'
  BY <1>8 DEF ComputeAnswers, Ends
<1>9. ASSUME NEW s \in Slot, ComputeRaises(s) PROVE TypeInv'
  BY <1>9 DEF ComputeRaises, Ends, Fails
<1>10. CASE Compacts
  BY <1>10 DEF Compacts
<1>11. CASE UNCHANGED vars
  BY <1>11 DEF vars
<1> QED
  BY <1>1, <1>2, <1>3, <1>4, <1>5, <1>6, <1>7, <1>8, <1>9, <1>10, <1>11 DEF Next, Compute

LEMMA CountKept == TypeInv /\ CountInv /\ [Next]_vars => CountInv'
<1> SUFFICES ASSUME TypeInv, CountInv, [Next]_vars PROVE CountInv'
  OBVIOUS
<1>1. CASE UNCHANGED <<compute_count, computed>>
  BY <1>1 DEF CountInv
<1>2. ASSUME NEW s \in Slot, ComputeRefused(s) PROVE CountInv'
  BY <1>2, LimitsAssumption DEF ComputeRefused, Counts, CountInv, TypeInv
<1>3. ASSUME NEW s \in Slot, ComputeBegins(s) PROVE CountInv'
  BY <1>3, LimitsAssumption DEF ComputeBegins, Counts, CountInv, TypeInv
<1> QED
  BY <1>1, <1>2, <1>3
  DEF Next, Compute, Compacts, ModelCallsTools, ModelStops, LimitReached, ToolsReturn, ModelRaises, SummaryFails,
      Summarized, ComputeAnswers, ComputeRaises, AsksModel, vars, contextVars, history

LEMMA SpendKept == TypeInv /\ SpendInv /\ [Next]_vars => SpendInv'
<1> SUFFICES ASSUME TypeInv, SpendInv, [Next]_vars PROVE SpendInv'
  OBVIOUS
<1> USE DEF SpendInv, TypeInv, contextVars, toolVars, resultVars, history, spentVars
<1>0. CASE Compacts
  BY <1>0 DEF Compacts
<1>1. CASE ModelCallsTools \/ ModelStops \/ LimitReached \/ ToolsReturn
  BY <1>1 DEF ModelCallsTools, ModelStops, LimitReached, ToolsReturn, AsksModel
<1>2. CASE ModelRaises \/ SummaryFails
  BY <1>2 DEF ModelRaises, SummaryFails, Fails
<1>3. ASSUME NEW status \in {"completed", "completed_degraded"}, Summarized(status)
      PROVE  SpendInv'
  BY <1>3 DEF Summarized
<1>4. ASSUME NEW s \in Slot, Compute(s) PROVE SpendInv'
  BY <1>4 DEF Compute, ComputeRefused, ComputeBegins, ComputeAnswers, ComputeRaises, Counts, Fails
<1>5. CASE UNCHANGED vars
  BY <1>5 DEF vars
<1> QED
  BY <1>0, <1>1, <1>2, <1>3, <1>4, <1>5 DEF Next

LEMMA ToldKept == AnalysisInv /\ [Next]_vars => ToldInv'
<1> SUFFICES ASSUME AnalysisInv, [Next]_vars PROVE ToldInv'
  OBVIOUS
<1>t. TypeInv /\ CountInv /\ ToldInv /\ TypeInv' /\ Left \in Int /\ Left' \in Int
  BY TypeKept, LimitsAssumption DEF AnalysisInv, TypeInv, Left
<1>1. CASE ModelCallsTools
  <2>1. Computing = {} /\ Computing' = {} /\ UNCHANGED <<remaining, told, computed>>
    BY <1>1, <1>t DEF ModelCallsTools, AsksModel, ToldInv, Computing, history
  <2> QED
    BY <1>1, <2>1, <1>t DEF ModelCallsTools, AsksModel, ToldInv, Known, Left
<1>2. CASE ModelStops \/ LimitReached \/ ToolsReturn \/ ModelRaises \/ SummaryFails
  <2>1. /\ UNCHANGED <<call, remaining, told, computed>>
        /\ at' # "returned" => at # "returned"
        /\ at' \in {"model", "summarizing"} => \A s \in Slot : call[s] = "idle"
    BY <1>2, <1>t DEF ModelStops, AsksModel, LimitReached, ToolsReturn, ModelRaises, SummaryFails,
                      Fails, ToldInv, toolVars, history
  <2> QED
    BY <2>1, <1>t DEF ToldInv, Known, Left, Computing
<1>3. ASSUME NEW status \in {"completed", "completed_degraded"}, Summarized(status)
      PROVE  ToldInv'
  BY <1>3, <1>t DEF Summarized, ToldInv, Known, Left, Computing, toolVars, history
<1>4. ASSUME NEW s \in Slot, ComputeRefused(s) PROVE ToldInv'
  <2>1. computed = MaxComputeCalls
    BY <1>4, <1>t, LimitsAssumption DEF ComputeRefused, Counts, CountInv, TypeInv
  <2>2. Left = 0 /\ Left' = 0
    BY <1>4, <2>1, LimitsAssumption DEF ComputeRefused, Left
  <2>3. Computing' = Computing /\ remaining' = remaining /\ told' = told \cup {0} /\ at' = at
    BY <1>4, <1>t DEF ComputeRefused, Counts, Ends, Computing, TypeInv
  <2>4. at \in {"model", "summarizing"} => \A q \in Slot : call'[q] = "idle"
    BY <1>4, <1>t DEF ComputeRefused, Counts, ToldInv
  <2> QED
    BY <2>2, <2>3, <2>4, <1>t DEF ToldInv, Known
<1>5. ASSUME NEW s \in Slot, ComputeBegins(s) PROVE ToldInv'
  <2>1. computed = compute_count /\ Left' = Left - 1 /\ remaining'[s] = Left'
    BY <1>5, <1>t, LimitsAssumption DEF ComputeBegins, Counts, CountInv, TypeInv, Left
  <2>2. /\ Computing' = Computing \cup {s} /\ told' = told
        /\ \A q \in Slot \ {s} : remaining'[q] = remaining[q]
    BY <1>5, <1>t DEF ComputeBegins, Counts, Computing, TypeInv
  <2>3. at' = at /\ at \notin {"model", "summarizing"}
    BY <1>5, <1>t DEF ComputeBegins, Counts, ToldInv
  <2>4. \A v \in told \cup {MaxComputeCalls} : Left' <= v
    BY <1>t, <2>1, LimitsAssumption DEF ToldInv, TypeInv
  <2>5. \A q \in Computing' : Left' <= remaining'[q]
    BY <1>t, <2>1, <2>2 DEF ToldInv, TypeInv, Computing
  <2>6. Left' \in Known'
    BY <2>1, <2>2 DEF Known
  <2> QED
    BY <2>2, <2>3, <2>4, <2>5, <2>6 DEF ToldInv
<1>6. ASSUME NEW s \in Slot, ComputeAnswers(s) PROVE ToldInv'
  <2>1. /\ Computing' = Computing \ {s} /\ s \in Computing /\ remaining' = remaining
        /\ told' = told \cup {remaining[s]} /\ Left' = Left /\ at' = at
    BY <1>6, <1>t DEF ComputeAnswers, Ends, Computing, TypeInv, Left
  <2>2. at \notin {"model", "summarizing"}
    BY <1>6, <1>t DEF ComputeAnswers, ToldInv
  <2>3. Known' = Known
    BY <2>1 DEF Known
  <2> QED
    BY <2>1, <2>2, <2>3, <1>t DEF ToldInv
<1>7. ASSUME NEW s \in Slot, ComputeRaises(s) PROVE ToldInv'
  <2>1. Computing' \subseteq Computing /\ remaining' = remaining /\ told' = told /\ Left' = Left
    BY <1>7, <1>t DEF ComputeRaises, Ends, Computing, TypeInv, Left, history
  <2>2. at' = "returned"
    BY <1>7, <1>t DEF ComputeRaises, Fails, ToldInv, TypeInv
  <2> QED
    BY <2>1, <2>2, <1>t DEF ToldInv
<1>8. CASE Compacts \/ UNCHANGED vars
  BY <1>8, <1>t DEF Compacts, vars, toolVars, history, ToldInv, Known, Left, Computing
<1> QED
  BY <1>1, <1>2, <1>3, <1>4, <1>5, <1>6, <1>7, <1>8 DEF Next, Compute

----------------------------------------------------------------------------

LEMMA AnalysisInvariant == Spec => []AnalysisInv
<1>1. AnalysisInv /\ [Next]_vars => AnalysisInv'
  BY TypeKept, CountKept, ToldKept, SpendKept DEF AnalysisInv
<1> QED
  BY AnalysisInit, <1>1, PTL DEF Spec

LEMMA ToldTheTruth == AnalysisInv => BudgetHonest
<1> SUFFICES ASSUME AnalysisInv PROVE BudgetHonest
  OBVIOUS
<1>1. computed <= MaxComputeCalls
  BY LimitsAssumption DEF AnalysisInv, CountInv, TypeInv
<1>2. ASSUME at \in {"model", "summarizing"}
      PROVE  Min(told \cup {MaxComputeCalls}) = MaxComputeCalls - computed
  <2>1. Computing = {}
    BY <1>2 DEF AnalysisInv, ToldInv, Computing
  <2>2. Left \in told \cup {MaxComputeCalls}
    BY <1>2, <2>1 DEF AnalysisInv, ToldInv, Known
  <2>3. \A v \in told \cup {MaxComputeCalls} : Left <= v
    BY DEF AnalysisInv, ToldInv
  <2>4. told \cup {MaxComputeCalls} \in SUBSET Int
    BY LimitsAssumption DEF AnalysisInv, TypeInv
  <2> QED
    BY <2>2, <2>3, <2>4, MinIs DEF Left
<1> QED
  BY <1>1, <1>2 DEF BudgetHonest

\* compute counts and tests in one step: however many calls run at once, no more are
\* worked out than the budget, and what the model was told last is what is left.
THEOREM BudgetAlwaysHonest == Spec => []BudgetHonest
<1> QED
  BY AnalysisInvariant, ToldTheTruth, PTL

\* _assemble_result reads the count the middleware wrote, and adds the summary's own: all
\* calls of a model are reported but those that compacted the history, and none of those.
THEOREM SpendAlwaysReported == Spec => []SpendReported
<1>1. AnalysisInv => SpendReported
  BY DEF AnalysisInv, SpendInv, SpendReported
<1> QED
  BY AnalysisInvariant, <1>1, PTL

----------------------------------------------------------------------------
(* Adding up over a finite set, as MapThenSumSet does.  The sum is a function  *)
(* on its subsets; a law is proved on a smallest subset that would break it.   *)

\* A non-empty set of naturals has a least member.
LEMMA LeastNat ==
  ASSUME NEW T \in SUBSET Nat, T # {}
  PROVE  \E m \in T : \A k \in T : m <= k
<1>1. PICK m \in T : \A k \in T : ~(<<k, m>> \in OpToRel(<, Nat))
  BY NatLessThanWellFounded, WFMin, Zenon
<1>2. \A k \in T : <<k, m>> \in OpToRel(<, Nat) <=> k < m
  BY DEF OpToRel
<1>3. \A k \in T : ~(k < m)
  BY <1>1, <1>2, Zenon
<1> QED
  BY <1>3

\* A non-empty set of subsets of a finite set has one with no other inside it.
LEMMA LeastSubset ==
  ASSUME NEW S, IsFiniteSet(S), NEW F \in SUBSET SUBSET S, F # {}
  PROVE  \E T \in F : \A U \in F : U \subseteq T => U = T
<1>1. IsWellFoundedOn(StrictSubsetOrdering(S), SUBSET S)
  BY FS_StrictSubsetOrderingWellFounded, FS_FiniteSubsetsOfFinite, Zenon
<1>2. PICK T \in F : \A U \in F : ~(<<U, T>> \in StrictSubsetOrdering(S))
  BY <1>1, WFMin, Zenon
<1>3. \A U \in F : U \subseteq T /\ U # T => <<U, T>> \in StrictSubsetOrdering(S)
  BY DEF StrictSubsetOrdering
<1>4. ASSUME NEW U \in F, U \subseteq T PROVE U = T
  BY <1>2, <1>3, <1>4
<1> QED
  BY <1>4

----------------------------------------------------------------------------

\* The member taken out first, the sum's equation over subsets D, and the sum.
Pick(s) == CHOOSE x \in s : TRUE

IsSum(h, g, D) == h = [s \in D |-> IF s = {} THEN 0 ELSE g[Pick(s)] + h[s \ {Pick(s)}]]

Sum(g, S) == (CHOOSE h : IsSum(h, g, SUBSET S))[S]

\* The subsets of at most n members.
Small(S, n) == {T \in SUBSET S : Cardinality(T) <= n}

\* The member that MapThenFoldSet takes out is one.
LEMMA PickIn ==
  ASSUME NEW s, s # {}
  PROVE  Pick(s) \in s
BY DEF Pick

\* Without it, a subset is one smaller.
LEMMA SmallRest ==
  ASSUME NEW S, IsFiniteSet(S), NEW n \in Nat \ {0}, NEW s \in Small(S, n), s # {}
  PROVE  s \ {Pick(s)} \in Small(S, n - 1)
<1>1. IsFiniteSet(s) /\ Cardinality(s) <= n
  BY FS_Subset DEF Small
<1>2. Cardinality(s \ {Pick(s)}) = Cardinality(s) - 1 /\ Cardinality(s) \in Nat
  BY <1>1, PickIn, FS_RemoveElement, FS_CardinalityType
<1> QED
  BY <1>1, <1>2 DEF Small

\* The equation of the sum has a solution, built up by the size of the subsets.
LEMMA SumExists ==
  ASSUME NEW S, IsFiniteSet(S), NEW g
  PROVE  \E h : IsSum(h, g, SUBSET S)
<1> DEFINE Bad == {n \in Nat : ~\E h : IsSum(h, g, Small(S, n))}
<1>1. Bad = {}
  <2> SUFFICES ASSUME Bad # {} PROVE FALSE
    OBVIOUS
  <2>1. PICK n \in Bad : \A k \in Bad : n <= k
    BY LeastNat
  <2>2. CASE n = 0
    <3>1. Small(S, 0) = {{}}
      <4>1. \A T \in SUBSET S : IsFiniteSet(T) /\ Cardinality(T) \in Nat
        BY FS_Subset, FS_CardinalityType
      <4>2. \A T \in SUBSET S : Cardinality(T) <= 0 <=> T = {}
        BY <4>1, FS_EmptySet
      <4> QED
        BY <4>2 DEF Small
    <3> DEFINE h == [s \in {{}} |-> 0]
    <3>2. IsSum(h, g, {{}})
      BY DEF IsSum
    <3> QED
      BY <2>1, <2>2, <3>1, <3>2
  <2>3. CASE n # 0
    <3>1. n \in Nat \ {0} /\ n - 1 \in Nat /\ n - 1 \notin Bad
      BY <2>1, <2>3
    <3>2. PICK h : IsSum(h, g, Small(S, n - 1))
      BY <3>1
    <3> DEFINE k == [s \in Small(S, n) |-> IF s = {} THEN 0 ELSE g[Pick(s)] + h[s \ {Pick(s)}]]
    <3>3. \A s \in Small(S, n - 1) : s \in Small(S, n)
      BY <3>1, FS_Subset, FS_CardinalityType DEF Small
    <3> HIDE DEF Bad
    <3>4. \A s \in Small(S, n - 1) : k[s] = h[s]
      BY <3>2, <3>3 DEF IsSum
    <3>5. \A s \in Small(S, n) : k[s] = IF s = {} THEN 0 ELSE g[Pick(s)] + k[s \ {Pick(s)}]
      BY <3>1, <3>4, SmallRest
    <3>6. k = [s \in Small(S, n) |-> k[s]]
      OBVIOUS
    <3> HIDE DEF k
    <3>7. IsSum(k, g, Small(S, n))
      BY <3>5, <3>6 DEF IsSum
    <3> QED
      BY <2>1, <3>7 DEF Bad
  <2> QED
    BY <2>2, <2>3
<1>2. Small(S, Cardinality(S)) = SUBSET S
  BY FS_Subset DEF Small
<1>3. Cardinality(S) \in Nat
  BY FS_CardinalityType
<1> HIDE DEF Bad
<1>4. Cardinality(S) \notin Bad
  BY <1>1
<1>5. \E h : IsSum(h, g, Small(S, Cardinality(S)))
  BY <1>3, <1>4 DEF Bad
<1> QED
  BY <1>2, <1>5

\* What a sum is does not depend on the order in which it is taken.
LEMMA SumOrder ==
  ASSUME NEW S, IsFiniteSet(S), NEW g, \A x \in S : g[x] \in Int,
         NEW h, IsSum(h, g, SUBSET S)
  PROVE  /\ h[{}] = 0
         /\ \A T \in SUBSET S : h[T] \in Int
         /\ \A T \in SUBSET S : \A x \in T : h[T] = g[x] + h[T \ {x}]
<1>1. h[{}] = 0
  BY DEF IsSum
<1>2. \A T \in SUBSET S : T # {} => h[T] = g[Pick(T)] + h[T \ {Pick(T)}]
  BY DEF IsSum
<1>3. \A T \in SUBSET S : h[T] \in Int
  <2> DEFINE Bad == {T \in SUBSET S : h[T] \notin Int}
  <2> SUFFICES ASSUME Bad # {} PROVE FALSE
    OBVIOUS
  <2>0. Bad \in SUBSET SUBSET S
    OBVIOUS
  <2>1. PICK T \in Bad : \A U \in Bad : U \subseteq T => U = T
    <3> HIDE DEF Bad
    <3> QED
      BY <2>0, LeastSubset
  <2>2. T # {} /\ T \in SUBSET S
    <3>1. T \in SUBSET S /\ h[T] \notin Int
      BY <2>1
    <3>2. h[{}] \in Int
      BY <1>1
    <3> QED
      BY <3>1, <3>2
  <2>3. Pick(T) \in T
    BY <2>2, PickIn
  <2>4. h[T \ {Pick(T)}] \in Int
    BY <2>1, <2>2, <2>3
  <2>5. h[T] = g[Pick(T)] + h[T \ {Pick(T)}] /\ g[Pick(T)] \in Int
    BY <1>2, <2>2, <2>3
  <2>6. h[T] \in Int
    BY <2>4, <2>5
  <2> QED
    BY <2>1, <2>6
<1>4. \A T \in SUBSET S : \A x \in T : h[T] = g[x] + h[T \ {x}]
  <2> DEFINE Bad == {T \in SUBSET S : \E x \in T : h[T] # g[x] + h[T \ {x}]}
  <2> SUFFICES ASSUME Bad # {} PROVE FALSE
    OBVIOUS
  <2>0. Bad \in SUBSET SUBSET S
    OBVIOUS
  <2>1. PICK T \in Bad : \A U \in Bad : U \subseteq T => U = T
    <3> HIDE DEF Bad
    <3> QED
      BY <2>0, LeastSubset
  <2>2. PICK x \in T : h[T] # g[x] + h[T \ {x}]
    BY <2>1
  <2> DEFINE c == Pick(T)
  <2>3. T \in SUBSET S /\ c \in T
    BY <2>1, <2>2, PickIn
  <2>4. h[T] = g[c] + h[T \ {c}]
    BY <1>2, <2>2, <2>3
  <2>5. x # c
    BY <2>2, <2>4
  <2> HIDE DEF c
  <2>6. T \ {c} \notin Bad /\ T \ {x} \notin Bad
    BY <2>1, <2>2, <2>3
  <2>7. h[T \ {c}] = g[x] + h[(T \ {c}) \ {x}]
    BY <2>2, <2>3, <2>5, <2>6
  <2>8. h[T \ {x}] = g[c] + h[(T \ {x}) \ {c}]
    BY <2>2, <2>3, <2>5, <2>6
  <2>9. (T \ {c}) \ {x} = (T \ {x}) \ {c}
    OBVIOUS
  <2>10. g[c] \in Int /\ g[x] \in Int /\ h[(T \ {c}) \ {x}] \in Int
    BY <1>3, <2>2, <2>3
  <2> DEFINE u == h[(T \ {c}) \ {x}]
  <2>11. h[T] = g[c] + (g[x] + u) /\ h[T \ {x}] = g[c] + u
    BY <2>4, <2>7, <2>8, <2>9
  <2> HIDE DEF u, Bad
  <2>12. g[c] + (g[x] + u) = g[x] + (g[c] + u)
    BY <2>10 DEF u
  <2> QED
    BY <2>2, <2>11, <2>12
<1> QED
  BY <1>1, <1>3, <1>4

\* Nor on the set it is taken within.
LEMMA SumWithin ==
  ASSUME NEW S, IsFiniteSet(S), NEW g, NEW R \in SUBSET S,
         NEW h, IsSum(h, g, SUBSET S), NEW k, IsSum(k, g, SUBSET R)
  PROVE  \A T \in SUBSET R : h[T] = k[T]
<1> DEFINE Bad == {T \in SUBSET R : h[T] # k[T]}
<1> SUFFICES ASSUME Bad # {} PROVE FALSE
  OBVIOUS
<1>0. IsFiniteSet(R) /\ Bad \in SUBSET SUBSET R
  BY FS_Subset
<1>1. PICK T \in Bad : \A U \in Bad : U \subseteq T => U = T
  <2> HIDE DEF Bad
  <2> QED
    BY <1>0, LeastSubset
<1>2. T \in SUBSET R /\ T \in SUBSET S
  BY <1>1
<1>3. h[T] = IF T = {} THEN 0 ELSE g[Pick(T)] + h[T \ {Pick(T)}]
  BY <1>2 DEF IsSum
<1>4. k[T] = IF T = {} THEN 0 ELSE g[Pick(T)] + k[T \ {Pick(T)}]
  BY <1>2 DEF IsSum
<1>5. T # {} => T \ {Pick(T)} \notin Bad
  BY <1>1, PickIn
<1> QED
  BY <1>1, <1>2, <1>3, <1>4, <1>5

\* Any solution of the equation is the sum.
LEMMA SumIs ==
  ASSUME NEW S, IsFiniteSet(S), NEW g
  PROVE  /\ IsSum(CHOOSE h : IsSum(h, g, SUBSET S), g, SUBSET S)
         /\ \A h : IsSum(h, g, SUBSET S) => h[S] = Sum(g, S)
<1> DEFINE k == CHOOSE h : IsSum(h, g, SUBSET S)
<1>1. IsSum(k, g, SUBSET S)
  BY SumExists, Zenon
<1>2. Sum(g, S) = k[S]
  BY DEF Sum
<1> HIDE DEF k
<1>3. ASSUME NEW h, IsSum(h, g, SUBSET S) PROVE h[S] = k[S]
  BY <1>1, <1>3, SumWithin
<1> QED
  BY <1>1, <1>2, <1>3 DEF k

\* The laws of a sum.
LEMMA SumLaws ==
  ASSUME NEW S, IsFiniteSet(S), NEW g, \A x \in S : g[x] \in Int
  PROVE  /\ Sum(g, S) \in Int
         /\ S = {} => Sum(g, S) = 0
         /\ \A x \in S : Sum(g, S) = g[x] + Sum(g, S \ {x})
<1>1. PICK h : IsSum(h, g, SUBSET S)
  BY SumExists
<1>2. Sum(g, S) = h[S]
  BY <1>1, SumIs
<1>3. ASSUME NEW x \in S PROVE Sum(g, S \ {x}) = h[S \ {x}]
  <2> DEFINE R == S \ {x}
  <2>1. R \in SUBSET S /\ R \in SUBSET R /\ IsFiniteSet(R)
    BY FS_Subset
  <2> HIDE DEF R
  <2>2. PICK k : IsSum(k, g, SUBSET R)
    BY <2>1, SumExists
  <2>3. h[R] = k[R]
    BY <1>1, <2>1, <2>2, SumWithin
  <2>4. k[R] = Sum(g, R)
    BY <2>1, <2>2, SumIs
  <2> QED
    BY <2>3, <2>4 DEF R
<1>4. h[{}] = 0 /\ h[S] \in Int
  <2>1. h[{}] = 0
    BY <1>1, SumOrder
  <2>2. \A T \in SUBSET S : h[T] \in Int
    BY <1>1, SumOrder
  <2> QED
    BY <2>1, <2>2
<1>5. ASSUME NEW x \in S PROVE Sum(g, S) = g[x] + Sum(g, S \ {x})
  <2>1. h[S] = g[x] + h[S \ {x}]
    BY <1>1, SumOrder
  <2> QED
    BY <1>2, <1>3, <2>1
<1> QED
  BY <1>2, <1>4, <1>5

\* What is added up is all that matters.
LEMMA SumSame ==
  ASSUME NEW S, IsFiniteSet(S), NEW g, NEW k, \A x \in S : g[x] \in Int /\ k[x] = g[x]
  PROVE  Sum(k, S) = Sum(g, S)
<1> DEFINE Bad == {T \in SUBSET S : Sum(k, T) # Sum(g, T)}
<1> SUFFICES ASSUME Bad # {} PROVE FALSE
  OBVIOUS
<1>1. PICK T \in Bad : \A U \in Bad : U \subseteq T => U = T
  <2>1. Bad \in SUBSET SUBSET S
    OBVIOUS
  <2> HIDE DEF Bad
  <2> QED
    BY <2>1, LeastSubset
<1>2. /\ T \subseteq S /\ IsFiniteSet(T) /\ Sum(k, T) # Sum(g, T)
      /\ \A x \in T : g[x] \in Int /\ k[x] \in Int
  BY <1>1, FS_Subset
<1>3. T # {}
  BY <1>2, SumLaws
<1>4. PICK x \in T : TRUE
  BY <1>3
<1>5. Sum(g, T) = g[x] + Sum(g, T \ {x}) /\ Sum(k, T) = k[x] + Sum(k, T \ {x})
  BY <1>2, SumLaws
<1>6. Sum(k, T \ {x}) = Sum(g, T \ {x})
  BY <1>1, <1>2
<1> QED
  BY <1>2, <1>5, <1>6

\* The sum over two sets apart is the sum of their sums.
LEMMA SumDisjoint ==
  ASSUME NEW A, IsFiniteSet(A), NEW B, IsFiniteSet(B), A \cap B = {},
         NEW g, \A x \in A \cup B : g[x] \in Int
  PROVE  Sum(g, A \cup B) = Sum(g, A) + Sum(g, B)
<1> DEFINE Bad == {T \in SUBSET B : Sum(g, A \cup T) # Sum(g, A) + Sum(g, T)}
<1> SUFFICES ASSUME Bad # {} PROVE FALSE
  OBVIOUS
<1>1. PICK T \in Bad : \A U \in Bad : U \subseteq T => U = T
  <2>1. Bad \in SUBSET SUBSET B
    OBVIOUS
  <2> HIDE DEF Bad
  <2> QED
    BY <2>1, LeastSubset
<1>2. T \subseteq B /\ IsFiniteSet(T) /\ Sum(g, A \cup T) # Sum(g, A) + Sum(g, T)
  BY <1>1, FS_Subset
<1>3. Sum(g, A) \in Int
  BY SumLaws
<1>4. T # {}
  <2>1. ASSUME T = {} PROVE FALSE
    <3>1. Sum(g, T) = 0
      BY <2>1, <1>2, SumLaws
    <3>2. A \cup T = A
      BY <2>1
    <3>3. Sum(g, A \cup T) = Sum(g, A)
      BY <3>2
    <3>4. Sum(g, A) + Sum(g, T) = Sum(g, A)
      BY <1>3, <3>1
    <3> QED
      BY <1>2, <3>3, <3>4
  <2> QED
    BY <2>1
<1>5. PICK x \in T : TRUE
  BY <1>4
<1>6. /\ IsFiniteSet(A \cup T) /\ (A \cup T) \ {x} = A \cup (T \ {x})
      /\ \A y \in A \cup T : g[y] \in Int
  BY <1>2, FS_Union
<1>7. Sum(g, A \cup T) = g[x] + Sum(g, A \cup (T \ {x}))
  BY <1>6, SumLaws
<1>8. Sum(g, T) = g[x] + Sum(g, T \ {x})
  BY <1>2, <1>6, SumLaws
<1>9. Sum(g, A \cup (T \ {x})) = Sum(g, A) + Sum(g, T \ {x})
  BY <1>1, <1>2
<1>10. g[x] \in Int /\ Sum(g, T \ {x}) \in Int
  <2>1. IsFiniteSet(T \ {x}) /\ \A y \in T \ {x} : g[y] \in Int
    BY <1>2, <1>6, FS_Subset
  <2> QED
    BY <2>1, <1>6, SumLaws
<1> QED
  BY <1>2, <1>3, <1>7, <1>8, <1>9, <1>10

\* A sum lies between so many of its least and so many of its greatest terms.
LEMMA SumBounds ==
  ASSUME NEW S, IsFiniteSet(S), NEW g, NEW lo \in Int, NEW hi \in Int,
         \A x \in S : g[x] \in Int /\ lo <= g[x] /\ g[x] <= hi
  PROVE  lo * Cardinality(S) <= Sum(g, S) /\ Sum(g, S) <= hi * Cardinality(S)
<1> DEFINE Bad == {T \in SUBSET S : ~(/\ lo * Cardinality(T) <= Sum(g, T)
                                      /\ Sum(g, T) <= hi * Cardinality(T))}
<1> SUFFICES ASSUME Bad # {} PROVE FALSE
  OBVIOUS
<1>1. PICK T \in Bad : \A U \in Bad : U \subseteq T => U = T
  <2>1. Bad \in SUBSET SUBSET S
    OBVIOUS
  <2> HIDE DEF Bad
  <2> QED
    BY <2>1, LeastSubset
<1>2. /\ T \subseteq S /\ IsFiniteSet(T)
      /\ \A x \in T : g[x] \in Int /\ lo <= g[x] /\ g[x] <= hi
      /\ ~(lo * Cardinality(T) <= Sum(g, T) /\ Sum(g, T) <= hi * Cardinality(T))
  BY <1>1, FS_Subset
<1>3. T # {}
  <2>1. ASSUME T = {} PROVE FALSE
    <3>1. Sum(g, T) = 0 /\ Cardinality(T) = 0
      BY <2>1, <1>2, SumLaws, FS_EmptySet
    <3> QED
      BY <1>2, <3>1
  <2> QED
    BY <2>1
<1>4. PICK x \in T : TRUE
  BY <1>3
<1> DEFINE n == Cardinality(T \ {x})
           u == Sum(g, T \ {x})
<1>5. Cardinality(T) = n + 1 /\ n \in Nat
  <2>1. IsFiniteSet(T \ {x}) /\ Cardinality(T \ {x}) = Cardinality(T) - 1
    BY <1>2, FS_RemoveElement
  <2>2. Cardinality(T) \in Nat /\ Cardinality(T \ {x}) \in Nat
    BY <1>2, <2>1, FS_CardinalityType
  <2> QED
    BY <2>1, <2>2
<1>6. Sum(g, T) = g[x] + u /\ u \in Int
  <2>1. IsFiniteSet(T \ {x}) /\ \A y \in T \ {x} : g[y] \in Int
    BY <1>2, FS_Subset
  <2>2. u \in Int
    BY <2>1, SumLaws
  <2>3. Sum(g, T) = g[x] + u
    BY <1>2, SumLaws
  <2> QED
    BY <2>2, <2>3
<1>7. lo * n <= u /\ u <= hi * n
  BY <1>1, <1>2
<1>8. g[x] \in Int /\ lo <= g[x] /\ g[x] <= hi
  BY <1>2
<1> HIDE DEF n, u
<1>9. lo * (n + 1) = lo * n + lo /\ hi * (n + 1) = hi * n + hi
  BY <1>5
<1> DEFINE a == lo * n
           b == hi * n
<1>10. a \in Int /\ b \in Int
  BY <1>5
<1>11. lo * Cardinality(T) = a + lo /\ hi * Cardinality(T) = b + hi
  BY <1>5, <1>9
<1>12. a <= u /\ u <= b
  BY <1>7
<1> HIDE DEF a, b
<1>13. a + lo <= Sum(g, T) /\ Sum(g, T) <= b + hi
  BY <1>6, <1>8, <1>10, <1>12
<1> QED
  BY <1>2, <1>11, <1>13

\* Counting is adding up ones.
LEMMA SumOfOnes ==
  ASSUME NEW S, IsFiniteSet(S), NEW g, \A x \in S : g[x] = 1
  PROVE  Sum(g, S) = Cardinality(S)
<1>1. Cardinality(S) \in Nat /\ Sum(g, S) \in Int
  BY SumLaws, FS_CardinalityType
<1>2. \A x \in S : g[x] \in Int /\ 1 <= g[x] /\ g[x] <= 1
  OBVIOUS
<1>3. 1 * Cardinality(S) <= Sum(g, S) /\ Sum(g, S) <= 1 * Cardinality(S)
  BY <1>2, SumBounds
<1> QED
  BY <1>1, <1>3

\* The members of D with one of these labels.
Labelled(D, str, labels) == {i \in D : str[i] \in labels}

\* k holds, for each label, the sum over the members with that label.
LabelSums(k, D, g, str, L) == \A l \in L : k[l] = Sum(g, Labelled(D, str, {l}))

\* What is added up by label is added up, label by label.
LEMMA SumByLabel ==
  ASSUME NEW D, IsFiniteSet(D), NEW g, \A i \in D : g[i] \in Int,
         NEW str, NEW L, IsFiniteSet(L),
         NEW k, LabelSums(k, D, g, str, L)
  PROVE  Sum(k, L) = Sum(g, Labelled(D, str, L))
<1> DEFINE Of(T) == Labelled(D, str, T)
           Bad == {T \in SUBSET L : Sum(k, T) # Sum(g, Of(T))}
<1> SUFFICES ASSUME Bad # {} PROVE FALSE
  OBVIOUS
<1>1. PICK T \in Bad : \A U \in Bad : U \subseteq T => U = T
  <2>1. Bad \in SUBSET SUBSET L
    OBVIOUS
  <2> HIDE DEF Bad
  <2> QED
    BY <2>1, LeastSubset
<1>2. T \subseteq L /\ IsFiniteSet(T) /\ Sum(k, T) # Sum(g, Of(T))
  BY <1>1, FS_Subset
<1>3. \A R \in SUBSET D : IsFiniteSet(R) /\ (\A i \in R : g[i] \in Int) /\ Sum(g, R) \in Int
  <2> SUFFICES ASSUME NEW R \in SUBSET D
               PROVE  IsFiniteSet(R) /\ (\A i \in R : g[i] \in Int) /\ Sum(g, R) \in Int
    OBVIOUS
  <2>1. IsFiniteSet(R) /\ \A i \in R : g[i] \in Int
    BY FS_Subset
  <2> QED
    BY <2>1, SumLaws
<1>4. \A l \in T : k[l] \in Int
  <2> SUFFICES ASSUME NEW l \in T PROVE k[l] \in Int
    OBVIOUS
  <2>1. k[l] = Sum(g, Labelled(D, str, {l}))
    BY <1>2 DEF LabelSums
  <2>2. Labelled(D, str, {l}) \in SUBSET D
    BY DEF Labelled
  <2> QED
    BY <1>3, <2>1, <2>2
<1>5. T # {}
  <2>1. ASSUME T = {} PROVE FALSE
    <3>1. Of(T) = {}
      BY <2>1 DEF Labelled
    <3>2. Sum(k, {}) = 0
      BY FS_EmptySet, SumLaws
    <3>3. Sum(g, {}) = 0
      BY FS_EmptySet, SumLaws
    <3> QED
      BY <1>2, <2>1, <3>1, <3>2, <3>3
  <2> QED
    BY <2>1
<1>6. PICK l \in T : TRUE
  BY <1>5
<1>7. Sum(k, T) = k[l] + Sum(k, T \ {l})
  BY <1>2, <1>4, SumLaws
<1>8. Sum(k, T \ {l}) = Sum(g, Of(T \ {l}))
  <2>1. T \ {l} \in SUBSET L /\ T \ {l} \subseteq T /\ T \ {l} # T
    BY <1>2
  <2> QED
    BY <1>1, <2>1
<1>9. k[l] = Sum(g, Of({l}))
  BY <1>2 DEF LabelSums
<1>10. Sum(g, Of({l}) \cup Of(T \ {l}))
        = Sum(g, Of({l})) + Sum(g, Of(T \ {l}))
  <2> DEFINE A == Of({l})
             B == Of(T \ {l})
  <2>1. A \in SUBSET D /\ B \in SUBSET D /\ A \cap B = {}
    BY DEF Labelled
  <2> HIDE DEF A, B
  <2>2. IsFiniteSet(A) /\ IsFiniteSet(B) /\ \A i \in A \cup B : g[i] \in Int
    BY <1>3, <2>1
  <2>3. Sum(g, A \cup B) = Sum(g, A) + Sum(g, B)
    BY <2>1, <2>2, SumDisjoint
  <2> QED
    BY <2>3 DEF A, B
<1>11. Of({l}) \cup Of(T \ {l}) = Of(T)
  BY <1>6 DEF Labelled
<1> QED
  BY <1>2, <1>7, <1>8, <1>9, <1>10, <1>11

----------------------------------------------------------------------------
(* The metrics of any dataset: each is brought to a sum over a set of rows, or *)
(* to the size of one, and these are compared.                                 *)

\* A field holds a value in every row: one that is missing looks like the text None.
Typed(items, rows, field) ==
  \A i \in items : /\ rows[i][field].num \in Int
                   /\ rows[i][field].kind = "missing" => rows[i][field].str = None

\* What is read of a field, by row.
Strs(items, rows, field) == [i \in items |-> rows[i][field].str]

Nums(items, rows, field) == [i \in items |-> rows[i][field].num]

\* Total adds up the numbers.
LEMMA TotalIs ==
  ASSUME NEW items, IsFiniteSet(items), NEW rows, NEW field
  PROVE  Total(items, rows, field)
           = Sum(Nums(items, rows, field), Numeric(items, rows, field))
<1> DEFINE S == Numeric(items, rows, field)
           g == Nums(items, rows, field)
           P(h) == h = [s \in SUBSET S |->
                          IF s = {} THEN 0
                          ELSE rows[CHOOSE x \in s : TRUE][field].num + h[s \ {CHOOSE x \in s : TRUE}]]
<1>1. S \subseteq items /\ IsFiniteSet(S)
  BY FS_Subset DEF Numeric
<1>2. ASSUME NEW s \in SUBSET S, s # {}
      PROVE  g[Pick(s)] = rows[Pick(s)][field].num
  BY <1>1, <1>2, PickIn DEF Nums
<1>3. \A h : P(h) <=> IsSum(h, g, SUBSET S)
  <2> SUFFICES ASSUME NEW h PROVE P(h) <=> IsSum(h, g, SUBSET S)
    OBVIOUS
  <2>1. \A s \in SUBSET S :
          (IF s = {} THEN 0 ELSE g[Pick(s)] + h[s \ {Pick(s)}])
            = IF s = {} THEN 0 ELSE rows[Pick(s)][field].num + h[s \ {Pick(s)}]
    BY <1>2
  <2> HIDE DEF S, g
  <2> QED
    BY <2>1 DEF IsSum, Pick
<1>4. PICK h : IsSum(h, g, SUBSET S)
  BY <1>1, SumExists
<1>5. P(CHOOSE k : P(k))
  <2> HIDE DEF P
  <2> QED
    BY <1>3, <1>4, Zenon
<1>6. Total(items, rows, field) = (CHOOSE k : P(k))[S]
  BY DEF Total, MapThenSumSet, MapThenFoldSet
<1>7. (CHOOSE k : P(k))[S] = Sum(g, S)
  <2> HIDE DEF P, S, g
  <2> QED
    BY <1>1, <1>3, <1>5, SumIs
<1> QED
  BY <1>6, <1>7

\* The size and the sum of a part, as Agree names them.
SizeOf(items, rows, field, label) == Cardinality(Filtered(items, rows, field, {Text(label)}))

SumOf(items, rows, field, other, label) ==
  NumericMetric(Filtered(items, rows, field, {Text(label)}), rows, other, "sum")

\* Adding up over labels, as Agree does it.
OverSizes(items, rows, field, L) ==
  LET size(label) == SizeOf(items, rows, field, label) IN MapThenSumSet(size, L)

OverSums(items, rows, field, other, L) ==
  LET sum(label) == SumOf(items, rows, field, other, label) IN MapThenSumSet(sum, L)

\* Adding up the sizes, as Agree does, is a sum over the labels.
LEMMA OverSizesIs ==
  ASSUME NEW items, NEW rows, NEW field, NEW L, IsFiniteSet(L)
  PROVE  OverSizes(items, rows, field, L) = Sum([l \in L |-> SizeOf(items, rows, field, l)], L)
<1> DEFINE g == [l \in L |-> SizeOf(items, rows, field, l)]
           P(h) == h = [s \in SUBSET L |->
                          IF s = {} THEN 0
                          ELSE SizeOf(items, rows, field, CHOOSE x \in s : TRUE)
                                 + h[s \ {CHOOSE x \in s : TRUE}]]
<1>1. ASSUME NEW s \in SUBSET L, s # {}
      PROVE  g[Pick(s)] = SizeOf(items, rows, field, Pick(s))
  BY <1>1, PickIn
<1>2. \A h : P(h) <=> IsSum(h, g, SUBSET L)
  <2> SUFFICES ASSUME NEW h PROVE P(h) <=> IsSum(h, g, SUBSET L)
    OBVIOUS
  <2>1. \A s \in SUBSET L :
          (IF s = {} THEN 0 ELSE g[Pick(s)] + h[s \ {Pick(s)}])
            = IF s = {} THEN 0 ELSE SizeOf(items, rows, field, Pick(s)) + h[s \ {Pick(s)}]
    BY <1>1
  <2> HIDE DEF g
  <2> QED
    BY <2>1 DEF IsSum, Pick
<1>3. PICK h : IsSum(h, g, SUBSET L)
  BY SumExists
<1>4. P(CHOOSE k : P(k))
  <2> HIDE DEF P
  <2> QED
    BY <1>2, <1>3, Zenon
<1>5. OverSizes(items, rows, field, L) = (CHOOSE k : P(k))[L]
  BY DEF OverSizes, MapThenSumSet, MapThenFoldSet
<1>6. (CHOOSE k : P(k))[L] = Sum(g, L)
  <2> HIDE DEF P, g
  <2> QED
    BY <1>2, <1>4, SumIs
<1> QED
  BY <1>5, <1>6

\* And so is adding up the sums.
LEMMA OverSumsIs ==
  ASSUME NEW items, NEW rows, NEW field, NEW other, NEW L, IsFiniteSet(L)
  PROVE  OverSums(items, rows, field, other, L)
           = Sum([l \in L |-> SumOf(items, rows, field, other, l)], L)
<1> DEFINE g == [l \in L |-> SumOf(items, rows, field, other, l)]
           P(h) == h = [s \in SUBSET L |->
                          IF s = {} THEN 0
                          ELSE SumOf(items, rows, field, other, CHOOSE x \in s : TRUE)
                                 + h[s \ {CHOOSE x \in s : TRUE}]]
<1>1. ASSUME NEW s \in SUBSET L, s # {}
      PROVE  g[Pick(s)] = SumOf(items, rows, field, other, Pick(s))
  BY <1>1, PickIn
<1>2. \A h : P(h) <=> IsSum(h, g, SUBSET L)
  <2> SUFFICES ASSUME NEW h PROVE P(h) <=> IsSum(h, g, SUBSET L)
    OBVIOUS
  <2>1. \A s \in SUBSET L :
          (IF s = {} THEN 0 ELSE g[Pick(s)] + h[s \ {Pick(s)}])
            = IF s = {} THEN 0 ELSE SumOf(items, rows, field, other, Pick(s)) + h[s \ {Pick(s)}]
    BY <1>1
  <2> HIDE DEF g
  <2> QED
    BY <2>1 DEF IsSum, Pick
<1>3. PICK h : IsSum(h, g, SUBSET L)
  BY SumExists
<1>4. P(CHOOSE k : P(k))
  <2> HIDE DEF P
  <2> QED
    BY <1>2, <1>3, Zenon
<1>5. OverSums(items, rows, field, other, L) = (CHOOSE k : P(k))[L]
  BY DEF OverSums, MapThenSumSet, MapThenFoldSet
<1>6. (CHOOSE k : P(k))[L] = Sum(g, L)
  <2> HIDE DEF P, g
  <2> QED
    BY <1>2, <1>4, SumIs
<1> QED
  BY <1>5, <1>6

\* A filter for a text finds what looks like it.
LEMMA PartIs ==
  ASSUME NEW items, NEW rows, NEW field, NEW label
  PROVE  Filtered(items, rows, field, {Text(label)}) = {i \in items : rows[i][field].str = label}
BY DEF Filtered, Matching, Text

\* Finitely many rows have finitely many labels.
LEMMA LabelsFinite ==
  ASSUME NEW items, IsFiniteSet(items), NEW rows, NEW field
  PROVE  IsFiniteSet(Labels(items, rows, field) \cup {None})
<1> DEFINE H == Has(items, rows, field)
           f == [i \in H |-> rows[i][field].str]
<1>1. IsFiniteSet(H)
  BY FS_Subset DEF Has
<1>2. f \in Surjection(H, Labels(items, rows, field))
  BY DEF Surjection, Labels
<1>3. IsFiniteSet(Labels(items, rows, field))
  BY <1>1, <1>2, FS_Surjection
<1> QED
  BY <1>3, FS_AddElement

\* Every row falls under a label or has no value.
LEMMA LabelsCover ==
  ASSUME NEW items, NEW rows, NEW field, Typed(items, rows, field), NEW i \in items
  PROVE  rows[i][field].str \in Labels(items, rows, field) \cup {None}
<1>1. CASE rows[i][field].kind = "missing"
  BY <1>1 DEF Typed
<1>2. CASE rows[i][field].kind # "missing"
  BY <1>2 DEF Labels, Has
<1> QED
  BY <1>1, <1>2

\* The filters for all labels find each row once.
LEMMA SizesAddUp ==
  ASSUME NEW items, IsFiniteSet(items), NEW rows, NEW field, Typed(items, rows, field)
  PROVE  OverSizes(items, rows, field, Labels(items, rows, field) \cup {None}) = Cardinality(items)
<1> DEFINE L == Labels(items, rows, field) \cup {None}
           k == [l \in L |-> SizeOf(items, rows, field, l)]
           one == [i \in items |-> 1]
           str == Strs(items, rows, field)
<1>1. IsFiniteSet(L)
  BY LabelsFinite
<1>2. ASSUME NEW l \in L PROVE k[l] = Sum(one, Labelled(items, str, {l}))
  <2> DEFINE A == Labelled(items, str, {l})
  <2>1. A = Filtered(items, rows, field, {Text(l)})
    BY PartIs DEF Strs, Labelled
  <2>2. IsFiniteSet(A) /\ \A i \in A : one[i] = 1
    BY FS_Subset DEF Labelled
  <2>3. k[l] = Cardinality(A)
    BY <2>1 DEF SizeOf
  <2> HIDE DEF A, one, k
  <2>4. Sum(one, A) = Cardinality(A)
    BY <2>2, SumOfOnes
  <2> QED
    BY <2>3, <2>4 DEF A
<1>3. Labelled(items, str, L) = items
  BY LabelsCover DEF Strs, Labelled
<1>4. \A i \in items : one[i] \in Int /\ one[i] = 1
  OBVIOUS
<1> HIDE DEF k, one, str, L
<1>5. Sum(k, L) = Sum(one, Labelled(items, str, L))
  <2>1. \A i \in items : one[i] \in Int
    BY <1>4
  <2>2. LabelSums(k, items, one, str, L)
    BY <1>2 DEF LabelSums
  <2> QED
    BY <1>1, <2>1, <2>2, SumByLabel
<1>6. Sum(one, items) = Cardinality(items)
  BY <1>4, SumOfOnes
<1> QED
  BY <1>1, <1>3, <1>5, <1>6, OverSizesIs DEF k, L

\* A metric's sum is the sum of its numbers, also when there are none.
LEMMA SumMetricIs ==
  ASSUME NEW items, IsFiniteSet(items), NEW rows, NEW other, Typed(items, rows, other)
  PROVE  NumericMetric(items, rows, other, "sum")
           = Sum(Nums(items, rows, other), Numeric(items, rows, other))
<1>1. Total(items, rows, other) = Sum(Nums(items, rows, other), Numeric(items, rows, other))
  BY TotalIs
<1>2. Numeric(items, rows, other) = {} =>
        Sum(Nums(items, rows, other), Numeric(items, rows, other)) = 0
  BY SumLaws, FS_EmptySet
<1> QED
  BY <1>1, <1>2 DEF NumericMetric

\* The sums over all labels' filters add up to the sum over all rows.
LEMMA SumsAddUp ==
  ASSUME NEW items, IsFiniteSet(items), NEW rows, NEW field, NEW other,
         Typed(items, rows, field), Typed(items, rows, other)
  PROVE  OverSums(items, rows, field, other, Labels(items, rows, field) \cup {None})
           = NumericMetric(items, rows, other, "sum")
<1> DEFINE L == Labels(items, rows, field) \cup {None}
           D == Numeric(items, rows, other)
           g == Nums(items, rows, other)
           k == [l \in L |-> SumOf(items, rows, field, other, l)]
           str == Strs(items, rows, field)
<1>1. IsFiniteSet(L)
  BY LabelsFinite
<1>2. D \subseteq items /\ IsFiniteSet(D) /\ \A i \in D : g[i] \in Int
  BY FS_Subset DEF Numeric, Nums, Strs, Typed
<1>3. ASSUME NEW l \in L PROVE k[l] = Sum(g, Labelled(D, str, {l}))
  <2> DEFINE A == {i \in items : rows[i][field].str = l}
             B == Labelled(D, str, {l})
  <2>1. A \subseteq items /\ IsFiniteSet(A) /\ Typed(A, rows, other)
    BY FS_Subset DEF Typed
  <2>2. B = Numeric(A, rows, other)
    BY DEF Numeric, Nums, Strs, Labelled
  <2>3. k[l] = NumericMetric(A, rows, other, "sum")
    BY PartIs DEF SumOf
  <2>4. NumericMetric(A, rows, other, "sum") = Sum(Nums(A, rows, other), B)
    <3> HIDE DEF A, B
    <3> QED
      BY <2>1, <2>2, SumMetricIs
  <2>5. IsFiniteSet(B) /\ \A i \in B : g[i] \in Int /\ Nums(A, rows, other)[i] = g[i]
    <3>1. B \subseteq D /\ \A i \in B : i \in A /\ i \in items
      BY <1>2 DEF Nums, Strs, Labelled
    <3>2. IsFiniteSet(B)
      BY <1>2, <3>1, FS_Subset
    <3> QED
      BY <1>2, <3>1, <3>2 DEF Nums
  <2>6. Sum(Nums(A, rows, other), B) = Sum(g, B)
    <3> HIDE DEF A, B, g
    <3> QED
      BY <2>5, SumSame
  <2> QED
    BY <2>3, <2>4, <2>6
<1>4. Labelled(D, str, L) = D
  BY <1>2, LabelsCover DEF Strs, Labelled
<1>5. Sum(g, D) = NumericMetric(items, rows, other, "sum")
  BY SumMetricIs
<1> HIDE DEF k, str, L, g, D
<1>6. Sum(k, L) = Sum(g, Labelled(D, str, L))
  <2>1. IsFiniteSet(D) /\ \A i \in D : g[i] \in Int
    BY <1>2
  <2>2. LabelSums(k, D, g, str, L)
    BY <1>3 DEF LabelSums
  <2> QED
    BY <1>1, <2>1, <2>2, SumByLabel
<1> QED
  BY <1>1, <1>4, <1>5, <1>6, OverSumsIs DEF k, L

\* A group is what counting its label, or filtering for it, finds.
LEMMA GroupIsCount ==
  ASSUME NEW items, NEW rows, NEW field, Typed(items, rows, field),
         NEW i \in Has(items, rows, field), rows[i][field].str # None
  PROVE  LET l == rows[i][field].str
         IN  /\ GroupBy(items, rows, field)[l] = CountWhere(items, rows, field, rows[i][field])
             /\ GroupBy(items, rows, field)[l] = SizeOf(items, rows, field, l)
<1> DEFINE l == rows[i][field].str
           A == {q \in items : rows[q][field].str = l}
<1>1. {q \in Has(items, rows, field) : rows[q][field].str = l} = A
  BY DEF Has, Typed
<1>2. GroupBy(items, rows, field)[l] = Cardinality(A)
  BY <1>1 DEF GroupBy, Labels
<1>3. Matching(items, rows, field, rows[i][field]) = A
  BY DEF Matching
<1>4. Filtered(items, rows, field, {Text(l)}) = A
  BY PartIs
<1> QED
  BY <1>2, <1>3, <1>4 DEF CountWhere, SizeOf

\* A group is no larger than the dataset, which is then not empty.
LEMMA GroupWithin ==
  ASSUME NEW items, IsFiniteSet(items), NEW rows, NEW field,
         NEW l \in Labels(items, rows, field)
  PROVE  /\ GroupBy(items, rows, field)[l] \in Nat
         /\ Cardinality(items) \in Nat \ {0}
         /\ GroupBy(items, rows, field)[l] <= Cardinality(items)
<1> DEFINE A == {i \in Has(items, rows, field) : rows[i][field].str = l}
<1>1. A \subseteq items /\ items # {}
  BY DEF Has, Labels
<1>2. GroupBy(items, rows, field)[l] = Cardinality(A)
  BY DEF GroupBy
<1> HIDE DEF A
<1>3. Cardinality(A) \in Nat /\ Cardinality(items) \in Nat /\ Cardinality(A) <= Cardinality(items)
  BY <1>1, FS_Subset, FS_CardinalityType
<1>4. Cardinality(items) # 0
  BY <1>1, FS_EmptySet
<1> QED
  BY <1>2, <1>3, <1>4

\* A share of the whole is a number and at most one hundred.
LEMMA ShareIsBounded ==
  ASSUME NEW part \in Nat, NEW n \in Nat \ {0}, part <= n
  PROVE  LET share == Percentage([m \in {0, 1} |-> IF m = 0 THEN part ELSE n], 0, 1)
         IN  share.error = "none" /\ share.times <= 100 * share.by
BY DEF Percentage

\* Finitely many integers have a least and a greatest.
Bounded(V) == /\ \E m \in V : \A v \in V : m <= v
              /\ \E m \in V : \A v \in V : v <= m

\* A smallest set without both would have a member to take out and put back.
LEMMA FiniteBounds ==
  ASSUME NEW V, IsFiniteSet(V), V # {}, \A v \in V : v \in Int
  PROVE  Bounded(V)
<1> DEFINE Bad == {T \in SUBSET V : T # {} /\ ~Bounded(T)}
<1> SUFFICES ASSUME Bad # {} PROVE FALSE
  OBVIOUS
<1>1. PICK T \in Bad : \A U \in Bad : U \subseteq T => U = T
  <2>1. Bad \in SUBSET SUBSET V
    OBVIOUS
  <2> HIDE DEF Bad
  <2> QED
    BY <2>1, LeastSubset
<1>2. T \subseteq V /\ T # {} /\ ~Bounded(T)
  BY <1>1
<1>3. PICK x \in T : TRUE
  BY <1>2
<1>4. x \in Int /\ \A v \in T : v \in Int
  BY <1>2
<1>5. T \ {x} = {} \/ Bounded(T \ {x})
  BY <1>1, <1>3
<1>6. CASE T \ {x} = {}
  <2>1. \A v \in T : v = x
    BY <1>6
  <2> QED
    BY <1>2, <1>3, <1>4, <2>1 DEF Bounded
<1>7. CASE Bounded(T \ {x})
  <2>1. PICK m \in T \ {x} : \A v \in T \ {x} : m <= v
    BY <1>7 DEF Bounded
  <2>2. PICK n \in T \ {x} : \A v \in T \ {x} : v <= n
    BY <1>7 DEF Bounded
  <2>3. \E l \in T : \A v \in T : l <= v
    <3>1. m <= x \/ x <= m
      BY <1>4
    <3>2. CASE m <= x
      BY <2>1, <3>2
    <3>3. CASE x <= m
      <4>1. \A v \in T : x <= v
        BY <1>4, <2>1, <3>3
      <4> QED
        BY <4>1
    <3> QED
      BY <3>1, <3>2, <3>3
  <2>4. \E l \in T : \A v \in T : v <= l
    <3>1. n <= x \/ x <= n
      BY <1>4
    <3>2. CASE x <= n
      BY <2>2, <3>2
    <3>3. CASE n <= x
      <4>1. \A v \in T : v <= x
        BY <1>4, <2>2, <3>3
      <4> QED
        BY <4>1
    <3> QED
      BY <3>1, <3>2, <3>3
  <2> QED
    BY <1>2, <2>3, <2>4 DEF Bounded
<1> QED
  BY <1>5, <1>6, <1>7

\* So Min and Max are what their names say.
LEMMA MinMaxAre ==
  ASSUME NEW V, IsFiniteSet(V), V # {}, \A v \in V : v \in Int
  PROVE  /\ Min(V) \in V /\ \A v \in V : Min(V) <= v
         /\ Max(V) \in V /\ \A v \in V : v <= Max(V)
<1>1. \E m \in V : \A v \in V : m <= v
  BY FiniteBounds DEF Bounded
<1>2. \E m \in V : \A v \in V : v <= m
  BY FiniteBounds DEF Bounded
<1>3. Min(V) \in V /\ \A v \in V : Min(V) <= v
  BY <1>1 DEF Min
<1>4. Max(V) \in V /\ \A v \in V : v <= Max(V)
  BY <1>2 DEF Max
<1> QED
  BY <1>3, <1>4

\* What a positive number makes positive is positive.
LEMMA PositiveFactor ==
  ASSUME NEW c \in Nat \ {0}, NEW x \in Int, c * x > 0
  PROVE  x > 0
<1>1. CASE x <= 0
  <2>1. c * x <= 0
    BY <1>1
  <2> QED
    BY <2>1
<1> QED
  BY <1>1

\* The rounded mean of c numbers, in k-ths, between lo and hi that add up to t.
IsMean(average, lo, hi, t, c, k) ==
  /\ lo \in Int /\ hi \in Int /\ t \in Int /\ c \in Nat \ {0} /\ k \in Nat \ {0}
  /\ lo * c <= t /\ t <= hi * c
  /\ average = (20000 * t + k * c) \div (2 * (k * c))

\* It lies less than a ten-thousandth outside.
LEMMA RoundedBetween ==
  ASSUME NEW average, NEW lo, NEW hi, NEW t, NEW c, NEW k, IsMean(average, lo, hi, t, c, k)
  PROVE  10000 * lo - k < k * average /\ k * average < 10000 * hi + k
<1>h. /\ lo \in Int /\ hi \in Int /\ t \in Int /\ c \in Nat \ {0} /\ k \in Nat \ {0}
      /\ lo * c <= t /\ t <= hi * c
      /\ average = (20000 * t + k * c) \div (2 * (k * c))
  BY DEF IsMean
<1> DEFINE d == k * c
           a == (20000 * t + d) \div (2 * d)
           p == k * a
<1>1. d \in Nat \ {0} /\ d = c * k
  BY <1>h
<1>2. a \in Int /\ 20000 * t + d - 2 * d < 2 * (d * a) /\ 2 * (d * a) <= 20000 * t + d
  <2>1. \A e \in Nat \ {0}, x \in Int :
          /\ x \div (2 * e) \in Int
          /\ x - 2 * e < (2 * e) * (x \div (2 * e))
          /\ (2 * e) * (x \div (2 * e)) <= x
    OBVIOUS
  <2> HIDE DEF d
  <2>2. 20000 * t + d \in Int
    BY <1>1, <1>h
  <2>3. a \in Int /\ 20000 * t + d - 2 * d < (2 * d) * a /\ (2 * d) * a <= 20000 * t + d
    <3> DEFINE x == 20000 * t + d
    <3> HIDE DEF x
    <3>1. x \in Int
      BY <2>2 DEF x
    <3>2. a = x \div (2 * d)
      BY DEF x
    <3> HIDE DEF a
    <3>3. a \in Int /\ x - 2 * d < (2 * d) * a /\ (2 * d) * a <= x
      BY <1>1, <2>1, <3>1, <3>2
    <3>4. x = 20000 * t + d
      BY DEF x
    <3> QED
      BY <1>1, <3>1, <3>3, <3>4, <1>h
  <2> HIDE DEF a
  <2>4. (2 * d) * a = 2 * (d * a)
    BY <1>1, <2>3
  <2> QED
    BY <2>3, <2>4
<1>3. p \in Int /\ d * a = c * p
  <2> HIDE DEF a
  <2> QED
    BY <1>2, <1>h
<1> HIDE DEF d, a, p
<1>4. c * lo <= t /\ t <= c * hi /\ c * lo \in Int /\ c * hi \in Int /\ c * p \in Int
  BY <1>3, <1>h
<1>5. 10000 * lo - k < p
  <2>1. c * (2 * p - 20000 * lo + k) = 2 * (c * p) - 20000 * (c * lo) + c * k
    BY <1>3, <1>h
  <2>2. 2 * (c * p) - 20000 * (c * lo) + d > 0
    BY <1>1, <1>2, <1>3, <1>4, <1>h
  <2>3. c * (2 * p - 20000 * lo + k) > 0
    BY <1>1, <2>1, <2>2, <1>h
  <2>4. 2 * p - 20000 * lo + k > 0
    BY <1>3, <2>3, <1>h, PositiveFactor
  <2> QED
    BY <1>3, <2>4, <1>h
<1>6. p < 10000 * hi + k
  <2>1. c * (20000 * hi + 2 * k - 2 * p) = 20000 * (c * hi) + 2 * (c * k) - 2 * (c * p)
    BY <1>3, <1>h
  <2>2. 20000 * (c * hi) + 2 * d - 2 * (c * p) > 0
    BY <1>1, <1>2, <1>3, <1>4, <1>h
  <2>3. c * (20000 * hi + 2 * k - 2 * p) > 0
    BY <1>1, <2>1, <2>2, <1>h
  <2>4. 20000 * hi + 2 * k - 2 * p > 0
    BY <1>3, <2>3, <1>h, PositiveFactor
  <2> QED
    BY <1>3, <2>4, <1>h
<1> QED
  BY <1>5, <1>6, <1>h DEF p, a, d

\* The rounded average is within a ten-thousandth of the least and the greatest number.
LEMMA AverageBetween ==
  ASSUME NEW items, IsFiniteSet(items), NEW rows, NEW field, Typed(items, rows, field)
  PROVE  LET average == NumericMetric(items, rows, field, "average")
         IN  /\ 10000 * NumericMetric(items, rows, field, "min") - Scale < Scale * average
             /\ Scale * average < 10000 * NumericMetric(items, rows, field, "max") + Scale
<1> USE ScaleAssumption
<1> DEFINE S == Numeric(items, rows, field)
           V == {rows[i][field].num : i \in S}
           g == Nums(items, rows, field)
           c == Cardinality(S)
           t == Sum(g, S)
           lo == Min(V)
           hi == Max(V)
<1>1. CASE S = {}
  BY <1>1 DEF NumericMetric
<1>2. CASE S # {}
  <2>1. S \subseteq items /\ IsFiniteSet(S) /\ \A i \in S : g[i] \in Int
    BY FS_Subset DEF Numeric, Nums, Typed
  <2>2. V # {} /\ (\A v \in V : v \in Int) /\ \A i \in S : g[i] \in V
    BY <1>2, <2>1 DEF Nums
  <2>3. IsFiniteSet(V)
    <3> DEFINE f == [i \in S |-> rows[i][field].num]
    <3>1. f \in Surjection(S, V)
      BY DEF Surjection
    <3> HIDE DEF f, S, V
    <3> QED
      BY <2>1, <3>1, FS_Surjection
  <2>4. c \in Nat \ {0}
    BY <1>2, <2>1, FS_CardinalityType, FS_EmptySet
  <2>5. /\ NumericMetric(items, rows, field, "min") = lo
        /\ NumericMetric(items, rows, field, "max") = hi
        /\ NumericMetric(items, rows, field, "average")
             = (20000 * Total(items, rows, field) + Scale * c) \div (2 * (Scale * c))
    BY <1>2 DEF NumericMetric
  <2>6. Total(items, rows, field) = t
    BY TotalIs
  <2> HIDE DEF V
  <2>7. lo \in Int /\ hi \in Int /\ \A v \in V : lo <= v /\ v <= hi
    BY <2>2, <2>3, MinMaxAre
  <2> HIDE DEF S, g, lo, hi
  <2>8. \A i \in S : g[i] \in Int /\ lo <= g[i] /\ g[i] <= hi
    BY <2>1, <2>2, <2>7
  <2>9. t \in Int
    BY <2>1, SumLaws
  <2>10. lo * c <= t /\ t <= hi * c
    BY <2>1, <2>7, <2>8, SumBounds
  <2> HIDE DEF c, t
  <2> DEFINE a == (20000 * t + Scale * c) \div (2 * (Scale * c))
  <2>11. 10000 * lo - Scale < Scale * a /\ Scale * a < 10000 * hi + Scale
    <3>1. lo \in Int /\ hi \in Int /\ t \in Int /\ c \in Nat \ {0} /\ Scale \in Nat \ {0}
      BY <2>4, <2>7, <2>9
    <3>2. lo * c <= t /\ t <= hi * c
      BY <2>10
    <3>3. a = (20000 * t + Scale * c) \div (2 * (Scale * c))
      OBVIOUS
    <3>4. IsMean(a, lo, hi, t, c, Scale)
      BY <3>1, <3>2, <3>3 DEF IsMean
    <3> HIDE DEF a
    <3> QED
      BY <3>4, RoundedBetween
  <2>12. NumericMetric(items, rows, field, "average") = a
    BY <2>5, <2>6
  <2> HIDE DEF a
  <2> QED
    BY <2>5, <2>11, <2>12
<1> QED
  BY <1>1, <1>2

\* Whatever the rows, and however many, with any texts, ints and floats of any fineness:
\* the ways to ask agree, and the average is rounded by less than a ten-thousandth.
THEOREM AgreeOnAnyRows ==
  ASSUME NEW items, IsFiniteSet(items), NEW rows, NEW field, NEW other,
         Typed(items, rows, field), Typed(items, rows, other)
  PROVE  Agree(items, rows, field, other)
<1> DEFINE groups == GroupBy(items, rows, field)
           L == Labels(items, rows, field)
           n == Cardinality(items)
<1>1. DOMAIN groups = L
  BY DEF GroupBy
<1>2. Distinct(items, rows, field) = Cardinality(L)
  BY DEF Distinct
<1>3. \A i \in Has(items, rows, field) : rows[i][field].str # None =>
        /\ groups[rows[i][field].str] = CountWhere(items, rows, field, rows[i][field])
        /\ groups[rows[i][field].str] = SizeOf(items, rows, field, rows[i][field].str)
  BY GroupIsCount
<1>4. \A l \in L :
        LET share == Percentage([m \in {0, 1} |-> IF m = 0 THEN groups[l] ELSE n], 0, 1)
        IN  share.error = "none" /\ share.times <= 100 * share.by
  <2> SUFFICES ASSUME NEW l \in L
               PROVE  LET share == Percentage([m \in {0, 1} |-> IF m = 0 THEN groups[l] ELSE n], 0, 1)
                      IN  share.error = "none" /\ share.times <= 100 * share.by
    OBVIOUS
  <2>1. groups[l] \in Nat /\ n \in Nat \ {0} /\ groups[l] <= n
    BY GroupWithin
  <2> HIDE DEF groups, n
  <2> QED
    BY <2>1, ShareIsBounded
<1>5. OverSizes(items, rows, field, L \cup {None}) = n
  BY SizesAddUp
<1>6. OverSums(items, rows, field, other, L \cup {None}) = NumericMetric(items, rows, other, "sum")
  BY SumsAddUp
<1>7. /\ 10000 * NumericMetric(items, rows, field, "min") - Scale
           < Scale * NumericMetric(items, rows, field, "average")
      /\ Scale * NumericMetric(items, rows, field, "average")
           < 10000 * NumericMetric(items, rows, field, "max") + Scale
  BY AverageBetween
<1> HIDE DEF groups, L, n
<1> QED
  BY <1>1, <1>2, <1>3, <1>4, <1>5, <1>6, <1>7
  DEF Agree, OverSizes, OverSums, SizeOf, SumOf, MapThenSumSet, MapThenFoldSet, groups, n

\* The metrics of _run_metrics are worked out over a list of dicts, and agree on each that
\* TLC tries, whatever the scale of its floats; AgreeOnAnyRows says so of any rows.
THEOREM MetricsAlwaysAgree == Spec => []MetricsAgree
<1>1. ASSUME NEW data \in [1 .. 3 -> [{"f", "g"} -> Values] \cup {NotARow}]
      PROVE  Agree(Dataset(data), data, "f", "g")
  <2>1. DOMAIN data = 1 .. 3
    OBVIOUS
  <2>2. IsFiniteSet(Dataset(data))
    <3>1. Dataset(data) \subseteq 1 .. 3
      BY <2>1 DEF Dataset
    <3>2. IsFiniteSet(1 .. 3)
      BY 1 \in Int, 3 \in Int, FS_Interval, Zenon
    <3> QED
      BY <3>1, <3>2, FS_Subset
  <2>3. \A i \in Dataset(data) : data[i]["f"] \in Values /\ data[i]["g"] \in Values
    BY DEF Dataset
  <2>4. \A v \in Values : v.num \in Int /\ (v.kind = "missing" => v.str = None)
    BY ScaleAssumption DEF Values, Whole, Float, Text, Missing
  <2>5. Typed(Dataset(data), data, "f") /\ Typed(Dataset(data), data, "g")
    BY <2>3, <2>4 DEF Typed
  <2> QED
    BY <2>2, <2>5, AgreeOnAnyRows
<1>2. MetricsAgree
  BY <1>1 DEF MetricsAgree
<1> QED
  BY <1>2, PTL
=============================================================================
