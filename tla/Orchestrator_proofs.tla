------------------------ MODULE Orchestrator_proofs ------------------------
(***************************************************************************)
(* Proofs about a whole task, for any step names, budgets and bounds:      *)
(* Kahn's peeling decides what PlanDag calls valid, the composition's      *)
(* inductive invariant and what follows from it, and that the composition  *)
(* implements the outer loop that only counts, so that what is proved of   *)
(* that loop holds here.                                                   *)
(***************************************************************************)
EXTENDS Orchestrator, FiniteSetTheorems, TLAPS

\* A non-empty set of naturals has a least member: induction by minimal counterexample.
LEMMA LeastNat ==
  ASSUME NEW T \in SUBSET Nat, T # {}
  PROVE  \E m \in T : \A k \in T : m <= k
<1>1. PICK m \in T : \A k \in T : ~(<<k, m>> \in OpToRel(<, Nat))
  BY NatLessThanWellFounded, WFMin, Zenon
<1>2. \A k \in T : <<k, m>> \in OpToRel(<, Nat) <=> k < m
  BY DEF OpToRel
<1>3. \A k \in T : ~(k < m)
  BY <1>1, <1>2, Zenon
<1> QED
  BY <1>3

----------------------------------------------------------------------------
(* The recursive function of Indegree is defined by its recursion *)

First(p) == [s \in p.steps |-> Cardinality(p.deps[s])]

\* One round of the loop.
Peel(p, g) ==
  LET Ready == {s \in p.steps : g[s] = 0}
  IN  [s \in p.steps |-> IF s \in Ready THEN -1
                         ELSE g[s] - Cardinality(p.deps[s] \cap Ready)]

IsPeeling(p, f, m) == f = [n \in 0 .. m |-> IF n = 0 THEN First(p) ELSE Peel(p, f[n - 1])]

LEMMA PeelingExists ==
  ASSUME NEW p, NEW m \in Nat
  PROVE  \E f : IsPeeling(p, f, m)
<1> DEFINE T == {k \in Nat : ~\E f : IsPeeling(p, f, k)}
<1> SUFFICES ASSUME T # {} PROVE FALSE
  OBVIOUS
<1>1. PICK k \in T : \A j \in T : k <= j
  BY LeastNat
<1>2. CASE k = 0
  <2> DEFINE f == [n \in 0 .. 0 |-> First(p)]
  <2>1. IsPeeling(p, f, 0)
    BY DEF IsPeeling
  <2> QED
    BY <1>1, <1>2, <2>1, Zenon
<1>3. CASE k # 0
  <2>1. k \in Nat /\ k - 1 \in Nat /\ k - 1 \notin T
    BY <1>1, <1>3
  <2>2. PICK g : IsPeeling(p, g, k - 1)
    BY <2>1
  <2> DEFINE f == [n \in 0 .. k |-> IF n = k THEN Peel(p, g[k - 1]) ELSE g[n]]
  <2> HIDE DEF T
  <2>3. \A n \in 0 .. k - 1 : g[n] = IF n = 0 THEN First(p) ELSE Peel(p, g[n - 1])
    BY <2>1, <2>2 DEF IsPeeling
  <2>4. \A n \in 0 .. k : f[n] = IF n = 0 THEN First(p) ELSE Peel(p, f[n - 1])
    <3> SUFFICES ASSUME NEW n \in 0 .. k
                 PROVE  f[n] = IF n = 0 THEN First(p) ELSE Peel(p, f[n - 1])
      OBVIOUS
    <3>1. \A j \in 0 .. k - 1 : j \in 0 .. k /\ j # k /\ f[j] = g[j]
      BY <2>1
    <3>2. CASE n = k
      <4>1. f[n] = Peel(p, g[k - 1]) /\ k - 1 \in 0 .. k - 1
        BY <2>1, <3>2
      <4> QED
        BY <1>3, <3>1, <3>2, <4>1
    <3>3. CASE n # k
      <4>1. n \in 0 .. k - 1 /\ (n # 0 => n - 1 \in 0 .. k - 1)
        BY <2>1, <3>3
      <4> QED
        BY <2>3, <3>1, <4>1
    <3> QED
      BY <3>2, <3>3
  <2>5. IsPeeling(p, f, k)
    BY <2>4 DEF IsPeeling
  <2> QED
    BY <1>1, <2>5 DEF T
<1> QED
  BY <1>2, <1>3

LEMMA IndegreePeels ==
  ASSUME NEW p, IsFiniteSet(p.steps)
  PROVE  IsPeeling(p, Indegree(p), Cardinality(p.steps))
<1>1. Cardinality(p.steps) \in Nat
  BY FS_CardinalityType
<1>2. \E f : IsPeeling(p, f, Cardinality(p.steps))
  BY <1>1, PeelingExists
<1>3. Indegree(p) = CHOOSE f : IsPeeling(p, f, Cardinality(p.steps))
  BY DEF Indegree, IsPeeling, First, Peel
<1> QED
  BY <1>2, <1>3

LEMMA IndegreeRounds ==
  ASSUME NEW p, IsFiniteSet(p.steps)
  PROVE  /\ Indegree(p)[0] = First(p)
         /\ \A n \in Rounds(p) : Indegree(p)[n] = Peel(p, Indegree(p)[n - 1])
<1>1. Cardinality(p.steps) \in Nat
  BY FS_CardinalityType
<1>2. \A n \in 0 .. Cardinality(p.steps) :
        Indegree(p)[n] = IF n = 0 THEN First(p) ELSE Peel(p, Indegree(p)[n - 1])
  BY IndegreePeels, Zenon DEF IsPeeling
<1> QED
  BY <1>1, <1>2 DEF Rounds

----------------------------------------------------------------------------
(* What the groups are *)

\* Round n resolves the steps whose dependencies are resolved, and the counts left
\* are those of the dependencies that are not.
PeeledTo(p, n) ==
  /\ Groups(p)[n] = {s \in p.steps \ Before(p, n) : p.deps[s] \subseteq Before(p, n)}
  /\ \A s \in p.steps : Indegree(p)[n - 1][s] = IF s \in Before(p, n) THEN -1
                          ELSE Cardinality(p.deps[s] \ Before(p, n))
  /\ \A s \in p.steps \cap Before(p, n) : p.deps[s] \subseteq Before(p, n)

FinitePlan(p) ==
  /\ IsFiniteSet(p.steps)
  /\ ReferencesOK(p)

LEMMA DepsFinite ==
  ASSUME NEW p, FinitePlan(p), NEW s \in p.steps
  PROVE  p.deps[s] \subseteq p.steps /\ s \notin p.deps[s] /\ IsFiniteSet(p.deps[s])
<1>1. p.deps[s] \subseteq p.steps /\ s \notin p.deps[s]
  BY DEF FinitePlan, ReferencesOK
<1> QED
  BY <1>1, FS_Subset DEF FinitePlan

LEMMA GroupsIn ==
  ASSUME NEW p, NEW n \in Rounds(p)
  PROVE  Groups(p)[n] = {s \in p.steps : Indegree(p)[n - 1][s] = 0}
BY DEF Groups

LEMMA BeforeNext ==
  ASSUME NEW p, NEW n \in Rounds(p)
  PROVE  Before(p, n + 1) = Before(p, n) \cup Groups(p)[n]
<1>1. n \in Nat /\ 1 .. (n + 1) - 1 = (1 .. n - 1) \cup {n}
  BY DEF Rounds
<1> QED
  BY <1>1 DEF Before

LEMMA BeforeFirst == \A p : Before(p, 1) = {}
BY DEF Before

\* Where a group is given by its counts, the counts decide it.
LEMMA GroupFromCounts ==
  ASSUME NEW p, FinitePlan(p), NEW n \in Rounds(p),
         \A s \in p.steps : Indegree(p)[n - 1][s] = IF s \in Before(p, n) THEN -1
                              ELSE Cardinality(p.deps[s] \ Before(p, n))
  PROVE  Groups(p)[n] = {s \in p.steps \ Before(p, n) : p.deps[s] \subseteq Before(p, n)}
<1>1. \A s \in p.steps : IsFiniteSet(p.deps[s] \ Before(p, n))
  BY DepsFinite, FS_Difference
<1>2. \A s \in p.steps : Cardinality(p.deps[s] \ Before(p, n)) = 0
                            <=> p.deps[s] \ Before(p, n) = {}
  BY <1>1, FS_EmptySet
<1>3. \A s \in p.steps : Indegree(p)[n - 1][s] = 0
                            <=> s \notin Before(p, n) /\ p.deps[s] \subseteq Before(p, n)
  <2> SUFFICES ASSUME NEW s \in p.steps
               PROVE  Indegree(p)[n - 1][s] = 0
                        <=> s \notin Before(p, n) /\ p.deps[s] \subseteq Before(p, n)
    OBVIOUS
  <2>1. Indegree(p)[n - 1][s] = IF s \in Before(p, n) THEN -1
                                ELSE Cardinality(p.deps[s] \ Before(p, n))
    OBVIOUS
  <2>2. p.deps[s] \ Before(p, n) = {} <=> p.deps[s] \subseteq Before(p, n)
    OBVIOUS
  <2>3. CASE s \in Before(p, n)
    BY <2>1, <2>3
  <2>4. CASE s \notin Before(p, n)
    BY <1>2, <2>1, <2>2, <2>4
  <2> QED
    BY <2>3, <2>4
<1> QED
  BY <1>3, GroupsIn

LEMMA FirstRound ==
  ASSUME NEW p, FinitePlan(p), 1 \in Rounds(p)
  PROVE  PeeledTo(p, 1)
<1>1. Before(p, 1) = {}
  BY BeforeFirst
<1>2. Indegree(p)[1 - 1] = First(p)
  BY IndegreeRounds DEF FinitePlan
<1>3. \A s \in p.steps : Indegree(p)[1 - 1][s] = Cardinality(p.deps[s] \ Before(p, 1))
  <2>1. \A s \in p.steps : p.deps[s] \ Before(p, 1) = p.deps[s]
    BY <1>1
  <2> QED
    BY <1>2, <2>1 DEF First
<1> QED
  BY <1>1, <1>3, GroupFromCounts DEF PeeledTo

LEMMA NextRound ==
  ASSUME NEW p, FinitePlan(p), NEW n \in Rounds(p), n + 1 \in Rounds(p), PeeledTo(p, n)
  PROVE  PeeledTo(p, n + 1)
<1> DEFINE Ready == Groups(p)[n]
           B == Before(p, n)
           C == Before(p, n + 1)
<1>1. C = B \cup Ready
  BY BeforeNext
<1>2. Ready = {s \in p.steps \ B : p.deps[s] \subseteq B}
  BY DEF PeeledTo
<1>3. Ready = {s \in p.steps : Indegree(p)[n - 1][s] = 0}
  BY GroupsIn
<1>4. Indegree(p)[n] = Peel(p, Indegree(p)[n - 1])
  BY IndegreeRounds DEF FinitePlan
<1>5. \A s \in p.steps : Indegree(p)[n][s] =
        IF s \in Ready THEN -1
        ELSE Indegree(p)[n - 1][s] - Cardinality(p.deps[s] \cap Ready)
  BY <1>3, <1>4 DEF Peel
<1>6. \A s \in p.steps : Indegree(p)[n - 1][s] = IF s \in B THEN -1
                           ELSE Cardinality(p.deps[s] \ B)
  BY DEF PeeledTo
<1>7. \A s \in p.steps \cap B : p.deps[s] \subseteq B
  BY DEF PeeledTo
<1> HIDE DEF B, C, Ready
<1>8. ASSUME NEW s \in p.steps
      PROVE  Indegree(p)[n][s] = IF s \in C THEN -1 ELSE Cardinality(p.deps[s] \ C)
  <2>1. CASE s \in Ready
    BY <1>1, <1>5, <2>1
  <2>2. CASE s \in B /\ s \notin Ready
    <3>1. p.deps[s] \cap Ready = {}
      BY <1>2, <1>7, <2>2
    <3>2. Cardinality(p.deps[s] \cap Ready) = 0
      BY <3>1, FS_EmptySet
    <3>3. Indegree(p)[n][s] = -1 - Cardinality(p.deps[s] \cap Ready)
      BY <1>5, <1>6, <2>2
    <3> QED
      BY <1>1, <2>2, <3>2, <3>3
  <2>3. CASE s \notin B /\ s \notin Ready
    <3> DEFINE D == p.deps[s] \ B
    <3>1. IsFiniteSet(D) /\ Cardinality(D) \in Nat
      BY DepsFinite, FS_Difference, FS_CardinalityType
    <3>2. D \ Ready = p.deps[s] \ C /\ D \cap Ready = p.deps[s] \cap Ready
      BY <1>1, <1>2
    <3>3. Cardinality(D \ Ready) = Cardinality(D) - Cardinality(D \cap Ready)
      BY <3>1, FS_Difference
    <3>4. Indegree(p)[n][s] = Cardinality(D) - Cardinality(p.deps[s] \cap Ready)
      BY <1>5, <1>6, <2>3
    <3> QED
      BY <1>1, <2>3, <3>2, <3>3, <3>4
  <2> QED
    BY <2>1, <2>2, <2>3
<1>9. \A s \in p.steps \cap C : p.deps[s] \subseteq C
  BY <1>1, <1>2, <1>7
<1>10. (n + 1) - 1 = n
  BY DEF Rounds
<1>11. \A s \in p.steps : Indegree(p)[(n + 1) - 1][s] =
         IF s \in Before(p, n + 1) THEN -1 ELSE Cardinality(p.deps[s] \ Before(p, n + 1))
  BY <1>8, <1>10 DEF C
<1>12. Groups(p)[n + 1] = {s \in p.steps \ Before(p, n + 1) : p.deps[s] \subseteq Before(p, n + 1)}
  BY <1>11, GroupFromCounts
<1> QED
  BY <1>9, <1>11, <1>12 DEF PeeledTo, C

LEMMA AllPeeled ==
  ASSUME NEW p, FinitePlan(p)
  PROVE  \A n \in Rounds(p) : PeeledTo(p, n)
<1> DEFINE T == {n \in Rounds(p) : ~PeeledTo(p, n)}
<1> SUFFICES ASSUME T # {} PROVE FALSE
  OBVIOUS
<1>1. Cardinality(p.steps) \in Nat
  BY FS_CardinalityType DEF FinitePlan
<1>2. T \in SUBSET Nat
  BY DEF Rounds
<1>3. PICK m \in T : \A k \in T : m <= k
  BY <1>2, LeastNat
<1>4. m # 1
  BY <1>3, FirstRound
<1>5. m - 1 \in Rounds(p) /\ (m - 1) + 1 = m /\ ~(m <= m - 1)
  BY <1>1, <1>3, <1>4 DEF Rounds
<1>6. PeeledTo(p, m - 1)
  BY <1>3, <1>5
<1> QED
  BY <1>3, <1>5, <1>6, NextRound

----------------------------------------------------------------------------
(* Every step is resolved iff no steps wait on each other *)

LEMMA PeelingSound ==
  ASSUME NEW p, FinitePlan(p), DerivesGroups(p)
  PROVE  Acyclic(p)
<1> SUFFICES ASSUME NEW X \in SUBSET p.steps, X # {},
                    \A s \in X : p.deps[s] \cap X # {}
             PROVE  FALSE
  BY DEF Acyclic
<1> DEFINE T == {n \in Rounds(p) : Groups(p)[n] \cap X # {}}
<1>1. T # {}
  BY DEF DerivesGroups
<1>2. T \in SUBSET Nat
  BY DEF Rounds
<1>3. PICK m \in T : \A k \in T : m <= k
  BY <1>1, <1>2, LeastNat
<1>4. PICK s \in Groups(p)[m] : s \in X
  BY <1>3
<1>5. p.deps[s] \subseteq Before(p, m)
  BY <1>3, <1>4, AllPeeled DEF PeeledTo
<1>6. PICK d \in X : d \in Before(p, m)
  BY <1>4, <1>5
<1>7. PICK k \in 1 .. m - 1 : d \in Groups(p)[k]
  BY <1>6 DEF Before
<1>8. k \in Rounds(p) /\ ~(m <= k)
  BY <1>3, FS_CardinalityType DEF Rounds, FinitePlan
<1> QED
  BY <1>3, <1>6, <1>7, <1>8

\* As long as steps are left, each round resolves one of them.
LEMMA RoundResolves ==
  ASSUME NEW p, FinitePlan(p), Acyclic(p), NEW n \in Rounds(p), ~(p.steps \subseteq Before(p, n))
  PROVE  \E s \in Groups(p)[n] : s \in p.steps \ Before(p, n)
<1> DEFINE X == p.steps \ Before(p, n)
<1>1. PICK s \in X : p.deps[s] \cap X = {}
  BY DEF Acyclic
<1>2. p.deps[s] \subseteq Before(p, n)
  BY <1>1, DepsFinite
<1> QED
  BY <1>1, <1>2, AllPeeled DEF PeeledTo

LEMMA BeforeIn ==
  ASSUME NEW p, FinitePlan(p), NEW n \in 1 .. Cardinality(p.steps) + 1
  PROVE  Before(p, n) \subseteq p.steps
<1> SUFFICES ASSUME NEW k \in 1 .. n - 1 PROVE Groups(p)[k] \subseteq p.steps
  BY DEF Before
<1>1. k \in Rounds(p)
  BY FS_CardinalityType DEF Rounds, FinitePlan
<1> QED
  BY <1>1, GroupsIn

LEMMA PeelingComplete ==
  ASSUME NEW p, FinitePlan(p), Acyclic(p)
  PROVE  DerivesGroups(p)
<1> DEFINE N == Cardinality(p.steps)
           T == {n \in 1 .. N + 1 : ~(p.steps \subseteq Before(p, n))
                                      /\ Cardinality(Before(p, n)) < n - 1}
<1>1. N \in Nat
  BY FS_CardinalityType DEF FinitePlan
<1>2. Before(p, N + 1) = UNION {Groups(p)[n] : n \in Rounds(p)}
  BY <1>1 DEF Before, Rounds
<1>3. Before(p, N + 1) \subseteq p.steps
  BY <1>1, BeforeIn
<1>4. T = {}
  <2> SUFFICES ASSUME T # {} PROVE FALSE
    OBVIOUS
  <2>1. T \in SUBSET Nat
    OBVIOUS
  <2>2. PICK m \in T : \A k \in T : m <= k
    BY <2>1, LeastNat
  <2>3. m # 1
    <3>1. Cardinality(Before(p, 1)) = 0
      BY BeforeFirst, FS_EmptySet
    <3>2. ~(Cardinality(Before(p, 1)) < 1 - 1)
      BY <3>1
    <3> QED
      BY <2>2, <3>2
  <2>4. m \in Nat /\ m - 1 \in Rounds(p) /\ (m - 1) + 1 = m /\ m - 1 \in 1 .. N + 1 /\ ~(m <= m - 1)
    BY <1>1, <2>2, <2>3 DEF Rounds
  <2>5. Before(p, m) = Before(p, m - 1) \cup Groups(p)[m - 1]
    BY <2>4, BeforeNext
  <2>6. ~(p.steps \subseteq Before(p, m - 1))
    BY <2>2, <2>5
  <2>7. PICK s \in Groups(p)[m - 1] : s \in p.steps \ Before(p, m - 1)
    BY <2>4, <2>6, RoundResolves
  <2>8. /\ IsFiniteSet(Before(p, m - 1)) /\ IsFiniteSet(Before(p, m))
        /\ Cardinality(Before(p, m - 1)) \in Nat /\ Cardinality(Before(p, m)) \in Nat
    BY <1>1, <2>2, <2>4, BeforeIn, FS_Subset, FS_CardinalityType DEF FinitePlan
  <2>9. Cardinality(Before(p, m - 1) \cup {s}) = Cardinality(Before(p, m - 1)) + 1
    BY <2>7, <2>8, FS_AddElement
  <2>10. Before(p, m - 1) \cup {s} \subseteq Before(p, m)
    BY <2>5, <2>7
  <2>11. Cardinality(Before(p, m - 1) \cup {s}) <= Cardinality(Before(p, m))
    BY <2>8, <2>10, FS_Subset
  <2>12. Cardinality(Before(p, m - 1)) < (m - 1) - 1
    BY <2>2, <2>4, <2>8, <2>9, <2>11
  <2> QED
    BY <2>2, <2>4, <2>6, <2>12
<1>5. CASE p.steps \subseteq Before(p, N + 1)
  BY <1>2, <1>3, <1>5 DEF DerivesGroups
<1>6. CASE ~(p.steps \subseteq Before(p, N + 1))
  <2>1. N + 1 \in 1 .. N + 1 /\ (N + 1) - 1 = N
    BY <1>1
  <2>2. ~(Cardinality(Before(p, N + 1)) < N)
    BY <1>4, <1>6, <2>1
  <2>3. /\ Cardinality(Before(p, N + 1)) <= N
        /\ Cardinality(Before(p, N + 1)) \in Nat
        /\ N = Cardinality(Before(p, N + 1)) => p.steps = Before(p, N + 1)
    BY <1>3, FS_Subset, FS_CardinalityType DEF FinitePlan
  <2> QED
    BY <1>1, <1>6, <2>2, <2>3
<1> QED
  BY <1>5, <1>6

\* Kahn's algorithm accepts a finite plan iff no steps wait on each other, and puts
\* each step into the first group after all of its dependencies.
THEOREM KahnCorrect ==
  ASSUME NEW p, FinitePlan(p)
  PROVE  /\ DerivesGroups(p) <=> Acyclic(p)
         /\ \A n \in Rounds(p) :
              Groups(p)[n] = {s \in p.steps \ Before(p, n) : p.deps[s] \subseteq Before(p, n)}
BY PeelingSound, PeelingComplete, AllPeeled DEF PeeledTo

LEMMA IdsFinite == IsFiniteSet(PlannerIds) /\ IsFiniteSet(StepId)
<1>1. IsFiniteSet(Drafted)
  <2> DEFINE f == [n \in Names |-> <<n>>]
  <2>1. f \in Surjection(Names, Drafted)
    BY DEF Surjection, Drafted
  <2> QED
    BY <2>1, FS_Surjection, NamesAssumption
<1>2. IsFiniteSet(Guessed)
  <2> DEFINE f == [n \in Squatted |-> <<1, n>>]
  <2>1. f \in Surjection(Squatted, Guessed)
    BY DEF Surjection, Guessed
  <2> QED
    BY <2>1, FS_Surjection, NamesAssumption
<1>3. IsFiniteSet(PlannerIds)
  BY <1>1, <1>2, FS_Union DEF PlannerIds
<1>4. IsFiniteSet(ReplanIds)
  <2> DEFINE P == (1 .. MaxReplans) \X Drafted
             f == [x \in P |-> Prefixed(x[1], x[2])]
  <2>1. IsFiniteSet(1 .. MaxReplans)
    BY FS_Interval, BudgetAssumption
  <2>2. IsFiniteSet(P)
    BY <1>1, <2>1, FS_Product
  <2>3. ASSUME NEW x \in P PROVE f[x] \in ReplanIds
    BY DEF ReplanIds
  <2>4. ASSUME NEW t \in ReplanIds PROVE \E x \in P : f[x] = t
    <3>1. PICK r \in 1 .. MaxReplans, d \in Drafted : t = Prefixed(r, d)
      BY <2>4 DEF ReplanIds
    <3> DEFINE x == <<r, d>>
    <3>2. x \in P /\ x[1] = r /\ x[2] = d
      OBVIOUS
    <3> HIDE DEF x, P
    <3>3. f[x] = Prefixed(r, d)
      BY <3>2
    <3> QED
      BY <3>1, <3>2, <3>3
  <2> HIDE DEF P
  <2>5. f \in [P -> ReplanIds]
    BY <2>3
  <2> HIDE DEF f
  <2>6. f \in Surjection(P, ReplanIds)
    BY <2>4, <2>5 DEF Surjection
  <2> QED
    BY <2>2, <2>6, FS_Surjection
<1> QED
  BY <1>3, <1>4, FS_Union DEF StepId

LEMMA StepsFinite ==
  ASSUME NEW S \in SUBSET StepId
  PROVE  IsFiniteSet(S) /\ Cardinality(S) \in Nat
BY IdsFinite, FS_Subset, FS_CardinalityType

\* What the validator lets through is a valid plan, and it lets every one through.
LEMMA ValidatesIsValid ==
  ASSUME NEW p, IsFiniteSet(p.steps)
  PROVE  Validates(p) <=> ValidPlan(p)
BY KahnCorrect DEF Validates, ValidPlan, FinitePlan

\* For any names and any number of steps, the validator's peeling finds every
\* cycle, and each step is put into the first group after its dependencies.
THEOREM KahnAlwaysDecides == Spec => []KahnDecides
<1>1. KahnDecides
  <2> SUFFICES ASSUME NEW S \in SUBSET PlannerIds, NEW D \in [S -> SUBSET S],
                      ReferencesOK([steps |-> S, deps |-> D, optional |-> {}])
               PROVE  LET p == [steps |-> S, deps |-> D, optional |-> {}]
                      IN  /\ DerivesGroups(p) <=> Acyclic(p)
                          /\ Acyclic(p) => \A n \in Rounds(p) :
                               Groups(p)[n] = {s \in S \ Before(p, n) : D[s] \subseteq Before(p, n)}
    BY DEF KahnDecides
  <2> DEFINE p == [steps |-> S, deps |-> D, optional |-> {}]
  <2>1. p.steps = S /\ p.deps = D
    OBVIOUS
  <2>2. FinitePlan(p)
    BY <2>1, IdsFinite, FS_Subset DEF FinitePlan
  <2> HIDE DEF p
  <2>3. /\ DerivesGroups(p) <=> Acyclic(p)
        /\ \A n \in Rounds(p) : Groups(p)[n] = {s \in S \ Before(p, n) : D[s] \subseteq Before(p, n)}
    BY <2>1, <2>2, KahnCorrect
  <2> QED
    BY <2>3 DEF p
<1> QED
  BY <1>1, PTL

----------------------------------------------------------------------------
(* The inductive invariant *)

After == {"evaluate", "deciding", "synthesize", "synthesizing", "judge", "judging", "end"}

StateOK ==
  /\ plan.steps # {} => IsPlan(plan) /\ ValidPlan(plan)
  /\ status \in [StepId -> StepStatus \cup {"none"}]
  /\ result \in [StepId -> {"none", "completed", "completed_degraded", "failed"}]
  /\ ended \subseteq StepId
  /\ replans \in Nat

\* Every merge keeps the completed steps, and there are none before the first plan.
KeptInv ==
  /\ Completed \subseteq plan.steps
  /\ at \in {"plan", "planning"} => plan.steps = {}

\* A step's status and its result go together, over all rounds.
RecordInv ==
  \A s \in StepId :
    /\ status[s] = "completed" <=> result[s] = "completed"
    /\ status[s] = "failed" <=> result[s] \in {"completed_degraded", "failed"}
    /\ s \in plan.steps => status[s] # "none"
    /\ status[s] = "running" => at = "executing"

GroundInv ==
  \A s \in plan.steps : status[s] \in {"running", "completed"} =>
    \A d \in plan.deps[s] : status[d] = "completed"

\* A step failed: it has its own result, and no other makes up for it.
SomeFailure == \E f \in plan.steps : result[f] = "failed"

(* The re-plan signal is raised by a failure and gone after the evaluation. *)
(* Steps that an execution left pending were left behind by a failure.      *)
SignalInv ==
  /\ replan => at \in {"executing", "evaluate", "deciding", "crashed"}
  /\ replan => SomeFailure
  /\ at \in After => (\A s \in plan.steps : status[s] # "pending") \/ SomeFailure
  /\ at = "deciding" => replans < MaxReplans

OInv == StateOK /\ KeptInv /\ RecordInv /\ GroundInv /\ SignalInv

LEMMA PlanIn ==
  ASSUME StateOK
  PROVE  /\ plan.steps \subseteq StepId /\ IsFiniteSet(plan.steps)
         /\ \A s \in plan.steps : plan.deps[s] \subseteq plan.steps
<1>1. plan.steps \subseteq StepId
  BY DEF StateOK, IsPlan
<1>2. \A s \in plan.steps : plan.deps[s] \subseteq plan.steps
  BY DEF StateOK, ValidPlan, ReferencesOK
<1> QED
  BY <1>1, <1>2, StepsFinite

LEMMA InitOInv == Init => OInv
<1> SUFFICES ASSUME Init PROVE OInv
  OBVIOUS
<1>1. plan.steps = {}
  BY DEF Init
<1>2. /\ status = [s \in StepId |-> "none"] /\ result = [s \in StepId |-> "none"]
      /\ ended = {}
  BY DEF Init
<1>3. at = "plan" /\ replan = FALSE /\ replans = 0
  BY DEF Init, Outer!Init
<1>4. Completed = {}
  BY <1>2 DEF Completed
<1> QED
  BY <1>1, <1>2, <1>3, <1>4
  DEF OInv, StateOK, KeptInv, RecordInv, GroundInv, SignalInv, After

----------------------------------------------------------------------------
(* The nodes that leave the plan and its steps alone *)

\* How the run may move without touching a step.
MovesOn ==
  /\ UNCHANGED <<plan, status, result, replans>>
  /\ ended' \subseteq ended
  /\ at = "executing" => at' = "executing" \/ \A s \in StepId : status[s] # "running"
  /\ at' \in {"plan", "planning"} => at \in {"plan", "planning"}
  /\ at' \in After => at \in After \/ plan.steps = {}
                        \/ (\A s \in plan.steps : status[s] # "pending") \/ SomeFailure
  /\ at' = "deciding" => replans < MaxReplans
  /\ replan' => replan /\ at' \in {"executing", "evaluate", "deciding", "crashed"}

LEMMA MovesOnOInv ==
  ASSUME OInv, MovesOn
  PROVE  OInv'
<1>1. StateOK'
  BY DEF OInv, MovesOn, StateOK
<1>2. KeptInv'
  BY DEF OInv, MovesOn, KeptInv, Completed
<1>3. RecordInv'
  BY DEF OInv, MovesOn, RecordInv
<1>4. GroundInv'
  BY DEF OInv, MovesOn, GroundInv
<1>5. SignalInv'
  BY DEF OInv, MovesOn, SignalInv, SomeFailure
<1> QED
  BY <1>1, <1>2, <1>3, <1>4, <1>5 DEF OInv

LEMMA CountedMovesOn ==
  ASSUME OInv, CountedNodes
  PROVE  MovesOn
<1> USE DEF OInv, SignalInv, MovesOn, After, Outer!Goto, Outer!Await, stepVars,
            Outer!planVars, Outer!endVars, Outer!roundVars
<1>1. UNCHANGED <<plan, status, result, ended>>
  BY DEF CountedNodes
<1>2. CASE Outer!EnterPlan \/ Outer!EnterExecute
  BY <1>1, <1>2 DEF Outer!EnterPlan, Outer!EnterExecute
<1>3. CASE Outer!EvaluatePasses \/ Outer!EvaluateExhausted \/ Outer!EvaluateConsults
  BY <1>1, <1>3 DEF Outer!EvaluatePasses, Outer!EvaluateExhausted, Outer!EvaluateConsults
<1>4. CASE Outer!DecideContinue \/ Outer!Crashing \/ Outer!RequestCancel
  BY <1>1, <1>4 DEF Outer!DecideContinue, Outer!Crashing, Outer!UncaughtModelError,
     Outer!UnparsedAnswer, Outer!RequestCancel
<1>5. CASE Outer!Synthesizing
  BY <1>1, <1>5 DEF Outer!Synthesizing, Outer!SynthesizeNothing, Outer!EnterSynthesize,
     Outer!SynthesizeOk, Outer!SynthesizeFails
<1>6. CASE Outer!JudgeSkipped \/ Outer!EnterJudge \/ Outer!VerdictAccept \/ Outer!AcceptAnyway
             \/ Outer!VerdictResynthesize
  BY <1>1, <1>6 DEF Outer!JudgeSkipped, Outer!EnterJudge, Outer!VerdictAccept,
     Outer!AcceptAnyway, Outer!VerdictResynthesize, Outer!Accept
<1> QED
  BY <1>2, <1>3, <1>4, <1>5, <1>6 DEF CountedNodes

LEMMA RefuseDraftMovesOn ==
  ASSUME OInv, RefuseDraft
  PROVE  MovesOn
<1>1. UNCHANGED <<plan, status, result, ended>> /\ at = "planning" /\ plan.steps = {}
  BY DEF RefuseDraft, stepVars, OInv, KeptInv
<1> QED
  BY <1>1 DEF RefuseDraft, OInv, SignalInv, MovesOn, After, Outer!Goto, Outer!RetryPlan,
     Outer!GiveUpPlanning, Outer!endVars, Outer!roundVars

LEMMA ExecuteReturnsMovesOn ==
  ASSUME OInv, ExecuteReturns
  PROVE  MovesOn
<1>1. UNCHANGED <<plan, status, result>> /\ ended' = {} /\ at = "executing"
  BY DEF ExecuteReturns
<1>2. \A s \in StepId : status[s] # "running"
  BY DEF ExecuteReturns, Returns, Round!Running
<1>3. (\A s \in plan.steps : status[s] # "pending") \/ SomeFailure
  BY DEF ExecuteReturns, Returns, OInv, SignalInv
<1> QED
  BY <1>1, <1>2, <1>3 DEF ExecuteReturns, OInv, SignalInv, MovesOn, After, Outer!Goto,
     Outer!ExecuteReturns, Outer!endVars, Outer!roundVars, Outer!planVars

----------------------------------------------------------------------------
(* Steps of an execution *)

\* A step moves from one status to another that is not "completed" nor "failed",
\* and leaves no result.
StepMoves(s, new) ==
  /\ at = "executing"
  /\ UNCHANGED <<at, plan, result, ended, replan, replans>>
  /\ status[s] \in {"pending", "running"}
  /\ status' = [status EXCEPT ![s] = new]
  /\ new \in {"running", "skipped", "cancelled"}
  /\ new = "running" => \A d \in plan.deps[s] : status[d] = "completed"

LEMMA StepMovesOInv ==
  ASSUME OInv, NEW s \in plan.steps, NEW new, StepMoves(s, new)
  PROVE  OInv'
<1>1. plan.steps \subseteq StepId /\ \A t \in plan.steps : plan.deps[t] \subseteq plan.steps
  BY PlanIn DEF OInv
<1>2. /\ status'[s] = new
      /\ \A t \in StepId \ {s} : status'[t] = status[t]
      /\ status' \in [StepId -> StepStatus \cup {"none"}]
  BY <1>1 DEF OInv, StateOK, StepMoves, StepStatus
<1>3. StateOK'
  BY <1>2 DEF OInv, StateOK, StepMoves
<1>4. Completed' = Completed
  BY <1>1, <1>2 DEF StepMoves, Completed
<1>5. KeptInv'
  BY <1>4 DEF OInv, StepMoves, KeptInv
<1>6. RecordInv'
  BY <1>1, <1>2 DEF OInv, StepMoves, RecordInv
<1>7. GroundInv'
  BY <1>1, <1>2 DEF OInv, StepMoves, GroundInv
<1>8. SignalInv'
  BY DEF OInv, StepMoves, SignalInv, SomeFailure, After
<1> QED
  BY <1>3, <1>5, <1>6, <1>7, <1>8 DEF OInv

LEMMA StartStepMoves ==
  ASSUME OInv, NEW s \in plan.steps, StartStep(s)
  PROVE  StepMoves(s, "running")
<1>1. s \in StepId
  BY PlanIn DEF OInv
<1> QED
  BY <1>1 DEF StartStep, ExecutionFrame, ctlVars, Round!Starts, StepMoves, OInv, StateOK

LEMMA SkipStepMoves ==
  ASSUME OInv, NEW s \in plan.steps, SkipStep(s)
  PROVE  StepMoves(s, "skipped")
BY DEF SkipStep, ExecutionFrame, ctlVars, Round!Skips, StepMoves

LEMMA CancelStepMoves ==
  ASSUME OInv, NEW s \in plan.steps, CancelStep(s)
  PROVE  StepMoves(s, "cancelled")
BY DEF CancelStep, ExecutionFrame, ctlVars, Round!Cancels, StepMoves

\* The results an agent may return.
Returned == {"completed", "completed_degraded", "failed"}

LEMMA EndStepOInv ==
  ASSUME OInv, NEW s \in plan.steps, NEW r \in Returned, EndStep(s, r)
  PROVE  OInv'
<1>1. plan.steps \subseteq StepId /\ \A t \in plan.steps : plan.deps[t] \subseteq plan.steps
  BY PlanIn DEF OInv
<1>2. /\ at = "executing" /\ UNCHANGED <<at, plan, replan, replans>>
      /\ status[s] = "running" /\ ~replan
      /\ ended' = ended \cup {s}
  BY DEF EndStep, ExecutionFrame, ctlVars, Round!Ends
<1>3. /\ status'[s] = Recorded(r) /\ result'[s] = r
      /\ \A t \in StepId \ {s} : status'[t] = status[t] /\ result'[t] = result[t]
      /\ status' \in [StepId -> StepStatus \cup {"none"}]
      /\ result' \in [StepId -> {"none", "completed", "completed_degraded", "failed"}]
  BY <1>1 DEF OInv, StateOK, EndStep, StepStatus, Recorded, Returned
<1>4. StateOK'
  <2>1. ended' \subseteq StepId
    BY <1>1, <1>2 DEF OInv, StateOK
  <2>2. plan' = plan /\ replans' = replans
    BY <1>2
  <2> QED
    BY <1>3, <2>1, <2>2 DEF OInv, StateOK
<1>5. KeptInv'
  BY <1>1, <1>2, <1>3 DEF OInv, KeptInv, Completed
<1>6. RecordInv'
  BY <1>1, <1>2, <1>3 DEF OInv, RecordInv, Recorded, Returned
<1>7. GroundInv'
  BY <1>1, <1>2, <1>3 DEF OInv, GroundInv, Recorded
<1>8. SignalInv'
  BY <1>2 DEF OInv, SignalInv, After
<1> QED
  BY <1>4, <1>5, <1>6, <1>7, <1>8 DEF OInv

LEMMA InspectStepOInv ==
  ASSUME OInv, NEW s \in plan.steps, InspectStep(s)
  PROVE  OInv'
<1>1. /\ at = "executing" /\ UNCHANGED <<at, plan, status, result, replans>>
      /\ ended' \subseteq ended
      /\ replan' => SomeFailure
  BY DEF InspectStep, SomeFailure
<1> QED
  BY <1>1 DEF OInv, StateOK, KeptInv, Completed, RecordInv, GroundInv, SignalInv, SomeFailure,
              After

LEMMA ExecutingOInv ==
  ASSUME OInv, Executing
  PROVE  OInv'
<1>1. ASSUME NEW s \in plan.steps, StartStep(s) PROVE OInv'
  BY <1>1, StartStepMoves, StepMovesOInv
<1>2. ASSUME NEW s \in plan.steps, SkipStep(s) PROVE OInv'
  BY <1>2, SkipStepMoves, StepMovesOInv
<1>3. ASSUME NEW s \in plan.steps, CancelStep(s) PROVE OInv'
  BY <1>3, CancelStepMoves, StepMovesOInv
<1> QED
  BY <1>1, <1>2, <1>3, InspectStepOInv, EndStepOInv, ExecuteReturnsMovesOn, MovesOnOInv
     DEF Executing, Returned

----------------------------------------------------------------------------
(* Attaching a plan *)

\* A plan is attached between executions that keeps the completed steps.
Attaches(p) ==
  /\ Attach(p)
  /\ IsPlan(p) /\ ValidPlan(p)
  /\ Completed \subseteq p.steps
  /\ \A s \in Completed : p.deps[s] = plan.deps[s]
  /\ at # "executing" /\ at' \in {"execute", "crashed"}
  /\ UNCHANGED <<result, ended>>
  /\ ~replan' /\ replans' \in Nat

LEMMA AttachesOInv ==
  ASSUME OInv, NEW p, Attaches(p)
  PROVE  OInv'
<1>1. /\ plan' = p /\ p.steps \subseteq StepId
      /\ \A s \in StepId : status'[s] = IF s \in p.steps /\ status[s] = "none"
                                        THEN "pending" ELSE status[s]
      /\ status' \in [StepId -> StepStatus \cup {"none"}]
  BY DEF Attaches, Attach, IsPlan, OInv, StateOK, StepStatus
<1>2. StateOK'
  BY <1>1 DEF Attaches, OInv, StateOK
<1>3. Completed' = Completed
  BY <1>1 DEF Completed
<1>4. KeptInv'
  BY <1>1, <1>3 DEF Attaches, KeptInv
<1>5. RecordInv'
  BY <1>1 DEF OInv, RecordInv, Attaches
<1>6. GroundInv'
  <2> SUFFICES ASSUME NEW s \in p.steps, status'[s] \in {"running", "completed"},
                      NEW d \in p.deps[s]
               PROVE  status'[d] = "completed"
    BY <1>1 DEF GroundInv
  <2>1. s \in Completed
    BY <1>1 DEF Completed, OInv, RecordInv, Attaches
  <2>2. s \in plan.steps /\ d \in plan.deps[s] /\ status[s] = "completed"
    BY <2>1 DEF OInv, KeptInv, Attaches, Completed
  <2>3. d \in StepId /\ status[d] = "completed"
    BY <2>2, PlanIn DEF OInv, GroundInv
  <2> QED
    BY <1>1, <2>3
<1>7. SignalInv'
  BY DEF Attaches, SignalInv, After
<1> QED
  BY <1>2, <1>4, <1>5, <1>6, <1>7 DEF OInv

LEMMA AnswersPlans ==
  ASSUME NEW Ids, NEW Refs, NEW p \in Answers(Ids, Refs)
  PROVE  /\ p.steps \subseteq Ids /\ p.optional \subseteq p.steps
         /\ p.deps \in [p.steps -> SUBSET Refs]
         /\ p \in [steps : {p.steps}, deps : [p.steps -> SUBSET Refs], optional : SUBSET p.steps]
         /\ Cardinality(p.steps) <= MaxSteps
BY DEF Answers

LEMMA AdoptPlanAttaches ==
  ASSUME OInv, NEW d \in PlannerDrafts, Validates(d), Attach(d), AdoptPlan
  PROVE  Attaches(d)
<1>1. d.steps \subseteq StepId /\ PlannerIds \subseteq StepId
  BY AnswersPlans DEF PlannerDrafts, StepId
<1>2. d \in [steps : {d.steps}, deps : [d.steps -> SUBSET PlannerIds], optional : SUBSET d.steps]
  BY AnswersPlans DEF PlannerDrafts
<1>3. d.deps \in [d.steps -> SUBSET StepId]
  BY <1>1, <1>2
<1>4. IsPlan(d)
  BY <1>1, <1>2, <1>3 DEF IsPlan, PlansOver
<1>5. ValidPlan(d)
  BY <1>1, StepsFinite, ValidatesIsValid
<1>6. at = "planning" /\ Completed = {}
  BY DEF AdoptPlan, OInv, KeptInv
<1>7. /\ at' \in {"execute", "crashed"} /\ UNCHANGED <<result, ended, replan, replans>>
  BY DEF AdoptPlan, Outer!Goto
<1> QED
  BY <1>4, <1>5, <1>6, <1>7 DEF Attaches, OInv, SignalInv, StateOK

\* What a merge makes of the frozen and the new steps.
LEMMA MergedShape ==
  ASSUME NEW new
  PROVE  /\ Merged(new).steps = Frozen \cup Renamed(new)
         /\ DOMAIN Merged(new).deps = Frozen \cup Renamed(new)
         /\ \A s \in Frozen : Merged(new).deps[s] = plan.deps[s]
         /\ Merged(new) = [steps |-> Merged(new).steps, deps |-> Merged(new).deps,
                           optional |-> Merged(new).optional]
         /\ Merged(new).deps = [s \in Merged(new).steps |-> Merged(new).deps[s]]
BY DEF Merged

LEMMA MergedOptional ==
  ASSUME NEW new, new.optional \subseteq new.steps
  PROVE  Merged(new).optional \subseteq Frozen \cup Renamed(new)
<1>1. ASSUME NEW s \in new.optional PROVE Prefixed(RoundNo, s) \in Renamed(new)
  BY <1>1 DEF Renamed
<1> QED
  BY <1>1 DEF Merged

LEMMA RenamedIn ==
  ASSUME replans \in Nat, replans < MaxReplans, NEW new, new.steps \subseteq Drafted
  PROVE  Renamed(new) \subseteq StepId
<1>1. RoundNo \in 1 .. MaxReplans
  BY BudgetAssumption DEF RoundNo
<1>2. ASSUME NEW s \in new.steps PROVE Prefixed(RoundNo, s) \in ReplanIds
  BY <1>1, <1>2 DEF ReplanIds
<1> QED
  BY <1>2 DEF Renamed, StepId

\* A merge that is accepted is a valid plan with all the completed work in it.
LEMMA MergesPlan ==
  ASSUME OInv, replans < MaxReplans, NEW new \in NewSteps, Merges(new)
  PROVE  /\ IsPlan(Merged(new)) /\ ValidPlan(Merged(new))
         /\ Frozen = Completed
         /\ \A s \in Completed : s \in Merged(new).steps
                                   /\ Merged(new).deps[s] = plan.deps[s]
<1> DEFINE m == Merged(new)
<1>1. new.steps \subseteq Drafted /\ new.optional \subseteq new.steps
  BY AnswersPlans DEF NewSteps
<1>2. Frozen = Completed
  BY PlanIn DEF OInv, KeptInv, Frozen, Completed
<1>3. /\ m.steps = Frozen \cup Renamed(new)
      /\ \A s \in Frozen : m.deps[s] = plan.deps[s]
      /\ m = [steps |-> m.steps, deps |-> m.deps, optional |-> m.optional]
      /\ m.deps = [s \in m.steps |-> m.deps[s]]
  BY MergedShape
<1>4. m.optional \subseteq m.steps
  BY <1>1, <1>3, MergedOptional
<1>5. m.steps \subseteq StepId
  BY <1>1, <1>3, RenamedIn DEF Frozen, OInv, StateOK, IsPlan
<1>6. Validates(m)
  BY DEF Merges
<1> HIDE DEF m
<1>7. ValidPlan(m)
  BY <1>5, <1>6, StepsFinite, ValidatesIsValid
<1>8. \A s \in m.steps : m.deps[s] \in SUBSET StepId
  BY <1>5, <1>7 DEF ValidPlan, ReferencesOK
<1>9. m.deps \in [m.steps -> SUBSET StepId]
  BY <1>3, <1>8
<1>10. IsPlan(m)
  BY <1>3, <1>4, <1>5, <1>9 DEF IsPlan, PlansOver
<1> QED
  BY <1>2, <1>3, <1>7, <1>10 DEF m

LEMMA AdoptMergedAttaches ==
  ASSUME OInv, replans < MaxReplans, at \in {"deciding", "judging"},
         NEW new \in NewSteps, AdoptMerged(new)
  PROVE  Attaches(Merged(new))
<1>1. Merges(new) /\ Attach(Merged(new)) /\ ~replan' /\ replans' = replans + 1
  BY DEF AdoptMerged, RoundNo
<1>2. UNCHANGED <<result, ended>> /\ at' \in {"execute", "crashed"}
  BY DEF AdoptMerged, Outer!Goto
<1>3. replans' \in Nat
  BY <1>1 DEF OInv, StateOK
<1> QED
  BY <1>1, <1>2, <1>3, MergesPlan DEF Attaches

LEMMA NextOInv == OInv /\ [Next]_vars => OInv'
<1> SUFFICES ASSUME OInv, [Next]_vars PROVE OInv'
  OBVIOUS
<1>1. CASE AdoptPlan
  <2>1. PICK d \in PlannerDrafts : Validates(d) /\ Attach(d)
    BY <1>1 DEF AdoptPlan
  <2> QED
    BY <1>1, <2>1, AdoptPlanAttaches, AttachesOInv
<1>2. CASE RefuseDraft
  BY <1>2, RefuseDraftMovesOn, MovesOnOInv
<1>3. CASE Executing
  BY <1>3, ExecutingOInv
<1>4. CASE DecideReplan
  BY <1>4, AdoptMergedAttaches, AttachesOInv DEF DecideReplan, OInv, SignalInv
<1>5. CASE VerdictReplan
  BY <1>5, AdoptMergedAttaches, AttachesOInv DEF VerdictReplan
<1>6. CASE CountedNodes
  BY <1>6, CountedMovesOn, MovesOnOInv
<1>7. CASE DeadlinePasses
  BY <1>7 DEF DeadlinePasses, ctlVars, stepVars, OInv, StateOK, KeptInv, Completed, RecordInv,
              GroundInv, SignalInv, SomeFailure, After
<1>8. CASE UNCHANGED vars
  BY <1>8 DEF vars, ctlVars, stepVars, OInv, StateOK, KeptInv, Completed, RecordInv,
              GroundInv, SignalInv, SomeFailure, After
<1> QED
  BY <1>1, <1>2, <1>3, <1>4, <1>5, <1>6, <1>7, <1>8 DEF Next

\* The composition's inductive invariant holds, for every plan and every budget.
THEOREM CompositionInvariant == Spec => []OInv
<1> QED
  BY InitOInv, NextOInv, PTL DEF Spec

\* The attached plan is sound through any number of merges.
THEOREM PlanAlwaysSound == Spec => []PlanSound
<1>1. OInv => PlanSound
  BY DEF OInv, StateOK, KeptInv, PlanSound
<1> QED
  BY <1>1, CompositionInvariant, PTL

----------------------------------------------------------------------------
(* No step is lost before its plan is executed *)

\* The ids the monitor has seen: the planner's, and those of the rounds so far.
SeenInv ==
  \A s \in StepId : status[s] # "none" =>
    s \in PlannerIds \/ \E q \in 1 .. replans, d \in Drafted : s = Prefixed(q, d)

FreshInv ==
  /\ at \in {"plan", "planning"} => \A s \in StepId : status[s] = "none"
  /\ SeenInv
  /\ HandedOverFresh

\* A step that starts no plan and sees no new id.
SeesNothingNew ==
  /\ UNCHANGED <<plan, replans>>
  /\ \A s \in StepId : status'[s] # "none" => status[s] # "none"
  /\ at' \in {"plan", "planning"} => at \in {"plan", "planning"} /\ status' = status
  /\ at' = "execute" => at = "execute" /\ status' = status

LEMMA NothingNewFresh ==
  ASSUME FreshInv, SeesNothingNew
  PROVE  FreshInv'
<1>1. SeenInv'
  BY DEF FreshInv, SeesNothingNew, SeenInv
<1>2. HandedOverFresh'
  BY DEF FreshInv, SeesNothingNew, HandedOverFresh
<1>3. (at \in {"plan", "planning"} => \A s \in StepId : status[s] = "none")'
  BY DEF FreshInv, SeesNothingNew
<1> QED
  BY <1>1, <1>2, <1>3 DEF FreshInv

\* The prefix is put in front of the id.
LEMMA PrefixedHead ==
  ASSUME NEW q, NEW d \in Drafted
  PROVE  Prefixed(q, d)[1] = q /\ Len(Prefixed(q, d)) = 2 /\ Len(d) = 1
<1>1. PICK n \in Names : d = <<n>>
  BY DEF Drafted
<1>2. <<q>> \in Seq({q, n}) /\ <<n>> \in Seq({q, n}) /\ <<q>>[1] = q
  OBVIOUS
<1>3. Len(<<q>>) = 1 /\ Len(<<n>>) = 1
  OBVIOUS
<1> DEFINE a == <<q>>
           b == <<n>>
<1> HIDE DEF a, b
<1>4. Len(a \o b) = 2 /\ (a \o b)[1] = a[1]
  BY <1>2, <1>3 DEF a, b
<1> QED
  BY <1>1, <1>2, <1>3, <1>4 DEF Prefixed, a, b

\* The ids of a round are its own, but for those the planner guessed.
LEMMA RenamedUnseen ==
  ASSUME OInv, SeenInv, NEW new, new.steps \subseteq Drafted,
         NEW s \in Renamed(new), s \in StepId, status[s] # "none"
  PROVE  s \in Guessed
<1>1. PICK e \in Drafted : s = Prefixed(replans + 1, e)
  BY DEF Renamed, RoundNo
<1>2. replans \in Nat
  BY DEF OInv, StateOK
<1>3. s \notin Drafted
  BY <1>1, PrefixedHead
<1>4. ASSUME NEW q \in 1 .. replans, NEW d \in Drafted, s = Prefixed(q, d)
      PROVE  FALSE
  <2>1. q = replans + 1
    BY <1>1, <1>4, PrefixedHead
  <2> QED
    BY <1>2, <2>1
<1> QED
  BY <1>3, <1>4 DEF SeenInv, PlannerIds

LEMMA AdoptMergedFresh ==
  ASSUME OInv, FreshInv, replans < MaxReplans, NEW new \in NewSteps, AdoptMerged(new)
  PROVE  FreshInv'
<1>1. new.steps \subseteq Drafted
  BY AnswersPlans DEF NewSteps
<1>2. /\ plan' = Merged(new) /\ replans' = replans + 1 /\ replans \in Nat
      /\ at' \in {"execute", "crashed"}
      /\ plan'.steps = Frozen \cup Renamed(new)
  BY MergedShape DEF AdoptMerged, Attach, RoundNo, Outer!Goto, OInv, StateOK
<1>3. \A s \in StepId : status'[s] = IF s \in plan'.steps /\ status[s] = "none"
                                     THEN "pending" ELSE status[s]
  BY <1>2 DEF AdoptMerged, Attach
<1>4. Frozen \subseteq StepId /\ Renamed(new) \subseteq StepId
  BY <1>1, <1>2, PlanIn, RenamedIn DEF Frozen, OInv
<1>5. SeenInv'
  <2> SUFFICES ASSUME NEW s \in StepId, status'[s] # "none", s \notin PlannerIds
               PROVE  \E q \in 1 .. replans + 1, d \in Drafted : s = Prefixed(q, d)
    BY <1>2 DEF SeenInv
  <2>1. CASE status[s] # "none"
    BY <1>2, <2>1 DEF FreshInv, SeenInv
  <2>2. CASE status[s] = "none"
    <3>1. s \in Renamed(new)
      BY <1>2, <1>3, <2>2 DEF Frozen
    <3>2. PICK d \in Drafted : s = Prefixed(replans + 1, d)
      BY <1>1, <3>1 DEF Renamed, RoundNo
    <3> QED
      BY <1>2, <3>2
  <2> QED
    BY <2>1, <2>2
<1>6. HandedOverFresh'
  <2>1. ASSUME NEW s \in Frozen PROVE status'[s] = "completed"
    BY <1>3, <1>4 DEF Frozen
  <2>2. ASSUME NEW s \in Renamed(new), s \notin Guessed PROVE status'[s] = "pending"
    <3>1. status[s] = "none"
      BY <1>1, <1>4, <2>2, RenamedUnseen DEF FreshInv
    <3> QED
      BY <1>2, <1>3, <1>4, <3>1
  <2> QED
    BY <1>2, <2>1, <2>2 DEF HandedOverFresh
<1> QED
  BY <1>2, <1>5, <1>6 DEF FreshInv

LEMMA AdoptPlanFresh ==
  ASSUME OInv, FreshInv, AdoptPlan
  PROVE  FreshInv'
<1>1. PICK d \in PlannerDrafts : Attach(d)
  BY DEF AdoptPlan
<1>2. at = "planning" /\ at' \in {"execute", "crashed"} /\ replans' = replans
  BY DEF AdoptPlan, Outer!Goto
<1>3. d.steps \subseteq PlannerIds /\ PlannerIds \subseteq StepId
  BY AnswersPlans DEF PlannerDrafts, StepId
<1>4. /\ plan' = d
      /\ \A s \in StepId : status'[s] = IF s \in d.steps THEN "pending" ELSE "none"
  BY <1>1, <1>2 DEF Attach, FreshInv
<1> QED
  BY <1>2, <1>3, <1>4 DEF FreshInv, SeenInv, HandedOverFresh

LEMMA ExecutingFresh ==
  ASSUME OInv, FreshInv, Executing
  PROVE  SeesNothingNew
<1>1. plan.steps \subseteq StepId /\ \A s \in plan.steps : status[s] # "none"
  BY PlanIn DEF OInv, RecordInv
<1>2. ASSUME NEW s \in plan.steps, NEW v, status' = [status EXCEPT ![s] = v], ExecutionFrame
      PROVE  SeesNothingNew
  BY <1>1, <1>2 DEF ExecutionFrame, ctlVars, SeesNothingNew, OInv, StateOK
<1>3. ASSUME NEW s \in plan.steps, InspectStep(s)
      PROVE  SeesNothingNew
  BY <1>3 DEF InspectStep, SeesNothingNew
<1>4. CASE ExecuteReturns
  BY <1>4 DEF ExecuteReturns, Outer!ExecuteReturns, Outer!Goto, Outer!roundVars, SeesNothingNew
<1> QED
  BY <1>2, <1>3, <1>4 DEF Executing, StartStep, SkipStep, CancelStep, EndStep

LEMMA CountedFresh ==
  ASSUME CountedNodes
  PROVE  SeesNothingNew
<1> USE DEF SeesNothingNew, Outer!Goto, Outer!Await, stepVars, Outer!planVars, Outer!endVars,
            Outer!roundVars
<1>1. UNCHANGED <<plan, status>>
  BY DEF CountedNodes
<1>2. CASE Outer!EnterPlan \/ Outer!EnterExecute
  BY <1>1, <1>2 DEF Outer!EnterPlan, Outer!EnterExecute
<1>3. CASE Outer!EvaluatePasses \/ Outer!EvaluateExhausted \/ Outer!EvaluateConsults
  BY <1>1, <1>3 DEF Outer!EvaluatePasses, Outer!EvaluateExhausted, Outer!EvaluateConsults
<1>4. CASE Outer!DecideContinue \/ Outer!Crashing \/ Outer!RequestCancel
  BY <1>1, <1>4 DEF Outer!DecideContinue, Outer!Crashing, Outer!UncaughtModelError,
     Outer!UnparsedAnswer, Outer!RequestCancel
<1>5. CASE Outer!Synthesizing
  BY <1>1, <1>5 DEF Outer!Synthesizing, Outer!SynthesizeNothing, Outer!EnterSynthesize,
     Outer!SynthesizeOk, Outer!SynthesizeFails
<1>6. CASE Outer!JudgeSkipped \/ Outer!EnterJudge \/ Outer!VerdictAccept \/ Outer!AcceptAnyway
             \/ Outer!VerdictResynthesize
  BY <1>1, <1>6 DEF Outer!JudgeSkipped, Outer!EnterJudge, Outer!VerdictAccept,
     Outer!AcceptAnyway, Outer!VerdictResynthesize, Outer!Accept
<1> QED
  BY <1>2, <1>3, <1>4, <1>5, <1>6 DEF CountedNodes

LEMMA NextFresh == OInv /\ FreshInv /\ [Next]_vars => FreshInv'
<1> SUFFICES ASSUME OInv, FreshInv, [Next]_vars PROVE FreshInv'
  OBVIOUS
<1>1. CASE AdoptPlan
  BY <1>1, AdoptPlanFresh
<1>2. CASE RefuseDraft
  <2>1. SeesNothingNew
    BY <1>2 DEF RefuseDraft, SeesNothingNew, stepVars, Outer!RetryPlan, Outer!GiveUpPlanning,
       Outer!Goto, Outer!roundVars
  <2> QED
    BY <2>1, NothingNewFresh
<1>3. CASE Executing
  BY <1>3, ExecutingFresh, NothingNewFresh
<1>4. CASE DecideReplan
  BY <1>4, AdoptMergedFresh DEF DecideReplan, OInv, SignalInv
<1>5. CASE VerdictReplan
  BY <1>5, AdoptMergedFresh DEF VerdictReplan
<1>6. CASE CountedNodes
  BY <1>6, CountedFresh, NothingNewFresh
<1>7. CASE DeadlinePasses \/ UNCHANGED vars
  <2>1. SeesNothingNew
    BY <1>7 DEF DeadlinePasses, vars, ctlVars, stepVars, SeesNothingNew
  <2> QED
    BY <2>1, NothingNewFresh
<1> QED
  BY <1>1, <1>2, <1>3, <1>4, <1>5, <1>6, <1>7 DEF Next

\* Through any number of rounds, a plan is handed to execute_plan with steps to run and
\* completed ones: none is lost in advance, unless the planner guessed a re-plan's id.
THEOREM AlwaysHandedOverFresh == Spec => []HandedOverFresh
<1>1. Init => FreshInv
  <2> SUFFICES ASSUME Init PROVE FreshInv
    OBVIOUS
  <2>1. at = "plan" /\ \A s \in StepId : status[s] = "none"
    BY DEF Init, Outer!Init
  <2> QED
    BY <2>1 DEF FreshInv, SeenInv, HandedOverFresh
<1>2. FreshInv => HandedOverFresh
  BY DEF FreshInv
<1> QED
  BY <1>1, <1>2, NextFresh, CompositionInvariant, PTL DEF Spec

\* Agents and models are given all the work they are to build on.
THEOREM AlwaysGrounded == Spec => []GroundedInputs
<1>1. OInv => GroundedInputs
  <2> SUFFICES ASSUME OInv PROVE GroundedInputs
    OBVIOUS
  <2>1. \A s \in plan.steps : status[s] \in {"running", "completed"} => Upstream(s) = plan.deps[s]
    BY PlanIn DEF OInv, GroundInv, RecordInv, Upstream
  <2>2. Rendered = Completed
    BY PlanIn DEF OInv, KeptInv, RecordInv, Rendered, Completed
  <2>3. Passes([cited |-> Completed, blank |-> FALSE, misformatted |-> FALSE])
    BY DEF OInv, KeptInv, Passes, UnknownCitations
  <2> QED
    BY <2>1, <2>2, <2>3 DEF GroundedInputs
<1> QED
  BY <1>1, CompositionInvariant, PTL

\* No step of the task takes completed work out of the plan, reruns it, or changes
\* its result or what it was made from.
LEMMA StepKeepsFrozen ==
  ASSUME OInv, [Next]_vars, NEW s \in Completed
  PROVE  /\ s \in plan'.steps /\ plan'.deps[s] = plan.deps[s]
         /\ status'[s] = "completed" /\ result'[s] = result[s]
<1>1. s \in StepId /\ s \in plan.steps /\ status[s] = "completed"
  BY DEF OInv, KeptInv, Completed
<1>2. CASE UNCHANGED <<plan, status, result>>
  BY <1>1, <1>2
<1>3. ASSUME NEW t \in plan.steps, NEW new, StepMoves(t, new) PROVE UNCHANGED <<plan, result>> /\ status'[s] = status[s]
  BY <1>1, <1>3 DEF StepMoves, OInv, StateOK
<1>4. ASSUME NEW t \in plan.steps, NEW r \in Returned, EndStep(t, r)
      PROVE  plan' = plan /\ status'[s] = status[s] /\ result'[s] = result[s]
  BY <1>1, <1>4 DEF EndStep, ExecutionFrame, Round!Ends, OInv, StateOK
<1>5. ASSUME NEW p, Attaches(p)
      PROVE  /\ s \in plan'.steps /\ plan'.deps[s] = plan.deps[s]
             /\ status'[s] = "completed" /\ result'[s] = result[s]
  BY <1>1, <1>5 DEF Attaches, Attach
<1>6. CASE AdoptPlan
  <2>1. PICK d \in PlannerDrafts : Validates(d) /\ Attach(d)
    BY <1>6 DEF AdoptPlan
  <2> QED
    BY <1>5, <1>6, <2>1, AdoptPlanAttaches
<1>7. CASE DecideReplan
  BY <1>5, <1>7, AdoptMergedAttaches DEF DecideReplan, OInv, SignalInv
<1>8. CASE VerdictReplan
  BY <1>5, <1>8, AdoptMergedAttaches DEF VerdictReplan
<1>9. CASE Executing
  <2>1. ASSUME NEW t \in plan.steps, StartStep(t) \/ SkipStep(t) \/ CancelStep(t)
        PROVE  \E new : StepMoves(t, new)
    BY <2>1, StartStepMoves, SkipStepMoves, CancelStepMoves
  <2>2. ASSUME NEW t \in plan.steps, InspectStep(t)
        PROVE  UNCHANGED <<plan, status, result>>
    BY <2>2 DEF InspectStep
  <2>3. CASE ExecuteReturns
    BY <1>2, <2>3 DEF ExecuteReturns
  <2> QED
    BY <1>1, <1>2, <1>3, <1>4, <1>9, <2>1, <2>2, <2>3 DEF Executing, Returned
<1>10. CASE RefuseDraft \/ CountedNodes \/ DeadlinePasses \/ UNCHANGED vars
  BY <1>2, <1>10 DEF RefuseDraft, CountedNodes, DeadlinePasses, vars, stepVars
<1> QED
  BY <1>6, <1>7, <1>8, <1>9, <1>10 DEF Next

\* Completed work is frozen for good, whatever the later rounds do.
THEOREM CompletedWorkFrozen == Spec => FrozenForGood
<1> DEFINE Step == \A s \in Completed : /\ s \in plan'.steps /\ plan'.deps[s] = plan.deps[s]
                                        /\ status'[s] = "completed" /\ result'[s] = result[s]
<1>1. OInv /\ [Next]_vars => [Step]_vars
  BY StepKeepsFrozen
<1> QED
  BY <1>1, CompositionInvariant, PTL DEF Spec, FrozenForGood

----------------------------------------------------------------------------
\* A share of one hundred percent is all of it.
LEMMA FullShare ==
  ASSUME NEW c \in Nat, NEW t \in Nat \ {0}, c < t
  PROVE  (100 * c) \div t < 100
<1> DEFINE q == (100 * c) \div t
<1>1. q \in Int /\ t * q <= 100 * c
  OBVIOUS
<1>2. 100 * c < 100 * t
  OBVIOUS
<1> HIDE DEF q
<1> SUFFICES ASSUME q >= 100 PROVE FALSE
  BY <1>1 DEF q
<1>3. t * q >= t * 100
  BY <1>1
<1> QED
  BY <1>1, <1>2, <1>3

\* The final result says of each step what became of it, unless a failure left it
\* behind, and is fully confident only when every step completed.
THEOREM ResultAlwaysHonest == Spec => []ResultHonest
<1>1. OInv => ResultHonest
  <2> SUFFICES ASSUME OInv, at = "end" PROVE
        /\ ~(plan.steps \subseteq Provenance \cup FailedSteps \cup SkippedSteps)
             => \E f \in plan.steps : result[f] = "failed" /\ f \notin Completed
        /\ Calibrated(100) = 100 => plan.steps = Completed
    BY DEF ResultHonest
  <2>1. plan.steps \subseteq StepId /\ IsFiniteSet(plan.steps)
    BY PlanIn DEF OInv
  <2>2. ASSUME NEW s \in plan.steps, s \notin Provenance, s \notin FailedSteps, s \notin SkippedSteps
        PROVE  \E f \in plan.steps : result[f] = "failed" /\ f \notin Completed
    <3>1. s \in StepId /\ result[s] = "none" /\ status[s] \in StepStatus
      BY <2>1, <2>2 DEF Provenance, OInv, StateOK, RecordInv
    <3>2. status[s] = "pending"
      BY <2>2, <3>1 DEF FailedSteps, SkippedSteps, OInv, RecordInv, StepStatus
    <3>3. PICK f \in plan.steps : result[f] = "failed"
      BY <3>2 DEF OInv, SignalInv, SomeFailure, After
    <3> QED
      BY <2>1, <3>3 DEF OInv, RecordInv, Completed
  <2>3. ASSUME Calibrated(100) = 100 PROVE plan.steps = Completed
    <3> DEFINE c == Cardinality(Completed)
               t == Cardinality(plan.steps)
               q == (100 * c) \div t
    <3>1. /\ c \in Nat /\ t \in Nat /\ c <= t
          /\ c = t => plan.steps = Completed
      BY <2>1, StepsFinite, FS_Subset, FS_CardinalityType DEF OInv, KeptInv
    <3>2. Calibrated(100) = (IF t = 0 THEN IF 100 < 0 THEN 100 ELSE 0
                             ELSE IF 100 < q THEN 100 ELSE q)
      BY DEF Calibrated
    <3>3. c < t /\ t # 0 => q < 100 /\ q \in Int
      BY <3>1, FullShare
    <3> HIDE DEF c, t, q
    <3>4. ~(c < t)
      <4> SUFFICES ASSUME c < t PROVE FALSE
        OBVIOUS
      <4>1. t # 0 /\ q < 100 /\ q \in Int
        BY <3>1, <3>3
      <4>2. 100 = (IF 100 < q THEN 100 ELSE q)
        BY <2>3, <3>2, <4>1
      <4> QED
        BY <4>1, <4>2
    <3> QED
      BY <3>1, <3>4
  <2> QED
    BY <2>2, <2>3
<1> QED
  BY <1>1, CompositionInvariant, PTL

----------------------------------------------------------------------------
(* The counting loop is what the composition does *)

\* The re-plan signal is up or down.
LEMMA SignalInBoolean == Spec => [](replan \in BOOLEAN)
<1>1. Init => replan \in BOOLEAN
  BY DEF Init, Outer!Init
<1>2. replan \in BOOLEAN /\ [Next]_vars => (replan \in BOOLEAN)'
  <2> SUFFICES ASSUME replan \in BOOLEAN, [Next]_vars, replan' # replan PROVE replan' \in BOOLEAN
    OBVIOUS
  <2>1. CASE AdoptPlan \/ DeadlinePasses \/ UNCHANGED vars
    BY <2>1 DEF AdoptPlan, DeadlinePasses, ctlVars, vars
  <2>2. CASE RefuseDraft
    BY <2>2 DEF RefuseDraft, Outer!RetryPlan, Outer!GiveUpPlanning
  <2>3. CASE DecideReplan \/ VerdictReplan
    BY <2>3 DEF DecideReplan, VerdictReplan, AdoptMerged
  <2>4. CASE Executing
    <3>1. ASSUME NEW s, StartStep(s) \/ SkipStep(s) \/ CancelStep(s) \/ \E r \in Returned : EndStep(s, r)
          PROVE  replan' = replan
      BY <3>1 DEF StartStep, SkipStep, CancelStep, EndStep, ExecutionFrame, ctlVars
    <3>2. ASSUME NEW s, InspectStep(s) PROVE replan' \in BOOLEAN
      BY <3>2 DEF InspectStep
    <3>3. CASE ExecuteReturns
      BY <3>3 DEF ExecuteReturns, Outer!ExecuteReturns
    <3> QED
      BY <2>4, <3>1, <3>2, <3>3 DEF Executing, Returned
  <2>5. CASE CountedNodes
    <3>1. replan' = FALSE
      BY <2>5 DEF CountedNodes, Outer!EnterPlan, Outer!EnterExecute, Outer!EvaluatePasses,
         Outer!EvaluateExhausted, Outer!EvaluateConsults, Outer!DecideContinue,
         Outer!Synthesizing, Outer!SynthesizeNothing, Outer!EnterSynthesize, Outer!SynthesizeOk,
         Outer!SynthesizeFails, Outer!JudgeSkipped, Outer!EnterJudge, Outer!VerdictAccept,
         Outer!AcceptAnyway, Outer!VerdictResynthesize, Outer!Accept, Outer!Crashing,
         Outer!UncaughtModelError, Outer!UnparsedAnswer, Outer!RequestCancel
    <3> QED
      BY <3>1
  <2> QED
    BY <2>1, <2>2, <2>3, <2>4, <2>5 DEF Next
<1> QED
  BY <1>1, <1>2, PTL DEF Spec

LEMMA Counts ==
  ASSUME OInv
  PROVE  /\ IsFiniteSet(plan.steps) /\ IsFiniteSet(Completed)
         /\ Cardinality(plan.steps) \in Nat /\ Cardinality(Completed) \in Nat
         /\ Completed \subseteq plan.steps
<1>1. IsFiniteSet(plan.steps) /\ Completed \subseteq plan.steps
  BY PlanIn DEF OInv, KeptInv
<1> QED
  BY <1>1, FS_Subset, FS_CardinalityType

\* While a step of the plan is not completed, fewer are completed than planned.
LEMMA CountsBelow ==
  ASSUME OInv, NEW s \in plan.steps, s \notin Completed
  PROVE  Cardinality(Completed) < Cardinality(plan.steps)
<1>1. Cardinality(Completed) <= Cardinality(plan.steps)
  BY Counts, FS_Subset
<1>2. Cardinality(Completed) # Cardinality(plan.steps)
  BY Counts, FS_Subset
<1> QED
  BY <1>1, <1>2, Counts

\* A valid answer has between one step and as many as an answer can have.
LEMMA AnswerCount ==
  ASSUME NEW Ids, NEW Refs, NEW p \in Answers(Ids, Refs), Ids \subseteq StepId, StructureOK(p)
  PROVE  Cardinality(p.steps) \in 1 .. MaxSteps
<1>1. IsFiniteSet(p.steps) /\ p.steps # {} /\ Cardinality(p.steps) <= MaxSteps
  BY AnswersPlans, StepsFinite DEF StructureOK
<1>2. Cardinality(p.steps) \in Nat /\ Cardinality(p.steps) # 0
  BY <1>1, FS_CardinalityType, FS_EmptySet
<1> QED
  BY <1>1, <1>2, MaxStepsAssumption

\* Renaming makes no step of two and no two of one; a merge adds up.
LEMMA MergeCount ==
  ASSUME OInv, NEW new \in NewSteps, Merges(new)
  PROVE  LET k == Cardinality(Renamed(new))
         IN  /\ k \in 0 .. MaxSteps
             /\ Cardinality(Merged(new).steps) = Cardinality(Completed) + k
             /\ Cardinality(Completed) + k > 0
<1> DEFINE k == Cardinality(Renamed(new))
<1>1. new.steps \subseteq StepId /\ Cardinality(new.steps) <= MaxSteps
  BY AnswersPlans DEF NewSteps, StepId, PlannerIds
<1>2. IsFiniteSet(new.steps)
  BY <1>1, StepsFinite
<1>3. IsFiniteSet(Renamed(new)) /\ k <= Cardinality(new.steps)
  <2> DEFINE f == [s \in new.steps |-> Prefixed(RoundNo, s)]
  <2>1. f \in Surjection(new.steps, Renamed(new))
    BY DEF Renamed, Surjection
  <2> QED
    BY <1>2, <2>1, FS_Surjection
<1>4. k \in 0 .. MaxSteps
  BY <1>1, <1>2, <1>3, FS_CardinalityType, MaxStepsAssumption
<1>5. Frozen = Completed /\ Renamed(new) \cap Frozen = {}
  BY PlanIn DEF OInv, KeptInv, Frozen, Completed, Merges, Collides
<1>6. Merged(new).steps = Completed \cup Renamed(new)
  BY <1>5, MergedShape
<1>7. Cardinality(Completed \cup Renamed(new)) = Cardinality(Completed) + k
  <2>1. Cardinality(Completed \cup Renamed(new))
          = Cardinality(Completed) + Cardinality(Renamed(new)) - Cardinality(Completed \cap Renamed(new))
    BY <1>3, Counts, FS_Union
  <2>2. Cardinality(Completed \cap Renamed(new)) = 0
    BY <1>5, FS_EmptySet
  <2> QED
    BY <2>1, <2>2, <1>4, Counts
<1>8. Completed \cup Renamed(new) # {}
  BY <1>6 DEF Merges, Validates, StructureOK
<1>9. Cardinality(Completed \cup Renamed(new)) # 0
  BY <1>3, <1>8, Counts, FS_Union, FS_EmptySet
<1> QED
  BY <1>4, <1>6, <1>7, <1>9, Counts

\* What the counts see of a step that leaves the completed work alone.
LEMMA SameCounts ==
  ASSUME plan' = plan, Completed' = Completed, UNCHANGED ctlVars
  PROVE  UNCHANGED Outer!vars
BY DEF ctlVars, Outer!vars, Outer!planVars, Outer!endVars, Outer!roundVars

LEMMA AttachKeepsCompleted ==
  ASSUME NEW p, Attach(p)
  PROVE  plan' = p /\ Completed' = Completed
BY DEF Attach, Completed

LEMMA AdoptPlanCounts ==
  ASSUME OInv, AdoptPlan
  PROVE  Outer!Planning
<1>1. PICK d \in PlannerDrafts : Validates(d) /\ Attach(d)
  BY DEF AdoptPlan
<1>2. plan' = d /\ Completed' = Completed
  BY <1>1, AttachKeepsCompleted
<1>3. Cardinality(d.steps) \in 1 .. MaxSteps
  BY <1>1, AnswerCount DEF PlannerDrafts, StepId, Validates
<1>4. Outer!AttachPlan(Cardinality(d.steps))
  BY <1>2 DEF AdoptPlan, Outer!AttachPlan, Outer!endVars, Outer!roundVars
<1> QED
  BY <1>3, <1>4 DEF Outer!Planning

LEMMA ExecutingCounts ==
  ASSUME OInv, replan \in BOOLEAN, replan' \in BOOLEAN, Executing
  PROVE  Outer!Executing \/ UNCHANGED Outer!vars
<1>1. ASSUME NEW s \in plan.steps, NEW new, StepMoves(s, new), UNCHANGED ctlVars
      PROVE  UNCHANGED Outer!vars
  <2>1. s \in StepId /\ \A t \in StepId \ {s} : status'[t] = status[t]
    BY <1>1, PlanIn DEF OInv, StateOK, StepMoves
  <2>2. status'[s] # "completed" /\ status[s] # "completed"
    BY <1>1, <2>1 DEF OInv, StateOK, StepMoves
  <2>3. Completed' = Completed
    BY <2>1, <2>2 DEF Completed
  <2> QED
    BY <1>1, <2>3, SameCounts DEF StepMoves
<1>2. ASSUME NEW s \in plan.steps, StartStep(s) \/ SkipStep(s) \/ CancelStep(s)
      PROVE  UNCHANGED Outer!vars
  <2>1. UNCHANGED ctlVars
    BY <1>2 DEF StartStep, SkipStep, CancelStep, ExecutionFrame
  <2> QED
    BY <1>1, <1>2, <2>1, StartStepMoves, SkipStepMoves, CancelStepMoves
<1>3. ASSUME NEW s \in plan.steps, InspectStep(s)
      PROVE  Outer!StructuralFailure \/ UNCHANGED Outer!vars
  <2>1. /\ at = "executing" /\ ~replan
        /\ UNCHANGED <<at, visits, attempts, taskState, finalResult, draft, cancel, replans,
                       resynthRounds, synthFailed, plan, status>>
        /\ replan' = (result[s] = "failed" /\ Structural(plan, s, status))
    BY <1>3 DEF InspectStep
  <2>2. Completed' = Completed
    BY <2>1 DEF Completed
  <2>3. CASE result[s] = "failed" /\ Structural(plan, s, status)
    <3>1. s \notin Completed
      BY <2>3, PlanIn DEF OInv, RecordInv, Completed
    <3> QED
      BY <2>1, <2>2, <2>3, <3>1, CountsBelow DEF Outer!StructuralFailure, Outer!planVars,
         Outer!endVars, Outer!roundVars
  <2>4. CASE ~(result[s] = "failed" /\ Structural(plan, s, status))
    <3>1. replan' = replan
      BY <2>1, <2>4
    <3> QED
      BY <2>1, <2>2, <3>1, SameCounts DEF ctlVars
  <2> QED
    BY <2>3, <2>4
<1>4. ASSUME NEW s \in plan.steps, NEW r \in Returned, EndStep(s, r)
      PROVE  Outer!StepCompletes \/ UNCHANGED Outer!vars
  <2>1. s \in StepId /\ status' = [status EXCEPT ![s] = Recorded(r)]
    BY <1>4, PlanIn DEF EndStep, OInv
  <2>2. status[s] = "running" /\ ~replan /\ at = "executing" /\ plan' = plan /\ UNCHANGED ctlVars
    BY <1>4 DEF EndStep, ExecutionFrame, Round!Ends
  <2>3. s \notin Completed
    BY <2>2 DEF Completed
  <2>4. CASE r = "completed"
    <3>1. Completed' = Completed \cup {s}
      BY <2>1, <2>4 DEF Completed, Recorded, OInv, StateOK
    <3>2. Cardinality(Completed)' = Cardinality(Completed) + 1
      BY <2>3, <3>1, Counts, FS_AddElement
    <3>3. Cardinality(Completed) < Cardinality(plan.steps)
      BY <2>3, CountsBelow
    <3> QED
      BY <2>2, <3>2, <3>3 DEF Outer!StepCompletes, ctlVars, Outer!endVars, Outer!roundVars
  <2>5. CASE r # "completed"
    <3>1. Completed' = Completed
      BY <2>1, <2>3, <2>5 DEF Completed, Recorded, OInv, StateOK
    <3> QED
      BY <2>2, <3>1, SameCounts
  <2> QED
    BY <2>4, <2>5
<1> QED
  BY <1>2, <1>3, <1>4 DEF Executing, Returned, ExecuteReturns, Outer!Executing

LEMMA AdoptMergedCounts ==
  ASSUME OInv, NEW new \in NewSteps, AdoptMerged(new)
  PROVE  \E k \in 0 .. MaxSteps : Outer!MergeReplan(k) /\ Completed' = Completed
<1>1. Merges(new) /\ Attach(Merged(new)) /\ replans' = replans + 1
  BY DEF AdoptMerged, RoundNo
<1>2. plan' = Merged(new) /\ Completed' = Completed
  BY <1>1, AttachKeepsCompleted
<1> QED
  BY <1>1, <1>2, MergeCount DEF Outer!MergeReplan

LEMMA DecideReplanCounts ==
  ASSUME OInv, DecideReplan
  PROVE  Outer!Evaluating
<1>1. PICK new \in NewSteps : AdoptMerged(new)
  BY DEF DecideReplan
<1>2. PICK k \in 0 .. MaxSteps : Outer!MergeReplan(k) /\ Completed' = Completed
  BY <1>1, AdoptMergedCounts
<1>3. Outer!DecideReplan(k)
  BY <1>1, <1>2 DEF DecideReplan, AdoptMerged, Outer!DecideReplan, Outer!endVars
<1> QED
  BY <1>3 DEF Outer!Evaluating

LEMMA VerdictReplanCounts ==
  ASSUME OInv, replan \in BOOLEAN, replan' \in BOOLEAN, VerdictReplan
  PROVE  Outer!Judging
<1>1. PICK new \in NewSteps : AdoptMerged(new)
  BY DEF VerdictReplan
<1>2. PICK k \in 0 .. MaxSteps : Outer!MergeReplan(k) /\ Completed' = Completed
  BY <1>1, AdoptMergedCounts
<1>3. replan' = replan
  BY <1>1 DEF VerdictReplan, AdoptMerged, OInv, SignalInv
<1>4. Outer!VerdictReplan(k)
  BY <1>1, <1>2, <1>3 DEF VerdictReplan, AdoptMerged, Outer!VerdictReplan, Outer!endVars
<1> QED
  BY <1>4 DEF Outer!Judging

\* Every step of the composition is one of the counting loop, or moves no count.
LEMMA StepCounts ==
  OInv /\ replan \in BOOLEAN /\ (replan \in BOOLEAN)' /\ [Next]_vars => [Outer!Next]_(Outer!vars)
<1> SUFFICES ASSUME OInv, replan \in BOOLEAN, replan' \in BOOLEAN, [Next]_vars
             PROVE  Outer!Run \/ Outer!RequestCancel \/ UNCHANGED Outer!vars
  BY DEF Outer!Next
<1>1. CASE AdoptPlan
  BY <1>1, AdoptPlanCounts DEF Outer!Run
<1>2. CASE RefuseDraft
  BY <1>2 DEF RefuseDraft, Outer!Run, Outer!Planning
<1>3. CASE Executing
  BY <1>3, ExecutingCounts DEF Outer!Run
<1>4. CASE DecideReplan
  BY <1>4, DecideReplanCounts DEF Outer!Run
<1>5. CASE VerdictReplan
  BY <1>5, VerdictReplanCounts DEF Outer!Run
<1>6. CASE CountedNodes
  BY <1>6 DEF CountedNodes, Outer!Run, Outer!Planning, Outer!Executing, Outer!Evaluating,
     Outer!Judging
<1>7. CASE DeadlinePasses \/ UNCHANGED vars
  <2>1. plan' = plan /\ Completed' = Completed /\ UNCHANGED ctlVars
    BY <1>7 DEF DeadlinePasses, vars, stepVars, Completed
  <2> QED
    BY <2>1, SameCounts
<1> QED
  BY <1>1, <1>2, <1>3, <1>4, <1>5, <1>6, <1>7 DEF Next

LEMMA InitCounts == Init => Outer!Init
BY DEF Init

\* The composition by name does what the outer loop that only counts steps does.
THEOREM ComposesOuterLoop == Spec => ImplementsOuterLoop
<1> QED
  BY InitCounts, StepCounts, CompositionInvariant, SignalInBoolean, PTL DEF Spec, ImplementsOuterLoop, Outer!Spec

----------------------------------------------------------------------------
(* The theorems about the outer loop, for the composition.  The loop does not *)
(* look at the client, so any values stand for the client's variables.        *)

Loop == INSTANCE OuterLoop_proofs
          WITH planSize <- Cardinality(plan.steps), completed <- Cardinality(Completed),
               registered <- FALSE, stream <- "closed", frame <- "none"

LoopHolds ==
  /\ Outer!BackstopUnused /\ Outer!ReplanConsumed /\ Outer!FrozenWorkKept
  /\ Outer!DraftIsCurrent /\ Outer!CompletedIsSynthesized /\ Outer!TerminalTogether

\* Both instances take the same steps.
LEMMA SameSteps == [Outer!Next]_Outer!vars <=> [Loop!Next]_Loop!vars
<1>1. Outer!vars = Loop!vars
  BY DEF Outer!vars, Loop!vars, Outer!planVars, Loop!planVars,
         Outer!endVars, Loop!endVars, Outer!roundVars, Loop!roundVars
<1> USE DEF Outer!planVars, Loop!planVars, Outer!endVars, Loop!endVars, Outer!roundVars,
            Loop!roundVars, Outer!Goto, Loop!Goto, Outer!Await, Loop!Await,
            Outer!RecursionLimit, Loop!RecursionLimit, Outer!NothingDone, Loop!NothingDone
<1>2. Outer!Planning <=> Loop!Planning
  BY DEF Outer!Planning, Loop!Planning, Outer!EnterPlan,
         Loop!EnterPlan, Outer!RetryPlan, Loop!RetryPlan,
         Outer!GiveUpPlanning, Loop!GiveUpPlanning, Outer!AttachPlan,
         Loop!AttachPlan
<1>3. Outer!Executing <=> Loop!Executing
  BY DEF Outer!Executing, Loop!Executing, Outer!EnterExecute,
         Loop!EnterExecute, Outer!StepCompletes, Loop!StepCompletes,
         Outer!StructuralFailure, Loop!StructuralFailure,
         Outer!ExecuteReturns, Loop!ExecuteReturns
<1>4. Outer!Evaluating <=> Loop!Evaluating
  BY DEF Outer!Evaluating, Loop!Evaluating, Outer!EvaluatePasses,
         Loop!EvaluatePasses, Outer!EvaluateExhausted,
         Loop!EvaluateExhausted, Outer!EvaluateConsults,
         Loop!EvaluateConsults, Outer!DecideContinue,
         Loop!DecideContinue, Outer!DecideReplan, Loop!DecideReplan,
         Outer!MergeReplan, Loop!MergeReplan
<1>5. Outer!Synthesizing <=> Loop!Synthesizing
  BY DEF Outer!Synthesizing, Loop!Synthesizing,
         Outer!SynthesizeNothing, Loop!SynthesizeNothing,
         Outer!EnterSynthesize, Loop!EnterSynthesize,
         Outer!SynthesizeOk, Loop!SynthesizeOk,
         Outer!SynthesizeFails, Loop!SynthesizeFails,
         Outer!SetDraft, Loop!SetDraft
<1>6. Outer!Judging <=> Loop!Judging
  BY DEF Outer!Judging, Loop!Judging, Outer!JudgeSkipped,
         Loop!JudgeSkipped, Outer!EnterJudge, Loop!EnterJudge,
         Outer!VerdictAccept, Loop!VerdictAccept, Outer!AcceptAnyway,
         Loop!AcceptAnyway, Outer!VerdictResynthesize,
         Loop!VerdictResynthesize, Outer!VerdictReplan,
         Loop!VerdictReplan, Outer!MergeReplan, Loop!MergeReplan,
         Outer!CancelledLast, Loop!CancelledLast, Outer!BaseStatus,
         Loop!BaseStatus, Outer!Accept, Loop!Accept
<1>7. Outer!Crashing <=> Loop!Crashing
  BY DEF Outer!Crashing, Loop!Crashing, Outer!UncaughtModelError,
         Loop!UncaughtModelError, Outer!UnparsedAnswer,
         Loop!UnparsedAnswer
<1>8. Outer!RequestCancel <=> Loop!RequestCancel
  BY DEF Outer!RequestCancel, Loop!RequestCancel
<1>9. Outer!Next <=> Loop!Next
  BY <1>2, <1>3, <1>4, <1>5, <1>6, <1>7, <1>8
  DEF Outer!Next, Loop!Next, Outer!Run, Loop!Run
<1>10. (Outer!vars)' = (Loop!vars)'
  BY DEF Outer!vars, Loop!vars
<1> QED
  BY <1>1, <1>9, <1>10

\* So an execution of one is one of the other.
LEMMA SameSpec == Outer!Spec <=> Loop!Spec
<1>1. Outer!Init <=> Loop!Init
  BY DEF Outer!Init, Loop!Init
<1> QED
  BY <1>1, SameSteps, PTL DEF Outer!Spec, Loop!Spec

\* And they claim the same.
LEMMA SameClaims ==
  /\ Loop!BackstopUnused => Outer!BackstopUnused
  /\ Loop!ReplanConsumed => Outer!ReplanConsumed
  /\ Loop!FrozenWorkKept => Outer!FrozenWorkKept
  /\ Loop!DraftIsCurrent => Outer!DraftIsCurrent
  /\ Loop!CompletedIsSynthesized => Outer!CompletedIsSynthesized
  /\ Loop!TerminalTogether => Outer!TerminalTogether
<1>1. Loop!BackstopUnused => Outer!BackstopUnused
  BY DEF Loop!BackstopUnused, Outer!BackstopUnused, Loop!RecursionLimit, Outer!RecursionLimit
<1>2. Loop!ReplanConsumed => Outer!ReplanConsumed
  BY DEF Loop!ReplanConsumed, Outer!ReplanConsumed
<1>3. Loop!FrozenWorkKept => Outer!FrozenWorkKept
  BY DEF Loop!FrozenWorkKept, Outer!FrozenWorkKept
<1>4. Loop!DraftIsCurrent => Outer!DraftIsCurrent
  BY DEF Loop!DraftIsCurrent, Outer!DraftIsCurrent
<1>5. Loop!CompletedIsSynthesized => Outer!CompletedIsSynthesized
  BY DEF Loop!CompletedIsSynthesized, Outer!CompletedIsSynthesized
<1>6. Loop!TerminalTogether => Outer!TerminalTogether
  BY DEF Loop!TerminalTogether, Outer!TerminalTogether, Loop!TerminalState, Outer!TerminalState
<1> QED
  BY <1>1, <1>2, <1>3, <1>4, <1>5, <1>6

(* With plans, merges and results by name, too: the recursion limit of run_task *)
(* is never what ends a run, no re-plan request outlives its evaluation, the    *)
(* plan holds every completed step, what is judged and shipped covers exactly   *)
(* the completed steps, and the state and the result become terminal together.  *)
THEOREM LoopAlwaysHolds == Spec => []LoopHolds
<1> USE BudgetAssumption, PlannerAssumption, MaxStepsAssumption
<1>1. Spec => Loop!Spec
  <2>1. ImplementsOuterLoop <=> Outer!Spec
    BY PTL DEF ImplementsOuterLoop
  <2> QED
    BY <2>1, ComposesOuterLoop, SameSpec, PTL
<1>2. Loop!Spec => []Loop!BackstopUnused
  BY Loop!BackstopNeverUsed
<1>3. Loop!Spec => []Loop!ReplanConsumed
  BY Loop!ReplanAlwaysConsumed
<1>4. Loop!Spec => []Loop!FrozenWorkKept
  BY Loop!FrozenWorkAlwaysKept
<1>5. Loop!Spec => []Loop!DraftIsCurrent
  BY Loop!DraftAlwaysCurrent
<1>6. Loop!Spec => []Loop!CompletedIsSynthesized
  BY Loop!CompletedAlwaysSynthesized
<1>7. Loop!Spec => []Loop!TerminalTogether
  BY Loop!AlwaysTerminalTogether
<1> QED
  BY <1>1, <1>2, <1>3, <1>4, <1>5, <1>6, <1>7, SameClaims, PTL DEF LoopHolds
=============================================================================
