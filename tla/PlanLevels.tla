----------------------------- MODULE PlanLevels -----------------------------
(***************************************************************************)
(* The validator as an algorithm: Kahn's peeling of the step DAG into      *)
(* parallel groups, which also finds the cycles.  PlanDag says what a      *)
(* valid plan is; Orchestrator compares the two over every small draft.    *)
(***************************************************************************)
EXTENDS PlanDag, Integers

Rounds(p) == 1 .. Cardinality(p.steps)

\* Mutant of Indegree: a step is counted down once a round, however many of
\* its dependencies are resolved in it.
IndegreeOnce(p) ==
  LET deg[n \in 0 .. Cardinality(p.steps)] ==
        IF n = 0 THEN [s \in p.steps |-> Cardinality(p.deps[s])]
        ELSE LET Ready == {s \in p.steps : deg[n - 1][s] = 0}
             IN  [s \in p.steps |->
                    IF s \in Ready THEN -1
                    ELSE IF p.deps[s] \cap Ready = {} THEN deg[n - 1][s]
                    ELSE deg[n - 1][s] - 1]
  IN  deg

\* indegree after n rounds of the loop: -1 marks a resolved step.
Indegree(p) ==
  LET deg[n \in 0 .. Cardinality(p.steps)] ==
        IF n = 0 THEN [s \in p.steps |-> Cardinality(p.deps[s])]
        ELSE LET Ready == {s \in p.steps : deg[n - 1][s] = 0}
             IN  [s \in p.steps |-> IF s \in Ready THEN -1
                    ELSE deg[n - 1][s] - Cardinality(p.deps[s] \cap Ready)]
  IN  deg

\* The groups in their order; the empty ones at the end are not appended.
Groups(p) == [n \in Rounds(p) |-> {s \in p.steps : Indegree(p)[n - 1][s] = 0}]

DerivesGroups(p) == UNION {Groups(p)[n] : n \in Rounds(p)} = p.steps

\* Mutant of Validates: leaves out the search for cycles.
ValidatesReferences(p) == StructureOK(p) /\ ReferencesOK(p)

\* validate_and_finalize, and revalidate of a merged plan.
Validates(p) == StructureOK(p) /\ ReferencesOK(p) /\ DerivesGroups(p)

\* The steps in the groups before the n-th.
Before(p, n) == UNION {Groups(p)[k] : k \in 1 .. n - 1}
=============================================================================
