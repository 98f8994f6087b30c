------------------------------ MODULE Metrics ------------------------------
(***************************************************************************)
(* What the analysis agent's compute tool works out over a dataset: rows   *)
(* at positions, each a value per field path.  Fields are compared as      *)
(* strings but added up as numbers: a value is what it looks like and,     *)
(* for an int or a float, what it adds up to, a whole number of Scale-ths. *)
(* Every float is one of some Scale; sums of floats are the exact ones.    *)
(* Left out: infinities, NaN, and ints that no float holds exactly.        *)
(***************************************************************************)
EXTENDS Integers, FiniteSetsExt

CONSTANT Scale

ASSUME ScaleAssumption == Scale \in Nat \ {0}

\* What str() makes of a field that is missing, or null.
None == <<"None", 0>>

Whole(n) == [kind |-> "int", str |-> <<"int", n>>, num |-> n * Scale]

Float(k) == [kind |-> "float", str |-> <<"float", k>>, num |-> k]

\* A text: that of a number looks like the number.
Text(str) == [kind |-> "text", str |-> str, num |-> 0]

Missing == [kind |-> "missing", str |-> None, num |-> 0]

\* An upstream output that is not a dict has no row.
NotARow == [f \in {} |-> Missing]

\* _normalize_dataset: where in the list its dicts are; one dict is a list of itself.
Dataset(data) == {i \in DOMAIN data : data[i] # NotARow}

Has(items, rows, field) == {i \in items : rows[i][field].kind # "missing"}

\* Mutant of Matching: values are compared as they are.
MatchingTyped(items, rows, field, value) == {i \in items : rows[i][field] = value}

Matching(items, rows, field, value) == {i \in items : rows[i][field].str = value.str}

\* _apply_filter, where no filter is an empty set of values.
Filtered(items, rows, field, values) ==
  {i \in items : \A v \in values : i \in Matching(items, rows, field, v)}

CountWhere(items, rows, field, value) == Cardinality(Matching(items, rows, field, value))

Labels(items, rows, field) == {rows[i][field].str : i \in Has(items, rows, field)}

Distinct(items, rows, field) == Cardinality(Labels(items, rows, field))

GroupBy(items, rows, field) ==
  [label \in Labels(items, rows, field) |->
     Cardinality({i \in Has(items, rows, field) : rows[i][field].str = label})]

Numeric(items, rows, field) == {i \in items : rows[i][field].kind \in {"int", "float"}}

Total(items, rows, field) ==
  LET value(i) == rows[i][field].num IN MapThenSumSet(value, Numeric(items, rows, field))

\* _numeric_metric, in Scale-ths.  The average is rounded to four places: it is told in
\* ten-thousandths, a tie rounded up.
NumericMetric(items, rows, field, op) ==
  LET numeric == Numeric(items, rows, field)
      values  == {rows[i][field].num : i \in numeric}
      count   == Cardinality(numeric)
  IN  IF numeric = {} THEN 0
      ELSE CASE op = "sum" -> Total(items, rows, field)
             [] op = "average" ->
                  (20000 * Total(items, rows, field) + Scale * count) \div (2 * (Scale * count))
             [] op = "min" -> Min(values)
             [] op = "max" -> Max(values)

\* _safe_eval_formula on m[i] * 100 / m[j]: no number for a metric that was not
\* asked for, for a group_by, and for a division by zero.
Percentage(metrics, i, j) ==
  IF {i, j} \subseteq DOMAIN metrics /\ metrics[j] # 0
  THEN [error |-> "none", times |-> metrics[i] * 100, by |-> metrics[j]]
  ELSE [error |-> "formula", times |-> 0, by |-> 1]
=============================================================================
