------------------------------ MODULE Grading ------------------------------
(* Deterministic grading of model outputs: domains/evaluation.  Outputs and  *)
(* expected values are texts, which may or may not be JSON, or structures:   *)
(* [object |-> field -> value], [array |-> sequence of values] or scalars.   *)
EXTENDS Integers, Sequences, FiniteSets, SequencesExt

CONSTANTS
  Texts,      \* strings
  Folded,     \* [Texts -> Texts]: str.casefold
  Json,       \* [Texts -> structures \cup {NotJson}]: json.loads
  NotJson,    \* what a text that is not strict JSON parses to
  Conforming  \* schema -> the structures it accepts; no entry when it is broken

ASSUME TextAssumption == Folded \in [Texts -> Texts] /\ DOMAIN Json = Texts /\ NotJson \notin Texts

IsText(v) == v \in Texts
IsObject(v) == ~IsText(v) /\ v # NotJson /\ "object" \in DOMAIN v
IsArray(v) == ~IsText(v) /\ v # NotJson /\ "array" \in DOMAIN v

---------------------------------------------------------------------------
(* Grader configurations *)

GraderTypes == {"exact_match", "case_insensitive_exact_match", "allowed_label",
                "json_schema", "field_comparison", "array_comparison"}

\* What the constructors of configuration.py accept.
ValidGrader(g) ==
  /\ g.type \in GraderTypes
  /\ g.type = "allowed_label" => g.labels # {}
  /\ g.type = "field_comparison" => g.fields # <<>> /\ IsInjective(g.fields)

\* A test suite has cases, and no two with one id.
ValidSuite(cases) ==
  /\ cases \in Seq(Range(cases)) /\ cases # <<>>
  /\ \A i, j \in DOMAIN cases : cases[i].id = cases[j].id => i = j
  /\ \A i \in DOMAIN cases : ValidGrader(cases[i].grader)

---------------------------------------------------------------------------
(* The graders: "passed", a failure reason, or "misconfigured" for the      *)
(* EvaluationConfigurationError that a mistake of the author raises.        *)

\* A text is parsed, anything else is taken as it is.
Structured(v) == IF IsText(v) THEN Json[v] ELSE v

Verdict(good, reason) == IF good THEN "passed" ELSE reason

GradeSchema(actual, schema) ==
  CASE ~IsText(actual) \/ Structured(actual) = NotJson -> "invalid_json"
    [] IsText(actual) /\ Structured(actual) # NotJson ->
         IF schema \in DOMAIN Conforming
         THEN Verdict(Structured(actual) \in Conforming[schema], "schema_validation_failed")
         ELSE "misconfigured"

\* One configured field: the author's mistake is noticed before the player's.
GradeField(f, expected, actual) ==
  CASE f \notin DOMAIN expected.object -> "misconfigured"
    [] f \in DOMAIN expected.object /\ f \notin DOMAIN actual.object -> "missing_required_field"
    [] f \in DOMAIN expected.object \cap DOMAIN actual.object ->
         Verdict(actual.object[f] = expected.object[f], "field_mismatch")

\* The first field in trouble decides.
GradeFields(expected, actual, fields) ==
  LET verdicts == [i \in DOMAIN fields |-> GradeField(fields[i], expected, actual)]
      troubles == SelectSeq(verdicts, LAMBDA v : v # "passed")
  IN IF troubles = <<>> THEN "passed" ELSE Head(troubles)

GradeObject(expected, output, fields) ==
  LET actual == Structured(output)
  IN CASE ~IsObject(expected) -> "misconfigured"
       [] IsObject(expected) /\ actual = NotJson -> "invalid_json"
       [] IsObject(expected) /\ actual # NotJson /\ ~IsObject(actual) -> "invalid_output"
       [] IsObject(expected) /\ IsObject(actual) -> GradeFields(expected, actual, fields)

\* Each expected item takes one equal item of what remains, and nothing is
\* left over: the arrays are equal as bags.
SameItems(expected, actual) ==
  LET Copies(s, x) == Cardinality({i \in DOMAIN s : s[i] = x})
  IN  \A x \in Range(expected) \cup Range(actual) : Copies(expected, x) = Copies(actual, x)

GradeArray(expected, output, ordered) ==
  LET actual == Structured(output)
      same == IF ordered THEN expected.array = actual.array
                         ELSE SameItems(expected.array, actual.array)
  IN CASE ~IsArray(expected) -> "misconfigured"
       [] IsArray(expected) /\ actual = NotJson -> "invalid_json"
       [] IsArray(expected) /\ actual # NotJson /\ ~IsArray(actual) -> "expected_array"
       [] IsArray(expected) /\ IsArray(actual) -> Verdict(same, "array_mismatch")

\* GraderRegistry.resolve and the built-in graders.
Grade(expected, output, g) ==
  CASE g.type = "exact_match" -> Verdict(output = expected, "output_mismatch")
    [] g.type = "case_insensitive_exact_match" ->
         Verdict(IsText(expected) /\ IsText(output) /\ Folded[expected] = Folded[output],
                 "output_mismatch")
    [] g.type = "allowed_label" ->
         Verdict(IsText(output) /\ output \in g.labels, "invalid_label")
    [] g.type = "json_schema" -> GradeSchema(output, g.schema)
    [] g.type = "field_comparison" -> GradeObject(expected, output, g.fields)
    [] g.type = "array_comparison" -> GradeArray(expected, output, g.ordered)

---------------------------------------------------------------------------
(* EvaluationEngine.evaluate_batch *)

\* Outputs: test-case id -> output, partial.
GradeCase(case, outputs) ==
  IF case.id \in DOMAIN outputs
  THEN Grade(case.expected, outputs[case.id], case.grader)
  ELSE "missing_output"

\* The grades of all cases, in their order.
EvaluateBatch(cases, outputs) == [i \in DOMAIN cases |-> GradeCase(cases[i], outputs)]

Misconfigured(grades) == \E i \in DOMAIN grades : grades[i] = "misconfigured"
=============================================================================
