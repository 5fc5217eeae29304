------------------------------- MODULE Findings -------------------------------
(***************************************************************************)
(* What every document says of a diagnostic: the severity, the level on    *)
(* display, the evidence and the guarantee that StructGuard derives from   *)
(* its level, its code and its details, and the documents made of them.    *)
(*                                                                         *)
(* A diagnostic is [level, code, evidence, answer]; evidence is what its   *)
(* details already say ("" when they do not; the analyses of memory and    *)
(* security quote a line of the source there), answer is the first line    *)
(* of what a solver printed, or Dafny's status.  No analysis sets a        *)
(* guarantee in the details itself.                                        *)
(***************************************************************************)
EXTENDS Naturals, Sequences

Levels == {"FAILED", "WARNING", "UNKNOWN", "HEURISTIC", "BOUNDED_VERIFIED", "PROVED", "INFO"}
Guarantees == {"G1_HEURISTIC", "G2_STRUCTURAL", "G3_BOUNDED", "G4_EXECUTED",
               "G5_FORMALLY_VERIFIED"}

(***************************************************************************)
(* Codes are told apart by their first words only: Prefix gives these for  *)
(* the codes that appear in the instances.                                 *)
(***************************************************************************)
Prefix ==
    [FORMAL_SMT_ARTIFACT |-> "FORMAL", FORMAL_VIPER_ARTIFACT |-> "FORMAL",
     FORMAL_DAFNY_ARTIFACT |-> "FORMAL", FORMAL_DAFNY_MANIFEST |-> "FORMAL",
     FORMAL_DAFNY_NO_CONTRACTS |-> "FORMAL", FORMAL_MANIFEST |-> "FORMAL",
     FORMAL_NO_CLASSES |-> "FORMAL", PIPELINE_FORMAL_ARTIFACT |-> "PIPELINE",
     PIPELINE_NO_ARTIFACTS |-> "PIPELINE", STRICT_AST_FAILED |-> "STRICT_AST",
     SEC_OVERFLOW_RISK |-> "SEC", FUZZ_NO_COUNTEREXAMPLE |-> "FUZZ",
     MEM_DOUBLE_DELETE |-> "MEM", INVARIANT_NOT_PRESERVED |-> "INVARIANT",
     POSTCONDITION_FAILED |-> "POSTCONDITION",
     BOUNDED_CONTRACTS_HOLD |-> "BOUNDED", NO_CONTRACTS |-> "NO", NO_FEASIBLE_STATE |-> "NO",
     CI_GATE_PASSED |-> "CI_GATE", CI_GATE_FAILED |-> "CI_GATE"]
Codes == DOMAIN Prefix
Gates == {"CI_GATE_PASSED", "CI_GATE_FAILED"}

\* infer_evidence: by the first words of the code, then by the level.
EvidenceByPrefix ==
    [FORMAL |-> "smt_solver_or_formal_bridge", STRICT_AST |-> "clang_ast_gate",
     CLANG |-> "clang_ast", PIPELINE |-> "clang_ast_pipeline",
     SEC |-> "security_heuristic", FUZZ |-> "abstract_test_generation",
     LINT |-> "contract_lint", DSL |-> "contract_dsl", DOCS |-> "documentation_model",
     PERF |-> "static_performance_model", HEURISTIC |-> "heuristic_recommendation"]

EvidenceOf(d) ==
    LET prefix == Prefix[d.code]
    IN  IF prefix \in DOMAIN EvidenceByPrefix THEN EvidenceByPrefix[prefix]
        ELSE IF d.level = "PROVED" THEN "formal_backend"
        ELSE IF d.level = "BOUNDED_VERIFIED" \/ prefix \in {"INVARIANT", "POSTCONDITION", "BOUNDED"}
             THEN "bounded_symbolic_execution"
        ELSE CASE d.level = "HEURISTIC" -> "heuristic_analysis"
               [] d.level = "UNKNOWN" -> "insufficient_model_coverage"
               [] OTHER -> "static_analysis"

\* enriched_details: what the details already say is kept.
Enriched(d) == IF d.evidence = "" THEN [d EXCEPT !.evidence = EvidenceOf(d)] ELSE d

Structural == {"BINDING", "CONTRACT", "DSL", "MEM", "POLICY", "SOURCE", "STRICT_AST", "CLANG"}
Heuristic == {"SEC", "FUZZ", "PERF", "BENCH", "DOCS", "HEURISTIC", "ASSIST"}
Stated == {"INVARIANT", "POSTCONDITION", "PRECONDITION"}

\* infer_guarantee: of the diagnostic as it was reported, before enriched_details.
InferGuarantee(d) ==
    LET prefix == Prefix[d.code]
        formal == d.level = "PROVED"
                    \/ d.evidence \in {"formal_backend", "smt_solver_or_formal_bridge"}
        executed == d.evidence \in {"native_execution", "test_execution", "native_fuzzing"}
        bounded == d.level = "BOUNDED_VERIFIED" \/ prefix = "BOUNDED"
                    \/ d.evidence = "bounded_symbolic_execution"
        structural == prefix \in Structural
                    \/ d.evidence \in {"binding", "contract_dsl", "clang_ast",
                                       "clang_ast_gate", "static_analysis"}
        heuristic == d.level = "HEURISTIC" \/ prefix \in Heuristic
                    \/ d.evidence \in {"heuristic_analysis", "abstract_fuzzing",
                                       "abstract_test_generation"}
    IN  IF formal THEN "G5_FORMALLY_VERIFIED"
        ELSE IF executed THEN "G4_EXECUTED"
        ELSE IF bounded THEN "G3_BOUNDED"
        ELSE IF structural THEN "G2_STRUCTURAL"
        ELSE IF ~heuristic /\ d.level \in {"FAILED", "WARNING"} /\ prefix \in Stated
             THEN "G3_BOUNDED"
        ELSE "G1_HEURISTIC"

\* A mistake: the guarantee is inferred from the enriched details.
GuaranteeOfEnriched(d) == InferGuarantee(Enriched(d))

\* guarantee_to_dict
Guarantee(d) == InferGuarantee(d)

DisplayLevel(level) ==
    CASE level = "BOUNDED_VERIFIED" -> "BOUNDED_CHECK_PASSED"
      [] level = "PROVED" -> "FORMALLY_VERIFIED"
      [] OTHER -> level

\* A mistake: what is not known counts as an error.
SeverityAlarmed(level) ==
    CASE level \in {"FAILED", "UNKNOWN"} -> "error"
      [] level = "WARNING" -> "warning"
      [] level \in {"HEURISTIC", "BOUNDED_VERIFIED", "PROVED"} -> "note"
      [] OTHER -> "info"

\* severity_from_level
Severity(level) ==
    CASE level = "FAILED" -> "error"
      [] level \in {"WARNING", "UNKNOWN"} -> "warning"
      [] level \in {"HEURISTIC", "BOUNDED_VERIFIED", "PROVED"} -> "note"
      [] OTHER -> "info"

(***************************************************************************)
(* Documents.  A row is what a reader sees of one diagnostic: a mark and   *)
(* its guarantee, with the solver's answer among the details.              *)
(***************************************************************************)
Row(mark, d) == [mark |-> mark, guarantee |-> Guarantee(d), answer |-> d.answer]

\* write_json, write_html and print_report show levels.
LevelRows(report) ==
    [i \in DOMAIN report |-> Row(DisplayLevel(report[i].level), report[i])]

\* Finding.from_diagnostic: the severity and the guarantee are fixed here, and
\* the canonical report keeps them.
Finding(d) ==
    [severity |-> Severity(d.level), level |-> d.level, guarantee |-> Guarantee(d),
     evidence |-> Enriched(d).evidence, answer |-> d.answer]
FindingsOf(report) == [i \in DOMAIN report |-> Finding(report[i])]

FindingRow(mark, x) == [mark |-> mark, guarantee |-> x.guarantee, answer |-> x.answer]

\* The reports of findings in JSON, HTML and Markdown.
FindingRows(found) == [i \in DOMAIN found |-> FindingRow(found[i].severity, found[i])]

\* write_junit_report
JUnitMark(x) ==
    IF x.severity = "error" THEN "failure" ELSE IF x.level = "UNKNOWN" THEN "skipped" ELSE "passed"
JUnitRows(found) == [i \in DOMAIN found |-> FindingRow(JUnitMark(found[i]), found[i])]

\* sarif_document and, from the canonical report, render_sarif_from_canonical
SarifMark(severity) == IF severity \in {"error", "warning"} THEN severity ELSE "note"
SarifRows(found) == [i \in DOMAIN found |-> FindingRow(SarifMark(found[i].severity), found[i])]

\* render_junit_from_canonical: what is not known is not skipped, it passes.
DerivedJUnitRows(found) ==
    [i \in DOMAIN found |->
        FindingRow(IF found[i].severity = "error" THEN "failure" ELSE "passed", found[i])]

\* The documents of `ci`, which leave its own gate out.
NotGates(report) == {i \in DOMAIN report : report[i].code \notin Gates}
CiJUnitMark(level) ==
    CASE level = "FAILED" -> "failure" [] level = "UNKNOWN" -> "skipped" [] OTHER -> "passed"
CiJUnitRows(report) ==
    [i \in NotGates(report) |-> Row(CiJUnitMark(report[i].level), report[i])]
CiSarifMark(level) ==
    CASE level = "FAILED" -> "error"
      [] level \in {"WARNING", "UNKNOWN"} -> "warning"
      [] OTHER -> "note"
CiSarifRows(report) ==
    [i \in NotGates(report) |-> Row(CiSarifMark(report[i].level), report[i])]

\* print_github_annotations: only failures and warnings, gate included.
AnnotationRows(report) ==
    [i \in {j \in DOMAIN report : report[j].level \in {"FAILED", "WARNING"}} |->
        Row(IF report[i].level = "FAILED" THEN "error" ELSE "warning", report[i])]

=============================================================================
