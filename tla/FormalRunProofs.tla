---------------------------- MODULE FormalRunProofs ----------------------------
(***************************************************************************)
(* Proofs about FormalRun, for any projects, reports of `ci`, requested    *)
(* documents and numbers of commands.  The report a document was made from *)
(* is gone when the document is read; the invariant says that for every    *)
(* command there was one report that all its documents tell.  For the      *)
(* verdicts, the solver's query and what the body does are compared.       *)
(***************************************************************************)
EXTENDS FormalRun, WellFoundedInduction, TLAPS

Named == {"FORMAL_SMT_ARTIFACT", "FORMAL_VIPER_ARTIFACT", "FORMAL_MANIFEST", "FORMAL_NO_CLASSES",
          "FORMAL_DAFNY_ARTIFACT", "FORMAL_DAFNY_NO_CONTRACTS", "FORMAL_DAFNY_MANIFEST",
          "PIPELINE_FORMAL_ARTIFACT", "PIPELINE_NO_ARTIFACTS", "CI_GATE_PASSED", "CI_GATE_FAILED"}
SolverAnswers == {"", "sat", "unsat", "unknown", "GENERATED", "UNKNOWN", "UNSUPPORTED", "VERIFIED",
                  "FAILED"}
Diags == [level : Levels, code : Codes \cup Named, evidence : Evidence \cup {""},
          answer : SolverAnswers]
FormalEvidence == {"formal_backend", "smt_solver_or_formal_bridge"}

\* A diagnostic that claims a proof has a solver's answer for it.
Honest(d) ==
    /\ d.level = "PROVED" => d.answer \in {"unsat", "VERIFIED"}
    /\ d.evidence \notin FormalEvidence

Reports == {r \in Seq(Diags) : \A i \in DOMAIN r : Honest(r[i])}

FailureMarks == {"FAILED", "error", "failure"}

\* A row shows a diagnostic, whatever its mark looks like.
Shows(row, d) ==
    /\ row.guarantee = Guarantee(d)
    /\ row.answer = d.answer
    /\ row.mark \in FailureMarks <=> d.level = "FAILED"
    /\ row.mark = "FORMALLY_VERIFIED" => d.level = "PROVED"

\* A document tells a report if its rows show diagnostics of it.
Tells(doc, r) ==
    /\ \A i \in DOMAIN doc.rows : i \in DOMAIN r /\ Shows(doc.rows[i], r[i])
    /\ \A i \in DOMAIN doc.found : i \in DOMAIN r /\ doc.found[i] = Finding(r[i])

TypeInv ==
    /\ run \in Nat
    /\ pc \in {"export", "write", "idle"}
    /\ report \in Reports
    /\ DOMAIN docs = Documents
    /\ \A o \in Documents : docs[o].run \in Nat /\ docs[o].run <= run

\* Nothing of this command is written before its report is made, and then it tells
\* that report.
ThisRun ==
    /\ pc = "export" => \A o \in Documents : docs[o].run # run
    /\ pc = "write" => \A o \in Documents : docs[o].run = run => Tells(docs[o], report)

\* All the documents of a command tell one report.
OneReport(n, r) == \A o \in Documents : docs[o].run = n => Tells(docs[o], r)
DocsOK == \A n \in Nat : \E r \in Reports : OneReport(n, r)

IInv == TypeInv /\ ThisRun /\ DocsOK

-----------------------------------------------------------------------------
(***************************************************************************)
(* What the documents make of a diagnostic.                                *)
(***************************************************************************)

\* Whatever function marks it, a diagnostic is shown as a failure exactly if its
\* level is FAILED.
LEMMA Marks ==
    ASSUME NEW level \in Levels, NEW x, x.level = level, x.severity = Severity(level)
    PROVE  /\ DisplayLevel(level) \in FailureMarks <=> level = "FAILED"
           /\ DisplayLevel(level) = "FORMALLY_VERIFIED" => level = "PROVED"
           /\ Severity(level) \in FailureMarks <=> level = "FAILED"
           /\ JUnitMark(x) \in FailureMarks <=> level = "FAILED"
           /\ SarifMark(Severity(level)) \in FailureMarks <=> level = "FAILED"
           /\ CiJUnitMark(level) \in FailureMarks <=> level = "FAILED"
           /\ CiSarifMark(level) \in FailureMarks <=> level = "FAILED"
           /\ "FORMALLY_VERIFIED" \notin {Severity(level), JUnitMark(x),
                    SarifMark(Severity(level)), CiJUnitMark(level), CiSarifMark(level)}
<1> USE DEF Levels, FailureMarks
<1>1. /\ DisplayLevel(level) \in FailureMarks <=> level = "FAILED"
      /\ DisplayLevel(level) = "FORMALLY_VERIFIED" => level = "PROVED"
  BY DEF DisplayLevel
<1>2. /\ Severity(level) \in {"error", "warning", "note", "info"}
      /\ Severity(level) = "error" <=> level = "FAILED"
  BY DEF Severity
<1>3. /\ JUnitMark(x) \in {"failure", "skipped", "passed"}
      /\ JUnitMark(x) = "failure" <=> level = "FAILED"
  BY <1>2 DEF JUnitMark
<1>4. /\ SarifMark(Severity(level)) \in {"error", "warning", "note"}
      /\ SarifMark(Severity(level)) = "error" <=> level = "FAILED"
  BY <1>2 DEF SarifMark
<1>5. /\ CiJUnitMark(level) \in {"failure", "skipped", "passed"}
      /\ CiJUnitMark(level) = "failure" <=> level = "FAILED"
  BY DEF CiJUnitMark
<1>6. /\ CiSarifMark(level) \in {"error", "warning", "note"}
      /\ CiSarifMark(level) = "error" <=> level = "FAILED"
  BY DEF CiSarifMark
<1> QED BY <1>1, <1>2, <1>3, <1>4, <1>5, <1>6

LEMMA ReportType ==
    ASSUME NEW r \in Reports, NEW i \in DOMAIN r
    PROVE  r[i] \in Diags /\ r[i].level \in Levels /\ Honest(r[i])
<1>1. r \in Seq(Diags) /\ Honest(r[i])
  BY DEF Reports
<1>2. r[i] \in Diags
  BY <1>1
<1>3. r[i].level \in Levels
  BY <1>2 DEF Diags
<1> QED BY <1>1, <1>2, <1>3

\* The documents made of levels show the report.
LEMMA LevelRowsTell ==
    ASSUME NEW r \in Reports
    PROVE  /\ \A i \in DOMAIN LevelRows(r) : i \in DOMAIN r /\ Shows(LevelRows(r)[i], r[i])
           /\ \A i \in DOMAIN CiJUnitRows(r) : i \in DOMAIN r /\ Shows(CiJUnitRows(r)[i], r[i])
           /\ \A i \in DOMAIN CiSarifRows(r) : i \in DOMAIN r /\ Shows(CiSarifRows(r)[i], r[i])
           /\ \A i \in DOMAIN AnnotationRows(r) :
                i \in DOMAIN r /\ Shows(AnnotationRows(r)[i], r[i])
<1>1. \A i \in DOMAIN r : r[i].level \in Levels
  BY ReportType
<1>2. \A d, mark : /\ Row(mark, d).mark = mark /\ Row(mark, d).guarantee = Guarantee(d)
                   /\ Row(mark, d).answer = d.answer
  BY DEF Row
<1>3. \A level \in Levels :
        /\ DisplayLevel(level) \in FailureMarks <=> level = "FAILED"
        /\ DisplayLevel(level) = "FORMALLY_VERIFIED" => level = "PROVED"
        /\ CiJUnitMark(level) \in FailureMarks <=> level = "FAILED"
        /\ CiSarifMark(level) \in FailureMarks <=> level = "FAILED"
        /\ CiJUnitMark(level) # "FORMALLY_VERIFIED" /\ CiSarifMark(level) # "FORMALLY_VERIFIED"
  <2> SUFFICES ASSUME NEW level \in Levels
               PROVE  /\ DisplayLevel(level) \in FailureMarks <=> level = "FAILED"
                      /\ DisplayLevel(level) = "FORMALLY_VERIFIED" => level = "PROVED"
                      /\ CiJUnitMark(level) \in FailureMarks <=> level = "FAILED"
                      /\ CiSarifMark(level) \in FailureMarks <=> level = "FAILED"
                      /\ CiJUnitMark(level) # "FORMALLY_VERIFIED"
                      /\ CiSarifMark(level) # "FORMALLY_VERIFIED"
    OBVIOUS
  <2> DEFINE x == [level |-> level, severity |-> Severity(level)]
  <2>1. x.level = level /\ x.severity = Severity(level)
    OBVIOUS
  <2> HIDE DEF x
  <2> QED BY <2>1, Marks
<1>4. \A i \in DOMAIN LevelRows(r) : i \in DOMAIN r /\ Shows(LevelRows(r)[i], r[i])
  BY <1>1, <1>2, <1>3 DEF LevelRows, Shows
<1>5. \A i \in DOMAIN CiJUnitRows(r) : i \in DOMAIN r /\ Shows(CiJUnitRows(r)[i], r[i])
  BY <1>1, <1>2, <1>3 DEF CiJUnitRows, NotGates, Shows
<1>6. \A i \in DOMAIN CiSarifRows(r) : i \in DOMAIN r /\ Shows(CiSarifRows(r)[i], r[i])
  BY <1>1, <1>2, <1>3 DEF CiSarifRows, NotGates, Shows
<1>7. \A i \in DOMAIN AnnotationRows(r) : i \in DOMAIN r /\ Shows(AnnotationRows(r)[i], r[i])
  BY <1>2 DEF AnnotationRows, Shows, FailureMarks
<1> QED BY <1>4, <1>5, <1>6, <1>7

\* So do the documents made of findings, at once or from the canonical report later.
LEMMA FindingRowsTell ==
    ASSUME NEW r \in Reports, NEW found,
           \A i \in DOMAIN found : i \in DOMAIN r /\ found[i] = Finding(r[i])
    PROVE  /\ \A i \in DOMAIN FindingRows(found) : i \in DOMAIN r /\ Shows(FindingRows(found)[i], r[i])
           /\ \A i \in DOMAIN JUnitRows(found) : i \in DOMAIN r /\ Shows(JUnitRows(found)[i], r[i])
           /\ \A i \in DOMAIN SarifRows(found) : i \in DOMAIN r /\ Shows(SarifRows(found)[i], r[i])
           /\ \A i \in DOMAIN DerivedJUnitRows(found) :
                i \in DOMAIN r /\ Shows(DerivedJUnitRows(found)[i], r[i])
<1>1. \A i \in DOMAIN found :
        /\ r[i].level \in Levels
        /\ found[i].level = r[i].level /\ found[i].severity = Severity(r[i].level)
        /\ found[i].guarantee = Guarantee(r[i]) /\ found[i].answer = r[i].answer
  <2>1. \A i \in DOMAIN found : r[i].level \in Levels
    BY ReportType
  <2>2. \A d : /\ Finding(d).level = d.level /\ Finding(d).severity = Severity(d.level)
               /\ Finding(d).guarantee = Guarantee(d) /\ Finding(d).answer = d.answer
    BY DEF Finding
  <2> QED BY <2>1, <2>2
<1>2. \A x, mark : /\ FindingRow(mark, x).mark = mark
                   /\ FindingRow(mark, x).guarantee = x.guarantee
                   /\ FindingRow(mark, x).answer = x.answer
  BY DEF FindingRow
<1>3. \A i \in DOMAIN found :
        /\ found[i].severity \in FailureMarks <=> r[i].level = "FAILED"
        /\ JUnitMark(found[i]) \in FailureMarks <=> r[i].level = "FAILED"
        /\ SarifMark(found[i].severity) \in FailureMarks <=> r[i].level = "FAILED"
        /\ "FORMALLY_VERIFIED" \notin {found[i].severity, JUnitMark(found[i]),
                                       SarifMark(found[i].severity)}
  <2> SUFFICES ASSUME NEW i \in DOMAIN found
               PROVE  /\ found[i].severity \in FailureMarks <=> r[i].level = "FAILED"
                      /\ JUnitMark(found[i]) \in FailureMarks <=> r[i].level = "FAILED"
                      /\ SarifMark(found[i].severity) \in FailureMarks <=> r[i].level = "FAILED"
                      /\ "FORMALLY_VERIFIED" \notin {found[i].severity, JUnitMark(found[i]),
                                                     SarifMark(found[i].severity)}
    OBVIOUS
  <2> QED BY <1>1, Marks
<1>4. \A i \in DOMAIN FindingRows(found) : i \in DOMAIN r /\ Shows(FindingRows(found)[i], r[i])
  BY <1>1, <1>2, <1>3 DEF FindingRows, Shows
<1>5. \A i \in DOMAIN JUnitRows(found) : i \in DOMAIN r /\ Shows(JUnitRows(found)[i], r[i])
  BY <1>1, <1>2, <1>3 DEF JUnitRows, Shows
<1>6. \A i \in DOMAIN SarifRows(found) : i \in DOMAIN r /\ Shows(SarifRows(found)[i], r[i])
  BY <1>1, <1>2, <1>3 DEF SarifRows, Shows
<1>7. \A i \in DOMAIN found : found[i].severity = "error" <=> r[i].level = "FAILED"
  BY <1>1 DEF Severity, Levels
<1>8. \A i \in DOMAIN DerivedJUnitRows(found) :
        i \in DOMAIN r /\ Shows(DerivedJUnitRows(found)[i], r[i])
  BY <1>1, <1>2, <1>7 DEF DerivedJUnitRows, Shows, FailureMarks
<1> QED BY <1>4, <1>5, <1>6, <1>8

\* The findings of a report keep its diagnostics.
LEMMA FindingsKeep ==
    ASSUME NEW r
    PROVE  \A i \in DOMAIN FindingsOf(r) : i \in DOMAIN r /\ FindingsOf(r)[i] = Finding(r[i])
BY DEF FindingsOf

\* Whatever is written or derived tells the report it is made of.
LEMMA RowsTell ==
    ASSUME report \in Reports, NEW o \in Range(Outputs) \cup Range(CiOutputs) \cup {"console"}
    PROVE  \A i \in DOMAIN Rows(o) : i \in DOMAIN report /\ Shows(Rows(o)[i], report[i])
<1>1. o \in {"json", "html", "findings_html", "findings_junit", "findings_sarif", "report_json",
             "junit", "sarif", "annotations", "console"}
  BY DEF Range, Outputs, CiOutputs
<1>2. \/ Rows(o) = LevelRows(report)
      \/ Rows(o) = FindingRows(FindingsOf(report))
      \/ Rows(o) = JUnitRows(FindingsOf(report))
      \/ Rows(o) = SarifRows(FindingsOf(report))
      \/ Rows(o) = CiJUnitRows(report)
      \/ Rows(o) = CiSarifRows(report)
      \/ Rows(o) = AnnotationRows(report)
  BY <1>1 DEF Rows
<1> QED BY <1>2, LevelRowsTell, FindingRowsTell, FindingsKeep
-----------------------------------------------------------------------------
(***************************************************************************)
(* The invariant is inductive.                                             *)
(***************************************************************************)

\* A report to which an honest diagnostic is added is a report.
LEMMA Added ==
    ASSUME NEW r \in Reports, NEW d \in Diags, Honest(d)
    PROVE  Append(r, d) \in Reports
<1>1. r \in Seq(Diags)
  BY DEF Reports
<1>2. Append(r, d) \in Seq(Diags)
  BY <1>1
<1>3. \A i \in DOMAIN Append(r, d) : Honest(Append(r, d)[i])
  <2> SUFFICES ASSUME NEW i \in DOMAIN Append(r, d) PROVE Honest(Append(r, d)[i])
    OBVIOUS
  <2>1. CASE i \in DOMAIN r
    <3>1. Append(r, d)[i] = r[i]
      BY <1>1, <2>1
    <3> QED BY <2>1, <3>1, ReportType
  <2>2. CASE i \notin DOMAIN r
    <3>1. Append(r, d)[i] = d
      BY <1>1, <2>2
    <3> QED BY <3>1
  <2> QED BY <2>1, <2>2
<1> QED BY <1>2, <1>3 DEF Reports

\* What the actions report themselves.
LEMMA DHonest ==
    ASSUME NEW level \in Levels, NEW name \in Named, NEW answer \in SolverAnswers,
           level = "PROVED" => answer \in {"unsat", "VERIFIED"}
    PROVE  D(level, name, answer) \in Diags /\ Honest(D(level, name, answer))
<1> DEFINE d == D(level, name, answer)
<1>1. d = [level |-> level, code |-> name, evidence |-> "", answer |-> answer]
  BY DEF D
<1> HIDE DEF d
<1>2. d \in Diags
  BY <1>1 DEF Diags
<1>3. d.level = level /\ d.answer = answer /\ d.evidence = ""
  BY <1>1
<1>4. Honest(d)
  BY <1>3 DEF Honest, FormalEvidence
<1> QED BY <1>2, <1>4 DEF d

LEMMA EmptyReport == <<>> \in Reports
BY DEF Reports

LEMMA InitIInv == Init => IInv
<1> SUFFICES ASSUME Init PROVE IInv
  OBVIOUS
<1>1. \A o \in Documents : docs[o] = None
  BY DEF Init
<1>2. TypeInv
  BY <1>1, EmptyReport DEF Init, TypeInv, None
<1>3. ThisRun
  BY DEF Init, ThisRun
<1>4. \A o \in Documents : Tells(docs[o], <<>>)
  BY <1>1 DEF Tells, None
<1>5. DocsOK
  BY <1>4, EmptyReport DEF DocsOK, OneReport
<1> QED BY <1>2, <1>3, <1>5 DEF IInv

\* While documents stay as they are, each command's still tell one report.
LEMMA DocsStay == ASSUME IInv, UNCHANGED docs PROVE DocsOK'
BY DEF IInv, DocsOK, OneReport

\* A command that starts has written nothing yet.
LEMMA StartStep ==
    ASSUME IInv, UNCHANGED docs, run' = run + 1, pc' \in {"export", "write"},
           report' \in Reports
    PROVE  IInv'
<1>1. \A o \in Documents : docs'[o].run \in Nat /\ docs'[o].run <= run
  BY DEF IInv, TypeInv
<1>2. run \in Nat /\ DOMAIN docs = Documents
  BY DEF IInv, TypeInv
<1>3. TypeInv'
  BY <1>1, <1>2 DEF TypeInv
<1>4. ThisRun'
  BY <1>1, <1>2 DEF ThisRun
<1> QED BY <1>3, <1>4, DocsStay DEF IInv

\* A report behind an honest diagnostic is a report.
LEMMA Headed ==
    ASSUME NEW r \in Reports, NEW d \in Diags, Honest(d)
    PROVE  <<d>> \o r \in Reports
<1>1. r \in Seq(Diags)
  BY DEF Reports
<1>2. <<d>> \o r \in Seq(Diags)
  BY <1>1
<1>3. \A i \in DOMAIN (<<d>> \o r) : Honest((<<d>> \o r)[i])
  <2> SUFFICES ASSUME NEW i \in DOMAIN (<<d>> \o r) PROVE Honest((<<d>> \o r)[i])
    OBVIOUS
  <2>1. CASE i = 1
    <3>1. (<<d>> \o r)[i] = d
      BY <1>1, <2>1
    <3> QED BY <3>1
  <2>2. CASE i # 1
    <3>1. i - 1 \in DOMAIN r /\ (<<d>> \o r)[i] = r[i - 1]
      BY <1>1, <2>2
    <3> QED BY <3>1, ReportType
  <2> QED BY <2>1, <2>2
<1> QED BY <1>2, <1>3 DEF Reports

\* What the modules of `ci` report is a report.
LEMMA FoundReports == Found \subseteq Reports
<1> SUFFICES ASSUME NEW found \in Found PROVE found \in Reports
  OBVIOUS
<1> DEFINE Said == [level : Levels \ {"PROVED"}, code : Codes, evidence : Evidence, answer : {""}]
<1>1. found \in Seq(Said) /\ Evidence \cap FormalEvidence = {}
  BY FoundAssumption DEF FormalEvidence
<1>2. ASSUME NEW d \in Said PROVE d \in Diags /\ Honest(d)
  <2>1. d \in Diags
    BY DEF Diags, SolverAnswers
  <2>2. d.level # "PROVED" /\ d.evidence \notin FormalEvidence
    BY <1>1
  <2> QED BY <2>1, <2>2 DEF Honest
<1> HIDE DEF Said
<1>3. \A i \in DOMAIN found : found[i] \in Said
  BY <1>1
<1>4. found \in Seq(Diags)
  BY <1>1, <1>2, <1>3
<1> QED BY <1>2, <1>3, <1>4 DEF Reports

LEMMA StartCiStep == IInv /\ StartCi => IInv'
<1> SUFFICES ASSUME IInv, StartCi PROVE IInv'
  OBVIOUS
<1>1. PICK found \in Found :
        \/ report' = <<D("INFO", "CI_GATE_PASSED", "")>> \o found
        \/ report' = <<D("FAILED", "CI_GATE_FAILED", "")>> \o found
  BY DEF StartCi
<1>2. /\ D("INFO", "CI_GATE_PASSED", "") \in Diags /\ Honest(D("INFO", "CI_GATE_PASSED", ""))
      /\ D("FAILED", "CI_GATE_FAILED", "") \in Diags /\ Honest(D("FAILED", "CI_GATE_FAILED", ""))
  BY DHonest DEF Levels, Named, SolverAnswers
<1>3. report' \in Reports
  BY <1>1, <1>2, FoundReports, Headed
<1> QED BY <1>3, StartStep DEF StartCi

LEMMA StartFormalStep == IInv /\ StartFormal => IInv'
BY StartStep, EmptyReport DEF StartFormal

\* Exporting only adds to the report.
LEMMA ExportStep ==
    ASSUME IInv, pc = "export", pc' \in {"export", "write"}, UNCHANGED <<run, docs>>,
           report' \in Reports
    PROVE  IInv'
<1>1. TypeInv'
  BY DEF IInv, TypeInv
<1>2. ThisRun'
  BY DEF IInv, ThisRun
<1> QED BY <1>1, <1>2, DocsStay DEF IInv

LEMMA ExportMethodStep == IInv /\ ExportMethod => IInv'
<1> SUFFICES ASSUME IInv, ExportMethod PROVE IInv'
  OBVIOUS
<1>1. PICK answer \in Answers(project.methods[todo]) :
        LET level == LevelOfAnswer(answer)
            smt == D(level, "FORMAL_SMT_ARTIFACT", IF answer = "raises" THEN "" ELSE answer)
            viper == D("INFO", "FORMAL_VIPER_ARTIFACT", "")
        IN  report' = report \o (CASE command = "smt" -> <<smt>>
                                   [] command = "viper" -> <<viper>>
                                   [] command = "both" -> <<smt, viper>>)
  BY DEF ExportMethod
<1> DEFINE level == LevelOfAnswer(answer)
           said == IF answer = "raises" THEN "" ELSE answer
           smt == D(level, "FORMAL_SMT_ARTIFACT", said)
           viper == D("INFO", "FORMAL_VIPER_ARTIFACT", "")
<1>2. answer \in {"sat", "unsat", "unknown", "raises", ""}
  BY DEF Answers
<1>3. level \in Levels /\ (level = "PROVED" => answer = "unsat")
  BY <1>2 DEF LevelOfAnswer, Levels
<1>4. said \in SolverAnswers /\ (level = "PROVED" => said = "unsat")
  <2>1. said \in SolverAnswers
    BY <1>2 DEF SolverAnswers
  <2> QED BY <1>3, <2>1
<1> HIDE DEF level, said
<1>5. smt \in Diags /\ Honest(smt)
  <2>1. level = "PROVED" => said \in {"unsat", "VERIFIED"}
    BY <1>4
  <2>2. "FORMAL_SMT_ARTIFACT" \in Named
    BY DEF Named
  <2> QED BY <1>3, <1>4, <2>1, <2>2, DHonest
<1>6. viper \in Diags /\ Honest(viper)
  BY DHonest DEF Levels, Named, SolverAnswers
<1>7. report \in Reports /\ command \in {"smt", "viper", "both"}
  BY DEF IInv, TypeInv, ExportMethod
<1>8. \/ report' = report \o <<smt>>
      \/ report' = report \o <<viper>>
      \/ report' = report \o <<smt, viper>>
  BY <1>1, <1>7 DEF level, said
<1> HIDE DEF smt, viper
<1>9. report \in Seq(Diags)
  BY <1>7 DEF Reports
<1>10. /\ report \o <<smt>> = Append(report, smt)
       /\ report \o <<viper>> = Append(report, viper)
       /\ report \o <<smt, viper>> = Append(Append(report, smt), viper)
  BY <1>5, <1>6, <1>9
<1>11. Append(report, smt) \in Reports /\ Append(report, viper) \in Reports
  BY <1>5, <1>6, <1>7, Added
<1>12. Append(Append(report, smt), viper) \in Reports
  BY <1>6, <1>11, Added
<1>13. report' \in Reports
  BY <1>8, <1>10, <1>11, <1>12
<1> QED BY <1>13, ExportStep DEF ExportMethod

\* The actions that add one diagnostic of their own.
LEMMA AppendStep ==
    ASSUME IInv, pc = "export", pc' \in {"export", "write"}, UNCHANGED <<run, docs>>,
           NEW level \in Levels, NEW name \in Named, NEW answer \in SolverAnswers,
           level = "PROVED" => answer \in {"unsat", "VERIFIED"},
           report' = Append(report, D(level, name, answer))
    PROVE  IInv'
<1>1. report \in Reports
  BY DEF IInv, TypeInv
<1>2. report' \in Reports
  BY <1>1, DHonest, Added
<1> QED BY <1>2, ExportStep

LEMMA EndExportStep == IInv /\ EndExport => IInv'
<1> SUFFICES ASSUME IInv, EndExport PROVE IInv'
  OBVIOUS
<1>1. CASE project.classes
  BY <1>1, AppendStep DEF EndExport, Levels, Named, SolverAnswers
<1>2. CASE ~project.classes
  BY <1>2, AppendStep DEF EndExport, Levels, Named, SolverAnswers
<1> QED BY <1>1, <1>2

LEMMA ExportDafnyStep == IInv /\ ExportDafny => IInv'
<1> SUFFICES ASSUME IInv, ExportDafny PROVE IInv'
  OBVIOUS
<1>1. PICK status \in DafnyStatus(project.structures[todo]) :
        report' = Append(report, D(LevelOfStatus(status), "FORMAL_DAFNY_ARTIFACT", status))
  BY DEF ExportDafny
<1>2. status \in SolverAnswers
  <2>1. CASE ~project.structures[todo]
    BY <2>1 DEF SolverAnswers, DafnyStatus
  <2>2. CASE project.structures[todo]
    BY <2>2 DEF SolverAnswers, DafnyStatus
  <2> QED BY <2>1, <2>2
<1>3. LevelOfStatus(status) \in Levels /\ (LevelOfStatus(status) = "PROVED" => status = "VERIFIED")
  BY DEF LevelOfStatus, Levels
<1> QED BY <1>1, <1>2, <1>3, AppendStep DEF ExportDafny, Named

LEMMA EndDafnyStep == IInv /\ EndDafny => IInv'
<1> SUFFICES ASSUME IInv, EndDafny PROVE IInv'
  OBVIOUS
<1>1. CASE project.structures = <<>>
  BY <1>1, AppendStep DEF EndDafny, Levels, Named, SolverAnswers
<1>2. CASE project.structures # <<>>
  BY <1>2, AppendStep DEF EndDafny, Levels, Named, SolverAnswers
<1> QED BY <1>1, <1>2

LEMMA ExportPipelineStep == IInv /\ ExportPipeline => IInv'
<1> SUFFICES ASSUME IInv, ExportPipeline PROVE IInv'
  OBVIOUS
<1>1. PICK answer \in {"sat", "unsat", "unknown", ""} :
        report' = Append(report, D("INFO", "PIPELINE_FORMAL_ARTIFACT", answer))
  BY DEF ExportPipeline
<1> QED BY <1>1, AppendStep DEF ExportPipeline, Levels, Named, SolverAnswers

LEMMA EndPipelineStep == IInv /\ EndPipeline => IInv'
<1> SUFFICES ASSUME IInv, EndPipeline PROVE IInv'
  OBVIOUS
<1>1. CASE report = <<>>
  <2> DEFINE d == D("WARNING", "PIPELINE_NO_ARTIFACTS", "")
  <2>1. report' = Append(report, d)
    <3>1. report' = <<d>>
      BY <1>1 DEF EndPipeline
    <3> HIDE DEF d
    <3>2. Append(<<>>, d) = <<d>>
      OBVIOUS
    <3> QED BY <1>1, <3>1, <3>2
  <2> QED BY <2>1, AppendStep DEF EndPipeline, Levels, Named, SolverAnswers
<1>2. CASE report # <<>>
  <2>1. report' \in Reports
    BY <1>2 DEF EndPipeline, IInv, TypeInv
  <2> QED BY <2>1, ExportStep DEF EndPipeline
<1> QED BY <1>1, <1>2

\* A document of this command tells its report.
LEMMA TellsStep ==
    ASSUME IInv, pc = "write", pc' \in {"write", "idle"}, UNCHANGED run, report' \in Reports,
           pc' = "write" => report' = report,
           NEW o \in Documents, NEW doc, docs' = [docs EXCEPT ![o] = doc],
           doc.run = run, Tells(doc, report)
    PROVE  IInv'
<1>1. /\ run \in Nat /\ DOMAIN docs = Documents /\ report \in Reports
      /\ \A q \in Documents : docs[q].run \in Nat /\ docs[q].run <= run
  BY DEF IInv, TypeInv
<1>2. /\ DOMAIN docs' = Documents
      /\ \A q \in Documents : docs'[q] = IF q = o THEN doc ELSE docs[q]
  BY <1>1
<1>3. TypeInv'
  BY <1>1, <1>2 DEF TypeInv
<1>4. \A q \in Documents : docs'[q].run = run => Tells(docs'[q], report)
  BY <1>2 DEF IInv, ThisRun
<1>5. ThisRun'
  <2>1. pc' = "write" => \A q \in Documents : docs'[q].run = run' => Tells(docs'[q], report')
    BY <1>4
  <2> QED BY <2>1 DEF ThisRun, Tells
<1>6. DocsOK'
  <2> SUFFICES ASSUME NEW n \in Nat
               PROVE  \E r \in Reports : \A q \in Documents : docs'[q].run = n => Tells(docs'[q], r)
    BY DEF DocsOK, OneReport, Tells
  <2>1. CASE n = run
    BY <1>1, <1>4, <2>1
  <2>2. CASE n # run
    <3>1. PICK r \in Reports : \A q \in Documents : docs[q].run = n => Tells(docs[q], r)
      BY DEF IInv, DocsOK, OneReport
    <3>2. \A q \in Documents : docs'[q].run = n => docs'[q] = docs[q]
      BY <1>2, <2>2
    <3> QED BY <3>1, <3>2
  <2> QED BY <2>1, <2>2
<1> QED BY <1>3, <1>5, <1>6 DEF IInv

\* What is in a concatenation is in one of its parts.
LEMMA InConcatenation ==
    ASSUME NEW S, NEW T, NEW s \in Seq(S), NEW t \in Seq(T), NEW k \in DOMAIN (s \o t)
    PROVE  (s \o t)[k] \in S \cup T
<1>1. CASE k <= Len(s)
  BY <1>1
<1>2. CASE ~(k <= Len(s))
  <2>1. (s \o t)[k] = t[k - Len(s)] /\ k - Len(s) \in 1..Len(t)
    BY <1>2
  <2> QED BY <2>1
<1> QED BY <1>1, <1>2

LEMMA WriteDocumentStep == IInv /\ WriteDocument => IInv'
<1> SUFFICES ASSUME IInv, WriteDocument PROVE IInv'
  OBVIOUS
<1>1. PICK k \in Wanted :
        docs' = [docs EXCEPT ![AllOutputs[k]] =
            [run |-> run, rows |-> Rows(AllOutputs[k]),
             found |-> IF AllOutputs[k] = "report_json" THEN FindingsOf(report) ELSE <<>>]]
  BY DEF WriteDocument
<1> DEFINE o == AllOutputs[k]
           doc == [run |-> run, rows |-> Rows(o),
                   found |-> IF o = "report_json" THEN FindingsOf(report) ELSE <<>>]
<1>2. o \in Range(Outputs) \cup Range(CiOutputs)
  <2>1. k \in DOMAIN AllOutputs
    BY DEF Wanted
  <2>2. CASE command = "ci"
    <3>1. AllOutputs = Outputs \o CiOutputs
      BY <2>2 DEF AllOutputs
    <3>2. Outputs \in Seq(Range(Outputs)) /\ CiOutputs \in Seq(Range(CiOutputs))
      BY DEF Range, Outputs, CiOutputs
    <3> QED BY <2>1, <3>1, <3>2, InConcatenation
  <2>3. CASE command # "ci"
    BY <2>1, <2>3 DEF AllOutputs, Range
  <2> QED BY <2>2, <2>3
<1>3. o \in Documents
  BY <1>2 DEF Documents
<1>4. report \in Reports
  BY DEF IInv, TypeInv
<1>5. doc.run = run /\ doc.rows = Rows(o)
      /\ doc.found = IF o = "report_json" THEN FindingsOf(report) ELSE <<>>
  OBVIOUS
<1>6. docs' = [docs EXCEPT ![o] = doc]
  BY <1>1
<1> HIDE DEF o, doc
<1>7. Tells(doc, report)
  <2>1. \A i \in DOMAIN doc.rows : i \in DOMAIN report /\ Shows(doc.rows[i], report[i])
    BY <1>2, <1>4, <1>5, RowsTell
  <2>2. \A i \in DOMAIN doc.found : i \in DOMAIN report /\ doc.found[i] = Finding(report[i])
    BY <1>5, FindingsKeep
  <2> QED BY <2>1, <2>2 DEF Tells
<1> QED BY <1>3, <1>4, <1>5, <1>6, <1>7, TellsStep DEF WriteDocument

LEMMA PrintReportStep == IInv /\ PrintReport => IInv'
<1> SUFFICES ASSUME IInv, PrintReport PROVE IInv'
  OBVIOUS
<1> DEFINE doc == [run |-> run, rows |-> Rows("console"), found |-> <<>>]
<1>1. /\ pc = "write" /\ pc' = "idle" /\ run' = run /\ report' = <<>>
      /\ docs' = [docs EXCEPT !["console"] = doc]
  BY DEF PrintReport, End
<1>2. report \in Reports
  BY DEF IInv, TypeInv
<1>3. doc.run = run /\ doc.rows = Rows("console") /\ doc.found = <<>>
  OBVIOUS
<1> HIDE DEF doc
<1>4. Tells(doc, report)
  BY <1>2, <1>3, RowsTell DEF Tells
<1>5. "console" \in Documents
  BY DEF Documents
<1> QED BY <1>1, <1>3, <1>4, <1>5, EmptyReport, TellsStep

LEMMA RaiseStep == IInv /\ Raise => IInv'
<1> SUFFICES ASSUME IInv, Raise PROVE IInv'
  OBVIOUS
<1>1. pc' = "idle" /\ report' = <<>> /\ run' = run /\ docs' = docs
  BY DEF Raise, End
<1>2. TypeInv'
  BY <1>1, EmptyReport DEF IInv, TypeInv
<1>3. ThisRun'
  BY <1>1 DEF ThisRun
<1> QED BY <1>1, <1>2, <1>3, DocsStay DEF IInv

\* What is derived tells what the canonical report told.
LEMMA DeriveStep == IInv /\ Derive => IInv'
<1> SUFFICES ASSUME IInv, Derive PROVE IInv'
  OBVIOUS
<1> DEFINE source == docs["report_json"]
<1>1. PICK k \in 1..Len(Derived) :
        docs' = [o \in Documents |->
            IF \E i \in 1..k : o = Derived[i]
            THEN [run |-> source.run, rows |-> DerivedRows(o, source.found), found |-> <<>>]
            ELSE docs[o]]
  BY DEF Derive
<1>2. /\ pc' = pc /\ pc = "idle" /\ UNCHANGED <<run, report>>
  BY DEF Derive
<1>3. "report_json" \in Documents
  BY DEF Documents, Range, Outputs
<1>4. source.run \in Nat /\ source.run <= run
  BY <1>3 DEF IInv, TypeInv
<1>5. \A o \in Documents :
        \/ docs'[o] = docs[o]
        \/ /\ o \in {"derived_html", "derived_sarif", "derived_junit"}
           /\ docs'[o] = [run |-> source.run, rows |-> DerivedRows(o, source.found), found |-> <<>>]
  <2>1. \A i \in 1..k : Derived[i] \in {"derived_html", "derived_sarif", "derived_junit"}
    BY DEF Derived
  <2> QED BY <1>1, <2>1
<1>6. DOMAIN docs' = Documents
  BY <1>1
<1> HIDE DEF source
<1>7. TypeInv'
  BY <1>2, <1>4, <1>5, <1>6 DEF IInv, TypeInv
<1>8. ThisRun'
  BY <1>2 DEF ThisRun
<1>9. DocsOK'
  <2> SUFFICES ASSUME NEW n \in Nat
               PROVE  \E r \in Reports : \A q \in Documents : docs'[q].run = n => Tells(docs'[q], r)
    BY DEF DocsOK, OneReport, Tells
  <2>1. PICK r \in Reports : \A q \in Documents : docs[q].run = n => Tells(docs[q], r)
    BY DEF IInv, DocsOK, OneReport
  <2>2. ASSUME NEW q \in Documents, docs'[q].run = n, docs'[q] # docs[q]
        PROVE  Tells(docs'[q], r)
    <3>1. /\ q \in {"derived_html", "derived_sarif", "derived_junit"}
          /\ docs'[q].run = source.run
          /\ docs'[q].rows = DerivedRows(q, source.found) /\ docs'[q].found = <<>>
      <4>1. /\ q \in {"derived_html", "derived_sarif", "derived_junit"}
            /\ docs'[q] = [run |-> source.run, rows |-> DerivedRows(q, source.found), found |-> <<>>]
        BY <1>5, <2>2
      <4> QED BY <4>1
    <3>2. \A i \in DOMAIN source.found : i \in DOMAIN r /\ source.found[i] = Finding(r[i])
      BY <1>3, <2>1, <2>2, <3>1 DEF Tells, source
    <3>3. \/ DerivedRows(q, source.found) = FindingRows(source.found)
          \/ DerivedRows(q, source.found) = SarifRows(source.found)
          \/ DerivedRows(q, source.found) = DerivedJUnitRows(source.found)
      BY <3>1 DEF DerivedRows
    <3>4. \A i \in DOMAIN docs'[q].rows : i \in DOMAIN r /\ Shows(docs'[q].rows[i], r[i])
      BY <3>1, <3>2, <3>3, FindingRowsTell
    <3> QED BY <3>1, <3>4 DEF Tells
  <2> QED BY <2>1, <2>2
<1> QED BY <1>7, <1>8, <1>9 DEF IInv

LEMMA Inductive == IInv /\ [Next]_vars => IInv'
<1> SUFFICES ASSUME IInv, [Next]_vars PROVE IInv'
  OBVIOUS
<1>1. CASE StartFormal
  BY <1>1, StartFormalStep
<1>2. CASE StartCi
  BY <1>2, StartCiStep
<1>3. CASE ExportMethod
  BY <1>3, ExportMethodStep
<1>4. CASE EndExport
  BY <1>4, EndExportStep
<1>5. CASE ExportDafny
  BY <1>5, ExportDafnyStep
<1>6. CASE EndDafny
  BY <1>6, EndDafnyStep
<1>7. CASE ExportPipeline
  BY <1>7, ExportPipelineStep
<1>8. CASE EndPipeline
  BY <1>8, EndPipelineStep
<1>9. CASE WriteDocument
  BY <1>9, WriteDocumentStep
<1>10. CASE PrintReport
  BY <1>10, PrintReportStep
<1>11. CASE Raise
  BY <1>11, RaiseStep
<1>12. CASE Derive
  BY <1>12, DeriveStep
<1>13. CASE UNCHANGED vars
  <2>1. TypeInv' /\ ThisRun'
    BY <1>13 DEF vars, IInv, TypeInv, ThisRun
  <2>2. DocsOK'
    BY <1>13, DocsStay DEF vars
  <2> QED BY <2>1, <2>2 DEF IInv
<1> QED BY <1>1, <1>2, <1>3, <1>4, <1>5, <1>6, <1>7, <1>8, <1>9, <1>10, <1>11, <1>12, <1>13
        DEF Next

-----------------------------------------------------------------------------
(***************************************************************************)
(* What the invariant says of the documents.                               *)
(***************************************************************************)

\* A guarantee of the highest level is that of a proof.
LEMMA GuaranteeHonest ==
    ASSUME NEW d, Honest(d), Guarantee(d) = "G5_FORMALLY_VERIFIED"
    PROVE  d.level = "PROVED"
BY DEF Guarantee, InferGuarantee, Honest, FormalEvidence

LEMMA IInvSolvers == IInv => OnlySolversProve
<1> SUFFICES ASSUME IInv, NEW o \in Documents, NEW i \in DOMAIN docs[o].rows,
                    \/ docs[o].rows[i].guarantee = "G5_FORMALLY_VERIFIED"
                    \/ docs[o].rows[i].mark = "FORMALLY_VERIFIED"
             PROVE  docs[o].rows[i].answer \in {"unsat", "VERIFIED"}
  BY DEF OnlySolversProve
<1>1. PICK r \in Reports : Tells(docs[o], r)
  BY DEF IInv, TypeInv, DocsOK, OneReport
<1>2. i \in DOMAIN r /\ Shows(docs[o].rows[i], r[i])
  BY <1>1 DEF Tells
<1>3. Honest(r[i])
  BY <1>2, ReportType
<1>4. r[i].level = "PROVED"
  BY <1>2, <1>3, GuaranteeHonest DEF Shows
<1>5. r[i].answer \in {"unsat", "VERIFIED"}
  BY <1>3, <1>4 DEF Honest
<1> QED BY <1>2, <1>5 DEF Shows

LEMMA IInvAgree == IInv => ReportsAgree
<1> SUFFICES ASSUME IInv, NEW o \in Documents, NEW q \in Documents, docs[o].run = docs[q].run,
                    NEW i \in DOMAIN docs[o].rows \cap DOMAIN docs[q].rows
             PROVE  /\ i \in Failures(o) <=> i \in Failures(q)
                    /\ docs[o].rows[i].guarantee = docs[q].rows[i].guarantee
  BY DEF ReportsAgree
<1>1. PICK r \in Reports : Tells(docs[o], r) /\ Tells(docs[q], r)
  BY DEF IInv, TypeInv, DocsOK, OneReport
<1>2. Shows(docs[o].rows[i], r[i]) /\ Shows(docs[q].rows[i], r[i])
  BY <1>1 DEF Tells
<1> QED BY <1>2 DEF Shows, Failures, FailureMarks

LEMMA Always == Spec => []IInv
<1> QED BY InitIInv, Inductive, PTL DEF Spec

\* Nothing is ever shown as formally verified that no solver discharged, in any
\* document, whatever is reported, written, lost or derived later.
THEOREM SolversProve == Spec => []OnlySolversProve
BY Always, IInvSolvers, PTL

\* The documents of one command agree on what failed and on every guarantee, whichever
\* of them were written before the command ended, or derived after others had run.
THEOREM DocumentsAgree == Spec => []ReportsAgree
BY Always, IInvAgree, PTL
-----------------------------------------------------------------------------
(***************************************************************************)
(* What a body does, one statement after the other, and what its equations *)
(* say.                                                                    *)
(***************************************************************************)
Fields == Vars \cup {"result"}
Initial(s) == [v \in Vars \cup {"result"} |-> IF v = "result" THEN 0 ELSE s[v]]
Step(m, s, i, state) ==
    IF m.body[i].text # "comment" /\ HoldsAll(m.body[i].when, s, state)
    THEN [state EXCEPT ![m.body[i].to] = Value(m.body[i].term, s, state)]
    ELSE state

\* The states of an execution of n statements.
Executes(g, m, s, n) ==
    g = [i \in 0..n |->
            IF i = 0 THEN [v \in Vars \cup {"result"} |-> IF v = "result" THEN 0 ELSE s[v]]
            ELSE IF m.body[i].text # "comment" /\ HoldsAll(m.body[i].when, s, g[i - 1])
                 THEN [g[i - 1] EXCEPT ![m.body[i].to] = Value(m.body[i].term, s, g[i - 1])]
                 ELSE g[i - 1]]

\* A set of natural numbers has a least element.
LEMMA Least ==
    ASSUME NEW T \in SUBSET Nat, T # {}
    PROVE  \E m \in T : \A k \in T : m <= k
<1> DEFINE R == {r \in Nat \X Nat : r[1] < r[2]}
<1>1. R = OpToRel(<, Nat)
  BY DEF OpToRel
<1>2. IsWellFoundedOn(R, Nat)
  BY <1>1, NatLessThanWellFounded
<1>3. PICK m \in T : \A k \in T : <<k, m>> \notin R
  <2> HIDE DEF R
  <2> QED BY <1>2, WFMin
<1>4. ASSUME NEW k \in T, k < m PROVE FALSE
  <2>1. <<k, m>> \in R
    BY <1>4
  <2> HIDE DEF R
  <2> QED BY <1>3, <2>1
<1> HIDE DEF R
<1> QED BY <1>4

\* Every number of statements can be executed.
LEMMA ExecutionExists ==
    ASSUME NEW m, NEW s, NEW n \in Nat
    PROVE  \E g : Executes(g, m, s, n)
<1> DEFINE T == {k \in Nat : ~\E g : Executes(g, m, s, k)}
<1> SUFFICES ASSUME T # {} PROVE FALSE
  OBVIOUS
<1>1. PICK k \in T : \A j \in T : k <= j
  BY Least
<1>2. k # 0
  <2>1. 0..0 = {0}
    OBVIOUS
  <2> DEFINE g == [i \in 0..0 |-> Initial(s)]
  <2>2. Executes(g, m, s, 0)
    BY <2>1 DEF Executes, Initial
  <2> QED BY <2>2
<1>3. PICK g : Executes(g, m, s, k - 1)
  BY <1>1, <1>2
<1>4. k \in Nat /\ k - 1 \in Nat
  BY <1>1, <1>2
<1>5. \A i \in 0..(k - 1) : g[i] = IF i = 0 THEN Initial(s) ELSE Step(m, s, i, g[i - 1])
  BY <1>3 DEF Executes, Initial, Step
<1> DEFINE h == [i \in 0..k |-> IF i = k THEN Step(m, s, k, g[k - 1]) ELSE g[i]]
<1>6. \A i \in 0..k : h[i] = IF i = 0 THEN Initial(s) ELSE Step(m, s, i, h[i - 1])
  <2> TAKE i \in 0..k
  <2>1. CASE i = k
    <3>1. h[i] = Step(m, s, k, g[k - 1]) /\ h[i - 1] = g[k - 1]
      BY <1>4, <2>1
    <3> HIDE DEF h
    <3> QED BY <1>2, <2>1, <3>1
  <2>2. CASE i # k
    <3>1. i \in 0..(k - 1) /\ h[i] = g[i] /\ (i # 0 => h[i - 1] = g[i - 1])
      BY <1>4, <2>2
    <3> HIDE DEF h
    <3> QED BY <1>5, <3>1
  <2> QED BY <2>1, <2>2
<1>7. h = [i \in 0..k |-> h[i]]
  OBVIOUS
<1> HIDE DEF h
<1>8. h = [i \in 0..k |-> IF i = 0 THEN Initial(s) ELSE Step(m, s, i, h[i - 1])]
  BY <1>6, <1>7
<1>9. Executes(h, m, s, k)
  BY <1>8 DEF Executes, Initial, Step
<1> QED BY <1>1, <1>9

\* An execution takes the statements one by one.
LEMMA ExecutedByStates ==
    ASSUME NEW m, NEW s, Len(m.body) \in Nat
    PROVE  \E h : /\ h[0] = Initial(s)
                  /\ \A i \in 1..Len(m.body) : h[i] = Step(m, s, i, h[i - 1])
                  /\ Executed(m, s) = h[Len(m.body)]
<1> DEFINE n == Len(m.body)
           h == CHOOSE g : Executes(g, m, s, n)
<1>1. Executed(m, s) = h[n]
  BY DEF Executed, Executes
<1>2. Executes(h, m, s, n)
  BY ExecutionExists
<1> HIDE DEF h
<1>3. 0 \in 0..n /\ \A i \in 1..n : i \in 0..n /\ i # 0
  OBVIOUS
<1>4. h[0] = Initial(s) /\ \A i \in 1..n : h[i] = Step(m, s, i, h[i - 1])
  BY <1>2, <1>3 DEF Executes, Initial, Step
<1> QED BY <1>1, <1>4

\* What a method is that the translation is made for.
LEMMA TameBody ==
    ASSUME NEW m \in AllMethods, Tame(m)
    PROVE  /\ "result" \notin Vars
           /\ Len(m.body) \in Nat /\ DOMAIN m.body = 1..Len(m.body)
           /\ m.inits = <<>> /\ Goals(m) # {}
           /\ \A i \in 1..Len(m.body) :
                /\ m.body[i].when = {} /\ m.body[i].text = "plain"
                /\ m.body[i].to \in Fields
                /\ m.body[i].term \in Terms(Vars \cup {"zero"})
                /\ m.body[i].to = "result" => i = Len(m.body)
                /\ \A j \in 1..(i - 1) :
                    /\ m.body[j].to # m.body[i].to
                    /\ m.body[i].to # "result" => m.body[j].to # m.body[i].term.var
           /\ \A p \in Goals(m) :
                /\ p \in Conditions(Vars \cup {"zero", "result"})
                /\ p.op # "other"
                /\ p.l.var = "result" \/ p.r.var = "result" =>
                    Len(m.body) > 0 /\ m.body[Len(m.body)].to = "result"
<1>1. "result" \notin Vars /\ m.body \in Seq(Assignments)
      /\ Goals(m) \subseteq Conditions(Vars \cup {"zero", "result"})
  BY MethodsAssumption
<1>2. Len(m.body) \in Nat /\ DOMAIN m.body = 1..Len(m.body)
  BY <1>1
<1>3. \A i \in 1..Len(m.body) : m.body[i] \in Assignments
  BY <1>1
<1>4. \A i \in 1..Len(m.body) :
        m.body[i].to \in Fields /\ m.body[i].term \in Terms(Vars \cup {"zero"})
  BY <1>3 DEF Assignments, Fields
<1> QED BY <1>1, <1>2, <1>4 DEF Tame

\* What a term that is no result is worth.
LEMMA TermValue ==
    ASSUME NEW t \in Terms(Vars \cup {"zero"}), NEW s, NEW x, NEW y,
           \A v \in Vars : s[v] \in Int
    PROVE  /\ (\A v \in Vars : x[v] \in Int) => Value(t, s, x) \in Int
           /\ (t.var \in Vars => x[t.var] = y[t.var]) => Value(t, s, x) = Value(t, s, y)
<1>1. t.var \in Vars \cup {"zero"} /\ t.plus \in Int
  BY DEF Terms
<1> QED BY <1>1 DEF Value

\* After i statements of a tame body a field has what it was assigned, a value over the
\* state before the call, or the value it had.
StateAfter(m, s, i, x) ==
    /\ x \in [Fields -> Int]
    /\ \A v \in Vars : (\A j \in 1..i : m.body[j].to # v) => x[v] = s[v]
    /\ \A j \in 1..i : m.body[j].to \in Vars => x[m.body[j].to] = Value(m.body[j].term, s, s)

LEMMA FirstState ==
    ASSUME NEW m, NEW s, \A v \in Vars : s[v] \in Int, "result" \notin Vars
    PROVE  StateAfter(m, s, 0, Initial(s))
<1>1. 1..0 = {}
  OBVIOUS
<1>2. Initial(s) \in [Fields -> Int] /\ \A v \in Vars : Initial(s)[v] = s[v]
  BY DEF Initial, Fields
<1> QED BY <1>1, <1>2 DEF StateAfter

LEMMA NextState ==
    ASSUME NEW m \in AllMethods, Tame(m), NEW s, \A v \in Vars : s[v] \in Int,
           NEW i \in 1..Len(m.body), NEW x, StateAfter(m, s, i - 1, x),
           NEW y, y = Step(m, s, i, x)
    PROVE  StateAfter(m, s, i, y)
<1> DEFINE a == m.body[i]
<1>1. /\ a.when = {} /\ a.text = "plain" /\ a.to \in Fields /\ a.term \in Terms(Vars \cup {"zero"})
      /\ \A j \in 1..(i - 1) : /\ m.body[j].to # a.to
                               /\ a.to # "result" => m.body[j].to # a.term.var
      /\ "result" \notin Vars
  BY TameBody
<1>2. i \in Nat \ {0} /\ \A j \in 1..i : j \in 1..(i - 1) \/ j = i
  BY TameBody
<1> HIDE DEF a
<1>3. /\ x \in [Fields -> Int]
      /\ \A v \in Vars : (\A j \in 1..(i - 1) : m.body[j].to # v) => x[v] = s[v]
      /\ \A j \in 1..(i - 1) :
            m.body[j].to \in Vars => x[m.body[j].to] = Value(m.body[j].term, s, s)
  BY DEF StateAfter
<1>4. y = [x EXCEPT ![a.to] = Value(a.term, s, x)]
  <2>1. HoldsAll(a.when, s, x)
    BY <1>1 DEF HoldsAll
  <2> QED BY <1>1, <2>1 DEF Step, a
<1>5. \A v \in Vars : x[v] \in Int
  BY <1>3 DEF Fields
<1>6. Value(a.term, s, x) \in Int
  BY <1>1, <1>5, TermValue
<1>7. y \in [Fields -> Int] /\ y[a.to] = Value(a.term, s, x)
      /\ \A v \in Fields : v # a.to => y[v] = x[v]
  BY <1>1, <1>3, <1>4, <1>6
<1>8. a.to \in Vars => Value(a.term, s, x) = Value(a.term, s, s)
  <2> SUFFICES ASSUME a.to \in Vars PROVE Value(a.term, s, x) = Value(a.term, s, s)
    OBVIOUS
  <2>1. a.term.var \in Vars => x[a.term.var] = s[a.term.var]
    BY <1>1, <1>3
  <2>2. a.term \in Terms(Vars \cup {"zero"})
    BY <1>1
  <2> QED BY <2>1, <2>2, TermValue
<1>9. ASSUME NEW v \in Vars, \A j \in 1..i : m.body[j].to # v PROVE y[v] = s[v]
  <2>1. v # a.to /\ \A j \in 1..(i - 1) : m.body[j].to # v
    BY <1>2, <1>9 DEF a
  <2> QED BY <1>3, <1>7, <2>1 DEF Fields
<1>10. ASSUME NEW j \in 1..i, m.body[j].to \in Vars
       PROVE  y[m.body[j].to] = Value(m.body[j].term, s, s)
  <2>1. CASE j = i
    BY <1>7, <1>8, <1>10, <2>1 DEF a
  <2>2. CASE j \in 1..(i - 1)
    <3>1. m.body[j].to # a.to /\ m.body[j].to \in Fields
      BY <1>1, <1>10, <2>2 DEF Fields
    <3> QED BY <1>3, <1>7, <1>10, <2>2, <3>1
  <2> QED BY <1>2, <2>1, <2>2
<1> QED BY <1>7, <1>9, <1>10 DEF StateAfter

\* The last state of a tame body; a result is that of the state it is returned in.
LEMMA LastState ==
    ASSUME NEW m \in AllMethods, Tame(m), NEW s, \A v \in Vars : s[v] \in Int
    PROVE  /\ StateAfter(m, s, Len(m.body), Executed(m, s))
           /\ Len(m.body) > 0 /\ m.body[Len(m.body)].to = "result" =>
                Executed(m, s)["result"] = Value(m.body[Len(m.body)].term, s, Executed(m, s))
<1> DEFINE n == Len(m.body)
<1>1. n \in Nat /\ "result" \notin Vars
  BY TameBody
<1>2. PICK h : /\ h[0] = Initial(s)
               /\ \A i \in 1..n : h[i] = Step(m, s, i, h[i - 1])
               /\ Executed(m, s) = h[n]
  BY <1>1, ExecutedByStates
<1>3. \A k \in Nat : k <= n => StateAfter(m, s, k, h[k])
  <2> DEFINE T == {k \in Nat : k <= n /\ ~StateAfter(m, s, k, h[k])}
  <2> SUFFICES ASSUME T # {} PROVE FALSE
    OBVIOUS
  <2>1. PICK k \in T : \A j \in T : k <= j
    BY Least
  <2>2. k # 0
    BY <1>1, <1>2, FirstState
  <2>3. k \in Nat /\ k - 1 \in Nat /\ k \in 1..n /\ k - 1 <= n /\ ~(k <= k - 1)
    BY <1>1, <2>1, <2>2
  <2>4. StateAfter(m, s, k - 1, h[k - 1])
    BY <2>1, <2>3
  <2>5. StateAfter(m, s, k, h[k])
    BY <1>2, <2>3, <2>4, NextState
  <2> QED BY <2>1, <2>5
<1>4. StateAfter(m, s, n, Executed(m, s))
  BY <1>1, <1>2, <1>3
<1>5. ASSUME n > 0, m.body[n].to = "result"
      PROVE  Executed(m, s)["result"] = Value(m.body[n].term, s, Executed(m, s))
  <2> DEFINE x == h[n - 1]
             y == h[n]
             a == m.body[n]
  <2>1. n \in 1..n /\ n - 1 \in Nat /\ n - 1 <= n
    BY <1>1, <1>5
  <2>2. x \in [Fields -> Int]
    BY <1>3, <2>1 DEF StateAfter
  <2>3. a.when = {} /\ a.text = "plain" /\ a.term \in Terms(Vars \cup {"zero"}) /\ a.to = "result"
    BY <1>5, <2>1, TameBody
  <2>4. y = Step(m, s, n, x)
    BY <1>2, <2>1
  <2>5. y = [x EXCEPT !["result"] = Value(a.term, s, x)]
    BY <2>3, <2>4 DEF Step, HoldsAll
  <2> HIDE DEF x, y, a
  <2>6. y["result"] = Value(a.term, s, x) /\ \A v \in Vars : y[v] = x[v]
    BY <1>1, <2>2, <2>5 DEF Fields
  <2>7. Value(a.term, s, x) = Value(a.term, s, y)
    BY <2>3, <2>6, TermValue
  <2> QED BY <1>2, <2>6, <2>7 DEF a, y
<1> QED BY <1>4, <1>5

\* The equations of a tame body have one solution on the fields, and on the result
\* where there is one: what the body does.
LEMMA EquationsOfTame ==
    ASSUME NEW m \in AllMethods, Tame(m), NEW s, \A v \in Vars : s[v] \in Int,
           NEW t \in [Fields -> Int]
    PROVE  Equations(m, s, t) <=>
             /\ \A v \in Vars : t[v] = Executed(m, s)[v]
             /\ Len(m.body) > 0 /\ m.body[Len(m.body)].to = "result" =>
                  t["result"] = Executed(m, s)["result"]
<1> DEFINE n == Len(m.body)
           e == Executed(m, s)
           Agree == /\ \A v \in Vars : t[v] = e[v]
                    /\ n > 0 /\ m.body[n].to = "result" => t["result"] = e["result"]
<1>1. /\ n \in Nat /\ DOMAIN m.body = 1..n /\ "result" \notin Vars /\ m.inits = <<>>
      /\ \A i \in 1..n : /\ m.body[i].to \in Fields
                         /\ m.body[i].term \in Terms(Vars \cup {"zero"})
                         /\ m.body[i].to = "result" => i = n
  BY TameBody
<1>2. /\ e \in [Fields -> Int]
      /\ \A v \in Vars : (\A j \in 1..n : m.body[j].to # v) => e[v] = s[v]
      /\ \A j \in 1..n : m.body[j].to \in Vars => e[m.body[j].to] = Value(m.body[j].term, s, s)
      /\ n > 0 /\ m.body[n].to = "result" => e["result"] = Value(m.body[n].term, s, e)
  BY LastState DEF StateAfter
<1>3. DOMAIN m.inits = {} /\ Read(m) = 1..n
  BY <1>1, TameBody DEF Read
<1>4. Assigned(m) = {m.body[i].to : i \in 1..n}
  BY <1>1, <1>3 DEF Assigned
<1>5. \A v \in Vars : v \notin Assigned(m) <=> \A j \in 1..n : m.body[j].to # v
  BY <1>4
<1> HIDE DEF e
<1>6. Equations(m, s, t) <=>
        /\ \A i \in 1..n :
            t[m.body[i].to] = Value(m.body[i].term, s, IF m.body[i].to = "result" THEN t ELSE s)
        /\ \A v \in Vars \ Assigned(m) : t[v] = s[v]
  BY <1>1, <1>3 DEF Equations
<1> HIDE DEF n
<1>7. ASSUME Equations(m, s, t) PROVE Agree
  <2>1. ASSUME NEW v \in Vars PROVE t[v] = e[v]
    <3>1. CASE \A j \in 1..n : m.body[j].to # v
      BY <1>2, <1>5, <1>6, <1>7, <3>1
    <3>2. ASSUME NEW j \in 1..n, m.body[j].to = v PROVE t[v] = e[v]
      <4>1. m.body[j].to # "result" /\ m.body[j].to \in Vars
        BY <1>1, <3>2
      <4> QED BY <1>2, <1>6, <1>7, <3>2, <4>1
    <3> QED BY <3>1, <3>2
  <2>2. ASSUME n > 0, m.body[n].to = "result" PROVE t["result"] = e["result"]
    <3>1. n \in 1..n
      BY <1>1, <2>2
    <3>2. t["result"] = Value(m.body[n].term, s, t)
      BY <1>6, <1>7, <2>2, <3>1
    <3>3. m.body[n].term \in Terms(Vars \cup {"zero"})
      BY <1>1, <3>1
    <3>4. Value(m.body[n].term, s, t) = Value(m.body[n].term, s, e)
      BY <2>1, <3>3, TermValue
    <3> QED BY <1>2, <2>2, <3>2, <3>4
  <2> QED BY <2>1, <2>2
<1>8. ASSUME Agree PROVE Equations(m, s, t)
  <2>1. ASSUME NEW i \in 1..n
        PROVE  t[m.body[i].to] = Value(m.body[i].term, s, IF m.body[i].to = "result" THEN t ELSE s)
    <3>1. CASE m.body[i].to = "result"
      <4>1. i = n /\ n > 0
        BY <1>1, <3>1
      <4>2. m.body[n].term \in Terms(Vars \cup {"zero"})
        BY <1>1, <4>1
      <4>3. Value(m.body[n].term, s, t) = Value(m.body[n].term, s, e)
        BY <1>8, <4>2, TermValue
      <4> QED BY <1>2, <1>8, <3>1, <4>1, <4>3
    <3>2. CASE m.body[i].to # "result"
      <4>1. m.body[i].to \in Vars
        BY <1>1, <3>2 DEF Fields
      <4> QED BY <1>2, <1>8, <3>2, <4>1
    <3> QED BY <3>1, <3>2
  <2>2. \A v \in Vars \ Assigned(m) : t[v] = s[v]
    BY <1>2, <1>5, <1>8
  <2> QED BY <1>6, <2>1, <2>2
<1> QED BY <1>7, <1>8 DEF e, n

\* Solutions tell the goals of a tame method like what its body does.
LEMMA GoalsOfTame ==
    ASSUME NEW m \in AllMethods, Tame(m), NEW s, \A v \in Vars : s[v] \in Int,
           NEW t \in [Fields -> Int], Equations(m, s, t)
    PROVE  HoldsAll(Goals(m), s, t) <=> HoldsAll(Goals(m), s, Executed(m, s))
<1> DEFINE e == Executed(m, s)
<1>1. /\ \A v \in Vars : t[v] = e[v]
      /\ Len(m.body) > 0 /\ m.body[Len(m.body)].to = "result" => t["result"] = e["result"]
  BY EquationsOfTame
<1> HIDE DEF e
<1>2. ASSUME NEW p \in Goals(m) PROVE Holds(p, s, t) <=> Holds(p, s, e)
  <2>1. /\ p \in Conditions(Vars \cup {"zero", "result"})
        /\ p.l.var = "result" \/ p.r.var = "result" =>
             Len(m.body) > 0 /\ m.body[Len(m.body)].to = "result"
    BY TameBody
  <2>2. p.l \in Terms(Vars \cup {"zero", "result"}) /\ p.r \in Terms(Vars \cup {"zero", "result"})
    BY <2>1 DEF Conditions
  <2>3. p.l.var \in Vars \cup {"zero", "result"} /\ p.r.var \in Vars \cup {"zero", "result"}
    BY <2>2 DEF Terms
  <2>4. Value(p.l, s, t) = Value(p.l, s, e)
    BY <1>1, <2>1, <2>3 DEF Value
  <2>5. Value(p.r, s, t) = Value(p.r, s, e)
    BY <1>1, <2>1, <2>3 DEF Value
  <2> QED BY <2>4, <2>5 DEF Holds
<1> QED BY <1>2 DEF HoldsAll, e

\* A solver that has all the integers refutes a tame method exactly if its body breaks
\* one of its goals.
LEMMA RefutedIsBroken ==
    ASSUME Numbers = Int, Values \subseteq Int, NEW m \in AllMethods, Tame(m)
    PROVE  Satisfiable(m) <=> Broken(m)
<1>1. \A s \in Before : \A v \in Vars : s[v] \in Int
  BY DEF Before
<1>2. After = [Fields -> Int]
  BY DEF After, Fields
<1>3. Goals(m) # {}
  BY TameBody
<1>4. ASSUME NEW s \in Before
      PROVE  (\E t \in After : Equations(m, s, t) /\ ~HoldsAll(Goals(m), s, t))
             <=> ~HoldsAll(Goals(m), s, Executed(m, s))
  <2>1. \A v \in Vars : s[v] \in Int
    BY <1>1
  <2>2. Executed(m, s) \in [Fields -> Int]
    BY <2>1, LastState DEF StateAfter
  <2>3. Equations(m, s, Executed(m, s))
    BY <2>1, <2>2, EquationsOfTame
  <2>4. \A t \in [Fields -> Int] : Equations(m, s, t) =>
            (HoldsAll(Goals(m), s, t) <=> HoldsAll(Goals(m), s, Executed(m, s)))
    BY <2>1, GoalsOfTame
  <2> QED BY <1>2, <2>2, <2>3, <2>4
<1> QED BY <1>3, <1>4 DEF Satisfiable, Broken

\* What is exported is of a project, and what is exported for Z3 has the level of its
\* answer.
VerdictInv ==
    /\ pc = "export" => project \in Projects
    /\ \A c \in checked : /\ c.method \in AllMethods
                          /\ c.level = "PROVED" => c.method \notin Refutable
                          /\ c.level = "FAILED" => c.method \in Refutable

LEMMA ExportMethodVerdict == VerdictInv /\ ExportMethod => VerdictInv'
<1> SUFFICES ASSUME VerdictInv, ExportMethod PROVE VerdictInv'
  OBVIOUS
<1> DEFINE m == project.methods[todo]
<1>1. PICK answer \in Answers(m) :
        checked' = IF command = "viper" THEN checked
                   ELSE checked \cup {[method |-> m, level |-> LevelOfAnswer(answer)]}
  BY DEF ExportMethod
<1>2. /\ pc = "export" /\ pc' = pc /\ project' = project
      /\ todo \in DOMAIN project.methods
  BY DEF ExportMethod
<1>3. project \in Projects /\ m \in AllMethods
  BY <1>2 DEF VerdictInv, AllMethods, Range
<1>4. /\ LevelOfAnswer(answer) = "PROVED" => m \notin Refutable
      /\ LevelOfAnswer(answer) = "FAILED" => m \in Refutable
  <2>1. answer \in {"sat", "unsat", "unknown", "raises", ""}
    BY DEF Answers
  <2>2. /\ LevelOfAnswer(answer) = "PROVED" => answer = "unsat"
        /\ LevelOfAnswer(answer) = "FAILED" => answer = "sat"
    BY <2>1 DEF LevelOfAnswer
  <2>3. (answer = "unsat" => m \notin Refutable) /\ (answer = "sat" => m \in Refutable)
    BY DEF Answers
  <2> QED BY <2>2, <2>3
<1> DEFINE c == [method |-> m, level |-> LevelOfAnswer(answer)]
<1>5. c.method = m /\ c.level = LevelOfAnswer(answer)
  OBVIOUS
<1>6. checked' = checked \/ checked' = checked \cup {c}
  BY <1>1
<1> HIDE DEF c, m
<1> QED BY <1>2, <1>3, <1>4, <1>5, <1>6 DEF VerdictInv

LEMMA VerdictInductive == VerdictInv /\ [Next]_vars => VerdictInv'
<1> SUFFICES ASSUME VerdictInv, [Next]_vars PROVE VerdictInv'
  OBVIOUS
<1>1. CASE StartFormal
  BY <1>1, LaterAssumption DEF StartFormal, VerdictInv
<1>2. CASE StartCi
  BY <1>2 DEF StartCi, VerdictInv
<1>3. CASE ExportMethod
  BY <1>3, ExportMethodVerdict
<1>4. CASE EndExport \/ EndDafny \/ EndPipeline
  BY <1>4 DEF EndExport, EndDafny, EndPipeline, Forget, VerdictInv
<1>5. CASE ExportDafny \/ ExportPipeline
  BY <1>5 DEF ExportDafny, ExportPipeline, VerdictInv
<1>6. CASE PrintReport \/ Raise
  BY <1>6 DEF PrintReport, Raise, End, Forget, VerdictInv
<1>7. CASE WriteDocument \/ Derive \/ UNCHANGED vars
  BY <1>7 DEF WriteDocument, Derive, vars, VerdictInv
<1> QED BY <1>1, <1>2, <1>3, <1>4, <1>5, <1>6, <1>7 DEF Next

\* For any methods, contracts and values before a call, with a solver that has all the
\* integers: a method reported as PROVED meets its contracts and one reported as FAILED
\* does not, as long as its body is one the translation is made for.
THEOREM VerdictsRight ==
    ASSUME Numbers = Int, Values \subseteq Int
    PROVE  Spec => []VerdictsAreRight
<1>1. Init => VerdictInv
  BY DEF Init, VerdictInv
<1>2. VerdictInv => VerdictsAreRight
  <2> SUFFICES ASSUME VerdictInv, NEW c \in checked, Tame(c.method)
               PROVE  /\ c.level = "PROVED" => c.method \notin Wrong
                      /\ c.level = "FAILED" => c.method \in Wrong
    BY DEF VerdictsAreRight
  <2>1. c.method \in AllMethods
    BY DEF VerdictInv
  <2>2. c.method \in Refutable <=> c.method \in Wrong
    BY <2>1, RefutedIsBroken DEF Refutable, Wrong
  <2> QED BY <2>2 DEF VerdictInv
<1> QED BY <1>1, <1>2, VerdictInductive, PTL DEF Spec
===============================================================================
