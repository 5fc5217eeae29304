------------------------------ MODULE FormalRun ------------------------------
(***************************************************************************)
(* From contracts to documents: `formal` turns each method into an         *)
(* obligation for Z3, or each structure into a Dafny model, and reports    *)
(* what these answer; `pipeline-formal` does so from Clang's trees; `ci`   *)
(* reports what its modules found.  Each command then writes the documents *)
(* it was asked for, one after the other, over those of earlier commands,  *)
(* and `report derive` makes more from the canonical one.                  *)
(*                                                                         *)
(* A method is                                                             *)
(*   [body, inits, invariants, requires, ensures]                          *)
(* with the inferred contracts among the declared ones.  A statement of    *)
(* the body is [when, to, term, text]: when is {} or the condition it is   *)
(* under, to a field or "result", text how it is written: "plain" is an    *)
(* assignment with =, += or -=, x++, x-- or a return; "unseen" one that    *)
(* the expressions for those do not match (++x, --x, x *= k, a call that   *)
(* changes a field); "comment" one in a comment, which they do match.      *)
(* inits are those of a constructor.  A condition is [op, l, r]; op is     *)
(* "other" when it is beyond the expression parser.  A term is             *)
(* [var, old, plus]: var is a field, "result" or "zero", and old is set    *)
(* for old(var).  Arrays, locals, products and calls in a term are left    *)
(* out.                                                                    *)
(***************************************************************************)
EXTENDS Findings, Integers, FiniteSets

CONSTANTS Vars,         \* fields of the class
          Values,       \* values they have before a call
          Numbers,      \* values the solver tries after it
          Projects,     \* what the first command may find: [classes, methods, structures]
          Later,        \* and the ones after it
          Evidence,     \* what the modules of `ci` call their evidence themselves
          Found,        \* and what they report
          Requested,    \* documents asked for
          MaxRuns       \* commands that report, at most

ASSUME LaterAssumption == Later \subseteq Projects

\* No module of `ci` has a solver.
ASSUME FoundAssumption ==
    /\ Evidence \cap {"formal_backend", "smt_solver_or_formal_bridge"} = {}
    /\ Found \subseteq Seq([level : Levels \ {"PROVED"}, code : Codes,
                          evidence : Evidence, answer : {""}])

VARIABLES
    run,        \* commands that report, so far
    command,    \* this one
    project,
    solver,     \* "off", "missing" or "on"
    pc,         \* "export", "write" or "idle"
    todo,       \* what is still to be exported, as indices
    report,
    checked,    \* methods exported for Z3, with the level reported
    out,        \* the last document this command has written
    docs        \* what the documents on disk, and on the screen, show

vars == <<run, command, project, solver, pc, todo, report, checked, out, docs>>

Range(s) == {s[i] : i \in DOMAIN s}
AllMethods == UNION {Range(p.methods) : p \in Projects}

(***************************************************************************)
(* smt_for_method.                                                         *)
(***************************************************************************)
Value(t, old, new) ==
    (IF t.var = "zero" THEN 0 ELSE IF t.old THEN old[t.var] ELSE new[t.var]) + t.plus

\* smt_expr: what cannot be parsed is true.
Holds(p, old, new) ==
    LET l == Value(p.l, old, new)
        r == Value(p.r, old, new)
    IN  CASE p.op = "<=" -> l <= r
          [] p.op = "=" -> l = r
          [] p.op = "other" -> TRUE

HoldsAll(S, old, new) == \A p \in S : Holds(p, old, new)

Goals(m) == m.ensures \cup m.invariants

Terms(names) == [var : names, old : BOOLEAN, plus : Int]
Conditions(names) == [op : {"<=", "=", "other"}, l : Terms(names), r : Terms(names)]
Assignments ==
    [when : SUBSET Conditions(Vars \cup {"zero"}), to : Vars \cup {"result"},
     term : Terms(Vars \cup {"zero"}), text : {"plain", "unseen", "comment"}]

\* "result" names no field (_all_vars leaves it out): a body assigns it and does not
\* read it, only contracts speak of it.
ASSUME MethodsAssumption ==
    /\ "result" \notin Vars
    /\ \A m \in AllMethods : /\ m.body \in Seq(Assignments)
                            /\ Goals(m) \subseteq Conditions(Vars \cup {"zero", "result"})
Read(m) == {i \in DOMAIN m.body : m.body[i].text # "unseen"}
Assigned(m) == {m.body[i].to : i \in Read(m)} \cup {m.inits[i].to : i \in DOMAIN m.inits}

\* A mistake: what is assigned is also framed.
EquationsFramed(m, s, t) ==
    /\ \A i \in Read(m) :
            t[m.body[i].to] = Value(m.body[i].term, s, IF m.body[i].to = "result" THEN t ELSE s)
    /\ \A i \in DOMAIN m.inits : t[m.inits[i].to] = Value(m.inits[i].term, t, t)
    /\ \A v \in Vars : t[v] = s[v]

\* The semantics of the body: an equation for each assignment that is read, whatever
\* it is under, all of them over the state before the call; a returned value and the
\* initializers of a constructor are over the state after it.  Fields of which no
\* assignment is read keep their values, also those that ++x or a call changes.
Equations(m, s, t) ==
    /\ \A i \in Read(m) :
            t[m.body[i].to] = Value(m.body[i].term, s, IF m.body[i].to = "result" THEN t ELSE s)
    /\ \A i \in DOMAIN m.inits : t[m.inits[i].to] = Value(m.inits[i].term, t, t)
    /\ \A v \in Vars \ Assigned(m) : t[v] = s[v]

Before == [Vars -> Values]
After == [Vars \cup {"result"} -> Numbers]

\* The query is satisfiable: the class invariants and the preconditions hold before,
\* and some goal does not hold after.  With no goal the query is `false`.
Satisfiable(m) ==
    /\ Goals(m) # {}
    /\ \E s \in Before :
        /\ HoldsAll(m.invariants \cup m.requires, s, s)
        /\ \E t \in After : Equations(m, s, t) /\ ~HoldsAll(Goals(m), s, t)
Refutable == {m \in AllMethods : Satisfiable(m)}

(***************************************************************************)
(* A command starts.                                                       *)
(***************************************************************************)
D(level, name, answer) == [level |-> level, code |-> name, evidence |-> "", answer |-> answer]

NoProject == [classes |-> FALSE, methods |-> <<>>, structures |-> <<>>]
None == [run |-> 0, rows |-> <<>>, found |-> <<>>]
Outputs == <<"json", "html", "findings_html", "findings_junit", "findings_sarif", "report_json">>
CiOutputs == <<"junit", "sarif", "annotations">>
Derived == <<"derived_html", "derived_sarif", "derived_junit">>
Documents == Range(Outputs) \cup Range(CiOutputs) \cup Range(Derived) \cup {"console"}

Init == /\ run = 0
        /\ command = "none"
        /\ project = NoProject
        /\ solver = "off"
        /\ pc = "idle"
        /\ todo = 0
        /\ report = <<>>
        /\ checked = {}
        /\ out = 0
        /\ docs = [o \in Documents |-> None]

\* cmd_formal and cmd_pipeline_formal; the project may have been edited.
StartFormal ==
    /\ pc = "idle"
    /\ run < MaxRuns
    /\ run' = run + 1
    /\ command' \in {"smt", "viper", "both", "dafny", "pipeline"}
    /\ project' \in IF run = 0 THEN Projects ELSE Later
    /\ solver' \in {"off", "missing", "on"}
    /\ pc' = "export"
    /\ todo' = 1
    /\ report' = <<>>
    /\ checked' = {}
    /\ out' = 0
    /\ UNCHANGED docs

\* cmd_ci: the gate is put before what the modules reported.
StartCi ==
    /\ pc = "idle"
    /\ run < MaxRuns
    /\ run' = run + 1
    /\ command' = "ci"
    /\ pc' = "write"
    /\ \E found \in Found, gate \in {D("INFO", "CI_GATE_PASSED", ""),
                                     D("FAILED", "CI_GATE_FAILED", "")} :
            report' = <<gate>> \o found
    /\ checked' = {}
    /\ out' = 0
    /\ UNCHANGED <<project, solver, todo, docs>>

(***************************************************************************)
(* write_formal_artifacts.                                                 *)
(***************************************************************************)
\* What Z3 makes of a method; "raises" is a solver that does not answer in time.
Answers(m) ==
    IF solver = "on" /\ command # "viper"
    THEN {IF m \in Refutable THEN "sat" ELSE "unsat", "unknown", "raises"} ELSE {""}

LevelOfAnswer(answer) ==
    CASE answer = "unsat" -> "PROVED"
      [] answer = "sat" -> "FAILED"
      [] answer = "unknown" -> "UNKNOWN"
      [] OTHER -> "INFO"

ExportMethod ==
    /\ pc = "export"
    /\ command \in {"smt", "viper", "both"}
    /\ todo \in DOMAIN project.methods
    /\ \E answer \in Answers(project.methods[todo]) :
        LET level == LevelOfAnswer(answer)
            smt == D(level, "FORMAL_SMT_ARTIFACT", IF answer = "raises" THEN "" ELSE answer)
            viper == D("INFO", "FORMAL_VIPER_ARTIFACT", "")
        IN  /\ report' = report \o (CASE command = "smt" -> <<smt>>
                                      [] command = "viper" -> <<viper>>
                                      [] command = "both" -> <<smt, viper>>)
            /\ checked' = IF command = "viper" THEN checked
                          ELSE checked \cup {[method |-> project.methods[todo], level |-> level]}
    /\ todo' = todo + 1
    /\ UNCHANGED <<run, command, project, solver, pc, out, docs>>

\* The artifacts are not used any more once the report is made.
Forget == project' = NoProject /\ solver' = "off" /\ todo' = 0 /\ checked' = {}

\* The manifest, unless the project has no classes.
EndExport ==
    /\ pc = "export"
    /\ command \in {"smt", "viper", "both"}
    /\ todo \notin DOMAIN project.methods
    /\ report' = Append(report, IF project.classes THEN D("INFO", "FORMAL_MANIFEST", "")
                                ELSE D("WARNING", "FORMAL_NO_CLASSES", ""))
    /\ pc' = "write"
    /\ Forget
    /\ UNCHANGED <<run, command, out, docs>>

\* export_dafny_ir: a structure outside the supported ones is not exported.
DafnyStatus(supported) ==
    IF ~supported THEN {"UNSUPPORTED"}
    ELSE IF solver = "off" THEN {"GENERATED"}
    ELSE IF solver = "missing" THEN {"UNKNOWN"}
    ELSE {"VERIFIED", "FAILED", "UNKNOWN"}

LevelOfStatus(status) ==
    CASE status = "VERIFIED" -> "PROVED"
      [] status = "FAILED" -> "FAILED"
      [] status \in {"UNKNOWN", "UNSUPPORTED"} -> "UNKNOWN"
      [] OTHER -> "INFO"

ExportDafny ==
    /\ pc = "export"
    /\ command = "dafny"
    /\ todo \in DOMAIN project.structures
    /\ \E status \in DafnyStatus(project.structures[todo]) :
        report' = Append(report, D(LevelOfStatus(status), "FORMAL_DAFNY_ARTIFACT", status))
    /\ todo' = todo + 1
    /\ UNCHANGED <<run, command, project, solver, pc, checked, out, docs>>

EndDafny ==
    /\ pc = "export"
    /\ command = "dafny"
    /\ todo \notin DOMAIN project.structures
    /\ report' = Append(report, IF project.structures = <<>>
                                THEN D("WARNING", "FORMAL_DAFNY_NO_CONTRACTS", "")
                                ELSE D("INFO", "FORMAL_DAFNY_MANIFEST", ""))
    /\ pc' = "write"
    /\ Forget
    /\ UNCHANGED <<run, command, out, docs>>

\* write_pipeline_artifacts: the solver's answer is kept, but it is no verdict.
ExportPipeline ==
    /\ pc = "export"
    /\ command = "pipeline"
    /\ todo \in DOMAIN project.methods
    /\ \E answer \in IF solver = "on" THEN {"sat", "unsat", "unknown"} ELSE {""} :
        report' = Append(report, D("INFO", "PIPELINE_FORMAL_ARTIFACT", answer))
    /\ todo' = todo + 1
    /\ UNCHANGED <<run, command, project, solver, pc, checked, out, docs>>

EndPipeline ==
    /\ pc = "export"
    /\ command = "pipeline"
    /\ todo \notin DOMAIN project.methods
    /\ report' = IF report = <<>> THEN <<D("WARNING", "PIPELINE_NO_ARTIFACTS", "")>> ELSE report
    /\ pc' = "write"
    /\ Forget
    /\ UNCHANGED <<run, command, out, docs>>

(***************************************************************************)
(* Documents.                                                              *)
(***************************************************************************)
AllOutputs == IF command = "ci" THEN Outputs \o CiOutputs ELSE Outputs
Wanted == {k \in DOMAIN AllOutputs : k > out /\ AllOutputs[k] \in Requested}

Rows(o) ==
    CASE o \in {"json", "html", "console"} -> LevelRows(report)
      [] o \in {"findings_html", "report_json"} -> FindingRows(FindingsOf(report))
      [] o = "findings_junit" -> JUnitRows(FindingsOf(report))
      [] o = "findings_sarif" -> SarifRows(FindingsOf(report))
      [] o = "junit" -> CiJUnitRows(report)
      [] o = "sarif" -> CiSarifRows(report)
      [] o = "annotations" -> AnnotationRows(report)

\* _write_outputs, and what cmd_ci writes after it.  The canonical report keeps its
\* findings.
WriteDocument ==
    /\ pc = "write"
    /\ \E k \in Wanted :
        /\ \A j \in Wanted : k <= j
        /\ out' = k
        /\ LET o == AllOutputs[k]
           IN  docs' = [docs EXCEPT ![o] =
                    [run |-> run, rows |-> Rows(o),
                     found |-> IF o = "report_json" THEN FindingsOf(report) ELSE <<>>]]
    /\ UNCHANGED <<run, command, project, solver, pc, todo, report, checked>>

End == pc' = "idle" /\ command' = "none" /\ report' = <<>> /\ out' = 0 /\ Forget

\* print_report
PrintReport ==
    /\ pc = "write"
    /\ Wanted = {}
    /\ docs' = [docs EXCEPT !["console"] = [run |-> run, rows |-> Rows("console"), found |-> <<>>]]
    /\ End
    /\ UNCHANGED run

\* An artifact or a document that cannot be written ends the command, and so does
\* a solver that is late for the pipeline.
Raise ==
    /\ pc \in {"export", "write"}
    /\ End
    /\ UNCHANGED <<run, docs>>

DerivedRows(o, found) ==
    CASE o = "derived_html" -> FindingRows(found)
      [] o = "derived_sarif" -> SarifRows(found)
      [] o = "derived_junit" -> DerivedJUnitRows(found)

\* report derive: everything is rendered from the canonical report on disk before
\* anything is written; a document that cannot be written leaves those before it.
Derive ==
    /\ pc = "idle"
    /\ docs["report_json"] # None
    /\ \E k \in 1..Len(Derived) :
        docs' = [o \in Documents |->
            IF \E i \in 1..k : o = Derived[i]
            THEN [run |-> docs["report_json"].run,
                  rows |-> DerivedRows(o, docs["report_json"].found), found |-> <<>>]
            ELSE docs[o]]
    /\ UNCHANGED <<run, command, project, solver, pc, todo, report, checked, out>>

Next ==
    \/ StartFormal
    \/ StartCi
    \/ ExportMethod
    \/ EndExport
    \/ ExportDafny
    \/ EndDafny
    \/ ExportPipeline
    \/ EndPipeline
    \/ WriteDocument
    \/ PrintReport
    \/ Raise
    \/ Derive

Spec == Init /\ [][Next]_vars

(***************************************************************************)
(* What the body of a method does, for the properties only.                *)
(***************************************************************************)
Executed(m, s) ==
    LET state[i \in 0..Len(m.body)] ==
            IF i = 0 THEN [v \in Vars \cup {"result"} |-> IF v = "result" THEN 0 ELSE s[v]]
            ELSE IF m.body[i].text # "comment" /\ HoldsAll(m.body[i].when, s, state[i - 1])
                 THEN [state[i - 1] EXCEPT
                        ![m.body[i].to] = Value(m.body[i].term, s, state[i - 1])]
                 ELSE state[i - 1]
    IN  state[Len(m.body)]

Broken(m) ==
    \E s \in Before : /\ HoldsAll(m.invariants \cup m.requires, s, s)
                      /\ ~HoldsAll(Goals(m), s, Executed(m, s))
Wrong == {m \in AllMethods : Broken(m)}

\* Methods the translation is made for: nothing conditional, nothing in comments or
\* changed by other means than assignments, x++ and x--, no constructor, every
\* field assigned at most once and not read after that, the result returned last,
\* contracts that can be read and that speak of a result there is.
Tame(m) ==
    LET n == Len(m.body)
        Speaks(p) == p.l.var = "result" \/ p.r.var = "result"
    IN  /\ Goals(m) # {}
        /\ \A p \in Goals(m) \cup m.requires : p.op # "other"
        /\ (\E p \in Goals(m) : Speaks(p)) => n > 0 /\ m.body[n].to = "result"
        /\ m.inits = <<>>
        /\ \A i \in 1..n : /\ m.body[i].when = {} /\ m.body[i].text = "plain"
                           /\ m.body[i].to = "result" => i = n
                           /\ \A j \in 1..(i - 1) :
                                /\ m.body[j].to # m.body[i].to
                                /\ m.body[i].to # "result" => m.body[j].to # m.body[i].term.var

\* A method that `formal` reports as PROVED meets its contracts, and one it reports as
\* FAILED does not, as long as its body is one the translation is made for: every
\* change of a field is an assignment that the two expressions of formal.py match, as
\* with n++ and not with ++n (_assignment_semantics and the frame in smt_for_method).
VerdictsAreRight ==
    \A c \in checked : Tame(c.method) =>
        /\ c.level = "PROVED" => c.method \notin Wrong
        /\ c.level = "FAILED" => c.method \in Wrong

\* Without that restriction on how a change is written they are not: ++n is framed as
\* n = old(n), so that a correct method is refuted and a wrong one is proved.
AsPlain(m) ==
    [m EXCEPT !.body = [i \in DOMAIN m.body |-> [m.body[i] EXCEPT !.text = "plain"]]]
VerdictsOfAnyTextAreRight ==
    \A c \in checked : Tame(AsPlain(c.method)) =>
        /\ c.level = "PROVED" => c.method \notin Wrong
        /\ c.level = "FAILED" => c.method \in Wrong

\* No document, not even one derived later from the canonical report, shows anything
\* as formally verified that no solver discharged: neither its mark nor its guarantee,
\* which metadata.py and guarantee.py infer from a code, a level and details.
OnlySolversProve ==
    \A o \in Documents : \A i \in DOMAIN docs[o].rows :
        LET row == docs[o].rows[i]
        IN  row.guarantee = "G5_FORMALLY_VERIFIED" \/ row.mark = "FORMALLY_VERIFIED"
                => row.answer \in {"unsat", "VERIFIED"}

Failures(o) ==
    {i \in DOMAIN docs[o].rows : docs[o].rows[i].mark \in {"FAILED", "error", "failure"}}

\* All the documents of one command, whichever function classified its diagnostics
\* and whether the command wrote it or it was derived afterwards, perhaps after other
\* commands that failed half way, show the same diagnostics as failures and the same
\* guarantees, but for the gate, which some leave out (severity_from_level, the two
\* _sarif_level, write_junit, write_junit_report, derivatives.py).
ReportsAgree ==
    \A o, q \in Documents : docs[o].run = docs[q].run =>
        \A i \in DOMAIN docs[o].rows \cap DOMAIN docs[q].rows :
            /\ i \in Failures(o) <=> i \in Failures(q)
            /\ docs[o].rows[i].guarantee = docs[q].rows[i].guarantee

\* "No debe comunicar FORMALLY_VERIFIED salvo que un backend formal soportado descargue
\* efectivamente una obligación" (docs/CLI_DEPRECATION.md): a method without
\* postconditions and invariants has no obligation, yet it is reported as PROVED.
NothingIsVerifiedForLackOfGoals ==
    \A c \in checked : c.level = "PROVED" => Goals(c.method) # {}

=============================================================================
