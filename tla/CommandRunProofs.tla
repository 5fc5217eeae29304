-------------------------- MODULE CommandRunProofs --------------------------
(***************************************************************************)
(* Proofs about one run of a command, for any command lines, policies,     *)
(* projects and outcomes of the analyses.                                  *)
(***************************************************************************)
EXTENDS CommandRun, FiniteSetTheorems, SequenceTheorems, TLAPS

Counts == [failed : Nat, warning : Nat, unknown : Nat]

\* The tally counts each failure of each stage, and a gate that is rejected
\* adds one of its own.  Nothing happens after the exit.
TallyInv ==
    /\ files \in Nat
    /\ report \in [failed : Nat, warning : Nat, unknown : Nat, security : Nat, fuzz : Nat]
    /\ broken # {} => report.failed > 0
    /\ gate = "failed" => report.failed > 0
    /\ ExitZeroMeansClean

-----------------------------------------------------------------------------
LEMMA OutcomesAreCounts ==
    /\ Outcomes \subseteq Counts
    /\ Clean \in Counts
    /\ \A n \in Nat : Failures(n) \in Counts /\ Warnings(n) \in Counts
BY OutcomeAssumption DEF Counts, Clean, Failures, Warnings

LEMMA FilesAreCounted ==
    ASSUME files \in Nat, NEW units
    PROVE  Cardinality(Project \ units) \in Nat /\ Cardinality(Examined \ units) \in Nat
<1>1. IsFiniteSet(Project)
  BY FS_Interval DEF Project
<1>2. Project \ units \in SUBSET Project /\ Examined \ units \in SUBSET Project
  BY DEF Examined
<1> QED
  BY <1>1, <1>2, FS_Subset, FS_CardinalityType

\* Whatever Clang parses, the diagnostics that come with the model can be added.
LEMMA SourceDiagnosticsAreCounts ==
    ASSUME files \in Nat, NEW units
    PROVE  CppSource(units).found \in Counts
<1> DEFINE lost == Cardinality(Project \ units)
           n == CppSource(units).found
<1>1. lost \in Nat
  BY FilesAreCounted
<1>2. /\ Warnings(1) \in Counts /\ Failures(1) \in Counts /\ Clean \in Counts
      /\ [Failures(1) EXCEPT !.warning = 1] \in Counts
      /\ Failures(lost) \in Counts
      /\ FallbackNotice(lost) \in Counts
  <2>1. lost + 1 \in Nat
    BY <1>1
  <2>2. [Failures(1) EXCEPT !.warning = 1] \in Counts
    BY OutcomesAreCounts DEF Counts
  <2> QED
    BY <1>1, <2>1, <2>2, OutcomesAreCounts DEF FallbackNotice
<1>3. CASE args.frontend = "lightweight"
  BY <1>2, <1>3 DEF CppSource
<1>4. CASE args.frontend # "lightweight" /\ ~args.database
  BY <1>2, <1>4 DEF CppSource
<1>5. CASE args.frontend # "lightweight" /\ args.database
  <2>1. files = 0 \/ (files > 0 /\ lost = 0) \/ (lost > 0 /\ files > 0)
    BY <1>1
  <2>0. files = 0 => lost = 0
    BY FS_EmptySet DEF Project
  <2>2. CASE files = 0
    BY <1>2, <1>5, <2>0, <2>2 DEF CppSource
  <2>3. CASE files > 0 /\ lost = 0
    BY <1>2, <1>5, <2>3 DEF CppSource
  <2>4. CASE files > 0 /\ lost > 0
    BY <1>2, <1>5, <2>4 DEF CppSource
  <2> QED
    BY <2>1, <2>2, <2>3, <2>4
<1> QED
  BY <1>3, <1>4, <1>5

\* A stage that ends with the diagnostics o, before the exit.
LEMMA AddKeepsTheTally ==
    ASSUME TallyInv, exit = "none", NEW o \in Counts, NEW s, Add(o, s),
           UNCHANGED <<files, gate, exit>>
    PROVE  TallyInv'
<1>1. /\ report.failed \in Nat /\ report.warning \in Nat /\ report.unknown \in Nat
      /\ report.security \in Nat /\ report.fuzz \in Nat
      /\ o.failed \in Nat /\ o.warning \in Nat /\ o.unknown \in Nat
  BY DEF TallyInv, Counts
<1>2. /\ report' \in [failed : Nat, warning : Nat, unknown : Nat, security : Nat, fuzz : Nat]
      /\ report'.failed = report.failed + o.failed
  BY <1>1 DEF Add
<1>3. broken' # {} => broken # {} \/ o.failed > 0
  BY DEF Add
<1> QED
  BY <1>1, <1>2, <1>3 DEF TallyInv, ExitZeroMeansClean

LEMMA TallyInit == Init => TallyInv
BY OutcomeAssumption DEF Init, TallyInv, ExitZeroMeansClean

LEMMA TallyNext == TallyInv /\ [Next]_vars => TallyInv'
<1> SUFFICES ASSUME TallyInv, [Next]_vars PROVE TallyInv'
  OBVIOUS
<1> USE OutcomesAreCounts
<1>1. CASE SkipPass
  BY <1>1 DEF SkipPass, Stage, setup, TallyInv, ExitZeroMeansClean
<1>2. CASE RunAnalysis
  BY <1>2, AddKeepsTheTally DEF RunAnalysis, Stage, setup
<1>3. CASE BuildSourceIR
  <2>1. PICK s \in {"BuildSourceIR", "source_ir"}, units \in SUBSET Project :
           /\ Stage(s)
           /\ Add(CppSource(units).found, s)
           /\ UNCHANGED <<files, gate, exit>>
    BY <1>3 DEF BuildSourceIR, setup
  <2>2. CppSource(units).found \in Counts
    BY SourceDiagnosticsAreCounts DEF TallyInv
  <2> QED
    BY <2>1, <2>2, AddKeepsTheTally DEF Stage
<1>4. CASE BuildSourceIRError
  BY <1>4, AddKeepsTheTally DEF BuildSourceIRError, Stage, setup
<1>5. CASE StrictAst
  <2>1. PICK units \in SUBSET Examined :
           /\ Stage("strict_ast")
           /\ Add(IF Examined = {} THEN Failures(1)
                  ELSE IF Cardinality(Examined \ units) > 0
                       THEN Failures(Cardinality(Examined \ units) + 1) ELSE Clean,
                  "strict_ast")
           /\ UNCHANGED <<files, gate, exit>>
    BY <1>5 DEF StrictAst, setup
  <2>2. Cardinality(Examined \ units) \in Nat
    BY FilesAreCounted DEF TallyInv
  <2> DEFINE o == IF Examined = {} THEN Failures(1)
                  ELSE IF Cardinality(Examined \ units) > 0
                       THEN Failures(Cardinality(Examined \ units) + 1) ELSE Clean
  <2>3. o \in Counts
    <3>1. Cardinality(Examined \ units) + 1 \in Nat
      BY <2>2
    <3> QED
      BY <3>1
  <2> QED
    BY <2>1, <2>3, AddKeepsTheTally DEF Stage
<1>6. CASE BuildContractIR
  BY <1>6, AddKeepsTheTally DEF BuildContractIR, Stage, setup
<1>7. CASE BuildContractIRError
  BY <1>7, AddKeepsTheTally DEF BuildContractIRError, Stage, setup
<1>8. CASE BindContracts
  BY <1>8, AddKeepsTheTally DEF BindContracts, Stage, setup
<1>9. CASE LoadPolicy
  BY <1>9 DEF LoadPolicy, Stage, context, TallyInv, ExitZeroMeansClean
<1>10. CASE EvaluatePolicy
  <2>1. PICK n \in {0, 1} :
           /\ report' = [report EXCEPT !.failed = @ + n]
           /\ gate' = IF n = 1 THEN "failed" ELSE "passed"
    BY <1>10 DEF EvaluatePolicy
  <2>2. report'.failed = report.failed + n /\ report.failed \in Nat
    BY <2>1 DEF TallyInv
  <2>3. exit = "none" /\ UNCHANGED <<files, broken, exit>>
    BY <1>10 DEF EvaluatePolicy, Stage, setup
  <2>4. report' \in [failed : Nat, warning : Nat, unknown : Nat, security : Nat, fuzz : Nat]
    BY <2>1, <2>2 DEF TallyInv
  <2> QED
    BY <2>1, <2>2, <2>3, <2>4 DEF TallyInv, ExitZeroMeansClean
<1>11. CASE PrintReport
  BY <1>11 DEF PrintReport, Status, setup, context, TallyInv, ExitZeroMeansClean
<1>12. CASE Abort
  BY <1>12 DEF Abort, setup, context, TallyInv, ExitZeroMeansClean
<1>13. CASE UNCHANGED vars
  BY <1>13 DEF vars, TallyInv, ExitZeroMeansClean
<1> QED
  BY <1>1, <1>2, <1>3, <1>4, <1>5, <1>6, <1>7, <1>8, <1>9, <1>10, <1>11, <1>12, <1>13
     DEF Next

\* A status of 0 means that every stage was reached and none reported a failure,
\* and that the gate, if there is one, was not rejected: cmd_ci and print_report
\* take the failures that a policy tolerates into account all the same.
THEOREM CleanOnExitZero == Spec => []ExitZeroMeansClean
<1>1. TallyInv => ExitZeroMeansClean
  BY DEF TallyInv
<1> QED
  BY <1>1, TallyInit, TallyNext, PTL DEF Spec

-----------------------------------------------------------------------------
(* The settings and the order of the stages.                               *)

\* Stage s can only be the last one of t.
OnlyLast(s, t) == \A i \in 1 .. Len(t) : t[i] = s => i = Len(t)

\* The settings of a scan are those it starts with.
ScanSettings(g) ==
    [ApplyProfile(g) EXCEPT !.dsl = ContextContracts(ApplyProfile(g))]

PlanInv ==
    /\ given \in CommandLines
    /\ policy \in Policies \cup {NoPolicy}
    /\ args \in Options
    /\ todo \in Seq(Stages)
    /\ OnlyLast("gate", todo)
    /\ gate # "none" => todo = <<>>
    /\ given.cmd = "scan" => todo \in Seq(Passes) /\ args = ScanSettings(given)

LEMMA PassNames ==
    Passes = {"BuildSourceIR", "BuildContractIR", "BindContracts", "RunBoundedContracts",
              "RunLint", "RunSecurity", "RunMemorySafety", "RunStructuralRules",
              "RunComplexityHints", "RunFormal"}
BY DEF Passes, CapabilityOf

\* Raising settings, and adding contracts, leaves settings.
LEMMA RaiseIsSettings ==
    ASSUME NEW a \in Options, NEW p \in Profiles \cup Policies, NEW d \in SUBSET ContractPlaces
    PROVE  /\ Raise(a, p) \in Options
           /\ [Raise(a, p) EXCEPT !.dsl = d] \in Options
           /\ Raise(a, p).cmd = a.cmd /\ Raise(a, p).dsl = a.dsl
           /\ Raise(a, p).contract = a.contract
<1>1. /\ p.strict \in BOOLEAN /\ p.deep \in BOOLEAN /\ p.failWarnings \in BOOLEAN
      /\ p.failUnknown \in BOOLEAN /\ p.maxCases \in Nat
  BY DEF Profiles, Policies
<1>2. /\ a.strict \in BOOLEAN /\ a.deep \in BOOLEAN /\ a.failWarnings \in BOOLEAN
      /\ a.failUnknown \in BOOLEAN /\ a.maxCases \in Nat
  BY DEF Options
<1> DEFINE strict == a.strict \/ p.strict
           deep == a.deep \/ p.deep
           failWarnings == a.failWarnings \/ p.failWarnings
           failUnknown == a.failUnknown \/ p.failUnknown
           cases == IF a.maxCases = DefaultCases THEN p.maxCases ELSE a.maxCases
           r == [a EXCEPT !.strict = strict, !.deep = deep, !.failWarnings = failWarnings,
                          !.failUnknown = failUnknown, !.maxCases = cases]
<1>3. /\ strict \in BOOLEAN /\ deep \in BOOLEAN /\ failWarnings \in BOOLEAN
      /\ failUnknown \in BOOLEAN /\ cases \in Nat
  BY <1>1, <1>2 DEF DefaultCases
<1>4. Raise(a, p) = r
  BY DEF Raise
<1> HIDE DEF strict, deep, failWarnings, failUnknown, cases
<1>5. r \in Options /\ r.cmd = a.cmd /\ r.dsl = a.dsl /\ r.contract = a.contract
  BY <1>3 DEF Options
<1> HIDE DEF r
<1>6. [r EXCEPT !.dsl = d] \in Options
  BY <1>5 DEF Options
<1> QED
  BY <1>4, <1>5, <1>6

LEMMA ProfileIsSettings ==
    ASSUME NEW g \in Options
    PROVE  /\ ApplyProfile(g) \in Options
           /\ ApplyProfile(g).cmd = g.cmd /\ ApplyProfile(g).contract = g.contract
<1>1. CASE g.profile = NoProfile
  BY <1>1 DEF ApplyProfile
<1>2. CASE g.profile # NoProfile
  <2> DEFINE r == Raise(g, g.profile)
             d == IF g.profile.kind = "domain" THEN ProfileContracts(g) ELSE r.dsl
  <2>1. g.profile \in Profiles /\ g.dsl \in SUBSET ContractPlaces
    BY <1>2 DEF Options
  <2>2. r \in Options /\ r.cmd = g.cmd /\ r.contract = g.contract /\ r.dsl = g.dsl
    BY <2>1, RaiseIsSettings
  <2>3. d \in SUBSET ContractPlaces
    BY <2>1, <2>2 DEF ProfileContracts, ContractPlaces
  <2>4. ApplyProfile(g) = [r EXCEPT !.dsl = d]
    BY <1>2 DEF ApplyProfile
  <2> HIDE DEF r, d
  <2> QED
    BY <2>2, <2>3, <2>4 DEF Options
<1> QED
  BY <1>1, <1>2

LEMMA MergeIsSettings ==
    ASSUME NEW a \in Options, NEW p \in Policies
    PROVE  MergePolicy(a, p) \in Options /\ MergePolicy(a, p).cmd = a.cmd
<1> DEFINE r == Raise(a, p)
           d == r.dsl \cup (IF p.dsl THEN {"policy"} ELSE {})
<1>1. r \in Options /\ r.cmd = a.cmd
  BY RaiseIsSettings
<1>2. d \in SUBSET ContractPlaces
  BY <1>1 DEF Options, ContractPlaces
<1>3. MergePolicy(a, p) = [r EXCEPT !.dsl = d]
  BY DEF MergePolicy
<1> HIDE DEF r, d
<1> QED
  BY <1>1, <1>2, <1>3 DEF Options

\* What comes before the gate.
BeforeGate == Stages \ {"gate"}

LEMMA StageNames ==
    /\ Passes \subseteq BeforeGate /\ Modules \subseteq BeforeGate
    /\ {"source_ir", "strict_ast", "policy"} \subseteq BeforeGate
    /\ "gate" \in Stages /\ BeforeGate \subseteq Stages
    /\ Passes \cap {"source_ir", "strict_ast", "policy", "gate"} = {}
BY PassNames DEF BeforeGate, Stages, Modules

LEMMA PresetIsPlan ==
    ASSUME NEW preset \in Presets
    PROVE  PassesFor(preset) \in Seq(Passes)
<1> DEFINE common == <<"BuildSourceIR">>
           contractual == <<"BuildContractIR", "BindContracts", "RunBoundedContracts", "RunLint">>
           structural == <<"RunSecurity", "RunMemorySafety", "RunStructuralRules", "RunComplexityHints">>
<1>1. /\ common \in Seq(Passes) /\ contractual \in Seq(Passes) /\ structural \in Seq(Passes)
      /\ <<"RunFormal">> \in Seq(Passes) /\ <<"RunStructuralRules">> \in Seq(Passes)
  BY PassNames
<1>2. PassesFor(preset) \in
        {common, common \o structural, common \o contractual \o structural,
         common \o contractual \o structural \o <<"RunFormal">>,
         common \o contractual \o <<"RunStructuralRules">>}
  BY DEF PassesFor, Presets
<1> HIDE DEF common, contractual, structural
<1>3. common \o structural \in Seq(Passes) /\ common \o contractual \in Seq(Passes)
  BY <1>1, ConcatProperties
<1>4. /\ common \o contractual \o structural \in Seq(Passes)
      /\ common \o contractual \o <<"RunStructuralRules">> \in Seq(Passes)
  BY <1>1, <1>3, ConcatProperties
<1>5. common \o contractual \o structural \o <<"RunFormal">> \in Seq(Passes)
  BY <1>1, <1>4, ConcatProperties
<1> QED
  BY <1>1, <1>2, <1>3, <1>4, <1>5

LEMMA CommandIsPlan ==
    ASSUME NEW a \in Options
    PROVE  /\ Plan(a) \in Seq(BeforeGate)
           /\ a.cmd = "scan" => Plan(a) \in Seq(Passes)
<1> DEFINE security == a.profile # NoProfile /\ a.profile.security
           formal == a.profile # NoProfile /\ a.profile.formal
<1>1. /\ <<"source_ir">> \in Seq(BeforeGate) /\ <<"strict_ast">> \in Seq(BeforeGate)
      /\ <<"verify">> \in Seq(BeforeGate) /\ <<"verify", "lint">> \in Seq(BeforeGate)
      /\ <<"security">> \in Seq(BeforeGate) /\ <<"formal">> \in Seq(BeforeGate)
      /\ <<"policy">> \in Seq(BeforeGate)
  BY StageNames DEF Modules
<1>2. /\ If(WantsCpp(a), <<"source_ir">>) \in Seq(BeforeGate)
      /\ If(a.strict, <<"strict_ast">>) \in Seq(BeforeGate)
      /\ If(security, <<"security">>) \in Seq(BeforeGate)
      /\ If(formal, <<"formal">>) \in Seq(BeforeGate)
  BY <1>1 DEF If
<1> HIDE DEF security, formal
<1>3. CASE a.cmd = "scan"
  <2>1. PassesFor(a.preset) \in Seq(Passes)
    BY PresetIsPlan DEF Options
  <2>2. PassesFor(a.preset) \in Seq(BeforeGate)
    BY <2>1, StageNames, SeqMonotonic
  <2> QED
    BY <1>3, <2>1, <2>2 DEF Plan
<1>4. CASE a.cmd = "verify"
  <2>1. If(a.strict, <<"strict_ast">>) \o <<"verify">> \in Seq(BeforeGate)
    BY <1>1, <1>2, ConcatProperties
  <2> QED
    BY <1>4, <2>1 DEF Plan
<1>5. CASE a.cmd = "analyze"
  <2>1. If(WantsCpp(a), <<"source_ir">>) \o If(a.strict, <<"strict_ast">>) \in Seq(BeforeGate)
    BY <1>2, ConcatProperties
  <2>2. If(WantsCpp(a), <<"source_ir">>) \o If(a.strict, <<"strict_ast">>) \o <<"verify", "lint">>
            \in Seq(BeforeGate)
    BY <1>1, <2>1, ConcatProperties
  <2>3. If(WantsCpp(a), <<"source_ir">>) \o If(a.strict, <<"strict_ast">>) \o <<"verify", "lint">>
            \o If(security, <<"security">>) \in Seq(BeforeGate)
    BY <1>2, <2>2, ConcatProperties
  <2>4. If(WantsCpp(a), <<"source_ir">>) \o If(a.strict, <<"strict_ast">>) \o <<"verify", "lint">>
            \o If(security, <<"security">>) \o If(formal, <<"formal">>) \in Seq(BeforeGate)
    BY <1>2, <2>3, ConcatProperties
  <2> QED
    BY <1>5, <2>4 DEF Plan, security, formal
<1>6. CASE a.cmd = "ci"
  BY <1>1, <1>6 DEF Plan
<1> QED
  BY <1>3, <1>4, <1>5, <1>6 DEF Options, Commands

LEMMA RequiredIsPlan ==
    ASSUME NEW p \in Policies
    PROVE  RequiredModules(p) \in Seq(BeforeGate)
<1> DEFINE v == If("verify" \in Required(p), <<"verify">>)
           l == If("lint" \in Required(p), <<"lint">>)
           s == If("security" \in Required(p), <<"security">>)
           f == If("fuzz" \in Required(p), <<"fuzz">>)
<1>1. /\ <<"verify">> \in Seq(BeforeGate) /\ <<"lint">> \in Seq(BeforeGate)
      /\ <<"security">> \in Seq(BeforeGate) /\ <<"fuzz">> \in Seq(BeforeGate)
  BY StageNames DEF Modules
<1>2. /\ v \in Seq(BeforeGate) /\ l \in Seq(BeforeGate) /\ s \in Seq(BeforeGate)
      /\ f \in Seq(BeforeGate)
  BY <1>1 DEF If
<1>3. RequiredModules(p) = v \o l \o s \o f
  BY DEF RequiredModules
<1> HIDE DEF v, l, s, f
<1>4. v \o l \in Seq(BeforeGate)
  BY <1>2, ConcatProperties
<1>5. v \o l \o s \in Seq(BeforeGate)
  BY <1>2, <1>4, ConcatProperties
<1> QED
  BY <1>2, <1>3, <1>5, ConcatProperties

LEMMA GateIsPlan ==
    ASSUME NEW a \in Options, NEW p \in Policies
    PROVE  \E s \in Seq(BeforeGate) : GatePlan(a, p) = s \o <<"gate">>
<1> DEFINE first == If(a.strict, <<"strict_ast">>)
           rest == RequiredModules(p)
<1>1. first \in Seq(BeforeGate) /\ rest \in Seq(BeforeGate)
  BY StageNames, RequiredIsPlan DEF If
<1>2. GatePlan(a, p) = first \o rest \o <<"gate">>
  BY DEF GatePlan
<1> HIDE DEF first, rest
<1>3. first \o rest \in Seq(BeforeGate)
  BY <1>1, ConcatProperties
<1> QED
  BY <1>2, <1>3

\* The gate can only be the last stage of a plan, and of what is left of one.
LEMMA NoGate ==
    ASSUME NEW s \in Seq(BeforeGate)
    PROVE  s \in Seq(Stages) /\ OnlyLast("gate", s)
<1>1. s \in Seq(Stages)
  BY StageNames, SeqMonotonic
<1>2. \A i \in 1 .. Len(s) : s[i] \in BeforeGate
  BY ElementOfSeq
<1> QED
  BY <1>1, <1>2 DEF OnlyLast, BeforeGate

LEMMA GateComesLast ==
    ASSUME NEW s \in Seq(BeforeGate)
    PROVE  s \o <<"gate">> \in Seq(Stages) /\ OnlyLast("gate", s \o <<"gate">>)
<1> DEFINE g == <<"gate">>
<1>1. s \in Seq(Stages) /\ g \in Seq(Stages) /\ Len(g) = 1 /\ Len(s) \in Nat
  BY NoGate, StageNames
<1>2. /\ s \o g \in Seq(Stages)
      /\ Len(s \o g) = Len(s) + 1
      /\ \A i \in 1 .. Len(s) : (s \o g)[i] = s[i]
  <2> HIDE DEF g
  <2>1. /\ s \o g \in Seq(Stages)
        /\ Len(s \o g) = Len(s) + Len(g)
        /\ \A i \in 1 .. Len(s) + Len(g) :
              (s \o g)[i] = IF i <= Len(s) THEN s[i] ELSE g[i - Len(s)]
    BY <1>1, ConcatProperties
  <2> QED
    BY <1>1, <2>1
<1>3. \A i \in 1 .. Len(s) : s[i] # "gate"
  BY ElementOfSeq DEF BeforeGate
<1> QED
  BY <1>1, <1>2, <1>3 DEF OnlyLast

LEMMA TailKeepsThePlan ==
    ASSUME NEW S, NEW t \in Seq(S), t # <<>>, OnlyLast("gate", t)
    PROVE  /\ Head(t) \in S /\ Tail(t) \in Seq(S)
           /\ OnlyLast("gate", Tail(t))
           /\ Head(t) = "gate" => Tail(t) = <<>>
<1>1. /\ Head(t) \in S /\ Tail(t) \in Seq(S) /\ Len(Tail(t)) = Len(t) - 1
      /\ \A i \in 1 .. Len(Tail(t)) : Tail(t)[i] = t[i + 1]
  BY HeadTailProperties
<1>2. Len(t) \in Nat /\ Len(t) > 0 /\ Head(t) = t[1]
  BY HeadTailProperties
<1>3. ASSUME Head(t) = "gate" PROVE Tail(t) = <<>>
  <2>1. Len(t) = 1
    BY <1>2, <1>3 DEF OnlyLast
  <2>2. Len(Tail(t)) = 0
    BY <1>1, <1>2, <2>1
  <2> QED
    BY <1>1, <2>2, EmptySeq
<1>4. ASSUME NEW i \in 1 .. Len(Tail(t)), Tail(t)[i] = "gate" PROVE i = Len(Tail(t))
  <2>1. i + 1 \in 1 .. Len(t) /\ t[i + 1] = "gate"
    BY <1>1, <1>2, <1>4
  <2>2. i + 1 = Len(t)
    BY <2>1 DEF OnlyLast
  <2> DEFINE m == Len(Tail(t))
             n == Len(t)
  <2>3. m = n - 1 /\ n \in Nat /\ i \in 1 .. m /\ i + 1 = n
    BY <1>1, <1>2, <2>2
  <2> HIDE DEF m, n
  <2>4. i = m
    BY <2>3
  <2> QED
    BY <2>4 DEF m
<1> QED
  BY <1>1, <1>3, <1>4 DEF OnlyLast

-----------------------------------------------------------------------------
LEMMA PlanInit == Init => PlanInv
<1> SUFFICES ASSUME Init PROVE PlanInv
  OBVIOUS
<1> DEFINE a == ApplyProfile(given)
           d == IF given.cmd = "scan" THEN ContextContracts(a) ELSE a.dsl
<1>1. given \in CommandLines /\ given \in Options
  BY CommandLineAssumption DEF Init
<1>2. a \in Options /\ a.cmd = given.cmd
  BY <1>1, ProfileIsSettings
<1>3. args = [a EXCEPT !.dsl = d]
  BY DEF Init
<1>4. d \in SUBSET ContractPlaces
  BY <1>2 DEF ContextContracts, Options, ContractPlaces
<1>5. args \in Options /\ args.cmd = given.cmd
  <2> HIDE DEF a, d
  <2> QED
    BY <1>2, <1>3, <1>4 DEF Options
<1>6. todo = Plan(args) /\ policy = NoPolicy /\ gate = "none"
  BY DEF Init
<1>7. todo \in Seq(BeforeGate) /\ (given.cmd = "scan" => todo \in Seq(Passes))
  BY <1>5, <1>6, CommandIsPlan
<1>8. given.cmd = "scan" => args = ScanSettings(given)
  BY <1>3 DEF ScanSettings
<1> QED
  BY <1>1, <1>5, <1>6, <1>7, <1>8, NoGate DEF PlanInv

\* A stage that changes no settings and is the next one of the plan.
LEMMA StageKeepsThePlan ==
    ASSUME PlanInv, NEW s, Stage(s), UNCHANGED setup, todo' = Tail(todo),
           gate' = gate \/ s = "gate"
    PROVE  PlanInv'
<1>1. todo # <<>> /\ Head(todo) = s
  BY DEF Stage
<1>2. gate = "none"
  BY <1>1 DEF PlanInv
<1>3. /\ todo' \in Seq(Stages) /\ OnlyLast("gate", todo')
      /\ s = "gate" => todo' = <<>>
  BY <1>1, TailKeepsThePlan DEF PlanInv
<1>4. given.cmd = "scan" => todo' \in Seq(Passes)
  BY <1>1, TailKeepsThePlan DEF PlanInv
<1> QED
  BY <1>2, <1>3, <1>4 DEF PlanInv, setup

LEMMA PolicyIsLoaded ==
    ASSUME PlanInv, LoadPolicy
    PROVE  policy' \in Policies
<1>1. given \in Options
  BY CommandLineAssumption DEF PlanInv
<1>2. DefaultPolicy \in Policies
  <2>1. <<>> \in Seq(Nat)
    BY EmptySeq
  <2> QED
    BY <2>1 DEF DefaultPolicy, Policies, DefaultCases, ModuleNames
<1> QED
  BY <1>1, <1>2 DEF LoadPolicy, Options

LEMMA PlanNext == PlanInv /\ [Next]_vars => PlanInv'
<1> SUFFICES ASSUME PlanInv, [Next]_vars PROVE PlanInv'
  OBVIOUS
<1>1. CASE SkipPass
  BY <1>1, StageKeepsThePlan DEF SkipPass
<1>2. CASE RunAnalysis
  BY <1>2, StageKeepsThePlan DEF RunAnalysis, Add
<1>3. CASE BuildSourceIR
  BY <1>3, StageKeepsThePlan DEF BuildSourceIR, Add
<1>4. CASE BuildSourceIRError
  BY <1>4, StageKeepsThePlan DEF BuildSourceIRError, Add
<1>5. CASE StrictAst
  BY <1>5, StageKeepsThePlan DEF StrictAst, Add
<1>6. CASE BuildContractIR
  BY <1>6, StageKeepsThePlan DEF BuildContractIR, Add
<1>7. CASE BuildContractIRError
  BY <1>7, StageKeepsThePlan DEF BuildContractIRError, Add
<1>8. CASE BindContracts
  BY <1>8, StageKeepsThePlan DEF BindContracts, Add
<1>9. CASE LoadPolicy
  <2>1. /\ Stage("policy") /\ given.policy # BadPolicy
        /\ policy' = IF given.policy = NoPolicy THEN DefaultPolicy ELSE given.policy
        /\ args' = MergePolicy(args, policy') /\ todo' = GatePlan(args', policy')
        /\ UNCHANGED <<given, gate>>
    BY <1>9 DEF LoadPolicy
  <2>4. policy' \in Policies
    BY <1>9, PolicyIsLoaded
  <2>5. args' \in Options
    BY <2>1, <2>4, MergeIsSettings DEF PlanInv
  <2>6. todo' \in Seq(Stages) /\ OnlyLast("gate", todo')
    BY <2>1, <2>4, <2>5, GateIsPlan, GateComesLast
  <2>7. gate = "none"
    BY <2>1 DEF PlanInv, Stage
  <2>8. given.cmd # "scan"
    BY <2>1, StageNames, HeadTailProperties DEF PlanInv, Stage
  <2> QED
    BY <2>1, <2>4, <2>5, <2>6, <2>7, <2>8 DEF PlanInv
<1>10. CASE EvaluatePolicy
  BY <1>10, StageKeepsThePlan DEF EvaluatePolicy
<1>11. CASE PrintReport
  BY <1>11 DEF PrintReport, setup, PlanInv
<1>12. CASE Abort
  BY <1>12 DEF Abort, setup, PlanInv
<1>13. CASE UNCHANGED vars
  BY <1>13 DEF vars, PlanInv
<1> QED
  BY <1>1, <1>2, <1>3, <1>4, <1>5, <1>6, <1>7, <1>8, <1>9, <1>10, <1>11, <1>12, <1>13
     DEF Next

-----------------------------------------------------------------------------
(* What each layer asks for.                                               *)

\* What the command line, the profile and the policy ask for is in the settings,
\* and the gate that has passed has applied them.
HeardInv ==
    /\ Asked("failUnknown") => args.failUnknown
    /\ Asked("failWarnings") => args.failWarnings
    /\ Asked("deep") => args.deep
    /\ given.maxCases # DefaultCases => args.maxCases = given.maxCases
    /\ gate = "passed" => /\ args.failUnknown => report.unknown = 0
                          /\ args.failWarnings => report.warning = 0

LEMMA RaiseRaises ==
    ASSUME NEW a \in Options, NEW p \in Profiles \cup Policies
    PROVE  /\ a.failUnknown \/ p.failUnknown => Raise(a, p).failUnknown
           /\ a.failWarnings \/ p.failWarnings => Raise(a, p).failWarnings
           /\ a.deep \/ p.deep => Raise(a, p).deep
           /\ a.maxCases # DefaultCases => Raise(a, p).maxCases = a.maxCases
BY DEF Raise, Options

LEMMA ProfileRaises ==
    ASSUME NEW g \in Options, NEW d,
           NEW p \in Profiles, g.profile # NoProfile => p = g.profile
    PROVE  LET a == [ApplyProfile(g) EXCEPT !.dsl = d] IN
           /\ g.failUnknown \/ (g.profile # NoProfile /\ p.failUnknown) => a.failUnknown
           /\ g.failWarnings \/ (g.profile # NoProfile /\ p.failWarnings) => a.failWarnings
           /\ g.deep \/ (g.profile # NoProfile /\ p.deep) => a.deep
           /\ g.maxCases # DefaultCases => a.maxCases = g.maxCases
<1> DEFINE b == ApplyProfile(g)
           r == Raise(g, p)
<1>1. b \in Options
  BY ProfileIsSettings
<1>2. /\ [b EXCEPT !.dsl = d].failUnknown = b.failUnknown
      /\ [b EXCEPT !.dsl = d].failWarnings = b.failWarnings
      /\ [b EXCEPT !.dsl = d].deep = b.deep
      /\ [b EXCEPT !.dsl = d].maxCases = b.maxCases
  <2> HIDE DEF b
  <2> QED
    BY <1>1 DEF Options
<1>3. CASE g.profile = NoProfile
  BY <1>2, <1>3 DEF ApplyProfile
<1>4. CASE g.profile # NoProfile
  <2>1. r \in Options
    BY RaiseIsSettings
  <2>2. \E e : b = [r EXCEPT !.dsl = e]
    BY <1>4 DEF ApplyProfile
  <2>3. /\ b.failUnknown = r.failUnknown /\ b.failWarnings = r.failWarnings
        /\ b.deep = r.deep /\ b.maxCases = r.maxCases
    <3> HIDE DEF b, r
    <3> QED
      BY <2>1, <2>2 DEF Options
  <2> QED
    BY <1>2, <1>4, <2>3, RaiseRaises
<1> QED
  BY <1>3, <1>4

LEMMA HeardInit == Init => HeardInv
<1> SUFFICES ASSUME Init PROVE HeardInv
  OBVIOUS
<1>1. given \in Options
  BY CommandLineAssumption DEF Init
<1>2. PICK d : args = [ApplyProfile(given) EXCEPT !.dsl = d]
  BY DEF Init
<1>3. policy = NoPolicy /\ gate = "none"
  BY DEF Init
<1>4. PICK p \in Profiles : given.profile # NoProfile => p = given.profile
  <2>1. CASE given.profile # NoProfile
    BY <1>1, <2>1 DEF Options
  <2>2. CASE given.profile = NoProfile
    <3>1. [kind |-> "domain", strict |-> FALSE, deep |-> FALSE, security |-> FALSE,
           formal |-> FALSE, failWarnings |-> FALSE, failUnknown |-> FALSE,
           maxCases |-> 0] \in Profiles
      BY DEF Profiles
    <3> QED
      BY <2>2, <3>1
  <2> QED
    BY <2>1, <2>2
<1>5. /\ given.failUnknown \/ (given.profile # NoProfile /\ p.failUnknown) => args.failUnknown
      /\ given.failWarnings \/ (given.profile # NoProfile /\ p.failWarnings) => args.failWarnings
      /\ given.deep \/ (given.profile # NoProfile /\ p.deep) => args.deep
      /\ given.maxCases # DefaultCases => args.maxCases = given.maxCases
  BY <1>1, <1>2, <1>4, ProfileRaises
<1> QED
  BY <1>3, <1>4, <1>5 DEF HeardInv, Asked

\* Before the gate, a stage that changes no settings.
LEMMA StageKeepsTheSettings ==
    ASSUME PlanInv, HeardInv, NEW s, Stage(s), UNCHANGED <<setup, gate>>
    PROVE  HeardInv'
<1>1. gate = "none"
  BY DEF PlanInv, Stage
<1> QED
  BY <1>1 DEF HeardInv, Asked, setup

LEMMA HeardNext == TallyInv /\ PlanInv /\ HeardInv /\ [Next]_vars => HeardInv'
<1> SUFFICES ASSUME TallyInv, PlanInv, HeardInv, [Next]_vars PROVE HeardInv'
  OBVIOUS
<1>1. CASE SkipPass
  BY <1>1, StageKeepsTheSettings DEF SkipPass
<1>2. CASE RunAnalysis
  BY <1>2, StageKeepsTheSettings DEF RunAnalysis
<1>3. CASE BuildSourceIR
  BY <1>3, StageKeepsTheSettings DEF BuildSourceIR
<1>4. CASE BuildSourceIRError
  BY <1>4, StageKeepsTheSettings DEF BuildSourceIRError
<1>5. CASE StrictAst
  BY <1>5, StageKeepsTheSettings DEF StrictAst
<1>6. CASE BuildContractIR
  BY <1>6, StageKeepsTheSettings DEF BuildContractIR
<1>7. CASE BuildContractIRError
  BY <1>7, StageKeepsTheSettings DEF BuildContractIRError
<1>8. CASE BindContracts
  BY <1>8, StageKeepsTheSettings DEF BindContracts
<1>9. CASE LoadPolicy
  <2>1. /\ gate = "none" /\ UNCHANGED <<given, gate, report>>
        /\ args' = MergePolicy(args, policy')
    BY <1>9 DEF LoadPolicy, PlanInv, Stage
  <2>2. policy' \in Policies /\ args \in Options
    BY <1>9, PolicyIsLoaded DEF PlanInv
  <2> DEFINE r == Raise(args, policy')
  <2>3. r \in Options
    BY <2>2, RaiseIsSettings
  <2>4. \E e : args' = [r EXCEPT !.dsl = e]
    BY <2>1 DEF MergePolicy
  <2>5. /\ args'.failUnknown = r.failUnknown /\ args'.failWarnings = r.failWarnings
        /\ args'.deep = r.deep /\ args'.maxCases = r.maxCases
    <3> HIDE DEF r
    <3> QED
      BY <2>3, <2>4 DEF Options
  <2>6. /\ args.failUnknown \/ policy'.failUnknown => args'.failUnknown
        /\ args.failWarnings \/ policy'.failWarnings => args'.failWarnings
        /\ args.deep \/ policy'.deep => args'.deep
        /\ args.maxCases # DefaultCases => args'.maxCases = args.maxCases
    BY <2>2, <2>5, RaiseRaises
  <2> QED
    BY <2>1, <2>6 DEF HeardInv, Asked
<1>10. CASE EvaluatePolicy
  <2>1. /\ gate' = "passed" => /\ args.failUnknown => ~(report.unknown > 0)
                               /\ args.failWarnings => ~(report.warning > 0)
        /\ report'.unknown = report.unknown /\ report'.warning = report.warning
        /\ UNCHANGED setup
    BY <1>10 DEF EvaluatePolicy
  <2>2. report.unknown \in Nat /\ report.warning \in Nat
    BY DEF TallyInv
  <2> QED
    BY <2>1, <2>2 DEF HeardInv, Asked, setup
<1>11. CASE PrintReport
  BY <1>11 DEF PrintReport, setup, HeardInv, Asked
<1>12. CASE Abort
  BY <1>12 DEF Abort, setup, HeardInv, Asked
<1>13. CASE UNCHANGED vars
  BY <1>13 DEF vars, HeardInv, Asked
<1> QED
  BY <1>1, <1>2, <1>3, <1>4, <1>5, <1>6, <1>7, <1>8, <1>9, <1>10, <1>11, <1>12, <1>13
     DEF Next

\* Whatever order the layers come in, a gate that passes has applied what the
\* strictest of them asks for: apply_profile_defaults and ci_project lose no flag.
THEOREM StricterSettings == Spec => []StricterSettingsSurvive
<1>1. HeardInv => StricterSettingsSurvive
  BY DEF HeardInv, StricterSettingsSurvive
<1> QED
  BY <1>1, TallyInit, TallyNext, PlanInit, PlanNext, HeardInit, HeardNext, PTL DEF Spec

-----------------------------------------------------------------------------
(* The passes of a scan.                                                   *)

ScanInv ==
    given.cmd = "scan" =>
        /\ contractIR \subseteq args.dsl
        /\ failedPasses \subseteq broken
        /\ broken \ failedPasses \subseteq {"BuildSourceIR"}

\* A pass whose diagnostics decide its status.
LEMMA ListedPass ==
    ASSUME PlanInv, ScanInv, NEW s, NEW o, Stage(s), Add(o, s), List(o, s),
           UNCHANGED setup, contractIR' \in {contractIR, args.dsl}
    PROVE  ScanInv'
<1>1. given.cmd = "scan" => s \in Passes
  BY HeadTailProperties DEF PlanInv, Stage
<1> QED
  BY <1>1 DEF ScanInv, Add, List, setup

LEMMA ScanNext == PlanInv /\ ScanInv /\ [Next]_vars => ScanInv'
<1> SUFFICES ASSUME PlanInv, ScanInv, [Next]_vars PROVE ScanInv'
  OBVIOUS
<1>0. given.cmd = "scan" => \A s \in {"source_ir", "strict_ast", "policy", "gate"} : ~Stage(s)
  BY StageNames, HeadTailProperties DEF PlanInv, Stage
<1>1. CASE SkipPass
  BY <1>1 DEF SkipPass, ScanInv, setup, context
<1>2. CASE RunAnalysis
  BY <1>2, ListedPass DEF RunAnalysis, context
<1>3. CASE BuildSourceIR
  BY <1>0, <1>3 DEF BuildSourceIR, Add, ScanInv, setup
<1>4. CASE BuildSourceIRError
  BY <1>4, ListedPass DEF BuildSourceIRError, context
<1>5. CASE StrictAst
  BY <1>0, <1>5 DEF StrictAst, ScanInv, setup
<1>6. CASE BuildContractIR
  BY <1>6, ListedPass DEF BuildContractIR
<1>7. CASE BuildContractIRError
  BY <1>7, ListedPass DEF BuildContractIRError, context
<1>8. CASE BindContracts
  BY <1>8, ListedPass DEF BindContracts
<1>9. CASE LoadPolicy
  BY <1>0, <1>9 DEF LoadPolicy, ScanInv
<1>10. CASE EvaluatePolicy
  BY <1>0, <1>10 DEF EvaluatePolicy, ScanInv, setup
<1>11. CASE PrintReport
  BY <1>11 DEF PrintReport, ScanInv, setup, context
<1>12. CASE Abort
  BY <1>12 DEF Abort, ScanInv, setup, context
<1>13. CASE UNCHANGED vars
  BY <1>13 DEF vars, ScanInv
<1> QED
  BY <1>1, <1>2, <1>3, <1>4, <1>5, <1>6, <1>7, <1>8, <1>9, <1>10, <1>11, <1>12, <1>13
     DEF Next

LEMMA ScanInit == Init => ScanInv
BY DEF Init, ScanInv

\* failed_passes names the passes that reported a failure, and no other, except
\* that BuildSourceIRPass answers "ok" with the failures of its frontend.
THEOREM FailedPasses == Spec => []FailedPassesAreListed
<1>1. ScanInv => FailedPassesAreListed
  BY DEF ScanInv, FailedPassesAreListed
<1> QED
  BY <1>1, PlanInit, PlanNext, ScanInit, ScanNext, PTL DEF Spec

\* With a domain profile, the contracts given with --contract are the only ones
\* that a scan ever works on.
LEMMA ExplicitScope ==
    ASSUME NEW g \in Options, g.contract, g.profile # NoProfile, g.profile.kind = "domain"
    PROVE  ScanSettings(g).dsl = {"contract"}
<1> DEFINE a == ApplyProfile(g)
           r == Raise(g, g.profile)
<1>1. g.profile \in Profiles
  BY DEF Options
<1>2. r \in Options
  BY <1>1, RaiseIsSettings
<1>3. a = [r EXCEPT !.dsl = {"contract"}]
  BY DEF ApplyProfile, ProfileContracts
<1>4. a \in Options /\ a.contract = g.contract
  BY ProfileIsSettings
<1>5. a.dsl = {"contract"}
  <2> HIDE DEF r, a
  <2> QED
    BY <1>2, <1>3 DEF Options
<1>6. ContextContracts(a) = {"contract"}
  BY <1>4, <1>5 DEF ContextContracts
<1>7. ScanSettings(g) = [a EXCEPT !.dsl = {"contract"}]
  BY <1>6 DEF ScanSettings
<1> HIDE DEF a
<1> QED
  BY <1>4, <1>7 DEF Options

\* apply_domain_profile makes explicit contracts the scope of a scan, and no
\* pass widens it.
THEOREM ExplicitContracts == Spec => []ExplicitContractsAreTheScope
<1>1. PlanInv /\ ScanInv => ExplicitContractsAreTheScope
  <2> SUFFICES ASSUME PlanInv, ScanInv, given.cmd = "scan", given.contract,
                      given.profile # NoProfile, given.profile.kind = "domain"
               PROVE  contractIR \subseteq {"contract"}
    BY DEF ExplicitContractsAreTheScope
  <2>1. given \in Options
    BY CommandLineAssumption DEF PlanInv
  <2>2. args = ScanSettings(given) /\ contractIR \subseteq args.dsl
    BY DEF PlanInv, ScanInv
  <2> QED
    BY <2>1, <2>2, ExplicitScope
<1> QED
  BY <1>1, PlanInit, PlanNext, ScanInit, ScanNext, PTL DEF Spec

-----------------------------------------------------------------------------
(* The model of the source.                                                *)

LEMMA FromNoFile ==
    ASSUME files = 0, NEW units \in SUBSET Project
    PROVE  Project = {} /\ units = {} /\ Cardinality(Project \ units) = 0
<1>1. Project = {}
  BY DEF Project
<1> QED
  BY <1>1, FS_EmptySet

\* The model holds files of the project.  Where Clang is asked for, it is the
\* model of Clang for every file, or there is a failure, or a fallback that was
\* allowed comes with a warning.
LEMMA SourceIsComplete ==
    ASSUME files \in Nat, NEW units \in SUBSET Project
    PROVE  LET built == CppSource(units) IN
           /\ built.ir \in [frontend : {"clang", "lightweight"}, units : SUBSET Project]
           /\ args.frontend # "lightweight" =>
                \/ built.ir = FromClang(Project)
                \/ built.found.failed > 0
                \/ args.fallback /\ built.found.warning > 0
<1> DEFINE lost == Cardinality(Project \ units)
           built == CppSource(units)
<1>1. lost \in Nat /\ (lost = 0 => units = Project)
  <2>1. IsFiniteSet(Project \ units)
    <3>1. IsFiniteSet(Project)
      BY FS_Interval DEF Project
    <3> QED
      BY <3>1, FS_Subset
  <2> QED
    BY <2>1, FS_CardinalityType, FS_EmptySet
<1>2. /\ \A u \in SUBSET Project :
           FromClang(u) \in [frontend : {"clang", "lightweight"}, units : SUBSET Project]
      /\ Lightweight \in [frontend : {"clang", "lightweight"}, units : SUBSET Project]
  BY DEF FromClang, Lightweight
<1>3. /\ Failures(1).failed = 1
      /\ [Failures(1) EXCEPT !.warning = 1].failed = 1
      /\ Failures(lost).failed = lost
      /\ FallbackNotice(lost).warning = lost + 1
  BY DEF Failures, FallbackNotice, Warnings, Clean
<1>4. CASE args.frontend = "lightweight"
  BY <1>2, <1>4 DEF CppSource
<1>5. CASE args.frontend # "lightweight" /\ ~args.database
  BY <1>2, <1>3, <1>5 DEF CppSource
<1>6. CASE args.frontend # "lightweight" /\ args.database
  <2>1. CASE files = 0
    <3>1. Project = {} /\ lost = 0
      BY <2>1, FromNoFile
    <3>2. built.ir = FromClang({})
      BY <1>6, <2>1, <3>1 DEF CppSource
    <3> QED
      BY <1>2, <3>1, <3>2
  <2>2. CASE files > 0 /\ lost = 0
    <3>1. built.ir = FromClang(units)
      BY <1>6, <2>2 DEF CppSource
    <3> QED
      BY <1>1, <1>2, <2>2, <3>1
  <2>3. CASE files > 0 /\ lost > 0 /\ args.fallback
    <3>1. built = [ir |-> Lightweight, found |-> FallbackNotice(lost)]
      BY <1>6, <2>3 DEF CppSource
    <3>2. lost + 1 > 0
      BY <1>1
    <3> QED
      BY <1>2, <1>3, <2>3, <3>1, <3>2
  <2>4. CASE files > 0 /\ lost > 0 /\ ~args.fallback
    <3>1. built = [ir |-> FromClang(units), found |-> Failures(lost)]
      BY <1>6, <2>4 DEF CppSource
    <3> QED
      BY <1>2, <1>3, <2>4, <3>1
  <2> QED
    BY <1>1, <2>1, <2>2, <2>3, <2>4
<1> QED
  BY <1>4, <1>5, <1>6

-----------------------------------------------------------------------------
(* Types.                                                                  *)

LEMMA TypeInit == Init /\ PlanInv => TypeOK
<1> SUFFICES ASSUME Init, PlanInv PROVE TypeOK
  OBVIOUS
<1> DEFINE a == ApplyProfile(given)
           d == IF given.cmd = "scan" THEN ContextContracts(a) ELSE a.dsl
<1>1. a \in Options /\ a.cmd = given.cmd
  BY CommandLineAssumption, ProfileIsSettings DEF PlanInv
<1>2. args = [a EXCEPT !.dsl = d]
  BY DEF Init
<1>3. args.cmd = given.cmd
  <2> HIDE DEF a, d
  <2> QED
    BY <1>1, <1>2 DEF Options
<1>4. 0 \in 0 .. MaxTroubles
  BY OutcomeAssumption
<1> QED
  BY <1>3, <1>4 DEF Init, TypeOK, PlanInv, NoSource

\* A stage that reports its diagnostics and leaves values of the right kinds.
LEMMA StageKeepsTheTypes ==
    ASSUME TypeOK, TallyInv', PlanInv', NEW s \in Stages, NEW o, Add(o, s),
           UNCHANGED <<setup, gate, exit>>,
           source' \in [frontend : {"none", "clang", "lightweight"}, units : SUBSET Project],
           contractIR' \subseteq ContractPlaces,
           bound' \in {"none", "clang", "lightweight"},
           failedPasses' \subseteq Passes,
           parsed' \subseteq Examined,
           troubles' \in 0 .. MaxTroubles
    PROVE  TypeOK'
<1>1. ran' \subseteq Stages /\ broken' \subseteq ran'
  BY DEF Add, TypeOK
<1>2. Project' = Project /\ Examined' = Examined
  BY DEF Project, Examined, setup
<1> QED
  BY <1>1, <1>2 DEF TypeOK, TallyInv, PlanInv, setup

LEMMA FindsIsBounded ==
    ASSUME troubles \in 0 .. MaxTroubles, NEW o, Finds(o)
    PROVE  troubles' \in 0 .. MaxTroubles
BY OutcomeAssumption DEF Finds

LEMMA ListedArePasses ==
    ASSUME failedPasses \subseteq Passes, NEW s, NEW o, List(o, s)
    PROVE  failedPasses' \subseteq Passes
BY DEF List

LEMMA TypeNext ==
    TypeOK /\ TallyInv /\ PlanInv /\ [Next]_vars => TypeOK'
<1> SUFFICES ASSUME TypeOK, TallyInv, PlanInv, [Next]_vars PROVE TypeOK'
  OBVIOUS
<1>a. TallyInv' /\ PlanInv'
  BY TallyNext, PlanNext
<1>b. /\ Passes \subseteq Stages /\ Analyses \subseteq Stages
      /\ {"source_ir", "strict_ast"} \subseteq Stages
  BY PassNames DEF Stages, Analyses
<1>c. args.dsl \subseteq ContractPlaces
  BY DEF PlanInv, Options
<1>1. CASE SkipPass
  BY <1>1, <1>a DEF SkipPass, setup, context, TypeOK, TallyInv, PlanInv, Project, Examined
<1>2. CASE RunAnalysis
  <2>1. PICK s \in Analyses, o \in Outcomes :
           /\ Finds(o) /\ Add(o, s) /\ List(o, s)
           /\ UNCHANGED <<setup, context, gate, exit, parsed>>
    BY <1>2 DEF RunAnalysis
  <2> QED
    BY <1>a, <1>b, <2>1, StageKeepsTheTypes, FindsIsBounded, ListedArePasses
       DEF context, TypeOK
<1>3. CASE BuildSourceIR
  <2>1. PICK s \in {"BuildSourceIR", "source_ir"}, units \in SUBSET Project :
           /\ source' = CppSource(units).ir
           /\ Add(CppSource(units).found, s)
           /\ UNCHANGED <<setup, contractIR, bound, failedPasses, gate, exit, parsed, troubles>>
    BY <1>3 DEF BuildSourceIR
  <2>2. source' \in [frontend : {"none", "clang", "lightweight"}, units : SUBSET Project]
    <3>1. CppSource(units).ir \in [frontend : {"clang", "lightweight"}, units : SUBSET Project]
      BY SourceIsComplete DEF TallyInv
    <3> QED
      BY <2>1, <3>1
  <2>3. s \in Stages
    BY <1>b, PassNames
  <2> QED
    BY <1>a, <2>1, <2>2, <2>3, StageKeepsTheTypes DEF TypeOK
<1>4. CASE BuildSourceIRError
  BY <1>4, <1>a, <1>b, PassNames, StageKeepsTheTypes, ListedArePasses
     DEF BuildSourceIRError, context, TypeOK
<1>5. CASE StrictAst
  <2>1. PICK units \in SUBSET Examined : parsed' = units
    BY <1>5 DEF StrictAst
  <2>2. /\ \E o : Add(o, "strict_ast")
        /\ UNCHANGED <<setup, context, failedPasses, gate, exit, troubles>>
    BY <1>5 DEF StrictAst
  <2> QED
    BY <1>a, <1>b, <2>1, <2>2, StageKeepsTheTypes DEF context, TypeOK
<1>6. CASE BuildContractIR
  <2>1. PICK o \in Outcomes :
           /\ Finds(o) /\ contractIR' = args.dsl
           /\ Add(o, "BuildContractIR") /\ List(o, "BuildContractIR")
           /\ UNCHANGED <<setup, source, bound, gate, exit, parsed>>
    BY <1>6 DEF BuildContractIR
  <2>2. "BuildContractIR" \in Stages
    BY <1>b, PassNames
  <2> QED
    BY <1>a, <1>c, <2>1, <2>2, StageKeepsTheTypes, FindsIsBounded, ListedArePasses DEF TypeOK
<1>7. CASE BuildContractIRError
  BY <1>7, <1>a, <1>b, PassNames, StageKeepsTheTypes, FindsIsBounded, ListedArePasses
     DEF BuildContractIRError, context, TypeOK
<1>8. CASE BindContracts
  <2>1. PICK o \in Outcomes :
           /\ Finds(o)
           /\ bound' = IF source = NoSource THEN "lightweight" ELSE source.frontend
           /\ Add(o, "BindContracts") /\ List(o, "BindContracts")
           /\ UNCHANGED <<setup, source, contractIR, gate, exit, parsed>>
    BY <1>8 DEF BindContracts
  <2>2. "BindContracts" \in Stages
    BY <1>b, PassNames
  <2>3. bound' \in {"none", "clang", "lightweight"}
    BY <2>1 DEF TypeOK
  <2> QED
    BY <1>a, <2>1, <2>2, <2>3, StageKeepsTheTypes, FindsIsBounded, ListedArePasses DEF TypeOK
<1>9. CASE LoadPolicy
  <2>1. /\ args' = MergePolicy(args, policy')
        /\ UNCHANGED <<given, files, context, report, failedPasses, gate, exit, ran,
                       broken, parsed, troubles>>
    BY <1>9 DEF LoadPolicy
  <2>2. args'.cmd = given'.cmd
    BY <1>9, <2>1, PolicyIsLoaded, MergeIsSettings DEF PlanInv, TypeOK
  <2>3. Project' = Project /\ Examined' = Examined
    BY <2>1 DEF Project, Examined
  <2> QED
    BY <1>a, <2>1, <2>2, <2>3 DEF TypeOK, TallyInv, PlanInv, context
<1>10. CASE EvaluatePolicy
  <2>1. /\ gate' \in {"passed", "failed"}
        /\ UNCHANGED <<setup, context, failedPasses, exit, ran, broken, parsed, troubles>>
    BY <1>10 DEF EvaluatePolicy
  <2>2. Project' = Project /\ Examined' = Examined
    BY <2>1 DEF Project, Examined, setup
  <2> QED
    BY <1>a, <2>1, <2>2 DEF TypeOK, TallyInv, PlanInv, setup, context
<1>11. CASE PrintReport
  BY <1>11, <1>a
     DEF PrintReport, Status, setup, context, TypeOK, TallyInv, PlanInv, Project, Examined
<1>12. CASE Abort
  BY <1>12, <1>a DEF Abort, setup, context, TypeOK, TallyInv, PlanInv, Project, Examined
<1>13. CASE UNCHANGED vars
  BY <1>13 DEF vars, TypeOK, Project, Examined
<1> QED
  BY <1>1, <1>2, <1>3, <1>4, <1>5, <1>6, <1>7, <1>8, <1>9, <1>10, <1>11, <1>12, <1>13
     DEF Next

\* Every variable keeps its kind: the settings stay settings through the
\* profile and the policy, what is left to run are stages, and the files that
\* Clang parsed are files that strict_ast_project looks at.
THEOREM Types == Spec => []TypeOK
BY TallyInit, TallyNext, PlanInit, PlanNext, TypeInit, TypeNext, PTL DEF Spec

-----------------------------------------------------------------------------
(* The strict gate.                                                        *)

\* One of the stages K is still to come in t.
ToCome(K, t) == \E i \in 1 .. Len(t) : t[i] \in K

\* Where strict_ast is asked for, Clang has parsed every file that the stage
\* looks at, or a stage has failed, or the stage is still to come: if not in the
\* stages to run, then in those that the policy will add.
StrictInv ==
    given.cmd # "scan" =>
        /\ Asked("strict") => args.strict
        /\ args.strict =>
              \/ ToCome({"policy", "strict_ast"}, todo)
              \/ broken # {}
              \/ Examined # {} /\ parsed = Examined

LEMMA ComesFirst ==
    ASSUME NEW K, NEW s \in K
    PROVE  ToCome(K, <<s>>)
<1>1. Len(<<s>>) = 1 /\ <<s>>[1] \in K
  OBVIOUS
<1> QED
  BY <1>1 DEF ToCome

LEMMA ComesInPart ==
    ASSUME NEW S, NEW s \in Seq(S), NEW t \in Seq(S), NEW K, ToCome(K, s) \/ ToCome(K, t)
    PROVE  ToCome(K, s \o t)
<1>1. /\ Len(s) \in Nat /\ Len(t) \in Nat /\ Len(s \o t) = Len(s) + Len(t)
      /\ \A i \in 1 .. Len(s) + Len(t) :
           (s \o t)[i] = IF i <= Len(s) THEN s[i] ELSE t[i - Len(s)]
  BY ConcatProperties
<1>2. ASSUME NEW i \in 1 .. Len(s), s[i] \in K PROVE ToCome(K, s \o t)
  <2>1. i \in 1 .. Len(s) + Len(t) /\ (s \o t)[i] = s[i]
    BY <1>1
  <2> QED
    BY <1>1, <1>2, <2>1 DEF ToCome
<1>3. ASSUME NEW i \in 1 .. Len(t), t[i] \in K PROVE ToCome(K, s \o t)
  <2>1. i + Len(s) \in 1 .. Len(s) + Len(t) /\ (s \o t)[i + Len(s)] = t[i]
    BY <1>1
  <2> QED
    BY <1>1, <1>3, <2>1 DEF ToCome
<1> QED
  BY <1>2, <1>3 DEF ToCome

\* A stage of K that is not the next one is to come after it.
LEMMA ComesLater ==
    ASSUME NEW S, NEW t \in Seq(S), t # <<>>, NEW K, ToCome(K, t), Head(t) \notin K
    PROVE  ToCome(K, Tail(t))
<1>1. /\ Len(t) \in Nat /\ Len(Tail(t)) = Len(t) - 1 /\ Head(t) = t[1]
      /\ \A i \in 1 .. Len(Tail(t)) : Tail(t)[i] = t[i + 1]
  BY HeadTailProperties
<1>2. PICK i \in 1 .. Len(t) : t[i] \in K
  BY DEF ToCome
<1>3. i # 1
  BY <1>1, <1>2
<1> DEFINE n == Len(t)
           m == Len(Tail(t))
<1>4. n \in Nat /\ m = n - 1 /\ i \in 1 .. n /\ i # 1
  BY <1>1, <1>2, <1>3
<1> HIDE DEF n, m
<1>5. i - 1 \in 1 .. m /\ (i - 1) + 1 = i
  BY <1>4
<1>6. Tail(t)[i - 1] \in K
  BY <1>1, <1>2, <1>5 DEF m
<1> QED
  BY <1>5, <1>6 DEF ToCome, m

\* A command that reads --strict-ast plans the stage if it is asked for.
LEMMA StrictIsPlanned ==
    ASSUME NEW a \in Options, a.cmd # "scan", a.strict
    PROVE  ToCome({"policy", "strict_ast"}, Plan(a))
<1> DEFINE K == {"policy", "strict_ast"}
           first == If(a.strict, <<"strict_ast">>)
           source_ir == If(WantsCpp(a), <<"source_ir">>)
           security == If(a.profile # NoProfile /\ a.profile.security, <<"security">>)
           formal == If(a.profile # NoProfile /\ a.profile.formal, <<"formal">>)
<1>1. /\ first \in Seq(BeforeGate) /\ source_ir \in Seq(BeforeGate)
      /\ security \in Seq(BeforeGate) /\ formal \in Seq(BeforeGate)
      /\ <<"verify">> \in Seq(BeforeGate) /\ <<"verify", "lint">> \in Seq(BeforeGate)
  BY StageNames DEF Modules, If
<1>2. first = <<"strict_ast">>
  BY DEF If
<1>3. ToCome(K, first) /\ ToCome(K, <<"policy">>)
  BY <1>2, ComesFirst
<1>4. CASE a.cmd = "verify"
  <2>1. Plan(a) = first \o <<"verify">>
    BY <1>4 DEF Plan
  <2> HIDE DEF first, K
  <2> QED
    BY <1>1, <1>3, <2>1, ComesInPart DEF K
<1>5. CASE a.cmd = "analyze"
  <2>1. Plan(a) = source_ir \o first \o <<"verify", "lint">> \o security \o formal
    BY <1>5 DEF Plan
  <2> HIDE DEF first, source_ir, security, formal, K
  <2>2. source_ir \o first \in Seq(BeforeGate) /\ ToCome(K, source_ir \o first)
    BY <1>1, <1>3, ConcatProperties, ComesInPart
  <2>3. /\ source_ir \o first \o <<"verify", "lint">> \in Seq(BeforeGate)
        /\ ToCome(K, source_ir \o first \o <<"verify", "lint">>)
    BY <1>1, <2>2, ConcatProperties, ComesInPart
  <2>4. /\ source_ir \o first \o <<"verify", "lint">> \o security \in Seq(BeforeGate)
        /\ ToCome(K, source_ir \o first \o <<"verify", "lint">> \o security)
    BY <1>1, <2>3, ConcatProperties, ComesInPart
  <2> QED
    BY <1>1, <2>1, <2>4, ComesInPart DEF K
<1>6. CASE a.cmd = "ci"
  BY <1>3, <1>6 DEF Plan
<1> QED
  BY <1>4, <1>5, <1>6 DEF Options, Commands

LEMMA StrictIsGated ==
    ASSUME NEW a \in Options, a.strict, NEW p \in Policies
    PROVE  ToCome({"policy", "strict_ast"}, GatePlan(a, p))
<1> DEFINE K == {"policy", "strict_ast"}
           first == If(a.strict, <<"strict_ast">>)
           rest == RequiredModules(p)
<1>1. /\ first = <<"strict_ast">>
      /\ first \in Seq(Stages) /\ <<"gate">> \in Seq(Stages) /\ rest \in Seq(Stages)
  <2>1. /\ first = <<"strict_ast">> /\ <<"strict_ast">> \in Seq(BeforeGate)
        /\ <<"gate">> \in Seq(Stages) /\ rest \in Seq(BeforeGate)
    BY StageNames, RequiredIsPlan DEF If
  <2> QED
    BY <2>1, StageNames, SeqMonotonic
<1>2. ToCome(K, first)
  BY <1>1, ComesFirst
<1>3. GatePlan(a, p) = first \o rest \o <<"gate">>
  BY DEF GatePlan
<1> HIDE DEF first, rest, K
<1>4. first \o rest \in Seq(Stages) /\ ToCome(K, first \o rest)
  BY <1>1, <1>2, ConcatProperties, ComesInPart
<1> QED
  BY <1>1, <1>3, <1>4, ComesInPart DEF K

LEMMA StrictInit == Init => StrictInv
<1> SUFFICES ASSUME Init, given.cmd # "scan" PROVE StrictInv
  BY DEF StrictInv
<1> DEFINE a == ApplyProfile(given)
<1>1. given \in Options
  BY CommandLineAssumption DEF Init
<1>2. a \in Options /\ a.cmd = given.cmd
  BY <1>1, ProfileIsSettings
<1>3. args = [a EXCEPT !.dsl = a.dsl] /\ policy = NoPolicy
  BY DEF Init
<1>4. args \in Options /\ args.cmd = given.cmd /\ args.strict = a.strict
  <2> HIDE DEF a
  <2> QED
    BY <1>2, <1>3 DEF Options
<1>5. Asked("strict") => args.strict
  <2>1. CASE given.profile = NoProfile
    BY <1>3, <1>4, <2>1 DEF Asked, ApplyProfile
  <2>2. CASE given.profile # NoProfile
    <3> DEFINE r == Raise(given, given.profile)
    <3>1. given.profile \in Profiles
      BY <1>1, <2>2 DEF Options
    <3>2. r \in Options
      BY <1>1, <3>1, RaiseIsSettings
    <3>3. \E e : a = [r EXCEPT !.dsl = e]
      BY <2>2 DEF ApplyProfile
    <3>4. a.strict = r.strict
      <4> HIDE DEF a, r
      <4> QED
        BY <3>2, <3>3 DEF Options
    <3>5. r.strict = (given.strict \/ given.profile.strict)
      BY <1>1 DEF Raise, Options
    <3> QED
      BY <1>3, <1>4, <3>4, <3>5 DEF Asked
  <2> QED
    BY <2>1, <2>2
<1>6. todo = Plan(args)
  BY DEF Init
<1> QED
  BY <1>4, <1>5, <1>6, StrictIsPlanned DEF StrictInv

\* A stage other than the policy and strict_ast.
LEMMA StageKeepsStrict ==
    ASSUME PlanInv, StrictInv, NEW s, Stage(s), s \notin {"policy", "strict_ast"},
           UNCHANGED <<setup, parsed>>, todo' = Tail(todo), broken \subseteq broken'
    PROVE  StrictInv'
<1>1. todo \in Seq(Stages) /\ todo # <<>> /\ Head(todo) = s
  BY DEF PlanInv, Stage
<1>2. ToCome({"policy", "strict_ast"}, todo) => ToCome({"policy", "strict_ast"}, Tail(todo))
  BY <1>1, ComesLater
<1>3. Examined' = Examined
  BY DEF Examined, Project, setup
<1> QED
  BY <1>2, <1>3 DEF StrictInv, Asked, setup

LEMMA StrictNext == TallyInv /\ PlanInv /\ StrictInv /\ [Next]_vars => StrictInv'
<1> SUFFICES ASSUME TallyInv, PlanInv, StrictInv, [Next]_vars PROVE StrictInv'
  OBVIOUS
<1>1. CASE SkipPass
  BY <1>1, StageNames, StageKeepsStrict DEF SkipPass
<1>2. CASE RunAnalysis
  <2>1. Analyses \cap {"policy", "strict_ast"} = {}
    BY DEF Analyses, Modules
  <2> QED
    BY <1>2, <2>1, StageKeepsStrict DEF RunAnalysis, Add
<1>3. CASE BuildSourceIR
  BY <1>3, StageKeepsStrict DEF BuildSourceIR, Add
<1>4. CASE BuildSourceIRError
  BY <1>4, StageKeepsStrict DEF BuildSourceIRError, Add
<1>5. CASE StrictAst
  <2>1. PICK units \in SUBSET Examined :
           /\ Add(IF Examined = {} THEN Failures(1)
                  ELSE IF Cardinality(Examined \ units) > 0
                       THEN Failures(Cardinality(Examined \ units) + 1) ELSE Clean,
                  "strict_ast")
           /\ parsed' = units /\ UNCHANGED setup
    BY <1>5 DEF StrictAst
  <2> DEFINE lost == Cardinality(Examined \ units)
  <2>2. lost \in Nat
    BY FilesAreCounted DEF TallyInv
  <2>3. Failures(1).failed > 0 /\ Failures(lost + 1).failed > 0
    BY <2>2 DEF Failures, Clean
  <2>4. Examined = {} \/ lost > 0 => broken' # {}
    BY <2>1, <2>3 DEF Add
  <2>5. lost = 0 => units = Examined
    <3>1. IsFiniteSet(Examined \ units)
      <4>1. IsFiniteSet(Project)
        BY FS_Interval DEF Project, TallyInv
      <4> QED
        BY <4>1, FS_Subset DEF Examined
    <3> QED
      BY <3>1, FS_EmptySet
  <2>6. Examined' = Examined
    BY <2>1 DEF Examined, Project, setup
  <2> QED
    BY <2>1, <2>2, <2>4, <2>5, <2>6 DEF StrictInv, Asked, setup
<1>6. CASE BuildContractIR
  BY <1>6, StageKeepsStrict DEF BuildContractIR, Add
<1>7. CASE BuildContractIRError
  BY <1>7, StageKeepsStrict DEF BuildContractIRError, Add
<1>8. CASE BindContracts
  BY <1>8, StageKeepsStrict DEF BindContracts, Add
<1>9. CASE LoadPolicy
  <2>1. /\ args' = MergePolicy(args, policy') /\ todo' = GatePlan(args', policy')
        /\ UNCHANGED given
    BY <1>9 DEF LoadPolicy
  <2>2. policy' \in Policies /\ args \in Options
    BY <1>9, PolicyIsLoaded DEF PlanInv
  <2>3. args' \in Options
    BY <2>1, <2>2, MergeIsSettings
  <2> DEFINE r == Raise(args, policy')
  <2>4. r \in Options
    BY <2>2, RaiseIsSettings
  <2>5. \E e : args' = [r EXCEPT !.dsl = e]
    BY <2>1 DEF MergePolicy
  <2>6. args'.strict = r.strict
    <3> HIDE DEF r
    <3> QED
      BY <2>4, <2>5 DEF Options
  <2>7. r.strict = (args.strict \/ policy'.strict)
    BY <2>2 DEF Raise, Options
  <2>8. args'.strict => ToCome({"policy", "strict_ast"}, todo')
    BY <2>1, <2>2, <2>3, StrictIsGated
  <2> QED
    BY <2>1, <2>6, <2>7, <2>8 DEF StrictInv, Asked
<1>10. CASE EvaluatePolicy
  BY <1>10, StageKeepsStrict DEF EvaluatePolicy
<1>11. CASE PrintReport
  BY <1>11 DEF PrintReport, setup, StrictInv, Asked, Examined, Project
<1>12. CASE Abort
  BY <1>12 DEF Abort, setup, StrictInv, Asked, Examined, Project
<1>13. CASE UNCHANGED vars
  BY <1>13 DEF vars, StrictInv, Asked, Examined, Project
<1> QED
  BY <1>1, <1>2, <1>3, <1>4, <1>5, <1>6, <1>7, <1>8, <1>9, <1>10, <1>11, <1>12, <1>13
     DEF Next

\* `analyze`, `verify` and `ci` end with a status of 0 only if Clang parsed every
\* file that strict_ast_project looks at, and there was one, no matter whether the
\* command line, the profile or the policy asks for it.
THEOREM StrictGate == Spec => []StrictGateHolds
<1>1. TallyInv /\ StrictInv => StrictGateHolds
  <2> SUFFICES ASSUME TallyInv, StrictInv, exit = "0", given.cmd # "scan", Asked("strict")
               PROVE  Examined # {} /\ parsed = Examined
    BY DEF StrictGateHolds
  <2>1. todo = <<>> /\ broken = {}
    BY DEF TallyInv, ExitZeroMeansClean
  <2>2. ~ToCome({"policy", "strict_ast"}, todo)
    BY <2>1 DEF ToCome
  <2> QED
    BY <2>1, <2>2 DEF StrictInv
<1> QED
  BY <1>1, TallyInit, TallyNext, PlanInit, PlanNext, StrictInit, StrictNext, PTL DEF Spec

-----------------------------------------------------------------------------
(* What a scan delivers.                                                   *)

\* The passes that the preset promises and that have something to work on.
Wanted ==
    {p \in Passes :
       /\ CapabilityOf[p] \in Capabilities[args.preset]
       /\ p = "BuildSourceIR" => WantsCpp(args)
       /\ p \in {"BuildContractIR", "BindContracts"} => args.dsl # {}}

\* In t, contracts are built before they are bound.
BuiltFirst(t) ==
    \A i \in 1 .. Len(t) :
        t[i] = "BindContracts" => \E j \in 1 .. i - 1 : t[j] = "BuildContractIR"

\* As long as no pass has failed, those that have run are among the wanted ones,
\* and the others of them are to come.  BindContracts finds contracts, because
\* BuildContractIR comes before it.
DeliveryInv ==
    given.cmd = "scan" /\ broken = {} =>
        /\ ran \subseteq Wanted
        /\ \A p \in Wanted \ ran : ToCome({p}, todo)
        /\ "BuildContractIR" \in ran => contractIR = args.dsl
        /\ "BuildContractIR" \in Wanted \ ran => BuiltFirst(todo)

LEMMA BuiltInParts ==
    ASSUME NEW S, NEW s \in Seq(S), NEW t \in Seq(S), BuiltFirst(s), BuiltFirst(t)
    PROVE  BuiltFirst(s \o t)
<1>1. /\ Len(s) \in Nat /\ Len(t) \in Nat /\ Len(s \o t) = Len(s) + Len(t)
      /\ \A i \in 1 .. Len(s) + Len(t) :
           (s \o t)[i] = IF i <= Len(s) THEN s[i] ELSE t[i - Len(s)]
  BY ConcatProperties
<1> SUFFICES ASSUME NEW i \in 1 .. Len(s) + Len(t), (s \o t)[i] = "BindContracts"
             PROVE  \E j \in 1 .. i - 1 : (s \o t)[j] = "BuildContractIR"
  BY <1>1 DEF BuiltFirst
<1>2. CASE i <= Len(s)
  <2>1. i \in 1 .. Len(s) /\ s[i] = "BindContracts"
    BY <1>1, <1>2
  <2>2. PICK j \in 1 .. i - 1 : s[j] = "BuildContractIR"
    BY <2>1 DEF BuiltFirst
  <2>3. j \in 1 .. Len(s) + Len(t) /\ j <= Len(s)
    BY <1>1, <1>2
  <2> QED
    BY <1>1, <2>2, <2>3
<1>3. CASE i > Len(s)
  <2> DEFINE k == i - Len(s)
  <2>1. k \in 1 .. Len(t) /\ t[k] = "BindContracts"
    BY <1>1, <1>3
  <2>2. PICK j \in 1 .. k - 1 : t[j] = "BuildContractIR"
    BY <2>1 DEF BuiltFirst
  <2>3. /\ j + Len(s) \in 1 .. i - 1 /\ j + Len(s) \in 1 .. Len(s) + Len(t)
        /\ ~(j + Len(s) <= Len(s)) /\ (j + Len(s)) - Len(s) = j
    BY <1>1
  <2> QED
    BY <1>1, <2>2, <2>3
<1> QED
  BY <1>1, <1>2, <1>3

\* What each capability stands for.
LEMMA PassOfCapability ==
    /\ CapabilityOf["BuildSourceIR"] = "source_ir"
    /\ CapabilityOf["BuildContractIR"] = "contract_ir"
    /\ CapabilityOf["BindContracts"] = "binding"
    /\ CapabilityOf["RunBoundedContracts"] = "bounded"
    /\ CapabilityOf["RunLint"] = "lint"
    /\ CapabilityOf["RunSecurity"] = "security"
    /\ CapabilityOf["RunMemorySafety"] = "memory_safety"
    /\ CapabilityOf["RunStructuralRules"] = "structural_rules"
    /\ CapabilityOf["RunComplexityHints"] = "complexity_hints"
    /\ CapabilityOf["RunFormal"] = "formal"
BY DEF CapabilityOf

\* PRESET_CAPABILITIES promises no pass that _passes_for_preset leaves out.
LEMMA PresetDelivers ==
    ASSUME NEW preset \in Presets
    PROVE  /\ \A p \in Passes :
                CapabilityOf[p] \in Capabilities[preset] => ToCome({p}, PassesFor(preset))
           /\ BuiltFirst(PassesFor(preset))
           /\ "source_ir" \in Capabilities[preset]
           /\ "binding" \in Capabilities[preset] => "contract_ir" \in Capabilities[preset]
           /\ Head(PassesFor(preset)) = "BuildSourceIR" /\ PassesFor(preset) # <<>>
<1> DEFINE common == <<"BuildSourceIR">>
           contractual == <<"BuildContractIR", "BindContracts", "RunBoundedContracts", "RunLint">>
           structural == <<"RunSecurity", "RunMemorySafety", "RunStructuralRules", "RunComplexityHints">>
           formal == <<"RunFormal">>
           rules == <<"RunStructuralRules">>
           C == {"BuildContractIR", "BindContracts", "RunBoundedContracts", "RunLint"}
           S == {"RunSecurity", "RunMemorySafety", "RunStructuralRules", "RunComplexityHints"}
           Has(P, t) == t \in Seq(Passes) /\ BuiltFirst(t) /\ \A p \in P : ToCome({p}, t)
<1>1. Has({"BuildSourceIR"}, common)
  BY PassNames DEF BuiltFirst, ToCome
<1>2. Has(C, contractual)
  BY PassNames DEF BuiltFirst, ToCome
<1>3. Has(S, structural)
  BY PassNames DEF BuiltFirst, ToCome
<1>4. Has({"RunFormal"}, formal)
  BY PassNames DEF BuiltFirst, ToCome
<1>5. Has({"RunStructuralRules"}, rules)
  BY PassNames DEF BuiltFirst, ToCome
<1>6. ASSUME NEW P, NEW Q, NEW s, NEW t, Has(P, s), Has(Q, t)
      PROVE  Has(P \cup Q, s \o t)
  <2>1. \A p \in P \cup Q : ToCome({p}, s \o t)
    BY <1>6, ComesInPart
  <2> QED
    BY <1>6, <2>1, ConcatProperties, BuiltInParts
<1> DEFINE W(P) == \A p \in Passes : CapabilityOf[p] \in Capabilities[preset] => p \in P
<1>7. \E P : W(P) /\ Has(P, PassesFor(preset))
  <2>1. CASE preset = "source"
    <3>1. W({"BuildSourceIR"})
      BY <2>1, PassNames, PassOfCapability DEF Capabilities, Presets
    <3>2. PassesFor(preset) = common
      BY <2>1 DEF PassesFor
    <3> HIDE DEF W, Has, common
    <3> QED
      BY <1>1, <3>1, <3>2
  <2>2. CASE preset = "security"
    <3>1. W({"BuildSourceIR"} \cup S)
      BY <2>2, PassNames, PassOfCapability DEF Capabilities, Presets
    <3>2. PassesFor(preset) = common \o structural
      BY <2>2 DEF PassesFor
    <3> HIDE DEF W, Has, common, structural, S
    <3> QED
      BY <1>1, <1>3, <1>6, <3>1, <3>2
  <2>3. CASE preset = "ci"
    <3>1. W({"BuildSourceIR"} \cup C \cup S)
      BY <2>3, PassNames, PassOfCapability DEF Capabilities, Presets, Contractual
    <3>2. PassesFor(preset) = common \o contractual \o structural
      BY <2>3 DEF PassesFor
    <3> HIDE DEF W, Has, common, contractual, structural, C, S
    <3>3. Has({"BuildSourceIR"} \cup C, common \o contractual)
      BY <1>1, <1>2, <1>6
    <3> QED
      BY <1>3, <1>6, <3>1, <3>2, <3>3
  <2>4. CASE preset = "full"
    <3>1. W({"BuildSourceIR"} \cup C \cup S \cup {"RunFormal"})
      BY <2>4, PassNames, PassOfCapability DEF Capabilities, Presets, Contractual
    <3>2. PassesFor(preset) = common \o contractual \o structural \o formal
      BY <2>4 DEF PassesFor
    <3> HIDE DEF W, Has, common, contractual, structural, formal, C, S
    <3>3. Has({"BuildSourceIR"} \cup C, common \o contractual)
      BY <1>1, <1>2, <1>6
    <3>4. Has({"BuildSourceIR"} \cup C \cup S, common \o contractual \o structural)
      BY <1>3, <1>6, <3>3
    <3> QED
      BY <1>4, <1>6, <3>1, <3>2, <3>4
  <2>5. CASE preset = "contracts"
    <3>1. W({"BuildSourceIR"} \cup C \cup {"RunStructuralRules"})
      BY <2>5, PassNames, PassOfCapability DEF Capabilities, Presets, Contractual
    <3>2. PassesFor(preset) = common \o contractual \o rules
      BY <2>5 DEF PassesFor
    <3> HIDE DEF W, Has, common, contractual, rules, C
    <3>3. Has({"BuildSourceIR"} \cup C, common \o contractual)
      BY <1>1, <1>2, <1>6
    <3> QED
      BY <1>5, <1>6, <3>1, <3>2, <3>3
  <2> QED
    BY <2>1, <2>2, <2>3, <2>4, <2>5 DEF Presets
<1>8. /\ "source_ir" \in Capabilities[preset]
      /\ "binding" \in Capabilities[preset] => "contract_ir" \in Capabilities[preset]
  BY DEF Capabilities, Contractual, Presets
<1>9. Head(PassesFor(preset)) = "BuildSourceIR" /\ PassesFor(preset) # <<>>
  BY DEF PassesFor, Presets
<1> QED
  BY <1>7, <1>8, <1>9

\* The profile and the contracts leave the other settings of a scan alone.
LEMMA RaiseLeaves ==
    ASSUME NEW a \in Options, NEW p \in Profiles \cup Policies, NEW d
    PROVE  LET b == [Raise(a, p) EXCEPT !.dsl = d] IN
           /\ b.preset = a.preset /\ b.frontend = a.frontend
           /\ b.database = a.database /\ b.fallback = a.fallback
<1> DEFINE r == Raise(a, p)
<1>1. r \in Options
  BY RaiseIsSettings
<1>2. /\ r.preset = a.preset /\ r.frontend = a.frontend
      /\ r.database = a.database /\ r.fallback = a.fallback
  BY DEF Raise, Options
<1>3. LET b == [r EXCEPT !.dsl = d] IN
      /\ b.preset = r.preset /\ b.frontend = r.frontend
      /\ b.database = r.database /\ b.fallback = r.fallback
  <2> HIDE DEF r
  <2> QED
    BY <1>1 DEF Options
<1> QED
  BY <1>2, <1>3

LEMMA ScanSettingsLeave ==
    ASSUME NEW g \in Options
    PROVE  LET a == ScanSettings(g) IN
           /\ a.preset = g.preset /\ a.frontend = g.frontend
           /\ a.database = g.database /\ a.fallback = g.fallback
<1> DEFINE b == ApplyProfile(g)
           a == [b EXCEPT !.dsl = ContextContracts(b)]
<1>1. b \in Options
  BY ProfileIsSettings
<1>2. /\ b.preset = g.preset /\ b.frontend = g.frontend
      /\ b.database = g.database /\ b.fallback = g.fallback
  <2>1. CASE g.profile = NoProfile
    BY <2>1 DEF ApplyProfile
  <2>2. CASE g.profile # NoProfile
    <3>1. g.profile \in Profiles
      BY <2>2 DEF Options
    <3>2. \E d : b = [Raise(g, g.profile) EXCEPT !.dsl = d]
      BY <2>2 DEF ApplyProfile
    <3> HIDE DEF b
    <3> QED
      BY <3>1, <3>2, RaiseLeaves
  <2> QED
    BY <2>1, <2>2
<1>3. /\ a.preset = b.preset /\ a.frontend = b.frontend
      /\ a.database = b.database /\ a.fallback = b.fallback
  <2> HIDE DEF b
  <2> QED
    BY <1>1 DEF Options
<1> QED
  BY <1>2, <1>3 DEF ScanSettings

LEMMA BuiltFirstAfter ==
    ASSUME NEW S, NEW t \in Seq(S), t # <<>>, BuiltFirst(t), Head(t) # "BuildContractIR"
    PROVE  BuiltFirst(Tail(t))
<1>1. /\ Len(t) \in Nat /\ Len(Tail(t)) = Len(t) - 1 /\ Head(t) = t[1]
      /\ \A i \in 1 .. Len(Tail(t)) : Tail(t)[i] = t[i + 1]
  BY HeadTailProperties
<1> DEFINE n == Len(t)
           m == Len(Tail(t))
<1>2. n \in Nat /\ m = n - 1
  BY <1>1
<1> SUFFICES ASSUME NEW i \in 1 .. m, Tail(t)[i] = "BindContracts"
             PROVE  \E j \in 1 .. i - 1 : Tail(t)[j] = "BuildContractIR"
  BY DEF BuiltFirst
<1> HIDE DEF n, m
<1>3. i + 1 \in 1 .. n /\ t[i + 1] = "BindContracts"
  BY <1>1, <1>2 DEF m
<1>4. PICK j \in 1 .. (i + 1) - 1 : t[j] = "BuildContractIR"
  BY <1>3 DEF BuiltFirst, n
<1>5. j # 1
  BY <1>1, <1>4
<1>6. j - 1 \in 1 .. i - 1 /\ j - 1 \in 1 .. m /\ (j - 1) + 1 = j
  BY <1>2, <1>4, <1>5
<1> QED
  BY <1>1, <1>4, <1>6 DEF m

LEMMA DeliveryInit == Init /\ PlanInv /\ TypeOK => DeliveryInv
<1> SUFFICES ASSUME Init, PlanInv, TypeOK, given.cmd = "scan" PROVE DeliveryInv
  BY DEF DeliveryInv
<1>1. args.cmd = "scan" /\ args.preset \in Presets
  BY DEF TypeOK, Options
<1>2. todo = PassesFor(args.preset) /\ ran = {}
  BY <1>1 DEF Init, Plan
<1> QED
  BY <1>1, <1>2, PresetDelivers DEF DeliveryInv, Wanted

\* The next pass of a scan: either it is wanted and runs, or neither.
LEMMA PassDelivers ==
    ASSUME PlanInv, DeliveryInv, NEW s, Stage(s), UNCHANGED setup, todo' = Tail(todo),
           broken \subseteq broken',
           \/ s \in Wanted /\ ran' = ran \cup {s}
           \/ s \notin Wanted /\ ran' = ran,
           contractIR' = IF s = "BuildContractIR" /\ s \in Wanted THEN args.dsl ELSE contractIR
    PROVE  DeliveryInv'
<1> SUFFICES ASSUME given.cmd = "scan", broken' = {} PROVE DeliveryInv'
  BY DEF DeliveryInv, setup
<1>1. broken = {} /\ Wanted' = Wanted
  BY DEF Wanted, setup
<1>2. todo \in Seq(Passes) /\ todo # <<>> /\ Head(todo) = s
  BY DEF PlanInv, Stage
<1>3. \A p \in Wanted \ ran : p # s => ToCome({p}, Tail(todo))
  BY <1>1, <1>2, ComesLater DEF DeliveryInv
<1>4. "BuildContractIR" \in Wanted \ ran /\ s # "BuildContractIR" => BuiltFirst(Tail(todo))
  BY <1>1, <1>2, BuiltFirstAfter DEF DeliveryInv
<1>5. "BuildContractIR" \in ran' => contractIR' = args.dsl
  BY <1>1 DEF DeliveryInv
<1>6. ran' \subseteq Wanted
  BY <1>1 DEF DeliveryInv
<1>7. \A p \in Wanted \ ran' : ToCome({p}, todo')
  BY <1>3
<1>8. "BuildContractIR" \in Wanted \ ran' => BuiltFirst(todo')
  BY <1>4
<1>9. args'.dsl = args.dsl
  BY DEF setup
<1> QED
  BY <1>1, <1>5, <1>6, <1>7, <1>8, <1>9 DEF DeliveryInv

\* A pass that has nothing to do is not wanted.
LEMMA IdleIsUnwanted ==
    ASSUME PlanInv, DeliveryInv, given.cmd = "scan", broken = {},
           NEW s \in Passes, Stage(s), NothingToDo(s)
    PROVE  s \notin Wanted
<1> SUFFICES ASSUME s \in Wanted PROVE FALSE
  OBVIOUS
<1>1. s = "BindContracts" /\ contractIR = {} /\ args.dsl # {}
  BY DEF NothingToDo, Wanted
<1>2. "BuildContractIR" \in Wanted
  <2>1. "binding" \in Capabilities[args.preset] /\ args.preset \in Presets
    BY <1>1, PassOfCapability DEF Wanted, PlanInv, Options
  <2> QED
    BY <1>1, <2>1, PresetDelivers, PassOfCapability, PassNames DEF Wanted
<1>3. "BuildContractIR" \notin ran
  BY <1>1 DEF DeliveryInv
<1>4. BuiltFirst(todo)
  BY <1>2, <1>3 DEF DeliveryInv
<1>5. Len(todo) \in Nat /\ 1 \in 1 .. Len(todo) /\ todo[1] = "BindContracts"
  BY <1>1, HeadTailProperties DEF PlanInv, Stage
<1> QED
  BY <1>4, <1>5 DEF BuiltFirst

\* A pass that has something to do is wanted.
LEMMA BusyIsWanted ==
    ASSUME PlanInv, ScanInv, given.cmd = "scan", NEW s \in Passes, ~NothingToDo(s)
    PROVE  s \in Wanted
BY DEF NothingToDo, Wanted, ScanInv

LEMMA DeliveryNext == PlanInv /\ ScanInv /\ DeliveryInv /\ [Next]_vars => DeliveryInv'
<1> SUFFICES ASSUME PlanInv, ScanInv, DeliveryInv, [Next]_vars PROVE DeliveryInv'
  OBVIOUS
<1>a. CASE given.cmd # "scan"
  <2>1. UNCHANGED given
    BY DEF Next, vars, setup, SkipPass, RunAnalysis, BuildSourceIR, BuildSourceIRError,
           StrictAst, BuildContractIR, BuildContractIRError, BindContracts, LoadPolicy,
           EvaluatePolicy, PrintReport, Abort
  <2> QED
    BY <1>a, <2>1 DEF DeliveryInv
<1>b. CASE given.cmd = "scan" /\ broken # {}
  <2>1. UNCHANGED broken \/ broken \subseteq broken'
    BY DEF Next, vars, SkipPass, RunAnalysis, BuildSourceIR, BuildSourceIRError,
           StrictAst, BuildContractIR, BuildContractIRError, BindContracts, LoadPolicy,
           EvaluatePolicy, PrintReport, Abort, Add
  <2> QED
    BY <1>b, <2>1 DEF DeliveryInv
<1>c. CASE given.cmd = "scan" /\ broken = {}
  <2>0. \A s : Stage(s) => s \in Passes /\ s \notin {"source_ir", "strict_ast", "policy", "gate"}
    BY <1>c, StageNames, HeadTailProperties DEF PlanInv, Stage
  <2>a. "BuildSourceIR" \in Passes /\ "BuildContractIR" \in Passes /\ "BindContracts" \in Passes
    BY PassNames
  <2>1. CASE SkipPass
    <3>1. PICK s \in Passes : Stage(s) /\ NothingToDo(s)
      BY <2>1 DEF SkipPass
    <3>2. s \notin Wanted
      BY <1>c, <3>1, IdleIsUnwanted
    <3>3. /\ todo' = Tail(todo) /\ UNCHANGED <<setup, context, ran, broken>>
      BY <2>1 DEF SkipPass
    <3> QED
      BY <3>1, <3>2, <3>3, PassDelivers DEF context
  <2>2. CASE RunAnalysis
    <3>1. PICK s \in Analyses, o \in Outcomes :
             /\ Stage(s) /\ (s \in Passes => ~NothingToDo(s))
             /\ Add(o, s)
             /\ UNCHANGED <<setup, context>>
      BY <2>2 DEF RunAnalysis
    <3>2. s \in Wanted /\ s # "BuildContractIR"
      BY <1>c, <2>0, <3>1, BusyIsWanted DEF Analyses, Modules
    <3> QED
      BY <3>1, <3>2, PassDelivers DEF Add, context
  <2>3. CASE BuildSourceIR
    <3>1. /\ Stage("BuildSourceIR") /\ WantsCpp(args) /\ \E o : Add(o, "BuildSourceIR")
          /\ UNCHANGED <<setup, contractIR>>
      BY <2>0, <2>3 DEF BuildSourceIR
    <3>2. "BuildSourceIR" \in Wanted
      BY <2>a, <3>1, PassOfCapability, PresetDelivers DEF Wanted, PlanInv, Options
    <3> QED
      BY <3>1, <3>2, PassDelivers DEF Add
  <2>4. CASE BuildSourceIRError
    <3>1. /\ Stage("BuildSourceIR") /\ WantsCpp(args) /\ \E o : Add(o, "BuildSourceIR")
          /\ UNCHANGED <<setup, contractIR>>
      BY <2>4 DEF BuildSourceIRError, context
    <3>2. "BuildSourceIR" \in Wanted
      BY <2>a, <3>1, PassOfCapability, PresetDelivers DEF Wanted, PlanInv, Options
    <3> QED
      BY <3>1, <3>2, PassDelivers DEF Add
  <2>5. CASE StrictAst
    BY <2>0, <2>5 DEF StrictAst
  <2>6. CASE BuildContractIR
    <3>1. /\ Stage("BuildContractIR") /\ ~NothingToDo("BuildContractIR")
          /\ contractIR' = args.dsl
          /\ \E o : Add(o, "BuildContractIR")
          /\ UNCHANGED setup
      BY <2>6 DEF BuildContractIR
    <3>2. "BuildContractIR" \in Wanted
      BY <1>c, <2>a, <3>1, BusyIsWanted
    <3> QED
      BY <3>1, <3>2, PassDelivers DEF Add
  <2>7. CASE BuildContractIRError
    <3>1. broken' # {}
      BY <2>7 DEF BuildContractIRError, Add, Failures, Clean
    <3> QED
      BY <3>1 DEF DeliveryInv
  <2>8. CASE BindContracts
    <3>1. /\ Stage("BindContracts") /\ ~NothingToDo("BindContracts")
          /\ \E o : Add(o, "BindContracts")
          /\ UNCHANGED <<setup, contractIR>>
      BY <2>8 DEF BindContracts
    <3>2. "BindContracts" \in Wanted
      BY <1>c, <2>a, <3>1, BusyIsWanted
    <3> QED
      BY <3>1, <3>2, PassDelivers DEF Add
  <2>9. CASE LoadPolicy
    BY <2>0, <2>9 DEF LoadPolicy
  <2>10. CASE EvaluatePolicy
    BY <2>0, <2>10 DEF EvaluatePolicy
  <2>11. CASE PrintReport
    BY <2>11 DEF PrintReport, DeliveryInv, Wanted, setup, context
  <2>12. CASE Abort
    BY <2>12 DEF Abort, DeliveryInv, Wanted, setup, context
  <2>13. CASE UNCHANGED vars
    BY <2>13 DEF vars, DeliveryInv, Wanted
  <2> QED
    BY <2>1, <2>2, <2>3, <2>4, <2>5, <2>6, <2>7, <2>8, <2>9, <2>10, <2>11, <2>12, <2>13
       DEF Next
<1> QED
  BY <1>a, <1>b, <1>c

\* A scan that succeeds has run the passes its preset promises and that had
\* something to work on: PRESET_CAPABILITIES and _passes_for_preset agree, and
\* no pass finds nothing to do because another one comes too late.
THEOREM CapabilitiesDelivered == Spec => []CapabilitiesAreDelivered
<1>1. TallyInv /\ PlanInv /\ DeliveryInv => CapabilitiesAreDelivered
  <2> SUFFICES ASSUME TallyInv, PlanInv, DeliveryInv, exit = "0", given.cmd = "scan"
               PROVE  CapabilitiesAreDelivered
    BY DEF CapabilitiesAreDelivered
  <2>1. todo = <<>> /\ broken = {}
    BY DEF TallyInv, ExitZeroMeansClean
  <2>2. \A p : ~ToCome({p}, todo)
    BY <2>1 DEF ToCome
  <2>3. ran = Wanted
    BY <2>1, <2>2 DEF DeliveryInv
  <2>4. args.preset = given.preset /\ args.frontend = given.frontend
    BY CommandLineAssumption, ScanSettingsLeave DEF PlanInv
  <2> QED
    BY <2>3, <2>4 DEF CapabilitiesAreDelivered, Wanted, WantsCpp
<1> QED
  BY <1>1, TallyInit, TallyNext, PlanInit, PlanNext, TypeInit, ScanInit, ScanNext,
     DeliveryInit, DeliveryNext, PTL DEF Spec

-----------------------------------------------------------------------------
(* The frontend of a scan.                                                 *)

\* Where a scan asks for Clang and no pass has failed, either the source is
\* still to be built, or Clang has the model of every file and the contracts are
\* bound to it, or a fallback was allowed and left a warning.
FrontendInv ==
    given.cmd = "scan" /\ args.frontend \in {"auto", "clang"} /\ broken = {} =>
        \/ todo # <<>> /\ Head(todo) = "BuildSourceIR" /\ bound = "none"
        \/ source = FromClang(Project) /\ bound \in {"none", "clang"}
        \/ args.fallback /\ report.warning > 0

LEMMA FrontendInit == Init /\ PlanInv /\ TypeOK => FrontendInv
<1> SUFFICES ASSUME Init, PlanInv, TypeOK, given.cmd = "scan" PROVE FrontendInv
  BY DEF FrontendInv
<1>1. args.cmd = "scan" /\ args.preset \in Presets
  BY DEF TypeOK, Options
<1>2. todo = PassesFor(args.preset) /\ bound = "none"
  BY <1>1 DEF Init, Plan
<1> QED
  BY <1>1, <1>2, PresetDelivers DEF FrontendInv

\* A warning stays, and a failure is not forgotten.
LEMMA ReportsAddUp ==
    ASSUME TallyInv, NEW o \in Counts, NEW s, Add(o, s)
    PROVE  /\ report.warning \in Nat /\ report'.warning \in Nat
           /\ report'.warning = report.warning + o.warning
           /\ broken' = {} => broken = {} /\ ~(o.failed > 0)
BY DEF TallyInv, Counts, Add

\* A pass that is not BuildSourceIR, once it is reached.
LEMMA PassKeepsTheSource ==
    ASSUME TallyInv, PlanInv, FrontendInv, NEW s, Stage(s), s # "BuildSourceIR",
           NEW o \in Counts, Add(o, s), UNCHANGED <<setup, source>>,
           bound' \in {bound, source.frontend} \/ source = NoSource
    PROVE  FrontendInv'
<1> SUFFICES ASSUME given.cmd = "scan", args.frontend \in {"auto", "clang"}, broken' = {}
             PROVE  FrontendInv'
  BY DEF FrontendInv, setup
<1>1. /\ broken = {} /\ report.warning \in Nat /\ o.warning \in Nat
      /\ report'.warning = report.warning + o.warning
  BY ReportsAddUp DEF Counts
<1>2. \/ source = FromClang(Project) /\ bound \in {"none", "clang"}
      \/ args.fallback /\ report.warning > 0
  BY <1>1 DEF FrontendInv, Stage
<1>3. /\ FromClang(Project).frontend = "clang" /\ FromClang(Project) # NoSource
      /\ FromClang(Project)' = FromClang(Project)
  BY DEF FromClang, NoSource, Project, setup
<1>4. CASE source = FromClang(Project) /\ bound \in {"none", "clang"}
  BY <1>3, <1>4 DEF FrontendInv
<1>5. CASE args.fallback /\ report.warning > 0
  BY <1>1, <1>5 DEF FrontendInv, setup
<1> QED
  BY <1>2, <1>4, <1>5

LEMMA FrontendNext ==
    TallyInv /\ PlanInv /\ FrontendInv /\ [Next]_vars => FrontendInv'
<1> SUFFICES ASSUME TallyInv, PlanInv, FrontendInv, [Next]_vars PROVE FrontendInv'
  OBVIOUS
<1> USE OutcomesAreCounts
<1>0. given.cmd = "scan" => \A s : Stage(s) => s \in Passes
  BY HeadTailProperties DEF PlanInv, Stage
<1>1. CASE SkipPass
  <2>1. PICK s \in Passes : Stage(s) /\ NothingToDo(s)
    BY <1>1 DEF SkipPass
  <2>2. given.cmd = "scan" /\ args.frontend \in {"auto", "clang"} => s # "BuildSourceIR"
    <3> SUFFICES ASSUME s = "BuildSourceIR", args.frontend \in {"auto", "clang"} PROVE FALSE
      OBVIOUS
    <3>1. "source_ir" \in Capabilities[args.preset]
      BY PresetDelivers DEF PlanInv, Options
    <3> QED
      BY <2>1, <3>1, PassOfCapability DEF NothingToDo, WantsCpp
  <2>3. UNCHANGED <<setup, context, report, broken>>
    BY <1>1 DEF SkipPass
  <2> QED
    BY <2>1, <2>2, <2>3 DEF FrontendInv, Stage, setup, context, FromClang, Project
<1>2. CASE RunAnalysis
  <2>1. PICK s \in Analyses, o \in Outcomes :
           Stage(s) /\ Add(o, s) /\ UNCHANGED <<setup, context>>
    BY <1>2 DEF RunAnalysis
  <2> QED
    BY <2>1, PassKeepsTheSource DEF Analyses, Modules, context
<1>3. CASE BuildSourceIR
  <2>1. PICK s \in {"BuildSourceIR", "source_ir"}, units \in SUBSET Project :
           /\ source' = CppSource(units).ir
           /\ Add(CppSource(units).found, s)
           /\ UNCHANGED <<setup, bound>>
    BY <1>3 DEF BuildSourceIR
  <2> SUFFICES ASSUME given.cmd = "scan", args.frontend \in {"auto", "clang"}, broken' = {}
               PROVE  FrontendInv'
    BY <2>1 DEF FrontendInv, setup
  <2> DEFINE built == CppSource(units)
  <2>2. built.found \in Counts
    BY SourceDiagnosticsAreCounts DEF TallyInv
  <2>3. \/ built.ir = FromClang(Project)
        \/ built.found.failed > 0
        \/ args.fallback /\ built.found.warning > 0
    BY SourceIsComplete DEF TallyInv
  <2>4. FromClang(Project)' = FromClang(Project)
    BY <2>1 DEF FromClang, Project, setup
  <2> HIDE DEF built
  <2>5. /\ broken = {} /\ ~(built.found.failed > 0) /\ report.warning \in Nat
        /\ built.found.warning \in Nat
        /\ report'.warning = report.warning + built.found.warning
    BY <2>1, <2>2, ReportsAddUp DEF built, Counts
  <2>6. CASE args.fallback /\ (report.warning > 0 \/ built.found.warning > 0)
    BY <2>1, <2>5, <2>6 DEF FrontendInv, setup
  <2>7. CASE built.ir = FromClang(Project) /\ bound \in {"none", "clang"}
    BY <2>1, <2>4, <2>7 DEF FrontendInv, built
  <2> QED
    BY <2>3, <2>5, <2>6, <2>7 DEF FrontendInv
<1>4. CASE BuildSourceIRError
  <2>1. broken' # {}
    BY <1>4 DEF BuildSourceIRError, Add, Failures, Clean
  <2> QED
    BY <2>1 DEF FrontendInv
<1>5. CASE StrictAst
  BY <1>0, <1>5, StageNames DEF StrictAst, FrontendInv, setup
<1>6. CASE BuildContractIR
  BY <1>6, PassKeepsTheSource DEF BuildContractIR
<1>7. CASE BuildContractIRError
  <2>1. broken' # {}
    BY <1>7 DEF BuildContractIRError, Add, Failures, Clean
  <2> QED
    BY <2>1 DEF FrontendInv
<1>8. CASE BindContracts
  BY <1>8, PassKeepsTheSource DEF BindContracts
<1>9. CASE LoadPolicy
  BY <1>0, <1>9, StageNames DEF LoadPolicy, FrontendInv
<1>10. CASE EvaluatePolicy
  BY <1>0, <1>10, StageNames DEF EvaluatePolicy, FrontendInv, setup
<1>11. CASE PrintReport
  BY <1>11 DEF PrintReport, FrontendInv, setup, context, FromClang, Project
<1>12. CASE Abort
  BY <1>12 DEF Abort, FrontendInv, setup, context, FromClang, Project
<1>13. CASE UNCHANGED vars
  BY <1>13 DEF vars, FrontendInv, FromClang, Project
<1> QED
  BY <1>1, <1>2, <1>3, <1>4, <1>5, <1>6, <1>7, <1>8, <1>9, <1>10, <1>11, <1>12, <1>13
     DEF Next

\* The lightweight frontend never replaces Clang silently: a scan that succeeds
\* and had asked for Clang has the model of every file from Clang, and its
\* contracts are bound to it, or it was allowed to fall back and says so.
THEOREM FallbackIsSaid == Spec => []NoSilentFallback
<1>1. TallyInv /\ PlanInv /\ FrontendInv => NoSilentFallback
  <2> SUFFICES ASSUME TallyInv, PlanInv, FrontendInv, exit = "0", given.cmd = "scan",
                      given.frontend \in {"auto", "clang"}
               PROVE  NoSilentFallback
    BY DEF NoSilentFallback
  <2>1. todo = <<>> /\ broken = {}
    BY DEF TallyInv, ExitZeroMeansClean
  <2>2. args.frontend = given.frontend /\ args.fallback = given.fallback
    BY CommandLineAssumption, ScanSettingsLeave DEF PlanInv
  <2> QED
    BY <2>1, <2>2 DEF FrontendInv, NoSilentFallback
<1> QED
  BY <1>1, TallyInit, TallyNext, PlanInit, PlanNext, TypeInit,
     FrontendInit, FrontendNext, PTL DEF Spec
=====================
