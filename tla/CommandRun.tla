----------------------------- MODULE CommandRun -----------------------------
(***************************************************************************)
(* One run of `scan`, `analyze`, `verify` or `ci`, from its settled options *)
(* to its exit status: the passes of the engine over the context that they *)
(* share, the modules of the CI gate and its policy.                       *)
(*                                                                         *)
(* An analysis is an action that reports any number of diagnostics of each *)
(* level (what the analyses find is not modelled here).  INFO, HEURISTIC,  *)
(* PROVED and BOUNDED_VERIFIED decide nothing and are not counted.  Clang  *)
(* may parse a file in one stage and time out on it in the next one.  The  *)
(* files that a compile database lists are taken to be the project's.      *)
(***************************************************************************)
EXTENDS Settings, FiniteSets

CONSTANTS
    CommandLines,   \* the command lines tried
    Outcomes,       \* what one analysis may report
    MaxProject,     \* bound: files of the project
    MaxFiles,       \* --max-files, the files that strict_ast looks at
    MaxTroubles     \* bound: analyses that report anything in one run

Clean == [failed |-> 0, warning |-> 0, unknown |-> 0]
Failures(n) == [Clean EXCEPT !.failed = n]
Warnings(n) == [Clean EXCEPT !.warning = n]

ASSUME CommandLineAssumption ==
    /\ CommandLines \subseteq Options
    /\ NoProfile \notin Profiles
    /\ NoPolicy \notin Policies /\ BadPolicy \notin Policies /\ NoPolicy # BadPolicy

ASSUME OutcomeAssumption ==
    /\ Outcomes \subseteq [failed : Nat, warning : Nat, unknown : Nat]
    /\ Clean \in Outcomes
    /\ MaxProject \in Nat /\ MaxFiles \in Nat /\ MaxTroubles \in Nat

VARIABLES
    given,          \* the command line
    args,           \* the options after the profile, and in `ci` the policy
    policy,         \* the policy of `ci`, once it is loaded
    files,          \* the number of C++ files under the root
    todo,           \* the stages still to run
    source,         \* context.source_ir
    contractIR,     \* context.contract_ir: where its contracts come from
    bound,          \* the frontend whose model the contracts were bound to
    report,         \* the diagnostics so far, counted
    failedPasses,   \* context.metadata["failed_passes"]
    gate,           \* the verdict of evaluate_policy
    exit,           \* the exit status
    ran, broken,    \* history: stages not skipped; those that reported FAILED
    parsed,         \* history: the files that the strict_ast stage parsed
    troubles        \* how much of MaxTroubles has been used

setup == <<given, args, policy, files>>
context == <<source, contractIR, bound>>
vars == <<given, args, policy, files, todo, source, contractIR, bound, report,
          failedPasses, gate, exit, ran, broken, parsed, troubles>>

NoSource == [frontend |-> "none", units |-> {}]
Project == 1 .. files

\* clang_summaries stops after max_files files.
Examined == {f \in Project : f <= MaxFiles}

\* Analyses that the commands run one after the other, and as passes.
Modules == {"verify", "lint", "security", "fuzz", "formal"}
Analyses == Modules \cup
    {"RunBoundedContracts", "RunLint", "RunSecurity", "RunMemorySafety",
     "RunStructuralRules", "RunComplexityHints", "RunFormal"}

Init ==
    /\ given \in CommandLines
    /\ files \in 0 .. MaxProject
    /\ args = [ApplyProfile(given) EXCEPT
                 !.dsl = IF given.cmd = "scan" THEN ContextContracts(ApplyProfile(given)) ELSE @]
    /\ todo = Plan(args)
    /\ policy = NoPolicy
    /\ source = NoSource /\ contractIR = {} /\ bound = "none"
    /\ report = [failed |-> 0, warning |-> 0, unknown |-> 0, security |-> 0, fuzz |-> 0]
    /\ failedPasses = {} /\ ran = {} /\ broken = {} /\ parsed = {}
    /\ gate = "none" /\ exit = "none" /\ troubles = 0

-----------------------------------------------------------------------------
Stage(s) == exit = "none" /\ todo # <<>> /\ Head(todo) = s

\* Stage s ends with the diagnostics o.  Its name is what `ci` tags them with.
Add(o, s) ==
    /\ todo' = Tail(todo)
    /\ report' = [failed |-> report.failed + o.failed,
                  warning |-> report.warning + o.warning,
                  unknown |-> report.unknown + o.unknown,
                  security |-> report.security + (IF s = "security" THEN o.warning ELSE 0),
                  fuzz |-> report.fuzz + (IF s = "fuzz" THEN o.failed ELSE 0)]
    /\ ran' = ran \cup {s}
    /\ broken' = broken \cup (IF o.failed > 0 THEN {s} ELSE {})

\* PassManager.run: a pass whose status is "failed" is listed.
\* Variant: passes that warn are listed too.
ListWarned(o, s) ==
    failedPasses' = failedPasses \cup (IF s \in Passes /\ o # Clean THEN {s} ELSE {})

List(o, s) ==
    failedPasses' = failedPasses \cup (IF s \in Passes /\ o.failed > 0 THEN {s} ELSE {})

\* An analysis finds something, or nothing.
Finds(o) ==
    /\ o # Clean => troubles < MaxTroubles
    /\ troubles' = troubles + (IF o = Clean THEN 0 ELSE 1)

\* The first lines of each pass: the preset may not ask for it, or there is
\* nothing for it to work on.
\* Variant: binding waits for a source model.
NothingToDoUnbound(s) ==
    \/ CapabilityOf[s] \notin Capabilities[args.preset]
    \/ s = "BuildSourceIR" /\ ~WantsCpp(args)
    \/ s = "BuildContractIR" /\ args.dsl = {}
    \/ s = "BindContracts" /\ (contractIR = {} \/ source = NoSource)

NothingToDo(s) ==
    \/ CapabilityOf[s] \notin Capabilities[args.preset]
    \/ s = "BuildSourceIR" /\ ~WantsCpp(args)
    \/ s = "BuildContractIR" /\ args.dsl = {}
    \/ s = "BindContracts" /\ contractIR = {}

SkipPass ==
    \E s \in Passes :
        /\ Stage(s)
        /\ NothingToDo(s)
        /\ todo' = Tail(todo)
        /\ UNCHANGED <<setup, context, report, failedPasses, gate, exit, ran,
                       broken, parsed, troubles>>

RunAnalysis ==
    \E s \in Analyses, o \in Outcomes :
        /\ Stage(s)
        /\ s \in Passes => ~NothingToDo(s)
        /\ Finds(o)
        /\ Add(o, s)
        /\ List(o, s)
        /\ UNCHANGED <<setup, context, gate, exit, parsed>>

-----------------------------------------------------------------------------
(* The C++ frontends.                                                      *)

Lightweight == [frontend |-> "lightweight", units |-> Project]
FromClang(units) == [frontend |-> "clang", units |-> units]

\* The diagnostics of a fallback after Clang failed on some files.
\* Variant: none.
FallbackNoticeNone(lost) == Clean

FallbackNotice(lost) == Warnings(lost + 1)

\* build_cpp_source_ir and _lightweight_source_ir, when Clang parses `units`:
\* the model, and the diagnostics that come with it.  One file that Clang
\* cannot parse makes the whole project lightweight if falling back is allowed;
\* if not, the model holds what Clang did parse.
CppSource(units) ==
    LET lost == Cardinality(Project \ units)
        Built(ir, found) == [ir |-> ir, found |-> found]
    IN  CASE args.frontend = "lightweight" -> Built(Lightweight, Warnings(1))
          [] args.frontend # "lightweight" /\ ~args.database ->
                IF args.fallback THEN Built(Lightweight, [Failures(1) EXCEPT !.warning = 1])
                ELSE Built(FromClang({}), Failures(1))
          [] args.frontend # "lightweight" /\ args.database ->
                CASE files = 0 -> Built(FromClang({}), Warnings(1))
                  [] files > 0 /\ lost = 0 -> Built(FromClang(units), Clean)
                  [] lost > 0 /\ args.fallback -> Built(Lightweight, FallbackNotice(lost))
                  [] lost > 0 /\ ~args.fallback -> Built(FromClang(units), Failures(lost))

\* BuildSourceIRPass answers "ok" even if the model says that Clang failed.
BuildSourceIR ==
    \E s \in {"BuildSourceIR", "source_ir"}, units \in SUBSET Project :
        /\ Stage(s)
        /\ WantsCpp(args)
        /\ source' = CppSource(units).ir
        /\ Add(CppSource(units).found, s)
        /\ UNCHANGED <<setup, contractIR, bound, failedPasses, gate, exit, parsed, troubles>>

\* The pass catches whatever its frontend raises; the context has no source.
BuildSourceIRError ==
    /\ Stage("BuildSourceIR")
    /\ WantsCpp(args)
    /\ Add(Failures(1), "BuildSourceIR")
    /\ List(Failures(1), "BuildSourceIR")
    /\ UNCHANGED <<setup, context, gate, exit, parsed, troubles>>

\* strict_ast_project: a failure for the project and one for each file.
StrictAst ==
    \E units \in SUBSET Examined :
        LET lost == Cardinality(Examined \ units) IN
        /\ Stage("strict_ast")
        /\ Add(IF Examined = {} THEN Failures(1)
               ELSE IF lost > 0 THEN Failures(lost + 1) ELSE Clean, "strict_ast")
        /\ parsed' = units
        /\ UNCHANGED <<setup, context, failedPasses, gate, exit, troubles>>

-----------------------------------------------------------------------------
(* Contracts.                                                              *)

\* The contracts are kept even if their validation fails.
BuildContractIR ==
    \E o \in Outcomes :
        /\ Stage("BuildContractIR")
        /\ ~NothingToDo("BuildContractIR")
        /\ Finds(o)
        /\ contractIR' = args.dsl
        /\ Add(o, "BuildContractIR")
        /\ List(o, "BuildContractIR")
        /\ UNCHANGED <<setup, source, bound, gate, exit, parsed>>

\* SGDSLParseError: there are no contracts to bind.
BuildContractIRError ==
    /\ Stage("BuildContractIR")
    /\ ~NothingToDo("BuildContractIR")
    /\ Finds(Failures(1))
    /\ Add(Failures(1), "BuildContractIR")
    /\ List(Failures(1), "BuildContractIR")
    /\ UNCHANGED <<setup, context, gate, exit, parsed>>

\* build_binding_ir scans the project itself if the context has no source.
BindContracts ==
    \E o \in Outcomes :
        /\ Stage("BindContracts")
        /\ ~NothingToDo("BindContracts")
        /\ o.warning = 0 /\ o.unknown = 0
        /\ Finds(o)
        /\ bound' = IF source = NoSource THEN "lightweight" ELSE source.frontend
        /\ Add(o, "BindContracts")
        /\ List(o, "BindContracts")
        /\ UNCHANGED <<setup, source, contractIR, gate, exit, parsed>>

-----------------------------------------------------------------------------
(* The CI gate.                                                            *)

LoadPolicy ==
    /\ Stage("policy")
    /\ given.policy # BadPolicy
    /\ policy' = IF given.policy = NoPolicy THEN DefaultPolicy ELSE given.policy
    /\ args' = MergePolicy(args, policy')
    /\ todo' = GatePlan(args', policy')
    /\ UNCHANGED <<given, files, context, report, failedPasses, gate, exit, ran,
                   broken, parsed, troubles>>

Exceeds(n, limit) == limit # <<>> /\ n > limit[1]

\* evaluate_policy and the diagnostic that ci_project puts first.
EvaluatePolicy ==
    LET rejected ==
            \/ policy.failFailed /\ report.failed > policy.maxFailures
            \/ args.failWarnings /\ report.warning > 0
            \/ args.failUnknown /\ report.unknown > 0
            \/ Exceeds(report.warning, policy.maxWarnings)
            \/ Exceeds(report.unknown, policy.maxUnknown)
            \/ policy.failSecurity /\ report.security > 0
            \/ policy.failFuzz /\ report.fuzz > 0
    IN  /\ Stage("gate")
        /\ gate' = IF rejected THEN "failed" ELSE "passed"
        /\ report' = [report EXCEPT !.failed = @ + (IF rejected THEN 1 ELSE 0)]
        /\ todo' = Tail(todo)
        /\ UNCHANGED <<setup, context, failedPasses, exit, ran, broken, parsed, troubles>>

-----------------------------------------------------------------------------
\* print_report and, for `ci`, the last line of cmd_ci.
\* Variant: the gate alone decides.
StatusOfGate == IF gate = "failed" \/ (given.cmd # "ci" /\ report.failed > 0) THEN "1" ELSE "0"

Status == IF report.failed > 0 THEN "1" ELSE IF gate = "failed" THEN "1" ELSE "0"

PrintReport ==
    /\ exit = "none"
    /\ todo = <<>>
    /\ exit' = Status
    /\ UNCHANGED <<setup, todo, context, report, failedPasses, gate, ran, broken,
                   parsed, troubles>>

\* A policy that is refused, an exception that no pass catches, or a report
\* that cannot be written: the process ends there.
Abort ==
    /\ exit = "none"
    /\ exit' = "1"
    /\ UNCHANGED <<setup, todo, context, report, failedPasses, gate, ran, broken,
                   parsed, troubles>>

Next ==
    \/ SkipPass \/ RunAnalysis
    \/ BuildSourceIR \/ BuildSourceIRError \/ StrictAst
    \/ BuildContractIR \/ BuildContractIRError \/ BindContracts
    \/ LoadPolicy \/ EvaluatePolicy
    \/ PrintReport \/ Abort

Spec == Init /\ [][Next]_vars

-----------------------------------------------------------------------------
(* Properties.                                                             *)

Stages == Passes \cup Modules \cup {"source_ir", "strict_ast", "policy", "gate"}

TypeOK ==
    /\ args \in Options /\ args.cmd = given.cmd
    /\ policy \in Policies \cup {NoPolicy}
    /\ files \in 0 .. MaxProject
    /\ todo \in Seq(Stages)
    /\ source \in [frontend : {"none", "clang", "lightweight"}, units : SUBSET Project]
    /\ contractIR \subseteq ContractPlaces
    /\ bound \in {"none", "clang", "lightweight"}
    /\ report \in [failed : Nat, warning : Nat, unknown : Nat, security : Nat, fuzz : Nat]
    /\ failedPasses \subseteq Passes /\ ran \subseteq Stages /\ broken \subseteq ran
    /\ parsed \subseteq Examined
    /\ gate \in {"none", "passed", "failed"}
    /\ exit \in {"none", "0", "1"}
    /\ troubles \in 0 .. MaxTroubles

\* What a caller of the command line relies on: if the status is 0, every stage
\* that was planned has been reached and no stage reported a failure, whatever
\* the thresholds of the policy tolerate.
ExitZeroMeansClean ==
    exit = "0" => todo = <<>> /\ broken = {} /\ gate # "failed"

\* Somebody asks for f: the command line, the profile or the policy.
Asked(f) ==
    \/ given[f]
    \/ given.profile # NoProfile /\ given.profile[f]
    \/ policy # NoPolicy /\ policy[f]

\* The option says that Clang has to parse the files before bounded or heuristic
\* diagnostics are trusted.  `analyze`, `verify` and `ci` do not succeed
\* otherwise, no matter which of the three layers asks for it.
StrictGateHolds ==
    exit = "0" /\ given.cmd # "scan" /\ Asked("strict") =>
        Examined # {} /\ parsed = Examined

\* The same of every command that accepts --strict-ast, if it has anything to
\* report: each examined file was parsed by Clang in one stage or another.
StrictAstIsAGate ==
    exit = "0" /\ given.strict /\ ran # {} =>
        Examined \subseteq (parsed \cup (IF source.frontend = "clang" THEN source.units ELSE {}))

\* POLICY_REFERENCE.md: the lightweight frontend never replaces Clang silently.
\* Where Clang was asked for, a scan that succeeds and was not allowed to fall
\* back has the model of every file from Clang and bound the contracts to it;
\* one that fell back has a warning.
NoSilentFallback ==
    exit = "0" /\ given.cmd = "scan" /\ given.frontend \in {"auto", "clang"} =>
        \/ /\ source = FromClang(Project)
           /\ bound \in {"none", "clang"}
        \/ given.fallback /\ report.warning > 0

\* A gate that passes has been at least as strict as each layer asked: raised
\* flags are not lost on the way, nor a bound that the user changed.
StricterSettingsSurvive ==
    gate = "passed" =>
        /\ Asked("failUnknown") => report.unknown = 0
        /\ Asked("failWarnings") => report.warning = 0
        /\ Asked("deep") => args.deep
        /\ given.maxCases # DefaultCases => args.maxCases = given.maxCases

\* ANALYSIS_ENGINE.md: with a domain profile, the contracts a scan loads are
\* only those given with --contract, and binding waits for no others.
ExplicitContractsAreTheScope ==
    /\ given.cmd = "scan" /\ given.contract
    /\ given.profile # NoProfile /\ given.profile.kind = "domain"
    => contractIR \subseteq {"contract"}

\* failed_passes names exactly the passes that reported a failure, except that a
\* model built with failures is not a failed pass.
FailedPassesAreListed ==
    given.cmd = "scan" =>
        /\ failedPasses \subseteq broken
        /\ broken \ failedPasses \subseteq {"BuildSourceIR"}

\* PRESET_CAPABILITIES and _passes_for_preset list the same thing twice.  A scan
\* that succeeds has run every pass its preset promises and that had something
\* to work on, and no other.
CapabilitiesAreDelivered ==
    exit = "0" /\ given.cmd = "scan" =>
        ran = {p \in Passes :
                 /\ CapabilityOf[p] \in Capabilities[given.preset]
                 /\ p = "BuildSourceIR" => given.frontend # "unrequested"
                 /\ p \in {"BuildContractIR", "BindContracts"} => args.dsl # {}}
==============================================================================
