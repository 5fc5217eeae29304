------------------------------ MODULE Settings ------------------------------
(***************************************************************************)
(* How the commands of the CLI settle their options, before anything runs: *)
(* the command line, then the profile, then (for `ci`) the policy, each    *)
(* filling in what the one before it left at its default; and which stages *)
(* the result makes a command run.                                         *)
(*                                                                         *)
(* A command line is a record g.  Options that change no decision made     *)
(* here (paths, compiler, outputs, --headers-only) are left out, and so    *)
(* are the contents of contract files: g.dsl is the set of places that     *)
(* they come from.                                                         *)
(***************************************************************************)
EXTENDS Naturals, Sequences

CONSTANTS
    NoProfile,      \* no --profile, or a name that resolves to no profile
    NoPolicy,       \* no --policy
    BadPolicy       \* --policy names a file that is missing or not valid

Commands == {"scan", "analyze", "verify", "ci"}
Presets == {"source", "contracts", "security", "ci", "full"}

\* What "--frontend" and "--language cpp" or "--compile-commands" ask for.
Frontends == {"unrequested", "auto", "clang", "lightweight"}

\* --dsl, --contract, the profile and the policy.
ContractPlaces == {"dsl", "contract", "profile", "policy"}

\* The default of --max-cases and of every layer.
DefaultCases == 300

\* AnalysisProfile and DomainProfile.analysis: what a profile can ask for.
Profiles ==
    [kind : {"builtin", "domain"}, strict : BOOLEAN, deep : BOOLEAN, security : BOOLEAN,
     formal : BOOLEAN, failWarnings : BOOLEAN, failUnknown : BOOLEAN, maxCases : Nat]

\* What a policy may require: "other" stands for any name that is no module.
ModuleNames == {"verify", "lint", "security", "fuzz", "other"}

\* CIPolicy.  A limit is absent, <<>>, or one number.
Policies ==
    [required : SUBSET ModuleNames, dsl : BOOLEAN, maxCases : Nat, strict : BOOLEAN,
     deep : BOOLEAN, failFailed : BOOLEAN, failWarnings : BOOLEAN, failUnknown : BOOLEAN,
     failSecurity : BOOLEAN, failFuzz : BOOLEAN,
     maxFailures : Nat, maxWarnings : Seq(Nat), maxUnknown : Seq(Nat)]

\* A command line, and the settings that become of it.  The compile database
\* that it names, if any, can be loaded or not.
Options ==
    [cmd : Commands, profile : Profiles \cup {NoProfile}, preset : Presets,
     strict : BOOLEAN, deep : BOOLEAN, failWarnings : BOOLEAN, failUnknown : BOOLEAN,
     maxCases : Nat, dsl : SUBSET ContractPlaces, contract : BOOLEAN,
     frontend : Frontends, database : BOOLEAN, fallback : BOOLEAN,
     policy : Policies \cup {NoPolicy, BadPolicy}]

-----------------------------------------------------------------------------
\* A layer p on top of the settings a: flags can only be raised, and max_cases
\* is taken if it still looks as if nobody had given it.
\* Variant: what the later layer says is final.
RaiseFinal(a, p) ==
    [a EXCEPT !.strict = p.strict, !.deep = p.deep,
              !.failWarnings = p.failWarnings, !.failUnknown = p.failUnknown,
              !.maxCases = p.maxCases]

Raise(a, p) ==
    [a EXCEPT !.strict = @ \/ p.strict, !.deep = @ \/ p.deep,
              !.failWarnings = @ \/ p.failWarnings, !.failUnknown = @ \/ p.failUnknown,
              !.maxCases = IF @ = DefaultCases THEN p.maxCases ELSE @]

\* apply_domain_profile: contracts given with --contract replace all others.
\* Variant: they are one more place.
ProfileContractsAll(g) == g.dsl \cup {"profile"}

ProfileContracts(g) == IF g.contract THEN {"contract"} ELSE g.dsl \cup {"profile"}

\* get_profile, else apply_domain_profile; then _apply_analysis_profile.
ApplyProfile(g) ==
    IF g.profile = NoProfile THEN g
    ELSE [Raise(g, g.profile) EXCEPT
            !.dsl = IF g.profile.kind = "domain" THEN ProfileContracts(g) ELSE @]

\* AnalysisContext.from_namespace: a scan loads --dsl and --contract.
ContextContracts(a) == a.dsl \cup (IF a.contract THEN {"contract"} ELSE {})

\* The local variables of ci_project.
\* Variant: strict_ast is what the command line and the profile say.
MergePolicyLax(a, p) ==
    [Raise(a, p) EXCEPT !.strict = a.strict,
                        !.dsl = @ \cup (IF p.dsl THEN {"policy"} ELSE {})]

MergePolicy(a, p) ==
    [Raise(a, p) EXCEPT !.dsl = @ \cup (IF p.dsl THEN {"policy"} ELSE {})]

\* CIPolicy(): the policy of a gate that is given none.
DefaultPolicy ==
    [required |-> {"verify", "lint", "security", "fuzz"}, dsl |-> FALSE,
     maxCases |-> DefaultCases, strict |-> FALSE, deep |-> TRUE,
     failFailed |-> TRUE, failWarnings |-> FALSE, failUnknown |-> FALSE,
     failSecurity |-> FALSE, failFuzz |-> TRUE,
     maxFailures |-> 0, maxWarnings |-> <<>>, maxUnknown |-> <<>>]

\* An empty list of required modules means the default one; names that are
\* not modules are accepted and ignored.
Required(p) == IF p.required = {} THEN DefaultPolicy.required ELSE p.required

-----------------------------------------------------------------------------
\* PRESET_CAPABILITIES, without the notes and "reports".
Contractual == {"contract_ir", "binding", "bounded", "lint"}
Capabilities ==
    [preset \in Presets |->
        {"source_ir"} \cup
        CASE preset = "source" -> {}
          [] preset = "contracts" -> Contractual \cup {"structural_rules"}
          [] preset = "security" ->
                {"security", "memory_safety", "structural_rules", "complexity_hints"}
          [] preset = "ci" -> Contractual \cup
                {"security", "memory_safety", "structural_rules", "complexity_hints"}
          [] preset = "full" -> Contractual \cup
                {"security", "memory_safety", "structural_rules", "complexity_hints", "formal"}]

\* The capability each pass asks for in the first lines of its run.
CapabilityOf ==
    [BuildSourceIR |-> "source_ir", BuildContractIR |-> "contract_ir",
     BindContracts |-> "binding", RunBoundedContracts |-> "bounded",
     RunLint |-> "lint", RunSecurity |-> "security",
     RunMemorySafety |-> "memory_safety", RunStructuralRules |-> "structural_rules",
     RunComplexityHints |-> "complexity_hints", RunFormal |-> "formal"]
Passes == DOMAIN CapabilityOf

\* _passes_for_preset.  LoadProfile only reports what is active and is left out.
PassesFor(preset) ==
    LET common == <<"BuildSourceIR">>
        contractual == <<"BuildContractIR", "BindContracts", "RunBoundedContracts", "RunLint">>
        structural == <<"RunSecurity", "RunMemorySafety", "RunStructuralRules", "RunComplexityHints">>
    IN  CASE preset = "source" -> common
          [] preset = "security" -> common \o structural
          [] preset = "ci" -> common \o contractual \o structural
          [] preset = "full" -> common \o contractual \o structural \o <<"RunFormal">>
          [] preset = "contracts" -> common \o contractual \o <<"RunStructuralRules">>

\* wants_cpp_source_ir
WantsCpp(a) == a.frontend # "unrequested"

If(condition, stages) == IF condition THEN stages ELSE <<>>

\* What cmd_scan, cmd_analyze and cmd_verify run, in order, and how cmd_ci
\* begins.
Plan(a) ==
    CASE a.cmd = "scan" -> PassesFor(a.preset)
      [] a.cmd = "verify" -> If(a.strict, <<"strict_ast">>) \o <<"verify">>
      [] a.cmd = "analyze" ->
            If(WantsCpp(a), <<"source_ir">>) \o If(a.strict, <<"strict_ast">>)
            \o <<"verify", "lint">>
            \o If(a.profile # NoProfile /\ a.profile.security, <<"security">>)
            \o If(a.profile # NoProfile /\ a.profile.formal, <<"formal">>)
      [] a.cmd = "ci" -> <<"policy">>

\* What ci_project runs once it has its policy: the required modules that it
\* knows, in its own order.
RequiredModules(p) ==
    If("verify" \in Required(p), <<"verify">>) \o If("lint" \in Required(p), <<"lint">>)
    \o If("security" \in Required(p), <<"security">>) \o If("fuzz" \in Required(p), <<"fuzz">>)

\* Variant: and a stage for a required name that it does not know.
GatePlanAnyName(a, p) ==
    If(a.strict, <<"strict_ast">>) \o RequiredModules(p) \o If("other" \in Required(p), <<"other">>)
    \o <<"gate">>

GatePlan(a, p) == If(a.strict, <<"strict_ast">>) \o RequiredModules(p) \o <<"gate">>
==============================================================================
