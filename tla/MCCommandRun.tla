---------------------------- MODULE MCCommandRun ----------------------------
(***************************************************************************)
(* An instance of CommandRun for TLC: the options that a command reads, in *)
(* every combination; one profile of each kind; policies that differ from  *)
(* the default one in one respect each.                                    *)
(***************************************************************************)
EXTENDS CommandRun

Builtin(required, cases) ==
    [kind |-> "builtin", strict |-> required, deep |-> TRUE, security |-> TRUE,
     formal |-> required, failWarnings |-> FALSE, failUnknown |-> required,
     maxCases |-> cases]
Domain ==
    [kind |-> "domain", strict |-> FALSE, deep |-> FALSE, security |-> FALSE,
     formal |-> FALSE, failWarnings |-> TRUE, failUnknown |-> FALSE,
     maxCases |-> DefaultCases]
MCProfiles == {NoProfile, Builtin(TRUE, 800), Builtin(FALSE, DefaultCases), Domain}

\* The options no command line below varies.
Plain(cmd, profile) ==
    [cmd |-> cmd, profile |-> profile, preset |-> "source", strict |-> FALSE,
     deep |-> FALSE, failWarnings |-> FALSE, failUnknown |-> FALSE,
     maxCases |-> DefaultCases, dsl |-> {}, contract |-> FALSE,
     frontend |-> "unrequested", database |-> TRUE, fallback |-> FALSE,
     policy |-> NoPolicy]

\* No pass of a scan reads --strict-ast: it is given with one profile only.
Scans ==
    {[Plain("scan", profile) EXCEPT !.preset = preset, !.strict = (profile = NoProfile),
         !.dsl = dsl, !.contract = contract, !.frontend = frontend, !.database = database,
         !.fallback = fallback] :
        profile \in {NoProfile, Builtin(FALSE, DefaultCases), Domain}, preset \in Presets,
        dsl \in {{}, {"dsl"}}, contract \in BOOLEAN, frontend \in Frontends,
        database \in BOOLEAN, fallback \in BOOLEAN}

Analyzes ==
    {[Plain(cmd, profile) EXCEPT !.strict = strict, !.frontend = frontend] :
        cmd \in {"analyze", "verify"}, profile \in MCProfiles, strict \in BOOLEAN,
        frontend \in {"unrequested", "clang"}}

MCPolicies ==
    {NoPolicy, BadPolicy, [DefaultPolicy EXCEPT !.required = {"other"}],
     [DefaultPolicy EXCEPT !.required = {}, !.failUnknown = TRUE],
     [DefaultPolicy EXCEPT !.required = {"verify", "lint"}, !.failWarnings = TRUE],
     [DefaultPolicy EXCEPT !.maxFailures = 2, !.failFuzz = FALSE, !.dsl = TRUE],
     [DefaultPolicy EXCEPT !.failFailed = FALSE, !.maxWarnings = <<1>>, !.maxUnknown = <<0>>],
     [DefaultPolicy EXCEPT !.strict = TRUE, !.failSecurity = TRUE, !.maxCases = 50]}

Gates ==
    {[Plain("ci", profile) EXCEPT !.strict = strict, !.failWarnings = failWarnings,
         !.failUnknown = failUnknown, !.deep = strict, !.maxCases = maxCases, !.policy = pol] :
        profile \in MCProfiles, strict \in BOOLEAN, failWarnings \in BOOLEAN,
        failUnknown \in BOOLEAN, maxCases \in {DefaultCases, 100}, pol \in MCPolicies}

MCCommandLines == Scans \cup Analyzes \cup Gates

MCOutcomes ==
    {Clean, Failures(1), Failures(2), Warnings(1), [Clean EXCEPT !.unknown = 1],
     [Warnings(2) EXCEPT !.unknown = 1]}
==============================================================================
