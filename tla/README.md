# StructGuard in TLA+

StructGuard analyses C++ data structures: it scans sources, binds contracts to
classes, executes method bodies over small domains to look for a broken
contract, applies lint, security, memory and structural rules, and decides
whether a change may be merged.  This directory specifies its parts in TLA+,
model-checks them with TLC and proves the central properties with TLAPS.

Paths below are relative to the root of the repository; `cache/…`, `core/…`
stand for `src/structguard/cache/…`, `src/structguard/core/…` and so on.

## 1. The system

| component | state it keeps | operations | hard behaviour | correctness |
|---|---|---|---|---|
| Incremental cache (`cache/*`, `docs/CACHE_MODEL.md`) | a directory of `<sha256>.json` records shared by every process that scans the project, or another project from the same working directory | `clear`, `get`, `put`, fingerprint of a file, `run_cached_scan` | nothing is locked or renamed into place: concurrent scans, edits during a scan, kills between truncation and write, two clears | a hit is what an analysis would have said; the hits are those the docs promise; torn entries heal |
| Analysis engine (`core/*`) | `AnalysisContext`, mutated by the passes (`source_ir`, `contract_ir`, `binding_ir`, `metadata`) | one `run` per pass, `PassManager.run`, presets | a pass that fails does not stop the next ones; later passes read what earlier ones left | a failed pass makes the run fail; no pass reads what was not built |
| Bounded verifier (`verifier.py`, `expr.py`, `standard_contracts.py`, `counterexample.py`) | the loop over the product of the domains: counters, notes, first violation | `verify_method`, the path interpreter `_execute_nodes`, `verify_project` | two limits, three early exits, skipped states, several paths per state, notes that downgrade a verdict, code that is misread without a note, an exception that no one catches | `FAILED` is a real counterexample, `BOUNDED_VERIFIED` covers what it says |
| CI gate (`ci.py`, `policy/*`, `docs/POLICY_REFERENCE.md`) | a policy merged with command-line values | `load_policy`, `ci_project`, `cmd_ci` | default values used as "not given"; unknown names ignored; two places decide the exit status | the exit status is what the policy says |
| Fuzz, test generation, traces (`fuzz.py`, `testgen/*`, `trace.py`) | a model of a container (size, capacity, contents) and a sequence of operations | `fuzz_project`, `_minimize`, `abstract_trace`, guided generation | first failing seed hides others; the minimised sequence must still fail | a reported sequence breaks the operation's precondition, and so does what is kept of it |
| C++ frontends (`cppscan.py`, `clang_frontend.py`, `clang_bridge.py`, `frontend/cpp/*`) | while a class body is read, the contracts no method has taken yet; between calls none | lightweight scan line by line, external definitions, Clang AST, fallback between them, merge of the two models | contracts waiting for a method; a timeout or a missing Clang half-way through a project; two classes of one name | a body is verified against the contracts written for it; the merge loses and invents nothing; a fallback is reported |
| Contracts and binding (`sgdsl/*`, `ir/*`, `dsl.py`, `binding/*`) | contract IR, symbol table, binding IR | parse (twice, by two parsers), build, validate, bind, match, apply | binding depends on which files are in view, on their order and on the frontend | an accepted contract reaches the verifier; binding a part finds nothing that the whole lacks |
| Profiles and presets (`profiles/*`) | built-in and domain profiles | lookup, defaults applied to the arguments | an argument equal to the default counts as not given | what the user wrote wins |
| Memory model (`memory/*`, `analyzers/memory_safety.py`) | allocations, releases, null assignments and dereferences of one class | rules over constructors, destructors and methods | the facts of all methods are taken together, without order, branches or calls | what goes wrong with a pointer field in some run was reported; a reported leak is one |
| Formal export (`formal.py`, `pipeline.py`, `exporters/dafny.py`) | none between methods | obligation per method, solver, diagnostics, manifest | solvers that are missing, late or undecided; obligations that say nothing | `PROVED` methods meet their contracts, refuted ones do not |
| Findings, guarantees, reports (`findings/*`, `metadata.py`, `reporting/*`, `reporters/*`, `report.py`, `ci_outputs.py`) | documents on disk, canonical report | infer evidence, guarantee, severity; write; derive | six classifiers of the same diagnostic; a write that fails between two documents; reports derived later | nothing is promoted; the documents of one command agree |
| Textual rules and helpers (`lint.py`, `security.py`, other `analyzers/*`, `suggest.py`, `performance.py`, …) | none | text in, diagnostics or artefacts out | textual matching | not a state machine |

How they interact: `cli.py` builds an `AnalysisContext` from the arguments, the
profile and the preset, and hands it to `AnalysisEngine.run` or, with `--cache`,
to `run_cached_scan`, which calls the engine once per file it misses.  The
engine's passes call the frontends, the contract loader, `verify_project`, lint,
security and the rules, and share the context.  `ci_project` calls the same
analyses and the fuzzer itself and counts their diagnostics against the policy.
Everything ends in a `ProjectReport`, which the reporters write and whose
`FAILED` diagnostics set the exit status.  There are no threads: what runs
concurrently are separate processes that share the file system, above all the
cache directory.

`PROJECT.json` lists under `hazards` the places where this can go wrong in a way
a unit test would hardly reach, each with the property that watches it or the
reason why none does yet.

## 2. Modules

| module | models | checked by |
|---|---|---|
| `FreshScan` | what a scan of several processes promises: for each file, the analysis of that file at one instant | as a PROPERTY of `ScanCache` |
| `ScanCache`, `MCScanCache` | `scan --cache`: `run_cached_scan`, `JsonCacheStore`, the fingerprint, one step per access to the disk | `scan_cache_quiet`, `scan_cache_racing` |
| `ScanCacheProofs` | theorems about `ScanCache` | TLAPS |
| `BoundedVerdict` | the answer of the bounded verifier, without its loop | as a PROPERTY of `BoundedVerify` |
| `BoundedVerify`, `MCBoundedVerify` | `verify_method` | `bounded_verify` |
| `BoundedInterp`, `MCBoundedInterp` | `execute_body_paths` next to what C++ does | `bounded_interp` |
| `VerifierProofs` | theorems about `BoundedVerify` and `BoundedInterp` | TLAPS |
| `Settings` | how command line, profile and policy become the settings of a command, and which stages they plan | through `CommandRun` |
| `CommandRun`, `MCCommandRun` | one run of `scan`, `analyze`, `verify` or `ci`, from its settings to its exit status | `command_run` |
| `CommandRunProofs` | theorems about `CommandRun` | TLAPS |
| `TestGen`, `MCTestGen` | a campaign of `testgen`, its report and its test, next to the trace and to what a container can serve | `test_gen` |
| `TestGenProofs` | theorems about `TestGen` | TLAPS |
| `ContractBinding`, `MCContractBinding` | contracts from their two parsers to the symbol table, the orphans and the verifier, over scans of a whole project and of one file | `contract_binding`, `contract_ignored` |
| `ContractBindingProofs` | theorems about `ContractBinding` | TLAPS |
| `CppScan`, `MCCppScan` | the lightweight scan of a file line by line, the merge of Clang's records, the choice of the methods to verify | `cpp_scan` |
| `CppScanProofs` | theorems about `CppScan` | TLAPS |
| `Findings` | evidence, guarantee, severity and what each document shows of a diagnostic | through `FormalRun` |
| `FormalRun`, `MCFormalRun` | `formal`, `pipeline-formal` and `ci` up to their documents, and `report derive` | `formal_run`, `formal_vacuous` |
| `FormalRunProofs` | theorems about `FormalRun` and `Findings` | TLAPS |
| `MemoryRules`, `MCMemoryRules` | the memory rules next to the lives of the objects they speak of | `memory_rules` |
| `MemoryRulesProofs` | theorems about `MemoryRules` | TLAPS |

### 2.1 ScanCache

`pc[p]` is the call that process `p` is about to make, and each access to a file
that another process can observe is an action: `HashSource` and `HashContracts`
(`build_analysis_fingerprint`), `Exists`, `ReadHit` and `ReadMiss` (`get`),
`AnalyzePass` (one pass of `_run_single_file`; each reads the project anew),
`OpenForWrite` and `Write` (the truncation and the write inside `write_text`),
`Unlink` and `UnlinkMissing` (`clear`; the second is the uncaught
`FileNotFoundError`), `Finish`.  What is purely local between two accesses
(counters, lists of results) is part of the access before it.  `Crash` is a kill
or an exception of a pass anywhere; `EditSource` and `EditContracts` are the user.

`disk` maps every key to `Absent`, `Torn` (a text that is not a record) or the
diagnostics of a record.  Diagnostics are represented by what they were computed
from: the root, the file, the options and the set of inputs the passes read.  This is what
lets a property say that a cached answer is stale, or another project's.  Contracts have two parts:
`hashed`, the states that `_contract_hashes` can tell apart (a file given by
`--dsl`, or the `*.sgdsl` files of a directory), and `unhashed`, what
`load_sgdsl` and `load_dsl_files` read besides them (`*.sg`, `*.structguard`).
`fd` distinguishes a writer whose file is still linked from one whose file was
unlinked by `clear` and whose record is lost.  Two writers of one key hold the
same file; if the second finds a longer text than its own the result may not
parse (`Overlaid`).

`RootOf` says which project a process scans.  A key (`Keys`) has the path of the file relative
to the root and not the root, as in `fingerprint.py:48-55,94`; the default directory is relative
to the working directory (`cli.py:907`), so processes of several roots can share it.

`forecast` is a history variable: for a scan that runs alone it is the set of
files whose records it found at its start.

### 2.2 BoundedVerify

`world[i]` says what happens in the i-th state of the product of the domains:
whether the assumptions hold there (`feasible`) and, for each path that the
interpreter returns, the outcome of each contract and the strongest note.  One
action per decision of the loop: `Explore`, `ExploreLimit`, `Exhausted`, `Skip`,
`CaseLimit`, `Execute`, `ExecuteRaises`, `BeginPath`, `ContractHolds`, `ContractViolated`,
`ContractError`, `EndPath`, `EndCase`, `Conclude`; `Reject` stands for the four
answers that are given before the loop.  A state without paths is one in which the
interpreter raises (`verifier.py:421`, outside its `try`): there is no answer then, and
`verdict` says so.  `ExploreFactor` is 5 in the code.
`BoundedVerdict` says in one step what the answer is: the first trouble among the
states that are searched, in the order (state, path, contract), and what the
notes leave if there is none.

### 2.3 BoundedInterp

A body is a sequence of tokens (statements, `if (…) {`, `else`, `}`) over one field `x`, and
`WellFormed` says that its braces come in pairs.  Two machines read it, one after the other.
`RunStep` makes one step of the C++ run, and `trace` keeps all its moments.  Then the
interpreter reads the same text: `calls` is the stack of the calls of `_execute_nodes`, each
with the text it was given (`from`, `to`), the node its loop is at, the paths it has still to
take through that node (`paths`), those it has taken (`next`) and its caller (`up`).
`SkipReturned` is the `continue` for a path that has returned, `ExecuteStatement` is
`_execute_simple_statement`, `EnterThen`, `EnterElse` and `EnterBoth` call `_execute_nodes` on
the branches, `LeaveBranch` hands a branch's paths back to the caller and decides whether
they have returned, `NextNode` is the end of the outer loop with the limit on paths.
`NodeEnd`, `ScannedElse` and `StatementEnd` are `_scan_exec_nodes`, with what it makes of
`else if`.  Two kinds of code are not understood.  What `parse_expr` refuses is *opaque*, and
leaves a note.  What it takes for something else leaves none: an unknown call is `False`, an
unknown name 0 (`expr.py:79-80,179-180`), a statement that is no assignment, increment or
return is nothing, and the field of another object is this one's.  `Misread` lists these, and
`Understood` says of a run that it meets none of them.  The interpreter was also compared with the program: on 59,352 pairs of a body and
an initial value of `x`, the model of opaque and plain code and `execute_body_paths` return the
same paths in the same order; each kind of misread code was tried on `execute_body_paths` alone.

### 2.4 Settings and CommandRun

`Settings` has no state.  `Raise` is the rule that `_apply_analysis_profile` and
`ci_project` share: a flag can only be raised, and `max_cases` is replaced if it is
still 300.  `ApplyProfile`, `ContextContracts` and `MergePolicy` are the three places
where it, and the rule for contracts, are applied.  `Plan` and `GatePlan` are the
stages a command runs, in order; `Capabilities` and `PassesFor` are the two tables that
both say what a preset runs.

`CommandRun` executes such a plan.  `given` is what the user wrote, `args` what the code
works with.  `source`, `contractIR` and `bound` are the fields of `AnalysisContext` that
one pass leaves for another.  `RunAnalysis` is any analysis that only produces
diagnostics: what it finds is chosen freely from `Outcomes`, and `report` counts it by
level, as `evaluate_policy` and `print_report` do.  `BuildSourceIR` chooses which files
Clang parses (a timeout, a missing binary and an error are the same to its callers), and
`CppSource` is the whole of `build_cpp_source_ir`: no compile database, no files, some
files lost, with and without permission to fall back.  `StrictAst` chooses again, since
Clang may time out in one stage and not in another.  `LoadPolicy` and `EvaluatePolicy`
are the two ends of `ci_project`, `PrintReport` decides the exit status, and `Abort`
stands for every way in which the process ends before that: a refused policy, an
exception that nobody catches, a report that cannot be written.

`ran`, `broken` and `parsed` are history variables: the stages that were not skipped,
those that reported a failure, and the files the strict gate saw parsed.

### 2.5 TestGen

One class and its campaign: `AddCall`, `RemoveCall` and `AccessCall` are the three arms of
the loop in `_fuzz_container`, with the random choices free; `EndCase` is its end for one
seed, with `Minimize`; `FuzzProject` and `WriteCppTests` are the two later runs over the
same seeds, by `Verdict` and `TestCandidates`; `LoadContracts` and `ContractParseError`
what comes first.  `UtilityScore` is the score of a case, with the contract found for it as
an argument, and `AbstractTrace` the second reader of such sequences.  It reads words: `Notation`
is a sequence as `trace --ops` documents it (`push:1,pop`, `cli.py:945`), `Written` as the
campaign writes it (`push(1)`, `fuzz.py:48-51`), of which the trace knows no word.  `Violates` is the
reference they are held against: it says by counting calls, and not by simulating them,
what a container cannot serve.

### 2.6 ContractBinding

A behaviour is one project and several scans of it: of all files, and of one file at a
time, which is what `_run_single_file` does under `--cache`; with the lightweight frontend
and with Clang.  `BuildContractIR` is the validation, `AddClass` one iteration of
`build_source_symbol_table` (or of its SourceIR counterpart), `BindStructure` one of
`build_binding_ir`, `MatchContracts` the orphans, `ApplyContracts` one class of
`apply_dsl_contracts` inside `verify_project`, and `Finish` the end of a scan, after which
nothing is kept but its result in `verdicts`.  The same contract is read by two parsers:
`Invariants` and `Conditions` are what `sgdsl` keeps, `DslInvariants` and `DslConditions`
what `dsl.py` does, by the form of a method: with a block or on a line (`plain`), with a
parameter list (`params`), or without a block and in several lines (`wrapped`).  `Effective` is the dictionary in which the later of two structures
of one name in one file replaces the earlier.  `names` is the table's dictionary with its
aliases: a class with a namespace is entered under both of its names unless the short one
is taken.

### 2.7 CppScan

A file is a sequence of lines, each of a kind the scanner tells apart.  `OpenClass`,
`SkipLine` and `CloseClass` are `scan_classes_only`; `ReadNote`, `ReadMethod` and `ReadOther`
the branches of the loop in `parse_class_body`, with `pending` its two lists of contracts
read so far; `AttachDefinition` is `attach_external_definitions` with
`contiguous_contracts_before`: a definition goes to every class of the file that the name
before its `::` ends in (`ends`), and the comments before it are read only if nothing else
stands before the class's name (`whole`); `RunClang` one file of the structural model, with whatever
comes of it; `MergeRecord` one iteration of `merge_clang_structural_model`;
`VerifyProject` the filter at the head of `verify_project`.  The properties ask what C++ means:
`SpokenOf` is the function a comment stands before.  `WellFormed` are the files a compiler
accepts, `Tame` those without the constructs that the scanner is known to mistake (§ 4).

### 2.8 Findings and FormalRun

`Findings` has no state: `EvidenceOf`, `InferGuarantee`, `Severity`, `DisplayLevel` and the
`…Rows` operators say what `metadata.py`, `findings/*` and each of the reporters make of a
diagnostic.  In `FormalRun` a command starts with a project (`StartFormal`, `StartCi`),
exports one method or structure per step (`ExportMethod`, `ExportDafny`, `ExportPipeline`), and
writes what it was asked for (`WriteDocument`, `PrintReport`); `Raise` is an exception at any
point; `Derive` makes more documents from the canonical report on disk, now or after
later commands.  `docs` holds for every document the command it is from and its rows.

The obligation is modelled by its meaning: `Equations` are the assertions that
`_assignment_semantics` and the frame of `smt_for_method` make, over a state before and one
after, and `Satisfiable` is the query.  `Executed` is what the body really does.  A statement
says how it is written: plainly, as something that no pattern of `formal.py` matches (`++x`,
`x *= k`, a call that changes a field: `unseen`), or in a comment, which the patterns do match;
`Read` are the statements they see.

### 2.9 MemoryRules

`AnalyzeMemorySafety` computes the whole report from the text of a class; then `Construct`,
`CallMethod`, `Destroy` and one action per statement (`New`, `Delete`, `SetNull`, `Copy`,
`Use`, or `Skip` under a guard) run one object, until it is gone or something goes wrong
(`fault`).  The heap records where each block was allocated, how, and in which call it
was freed.  `array` is what a statement does and `read` the kind that the patterns see in it
(`new T*[n]` is read as `single`), `guard` the condition it is under or the comment it is in,
`EndsIn` the names that a name ends in, since guards are searched for as substrings, and
`oneLine` a method whose text the rules get twice.  The second half is C++ and marked external in `PROJECT.json`; the first is the
rules.

## 3. Runs

| run | instance | shows |
|---|---|---|
| `scan_cache_quiet` | 2 processes of one root, 2 files, 2 contents, 2 states of the hashed contracts, 2 passes, one clearer, 1 edit, 1 crash, edits only outside the analysis of the file; 1.15 million states | records match their keys, hits are the promised ones, one clearer never fails, the cached scan implements `FreshScan` |
| `scan_cache_racing` | 2 processes, each of its own root, 1 file, 2 options, 2 states of the contracts that are not hashed, both clear, an edit of them at any moment, 1 crash; 287 thousand states | no mixing of relative names or presets; torn entries heal |
| `bounded_verify` | products of 1 to 5 states, `max_cases` 2, factor 2, three contracts, nine kinds of state; 920 thousand states | what `FAILED` and `BOUNDED_VERIFIED` mean, refinement of `BoundedVerdict` |
| `bounded_interp` | bodies of up to 3 nodes with nested and chained `if`s, two values; every run of each body as C++; 4.8 million states | on tame bodies, next to runs that meet nothing misread, the interpreter misses and invents nothing |
| `command_run` | 0 to 2 files of which the strict gate looks at one; for `scan`, three profiles, all presets, frontends, contract options, fallback and compile databases; for the others four profiles and eight policies; up to two analyses that report something; 5 million states | what an exit status of 0 and a passed gate mean; no layer, fallback or failed pass is lost |
| `test_gen` | two seeds of six calls on four classes: guarded, with names the trace knows and does not know, without a removal; an index that is out of range in small containers only; 5.7 million states | failures, reproducers, report, test, scores and trace agree with what a container can serve |
| `contract_binding` | 50 thousand projects: one or two of ten contracts in two files, up to three of ten classes; six scans each; 3.5 million states | an accepted contract is applied; what a part satisfies the whole does; both frontends bind alike |
| `contract_ignored` | the same | violation: `NoContractIsIgnored` |
| `cpp_scan` | class bodies of up to three of ten kinds of lines with eleven continuations; pairs of files with a foreign header and every outcome of Clang; 1.4 million states | contracts stay with their functions; the merge is a union |
| `formal_run` | two commands; the first over each of a thousand methods of up to two statements, values 0 to 2 before and -1 to 3 after; six documents, the console and the derived three; 663 thousand states | verdicts are right for tame bodies, nothing is promoted, documents agree |
| `formal_vacuous` | the same | violation: `NothingIsVerifiedForLackOfGoals` |
| `memory_rules` | a field that is recognised or not, declared null or not; constructor and destructor of one statement, methods of two and of one, a second field `old_f` that may be an alias, texts that are misread; two calls in a life; 633 thousand states | faults were reported, reported leaks are leaks |

Why the bounds are enough.  Two processes are what every race in the store needs:
the store keeps no state between files, so a third one only repeats what the second
can do.  Two files exercise the order of the loop, the path in the key and the
advance of the index.  One edit makes an entry stale; an edit and its
reversal are left to the theorems, which hold for any number of edits.  Two passes are the least
that can read two versions of a file.  One crash is enough to leave a
torn entry, and while it heals another is a fresh instance of the same situation.  In
`bounded_verify` five states, two cases and a factor of two are the least with which
each limit is reached both before and after the other, with skipped states in between;
the nine kinds of state contain every outcome, every strength of note, a second path
that is worse than the first one, one that is better, and an interpreter that raises.  `MaxPaths` is 3 in
`bounded_interp`, so that two forks exceed it; a body of three nodes has one `if` at most, with
a statement behind it, and shorter ones have any.

In `command_run` two files let Clang lose one and parse the other, and leave one outside
`--max-files`.  Each policy differs from the default one in what a threshold, a flag
or the list of modules can change; two analyses that report something are what it takes
to have a tolerated failure and a warning in one run, or a failure that a later clean
stage could hide.

In `test_gen` six calls are the least from which the minimiser drops one, and enough to
fill a container beyond its first capacity of four; a second seed makes "the first
failure" differ from "a failure".

In `contract_binding` three classes are what it takes for an alias to be taken by one, met by
a second and asked for through a third; two files make a part of a project; two contracts
collide by name in one file, by name in two, or through a pattern.  In `cpp_scan` three
lines hold a contract, something in between and a method; the continuations add the
definitions outside and the classes that are nested, repeated or not closed.  In
`formal_run` two statements are the least that can assign, read what was assigned and
return; values 0 to 2 leave room on both sides of every comparison, and -1 to 3 is what one
step from them reaches, so that a refuted query is refuted by a value TLC tries.  The second
command is there to fail half-way over the documents of the first.  In `memory_rules` two
calls after the constructor are what an order of methods that the text does not show needs.

`CHECK_DEADLOCK FALSE` is set where the system really stops: `verify_method`
returns, a body has been executed, a command exits, a campaign,
a series of scans or the life of an object is over.

Fairness.  `ScanCache!FairSpec` is weakly fair to each process's `Proceed`: a scan
waits for nobody, so it makes its next call if it is not killed.  Nothing is
assumed about starting a scan, edits or crashes; `TornEntriesHeal` assumes in its
own hypothesis that scans with the same options keep being started.
No other property needs fairness.

## 4. What was found

Two disagreements between the code and its documents are runs:

1. `dsl.py:34`: the expressions that recognise a method in a contract file have no parameter
   list, while `sgdsl/parser.py` parses, validates and binds the same text, and
   `docs/SGDSL_SPEC.md:51` promises parameters.  A contract of `get(i)` passes every check and
   never reaches the verifier; its conditions are dropped and invariants inside it become the
   structure's (`contract_ignored`).  The same happens to `method pop requires n > 0 &&` that
   goes on in the next line: `METHOD_INLINE_RE` has `re.S` in `sgdsl/parser.py:14` and not in
   `dsl.py:35`.
2. `formal.py:291`: without postconditions and invariants the query is `(assert false)`, which
   is unsatisfiable, and the method is reported as `PROVED` and shown as
   `FORMALLY_VERIFIED`, although no obligation was discharged (`formal_vacuous`).
   Reproduced with z3.

Thirteen more are formulas of the modules that TLC refutes, one of them in two ways.  No run lists them; to see one, put it
in the place of the INVARIANTS of the configuration named, with the changes named:

| formula | configuration | shows |
|---|---|---|
| `ScanCache!CalmScanIsCurrent` | `ScanCacheQuiet`, `Procs = {p1}`, `NFiles = 1`, `UnhashedContracts = {u1, u2}`, `Clearers = {}`, `MaxCrashes = 0` | `cache/fingerprint.py:65` hashes only `*.sgdsl` in a directory of contracts, while `sgdsl/parser.py:160` and `dsl.py:108` also load `*.sg` and `*.structguard`.  Changing one of these changes the analysis and not the key, and the next scan is served the old diagnostics, against `docs/CACHE_MODEL.md:50`.  Reproduced with the CLI. |
| the same | the same, with `UnhashedContracts = {u1}` and `EditsRace = TRUE` | `cache/file_cache.py:79`: the fingerprint is taken before the passes read the file.  An edit in between stores diagnostics of the new content under the key of the old one; if the edit is taken back, the entry is served. |
| `ScanCache!HitsAreOfThisRoot` | `ScanCacheRacing` | `cache/fingerprint.py:94`: the key has the path of a file relative to the root of its scan, and not the root.  With one cache directory, which by default is relative to the working directory (`cli.py:907`), a scan of one project is answered with the diagnostics of a file of the same relative name and content in another.  `docs/CACHE_MODEL.md:37-52` lists the entries of the key and has no root either. |
| `BoundedVerify!AlwaysAnswers` | `BoundedVerify` | `verifier.py:421`: `int(val)` is outside the `try`, and a variable called `result` on the right-hand side evaluates to `None`.  The exception ends `verify` without any diagnostic, of this method or of others; in `scan` and `analyze` the pass of the verifier fails.  Reproduced with `int result = size_ + 1; size_ = result;`. |
| `BoundedVerify!EvidenceIsExhaustive` | `BoundedVerify` | `verifier.py:704`: `max_cases` feasible states end the loop without a note, and the answer is `BOUNDED_VERIFIED` with the evidence `bounded_exhaustive_over_selected_domains` although states remain.  `checked_states` then is one more than were executed.  The other limit (`verifier.py:685`) leaves a note.  Reproduced: with `max_cases` from 1 to 3, a method whose contract fails at `size_ = 3` is reported as verified. |
| `BoundedInterp!CounterexamplesAreReached` | `BoundedInterp`, `Statements <- MCGuardedStatements` | `verifier.py:472`: whether a branch returned is decided by searching its text for `return <expr>;`.  A bare `return;` behind a guard does not count, so the statements after the guard are executed on the guarded path and a `FAILED` diagnostic shows a state the method cannot leave.  For the same reason a branch with a return inside a nested `if` counts as returned on all its paths, and `else if {…}` swallows the statement that follows the whole chain.  Reproduced with `if (size_ == 0) { return; } size_ = size_ - 1;`. |
| `BoundedInterp!NothingIsMisread` | `BoundedInterp` | `expr.py:79-80,179-180`, `verifier.py:394-436`: `_is_uncertainty_note` takes a note for the sign that something was not modelled, and unknown calls, unknown names and unrecognised statements leave none.  `if (helper()) …` takes the other branch only, `helper();` changes nothing, `o.x++;` changes `x`, and the verdict is as firm as ever.  Reproduced with `execute_body_paths`. |
| `CommandRun!StrictAstIsAGate` | `CommandRun` | `cli.py:416`: `scan` accepts `--strict-ast`, keeps it in the context and never reads it, while the README shows it with `scan` and calls it a gate that keeps heuristic results from being presented as trustworthy. |
| `TestGen!OnlyDetectedMethods` | `TestGen` | `fuzz.py:59`: a class with methods to add and to read and none to remove is called with `pop()`, which it does not declare, fails at the first such call because an undeclared method has no guard, and gets a generated test that does not compile.  The documents say that the candidates are made of detected methods. |
| `TestGen!WrittenCasesAreTraced` | `TestGen` | `fuzz.py:48-51` writes `push(3)`, `trace.py:23-36` cuts at `:` only: fed to `trace`, a case as the campaign reports it is a list of unknown no-ops, its size stays 0 and no violation is ever flagged. |
| `CppScan!BodiesOfAnyFileMeetTheirContracts` | `CppScan` | Without `Tame`.  `cppscan.py:298` has no word boundary before the class's name, so that `class Stack` takes the body of `int MinStack::pop() {…}` and verifies it against its own contracts; the other exceptions of `Tame` follow below.  Reproduced with `scan_file`. |
| `CppScan!DefinitionsKeepTheirContracts` | `CppScan` | Contracts before a definition outside its class are lost: all but the last nine lines of them (`cppscan.py:125`), all of them before `int demo::Stack::pop()`, where the pattern matches from the middle of the line, and the last one if it could be part of a return type.  Reproduced with `scan_file`. |
| `FormalRun!VerdictsOfAnyTextAreRight` | `FormalRun` | `formal.py:212`: only a postfix `++` or `--` makes an equation, so `++n_;`, `n_ *= 2;` and a call that changes `n_` are framed as `n_ = old_n_` (`formal.py:269-273`), and assignments in comments are equations.  A correct method is `FAILED`, a wrong one `PROVED`. |
| `MemoryRules!RisksOfAnyTextAreReal` | `MemoryRules` | `memory/ownership.py:126-130`: in `p = new T*[n]` the type ends at the `*`, and the allocation is recorded as `single`.  The `delete[] p` it asks for is reported as a mismatch, and `delete p` as right. |

Modelling the settings showed other places where code and words differ; they are not
runs of their own, because what the code does there may be intended:

* `ci` exits with 1 although its gate has passed within `max_failures`, since
  `print_report` counts the tolerated failures again (`cli.py:580`).
* A value given on the command line that equals the default (300, 10, 25, 30, 12) is
  replaced by the policy's (`ci.py:141`); `std or policy.clang_std` (`ci.py:156`) never
  takes the policy's, because the command line has a default.
* A required module with an unknown name is ignored (`ci.py:149`), and so is a profile
  with an unknown name (`profiles/resolver.py:49`).
* `--contract` has no effect on `analyze`, `verify` and `ci` without a domain profile:
  only `AnalysisContext.from_namespace` reads it.
* `BuildSourceIR` answers "ok" when Clang failed on files, so `failed_passes` does not
  name it; `FailedPassesAreListed` states this as its one exception.

So did the campaigns:

* `_minimize` tests for `out of range` where the message says `fuera de rango`
  (`fuzz.py:55`), so a failure of `get` keeps five calls where one was meant.  What is kept
  does fail (`ReproducerFails`), but perhaps by another method than the one reported.
* `testgen` with a contract that does not parse ends with an exception: `cmd_testgen`
  builds the manifest (`cli.py:506`) before the call that reports
  `TESTGEN_CONTRACT_PARSE_ERROR`.
* `trace` without operations traces an example of its own (`trace.py:40`).
* `abstract_trace` notes an access to an empty structure and does not count it as a
  violation (`trace.py:68`), unlike a removal and unlike the campaigns.

So did the contracts and the frontends:

* An inline contract in several lines is dropped like one with parameters (1 above).
* Overloads share one method: the contracts of one are verified against the body of the other
  (`attach_external_definitions` goes by name).  `Tame` in `CppScan` excepts them, as it does
  the following.
* A contract in a comment after a declaration, on its line, hides the declaration, and goes
  to the next method; so do the contracts of `operator()`, whose name the scanner does not get.
* A class inside another is read twice, once as part of the outer one; functions that are only
  declared and classes inside a class count as fields.
* If the class inside declares a function of the same name as one that the outer class
  declares later and a definition outside implements, the body of the outer one is
  verified against the contracts of the inner one: `attach_external_definitions` takes the
  first method of the name (`cppscan.py`).  This came out when the proof of
  `ContractsMeetBodies` failed; TLC found the instance, the scanner reproduces it, and `Tame`
  now excepts it.
* `class EXPORT S {` is the class `EXPORT`.  Two classes of one name in one file both get the
  bodies defined outside.
* The last comment before a definition outside its class is taken into the return type, and
  is garbled or lost (`NotesBefore`).
* An AST node names its file only where the file changes, so most classes of an included
  header count as the file's own and are merged.
* A scan with `--cache` binds the contracts of the whole project to one file at a time, and so
  reports orphans that a plain scan does not; `SatisfiedStaysSatisfied` is the direction that
  holds.

And the formal export and the reports:

* `VerdictsAreRight` needs `Tame`: assignments that contradict each other (`n = 1; n = 2;`)
  make the query unsatisfiable and prove anything; `++n`, calls and comments are read as the
  table above says; conditions around an assignment are
  ignored; a constructor is assumed to start within the class invariants, with the fields it
  does not set unchanged; artifacts of overloads overwrite each other.
* Z3 missing or late is reported as `INFO` and not as `UNKNOWN`, which
  `docs/FORMAL_LIMITATIONS.md:54` asks for; in `pipeline-formal` a time-out ends the command,
  and the obligations are not about the body.
* The JUnit derived from a canonical report counts `UNKNOWN` as passed, while the other two
  skip it.  JUnit and SARIF of `ci` leave the gate out, which `ReportsAgree` allows for.
* `enrich_report_in_place` is never called.  If it were called before the findings are made,
  every `FORMAL_*` diagnostic would be promoted to `G5_FORMALLY_VERIFIED`: this is the mutant
  of `OnlySolversProve`.
* An exception while one document is written loses those after it, and leaves older ones.

And the memory rules, beyond the exceptions that `FaultsAreReported` names:

* A guard anywhere covers its whole method, and `if (!p)` and `p == nullptr` are not guards.  A
  guard on `old_p` is one on `p` (`ownership.py:202-214` searches for a substring).
* `new std::pair<K, V>[n]` is read as single like `new T*[n]`; `p{new T}`, `p = new (std::nothrow) T` and
  `delete (p)` are not seen; `delete p[i]` is read as `delete p`; comments are read like code.
* A method on one line is read twice, so that its one release is reported as a double one.
* `p(nullptr)` in an initialiser list and `p{nullptr}` in a declaration are not seen.
* Double frees across methods and uses after a release are not reported; releases in two
  branches, or in two overloads, are counted as two.
* A field that is released in both ways hides the mismatch.
* A comparison such as `n > capacity_` is reported as a failure, and `n * p` counts as a use
  of `p`.

## 5. Proofs

TLAPS proves the following for every value of the constants that satisfies the named
assumptions of `ScanCache` (`SizeAssumption`, `MarkerAssumption`), of `BoundedVerify`
(`BoundAssumption`, `ContractAssumption`, `CaseAssumption`, `VerdictAssumption`), of
`BoundedInterp` (`InterpAssumption`, `BodiesAssumption`), of `CommandRun` (`CommandLineAssumption`, `OutcomeAssumption`), of `TestGen`
(`CampaignAssumption`, `TargetAssumption`), of `FormalRun` (`LaterAssumption`,
`FoundAssumption`, `MethodsAssumption`), of `MemoryRules` (`ClassAssumption`,
`PointerAssumption`, `NameAssumption`), of `ContractBinding` (`ScanAssumption`, `ProjectAssumption`) and of
`CppScan` (`MaxFilesAssumption`, `ProjectsAssumption`).  TLC evaluates these assumptions in
the runs of the nine modules.  The theorems are in eight `…Proofs` modules.

### ScanCache

* `TypeCorrect`: `ScanCache!TypeOK`.
* `Isolation`: `KeyIsolation`, with any number of processes, roots, files and edits at any
  moment.  Entries of different roots are not kept apart (§ 4), and the theorem does not say so.  It is not inductive: `IsolationInv` adds that the fingerprint a process holds
  names its own file and options, and that a report waiting to be stored belongs to them.
* `RecordsGenuine`: `RecordsMatchKeys` if `EditsRace` is false.  `QuietInv` adds that
  while a process reads its file the key it holds is that of the disk, that what the
  passes have seen so far matches it, and that what is to be stored does.
* `OneClearer`: `OneClearerNeverFails`.  `ClearInv` says that the keys a clearing process
  has still to unlink are on disk, which holds because nobody else unlinks.
* `HitsAsForecast`: `HitsAreForecast`, if no file is edited under its analysis.  `ForecastInv`
  adds what is true in the middle of a scan with a forecast: nobody else runs, the files that
  it has looked up were answered from the cache exactly where this was foretold, and those it
  has not looked up still have, under their key of now, what was there at its start.
  `ProgressInv` says which files have been reported, by the call the process is at.
* `CachedScanIsAScan`: `RefinesFreshScan`, that is the whole refinement.  Its hypotheses are
  `~EditsRace`, a single unhashed state of the contracts and a single root; § 4 shows the
  wrong answers that each of them excludes.  A hit or a miss maps to the step in which `FreshScan` reports the
  file, everything else to a stutter, or to a start, an edit or an end.  The step needs
  `QuietInv` (a record is what the analysis of now would say), `ProgressInv`, and that every
  record was computed from something (`SomethingSeen`).

### BoundedVerify

* `SearchTypeCorrect`: `BoundedVerify!TypeOK`.
* `VerifiedCovers`: `VerifiedCoversDomain`, for products, bounds and contracts of any
  size.  `SearchInv` describes the loop by its program counter: the counters are the
  numbers of feasible and infeasible states among those explored; without a doubt every
  feasible state before the current one is clean, and so is the current one up to the
  path and the contract that the loop is at.
* `FailedIsGenuine`: `FailedIsACounterexample`, from the same invariant.
* `FailuresSurvive`: `FailuresSurviveDeeperSearch`.  The verdict of the loop is compared
  with what `BoundedVerdict` expects of every larger bound: with a larger
  `max_cases` this is a longer prefix of the same order, and the first trouble of a prefix is
  that of every longer one.  `AnswerInv` below contains it.  The state in which the interpreter
  raises is a trouble like the others, and the search ends there too (`RaiseIsFirstTrouble`).
* `SearchImplementsVerdict`: `RefinesBoundedVerdict`.  `AnswerInv` strengthens `SearchInv` to
  both directions: a doubt in a search that goes on is the doubt of some path that was
  executed, and when the loop concludes no state that was searched is in trouble and nothing
  was checked exactly if nothing was feasible.  So the single step of `BoundedVerdict` is
  taken where the code returns, and the loop is all stutter.

### BoundedInterp

* `InterpreterMissesNothing` and `InterpreterInventsNothing`: `TameBodiesMissNothing` and
  `TameBodiesInventNothing`, for any set of bodies whose braces come in pairs, nested to any
  depth, any values and any limit on paths, next to any run that meets nothing misread.  The
  body may hold misread code elsewhere: the one path without a note is where the run has been,
  so it meets none of it either (`NotMisread`, `UnderstoodBefore`).  Both follow from `InterpInvariant`.  Its
  formula, `InterpInv`, has three parts.  `Recorded`: the trace is a run of the body.
  `Stacked`: every call is at a node of its text, its text is a branch of the `if` that its
  caller is at, and no call is without a path of its own or a branch that will return one, so
  that the queues do not run dry.  And either every path in the stack carries an uncertainty
  note (`AllDoubtful`), or there is one path in it and it is where the run has been at some
  moment (`OneSure`).  No third case arises: paths only multiply where a note is left, in
  `EnterBoth`, and repeating the last path at the limit needs several.
* What makes the second case inductive is `Trapped`.  Whether a path out of a branch has
  returned is decided by the branch's text, so at the end of a branch that mentions a return
  the invariant must exclude that control is there.  A path that has not returned is in
  every part of the text of each call that control leaves only by returning.  A tame
  branch that mentions a return contains such a part that starts where the branch
  does (`AlwaysReturns`), and the place behind the branch is in none (`ReturnTraps`).
* `NodeEnds` says that on tame bodies the scan finds the ends that C++ sees, although after an
  `else if` it reads on to the next simple statement: nothing follows there.
* The interpreter is recursive in the code.  It is a machine with a stack here because the
  prover takes no recursive operators, and because its calls then have states an invariant
  can speak of.

### CommandRun

* `CleanOnExitZero`: `ExitZeroMeansClean`, for any command lines, policies, numbers of files
  and outcomes.  `TallyInv` says that the tally is made of natural numbers and is positive
  as soon as a stage has reported a failure or the gate was rejected.
* `StricterSettings`: `StricterSettingsSurvive`.  `PlanInv` says that the gate can only be
  the last stage of what is left of a plan, so that nothing is counted after it;
  `HeardInv` that each layer's flags are in the settings from the moment it is read.
* `FailedPasses` and `ExplicitContracts`: `FailedPassesAreListed` and
  `ExplicitContractsAreTheScope`.  Both need `PlanInv`, by which the stages of a scan are
  passes and its settings never change, and `ScanInv` for what the passes leave.
* `Types`: `CommandRun!TypeOK`: what is left to run are always stages, the files that Clang
  parsed are files that the gate looks at.
* `StrictGate`: `StrictGateHolds`.  `StrictInv`: a `--strict-ast` that was asked for is in the
  settings, and then the stage that examines the files, or the policy that will plan it, is
  still to come, or a stage has failed, or Clang parsed all the files examined and there was
  one.  With `TallyInv` the second case excludes an exit status of 0.
* `CapabilitiesDelivered`: `CapabilitiesAreDelivered`.  `DeliveryInv`: as long as no pass has
  failed, those that ran are among the wanted ones (promised by the preset, and with something
  to work on), and the others of them are still to come.  A pass that finds nothing is
  skipped, so the invariant also says that `BuildContractIR` stands before `BindContracts` in
  what is left, which is a fact about the table of passes of every preset.
* `FallbackIsSaid`: `NoSilentFallback`.  `FrontendInv`: as long as no pass has failed, a scan
  that asked for Clang has still to build its source, and that comes next; or has Clang's
  model of every file, to which the contracts are bound; or may fall back and has a
  warning in its tally.

### TestGen

* `CampaignTypeCorrect` and `FailuresAreFirstViolations`: `TestGen!TypeOK` and
  `FailureIsTheFirstViolation`.  The step from the simulated size to the counted one is
  `SizeIsCounted`; the lemmas on `Calls` say how a count grows by a position and that it
  does not depend on what is appended.
* `ReproducersFail`: `ReproducerFails`.  The size before the five calls that are kept is not
  negative, which `GoodRun` carries along, so the container they build alone is not larger
  than the one in which the index was already out of range (`LastFiveFail`).
* `VerdictsAreBacked`: `VerdictIsBacked`.  `CasesOK` keeps every finished case a `GoodRun` and
  the set of failing seeds, if it has members, with a first one.
* `FailuresComeFirst`: `FailuresRankFirst`.  The score of a failure outweighs everything the
  contracts and the shape of a case can add, for any contracts.
* `TracesAgree`: `TraceAgrees`, of a case put in the trace's own notation.  `AbstractTrace` is a
  fold of its words; that its size is the
  counted one at every position before the first violation follows by looking at the first
  position where it is not (see below).  `SizeAtFailure` says that the container's size is
  still the counted one when a case has failed.

### MemoryRules

* `FaultsReported` and `RisksReal`: `MemoryRules!FaultsAreReported` and `RisksAreReal`, for any
  classes and lives, of fields whose allocations and releases are read as the kind they have
  (`ReadRight`).  `IInv` is what ties a run to the text that was judged before it: the
  report is what the rules found; every block was allocated by a statement that is an
  allocation of the kind it has; a name that is never copied holds only blocks allocated to
  it; a freed block was freed by a release of its name and kind, and one freed by the current
  call by a statement before the current one; a field that holds null is one the rules call
  nullable; a fault is at the statement it names.  Without the last three the report cannot be
  compared with what happened, since the facts of earlier calls are gone.

### FormalRun

* `SolversProve` and `DocumentsAgree`: `FormalRun!OnlySolversProve` and `ReportsAgree`, for any
  projects, findings and number of commands.  `IInv` says that for every command there is one
  report, honest about its solvers, that all its documents on disk tell, each in its own
  words; the report itself is gone by then, so that it is bound by an existential.  The
  lemmas `LevelRowsTell`, `FindingRowsTell` and `RowsTell` show that each reporter tells the
  report it is given, `Marks` that the classifiers call the same things failures.
* `VerdictsRight`: `VerdictsAreRight`, for any methods and any number of statements.
  Its hypotheses say that the solver has all integers (`Numbers = Int`; TLC tries a small
  interval) and that a method starts from integers.  `VerdictInv` says that a method was
  exported as `PROVED` only if its query has no solution and as `FAILED` only if it has one.
  The rest compares the two readings of a body: the query's equations, one per assignment,
  and an execution, statement by statement.  Every body has an execution
  (`ExecutionExists`), and the equations of a tame one have, on the fields, no other solution
  than where it ends (`EquationsOfTame`), so that the query has a solution exactly if some
  execution breaks a goal (`RefutedIsBroken`).

### ContractBinding

* `SatisfactionIsMonotone`, `FrontendsAgree` and `ContractsReachVerifier`:
  `ContractBinding!SatisfiedStaysSatisfied`, `FrontendsBindAlike` and
  `AcceptedContractsAreApplied`, for any projects and any number of scans.  The table is built
  by updates whose outcome depends on the order of the classes; `TableOK` says what it is
  after the first `k` of them without that order: a qualified name belongs to itself, a short
  name to the first class in view that has it, a symbol holds the members of the classes whose
  key leads to it, and nothing else is in it.  By `OrphansRight` the orphans of a contract are
  then a function of the project and the files in view (`OrphansAre`), which `VerdictsOK`
  keeps of every scan that is over, so that two scans can be compared when both tables are
  gone.  `ProjectAssumption` says that a file has one package, which the third theorem needs:
  the validator looks for repeated pairs of package and name, the second parser replaces by
  file and name.

### CppScan

* `MergeUnites`: `MergeIsAUnion`, for any scans, any records and any order of theirs.
  `MergeInv` carries `Unites` through the merge: after `k` records, the classes of a name have
  together the fields that the scan gave them and those of the records so far, each class
  that only the records have is there once, and nothing else is.
* `ContractsMeetBodies`: `BodiesMeetTheirContracts`, for files that are `WellFormed` (what a
  compiler accepts) and `Tame` (without what § 4 lists).  The scanner never knows which
  function a line of contract belongs to; it hands what it has collected to the next method.
  `BodyRead` and `Waiting` say that what it has collected at a line is exactly what stands
  between the last function and that line, `GoodMethod` that a method has only conditions
  spoken of its function and none that stands before its declaration is missing, `AreGood`
  that this is so of all classes, through the definitions attached from outside, the merge and
  the copies, and `AreTheirs` that what is verified are methods of those classes.

### How inductions are done, and what is only model-checked

The induction theorems of the library take an operator as a parameter, which the provers
cannot instantiate.  Where a fold, a recursive function or `FlattenSeq` has to be reasoned
about for any length, the proofs take the least length or position at which the claim fails
(`WFMin` over the naturals) and derive a contradiction from the one before it.

Only model-checked is the liveness property `TornEntriesHeal`, since liveness under fairness is
outside the prover.  Every other property of a run that passes is stated by
a theorem.

## 6. What is not modelled

* `run_cached_scan` on a project without cacheable files, which runs the engine as a scan
  without `--cache` does; files deleted during a scan.
* Inputs of the passes that are in no key and not among the contracts: headers included
  from another file (the docs say so), the compilation database's content, the Clang
  binary, the fields of a profile other than its name.
* The evaluation of contract expressions (`expr.py`), the choice of domains, loops, which the
  interpreter marks as uncertain, and the range of C++ integers, which Python does not have.
* In `CommandRun`: what the analyses look at (their results are any diagnostics), a scan with
  `--cache` (that is `ScanCache`), reports and their files, and the options that decide
  nothing.  The files of a compile database are taken to be the project's.
* In `TestGen`: which text counts as a guard, the files the artefacts go to, and the source
  trace points; values that are pushed decide nothing.
* In `ContractBinding`: the text of predicates, warnings, and patterns for the names of methods.
* In `CppScan`: which text is a field, a signature or a comment, the inferred contracts, and
  a project without C++ files, which has nothing to scan.
* In `FormalRun`: arrays, locals and products in obligations, the text of artifacts, the
  diagnostics about contracts that come before the report of `formal`, and the fields of a
  document that are not about the level of a diagnostic.
* The lock file, which nothing reads.
* In `MemoryRules`: the relation between size and capacity, three patterns of text.
* Textual rules (lint, security, documentation, performance) and helpers: functions from a
  text to diagnostics without steps or state, whose correctness is that of their regular
  expressions.

## 7. Plan

All components with state are modelled.  What is left, in this order:

1. `BoundedVerify` composed with `BoundedInterp`: the paths of a state are free in the one and
   computed in the other, and so far the two theorems meet only in words.
2. `ContractBinding` composed with `CppScan`: what a scanner's mistakes make of the contracts
   that bind by name.
3. `FormalRun` with conditional assignments, for what a guard-aware translation would have to
   promise.
