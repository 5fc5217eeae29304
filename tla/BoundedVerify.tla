---------------------------- MODULE BoundedVerify ----------------------------
(***************************************************************************)
(* verify_method: the bounded search for a state in which a C++ method     *)
(* breaks a contract.  The states of the product of the variables' domains *)
(* are taken in order; those that satisfy the invariants and the           *)
(* preconditions are executed, and every path is checked against the       *)
(* ensures and then the invariants.                                        *)
(*                                                                         *)
(* Abstractions: a state of the product is represented by what happens in  *)
(* it.  `feasible`: the assumptions evaluate to true (an assumption that   *)
(* is false and one that cannot be evaluated both skip the state).         *)
(* `paths`: what the interpreter returns, for each path the outcome of     *)
(* every contract and the strongest kind of note it carries: "none",       *)
(* "plain" (which branch was taken) or "uncertain" (_is_uncertainty_note); *)
(* it is empty where the interpreter raises.                               *)
(***************************************************************************)
EXTENDS Naturals, Sequences, FiniteSets

CONSTANTS MaxStates, MaxCases, ExploreFactor, Contracts, Cases, Rejections, NoVerdict

Outcomes == {"holds", "violated", "error"}
NoteKinds == {"none", "plain", "uncertain"}
Paths == [outcome : [DOMAIN Contracts -> Outcomes], notes : NoteKinds]

ASSUME BoundAssumption == /\ MaxStates \in Nat
                          /\ MaxCases \in Nat
                          /\ ExploreFactor \in Nat

\* Contracts lists the ensures and then the invariants, declared and inferred;
\* `underflow` is is_size_underflow_failure, which only concerns invariants.
ASSUME ContractAssumption ==
    /\ Contracts \in Seq([kind : {"ensures", "invariant"},
                          declared : BOOLEAN, underflow : BOOLEAN])
    /\ \A a, b \in DOMAIN Contracts :
          a < b /\ Contracts[a].kind = "invariant" => Contracts[b].kind = "invariant"
    /\ \A c \in DOMAIN Contracts : Contracts[c].underflow => Contracts[c].kind = "invariant"

\* The interpreter returns at least one path, or raises.
ASSUME CaseAssumption ==
    \A c \in Cases : /\ c.feasible \in BOOLEAN
                     /\ c.paths \in Seq(Paths)

VARIABLES
    world,      \* world[i]: what happens in the i-th state of the product
    pc,         \* the step verify_method is at
    explored,   \* states taken from the product
    checked,    \* states that satisfied the assumptions
    skipped,    \* states that did not
    path,       \* the path being checked
    contract,   \* the contract being checked on it
    doubtful,   \* body_notes_seen is not empty
    verdict     \* the diagnostic returned

loopVars == <<explored, checked, skipped>>
vars == <<world, pc, explored, checked, skipped, path, contract, doubtful, verdict>>

Nowhere == <<0, 0, 0>>
Answer(level, code, at) == [level |-> level, code |-> code, at |-> at]

Case == world[explored]
Path == Case.paths[path]
Outcome == Path.outcome[contract]

Init ==
    /\ world \in UNION {[1 .. n -> Cases] : n \in 1 .. MaxStates}
    /\ pc = "start"
    /\ explored = 0
    /\ checked = 0
    /\ skipped = 0
    /\ path = 1
    /\ contract = 1
    /\ doubtful = FALSE
    /\ verdict = NoVerdict

Return(v) ==
    /\ verdict' = v
    /\ pc' = "done"

\* The method has no body, no contract, too many variables, or a contract that
\* does not parse.
Reject(code) ==
    /\ pc = "start"
    /\ Return(Answer("UNKNOWN", code, Nowhere))
    /\ UNCHANGED <<world, loopVars, path, contract, doubtful>>

Admit ==
    /\ pc = "start"
    /\ pc' = "explore"
    /\ UNCHANGED <<world, loopVars, path, contract, doubtful, verdict>>

Explore ==
    /\ pc = "explore"
    /\ explored < Len(world)
    /\ explored < ExploreFactor * MaxCases
    /\ explored' = explored + 1
    /\ pc' = "assume"
    /\ UNCHANGED <<world, checked, skipped, path, contract, doubtful, verdict>>

\* Variant: the cut leaves no note.
ExploreLimitSilent ==
    /\ pc = "explore"
    /\ explored < Len(world)
    /\ explored >= ExploreFactor * MaxCases
    /\ explored' = explored + 1
    /\ pc' = "conclude"
    /\ UNCHANGED <<world, checked, skipped, path, contract, doubtful, verdict>>

\* Exploration stops at max_cases * 5 states, with an uncertainty note.
ExploreLimit ==
    /\ pc = "explore"
    /\ explored < Len(world)
    /\ explored >= ExploreFactor * MaxCases
    /\ explored' = explored + 1
    /\ doubtful' = TRUE
    /\ pc' = "conclude"
    /\ UNCHANGED <<world, checked, skipped, path, contract, verdict>>

Exhausted ==
    /\ pc = "explore"
    /\ explored = Len(world)
    /\ pc' = "conclude"
    /\ UNCHANGED <<world, loopVars, path, contract, doubtful, verdict>>

\* Variant: a state that is skipped uses up a case.
SkipCounts ==
    /\ pc = "assume"
    /\ ~Case.feasible
    /\ skipped' = skipped + 1
    /\ checked' = checked + 1
    /\ pc' = IF checked' > MaxCases THEN "conclude" ELSE "explore"
    /\ UNCHANGED <<world, explored, path, contract, doubtful, verdict>>

Skip ==
    /\ pc = "assume"
    /\ ~Case.feasible
    /\ skipped' = skipped + 1
    /\ pc' = "explore"
    /\ UNCHANGED <<world, explored, checked, path, contract, doubtful, verdict>>

\* One feasible state more than max_cases is counted and not executed, and the
\* loop ends without a note.
CaseLimit ==
    /\ pc = "assume"
    /\ Case.feasible
    /\ checked' = checked + 1
    /\ checked' > MaxCases
    /\ pc' = "conclude"
    /\ UNCHANGED <<world, explored, skipped, path, contract, doubtful, verdict>>

\* Variant: the limit is tested before the state is counted.
ExecuteOneMore ==
    /\ pc = "assume"
    /\ Case.feasible
    /\ Case.paths # <<>>
    /\ checked' = checked + 1
    /\ checked <= MaxCases
    /\ path' = 1
    /\ pc' = "path"
    /\ UNCHANGED <<world, explored, skipped, contract, doubtful, verdict>>

Execute ==
    /\ pc = "assume"
    /\ Case.feasible
    /\ Case.paths # <<>>
    /\ checked' = checked + 1
    /\ checked' <= MaxCases
    /\ path' = 1
    /\ pc' = "path"
    /\ UNCHANGED <<world, explored, skipped, contract, doubtful, verdict>>

\* int(val) is outside the try around the evaluation: where the value is None, as
\* that of a C++ variable called result is, the exception leaves the interpreter,
\* verify_method and verify_project.  There is no diagnostic, of this method or of
\* any other.
ExecuteRaises ==
    /\ pc = "assume"
    /\ Case.feasible
    /\ Case.paths = <<>>
    /\ checked' = checked + 1
    /\ checked' <= MaxCases
    /\ Return(Answer("NONE", "RAISED", <<explored, 0, 0>>))
    /\ UNCHANGED <<world, explored, skipped, path, contract, doubtful>>

BeginPath ==
    /\ pc = "path"
    /\ path <= Len(Case.paths)
    /\ doubtful' = (doubtful \/ Path.notes = "uncertain")
    /\ contract' = 1
    /\ pc' = "contract"
    /\ UNCHANGED <<world, loopVars, path, verdict>>

EndCase ==
    /\ pc = "path"
    /\ path > Len(Case.paths)
    /\ pc' = "explore"
    /\ UNCHANGED <<world, loopVars, path, contract, doubtful, verdict>>

ContractHolds ==
    /\ pc = "contract"
    /\ contract <= Len(Contracts)
    /\ Outcome = "holds"
    /\ contract' = contract + 1
    /\ UNCHANGED <<world, pc, loopVars, path, doubtful, verdict>>

\* Variant: the first path of a state decides.
EndPathFirstOnly ==
    /\ pc = "contract"
    /\ contract > Len(Contracts)
    /\ path' = Len(Case.paths) + 1
    /\ pc' = "path"
    /\ UNCHANGED <<world, loopVars, contract, doubtful, verdict>>

EndPath ==
    /\ pc = "contract"
    /\ contract > Len(Contracts)
    /\ path' = path + 1
    /\ pc' = "path"
    /\ UNCHANGED <<world, loopVars, contract, doubtful, verdict>>

\* The test comes first for an invariant and is not made for an ensures.
ShowsUnderflow(c) == c.kind = "invariant" /\ c.underflow

\* Variant: only an uncertainty note excuses an inferred contract.
LevelExcusesUncertain(c) ==
    IF ~c.declared /\ Path.notes = "uncertain" /\ ~ShowsUnderflow(c) THEN "UNKNOWN" ELSE "FAILED"

\* The level of a violation: unsupported_failure_level for an invariant, the
\* same rule without the underflow test for an ensures.
Level(c) ==
    IF ~c.declared /\ Path.notes # "none" /\ ~ShowsUnderflow(c) THEN "UNKNOWN" ELSE "FAILED"

ContractViolated ==
    LET level == Level(Contracts[contract]) IN
    /\ pc = "contract"
    /\ contract <= Len(Contracts)
    /\ Outcome = "violated"
    /\ Return(Answer(level,
                     IF level = "FAILED" THEN "CONTRACT_VIOLATED" ELSE "POTENTIAL_FAILURE",
                     <<explored, path, contract>>))
    /\ UNCHANGED <<world, loopVars, path, contract, doubtful>>

ContractError ==
    /\ pc = "contract"
    /\ contract <= Len(Contracts)
    /\ Outcome = "error"
    /\ Return(Answer("UNKNOWN", "EVAL_ERROR", <<explored, path, contract>>))
    /\ UNCHANGED <<world, loopVars, path, contract, doubtful>>

\* No state was checked, or none was violated: what the notes leave of it.
Conclude ==
    /\ pc = "conclude"
    /\ Return(CASE checked = 0 -> Answer("UNKNOWN", "NO_FEASIBLE_STATE", Nowhere)
                [] checked # 0 /\ doubtful -> Answer("UNKNOWN", "PARTIAL_VERIFICATION", Nowhere)
                [] OTHER -> Answer("BOUNDED_VERIFIED", "BOUNDED_CONTRACTS_HOLD", Nowhere))
    /\ UNCHANGED <<world, loopVars, path, contract, doubtful>>

Next ==
    \/ \E code \in Rejections : Reject(code)
    \/ Admit
    \/ Explore \/ ExploreLimit \/ Exhausted
    \/ Skip \/ CaseLimit \/ Execute \/ ExecuteRaises
    \/ BeginPath \/ EndPath \/ EndCase
    \/ ContractHolds \/ ContractViolated \/ ContractError
    \/ Conclude

Spec == Init /\ [][Next]_vars

-----------------------------------------------------------------------------
(* Properties.                                                             *)

Promise == INSTANCE BoundedVerdict

Places == Nat \X Nat \X (DOMAIN Contracts \cup {0})
Verdicts == [level : {"UNKNOWN", "FAILED", "BOUNDED_VERIFIED", "NONE"},
             code : Rejections \cup {"EVAL_ERROR", "POTENTIAL_FAILURE", "CONTRACT_VIOLATED",
                                     "NO_FEASIBLE_STATE", "PARTIAL_VERIFICATION",
                                     "BOUNDED_CONTRACTS_HOLD", "RAISED"},
             at : Places]

ASSUME VerdictAssumption == NoVerdict \notin Verdicts

TypeOK ==
    /\ world \in Seq(Cases)
    /\ pc \in {"start", "explore", "assume", "path", "contract", "conclude", "done"}
    /\ explored \in 0 .. Len(world)
    /\ checked \in 0 .. MaxCases + 1
    /\ skipped \in 0 .. Len(world)
    /\ path \in Nat \ {0}
    /\ contract \in 1 .. Len(Contracts) + 1
    /\ doubtful \in BOOLEAN
    /\ verdict \in Verdicts \cup {NoVerdict}

\* The feasible states among the first n of w.
FeasibleUpTo(w, n) == {i \in 1 .. n : w[i].feasible}

\* State i is executed, breaks no contract on any path, and no path is doubtful.
Clean(i) ==
    /\ world[i].paths # <<>>
    /\ \A j \in DOMAIN world[i].paths :
          /\ world[i].paths[j].notes # "uncertain"
          /\ \A c \in DOMAIN Contracts : world[i].paths[j].outcome[c] = "holds"

\* FORMAL_LIMITATIONS.md: BOUNDED_VERIFIED says that no violation was found in
\* the bounded model.  While the feasible states of the whole product are no
\* more than max_cases, it says so of every one of them: neither limit of the
\* search, nor a skipped state, nor a second path, can hide a violation.
VerifiedCoversDomain ==
    /\ pc = "done"
    /\ verdict.level = "BOUNDED_VERIFIED"
    /\ Cardinality(FeasibleUpTo(world, Len(world))) <= MaxCases
    => \A i \in 1 .. Len(world) : world[i].feasible => Clean(i)

\* details["evidence"] = "bounded_exhaustive_over_selected_domains": a verified
\* method breaks no contract in any feasible state of the selected domains.
EvidenceIsExhaustive ==
    pc = "done" /\ verdict.level = "BOUNDED_VERIFIED" =>
        \A i \in 1 .. Len(world) : world[i].feasible => Clean(i)

\* A FAILED diagnostic carries a counterexample: a state that satisfies the
\* assumptions and, on the path it names, breaks the contract it names; and an
\* inferred contract is only blamed on a path without notes, or for the size
\* underflow the body shows.
FailedIsACounterexample ==
    pc = "done" /\ verdict.level = "FAILED" =>
        LET broken == world[verdict.at[1]].paths[verdict.at[2]]
            c == Contracts[verdict.at[3]]
        IN  /\ world[verdict.at[1]].feasible
            /\ broken.outcome[verdict.at[3]] = "violated"
            /\ c.declared \/ c.underflow \/ broken.notes = "none"

\* Searching further never withdraws a failure: with any larger max_cases the
\* method still fails, in the same state and on the same contract.
FailuresSurviveDeeperSearch ==
    pc = "done" /\ verdict.level = "FAILED" =>
        \A m \in MaxCases .. Len(world) : Promise!Expected(m) = verdict

\* No method keeps the others from an answer.  It does not hold: a method whose
\* body makes the interpreter raise ends the report of the whole project.
AlwaysAnswers == pc = "done" => verdict.level # "NONE"

\* The loop, its counters and its early returns amount to the answer that
\* BoundedVerdict gives at once: the first trouble of the searched states, and
\* what the notes leave of a search without one.
RefinesBoundedVerdict == Promise!Spec
==============================================================================
