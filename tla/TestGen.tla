------------------------------- MODULE TestGen -------------------------------
(***************************************************************************)
(* testgen (and fuzz, its old name): seeded campaigns of random calls on   *)
(* an abstract container with the methods of a C++ class, the reduction of *)
(* the sequences that fail, the report on the first of them, the           *)
(* regression test written for it, and abstract_trace, a second reader of  *)
(* such sequences.                                                         *)
(*                                                                         *)
(* Abstractions: one class (classes do not influence each other).  A       *)
(* method is its name in lower case; a class is the set of its methods and *)
(* the set of those that state a guard.  random.Random(seed) is a free     *)
(* choice; the same seed gives the same case in the report and in the      *)
(* test, which is why the cases are drawn once.  Values pushed do not      *)
(* matter to any decision and are left out.  A word of a trace is its name *)
(* and whether it carries parentheses.                                     *)
(***************************************************************************)
EXTENDS Naturals, Integers, SequencesExt

CONSTANTS Targets,      \* classes: [methods, guarded]
          Values,       \* values of rng.randint(-16, 16)
          Seeds, Steps, \* --seeds and --steps
          NoFailure, NoReport, NoTest

Adds == {"push", "add", "enqueue", "insert", "append", "put"}
Removals == {"pop", "remove", "dequeue", "erase", "delete",
             "extract_min", "extractmax", "extract_max"}
Accesses == {"top", "front", "back", "get", "peek", "find", "contains",
             "minimum", "maximum", "min", "max"}
Names == Adds \cup Removals \cup Accesses

\* Looking for an element never fails.
Lookups == {"contains", "find"}

\* _call: only these carry an argument, and never a negative one.
Call(name, val) ==
    [name |-> name,
     arg |-> IF name \in {"get"} \cup Lookups /\ val > 0 THEN val ELSE 0]

ASSUME CampaignAssumption ==
    /\ Seeds \in Nat \ {0}
    /\ Steps \in Nat
    /\ Values \subseteq Int
    /\ NoFailure \notin {"empty", "range"}

\* collect_fuzz_targets: something to add with, something to remove or read with.
ASSUME TargetAssumption ==
    \A t \in Targets : /\ t.guarded \subseteq t.methods
                       /\ t.methods \cap Adds # {}
                       /\ t.methods \cap (Removals \cup Accesses) # {}

VARIABLES
    target,     \* the class
    pc,         \* the step the command is at
    ops,        \* calls of the current case
    size, capacity,
    failure,    \* why the current case ended, or NoFailure
    cases,      \* finished cases
    report,     \* the diagnostic about the class
    test        \* the generated C++ test

container == <<size, capacity>>
vars == <<target, pc, ops, size, capacity, failure, cases, report, test>>

Empty == /\ ops = <<>>
         /\ size = 0
         /\ capacity = 4
         /\ failure = NoFailure

Init == /\ target \in Targets
        /\ pc = "contracts"
        /\ Empty
        /\ cases = <<>>
        /\ report = NoReport
        /\ test = NoTest

(***************************************************************************)
(* The contracts that guide the generation are loaded first.               *)
(***************************************************************************)
LoadContracts ==
    /\ pc = "contracts"
    /\ pc' = "case"
    /\ UNCHANGED <<target, ops, container, failure, cases, report, test>>

\* cmd_testgen builds the manifest outside the try of testgen_project: a
\* contract that does not parse ends the command with an exception.
ContractParseError ==
    /\ pc = "contracts"
    /\ pc' = "crashed"
    /\ UNCHANGED <<target, ops, container, failure, cases, report, test>>

(***************************************************************************)
(* One case: _fuzz_container.                                              *)
(***************************************************************************)
Or(found, default) == IF found = {} THEN {default} ELSE found

Additions == Or(target.methods \cap Adds, "push")
Deletions == Or(target.methods \cap Removals, "pop")
Readings == Or(target.methods \cap Accesses, "top")

Running == pc = "case" /\ failure = NoFailure /\ Len(ops) < Steps

\* A mistake: the container does not grow.
AddCallNoGrowth(name) ==
    /\ ops' = Append(ops, Call(name, 0))
    /\ size' = size + 1
    /\ UNCHANGED <<target, pc, capacity, failure, cases, report, test>>

AddCall(name) ==
    /\ ops' = Append(ops, Call(name, 0))
    /\ capacity' = IF size >= capacity THEN 2 * capacity ELSE capacity
    /\ size' = size + 1
    /\ UNCHANGED <<target, pc, failure, cases, report, test>>

RemoveCall(name) ==
    /\ ops' = Append(ops, Call(name, 0))
    /\ IF size = 0
       THEN failure' = "empty" /\ UNCHANGED size
       ELSE size' = size - 1 /\ UNCHANGED failure
    /\ UNCHANGED <<target, pc, capacity, cases, report, test>>

\* A mistake: the index one past the end is let through.
AccessCallPastEnd(name, val) ==
    /\ ops' = Append(ops, Call(name, IF size > 0 THEN val ELSE 0))
    /\ failure' = CASE size = 0 /\ name \notin Lookups -> "empty"
                    [] size > 0 /\ name = "get" /\ val > size -> "range"
                    [] OTHER -> NoFailure
    /\ UNCHANGED <<target, pc, container, cases, report, test>>

AccessCall(name, val) ==
    /\ ops' = Append(ops, Call(name, IF size > 0 THEN val ELSE 0))
    /\ failure' = CASE size = 0 /\ name \notin Lookups -> "empty"
                    [] size > 0 /\ name = "get" /\ val >= size -> "range"
                    [] OTHER -> NoFailure
    /\ UNCHANGED <<target, pc, container, cases, report, test>>

\* A mistake: the five calls before the one that fails.
MinimizeBefore(calls, why) ==
    CASE why = NoFailure -> <<>>
      [] why = "empty" -> <<Last(calls)>>
      [] OTHER -> IF Len(calls) > 5 THEN SubSeq(calls, Len(calls) - 5, Len(calls) - 1) ELSE calls

\* _minimize looks for "out of range" in a message that says "fuera de rango":
\* a failure of get keeps the last five calls.
Minimize(calls, why) ==
    CASE why = NoFailure -> <<>>
      [] why = "empty" -> <<Last(calls)>>
      [] OTHER -> IF Len(calls) > 5 THEN SubSeq(calls, Len(calls) - 4, Len(calls)) ELSE calls

EndCase ==
    /\ pc = "case"
    /\ failure # NoFailure \/ Len(ops) = Steps
    /\ cases' = Append(cases, [ops |-> ops, failure |-> failure,
                               minimized |-> Minimize(ops, failure)])
    /\ pc' = IF Len(cases) + 1 = Seeds THEN "report" ELSE "case"
    /\ ops' = <<>>
    /\ size' = 0
    /\ capacity' = 4
    /\ failure' = NoFailure
    /\ UNCHANGED <<target, report, test>>

(***************************************************************************)
(* The report and the test: each goes through the seeds again, up to the   *)
(* first that fails.                                                       *)
(***************************************************************************)
Failing == {i \in DOMAIN cases : cases[i].failure # NoFailure}
\* A mistake: a loop without its break.
LastFailing == CHOOSE i \in Failing : \A j \in Failing : j <= i

FirstFailing == CHOOSE i \in Failing : \A j \in Failing : i <= j
TargetMethod(case) == Last(case.ops).name

Verdict ==
    IF Failing = {} THEN [level |-> "HEURISTIC", method |-> "none", reproducer |-> <<>>]
    ELSE LET case == cases[FirstFailing] IN
         [level |-> IF TargetMethod(case) \in target.guarded THEN "INFO" ELSE "FAILED",
          method |-> TargetMethod(case), reproducer |-> case.minimized]

\* Without a failure a test is written on request only, from the first case.
TestCandidates ==
    IF Failing = {} THEN {NoTest, [kind |-> "smoke", ops |-> Head(cases).ops]}
    ELSE {[kind |-> "failure", ops |-> cases[FirstFailing].minimized]}

FuzzProject ==
    /\ pc = "report"
    /\ pc' = "test"
    /\ report' = Verdict
    /\ UNCHANGED <<target, ops, container, failure, cases, test>>

WriteCppTests ==
    /\ pc = "test"
    /\ pc' = "done"
    /\ test' \in TestCandidates
    /\ UNCHANGED <<target, ops, container, failure, cases, report>>

AddStep == \E n \in Additions : AddCall(n)
RemoveStep == \E n \in Deletions : RemoveCall(n)
AccessStep == \E n \in Readings, v \in Values : AccessCall(n, v)

Next == \/ LoadContracts
        \/ ContractParseError
        \/ Running /\ AddStep
        \/ Running /\ RemoveStep
        \/ Running /\ AccessStep
        \/ EndCase
        \/ FuzzProject
        \/ WriteCppTests

Spec == Init /\ [][Next]_vars

(***************************************************************************)
(* The manifest: scores in hundredths.  A hint is the contract found for   *)
(* the class.                                                              *)
(***************************************************************************)
Hints == [requires : BOOLEAN, ensures : BOOLEAN, methods : {{}, Names}]
Weight(condition, points) == IF condition THEN points ELSE 0

ScoreWith(case, hints, points) ==
    LET failed == case.failure # NoFailure
        total == 20 + Weight(failed, points)
                    + Weight(case.minimized # <<>>, 10)
                    + Weight(hints # {}, 10)
                    + Weight(\E h \in hints : h.requires, 10)
                    + Weight(\E h \in hints : h.ensures, 5)
                    + Weight(failed /\ \E h \in hints : TargetMethod(case) \in h.methods, 10)
                    + Weight(Len(case.ops) >= 5, 5)
    IN  IF total > 100 THEN 100 ELSE total

\* A mistake: a failure weighs as much as a contract.
UtilityScoreFlat(case, hints) == ScoreWith(case, hints, 10)

UtilityScore(case, hints) == ScoreWith(case, hints, 35)

(***************************************************************************)
(* abstract_trace reads words, and knows a word only when it is a bare     *)
(* name: _parse_ops cuts at ':', so that push:3 has the name push, while   *)
(* push(3), as _call writes it, is a name of its own that no branch        *)
(* knows.  It knows fewer names than the campaigns, takes the others for   *)
(* no-ops, and goes on after a violation.                                  *)
(***************************************************************************)
TraceInserts == {"push", "add", "enqueue", "insert"}
TraceRemovals == {"pop", "remove", "dequeue"}

Bare(name) == [name |-> name, parens |-> FALSE]

\* A sequence in the notation of the trace, and in that of the campaigns.
Notation(calls) == [i \in DOMAIN calls |-> Bare(calls[i].name)]
Written(calls) == [i \in DOMAIN calls |-> [name |-> calls[i].name, parens |-> TRUE]]

Known(word, names) == ~word.parens /\ word.name \in names

\* A mistake: a removal that does not look at the size.
TraceStepUnguarded(state, word) ==
    CASE Known(word, TraceInserts) -> [state EXCEPT !.size = @ + 1]
      [] Known(word, TraceRemovals) -> [state EXCEPT !.size = @ - 1]
      [] OTHER -> state

\* The state: the size, and whether a precondition_failure event was emitted.
TraceStep(state, word) ==
    CASE Known(word, TraceInserts) -> [state EXCEPT !.size = @ + 1]
      [] Known(word, TraceRemovals) /\ state.size = 0 -> [state EXCEPT !.flagged = TRUE]
      [] Known(word, TraceRemovals) /\ state.size > 0 -> [state EXCEPT !.size = @ - 1]
      [] Known(word, {"clear"}) -> [state EXCEPT !.size = 0]
      [] OTHER -> state

\* Without words it traces an example of its own.
Example == <<Bare("push"), Bare("push"), Bare("pop"), Bare("top")>>

AbstractTrace(words) ==
    FoldLeft(TraceStep, [size |-> 0, flagged |-> FALSE],
             IF words = <<>> THEN Example ELSE words)

(***************************************************************************)
(* What a sequence of calls does to a container, by counting.              *)
(***************************************************************************)
Calls(seq, names, i) == Cardinality({j \in 1 .. i - 1 : seq[j].name \in names})
SizeBefore(seq, i) == Calls(seq, Adds, i) - Calls(seq, Removals, i)

Violates(seq, i) ==
    \/ /\ seq[i].name \in (Removals \cup Accesses) \ Lookups
       /\ SizeBefore(seq, i) <= 0
    \/ /\ seq[i].name = "get"
       /\ seq[i].arg >= SizeBefore(seq, i)

Legal(seq) == \A i \in DOMAIN seq : ~Violates(seq, i)

\* Every variable stays within its type; the capacity holds the elements.
TypeOK ==
    /\ target \in Targets
    /\ pc \in {"contracts", "case", "report", "test", "done", "crashed"}
    /\ ops \in Seq([name : Names, arg : Nat])
    /\ Len(ops) <= Steps
    /\ size \in Nat /\ capacity \in Nat
    /\ size <= capacity
    /\ failure \in {NoFailure, "empty", "range"}
    /\ Len(cases) <= Seeds

\* The simulation of _fuzz_container stops at the first call that a container
\* cannot serve, and at no other: what is called a failure is one, and a case
\* without a failure is a sequence a client may run.
FailureIsTheFirstViolation ==
    \A i \in DOMAIN ops : Violates(ops, i) <=> (failure # NoFailure /\ i = Len(ops))

\* The calls that _minimize keeps still break a precondition when they are
\* replayed on an empty container, although those that filled it are gone.
ReproducerFails ==
    \A i \in DOMAIN cases : cases[i].failure # NoFailure => ~Legal(cases[i].minimized)

\* The report and the generated test, each the result of its own run over the
\* seeds, agree with each other and with the sequences: FUZZ_NO_COUNTEREXAMPLE
\* means that all were legal, a counterexample is that of the first illegal one
\* and only an unguarded method fails the report.
VerdictIsBacked ==
    pc = "done" =>
        /\ report.level = "HEURISTIC" <=> \A i \in DOMAIN cases : Legal(cases[i].ops)
        /\ report.level # "HEURISTIC" =>
              \E i \in DOMAIN cases :
                 /\ \A j \in 1 .. i - 1 : Legal(cases[j].ops)
                 /\ Violates(cases[i].ops, Len(cases[i].ops))
                 /\ Last(cases[i].ops).name = report.method
                 /\ test = [kind |-> "failure", ops |-> report.reproducer]
        /\ report.level = "FAILED" => report.method \notin target.guarded
        /\ test # NoTest => (test.kind = "failure" <=> ~Legal(test.ops))

\* utility_score orders the candidates for review: whatever contracts are found
\* for their classes, a case that fails comes before one that does not.
FailuresRankFirst ==
    \A i, j \in DOMAIN cases :
        cases[i].failure # NoFailure /\ cases[j].failure = NoFailure =>
            \A h, k \in {{}} \cup {{x} : x \in Hints} :
                UtilityScore(cases[i], h) > UtilityScore(cases[j], k)

\* Put in the notation of the trace command, a case warns of a violated
\* precondition exactly when it ends in a removal from an empty container, and
\* leaves the same size, as long as the trace knows the names that add and remove.
TraceAgrees ==
    /\ ops # <<>>
    /\ \A i \in DOMAIN ops : ops[i].name \in TraceInserts \cup TraceRemovals \cup Accesses
    => LET trace == AbstractTrace(Notation(ops)) IN
       /\ trace.size = size
       /\ trace.flagged <=> failure # NoFailure /\ Last(ops).name \in Removals

\* The same of the text that the campaign itself writes.  It does not hold: every
\* word of it is a no-op, so that the size stays 0 and nothing is ever flagged.
WrittenCasesAreTraced ==
    /\ ops # <<>>
    /\ \A i \in DOMAIN ops : ops[i].name \in TraceInserts \cup TraceRemovals \cup Accesses
    => AbstractTrace(Written(ops)).size = size

\* Test candidates are made of the methods detected in the class.
OnlyDetectedMethods ==
    \A i \in DOMAIN ops : ops[i].name \in target.methods
==============================================================================
