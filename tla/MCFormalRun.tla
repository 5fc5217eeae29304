----------------------------- MODULE MCFormalRun -----------------------------
(***************************************************************************)
(* Methods of a class with a size n and a capacity c for TLC: every body   *)
(* of at most two statements under every choice of some contracts, some    *)
(* bodies of three, constructors; structures for Dafny, and reports of     *)
(* `ci`.                                                                   *)
(***************************************************************************)
EXTENDS FormalRun

MCValues == 0..2
MCNumbers == -1..3

Term(v, plus) == [var |-> v, old |-> FALSE, plus |-> plus]
Old(v, plus) == [Term(v, plus) EXCEPT !.old = TRUE]
Zero == Term("zero", 0)
Le(l, r) == [op |-> "<=", l |-> l, r |-> r]
Eq(l, r) == [op |-> "=", l |-> l, r |-> r]
N == Term("n", 0)
C == Term("c", 0)

Set(v, t) == [when |-> {}, to |-> v, term |-> t, text |-> "plain"]
In(text, a) == [a EXCEPT !.text = text]
If(p, a) == [a EXCEPT !.when = {p}]
Statements ==
    {Set("n", Term("n", 1)), Set("n", Term("n", -1)), Set("n", Zero), Set("c", N),
     If(Le(Term("zero", 1), N), Set("n", Term("n", -1))), Set("result", N),
     In("unseen", Set("n", Term("n", 1))), In("comment", Set("c", N))}
Bodies == {<<>>} \cup {<<a>> : a \in Statements} \cup {<<a, b>> : a, b \in Statements}

InBounds == Le(N, C)
NotFull == Le(Term("n", 1), C)
NotEmpty == Le(Term("zero", 1), N)
Grows == Eq(N, Old("n", 1))
Gives == Eq(Term("result", 0), N)
Other == [Grows EXCEPT !.op = "other"]

Method(b, inv, req, ens) ==
    [body |-> b, inits |-> <<>>, invariants |-> inv, requires |-> req, ensures |-> ens]
MCMethods ==
    {Method(b, inv, req, ens) :
        b \in Bodies, inv \in {{}, {InBounds, Le(Zero, N)}}, req \in {{}, {NotFull}, {NotEmpty}},
        ens \in {{}, {Grows}, {Gives}, {Other}}}
    \cup {[Method(<<>>, {InBounds}, {}, {}) EXCEPT !.inits = i] :
            i \in {<<Set("n", Zero)>>, <<Set("n", Zero), Set("c", N)>>}}

P(ms, ss) == [classes |-> ms # <<>>, methods |-> ms, structures |-> ss]
Push == Method(<<Set("n", Term("n", 1))>>, {InBounds}, {NotFull}, {Grows})
Pop == Method(<<Set("n", Term("n", -1))>>, {InBounds}, {}, {Grows})
MCLater == {P(<<>>, <<>>), P(<<Push, Pop>>, <<TRUE, FALSE>>), P(<<Pop>>, <<TRUE>>)}
MCProjects == {P(<<m>>, <<>>) : m \in MCMethods} \cup MCLater

MCEvidence == {"", "a line of the source", "bounded_exhaustive_over_selected_domains"}
Diagnostics ==
    {[D("FAILED", "INVARIANT_NOT_PRESERVED", "") EXCEPT !.evidence = "bounded_exhaustive_over_selected_domains"],
     [D("BOUNDED_VERIFIED", "BOUNDED_CONTRACTS_HOLD", "") EXCEPT !.evidence = "bounded_exhaustive_over_selected_domains"],
     D("UNKNOWN", "NO_FEASIBLE_STATE", ""), D("FAILED", "STRICT_AST_FAILED", ""),
     D("HEURISTIC", "FUZZ_NO_COUNTEREXAMPLE", ""), D("WARNING", "NO_CONTRACTS", ""),
     [D("WARNING", "SEC_OVERFLOW_RISK", "") EXCEPT !.evidence = "a line of the source"]}
MCFound == {<<>>} \cup {<<d>> : d \in Diagnostics}
MCRequested == {"html", "findings_junit", "findings_sarif", "report_json", "junit", "sarif"}
==============================================================================
