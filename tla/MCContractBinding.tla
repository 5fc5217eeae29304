-------------------------- MODULE MCContractBinding --------------------------
(***************************************************************************)
(* Contracts and classes for TLC.  One contract per line of what differs:  *)
(* several conditions on one name in one file or two, a pattern, a field   *)
(* that may be missing, a parameter list, a condition that takes two lines *)
(* after its method's name, a predicate the validator does not accept.     *)
(***************************************************************************)
EXTENDS ContractBinding

P(kind, mentions) ==
    [kind |-> kind, wellFormed |-> TRUE, mentions |-> mentions, orders |-> mentions]
NotEmpty == P("requires", {"n"})
Shrinks == P("ensures", {"n"})
InRange == P("requires", {"i", "n"})
Sane == P("invariant", {"n"})
Broken == [Sane EXCEPT !.wellFormed = FALSE]

Method(name, preds) == [name |-> name, form |-> "plain", params |-> {}, preds |-> preds]
Wrapped(m) == [m EXCEPT !.form = "wrapped"]
Get == [name |-> "get", form |-> "params", params |-> {"i"}, preds |-> {InRange}]

D(file, name, ms) ==
    [file |-> file, package |-> IF file = 1 THEN "p" ELSE "q", name |-> name,
     matches |-> IF name = "S*" THEN {"S"} ELSE {name},
     invariants |-> {}, fields |-> <<>>, methods |-> ms]
N == [name |-> "n", boolean |-> FALSE]

Declarations ==
    {D(1, "S", <<Method("pop", {NotEmpty})>>),
     D(1, "S", <<Method("pop", {Shrinks, Sane}), Method("push", {})>>),
     D(2, "S", <<Method("pop", {Shrinks})>>),
     D(2, "S", <<Wrapped(Method("pop", {NotEmpty}))>>),
     D(1, "S*", <<Method("pop", {NotEmpty})>>),
     D(2, "T", <<Method("pop", {NotEmpty}), Method("pop", {Shrinks})>>),
     [D(1, "T", <<Get>>) EXCEPT !.fields = <<N>>],
     [D(2, "S", <<Method("pop", {InRange})>>) EXCEPT !.fields = <<N, N>>],
     [D(1, "S", <<>>) EXCEPT !.fields = <<[N EXCEPT !.boolean = TRUE]>>,
                             !.invariants = {Sane}],
     [D(2, "T", <<>>) EXCEPT !.invariants = {Broken}]}

C(file, space, name, fs, ms) ==
    [file |-> file, space |-> space, name |-> name, fields |-> fs, methods |-> ms]
Classes(file) ==
    {C(file, NoSpace, "S", {"n"}, {"pop"}),
     C(file, "a", "S", {}, {"pop"}),
     C(file, "a", "S", {"n"}, {"push"}),
     C(file, "b", "T", {"n"}, {"get"}),
     C(file, NoSpace, "T", {}, {"pop"})}

UpTo(k, S) == UNION {[1..j -> S] : j \in 0..k}
InFileOrder(s) == \A i, j \in DOMAIN s : i < j => s[i].file <= s[j].file

MCProjects ==
    [contracts : {s \in UpTo(2, Declarations) : s # <<>> /\ InFileOrder(s)},
     classes : {s \in UpTo(3, Classes(1) \cup Classes(2)) : InFileOrder(s)}]

\* A plain scan and a cached one, with each frontend.
MCScans ==
    <<[files |-> {1, 2}, frontend |-> "scan"], [files |-> {1}, frontend |-> "scan"],
      [files |-> {2}, frontend |-> "scan"],
      [files |-> {1, 2}, frontend |-> "clang"], [files |-> {1}, frontend |-> "clang"],
      [files |-> {2}, frontend |-> "clang"]>>
==============================================================================
