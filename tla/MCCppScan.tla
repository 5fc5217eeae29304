------------------------------ MODULE MCCppScan ------------------------------
(***************************************************************************)
(* C++ files for TLC: every body of at most three lines from a small       *)
(* alphabet, followed by what may stand after a class; and projects of two *)
(* files, with or without a header of somebody else's, that Clang parses   *)
(* in part.                                                                *)
(***************************************************************************)
EXTENDS CppScan

Class(name) == [kind |-> "class", name |-> name, seen |-> name]
Exported(name) == [kind |-> "class", name |-> name, seen |-> "EXPORT"]
Closing == [kind |-> "end"]
Note == [kind |-> "note", what |-> "requires", plain |-> FALSE]
PlainNote == [Note EXCEPT !.plain = TRUE]
Invariant == [Note EXCEPT !.what = "invariant"]
Field(name) == [kind |-> "field", name |-> name, plain |-> TRUE]
OddField(name) == [Field(name) EXCEPT !.plain = FALSE]
Fn(name, sig) == [kind |-> "fn", name |-> name, sig |-> sig, inline |-> FALSE,
                  bare |-> TRUE, noted |-> FALSE]
Inline(name) == [Fn(name, 0) EXCEPT !.inline = TRUE]
Noted(name) == [Fn(name, 0) EXCEPT !.noted = TRUE]
CallOp == [kind |-> "callop"]
Define(class, name, sig) ==
    [kind |-> "define", class |-> class, ends |-> {class}, whole |-> TRUE,
     name |-> name, sig |-> sig]
Qualified(define) == [define EXCEPT !.whole = FALSE]
DefineOfMinS(name) == [Define("MinS", name, 0) EXCEPT !.ends = {"MinS", "S"}]
Other == [kind |-> "other"]

Body == {Note, Invariant, Field("n"), Fn("pop", 0), Fn("pop", 1), Inline("top"), Inline("~"),
         Noted("push"), CallOp, Other}
UpTo(k, S) == UNION {[1..j -> S] : j \in 0..k}

After ==
    {<<>>,
     <<Note, Define("S", "pop", 0)>>,
     <<Invariant, Note, PlainNote, Define("S", "pop", 1), Define("S", "pop", 0)>>,
     <<Note, Note, Other, Define("S", "top", 0), Note, Define("S", "push", 0)>>,
     <<Class("S"), Note, Fn("put", 0), Closing, Define("S", "put", 0)>>,
     <<Class("T"), Inline("pop"), Note, Class("U"), Fn("top", 0), Field("u"), Closing, Closing>>,
     <<Class("T"), Class("U"), Note, Fn("top", 0), Closing, Fn("top", 0), Closing,
       Define("T", "top", 0)>>,
     [k \in 1..10 |-> Note] \o <<Define("S", "pop", 0)>>,
     <<Note, Qualified(Define("S", "pop", 0)), Invariant, Define("S", "push", 0)>>,
     <<Class("MinS"), Note, Fn("pop", 0), Closing, Note, DefineOfMinS("pop")>>,
     <<Class("T"), Note, Fn("top", 0)>>}

OneFile(lines) ==
    [files |-> <<lines>>, scanned |-> 1, includes |-> << <<>> >>, clang |-> FALSE]

Bodies == {<<>>, <<Field("n"), Note, Inline("pop")>>, <<OddField("m"), Fn("pop", 0)>>}
Shape(c, body) == <<c>> \o body \o <<Closing>>
Small ==
    {Shape(c, b) : c \in {Class("S"), Class("T"), Exported("S")}, b \in Bodies}
        \cup {Shape(Class("S"), b) \o Shape(Class("S"), <<Field("k")>>) : b \in Bodies}
Header == <<Class("V"), Closing, Class("S"), Field("n"), Field("h"), Closing,
            Class("V"), Field("v"), Closing>>

TwoFiles ==
    {[files |-> <<a, b, Header>>, scanned |-> k, includes |-> <<i, j, <<>> >>, clang |-> TRUE] :
        a \in Small, b \in Small, k \in {2, 3}, i \in {<<>>, <<3>>}, j \in {<<1>>, <<1, 3>>}}

MCProjects ==
    {OneFile(lines) : lines \in
        {s \in {<<Class("S")>> \o b \o <<Closing>> \o a : b \in UpTo(3, Body), a \in After} :
            WellFormed(s)}}
        \cup TwoFiles
==============================================================================
