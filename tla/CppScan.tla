------------------------------- MODULE CppScan -------------------------------
(***************************************************************************)
(* How StructGuard reads C++: the lightweight scan of every file line by   *)
(* line (scan_project), what Clang's syntax trees add to it                *)
(* (merge_clang_structural_model), and the choice of the methods that are  *)
(* verified (verify_project).                                              *)
(*                                                                         *)
(* A file is a sequence of lines, one for each thing the scanner tells     *)
(* apart.  A function with a body inside its class is one line; the        *)
(* scanner skips its body, with the contracts that may be in it.           *)
(*   class   [name, seen]: a class is opened; the scanner calls it `seen`, *)
(*           which differs when a macro stands before the name             *)
(*   end     a class is closed                                             *)
(*   note    [what, plain]: a contract in a comment; plain, if its text    *)
(*           has only characters of a return type                          *)
(*   field   [name, plain]: plain, if the scanner recognises it            *)
(*   fn      [name, sig, inline, bare, noted]: a member function; bare, if *)
(*           nothing follows its parameters, noted, if a contract follows  *)
(*           it on its line                                                *)
(*   callop  a function whose name the scanner does not get: operator()    *)
(*   define  [class, ends, whole, name, sig]: a member function defined    *)
(*           outside; ends, the names that its class's name, as it is      *)
(*           written there, ends in: its own, and Stack for MinStack;      *)
(*           whole, if no namespace or outer class is named before it      *)
(*   other   any other line                                                *)
(* A contract and a function are known by their lines.                     *)
(***************************************************************************)
EXTENDS Naturals, SequencesExt, FiniteSetsExt

CONSTANTS Projects,     \* [files, scanned, includes, clang]
          MaxFiles      \* --max-files: how many files Clang is given

ASSUME MaxFilesAssumption == MaxFiles \in Nat

\* Files are read line by line, and what they include is in an order.  A name ends
\* in itself.
Sequence(s) == s \in Seq(ToSet(s))
ASSUME ProjectsAssumption ==
    \A p \in Projects :
        /\ p.scanned \in Nat \ {0}
        /\ Sequence(p.files) /\ p.scanned <= Len(p.files)
        /\ \A g \in DOMAIN p.files :
                /\ Sequence(p.files[g])
                /\ \A line \in ToSet(p.files[g]) :
                        line.kind = "define" => line.class \in line.ends
        /\ \A g \in 1..p.scanned : /\ Sequence(p.includes[g])
                                  /\ ToSet(p.includes[g]) \subseteq DOMAIN p.files

VARIABLES
    project,    \* files 1..scanned are the project's, the others are only included;
                \* clang: the structural model was asked for
    pc,
    f,          \* the file being read
    at,         \* and the line of it
    close,      \* the last line of the class whose body is being read
    pending,    \* contracts read that no method has taken yet
    classes,    \* the classes found
    parsed,     \* what Clang made of each file
    records,    \* the classes it reported
    n,          \* how many of these have been merged
    found,      \* how many classes the scan found
    verified    \* methods given to verify_method, as [class, method]

vars == <<project, pc, f, at, close, pending, classes, parsed, records, n, found, verified>>

Files == project.files
L == Files[f]

(***************************************************************************)
(* Braces and fields.                                                      *)
(***************************************************************************)
Depth(lines, i, j) ==
    LET Count(kind) == Cardinality({k \in i..j : lines[k].kind = kind})
    IN  Count("class") - Count("end")

\* find_matching_brace: the line that closes the class opened at line i, if any.
Ends(lines, i) ==
    LET S == {j \in (i + 1)..Len(lines) : Depth(lines, i, j) = 0}
    IN  IF S = {} THEN {} ELSE {Min(S)}
Closed(lines, i) == lines[i].kind = "class" /\ Ends(lines, i) # {}
End(lines, i) == CHOOSE j \in Ends(lines, i) : TRUE

\* Lines of the class opened at line i that are not in a class inside it.
Own(lines, i) ==
    {j \in (i + 1)..(End(lines, i) - 1) :
        Depth(lines, i, IF lines[j].kind = "class" THEN j - 1 ELSE j) = 1}

\* extract_fields: names of functions that are only declared and of classes
\* inside the class look like fields too.
Fields(lines, i) ==
    {lines[j].name : j \in {k \in Own(lines, i) :
        \/ lines[k].kind = "field" /\ lines[k].plain
        \/ lines[k].kind = "fn" /\ lines[k].bare /\ ~lines[k].inline
        \/ lines[k].kind = "class"}}

(***************************************************************************)
(* The scan.                                                               *)
(***************************************************************************)
Contract(i) == [at |-> i, garbled |-> FALSE]
IsNote(line) == line.kind = "note" \/ (line.kind = "fn" /\ line.noted)

Init == /\ project \in Projects
        /\ pc = "classes"
        /\ f = 1
        /\ at = 1
        /\ close = 0
        /\ pending = <<>>
        /\ classes = <<>>
        /\ parsed = <<>>
        /\ records = <<>>
        /\ n = 0
        /\ found = 0
        /\ verified = <<>>

\* scan_classes_only: a class that is not closed is not seen.
OpenClass ==
    /\ pc = "classes"
    /\ at <= Len(L)
    /\ Closed(L, at)
    /\ pc' = "body"
    /\ close' = End(L, at)
    /\ at' = at + 1
    /\ pending' = <<>>
    /\ classes' = Append(classes, [name |-> L[at].seen, file |-> f, at |-> at,
                                   fields |-> Fields(L, at), methods |-> <<>>,
                                   invariants |-> <<>>])
    /\ UNCHANGED <<project, f, parsed, records, n, found, verified>>

SkipLine ==
    /\ pc = "classes"
    /\ at <= Len(L)
    /\ ~Closed(L, at)
    /\ at' = at + 1
    /\ UNCHANGED <<project, pc, f, close, pending, classes, parsed, records, n, found, verified>>

Current == Len(classes)

\* parse_class_body.  A contract after a declaration, on its line, hides the
\* declaration.
ReadNote ==
    /\ pc = "body"
    /\ at < close
    /\ IsNote(L[at])
    /\ at' = at + 1
    /\ IF L[at].kind = "note" /\ L[at].what = "invariant"
       THEN /\ classes' = [classes EXCEPT ![Current].invariants = Append(@, Contract(at))]
            /\ UNCHANGED pending
       ELSE /\ pending' = Append(pending, Contract(at))
            /\ UNCHANGED classes
    /\ UNCHANGED <<project, pc, f, close, parsed, records, n, found, verified>>

\* A mistake: the contracts of a method are not forgotten.
ReadMethodLeaking ==
    /\ pc = "body"
    /\ at < close
    /\ L[at].kind = "fn" /\ ~IsNote(L[at])
    /\ at' = at + 1
    /\ classes' = [classes EXCEPT ![Current].methods =
                        Append(@, [name |-> L[at].name, at |-> at,
                                   body |-> IF L[at].inline THEN {at} ELSE {},
                                   notes |-> pending])]
    /\ UNCHANGED <<project, pc, f, close, pending, parsed, records, n, found, verified>>

\* A method takes all the contracts read since the method before it.
ReadMethod ==
    /\ pc = "body"
    /\ at < close
    /\ L[at].kind = "fn" /\ ~IsNote(L[at])
    /\ at' = at + 1
    /\ classes' = [classes EXCEPT ![Current].methods =
                        Append(@, [name |-> L[at].name, at |-> at,
                                   body |-> IF L[at].inline THEN {at} ELSE {},
                                   notes |-> pending])]
    /\ pending' = <<>>
    /\ UNCHANGED <<project, pc, f, close, parsed, records, n, found, verified>>

ReadOther ==
    /\ pc = "body"
    /\ at < close
    /\ L[at].kind # "fn" /\ ~IsNote(L[at])
    /\ at' = at + 1
    /\ UNCHANGED <<project, pc, f, close, pending, classes, parsed, records, n, found, verified>>

\* The search for classes goes on after the line that opened this one: a class
\* inside it is read once as part of it and once by itself.
CloseClass ==
    /\ pc = "body"
    /\ at = close
    /\ pc' = "classes"
    /\ at' = classes[Current].at + 1
    /\ UNCHANGED <<project, f, close, pending, classes, parsed, records, n, found, verified>>

\* contiguous_contracts_before, nine lines at most.  The definition's return type
\* takes in what it can of the last comment before it: all of it, and then no
\* comment is left to be read, or its end.
NotesBefore(lines, i) ==
    LET first == Max({0} \cup {j \in 1..(i - 1) : lines[j].kind # "note" \/ i - j > 9}) + 1
        notes == [k \in 1..(i - first) |-> Contract(first + k - 1)]
    IN  IF notes = <<>> \/ lines[i - 1].plain THEN <<>>
        ELSE [notes EXCEPT ![Len(notes)].garbled = TRUE]

IsInvariant(c) == L[c.at].kind = "note" /\ L[c.at].what = "invariant"

\* The members of s that are in S, in their order.
Only(s, S) == FlattenSeq([k \in DOMAIN s |-> IF s[k] \in S THEN <<s[k]>> ELSE <<>>])

\* attach_external_definitions, for one class and one definition: the first method
\* of that name that has no body gets it.
Defined(methods, i, conditions) ==
    LET open == {k \in DOMAIN methods : methods[k].name = L[i].name /\ methods[k].body = {}}
        Method(notes) == [name |-> L[i].name, at |-> i, body |-> {i}, notes |-> notes]
    IN  IF open # {}
        THEN [methods EXCEPT ![Min(open)] = Method(methods[Min(open)].notes \o conditions)]
        ELSE Append(methods, Method(conditions))

\* Where more of a name stands before the class's, the pattern matches from the
\* middle of the line, and the line is what comes before the definition.
Attached(c, i) ==
    LET read == IF L[i].whole /\ c.name = L[i].class THEN NotesBefore(L, i) ELSE <<>>
        invariants == {x \in ToSet(read) : IsInvariant(x)}
    IN  [c EXCEPT !.invariants = @ \o Only(read, invariants),
                  !.methods = Defined(@, i, Only(read, ToSet(read) \ invariants))]

ReadDefinitions ==
    /\ pc = "classes"
    /\ at > Len(L)
    /\ pc' = "definitions"
    /\ at' = 1
    /\ UNCHANGED <<project, f, close, pending, classes, parsed, records, n, found, verified>>

\* Only classes of the same file, and all of them that the name ends in.
AttachDefinition ==
    /\ pc = "definitions"
    /\ at <= Len(L)
    /\ at' = at + 1
    /\ classes' = [k \in DOMAIN classes |->
                    IF L[at].kind = "define" /\ classes[k].file = f
                            /\ classes[k].name \in L[at].ends
                    THEN Attached(classes[k], at) ELSE classes[k]]
    /\ UNCHANGED <<project, pc, f, close, pending, parsed, records, n, found, verified>>

\* A file that cannot be read is left out.
NextFile ==
    /\ \/ pc = "definitions" /\ at > Len(L)
       \/ pc = "classes" /\ at = 1
    /\ IF f < project.scanned THEN f' = f + 1 /\ pc' = "classes" /\ found' = found
                              ELSE /\ f' = f
                                   /\ pc' = IF project.clang THEN "clang" ELSE "verify"
                                   /\ found' = Len(classes)
    /\ at' = 1
    /\ UNCHANGED <<project, close, pending, classes, parsed, records, n, verified>>

(***************************************************************************)
(* Clang.  A declaration in its tree names its file only where the file    *)
(* changes, so that of an included file all but the first is taken for the *)
(* file's own; a class holds an implicit record of its own name.           *)
(***************************************************************************)
FirstDeclaration(lines) ==
    Min({Len(lines)} \cup {i \in DOMAIN lines : lines[i].kind \in {"class", "define"}})

Named(lines, i, kind) ==
    {lines[j].name : j \in {k \in Own(lines, i) : lines[k].kind = kind}}

Declared(g) ==
    LET lines == Files[g]
        Record(i) == [name |-> lines[i].name, line |-> i,
                      file |-> IF i = FirstDeclaration(lines) THEN {g} ELSE {},
                      fields |-> Named(lines, i, "field"),
                      methods |-> Named(lines, i, "fn")]
        Implicit(i) == [name |-> lines[i].name, line |-> 0, file |-> {},
                        fields |-> {}, methods |-> {}]
    IN  FlattenSeq([i \in DOMAIN lines |->
            IF Closed(lines, i) THEN <<Record(i), Implicit(i)>> ELSE <<>>])

\* The tree of file g, in the order in which it is walked.
Walked(g) ==
    FlattenSeq([k \in DOMAIN project.includes[g] |-> Declared(project.includes[g][k])])
        \o Declared(g)
InTarget(r, g) == r.file \subseteq {g}

\* extract_ast_record_models: of the records with one name, file and line the
\* first of the largest is kept.
Size(r) == Cardinality(r.fields) + Cardinality(r.methods)
Records(g) ==
    LET w == Walked(g)
        Same(i, j) == <<w[i].name, w[i].file, w[i].line>> = <<w[j].name, w[j].file, w[j].line>>
        Kept(i) == /\ InTarget(w[i], g)
                   /\ \A j \in DOMAIN w : InTarget(w[j], g) /\ Same(i, j) =>
                        \/ Size(w[i]) > Size(w[j])
                        \/ Size(w[i]) = Size(w[j]) /\ i <= j
    IN  FlattenSeq([i \in DOMAIN w |-> IF Kept(i) THEN <<w[i]>> ELSE <<>>])

\* run_clang_ast: what may come of one file.  Without Clang, nothing comes of any.
Outcomes == {"ok", "missing", "timeout", "error", "syntax", "no tree"}

RunClang ==
    /\ pc = "clang"
    /\ Len(parsed) < Min({project.scanned, MaxFiles})
    /\ \E o \in Outcomes :
        /\ \A g \in DOMAIN parsed : (o = "missing") = (parsed[g] = "missing")
        /\ parsed' = Append(parsed, o)
        /\ records' = records \o IF o = "ok" THEN Records(Len(parsed) + 1) ELSE <<>>
    /\ UNCHANGED <<project, pc, f, at, close, pending, classes, n, found, verified>>

\* Nothing to merge: the classes stay as they are (fallback).
ClangDone ==
    /\ pc = "clang"
    /\ Len(parsed) = Min({project.scanned, MaxFiles})
    /\ pc' = IF "ok" \in ToSet(parsed) THEN "merge" ELSE "verify"
    /\ UNCHANGED <<project, f, at, close, pending, classes, parsed, records, n, found, verified>>

\* A mistake: a class that is added is not known to the records after it.
KnownToScan(name) == {k \in 1..found : classes[k].name = name}

Known(name) == {k \in DOMAIN classes : classes[k].name = name}

\* merge_clang_structural_model, one record: the fields go to the last class of
\* that name, or to a new class with no methods.
MergeRecord ==
    /\ pc = "merge"
    /\ n < Len(records)
    /\ n' = n + 1
    /\ LET r == records[n + 1]
       IN  classes' = IF Known(r.name) # {}
                      THEN [classes EXCEPT ![Max(Known(r.name))].fields = @ \cup r.fields]
                      ELSE Append(classes, [name |-> r.name, file |-> 0, at |-> r.line,
                                            fields |-> r.fields, methods |-> <<>>,
                                            invariants |-> <<>>])
    /\ UNCHANGED <<project, pc, f, at, close, pending, parsed, records, found, verified>>

Merged ==
    /\ pc = "merge"
    /\ n = Len(records)
    /\ pc' = "verify"
    /\ UNCHANGED <<project, f, at, close, pending, classes, parsed, records, n, found, verified>>

(***************************************************************************)
(* verify_project: methods with a body, or with contracts of their own,    *)
(* that are not destructors ("~").                                         *)
(***************************************************************************)
Verifiable(m) == m.name # "~" /\ (m.body # {} \/ m.notes # <<>>)

VerifyProject ==
    /\ pc = "verify"
    /\ pc' = "done"
    /\ verified' = FlattenSeq([k \in DOMAIN classes |->
            LET ms == Only(classes[k].methods, {m \in ToSet(classes[k].methods) : Verifiable(m)})
            IN  [i \in DOMAIN ms |-> [class |-> k, method |-> ms[i]]]])
    /\ UNCHANGED <<project, f, at, close, pending, classes, parsed, records, n, found>>

Next == \/ OpenClass \/ SkipLine \/ ReadNote \/ ReadMethod \/ ReadOther \/ CloseClass
        \/ ReadDefinitions \/ AttachDefinition \/ NextFile
        \/ RunClang \/ ClangDone \/ MergeRecord \/ Merged \/ VerifyProject

Spec == Init /\ [][Next]_vars

(***************************************************************************)
(* Properties.                                                             *)
(***************************************************************************)
Functions == {"fn", "callop", "define"}

\* The class that line i is written in, and the function it declares or defines.
Inside(lines, i) ==
    LET S == {k \in 1..(i - 1) : Closed(lines, k) /\ i <= End(lines, k)}
    IN  IF S = {} THEN {} ELSE {lines[Max(S)].seen}
Function(lines, i) ==
    CASE lines[i].kind = "fn" -> <<Inside(lines, i), lines[i].name, lines[i].sig>>
      [] lines[i].kind = "define" -> <<{lines[i].class}, lines[i].name, lines[i].sig>>
      [] OTHER -> <<Inside(lines, i), i>>

\* The function a contract stands before, or on whose line it is.
SpokenOf(lines, i) ==
    {Function(lines, j) : j \in {k \in i..Len(lines) :
        lines[k].kind \in Functions /\ \A l \in i..(k - 1) : lines[l].kind \notin Functions}}

\* C++ takes one declaration and one body of a function, and definitions like
\* S::f() only outside of classes.
WellFormed(lines) ==
    LET Same(i, j) == Function(lines, i) = Function(lines, j)
        Declares(i) == lines[i].kind = "fn"
        Implements(i) == lines[i].kind = "define" \/ (Declares(i) /\ lines[i].inline)
    IN  /\ \A i, j \in DOMAIN lines :
            (Declares(i) /\ Declares(j)) \/ (Implements(i) /\ Implements(j))
                => (Same(i, j) => i = j)
        /\ \A k, i \in DOMAIN lines :
            Closed(lines, k) /\ i \in (k + 1)..End(lines, k) => lines[i].kind # "define"

\* What the scanner is known to mistake: overloads, classes of one name, a class
\* inside another that shares a function's name with it, a class whose name ends
\* the name of another that has a definition outside, contracts on the line of a
\* declaration, functions without a name.
Tame(lines) ==
    /\ \A i, j \in DOMAIN lines :
        /\ {lines[i].kind, lines[j].kind} \subseteq {"fn", "define"}
        /\ lines[i].name = lines[j].name
        => lines[i].sig = lines[j].sig
    /\ \A i, j \in DOMAIN lines :
        lines[i].kind = "class" /\ lines[j].kind = "class" /\ lines[i].seen = lines[j].seen
        => i = j
    /\ \A k, i, j \in DOMAIN lines :
        /\ Closed(lines, k) /\ i \in (k + 1)..End(lines, k)
        /\ lines[i].kind = "fn" /\ lines[j].kind = "define"
        /\ lines[i].name = lines[j].name /\ lines[k].seen = lines[j].class
        => Inside(lines, i) = {lines[k].seen}
    /\ \A k, j \in DOMAIN lines :
        /\ lines[k].kind = "class" /\ lines[j].kind = "define"
        /\ lines[k].seen \in lines[j].ends
        => lines[k].seen = lines[j].class
    /\ \A i \in DOMAIN lines : lines[i].kind # "callop"
    /\ \A i \in DOMAIN lines : lines[i].kind = "fn" => ~lines[i].noted

NotesOf(m) == {m.notes[k].at : k \in DOMAIN m.notes}

\* A body is verified against the conditions written for its function and no
\* others, wherever the body stands, and a condition written in a class before a
\* function of it is verified with that function: contracts do not drift to a
\* neighbour.  Files with what the scanner mistakes are excepted.
BodiesMeetTheirContracts ==
    pc = "done" =>
        \A v \in ToSet(verified) :
            LET c == classes[v.class]
                lines == Files[c.file]
                m == v.method
            IN  WellFormed(lines) /\ Tame(lines) =>
                    /\ \A i \in NotesOf(m) : SpokenOf(lines, i) = {Function(lines, m.at)}
                    /\ \A i \in (c.at + 1)..m.at :
                            /\ lines[i].kind = "note" /\ lines[i].what # "invariant"
                            /\ lines[m.at].kind = "fn"
                            /\ SpokenOf(lines, i) = {Function(lines, m.at)}
                            => i \in NotesOf(m)

\* Of every file this is not so: the pattern of a definition has no word boundary
\* before the class's name, and a method named by operator() is not seen.
BodiesOfAnyFileMeetTheirContracts ==
    pc = "done" =>
        \A v \in ToSet(verified) :
            LET lines == Files[classes[v.class].file]
            IN  WellFormed(lines) =>
                    \A i \in NotesOf(v.method) :
                        SpokenOf(lines, i) = {Function(lines, v.method.at)}

\* Nor does every definition keep the conditions written right before it: of many
\* only nine are read, after a class's qualified name none, and a comment that
\* could be a return type is taken for one.
DefinitionsKeepTheirContracts ==
    pc = "done" =>
        \A v \in ToSet(verified) :
            LET lines == Files[classes[v.class].file]
                m == v.method
            IN  WellFormed(lines) /\ Tame(lines) /\ lines[m.at].kind = "define" =>
                    \A i \in DOMAIN lines :
                        /\ lines[i].kind = "note" /\ lines[i].what # "invariant"
                        /\ SpokenOf(lines, i) = {Function(lines, m.at)}
                        => i \in NotesOf(m)

NamesOf(S) == {x.name : x \in S}
FieldsNamed(S, name) == UNION {x.fields : x \in {y \in S : y.name = name}}

\* The merge is a union, whichever files Clang could parse and in whatever order
\* their records come: the classes of one name together have the fields that
\* either frontend saw, and a class is added once and only for a name the scan lacks.
MergeIsAUnion ==
    pc = "done" =>
        LET scanned == ToSet(SubSeq(classes, 1, found))
            added == SubSeq(classes, found + 1, Len(classes))
            reported == ToSet(records)
        IN  /\ NamesOf(ToSet(added)) = NamesOf(reported) \ NamesOf(scanned)
            /\ \A i, j \in DOMAIN added : added[i].name = added[j].name => i = j
            /\ \A name \in NamesOf(ToSet(classes)) :
                FieldsNamed(ToSet(classes), name) =
                    FieldsNamed({[name |-> c.name, fields |-> Fields(Files[c.file], c.at)] :
                                    c \in scanned} \cup reported, name)
==============================================================================
