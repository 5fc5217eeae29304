--------------------------- MODULE ContractBinding ---------------------------
(***************************************************************************)
(* External contracts and the classes they speak about: load_sgdsl and     *)
(* build_contract_ir, validate_contract_ir, the symbol table, the binding  *)
(* of every contract to a symbol, its verdict, and load_dsl with           *)
(* apply_dsl_contracts, the second reader of the same files, by which the  *)
(* contracts reach the verifier.                                           *)
(*                                                                         *)
(* `Scans` are scans of one project, of all of its files or (as with       *)
(* --cache) of one of them, with the classes of one frontend.  A contract  *)
(* file is the declarations that carry its number: a declaration is a      *)
(* structure with its fields and methods, a method is known by the form in *)
(* which it is written, and a predicate by its kind, by whether it is well *)
(* formed, by the names it mentions and by those it orders with < or >.    *)
(* Warnings decide nothing and are left out, and so are structures named   *)
(* by a pattern that starts with a wildcard: only sgdsl reads them, and it *)
(* binds them to nothing.                                                  *)
(***************************************************************************)
EXTENDS Naturals, SequencesExt

CONSTANTS Projects,     \* pairs of contract declarations and classes
          Scans,        \* scans to be made: [files, frontend]
          NoSpace       \* no namespace

ASSUME ScanAssumption ==
    Scans \in Seq([files : (SUBSET Nat) \ {{}}, frontend : {"scan", "clang"}])

\* A file has one package, a name matches itself, and a contract in the line of
\* its method's name is one condition.
ASSUME ProjectAssumption ==
    \A p \in Projects :
        /\ p.contracts \in Seq(ToSet(p.contracts))
        /\ p.classes \in Seq(ToSet(p.classes))
        /\ \A d \in ToSet(p.contracts) : \A m \in ToSet(d.methods) :
                /\ m.form \in {"plain", "params", "wrapped"}
                /\ m.form = "wrapped" => \E c \in m.preds : /\ m.preds = {c}
                                                          /\ c.kind # "invariant"
        /\ \A d, e \in ToSet(p.contracts) : d.file = e.file => d.package = e.package
        /\ \A c \in ToSet(p.classes), d \in ToSet(p.contracts) :
                c.name = d.name => c.name \in d.matches

VARIABLES
    project,    \* [contracts, classes], each in the order in which it is read
    scan,       \* the scan being made: an index of Scans
    pc,         \* its step
    n,          \* how many elements the loop of this step has seen
    names,      \* SourceSymbolTable.structures: a name to its symbol
    fields, methods,    \* what the symbols hold
    bound,      \* BindingIR.structures: the symbol of each contract, or none
    invalid,    \* FAILED diagnostics about the contracts alone
    orphans,    \* and about each contract's binding
    applied,    \* contracts that the verifier sees on each method of each class
    verdicts    \* what the scans that are over have found

table == <<names, fields, methods>>
vars == <<project, scan, pc, n, table, bound, invalid, orphans, applied, verdicts>>

contracts == project.contracts
classes == project.classes
InView(c) == c.file \in Scans[scan].files

(***************************************************************************)
(* Two parsers.  sgdsl: every declaration of a method, its requires and    *)
(* ensures; a structure's own invariants only.                             *)
(***************************************************************************)
Invariants(preds) == {p \in preds : p.kind = "invariant"}
Conditions(preds) == preds \ Invariants(preds)

\* dsl: a method with a parameter list ("params") is not recognised; what its
\* block holds is read as part of the structure, where only invariants count.
\* Nor is a contract that follows its method's name without a block and goes on
\* in the next line ("wrapped"): there a line ends what the pattern sees.
DslMethods(d) == {m \in ToSet(d.methods) : m.form = "plain"}
DslConditions(d, name) ==
    UNION {Conditions(m.preds) : m \in {k \in DslMethods(d) : k.name = name}}
DslInvariants(d) ==
    Invariants(d.invariants) \cup UNION {Invariants(m.preds) : m \in ToSet(d.methods)}

(***************************************************************************)
(* validate_contract_ir, FAILED diagnostics only.                          *)
(***************************************************************************)
Repeated(s) == {s[i] : i \in {k \in DOMAIN s : \E j \in 1..(k - 1) : s[j] = s[k]}}
NamesOf(s) == [i \in DOMAIN s |-> s[i].name]

\* A mistake: a structure may be declared twice.
DuplicateStructuresAllowed == {}

DuplicateStructures ==
    {<<"SGDSL_DUPLICATE_STRUCTURE", q>> :
        q \in Repeated([i \in DOMAIN contracts |->
                            <<contracts[i].package, contracts[i].name>>])}

DuplicateItems(d) ==
    {<<"SGDSL_DUPLICATE_FIELD", f>> : f \in Repeated(NamesOf(d.fields))}
        \cup {<<"SGDSL_DUPLICATE_METHOD", m>> : m \in Repeated(NamesOf(d.methods))}

\* Names are checked only where the contract declares fields.
Declared(d) == ToSet(NamesOf(d.fields)) \cup ToSet(NamesOf(d.methods))
BadPredicate(d, p, params) ==
    (IF p.wellFormed THEN {} ELSE {<<"SGDSL_MALFORMED", p>>})
        \cup {<<"SGDSL_UNKNOWN_NAME", x>> : x \in
                IF d.fields = <<>> THEN {} ELSE p.mentions \ (Declared(d) \cup params)}
        \cup {<<"SGDSL_TYPE_MISMATCH", f.name>> :
                f \in {g \in ToSet(d.fields) : g.boolean /\ g.name \in p.orders}}
BadPredicates(d) ==
    UNION {BadPredicate(d, p, {}) : p \in Invariants(d.invariants)}
        \cup UNION {UNION {BadPredicate(d, p, m.params) : p \in Conditions(m.preds)}
                        : m \in ToSet(d.methods)}

ContractFailures ==
    DuplicateStructures \cup UNION {DuplicateItems(d) \cup BadPredicates(d) : d \in ToSet(contracts)}

(***************************************************************************)
(* The scan: one step per iteration of each loop.                          *)
(***************************************************************************)
Empty == [x \in {} |-> {}]

\* A dictionary with v at x, and with v at x unless it has an x.
Put(d, x, v) == [y \in DOMAIN d \cup {x} |-> IF y = x THEN v ELSE d[y]]
SetDefault(d, x, v) == [y \in DOMAIN d \cup {x} |-> IF y \in DOMAIN d THEN d[y] ELSE v]

Reset == /\ n' = 0
         /\ names' = Empty
         /\ fields' = Empty
         /\ methods' = Empty
         /\ bound' = <<>>
         /\ invalid' = {}
         /\ orphans' = <<>>
         /\ applied' = Empty

Init == /\ project \in Projects
        /\ scan = 1
        /\ pc = "contracts"
        /\ n = 0
        /\ names = Empty
        /\ fields = Empty
        /\ methods = Empty
        /\ bound = <<>>
        /\ invalid = {}
        /\ orphans = <<>>
        /\ applied = Empty
        /\ verdicts = <<>>

\* BuildContractIRPass.  Failures of the validation do not stop the scan.
BuildContractIR ==
    /\ pc = "contracts"
    /\ pc' = "table"
    /\ invalid' = ContractFailures
    /\ UNCHANGED <<project, scan, n, table, bound, orphans, applied, verdicts>>

\* The scanner knows no namespaces, Clang does.
Short(name) == <<NoSpace, name>>
Key(c) == IF Scans[scan].frontend = "clang" THEN <<c.space, c.name>> ELSE Short(c.name)

\* A mistake: every class of a name takes the short name over.
SymbolTakenOver(c) ==
    /\ names' = Put(Put(names, Short(c.name), Key(c)), Key(c), Key(c))
    /\ fields' = Put(fields, Key(c), c.fields)
    /\ methods' = Put(methods, Key(c), c.methods)

\* A mistake: a symbol is only known by its qualified name.
SymbolUnaliased(c) ==
    LET Held(f) == IF Key(c) \in DOMAIN f THEN f[Key(c)] ELSE {}
    IN  /\ names' = SetDefault(names, Key(c), Key(c))
        /\ fields' = Put(fields, Key(c), Held(fields) \cup c.fields)
        /\ methods' = Put(methods, Key(c), Held(methods) \cup c.methods)

\* The first class of a name also takes its short name; a later class with no
\* namespace is then merged into that symbol, whatever its namespace was.
Symbol(c) ==
    LET key == Key(c)
        owner == IF key \in DOMAIN names THEN names[key] ELSE key
        Held(f) == IF owner \in DOMAIN f THEN f[owner] ELSE {}
    IN  /\ names' = SetDefault(SetDefault(names, key, owner), Short(c.name), owner)
        /\ fields' = Put(fields, owner, Held(fields) \cup c.fields)
        /\ methods' = Put(methods, owner, Held(methods) \cup c.methods)

\* build_source_symbol_table, build_source_symbol_table_from_source_ir.
AddClass ==
    /\ pc = "table"
    /\ n < Len(classes)
    /\ n' = n + 1
    /\ IF InView(classes[n + 1]) THEN Symbol(classes[n + 1]) ELSE UNCHANGED table
    /\ UNCHANGED <<project, scan, pc, bound, invalid, orphans, applied, verdicts>>

TableBuilt ==
    /\ pc = "table"
    /\ n = Len(classes)
    /\ pc' = "bind"
    /\ n' = 0
    /\ UNCHANGED <<project, scan, table, bound, invalid, orphans, applied, verdicts>>

\* resolve_structure: the package of the contract is cut off.
Resolve(d) == IF Short(d.name) \in DOMAIN names THEN {names[Short(d.name)]} ELSE {}

BindStructure ==
    /\ pc = "bind"
    /\ n < Len(contracts)
    /\ n' = n + 1
    /\ bound' = Append(bound, Resolve(contracts[n + 1]))
    /\ UNCHANGED <<project, scan, pc, table, invalid, orphans, applied, verdicts>>

\* match_contracts_to_source: nothing is asked about the members of a
\* structure that is not there.
Orphans(d, symbols) ==
    IF symbols = {} THEN {<<"BINDING_ORPHAN_STRUCTURE", d.name>>}
    ELSE UNION {{<<"BINDING_ORPHAN_FIELD", f>> : f \in ToSet(NamesOf(d.fields)) \ fields[k]}
                  \cup {<<"BINDING_ORPHAN_METHOD", m>> :
                            m \in ToSet(NamesOf(d.methods)) \ methods[k]} : k \in symbols}

MatchContracts ==
    /\ pc = "bind"
    /\ n = Len(contracts)
    /\ pc' = "apply"
    /\ n' = 0
    /\ orphans' = [i \in DOMAIN bound |-> Orphans(contracts[i], bound[i])]
    /\ UNCHANGED <<project, scan, table, bound, invalid, applied, verdicts>>

(***************************************************************************)
(* apply_dsl_contracts, in verify_project: the later of two declarations   *)
(* of one name in one file is the one that counts, and a name may be a     *)
(* pattern.                                                                *)
(***************************************************************************)
Effective(i) ==
    \A j \in (i + 1)..Len(contracts) :
        <<contracts[j].file, contracts[j].name>> # <<contracts[i].file, contracts[i].name>>
Matching(c) ==
    {contracts[i] : i \in {k \in DOMAIN contracts :
                            Effective(k) /\ c.name \in contracts[k].matches}}

Merged(c) ==
    [invariants |-> UNION {DslInvariants(d) : d \in Matching(c)},
     methods |-> [m \in c.methods |-> UNION {DslConditions(d, m) : d \in Matching(c)}]]

ApplyContracts ==
    /\ pc = "apply"
    /\ n < Len(classes)
    /\ n' = n + 1
    /\ applied' = IF InView(classes[n + 1])
                  THEN Put(applied, n + 1, Merged(classes[n + 1])) ELSE applied
    /\ UNCHANGED <<project, scan, pc, table, bound, invalid, orphans, verdicts>>

\* The scan is over; the next one starts from nothing.
Finish ==
    /\ pc = "apply"
    /\ n = Len(classes)
    /\ verdicts' = Append(verdicts, [invalid |-> invalid, orphans |-> orphans,
                                     applied |-> applied])
    /\ Reset
    /\ IF scan = Len(Scans) THEN scan' = scan /\ pc' = "done"
                            ELSE scan' = scan + 1 /\ pc' = "contracts"
    /\ UNCHANGED project

Next == \/ BuildContractIR \/ AddClass \/ TableBuilt \/ BindStructure
        \/ MatchContracts \/ ApplyContracts \/ Finish

Spec == Init /\ [][Next]_vars

(***************************************************************************)
(* Properties.                                                             *)
(***************************************************************************)
Satisfied(s, i) == verdicts[s].orphans[i] = {}
Accepted(s) == verdicts[s].invalid = {} /\ \A i \in DOMAIN contracts : Satisfied(s, i)
Holds(s, d, m, p) ==
    /\ \E i \in DOMAIN verdicts[s].applied :
            classes[i].name = d.name /\ m.name \in classes[i].methods
    /\ \A i \in DOMAIN verdicts[s].applied :
            classes[i].name = d.name /\ m.name \in classes[i].methods
                => p \in verdicts[s].applied[i].methods[m.name]

\* "The contract must not be silently ignored": when a scan has nothing against
\* the contracts, every condition on a method reaches some method that is
\* verified, and all of that name in the classes of that name.  Methods that the
\* second parser does not see are excepted: those with a parameter list, and those
\* whose condition follows their name without a block and takes several lines.
AcceptedContractsAreApplied ==
    \A s \in DOMAIN verdicts : Accepted(s) =>
        \A d \in ToSet(contracts) : \A m \in ToSet(d.methods) :
            m.form = "plain" => \A p \in Conditions(m.preds) : Holds(s, d, m, p)

\* The same of every method, as CONTRACT_BINDING.md and SGDSL_SPEC.md say.
NoContractIsIgnored ==
    \A s \in DOMAIN verdicts : Accepted(s) =>
        \A d \in ToSet(contracts) : \A m \in ToSet(d.methods) :
            \A p \in Conditions(m.preds) : Holds(s, d, m, p)

Named(s, name) == {i \in DOMAIN classes : /\ classes[i].name = name
                                           /\ classes[i].file \in Scans[s].files}
OneSpace(I) == \A i, j \in I : classes[i].space = classes[j].space

\* What part of a project satisfies, all of it satisfies: this is why a scan with
\* --cache, which binds every contract to one file at a time, may reject what a
\* plain scan accepts and not the other way round.  It needs the part to see the
\* class whose short name counts: the first one, where namespaces tell classes
\* of one name apart.
SatisfiedStaysSatisfied ==
    \A s, t \in DOMAIN verdicts : \A i \in DOMAIN contracts :
        LET all == Named(s, contracts[i].name)
        IN  /\ Scans[t].frontend = Scans[s].frontend
            /\ Scans[t].files \subseteq Scans[s].files
            /\ \/ Scans[s].frontend = "scan" \/ OneSpace(all)
               \/ \E j \in Named(t, contracts[i].name) : \A k \in all : j <= k
            /\ Satisfied(t, i)
            => Satisfied(s, i)

\* What a contract binds to does not depend on the frontend, although the keys of
\* their tables differ, unless classes of one name live in different namespaces.
FrontendsBindAlike ==
    \A s, t \in DOMAIN verdicts :
        /\ Scans[s].files = Scans[t].files
        /\ \A d \in ToSet(contracts) : OneSpace(Named(s, d.name))
        => verdicts[s].orphans = verdicts[t].orphans
==============================================================================
