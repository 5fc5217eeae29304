------------------------- MODULE ContractBindingProofs -------------------------
(***************************************************************************)
(* Proofs about ContractBinding, for any projects and scans.  The          *)
(* invariant says what the symbol table is after the first k classes,      *)
(* without its order of insertion: a name belongs to the first class in    *)
(* view that has it, and a symbol holds the members of the classes whose   *)
(* key leads to it.  What every scan has found then follows from the       *)
(* project alone, and two scans of it can be compared.                     *)
(***************************************************************************)
EXTENDS ContractBinding, TLAPS

\* Scan s, up to class k.
Seen(s, k) == {j \in 1..k : classes[j].file \in Scans[s].files}
KeyIn(s, j) ==
    IF Scans[s].frontend = "clang" THEN <<classes[j].space, classes[j].name>>
    ELSE Short(classes[j].name)
ShortOf(j) == Short(classes[j].name)

\* The names that are taken, and by whom.
Known(k) ==
    \A j \in Seen(scan, k) : KeyIn(scan, j) \in DOMAIN names /\ ShortOf(j) \in DOMAIN names
NoOthers(k) ==
    \A x \in DOMAIN names : \E j \in Seen(scan, k) : x = KeyIn(scan, j) \/ x = ShortOf(j)
LongNames(k) ==
    \A j \in Seen(scan, k) :
        KeyIn(scan, j) # ShortOf(j) => names[KeyIn(scan, j)] = KeyIn(scan, j)
ShortNames(k) ==
    \A j \in Seen(scan, k) : \E i \in Seen(scan, k) :
        /\ classes[i].name = classes[j].name
        /\ \A l \in Seen(scan, k) : classes[l].name = classes[j].name => i <= l
        /\ names[ShortOf(j)] = KeyIn(scan, i)
NamesOK(k) == Known(k) /\ NoOthers(k) /\ LongNames(k) /\ ShortNames(k)

\* What the symbols hold.
Members(k, o) == {j \in Seen(scan, k) : names[KeyIn(scan, j)] = o}
Symbols(k) == {names[KeyIn(scan, j)] : j \in Seen(scan, k)}
FieldsOK(k) ==
    /\ DOMAIN fields = Symbols(k)
    /\ \A o \in Symbols(k) : fields[o] = UNION {classes[j].fields : j \in Members(k, o)}
MethodsOK(k) ==
    /\ DOMAIN methods = Symbols(k)
    /\ \A o \in Symbols(k) : methods[o] = UNION {classes[j].methods : j \in Members(k, o)}
TableOK(k) == NamesOK(k) /\ FieldsOK(k) /\ MethodsOK(k)

\* What a scan says of contract i: the classes that lend it members are those of
\* its name whose key is the short name, or that of the first of them.
Namesakes(s, i) == {j \in Seen(s, Len(classes)) : classes[j].name = contracts[i].name}
Kin(s, i, f) == {j \in Namesakes(s, i) : KeyIn(s, j) \in {ShortOf(j), KeyIn(s, f)}}
Missing(s, i, f) ==
    {<<"BINDING_ORPHAN_FIELD", x>> :
        x \in ToSet(NamesOf(contracts[i].fields)) \ UNION {classes[j].fields : j \in Kin(s, i, f)}}
    \cup {<<"BINDING_ORPHAN_METHOD", x>> :
        x \in ToSet(NamesOf(contracts[i].methods)) \ UNION {classes[j].methods : j \in Kin(s, i, f)}}
OrphansAre(s, i, S) ==
    \/ Namesakes(s, i) = {} /\ S = {<<"BINDING_ORPHAN_STRUCTURE", contracts[i].name>>}
    \/ \E f \in Namesakes(s, i) : (\A j \in Namesakes(s, i) : f <= j) /\ S = Missing(s, i, f)
AllOrphans(s, S) ==
    /\ S = [i \in DOMAIN contracts |-> S[i]]
    /\ \A i \in DOMAIN contracts : OrphansAre(s, i, S[i])

AppliedOK(s, k, a) == DOMAIN a = Seen(s, k) /\ \A j \in Seen(s, k) : a[j] = Merged(classes[j])

VerdictsOK ==
    \A s \in DOMAIN verdicts :
        /\ verdicts[s].invalid = ContractFailures
        /\ AllOrphans(s, verdicts[s].orphans)
        /\ AppliedOK(s, Len(classes), verdicts[s].applied)

ScanOK ==
    /\ pc = "contracts" => n = 0 /\ names = Empty /\ fields = Empty /\ methods = Empty
                           /\ bound = <<>> /\ applied = Empty
    /\ pc = "table" => n \in 0..Len(classes) /\ TableOK(n)
                       /\ bound = <<>> /\ applied = Empty /\ invalid = ContractFailures
    /\ pc = "bind" => /\ n \in 0..Len(contracts) /\ TableOK(Len(classes))
                      /\ bound \in Seq(ToSet(bound)) /\ Len(bound) = n
                      /\ \A i \in 1..n : bound[i] = Resolve(contracts[i])
                      /\ applied = Empty /\ invalid = ContractFailures
    /\ pc = "apply" => /\ n \in 0..Len(classes) /\ invalid = ContractFailures
                       /\ AllOrphans(scan, orphans) /\ AppliedOK(scan, n, applied)

TypeInv ==
    /\ project \in Projects
    /\ pc \in {"contracts", "table", "bind", "apply", "done"}
    /\ verdicts \in Seq(ToSet(verdicts))
    /\ scan \in Nat
    /\ pc # "done" => Len(verdicts) + 1 = scan

IInv == TypeInv /\ ScanOK /\ VerdictsOK
-----------------------------------------------------------------------------
(***************************************************************************)
(* Sequences.                                                              *)
(***************************************************************************)

LEMMA ToSetSeq ==
    ASSUME NEW T, NEW s \in Seq(T)
    PROVE  s \in Seq(ToSet(s))
<1>1. s \in [1..Len(s) -> ToSet(s)]
  BY DEF ToSet
<1> QED BY <1>1

\* What Append adds.
LEMMA Appended ==
    ASSUME NEW s, s \in Seq(ToSet(s)), NEW e
    PROVE  /\ Append(s, e) \in Seq(ToSet(Append(s, e)))
           /\ Len(Append(s, e)) = Len(s) + 1
           /\ DOMAIN Append(s, e) = 1..(Len(s) + 1)
           /\ \A i \in 1..Len(s) : Append(s, e)[i] = s[i]
           /\ Append(s, e)[Len(s) + 1] = e
<1> DEFINE T == ToSet(s) \cup {e}
<1>1. s \in Seq(T) /\ e \in T
  OBVIOUS
<1>2. Append(s, e) \in Seq(T)
  BY <1>1
<1>3. Append(s, e) \in Seq(ToSet(Append(s, e)))
  BY <1>2, ToSetSeq
<1> QED BY <1>1, <1>2, <1>3

-----------------------------------------------------------------------------
(***************************************************************************)
(* The symbol table.                                                       *)
(***************************************************************************)

\* A class is in view or is not, and nothing is beyond the last.
LEMMA SeenNext ==
    ASSUME NEW s, NEW k \in Nat
    PROVE  /\ classes[k + 1].file \in Scans[s].files => Seen(s, k + 1) = Seen(s, k) \cup {k + 1}
           /\ classes[k + 1].file \notin Scans[s].files => Seen(s, k + 1) = Seen(s, k)
           /\ k + 1 \notin Seen(s, k)
           /\ \A j \in Seen(s, k) : j \in Nat /\ j <= k
BY DEF Seen

\* A key is a short name, or no short name at all.
LEMMA Keys ==
    ASSUME NEW s, NEW i, NEW j
    PROVE  /\ KeyIn(s, i) = ShortOf(j) => KeyIn(s, i) = ShortOf(i)
           /\ KeyIn(s, i) \in {KeyIn(s, j), ShortOf(j)} => classes[i].name = classes[j].name
           /\ ShortOf(i) = ShortOf(j) <=> classes[i].name = classes[j].name
BY DEF KeyIn, ShortOf, Short

LEMMA TextStays ==
    ASSUME UNCHANGED project
    PROVE  /\ contracts' = contracts /\ classes' = classes
           /\ \A s, k : Seen(s, k)' = Seen(s, k)
           /\ \A s, j : KeyIn(s, j)' = KeyIn(s, j)
           /\ \A j : ShortOf(j)' = ShortOf(j)
BY DEF contracts, classes, Seen, KeyIn, ShortOf

LEMMA FindingsStay ==
    ASSUME UNCHANGED project
    PROVE  /\ ContractFailures' = ContractFailures
           /\ \A s, S : AllOrphans(s, S)' = AllOrphans(s, S)
           /\ \A s, k, a : AppliedOK(s, k, a)' = AppliedOK(s, k, a)
           /\ \A c : Merged(c)' = Merged(c)
<1>1. contracts' = contracts /\ classes' = classes
  BY DEF contracts, classes
<1>2. ContractFailures' = ContractFailures
  BY <1>1 DEF ContractFailures, DuplicateStructures
<1>3. \A s, i : Namesakes(s, i)' = Namesakes(s, i)
  BY <1>1, TextStays DEF Namesakes
<1>4. \A s, i, f : Missing(s, i, f)' = Missing(s, i, f)
  BY <1>1, <1>3, TextStays DEF Missing, Kin
<1>5. \A s, i, S : OrphansAre(s, i, S)' = OrphansAre(s, i, S)
  BY <1>1, <1>3, <1>4 DEF OrphansAre
<1>6. \A s, S : AllOrphans(s, S)' = AllOrphans(s, S)
  BY <1>1, <1>5 DEF AllOrphans
<1>7. \A c : Merged(c)' = Merged(c)
  BY <1>1 DEF Merged, Matching, Effective
<1>8. \A s, k, a : AppliedOK(s, k, a)' = AppliedOK(s, k, a)
  BY <1>1, <1>7, TextStays DEF AppliedOK
<1> QED BY <1>2, <1>6, <1>7, <1>8

LEMMA ProjectType ==
    ASSUME project \in Projects
    PROVE  /\ Len(classes) \in Nat /\ DOMAIN classes = 1..Len(classes)
           /\ Len(contracts) \in Nat /\ DOMAIN contracts = 1..Len(contracts)
           /\ \A i \in DOMAIN contracts : contracts[i] \in ToSet(contracts)
           /\ \A i \in DOMAIN classes : classes[i] \in ToSet(classes)
BY ProjectAssumption DEF classes, contracts, ToSet

\* A class that is entered leaves the table as it should be.
LEMMA SymbolStep ==
    ASSUME NEW k \in Nat, TableOK(k), Symbol(classes[k + 1]),
           classes[k + 1].file \in Scans[scan].files, UNCHANGED <<project, scan>>
    PROVE  TableOK(k + 1)'
<1> DEFINE c == classes[k + 1]
           key == KeyIn(scan, k + 1)
           sh == ShortOf(k + 1)
           owner == IF key \in DOMAIN names THEN names[key] ELSE key
           S == Seen(scan, k)
           T == Seen(scan, k + 1)
<1>1. /\ classes' = classes /\ scan' = scan /\ Seen(scan, k + 1)' = T
      /\ \A j : KeyIn(scan, j)' = KeyIn(scan, j) /\ ShortOf(j)' = ShortOf(j)
  BY TextStays
<1>2. T = S \cup {k + 1} /\ k + 1 \notin S /\ \A j \in S : j \in Nat /\ j <= k
  BY SeenNext
<1>3. Key(c) = key /\ Short(c.name) = sh
  BY DEF Key, KeyIn, ShortOf
<1>4. /\ DOMAIN names' = DOMAIN names \cup {key, sh}
      /\ \A x \in DOMAIN names : names'[x] = names[x]
      /\ names'[key] = owner
      /\ sh \notin DOMAIN names => names'[sh] = owner
  <2> DEFINE m == SetDefault(names, key, owner)
  <2>1. names' = SetDefault(m, sh, owner)
    BY <1>3 DEF Symbol
  <2>2. /\ DOMAIN m = DOMAIN names \cup {key}
        /\ \A x \in DOMAIN names : m[x] = names[x]
        /\ m[key] = owner
    BY DEF SetDefault
  <2>3. /\ DOMAIN names' = DOMAIN m \cup {sh}
        /\ \A x \in DOMAIN m : names'[x] = m[x]
        /\ sh \notin DOMAIN m => names'[sh] = owner
    BY <2>1 DEF SetDefault
  <2> HIDE DEF m, key, sh, owner
  <2> QED BY <2>2, <2>3
<1>5. NamesOK(k) /\ FieldsOK(k) /\ MethodsOK(k)
  BY DEF TableOK
<1>6. \A j \in S : /\ KeyIn(scan, j) \in DOMAIN names /\ ShortOf(j) \in DOMAIN names
                   /\ names'[KeyIn(scan, j)] = names[KeyIn(scan, j)]
                   /\ names'[ShortOf(j)] = names[ShortOf(j)]
  BY <1>4, <1>5 DEF NamesOK, Known
<1>7. Known(k + 1)' /\ NoOthers(k + 1)'
  <2>1. \A j \in T : KeyIn(scan, j) \in DOMAIN names' /\ ShortOf(j) \in DOMAIN names'
    BY <1>2, <1>4, <1>6
  <2>2. \A x \in DOMAIN names' : \E j \in T : x = KeyIn(scan, j) \/ x = ShortOf(j)
    BY <1>2, <1>4, <1>5 DEF NamesOK, NoOthers
  <2> QED BY <1>1, <2>1, <2>2 DEF Known, NoOthers
\* Who has the key, or the short name, has the name.
<1>8. /\ key \in DOMAIN names => \E j \in S : classes[j].name = c.name /\ (key # sh => key = KeyIn(scan, j))
      /\ sh \in DOMAIN names <=> \E j \in S : classes[j].name = c.name
  <2>1. \A x \in DOMAIN names : \E j \in S : x = KeyIn(scan, j) \/ x = ShortOf(j)
    BY <1>5 DEF NamesOK, NoOthers
  <2>2. \A j \in S : classes[j].name = c.name => ShortOf(j) = sh
    BY Keys
  <2>3. \A j \in S : key \in {KeyIn(scan, j), ShortOf(j)} => classes[j].name = c.name
    BY Keys
  <2>4. \A j \in S : key = ShortOf(j) => key = sh
    BY Keys
  <2>5. \A j \in S : sh \in {KeyIn(scan, j), ShortOf(j)} => classes[j].name = c.name
    BY Keys
  <2> QED BY <2>1, <2>2, <2>3, <2>4, <2>5, <1>6
<1>9. key # sh \/ sh \notin DOMAIN names => owner = key
  <2>1. CASE key \notin DOMAIN names
    BY <2>1
  <2>2. CASE key \in DOMAIN names /\ sh \notin DOMAIN names
    BY <2>2, <1>8
  <2>3. CASE key \in DOMAIN names /\ key # sh
    <3>1. PICK j \in S : classes[j].name = c.name /\ key = KeyIn(scan, j)
      BY <2>3, <1>8
    <3>2. ShortOf(j) = sh
      BY <3>1, Keys
    <3>3. names[KeyIn(scan, j)] = KeyIn(scan, j)
      BY <3>1, <3>2, <2>3, <1>5 DEF NamesOK, LongNames
    <3> QED BY <3>1, <3>3, <2>3
  <2> QED BY <2>1, <2>2, <2>3
<1>10. LongNames(k + 1)'
  <2>1. \A j \in S : KeyIn(scan, j) # ShortOf(j) => names'[KeyIn(scan, j)] = KeyIn(scan, j)
    BY <1>5, <1>6 DEF NamesOK, LongNames
  <2>2. key # sh => names'[key] = key
    BY <1>4, <1>9
  <2> QED BY <1>1, <1>2, <2>1, <2>2 DEF LongNames
<1>11. ShortNames(k + 1)'
  <2>1. ASSUME NEW j \in S
        PROVE  \E i \in T : /\ classes[i].name = classes[j].name
                            /\ \A l \in T : classes[l].name = classes[j].name => i <= l
                            /\ names'[ShortOf(j)] = KeyIn(scan, i)
    <3>1. PICK i \in S : /\ classes[i].name = classes[j].name
                         /\ \A l \in S : classes[l].name = classes[j].name => i <= l
                         /\ names[ShortOf(j)] = KeyIn(scan, i)
      BY <1>5 DEF NamesOK, ShortNames
    <3>2. i <= k + 1
      BY <1>2
    <3> QED BY <3>1, <3>2, <1>2, <1>6
  <2>2. \E i \in T : /\ classes[i].name = c.name
                     /\ \A l \in T : classes[l].name = c.name => i <= l
                     /\ names'[sh] = KeyIn(scan, i)
    <3>1. CASE sh \in DOMAIN names
      <4>1. PICK j \in S : classes[j].name = c.name
        BY <3>1, <1>8
      <4>2. ShortOf(j) = sh
        BY <4>1, Keys
      <4> QED BY <4>1, <4>2, <2>1
    <3>2. CASE sh \notin DOMAIN names
      <4>1. names'[sh] = key
        BY <3>2, <1>4, <1>9
      <4>2. \A l \in T : classes[l].name = c.name => k + 1 <= l
        BY <3>2, <1>2, <1>8
      <4> QED BY <4>1, <4>2, <1>2
    <3> QED BY <3>1, <3>2
  <2> QED BY <1>1, <1>2, <2>1, <2>2 DEF ShortNames
<1>12. Symbols(k + 1)' = Symbols(k) \cup {owner}
  BY <1>1, <1>2, <1>4, <1>6 DEF Symbols
<1>13. \A o : Members(k + 1, o)' = Members(k, o) \cup (IF o = owner THEN {k + 1} ELSE {})
  BY <1>1, <1>2, <1>4, <1>6 DEF Members
<1>14. owner \notin Symbols(k) => Members(k, owner) = {}
  BY DEF Symbols, Members
<1>15. FieldsOK(k + 1)'
  <2> DEFINE held == IF owner \in DOMAIN fields THEN fields[owner] ELSE {}
  <2>1. fields' = Put(fields, owner, held \cup c.fields)
    BY <1>3 DEF Symbol
  <2>2. /\ DOMAIN fields' = DOMAIN fields \cup {owner} /\ fields'[owner] = held \cup c.fields
        /\ \A o \in DOMAIN fields : o # owner => fields'[o] = fields[o]
    BY <2>1 DEF Put
  <2>3. held = UNION {classes[j].fields : j \in Members(k, owner)}
    BY <1>5, <1>14 DEF FieldsOK
  <2>4. \A o \in Symbols(k) \cup {owner} :
            fields'[o] = UNION {classes[j].fields : j \in Members(k + 1, o)'}
    <3> SUFFICES ASSUME NEW o \in Symbols(k) \cup {owner}
                 PROVE  fields'[o] = UNION {classes[j].fields : j \in Members(k + 1, o)'}
      OBVIOUS
    <3> HIDE DEF owner, held, c
    <3>1. CASE o = owner
      BY <3>1, <1>13, <2>2, <2>3 DEF c
    <3>2. CASE o # owner
      BY <3>2, <1>5, <1>13, <2>2 DEF FieldsOK
    <3> QED BY <3>1, <3>2
  <2> QED BY <1>1, <1>5, <1>12, <2>2, <2>4 DEF FieldsOK
<1>16. MethodsOK(k + 1)'
  <2> DEFINE held == IF owner \in DOMAIN methods THEN methods[owner] ELSE {}
  <2>1. methods' = Put(methods, owner, held \cup c.methods)
    BY <1>3 DEF Symbol
  <2>2. /\ DOMAIN methods' = DOMAIN methods \cup {owner} /\ methods'[owner] = held \cup c.methods
        /\ \A o \in DOMAIN methods : o # owner => methods'[o] = methods[o]
    BY <2>1 DEF Put
  <2>3. held = UNION {classes[j].methods : j \in Members(k, owner)}
    BY <1>5, <1>14 DEF MethodsOK
  <2>4. \A o \in Symbols(k) \cup {owner} :
            methods'[o] = UNION {classes[j].methods : j \in Members(k + 1, o)'}
    <3> SUFFICES ASSUME NEW o \in Symbols(k) \cup {owner}
                 PROVE  methods'[o] = UNION {classes[j].methods : j \in Members(k + 1, o)'}
      OBVIOUS
    <3> HIDE DEF owner, held, c
    <3>1. CASE o = owner
      BY <3>1, <1>13, <2>2, <2>3 DEF c
    <3>2. CASE o # owner
      BY <3>2, <1>5, <1>13, <2>2 DEF MethodsOK
    <3> QED BY <3>1, <3>2
  <2> QED BY <1>1, <1>5, <1>12, <2>2, <2>4 DEF MethodsOK
<1> QED BY <1>7, <1>10, <1>11, <1>15, <1>16 DEF TableOK, NamesOK

\* What the table says of a contract is what the classes of its name say.
LEMMA OrphansRight ==
    ASSUME TableOK(Len(classes)), NEW i \in DOMAIN contracts
    PROVE  OrphansAre(scan, i, Orphans(contracts[i], Resolve(contracts[i])))
<1> DEFINE d == contracts[i]
           sh == Short(d.name)
           l == Len(classes)
           N == Namesakes(scan, i)
<1>1. NamesOK(l) /\ FieldsOK(l) /\ MethodsOK(l)
  BY DEF TableOK
<1>2. \A j \in Seen(scan, l) : /\ ShortOf(j) = sh <=> classes[j].name = d.name
                               /\ KeyIn(scan, j) = sh => classes[j].name = d.name
  BY DEF ShortOf, KeyIn, Short
<1>3. N = {j \in Seen(scan, l) : classes[j].name = d.name}
  BY DEF Namesakes
<1>4. sh \in DOMAIN names <=> N # {}
  BY <1>1, <1>2, <1>3 DEF NamesOK, Known, NoOthers
<1>5. CASE N = {}
  <2>1. Orphans(d, Resolve(d)) = {<<"BINDING_ORPHAN_STRUCTURE", d.name>>}
    BY <1>4, <1>5 DEF Orphans, Resolve
  <2> QED BY <2>1, <1>5 DEF OrphansAre
<1>6. CASE N # {}
  <2>1. PICK f \in N : /\ \A j \in N : f <= j
                       /\ names[sh] = KeyIn(scan, f)
    <3>1. PICK j \in N : TRUE
      BY <1>6
    <3> QED BY <3>1, <1>1, <1>2, <1>3 DEF NamesOK, ShortNames
  <2> DEFINE o == KeyIn(scan, f)
  <2>2. names[o] = o
    BY <2>1, <1>1, <1>2, <1>3 DEF NamesOK, LongNames
  <2>3. o \in Symbols(l)
    BY <2>2, <1>3 DEF Symbols
  <2>4. Members(l, o) = Kin(scan, i, f)
    <3>1. ASSUME NEW j \in Seen(scan, l), names[KeyIn(scan, j)] = o
          PROVE  j \in Kin(scan, i, f)
      <4>1. CASE KeyIn(scan, j) # ShortOf(j)
        <5>1. KeyIn(scan, j) = o
          BY <3>1, <4>1, <1>1 DEF NamesOK, LongNames
        <5>2. classes[j].name = d.name
          BY <5>1, <1>3, Keys
        <5> QED BY <5>1, <5>2, <1>3 DEF Kin
      <4>2. CASE KeyIn(scan, j) = ShortOf(j)
        <5>1. PICK g \in Seen(scan, l) : /\ classes[g].name = classes[j].name
                                         /\ names[ShortOf(j)] = KeyIn(scan, g)
          BY <1>1 DEF NamesOK, ShortNames
        <5>2. KeyIn(scan, g) = o
          BY <5>1, <4>2, <3>1
        <5>3. classes[g].name = d.name
          BY <5>2, <1>3, Keys
        <5> QED BY <5>1, <5>3, <4>2, <1>3 DEF Kin
      <4> QED BY <4>1, <4>2
    <3>2. ASSUME NEW j \in Kin(scan, i, f)
          PROVE  j \in Seen(scan, l) /\ names[KeyIn(scan, j)] = o
      <4>1. j \in N /\ KeyIn(scan, j) \in {ShortOf(j), o}
        BY <3>2 DEF Kin
      <4>2. ShortOf(j) = sh
        BY <4>1, <1>2, <1>3
      <4> QED BY <4>1, <4>2, <2>1, <2>2, <1>3
    <3> QED BY <3>1, <3>2 DEF Members
  <2>5. /\ fields[o] = UNION {classes[j].fields : j \in Kin(scan, i, f)}
        /\ methods[o] = UNION {classes[j].methods : j \in Kin(scan, i, f)}
    BY <2>3, <2>4, <1>1 DEF FieldsOK, MethodsOK
  <2>6. Resolve(d) = {o}
    BY <2>1, <1>4, <1>6 DEF Resolve
  <2>7. Orphans(d, {o}) = Missing(scan, i, f)
    BY <2>5 DEF Orphans, Missing
  <2> QED BY <2>1, <2>6, <2>7 DEF OrphansAre
<1> QED BY <1>5, <1>6

-----------------------------------------------------------------------------
(***************************************************************************)
(* The invariant, action by action.                                        *)
(***************************************************************************)

LEMMA VerdictsStay ==
    ASSUME VerdictsOK, UNCHANGED <<project, verdicts>>
    PROVE  VerdictsOK'
BY FindingsStay, TextStays DEF VerdictsOK

\* The table stands as long as no class that counts is added.
LEMMA TableStays ==
    ASSUME NEW k, NEW m, TableOK(k), Seen(scan, m)' = Seen(scan, k),
           UNCHANGED <<project, scan, names, fields, methods>>
    PROVE  TableOK(m)'
<1>1. \A j : KeyIn(scan, j)' = KeyIn(scan, j) /\ ShortOf(j)' = ShortOf(j)
  BY TextStays
<1>2. classes' = classes
  BY TextStays
<1>3. Known(m)' /\ NoOthers(m)'
  BY <1>1 DEF TableOK, NamesOK, Known, NoOthers
<1>4. LongNames(m)'
  BY <1>1 DEF TableOK, NamesOK, LongNames
<1>5. ShortNames(m)'
  BY <1>1, <1>2 DEF TableOK, NamesOK, ShortNames
<1>6. Symbols(m)' = Symbols(k) /\ \A o : Members(m, o)' = Members(k, o)
  BY <1>1 DEF Symbols, Members
<1>7. FieldsOK(m)'
  BY <1>2, <1>6 DEF TableOK, FieldsOK
<1>8. MethodsOK(m)'
  BY <1>2, <1>6 DEF TableOK, MethodsOK
<1> QED BY <1>3, <1>4, <1>5, <1>7, <1>8 DEF TableOK, NamesOK

LEMMA InitIInv == Init => IInv
BY ScanAssumption DEF Init, IInv, TypeInv, ScanOK, VerdictsOK

LEMMA BuildContractIRStep ==
    ASSUME IInv, BuildContractIR
    PROVE  IInv'
<1>1. /\ pc = "contracts" /\ pc' = "table" /\ invalid' = ContractFailures
      /\ UNCHANGED <<project, scan, n, names, fields, methods, bound, applied, verdicts>>
  BY DEF BuildContractIR, table
<1>2. TypeInv' /\ VerdictsOK'
  BY <1>1, VerdictsStay DEF IInv, TypeInv
<1>3. /\ n = 0 /\ names = Empty /\ fields = Empty /\ methods = Empty
      /\ bound = <<>> /\ applied = Empty
  BY <1>1 DEF IInv, ScanOK
<1>4. Seen(scan, 0)' = {}
  BY DEF Seen
<1>5. TableOK(0)'
  <2>1. DOMAIN names' = {} /\ DOMAIN fields' = {} /\ DOMAIN methods' = {}
    BY <1>1, <1>3 DEF Empty
  <2> QED BY <1>4, <2>1 DEF TableOK, NamesOK, Known, NoOthers, LongNames, ShortNames,
                            FieldsOK, MethodsOK, Symbols
<1>6. Len(classes)' \in Nat
  BY <1>2, ProjectAssumption DEF TypeInv, classes
<1>7. ScanOK'
  BY <1>1, <1>3, <1>5, <1>6, FindingsStay DEF ScanOK, Empty
<1> QED BY <1>2, <1>7 DEF IInv

LEMMA AddClassStep ==
    ASSUME IInv, AddClass
    PROVE  IInv'
<1>1. /\ pc = "table" /\ n < Len(classes) /\ n' = n + 1
      /\ UNCHANGED <<project, scan, pc, bound, invalid, applied, verdicts>>
  BY DEF AddClass
<1>2. TypeInv' /\ VerdictsOK'
  BY <1>1, VerdictsStay DEF IInv, TypeInv
<1>3. /\ n \in 0..Len(classes) /\ TableOK(n)
      /\ bound = <<>> /\ applied = Empty /\ invalid = ContractFailures
  BY <1>1 DEF IInv, ScanOK
<1>4. Len(classes) \in Nat /\ classes' = classes
  BY <1>1, ProjectType, TextStays DEF IInv, TypeInv
<1>5. n' \in 0..Len(classes')
  BY <1>1, <1>3, <1>4
<1>6. PICK k \in Nat : k = n
  BY <1>3, <1>4
<1>7. TableOK(k + 1)'
  <2>1. CASE classes[k + 1].file \in Scans[scan].files
    <3>1. Symbol(classes[k + 1])
      BY <2>1, <1>6 DEF AddClass, InView
    <3> QED BY <2>1, <3>1, <1>1, <1>3, <1>6, SymbolStep
  <2>2. CASE classes[k + 1].file \notin Scans[scan].files
    <3>1. UNCHANGED <<names, fields, methods>>
      BY <2>2, <1>6 DEF AddClass, InView, table
    <3>2. Seen(scan, k + 1)' = Seen(scan, k)
      BY <2>2, <1>1, SeenNext, TextStays
    <3>3. TableOK(k)
      BY <1>3, <1>6
    <3> QED BY <3>1, <3>2, <3>3, <1>1, TableStays
  <2> QED BY <2>1, <2>2
<1>8. TableOK(n)'
  BY <1>1, <1>6, <1>7
<1>9. ScanOK'
  BY <1>1, <1>3, <1>5, <1>8, FindingsStay DEF ScanOK, Empty
<1> QED BY <1>2, <1>9 DEF IInv

LEMMA TableBuiltStep ==
    ASSUME IInv, TableBuilt
    PROVE  IInv'
<1>1. /\ pc = "table" /\ n = Len(classes) /\ n' = 0 /\ pc' = "bind"
      /\ UNCHANGED <<project, scan, names, fields, methods, bound, invalid, applied, verdicts>>
  BY DEF TableBuilt, table
<1>2. TypeInv' /\ VerdictsOK'
  BY <1>1, VerdictsStay DEF IInv, TypeInv
<1>3. /\ TableOK(Len(classes))
      /\ bound = <<>> /\ applied = Empty /\ invalid = ContractFailures
  BY <1>1 DEF IInv, ScanOK
<1>4. /\ Len(contracts) \in Nat /\ contracts' = contracts /\ classes' = classes
  BY <1>1, ProjectType, TextStays DEF IInv, TypeInv
<1>5. TableOK(Len(classes))'
  <2>1. PICK k : k = Len(classes)
    OBVIOUS
  <2>2. Seen(scan, k)' = Seen(scan, k)
    BY <1>1, TextStays
  <2>3. TableOK(k)'
    BY <2>1, <2>2, <1>1, <1>3, TableStays
  <2>4. Len(classes)' = k
    BY <2>1, <1>4
  <2> QED BY <2>3, <2>4
<1>6. ScanOK'
  <2>1. bound' \in Seq(ToSet(bound')) /\ Len(bound') = 0
    BY <1>1, <1>3
  <2> QED BY <1>1, <1>3, <1>4, <1>5, <2>1, FindingsStay DEF ScanOK, Empty
<1> QED BY <1>2, <1>6 DEF IInv

\* What a name resolves to depends on the table alone.
LEMMA ResolveStays ==
    ASSUME UNCHANGED <<project, names>>
    PROVE  \A i : Resolve(contracts[i])' = Resolve(contracts[i])
BY DEF Resolve, contracts

LEMMA BindStructureStep ==
    ASSUME IInv, BindStructure
    PROVE  IInv'
<1>1. /\ pc = "bind" /\ n < Len(contracts) /\ n' = n + 1
      /\ bound' = Append(bound, Resolve(contracts[n + 1]))
      /\ UNCHANGED <<project, scan, pc, names, fields, methods, invalid, applied, verdicts>>
  BY DEF BindStructure, table
<1>2. TypeInv' /\ VerdictsOK'
  BY <1>1, VerdictsStay DEF IInv, TypeInv
<1>3. /\ n \in 0..Len(contracts) /\ TableOK(Len(classes))
      /\ bound \in Seq(ToSet(bound)) /\ Len(bound) = n
      /\ \A i \in 1..n : bound[i] = Resolve(contracts[i])
      /\ applied = Empty /\ invalid = ContractFailures
  BY <1>1 DEF IInv, ScanOK
<1>4. Len(contracts) \in Nat /\ contracts' = contracts /\ classes' = classes
  BY <1>1, ProjectType, TextStays DEF IInv, TypeInv
<1>5. TableOK(Len(classes))'
  <2>1. PICK k : k = Len(classes)
    OBVIOUS
  <2>2. Seen(scan, k)' = Seen(scan, k)
    BY <1>1, TextStays
  <2>3. TableOK(k)'
    BY <2>1, <2>2, <1>1, <1>3, TableStays
  <2>4. Len(classes)' = k
    BY <2>1, <1>4
  <2> QED BY <2>3, <2>4
<1>6. PICK k \in Nat : k = n
  BY <1>3, <1>4
<1>7. PICK e : e = Resolve(contracts[k + 1])
  OBVIOUS
<1>8. /\ bound' \in Seq(ToSet(bound')) /\ Len(bound') = k + 1
      /\ \A i \in 1..k : bound'[i] = bound[i]
      /\ bound'[k + 1] = e
  <2>1. bound' = Append(bound, e) /\ Len(bound) = k
    BY <1>1, <1>3, <1>6, <1>7
  <2> QED BY <2>1, <1>3, Appended
<1>9. \A i \in 1..(k + 1) : bound'[i] = Resolve(contracts[i])'
  <2>1. \A i : Resolve(contracts[i])' = Resolve(contracts[i])
    BY <1>1, ResolveStays
  <2> QED BY <2>1, <1>3, <1>6, <1>7, <1>8
<1>10. n' \in 0..Len(contracts)'
  BY <1>1, <1>3, <1>4
<1>11. ScanOK'
  <2>1. n' = k + 1
    BY <1>1, <1>6
  <2> QED BY <2>1, <1>1, <1>3, <1>5, <1>8, <1>9, <1>10, FindingsStay DEF ScanOK, Empty
<1> QED BY <1>2, <1>11 DEF IInv

LEMMA MatchContractsStep ==
    ASSUME IInv, MatchContracts
    PROVE  IInv'
<1>1. /\ pc = "bind" /\ n = Len(contracts) /\ n' = 0 /\ pc' = "apply"
      /\ orphans' = [i \in DOMAIN bound |-> Orphans(contracts[i], bound[i])]
      /\ UNCHANGED <<project, scan, invalid, applied, verdicts>>
  BY DEF MatchContracts
<1>2. TypeInv' /\ VerdictsOK'
  BY <1>1, VerdictsStay DEF IInv, TypeInv
<1>3. /\ n \in 0..Len(contracts) /\ TableOK(Len(classes))
      /\ bound \in Seq(ToSet(bound)) /\ Len(bound) = n
      /\ \A i \in 1..n : bound[i] = Resolve(contracts[i])
      /\ applied = Empty /\ invalid = ContractFailures
  BY <1>1 DEF IInv, ScanOK
<1>4. /\ Len(contracts) \in Nat /\ DOMAIN contracts = 1..Len(contracts)
      /\ Len(classes) \in Nat /\ contracts' = contracts /\ classes' = classes
  BY <1>1, ProjectType, TextStays DEF IInv, TypeInv
<1>5. DOMAIN bound = DOMAIN contracts
  BY <1>1, <1>3, <1>4
<1>6. AllOrphans(scan, orphans')
  <2>1. orphans' = [i \in DOMAIN contracts |-> orphans'[i]]
    BY <1>1, <1>5
  <2>2. ASSUME NEW i \in DOMAIN contracts
        PROVE  OrphansAre(scan, i, orphans'[i])
    <3>1. orphans'[i] = Orphans(contracts[i], Resolve(contracts[i]))
      BY <1>1, <1>3, <1>4, <1>5
    <3> QED BY <3>1, <1>3, OrphansRight
  <2> QED BY <2>1, <2>2 DEF AllOrphans
<1>7. AllOrphans(scan, orphans)'
  BY <1>1, <1>6, FindingsStay
<1>8. AppliedOK(scan, 0, applied)'
  BY <1>1, <1>3 DEF AppliedOK, Seen, Empty
<1>9. ScanOK'
  BY <1>1, <1>3, <1>4, <1>7, <1>8, FindingsStay DEF ScanOK
<1> QED BY <1>2, <1>9 DEF IInv

LEMMA ApplyContractsStep ==
    ASSUME IInv, ApplyContracts
    PROVE  IInv'
<1>1. /\ pc = "apply" /\ n < Len(classes) /\ n' = n + 1
      /\ UNCHANGED <<project, scan, pc, invalid, orphans, verdicts>>
  BY DEF ApplyContracts
<1>2. TypeInv' /\ VerdictsOK'
  BY <1>1, VerdictsStay DEF IInv, TypeInv
<1>3. /\ n \in 0..Len(classes) /\ invalid = ContractFailures
      /\ AllOrphans(scan, orphans) /\ AppliedOK(scan, n, applied)
  BY <1>1 DEF IInv, ScanOK
<1>4. Len(classes) \in Nat /\ classes' = classes
  BY <1>1, ProjectType, TextStays DEF IInv, TypeInv
<1>5. PICK k \in Nat : k = n
  BY <1>3, <1>4
<1>6. PICK v : v = Merged(classes[k + 1])
  OBVIOUS
<1>7. AppliedOK(scan, k + 1, applied')
  <2>1. DOMAIN applied = Seen(scan, k) /\ \A j \in Seen(scan, k) : applied[j] = Merged(classes[j])
    BY <1>3, <1>5 DEF AppliedOK
  <2>2. CASE classes[k + 1].file \in Scans[scan].files
    <3>1. applied' = Put(applied, k + 1, v)
      BY <2>2, <1>5, <1>6 DEF ApplyContracts, InView
    <3>2. /\ DOMAIN applied' = DOMAIN applied \cup {k + 1} /\ applied'[k + 1] = v
          /\ \A j \in DOMAIN applied : j # k + 1 => applied'[j] = applied[j]
      BY <3>1 DEF Put
    <3>3. Seen(scan, k + 1) = Seen(scan, k) \cup {k + 1} /\ k + 1 \notin Seen(scan, k)
      BY <2>2, SeenNext
    <3> QED BY <2>1, <3>2, <3>3, <1>6 DEF AppliedOK
  <2>3. CASE classes[k + 1].file \notin Scans[scan].files
    <3>1. applied' = applied
      BY <2>3, <1>5 DEF ApplyContracts, InView
    <3>2. Seen(scan, k + 1) = Seen(scan, k)
      BY <2>3, SeenNext
    <3> QED BY <2>1, <3>1, <3>2 DEF AppliedOK
  <2> QED BY <2>2, <2>3
<1>8. AppliedOK(scan, n, applied)'
  <2>1. AppliedOK(scan', n', applied')
    BY <1>1, <1>5, <1>7
  <2> QED BY <2>1, <1>1, FindingsStay
<1>9. AllOrphans(scan, orphans)'
  BY <1>1, <1>3, FindingsStay
<1>10. ScanOK'
  BY <1>1, <1>3, <1>4, <1>8, <1>9, FindingsStay DEF ScanOK
<1> QED BY <1>2, <1>10 DEF IInv

LEMMA FinishStep ==
    ASSUME IInv, Finish
    PROVE  IInv'
<1>1. /\ pc = "apply" /\ n = Len(classes)
      /\ n' = 0 /\ names' = Empty /\ fields' = Empty /\ methods' = Empty
      /\ bound' = <<>> /\ applied' = Empty
      /\ \/ pc' = "done" /\ scan' = scan
         \/ pc' = "contracts" /\ scan' = scan + 1
      /\ UNCHANGED project
  BY DEF Finish, Reset
<1>2. PICK e : e = [invalid |-> invalid, orphans |-> orphans, applied |-> applied]
  OBVIOUS
<1>3. verdicts' = Append(verdicts, e)
  BY <1>2 DEF Finish
<1>4. /\ verdicts \in Seq(ToSet(verdicts)) /\ scan \in Nat /\ project \in Projects
      /\ Len(verdicts) + 1 = scan
  BY <1>1 DEF IInv, TypeInv
<1>5. /\ verdicts' \in Seq(ToSet(verdicts')) /\ Len(verdicts') = Len(verdicts) + 1
      /\ DOMAIN verdicts' = 1..(Len(verdicts) + 1)
      /\ \A s \in 1..Len(verdicts) : verdicts'[s] = verdicts[s]
      /\ verdicts'[Len(verdicts) + 1] = e
  BY <1>3, <1>4, Appended
<1>6. TypeInv'
  BY <1>1, <1>4, <1>5 DEF TypeInv
<1>7. invalid = ContractFailures /\ AllOrphans(scan, orphans) /\ AppliedOK(scan, n, applied)
  BY <1>1 DEF IInv, ScanOK
<1>8. ASSUME NEW s \in DOMAIN verdicts'
      PROVE  /\ verdicts'[s].invalid = ContractFailures
             /\ AllOrphans(s, verdicts'[s].orphans)
             /\ AppliedOK(s, Len(classes), verdicts'[s].applied)
  <2>1. CASE s \in 1..Len(verdicts)
    BY <2>1, <1>4, <1>5 DEF IInv, VerdictsOK
  <2>2. CASE s = scan
    BY <2>2, <1>1, <1>2, <1>4, <1>5, <1>7
  <2> QED BY <2>1, <2>2, <1>4, <1>5
<1>9. VerdictsOK'
  BY <1>1, <1>8, FindingsStay, TextStays DEF VerdictsOK
<1>10. ScanOK'
  BY <1>1 DEF ScanOK, Empty
<1> QED BY <1>6, <1>9, <1>10 DEF IInv

LEMMA StutterStep ==
    ASSUME IInv, UNCHANGED vars
    PROVE  IInv'
<1>1. UNCHANGED <<project, scan, pc, n, names, fields, methods, bound, invalid, orphans,
                  applied, verdicts>>
  BY DEF vars, table
<1>2. TypeInv' /\ VerdictsOK'
  BY <1>1, VerdictsStay DEF IInv, TypeInv
<1>3. contracts' = contracts /\ classes' = classes
  BY <1>1, TextStays
<1>4. \A k : TableOK(k) => TableOK(k)'
  <2> SUFFICES ASSUME NEW k, TableOK(k) PROVE TableOK(k)'
    OBVIOUS
  <2>1. Seen(scan, k)' = Seen(scan, k)
    BY <1>1, TextStays
  <2> QED BY <2>1, <1>1, TableStays
<1>5. \A i : Resolve(contracts[i])' = Resolve(contracts[i])
  BY <1>1, ResolveStays
<1>6. ScanOK'
  <2>1. pc = "contracts" => ScanOK'
    BY <1>1 DEF IInv, ScanOK, Empty
  <2>2. pc = "table" => ScanOK'
    BY <1>1, <1>3, <1>4, FindingsStay DEF IInv, ScanOK, Empty
  <2>3. pc = "bind" => ScanOK'
    BY <1>1, <1>3, <1>4, <1>5, FindingsStay DEF IInv, ScanOK, Empty
  <2>4. pc = "apply" => ScanOK'
    BY <1>1, <1>3, FindingsStay DEF IInv, ScanOK
  <2>5. pc = "done" => ScanOK'
    BY <1>1 DEF ScanOK
  <2> QED BY <2>1, <2>2, <2>3, <2>4, <2>5 DEF IInv, TypeInv
<1> QED BY <1>2, <1>6 DEF IInv

LEMMA Always == Spec => []IInv
<1>1. IInv /\ [Next]_vars => IInv'
  BY BuildContractIRStep, AddClassStep, TableBuiltStep, BindStructureStep,
     MatchContractsStep, ApplyContractsStep, FinishStep, StutterStep DEF Next
<1> QED BY InitIInv, <1>1, PTL DEF Spec

-----------------------------------------------------------------------------
(***************************************************************************)
(* Two scans of one project.                                               *)
(***************************************************************************)

LEMMA NamesakesAreNamed ==
    ASSUME IInv, NEW s, NEW i
    PROVE  Named(s, contracts[i].name) = Namesakes(s, i)
BY ProjectType DEF IInv, TypeInv, Named, Namesakes, Seen

\* What a verdict says of a contract.
LEMMA VerdictOn ==
    ASSUME IInv, NEW s \in DOMAIN verdicts, NEW i \in DOMAIN contracts
    PROVE  OrphansAre(s, i, verdicts[s].orphans[i])
BY DEF IInv, VerdictsOK, AllOrphans

\* Classes that one scan sees and another sees as well, of the same kin there.
LEMMA MoreKinMissLess ==
    ASSUME NEW s, NEW t, NEW i, NEW f, NEW g, Kin(t, i, g) \subseteq Kin(s, i, f),
           Missing(t, i, g) = {}
    PROVE  Missing(s, i, f) = {}
<1>1. /\ ToSet(NamesOf(contracts[i].fields))
            \subseteq UNION {classes[j].fields : j \in Kin(t, i, g)}
      /\ ToSet(NamesOf(contracts[i].methods))
            \subseteq UNION {classes[j].methods : j \in Kin(t, i, g)}
  BY DEF Missing
<1>2. /\ ToSet(NamesOf(contracts[i].fields))
            \subseteq UNION {classes[j].fields : j \in Kin(s, i, f)}
      /\ ToSet(NamesOf(contracts[i].methods))
            \subseteq UNION {classes[j].methods : j \in Kin(s, i, f)}
  BY <1>1
<1> QED BY <1>2 DEF Missing

LEMMA PartIsEnough ==
    ASSUME IInv
    PROVE  SatisfiedStaysSatisfied
<1> SUFFICES ASSUME NEW s \in DOMAIN verdicts, NEW t \in DOMAIN verdicts,
                    NEW i \in DOMAIN contracts,
                    Scans[t].frontend = Scans[s].frontend,
                    Scans[t].files \subseteq Scans[s].files,
                    \/ Scans[s].frontend = "scan"
                    \/ OneSpace(Namesakes(s, i))
                    \/ \E j \in Namesakes(t, i) : \A k \in Namesakes(s, i) : j <= k,
                    verdicts[t].orphans[i] = {}
             PROVE  verdicts[s].orphans[i] = {}
  BY NamesakesAreNamed DEF SatisfiedStaysSatisfied, Satisfied
<1>1. PICK g \in Namesakes(t, i) : /\ \A j \in Namesakes(t, i) : g <= j
                                   /\ Missing(t, i, g) = {}
  BY VerdictOn DEF OrphansAre
<1>2. Namesakes(t, i) \subseteq Namesakes(s, i)
  BY DEF Namesakes, Seen
<1>3. PICK f \in Namesakes(s, i) : /\ \A j \in Namesakes(s, i) : f <= j
                                   /\ verdicts[s].orphans[i] = Missing(s, i, f)
  BY <1>1, <1>2, VerdictOn DEF OrphansAre
<1>4. \A j : KeyIn(t, j) = KeyIn(s, j)
  BY DEF KeyIn
<1>5. \A j \in Namesakes(s, i) : j \in Nat /\ classes[j].name = contracts[i].name
  BY DEF Namesakes, Seen
<1>6. Kin(t, i, g) \subseteq Kin(s, i, f)
  <2>1. CASE Scans[s].frontend = "scan"
    BY <2>1, <1>2 DEF Kin, KeyIn, ShortOf
  <2>2. CASE OneSpace(Namesakes(s, i))
    <3>1. \A j \in Namesakes(s, i) : KeyIn(s, j) = KeyIn(s, f)
      BY <2>2, <1>5, <1>3 DEF OneSpace, KeyIn
    <3> QED BY <3>1, <1>2 DEF Kin
  <2>3. CASE \E j \in Namesakes(t, i) : \A k \in Namesakes(s, i) : j <= k
    <3>1. g = f
      BY <2>3, <1>1, <1>2, <1>3, <1>5
    <3> QED BY <3>1, <1>2, <1>4 DEF Kin
  <2> QED BY <2>1, <2>2, <2>3
<1>7. Missing(s, i, f) = {}
  BY <1>1, <1>6, MoreKinMissLess
<1> QED BY <1>3, <1>7

LEMMA KeysDoNotMatter ==
    ASSUME IInv
    PROVE  FrontendsBindAlike
<1> SUFFICES ASSUME NEW s \in DOMAIN verdicts, NEW t \in DOMAIN verdicts,
                    Scans[s].files = Scans[t].files,
                    \A d \in ToSet(contracts) : OneSpace(Named(s, d.name))
             PROVE  verdicts[s].orphans = verdicts[t].orphans
  BY DEF FrontendsBindAlike
<1>1. ASSUME NEW i \in DOMAIN contracts
      PROVE  verdicts[s].orphans[i] = verdicts[t].orphans[i]
  <2>1. Namesakes(t, i) = Namesakes(s, i)
    BY DEF Namesakes, Seen
  <2>2. \A j \in Namesakes(s, i) : j \in Nat /\ classes[j].name = contracts[i].name
    BY DEF Namesakes, Seen
  <2>3. OneSpace(Namesakes(s, i))
    BY NamesakesAreNamed DEF ToSet
  <2>4. CASE Namesakes(s, i) = {}
    BY <2>1, <2>4, VerdictOn DEF OrphansAre
  <2>5. CASE Namesakes(s, i) # {}
    <3>1. PICK f \in Namesakes(s, i) : /\ \A j \in Namesakes(s, i) : f <= j
                                       /\ verdicts[s].orphans[i] = Missing(s, i, f)
      BY <2>5, VerdictOn DEF OrphansAre
    <3>2. PICK g \in Namesakes(t, i) : /\ \A j \in Namesakes(t, i) : g <= j
                                       /\ verdicts[t].orphans[i] = Missing(t, i, g)
      BY <2>1, <2>5, VerdictOn DEF OrphansAre
    <3>3. f = g
      BY <3>1, <3>2, <2>1, <2>2
    <3>4. \A r \in {s, t} : \A j \in Namesakes(s, i) : KeyIn(r, j) = KeyIn(r, f)
      BY <2>2, <2>3 DEF OneSpace, KeyIn
    <3>5. Kin(s, i, f) = Namesakes(s, i) /\ Kin(t, i, f) = Namesakes(s, i)
      BY <3>4, <2>1 DEF Kin
    <3> QED BY <3>1, <3>2, <3>3, <3>5 DEF Missing
  <2> QED BY <2>4, <2>5
<1>2. /\ verdicts[s].orphans = [i \in DOMAIN contracts |-> verdicts[s].orphans[i]]
      /\ verdicts[t].orphans = [i \in DOMAIN contracts |-> verdicts[t].orphans[i]]
  BY DEF IInv, VerdictsOK, AllOrphans
<1> QED BY <1>1, <1>2

-----------------------------------------------------------------------------
(***************************************************************************)
(* From the first parser to the second.                                    *)
(***************************************************************************)

\* A set of contracts that passes the validation has no declaration that the
\* second parser puts aside for a later one.
LEMMA NoneIsPutAside ==
    ASSUME IInv, ContractFailures = {}, NEW i \in DOMAIN contracts
    PROVE  Effective(i)
<1> SUFFICES ASSUME NEW j \in (i + 1)..Len(contracts),
                    contracts[j].file = contracts[i].file,
                    contracts[j].name = contracts[i].name
             PROVE  FALSE
  BY DEF Effective
<1> DEFINE q == [k \in DOMAIN contracts |-> <<contracts[k].package, contracts[k].name>>]
<1>1. /\ Len(contracts) \in Nat /\ DOMAIN contracts = 1..Len(contracts)
      /\ \A k \in DOMAIN contracts : contracts[k] \in ToSet(contracts)
  BY ProjectType DEF IInv, TypeInv
<1>2. j \in DOMAIN contracts /\ i \in 1..(j - 1)
  BY <1>1
<1>3. contracts[j].package = contracts[i].package
  BY <1>1, <1>2, ProjectAssumption DEF IInv, TypeInv, contracts
<1>4. q[j] = q[i] /\ DOMAIN q = DOMAIN contracts
  BY <1>2, <1>3
<1>5. q[j] \in Repeated(q)
  BY <1>2, <1>4 DEF Repeated
<1>6. Repeated(q) = {}
  BY DEF ContractFailures, DuplicateStructures
<1> QED BY <1>5, <1>6

LEMMA MergedConditions ==
    ASSUME NEW c, NEW x \in c.methods
    PROVE  Merged(c).methods[x] = UNION {DslConditions(d, x) : d \in Matching(c)}
BY DEF Merged

LEMMA AcceptedIsApplied ==
    ASSUME IInv
    PROVE  AcceptedContractsAreApplied
<1> SUFFICES ASSUME NEW s \in DOMAIN verdicts, Accepted(s), NEW i \in DOMAIN contracts,
                    NEW m \in ToSet(contracts[i].methods), m.form = "plain",
                    NEW p \in Conditions(m.preds)
             PROVE  Holds(s, contracts[i], m, p)
  BY DEF AcceptedContractsAreApplied, ToSet
<1> DEFINE d == contracts[i]
           a == verdicts[s].applied
<1>1. ContractFailures = {} /\ verdicts[s].orphans[i] = {}
  BY DEF Accepted, Satisfied, IInv, VerdictsOK
<1>2. Effective(i)
  BY <1>1, NoneIsPutAside
<1>3. /\ DOMAIN a = Seen(s, Len(classes))
      /\ \A j \in Seen(s, Len(classes)) : a[j] = Merged(classes[j])
  BY DEF IInv, VerdictsOK, AppliedOK
<1>4. \E j \in DOMAIN a : classes[j].name = d.name /\ m.name \in classes[j].methods
  <2>1. PICK f \in Namesakes(s, i) : Missing(s, i, f) = {}
    BY <1>1, VerdictOn DEF OrphansAre
  <2>2. m.name \in ToSet(NamesOf(d.methods))
    BY DEF ToSet, NamesOf
  <2>3. m.name \in UNION {classes[j].methods : j \in Kin(s, i, f)}
    BY <2>1, <2>2 DEF Missing
  <2> QED BY <2>3, <1>3 DEF Kin, Namesakes
<1>5. ASSUME NEW j \in DOMAIN a, classes[j].name = d.name, m.name \in classes[j].methods
      PROVE  p \in a[j].methods[m.name]
  <2>1. d \in Matching(classes[j])
    <3>1. /\ j \in DOMAIN classes /\ classes[j] \in ToSet(classes)
          /\ d \in ToSet(contracts)
      BY <1>3, ProjectType DEF IInv, TypeInv, Seen
    <3>2. classes[j].name \in d.matches
      BY <3>1, <1>5, ProjectAssumption DEF IInv, TypeInv, contracts, classes
    <3> QED BY <3>2, <1>2 DEF Matching
  <2>2. p \in DslConditions(d, m.name)
    BY DEF DslConditions, DslMethods
  <2>3. a[j].methods[m.name] =
            UNION {DslConditions(e, m.name) : e \in Matching(classes[j])}
    <3>1. a[j] = Merged(classes[j])
      BY <1>3
    <3> QED BY <3>1, <1>5, MergedConditions
  <2> QED BY <2>1, <2>2, <2>3
<1> QED BY <1>4, <1>5 DEF Holds

-----------------------------------------------------------------------------
\* Once a scan of some files finds nothing missing for a contract, no scan of more
\* files with the same frontend does, if the first class of the name is among
\* them, or namespaces do not tell its classes apart.
THEOREM SatisfactionIsMonotone == Spec => []SatisfiedStaysSatisfied
BY Always, PartIsEnough, PTL

\* The scanner and Clang bind every contract to the same members, for any classes
\* in any order, unless classes of one name live in different namespaces.
THEOREM FrontendsAgree == Spec => []FrontendsBindAlike
BY Always, KeysDoNotMatter, PTL

\* When the validator and the binding of a scan accept all contracts, the verifier
\* of that scan, which reads them with the other parser, has every condition on
\* every method, except those with a parameter list and those whose condition
\* follows their name without a block and takes several lines.
THEOREM ContractsReachVerifier == Spec => []AcceptedContractsAreApplied
BY Always, AcceptedIsApplied, PTL
================================================================================
