---------------------------- MODULE CppScanProofs ----------------------------
(***************************************************************************)
(* Proofs about CppScan, for any files, any failures of Clang and any      *)
(* --max-files.  First what the merge of Clang's records makes of the      *)
(* classes of the scan: the invariant says for every number of merged      *)
(* records what the classes are a union of.  Then which contracts a method *)
(* has: the invariant says what every method was given, and which          *)
(* conditions wait for the next one.                                       *)
(***************************************************************************)
EXTENDS CppScan, WellFoundedInduction, TLAPS

-----------------------------------------------------------------------------
(***************************************************************************)
(* Sequences, and the greatest element of a set.                           *)
(***************************************************************************)

\* A function over 1..n is a sequence.
LEMMA ListedIsSequence ==
    ASSUME NEW k \in Nat, NEW s, s = [i \in 1..k |-> s[i]]
    PROVE  Sequence(s) /\ Len(s) = k /\ DOMAIN s = 1..k
<1>1. DOMAIN s = 1..k
  OBVIOUS
<1>2. \A i \in 1..k : s[i] \in ToSet(s)
  BY <1>1 DEF ToSet
<1>3. s \in Seq(ToSet(s))
  BY <1>2
<1> QED BY <1>1, <1>3 DEF Sequence

LEMMA SequenceIsListed ==
    ASSUME NEW s, Sequence(s)
    PROVE  /\ Len(s) \in Nat /\ DOMAIN s = 1..Len(s)
           /\ s = [i \in 1..Len(s) |-> s[i]]
BY DEF Sequence

LEMMA ToSetOfSequence ==
    ASSUME NEW s, Sequence(s)
    PROVE  ToSet(s) = {s[i] : i \in 1..Len(s)}
BY SequenceIsListed DEF ToSet

LEMMA Joined ==
    ASSUME NEW s, NEW t, Sequence(s), Sequence(t)
    PROVE  /\ Sequence(s \o t) /\ Len(s \o t) = Len(s) + Len(t)
           /\ ToSet(s \o t) = ToSet(s) \cup ToSet(t)
<1> DEFINE S == ToSet(s) \cup ToSet(t)
           u == s \o t
<1>1. s \in Seq(S) /\ t \in Seq(S)
  BY DEF Sequence
<1> HIDE DEF S
<1>2. u \in Seq(S) /\ Len(u) = Len(s) + Len(t)
  BY <1>1
<1>3. /\ Len(s) \in Nat /\ Len(t) \in Nat
      /\ \A i \in 1..Len(s) : u[i] = s[i]
      /\ \A i \in 1..Len(t) : u[Len(s) + i] = t[i]
  BY <1>1
<1> HIDE DEF u
<1>4. Len(u) \in Nat /\ u = [i \in 1..Len(u) |-> u[i]]
  BY <1>2
<1>5. Sequence(u)
  BY <1>4, ListedIsSequence
<1>6. /\ \A i \in 1..Len(s) : i \in 1..Len(u)
      /\ \A i \in 1..Len(t) : Len(s) + i \in 1..Len(u)
      /\ \A i \in 1..Len(u) : \/ i \in 1..Len(s)
                               \/ /\ i - Len(s) \in 1..Len(t)
                                  /\ Len(s) + (i - Len(s)) = i
  BY <1>2, <1>3
<1>7. \A x : (\E i \in 1..Len(u) : x = u[i])
             <=> (\E i \in 1..Len(s) : x = s[i]) \/ (\E i \in 1..Len(t) : x = t[i])
  BY <1>3, <1>6
<1>8. ToSet(u) = ToSet(s) \cup ToSet(t)
  <2>1. /\ ToSet(u) = {u[i] : i \in 1..Len(u)} /\ ToSet(s) = {s[i] : i \in 1..Len(s)}
        /\ ToSet(t) = {t[i] : i \in 1..Len(t)}
    BY <1>5, ToSetOfSequence
  <2> QED BY <1>7, <2>1
<1> QED BY <1>2, <1>5, <1>8 DEF u

LEMMA Appended ==
    ASSUME NEW s, NEW e, Sequence(s)
    PROVE  /\ Sequence(Append(s, e)) /\ Len(Append(s, e)) = Len(s) + 1
           /\ \A i \in 1..Len(s) : Append(s, e)[i] = s[i]
           /\ Append(s, e)[Len(s) + 1] = e
           /\ ToSet(Append(s, e)) = ToSet(s) \cup {e}
<1> DEFINE S == ToSet(s) \cup {e}
           u == Append(s, e)
<1>1. s \in Seq(S) /\ e \in S
  BY DEF Sequence
<1> HIDE DEF S
<1>2. /\ u \in Seq(S) /\ Len(u) = Len(s) + 1 /\ Len(s) \in Nat
      /\ \A i \in 1..Len(s) : u[i] = s[i]
      /\ u[Len(s) + 1] = e
  BY <1>1
<1> HIDE DEF u
<1>3. Len(u) \in Nat /\ u = [i \in 1..Len(u) |-> u[i]]
  BY <1>2
<1>4. Sequence(u)
  BY <1>3, ListedIsSequence
<1>5. \A i : i \in 1..Len(u) <=> i \in 1..Len(s) \/ i = Len(s) + 1
  BY <1>2
<1>6. ToSet(u) = ToSet(s) \cup {e}
  BY <1>2, <1>4, <1>5, ToSetOfSequence
<1> QED BY <1>2, <1>4, <1>6 DEF u

\* What Min and Max are.
LEMMA Least ==
    ASSUME NEW T \in SUBSET Nat, T # {}
    PROVE  \E m \in T : \A k \in T : m <= k
<1> DEFINE R == {r \in Nat \X Nat : r[1] < r[2]}
<1>1. R = OpToRel(<, Nat)
  BY DEF OpToRel
<1>2. IsWellFoundedOn(R, Nat)
  BY <1>1, NatLessThanWellFounded
<1>3. PICK m \in T : \A k \in T : <<k, m>> \notin R
  <2> HIDE DEF R
  <2> QED BY <1>2, WFMin
<1>4. ASSUME NEW k \in T, k < m PROVE FALSE
  <2>1. <<k, m>> \in R
    BY <1>4
  <2> HIDE DEF R
  <2> QED BY <1>3, <2>1
<1> HIDE DEF R
<1> QED BY <1>4

LEMMA Greatest ==
    ASSUME NEW b \in Nat, NEW S \in SUBSET (0..b), S # {}
    PROVE  Max(S) \in S /\ \A k \in S : Max(S) >= k
<1> DEFINE T == {k \in Nat : \A x \in S : k >= x}
<1>1. b \in T
  OBVIOUS
<1>2. PICK m \in T : \A k \in T : m <= k
  BY <1>1, Least
<1>3. m \in S
  <2> SUFFICES ASSUME m \notin S PROVE FALSE
    OBVIOUS
  <2>1. \A x \in S : x \in Nat /\ m >= x /\ m # x
    BY <1>2
  <2>2. \A x \in S : m - 1 >= x
    BY <1>2, <2>1
  <2>3. m - 1 \in Nat /\ ~(m <= m - 1)
    <3>1. PICK x \in S : TRUE
      OBVIOUS
    <3>2. x \in Nat /\ m \in Nat /\ m - 1 >= x
      BY <1>2, <2>1, <2>2, <3>1
    <3> QED BY <3>2
  <2>4. m - 1 \in T
    BY <2>2, <2>3
  <2> QED BY <1>2, <2>3, <2>4
<1>4. \E x \in S : \A y \in S : x >= y
  BY <1>2, <1>3
<1> QED BY <1>4 DEF Max

\* Concatenating sequences gives a sequence.
Flattens(g, seqs, k) ==
    g = [i \in 1..k |-> IF i = 1 THEN seqs[i] ELSE g[i - 1] \o seqs[i]]

LEMMA FlattenExists ==
    ASSUME NEW seqs, NEW b \in Nat \ {0}
    PROVE  \E g : Flattens(g, seqs, b)
<1> DEFINE T == {k \in Nat \ {0} : ~\E g : Flattens(g, seqs, k)}
<1> SUFFICES ASSUME T # {} PROVE FALSE
  OBVIOUS
<1>1. PICK k \in T : \A j \in T : k <= j
  BY Least
<1>2. k # 1
  <2>1. 1..1 = {1}
    OBVIOUS
  <2> DEFINE g == [i \in 1..1 |-> seqs[i]]
  <2>2. Flattens(g, seqs, 1)
    BY <2>1 DEF Flattens
  <2> QED BY <2>2
<1>3. k \in Nat /\ k - 1 \in Nat \ {0}
  BY <1>1, <1>2
<1>4. PICK g : Flattens(g, seqs, k - 1)
  BY <1>1, <1>3
<1>5. \A i \in 1..(k - 1) : g[i] = IF i = 1 THEN seqs[i] ELSE g[i - 1] \o seqs[i]
  BY <1>4 DEF Flattens
<1> DEFINE e == g[k - 1] \o seqs[k]
           h == [i \in 1..k |-> IF i = k THEN e ELSE g[i]]
<1>6. \A i \in 1..k : h[i] = IF i = 1 THEN seqs[i] ELSE h[i - 1] \o seqs[i]
  <2> TAKE i \in 1..k
  <2>1. CASE i = k
    <3> HIDE DEF e
    <3>1. h[i] = e /\ h[i - 1] = g[k - 1]
      BY <1>2, <1>3, <2>1
    <3> HIDE DEF h
    <3> QED BY <1>2, <2>1, <3>1 DEF e
  <2>2. CASE i # k
    <3> HIDE DEF e
    <3>1. i \in 1..(k - 1) /\ h[i] = g[i] /\ (i # 1 => h[i - 1] = g[i - 1])
      BY <1>3, <2>2
    <3> HIDE DEF h
    <3> QED BY <1>5, <3>1
  <2> QED BY <2>1, <2>2
<1>7. h = [i \in 1..k |-> h[i]]
  OBVIOUS
<1> HIDE DEF h
<1>8. Flattens(h, seqs, k)
  BY <1>6, <1>7 DEF Flattens
<1> QED BY <1>1, <1>8

LEMMA Flattened ==
    ASSUME NEW seqs, NEW U, Sequence(seqs),
           \A i \in 1..Len(seqs) : Sequence(seqs[i]) /\ ToSet(seqs[i]) \subseteq U
    PROVE  Sequence(FlattenSeq(seqs)) /\ ToSet(FlattenSeq(seqs)) \subseteq U
<1> DEFINE b == Len(seqs)
           g == CHOOSE x : Flattens(x, seqs, b)
           Fits(x) == Sequence(x) /\ ToSet(x) \subseteq U
<1>1. b \in Nat
  BY SequenceIsListed
<1>2. CASE b = 0
  <2>1. FlattenSeq(seqs) = <<>>
    BY <1>2 DEF FlattenSeq
  <2>2. Fits(<<>>)
    BY DEF Sequence, ToSet
  <2> QED BY <2>1, <2>2
<1>3. CASE b # 0
  <2>1. FlattenSeq(seqs) = g[b]
    BY <1>3 DEF FlattenSeq, Flattens
  <2>2. \E x : Flattens(x, seqs, b)
    BY <1>1, <1>3, FlattenExists
  <2>3. Flattens(g, seqs, b)
    BY <2>2
  <2> HIDE DEF g, b
  <2>4. \A i \in 1..b : g[i] = IF i = 1 THEN seqs[i] ELSE g[i - 1] \o seqs[i]
    BY <2>3 DEF Flattens, b
  <2>5. \A i \in 1..b : Fits(seqs[i])
    BY DEF b
  <2>6. \A x, y : Fits(x) /\ Fits(y) => Fits(x \o y)
    BY Joined
  <2> HIDE DEF Fits
  <2> DEFINE T == {k \in Nat : k \in 1..b /\ ~Fits(g[k])}
  <2>7. T = {}
    <3> SUFFICES ASSUME T # {} PROVE FALSE
      OBVIOUS
    <3>1. PICK k \in T : \A j \in T : k <= j
      BY Least
    <3>2. k # 1
      BY <1>1, <1>3, <2>4, <2>5, <3>1
    <3>3. k \in 1..b /\ k - 1 \in 1..b /\ k - 1 \in Nat /\ ~(k <= k - 1) /\ ~Fits(g[k])
      BY <1>1, <3>1, <3>2
    <3>4. Fits(g[k - 1])
      BY <3>1, <3>3
    <3>5. g[k] = g[k - 1] \o seqs[k]
      BY <2>4, <3>2, <3>3
    <3> QED BY <2>5, <2>6, <3>3, <3>4, <3>5
  <2>8. Fits(g[b])
    BY <1>1, <1>3, <2>7
  <2> QED BY <2>1, <2>8 DEF Fits
<1> QED BY <1>2, <1>3

LEMMA FlattenedIsSequence ==
    ASSUME NEW seqs, Sequence(seqs), \A i \in 1..Len(seqs) : Sequence(seqs[i])
    PROVE  Sequence(FlattenSeq(seqs))
<1> DEFINE U == UNION {ToSet(seqs[i]) : i \in 1..Len(seqs)}
<1>1. \A i \in 1..Len(seqs) : ToSet(seqs[i]) \subseteq U
  OBVIOUS
<1> HIDE DEF U
<1> QED BY <1>1, Flattened

LEMMA Empty == Sequence(<<>>) /\ Len(<<>>) = 0
BY DEF Sequence

LEMMA Short == ASSUME NEW a, NEW b PROVE Sequence(<<>>) /\ Sequence(<<a>>) /\ Sequence(<<a, b>>)
<1>1. Sequence(<<>>)
  BY Empty
<1>2. <<a>> = Append(<<>>, a)
  OBVIOUS
<1>3. <<a, b>> = Append(<<a>>, b)
  OBVIOUS
<1>4. Sequence(Append(<<>>, a))
  BY <1>1, Appended
<1>5. Sequence(<<a>>)
  BY <1>2, <1>4, Zenon
<1>6. Sequence(Append(<<a>>, b))
  BY <1>5, Appended
<1>7. Sequence(<<a, b>>)
  BY <1>3, <1>6, Zenon
<1> QED BY <1>1, <1>5, <1>7

LEMMA OnlyMembers ==
    ASSUME NEW s, NEW S, Sequence(s)
    PROVE  Sequence(Only(s, S)) /\ ToSet(Only(s, S)) \subseteq ToSet(s) \cap S
<1> DEFINE U == ToSet(s) \cap S
           Part(i) == IF s[i] \in S THEN <<s[i]>> ELSE <<>>
           seqs == [i \in DOMAIN s |-> Part(i)]
<1>1. Len(s) \in Nat /\ DOMAIN s = 1..Len(s) /\ ToSet(s) = {s[i] : i \in 1..Len(s)}
  BY SequenceIsListed, ToSetOfSequence
<1>2. \A i \in 1..Len(s) : Sequence(Part(i)) /\ ToSet(Part(i)) \subseteq U
  <2> TAKE i \in 1..Len(s)
  <2>1. Sequence(<<>>) /\ Sequence(<<s[i]>>)
    BY Short
  <2>2. ToSet(<<>>) = {} /\ ToSet(<<s[i]>>) = {s[i]}
    BY DEF ToSet
  <2> QED BY <1>1, <2>1, <2>2
<1>3. Only(s, S) = FlattenSeq(seqs)
  BY Zenon DEF Only
<1> HIDE DEF U, Part
<1>4. seqs = [i \in 1..Len(s) |-> seqs[i]] /\ \A i \in 1..Len(s) : seqs[i] = Part(i)
  BY <1>1
<1> HIDE DEF seqs
<1>5. Sequence(seqs) /\ Len(seqs) = Len(s)
  BY <1>1, <1>4, ListedIsSequence
<1>6. Sequence(FlattenSeq(seqs)) /\ ToSet(FlattenSeq(seqs)) \subseteq U
  <2>1. \A i \in 1..Len(seqs) : Sequence(seqs[i]) /\ ToSet(seqs[i]) \subseteq U
    BY <1>2, <1>4, <1>5
  <2> QED BY <1>5, <2>1, Flattened
<1> QED BY <1>3, <1>6 DEF U

\* What Clang reports of a file is a sequence.
LEMMA DeclaredIsASequence ==
    ASSUME project \in Projects, NEW g \in DOMAIN project.files
    PROVE  Sequence(Declared(g))
<1> DEFINE lines == Files[g]
           R(i) == [name |-> lines[i].name, line |-> i,
                    file |-> IF i = FirstDeclaration(lines) THEN {g} ELSE {},
                    fields |-> Named(lines, i, "field"),
                    methods |-> Named(lines, i, "fn")]
           I(i) == [name |-> lines[i].name, line |-> 0, file |-> {}, fields |-> {}, methods |-> {}]
           Part(i) == IF Closed(lines, i) THEN <<R(i), I(i)>> ELSE <<>>
           parts == [i \in DOMAIN lines |-> Part(i)]
<1>1. Sequence(lines)
  BY ProjectsAssumption DEF Files
<1>2. Declared(g) = FlattenSeq(parts)
  BY DEF Declared
<1> HIDE DEF lines, R, I
<1>3. \A i : Sequence(Part(i))
  BY Short
<1>4. Len(lines) \in Nat /\ DOMAIN lines = 1..Len(lines)
  BY <1>1, SequenceIsListed
<1>5. parts = [i \in 1..Len(lines) |-> parts[i]] /\ \A i \in 1..Len(lines) : parts[i] = Part(i)
  BY <1>4
<1> HIDE DEF parts, Part
<1>6. Sequence(parts) /\ Len(parts) = Len(lines)
  BY <1>4, <1>5, ListedIsSequence
<1> QED BY <1>2, <1>3, <1>5, <1>6, FlattenedIsSequence

LEMMA WalkedIsASequence ==
    ASSUME project \in Projects, NEW g \in 1..project.scanned
    PROVE  Sequence(Walked(g))
<1> DEFINE included == project.includes[g]
           Part(k) == Declared(included[k])
           parts == [k \in DOMAIN included |-> Part(k)]
<1>1. Sequence(included) /\ ToSet(included) \subseteq DOMAIN project.files
  BY ProjectsAssumption
<1>2. g \in DOMAIN project.files
  <2>1. Sequence(project.files) /\ project.scanned \in Nat /\ project.scanned <= Len(project.files)
    BY ProjectsAssumption
  <2> QED BY <2>1, SequenceIsListed
<1>3. Walked(g) = FlattenSeq(parts) \o Declared(g)
  BY DEF Walked
<1> HIDE DEF included
<1>4. Len(included) \in Nat /\ DOMAIN included = 1..Len(included)
  BY <1>1, SequenceIsListed
<1>5. ASSUME NEW k \in 1..Len(included) PROVE Sequence(Part(k))
  <2>1. included[k] \in DOMAIN project.files
    BY <1>1, <1>4 DEF ToSet
  <2> QED BY <2>1, DeclaredIsASequence
<1> HIDE DEF Part
<1>6. parts = [k \in 1..Len(included) |-> parts[k]] /\ \A k \in 1..Len(included) : parts[k] = Part(k)
  BY <1>4
<1> HIDE DEF parts
<1>7. Sequence(parts) /\ Len(parts) = Len(included)
  BY <1>4, <1>6, ListedIsSequence
<1>8. Sequence(FlattenSeq(parts))
  BY <1>5, <1>6, <1>7, FlattenedIsSequence
<1> QED BY <1>2, <1>3, <1>8, Joined, DeclaredIsASequence

LEMMA RecordsAreASequence ==
    ASSUME project \in Projects, NEW g \in 1..project.scanned
    PROVE  Sequence(Records(g))
<1> DEFINE w == Walked(g)
           Same(i, j) == <<w[i].name, w[i].file, w[i].line>> = <<w[j].name, w[j].file, w[j].line>>
           Kept(i) == /\ InTarget(w[i], g)
                      /\ \A j \in DOMAIN w : InTarget(w[j], g) /\ Same(i, j) =>
                            \/ Size(w[i]) > Size(w[j])
                            \/ Size(w[i]) = Size(w[j]) /\ i <= j
           Part(i) == IF Kept(i) THEN <<w[i]>> ELSE <<>>
           parts == [i \in DOMAIN w |-> Part(i)]
<1>1. Sequence(w)
  BY WalkedIsASequence
<1>2. Records(g) = FlattenSeq(parts)
  BY DEF Records
<1> HIDE DEF w, Kept
<1>3. \A i : Sequence(Part(i))
  BY Short
<1>4. Len(w) \in Nat /\ DOMAIN w = 1..Len(w)
  BY <1>1, SequenceIsListed
<1>5. parts = [i \in 1..Len(w) |-> parts[i]] /\ \A i \in 1..Len(w) : parts[i] = Part(i)
  BY <1>4
<1> HIDE DEF parts, Part
<1>6. Sequence(parts) /\ Len(parts) = Len(w)
  BY <1>4, <1>5, ListedIsSequence
<1> QED BY <1>2, <1>3, <1>5, <1>6, FlattenedIsSequence
-----------------------------------------------------------------------------
(***************************************************************************)
(* The classes of a merge.                                                 *)
(***************************************************************************)

\* Of classes cs, the first m of them found in files, and the first k of records rs:
\* the others have the names of records that those lack, once each, and the classes of
\* a name have together the fields of the files and of the records.
Unites(cs, files, m, rs, k) ==
    /\ \A name : (\E i \in (m + 1)..Len(cs) : cs[i].name = name)
                    <=> /\ \E j \in 1..k : rs[j].name = name
                        /\ ~\E i \in 1..m : cs[i].name = name
    /\ \A i, j \in (m + 1)..Len(cs) : cs[i].name = cs[j].name => i = j
    /\ \A name, x : (\E i \in 1..Len(cs) : cs[i].name = name /\ x \in cs[i].fields)
                    <=> \/ \E i \in 1..m : cs[i].name = name
                                           /\ x \in Fields(files[cs[i].file], cs[i].at)
                        \/ \E j \in 1..k : rs[j].name = name /\ x \in rs[j].fields

\* Nothing is merged yet.
LEMMA UnitesNothing ==
    ASSUME NEW cs, NEW files, NEW rs, Len(cs) \in Nat,
           \A i \in 1..Len(cs) : cs[i].fields = Fields(files[cs[i].file], cs[i].at)
    PROVE  Unites(cs, files, Len(cs), rs, 0)
<1>1. 1..0 = {} /\ (Len(cs) + 1)..Len(cs) = {}
  OBVIOUS
<1> QED BY <1>1 DEF Unites

\* Class q takes the fields of r.
Takes(ds, cs, q, r) ==
    /\ Len(ds) = Len(cs)
    /\ \A i \in 1..Len(cs) :
        /\ ds[i].name = cs[i].name /\ ds[i].file = cs[i].file /\ ds[i].at = cs[i].at
        /\ ds[i].fields = IF i = q THEN cs[i].fields \cup r.fields ELSE cs[i].fields

\* A record of a name there is goes to a class of it.
LEMMA UnitesKnown ==
    ASSUME NEW cs, NEW ds, NEW files, NEW rs, NEW m \in Nat, NEW k \in Nat, NEW q,
           Unites(cs, files, m, rs, k),
           Len(cs) \in Nat, m <= Len(cs), Takes(ds, cs, q, rs[k + 1]),
           q \in 1..Len(cs), cs[q].name = rs[k + 1].name
    PROVE  Unites(ds, files, m, rs, k + 1)
<1> USE DEF Takes
<1>1. \A j : j \in 1..(k + 1) <=> j \in 1..k \/ j = k + 1
  OBVIOUS
<1>2. \A i : i \in 1..m => i \in 1..Len(cs)
  OBVIOUS
<1>3. \A i : i \in (m + 1)..Len(cs) => i \in 1..Len(cs)
  OBVIOUS
<1>4. \A i : i \in 1..Len(cs) => i \in 1..m \/ i \in (m + 1)..Len(cs)
  OBVIOUS
<1>5. ASSUME NEW name
      PROVE  (\E i \in (m + 1)..Len(cs) : ds[i].name = name)
                <=> /\ \E j \in 1..(k + 1) : rs[j].name = name
                    /\ ~\E i \in 1..m : ds[i].name = name
  <2>1. (\E i \in (m + 1)..Len(cs) : cs[i].name = name)
                <=> /\ \E j \in 1..k : rs[j].name = name
                    /\ ~\E i \in 1..m : cs[i].name = name
    BY DEF Unites
  <2> QED BY <1>1, <1>2, <1>3, <1>4, <2>1
<1>6. \A i, j \in (m + 1)..Len(cs) : ds[i].name = ds[j].name => i = j
  BY <1>3 DEF Unites
<1>7. ASSUME NEW name, NEW x
      PROVE  (\E i \in 1..Len(cs) : ds[i].name = name /\ x \in ds[i].fields)
                <=> \/ \E i \in 1..m : ds[i].name = name
                                       /\ x \in Fields(files[ds[i].file], ds[i].at)
                    \/ \E j \in 1..(k + 1) : rs[j].name = name /\ x \in rs[j].fields
  <2>1. (\E i \in 1..Len(cs) : cs[i].name = name /\ x \in cs[i].fields)
                <=> \/ \E i \in 1..m : cs[i].name = name
                                       /\ x \in Fields(files[cs[i].file], cs[i].at)
                    \/ \E j \in 1..k : rs[j].name = name /\ x \in rs[j].fields
    BY DEF Unites
  <2>2. (\E i \in 1..Len(cs) : ds[i].name = name /\ x \in ds[i].fields)
            <=> \/ \E i \in 1..Len(cs) : cs[i].name = name /\ x \in cs[i].fields
                \/ rs[k + 1].name = name /\ x \in rs[k + 1].fields
    OBVIOUS
  <2>3. (\E j \in 1..(k + 1) : rs[j].name = name /\ x \in rs[j].fields)
            <=> \/ \E j \in 1..k : rs[j].name = name /\ x \in rs[j].fields
                \/ rs[k + 1].name = name /\ x \in rs[k + 1].fields
    BY <1>1
  <2>4. (\E i \in 1..m : ds[i].name = name /\ x \in Fields(files[ds[i].file], ds[i].at))
            <=> \E i \in 1..m : cs[i].name = name /\ x \in Fields(files[cs[i].file], cs[i].at)
    BY <1>2
  <2> QED BY <2>1, <2>2, <2>3, <2>4
<1> QED BY <1>5, <1>6, <1>7 DEF Unites

\* A record of a name there is not becomes a class.
LEMMA UnitesNew ==
    ASSUME NEW cs, NEW ds, NEW files, NEW rs, NEW m \in Nat, NEW k \in Nat,
           Unites(cs, files, m, rs, k),
           Len(cs) \in Nat, m <= Len(cs), Len(ds) = Len(cs) + 1,
           \A i \in 1..Len(cs) : cs[i].name # rs[k + 1].name,
           \A i \in 1..Len(cs) : ds[i] = cs[i],
           ds[Len(cs) + 1].name = rs[k + 1].name, ds[Len(cs) + 1].fields = rs[k + 1].fields
    PROVE  Unites(ds, files, m, rs, k + 1)
<1>1. \A j : j \in 1..(k + 1) <=> j \in 1..k \/ j = k + 1
  OBVIOUS
<1>2. \A i : i \in 1..m => i \in 1..Len(cs)
  OBVIOUS
<1>3. \A i : i \in (m + 1)..Len(cs) => i \in 1..Len(cs)
  OBVIOUS
<1>4. \A i : i \in 1..Len(ds) <=> i \in 1..Len(cs) \/ i = Len(cs) + 1
  OBVIOUS
<1>5. \A i : i \in (m + 1)..Len(ds) <=> i \in (m + 1)..Len(cs) \/ i = Len(cs) + 1
  OBVIOUS
<1>6. ASSUME NEW name
      PROVE  (\E i \in (m + 1)..Len(ds) : ds[i].name = name)
                <=> /\ \E j \in 1..(k + 1) : rs[j].name = name
                    /\ ~\E i \in 1..m : ds[i].name = name
  <2>1. (\E i \in (m + 1)..Len(cs) : cs[i].name = name)
                <=> /\ \E j \in 1..k : rs[j].name = name
                    /\ ~\E i \in 1..m : cs[i].name = name
    BY DEF Unites
  <2>2. (\E i \in (m + 1)..Len(ds) : ds[i].name = name)
            <=> \/ \E i \in (m + 1)..Len(cs) : cs[i].name = name
                \/ rs[k + 1].name = name
    BY <1>3, <1>5
  <2>3. (\E i \in 1..m : ds[i].name = name) <=> \E i \in 1..m : cs[i].name = name
    BY <1>2
  <2>4. (\E j \in 1..(k + 1) : rs[j].name = name)
            <=> (\E j \in 1..k : rs[j].name = name) \/ rs[k + 1].name = name
    BY <1>1
  <2>5. rs[k + 1].name = name => ~\E i \in 1..m : cs[i].name = name
    BY <1>2
  <2> QED BY <2>1, <2>2, <2>3, <2>4, <2>5
<1>7. \A i, j \in (m + 1)..Len(ds) : ds[i].name = ds[j].name => i = j
  BY <1>3, <1>5 DEF Unites
<1>8. ASSUME NEW name, NEW x
      PROVE  (\E i \in 1..Len(ds) : ds[i].name = name /\ x \in ds[i].fields)
                <=> \/ \E i \in 1..m : ds[i].name = name
                                       /\ x \in Fields(files[ds[i].file], ds[i].at)
                    \/ \E j \in 1..(k + 1) : rs[j].name = name /\ x \in rs[j].fields
  <2>1. (\E i \in 1..Len(cs) : cs[i].name = name /\ x \in cs[i].fields)
                <=> \/ \E i \in 1..m : cs[i].name = name
                                       /\ x \in Fields(files[cs[i].file], cs[i].at)
                    \/ \E j \in 1..k : rs[j].name = name /\ x \in rs[j].fields
    BY DEF Unites
  <2>2. (\E i \in 1..Len(ds) : ds[i].name = name /\ x \in ds[i].fields)
            <=> \/ \E i \in 1..Len(cs) : cs[i].name = name /\ x \in cs[i].fields
                \/ rs[k + 1].name = name /\ x \in rs[k + 1].fields
    BY <1>4
  <2>3. (\E j \in 1..(k + 1) : rs[j].name = name /\ x \in rs[j].fields)
            <=> \/ \E j \in 1..k : rs[j].name = name /\ x \in rs[j].fields
                \/ rs[k + 1].name = name /\ x \in rs[k + 1].fields
    BY <1>1
  <2>4. (\E i \in 1..m : ds[i].name = name /\ x \in Fields(files[ds[i].file], ds[i].at))
            <=> \E i \in 1..m : cs[i].name = name /\ x \in Fields(files[cs[i].file], cs[i].at)
    BY <1>2
  <2> QED BY <2>1, <2>2, <2>3, <2>4
<1> QED BY <1>6, <1>7, <1>8 DEF Unites
-----------------------------------------------------------------------------
(***************************************************************************)
(* The invariant.                                                          *)
(***************************************************************************)
ClassKeys == {"name", "file", "at", "fields", "methods", "invariants"}
IsClass(c) == c = [x \in ClassKeys |-> c[x]]
AreClasses(cs) == Sequence(cs) /\ \A i \in 1..Len(cs) : IsClass(cs[i])

\* The fields of classes found in files.
AreScanned(cs, files) ==
    \A i \in 1..Len(cs) : cs[i].fields = Fields(files[cs[i].file], cs[i].at)

Scanning == {"classes", "body", "definitions"}
Merging == {"clang", "merge", "verify", "done"}

MergeInv ==
    /\ project \in Projects
    /\ AreClasses(classes)
    /\ pc \in Scanning \cup Merging
    /\ pc \in Scanning => /\ n = 0 /\ records = <<>> /\ parsed = <<>> /\ found = 0
                          /\ AreScanned(classes, Files)
    /\ pc = "body" => Len(classes) # 0
    /\ pc \in Merging => /\ found \in Nat /\ found <= Len(classes)
                         /\ n \in Nat /\ n <= Len(records) /\ Sequence(records)
                         /\ Unites(classes, Files, found, records, n)
    /\ pc = "clang" => /\ n = 0 /\ found = Len(classes)
                       /\ AreScanned(classes, Files)
                       /\ Sequence(parsed)
                       /\ "ok" \notin ToSet(parsed) => records = <<>>
    /\ pc \in {"verify", "done"} => n = Len(records)

\* A class whose fields, name and place are those of another.
Keeps(d, c) == /\ IsClass(d)
               /\ d.name = c.name /\ d.file = c.file /\ d.at = c.at /\ d.fields = c.fields

LEMMA ClassChanges ==
    ASSUME NEW c, IsClass(c), NEW e, NEW d
    PROVE  /\ Keeps([c EXCEPT !.invariants = e], c)
           /\ Keeps([c EXCEPT !.methods = e], c)
           /\ Keeps([c EXCEPT !.invariants = e, !.methods = d], c)
           /\ [c EXCEPT !.invariants = e].methods = c.methods
           /\ [c EXCEPT !.methods = e].methods = e
           /\ [c EXCEPT !.invariants = e, !.methods = d].methods = d
BY DEF IsClass, Keeps, ClassKeys

LEMMA FieldsChange ==
    ASSUME NEW c, IsClass(c), NEW e
    PROVE  /\ IsClass([c EXCEPT !.fields = e])
           /\ [c EXCEPT !.fields = e].name = c.name /\ [c EXCEPT !.fields = e].file = c.file
           /\ [c EXCEPT !.fields = e].at = c.at /\ [c EXCEPT !.fields = e].fields = e
           /\ [c EXCEPT !.fields = e].methods = c.methods
BY DEF IsClass, ClassKeys

\* Classes that keep their fields, names and places.
LEMMA ClassesKept ==
    ASSUME NEW cs, NEW ds, NEW files, AreClasses(cs), ds = [i \in 1..Len(cs) |-> ds[i]],
           \A i \in 1..Len(cs) : Keeps(ds[i], cs[i])
    PROVE  /\ AreClasses(ds) /\ Len(ds) = Len(cs)
           /\ AreScanned(cs, files) => AreScanned(ds, files)
<1>1. Len(cs) \in Nat
  BY SequenceIsListed DEF AreClasses
<1>2. Sequence(ds) /\ Len(ds) = Len(cs)
  BY <1>1, ListedIsSequence
<1> QED BY <1>2 DEF AreClasses, AreScanned, Keeps

\* One class of them is changed.
Put(ds, cs, q, c) == ds = [cs EXCEPT ![q] = c]
LEMMA ClassPut ==
    ASSUME NEW cs, NEW q, NEW c, NEW ds, AreClasses(cs), q \in 1..Len(cs), IsClass(c),
           Put(ds, cs, q, c)
    PROVE  /\ AreClasses(ds) /\ Len(ds) = Len(cs)
           /\ ds[q] = c /\ \A i \in 1..Len(cs) : i # q => ds[i] = cs[i]
<1>1. Len(cs) \in Nat /\ DOMAIN cs = 1..Len(cs)
  BY SequenceIsListed DEF AreClasses
<1>2. /\ ds = [i \in 1..Len(cs) |-> ds[i]]
      /\ ds[q] = c /\ \A i \in 1..Len(cs) : i # q => ds[i] = cs[i]
  BY <1>1 DEF Put
<1>3. Sequence(ds) /\ Len(ds) = Len(cs)
  BY <1>1, <1>2, ListedIsSequence
<1>4. AreClasses(ds)
  BY <1>2, <1>3 DEF AreClasses
<1> QED BY <1>2, <1>3, <1>4

LEMMA ClassReplaced ==
    ASSUME NEW cs, NEW q, NEW c, NEW files, AreClasses(cs), q \in 1..Len(cs), IsClass(c),
           NEW ds, ds = [cs EXCEPT ![q] = c]
    PROVE  /\ AreClasses(ds) /\ Len(ds) = Len(cs)
           /\ ds[q] = c /\ \A i \in 1..Len(cs) : i # q => ds[i] = cs[i]
           /\ Keeps(c, cs[q]) /\ AreScanned(cs, files) => AreScanned(ds, files)
<1>1. /\ AreClasses(ds) /\ Len(ds) = Len(cs)
      /\ ds[q] = c /\ \A i \in 1..Len(cs) : i # q => ds[i] = cs[i]
  <2>1. Put(ds, cs, q, c)
    BY DEF Put
  <2> QED BY <2>1, ClassPut
<1>2. Keeps(c, cs[q]) /\ AreScanned(cs, files) => AreScanned(ds, files)
  BY <1>1 DEF AreScanned, Keeps
<1> QED BY <1>1, <1>2

LEMMA ClassAdded ==
    ASSUME NEW cs, NEW c, NEW files, AreClasses(cs), IsClass(c)
    PROVE  /\ AreClasses(Append(cs, c)) /\ Len(Append(cs, c)) = Len(cs) + 1
           /\ \A i \in 1..Len(cs) : Append(cs, c)[i] = cs[i]
           /\ Append(cs, c)[Len(cs) + 1] = c
           /\ c.fields = Fields(files[c.file], c.at) /\ AreScanned(cs, files)
                => AreScanned(Append(cs, c), files)
<1> DEFINE ds == Append(cs, c)
<1>1. /\ Sequence(ds) /\ Len(ds) = Len(cs) + 1 /\ Len(cs) \in Nat
      /\ \A i \in 1..Len(cs) : ds[i] = cs[i]
      /\ ds[Len(cs) + 1] = c
  BY Appended, SequenceIsListed DEF AreClasses
<1> HIDE DEF ds
<1>2. \A i : i \in 1..Len(ds) <=> i \in 1..Len(cs) \/ i = Len(cs) + 1
  BY <1>1
<1>3. AreClasses(ds)
  BY <1>1, <1>2 DEF AreClasses
<1>4. c.fields = Fields(files[c.file], c.at) /\ AreScanned(cs, files) => AreScanned(ds, files)
  BY <1>1, <1>2 DEF AreScanned
<1> QED BY <1>1, <1>3, <1>4 DEF ds

\* What a step of the scan has to do.
LEMMA ScanStep ==
    ASSUME MergeInv, pc \in Scanning, pc' \in Scanning, AreClasses(classes'),
           AreScanned(classes', Files), pc' = "body" => Len(classes') # 0,
           UNCHANGED <<project, parsed, records, n, found>>
    PROVE  MergeInv'
BY DEF MergeInv, Scanning, Merging, Files

\* Whatever else changes.
LEMMA ElseStep ==
    ASSUME MergeInv, UNCHANGED <<project, pc, classes, parsed, records, n, found>>
    PROVE  MergeInv'
BY DEF MergeInv, Files

LEMMA OpenClassStep == MergeInv /\ OpenClass => MergeInv'
<1> SUFFICES ASSUME MergeInv, OpenClass PROVE MergeInv'
  OBVIOUS
<1> DEFINE c == [name |-> L[at].seen, file |-> f, at |-> at, fields |-> Fields(L, at),
                 methods |-> <<>>, invariants |-> <<>>]
<1>1. /\ pc = "classes" /\ pc' = "body" /\ classes' = Append(classes, c)
      /\ UNCHANGED <<project, parsed, records, n, found>>
  BY DEF OpenClass
<1>2. /\ IsClass(c)
      /\ c.file = f /\ c.at = at /\ c.fields = Fields(Files[f], at)
  BY DEF IsClass, ClassKeys, L
<1> HIDE DEF c
<1>3. AreClasses(classes) /\ AreScanned(classes, Files)
  BY <1>1 DEF MergeInv, Scanning
<1>4. /\ AreClasses(Append(classes, c)) /\ Len(Append(classes, c)) = Len(classes) + 1
      /\ AreScanned(Append(classes, c), Files)
  BY <1>2, <1>3, ClassAdded
<1>5. Len(classes) \in Nat
  BY <1>3, SequenceIsListed DEF AreClasses
<1>6. Len(classes') # 0
  BY <1>1, <1>4, <1>5
<1> QED BY <1>1, <1>4, <1>6, ScanStep DEF Scanning

\* The class being read takes a method or an invariant.
LEMMA CurrentStep ==
    ASSUME MergeInv, pc = "body", NEW e,
           \/ classes' = [classes EXCEPT ![Current].invariants = e]
           \/ classes' = [classes EXCEPT ![Current].methods = e],
           UNCHANGED <<project, pc, parsed, records, n, found>>
    PROVE  MergeInv'
<1>1. AreClasses(classes) /\ AreScanned(classes, Files) /\ Len(classes) # 0
  BY DEF MergeInv, Scanning
<1>2. Len(classes) \in Nat /\ Current \in 1..Len(classes)
  BY <1>1, SequenceIsListed DEF AreClasses, Current
<1>3. IsClass(classes[Current])
  BY <1>1, <1>2 DEF AreClasses
<1>4. PICK c : classes' = [classes EXCEPT ![Current] = c] /\ Keeps(c, classes[Current])
  <2>1. CASE classes' = [classes EXCEPT ![Current].invariants = e]
    BY <1>3, <2>1, ClassChanges
  <2>2. CASE classes' = [classes EXCEPT ![Current].methods = e]
    BY <1>3, <2>2, ClassChanges
  <2> QED BY <2>1, <2>2
<1>5. IsClass(c)
  BY <1>4 DEF Keeps
<1>6. PICK ds : classes' = ds
  OBVIOUS
<1>7. ds = [classes EXCEPT ![Current] = c]
  BY <1>4, <1>6
<1>8. AreClasses(ds) /\ Len(ds) = Len(classes) /\ AreScanned(ds, Files)
  BY <1>1, <1>2, <1>4, <1>5, <1>7, ClassReplaced
<1> QED BY <1>1, <1>6, <1>8, ScanStep DEF Scanning

LEMMA ReadNoteStep == MergeInv /\ ReadNote => MergeInv'
<1> SUFFICES ASSUME MergeInv, ReadNote PROVE MergeInv'
  OBVIOUS
<1>1. pc = "body" /\ UNCHANGED <<project, pc, parsed, records, n, found>>
  BY DEF ReadNote
<1>2. CASE L[at].kind = "note" /\ L[at].what = "invariant"
  <2>1. classes' = [classes EXCEPT ![Current].invariants =
                        Append(classes[Current].invariants, Contract(at))]
    BY <1>2 DEF ReadNote
  <2> QED BY <1>1, <2>1, CurrentStep
<1>3. CASE ~(L[at].kind = "note" /\ L[at].what = "invariant")
  <2>1. classes' = classes
    BY <1>3 DEF ReadNote
  <2> QED BY <1>1, <2>1, ElseStep
<1> QED BY <1>2, <1>3

LEMMA ReadMethodStep == MergeInv /\ ReadMethod => MergeInv'
<1> SUFFICES ASSUME MergeInv, ReadMethod PROVE MergeInv'
  OBVIOUS
<1> DEFINE m == [name |-> L[at].name, at |-> at, body |-> IF L[at].inline THEN {at} ELSE {},
                 notes |-> pending]
<1>1. pc = "body" /\ UNCHANGED <<project, pc, parsed, records, n, found>>
  BY DEF ReadMethod
<1>2. classes' = [classes EXCEPT ![Current].methods = Append(classes[Current].methods, m)]
  BY DEF ReadMethod
<1> HIDE DEF m
<1> QED BY <1>1, <1>2, CurrentStep

\* A definition changes the methods and the invariants of a class.
LEMMA AttachedKeeps ==
    ASSUME NEW c, IsClass(c), NEW i
    PROVE  Keeps(Attached(c, i), c)
<1> DEFINE read == IF L[i].whole /\ c.name = L[i].class THEN NotesBefore(L, i) ELSE <<>>
           invariants == {x \in ToSet(read) : IsInvariant(x)}
           e == c.invariants \o Only(read, invariants)
           d == Defined(c.methods, i, Only(read, ToSet(read) \ invariants))
<1>1. Attached(c, i) = [c EXCEPT !.invariants = e, !.methods = d]
  BY Zenon DEF Attached
<1> HIDE DEF e, d
<1>2. Keeps([c EXCEPT !.invariants = e, !.methods = d], c)
  BY ClassChanges
<1> QED BY <1>1, <1>2, Zenon

LEMMA AttachDefinitionStep == MergeInv /\ AttachDefinition => MergeInv'
<1> SUFFICES ASSUME MergeInv, AttachDefinition PROVE MergeInv'
  OBVIOUS
<1>1. pc = "definitions" /\ UNCHANGED <<project, pc, parsed, records, n, found>>
  BY DEF AttachDefinition
<1>2. AreClasses(classes) /\ AreScanned(classes, Files)
  BY <1>1 DEF MergeInv, Scanning
<1>3. Len(classes) \in Nat /\ DOMAIN classes = 1..Len(classes)
  BY <1>2, SequenceIsListed DEF AreClasses
<1>4. classes' = [k \in 1..Len(classes) |->
                    IF L[at].kind = "define" /\ classes[k].file = f
                            /\ classes[k].name \in L[at].ends
                    THEN Attached(classes[k], at) ELSE classes[k]]
  BY <1>3 DEF AttachDefinition
<1>5. \A k \in 1..Len(classes) : Keeps(classes[k], classes[k])
  BY <1>2 DEF AreClasses, Keeps
<1>6. \A k \in 1..Len(classes) : Keeps(Attached(classes[k], at), classes[k])
  BY <1>2, AttachedKeeps DEF AreClasses
<1>7. PICK ds : classes' = ds
  OBVIOUS
<1>8. ds = [k \in 1..Len(classes) |-> ds[k]] /\ \A k \in 1..Len(classes) : Keeps(ds[k], classes[k])
  BY <1>4, <1>5, <1>6, <1>7
<1>9. AreClasses(ds) /\ AreScanned(ds, Files)
  BY <1>2, <1>8, ClassesKept
<1> QED BY <1>1, <1>7, <1>9, ScanStep DEF Scanning

LEMMA NextFileStep == MergeInv /\ NextFile => MergeInv'
<1> SUFFICES ASSUME MergeInv, NextFile PROVE MergeInv'
  OBVIOUS
<1>1. pc \in Scanning /\ UNCHANGED <<project, classes, parsed, records, n>>
  BY DEF NextFile, Scanning
<1>2. AreClasses(classes) /\ AreScanned(classes, Files)
  BY <1>1 DEF MergeInv
<1>3. CASE f < project.scanned
  <2>1. pc' = "classes" /\ found' = found
    BY <1>3 DEF NextFile
  <2> QED BY <1>1, <1>2, <2>1, ScanStep DEF Scanning
<1>4. CASE ~(f < project.scanned)
  <2>1. pc' \in {"clang", "verify"} /\ found' = Len(classes)
    BY <1>4 DEF NextFile
  <2>2. n = 0 /\ records = <<>> /\ parsed = <<>>
    BY <1>1 DEF MergeInv
  <2>3. Len(classes) \in Nat
    BY <1>2, SequenceIsListed DEF AreClasses
  <2>4. Unites(classes, Files, Len(classes), records, 0)
    BY <1>2, <2>3, UnitesNothing DEF AreScanned
  <2>5. Sequence(<<>>) /\ Len(<<>>) = 0
    BY Short
  <2>6. Files' = Files
    BY <1>1 DEF Files
  <2>7. AreClasses(classes') /\ AreScanned(classes', Files')
    BY <1>1, <1>2, <2>6
  <2>8. Unites(classes', Files', found', records', n')
    BY <1>1, <2>1, <2>2, <2>4, <2>6
  <2> QED BY <1>1, <2>1, <2>2, <2>3, <2>5, <2>7, <2>8 DEF MergeInv, Scanning, Merging
<1> QED BY <1>3, <1>4

LEMMA RunClangStep == MergeInv /\ RunClang => MergeInv'
<1> SUFFICES ASSUME MergeInv, RunClang PROVE MergeInv'
  OBVIOUS
<1>1. /\ pc = "clang" /\ UNCHANGED <<project, pc, classes, n, found>>
      /\ Len(parsed) < Min({project.scanned, MaxFiles})
  BY DEF RunClang
<1>2. PICK o : /\ parsed' = Append(parsed, o)
               /\ records' = records \o IF o = "ok" THEN Records(Len(parsed) + 1) ELSE <<>>
  BY DEF RunClang
<1>3. /\ project \in Projects /\ AreClasses(classes) /\ AreScanned(classes, Files)
      /\ Sequence(parsed) /\ Sequence(records)
      /\ n = 0 /\ found = Len(classes) /\ ("ok" \notin ToSet(parsed) => records = <<>>)
  BY <1>1 DEF MergeInv, Merging
<1>4. project.scanned \in Nat /\ MaxFiles \in Nat
  BY <1>3, ProjectsAssumption, MaxFilesAssumption
<1>5. Min({project.scanned, MaxFiles}) <= project.scanned
      /\ Min({project.scanned, MaxFiles}) \in Nat
  <2>1. \E x \in {project.scanned, MaxFiles} : \A y \in {project.scanned, MaxFiles} : x <= y
    BY <1>4
  <2> QED BY <1>4, <2>1 DEF Min
<1>6. Len(parsed) + 1 \in 1..project.scanned
  <2>1. Len(parsed) \in Nat
    BY <1>3, SequenceIsListed
  <2> QED BY <1>1, <1>4, <1>5, <2>1
<1> DEFINE more == IF o = "ok" THEN Records(Len(parsed) + 1) ELSE <<>>
<1>7. Sequence(more)
  BY <1>3, <1>6, RecordsAreASequence, Short
<1>8. "ok" \notin ToSet(parsed') => more = <<>> /\ "ok" \notin ToSet(parsed)
  BY <1>2, <1>3, Appended
<1> HIDE DEF more
<1>9. records' = records \o more
  BY <1>2 DEF more
<1>10. Sequence(records')
  BY <1>3, <1>7, <1>9, Joined
<1>11. Sequence(parsed')
  BY <1>2, <1>3, Appended
<1>12. "ok" \notin ToSet(parsed') => records' = <<>>
  BY <1>3, <1>8, <1>9
<1>13. Len(classes) \in Nat /\ Len(records') \in Nat
  BY <1>3, <1>10, SequenceIsListed DEF AreClasses
<1>14. PICK rs : records' = rs
  OBVIOUS
<1>15. Unites(classes, Files, Len(classes), rs, 0)
  BY <1>3, <1>13, UnitesNothing DEF AreScanned
<1>16. Files' = Files
  BY <1>1 DEF Files
<1>17. AreClasses(classes') /\ AreScanned(classes', Files')
  BY <1>1, <1>3, <1>16
<1>18. Unites(classes', Files', found', records', n')
  BY <1>1, <1>3, <1>14, <1>15, <1>16
<1> QED BY <1>1, <1>3, <1>10, <1>11, <1>12, <1>13, <1>17, <1>18 DEF MergeInv, Scanning, Merging

LEMMA ClangDoneStep == MergeInv /\ ClangDone => MergeInv'
<1> SUFFICES ASSUME MergeInv, ClangDone PROVE MergeInv'
  OBVIOUS
<1>1. /\ pc = "clang" /\ pc' = IF "ok" \in ToSet(parsed) THEN "merge" ELSE "verify"
      /\ UNCHANGED <<project, classes, parsed, records, n, found>>
  BY DEF ClangDone
<1>2. /\ project \in Projects /\ AreClasses(classes)
      /\ Sequence(records) /\ found \in Nat /\ found <= Len(classes) /\ n = 0 /\ n <= Len(records)
      /\ Unites(classes, Files, found, records, n)
      /\ "ok" \notin ToSet(parsed) => records = <<>>
  BY <1>1 DEF MergeInv, Merging
<1>3. AreClasses(classes') /\ Unites(classes', Files', found', records', n')
  BY <1>1, <1>2 DEF Files
<1>4. pc' = "verify" => n' = Len(records')
  <2>1. Len(<<>>) = 0
    OBVIOUS
  <2> QED BY <1>1, <1>2, <2>1
<1> QED BY <1>1, <1>2, <1>3, <1>4 DEF MergeInv, Scanning, Merging

LEMMA MergeRecordStep == MergeInv /\ MergeRecord => MergeInv'
<1> SUFFICES ASSUME MergeInv, MergeRecord PROVE MergeInv'
  OBVIOUS
<1> DEFINE r == records[n + 1]
           S == Known(r.name)
<1>1. /\ pc = "merge" /\ n < Len(records) /\ n' = n + 1
      /\ UNCHANGED <<project, pc, records, found>>
  BY DEF MergeRecord
<1>2. /\ project \in Projects /\ AreClasses(classes)
      /\ Sequence(records) /\ found \in Nat /\ found <= Len(classes) /\ n \in Nat
      /\ Unites(classes, Files, found, records, n)
  BY <1>1 DEF MergeInv, Merging
<1>3. Len(classes) \in Nat /\ DOMAIN classes = 1..Len(classes) /\ Len(records) \in Nat
  BY <1>2, SequenceIsListed DEF AreClasses
<1>4. S = {k \in 1..Len(classes) : classes[k].name = r.name}
  BY <1>3 DEF Known
<1> HIDE DEF S
<1>5. PICK ds : classes' = ds
  OBVIOUS
<1>6. AreClasses(ds) /\ Len(ds) >= Len(classes) /\ Unites(ds, Files, found, records, n + 1)
  <2>1. CASE S # {}
    <3> DEFINE q == Max(S)
               c == [classes[q] EXCEPT !.fields = classes[q].fields \cup r.fields]
    <3>1. S \in SUBSET (0..Len(classes))
      BY <1>3, <1>4
    <3>2. q \in 1..Len(classes) /\ classes[q].name = r.name
      BY <1>3, <1>4, <2>1, <3>1, Greatest
    <3>3. Put(ds, classes, q, c)
      BY <1>5, <2>1 DEF MergeRecord, S, Put
    <3> HIDE DEF q
    <3>4. /\ IsClass(c) /\ c.name = classes[q].name /\ c.file = classes[q].file
          /\ c.at = classes[q].at /\ c.fields = classes[q].fields \cup r.fields
      <4>1. IsClass(classes[q])
        BY <1>2, <3>2 DEF AreClasses
      <4> QED BY <4>1, FieldsChange
    <3> HIDE DEF c
    <3>5. /\ AreClasses(ds) /\ Len(ds) = Len(classes)
          /\ ds[q] = c /\ \A i \in 1..Len(classes) : i # q => ds[i] = classes[i]
      BY <1>2, <3>2, <3>3, <3>4, ClassPut
    <3>6. Takes(ds, classes, q, r)
      BY <3>4, <3>5 DEF Takes
    <3>7. Unites(ds, Files, found, records, n + 1)
      BY <1>2, <1>3, <3>2, <3>6, UnitesKnown
    <3> QED BY <1>3, <3>5, <3>7
  <2>2. CASE S = {}
    <3> DEFINE c == [name |-> r.name, file |-> 0, at |-> r.line, fields |-> r.fields,
                     methods |-> <<>>, invariants |-> <<>>]
    <3>1. ds = Append(classes, c)
      BY <1>5, <2>2 DEF MergeRecord, S
    <3>2. IsClass(c) /\ c.name = r.name /\ c.fields = r.fields
      BY DEF IsClass, ClassKeys
    <3> HIDE DEF c
    <3>3. /\ AreClasses(ds) /\ Len(ds) = Len(classes) + 1
          /\ \A i \in 1..Len(classes) : ds[i] = classes[i]
          /\ ds[Len(classes) + 1] = c
      BY <1>2, <3>1, <3>2, ClassAdded
    <3>4. \A i \in 1..Len(classes) : classes[i].name # r.name
      BY <1>4, <2>2
    <3>5. Unites(ds, Files, found, records, n + 1)
      BY <1>2, <1>3, <3>2, <3>3, <3>4, UnitesNew
    <3> QED BY <1>3, <3>3, <3>5
  <2> QED BY <2>1, <2>2
<1> HIDE DEF r
<1>7. AreClasses(classes') /\ Len(classes') >= Len(classes)
      /\ Unites(classes', Files', found', records', n')
  BY <1>1, <1>5, <1>6 DEF Files
<1>8. Len(classes') \in Nat
  BY <1>7, SequenceIsListed DEF AreClasses
<1>9. found <= Len(classes') /\ n + 1 \in Nat /\ n + 1 <= Len(records)
  BY <1>1, <1>2, <1>3, <1>7, <1>8
<1> QED BY <1>1, <1>2, <1>7, <1>9 DEF MergeInv, Scanning, Merging

LEMMA MergedStep ==
    ASSUME MergeInv, pc \in {"merge", "verify"}, pc' \in {"verify", "done"},
           pc = "merge" => n = Len(records),
           UNCHANGED <<project, classes, parsed, records, n, found>>
    PROVE  MergeInv'
BY DEF MergeInv, Scanning, Merging, Files

LEMMA MergeInductive == MergeInv /\ [Next]_vars => MergeInv'
<1> SUFFICES ASSUME MergeInv, [Next]_vars PROVE MergeInv'
  OBVIOUS
<1>1. CASE OpenClass
  BY <1>1, OpenClassStep
<1>2. CASE SkipLine
  BY <1>2, ElseStep DEF SkipLine
<1>3. CASE ReadNote
  BY <1>3, ReadNoteStep
<1>4. CASE ReadMethod
  BY <1>4, ReadMethodStep
<1>5. CASE ReadOther
  BY <1>5, ElseStep DEF ReadOther
<1>6. CASE CloseClass \/ ReadDefinitions
  <2>1. /\ pc \in {"body", "classes"} /\ pc' \in {"classes", "definitions"}
        /\ UNCHANGED <<project, classes, parsed, records, n, found>>
    BY <1>6 DEF CloseClass, ReadDefinitions
  <2>2. AreClasses(classes) /\ AreScanned(classes, Files)
    BY <2>1 DEF MergeInv, Scanning
  <2>3. AreClasses(classes') /\ AreScanned(classes', Files)
    BY <2>1, <2>2
  <2> QED BY <2>1, <2>3, ScanStep DEF Scanning
<1>7. CASE AttachDefinition
  BY <1>7, AttachDefinitionStep
<1>8. CASE NextFile
  BY <1>8, NextFileStep
<1>9. CASE RunClang
  BY <1>9, RunClangStep
<1>10. CASE ClangDone
  BY <1>10, ClangDoneStep
<1>11. CASE MergeRecord
  BY <1>11, MergeRecordStep
<1>12. CASE Merged \/ VerifyProject
  BY <1>12, MergedStep DEF Merged, VerifyProject
<1>13. CASE UNCHANGED vars
  BY <1>13, ElseStep DEF vars
<1> QED BY <1>1, <1>2, <1>3, <1>4, <1>5, <1>6, <1>7, <1>8, <1>9, <1>10, <1>11, <1>12, <1>13
        DEF Next

\* What the invariant says when everything is merged.
IsUnion(cs, files, m, rs) ==
    LET scanned == ToSet(SubSeq(cs, 1, m))
        added == SubSeq(cs, m + 1, Len(cs))
        reported == ToSet(rs)
    IN  /\ NamesOf(ToSet(added)) = NamesOf(reported) \ NamesOf(scanned)
        /\ \A i, j \in DOMAIN added : added[i].name = added[j].name => i = j
        /\ \A name \in NamesOf(ToSet(cs)) :
            FieldsNamed(ToSet(cs), name) =
                FieldsNamed({[name |-> c.name, fields |-> Fields(files[c.file], c.at)] :
                                c \in scanned} \cup reported, name)

LEMMA UnitesAll ==
    ASSUME NEW cs, NEW files, NEW m \in Nat, NEW rs, AreClasses(cs), m <= Len(cs), Sequence(rs),
           Unites(cs, files, m, rs, Len(rs))
    PROVE  IsUnion(cs, files, m, rs)
<1> DEFINE b == Len(cs)
           S == ToSet(cs)
           first == SubSeq(cs, 1, m)
           added == SubSeq(cs, m + 1, b)
           scanned == ToSet(first)
           reported == ToSet(rs)
<1>1. b \in Nat /\ cs \in Seq(S) /\ Len(rs) \in Nat
  BY SequenceIsListed DEF AreClasses, Sequence
<1>2. S = {cs[i] : i \in 1..b} /\ reported = {rs[j] : j \in 1..Len(rs)}
  BY ToSetOfSequence DEF AreClasses
<1> HIDE DEF S, b, reported
<1>3. /\ DOMAIN added = 1..(b - m) /\ \A i \in 1..(b - m) : added[i] = cs[m + i]
      /\ DOMAIN first = 1..m /\ \A i \in 1..m : first[i] = cs[i]
  BY <1>1 DEF b
<1> HIDE DEF added, first
<1>4. /\ \A i \in 1..(b - m) : m + i \in (m + 1)..b
      /\ \A i \in (m + 1)..b : i - m \in 1..(b - m) /\ m + (i - m) = i
  BY <1>1 DEF b
<1>5. \A c : c \in ToSet(added) <=> \E i \in (m + 1)..b : c = cs[i]
  BY <1>3, <1>4 DEF ToSet
<1>6. \A c : c \in scanned <=> \E i \in 1..m : c = cs[i]
  BY <1>3 DEF ToSet
<1> HIDE DEF scanned
<1>7. NamesOf(ToSet(added)) = NamesOf(reported) \ NamesOf(scanned)
  <2>1. \A name : name \in NamesOf(ToSet(added)) <=> \E i \in (m + 1)..b : cs[i].name = name
    BY <1>5 DEF NamesOf
  <2>2. \A name : name \in NamesOf(reported) <=> \E j \in 1..Len(rs) : rs[j].name = name
    BY <1>2 DEF NamesOf
  <2>3. \A name : name \in NamesOf(scanned) <=> \E i \in 1..m : cs[i].name = name
    BY <1>6 DEF NamesOf
  <2> QED BY <2>1, <2>2, <2>3 DEF Unites, b
<1>8. \A i, j \in DOMAIN added : added[i].name = added[j].name => i = j
  <2> SUFFICES ASSUME NEW i \in 1..(b - m), NEW j \in 1..(b - m), cs[m + i].name = cs[m + j].name
               PROVE  i = j
    BY <1>3
  <2>1. m + i = m + j
    BY <1>4 DEF Unites, b
  <2> QED BY <2>1
<1> DEFINE origins == {[name |-> c.name, fields |-> Fields(files[c.file], c.at)] : c \in scanned}
<1>9. ASSUME NEW name PROVE FieldsNamed(S, name) = FieldsNamed(origins \cup reported, name)
  <2>1. \A T, x : x \in FieldsNamed(T, name) <=> \E y \in T : y.name = name /\ x \in y.fields
    BY DEF FieldsNamed
  <2>2. \A x : x \in FieldsNamed(S, name)
                <=> \E i \in 1..b : cs[i].name = name /\ x \in cs[i].fields
    BY <1>2, <2>1
  <2>3. \A x : (\E y \in origins : y.name = name /\ x \in y.fields)
                <=> \E i \in 1..m : cs[i].name = name /\ x \in Fields(files[cs[i].file], cs[i].at)
    <3> DEFINE Origin(c) == [name |-> c.name, fields |-> Fields(files[c.file], c.at)]
    <3>1. \A c : Origin(c).name = c.name /\ Origin(c).fields = Fields(files[c.file], c.at)
      OBVIOUS
    <3>2. origins = {Origin(c) : c \in scanned}
      OBVIOUS
    <3> HIDE DEF Origin, origins
    <3> QED BY <1>6, <3>1, <3>2
  <2>4. \A x : (\E y \in reported : y.name = name /\ x \in y.fields)
                <=> \E j \in 1..Len(rs) : rs[j].name = name /\ x \in rs[j].fields
    BY <1>2
  <2> HIDE DEF origins
  <2>5. \A x : x \in FieldsNamed(origins \cup reported, name)
                <=> \/ \E y \in origins : y.name = name /\ x \in y.fields
                    \/ \E y \in reported : y.name = name /\ x \in y.fields
    BY <2>1
  <2>6. \A x : x \in FieldsNamed(S, name) <=> x \in FieldsNamed(origins \cup reported, name)
    BY <2>2, <2>3, <2>4, <2>5 DEF Unites, b
  <2> QED BY <2>6
<1> QED BY <1>7, <1>8, <1>9, Zenon DEF IsUnion, S, added, scanned, first, reported, b

\* Whatever Clang could parse, and however its records are ordered, the merge is the
\* union of what the scan and the syntax trees say of each class.
THEOREM MergeUnites == Spec => []MergeIsAUnion
<1>1. Init => MergeInv
  <2>1. Sequence(<<>>) /\ Len(<<>>) = 0 /\ 1..0 = {}
    BY Empty
  <2> QED BY <2>1 DEF Init, MergeInv, AreClasses, AreScanned, Scanning, Merging
<1>2. MergeInv => MergeIsAUnion
  <2> SUFFICES ASSUME MergeInv, pc = "done" PROVE MergeIsAUnion
    BY DEF MergeIsAUnion
  <2>1. /\ AreClasses(classes) /\ found \in Nat /\ found <= Len(classes) /\ Sequence(records)
        /\ Unites(classes, Files, found, records, Len(records))
    BY DEF MergeInv, Merging
  <2>2. IsUnion(classes, Files, found, records)
    BY <2>1, UnitesAll
  <2> QED BY <2>2, Zenon DEF MergeIsAUnion, IsUnion
<1> QED BY <1>1, <1>2, MergeInductive, PTL DEF Spec

-----------------------------------------------------------------------------
(***************************************************************************)
(* Contracts and the methods they go to.                                   *)
(***************************************************************************)
AsWritten(lines) == WellFormed(lines) /\ Tame(lines)
IsCondition(line) == line.kind = "note" /\ line.what # "invariant"
PlacesOf(notes) == {notes[k].at : k \in 1..Len(notes)}

\* Conditions after line a that no function up to line b has taken.
Waiting(lines, a, b) ==
    {i \in (a + 1)..b : IsCondition(lines[i]) /\ \A j \in i..b : lines[j].kind # "fn"}

\* A method of a class that is opened at line a.
GoodMethod(lines, a, m) ==
    /\ Sequence(m.notes)
    /\ m.body = {} => /\ a \in DOMAIN lines /\ Closed(lines, a)
                      /\ m.at \in DOMAIN lines /\ m.at \in (a + 1)..End(lines, a)
                      /\ lines[m.at].kind = "fn" /\ m.name = lines[m.at].name
    /\ AsWritten(lines) =>
        /\ \A i \in PlacesOf(m.notes) : SpokenOf(lines, i) = {Function(lines, m.at)}
        /\ \A i \in (a + 1)..m.at :
            /\ IsCondition(lines[i]) /\ lines[m.at].kind = "fn"
            /\ SpokenOf(lines, i) = {Function(lines, m.at)}
            => i \in PlacesOf(m.notes)
GoodMethods(lines, a, ms) == Sequence(ms) /\ \A i \in 1..Len(ms) : GoodMethod(lines, a, ms[i])

\* The body of the class that is opened at line a is read up to line b.
BodyRead(lines, a, b, last, notes) ==
    /\ a \in DOMAIN lines /\ Closed(lines, a) /\ last = End(lines, a)
    /\ b \in (a + 1)..last
    /\ Sequence(notes)
    /\ AsWritten(lines) => PlacesOf(notes) = Waiting(lines, a, b - 1)

LEMMA EndInside ==
    ASSUME NEW lines, Sequence(lines), NEW a \in 1..Len(lines), Closed(lines, a)
    PROVE  End(lines, a) \in (a + 1)..Len(lines)
<1> DEFINE S == {j \in (a + 1)..Len(lines) : Depth(lines, a, j) = 0}
<1>1. Len(lines) \in Nat /\ Ends(lines, a) # {}
  BY SequenceIsListed DEF Closed
<1>2. Ends(lines, a) = IF S = {} THEN {} ELSE {Min(S)}
  BY DEF Ends
<1>3. S \in SUBSET Nat /\ S \subseteq (a + 1)..Len(lines)
  BY <1>1
<1> HIDE DEF S
<1>4. S # {} /\ Ends(lines, a) = {Min(S)}
  BY <1>1, <1>2
<1>5. Min(S) \in S
  BY <1>3, <1>4, Least DEF Min
<1>6. End(lines, a) = Min(S)
  BY <1>4 DEF End
<1> QED BY <1>3, <1>5, <1>6

\* The function a contract is written before.
LEMMA SpokenBefore ==
    ASSUME NEW lines, Sequence(lines), NEW j \in 1..Len(lines), NEW i \in 1..j,
           lines[j].kind \in Functions, \A l \in i..(j - 1) : lines[l].kind \notin Functions
    PROVE  SpokenOf(lines, i) = {Function(lines, j)}
<1> DEFINE T == {k \in i..Len(lines) :
                    lines[k].kind \in Functions /\ \A l \in i..(k - 1) : lines[l].kind \notin Functions}
<1>1. Len(lines) \in Nat /\ j \in i..Len(lines)
  BY SequenceIsListed
<1>2. ASSUME NEW k \in T PROVE k = j
  <2>1. k < j => k \in i..(j - 1)
    BY <1>1
  <2>2. k > j => j \in i..(k - 1)
    BY <1>1
  <2>3. k \in Nat /\ j \in Nat
    BY <1>1
  <2> QED BY <2>1, <2>2, <2>3
<1>3. j \in T
  BY <1>1
<1>4. T = {j}
  BY <1>2, <1>3
<1>5. SpokenOf(lines, i) = {Function(lines, k) : k \in T}
  BY DEF SpokenOf
<1> HIDE DEF T
<1> QED BY <1>4, <1>5

LEMMA FunctionAfter ==
    ASSUME NEW lines, Sequence(lines), NEW j \in 1..Len(lines), NEW i \in 1..j,
           lines[j].kind \in Functions
    PROVE  \E k \in i..j : /\ lines[k].kind \in Functions
                           /\ SpokenOf(lines, i) = {Function(lines, k)}
<1> DEFINE T == {k \in i..j : lines[k].kind \in Functions}
<1>1. T \in SUBSET Nat /\ j \in T /\ Len(lines) \in Nat
  BY SequenceIsListed
<1>2. PICK k \in T : \A l \in T : k <= l
  BY <1>1, Least
<1>3. \A l \in i..(k - 1) : l \in i..j /\ ~(k <= l)
  BY <1>1
<1>4. \A l \in i..(k - 1) : lines[l].kind \notin Functions
  BY <1>2, <1>3
<1>5. k \in 1..Len(lines) /\ i \in 1..k /\ k \in i..j /\ lines[k].kind \in Functions
  BY <1>1
<1> QED BY <1>4, <1>5, SpokenBefore

\* One more line of a body.
LEMMA WaitingGrows ==
    ASSUME NEW lines, NEW a \in Nat, NEW b \in Nat, b > a
    PROVE  Waiting(lines, a, b) =
                IF lines[b].kind = "fn" THEN {}
                ELSE Waiting(lines, a, b - 1) \cup (IF IsCondition(lines[b]) THEN {b} ELSE {})
<1>1. \A i : i \in (a + 1)..b <=> i \in (a + 1)..(b - 1) \/ i = b
  OBVIOUS
<1>2. \A i \in (a + 1)..b : \A j : j \in i..b <=> j \in i..(b - 1) \/ j = b
  OBVIOUS
<1>3. \A j : j \notin b..(b - 1)
  OBVIOUS
<1>4. CASE lines[b].kind = "fn"
  BY <1>2, <1>4 DEF Waiting
<1>5. CASE lines[b].kind # "fn"
  <2>1. ASSUME NEW i PROVE i \in Waiting(lines, a, b)
                            <=> \/ i \in Waiting(lines, a, b - 1)
                                \/ i = b /\ IsCondition(lines[b])
    BY <1>1, <1>2, <1>3, <1>5 DEF Waiting
  <2> QED BY <1>5, <2>1
<1> QED BY <1>4, <1>5

\* In a body of which every function is known, conditions wait for the next one.
LEMMA BodyLines ==
    ASSUME NEW lines, Sequence(lines), AsWritten(lines), NEW a \in 1..Len(lines),
           Closed(lines, a), NEW i \in (a + 1)..End(lines, a)
    PROVE  /\ i \in 1..Len(lines)
           /\ lines[i].kind \in Functions <=> lines[i].kind = "fn"
<1>1. End(lines, a) \in (a + 1)..Len(lines)
  BY EndInside
<1>2. Len(lines) \in Nat /\ DOMAIN lines = 1..Len(lines)
  BY SequenceIsListed
<1>3. i \in DOMAIN lines /\ a \in DOMAIN lines
  BY <1>1, <1>2
<1>4. lines[i].kind # "define" /\ lines[i].kind # "callop"
  BY <1>3 DEF AsWritten, WellFormed, Tame
<1> QED BY <1>2, <1>3, <1>4 DEF Functions

LEMMA MethodTakes ==
    ASSUME NEW lines, Sequence(lines), NEW a, NEW b, NEW last, NEW m,
           BodyRead(lines, a, b, last, m.notes), b < last,
           lines[b].kind = "fn", m.at = b, m.name = lines[b].name
    PROVE  GoodMethod(lines, a, m)
<1>1. Len(lines) \in Nat /\ DOMAIN lines = 1..Len(lines)
  BY SequenceIsListed
<1>2. a \in 1..Len(lines) /\ Closed(lines, a) /\ last = End(lines, a) /\ b \in (a + 1)..last
  BY <1>1 DEF BodyRead
<1>3. last \in (a + 1)..Len(lines)
  BY <1>2, EndInside
<1>4. b \in 1..Len(lines) /\ a \in Nat /\ b \in Nat /\ b > a
  BY <1>1, <1>2, <1>3
<1>5. ASSUME AsWritten(lines) PROVE
        /\ \A i \in PlacesOf(m.notes) : SpokenOf(lines, i) = {Function(lines, b)}
        /\ \A i \in (a + 1)..b :
            /\ IsCondition(lines[i]) /\ SpokenOf(lines, i) = {Function(lines, b)}
            => i \in PlacesOf(m.notes)
  <2>1. PlacesOf(m.notes) = Waiting(lines, a, b - 1)
    BY <1>5 DEF BodyRead
  <2>2. \A i \in (a + 1)..b : i \in 1..Len(lines) /\ (lines[i].kind \in Functions <=> lines[i].kind = "fn")
    <3>1. \A i \in (a + 1)..b : i \in (a + 1)..End(lines, a)
      BY <1>2, <1>3, <1>4
    <3> QED BY <1>2, <1>5, <3>1, BodyLines
  <2>3. ASSUME NEW i \in Waiting(lines, a, b - 1)
        PROVE  SpokenOf(lines, i) = {Function(lines, b)}
    <3>1. i \in (a + 1)..(b - 1) /\ \A l \in i..(b - 1) : lines[l].kind # "fn"
      BY DEF Waiting
    <3>2. \A l \in i..(b - 1) : l \in (a + 1)..b
      BY <1>4, <3>1
    <3>3. i \in 1..b
      BY <1>4, <3>1
    <3>4. \A l \in i..(b - 1) : lines[l].kind \notin Functions
      BY <2>2, <3>1, <3>2
    <3>5. lines[b].kind \in Functions
      BY DEF Functions
    <3> QED BY <1>4, <3>3, <3>4, <3>5, SpokenBefore
  <2>4. ASSUME NEW i \in (a + 1)..b, IsCondition(lines[i]),
               SpokenOf(lines, i) = {Function(lines, b)}
        PROVE  i \in Waiting(lines, a, b - 1)
    <3>1. i # b
      BY <2>4 DEF IsCondition
    <3>2. i \in (a + 1)..(b - 1)
      BY <1>4, <3>1
    <3>3. ASSUME NEW j \in i..(b - 1), lines[j].kind = "fn" PROVE FALSE
      <4>1. j \in 1..Len(lines) /\ i \in 1..j /\ lines[j].kind \in Functions
        BY <1>1, <1>4, <3>2, <3>3 DEF Functions
      <4>2. PICK k \in i..j : lines[k].kind \in Functions /\ SpokenOf(lines, i) = {Function(lines, k)}
        BY <4>1, FunctionAfter
      <4>3. k \in (a + 1)..b /\ k # b
        BY <1>4, <3>2, <4>1
      <4>4. lines[k].kind = "fn" /\ k \in DOMAIN lines /\ b \in DOMAIN lines
        BY <1>1, <1>4, <2>2, <4>2, <4>3
      <4>5. Function(lines, k) = Function(lines, b)
        BY <2>4, <4>2
      <4> QED BY <1>5, <4>3, <4>4, <4>5 DEF AsWritten, WellFormed
    <3> QED BY <2>4, <3>2, <3>3 DEF Waiting
  <2> QED BY <2>1, <2>3, <2>4
<1>6. Sequence(m.notes)
  BY DEF BodyRead
<1> QED BY <1>1, <1>2, <1>4, <1>5, <1>6 DEF GoodMethod

\* Comments right before a definition are spoken of its function.
LEMMA NotesStandBefore ==
    ASSUME NEW lines, Sequence(lines), NEW j \in 1..Len(lines), lines[j].kind \in Functions
    PROVE  /\ Sequence(NotesBefore(lines, j))
           /\ \A x \in ToSet(NotesBefore(lines, j)) : SpokenOf(lines, x.at) = {Function(lines, j)}
<1> DEFINE T == {0} \cup {l \in 1..(j - 1) : lines[l].kind # "note" \/ j - l > 9}
           first == Max(T) + 1
           notes == [k \in 1..(j - first) |-> Contract(first + k - 1)]
           t == [notes EXCEPT ![Len(notes)].garbled = TRUE]
<1>1. j \in Nat /\ Len(lines) \in Nat
  BY SequenceIsListed
<1>2. Max(T) \in T /\ \A l \in T : Max(T) >= l
  <2>1. T \in SUBSET (0..j) /\ T # {}
    BY <1>1
  <2> HIDE DEF T
  <2> QED BY <1>1, <2>1, Greatest
<1>3. first \in 1..j /\ j - first \in Nat
  BY <1>1, <1>2
<1>4. \A l \in first..(j - 1) : lines[l].kind = "note"
  <2>1. PICK q : q = Max(T)
    OBVIOUS
  <2>2. q \in Nat /\ \A l \in T : q >= l
    BY <1>1, <1>2, <2>1
  <2>3. \A l \in (q + 1)..(j - 1) : l \in 1..(j - 1) /\ ~(q >= l)
    BY <1>1, <2>2
  <2>4. \A l \in 1..(j - 1) : lines[l].kind # "note" => l \in T
    OBVIOUS
  <2> HIDE DEF T
  <2> QED BY <2>1, <2>2, <2>3, <2>4
<1>5. NotesBefore(lines, j) \in {<<>>, t}
  BY Zenon DEF NotesBefore
<1> HIDE DEF T, first
<1>6. ASSUME NEW l \in first..(j - 1) PROVE SpokenOf(lines, l) = {Function(lines, j)}
  <2>1. l \in 1..j /\ \A k \in l..(j - 1) : k \in first..(j - 1)
    BY <1>1, <1>3
  <2>2. \A k \in l..(j - 1) : lines[k].kind \notin Functions
    BY <1>4, <2>1 DEF Functions
  <2> QED BY <2>1, <2>2, SpokenBefore
<1>7. /\ t = [k \in 1..(j - first) |-> t[k]]
      /\ \A k \in 1..(j - first) : t[k].at = first + k - 1
  BY DEF Contract
<1> HIDE DEF t
<1>8. Sequence(t) /\ Len(t) = j - first
  BY <1>3, <1>7, ListedIsSequence
<1>9. \A x \in ToSet(t) : x.at \in first..(j - 1)
  <2>1. \A k \in 1..(j - first) : first + k - 1 \in first..(j - 1)
    BY <1>1, <1>3
  <2>2. ToSet(t) = {t[k] : k \in 1..(j - first)}
    BY <1>8, ToSetOfSequence
  <2> QED BY <1>7, <2>1, <2>2
<1>10. Sequence(<<>>) /\ ToSet(<<>>) = {}
  BY Empty DEF ToSet
<1> QED BY <1>5, <1>6, <1>8, <1>9, <1>10

LEMMA PlacesByMembers ==
    ASSUME NEW s, Sequence(s)
    PROVE  PlacesOf(s) = {x.at : x \in ToSet(s)}
BY ToSetOfSequence DEF PlacesOf

\* The declaration a definition completes is one of the same function.
LEMMA SameFunction ==
    ASSUME NEW lines, AsWritten(lines), NEW a \in DOMAIN lines, NEW i \in DOMAIN lines,
           NEW j \in DOMAIN lines, Closed(lines, a), j \in (a + 1)..End(lines, a),
           lines[j].kind = "fn", lines[i].kind = "define", lines[i].name = lines[j].name,
           lines[a].seen \in lines[i].ends
    PROVE  Function(lines, j) = Function(lines, i)
<1>1. lines[a].seen = lines[i].class
  BY DEF AsWritten, Tame, Closed
<1>2. Inside(lines, j) = {lines[i].class}
  BY <1>1 DEF AsWritten, Tame
<1>3. lines[i].sig = lines[j].sig
  BY DEF AsWritten, Tame
<1> QED BY <1>2, <1>3 DEF Function

LEMMA MethodAdded ==
    ASSUME NEW lines, NEW a, NEW ms, NEW m, GoodMethods(lines, a, ms), GoodMethod(lines, a, m)
    PROVE  GoodMethods(lines, a, Append(ms, m))
<1> DEFINE ds == Append(ms, m)
<1>1. Len(ms) \in Nat
  BY SequenceIsListed DEF GoodMethods
<1>2. /\ Sequence(ds) /\ Len(ds) = Len(ms) + 1
      /\ \A q \in 1..Len(ms) : ds[q] = ms[q]
      /\ ds[Len(ms) + 1] = m
  BY Appended DEF GoodMethods
<1> HIDE DEF ds
<1>3. \A q : q \in 1..Len(ds) <=> q \in 1..Len(ms) \/ q = Len(ms) + 1
  BY <1>1, <1>2
<1>4. GoodMethods(lines, a, ds)
  BY <1>2, <1>3 DEF GoodMethods
<1> QED BY <1>4 DEF ds

LEMMA DefinitionTakes ==
    ASSUME NEW a, NEW ms, NEW i \in 1..Len(L), NEW conditions, Sequence(L),
           L[i].kind = "define", L[a].seen \in L[i].ends, GoodMethods(L, a, ms),
           Sequence(conditions),
           \A x \in ToSet(conditions) : SpokenOf(L, x.at) = {Function(L, i)}
    PROVE  GoodMethods(L, a, Defined(ms, i, conditions))
<1> DEFINE open == {k \in DOMAIN ms : ms[k].name = L[i].name /\ ms[k].body = {}}
           Method(notes) == [name |-> L[i].name, at |-> i, body |-> {i}, notes |-> notes]
<1>1. Len(ms) \in Nat /\ DOMAIN ms = 1..Len(ms) /\ DOMAIN L = 1..Len(L) /\ Sequence(ms)
  BY SequenceIsListed DEF GoodMethods
<1>2. \A notes : /\ Method(notes).at = i /\ Method(notes).body # {}
                 /\ Method(notes).notes = notes
  OBVIOUS
<1>3. ASSUME NEW notes, Sequence(notes),
             AsWritten(L) => \A x \in ToSet(notes) : SpokenOf(L, x.at) = {Function(L, i)}
      PROVE  GoodMethod(L, a, Method(notes))
  <2> HIDE DEF Method
  <2>1. AsWritten(L) => \A p \in PlacesOf(notes) : SpokenOf(L, p) = {Function(L, i)}
    BY <1>3, PlacesByMembers
  <2> QED BY <1>2, <1>3, <2>1 DEF GoodMethod
<1>4. CASE open # {}
  <2> DEFINE k == Min(open)
             m == Method(ms[k].notes \o conditions)
  <2>1. k \in 1..Len(ms) /\ ms[k].name = L[i].name /\ ms[k].body = {}
    <3>1. open \in SUBSET Nat
      BY <1>1
    <3>2. Min(open) \in open
      <4> HIDE DEF open
      <4> QED BY <1>4, <3>1, Least DEF Min
    <3> QED BY <1>1, <3>2
  <2>2. Defined(ms, i, conditions) = [ms EXCEPT ![k] = m]
    BY <1>4 DEF Defined
  <2> HIDE DEF k, open
  <2>3. GoodMethod(L, a, ms[k])
    BY <2>1 DEF GoodMethods
  <2>4. Sequence(ms[k].notes) /\ Sequence(ms[k].notes \o conditions)
        /\ ToSet(ms[k].notes \o conditions) = ToSet(ms[k].notes) \cup ToSet(conditions)
    BY <2>3, Joined DEF GoodMethod
  <2>5. ASSUME AsWritten(L), NEW x \in ToSet(ms[k].notes)
        PROVE  SpokenOf(L, x.at) = {Function(L, i)}
    <3>1. x.at \in PlacesOf(ms[k].notes)
      BY <2>4, PlacesByMembers
    <3>2. SpokenOf(L, x.at) = {Function(L, ms[k].at)}
      BY <2>3, <2>5, <3>1 DEF GoodMethod
    <3>3. /\ a \in DOMAIN L /\ Closed(L, a) /\ ms[k].at \in DOMAIN L
          /\ ms[k].at \in (a + 1)..End(L, a)
          /\ L[ms[k].at].kind = "fn" /\ L[i].name = L[ms[k].at].name
      BY <2>1, <2>3 DEF GoodMethod
    <3>4. Function(L, ms[k].at) = Function(L, i)
      BY <1>1, <2>5, <3>3, SameFunction
    <3> QED BY <3>2, <3>4
  <2>6. GoodMethod(L, a, m)
    BY <1>3, <2>4, <2>5
  <2> HIDE DEF m
  <2> DEFINE ds == [ms EXCEPT ![k] = m]
  <2>7. /\ ds = [q \in 1..Len(ms) |-> ds[q]]
        /\ \A q \in 1..Len(ms) : ds[q] = IF q = k THEN m ELSE ms[q]
    BY <1>1, <2>1
  <2> HIDE DEF ds
  <2>8. Sequence(ds) /\ Len(ds) = Len(ms)
    BY <1>1, <2>7, ListedIsSequence
  <2>9. GoodMethods(L, a, ds)
    BY <2>6, <2>7, <2>8 DEF GoodMethods
  <2> QED BY <2>2, <2>9 DEF ds
<1>5. CASE open = {}
  <2> DEFINE m == Method(conditions)
  <2>1. Defined(ms, i, conditions) = Append(ms, m)
    BY <1>5 DEF Defined
  <2>2. GoodMethod(L, a, m)
    BY <1>3
  <2> HIDE DEF m
  <2> QED BY <2>1, <2>2, MethodAdded
<1> QED BY <1>4, <1>5

-----------------------------------------------------------------------------
(***************************************************************************)
(* The invariant: the methods of every class, and what waits for a method. *)
(***************************************************************************)
AreGood(cs, files) ==
    \A k \in 1..Len(cs) : GoodMethods(files[cs[k].file], cs[k].at, cs[k].methods)
AreNamed(cs, files) ==
    \A k \in 1..Len(cs) : cs[k].name = files[cs[k].file][cs[k].at].seen
AreTheirs(vs, cs) ==
    \A v \in ToSet(vs) : v.class \in 1..Len(cs) /\ v.method \in ToSet(cs[v.class].methods)

MeetInv ==
    /\ AreGood(classes, Files)
    /\ pc \in Scanning => /\ f \in 1..project.scanned /\ at \in Nat \ {0}
                          /\ AreNamed(classes, Files)
    /\ pc = "body" => /\ classes[Current].file = f
                      /\ BodyRead(L, classes[Current].at, at, close, pending)
    /\ pc = "done" => AreTheirs(verified, classes)

LEMMA FileIsRead ==
    ASSUME MergeInv, MeetInv, pc \in Scanning
    PROVE  /\ Sequence(L) /\ DOMAIN L = 1..Len(L) /\ Len(L) \in Nat
           /\ L = Files[f] /\ f \in 1..project.scanned /\ project.scanned \in Nat
<1>1. project \in Projects /\ f \in 1..project.scanned
  BY DEF MergeInv, MeetInv
<1>2. /\ project.scanned \in Nat /\ Sequence(project.files)
      /\ project.scanned <= Len(project.files)
      /\ \A g \in DOMAIN project.files : Sequence(project.files[g])
  BY <1>1, ProjectsAssumption
<1>3. Len(project.files) \in Nat /\ DOMAIN project.files = 1..Len(project.files)
  BY <1>2, SequenceIsListed
<1>4. f \in DOMAIN project.files
  BY <1>1, <1>2, <1>3
<1>5. Sequence(L)
  BY <1>2, <1>4 DEF L, Files
<1> QED BY <1>1, <1>2, <1>5, SequenceIsListed DEF L

\* One class changes its methods, or none.
LEMMA MethodsPut ==
    ASSUME NEW cs, NEW ds, NEW files, NEW q \in 1..Len(cs), NEW c, AreClasses(cs),
           AreGood(cs, files), AreNamed(cs, files), Keeps(c, cs[q]), Put(ds, cs, q, c),
           GoodMethods(files[c.file], c.at, c.methods)
    PROVE  /\ AreGood(ds, files) /\ AreNamed(ds, files)
           /\ Len(ds) = Len(cs) /\ ds[q].file = cs[q].file /\ ds[q].at = cs[q].at
<1>1. IsClass(c) /\ c.name = cs[q].name /\ c.file = cs[q].file /\ c.at = cs[q].at
  BY DEF Keeps
<1>2. /\ AreClasses(ds) /\ Len(ds) = Len(cs)
      /\ ds[q] = c /\ \A i \in 1..Len(cs) : i # q => ds[i] = cs[i]
  BY <1>1, ClassPut
<1>3. AreGood(ds, files)
  BY <1>2 DEF AreGood
<1>4. AreNamed(ds, files)
  BY <1>1, <1>2 DEF AreNamed
<1> QED BY <1>1, <1>2, <1>3, <1>4

\* Steps that read on in a body.
LEMMA BodyStep ==
    ASSUME MergeInv, MeetInv, pc = "body", at < close, at' = at + 1, NEW c,
           Put(classes', classes, Current, c), Keeps(c, classes[Current]),
           GoodMethods(L, c.at, c.methods), Sequence(pending'),
           AsWritten(L) => PlacesOf(pending') = Waiting(L, c.at, at),
           UNCHANGED <<project, pc, f, close>>
    PROVE  MeetInv'
<1>1. /\ AreClasses(classes) /\ AreGood(classes, Files) /\ AreNamed(classes, Files)
      /\ Len(classes) # 0
      /\ classes[Current].file = f /\ BodyRead(L, classes[Current].at, at, close, pending)
      /\ f \in 1..project.scanned /\ at \in Nat \ {0}
  BY DEF MergeInv, MeetInv, Scanning
<1>2. Len(classes) \in Nat /\ Current \in 1..Len(classes) /\ Current = Len(classes)
  BY <1>1, SequenceIsListed DEF AreClasses, Current
<1>3. c.file = f /\ c.at = classes[Current].at
  BY <1>1 DEF Keeps
<1>4. GoodMethods(Files[c.file], c.at, c.methods)
  BY <1>3 DEF L
<1>5. PICK ds : classes' = ds
  OBVIOUS
<1>6. Put(ds, classes, Current, c)
  BY <1>5
<1>7. /\ AreGood(ds, Files) /\ AreNamed(ds, Files) /\ Len(ds) = Len(classes)
      /\ ds[Current].file = classes[Current].file /\ ds[Current].at = classes[Current].at
  BY <1>1, <1>2, <1>4, <1>6, MethodsPut
<1>8. Current' = Current /\ Files' = Files /\ L' = L
  BY <1>2, <1>5, <1>7 DEF Current, Files, L
<1>9. BodyRead(L, c.at, at + 1, close, pending')
  <2>1. Sequence(L) /\ Len(L) \in Nat /\ DOMAIN L = 1..Len(L)
    BY FileIsRead DEF Scanning
  <2>2. c.at \in DOMAIN L /\ Closed(L, c.at) /\ close = End(L, c.at) /\ at \in (c.at + 1)..close
    BY <1>1, <1>3 DEF BodyRead
  <2>3. close \in (c.at + 1)..Len(L)
    BY <2>1, <2>2, EndInside
  <2>4. at + 1 \in (c.at + 1)..close /\ at + 1 - 1 = at
    BY <1>1, <2>1, <2>2, <2>3
  <2> QED BY <2>2, <2>4 DEF BodyRead
<1>10. /\ AreGood(classes', Files') /\ AreNamed(classes', Files')
       /\ classes'[Current'].file = f' /\ f' \in 1..project'.scanned /\ at' \in Nat \ {0}
  BY <1>1, <1>5, <1>7, <1>8
<1>11. BodyRead(L', classes'[Current'].at, at', close', pending')
  BY <1>3, <1>5, <1>7, <1>8, <1>9
<1> QED BY <1>10, <1>11 DEF MeetInv, Scanning

\* The class being read, and where in it the scanner is.
LEMMA InBody ==
    ASSUME MergeInv, MeetInv, pc = "body", at < close
    PROVE  \E a : /\ a = classes[Current].at
                  /\ IsClass(classes[Current]) /\ Put(classes, classes, Current, classes[Current])
                  /\ GoodMethods(L, a, classes[Current].methods)
                  /\ BodyRead(L, a, at, close, pending) /\ Sequence(pending)
                  /\ at \in DOMAIN L /\ at \in Nat /\ a \in Nat
                  /\ Sequence(L)
                  /\ AsWritten(L) => PlacesOf(pending) = Waiting(L, a, at - 1)
                  /\ Waiting(L, a, at) =
                        IF L[at].kind = "fn" THEN {}
                        ELSE Waiting(L, a, at - 1) \cup (IF IsCondition(L[at]) THEN {at} ELSE {})
<1> DEFINE a == classes[Current].at
<1>1. /\ AreClasses(classes) /\ AreGood(classes, Files) /\ Len(classes) # 0
      /\ classes[Current].file = f /\ BodyRead(L, a, at, close, pending)
  BY DEF MergeInv, MeetInv, Scanning
<1>2. Len(classes) \in Nat /\ Current \in 1..Len(classes) /\ DOMAIN classes = 1..Len(classes)
      /\ classes = [k \in 1..Len(classes) |-> classes[k]]
  BY <1>1, SequenceIsListed DEF AreClasses, Current
<1>3. IsClass(classes[Current]) /\ GoodMethods(L, a, classes[Current].methods)
  BY <1>1, <1>2 DEF AreClasses, AreGood, L
<1>4. Put(classes, classes, Current, classes[Current])
  BY <1>2 DEF Put
<1> HIDE DEF a
<1>5. Sequence(L) /\ Len(L) \in Nat /\ DOMAIN L = 1..Len(L)
  BY FileIsRead DEF Scanning
<1>6. a \in DOMAIN L /\ Closed(L, a) /\ close = End(L, a) /\ at \in (a + 1)..close
      /\ Sequence(pending) /\ (AsWritten(L) => PlacesOf(pending) = Waiting(L, a, at - 1))
  BY <1>1 DEF BodyRead
<1>7. close \in (a + 1)..Len(L)
  BY <1>5, <1>6, EndInside
<1>8. a \in Nat /\ at \in Nat /\ at > a /\ at \in DOMAIN L
  BY <1>5, <1>6, <1>7
<1>9. Waiting(L, a, at) =
        IF L[at].kind = "fn" THEN {}
        ELSE Waiting(L, a, at - 1) \cup (IF IsCondition(L[at]) THEN {at} ELSE {})
  BY <1>8, WaitingGrows
<1> QED BY <1>1, <1>3, <1>4, <1>5, <1>6, <1>8, <1>9 DEF a

LEMMA ReadNoteMeets == MergeInv /\ MeetInv /\ ReadNote => MeetInv'
<1> SUFFICES ASSUME MergeInv, MeetInv, ReadNote PROVE MeetInv'
  OBVIOUS
<1>1. /\ pc = "body" /\ at < close /\ at' = at + 1 /\ IsNote(L[at])
      /\ UNCHANGED <<project, pc, f, close>>
  BY DEF ReadNote
<1>2. PICK a : /\ a = classes[Current].at
               /\ IsClass(classes[Current]) /\ Put(classes, classes, Current, classes[Current])
               /\ GoodMethods(L, a, classes[Current].methods)
               /\ Sequence(pending)
               /\ at \in DOMAIN L
               /\ AsWritten(L) => PlacesOf(pending) = Waiting(L, a, at - 1)
               /\ Waiting(L, a, at) =
                    IF L[at].kind = "fn" THEN {}
                    ELSE Waiting(L, a, at - 1) \cup (IF IsCondition(L[at]) THEN {at} ELSE {})
  BY <1>1, InBody
<1>3. CASE L[at].kind = "note" /\ L[at].what = "invariant"
  <2> DEFINE e == Append(classes[Current].invariants, Contract(at))
             c == [classes[Current] EXCEPT !.invariants = e]
  <2>1. Put(classes', classes, Current, c) /\ pending' = pending
    BY <1>3 DEF ReadNote, Put
  <2> HIDE DEF e
  <2>2. Keeps(c, classes[Current]) /\ c.methods = classes[Current].methods
    BY <1>2, ClassChanges
  <2> HIDE DEF c
  <2>3. c.at = a /\ GoodMethods(L, c.at, c.methods)
    BY <1>2, <2>2 DEF Keeps
  <2>4. AsWritten(L) => PlacesOf(pending') = Waiting(L, c.at, at)
    BY <1>2, <1>3, <2>1, <2>3 DEF IsCondition
  <2>5. Sequence(pending')
    BY <1>2, <2>1
  <2> QED BY <1>1, <2>1, <2>2, <2>3, <2>4, <2>5, BodyStep
<1>4. CASE ~(L[at].kind = "note" /\ L[at].what = "invariant")
  <2>1. classes' = classes /\ pending' = Append(pending, Contract(at))
    BY <1>4 DEF ReadNote
  <2>2. Sequence(pending') /\ PlacesOf(pending') = PlacesOf(pending) \cup {at}
    <3>1. /\ Sequence(Append(pending, Contract(at)))
          /\ ToSet(Append(pending, Contract(at))) = ToSet(pending) \cup {Contract(at)}
      BY <1>2, Appended
    <3>2. Contract(at).at = at
      BY DEF Contract
    <3>3. PlacesOf(pending) = {x.at : x \in ToSet(pending)}
      BY <1>2, PlacesByMembers
    <3>4. PlacesOf(Append(pending, Contract(at))) = {x.at : x \in ToSet(Append(pending, Contract(at)))}
      BY <3>1, PlacesByMembers
    <3> QED BY <2>1, <3>1, <3>2, <3>3, <3>4
  <2>3. ASSUME AsWritten(L) PROVE PlacesOf(pending') = Waiting(L, a, at)
    <3>1. L[at].kind = "note"
      BY <1>1, <1>2, <2>3 DEF AsWritten, Tame, IsNote
    <3>2. IsCondition(L[at])
      BY <1>4, <3>1 DEF IsCondition
    <3> QED BY <1>2, <2>2, <2>3, <3>1, <3>2
  <2>4. Keeps(classes[Current], classes[Current]) /\ Put(classes', classes, Current, classes[Current])
    BY <1>2, <2>1 DEF Keeps
  <2>5. GoodMethods(L, classes[Current].at, classes[Current].methods)
        /\ (AsWritten(L) => PlacesOf(pending') = Waiting(L, classes[Current].at, at))
    BY <1>2, <2>3
  <2> QED BY <1>1, <2>2, <2>4, <2>5, BodyStep
<1> QED BY <1>3, <1>4

LEMMA ReadOtherMeets == MergeInv /\ MeetInv /\ ReadOther => MeetInv'
<1> SUFFICES ASSUME MergeInv, MeetInv, ReadOther PROVE MeetInv'
  OBVIOUS
<1>1. /\ pc = "body" /\ at < close /\ at' = at + 1 /\ ~IsNote(L[at]) /\ L[at].kind # "fn"
      /\ UNCHANGED <<project, pc, f, close, pending, classes>>
  BY DEF ReadOther
<1>2. PICK a : /\ a = classes[Current].at
               /\ IsClass(classes[Current]) /\ Put(classes, classes, Current, classes[Current])
               /\ GoodMethods(L, a, classes[Current].methods)
               /\ Sequence(pending)
               /\ AsWritten(L) => PlacesOf(pending) = Waiting(L, a, at - 1)
               /\ Waiting(L, a, at) =
                    IF L[at].kind = "fn" THEN {}
                    ELSE Waiting(L, a, at - 1) \cup (IF IsCondition(L[at]) THEN {at} ELSE {})
  BY <1>1, InBody
<1>3. ~IsCondition(L[at])
  BY <1>1 DEF IsCondition, IsNote
<1>4. Keeps(classes[Current], classes[Current]) /\ Put(classes', classes, Current, classes[Current])
  BY <1>1, <1>2 DEF Keeps
<1>5. /\ GoodMethods(L, classes[Current].at, classes[Current].methods) /\ Sequence(pending')
      /\ AsWritten(L) => PlacesOf(pending') = Waiting(L, classes[Current].at, at)
  BY <1>1, <1>2, <1>3
<1> QED BY <1>1, <1>4, <1>5, BodyStep

LEMMA ReadMethodMeets == MergeInv /\ MeetInv /\ ReadMethod => MeetInv'
<1> SUFFICES ASSUME MergeInv, MeetInv, ReadMethod PROVE MeetInv'
  OBVIOUS
<1> DEFINE m == [name |-> L[at].name, at |-> at, body |-> IF L[at].inline THEN {at} ELSE {},
                 notes |-> pending]
           ms == Append(classes[Current].methods, m)
           c == [classes[Current] EXCEPT !.methods = ms]
<1>1. /\ pc = "body" /\ at < close /\ at' = at + 1 /\ L[at].kind = "fn"
      /\ UNCHANGED <<project, pc, f, close>> /\ pending' = <<>>
  BY DEF ReadMethod
<1>2. Put(classes', classes, Current, c)
  BY DEF ReadMethod, Put
<1>3. PICK a : /\ a = classes[Current].at
               /\ IsClass(classes[Current])
               /\ GoodMethods(L, a, classes[Current].methods)
               /\ BodyRead(L, a, at, close, pending)
               /\ Sequence(L)
               /\ Waiting(L, a, at) =
                    IF L[at].kind = "fn" THEN {}
                    ELSE Waiting(L, a, at - 1) \cup (IF IsCondition(L[at]) THEN {at} ELSE {})
  BY <1>1, InBody
<1>4. m.at = at /\ m.name = L[at].name /\ m.notes = pending
  OBVIOUS
<1> HIDE DEF m
<1>5. GoodMethod(L, a, m)
  BY <1>1, <1>3, <1>4, MethodTakes
<1>6. GoodMethods(L, a, ms)
  BY <1>3, <1>5, MethodAdded
<1> HIDE DEF ms
<1>7. Keeps(c, classes[Current]) /\ c.methods = ms
  BY <1>3, ClassChanges
<1> HIDE DEF c
<1>8. c.at = a /\ GoodMethods(L, c.at, c.methods)
  BY <1>3, <1>6, <1>7 DEF Keeps
<1>9. Sequence(pending') /\ PlacesOf(pending') = {}
  <2>1. Sequence(<<>>) /\ Len(<<>>) = 0
    BY Empty
  <2>2. 1..0 = {}
    OBVIOUS
  <2> QED BY <1>1, <2>1, <2>2 DEF PlacesOf
<1>10. PlacesOf(pending') = Waiting(L, c.at, at)
  BY <1>1, <1>3, <1>8, <1>9
<1> QED BY <1>1, <1>2, <1>7, <1>8, <1>9, <1>10, BodyStep

LEMMA BodyStarts ==
    ASSUME NEW lines, Sequence(lines), NEW a \in 1..Len(lines), Closed(lines, a),
           NEW notes, Sequence(notes), PlacesOf(notes) = {}
    PROVE  BodyRead(lines, a, a + 1, End(lines, a), notes)
<1>1. End(lines, a) \in (a + 1)..Len(lines) /\ DOMAIN lines = 1..Len(lines)
  BY EndInside, SequenceIsListed
<1>2. a + 1 \in (a + 1)..End(lines, a) /\ (a + 1) - 1 = a /\ (a + 1)..a = {}
  BY <1>1
<1>3. Waiting(lines, a, (a + 1) - 1) = {}
  BY <1>2 DEF Waiting
<1> QED BY <1>1, <1>2, <1>3 DEF BodyRead

LEMMA OpenClassMeets == MergeInv /\ MeetInv /\ OpenClass => MeetInv'
<1> SUFFICES ASSUME MergeInv, MeetInv, OpenClass PROVE MeetInv'
  OBVIOUS
<1> DEFINE c == [name |-> L[at].seen, file |-> f, at |-> at, fields |-> Fields(L, at),
                 methods |-> <<>>, invariants |-> <<>>]
<1>1. /\ pc = "classes" /\ pc' = "body" /\ at <= Len(L) /\ Closed(L, at)
      /\ close' = End(L, at) /\ at' = at + 1 /\ pending' = <<>>
      /\ classes' = Append(classes, c) /\ UNCHANGED <<project, f>>
  BY DEF OpenClass
<1>2. /\ AreClasses(classes) /\ AreGood(classes, Files) /\ AreNamed(classes, Files)
      /\ at \in Nat \ {0}
  BY <1>1 DEF MergeInv, MeetInv, Scanning
<1>3. /\ Sequence(L) /\ DOMAIN L = 1..Len(L) /\ Len(L) \in Nat /\ L = Files[f]
      /\ f \in 1..project.scanned
  BY <1>1, FileIsRead DEF Scanning
<1>4. c.name = L[at].seen /\ c.file = f /\ c.at = at /\ c.methods = <<>>
  OBVIOUS
<1> HIDE DEF c
<1>5. PICK ds : classes' = ds
  OBVIOUS
<1>6. /\ Len(classes) \in Nat /\ Len(ds) = Len(classes) + 1
      /\ \A k \in 1..Len(classes) : ds[k] = classes[k]
      /\ ds[Len(classes) + 1] = c
  <2>1. Sequence(classes) /\ Len(classes) \in Nat
    BY <1>2, SequenceIsListed DEF AreClasses
  <2>2. /\ Len(Append(classes, c)) = Len(classes) + 1
        /\ \A k \in 1..Len(classes) : Append(classes, c)[k] = classes[k]
        /\ Append(classes, c)[Len(classes) + 1] = c
    BY <2>1, Appended
  <2>3. ds = Append(classes, c)
    BY <1>1, <1>5
  <2> QED BY <2>1, <2>2, <2>3
<1>7. \A k : k \in 1..Len(ds) <=> k \in 1..Len(classes) \/ k = Len(classes) + 1
  BY <1>6
<1>8. Sequence(<<>>) /\ Len(<<>>) = 0
  BY Empty
<1>9. 1..0 = {}
  OBVIOUS
<1>10. GoodMethods(L, at, <<>>)
  BY <1>8, <1>9 DEF GoodMethods
<1>11. AreGood(ds, Files)
  BY <1>2, <1>3, <1>4, <1>6, <1>7, <1>10 DEF AreGood
<1>12. AreNamed(ds, Files)
  BY <1>2, <1>3, <1>4, <1>6, <1>7 DEF AreNamed
<1>13. BodyRead(L, at, at + 1, close', pending')
  <2>1. at \in 1..Len(L)
    BY <1>1, <1>2, <1>3
  <2>2. PlacesOf(<<>>) = {}
    BY <1>8, <1>9 DEF PlacesOf
  <2>3. BodyRead(L, at, at + 1, End(L, at), <<>>)
    BY <1>1, <1>3, <1>8, <2>1, <2>2, BodyStarts
  <2> QED BY <1>1, <2>3
<1>14. Files' = Files /\ L' = L /\ Current' = Len(classes) + 1
  BY <1>1, <1>5, <1>6 DEF Files, L, Current
<1>15. classes'[Current'] = c
  BY <1>5, <1>6, <1>14
<1>16. BodyRead(L', classes'[Current'].at, at', close', pending')
  BY <1>1, <1>4, <1>13, <1>14, <1>15
<1>17. at' \in Nat \ {0} /\ f' \in 1..project'.scanned /\ classes'[Current'].file = f'
  BY <1>1, <1>2, <1>3, <1>4, <1>15
<1>18. AreGood(classes', Files') /\ AreNamed(classes', Files')
  BY <1>5, <1>11, <1>12, <1>14
<1> QED BY <1>1, <1>16, <1>17, <1>18 DEF MeetInv, Scanning

\* Steps between bodies that leave the classes alone.
LEMMA BetweenMeets ==
    ASSUME MergeInv, MeetInv, UNCHANGED <<project, classes>>, pc' # "body", pc' # "done",
           pc' \in Scanning => /\ pc \in Scanning /\ at' \in Nat \ {0}
                               /\ f' \in 1..project.scanned
    PROVE  MeetInv'
BY DEF MeetInv, Files

LEMMA CloseClassMeets == MergeInv /\ MeetInv /\ CloseClass => MeetInv'
<1> SUFFICES ASSUME MergeInv, MeetInv, CloseClass PROVE MeetInv'
  OBVIOUS
<1>1. /\ pc = "body" /\ pc' = "classes" /\ at' = classes[Current].at + 1
      /\ UNCHANGED <<project, f, classes>>
  BY DEF CloseClass
<1>2. Len(L) \in Nat /\ DOMAIN L = 1..Len(L) /\ f \in 1..project.scanned
  BY <1>1, FileIsRead DEF Scanning
<1>3. classes[Current].at \in DOMAIN L
  BY <1>1 DEF MeetInv, BodyRead
<1>4. at' \in Nat \ {0} /\ f' \in 1..project.scanned
  BY <1>1, <1>2, <1>3
<1> QED BY <1>1, <1>4, BetweenMeets DEF Scanning

LEMMA LinesMeet == MergeInv /\ MeetInv /\ (SkipLine \/ ReadDefinitions) => MeetInv'
<1> SUFFICES ASSUME MergeInv, MeetInv, SkipLine \/ ReadDefinitions PROVE MeetInv'
  OBVIOUS
<1>1. /\ pc = "classes" /\ pc' \in {"classes", "definitions"} /\ at' \in {at + 1, 1}
      /\ UNCHANGED <<project, f, classes>>
  BY DEF SkipLine, ReadDefinitions
<1>2. at \in Nat \ {0} /\ f \in 1..project.scanned
  BY <1>1 DEF MeetInv, Scanning
<1>3. at' \in Nat \ {0} /\ f' \in 1..project.scanned
  BY <1>1, <1>2
<1> QED BY <1>1, <1>3, BetweenMeets DEF Scanning

LEMMA NextFileMeets == MergeInv /\ MeetInv /\ NextFile => MeetInv'
<1> SUFFICES ASSUME MergeInv, MeetInv, NextFile PROVE MeetInv'
  OBVIOUS
<1>1. /\ pc \in {"classes", "definitions"} /\ at' = 1 /\ UNCHANGED <<project, classes>>
      /\ IF f < project.scanned THEN f' = f + 1 /\ pc' = "classes"
                                ELSE f' = f /\ pc' \in {"clang", "verify"}
  BY DEF NextFile
<1>2. f \in 1..project.scanned /\ project.scanned \in Nat
  BY <1>1, FileIsRead DEF Scanning
<1>3. f' \in 1..project.scanned /\ at' \in Nat \ {0}
  BY <1>1, <1>2
<1> QED BY <1>1, <1>3, BetweenMeets DEF Scanning

LEMMA ClangMeets == MergeInv /\ MeetInv /\ (RunClang \/ ClangDone \/ Merged) => MeetInv'
<1> SUFFICES ASSUME MergeInv, MeetInv, RunClang \/ ClangDone \/ Merged PROVE MeetInv'
  OBVIOUS
<1>1. pc' \in {"clang", "merge", "verify"} /\ UNCHANGED <<project, classes>>
  BY DEF RunClang, ClangDone, Merged
<1> QED BY <1>1, BetweenMeets DEF Scanning

LEMMA AttachedTakes ==
    ASSUME NEW c, IsClass(c), NEW i \in 1..Len(L), Sequence(L), L[i].kind = "define",
           L[c.at].seen \in L[i].ends, GoodMethods(L, c.at, c.methods)
    PROVE  GoodMethods(L, c.at, Attached(c, i).methods)
<1> DEFINE read == IF L[i].whole /\ c.name = L[i].class THEN NotesBefore(L, i) ELSE <<>>
           invariants == {x \in ToSet(read) : IsInvariant(x)}
           conditions == Only(read, ToSet(read) \ invariants)
           e == c.invariants \o Only(read, invariants)
           d == Defined(c.methods, i, conditions)
<1>1. Attached(c, i) = [c EXCEPT !.invariants = e, !.methods = d]
  BY Zenon DEF Attached
<1>2. Sequence(read) /\ \A x \in ToSet(read) : SpokenOf(L, x.at) = {Function(L, i)}
  <2>1. LET t == NotesBefore(L, i)
        IN  Sequence(t) /\ \A x \in ToSet(t) : SpokenOf(L, x.at) = {Function(L, i)}
    BY NotesStandBefore DEF Functions
  <2>2. Sequence(<<>>) /\ ToSet(<<>>) = {}
    BY Empty DEF ToSet
  <2> QED BY <2>1, <2>2
<1>3. Sequence(conditions) /\ ToSet(conditions) \subseteq ToSet(read)
  BY <1>2, OnlyMembers
<1> HIDE DEF read, conditions, e
<1>4. GoodMethods(L, c.at, d)
  BY <1>2, <1>3, DefinitionTakes
<1> HIDE DEF d
<1>5. [c EXCEPT !.invariants = e, !.methods = d].methods = d
  BY DEF IsClass, ClassKeys
<1>6. Attached(c, i).methods = d
  BY <1>1, <1>5, Zenon
<1> QED BY <1>4, <1>6

LEMMA AttachDefinitionMeets == MergeInv /\ MeetInv /\ AttachDefinition => MeetInv'
<1> SUFFICES ASSUME MergeInv, MeetInv, AttachDefinition PROVE MeetInv'
  OBVIOUS
<1> DEFINE IsDefined(k) == /\ L[at].kind = "define" /\ classes[k].file = f
                        /\ classes[k].name \in L[at].ends
<1>1. /\ pc = "definitions" /\ pc' = pc /\ at <= Len(L) /\ at' = at + 1
      /\ classes' = [k \in DOMAIN classes |->
                        IF IsDefined(k) THEN Attached(classes[k], at) ELSE classes[k]]
      /\ UNCHANGED <<project, f>>
  BY DEF AttachDefinition
<1>2. /\ AreClasses(classes) /\ AreGood(classes, Files) /\ AreNamed(classes, Files)
      /\ at \in Nat \ {0}
  BY <1>1 DEF MergeInv, MeetInv, Scanning
<1>3. /\ Sequence(L) /\ Len(L) \in Nat /\ L = Files[f] /\ f \in 1..project.scanned
  BY <1>1, FileIsRead DEF Scanning
<1>4. at \in 1..Len(L)
  BY <1>1, <1>2, <1>3
<1>5. Len(classes) \in Nat /\ DOMAIN classes = 1..Len(classes)
  BY <1>2, SequenceIsListed DEF AreClasses
<1>6. PICK ds : classes' = ds
  OBVIOUS
<1>7. /\ ds = [k \in 1..Len(classes) |-> ds[k]]
      /\ \A k \in 1..Len(classes) : ds[k] = IF IsDefined(k) THEN Attached(classes[k], at) ELSE classes[k]
  BY <1>1, <1>5, <1>6
<1>8. Len(ds) = Len(classes)
  BY <1>5, <1>7, ListedIsSequence
<1>9. ASSUME NEW k \in 1..Len(classes)
      PROVE  /\ ds[k].name = classes[k].name
             /\ ds[k].file = classes[k].file /\ ds[k].at = classes[k].at
             /\ GoodMethods(Files[classes[k].file], classes[k].at, ds[k].methods)
  <2>1. /\ IsClass(classes[k])
        /\ GoodMethods(Files[classes[k].file], classes[k].at, classes[k].methods)
    BY <1>2 DEF AreClasses, AreGood
  <2>2. CASE IsDefined(k)
    <3>1. L[classes[k].at].seen \in L[at].ends /\ Files[classes[k].file] = L
      BY <1>2, <1>3, <2>2 DEF AreNamed
    <3>2. ds[k] = Attached(classes[k], at)
      BY <1>7, <2>2
    <3>3. Keeps(Attached(classes[k], at), classes[k])
      BY <2>1, AttachedKeeps
    <3>4. GoodMethods(L, classes[k].at, Attached(classes[k], at).methods)
      BY <1>3, <1>4, <2>1, <2>2, <3>1, AttachedTakes
    <3> QED BY <3>1, <3>2, <3>3, <3>4 DEF Keeps
  <2>3. CASE ~IsDefined(k)
    <3>1. ds[k] = classes[k]
      BY <1>7, <2>3
    <3> QED BY <2>1, <3>1
  <2> QED BY <2>2, <2>3
<1> HIDE DEF IsDefined
<1>10. AreGood(ds, Files) /\ AreNamed(ds, Files)
  BY <1>2, <1>8, <1>9 DEF AreGood, AreNamed
<1>11. Files' = Files
  BY <1>1 DEF Files
<1>12. AreGood(classes', Files') /\ AreNamed(classes', Files')
  BY <1>6, <1>10, <1>11
<1>13. at' \in Nat \ {0} /\ f' \in 1..project'.scanned
  BY <1>1, <1>2, <1>3
<1> QED BY <1>1, <1>12, <1>13 DEF MeetInv

LEMMA MergeRecordMeets == MergeInv /\ MeetInv /\ MergeRecord => MeetInv'
<1> SUFFICES ASSUME MergeInv, MeetInv, MergeRecord PROVE MeetInv'
  OBVIOUS
<1> DEFINE r == records[n + 1]
           S == Known(r.name)
<1>1. pc = "merge" /\ UNCHANGED <<project, pc>>
  BY DEF MergeRecord
<1>2. AreClasses(classes) /\ AreGood(classes, Files)
  BY DEF MergeInv, MeetInv
<1>3. Len(classes) \in Nat /\ DOMAIN classes = 1..Len(classes)
  BY <1>2, SequenceIsListed DEF AreClasses
<1>4. S \in SUBSET (0..Len(classes)) /\ S \subseteq 1..Len(classes)
  BY <1>3 DEF Known
<1> HIDE DEF S
<1>5. PICK ds : classes' = ds
  OBVIOUS
<1>6. AreGood(ds, Files)
  <2>1. CASE S # {}
    <3> DEFINE q == Max(S)
               c == [classes[q] EXCEPT !.fields = classes[q].fields \cup r.fields]
    <3>1. q \in 1..Len(classes)
      BY <1>3, <1>4, <2>1, Greatest
    <3>2. Put(ds, classes, q, c)
      BY <1>5, <2>1 DEF MergeRecord, S, Put
    <3> HIDE DEF q
    <3>3. /\ IsClass(c) /\ c.file = classes[q].file /\ c.at = classes[q].at
          /\ c.methods = classes[q].methods
      <4>1. IsClass(classes[q])
        BY <1>2, <3>1 DEF AreClasses
      <4> QED BY <4>1, FieldsChange
    <3> HIDE DEF c
    <3>4. /\ Len(ds) = Len(classes) /\ ds[q] = c
          /\ \A i \in 1..Len(classes) : i # q => ds[i] = classes[i]
      BY <1>2, <3>1, <3>2, <3>3, ClassPut
    <3>5. \A i \in 1..Len(classes) : /\ ds[i].file = classes[i].file /\ ds[i].at = classes[i].at
                                     /\ ds[i].methods = classes[i].methods
      BY <3>3, <3>4
    <3> QED BY <1>2, <3>4, <3>5 DEF AreGood
  <2>2. CASE S = {}
    <3> DEFINE c == [name |-> r.name, file |-> 0, at |-> r.line, fields |-> r.fields,
                     methods |-> <<>>, invariants |-> <<>>]
    <3>1. ds = Append(classes, c)
      BY <1>5, <2>2 DEF MergeRecord, S
    <3>2. c.methods = <<>>
      OBVIOUS
    <3> HIDE DEF c
    <3>3. /\ Len(ds) = Len(classes) + 1 /\ \A i \in 1..Len(classes) : ds[i] = classes[i]
          /\ ds[Len(classes) + 1] = c
      BY <1>2, <3>1, Appended DEF AreClasses
    <3>4. \A i : i \in 1..Len(ds) <=> i \in 1..Len(classes) \/ i = Len(classes) + 1
      BY <1>3, <3>3
    <3>5. Sequence(<<>>) /\ Len(<<>>) = 0
      BY Empty
    <3>6. 1..0 = {}
      OBVIOUS
    <3>7. GoodMethods(Files[c.file], c.at, c.methods)
      BY <3>2, <3>5, <3>6 DEF GoodMethods
    <3> QED BY <1>2, <3>3, <3>4, <3>7 DEF AreGood
  <2> QED BY <2>1, <2>2
<1>7. AreGood(classes', Files')
  BY <1>1, <1>5, <1>6 DEF Files
<1> QED BY <1>1, <1>7 DEF MeetInv, Scanning

LEMMA VerifyProjectMeets == MergeInv /\ MeetInv /\ VerifyProject => MeetInv'
<1> SUFFICES ASSUME MergeInv, MeetInv, VerifyProject PROVE MeetInv'
  OBVIOUS
<1> DEFINE Of(k) == Only(classes[k].methods, {m \in ToSet(classes[k].methods) : Verifiable(m)})
           Part(k) == [i \in DOMAIN Of(k) |-> [class |-> k, method |-> Of(k)[i]]]
           parts == [k \in DOMAIN classes |-> Part(k)]
           U == {v \in [class : 1..Len(classes), method : UNION {ToSet(classes[k].methods) :
                            k \in 1..Len(classes)}] : v.method \in ToSet(classes[v.class].methods)}
<1>1. pc' = "done" /\ UNCHANGED <<project, classes>>
  BY DEF VerifyProject
<1>2. verified' = FlattenSeq(parts)
  BY Zenon DEF VerifyProject
<1>3. AreClasses(classes) /\ AreGood(classes, Files)
  BY DEF MergeInv, MeetInv
<1>4. Len(classes) \in Nat /\ DOMAIN classes = 1..Len(classes)
  BY <1>3, SequenceIsListed DEF AreClasses
<1>5. ASSUME NEW k \in 1..Len(classes)
      PROVE  Sequence(Part(k)) /\ ToSet(Part(k)) \subseteq U
  <2>1. Sequence(classes[k].methods)
    BY <1>3 DEF AreGood, GoodMethods
  <2>2. Sequence(Of(k)) /\ ToSet(Of(k)) \subseteq ToSet(classes[k].methods)
    BY <2>1, OnlyMembers
  <2> HIDE DEF Of
  <2>3. /\ Len(Of(k)) \in Nat /\ DOMAIN Of(k) = 1..Len(Of(k))
        /\ ToSet(Of(k)) = {Of(k)[i] : i \in 1..Len(Of(k))}
    BY <2>2, SequenceIsListed, ToSetOfSequence
  <2>4. /\ Part(k) = [i \in 1..Len(Of(k)) |-> Part(k)[i]]
        /\ \A i \in 1..Len(Of(k)) : Part(k)[i] = [class |-> k, method |-> Of(k)[i]]
    BY <2>3
  <2> HIDE DEF Part
  <2>5. Sequence(Part(k)) /\ Len(Part(k)) = Len(Of(k))
    BY <2>3, <2>4, ListedIsSequence
  <2>6. ToSet(Part(k)) = {Part(k)[i] : i \in 1..Len(Of(k))}
    BY <2>5, ToSetOfSequence
  <2>7. \A i \in 1..Len(Of(k)) : Part(k)[i] \in U
    BY <2>2, <2>3, <2>4
  <2> QED BY <2>5, <2>6, <2>7
<1> HIDE DEF Of, Part
<1>6. parts = [k \in 1..Len(classes) |-> parts[k]] /\ \A k \in 1..Len(classes) : parts[k] = Part(k)
  BY <1>4
<1> HIDE DEF parts
<1>7. Sequence(parts) /\ Len(parts) = Len(classes)
  BY <1>4, <1>6, ListedIsSequence
<1>8. \A k \in 1..Len(parts) : Sequence(parts[k]) /\ ToSet(parts[k]) \subseteq U
  BY <1>5, <1>6, <1>7
<1>9. \A v \in U : v.class \in 1..Len(classes) /\ v.method \in ToSet(classes[v.class].methods)
  OBVIOUS
<1> HIDE DEF U
<1>10. ToSet(FlattenSeq(parts)) \subseteq U
  BY <1>7, <1>8, Flattened
<1>11. AreTheirs(verified', classes)
  BY <1>2, <1>9, <1>10 DEF AreTheirs
<1>12. AreTheirs(verified', classes') /\ AreGood(classes', Files')
  BY <1>1, <1>3, <1>11 DEF Files
<1> QED BY <1>1, <1>12 DEF MeetInv, Scanning

LEMMA MeetInductive == MergeInv /\ MeetInv /\ [Next]_vars => MeetInv'
<1> SUFFICES ASSUME MergeInv, MeetInv, [Next]_vars PROVE MeetInv'
  OBVIOUS
<1>1. CASE OpenClass
  BY <1>1, OpenClassMeets
<1>2. CASE SkipLine \/ ReadDefinitions
  BY <1>2, LinesMeet
<1>3. CASE ReadNote
  BY <1>3, ReadNoteMeets
<1>4. CASE ReadMethod
  BY <1>4, ReadMethodMeets
<1>5. CASE ReadOther
  BY <1>5, ReadOtherMeets
<1>6. CASE CloseClass
  BY <1>6, CloseClassMeets
<1>7. CASE AttachDefinition
  BY <1>7, AttachDefinitionMeets
<1>8. CASE NextFile
  BY <1>8, NextFileMeets
<1>9. CASE RunClang \/ ClangDone \/ Merged
  BY <1>9, ClangMeets
<1>10. CASE MergeRecord
  BY <1>10, MergeRecordMeets
<1>11. CASE VerifyProject
  BY <1>11, VerifyProjectMeets
<1>12. CASE UNCHANGED vars
  BY <1>12 DEF vars, MeetInv, Files, L, Current
<1> QED BY <1>1, <1>2, <1>3, <1>4, <1>5, <1>6, <1>7, <1>8, <1>9, <1>10, <1>11, <1>12 DEF Next

\* Whatever the files and whatever Clang makes of them, no method is verified against
\* conditions of another one, and none that is declared after a condition loses it, in
\* every file without the constructs that the scanner is known to mistake.
THEOREM ContractsMeetBodies == Spec => []BodiesMeetTheirContracts
<1>1. Init => MergeInv /\ MeetInv
  <2>1. Sequence(<<>>) /\ Len(<<>>) = 0 /\ 1..0 = {}
    BY Empty
  <2>2. Init => MergeInv
    BY <2>1 DEF Init, MergeInv, AreClasses, AreScanned, Scanning, Merging
  <2>3. Init => 1 \in 1..project.scanned
    <3>1. Init => project.scanned \in Nat \ {0}
      BY ProjectsAssumption DEF Init
    <3> QED BY <3>1
  <2> QED BY <2>1, <2>2, <2>3 DEF Init, MeetInv, AreGood, AreNamed
<1>2. MeetInv => BodiesMeetTheirContracts
  <2> SUFFICES ASSUME MeetInv, pc = "done", NEW v \in ToSet(verified),
                      AsWritten(Files[classes[v.class].file])
               PROVE  LET c == classes[v.class]
                          lines == Files[c.file]
                          m == v.method
                      IN  /\ \A i \in NotesOf(m) : SpokenOf(lines, i) = {Function(lines, m.at)}
                          /\ \A i \in (c.at + 1)..m.at :
                                /\ lines[i].kind = "note" /\ lines[i].what # "invariant"
                                /\ lines[m.at].kind = "fn"
                                /\ SpokenOf(lines, i) = {Function(lines, m.at)}
                                => i \in NotesOf(m)
    BY DEF BodiesMeetTheirContracts, AsWritten
  <2>1. v.class \in 1..Len(classes) /\ v.method \in ToSet(classes[v.class].methods)
    BY DEF MeetInv, AreTheirs
  <2>2. GoodMethods(Files[classes[v.class].file], classes[v.class].at, classes[v.class].methods)
    BY <2>1 DEF MeetInv, AreGood
  <2>3. GoodMethod(Files[classes[v.class].file], classes[v.class].at, v.method)
    BY <2>1, <2>2, ToSetOfSequence DEF GoodMethods
  <2>4. NotesOf(v.method) = PlacesOf(v.method.notes)
    BY <2>3, SequenceIsListed DEF NotesOf, PlacesOf, GoodMethod
  <2> QED BY <2>3, <2>4 DEF GoodMethod, IsCondition
<1> QED BY <1>1, <1>2, MergeInductive, MeetInductive, PTL DEF Spec
==============================================================================
