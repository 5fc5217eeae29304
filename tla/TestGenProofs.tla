---------------------------- MODULE TestGenProofs ----------------------------
(***************************************************************************)
(* Proofs about TestGen, for any classes, values, seeds and steps.         *)
(***************************************************************************)
EXTENDS TestGen, FiniteSetTheorems, SequenceTheorems, WellFoundedInduction, TLAPS

CallSet == [name : Names, arg : Nat]
Whys == {NoFailure, "empty", "range"}

\* While a case runs, the simulated size is the count of its calls.
SizeIsCounted ==
    failure = NoFailure => size = SizeBefore(ops, Len(ops) + 1)

\* Calls break a precondition at the last position if a failure was noted, and
\* nowhere else.
Faithful(calls, why) ==
    \A i \in DOMAIN calls : Violates(calls, i) <=> (why # NoFailure /\ i = Len(calls))

\* What a container of n elements cannot serve.
Refused(call, n) ==
    \/ call.name \in (Removals \cup Accesses) \ Lookups /\ n <= 0
    \/ call.name = "get" /\ call.arg >= n

\* A case, running or finished: simulated faithfully, never below the size 0, and
\* failed by a call of the right kind.
GoodRun(calls, why) ==
    /\ calls \in Seq(CallSet)
    /\ why \in Whys
    /\ Faithful(calls, why)
    /\ \A i \in DOMAIN calls : SizeBefore(calls, i) >= 0
    /\ why # NoFailure => calls # <<>>
    /\ why = "empty" => Last(calls).name \in (Removals \cup Accesses) \ Lookups
    /\ why = "range" => Last(calls).name = "get"

CaseSet == [ops : Seq(CallSet), failure : Whys, minimized : Seq(CallSet)]

CaseOK(case) ==
    /\ GoodRun(case.ops, case.failure)
    /\ case.minimized = Minimize(case.ops, case.failure)

CasesOK ==
    /\ cases \in Seq(CaseSet)
    /\ \A i \in DOMAIN cases : CaseOK(cases[i])
    /\ pc \in {"contracts", "case"} => Len(cases) < Seeds
    /\ pc \in {"report", "test", "done"} => Len(cases) = Seeds
    /\ Failing # {} => \E i \in Failing : \A j \in Failing : i <= j

IInv == /\ TypeOK
        /\ capacity > 0
        /\ GoodRun(ops, failure)
        /\ SizeIsCounted
        /\ CasesOK

-----------------------------------------------------------------------------
(***************************************************************************)
(* Counting calls.                                                         *)
(***************************************************************************)

\* A count is a natural number.
LEMMA CallsType ==
    ASSUME NEW seq, NEW names, NEW i \in Nat \ {0}
    PROVE  /\ IsFiniteSet({j \in 1 .. i - 1 : seq[j].name \in names})
           /\ Calls(seq, names, i) \in Nat
<1>1. IsFiniteSet(1 .. i - 1)
  BY FS_Interval
<1>2. IsFiniteSet({j \in 1 .. i - 1 : seq[j].name \in names})
  BY <1>1, FS_Subset
<1> QED BY <1>2, FS_CardinalityType DEF Calls

\* Calls appended later do not change the count of those before.
LEMMA CallsPrefix ==
    ASSUME NEW seq \in Seq(CallSet), NEW call \in CallSet, NEW names,
           NEW i \in 1 .. Len(seq) + 1
    PROVE  Calls(Append(seq, call), names, i) = Calls(seq, names, i)
<1>1. \A j \in 1 .. i - 1 : Append(seq, call)[j] = seq[j]
  BY AppendProperties
<1>2. {j \in 1 .. i - 1 : Append(seq, call)[j].name \in names}
        = {j \in 1 .. i - 1 : seq[j].name \in names}
  BY <1>1
<1> QED BY <1>2 DEF Calls

\* One position more counts one call more, if its name is counted.
LEMMA CallsStep ==
    ASSUME NEW seq, NEW names, NEW i \in Nat \ {0}
    PROVE  Calls(seq, names, i + 1)
             = Calls(seq, names, i) + (IF seq[i].name \in names THEN 1 ELSE 0)
<1> DEFINE before == {j \in 1 .. i - 1 : seq[j].name \in names}
           upTo == {j \in 1 .. i : seq[j].name \in names}
<1>1. IF seq[i].name \in names THEN upTo = before \cup {i} ELSE upTo = before
  OBVIOUS
<1>2. IsFiniteSet(before) /\ Cardinality(before) \in Nat /\ i \notin before
  <2>1. IsFiniteSet(before)
    BY CallsType
  <2> QED BY <2>1, FS_CardinalityType
<1>3. Cardinality(before \cup {i}) = Cardinality(before) + 1
  BY <1>2, FS_AddElement
<1>4. Calls(seq, names, i + 1) = Cardinality(upTo)
  <2>1. i + 1 - 1 = i
    OBVIOUS
  <2> QED BY <2>1 DEF Calls
<1>5. Calls(seq, names, i) = Cardinality(before)
  BY DEF Calls
<1> HIDE DEF before, upTo
<1>6. CASE seq[i].name \in names
  <2>1. Calls(seq, names, i + 1) = Calls(seq, names, i) + 1
    BY <1>1, <1>3, <1>4, <1>5, <1>6
  <2> QED BY <2>1, <1>6
<1>7. CASE seq[i].name \notin names
  <2>1. Calls(seq, names, i + 1) = Calls(seq, names, i)
    BY <1>1, <1>4, <1>5, <1>7
  <2>2. Calls(seq, names, i) \in Nat
    BY <1>2, <1>5
  <2> QED BY <2>1, <2>2, <1>7
<1> QED BY <1>6, <1>7

\* The size one position further.
LEMMA SizeStep ==
    ASSUME NEW seq, NEW i \in Nat \ {0}
    PROVE  /\ SizeBefore(seq, i) \in Int
           /\ SizeBefore(seq, i + 1) = SizeBefore(seq, i)
                + (IF seq[i].name \in Adds THEN 1 ELSE 0)
                - (IF seq[i].name \in Removals THEN 1 ELSE 0)
<1>1. Calls(seq, Adds, i) \in Nat /\ Calls(seq, Removals, i) \in Nat
  BY CallsType
<1>2. /\ Calls(seq, Adds, i + 1) = Calls(seq, Adds, i) + (IF seq[i].name \in Adds THEN 1 ELSE 0)
      /\ Calls(seq, Removals, i + 1)
           = Calls(seq, Removals, i) + (IF seq[i].name \in Removals THEN 1 ELSE 0)
  BY CallsStep
<1> QED BY <1>1, <1>2 DEF SizeBefore

\* The size before the positions of a sequence does not depend on what follows.
LEMMA SizePrefix ==
    ASSUME NEW seq \in Seq(CallSet), NEW call \in CallSet, NEW i \in 1 .. Len(seq) + 1
    PROVE  SizeBefore(Append(seq, call), i) = SizeBefore(seq, i)
BY CallsPrefix DEF SizeBefore

\* Before the first call there is nothing.
LEMMA SizeFirst == ASSUME NEW seq PROVE SizeBefore(seq, 1) = 0
<1>1. {j \in 1 .. 1 - 1 : seq[j].name \in Adds} = {}
  OBVIOUS
<1>2. {j \in 1 .. 1 - 1 : seq[j].name \in Removals} = {}
  OBVIOUS
<1> QED BY <1>1, <1>2, FS_EmptySet DEF SizeBefore, Calls

\* A call appended does not change what the calls before it violate.
LEMMA ViolatesPrefix ==
    ASSUME NEW seq \in Seq(CallSet), NEW call \in CallSet, NEW i \in DOMAIN seq
    PROVE  Violates(Append(seq, call), i) <=> Violates(seq, i)
<1>1. i \in 1 .. Len(seq) /\ Append(seq, call)[i] = seq[i]
  BY AppendProperties, LenProperties
<1>2. SizeBefore(Append(seq, call), i) = SizeBefore(seq, i)
  BY <1>1, SizePrefix, LenProperties
<1> QED BY <1>1, <1>2 DEF Violates

\* Whether a call appended violates a precondition depends on the size before it.
LEMMA ViolatesLast ==
    ASSUME NEW seq \in Seq(CallSet), NEW call \in CallSet
    PROVE  Violates(Append(seq, call), Len(seq) + 1)
             <=> Refused(call, SizeBefore(seq, Len(seq) + 1))
<1>1. Append(seq, call)[Len(seq) + 1] = call
  BY AppendProperties
<1>2. Len(seq) + 1 \in 1 .. Len(seq) + 1
  BY LenProperties
<1>3. SizeBefore(Append(seq, call), Len(seq) + 1) = SizeBefore(seq, Len(seq) + 1)
  BY <1>2, SizePrefix
<1> QED BY <1>1, <1>3 DEF Violates, Refused

\* What the class calls are: names of the three kinds, which are disjoint.
LEMMA Kinds ==
    /\ Adds \cap Removals = {}
    /\ Adds \cap Accesses = {}
    /\ Removals \cap Accesses = {}
    /\ Lookups \subseteq Accesses
    /\ "get" \in Accesses
    /\ "get" \notin Lookups
BY DEF Adds, Removals, Accesses, Lookups

LEMMA Chosen ==
    Additions \subseteq Adds /\ Deletions \subseteq Removals /\ Readings \subseteq Accesses
BY DEF Additions, Deletions, Readings, Or, Adds, Removals, Accesses

LEMMA CallType ==
    ASSUME NEW name \in Names, NEW val \in Int
    PROVE  /\ Call(name, val) \in CallSet
           /\ Call(name, val).name = name
           /\ name = "get" => Call(name, val).arg = IF val > 0 THEN val ELSE 0
BY DEF Call, CallSet

(***************************************************************************)
(* The invariant.                                                          *)
(***************************************************************************)
\* A run that has not failed grows by a call.
LEMMA Grow ==
    ASSUME NEW seq, GoodRun(seq, NoFailure),
           SizeBefore(seq, Len(seq) + 1) \in Nat,
           NEW call \in CallSet, NEW why \in Whys,
           why = NoFailure <=> ~Refused(call, SizeBefore(seq, Len(seq) + 1)),
           why = "empty" => call.name \in (Removals \cup Accesses) \ Lookups,
           why = "range" => call.name = "get"
    PROVE  GoodRun(Append(seq, call), why)
<1> DEFINE longer == Append(seq, call)
<1>1. seq \in Seq(CallSet) /\ Faithful(seq, NoFailure) /\ \A i \in DOMAIN seq : SizeBefore(seq, i) >= 0
  BY DEF GoodRun
<1>2. /\ longer \in Seq(CallSet) /\ longer # <<>>
      /\ Len(seq) \in Nat /\ Len(longer) = Len(seq) + 1
      /\ DOMAIN seq = 1 .. Len(seq) /\ DOMAIN longer = 1 .. Len(seq) + 1
      /\ longer[Len(seq) + 1] = call
  BY <1>1, AppendProperties, LenProperties
<1>3. Violates(longer, Len(seq) + 1) <=> why # NoFailure
  BY <1>1, ViolatesLast
<1>4. \A i \in DOMAIN seq : ~Violates(longer, i)
  BY <1>1, ViolatesPrefix DEF Faithful
<1>5. \A i \in 1 .. Len(seq) + 1 : SizeBefore(longer, i) = SizeBefore(seq, i)
  BY <1>1, SizePrefix
<1>6. Last(longer) = call
  BY <1>2 DEF Last
<1> HIDE DEF longer
<1>7. Faithful(longer, why)
  BY <1>2, <1>3, <1>4 DEF Faithful
<1>8. \A i \in DOMAIN longer : SizeBefore(longer, i) >= 0
  BY <1>1, <1>2, <1>5
<1>9. GoodRun(longer, why)
  BY <1>2, <1>6, <1>7, <1>8 DEF GoodRun
<1> QED BY <1>9 DEF longer

\* A run without calls.
LEMMA EmptyRun ==
    /\ GoodRun(<<>>, NoFailure)
    /\ SizeBefore(<<>>, Len(<<>>) + 1) = 0
<1>1. DOMAIN <<>> = {} /\ <<>> \in Seq(CallSet) /\ Len(<<>>) + 1 = 1
  OBVIOUS
<1> QED BY <1>1, SizeFirst, CampaignAssumption DEF GoodRun, Faithful, Whys

LEMMA IInvInit == Init => IInv
<1> SUFFICES ASSUME Init PROVE IInv
  OBVIOUS
<1>1. GoodRun(ops, failure) /\ SizeIsCounted
  BY EmptyRun DEF Init, Empty, SizeIsCounted
<1>2. TypeOK /\ capacity > 0
  BY CampaignAssumption DEF Init, Empty, TypeOK
<1>3. CasesOK
  <2>1. cases = <<>> /\ DOMAIN cases = {} /\ Len(cases) = 0 /\ cases \in Seq(CaseSet)
    BY DEF Init
  <2>2. pc = "contracts"
    BY DEF Init
  <2> QED BY <2>1, <2>2, CampaignAssumption DEF CasesOK, Failing
<1> QED BY <1>1, <1>2, <1>3 DEF IInv

\* What the steps of a case have in common.
LEMMA RunningFacts ==
    ASSUME IInv, Running
    PROVE  /\ GoodRun(ops, NoFailure)
           /\ ops \in Seq(CallSet) /\ Len(ops) \in Nat
           /\ size = SizeBefore(ops, Len(ops) + 1) /\ size \in Nat
           /\ NoFailure \in Whys
           /\ failure = NoFailure
BY LenProperties DEF IInv, Running, GoodRun, SizeIsCounted, TypeOK, Whys

\* What an appended call does to the sequence.
LEMMA AppendedCall ==
    ASSUME NEW seq \in Seq(CallSet), NEW call \in CallSet
    PROVE  /\ Append(seq, call) \in Seq(CallSet)
           /\ Len(Append(seq, call)) = Len(seq) + 1
           /\ SizeBefore(Append(seq, call), Len(seq) + 2) =
                SizeBefore(seq, Len(seq) + 1)
                  + (IF call.name \in Adds THEN 1 ELSE 0)
                  - (IF call.name \in Removals THEN 1 ELSE 0)
<1> DEFINE longer == Append(seq, call)
<1>1. longer \in Seq(CallSet) /\ Len(longer) = Len(seq) + 1 /\ longer[Len(seq) + 1] = call
  BY AppendProperties
<1>2. Len(seq) + 1 \in Nat \ {0} /\ Len(seq) + 1 \in 1 .. Len(seq) + 1 /\ Len(seq) + 1 + 1 = Len(seq) + 2
  BY LenProperties
<1>3. SizeBefore(longer, Len(seq) + 1) = SizeBefore(seq, Len(seq) + 1)
  BY <1>2, SizePrefix
<1> HIDE DEF longer
<1>4. SizeBefore(longer, Len(seq) + 1 + 1) = SizeBefore(longer, Len(seq) + 1)
         + (IF longer[Len(seq) + 1].name \in Adds THEN 1 ELSE 0)
         - (IF longer[Len(seq) + 1].name \in Removals THEN 1 ELSE 0)
  BY <1>2, SizeStep
<1>5. SizeBefore(longer, Len(seq) + 2) = SizeBefore(seq, Len(seq) + 1)
         + (IF call.name \in Adds THEN 1 ELSE 0)
         - (IF call.name \in Removals THEN 1 ELSE 0)
  BY <1>1, <1>2, <1>3, <1>4
<1> QED BY <1>1, <1>5 DEF longer

\* CasesOK only depends on the cases and on where the command is.
LEMMA CasesKept ==
    ASSUME CasesOK, UNCHANGED cases,
           pc' \in {"contracts", "case"} => pc \in {"contracts", "case"},
           pc' \in {"report", "test", "done"} => pc \in {"report", "test", "done"}
    PROVE  CasesOK'
BY DEF CasesOK, Failing

LEMMA AddKeeps == ASSUME IInv, Running, AddStep PROVE IInv'
<1>1. PICK n \in Additions : AddCall(n)
  BY DEF AddStep
<1> DEFINE call == Call(n, 0)
<1>2. n \in Adds /\ n \in Names /\ call \in CallSet /\ call.name = n
  BY Chosen, CallType DEF Names
<1>3. n \notin Removals /\ n \notin Accesses /\ n # "get"
  BY <1>2, Kinds
<1>4. ops' = Append(ops, call) /\ size' = size + 1 /\ failure' = NoFailure /\ failure = NoFailure
  BY <1>1, RunningFacts DEF AddCall
<1> HIDE DEF call
<1>5. GoodRun(ops', failure')
  BY <1>2, <1>3, <1>4, RunningFacts, Grow, CampaignAssumption DEF Refused
<1>6. Len(ops') = Len(ops) + 1 /\ ops' \in Seq(CallSet)
  BY <1>2, <1>4, RunningFacts, AppendedCall
<1>7. SizeIsCounted'
  <2>1. SizeBefore(ops', Len(ops) + 2) = size + 1
    BY <1>2, <1>3, <1>4, RunningFacts, AppendedCall
  <2>2. Len(ops') + 1 = Len(ops) + 2
    BY <1>6, RunningFacts
  <2> QED BY <1>4, <2>1, <2>2 DEF SizeIsCounted
<1>8. TypeOK' /\ capacity' > 0
  <2>1. size' \in Nat /\ capacity' \in Nat /\ size' <= capacity' /\ capacity' > 0
    BY <1>1, <1>4, RunningFacts DEF IInv, TypeOK, AddCall
  <2>2. Len(ops') <= Steps
    BY <1>6, RunningFacts, CampaignAssumption DEF Running
  <2> QED BY <1>1, <1>4, <1>6, <2>1, <2>2 DEF IInv, TypeOK, AddCall, CallSet
<1>9. CasesOK'
  BY <1>1, CasesKept DEF IInv, AddCall
<1> QED BY <1>5, <1>7, <1>8, <1>9 DEF IInv

LEMMA RemoveKeeps == ASSUME IInv, Running, RemoveStep PROVE IInv'
<1>1. PICK n \in Deletions : RemoveCall(n)
  BY DEF RemoveStep
<1> DEFINE call == Call(n, 0)
<1>2. n \in Removals /\ n \in Names /\ call \in CallSet /\ call.name = n
  BY Chosen, CallType DEF Names
<1>3. n \notin Adds /\ n \notin Lookups /\ n # "get"
  BY <1>2, Kinds
<1>4. /\ ops' = Append(ops, call)
      /\ IF size = 0 THEN failure' = "empty" /\ size' = size
                     ELSE failure' = NoFailure /\ size' = size - 1
      /\ UNCHANGED <<target, pc, capacity, cases>>
  BY <1>1, RunningFacts DEF RemoveCall
<1> HIDE DEF call
<1>5. failure' \in Whys /\ (failure' = NoFailure <=> size # 0) /\ failure' # "range"
  BY <1>4, CampaignAssumption DEF Whys
<1>6. GoodRun(ops', failure')
  BY <1>2, <1>3, <1>4, <1>5, RunningFacts, Grow DEF Refused
<1>7. Len(ops') = Len(ops) + 1 /\ ops' \in Seq(CallSet)
  BY <1>2, <1>4, RunningFacts, AppendedCall
<1>8. SizeIsCounted'
  <2>1. SizeBefore(ops', Len(ops) + 2) = size - 1
    BY <1>2, <1>3, <1>4, RunningFacts, AppendedCall
  <2>2. Len(ops') + 1 = Len(ops) + 2
    BY <1>7, RunningFacts
  <2> QED BY <1>4, <1>5, <2>1, <2>2 DEF SizeIsCounted
<1>9. TypeOK' /\ capacity' > 0
  <2>1. size' \in Nat /\ capacity' \in Nat /\ size' <= capacity' /\ capacity' > 0
    BY <1>4, RunningFacts DEF IInv, TypeOK
  <2>2. Len(ops') <= Steps
    BY <1>7, RunningFacts, CampaignAssumption DEF Running
  <2> QED BY <1>4, <1>5, <1>7, <2>1, <2>2 DEF IInv, TypeOK, CallSet, Whys
<1>10. CasesOK'
  BY <1>4, CasesKept DEF IInv
<1> QED BY <1>6, <1>8, <1>9, <1>10 DEF IInv

LEMMA AccessKeeps == ASSUME IInv, Running, AccessStep PROVE IInv'
<1>1. PICK n \in Readings, v \in Values : AccessCall(n, v)
  BY DEF AccessStep
<1> DEFINE val == IF size > 0 THEN v ELSE 0
           call == Call(n, val)
<1>2. n \in Accesses /\ n \in Names /\ val \in Int
  BY Chosen, CampaignAssumption DEF Names
<1>3. n \notin Adds /\ n \notin Removals
  BY <1>2, Kinds
<1>4. /\ ops' = Append(ops, call)
      /\ failure' = CASE size = 0 /\ n \notin Lookups -> "empty"
                      [] size > 0 /\ n = "get" /\ v >= size -> "range"
                      [] OTHER -> NoFailure
      /\ UNCHANGED <<target, pc, size, capacity, cases>>
  BY <1>1 DEF AccessCall, container
<1>5. call \in CallSet /\ call.name = n /\ (n = "get" => call.arg = IF val > 0 THEN val ELSE 0)
  BY <1>2, CallType
<1>6. "get" \notin Lookups
  BY Kinds
<1>7. v \in Int /\ size \in Nat /\ size = SizeBefore(ops, Len(ops) + 1)
  BY CampaignAssumption, RunningFacts
<1>8. /\ failure' \in Whys
      /\ failure' = "empty" => n \notin Lookups
      /\ failure' = "range" => n = "get"
  BY <1>4, CampaignAssumption DEF Whys
<1>9. failure' = NoFailure <=>
         ~ ((n \notin Lookups /\ size <= 0) \/ (n = "get" /\ call.arg >= size))
  <2>1. CASE size = 0
    BY <1>4, <1>5, <1>6, <2>1, CampaignAssumption
  <2>2. CASE size > 0
    <3>1. n = "get" => (call.arg >= size <=> v >= size)
      BY <1>5, <1>7, <2>2
    <3>2. failure' = NoFailure <=> ~ (n = "get" /\ v >= size)
      BY <1>4, <2>2, CampaignAssumption
    <3> QED BY <3>1, <3>2, <1>7, <2>2
  <2> QED BY <1>7, <2>1, <2>2
<1> HIDE DEF call, val
<1>10. GoodRun(ops', failure')
  <2>1. failure' = NoFailure <=> ~Refused(call, size)
    BY <1>2, <1>5, <1>9 DEF Refused
  <2>2. failure' = "empty" => call.name \in (Removals \cup Accesses) \ Lookups
    BY <1>2, <1>5, <1>8
  <2>3. failure' = "range" => call.name = "get"
    BY <1>5, <1>8
  <2> QED BY <1>4, <1>5, <1>7, <1>8, <2>1, <2>2, <2>3, RunningFacts, Grow
<1>11. Len(ops') = Len(ops) + 1 /\ ops' \in Seq(CallSet)
  BY <1>4, <1>5, RunningFacts, AppendedCall
<1>12. SizeIsCounted'
  <2>1. SizeBefore(ops', Len(ops) + 2) = size
    BY <1>3, <1>4, <1>5, RunningFacts, AppendedCall
  <2>2. Len(ops') + 1 = Len(ops) + 2
    BY <1>11, RunningFacts
  <2> QED BY <1>4, <2>1, <2>2 DEF SizeIsCounted
<1>13. TypeOK' /\ capacity' > 0
  <2>1. size' \in Nat /\ capacity' \in Nat /\ size' <= capacity' /\ capacity' > 0
    BY <1>4, RunningFacts DEF IInv, TypeOK
  <2>2. Len(ops') <= Steps
    BY <1>11, RunningFacts, CampaignAssumption DEF Running
  <2> QED BY <1>4, <1>8, <1>11, <2>1, <2>2 DEF IInv, TypeOK, CallSet, Whys
<1>14. CasesOK'
  BY <1>4, CasesKept DEF IInv
<1> QED BY <1>10, <1>12, <1>13, <1>14 DEF IInv

\* What is left of a case is a sequence of calls.
LEMMA MinimizeType ==
    ASSUME NEW calls, NEW why, GoodRun(calls, why)
    PROVE  Minimize(calls, why) \in Seq(CallSet)
<1>1. calls \in Seq(CallSet) /\ Len(calls) \in Nat /\ DOMAIN calls = 1 .. Len(calls)
  BY LenProperties DEF GoodRun
<1>2. CASE why = NoFailure
  BY <1>2, CampaignAssumption DEF Minimize
<1>3. CASE why = "empty"
  <2>1. calls # <<>>
    BY <1>3, CampaignAssumption DEF GoodRun
  <2>2. Last(calls) \in CallSet
    BY <1>1, <2>1 DEF Last
  <2> QED BY <1>3, <2>2, CampaignAssumption DEF Minimize
<1>4. CASE why = "range"
  <2>1. CASE Len(calls) > 5
    <3>1. SubSeq(calls, Len(calls) - 4, Len(calls)) \in Seq(CallSet)
      BY <1>1, <2>1, SubSeqProperties
    <3> QED BY <1>4, <2>1, <3>1, CampaignAssumption DEF Minimize
  <2>2. CASE ~(Len(calls) > 5)
    BY <1>1, <1>4, <2>2, CampaignAssumption DEF Minimize
  <2> QED BY <2>1, <2>2
<1> QED BY <1>2, <1>3, <1>4 DEF GoodRun, Whys

LEMMA EndCaseKeeps == ASSUME IInv, EndCase PROVE IInv'
<1> DEFINE case == [ops |-> ops, failure |-> failure, minimized |-> Minimize(ops, failure)]
<1>1. /\ ops' = <<>> /\ failure' = NoFailure /\ size' = 0 /\ capacity' = 4
      /\ cases' = Append(cases, case)
      /\ pc = "case" /\ pc' = IF Len(cases) + 1 = Seeds THEN "report" ELSE "case"
      /\ UNCHANGED target
  BY DEF EndCase
<1>2. GoodRun(ops', failure') /\ SizeIsCounted'
  BY <1>1, EmptyRun DEF SizeIsCounted
<1>3. CaseOK(case) /\ case \in CaseSet /\ case.failure = failure
  BY MinimizeType DEF IInv, CaseOK, CaseSet, GoodRun
<1> HIDE DEF case
<1>4. /\ cases \in Seq(CaseSet) /\ Len(cases) \in Nat /\ DOMAIN cases = 1 .. Len(cases)
      /\ Len(cases) < Seeds
      /\ \A i \in DOMAIN cases : CaseOK(cases[i])
  BY <1>1, LenProperties DEF IInv, CasesOK
<1>5. /\ cases' \in Seq(CaseSet) /\ Len(cases') = Len(cases) + 1
      /\ DOMAIN cases' = 1 .. Len(cases) + 1
      /\ \A i \in 1 .. Len(cases) : cases'[i] = cases[i]
      /\ cases'[Len(cases) + 1] = case
  BY <1>1, <1>3, <1>4, AppendProperties, LenProperties
<1>6. \A i \in DOMAIN cases' : CaseOK(cases'[i])
  BY <1>3, <1>4, <1>5
<1>7. Failing' # {} => \E i \in Failing' : \A j \in Failing' : i <= j
  <2>1. Failing' = Failing \cup (IF failure # NoFailure THEN {Len(cases) + 1} ELSE {})
    BY <1>3, <1>4, <1>5 DEF Failing
  <2>2. Failing \subseteq 1 .. Len(cases)
    BY <1>4 DEF Failing
  <2>3. CASE Failing = {}
    BY <1>4, <2>1, <2>3
  <2>4. CASE Failing # {}
    <3>1. PICK i \in Failing : \A j \in Failing : i <= j
      BY <2>4 DEF IInv, CasesOK
    <3>2. i \in Failing' /\ \A j \in Failing' : i <= j
      BY <1>4, <2>1, <2>2, <3>1
    <3> QED BY <3>2
  <2> QED BY <2>3, <2>4
<1>8. /\ pc' \in {"contracts", "case"} => Len(cases') < Seeds
      /\ pc' \in {"report", "test", "done"} => Len(cases') = Seeds
  BY <1>1, <1>4, <1>5, CampaignAssumption
<1>9. TypeOK' /\ capacity' > 0
  <2>1. Len(cases') <= Seeds
    BY <1>4, <1>5, CampaignAssumption
  <2> QED BY <1>1, <2>1, CampaignAssumption DEF IInv, TypeOK
<1> QED BY <1>2, <1>5, <1>6, <1>7, <1>8, <1>9 DEF IInv, CasesOK

\* The other steps leave the container and the cases alone.
LEMMA OthersKeep ==
    ASSUME IInv, LoadContracts \/ ContractParseError \/ FuzzProject \/ WriteCppTests
    PROVE  IInv'
<1>1. /\ UNCHANGED <<target, ops, size, capacity, failure, cases>>
      /\ pc' \in {"contracts", "case", "report", "test", "done", "crashed"}
      /\ pc' \in {"contracts", "case"} => pc \in {"contracts", "case"}
      /\ pc' \in {"report", "test", "done"} => pc \in {"report", "test", "done"}
  BY DEF LoadContracts, ContractParseError, FuzzProject, WriteCppTests, container
<1>2. CasesOK'
  BY <1>1, CasesKept DEF IInv
<1> QED BY <1>1, <1>2 DEF IInv, TypeOK, SizeIsCounted

LEMMA IInvNext == IInv /\ [Next]_vars => IInv'
<1> SUFFICES ASSUME IInv, [Next]_vars PROVE IInv'
  OBVIOUS
<1>1. CASE LoadContracts \/ ContractParseError \/ FuzzProject \/ WriteCppTests
  BY <1>1, OthersKeep
<1>2. CASE Running /\ AddStep
  BY <1>2, AddKeeps
<1>3. CASE Running /\ RemoveStep
  BY <1>3, RemoveKeeps
<1>4. CASE Running /\ AccessStep
  BY <1>4, AccessKeeps
<1>5. CASE EndCase
  BY <1>5, EndCaseKeeps
<1>6. CASE UNCHANGED vars
  BY <1>6 DEF vars, container, IInv, TypeOK, SizeIsCounted, CasesOK, Failing
<1> QED BY <1>1, <1>2, <1>3, <1>4, <1>5, <1>6 DEF Next

THEOREM Invariance == Spec => []IInv
BY IInvInit, IInvNext, PTL DEF Spec

-----------------------------------------------------------------------------
(***************************************************************************)
(* The theorems.                                                           *)
(***************************************************************************)
\* The variables of a campaign keep their types, and the container never holds
\* more than its capacity, for any class, values, seeds and steps.
THEOREM CampaignTypeCorrect == Spec => []TypeOK
<1>1. IInv => TypeOK
  BY DEF IInv
<1> QED BY <1>1, Invariance, PTL

\* Whatever is called, a case fails at the first call a container cannot serve,
\* and at no other.
THEOREM FailuresAreFirstViolations == Spec => []FailureIsTheFirstViolation
<1>1. IInv => FailureIsTheFirstViolation
  BY DEF IInv, GoodRun, Faithful, FailureIsTheFirstViolation
<1> QED BY <1>1, Invariance, PTL

-----------------------------------------------------------------------------
(***************************************************************************)
(* The reduced sequences.                                                  *)
(***************************************************************************)
\* A failed case is one that breaks a precondition, and conversely.
LEMMA LegalRun ==
    ASSUME NEW calls, NEW why, GoodRun(calls, why)
    PROVE  Legal(calls) <=> why = NoFailure
<1>1. calls \in Seq(CallSet) /\ DOMAIN calls = 1 .. Len(calls) /\ Len(calls) \in Nat
  BY LenProperties DEF GoodRun
<1>2. CASE why = NoFailure
  BY <1>2 DEF GoodRun, Faithful, Legal
<1>3. CASE why # NoFailure
  <2>1. Len(calls) \in DOMAIN calls
    BY <1>1, <1>3 DEF GoodRun
  <2> QED BY <1>3, <2>1 DEF GoodRun, Faithful, Legal
<1> QED BY <1>2, <1>3

\* A call that fails on an empty container fails alone.
LEMMA LastAloneFails ==
    ASSUME NEW calls, GoodRun(calls, "empty")
    PROVE  ~Legal(Minimize(calls, "empty"))
<1>1. Minimize(calls, "empty") = <<Last(calls)>>
  BY CampaignAssumption DEF Minimize
<1> DEFINE alone == <<Last(calls)>>
<1>2. 1 \in DOMAIN alone /\ alone[1] = Last(calls)
  OBVIOUS
<1> HIDE DEF alone
<1>3. Violates(alone, 1)
  BY <1>2, SizeFirst DEF Violates, GoodRun
<1> QED BY <1>1, <1>2, <1>3 DEF Legal, alone

\* An index out of range in a container is out of range in the smaller container
\* that the last five calls build.
LEMMA LastFiveFail ==
    ASSUME NEW calls, GoodRun(calls, "range"), Len(calls) > 5
    PROVE  ~Legal(Minimize(calls, "range"))
<1> DEFINE n == Len(calls)
           five == SubSeq(calls, n - 4, n)
<1>1. Minimize(calls, "range") = five
  BY CampaignAssumption DEF Minimize
<1>2. calls \in Seq(CallSet) /\ n \in Nat /\ n > 5 /\ DOMAIN calls = 1 .. n
  BY LenProperties DEF GoodRun
<1>3. Len(five) = 5 /\ DOMAIN five = 1 .. 5
  <2>1. five \in Seq(CallSet) /\ Len(five) = 5
    BY <1>2, SubSeqProperties
  <2> QED BY <2>1, LenProperties
<1>4. \A i \in 1 .. 5 : five[i] = calls[n - 5 + i]
  BY <1>2, SubSeqProperties
<1>5. calls[n].name = "get" /\ five[5] = calls[n]
  <2>1. calls # <<>>
    BY <1>2
  <2>2. Last(calls) = calls[n]
    BY DEF Last
  <2> QED BY <1>2, <1>4, <2>1, <2>2 DEF GoodRun
<1>6. SizeBefore(calls, n - 4) >= 0
  BY <1>2 DEF GoodRun
<1>7. Violates(calls, n)
  BY <1>2, CampaignAssumption DEF GoodRun, Faithful
<1> DEFINE diff(i) == (IF five[i].name \in Adds THEN 1 ELSE 0)
                      - (IF five[i].name \in Removals THEN 1 ELSE 0)
<1> HIDE DEF n, five
<1>8. /\ SizeBefore(five, 1) = 0
      /\ SizeBefore(five, 2) = SizeBefore(five, 1) + diff(1)
      /\ SizeBefore(five, 3) = SizeBefore(five, 2) + diff(2)
      /\ SizeBefore(five, 4) = SizeBefore(five, 3) + diff(3)
      /\ SizeBefore(five, 5) = SizeBefore(five, 4) + diff(4)
  <2>1. \A i \in 1 .. 4 : SizeBefore(five, i) \in Int /\ SizeBefore(five, i + 1) = SizeBefore(five, i) + diff(i)
    <3> TAKE i \in 1 .. 4
    <3>1. i \in Nat \ {0}
      OBVIOUS
    <3> QED BY <3>1, SizeStep
  <2> HIDE DEF diff
  <2> QED BY <2>1, SizeFirst
<1>9. \A i \in 1 .. 4 : /\ SizeBefore(calls, n - 5 + i) \in Int
                         /\ SizeBefore(calls, n - 5 + i + 1) = SizeBefore(calls, n - 5 + i) + diff(i)
  <2> TAKE i \in 1 .. 4
  <2>1. n - 5 + i \in Nat \ {0} /\ five[i] = calls[n - 5 + i]
    BY <1>2, <1>4
  <2> QED BY <2>1, SizeStep
<1>10. \A i \in 1 .. 4 : diff(i) \in Int
  OBVIOUS
<1> HIDE DEF diff
<1>11. SizeBefore(calls, n) = SizeBefore(calls, n - 4) + SizeBefore(five, 5)
  <2>1. /\ n - 5 + 1 = n - 4 /\ n - 5 + 1 + 1 = n - 3 /\ n - 5 + 2 = n - 3 /\ n - 5 + 2 + 1 = n - 2
        /\ n - 5 + 3 = n - 2 /\ n - 5 + 3 + 1 = n - 1 /\ n - 5 + 4 = n - 1 /\ n - 5 + 4 + 1 = n
    BY <1>2
  <2>2. SizeBefore(calls, n - 4) \in Int /\ SizeBefore(calls, n - 3) = SizeBefore(calls, n - 4) + diff(1)
    BY <1>9, <2>1
  <2>3. SizeBefore(calls, n - 2) = SizeBefore(calls, n - 3) + diff(2)
    BY <1>9, <2>1
  <2>4. SizeBefore(calls, n - 1) = SizeBefore(calls, n - 2) + diff(3)
    BY <1>9, <2>1
  <2>5. SizeBefore(calls, n) = SizeBefore(calls, n - 1) + diff(4)
    BY <1>9, <2>1
  <2> QED BY <1>8, <1>10, <2>2, <2>3, <2>4, <2>5
<1>12. SizeBefore(five, 5) \in Int
  BY SizeStep
<1>13. /\ calls[n].arg \in Int /\ calls[n].arg >= 0
       /\ SizeBefore(calls, n - 4) \in Int /\ SizeBefore(calls, n) \in Int
  <2>1. calls[n] \in CallSet /\ n - 4 \in Nat \ {0} /\ n \in Nat \ {0}
    BY <1>2
  <2>2. SizeBefore(calls, n - 4) \in Int /\ SizeBefore(calls, n) \in Int
    BY <2>1, SizeStep
  <2> QED BY <2>1, <2>2 DEF CallSet
<1>14. calls[n].arg >= SizeBefore(calls, n)
  <2>1. SizeBefore(calls, n) <= 0 => calls[n].arg >= SizeBefore(calls, n)
    BY <1>13
  <2> QED BY <1>7, <2>1 DEF Violates
<1>15. five[5].arg >= SizeBefore(five, 5)
  BY <1>5, <1>6, <1>11, <1>12, <1>13, <1>14
<1>16. Violates(five, 5)
  BY <1>5, <1>15 DEF Violates
<1> QED BY <1>1, <1>3, <1>16 DEF Legal

LEMMA MinimizedFails ==
    ASSUME NEW calls, NEW why, GoodRun(calls, why), why # NoFailure
    PROVE  ~Legal(Minimize(calls, why))
<1>1. CASE why = "empty"
  BY <1>1, LastAloneFails
<1>2. CASE why = "range" /\ Len(calls) > 5
  BY <1>2, LastFiveFail
<1>3. CASE why = "range" /\ ~(Len(calls) > 5)
  <2>1. Minimize(calls, why) = calls
    BY <1>3, CampaignAssumption DEF Minimize
  <2> QED BY <2>1, LegalRun
<1> QED BY <1>1, <1>2, <1>3 DEF GoodRun, Whys

\* Every reproducer that is reported, however short, still breaks a precondition
\* of an empty container.
THEOREM ReproducersFail == Spec => []ReproducerFails
<1>1. IInv => ReproducerFails
  BY MinimizedFails DEF IInv, CasesOK, CaseOK, ReproducerFails
<1> QED BY <1>1, Invariance, PTL

-----------------------------------------------------------------------------
(***************************************************************************)
(* The report and the test.                                                *)
(***************************************************************************)
\* What has been reported and written is what the cases say.
Published == /\ pc \in {"test", "done"} => report = Verdict
             /\ pc = "done" => test \in TestCandidates

LEMMA PublishedInductive ==
    /\ Init => Published
    /\ Published /\ [Next]_vars => Published'
<1>1. Init => Published
  BY DEF Init, Published
<1>2. ASSUME Published, [Next]_vars PROVE Published'
  <2>1. CASE LoadContracts \/ ContractParseError
    BY <2>1 DEF LoadContracts, ContractParseError, Published
  <2>2. CASE Running /\ (AddStep \/ RemoveStep \/ AccessStep)
    <3>1. pc' = "case"
      BY <2>2 DEF Running, AddStep, RemoveStep, AccessStep, AddCall, RemoveCall, AccessCall
    <3> QED BY <3>1 DEF Published
  <2>3. CASE EndCase
    <3>1. pc' \in {"report", "case"}
      BY <2>3 DEF EndCase
    <3> QED BY <3>1 DEF Published
  <2>4. CASE FuzzProject
    <3>1. pc' = "test" /\ report' = Verdict /\ UNCHANGED <<cases, target>>
      BY <2>4 DEF FuzzProject
    <3>2. Verdict' = Verdict
      BY <3>1 DEF Verdict, Failing, FirstFailing
    <3> QED BY <3>1, <3>2 DEF Published
  <2>5. CASE WriteCppTests
    <3>1. /\ pc = "test" /\ pc' = "done" /\ test' \in TestCandidates
          /\ UNCHANGED <<cases, target, report>>
      BY <2>5 DEF WriteCppTests
    <3>2. Verdict' = Verdict /\ TestCandidates' = TestCandidates
      BY <3>1 DEF Verdict, TestCandidates, Failing, FirstFailing
    <3> QED BY <1>2, <3>1, <3>2 DEF Published
  <2>6. CASE UNCHANGED vars
    <3>1. UNCHANGED <<pc, cases, target, report, test>>
      BY <2>6 DEF vars
    <3>2. Verdict' = Verdict /\ TestCandidates' = TestCandidates
      BY <3>1 DEF Verdict, TestCandidates, Failing, FirstFailing
    <3> QED BY <1>2, <3>1, <3>2 DEF Published
  <2> QED BY <1>2, <2>1, <2>2, <2>3, <2>4, <2>5, <2>6 DEF Next
<1> QED BY <1>1, <1>2

LEMMA VerdictFromCases == IInv /\ Published => VerdictIsBacked
<1> SUFFICES ASSUME IInv, Published, pc = "done" PROVE VerdictIsBacked
  BY DEF VerdictIsBacked
<1>1. report = Verdict /\ test \in TestCandidates
  BY DEF Published
<1>2. /\ cases \in Seq(CaseSet) /\ DOMAIN cases = 1 .. Len(cases) /\ Len(cases) = Seeds
      /\ \A i \in DOMAIN cases : CaseOK(cases[i])
  BY LenProperties DEF IInv, CasesOK
<1>3. \A i \in DOMAIN cases : Legal(cases[i].ops) <=> i \notin Failing
  BY <1>2, LegalRun DEF CaseOK, Failing
<1>4. CASE Failing = {}
  <2>1. report.level = "HEURISTIC"
    BY <1>1, <1>4 DEF Verdict
  <2>2. \A i \in DOMAIN cases : Legal(cases[i].ops)
    BY <1>3, <1>4
  <2>3. test # NoTest => test.kind = "smoke" /\ Legal(test.ops)
    <3>1. 1 \in DOMAIN cases /\ Head(cases) = cases[1]
      BY <1>2, CampaignAssumption
    <3> QED BY <1>1, <1>4, <2>2, <3>1 DEF TestCandidates
  <2> QED BY <2>1, <2>2, <2>3 DEF VerdictIsBacked
<1>5. CASE Failing # {}
  <2>1. FirstFailing \in Failing /\ \A j \in Failing : FirstFailing <= j
    BY <1>5 DEF IInv, CasesOK, FirstFailing
  <2> DEFINE first == FirstFailing
             case == cases[first]
  <2>2. first \in 1 .. Len(cases) /\ Len(cases) \in Nat /\ CaseOK(case) /\ case.failure # NoFailure
    BY <1>2, <2>1, CampaignAssumption DEF Failing
  <2>3. /\ report.level # "HEURISTIC"
        /\ report.level = "FAILED" => TargetMethod(case) \notin target.guarded
        /\ report.method = TargetMethod(case)
        /\ report.reproducer = case.minimized
    BY <1>1, <1>5 DEF Verdict
  <2>4. test = [kind |-> "failure", ops |-> case.minimized]
    BY <1>1, <1>5 DEF TestCandidates
  <2> HIDE DEF first
  <2>5. ~Legal(case.ops) /\ ~Legal(case.minimized)
    BY <2>2, LegalRun, MinimizedFails DEF CaseOK
  <2>6. \A j \in 1 .. first - 1 : Legal(cases[j].ops)
    <3> TAKE j \in 1 .. first - 1
    <3>1. j \in DOMAIN cases /\ j < first
      BY <1>2, <2>2
    <3>2. j \notin Failing
      <4>1. \A k \in Failing : first <= k
        BY <2>1 DEF first
      <4>2. first \in Int
        BY <2>2
      <4> QED BY <3>1, <4>1, <4>2
    <3> QED BY <1>3, <3>1, <3>2
  <2>7. Violates(case.ops, Len(case.ops))
    <3>1. case.ops \in Seq(CallSet) /\ case.ops # <<>>
      BY <2>2 DEF CaseOK, GoodRun
    <3>2. Len(case.ops) \in DOMAIN case.ops
      BY <3>1, LenProperties
    <3> QED BY <2>2, <3>2 DEF CaseOK, GoodRun, Faithful
  <2>8. TargetMethod(case) = Last(case.ops).name
    BY DEF TargetMethod
  <2>9. first \in DOMAIN cases
    BY <1>2, <2>2
  <2> QED BY <2>3, <2>4, <2>5, <2>6, <2>7, <2>8, <2>9 DEF VerdictIsBacked
<1> QED BY <1>4, <1>5

\* For any number of seeds, what is reported and what is written as a test are
\* the first sequence a container refuses, or there is none.
THEOREM VerdictsAreBacked == Spec => []VerdictIsBacked
BY Invariance, PublishedInductive, VerdictFromCases, PTL DEF Spec

-----------------------------------------------------------------------------
(***************************************************************************)
(* The scores.                                                             *)
(***************************************************************************)
\* A failure weighs 35, and the reproducer that comes with it 10: more than the
\* contracts and the length of a case together.
LEMMA ScoreBounds ==
    ASSUME NEW case, NEW hints
    PROVE  /\ UtilityScore(case, hints) \in Nat
           /\ case.failure # NoFailure /\ case.minimized # <<>>
                => UtilityScore(case, hints) >= 65
           /\ case.failure = NoFailure /\ case.minimized = <<>>
                => UtilityScore(case, hints) <= 50
<1> DEFINE failed == Weight(case.failure # NoFailure, 35)
           reduced == Weight(case.minimized # <<>>, 10)
           known == Weight(hints # {}, 10)
           requires == Weight(\E h \in hints : h.requires, 10)
           ensures == Weight(\E h \in hints : h.ensures, 5)
           named == Weight(case.failure # NoFailure
                             /\ \E h \in hints : TargetMethod(case) \in h.methods, 10)
           long == Weight(Len(case.ops) >= 5, 5)
           total == 20 + failed + reduced + known + requires + ensures + named + long
<1>1. UtilityScore(case, hints) = IF total > 100 THEN 100 ELSE total
  BY DEF UtilityScore, ScoreWith
<1>2. /\ failed \in {0, 35} /\ reduced \in {0, 10} /\ known \in {0, 10}
      /\ requires \in {0, 10} /\ ensures \in {0, 5} /\ named \in {0, 10} /\ long \in {0, 5}
  BY DEF Weight
<1>3. /\ case.failure # NoFailure => failed = 35
      /\ case.failure = NoFailure => failed = 0 /\ named = 0
      /\ case.minimized # <<>> => reduced = 10
      /\ case.minimized = <<>> => reduced = 0
  BY DEF Weight
<1> HIDE DEF failed, reduced, known, requires, ensures, named, long
<1>4. total \in Nat
  BY <1>2
<1>5. case.failure # NoFailure /\ case.minimized # <<>> => total >= 65
  BY <1>2, <1>3
<1>6. case.failure = NoFailure /\ case.minimized = <<>> => total <= 50
  BY <1>2, <1>3
<1> QED
  BY <1>1, <1>4, <1>5, <1>6

\* The reproducer of a failure holds at least the call that fails.
LEMMA ReproducerIsThere ==
    ASSUME NEW calls, NEW why, GoodRun(calls, why)
    PROVE  Minimize(calls, why) = <<>> <=> why = NoFailure
<1>1. CASE why = NoFailure
  BY <1>1, CampaignAssumption DEF Minimize
<1>2. CASE why # NoFailure
  <2>1. CASE Minimize(calls, why) = <<>>
    <3>1. Legal(Minimize(calls, why))
      BY <2>1 DEF Legal
    <3> QED BY <1>2, <3>1, MinimizedFails
  <2> QED BY <1>2, <2>1
<1> QED BY <1>1, <1>2

\* The manifest is read from the top: whatever contracts are found for their
\* classes, a case that fails comes before one that does not.
THEOREM FailuresComeFirst == Spec => []FailuresRankFirst
<1>1. IInv => FailuresRankFirst
  <2> SUFFICES ASSUME IInv, NEW i \in DOMAIN cases, NEW j \in DOMAIN cases,
                      cases[i].failure # NoFailure, cases[j].failure = NoFailure,
                      NEW h, NEW k
               PROVE  UtilityScore(cases[i], h) > UtilityScore(cases[j], k)
    BY DEF FailuresRankFirst
  <2>1. cases[i].minimized # <<>> /\ cases[j].minimized = <<>>
    BY ReproducerIsThere DEF IInv, CasesOK, CaseOK
  <2>2. /\ UtilityScore(cases[i], h) \in Nat /\ UtilityScore(cases[i], h) >= 65
        /\ UtilityScore(cases[j], k) \in Nat /\ UtilityScore(cases[j], k) <= 50
    BY <2>1, ScoreBounds
  <2> QED BY <2>2
<1> QED BY <1>1, Invariance, PTL

-----------------------------------------------------------------------------
(***************************************************************************)
(* The trace of a sequence of words.                                       *)
(***************************************************************************)
Start == [size |-> 0, flagged |-> FALSE]

\* A set of natural numbers has a least element.
LEMMA Least ==
    ASSUME NEW T \in SUBSET Nat, T # {}
    PROVE  \E m \in T : \A k \in T : m <= k
<1> DEFINE R == {r \in Nat \X Nat : r[1] < r[2]}
<1>1. R = OpToRel(<, Nat)
  BY DEF OpToRel
<1>2. IsWellFoundedOn(R, Nat)
  BY <1>1, NatLessThanWellFounded
<1>3. PICK m \in T : \A k \in T : <<k, m>> \notin R
  <2> HIDE DEF R
  <2> QED BY <1>2, WFMin
<1>4. ASSUME NEW k \in T, k < m PROVE FALSE
  <2>1. <<k, m>> \in R
    BY <1>4
  <2> HIDE DEF R
  <2> QED BY <1>3, <2>1
<1> HIDE DEF R
<1> QED BY <1>4

\* The fold takes the calls away from the last one on: its function exists on the
\* sets of the first n positions.
FoldsOver(g, calls, n) ==
    g = [s \in SUBSET (1 .. n) |->
            IF s = {} THEN Start ELSE TraceStep(g[s \ {Max(s)}], calls[Max(s)])]

LEMMA LastIsMax ==
    ASSUME NEW m \in Nat, NEW s \in SUBSET (1 .. m), m \in s
    PROVE  Max(s) = m
<1>1. \A k \in s : m >= k
  OBVIOUS
<1>2. \A x \in s : (\A k \in s : x >= k) => x = m
  BY <1>1
<1> QED BY <1>1, <1>2 DEF Max

LEMMA FoldExists ==
    ASSUME NEW calls, NEW n \in Nat
    PROVE  \E g : FoldsOver(g, calls, n)
<1> DEFINE T == {k \in Nat : ~\E g : FoldsOver(g, calls, k)}
<1> SUFFICES ASSUME T # {} PROVE FALSE
  OBVIOUS
<1>1. PICK m \in T : \A k \in T : m <= k
  BY Least
<1>2. m # 0
  <2> DEFINE g == [s \in SUBSET (1 .. 0) |-> Start]
  <2>1. SUBSET (1 .. 0) = {{}}
    OBVIOUS
  <2>2. FoldsOver(g, calls, 0)
    BY <2>1 DEF FoldsOver
  <2> QED BY <2>2
<1>3. PICK g : FoldsOver(g, calls, m - 1)
  BY <1>1, <1>2
<1> DEFINE h == [s \in SUBSET (1 .. m) |->
                    IF m \in s THEN TraceStep(g[s \ {m}], calls[m]) ELSE g[s]]
<1>4. ASSUME NEW s \in SUBSET (1 .. m)
      PROVE  h[s] = IF s = {} THEN Start ELSE TraceStep(h[s \ {Max(s)}], calls[Max(s)])
  <2>1. \A r \in SUBSET (1 .. m) : m \notin r => r \in SUBSET (1 .. m - 1) /\ h[r] = g[r]
    OBVIOUS
  <2>2. \A r \in SUBSET (1 .. m - 1) :
           g[r] = IF r = {} THEN Start ELSE TraceStep(g[r \ {Max(r)}], calls[Max(r)])
    BY <1>3 DEF FoldsOver
  <2>3. CASE m \in s
    <3>1. h[s] = TraceStep(g[s \ {m}], calls[m]) /\ h[s \ {m}] = g[s \ {m}]
      BY <2>1, <2>3
    <3>2. Max(s) = m /\ s # {}
      BY <2>3, LastIsMax
    <3> HIDE DEF h
    <3> QED BY <3>1, <3>2
  <2>4. CASE m \notin s
    <3>1. h[s] = g[s] /\ h[s \ {Max(s)}] = g[s \ {Max(s)}] /\ s \in SUBSET (1 .. m - 1)
      BY <2>1, <2>4
    <3> HIDE DEF h
    <3> QED BY <2>2, <3>1
  <2> QED BY <2>3, <2>4
<1>5. FoldsOver(h, calls, m)
  <2>1. h = [s \in SUBSET (1 .. m) |-> h[s]]
    OBVIOUS
  <2> HIDE DEF h
  <2> QED BY <1>4, <2>1 DEF FoldsOver
<1> QED BY <1>5

\* The trace goes through the calls one by one.
LEMMA TraceByCalls ==
    ASSUME NEW calls, NEW n \in Nat, Len(calls) = n, DOMAIN calls = 1 .. n, calls # <<>>
    PROVE  \E h : /\ h[0] = Start
                  /\ \A k \in 1 .. Len(calls) : h[k] = TraceStep(h[k - 1], calls[k])
                  /\ AbstractTrace(calls) = h[Len(calls)]
<1> DEFINE g == CHOOSE x : FoldsOver(x, calls, n)
<1>1. n \in Nat /\ DOMAIN calls = 1 .. n
  OBVIOUS
<1>2. FoldsOver(g, calls, n)
  BY <1>1, FoldExists
<1>3. AbstractTrace(calls) = g[1 .. n]
  BY <1>1 DEF AbstractTrace, FoldLeft, MapThenFoldSet, FoldsOver, Start
<1> HIDE DEF g
<1> DEFINE h == [k \in 0 .. n |-> g[1 .. k]]
<1>4. h[0] = Start
  <2>1. 0 \in 0 .. n
    BY <1>1
  <2>2. 1 .. 0 = {}
    OBVIOUS
  <2>3. h[0] = g[{}]
    BY <2>1, <2>2
  <2>4. g[{}] = Start
    BY <1>2 DEF FoldsOver
  <2> QED BY <2>3, <2>4
<1>5. \A k \in 1 .. n : h[k] = TraceStep(h[k - 1], calls[k])
  <2> TAKE k \in 1 .. n
  <2>0. k \in Nat /\ k \in 1 .. k /\ k \in 0 .. n /\ k - 1 \in 0 .. n /\ k <= n
    BY <1>1
  <2>1. /\ 1 .. k \in SUBSET (1 .. n)
        /\ 1 .. k # {}
        /\ (1 .. k) \ {k} = 1 .. k - 1
    <3>1. \A j \in 1 .. k : j \in 1 .. n
      BY <1>1, <2>0
    <3>2. \A j : j \in (1 .. k) \ {k} <=> j \in 1 .. k - 1
      BY <2>0
    <3> QED BY <2>0, <3>1, <3>2
  <2>2. Max(1 .. k) = k
    BY <2>0, LastIsMax
  <2>3. g[1 .. k] = TraceStep(g[(1 .. k) \ {k}], calls[k])
    BY <1>2, <2>1, <2>2 DEF FoldsOver
  <2> QED BY <2>0, <2>1, <2>3
<1>6. AbstractTrace(calls) = h[n]
  BY <1>1, <1>3
<1> HIDE DEF h
<1> QED BY <1>4, <1>5, <1>6

\* A call that fails leaves the size as it was.
SizeAtFailure == failure # NoFailure => size = SizeBefore(ops, Len(ops))

LEMMA FailedCall ==
    ASSUME IInv, Running, NEW call \in CallSet, ops' = Append(ops, call), size' = size
    PROVE  SizeAtFailure'
<1>1. /\ ops \in Seq(CallSet) /\ Len(ops) \in Nat
      /\ size = SizeBefore(ops, Len(ops) + 1)
  BY RunningFacts
<1>2. Len(ops') = Len(ops) + 1 /\ Len(ops) + 1 \in 1 .. Len(ops) + 1
  BY <1>1, AppendedCall
<1>3. SizeBefore(Append(ops, call), Len(ops) + 1) = SizeBefore(ops, Len(ops) + 1)
  BY <1>1, <1>2, SizePrefix
<1>4. SizeBefore(ops', Len(ops')) = SizeBefore(Append(ops, call), Len(ops) + 1)
  BY <1>2
<1> QED BY <1>1, <1>3, <1>4 DEF SizeAtFailure

LEMMA SizeAtFailureInductive ==
    /\ Init => SizeAtFailure
    /\ IInv /\ SizeAtFailure /\ [Next]_vars => SizeAtFailure'
<1>1. Init => SizeAtFailure
  BY DEF Init, Empty, SizeAtFailure
<1>2. ASSUME IInv, SizeAtFailure, [Next]_vars PROVE SizeAtFailure'
  <2>1. CASE LoadContracts \/ ContractParseError \/ FuzzProject \/ WriteCppTests \/ UNCHANGED vars
    <3>1. UNCHANGED <<ops, size, failure>>
      BY <2>1 DEF LoadContracts, ContractParseError, FuzzProject, WriteCppTests, container, vars
    <3> QED BY <1>2, <3>1 DEF SizeAtFailure
  <2>2. CASE Running /\ AddStep
    <3>1. failure' = NoFailure
      BY <2>2 DEF Running, AddStep, AddCall
    <3> QED BY <3>1 DEF SizeAtFailure
  <2>3. CASE Running /\ RemoveStep
    <3>1. PICK name \in Deletions : RemoveCall(name)
      BY <2>3 DEF RemoveStep
    <3>2. /\ ops' = Append(ops, Call(name, 0)) /\ Call(name, 0) \in CallSet
          /\ size' = size \/ failure' = NoFailure
      BY <2>3, <3>1, Chosen, CallType DEF RemoveCall, Running, Names
    <3>3. CASE failure' = NoFailure
      BY <3>3 DEF SizeAtFailure
    <3>4. CASE size' = size
      BY <1>2, <2>3, <3>2, <3>4, FailedCall
    <3> QED BY <3>2, <3>3, <3>4
  <2>4. CASE Running /\ AccessStep
    <3>1. PICK name \in Readings, v \in Values : AccessCall(name, v)
      BY <2>4 DEF AccessStep
    <3> DEFINE call == Call(name, IF size > 0 THEN v ELSE 0)
    <3>2. call \in CallSet /\ ops' = Append(ops, call) /\ size' = size
      BY <3>1, Chosen, CallType, CampaignAssumption DEF AccessCall, Names, container
    <3> HIDE DEF call
    <3> QED BY <1>2, <2>4, <3>2, FailedCall
  <2>5. CASE EndCase
    <3>1. failure' = NoFailure
      BY <2>5 DEF EndCase
    <3> QED BY <3>1 DEF SizeAtFailure
  <2> QED BY <1>2, <2>1, <2>2, <2>3, <2>4, <2>5 DEF Next
<1> QED BY <1>1, <1>2

States == [size : Int, flagged : BOOLEAN]

\* What the trace makes of one call, by its bare name, if it knows it.
LEMMA KnownCall ==
    ASSUME NEW name \in TraceInserts \cup TraceRemovals \cup Accesses,
           NEW state \in States
    PROVE  LET next == TraceStep(state, Bare(name)) IN
           /\ next \in States
           /\ name \in Removals /\ state.size = 0 => next.size = 0 /\ next.flagged
           /\ ~(name \in Removals /\ state.size <= 0) =>
                /\ next.size = state.size + (IF name \in Adds THEN 1 ELSE 0)
                                          - (IF name \in Removals THEN 1 ELSE 0)
                /\ next.flagged = state.flagged
<1>1. /\ TraceInserts \subseteq Adds /\ TraceRemovals \subseteq Removals
      /\ TraceInserts \cap TraceRemovals = {}
      /\ TraceInserts \cap Accesses = {} /\ TraceRemovals \cap Accesses = {}
  BY DEF TraceInserts, TraceRemovals, Adds, Removals, Accesses
<1>2. ASSUME NEW n \in Int
      PROVE  /\ [state EXCEPT !.size = n] \in States
             /\ [state EXCEPT !.size = n].size = n
             /\ [state EXCEPT !.size = n].flagged = state.flagged
  BY DEF States
<1>3. /\ [state EXCEPT !.flagged = TRUE] \in States
      /\ [state EXCEPT !.flagged = TRUE].size = state.size
      /\ [state EXCEPT !.flagged = TRUE].flagged
  BY DEF States
<1>4. state.size \in Int
  BY DEF States
<1>8. \A names : Known(Bare(name), names) = (name \in names)
  <2>1. Bare(name).name = name /\ Bare(name).parens = FALSE
    BY DEF Bare
  <2> QED BY <2>1 DEF Known
<1>9. ~Known(Bare(name), {"clear"})
  BY <1>8 DEF TraceInserts, TraceRemovals, Accesses
<1>10. /\ Known(Bare(name), TraceInserts) = (name \in TraceInserts)
       /\ Known(Bare(name), TraceRemovals) = (name \in TraceRemovals)
  BY <1>8
<1>5. CASE name \in TraceInserts
  <2>1. TraceStep(state, Bare(name)) = [state EXCEPT !.size = state.size + 1]
    BY <1>1, <1>5, <1>9, <1>10 DEF TraceStep
  <2>2. name \in Adds /\ name \notin Removals
    BY <1>1, <1>5, Kinds
  <2> QED BY <1>2, <1>4, <2>1, <2>2
<1>6. CASE name \in TraceRemovals
  <2>1. name \in Removals /\ name \notin Adds /\ name \notin TraceInserts
    BY <1>1, <1>6, Kinds
  <2>5. Known(Bare(name), TraceRemovals) /\ ~Known(Bare(name), TraceInserts)
    BY <1>6, <1>10, <2>1
  <2>6. TraceStep(state, Bare(name)) =
            IF state.size = 0 THEN [state EXCEPT !.flagged = TRUE]
            ELSE IF state.size > 0 THEN [state EXCEPT !.size = state.size - 1] ELSE state
    BY <1>4, <1>9, <2>5 DEF TraceStep
  <2>2. CASE state.size = 0
    <3>1. TraceStep(state, Bare(name)) = [state EXCEPT !.flagged = TRUE]
      BY <2>2, <2>6
    <3>2. state.size <= 0
      BY <2>2
    <3>3. /\ TraceStep(state, Bare(name)) \in States
          /\ TraceStep(state, Bare(name)).size = state.size
          /\ TraceStep(state, Bare(name)).flagged
      BY <1>3, <3>1, Zenon
    <3> QED BY <2>1, <2>2, <3>2, <3>3
  <2>3. CASE state.size > 0
    <3>1. TraceStep(state, Bare(name)) = [state EXCEPT !.size = state.size - 1]
      BY <1>4, <2>3, <2>6
    <3> QED BY <1>2, <1>4, <2>1, <2>3, <3>1
  <2>4. CASE state.size < 0
    <3>1. TraceStep(state, Bare(name)) = state
      BY <1>4, <2>4, <2>6
    <3> QED BY <1>4, <2>1, <2>4, <3>1
  <2> QED BY <1>4, <2>2, <2>3, <2>4
<1>7. CASE name \in Accesses
  <2>1. TraceStep(state, Bare(name)) = state
    BY <1>1, <1>7, <1>9, <1>10 DEF TraceStep
  <2>2. name \notin Adds /\ name \notin Removals
    BY <1>7, Kinds
  <2> QED BY <1>4, <2>1, <2>2
<1> QED BY <1>5, <1>6, <1>7

\* The trace of the first k calls, as long as none of them removes from an empty
\* container, holds the size that counting gives.
LEMMA TraceCounts ==
    ASSUME NEW calls \in Seq(CallSet), NEW h, h[0] = Start,
           NEW n \in 0 .. Len(calls),
           \A k \in 1 .. Len(calls) : h[k] = TraceStep(h[k - 1], Bare(calls[k].name)),
           \A k \in 1 .. Len(calls) :
              calls[k].name \in TraceInserts \cup TraceRemovals \cup Accesses,
           \A k \in 1 .. n : ~(calls[k].name \in Removals /\ SizeBefore(calls, k) <= 0)
    PROVE  h[n] \in States /\ h[n].size = SizeBefore(calls, n + 1) /\ ~h[n].flagged
<1> DEFINE Counted(k) == /\ h[k] \in States /\ h[k].size = SizeBefore(calls, k + 1)
                         /\ ~h[k].flagged
           T == {k \in Nat : k <= n /\ ~Counted(k)}
<1>0. n \in Nat /\ n <= Len(calls) /\ Len(calls) \in Nat
  BY LenProperties
<1> SUFFICES ASSUME T # {} PROVE FALSE
  BY <1>0
<1>1. PICK m \in T : \A k \in T : m <= k
  BY Least
<1>2. m # 0
  <2>1. Start \in States /\ Start.size = 0 /\ ~Start.flagged
    BY DEF Start, States
  <2>2. 0 + 1 = 1
    OBVIOUS
  <2> QED BY <2>1, <2>2, SizeFirst
<1>3. m \in Nat \ {0} /\ m <= n /\ ~Counted(m) /\ m \in 1 .. Len(calls) /\ m \in 1 .. n
  BY <1>0, <1>1, <1>2
<1>4. Counted(m - 1)
  <2>1. m - 1 \in Nat /\ m - 1 <= n /\ ~(m <= m - 1)
    BY <1>0, <1>3
  <2> HIDE DEF Counted
  <2> QED BY <1>1, <2>1
<1>5. m - 1 + 1 = m
  BY <1>3
<1>6. /\ h[m - 1] \in States /\ h[m - 1].size = SizeBefore(calls, m) /\ ~h[m - 1].flagged
  BY <1>4, <1>5
<1>7. h[m] = TraceStep(h[m - 1], Bare(calls[m].name))
  BY <1>3
<1>8. /\ h[m] \in States /\ h[m].flagged = h[m - 1].flagged
      /\ h[m].size = SizeBefore(calls, m) + (IF calls[m].name \in Adds THEN 1 ELSE 0)
                                          - (IF calls[m].name \in Removals THEN 1 ELSE 0)
  BY <1>3, <1>6, <1>7, KnownCall
<1>9. h[m].size = SizeBefore(calls, m + 1)
  BY <1>3, <1>8, SizeStep
<1> QED BY <1>3, <1>6, <1>8, <1>9

\* abstract_trace, given a case in its own notation, warns of it exactly when the
\* campaign ended it with a removal from an empty container, and agrees with it on
\* the size.
THEOREM TracesAgree == Spec => []TraceAgrees
<1>1. IInv /\ SizeAtFailure => TraceAgrees
  <2> SUFFICES ASSUME IInv, SizeAtFailure, ops # <<>>,
                      \A i \in DOMAIN ops :
                         ops[i].name \in TraceInserts \cup TraceRemovals \cup Accesses
               PROVE  LET trace == AbstractTrace(Notation(ops)) IN
                      /\ trace.size = size
                      /\ trace.flagged <=> failure # NoFailure /\ Last(ops).name \in Removals
    BY DEF TraceAgrees
  <2> DEFINE n == Len(ops)
  <2>1. ops \in Seq(CallSet) /\ n \in Nat /\ DOMAIN ops = 1 .. n
    BY LenProperties DEF IInv, GoodRun
  <2> DEFINE words == Notation(ops)
  <2>6. /\ Len(words) = n /\ DOMAIN words = 1 .. n
        /\ \A k \in 1 .. n : words[k] = Bare(ops[k].name)
    BY <2>1 DEF Notation
  <2>7. words # <<>>
    <3>1. n # 0
      BY <2>1, EmptySeq
    <3> QED BY <2>1, <2>6, <3>1
  <2>8. PICK h : /\ h[0] = Start
                 /\ \A k \in 1 .. n : h[k] = TraceStep(h[k - 1], words[k])
                 /\ AbstractTrace(words) = h[n]
    <3> HIDE DEF words, n
    <3> QED BY <2>1, <2>6, <2>7, TraceByCalls
  <2>2. /\ h[0] = Start
        /\ \A k \in 1 .. n : h[k] = TraceStep(h[k - 1], Bare(ops[k].name))
        /\ AbstractTrace(words) = h[n]
    BY <2>6, <2>8
  <2> HIDE DEF words
  <2>3. \A k \in 1 .. n :
           ops[k].name \in Removals /\ SizeBefore(ops, k) <= 0 => failure # NoFailure /\ k = n
    BY <2>1, Kinds DEF IInv, GoodRun, Faithful, Violates
  <2>4. CASE failure = NoFailure
    <3>1. n \in 0 .. n
      BY <2>1
    <3>2. h[n] \in States /\ h[n].size = SizeBefore(ops, n + 1) /\ ~h[n].flagged
      BY <2>1, <2>2, <2>3, <2>4, <3>1, TraceCounts
    <3> QED BY <2>2, <2>4, <3>2 DEF IInv, SizeIsCounted, words
  <2>5. CASE failure # NoFailure
    <3>1. ops # <<>> /\ n \in 1 .. n /\ n - 1 \in 0 .. n /\ Last(ops) = ops[n]
      BY <2>1, <2>5 DEF IInv, GoodRun, Last
    <3>2. \A k \in 1 .. n - 1 : k \in 1 .. n /\ k # n
      <4>1. \A m \in Nat : \A k \in 1 .. m - 1 : k \in 1 .. m /\ k # m
        OBVIOUS
      <4> QED BY <2>1, <4>1
    <3>3. /\ h[n - 1] \in States /\ h[n - 1].size = SizeBefore(ops, n - 1 + 1)
          /\ ~h[n - 1].flagged
      BY <2>1, <2>2, <2>3, <3>1, <3>2, TraceCounts
    <3>4. n - 1 + 1 = n
      BY <2>1
    <3>5. h[n - 1].size = size /\ size \in Nat /\ SizeBefore(ops, n) = size
      BY <2>5, <3>3, <3>4 DEF SizeAtFailure, IInv, TypeOK
    <3>6. h[n] = TraceStep(h[n - 1], Bare(ops[n].name))
      BY <2>2, <3>1
    <3>7. CASE ops[n].name \in Removals
      <4>1. size = 0
        BY <2>1, <2>5, <3>1, <3>5, <3>7, Kinds DEF IInv, GoodRun, Faithful, Violates
      <4> QED BY <2>1, <2>2, <2>5, <3>1, <3>3, <3>5, <3>6, <3>7, <4>1, KnownCall DEF words
    <3>8. CASE ops[n].name \notin Removals
      <4>1. ops[n].name \notin Adds
        BY <2>5, <3>1, Kinds DEF IInv, GoodRun, Whys
      <4> QED BY <2>1, <2>2, <2>5, <3>1, <3>3, <3>5, <3>6, <3>8, <4>1, KnownCall DEF words
    <3> QED BY <3>7, <3>8
  <2> QED BY <2>4, <2>5
<1> QED BY <1>1, Invariance, SizeAtFailureInductive, PTL DEF Spec
==============================================================================
