--------------------------- MODULE MemoryRulesProofs ---------------------------
(***************************************************************************)
(* Proofs about MemoryRules, for any classes, names and numbers of calls:  *)
(* what the rules say of the text of a class holds of every life of its    *)
(* objects.  The invariant ties what a name holds to the text: a block to  *)
(* the statement that allocated it, a freed one to a statement that frees  *)
(* it, a null pointer to one that the rules take for null.                 *)
(***************************************************************************)
EXTENDS MemoryRules, TLAPS

Found == CheckAllocations \cup CheckDoubleDelete \cup CheckNullDereferences
Blocks == [at : Nat \X Nat, array : BOOLEAN, freed : Nat]
InCall == pc \in {"run", "fault"}

TypeInv ==
    /\ class \in Classes
    /\ heap \in Seq(Blocks)
    /\ ptr \in [Names -> {Null, Wild} \cup Nat]
    /\ calls \in Nat
    /\ at \in Nat
    /\ method \in Nat
    /\ pc \in {"scan", "unborn", "idle", "run", "over", "fault"}
    /\ InCall => method \in DOMAIN class.methods /\ calls >= 1 /\ at >= 1

\* The report is that of the class, and stays.
Reported ==
    IF pc = "scan" THEN report = {} ELSE report = Found \cup OwnershipRisks(Found)

\* Names that are copied, from or to, and those that initializers make null.
Copied == {Stmt(x).p : x \in Of("copy")} \cup {Stmt(x).from : x \in Of("copy")}
InitNulls == {Stmt(x).p : x \in Of("initnull")}
Plain == (class.fields \cap class.seen) \ (Copied \cup InitNulls)

\* Names hold blocks, blocks come from allocations.
Owner(b) == Stmt(heap[b].at).p
BlocksOK ==
    \A b \in DOMAIN heap : /\ heap[b].at \in Of("new")
                           /\ heap[b].array = Stmt(heap[b].at).array
                           /\ heap[b].freed <= calls
OwnedOK(p) ==
    /\ ptr[p] \in DOMAIN heap
    /\ Owner(ptr[p]) = p \/ {p, Owner(ptr[p])} \subseteq Copied
HoldsOK == \A p \in Names : ptr[p] \in Nat => OwnedOK(p)

\* A block was freed by a release of its own kind, of its own name unless copied.
FreedByRelease ==
    \A b \in DOMAIN heap : heap[b].freed # 0 =>
        \E y \in Of("delete") : /\ Stmt(y).array = heap[b].array
                                /\ Owner(b) \in Copied \cup {Stmt(y).p}

\* What this call has freed, an earlier statement of it has.
FreedHere ==
    InCall => \A p \in Names :
        /\ p \notin Copied /\ ptr[p] \in DOMAIN heap /\ heap[ptr[p]].freed = calls
        => \E i \in DOMAIN class.methods[method].body :
            /\ i < at
            /\ Stmt(<<method, i>>).op = "delete"
            /\ Stmt(<<method, i>>).p = p
            /\ Stmt(<<method, i>>).array = heap[ptr[p]].array

\* A field that is null is one that the rules take for null.
NullsKnown == \A p \in Plain : ptr[p] = Null => p \in Nullable

\* A fault is that of the statement it names.
FaultOK ==
    pc = "fault" =>
        LET p == Stmt(fault.at).p
        IN  /\ fault.at = <<method, at>> /\ fault.at \in Places
            /\ fault.kind = "null" => Stmt(fault.at).op \in {"use", "drop"} /\ ptr[p] = Null
            /\ fault.kind \in {"mismatch", "double free"} =>
                 Stmt(fault.at).op = "delete" /\ ptr[p] \in DOMAIN heap
            /\ fault.kind = "mismatch" => heap[ptr[p]].array # Stmt(fault.at).array

IInv == /\ TypeInv /\ Reported /\ BlocksOK /\ HoldsOK /\ FreedByRelease
        /\ FreedHere /\ NullsKnown /\ FaultOK
-----------------------------------------------------------------------------
(***************************************************************************)
(* The text of a class.                                                    *)
(***************************************************************************)

\* Every place holds a statement.
LEMMA PlacesType ==
    ASSUME class \in Classes
    PROVE  /\ class.methods \in Seq(Methods)
           /\ \A k, i : <<k, i>> \in Places <=>
                k \in DOMAIN class.methods /\ i \in DOMAIN class.methods[k].body
           /\ \A x \in Places : /\ x \in Nat \X Nat
                               /\ x = <<x[1], x[2]>>
                               /\ x[1] \in DOMAIN class.methods
                               /\ Stmt(x) \in Stmts
<1>1. class.methods \in Seq(Methods)
  BY ClassAssumption
<1>2. \A k \in DOMAIN class.methods : k \in Nat /\ class.methods[k].body \in Seq(Stmts)
  <2>1. \A k \in DOMAIN class.methods : k \in Nat /\ class.methods[k] \in Methods
    BY <1>1
  <2> QED BY <2>1 DEF Methods
<1>3. \A k \in DOMAIN class.methods : \A i \in DOMAIN class.methods[k].body :
        i \in Nat /\ class.methods[k].body[i] \in Stmts
  BY <1>2
<1>4. \A k, i : <<k, i>> \in Places <=>
        k \in DOMAIN class.methods /\ i \in DOMAIN class.methods[k].body
  BY DEF Places
<1>5. \A x \in Places : \E k \in DOMAIN class.methods :
        \E i \in DOMAIN class.methods[k].body : x = <<k, i>>
  BY DEF Places
<1>6. \A x \in Places : /\ x \in Nat \X Nat
                        /\ x = <<x[1], x[2]>>
                        /\ x[1] \in DOMAIN class.methods
                        /\ Stmt(x) \in Stmts
  BY <1>2, <1>3, <1>5 DEF Stmt
<1> QED BY <1>1, <1>4, <1>6

\* The kind that a text is read right as.
KindOf(array) == IF array THEN "array" ELSE "single"

\* A name is copied if a copy names it.
LEMMA CopiedNames == \A p : Unaliased(p) <=> p \notin Copied
BY DEF Unaliased, Copied

\* What the rules read does not change while an object lives.
LEMMA TextStays ==
    ASSUME class' = class
    PROVE  /\ Places' = Places /\ Releases' = Releases /\ Allocations' = Allocations
           /\ Copied' = Copied /\ Plain' = Plain /\ Nullable' = Nullable
           /\ Of("new")' = Of("new") /\ Of("delete")' = Of("delete")
           /\ Found' = Found /\ OwnershipRisks(Found)' = OwnershipRisks(Found)
<1>1. Places' = Places
  BY DEF Places
<1>2. \A x : class'.methods[x[1]].body[x[2]] = class.methods[x[1]].body[x[2]]
  OBVIOUS
<1>3. /\ Of("new")' = Of("new") /\ Of("delete")' = Of("delete") /\ Of("null")' = Of("null")
      /\ Of("use")' = Of("use") /\ Of("copy")' = Of("copy") /\ Of("drop")' = Of("drop")
      /\ Of("initnull")' = Of("initnull")
  BY <1>1 DEF Of, Stmt
<1>4. Releases' = Releases /\ Allocations' = Allocations
  BY <1>3 DEF Releases, Allocations, Stmt
<1>5. Copied' = Copied /\ InitNulls' = InitNulls
  BY <1>3 DEF Copied, InitNulls, Stmt
<1>6. Plain' = Plain
  BY <1>5 DEF Plain
<1>7. NullAssignments' = NullAssignments /\ Dereferences' = Dereferences
  BY <1>3 DEF NullAssignments, Dereferences, PointerFields, Stmt
<1>8. Nullable' = Nullable
  BY <1>7 DEF Nullable, InitializedNull, PointerFields, Stmt
<1>9. CheckAllocations' = CheckAllocations
  BY <1>4 DEF CheckAllocations, CheckAllocation, Matching, Mismatched, Finding, Stmt
<1>10. CheckDoubleDelete' = CheckDoubleDelete
  BY <1>4 DEF CheckDoubleDelete, Alike, Finding, Stmt
<1>11. CheckNullDereferences' = CheckNullDereferences
  BY <1>7, <1>8 DEF CheckNullDereferences, HasNullGuard, Finding, Stmt
<1>12. Found' = Found
  BY <1>9, <1>10, <1>11 DEF Found
<1>13. OwnershipRisks(Found)' = OwnershipRisks(Found)
  BY <1>12 DEF OwnershipRisks, Finding, Risks
<1> QED BY <1>1, <1>3, <1>4, <1>5, <1>6, <1>8, <1>12, <1>13
-----------------------------------------------------------------------------
(***************************************************************************)
(* The invariant is inductive.                                             *)
(***************************************************************************)

LEMMA InitIInv == Init => IInv
<1> SUFFICES ASSUME Init PROVE IInv
  OBVIOUS
<1>1. TypeInv
  <2>1. heap \in Seq(Blocks)
    BY DEF Init
  <2> QED BY <2>1 DEF Init, TypeInv, InCall
<1>2. Reported
  BY DEF Init, Reported
<1>3. BlocksOK /\ FreedByRelease
  <2>1. DOMAIN heap = {}
    BY DEF Init
  <2> QED BY <2>1 DEF BlocksOK, FreedByRelease
<1>4. HoldsOK /\ NullsKnown
  BY PointerAssumption, ClassAssumption DEF Init, HoldsOK, NullsKnown, Plain
<1>5. FreedHere /\ FaultOK
  BY DEF Init, FreedHere, FaultOK, InCall
<1> QED BY <1>1, <1>2, <1>3, <1>4, <1>5 DEF IInv

\* What the statements that are run rely on: where they stand.
LEMMA HereType ==
    ASSUME IInv, pc = "run", at \in DOMAIN class.methods[method].body
    PROVE  /\ <<method, at>> \in Places
           /\ <<method, at>> \in Nat \X Nat
           /\ Here \in Stmts
           /\ Here = Stmt(<<method, at>>)
           /\ Held \in {Null, Wild} \cup Nat
<1>1. method \in DOMAIN class.methods /\ class \in Classes
  BY DEF IInv, TypeInv, InCall
<1>2. <<method, at>> \in Places
  BY <1>1, PlacesType
<1>3. Here = Stmt(<<method, at>>)
  BY DEF Here
<1>4. Here \in Stmts /\ <<method, at>> \in Nat \X Nat
  BY <1>1, <1>2, <1>3, PlacesType
<1>5. Held \in {Null, Wild} \cup Nat
  BY <1>4 DEF Held, Stmts, IInv, TypeInv
<1> QED BY <1>2, <1>3, <1>4, <1>5

\* Blocks have their type.
LEMMA HeapType ==
    ASSUME IInv, NEW b \in DOMAIN heap
    PROVE  /\ b \in Nat /\ heap[b] \in Blocks
           /\ heap[b].freed \in Nat /\ heap[b].freed <= calls
           /\ heap[b].at \in Of("new") /\ heap[b].array = Stmt(heap[b].at).array
<1>1. heap \in Seq(Blocks)
  BY DEF IInv, TypeInv
<1>2. b \in Nat /\ heap[b] \in Blocks
  BY <1>1
<1>3. heap[b].freed \in Nat
  BY <1>2 DEF Blocks
<1> QED BY <1>2, <1>3 DEF IInv, BlocksOK

\* What is said of the report and the blocks holds on while they stay as they are.
LEMMA HeapStays ==
    ASSUME IInv, UNCHANGED <<class, report, heap>>, calls' \in Nat, calls <= calls',
           pc # "scan", pc' # "scan"
    PROVE  Reported' /\ BlocksOK' /\ FreedByRelease'
<1>1. Reported'
  BY TextStays DEF IInv, Reported
<1>2. BlocksOK'
  <2>1. \A b \in DOMAIN heap : heap[b].freed <= calls'
    BY HeapType DEF IInv, TypeInv
  <2> QED BY <2>1, TextStays DEF IInv, BlocksOK, Stmt
<1>3. FreedByRelease'
  BY TextStays DEF IInv, FreedByRelease, Owner, Stmt
<1> QED BY <1>1, <1>2, <1>3

\* A name holds what it may, if it holds what it held and blocks keep their
\* owners.
LEMMA HoldsStays ==
    ASSUME IInv, class' = class,
           \A b \in DOMAIN heap : b \in DOMAIN heap' /\ heap'[b].at = heap[b].at,
           \A p \in Names : ptr'[p] \in Nat => ptr'[p] = ptr[p] \/ OwnedOK(p)'
    PROVE  HoldsOK'
<1> SUFFICES ASSUME NEW p \in Names, ptr'[p] \in Nat, ptr'[p] = ptr[p] PROVE OwnedOK(p)'
  BY DEF HoldsOK
<1>1. OwnedOK(p)
  BY DEF IInv, HoldsOK
<1>2. ptr'[p] \in DOMAIN heap' /\ heap'[ptr'[p]].at = heap[ptr[p]].at
  BY <1>1 DEF OwnedOK
<1> QED BY <1>1, <1>2, TextStays DEF OwnedOK, Owner, Stmt

\* A field that is null was null, or its name is one that the rules know.
LEMMA NullsStay ==
    ASSUME IInv, class' = class,
           \A p \in Plain : ptr'[p] = Null => ptr[p] = Null \/ p \in Nullable
    PROVE  NullsKnown'
BY TextStays DEF IInv, NullsKnown

LEMMA ScanStep == IInv /\ AnalyzeMemorySafety => IInv'
<1> SUFFICES ASSUME IInv, AnalyzeMemorySafety PROVE IInv'
  OBVIOUS
<1> USE DEF AnalyzeMemorySafety
<1>1. TypeInv'
  BY DEF IInv, TypeInv, InCall
<1>2. Reported'
  <2>1. report' = Found \cup OwnershipRisks(Found)
    BY DEF Found
  <2> QED BY <2>1, TextStays DEF Reported
<1>3. BlocksOK' /\ FreedByRelease'
  BY TextStays DEF IInv, BlocksOK, FreedByRelease, Owner, Stmt
<1>4. HoldsOK'
  BY TextStays DEF IInv, HoldsOK, OwnedOK, Owner, Stmt
<1>5. NullsKnown'
  BY NullsStay
<1>6. FreedHere' /\ FaultOK'
  BY DEF FreedHere, FaultOK, InCall
<1> QED BY <1>1, <1>2, <1>3, <1>4, <1>5, <1>6 DEF IInv

LEMMA EnterStep ==
    ASSUME IInv, NEW kind, Enter(kind), pc # "scan"
    PROVE  IInv'
<1> USE DEF Enter
<1>1. TypeInv'
  <2>1. ptr' \in [Names -> {Null, Wild} \cup Nat]
    BY DEF IInv, TypeInv
  <2>2. method' \in DOMAIN class.methods /\ method' \in Nat
    <3>1. class.methods \in Seq(Methods)
      BY PlacesType DEF IInv, TypeInv
    <3> QED BY <3>1
  <2> QED BY <2>1, <2>2 DEF IInv, TypeInv, InCall
<1>2. Reported' /\ BlocksOK' /\ FreedByRelease'
  BY HeapStays DEF IInv, TypeInv
<1>3. HoldsOK'
  <2>1. \A p \in Names : ptr'[p] \in Nat => ptr'[p] = ptr[p]
    BY PointerAssumption DEF IInv, TypeInv
  <2> QED BY <2>1, HoldsStays
<1>4. NullsKnown'
  <2>1. \A p \in Plain : ptr'[p] = Null => ptr[p] = Null \/ p \in InitializedNull
    <3>1. \A p \in Plain : p \in Names /\ p \in class.fields /\ p \in class.seen
      BY ClassAssumption DEF IInv, TypeInv, Plain
    <3> QED BY <3>1, PointerAssumption DEF InitializedNull, PointerFields
  <2>2. InitializedNull \subseteq Nullable
    BY DEF Nullable
  <2> QED BY <2>1, <2>2, NullsStay
<1>5. FreedHere'
  <2>1. \A b \in DOMAIN heap : heap[b].freed # calls'
    BY HeapType DEF IInv, TypeInv
  <2> QED BY <2>1 DEF FreedHere
<1>6. FaultOK'
  BY DEF FaultOK
<1> QED BY <1>1, <1>2, <1>3, <1>4, <1>5, <1>6 DEF IInv

LEMMA ReturnStep == IInv /\ Return => IInv'
<1> SUFFICES ASSUME IInv, Return PROVE IInv'
  OBVIOUS
<1> USE DEF Return
<1>1. TypeInv'
  BY DEF IInv, TypeInv, InCall
<1>2. Reported' /\ BlocksOK' /\ FreedByRelease'
  BY HeapStays DEF IInv, TypeInv
<1>3. HoldsOK'
  BY HoldsStays
<1>5. NullsKnown'
  BY NullsStay
<1>6. FreedHere' /\ FaultOK'
  BY DEF FreedHere, FaultOK, InCall
<1> QED BY <1>1, <1>2, <1>3, <1>5, <1>6 DEF IInv

\* What this call has freed, it has freed before if names hold it as before.
LEMMA FreedHereStays ==
    ASSUME IInv, UNCHANGED <<class, method, calls>>, pc = "run", at' \in {at, at + 1},
           \A p \in Names \ Copied :
               ptr'[p] \in DOMAIN heap' /\ heap'[ptr'[p]].freed = calls =>
                   /\ ptr[p] \in DOMAIN heap /\ heap[ptr[p]].freed = calls
                   /\ heap'[ptr'[p]].array = heap[ptr[p]].array
    PROVE  FreedHere'
<1>1. at \in Nat /\ at' \in Nat /\ at <= at'
  BY DEF IInv, TypeInv
<1>2. InCall
  BY DEF InCall
<1> SUFFICES ASSUME NEW p \in Names, p \notin Copied, ptr'[p] \in DOMAIN heap',
                    heap'[ptr'[p]].freed = calls
             PROVE  \E i \in DOMAIN class.methods[method].body :
                        /\ i < at'
                        /\ Stmt(<<method, i>>).op = "delete"
                        /\ Stmt(<<method, i>>).p = p
                        /\ Stmt(<<method, i>>).array = heap'[ptr'[p]].array
  BY TextStays DEF FreedHere, Stmt
<1>3. PICK i \in DOMAIN class.methods[method].body :
        /\ i < at
        /\ Stmt(<<method, i>>).op = "delete"
        /\ Stmt(<<method, i>>).p = p
        /\ Stmt(<<method, i>>).array = heap'[ptr'[p]].array
  BY <1>2 DEF IInv, FreedHere
<1>4. i \in Nat
  <2>1. class.methods[method] \in Methods
    BY <1>2, PlacesType DEF IInv, TypeInv
  <2> QED BY <2>1 DEF Methods
<1>5. i < at'
  BY <1>1, <1>3, <1>4
<1> QED BY <1>3, <1>5

LEMMA SkipStep == IInv /\ Skip => IInv'
<1> SUFFICES ASSUME IInv, Skip PROVE IInv'
  OBVIOUS
<1> USE DEF Skip
<1>1. TypeInv'
  BY DEF IInv, TypeInv, InCall
<1>2. Reported' /\ BlocksOK' /\ FreedByRelease'
  BY HeapStays DEF IInv, TypeInv
<1>3. HoldsOK'
  BY HoldsStays
<1>4. NullsKnown'
  BY NullsStay
<1>5. FreedHere'
  BY FreedHereStays
<1>6. FaultOK'
  BY DEF FaultOK
<1> QED BY <1>1, <1>2, <1>3, <1>4, <1>5, <1>6 DEF IInv

LEMMA SetNullStep == IInv /\ SetNull => IInv'
<1> SUFFICES ASSUME IInv, SetNull PROVE IInv'
  OBVIOUS
<1>1. /\ pc = "run" /\ at \in DOMAIN class.methods[method].body
      /\ Here.op \in {"null", "initnull"}
      /\ UNCHANGED <<class, report, method, calls, heap, pc, fault>>
      /\ at' = at + 1 /\ ptr' = [ptr EXCEPT ![Here.p] = Null]
  BY DEF SetNull, Running, Done
<1>2. Here.p \in Names
  BY <1>1, HereType DEF Stmts
<1>3. ptr \in [Names -> {Null, Wild} \cup Nat]
  BY DEF IInv, TypeInv
<1>4. \A p \in Names : ptr'[p] = IF p = Here.p THEN Null ELSE ptr[p]
  BY <1>1, <1>2, <1>3
<1>5. TypeInv'
  <2>1. ptr' \in [Names -> {Null, Wild} \cup Nat]
    BY <1>1, <1>2, <1>3
  <2> QED BY <1>1, <2>1 DEF IInv, TypeInv, InCall
<1>6. Reported' /\ BlocksOK' /\ FreedByRelease'
  BY <1>1, HeapStays DEF IInv, TypeInv
<1>7. HoldsOK'
  BY <1>1, <1>4, PointerAssumption, HoldsStays
<1>8. NullsKnown'
  <2>1. Here.p \in Plain => Here.p \in Nullable
    <3>1. <<method, at>> \in Places /\ Here = Stmt(<<method, at>>)
      BY <1>1, HereType
    <3>2. CASE Here.op = "null"
      BY <3>1, <3>2 DEF Plain, Nullable, NullAssignments, PointerFields, Of
    <3>3. CASE Here.op = "initnull"
      BY <3>1, <3>3 DEF Plain, InitNulls, Of
    <3> QED BY <1>1, <3>2, <3>3
  <2>2. \A p \in Plain : p \in Names
    BY ClassAssumption DEF IInv, TypeInv, Plain
  <2> QED BY <1>1, <1>4, <2>1, <2>2, NullsStay
<1>9. FreedHere'
  <2>1. Null \notin DOMAIN heap
    BY HeapType, PointerAssumption
  <2> QED BY <1>1, <1>4, <2>1, FreedHereStays
<1>10. FaultOK'
  BY <1>1 DEF FaultOK
<1> QED BY <1>5, <1>6, <1>7, <1>8, <1>9, <1>10 DEF IInv

LEMMA CopyStep == IInv /\ Copy => IInv'
<1> SUFFICES ASSUME IInv, Copy PROVE IInv'
  OBVIOUS
<1>1. /\ pc = "run" /\ at \in DOMAIN class.methods[method].body
      /\ Here.op = "copy"
      /\ UNCHANGED <<class, report, method, calls, heap, pc, fault>>
      /\ at' = at + 1 /\ ptr' = [ptr EXCEPT ![Here.p] = ptr[Here.from]]
  BY DEF Copy, Running, Done
<1>2. Here.p \in Names /\ Here.from \in Names
  BY <1>1, HereType DEF Stmts
<1>3. ptr \in [Names -> {Null, Wild} \cup Nat]
  BY DEF IInv, TypeInv
<1>4. \A p \in Names : ptr'[p] = IF p = Here.p THEN ptr[Here.from] ELSE ptr[p]
  BY <1>1, <1>2, <1>3
<1>5. Here.p \in Copied /\ Here.from \in Copied
  BY <1>1, HereType DEF Copied, Of
<1>6. TypeInv'
  <2>1. ptr' \in [Names -> {Null, Wild} \cup Nat]
    BY <1>1, <1>2, <1>3
  <2> QED BY <1>1, <2>1 DEF IInv, TypeInv, InCall
<1>7. Reported' /\ BlocksOK' /\ FreedByRelease'
  BY <1>1, HeapStays DEF IInv, TypeInv
<1>8. HoldsOK'
  <2>1. ASSUME NEW p \in Names, p = Here.p, ptr'[p] \in Nat PROVE OwnedOK(p)'
    <3>1. ptr'[p] = ptr[Here.from] /\ OwnedOK(Here.from)
      BY <1>2, <1>4, <2>1 DEF IInv, HoldsOK
    <3>2. ptr'[p] \in DOMAIN heap /\ Owner(ptr'[p]) \in Copied
      BY <1>5, <3>1 DEF OwnedOK
    <3> QED BY <1>1, <1>5, <2>1, <3>2, TextStays DEF OwnedOK, Owner, Stmt
  <2> QED BY <1>1, <1>4, <2>1, HoldsStays
<1>9. NullsKnown'
  <2>1. \A p \in Plain : p \in Names /\ p # Here.p
    BY <1>5, ClassAssumption DEF IInv, TypeInv, Plain
  <2> QED BY <1>1, <1>4, <2>1, NullsStay
<1>10. FreedHere'
  BY <1>1, <1>4, <1>5, FreedHereStays
<1>11. FaultOK'
  BY <1>1 DEF FaultOK
<1> QED BY <1>6, <1>7, <1>8, <1>9, <1>10, <1>11 DEF IInv

LEMMA NewStep == IInv /\ New => IInv'
<1> SUFFICES ASSUME IInv, New PROVE IInv'
  OBVIOUS
<1> DEFINE block == [at |-> <<method, at>>, array |-> Here.array, freed |-> 0]
           new == Len(heap) + 1
<1>1. /\ pc = "run" /\ at \in DOMAIN class.methods[method].body
      /\ Here.op = "new"
      /\ UNCHANGED <<class, report, method, calls, pc, fault>>
      /\ at' = at + 1 /\ heap' = Append(heap, block) /\ ptr' = [ptr EXCEPT ![Here.p] = new]
  BY DEF New, Running, Done
<1>2. Here.p \in Names /\ block \in Blocks
  BY <1>1, HereType DEF Stmts, Blocks
<1>3. ptr \in [Names -> {Null, Wild} \cup Nat] /\ heap \in Seq(Blocks)
  BY DEF IInv, TypeInv
<1>4. /\ heap' \in Seq(Blocks) /\ new \in Nat /\ new \notin DOMAIN heap
      /\ DOMAIN heap' = DOMAIN heap \cup {new}
      /\ heap'[new] = block
      /\ \A b \in DOMAIN heap : heap'[b] = heap[b]
  <2> HIDE DEF block
  <2> QED BY <1>1, <1>2, <1>3
<1>5. \A p \in Names : ptr'[p] = IF p = Here.p THEN new ELSE ptr[p]
  BY <1>1, <1>2, <1>3
<1>6. /\ <<method, at>> \in Of("new") /\ Here = Stmt(<<method, at>>)
      /\ block.at = <<method, at>> /\ block.array = Here.array /\ block.freed = 0
  BY <1>1, HereType DEF Of
<1> HIDE DEF block, new
<1>7. TypeInv'
  <2>1. ptr' \in [Names -> {Null, Wild} \cup Nat]
    BY <1>1, <1>2, <1>3, <1>4
  <2> QED BY <1>1, <1>4, <2>1 DEF IInv, TypeInv, InCall
<1>8. Reported'
  BY <1>1, TextStays DEF IInv, Reported
<1>9. BlocksOK'
  <2>1. /\ block.at \in Of("new") /\ block.array = Stmt(block.at).array
        /\ block.freed <= calls
    BY <1>6 DEF IInv, TypeInv, Stmt
  <2>2. \A b \in DOMAIN heap : /\ heap[b].at \in Of("new")
                               /\ heap[b].array = Stmt(heap[b].at).array
                               /\ heap[b].freed <= calls
    BY HeapType
  <2> QED BY <1>1, <1>4, <2>1, <2>2, TextStays DEF BlocksOK, Stmt
<1>10. HoldsOK'
  <2>1. ASSUME NEW p \in Names, p = Here.p PROVE OwnedOK(p)'
    <3>1. ptr'[p] = new /\ heap'[new].at = <<method, at>>
      BY <1>4, <1>5, <1>6, <2>1
    <3>2. Owner(ptr[p])' = Stmt(<<method, at>>).p
      BY <1>1, <3>1 DEF Owner, Stmt
    <3> QED BY <1>4, <1>6, <2>1, <3>1, <3>2 DEF OwnedOK
  <2> QED BY <1>1, <1>4, <1>5, <2>1, HoldsStays
<1>11. FreedByRelease'
  <2>1. \A b \in DOMAIN heap' : heap'[b].freed # 0 => b \in DOMAIN heap /\ heap'[b] = heap[b]
    BY <1>4, <1>6
  <2>2. \A b \in DOMAIN heap' : heap'[b].freed # 0 =>
          \E y \in Of("delete") : /\ Stmt(y).array = heap'[b].array
                                  /\ Stmt(heap'[b].at).p \in Copied \cup {Stmt(y).p}
    BY <2>1 DEF IInv, FreedByRelease, Owner
  <2>3. /\ Of("delete")' = Of("delete") /\ Copied' = Copied
        /\ \A x : Stmt(x)' = Stmt(x)
    BY <1>1, TextStays DEF Stmt
  <2> QED BY <2>2, <2>3 DEF FreedByRelease, Owner
<1>12. NullsKnown'
  <2>1. \A p \in Plain : p \in Names
    BY ClassAssumption DEF IInv, TypeInv, Plain
  <2> QED BY <1>1, <1>4, <1>5, <2>1, PointerAssumption, NullsStay
<1>13. FreedHere'
  <2>1. calls # 0
    BY <1>1 DEF IInv, TypeInv, InCall
  <2>2. \A p \in Names : ptr'[p] \in DOMAIN heap' /\ heap'[ptr'[p]].freed = calls =>
          ptr'[p] = ptr[p] /\ ptr[p] \in DOMAIN heap
    BY <1>4, <1>5, <1>6, <2>1
  <2> QED BY <1>1, <1>4, <2>2, FreedHereStays
<1>14. FaultOK'
  BY <1>1 DEF FaultOK
<1> QED BY <1>7, <1>8, <1>9, <1>10, <1>11, <1>12, <1>13, <1>14 DEF IInv

\* Why the next statement fails.
Explained(kind) ==
    /\ kind = "null" => Here.op \in {"use", "drop"} /\ Held = Null
    /\ kind \in {"mismatch", "double free"} => Here.op = "delete" /\ Held \in DOMAIN heap
    /\ kind = "mismatch" => heap[Held].array # Here.array

\* A statement that fails changes nothing but the fault.
LEMMA FailStep ==
    ASSUME IInv, pc = "run", at \in DOMAIN class.methods[method].body, NEW kind, Fails(kind),
           UNCHANGED <<class, report, method, calls>>, Explained(kind)
    PROVE  IInv'
<1> USE DEF Fails
<1>1. TypeInv'
  BY DEF IInv, TypeInv, InCall
<1>2. Reported' /\ BlocksOK' /\ FreedByRelease'
  BY HeapStays DEF IInv, TypeInv
<1>3. HoldsOK'
  BY HoldsStays
<1>4. NullsKnown'
  BY NullsStay
<1>5. FreedHere'
  BY FreedHereStays
<1>6. FaultOK'
  <2>1. <<method, at>> \in Places /\ Here = Stmt(<<method, at>>) /\ Held = ptr[Here.p]
    BY HereType DEF Held
  <2>2. Stmt(fault.at)' = Here /\ fault'.at = <<method, at>> /\ fault'.kind = kind
    BY <2>1 DEF Stmt
  <2> QED BY <2>1, <2>2, TextStays DEF FaultOK, Explained
<1> QED BY <1>1, <1>2, <1>3, <1>4, <1>5, <1>6 DEF IInv

\* A statement that only reads changes nothing.
LEMMA ReadStep ==
    ASSUME IInv, pc = "run", Done, UNCHANGED <<class, report, method, calls, heap, ptr>>
    PROVE  IInv'
<1> USE DEF Done
<1>1. TypeInv'
  BY DEF IInv, TypeInv, InCall
<1>2. Reported' /\ BlocksOK' /\ FreedByRelease'
  BY HeapStays DEF IInv, TypeInv
<1>3. HoldsOK'
  BY HoldsStays
<1>4. NullsKnown'
  BY NullsStay
<1>5. FreedHere'
  BY FreedHereStays
<1>6. FaultOK'
  BY DEF FaultOK
<1> QED BY <1>1, <1>2, <1>3, <1>4, <1>5, <1>6 DEF IInv

LEMMA UseStep == IInv /\ Use => IInv'
<1> SUFFICES ASSUME IInv, Use PROVE IInv'
  OBVIOUS
<1>1. /\ pc = "run" /\ at \in DOMAIN class.methods[method].body
      /\ Here.op \in {"use", "drop"} /\ UNCHANGED <<class, report, method, calls>>
  BY DEF Use, Running
<1>2. CASE Live(Held)
  BY <1>1, <1>2, ReadStep DEF Use
<1>3. CASE ~Live(Held) /\ Held = Null
  BY <1>1, <1>3, FailStep DEF Use, Explained
<1>4. CASE ~Live(Held) /\ Held # Null
  BY <1>1, <1>4, FailStep DEF Use, Explained
<1> QED BY <1>2, <1>3, <1>4

LEMMA DeleteStep == IInv /\ Delete => IInv'
<1> SUFFICES ASSUME IInv, Delete PROVE IInv'
  OBVIOUS
<1>1. /\ pc = "run" /\ at \in DOMAIN class.methods[method].body
      /\ Here.op = "delete" /\ UNCHANGED <<class, report, method, calls>>
  BY DEF Delete, Running
<1>2. CASE Held = Null
  BY <1>1, <1>2, ReadStep DEF Delete
<1>3. CASE Held # Null /\ ~Live(Held) /\ Block(Held)
  BY <1>1, <1>3, FailStep DEF Delete, Block, Explained
<1>4. CASE Held # Null /\ ~Live(Held) /\ ~Block(Held)
  BY <1>1, <1>4, FailStep DEF Delete, Explained
<1>5. CASE Held # Null /\ Live(Held) /\ heap[Held].array # Here.array
  BY <1>1, <1>5, FailStep DEF Delete, Live, Block, Explained
<1>6. CASE Held # Null /\ Live(Held) /\ heap[Held].array = Here.array
  <2>1. /\ heap' = [heap EXCEPT ![Held].freed = calls] /\ ptr' = ptr
        /\ pc' = pc /\ fault' = fault /\ at' = at + 1
        /\ Held \in DOMAIN heap
    BY <1>6 DEF Delete, Done, Live, Block
  <2>2. heap \in Seq(Blocks) /\ calls \in Nat
    BY DEF IInv, TypeInv
  <2>3. /\ heap' \in Seq(Blocks) /\ DOMAIN heap' = DOMAIN heap
        /\ \A b \in DOMAIN heap :
             /\ heap'[b].at = heap[b].at /\ heap'[b].array = heap[b].array
             /\ heap'[b].freed = IF b = Held THEN calls ELSE heap[b].freed
    <3>1. heap' \in Seq(Blocks)
      <4>1. [heap[Held] EXCEPT !.freed = calls] \in Blocks
        BY <2>1, <2>2, HeapType DEF Blocks
      <4> QED BY <2>1, <2>2, <4>1
    <3>2. DOMAIN heap' = DOMAIN heap
      BY <2>1, <2>2
    <3>3. \A b \in DOMAIN heap :
            heap'[b] = IF b = Held THEN [heap[b] EXCEPT !.freed = calls] ELSE heap[b]
      BY <2>1, <2>2
    <3>4. \A b \in DOMAIN heap :
            /\ heap'[b].at = heap[b].at /\ heap'[b].array = heap[b].array
            /\ heap'[b].freed = IF b = Held THEN calls ELSE heap[b].freed
      BY <3>3, HeapType DEF Blocks
    <3> QED BY <3>1, <3>2, <3>4
  <2>4. <<method, at>> \in Of("delete") /\ Here = Stmt(<<method, at>>) /\ Here.p \in Names
        /\ Held = ptr[Here.p] /\ Held \in Nat
    BY <1>1, <2>1, HereType, HeapType DEF Of, Stmts, Held
  <2>5. Owner(Held) = Here.p \/ {Here.p, Owner(Held)} \subseteq Copied
    BY <2>4 DEF IInv, HoldsOK, OwnedOK
  <2>6. TypeInv'
    BY <1>1, <2>1, <2>3 DEF IInv, TypeInv, InCall
  <2>7. Reported'
    BY <1>1, <2>1, TextStays DEF IInv, Reported
  <2>8. BlocksOK'
    <3>1. \A b \in DOMAIN heap : heap'[b].freed <= calls
      BY <2>2, <2>3, HeapType
    <3> QED BY <1>1, <2>3, <3>1, TextStays DEF IInv, BlocksOK, Stmt
  <2>9. HoldsOK'
    BY <1>1, <2>1, <2>3, HoldsStays
  <2>10. FreedByRelease'
    <3>1. ASSUME NEW b \in DOMAIN heap, heap'[b].freed # 0
          PROVE  \E y \in Of("delete") : /\ Stmt(y).array = heap[b].array
                                         /\ Owner(b) \in Copied \cup {Stmt(y).p}
      <4>1. CASE b = Held
        BY <1>6, <2>4, <2>5, <4>1
      <4>2. CASE b # Held
        BY <2>3, <3>1, <4>2 DEF IInv, FreedByRelease
      <4> QED BY <4>1, <4>2
    <3> QED BY <1>1, <2>3, <3>1, TextStays DEF FreedByRelease, Owner, Stmt
  <2>11. NullsKnown'
    BY <1>1, <2>1, NullsStay
  <2>12. FreedHere'
    <3> SUFFICES ASSUME NEW p \in Names, p \notin Copied, ptr[p] \in DOMAIN heap,
                        heap'[ptr[p]].freed = calls
                 PROVE  \E i \in DOMAIN class.methods[method].body :
                            /\ i < at'
                            /\ Stmt(<<method, i>>).op = "delete"
                            /\ Stmt(<<method, i>>).p = p
                            /\ Stmt(<<method, i>>).array = heap[ptr[p]].array
      BY <1>1, <2>1, <2>3, TextStays DEF FreedHere, Stmt
    <3>1. at \in Nat /\ at < at'
      BY <2>1 DEF IInv, TypeInv
    <3>2. CASE ptr[p] = Held
      <4>1. OwnedOK(p)
        BY <2>4, <3>2 DEF IInv, HoldsOK
      <4>2. p = Here.p
        BY <2>5, <3>2, <4>1 DEF OwnedOK
      <4> QED BY <1>1, <1>6, <2>4, <3>1, <3>2, <4>2
    <3>3. CASE ptr[p] # Held
      <4>1. heap[ptr[p]].freed = calls /\ InCall
        BY <1>1, <2>3, <3>3 DEF InCall
      <4>2. PICK i \in DOMAIN class.methods[method].body :
              /\ i < at
              /\ Stmt(<<method, i>>).op = "delete"
              /\ Stmt(<<method, i>>).p = p
              /\ Stmt(<<method, i>>).array = heap[ptr[p]].array
        BY <4>1 DEF IInv, FreedHere
      <4>3. i \in Nat
        <5>1. class.methods[method] \in Methods
          BY <4>1, PlacesType DEF IInv, TypeInv
        <5> QED BY <5>1 DEF Methods
      <4> QED BY <2>1, <3>1, <4>2, <4>3
    <3> QED BY <3>2, <3>3
  <2>13. FaultOK'
    BY <1>1, <2>1 DEF FaultOK
  <2> QED BY <2>6, <2>7, <2>8, <2>9, <2>10, <2>11, <2>12, <2>13 DEF IInv
<1> QED BY <1>2, <1>3, <1>4, <1>5, <1>6

LEMMA Inductive == IInv /\ [Next]_vars => IInv'
<1> SUFFICES ASSUME IInv, [Next]_vars PROVE IInv'
  OBVIOUS
<1>1. CASE AnalyzeMemorySafety
  BY <1>1, ScanStep
<1>2. CASE Construct
  BY <1>2, EnterStep DEF Construct
<1>3. CASE CallMethod
  BY <1>3, EnterStep DEF CallMethod
<1>4. CASE Destroy
  BY <1>4, EnterStep DEF Destroy
<1>5. CASE Return
  BY <1>5, ReturnStep
<1>6. CASE Skip
  BY <1>6, SkipStep
<1>7. CASE New
  BY <1>7, NewStep
<1>8. CASE SetNull
  BY <1>8, SetNullStep
<1>9. CASE Copy
  BY <1>9, CopyStep
<1>10. CASE Use
  BY <1>10, UseStep
<1>11. CASE Delete
  BY <1>11, DeleteStep
<1>12. CASE UNCHANGED vars
  <2> USE <1>12 DEF vars
  <2>1. TypeInv' /\ Reported' /\ BlocksOK' /\ FreedByRelease'
    BY TextStays DEF IInv, TypeInv, InCall, Reported, BlocksOK, FreedByRelease, Owner, Stmt
  <2>2. HoldsOK' /\ NullsKnown'
    BY HoldsStays, NullsStay
  <2>3. FreedHere'
    BY TextStays DEF IInv, FreedHere, InCall, Stmt
  <2>4. FaultOK'
    BY TextStays DEF IInv, FaultOK, Stmt
  <2> QED BY <2>1, <2>2, <2>3, <2>4 DEF IInv
<1> QED BY <1>1, <1>2, <1>3, <1>4, <1>5, <1>6, <1>7, <1>8, <1>9, <1>10, <1>11, <1>12 DEF Next

-----------------------------------------------------------------------------
(***************************************************************************)
(* What the invariant says of the report.                                  *)
(***************************************************************************)

\* After the analysis the report holds what the rules found.
LEMMA FoundIsReported ==
    ASSUME IInv, pc # "scan"
    PROVE  Found \subseteq report
BY DEF IInv, Reported

LEMMA IInvFaults == IInv => FaultsAreReported
<1> SUFFICES ASSUME IInv, pc = "fault" PROVE FaultsAreReported
  BY DEF FaultsAreReported
<1> DEFINE x == fault.at
           p == Stmt(x).p
<1>1. /\ x \in Places /\ x = <<method, at>> /\ Stmt(x) \in Stmts
      /\ class.methods \in Seq(Methods) /\ p \in Names
      /\ Found \subseteq report
  <2>1. x \in Places /\ x = <<method, at>> /\ class \in Classes
    BY DEF IInv, FaultOK, TypeInv
  <2>2. Stmt(x) \in Stmts /\ class.methods \in Seq(Methods)
    BY <2>1, PlacesType
  <2> QED BY <2>1, <2>2, FoundIsReported DEF Stmts
<1>2. ASSUME fault.kind = "null", p \in class.seen \cap class.fields, Unaliased(p),
             \A y \in Of("initnull") : Stmt(y).p # p, ~HasNullGuard(x[1], p)
      PROVE  Finding("MEM_NULL_DEREF_RISK", p, {x}) \in report
  <2>1. Stmt(x).op \in {"use", "drop"} /\ ptr[p] = Null
    BY <1>2 DEF IInv, FaultOK
  <2>2. p \in Plain
    BY <1>2, CopiedNames DEF Plain, InitNulls
  <2>3. p \in Nullable
    BY <2>1, <2>2 DEF IInv, NullsKnown
  <2>4. x \in Dereferences
    BY <1>1, <1>2, <2>1 DEF Dereferences, PointerFields, Of
  <2>5. Finding("MEM_NULL_DEREF_RISK", p, {x}) \in CheckNullDereferences
    BY <1>2, <2>3, <2>4 DEF CheckNullDereferences
  <2> QED BY <1>1, <2>5 DEF Found
<1>3. ASSUME fault.kind \in {"mismatch", "double free"}, Unaliased(p), OneKind(p),
             ReadRight("delete", p)
      PROVE  /\ x \in Of("delete") \cap Releases /\ ptr[p] \in DOMAIN heap
             /\ heap[ptr[p]].at \in Of("new") /\ Owner(ptr[p]) = p
             /\ Stmt(x).read = KindOf(Stmt(x).array)
             /\ \A y \in Releases : Stmt(y).p = p => Stmt(y).read = Stmt(x).read
  <2>1. Stmt(x).op = "delete" /\ ptr[p] \in DOMAIN heap
    BY <1>3 DEF IInv, FaultOK
  <2>2. x \in Of("delete") /\ Stmt(x).read = KindOf(Stmt(x).array)
    BY <1>1, <1>3, <2>1 DEF Of, ReadRight, KindOf
  <2>3. x \in Releases
    BY <2>2 DEF Releases, KindOf
  <2>4. ptr[p] \in Nat /\ heap[ptr[p]].at \in Of("new")
    BY <2>1, HeapType
  <2>5. OwnedOK(p)
    BY <1>1, <2>4 DEF IInv, HoldsOK
  <2>6. Owner(ptr[p]) = p
    BY <1>3, <2>5, CopiedNames DEF OwnedOK
  <2> QED BY <1>3, <2>1, <2>2, <2>3, <2>4, <2>6 DEF OneKind
<1>4. ASSUME fault.kind = "mismatch", Unaliased(p), OneKind(p),
             ReadRight("new", p), ReadRight("delete", p)
      PROVE  SaidOf("MEM_DELETE_KIND_MISMATCH", p)
  <2> DEFINE y == heap[ptr[p]].at
  <2>1. /\ x \in Releases /\ ptr[p] \in DOMAIN heap /\ y \in Of("new") /\ Stmt(y).p = p
        /\ Stmt(x).read = KindOf(Stmt(x).array)
        /\ \A z \in Releases : Stmt(z).p = p => Stmt(z).read = Stmt(x).read
    BY <1>3, <1>4 DEF Owner
  <2>2. Stmt(y).array # Stmt(x).array
    BY <1>4, <2>1, HeapType DEF IInv, FaultOK
  <2> HIDE DEF y
  <2>3. Stmt(y).read = KindOf(Stmt(y).array) /\ Stmt(y) \in Stmts
    BY <1>4, <2>1, PlacesType DEF ReadRight, KindOf, Of, IInv, TypeInv
  <2>4. y \in Allocations /\ Stmt(y).read # Stmt(x).read
    BY <1>1, <2>1, <2>2, <2>3 DEF Allocations, KindOf, Stmts
  <2>5. Matching(y) = {}
    BY <2>1, <2>4 DEF Matching
  <2>6. x \in Mismatched(y)
    BY <2>1, <2>4 DEF Mismatched
  <2>7. CheckAllocation(y) = Finding("MEM_DELETE_KIND_MISMATCH", p, Mismatched(y))
    BY <2>1, <2>5, <2>6 DEF CheckAllocation
  <2>8. CheckAllocation(y) \in report
    BY <1>1, <2>4 DEF CheckAllocations, Found
  <2> QED BY <2>7, <2>8 DEF SaidOf, Finding
<1>5. ASSUME fault.kind = "double free", Unaliased(p), OneKind(p), ReadRight("delete", p),
             heap[ptr[p]].freed = calls
      PROVE  \E d \in report : d.code = "MEM_DOUBLE_DELETE" /\ x \in d.at
  <2>1. /\ x \in Releases /\ ptr[p] \in DOMAIN heap
        /\ \A y \in Releases : Stmt(y).p = p => Stmt(y).read = Stmt(x).read
    BY <1>3, <1>5
  <2>2. InCall /\ p \notin Copied
    BY <1>5, CopiedNames DEF InCall
  <2>3. PICK i \in DOMAIN class.methods[method].body :
          i < at /\ Stmt(<<method, i>>).op = "delete" /\ Stmt(<<method, i>>).p = p
    BY <1>1, <1>5, <2>1, <2>2 DEF IInv, FreedHere
  <2> DEFINE y == <<method, i>>
  <2>4. y \in Of("delete")
    BY <2>2, <2>3, PlacesType DEF IInv, TypeInv, Of
  <2>5. y \in Releases
    BY <1>5, <2>3, <2>4 DEF Releases, ReadRight
  <2>6. y # x
    <3>1. i # at
      <4>1. i \in Nat /\ at \in Nat
        BY <2>4, PlacesType DEF IInv, TypeInv, Of
      <4> QED BY <2>3, <4>1
    <3> QED BY <1>1, <3>1
  <2>7. y[1] = x[1] /\ Stmt(y).p = Stmt(x).p /\ Stmt(y).read = Stmt(x).read
    BY <1>1, <2>1, <2>3, <2>5
  <2> HIDE DEF y
  <2>8. x \in Alike(x) /\ y \in Alike(x)
    BY <2>1, <2>5, <2>7 DEF Alike
  <2>9. Finding("MEM_DOUBLE_DELETE", p, Alike(x)) \in CheckDoubleDelete
    BY <2>1, <2>6, <2>8 DEF CheckDoubleDelete
  <2>10. Finding("MEM_DOUBLE_DELETE", p, Alike(x)) \in report
    BY <1>1, <2>9 DEF Found
  <2> QED BY <2>8, <2>10 DEF Finding
<1> QED BY <1>2, <1>4, <1>5 DEF FaultsAreReported

LEMMA IInvRisks == IInv => RisksAreReal
<1> SUFFICES ASSUME IInv, NEW d \in report, NEW b \in DOMAIN heap, Unaliased(d.p),
                    ReadRight("new", d.p), ReadRight("delete", d.p),
                    \/ d.code = "MEM_NEW_WITHOUT_DELETE" /\ heap[b].at \in d.at
                    \/ /\ d.code = "MEM_DELETE_KIND_MISMATCH"
                       /\ Stmt(heap[b].at).p = d.p
                       /\ \A x \in d.at : Stmt(x).array # heap[b].array,
                    heap[b].freed # 0
             PROVE  FALSE
  BY DEF RisksAreReal
<1>1. d \in CheckAllocations
  <2>1. d \in Found \cup OwnershipRisks(Found)
    BY DEF IInv, Reported
  <2>2. \A e \in OwnershipRisks(Found) : e.code = "SG-MEMORY-OWNERSHIP-RISK"
    BY DEF OwnershipRisks, Finding
  <2>3. \A e \in CheckDoubleDelete : e.code = "MEM_DOUBLE_DELETE"
    BY DEF CheckDoubleDelete, Finding
  <2>4. \A e \in CheckNullDereferences : e.code = "MEM_NULL_DEREF_RISK"
    BY DEF CheckNullDereferences, Finding
  <2> QED BY <2>1, <2>2, <2>3, <2>4 DEF Found
<1>2. PICK z \in Allocations : d = CheckAllocation(z)
  BY <1>1 DEF CheckAllocations
<1>3. PICK y \in Of("delete") : /\ Stmt(y).array = heap[b].array
                               /\ Owner(b) \in Copied \cup {Stmt(y).p}
  BY DEF IInv, FreedByRelease
<1>4. heap[b].array = Stmt(heap[b].at).array /\ heap[b].at \in Of("new")
  BY HeapType
<1>5. Owner(b) = d.p => /\ Stmt(y).p = d.p /\ y \in Releases
                        /\ Stmt(y).read = KindOf(heap[b].array)
                        /\ Stmt(heap[b].at).read = KindOf(heap[b].array)
  <2> SUFFICES ASSUME Owner(b) = d.p
               PROVE  /\ Stmt(y).p = d.p /\ y \in Releases
                      /\ Stmt(y).read = KindOf(heap[b].array)
                      /\ Stmt(heap[b].at).read = KindOf(heap[b].array)
    OBVIOUS
  <2>1. Stmt(y).p = d.p
    BY <1>3, CopiedNames
  <2>2. Stmt(y).read = KindOf(heap[b].array)
    BY <1>3, <2>1 DEF ReadRight, KindOf
  <2>3. Stmt(heap[b].at).read = KindOf(heap[b].array)
    BY <1>4 DEF ReadRight, KindOf, Owner
  <2>4. y \in Releases
    BY <2>2 DEF Releases, KindOf
  <2> QED BY <2>1, <2>2, <2>3, <2>4
<1>6. CASE d.code = "MEM_NEW_WITHOUT_DELETE"
  <2>1. Matching(z) = {} /\ d.at = {z} /\ d.p = Stmt(z).p
    BY <1>2, <1>6 DEF CheckAllocation, Finding
  <2>2. heap[b].at = z
    BY <1>6, <2>1
  <2>3. Owner(b) = d.p
    BY <2>1, <2>2 DEF Owner
  <2>4. y \in Matching(z)
    BY <1>5, <2>1, <2>2, <2>3 DEF Matching
  <2> QED BY <2>1, <2>4
<1>7. CASE d.code = "MEM_DELETE_KIND_MISMATCH"
  <2>1. Matching(z) = {} /\ d.at = Mismatched(z) /\ d.p = Stmt(z).p
    BY <1>2, <1>7 DEF CheckAllocation, Finding
  <2>2. Owner(b) = d.p /\ \A x \in d.at : Stmt(x).array # heap[b].array
    BY <1>7 DEF Owner
  <2>3. Stmt(y).p = Stmt(z).p /\ y \in Releases
    BY <1>5, <2>1, <2>2
  <2>4. y \in Mismatched(z)
    BY <2>1, <2>3 DEF Matching, Mismatched
  <2> QED BY <1>3, <2>1, <2>2, <2>4
<1> QED BY <1>6, <1>7

-----------------------------------------------------------------------------
LEMMA Always == Spec => []IInv
<1> QED BY InitIInv, Inductive, PTL DEF Spec

\* Reading all methods together, in no order and by names, the rules report the
\* first thing that goes wrong in any life of any object: a use of a field that some
\* call made null, a delete of the wrong kind, a second delete in one call.
THEOREM FaultsReported == Spec => []FaultsAreReported
BY Always, IInvFaults, PTL

\* A block reported to have no compatible release is freed by no life of an object
\* in the way it was allocated.
THEOREM RisksReal == Spec => []RisksAreReal
BY Always, IInvRisks, PTL
===============================================================================
