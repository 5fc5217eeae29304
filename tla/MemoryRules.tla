------------------------------ MODULE MemoryRules ------------------------------
(***************************************************************************)
(* The memory rules (analyze_memory_safety_project) against the lives of   *)
(* objects: a class is reported on from the text of its methods, taken     *)
(* together and in no order, and then one of its objects is constructed,   *)
(* called and destroyed.                                                   *)
(*                                                                         *)
(* A class is [fields, seen, nullInit, methods]: its pointer fields, those *)
(* that the scanner recognises by their declarations, those declared null  *)
(* with =, and the methods.  A method is [name, kind, oneLine, body], kind *)
(* one of "ctor", "dtor" and "call"; if it stands on one line, its text is *)
(* twice in what the rules read, as its signature and as its body.  A      *)
(* statement of the body is [op, p, array, read, from, guard].             *)
(*   new       p = new T, or new T[] (array), also as an initializer       *)
(*   delete    delete p, or delete[] p (array)                             *)
(*   drop      delete p[i], which is read as delete p                      *)
(*   null      p = nullptr                                                 *)
(*   initnull  p(nullptr) before the body of a constructor, or p{nullptr}  *)
(*             in its declaration, which stands before every constructor   *)
(*   use       *p, p-> or p[                                               *)
(*   copy      p = from                                                    *)
(* array is what a statement does; read is the kind that the patterns see  *)
(* in its text: p = new T*[n] and p = new std::pair<K, V>[n] are read as   *)
(* single, p{new T}, p = new (std::nothrow) T and delete (p) not at all.   *)
(* guard: under if (p), or under a condition p != nullptr ("differs"; the  *)
(* other order, nullptr != p, is left out), or in a comment, which is read *)
(* like any text.  Names that are not fields are local variables.  The     *)
(* relation between size and capacity, three patterns of text, is left     *)
(* out.                                                                    *)
(***************************************************************************)
EXTENDS Naturals, Sequences

CONSTANTS Names,        \* of pointers
          EndsIn,       \* the names that each name ends in, itself one of them
          Classes,
          MaxCalls,     \* calls of methods in a life, at most
          Null, Wild    \* a null pointer and one that was never set

Ops == {"new", "delete", "drop", "null", "initnull", "use", "copy"}
Stmts == [op : Ops, p : Names, array : BOOLEAN, read : {"single", "array", "none"},
          from : Names, guard : {"no", "if", "differs", "comment"}]
Methods == [name : STRING, kind : {"ctor", "dtor", "call"}, oneLine : BOOLEAN,
            body : Seq(Stmts)]

ASSUME ClassAssumption ==
    Classes \subseteq [fields : SUBSET Names, seen : SUBSET Names,
                       nullInit : SUBSET Names, methods : Seq(Methods)]
ASSUME NameAssumption == /\ EndsIn \in [Names -> SUBSET Names]
                         /\ \A p \in Names : p \in EndsIn[p]
\* Null and Wild are not blocks, which are numbers.
ASSUME PointerAssumption == Null \notin Nat /\ Wild \notin Nat /\ Null # Wild

VARIABLES
    class,
    report,     \* [code, p, at]: the statements, as <<method, position>>, of which
                \* the diagnostic names the first
    pc,         \* "scan", "unborn", "idle", "run", "over" or "fault"
    method,     \* the method being run, as an index
    at,         \* and the statement of it that is next
    calls,      \* calls made, the constructor's included
    heap,       \* blocks: where allocated, whether as arrays, and in which call freed
    ptr,        \* what the names hold: blocks are numbers
    fault       \* what went wrong

vars == <<class, report, pc, method, at, calls, heap, ptr, fault>>

(***************************************************************************)
(* build_class_memory_model                                                *)
(***************************************************************************)
Places ==
    UNION {{<<k, i>> : i \in DOMAIN class.methods[k].body} : k \in DOMAIN class.methods}
Stmt(x) == class.methods[x[1]].body[x[2]]
Of(op) == {x \in Places : Stmt(x).op = op}

PointerFields == class.seen
InitializedNull == PointerFields \cap class.nullInit

Allocations == {x \in Of("new") : Stmt(x).read # "none"}
Releases == {x \in Of("delete") \cup Of("drop") : Stmt(x).read # "none"}
\* Of these two only the fields that were recognised count.
NullAssignments == {x \in Of("null") : Stmt(x).p \in PointerFields}
Dereferences == {x \in Of("use") \cup Of("drop") : Stmt(x).p \in PointerFields}

\* One guard anywhere in a method is a guard for all of it, and old_p != nullptr is
\* one of p: the text is searched for p != nullptr, not for the name.
HasNullGuard(k, p) ==
    \E i \in DOMAIN class.methods[k].body :
        LET s == class.methods[k].body[i]
        IN  \/ s.guard = "if" /\ s.p = p
            \/ s.guard = "differs" /\ p \in EndsIn[s.p]

(***************************************************************************)
(* The rules.                                                              *)
(***************************************************************************)
Finding(c, p, S) == [code |-> c, p |-> p, at |-> S]

\* A mistake: only the destructor releases.
MatchingInDestructor(x) ==
    {y \in Releases : /\ Stmt(y).p = Stmt(x).p /\ Stmt(y).read = Stmt(x).read
                      /\ class.methods[y[1]].kind = "dtor"}

Matching(x) ==
    {y \in Releases : Stmt(y).p = Stmt(x).p /\ Stmt(y).read = Stmt(x).read}
Mismatched(x) ==
    {y \in Releases : Stmt(y).p = Stmt(x).p /\ Stmt(y).read # Stmt(x).read}

CheckAllocation(x) ==
    IF Matching(x) # {} THEN Finding("MEM_OWNERSHIP_OK", Stmt(x).p, {x})
    ELSE IF Mismatched(x) # {}
         THEN Finding("MEM_DELETE_KIND_MISMATCH", Stmt(x).p, Mismatched(x))
         ELSE Finding("MEM_NEW_WITHOUT_DELETE", Stmt(x).p, {x})
CheckAllocations == {CheckAllocation(x) : x \in Allocations}

\* Releases of one name and one kind in all methods of one name.
Alike(x) ==
    {y \in Releases : /\ Stmt(y).p = Stmt(x).p /\ Stmt(y).read = Stmt(x).read
                      /\ class.methods[y[1]].name = class.methods[x[1]].name}

CheckDoubleDelete ==
    {Finding("MEM_DOUBLE_DELETE", Stmt(x).p, Alike(x)) :
        x \in {z \in Releases : Alike(z) # {z} \/ class.methods[z[1]].oneLine}}

\* A mistake: a pointer is null only if it is declared so.
NullableByDeclaration == InitializedNull

Nullable == InitializedNull \cup {Stmt(x).p : x \in NullAssignments}

CheckNullDereferences ==
    {Finding("MEM_NULL_DEREF_RISK", Stmt(x).p, {x}) :
        x \in {z \in Dereferences : /\ Stmt(z).p \in Nullable
                                    /\ ~HasNullGuard(z[1], Stmt(z).p)}}

Risks == {"MEM_DELETE_KIND_MISMATCH", "MEM_NEW_WITHOUT_DELETE", "MEM_DOUBLE_DELETE"}
OwnershipRisks(S) ==
    {Finding("SG-MEMORY-OWNERSHIP-RISK", d.p, d.at) : d \in {e \in S : e.code \in Risks}}

(***************************************************************************)
(* The analysis, and a life of an object.                                  *)
(***************************************************************************)
NoFault == [kind |-> "none", at |-> <<0, 0>>]

Init == /\ class \in Classes
        /\ report = {}
        /\ pc = "scan"
        /\ method = 0
        /\ at = 0
        /\ calls = 0
        /\ heap = <<>>
        /\ ptr = [p \in Names |-> Wild]
        /\ fault = NoFault

AnalyzeMemorySafety ==
    /\ pc = "scan"
    /\ pc' = "unborn"
    /\ LET found == CheckAllocations \cup CheckDoubleDelete \cup CheckNullDereferences
       IN  report' = found \cup OwnershipRisks(found)
    /\ UNCHANGED <<class, method, at, calls, heap, ptr, fault>>

\* Local variables start unset.
Enter(kind) ==
    /\ \E k \in DOMAIN class.methods : class.methods[k].kind = kind /\ method' = k
    /\ pc' = "run"
    /\ at' = 1
    /\ calls' = calls + 1
    /\ ptr' = [p \in Names |->
                IF p \notin class.fields THEN Wild
                ELSE IF kind = "ctor" /\ p \in class.nullInit THEN Null
                ELSE ptr[p]]
    /\ UNCHANGED <<class, report, heap, fault>>

Construct == pc = "unborn" /\ Enter("ctor")
CallMethod == pc = "idle" /\ calls <= MaxCalls /\ Enter("call")
Destroy == pc = "idle" /\ Enter("dtor")

Return ==
    /\ pc = "run"
    /\ at \notin DOMAIN class.methods[method].body
    /\ pc' = IF class.methods[method].kind = "dtor" THEN "over" ELSE "idle"
    /\ UNCHANGED <<class, report, method, at, calls, heap, ptr, fault>>

Here == Stmt(<<method, at>>)
Held == ptr[Here.p]

Running(op) ==
    /\ pc = "run"
    /\ at \in DOMAIN class.methods[method].body
    /\ Here.op = op
    /\ Here.guard # "comment"
    /\ Here.guard # "no" => Held # Null
    /\ UNCHANGED <<class, report, method, calls>>
Done == at' = at + 1 /\ UNCHANGED <<pc, fault>>
Fails(kind) ==
    /\ fault' = [kind |-> kind, at |-> <<method, at>>]
    /\ pc' = "fault"
    /\ UNCHANGED <<at, heap, ptr>>

\* A pointer that was never set may be null to a guard.
Skip ==
    /\ pc = "run"
    /\ at \in DOMAIN class.methods[method].body
    /\ \/ Here.guard = "comment"
       \/ Here.guard # "no" /\ Held \in {Null, Wild}
    /\ at' = at + 1
    /\ UNCHANGED <<class, report, pc, method, calls, heap, ptr, fault>>

New ==
    /\ Running("new")
    /\ heap' = Append(heap, [at |-> <<method, at>>, array |-> Here.array, freed |-> 0])
    /\ ptr' = [ptr EXCEPT ![Here.p] = Len(heap) + 1]
    /\ Done

SetNull ==
    /\ Running("null") \/ Running("initnull")
    /\ ptr' = [ptr EXCEPT ![Here.p] = Null]
    /\ UNCHANGED heap
    /\ Done

Copy ==
    /\ Running("copy")
    /\ ptr' = [ptr EXCEPT ![Here.p] = ptr[Here.from]]
    /\ UNCHANGED heap
    /\ Done

Block(b) == b \in DOMAIN heap
Live(b) == Block(b) /\ heap[b].freed = 0

\* What p[i] points to is no block of these.
Use ==
    /\ Running("use") \/ Running("drop")
    /\ IF Live(Held) THEN UNCHANGED <<heap, ptr>> /\ Done
       ELSE Fails(IF Held = Null THEN "null" ELSE "dangling")

\* Deleting a null pointer does nothing.
Delete ==
    /\ Running("delete")
    /\ IF Held = Null THEN UNCHANGED <<heap, ptr>> /\ Done
       ELSE IF ~Live(Held) THEN Fails(IF Block(Held) THEN "double free" ELSE "dangling")
       ELSE IF heap[Held].array # Here.array THEN Fails("mismatch")
       ELSE /\ heap' = [heap EXCEPT ![Held].freed = calls]
            /\ UNCHANGED ptr
            /\ Done

Next == \/ AnalyzeMemorySafety \/ Construct \/ CallMethod \/ Destroy \/ Return
        \/ Skip \/ New \/ SetNull \/ Copy \/ Use \/ Delete

Spec == Init /\ [][Next]_vars

(***************************************************************************)
(* Properties.                                                             *)
(***************************************************************************)
\* The rules go by names: they know nothing of p once it is copied, from or to.
Unaliased(p) ==
    \A x \in Of("copy") : Stmt(x).p # p /\ Stmt(x).from # p
\* The patterns see what the statements on p are.
ReadRight(op, p) ==
    \A x \in Of(op) :
        Stmt(x).p = p => Stmt(x).read = IF Stmt(x).array THEN "array" ELSE "single"
OneKind(p) ==
    \A x, y \in Releases : Stmt(x).p = p /\ Stmt(y).p = p => Stmt(x).read = Stmt(y).read
SaidOf(c, p) == \E d \in report : d.code = c /\ d.p = p

\* Taking all methods together and in no order loses nothing: whatever calls are
\* made of an object, the first thing that goes wrong with a field was reported.  A
\* null pointer that is used, in whichever method it became null; a block freed by
\* the wrong delete, unless the field is deleted in both ways; a block freed twice by
\* one call.  Excepted are fields that are copied or not recognised, initializers
\* that make a field null, which the rules do not see, methods with what is taken
\* for a guard, and texts whose kind is misread: the delete p that should be
\* delete[] p after p = new T*[n] is taken for a match.
FaultsAreReported ==
    pc = "fault" =>
        LET x == fault.at
            p == Stmt(x).p
        IN  /\ fault.kind = "null" /\ p \in class.seen \cap class.fields /\ Unaliased(p)
               /\ (\A y \in Of("initnull") : Stmt(y).p # p) /\ ~HasNullGuard(x[1], p)
               => Finding("MEM_NULL_DEREF_RISK", p, {x}) \in report
            /\ fault.kind = "mismatch" /\ Unaliased(p) /\ OneKind(p)
               /\ ReadRight("new", p) /\ ReadRight("delete", p)
               => SaidOf("MEM_DELETE_KIND_MISMATCH", p)
            /\ fault.kind = "double free" /\ Unaliased(p) /\ OneKind(p)
               /\ ReadRight("delete", p) /\ heap[ptr[p]].freed = calls
               => \E d \in report : d.code = "MEM_DOUBLE_DELETE" /\ x \in d.at

\* A block that is reported to have no compatible release is never freed as it
\* should, by whatever calls, if the patterns read its kind and those of the releases
\* right: the release may be in any method, not only in the destructor.
RisksAreReal ==
    \A d \in report : \A b \in DOMAIN heap :
        /\ Unaliased(d.p) /\ ReadRight("new", d.p) /\ ReadRight("delete", d.p)
        /\ \/ d.code = "MEM_NEW_WITHOUT_DELETE" /\ heap[b].at \in d.at
           \/ /\ d.code = "MEM_DELETE_KIND_MISMATCH"
              /\ Stmt(heap[b].at).p = d.p
              /\ \A x \in d.at : Stmt(x).array # heap[b].array
        => heap[b].freed = 0

\* Without the hypothesis on the text they are not: p = new T*[n] is read as single,
\* and the delete[] p that it asks for is reported as a mismatch.
RisksOfAnyTextAreReal ==
    \A d \in report : \A b \in DOMAIN heap :
        /\ d.code \in {"MEM_NEW_WITHOUT_DELETE", "MEM_DELETE_KIND_MISMATCH"}
        /\ Unaliased(d.p) /\ Stmt(heap[b].at).p = d.p
        /\ \A x \in Of("new") \cup Of("delete") :
             Stmt(x).p = d.p => Stmt(x).read # "none" /\ Stmt(x).array = heap[b].array
        => heap[b].freed = 0
===============================================================================
