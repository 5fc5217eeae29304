---------------------------- MODULE BoundedInterp ----------------------------
(***************************************************************************)
(* The branch-aware interpreter of the bounded verifier, next to what the  *)
(* C++ body it reads really does.                                          *)
(*                                                                         *)
(* Abstractions: the class has one integer field, x.  A body is a sequence *)
(* of tokens: a statement, "if (cond) {", "} else {" or "} else" before    *)
(* another `if`, and "}"; a token of an `if` says where the others are,    *)
(* which _find_matching finds by counting braces.  A statement or a        *)
(* condition is "opaque" when parse_expr raises, and a "call" when it is   *)
(* read as something else without a word: an unknown call evaluates to     *)
(* False and an unknown name to 0, a statement that is no assignment,      *)
(* increment or return is passed over, and the x of another object is      *)
(* taken for the field.  Of the notes of a path only the strongest kind is *)
(* kept.  Loops and the other words of UNSUPPORTED_BODY_RE are left out, a *)
(* body with one of them being marked uncertain as a whole; so are the     *)
(* assignments whose value is None, where the interpreter raises           *)
(* (ExecuteRaises of BoundedVerify), and the range of a C++ integer, which *)
(* Python does not have.                                                   *)
(***************************************************************************)
EXTENDS Integers, Sequences

CONSTANTS
    MaxPaths,   \* paths kept after each node (64 in the code)
    Values,     \* values of x before the call, and of what is opaque or a call
    Bodies,     \* the bodies considered
    NoResult    \* nothing has been returned

-----------------------------------------------------------------------------
(* Bodies.                                                                 *)

\* "call" is helper(); and whatever else may change x and is not recognised.
\* "o.x++" increments the x of another object.
Operations == {"x++", "x=opaque", "x=call", "call", "o.x++",
               "return_x", "return_opaque", "return_call", "return"}
Conditions == {"zero", "opaque", "call"}
Tokens ==
    [kind : {"stmt"}, op : Operations]
    \cup [kind : {"if"}, cond : Conditions, close : Nat]
    \cup [kind : {"else"}, open : Nat, braced : BOOLEAN, end : Nat]
    \cup [kind : {"brace"}, open : Nat]

Stmt(op) == [kind |-> "stmt", op |-> op]
If(cond, close) == [kind |-> "if", cond |-> cond, close |-> close]
Else(open, braced, end) == [kind |-> "else", open |-> open, braced |-> braced, end |-> end]
Brace(open) == [kind |-> "brace", open |-> open]

IsStmt(src, i) == src[i].kind = "stmt"
IsIf(src, i) == src[i].kind = "if"
IsElse(src, i) == src[i].kind = "else"
IsClosing(src, i) == src[i].kind \in {"else", "brace"}

\* The last token of the `if` at m, and the last one of its else branch: an else
\* branch without braces is the `if` that follows.
LastOf(src, m) ==
    LET j == src[m].close IN IF IsElse(src, j) THEN src[j].end ELSE j

ElseEnd(src, m) ==
    LET j == src[m].close IN
    IF IsElse(src, j) /\ src[j].braced THEN src[j].end - 1 ELSE LastOf(src, m)

\* The tokens from a to b are a text of their own: no `if` is torn.
Text(src, a, b) ==
    \A i \in a .. b : /\ IsIf(src, i) => LastOf(src, i) <= b
                      /\ IsClosing(src, i) => a <= src[i].open

WellFormed(src) ==
    /\ Text(src, 1, Len(src))
    /\ \A m \in DOMAIN src : IsIf(src, m) =>
          LET j == src[m].close IN
          /\ j \in m + 1 .. Len(src) /\ IsClosing(src, j)
          /\ Text(src, m + 1, j - 1)
          /\ IsElse(src, j) =>
                /\ src[j].end \in j + 1 .. Len(src) /\ src[src[j].end].kind = "brace"
                /\ src[j].braced \/ (IsIf(src, j + 1) /\ LastOf(src, j + 1) = src[j].end)
                /\ Text(src, j + 1, ElseEnd(src, m))
    /\ \A k \in DOMAIN src : IsClosing(src, k) =>
          LET m == src[k].open IN
          /\ m \in 1 .. k - 1 /\ IsIf(src, m)
          /\ k \in {src[m].close, LastOf(src, m)}

ASSUME InterpAssumption == /\ MaxPaths \in Nat \ {0}
                           /\ Values \subseteq Int /\ Values # {}
                           /\ NoResult \notin Values

\* What compiles has its braces in pairs.
ASSUME BodiesAssumption == \A src \in Bodies : src \in Seq(Tokens) /\ WellFormed(src)

VARIABLES
    body,    \* the method body
    trace,   \* one run of it as C++, from the call to its end
    calls    \* the calls of _execute_nodes that have not returned

interpVars == <<body, trace, calls>>

-----------------------------------------------------------------------------
(* What C++ does.                                                          *)

Run(at, x, result, done) == [at |-> at, x |-> x, result |-> result, done |-> done]

\* What parse_expr makes of a condition: size_ == 0 is what it is, and an unknown
\* call is false.
Holds(cond, x) == cond = "zero" /\ x = 0

Returns == {"return_x", "return_opaque", "return_call", "return"}

\* Where control can go from token i.
Follows(src, i) ==
    CASE IsStmt(src, i) -> IF src[i].op \in Returns THEN {} ELSE {i + 1}
      [] IsIf(src, i)   -> {i + 1, src[i].close + 1}
      [] IsElse(src, i) -> {src[i].end + 1}
      [] OTHER          -> {i + 1}

RealStmt(op, r) ==
    CASE op = "x++"      -> {[r EXCEPT !.at = @ + 1, !.x = @ + 1]}
      [] op \in {"x=opaque", "x=call", "call"} ->
                            {[r EXCEPT !.at = @ + 1, !.x = v] : v \in Values}
      [] op = "o.x++"    -> {[r EXCEPT !.at = @ + 1]}
      [] op = "return_x" -> {[r EXCEPT !.result = r.x, !.done = TRUE]}
      [] op \in {"return_opaque", "return_call"} ->
                            {[r EXCEPT !.result = v, !.done = TRUE] : v \in Values}
      [] op = "return"   -> {[r EXCEPT !.done = TRUE]}

RealStep(src, r) ==
    CASE IsStmt(src, r.at) -> RealStmt(src[r.at].op, r)
      [] IsIf(src, r.at) /\ src[r.at].cond = "zero" ->
            {[r EXCEPT !.at = IF Holds(src[r.at].cond, r.x) THEN @ + 1 ELSE src[@].close + 1]}
      [] OTHER -> {[r EXCEPT !.at = i] : i \in Follows(src, r.at)}

Ended(src, r) == r.done \/ r.at > Len(src)

-----------------------------------------------------------------------------
(* What the interpreter does.                                              *)

Strength == [none |-> 0, plain |-> 1, uncertain |-> 2]
Stronger(m, n) == IF Strength[m] >= Strength[n] THEN m ELSE n

Noted(p, note) == [p EXCEPT !.notes = Stronger(@, note)]

\* RETURN_RE finds `return <expr>;` in the text of a branch, at any depth.  A
\* bare `return;` does not match.
MentionsReturn(src, a, b) ==
    \E i \in a .. b : IsStmt(src, i) /\ src[i].op \in Returns \ {"return"}

\* Variant: the return of a branch is forgotten when the branch is left.
NeverReturned(src, a, b) == FALSE

\* Whether the paths out of a branch count as returned: asked of its text.
BranchReturned(src, a, b) == MentionsReturn(src, a, b)

\* _read_statement_or_block without a brace, from a in a text that ends at b: up
\* to the first `;` outside braces, or to the end.
StatementEnd(src, a, b) ==
    LET ends == {k \in a .. b : /\ IsStmt(src, k)
                                /\ \A m \in a .. k : IsIf(src, m) => LastOf(src, m) < k}
    IN  IF ends = {} THEN b ELSE CHOOSE k \in ends : \A i \in ends : k <= i

\* _scan_exec_nodes, in a text that ends at b: where the else branch of the `if`
\* at m ends, and where the node at i does.  After "else if (...) {...}" that is
\* the end of the first simple statement that follows the whole `if`.
ScannedElse(src, m, b) ==
    LET j == src[m].close IN
    IF IsElse(src, j) /\ ~src[j].braced THEN StatementEnd(src, j + 1, b) ELSE ElseEnd(src, m)

NodeEnd(src, i, b) ==
    IF IsStmt(src, i) THEN i
    ELSE LET j == src[i].close IN
         IF IsElse(src, j) /\ ~src[j].braced THEN StatementEnd(src, j + 1, b) ELSE LastOf(src, i)

\* Variant: an assignment that cannot be evaluated leaves no note.
ExecuteStmtSilently(op, p) ==
    CASE op \in {"x++", "o.x++"} -> [p EXCEPT !.x = @ + 1]
      [] op = "x=call"        -> [p EXCEPT !.x = 0]
      [] op = "return_x"      -> [p EXCEPT !.result = p.x, !.done = TRUE]
      [] op = "return_call"   -> [p EXCEPT !.result = 0, !.done = TRUE]
      [] op = "return_opaque" -> [Noted(p, "uncertain") EXCEPT !.done = TRUE]
      [] op \in {"x=opaque", "call", "return"} -> p

\* _execute_simple_statement: what parse_expr rejects is skipped with a note; what
\* it takes for False, what no pattern matches and what is taken for the field
\* leave none.
ExecuteStmt(op, p) ==
    CASE op \in {"x++", "o.x++"} -> [p EXCEPT !.x = @ + 1]
      [] op = "x=opaque"      -> Noted(p, "uncertain")
      [] op = "x=call"        -> [p EXCEPT !.x = 0]
      [] op = "return_x"      -> [p EXCEPT !.result = p.x, !.done = TRUE]
      [] op = "return_opaque" -> [Noted(p, "uncertain") EXCEPT !.done = TRUE]
      [] op = "return_call"   -> [p EXCEPT !.result = 0, !.done = TRUE]
      [] op \in {"call", "return"} -> p

\* Past the limit, the last path kept is repeated with a note.
Capped(paths) ==
    IF Len(paths) <= MaxPaths THEN paths
    ELSE SubSeq(paths, 1, MaxPaths) \o <<Noted(paths[MaxPaths], "uncertain")>>

\* A call of _execute_nodes on the text from a to b, made by calls[up]: `at` is
\* the node that the loop is at, `paths` those that it still has to take through
\* that node, `next` those it has taken.
Call(a, b, up, p) ==
    [from |-> a, to |-> b, up |-> up, at |-> a, paths |-> <<p>>, next |-> <<>>]

Depth == Len(calls)
Top == calls[Depth]
ThisPath == Top.paths[1]
Below == SubSeq(calls, 1, Depth - 1)

InterpInit ==
    /\ body \in Bodies
    /\ \E x \in Values :
          /\ trace = <<Run(1, x, NoResult, FALSE)>>
          /\ calls = <<Call(1, Len(body), 0,
                            [x |-> x, result |-> NoResult, notes |-> "none", done |-> FALSE])>>

\* C++ makes a step.
RunStep ==
    /\ ~Ended(body, trace[Len(trace)])
    /\ \E r \in RealStep(body, trace[Len(trace)]) : trace' = Append(trace, r)
    /\ UNCHANGED <<body, calls>>

\* The loops of the topmost call are at its first path.
AtPath ==
    /\ Ended(body, trace[Len(trace)])
    /\ Top.at <= Top.to
    /\ Top.paths # <<>>
    /\ UNCHANGED <<body, trace>>

\* The topmost call goes on as c.
Continue(c) == calls' = Append(Below, c)

\* The first path has passed the node as p.
Taken(p) == Continue([Top EXCEPT !.paths = Tail(@), !.next = Append(@, p)])

\* A path that has returned passes the node.
SkipReturned == AtPath /\ ThisPath.done /\ Taken(ThisPath)

ExecuteStatement ==
    /\ AtPath
    /\ ~ThisPath.done
    /\ IsStmt(body, Top.at)
    /\ Taken(ExecuteStmt(body[Top.at].op, ThisPath))

AtBranching(cond) ==
    /\ AtPath
    /\ ~ThisPath.done
    /\ IsIf(body, Top.at)
    /\ body[Top.at].cond = cond

ThenCall(note) == Call(Top.at + 1, body[Top.at].close - 1, Depth, Noted(ThisPath, note))
ElseCall(note) ==
    Call(body[Top.at].close + 1, ScannedElse(body, Top.at, Top.to), Depth, Noted(ThisPath, note))

\* The first path is out of the queue, and the topmost call waits for a branch.
Waiting == Append(Below, [Top EXCEPT !.paths = Tail(@)])

EnterThen ==
    /\ AtBranching("zero")
    /\ Holds("zero", ThisPath.x)
    /\ calls' = Append(Waiting, ThenCall("plain"))

EnterElse(cond) ==
    /\ AtBranching(cond)
    /\ ~Holds(cond, ThisPath.x)
    /\ calls' = Append(Waiting, ElseCall("plain"))

\* A condition that parse_expr rejects takes both branches, with a note.
EnterBoth ==
    /\ AtBranching("opaque")
    /\ calls' = Append(Append(Waiting, ElseCall("uncertain")), ThenCall("uncertain"))

\* All paths have passed the node.
NextNode ==
    /\ Ended(body, trace[Len(trace)])
    /\ Top.at <= Top.to
    /\ Top.paths = <<>>
    /\ Continue([Top EXCEPT !.at = NodeEnd(body, @, Top.to) + 1,
                            !.paths = Capped(Top.next), !.next = <<>>])
    /\ UNCHANGED <<body, trace>>

\* A branch is executed: its paths go on behind the `if`.
LeaveBranch ==
    LET returned == BranchReturned(body, Top.from, Top.to)
        left == [i \in DOMAIN Top.paths |-> [Top.paths[i] EXCEPT !.done = returned]]
    IN  /\ Ended(body, trace[Len(trace)])
        /\ Top.at > Top.to
        /\ Depth > 1
        /\ calls' = [Below EXCEPT ![Top.up].next = @ \o left]
        /\ UNCHANGED <<body, trace>>

InterpNext ==
    \/ RunStep
    \/ SkipReturned \/ ExecuteStatement
    \/ EnterThen \/ (\E cond \in {"zero", "call"} : EnterElse(cond)) \/ EnterBoth
    \/ NextNode \/ LeaveBranch

InterpSpec == InterpInit /\ [][InterpNext]_interpVars

\* The run is over, and execute_body_paths returns the paths of its one call.
Executed ==
    /\ Ended(body, trace[Len(trace)])
    /\ Depth = 1
    /\ Top.at > Top.to

-----------------------------------------------------------------------------
(* Properties.                                                             *)

SameEnd(p, r) == p.x = r.x /\ p.result = r.result

\* The end of the C++ run is the end of a path, unless a path carries an
\* uncertainty note (which keeps the method from being reported as verified).
MissesNothing ==
    \/ \E i \in DOMAIN Top.paths : Top.paths[i].notes = "uncertain"
    \/ \E i \in DOMAIN Top.paths : SameEnd(Top.paths[i], trace[Len(trace)])

\* Every path without an uncertainty note ends as the C++ run does, so that a
\* contract it breaks is really broken.
InventsNothing ==
    \A i \in DOMAIN Top.paths :
        Top.paths[i].notes = "uncertain" \/ SameEnd(Top.paths[i], trace[Len(trace)])

\* Wherever control goes in the text from a to b, it meets a return: a set of
\* places that control never leaves, but by returning.
AlwaysReturns(src, a, b) ==
    \E S \in SUBSET (a .. b) : a \in S /\ \A i \in S : Follows(src, i) \subseteq S

\* Bodies without a bare `return;`, whose branches return on every way or on
\* none, and where nothing follows an `if` that has an "else if".
Tame(src) ==
    /\ \A i \in DOMAIN src : IsStmt(src, i) => src[i].op # "return"
    /\ \A m \in DOMAIN src : IsIf(src, m) =>
          LET j == src[m].close IN
          /\ MentionsReturn(src, m + 1, j - 1) => AlwaysReturns(src, m + 1, j - 1)
          /\ MentionsReturn(src, j + 1, ElseEnd(src, m))
                => AlwaysReturns(src, j + 1, ElseEnd(src, m))
    /\ \A j \in DOMAIN src : IsElse(src, j) /\ ~src[j].braced =>
          src[j].end = Len(src) \/ IsClosing(src, src[j].end + 1)

\* What the interpreter reads as something else, and leaves no note of.
Misread(src, i) == \/ IsStmt(src, i) /\ src[i].op \in {"x=call", "call", "o.x++", "return_call"}
                   \/ IsIf(src, i) /\ src[i].cond = "call"

\* The run meets nothing that is misread.
Understood(src, tr) ==
    \A t \in DOMAIN tr : tr[t].at \in DOMAIN src => ~Misread(src, tr[t].at)

\* On tame bodies the evidence behind BOUNDED_VERIFIED is complete: no run that
\* meets nothing misread is missing, unless the note says that one may be.
TameBodiesMissNothing == Executed /\ Tame(body) /\ Understood(body, trace) => MissesNothing

\* On tame bodies a counterexample is real: where the run meets nothing misread, a
\* path without doubt is that run.
TameBodiesInventNothing == Executed /\ Tame(body) /\ Understood(body, trace) => InventsNothing

\* _is_uncertainty_note takes the notes of a path for the sign that something was
\* not modelled, and without one a method is verified or failed.  It does not hold
\* that what is not modelled leaves one: an unknown call is false, an unknown name
\* is 0 and helper(); is nothing, all without a note.
NothingIsMisread == Executed /\ Tame(body) => MissesNothing

\* counterexample.py: a FAILED method "Operación: ... Estado después: ...".  The
\* state that a diagnostic gives as the state after the operation is one the
\* operation can leave, whatever the shape of the body; the interpreter's tests
\* and standard_contracts.py name guards and early returns in particular.
CounterexamplesAreReached == Executed => InventsNothing
==============================================================================
