--------------------------- MODULE MCBoundedInterp ---------------------------
(***************************************************************************)
(* The bodies that TLC checks BoundedInterp on: every statement, and `if`  *)
(* nodes with an `if` nested in a branch or chained by "else if".  They    *)
(* are put together as trees and written out as tokens.                    *)
(***************************************************************************)
EXTENDS BoundedInterp

CONSTANTS
    Statements,   \* the statements a body is made of
    MaxNodes      \* bound: nodes at the top level of a body

MCStatements == Operations

\* Bodies that only return early behind a guard.
MCGuardedStatements == MCStatements \ {"return"}

Leaf(op) == [kind |-> "stmt", op |-> op]
Fork(cond, then, else, elseif) ==
    [kind |-> "if", cond |-> cond, then |-> then, else |-> else, elseif |-> elseif]

ShortBranches == {<<>>} \cup {<<Leaf(op)>> : op \in {"x++", "return_x", "return"}}

Inner == {Fork(cond, then, <<>>, FALSE) : cond \in {"zero", "opaque"},
                                          then \in ShortBranches \ {<<>>}}

LongBranches == ShortBranches \cup {<<Leaf("x=opaque")>>, <<Leaf("x++"), Leaf("return_x")>>}
                    \cup {<<node>> : node \in Inner}

Branchings ==
    {Fork(cond, then, else, FALSE) :
        cond \in {"zero", "opaque"}, then \in LongBranches, else \in ShortBranches}
    \cup
    {Fork(cond, then, <<node>>, TRUE) :
        cond \in {"zero", "opaque"}, then \in ShortBranches, node \in Inner}

\* The tokens of the nodes of a tree, from position `at` on.
RECURSIVE Written(_, _)
Written(nodes, at) ==
    IF nodes = <<>> THEN <<>>
    ELSE LET node == nodes[1]
             then == Written(node.then, at + 1)
             close == at + Len(then) + 1
             else == Written(node.else, close + 1)
             end == close + Len(else) + (IF node.elseif THEN 0 ELSE 1)
             first == CASE node.kind = "stmt" -> <<Stmt(node.op)>>
                        [] node.kind = "if" /\ node.else = <<>> ->
                              <<If(node.cond, close)>> \o then \o <<Brace(at)>>
                        [] OTHER ->
                              <<If(node.cond, close)>> \o then \o <<Else(at, ~node.elseif, end)>>
                                 \o else \o (IF node.elseif THEN <<>> ELSE <<Brace(at)>>)
         IN  first \o Written(Tail(nodes), at + Len(first))

\* A body of full length has one `if` at most, and a statement behind it.
Trees ==
    UNION {{t \in [1 .. n -> Branchings \cup {Leaf(op) : op \in Statements}] :
               n = MaxNodes => \A i, j \in 1 .. n :
                    t[i].kind = "if" => i < n /\ (t[j].kind = "if" => i = j)}
           : n \in 0 .. MaxNodes}

MCBodies == {Written(tree, 1) : tree \in Trees}
==============================================================================
