--------------------------- MODULE MCBoundedVerify ---------------------------
(***************************************************************************)
(* An instance of BoundedVerify for TLC: a declared and an inferred        *)
(* ensures, an inferred invariant with the size underflow, and states of   *)
(* every kind that the loop tells apart, with two paths or fewer.          *)
(***************************************************************************)
EXTENDS BoundedVerify

MCContracts ==
    << [kind |-> "ensures", declared |-> FALSE, underflow |-> FALSE],
       [kind |-> "ensures", declared |-> TRUE, underflow |-> FALSE],
       [kind |-> "invariant", declared |-> FALSE, underflow |-> TRUE] >>

PathOf(a, b, c, notes) == [outcome |-> <<a, b, c>>, notes |-> notes]
CleanPath == PathOf("holds", "holds", "holds", "plain")

MCCases ==
    { [feasible |-> FALSE, paths |-> <<CleanPath>>],
      [feasible |-> TRUE, paths |-> <<CleanPath>>],
      [feasible |-> TRUE, paths |-> <<PathOf("holds", "holds", "holds", "uncertain")>>],
      [feasible |-> TRUE, paths |-> <<CleanPath, PathOf("violated", "holds", "holds", "none")>>],
      [feasible |-> TRUE, paths |-> <<PathOf("violated", "violated", "holds", "plain")>>],
      [feasible |-> TRUE, paths |-> <<PathOf("holds", "violated", "error", "uncertain")>>],
      [feasible |-> TRUE, paths |-> <<PathOf("holds", "holds", "violated", "plain"), CleanPath>>],
      [feasible |-> TRUE, paths |-> <<PathOf("holds", "error", "holds", "none")>>],
      [feasible |-> TRUE, paths |-> <<>>] }

MCRejections == {"NO_BODY", "NO_CONTRACTS_FOR_METHOD", "TOO_MANY_SYMBOLS",
                 "CONTRACT_PARSE_ERROR"}
==============================================================================
