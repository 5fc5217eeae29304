------------------------------ MODULE MCTestGen ------------------------------
(***************************************************************************)
(* Classes for TLC: a container with a guard on one of its methods, two    *)
(* with other names, some of which the trace does not know, and one that   *)
(* has nothing to remove with.                                             *)
(***************************************************************************)
EXTENDS TestGen

\* A value no index reaches, and one past the end of small containers.
MCValues == {-1, 2}

MCTargets ==
    {[methods |-> {"push", "pop", "get"}, guarded |-> {"pop"}],
     [methods |-> {"enqueue", "dequeue", "front"}, guarded |-> {"front"}],
     [methods |-> {"append", "erase", "peek"}, guarded |-> {}],
     [methods |-> {"insert", "contains"}, guarded |-> {}]}
==============================================================================
