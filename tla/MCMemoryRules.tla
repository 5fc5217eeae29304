----------------------------- MODULE MCMemoryRules -----------------------------
(***************************************************************************)
(* Every class with a field f, recognised or not, declared null or not,    *)
(* one constructor and a destructor of at most one statement, a method of  *)
(* at most two and one of at most one; old_f is a second field in a few,   *)
(* and in a few f is an array of pointers, new T*[n].                      *)
(***************************************************************************)
EXTENDS MemoryRules

S(op, p, array, guard) ==
    [op |-> op, p |-> p, array |-> array, read |-> IF array THEN "array" ELSE "single",
     from |-> "f", guard |-> guard]
Up(n, T) == UNION {[1..k -> T] : k \in 0..n}

Ctor == {S("new", "f", FALSE, "no"), S("new", "f", TRUE, "no"), S("initnull", "f", FALSE, "no")}
Body == {S("new", "f", FALSE, "no"), S("delete", "f", FALSE, "no"),
         S("delete", "f", TRUE, "no"), S("delete", "f", FALSE, "if"),
         S("null", "f", FALSE, "no"), S("use", "f", FALSE, "no"), S("use", "f", FALSE, "if")}
Dtor == {S("delete", "f", FALSE, "no"), S("delete", "f", TRUE, "no")}
Aliases == {S("copy", "old_f", FALSE, "no"), S("delete", "old_f", FALSE, "no"),
            S("new", "old_f", FALSE, "no"), S("use", "old_f", FALSE, "differs")}
\* new T*[n] is read as single, delete (f) not at all.
Misread == {[S("new", "f", TRUE, "no") EXCEPT !.read = "single"],
            [S("new", "f", FALSE, "no") EXCEPT !.read = "none"]}
Elements == {S("drop", "f", FALSE, "no"), S("delete", "f", TRUE, "no"), S("delete", "f", FALSE, "no"),
             S("delete", "f", TRUE, "comment"),
             [S("delete", "f", FALSE, "no") EXCEPT !.read = "none"]}

Class(seen, null, c, d, m1, m2) ==
    [fields |-> {"f", "old_f"}, seen |-> seen, nullInit |-> null,
     methods |-> <<[name |-> "C", kind |-> "ctor", oneLine |-> FALSE, body |-> c],
                   [name |-> "~C", kind |-> "dtor", oneLine |-> TRUE, body |-> d],
                   [name |-> "a", kind |-> "call", oneLine |-> FALSE, body |-> m1],
                   [name |-> "b", kind |-> "call", oneLine |-> FALSE, body |-> m2]>>]

MCNames == {"f", "old_f"}
MCEndsIn == [p \in MCNames |-> {p, "f"}]
MCClasses ==
    {Class({"f"}, null, c, d, m1, m2) :
        null \in {{}, {"f"}}, c \in Up(1, Ctor), d \in Up(1, Dtor),
        m1 \in Up(2, Body), m2 \in Up(1, Body)}
    \cup {Class(seen, {}, c, d, m1, m2) :
        seen \in {{}, {"f", "old_f"}}, c \in Up(1, Ctor), d \in Up(1, Dtor \cup Aliases),
        m1 \in Up(2, Aliases), m2 \in Up(1, Body)}
    \cup {Class({"f"}, {}, c, d, m1, m2) :
        c \in Up(1, Misread \cup Ctor), d \in Up(1, Dtor),
        m1 \in Up(2, Elements), m2 \in Up(1, Misread)}
================================================================================
