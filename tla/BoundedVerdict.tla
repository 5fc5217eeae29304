---------------------------- MODULE BoundedVerdict ----------------------------
(***************************************************************************)
(* What the bounded verifier answers for one method: no loop, no counters, *)
(* only the set of states it searches and the first trouble among them.    *)
(***************************************************************************)
EXTENDS Naturals, Sequences, FiniteSets

CONSTANTS
    MaxStates,      \* states in the product of the variables' domains, at most
    MaxCases,       \* max_cases: feasible states to check
    ExploreFactor,  \* states explored at most, per case of MaxCases (5 in the code)
    Contracts,      \* the contracts in the order they are checked
    Cases,          \* what a state of the product can turn out to be
    Rejections,     \* codes of the answers given without a search
    NoVerdict       \* the search has not ended

VARIABLES
    world,    \* world[i]: the i-th state of the product, see BoundedVerify
    verdict   \* the answer

Nowhere == <<0, 0, 0>>
Answer(level, code, at) == [level |-> level, code |-> code, at |-> at]

FeasibleUpTo(n) == {i \in 1 .. n : world[i].feasible}

\* The states whose bodies are executed when max_cases is m.
Searched(m) == {i \in 1 .. Len(world) : /\ world[i].feasible
                                     /\ i <= ExploreFactor * m
                                     /\ Cardinality(FeasibleUpTo(i)) <= m}

\* Exploration is cut while cases are still missing.
CutShort(m) == /\ ExploreFactor * m < Len(world)
               /\ Cardinality(FeasibleUpTo(ExploreFactor * m)) <= m

PathsOf(i) == DOMAIN world[i].paths

\* The searched states in which the interpreter raises, and has no paths.
Raising(m) == {i \in Searched(m) : world[i].paths = <<>>}

Troubles(m) ==
    {<<i, 0, 0>> : i \in Raising(m)} \cup
    UNION {UNION {{<<i, j, k>> : k \in {c \in DOMAIN Contracts :
                                    world[i].paths[j].outcome[c] # "holds"}}
                  : j \in PathsOf(i)} : i \in Searched(m)}

Precedes(s, t) == \/ s[1] < t[1]
                  \/ s[1] = t[1] /\ s[2] < t[2]
                  \/ s[1] = t[1] /\ s[2] = t[2] /\ s[3] < t[3]

FirstTrouble(m) ==
    CHOOSE t \in Troubles(m) : \A s \in Troubles(m) \ {t} : Precedes(t, s)

\* A doubtful path excuses the violation of an inferred contract, unless it is
\* the size underflow that the verifier recognises in the body.
Excused(path, c) == path.notes # "none" /\ ~c.declared /\ ~c.underflow

\* The answer to a contract that does not hold: an evaluation error or a violation.
Blame(t) ==
    LET path == world[t[1]].paths[t[2]]
        c == Contracts[t[3]]
    IN  CASE path.outcome[t[3]] = "error" -> Answer("UNKNOWN", "EVAL_ERROR", t)
          [] path.outcome[t[3]] # "error" ->
                IF Excused(path, c) THEN Answer("UNKNOWN", "POTENTIAL_FAILURE", t)
                ELSE Answer("FAILED", "CONTRACT_VIOLATED", t)

\* An exception is no answer at all.
Explanation(t) == IF t[2] = 0 THEN Answer("NONE", "RAISED", t) ELSE Blame(t)

Doubtful(m) ==
    \/ CutShort(m)
    \/ \E i \in Searched(m) : \E j \in PathsOf(i) : world[i].paths[j].notes = "uncertain"

Expected(m) ==
    CASE Troubles(m) # {} -> Explanation(FirstTrouble(m))
      [] Troubles(m) = {} /\ Searched(m) = {} -> Answer("UNKNOWN", "NO_FEASIBLE_STATE", Nowhere)
      [] Troubles(m) = {} /\ Searched(m) # {} /\ Doubtful(m) ->
            Answer("UNKNOWN", "PARTIAL_VERIFICATION", Nowhere)
      [] OTHER -> Answer("BOUNDED_VERIFIED", "BOUNDED_CONTRACTS_HOLD", Nowhere)

Init ==
    /\ world \in UNION {[1 .. n -> Cases] : n \in 1 .. MaxStates}
    /\ verdict = NoVerdict

Reject(code) ==
    /\ verdict = NoVerdict
    /\ verdict' = Answer("UNKNOWN", code, Nowhere)
    /\ UNCHANGED world

Conclude ==
    /\ verdict = NoVerdict
    /\ verdict' = Expected(MaxCases)
    /\ UNCHANGED world

Next == Conclude \/ \E code \in Rejections : Reject(code)

Spec == Init /\ [][Next]_<<world, verdict>>
==============================================================================
