--------------------------- MODULE VerifierProofs ---------------------------
(***************************************************************************)
(* Proofs about the bounded verifier.  The search, for any number of       *)
(* states, any limits, any contracts and any bodies; and the interpreter   *)
(* that makes the paths of a body, for any limit on paths, any values and  *)
(* any set of bodies whose braces come in pairs.                           *)
(***************************************************************************)
EXTENDS BoundedVerify, BoundedInterp, FiniteSetTheorems, SequenceTheorems, TLAPS

-----------------------------------------------------------------------------
(* The search.                                                             *)

\* Path j of state i breaks nothing, and its doubt, if any, has been noted.
PathPassed(i, j) ==
    /\ \A c \in DOMAIN Contracts : world[i].paths[j].outcome[c] = "holds"
    /\ world[i].paths[j].notes = "uncertain" => doubtful

Passed(n) ==
    \A i \in 1 .. n : world[i].feasible =>
        /\ world[i].paths # <<>>
        /\ \A j \in DOMAIN world[i].paths : PathPassed(i, j)

\* Where the loop is: what has been counted and what has been found clean.
AtExplore == pc = "explore" => /\ Passed(explored)
                               /\ skipped <= explored
                               /\ checked <= MaxCases
                               /\ checked = Cardinality(FeasibleUpTo(world, explored))

AtAssume == pc = "assume" => /\ explored \in 1 .. Len(world)
                             /\ skipped < explored
                             /\ checked <= MaxCases
                             /\ Passed(explored - 1)
                             /\ checked = Cardinality(FeasibleUpTo(world, explored - 1))

AtCase == pc \in {"path", "contract"} =>
    /\ explored \in 1 .. Len(world)
    /\ Case.feasible
    /\ Case.paths # <<>>
    /\ skipped <= explored
    /\ checked <= MaxCases
    /\ checked = Cardinality(FeasibleUpTo(world, explored))
    /\ Passed(explored - 1)
    /\ \A j \in DOMAIN Case.paths : j < path => PathPassed(explored, j)

AtContract == pc = "contract" =>
    /\ path \in DOMAIN Case.paths
    /\ Path.notes = "uncertain" => doubtful
    /\ \A c \in DOMAIN Contracts : c < contract => Path.outcome[c] = "holds"

\* Why the loop has ended.
AtConclude == pc = "conclude" =>
    \/ doubtful
    \/ explored = Len(world) /\ Passed(Len(world))
    \/ checked > MaxCases /\ checked = Cardinality(FeasibleUpTo(world, explored))

Returned ==
    /\ verdict # NoVerdict => pc = "done"
    /\ VerifiedCoversDomain
    /\ FailedIsACounterexample

SearchInv ==
    /\ TypeOK
    /\ pc = "start" => explored = 0 /\ checked = 0 /\ skipped = 0
    /\ AtExplore /\ AtAssume /\ AtCase /\ AtContract /\ AtConclude
    /\ Returned

-----------------------------------------------------------------------------

\* A path has an outcome for every contract.
LEMMA CaseShape ==
    ASSUME TypeOK, NEW i \in 1 .. Len(world)
    PROVE  /\ world[i] \in Cases
           /\ world[i].feasible \in BOOLEAN
           /\ world[i].paths \in Seq(Paths)
           /\ Len(world[i].paths) \in Nat
           /\ DOMAIN world[i].paths = 1 .. Len(world[i].paths)
           /\ \A j \in DOMAIN world[i].paths :
                 /\ world[i].paths[j].notes \in NoteKinds
                 /\ \A c \in DOMAIN Contracts : world[i].paths[j].outcome[c] \in Outcomes
<1>1. world[i] \in Cases
  BY DEF TypeOK
<1>2. world[i].feasible \in BOOLEAN /\ world[i].paths \in Seq(Paths)
  BY <1>1, CaseAssumption
<1>3. DOMAIN world[i].paths = 1 .. Len(world[i].paths) /\ Len(world[i].paths) \in Nat
  BY <1>2
<1>4. \A j \in DOMAIN world[i].paths : world[i].paths[j] \in Paths
  BY <1>2
<1>5. \A j \in DOMAIN world[i].paths :
         /\ world[i].paths[j].notes \in NoteKinds
         /\ \A c \in DOMAIN Contracts : world[i].paths[j].outcome[c] \in Outcomes
  BY <1>4 DEF Paths
<1> QED BY <1>1, <1>2, <1>3, <1>5

LEMMA ContractsShape ==
    /\ Len(Contracts) \in Nat
    /\ DOMAIN Contracts = 1 .. Len(Contracts)
    /\ \A c \in DOMAIN Contracts : /\ Contracts[c].declared \in BOOLEAN
                                   /\ Contracts[c].underflow \in BOOLEAN
<1> DEFINE Shape == [kind : {"ensures", "invariant"}, declared : BOOLEAN, underflow : BOOLEAN]
<1>1. Contracts \in Seq(Shape)
  BY ContractAssumption
<1>2. \A s \in Shape : s.declared \in BOOLEAN /\ s.underflow \in BOOLEAN
  OBVIOUS
<1> HIDE DEF Shape
<1>3. /\ Len(Contracts) \in Nat
      /\ DOMAIN Contracts = 1 .. Len(Contracts)
      /\ \A c \in DOMAIN Contracts : Contracts[c] \in Shape
  BY <1>1
<1> QED BY <1>2, <1>3

\* One more state adds one to the count exactly when it is feasible.
LEMMA CountStep ==
    ASSUME NEW n \in Nat \ {0}
    PROVE  /\ Cardinality(FeasibleUpTo(world, n)) \in Nat
           /\ Cardinality(FeasibleUpTo(world, n - 1)) \in Nat
           /\ Cardinality(FeasibleUpTo(world, n)) =
                 IF world[n].feasible THEN Cardinality(FeasibleUpTo(world, n - 1)) + 1
                 ELSE Cardinality(FeasibleUpTo(world, n - 1))
<1>1. n \in Nat /\ n - 1 \in Nat
  OBVIOUS
<1>2. IsFiniteSet(1 .. n) /\ IsFiniteSet(1 .. (n - 1))
  BY <1>1, FS_Interval
<1>3. IsFiniteSet(FeasibleUpTo(world, n)) /\ IsFiniteSet(FeasibleUpTo(world, n - 1))
  <2>1. FeasibleUpTo(world, n) \subseteq 1 .. n /\ FeasibleUpTo(world, n - 1) \subseteq 1 .. (n - 1)
    BY DEF FeasibleUpTo
  <2> QED BY <2>1, <1>2, FS_Subset
<1>4. n \notin FeasibleUpTo(world, n - 1)
  BY <1>1 DEF FeasibleUpTo
<1>5. FeasibleUpTo(world, n) = IF world[n].feasible THEN FeasibleUpTo(world, n - 1) \cup {n}
                        ELSE FeasibleUpTo(world, n - 1)
  BY <1>1 DEF FeasibleUpTo
<1> QED
  BY <1>3, <1>4, <1>5, FS_AddElement, FS_CardinalityType

\* The feasible states up to one of them are no more than those up to a later one.
LEMMA CountOrder ==
    ASSUME TypeOK, NEW a \in 0 .. Len(world), NEW b \in 0 .. Len(world), a <= b
    PROVE  /\ Cardinality(FeasibleUpTo(world, a)) \in Nat
           /\ Cardinality(FeasibleUpTo(world, b)) \in Nat
           /\ Cardinality(FeasibleUpTo(world, a)) <= Cardinality(FeasibleUpTo(world, b))
<1>t. Len(world) \in Nat
  BY DEF TypeOK
<1>1. IsFiniteSet(1 .. b)
  BY <1>t, FS_Interval
<1>2. /\ FeasibleUpTo(world, a) \subseteq FeasibleUpTo(world, b)
      /\ FeasibleUpTo(world, b) \subseteq 1 .. b
  BY <1>t DEF FeasibleUpTo
<1>3. IsFiniteSet(FeasibleUpTo(world, b))
  BY <1>1, <1>2, FS_Subset
<1> QED BY <1>2, <1>3, FS_Subset, FS_CardinalityType

LEMMA SearchInit == Init => SearchInv
<1> SUFFICES ASSUME Init PROVE SearchInv
  OBVIOUS
<1>0. world \in Seq(Cases) /\ Len(world) \in Nat
  <2>1. PICK n \in 1 .. MaxStates : world \in [1 .. n -> Cases]
    BY DEF Init
  <2>2. n \in Nat
    BY BoundAssumption
  <2> QED BY <2>1, <2>2
<1>1. /\ 0 \in 0 .. Len(world) /\ 0 \in 0 .. MaxCases + 1
      /\ 1 \in Nat \ {0} /\ 1 \in 1 .. Len(Contracts) + 1
  BY <1>0, BoundAssumption, ContractsShape
<1>2. TypeOK
  BY <1>0, <1>1 DEF Init, TypeOK
<1> QED
  BY <1>2 DEF Init, SearchInv, AtExplore, AtAssume, AtCase, AtContract, AtConclude,
              Returned, VerifiedCoversDomain, FailedIsACounterexample

\* While the search goes on, nothing has been returned.
LEMMA SearchStep == SearchInv /\ [Next]_vars => SearchInv'
<1> SUFFICES ASSUME SearchInv, [Next]_vars PROVE SearchInv'
  OBVIOUS
<1> USE DEF SearchInv
<1>t. /\ TypeOK
      /\ Len(world) \in Nat /\ MaxCases \in Nat /\ ExploreFactor \in Nat
      /\ explored \in Nat /\ checked \in Nat /\ skipped \in Nat
      /\ path \in Nat /\ contract \in Nat
  BY BoundAssumption, ContractsShape DEF TypeOK
<1>0. ASSUME pc # "done", world' = world, verdict' = verdict, pc' # "done" PROVE Returned'
  BY <1>0 DEF Returned, VerifiedCoversDomain, FailedIsACounterexample
<1>1. ASSUME NEW code \in Rejections, Reject(code) PROVE SearchInv'
  <2>1. Answer("UNKNOWN", code, Nowhere) \in Verdicts
    BY DEF Answer, Verdicts, Nowhere, Places
  <2>2. TypeOK'
    BY <1>1, <2>1 DEF Reject, Return, loopVars, TypeOK
  <2>3. verdict'.level = "UNKNOWN" /\ pc' = "done"
    BY <1>1 DEF Reject, Return, Answer
  <2> QED
    BY <2>2, <2>3 DEF AtExplore, AtAssume, AtCase, AtContract, AtConclude, Returned,
                      VerifiedCoversDomain, FailedIsACounterexample
<1>2. CASE Admit
  <2>1. TypeOK' /\ Returned' /\ pc' = "explore"
    BY <1>2, <1>0 DEF Admit, loopVars, TypeOK
  <2>2. FeasibleUpTo(world, 0) = {}
    BY DEF FeasibleUpTo
  <2>3. AtExplore'
    BY <1>2, <1>t, <2>2, FS_EmptySet DEF Admit, loopVars, AtExplore, Passed
  <2> QED
    BY <2>1, <2>3 DEF AtAssume, AtCase, AtContract, AtConclude
<1>3. CASE Explore
  <2>1. TypeOK' /\ Returned' /\ pc' = "assume"
    BY <1>3, <1>t, <1>0 DEF Explore, TypeOK
  <2>2. AtAssume'
    BY <1>3, <1>t DEF Explore, AtExplore, AtAssume, Passed, PathPassed
  <2> QED
    BY <2>1, <2>2 DEF AtExplore, AtCase, AtContract, AtConclude
<1>4. CASE ExploreLimit
  <2>1. TypeOK' /\ Returned' /\ pc' = "conclude" /\ doubtful'
    BY <1>4, <1>t, <1>0 DEF ExploreLimit, TypeOK
  <2> QED
    BY <2>1 DEF AtExplore, AtAssume, AtCase, AtContract, AtConclude
<1>5. CASE Exhausted
  <2>1. TypeOK' /\ Returned' /\ pc' = "conclude"
    BY <1>5, <1>0 DEF Exhausted, loopVars, TypeOK
  <2>2. AtConclude'
    BY <1>5 DEF Exhausted, loopVars, AtExplore, AtConclude, Passed, PathPassed
  <2> QED
    BY <2>1, <2>2 DEF AtExplore, AtAssume, AtCase, AtContract
<1>6. CASE Skip
  <2>1. skipped + 1 \in 0 .. Len(world)
    BY <1>6, <1>t DEF Skip, AtAssume
  <2>2. TypeOK' /\ Returned' /\ pc' = "explore"
    BY <1>6, <1>t, <1>0, <2>1 DEF Skip, TypeOK
  <2>4. explored \in Nat \ {0} /\ explored \in 1 .. Len(world)
    BY <1>6, <1>t DEF Skip, AtAssume
  <2>5. /\ Cardinality(FeasibleUpTo(world, explored)) \in Nat
        /\ Cardinality(FeasibleUpTo(world, explored - 1)) \in Nat
        /\ Cardinality(FeasibleUpTo(world, explored)) =
              IF world[explored].feasible
              THEN Cardinality(FeasibleUpTo(world, explored - 1)) + 1
              ELSE Cardinality(FeasibleUpTo(world, explored - 1))
    BY <2>4, CountStep
  <2>3. AtExplore'
    BY <1>6, <1>t, <2>4, <2>5 DEF Skip, Case, AtAssume, AtExplore, Passed, PathPassed
  <2> QED
    BY <2>2, <2>3 DEF AtAssume, AtCase, AtContract, AtConclude
<1>7. CASE CaseLimit
  <2>1. checked + 1 \in 0 .. MaxCases + 1
    BY <1>7, <1>t DEF CaseLimit, AtAssume
  <2>2. TypeOK' /\ Returned' /\ pc' = "conclude"
    BY <1>7, <1>t, <1>0, <2>1 DEF CaseLimit, TypeOK
  <2>3. AtConclude'
    BY <1>7, <1>t, CountStep DEF CaseLimit, Case, AtAssume, AtConclude
  <2> QED
    BY <2>2, <2>3 DEF AtExplore, AtAssume, AtCase, AtContract
<1>8. CASE Execute
  <2>1. TypeOK' /\ Returned' /\ pc' = "path"
    BY <1>8, <1>t, <1>0 DEF Execute, TypeOK
  <2>2. explored \in 1 .. Len(world) /\ DOMAIN Case.paths = 1 .. Len(Case.paths)
    BY <1>8, CaseShape DEF Execute, AtAssume, Case
  <2>4. explored \in Nat \ {0} /\ explored \in 1 .. Len(world)
    BY <1>8, <1>t DEF Execute, AtAssume
  <2>5. /\ Cardinality(FeasibleUpTo(world, explored)) \in Nat
        /\ Cardinality(FeasibleUpTo(world, explored - 1)) \in Nat
        /\ Cardinality(FeasibleUpTo(world, explored)) =
              IF world[explored].feasible
              THEN Cardinality(FeasibleUpTo(world, explored - 1)) + 1
              ELSE Cardinality(FeasibleUpTo(world, explored - 1))
    BY <2>4, CountStep
  <2>3. AtCase'
    BY <1>8, <1>t, <2>2, <2>4, <2>5 DEF Execute, Case, AtAssume, AtCase, Passed, PathPassed
  <2> QED
    BY <2>1, <2>3 DEF AtExplore, AtAssume, AtContract, AtConclude
<1>9. CASE BeginPath
  <2>1. /\ explored \in 1 .. Len(world) /\ DOMAIN Case.paths = 1 .. Len(Case.paths)
        /\ Len(Case.paths) \in Nat
    BY <1>9, CaseShape DEF BeginPath, AtCase, Case
  <2>2. /\ doubtful' \in BOOLEAN
        /\ doubtful => doubtful'
        /\ Path.notes = "uncertain" => doubtful'
    BY <1>9 DEF BeginPath, TypeOK
  <2>3. TypeOK' /\ Returned' /\ pc' = "contract"
    BY <1>9, <1>t, <1>0, <2>2, ContractsShape DEF BeginPath, loopVars, TypeOK
  <2>4. AtCase'
    BY <1>9, <2>2 DEF BeginPath, loopVars, Case, AtCase, Passed, PathPassed
  <2>5. /\ Path' = Path /\ Case' = Case
        /\ path \in DOMAIN Case.paths
        /\ contract' = 1 /\ path' = path
    BY <1>9, <1>t, <2>1 DEF BeginPath, loopVars, Case, Path, TypeOK
  <2>6. \A c \in DOMAIN Contracts : ~(c < 1)
    BY ContractsShape
  <2>7. AtContract'
    BY <2>2, <2>5, <2>6 DEF AtContract
  <2> QED
    BY <2>3, <2>4, <2>7 DEF AtExplore, AtAssume, AtConclude
<1>10. CASE EndPath
  <2>1. TypeOK' /\ Returned' /\ pc' = "path"
    BY <1>10, <1>t, <1>0 DEF EndPath, loopVars, TypeOK
  <2>2. explored \in 1 .. Len(world) /\ DOMAIN Case.paths = 1 .. Len(Case.paths)
    BY <1>10, CaseShape DEF EndPath, AtCase, Case
  <2>3. PathPassed(explored, path)
    BY <1>10, <1>t, ContractsShape DEF EndPath, AtContract, PathPassed, Case, Path
  <2>4. AtCase'
    BY <1>10, <1>t, <2>2, <2>3 DEF EndPath, loopVars, Case, AtCase, Passed, PathPassed
  <2> QED
    BY <2>1, <2>4 DEF AtExplore, AtAssume, AtContract, AtConclude
<1>11. CASE EndCase
  <2>1. TypeOK' /\ Returned' /\ pc' = "explore"
    BY <1>11, <1>0 DEF EndCase, loopVars, TypeOK
  <2>2. /\ explored \in 1 .. Len(world) /\ DOMAIN Case.paths = 1 .. Len(Case.paths)
        /\ Len(Case.paths) \in Nat
    BY <1>11, CaseShape DEF EndCase, AtCase, Case
  <2>3. Passed(explored)
    BY <1>11, <1>t, <2>2 DEF EndCase, Case, AtCase, Passed
  <2>4. AtExplore'
    BY <1>11, <2>3 DEF EndCase, loopVars, AtCase, AtExplore, Passed, PathPassed
  <2> QED
    BY <2>1, <2>4 DEF AtAssume, AtCase, AtContract, AtConclude
<1>12. CASE ContractHolds
  <2>1. contract + 1 \in 1 .. Len(Contracts) + 1 /\ pc' = "contract"
    BY <1>12, <1>t, ContractsShape DEF ContractHolds
  <2>2. TypeOK' /\ Returned'
    BY <1>12, <1>0, <2>1 DEF ContractHolds, loopVars, TypeOK
  <2>3. AtCase'
    BY <1>12 DEF ContractHolds, loopVars, Case, AtCase, Passed, PathPassed
  <2>4. AtContract'
    BY <1>12, <1>t, ContractsShape
       DEF ContractHolds, loopVars, Case, Path, Outcome, AtContract
  <2> QED
    BY <2>1, <2>2, <2>3, <2>4 DEF AtExplore, AtAssume, AtConclude
<1>13. CASE ContractViolated
  <2> DEFINE level == Level(Contracts[contract])
             v == Answer(level, IF level = "FAILED" THEN "CONTRACT_VIOLATED"
                                ELSE "POTENTIAL_FAILURE",
                         <<explored, path, contract>>)
  <2>1. verdict' = v /\ pc' = "done" /\ UNCHANGED <<world, loopVars, path, contract, doubtful>>
    BY <1>13 DEF ContractViolated, Return
  <2>2. explored \in 1 .. Len(world) /\ contract \in DOMAIN Contracts
    BY <1>13, <1>t, ContractsShape DEF ContractViolated, AtCase, TypeOK
  <2>3. <<explored, path, contract>> \in Places
    BY <2>2, <1>t DEF Places
  <2>4. level \in {"UNKNOWN", "FAILED"}
    BY DEF Level
  <2>5. v \in Verdicts
    BY <2>3, <2>4 DEF Verdicts, Answer
  <2>6. TypeOK'
    BY <2>1, <2>5 DEF loopVars, TypeOK
  <2>7. VerifiedCoversDomain'
    BY <2>1, <2>4 DEF VerifiedCoversDomain, Answer
  <2>8. level = "FAILED" => \/ Contracts[contract].declared
                            \/ Contracts[contract].underflow
                            \/ Path.notes = "none"
    BY <2>2, ContractsShape DEF Level, ShowsUnderflow
  <2>9. Case.feasible /\ Path.outcome[contract] = "violated"
    BY <1>13 DEF ContractViolated, AtCase, Outcome
  <2>10. /\ verdict'.level = level
         /\ verdict'.at[1] = explored /\ verdict'.at[2] = path /\ verdict'.at[3] = contract
    BY <2>1 DEF Answer
  <2>11. FailedIsACounterexample'
    BY <2>1, <2>8, <2>9, <2>10 DEF FailedIsACounterexample, Case, Path
  <2> QED
    BY <2>1, <2>6, <2>7, <2>11
    DEF AtExplore, AtAssume, AtCase, AtContract, AtConclude, Returned
<1>14. CASE ContractError
  <2> DEFINE v == Answer("UNKNOWN", "EVAL_ERROR", <<explored, path, contract>>)
  <2>1. verdict' = v /\ pc' = "done" /\ UNCHANGED <<world, loopVars, path, contract, doubtful>>
    BY <1>14 DEF ContractError, Return
  <2>2. explored \in 1 .. Len(world) /\ contract \in DOMAIN Contracts
    BY <1>14, <1>t, ContractsShape DEF ContractError, AtCase, TypeOK
  <2>3. <<explored, path, contract>> \in Places
    BY <2>2, <1>t DEF Places
  <2>4. v \in Verdicts /\ v.level = "UNKNOWN"
    BY <2>3 DEF Verdicts, Answer
  <2>5. TypeOK'
    BY <2>1, <2>4 DEF loopVars, TypeOK
  <2> QED
    BY <2>1, <2>4, <2>5 DEF AtExplore, AtAssume, AtCase, AtContract, AtConclude, Returned,
                            VerifiedCoversDomain, FailedIsACounterexample
<1>15. CASE Conclude
  <2>1. /\ verdict'.level \in {"UNKNOWN", "BOUNDED_VERIFIED"}
        /\ verdict' \in Verdicts
        /\ pc' = "done" /\ UNCHANGED <<world, loopVars, path, contract, doubtful>>
    BY <1>15 DEF Conclude, Return, Answer, Verdicts, Nowhere, Places
  <2>2. TypeOK'
    BY <2>1 DEF loopVars, TypeOK
  <2>3. verdict'.level = "BOUNDED_VERIFIED" => ~doubtful
    BY <1>15 DEF Conclude, Return, Answer
  <2>t. explored \in 0 .. Len(world) /\ Len(world) \in 0 .. Len(world) /\ explored <= Len(world)
    BY <1>t DEF TypeOK
  <2>4. ASSUME ~doubtful, Cardinality(FeasibleUpTo(world, Len(world))) <= MaxCases,
               NEW i \in 1 .. Len(world), world[i].feasible
        PROVE  Clean(i)
    <3>1. Passed(Len(world))
      <4>1. /\ Cardinality(FeasibleUpTo(world, explored)) \in Nat
            /\ Cardinality(FeasibleUpTo(world, Len(world))) \in Nat
            /\ Cardinality(FeasibleUpTo(world, explored))
                 <= Cardinality(FeasibleUpTo(world, Len(world)))
        BY <2>t, CountOrder
      <4> QED
        BY <1>15, <1>t, <2>4, <4>1 DEF Conclude, AtConclude
    <3> QED
      BY <2>4, <3>1 DEF Passed, PathPassed, Clean
  <2>5. VerifiedCoversDomain'
    BY <2>1, <2>3, <2>4 DEF VerifiedCoversDomain, Clean
  <2>6. FailedIsACounterexample'
    BY <2>1 DEF FailedIsACounterexample
  <2> QED
    BY <2>1, <2>2, <2>5, <2>6
    DEF AtExplore, AtAssume, AtCase, AtContract, AtConclude, Returned
<1>16. CASE ExecuteRaises
  <2> DEFINE v == Answer("NONE", "RAISED", <<explored, 0, 0>>)
  <2>1. verdict' = v /\ pc' = "done" /\ UNCHANGED <<world, explored, skipped, path, contract, doubtful>>
    BY <1>16 DEF ExecuteRaises, Return
  <2>2. <<explored, 0, 0>> \in Places
    BY <1>t DEF Places
  <2>3. v \in Verdicts /\ v.level = "NONE"
    BY <2>2 DEF Verdicts, Answer
  <2>4. checked' \in 0 .. MaxCases + 1
    BY <1>16, <1>t DEF ExecuteRaises
  <2>5. TypeOK'
    BY <2>1, <2>3, <2>4 DEF TypeOK
  <2> QED
    BY <2>1, <2>3, <2>5 DEF AtExplore, AtAssume, AtCase, AtContract, AtConclude, Returned,
                            VerifiedCoversDomain, FailedIsACounterexample
<1>17. CASE UNCHANGED vars
  BY <1>17 DEF vars, TypeOK, AtExplore, AtAssume, AtCase, AtContract, AtConclude, Returned,
               VerifiedCoversDomain, FailedIsACounterexample, Clean, Passed, PathPassed,
               Case, Path
<1> QED
  BY <1>1, <1>2, <1>3, <1>4, <1>5, <1>6, <1>7, <1>8, <1>9, <1>10, <1>11, <1>12, <1>13,
     <1>14, <1>15, <1>16, <1>17 DEF Next

-----------------------------------------------------------------------------

\* The counters of the loop stay within the limits of the search, and what is
\* returned is a diagnostic that verify_method can build.
THEOREM SearchTypeCorrect == Spec => []TypeOK
<1>1. SearchInv => TypeOK
  BY DEF SearchInv
<1> QED BY <1>1, SearchInit, SearchStep, PTL DEF Spec

\* BOUNDED_VERIFIED covers every feasible state of the domains whenever they are
\* no more than max_cases, for any bodies, contracts and limits.
THEOREM VerifiedCovers == Spec => []VerifiedCoversDomain
<1>1. SearchInv => VerifiedCoversDomain
  BY DEF SearchInv, Returned
<1> QED BY <1>1, SearchInit, SearchStep, PTL DEF Spec

\* Every FAILED diagnostic of verify_method is backed by a feasible state and a
\* path that breaks the contract it names, and by no excused one.
THEOREM FailedIsGenuine == Spec => []FailedIsACounterexample
<1>1. SearchInv => FailedIsACounterexample
  BY DEF SearchInv, Returned
<1> QED BY <1>1, SearchInit, SearchStep, PTL DEF Spec

-----------------------------------------------------------------------------
(* The loop gives the answer of BoundedVerdict.                            *)

\* The most states that are taken from the product.
Limit == ExploreFactor * MaxCases

UncertainSearched ==
    \E i \in Promise!Searched(MaxCases) :
        \E j \in DOMAIN world[i].paths : world[i].paths[j].notes = "uncertain"

\* The doubt of a search that goes on is that of a path it has executed, and the
\* search that ends without an answer has found none among the searched states.
AnswerInv ==
    /\ pc \in {"start", "explore", "assume", "path", "contract"} =>
            explored <= Limit /\ (doubtful => UncertainSearched)
    /\ pc = "conclude" => /\ Promise!Troubles(MaxCases) = {}
                          /\ checked = 0 <=> Promise!Searched(MaxCases) = {}
                          /\ doubtful <=> Promise!Doubtful(MaxCases)
    /\ FailuresSurviveDeeperSearch

LEMMA LimitIsNat == Limit \in Nat
BY BoundAssumption DEF Limit

\* A higher max_cases never lowers the limit.
LEMMA LimitGrows ==
    ASSUME NEW m \in Nat, MaxCases <= m
    PROVE  ExploreFactor * m \in Nat /\ Limit <= ExploreFactor * m
BY BoundAssumption DEF Limit

LEMMA CountIsZero ==
    ASSUME TypeOK, NEW n \in 0 .. Len(world)
    PROVE  Cardinality(FeasibleUpTo(world, n)) = 0 <=> \A i \in 1 .. n : ~world[i].feasible
<1>t. Len(world) \in Nat
  BY DEF TypeOK
<1>1. IsFiniteSet(1 .. n)
  BY <1>t, FS_Interval
<1>2. FeasibleUpTo(world, n) \subseteq 1 .. n
  BY DEF FeasibleUpTo
<1>3. IsFiniteSet(FeasibleUpTo(world, n))
  BY <1>1, <1>2, FS_Subset
<1>4. Cardinality(FeasibleUpTo(world, n)) = 0 <=> FeasibleUpTo(world, n) = {}
  BY <1>3, FS_EmptySet
<1> QED BY <1>4 DEF FeasibleUpTo

LEMMA SameCardinality ==
    ASSUME NEW S PROVE Promise!Cardinality(S) = Cardinality(S)
BY Zenon DEF Promise!Cardinality, Cardinality

LEMMA SearchedIs ==
    ASSUME NEW m
    PROVE  Promise!Searched(m) = {i \in 1 .. Len(world) :
                                     /\ world[i].feasible
                                     /\ i <= ExploreFactor * m
                                     /\ Cardinality(FeasibleUpTo(world, i)) <= m}
BY SameCardinality DEF Promise!Searched, Promise!FeasibleUpTo, FeasibleUpTo

\* The states up to one that is executed have been searched.
LEMMA ExecutedIsSearched ==
    ASSUME TypeOK, NEW n \in 0 .. Len(world), n <= Limit,
           Cardinality(FeasibleUpTo(world, n)) <= MaxCases,
           NEW i \in 1 .. n, world[i].feasible
    PROVE  i \in Promise!Searched(MaxCases)
<1>1. Len(world) \in Nat /\ i \in 0 .. Len(world) /\ i \in 1 .. Len(world) /\ i <= n /\ n \in Nat
  BY DEF TypeOK
<1>2. /\ Cardinality(FeasibleUpTo(world, i)) \in Nat
      /\ Cardinality(FeasibleUpTo(world, n)) \in Nat
      /\ Cardinality(FeasibleUpTo(world, i)) <= Cardinality(FeasibleUpTo(world, n))
  BY <1>1, CountOrder
<1>3. i <= ExploreFactor * MaxCases
  BY <1>1, LimitIsNat DEF Limit
<1>4. Cardinality(FeasibleUpTo(world, i)) <= MaxCases
  BY <1>2, BoundAssumption
<1> QED BY <1>1, <1>3, <1>4, SearchedIs

\* With a higher max_cases, no fewer states are searched.
LEMMA SearchedGrows ==
    ASSUME TypeOK, NEW m \in Nat, MaxCases <= m
    PROVE  Promise!Searched(MaxCases) \subseteq Promise!Searched(m)
<1> SUFFICES ASSUME NEW i \in Promise!Searched(MaxCases) PROVE i \in Promise!Searched(m)
  OBVIOUS
<1>1. /\ i \in 1 .. Len(world) /\ world[i].feasible /\ i <= Limit
      /\ Cardinality(FeasibleUpTo(world, i)) <= MaxCases
  BY SearchedIs DEF Limit
<1>2. i \in 0 .. Len(world) /\ Len(world) \in Nat /\ i \in Nat
  BY <1>1 DEF TypeOK
<1>3. Cardinality(FeasibleUpTo(world, i)) \in Nat
  BY <1>2, CountOrder
<1>4. i <= ExploreFactor * m /\ Cardinality(FeasibleUpTo(world, i)) <= m
  BY <1>1, <1>2, <1>3, LimitGrows, LimitIsNat, BoundAssumption
<1> QED BY <1>1, <1>4, SearchedIs

LEMMA TroubleIs ==
    ASSUME NEW m, NEW t
    PROVE  t \in Promise!Troubles(m) <=>
              \E i \in Promise!Searched(m) :
                 \/ world[i].paths = <<>> /\ t = <<i, 0, 0>>
                 \/ \E j \in DOMAIN world[i].paths :
                       \E k \in DOMAIN Contracts : /\ t = <<i, j, k>>
                                                   /\ world[i].paths[j].outcome[k] # "holds"
BY DEF Promise!Troubles, Promise!PathsOf, Promise!Raising

\* Where a trouble is: at a contract on a path of a searched state, or at the
\* state itself where it has no paths.
LEMMA TroubleAt ==
    ASSUME TypeOK, NEW m, NEW s \in Promise!Troubles(m)
    PROVE  \E a \in Promise!Searched(m), b, c \in Nat :
              /\ a \in 1 .. Len(world) /\ a \in Nat /\ world[a].feasible
              /\ s = <<a, b, c>>
              /\ \/ world[a].paths = <<>>
                 \/ /\ b \in DOMAIN world[a].paths /\ c \in DOMAIN Contracts
                    /\ world[a].paths[b].outcome[c] # "holds"
<1>0. /\ Len(world) \in Nat
      /\ \A a \in Promise!Searched(m) : a \in 1 .. Len(world) /\ a \in Nat /\ world[a].feasible
  BY SearchedIs DEF TypeOK
<1>1. PICK a \in Promise!Searched(m) :
         \/ world[a].paths = <<>> /\ s = <<a, 0, 0>>
         \/ \E b \in DOMAIN world[a].paths :
               \E c \in DOMAIN Contracts : s = <<a, b, c>> /\ world[a].paths[b].outcome[c] # "holds"
  BY TroubleIs
<1>2. CASE world[a].paths = <<>> /\ s = <<a, 0, 0>>
  <2> 0 \in Nat
    OBVIOUS
  <2> QED BY <1>0, <1>2
<1>3. ASSUME NEW b \in DOMAIN world[a].paths, NEW c \in DOMAIN Contracts,
             s = <<a, b, c>>, world[a].paths[b].outcome[c] # "holds"
      PROVE  b \in Nat /\ c \in Nat
  <2>1. a \in 1 .. Len(world)
    BY <1>0
  <2> QED BY <2>1, CaseShape, ContractsShape
<1> QED BY <1>0, <1>1, <1>2, <1>3

LEMMA FirstIsUnique ==
    ASSUME TypeOK, NEW m, NEW t \in Promise!Troubles(m),
           \A s \in Promise!Troubles(m) \ {t} : Promise!Precedes(t, s)
    PROVE  Promise!Troubles(m) # {} /\ Promise!FirstTrouble(m) = t
<1>1. ASSUME NEW u \in Promise!Troubles(m),
             \A s \in Promise!Troubles(m) \ {u} : Promise!Precedes(u, s)
      PROVE  u = t
  <2>1. PICK a, b, c \in Nat : u = <<a, b, c>>
    <3>1. PICK x \in Promise!Searched(m), y, z \in Nat : x \in Nat /\ u = <<x, y, z>>
      BY TroubleAt
    <3> QED BY <3>1
  <2>2. PICK i, j, k \in Nat : t = <<i, j, k>>
    <3>1. PICK x \in Promise!Searched(m), y, z \in Nat : x \in Nat /\ t = <<x, y, z>>
      BY TroubleAt
    <3> QED BY <3>1
  <2>3. u[1] = a /\ u[2] = b /\ u[3] = c /\ t[1] = i /\ t[2] = j /\ t[3] = k
    BY <2>1, <2>2
  <2>4. u # t => Promise!Precedes(t, u) /\ Promise!Precedes(u, t)
    BY <1>1
  <2> QED BY <2>3, <2>4 DEF Promise!Precedes
<1>2. Promise!FirstTrouble(m) = t
  BY <1>1 DEF Promise!FirstTrouble
<1> QED BY <1>2

\* The first trouble is the one before which everything holds.
LEMMA FirstTroubleIs ==
    ASSUME TypeOK, NEW m, NEW i \in Promise!Searched(m), NEW j \in DOMAIN world[i].paths,
           NEW k \in DOMAIN Contracts, world[i].paths[j].outcome[k] # "holds",
           \A a \in 1 .. i - 1 : world[a].feasible =>
               /\ world[a].paths # <<>>
               /\ \A b \in DOMAIN world[a].paths : \A c \in DOMAIN Contracts :
                     world[a].paths[b].outcome[c] = "holds",
           \A b \in DOMAIN world[i].paths : b < j =>
               \A c \in DOMAIN Contracts : world[i].paths[b].outcome[c] = "holds",
           \A c \in DOMAIN Contracts : c < k => world[i].paths[j].outcome[c] = "holds"
    PROVE  Promise!Troubles(m) # {} /\ Promise!FirstTrouble(m) = <<i, j, k>>
<1> DEFINE t == <<i, j, k>>
<1>1. t \in Promise!Troubles(m)
  BY TroubleIs
<1>0. /\ Len(world) \in Nat /\ i \in 1 .. Len(world) /\ i \in Nat
      /\ j \in Nat /\ k \in Nat /\ world[i].paths # <<>>
  <2>1. Len(world) \in Nat /\ i \in 1 .. Len(world)
    BY SearchedIs DEF TypeOK
  <2>2. DOMAIN world[i].paths \subseteq Nat /\ DOMAIN Contracts \subseteq Nat
    BY <2>1, CaseShape, ContractsShape
  <2>3. world[i].paths # <<>>
    OBVIOUS
  <2> QED BY <2>1, <2>2, <2>3
<1>2. ASSUME NEW s \in Promise!Troubles(m) \ {t} PROVE Promise!Precedes(t, s)
  <2>1. PICK a \in Promise!Searched(m), b, c \in Nat :
              /\ a \in 1 .. Len(world) /\ a \in Nat /\ world[a].feasible
              /\ s = <<a, b, c>>
              /\ \/ world[a].paths = <<>>
                 \/ /\ b \in DOMAIN world[a].paths /\ c \in DOMAIN Contracts
                    /\ world[a].paths[b].outcome[c] # "holds"
    BY TroubleAt
  <2>2. ~(a < i)
    <3> SUFFICES ASSUME a < i PROVE FALSE
      OBVIOUS
    <3>1. a \in 1 .. i - 1
      BY <1>0, <2>1
    <3> QED BY <2>1, <3>1
  <2>3. a = i => b \in DOMAIN world[i].paths /\ c \in DOMAIN Contracts
                    /\ world[i].paths[b].outcome[c] # "holds"
    BY <1>0, <2>1
  <2>4. a = i => ~(b < j)
    BY <2>3
  <2>5. a = i /\ b = j => ~(c < k)
    BY <2>3
  <2>6. a # i \/ b # j \/ c # k
    BY <2>1
  <2>7. s[1] = a /\ s[2] = b /\ s[3] = c /\ t[1] = i /\ t[2] = j /\ t[3] = k
    BY <2>1
  <2>8. a \in Nat /\ b \in Nat /\ c \in Nat
    BY <2>1
  <2> HIDE DEF t
  <2> QED BY <1>0, <2>2, <2>4, <2>5, <2>6, <2>7, <2>8 DEF Promise!Precedes
<1> HIDE DEF t
<1>3. Promise!Troubles(m) # {} /\ Promise!FirstTrouble(m) = t
  BY <1>1, <1>2, FirstIsUnique
<1> QED BY <1>3 DEF t

\* And so is the first state without paths.
LEMMA FirstRaiseIs ==
    ASSUME TypeOK, NEW m, NEW i \in Promise!Searched(m), world[i].paths = <<>>,
           \A a \in 1 .. i - 1 : world[a].feasible =>
               /\ world[a].paths # <<>>
               /\ \A b \in DOMAIN world[a].paths : \A c \in DOMAIN Contracts :
                     world[a].paths[b].outcome[c] = "holds"
    PROVE  Promise!Troubles(m) # {} /\ Promise!FirstTrouble(m) = <<i, 0, 0>>
<1> DEFINE t == <<i, 0, 0>>
<1>0. Len(world) \in Nat /\ i \in 1 .. Len(world) /\ i \in Nat
  BY SearchedIs DEF TypeOK
<1>1. t \in Promise!Troubles(m)
  BY TroubleIs
<1>2. ASSUME NEW s \in Promise!Troubles(m) \ {t} PROVE Promise!Precedes(t, s)
  <2>1. PICK a \in Promise!Searched(m) :
         \/ world[a].paths = <<>> /\ s = <<a, 0, 0>>
         \/ \E b \in DOMAIN world[a].paths :
               \E c \in DOMAIN Contracts : s = <<a, b, c>> /\ world[a].paths[b].outcome[c] # "holds"
    BY TroubleIs
  <2>2. a \in 1 .. Len(world) /\ a \in Nat /\ world[a].feasible
    BY <1>0, SearchedIs
  <2>3. ~(a < i)
    <3> SUFFICES ASSUME a < i PROVE FALSE
      OBVIOUS
    <3>1. a \in 1 .. i - 1
      BY <1>0, <2>2
    <3> QED BY <2>1, <2>2, <3>1
  <2>4. a # i
    BY <2>1
  <2>5. s[1] = a /\ t[1] = i
    BY <2>1
  <2> HIDE DEF t
  <2> QED BY <1>0, <2>2, <2>3, <2>4, <2>5 DEF Promise!Precedes
<1> HIDE DEF t
<1>3. Promise!Troubles(m) # {} /\ Promise!FirstTrouble(m) = t
  BY <1>1, <1>2, FirstIsUnique
<1> QED BY <1>3 DEF t

\* The promise looks at the states of the product and at nothing else.
LEMMA PromiseStays ==
    ASSUME world' = world, NEW m
    PROVE  /\ Promise!Searched(m)' = Promise!Searched(m)
           /\ Promise!Troubles(m)' = Promise!Troubles(m)
           /\ Promise!Doubtful(m)' = Promise!Doubtful(m)
           /\ Promise!Expected(m)' = Promise!Expected(m)
<1>1. Promise!Searched(m)' = Promise!Searched(m)
  BY DEF Promise!Searched, Promise!FeasibleUpTo
<1>2. Promise!Troubles(m)' = Promise!Troubles(m)
  BY <1>1 DEF Promise!Troubles, Promise!PathsOf, Promise!Raising
<1>3. Promise!Doubtful(m)' = Promise!Doubtful(m)
  BY <1>1 DEF Promise!Doubtful, Promise!PathsOf, Promise!CutShort, Promise!FeasibleUpTo
<1>4. Promise!FirstTrouble(m)' = Promise!FirstTrouble(m)
  BY <1>2 DEF Promise!FirstTrouble, Promise!Precedes
<1>5. Promise!Explanation(Promise!FirstTrouble(m))' = Promise!Explanation(Promise!FirstTrouble(m))
  BY <1>4 DEF Promise!Explanation, Promise!Blame, Promise!Excused, Promise!Answer
<1>6. Promise!Expected(m)' = Promise!Expected(m)
  BY <1>1, <1>2, <1>3, <1>5 DEF Promise!Expected, Promise!Answer, Promise!Nowhere
<1> QED BY <1>1, <1>2, <1>3, <1>6

LEMMA UncertainStays ==
    ASSUME world' = world PROVE UncertainSearched' <=> UncertainSearched
BY PromiseStays DEF UncertainSearched

\* A search that has passed every searched state has found no trouble there.
LEMMA NoTroubleFound ==
    ASSUME TypeOK, NEW n \in 0 .. Len(world), Passed(n),
           \A i \in Promise!Searched(MaxCases) : i <= n
    PROVE  /\ Promise!Troubles(MaxCases) = {}
           /\ UncertainSearched => doubtful
<1>1. ASSUME NEW i \in Promise!Searched(MaxCases), NEW j \in DOMAIN world[i].paths
      PROVE  PathPassed(i, j)
  <2>1. i \in 1 .. n /\ world[i].feasible
    BY SearchedIs DEF TypeOK
  <2> QED BY <2>1 DEF Passed
<1>2. \A i \in Promise!Searched(MaxCases) : world[i].paths # <<>>
  BY SearchedIs DEF TypeOK, Passed
<1>3. ASSUME NEW t \in Promise!Troubles(MaxCases) PROVE FALSE
  BY <1>1, <1>2, TroubleIs DEF PathPassed
<1> QED BY <1>1, <1>3 DEF UncertainSearched, PathPassed

\* What the explanation of a trouble is, as verify_method builds it.
LEMMA ViolationExplained ==
    ASSUME TypeOK, NEW i \in 1 .. Len(world), NEW j \in DOMAIN world[i].paths,
           NEW k \in DOMAIN Contracts, explored = i, path = j, contract = k
    PROVE  /\ Outcome = "error" =>
                Promise!Explanation(<<i, j, k>>) = Answer("UNKNOWN", "EVAL_ERROR", <<i, j, k>>)
           /\ Outcome = "violated" =>
                Promise!Explanation(<<i, j, k>>) =
                   Answer(Level(Contracts[k]),
                          IF Level(Contracts[k]) = "FAILED" THEN "CONTRACT_VIOLATED"
                          ELSE "POTENTIAL_FAILURE", <<i, j, k>>)
<1> DEFINE c == Contracts[k]
<1>1. Path = world[i].paths[j] /\ Outcome = world[i].paths[j].outcome[k]
  BY DEF Path, Case, Outcome
<1>2. /\ c.declared \in BOOLEAN /\ c.underflow \in BOOLEAN
      /\ c.underflow => c.kind = "invariant"
  BY ContractsShape, ContractAssumption
<1>3. Level(c) = IF Promise!Excused(Path, c) THEN "UNKNOWN" ELSE "FAILED"
  BY <1>2 DEF Level, ShowsUnderflow, Promise!Excused
<1>4. <<i, j, k>>[1] = i /\ <<i, j, k>>[2] = j /\ <<i, j, k>>[3] = k /\ j # 0
  BY CaseShape
<1> HIDE DEF c
<1>5. /\ Outcome = "error" =>
              Promise!Explanation(<<i, j, k>>) = Answer("UNKNOWN", "EVAL_ERROR", <<i, j, k>>)
      /\ Outcome # "error" =>
              Promise!Explanation(<<i, j, k>>) =
                 IF Promise!Excused(Path, c)
                 THEN Answer("UNKNOWN", "POTENTIAL_FAILURE", <<i, j, k>>)
                 ELSE Answer("FAILED", "CONTRACT_VIOLATED", <<i, j, k>>)
  BY <1>1, <1>4 DEF Promise!Explanation, Promise!Blame, Promise!Answer, Answer, c
<1>6. ASSUME Outcome = "violated"
      PROVE  Promise!Explanation(<<i, j, k>>) =
                Answer(Level(c), IF Level(c) = "FAILED" THEN "CONTRACT_VIOLATED"
                                 ELSE "POTENTIAL_FAILURE", <<i, j, k>>)
  <2>1. CASE Promise!Excused(Path, c)
    BY <1>3, <1>5, <1>6, <2>1
  <2>2. CASE ~Promise!Excused(Path, c)
    BY <1>3, <1>5, <1>6, <2>2
  <2> QED BY <2>1, <2>2
<1> QED BY <1>5, <1>6 DEF c

\* The trouble that verify_method stops at is the first one, under max_cases and
\* under any higher limit.
LEMMA StopIsFirstTrouble ==
    ASSUME SearchInv, AnswerInv, pc = "contract", contract <= Len(Contracts), Outcome # "holds",
           NEW m \in Nat, MaxCases <= m
    PROVE  Promise!Expected(m) = Promise!Explanation(<<explored, path, contract>>)
<1>1. PICK i \in 1 .. Len(world) : i = explored
  BY DEF SearchInv, AtCase
<1>2. PICK j \in DOMAIN world[i].paths : j = path
  BY <1>1 DEF SearchInv, AtContract, Case
<1>3. PICK k \in DOMAIN Contracts : k = contract
  BY ContractsShape DEF SearchInv, TypeOK
<1>4. i \in Promise!Searched(MaxCases)
  <2>1. i \in 0 .. Len(world) /\ i <= Limit /\ i \in 1 .. i
    BY <1>1 DEF SearchInv, TypeOK, AnswerInv
  <2>2. Cardinality(FeasibleUpTo(world, i)) <= MaxCases /\ world[i].feasible
    BY <1>1 DEF SearchInv, AtCase, Case
  <2> QED BY <2>1, <2>2, ExecutedIsSearched DEF SearchInv
<1>5. i \in Promise!Searched(m)
  BY <1>4, SearchedGrows DEF SearchInv
<1>6. world[i].paths[j].outcome[k] # "holds"
  BY <1>1, <1>2, <1>3 DEF Outcome, Path, Case
<1>7. \A a \in 1 .. i - 1 : world[a].feasible =>
         /\ world[a].paths # <<>>
         /\ \A b \in DOMAIN world[a].paths : \A c \in DOMAIN Contracts :
               world[a].paths[b].outcome[c] = "holds"
  BY <1>1 DEF SearchInv, AtCase, Passed, PathPassed
<1>8. \A b \in DOMAIN world[i].paths : b < j =>
         \A c \in DOMAIN Contracts : world[i].paths[b].outcome[c] = "holds"
  BY <1>1, <1>2 DEF SearchInv, AtCase, Case, PathPassed
<1>9. \A c \in DOMAIN Contracts : c < k => world[i].paths[j].outcome[c] = "holds"
  BY <1>1, <1>2, <1>3 DEF SearchInv, AtContract, Path, Case
<1>10. Promise!Troubles(m) # {} /\ Promise!FirstTrouble(m) = <<i, j, k>>
  BY <1>5, <1>6, <1>7, <1>8, <1>9, FirstTroubleIs DEF SearchInv
<1>11. Promise!Expected(m) = Promise!Explanation(Promise!FirstTrouble(m))
  BY <1>10 DEF Promise!Expected
<1> QED BY <1>1, <1>2, <1>3, <1>10, <1>11

LEMMA StopExplained ==
    ASSUME SearchInv, pc = "contract", contract <= Len(Contracts)
    PROVE  LET t == <<explored, path, contract>>
               level == Level(Contracts[contract])
           IN  /\ Outcome = "error" => Promise!Explanation(t) = Answer("UNKNOWN", "EVAL_ERROR", t)
               /\ Outcome = "violated" =>
                    Promise!Explanation(t) =
                       Answer(level, IF level = "FAILED" THEN "CONTRACT_VIOLATED"
                                     ELSE "POTENTIAL_FAILURE", t)
<1>1. PICK i \in 1 .. Len(world) : i = explored
  BY DEF SearchInv, AtCase
<1>2. PICK j \in DOMAIN world[i].paths : j = path
  BY <1>1 DEF SearchInv, AtContract, Case
<1>3. PICK k \in DOMAIN Contracts : k = contract
  BY ContractsShape DEF SearchInv, TypeOK
<1> QED BY <1>1, <1>2, <1>3, ViolationExplained DEF SearchInv

\* A state in which the interpreter raises is the first trouble when it is reached.
LEMMA RaiseIsFirstTrouble ==
    ASSUME SearchInv, AnswerInv, pc = "assume", Case.feasible, Case.paths = <<>>,
           checked + 1 <= MaxCases
    PROVE  Promise!Expected(MaxCases) = Answer("NONE", "RAISED", <<explored, 0, 0>>)
<1>1. PICK i \in 1 .. Len(world) : i = explored
  BY DEF SearchInv, AtAssume
<1>2. i \in Promise!Searched(MaxCases)
  <2>1. i \in 0 .. Len(world) /\ i <= Limit /\ i \in 1 .. i /\ i \in Nat \ {0}
    BY <1>1 DEF SearchInv, TypeOK, AnswerInv
  <2>2. world[i].feasible /\ checked = Cardinality(FeasibleUpTo(world, i - 1))
    BY <1>1 DEF SearchInv, AtAssume, Case
  <2>3. Cardinality(FeasibleUpTo(world, i)) <= MaxCases
    BY <2>1, <2>2, CountStep
  <2> QED BY <2>1, <2>2, <2>3, ExecutedIsSearched DEF SearchInv
<1>3. \A a \in 1 .. i - 1 : world[a].feasible =>
         /\ world[a].paths # <<>>
         /\ \A b \in DOMAIN world[a].paths : \A c \in DOMAIN Contracts :
               world[a].paths[b].outcome[c] = "holds"
  BY <1>1 DEF SearchInv, AtAssume, Passed, PathPassed
<1>4. world[i].paths = <<>>
  BY <1>1 DEF Case
<1>5. /\ Promise!Troubles(MaxCases) # {}
      /\ Promise!FirstTrouble(MaxCases) = <<i, 0, 0>>
  BY <1>2, <1>3, <1>4, FirstRaiseIs DEF SearchInv
<1>6. Promise!Expected(MaxCases) = Promise!Explanation(<<i, 0, 0>>)
  BY <1>5 DEF Promise!Expected
<1>7. <<i, 0, 0>>[2] = 0
  OBVIOUS
<1> QED BY <1>1, <1>6, <1>7 DEF Promise!Explanation, Promise!Answer, Answer

\* The search ends without an answer: which states it has searched.
LEMMA ExhaustedConcludes ==
    ASSUME SearchInv, AnswerInv, pc = "explore", explored = Len(world)
    PROVE  /\ Promise!Troubles(MaxCases) = {}
           /\ checked = 0 <=> Promise!Searched(MaxCases) = {}
           /\ doubtful <=> Promise!Doubtful(MaxCases)
<1>1. /\ Len(world) \in 0 .. Len(world) /\ Len(world) \in Nat
      /\ Len(world) <= Limit /\ Limit \in Nat
  BY LimitIsNat DEF SearchInv, TypeOK, AnswerInv
<1>2. Promise!Troubles(MaxCases) = {} /\ (UncertainSearched => doubtful)
  BY <1>1, NoTroubleFound, SearchedIs DEF SearchInv, AtExplore
<1>3. /\ Cardinality(FeasibleUpTo(world, Len(world))) = checked
      /\ checked <= MaxCases
  BY DEF SearchInv, AtExplore
<1>4. checked = 0 <=> Promise!Searched(MaxCases) = {}
  <2>1. checked = 0 <=> \A i \in 1 .. Len(world) : ~world[i].feasible
    BY <1>1, <1>3, CountIsZero DEF SearchInv
  <2>2. \A i \in 1 .. Len(world) : world[i].feasible => i \in Promise!Searched(MaxCases)
    BY <1>1, <1>3, ExecutedIsSearched DEF SearchInv
  <2> QED BY <2>1, <2>2, SearchedIs
<1>5. ~Promise!CutShort(MaxCases)
  BY <1>1 DEF Promise!CutShort, Limit
<1>6. Promise!Doubtful(MaxCases) <=> UncertainSearched
  BY <1>5 DEF Promise!Doubtful, Promise!PathsOf, UncertainSearched
<1>7. doubtful => UncertainSearched
  BY DEF AnswerInv
<1> QED BY <1>2, <1>4, <1>6, <1>7

LEMMA LimitConcludes ==
    ASSUME SearchInv, AnswerInv, pc = "explore", explored < Len(world), explored >= Limit
    PROVE  /\ Promise!Troubles(MaxCases) = {}
           /\ checked = 0 <=> Promise!Searched(MaxCases) = {}
           /\ Promise!Doubtful(MaxCases)
<1>1. /\ explored \in 0 .. Len(world) /\ Len(world) \in Nat /\ explored \in Nat
      /\ explored = Limit /\ Limit \in Nat
  BY LimitIsNat DEF SearchInv, TypeOK, AnswerInv
<1>2. \A i \in Promise!Searched(MaxCases) : i <= explored
  BY <1>1, SearchedIs DEF Limit
<1>3. Promise!Troubles(MaxCases) = {}
  BY <1>1, <1>2, NoTroubleFound DEF SearchInv, AtExplore
<1>4. /\ Cardinality(FeasibleUpTo(world, explored)) = checked
      /\ checked <= MaxCases
  BY DEF SearchInv, AtExplore
<1>5. checked = 0 <=> Promise!Searched(MaxCases) = {}
  <2>1. checked = 0 <=> \A i \in 1 .. explored : ~world[i].feasible
    BY <1>1, <1>4, CountIsZero DEF SearchInv
  <2>2. \A i \in 1 .. explored : world[i].feasible => i \in Promise!Searched(MaxCases)
    BY <1>1, <1>4, ExecutedIsSearched DEF SearchInv
  <2>3. \A i \in Promise!Searched(MaxCases) : i \in 1 .. explored /\ world[i].feasible
    BY <1>1, <1>2, SearchedIs
  <2> QED BY <2>1, <2>2, <2>3
<1>6. Promise!CutShort(MaxCases)
  BY <1>1, <1>4, SameCardinality
     DEF Promise!CutShort, Promise!FeasibleUpTo, FeasibleUpTo, Limit
<1> QED BY <1>3, <1>5, <1>6 DEF Promise!Doubtful

LEMMA CaseLimitConcludes ==
    ASSUME SearchInv, AnswerInv, pc = "assume", Case.feasible, checked + 1 > MaxCases
    PROVE  /\ Promise!Troubles(MaxCases) = {}
           /\ Promise!Searched(MaxCases) # {}
           /\ doubtful <=> Promise!Doubtful(MaxCases)
<1>1. /\ explored \in 1 .. Len(world) /\ Len(world) \in Nat /\ explored <= Limit /\ Limit \in Nat
      /\ explored - 1 \in 0 .. Len(world) /\ explored \in 0 .. Len(world)
      /\ explored \in Nat \ {0} /\ world[explored].feasible
      /\ checked \in Nat /\ MaxCases \in Nat /\ checked = MaxCases
  BY LimitIsNat, BoundAssumption DEF SearchInv, TypeOK, AtAssume, AnswerInv, Case
<1>2. /\ Cardinality(FeasibleUpTo(world, explored - 1)) = MaxCases
      /\ Cardinality(FeasibleUpTo(world, explored)) = MaxCases + 1
  BY <1>1, CountStep DEF SearchInv, AtAssume
<1>3. ASSUME NEW i \in explored .. Len(world)
      PROVE  Cardinality(FeasibleUpTo(world, i)) > MaxCases
  <2>1. i \in 0 .. Len(world) /\ explored <= i
    BY <1>1
  <2>2. /\ Cardinality(FeasibleUpTo(world, i)) \in Nat
        /\ Cardinality(FeasibleUpTo(world, explored)) <= Cardinality(FeasibleUpTo(world, i))
    BY <1>1, <2>1, CountOrder DEF SearchInv
  <2> QED BY <1>1, <1>2, <2>2
<1>4. \A i \in Promise!Searched(MaxCases) : i <= explored - 1
  <2> SUFFICES ASSUME NEW i \in Promise!Searched(MaxCases) PROVE i <= explored - 1
    OBVIOUS
  <2>1. i \in 1 .. Len(world) /\ Cardinality(FeasibleUpTo(world, i)) <= MaxCases
    BY SearchedIs
  <2>2. Cardinality(FeasibleUpTo(world, i)) \in Nat
    BY <1>1, <2>1, CountOrder DEF SearchInv
  <2> QED BY <1>1, <1>3, <2>1, <2>2
<1>5. Promise!Troubles(MaxCases) = {} /\ (UncertainSearched => doubtful)
  BY <1>1, <1>4, NoTroubleFound DEF SearchInv, AtAssume
<1>6. ~Promise!CutShort(MaxCases)
  <2> SUFFICES ASSUME Limit < Len(world),
                      Cardinality(FeasibleUpTo(world, Limit)) <= MaxCases
               PROVE  FALSE
    BY SameCardinality DEF Promise!CutShort, Promise!FeasibleUpTo, FeasibleUpTo, Limit
  <2>1. Limit \in explored .. Len(world) /\ Limit \in 0 .. Len(world)
    BY <1>1
  <2>2. Cardinality(FeasibleUpTo(world, Limit)) \in Nat
    BY <2>1, CountOrder DEF SearchInv
  <2> QED BY <1>1, <1>3, <2>1, <2>2
<1>7. Promise!Doubtful(MaxCases) <=> UncertainSearched
  BY <1>6 DEF Promise!Doubtful, Promise!PathsOf, UncertainSearched
<1>8. doubtful => UncertainSearched
  BY DEF AnswerInv
<1>9. Promise!Searched(MaxCases) # {}
  <2>1. MaxCases # 0
    BY <1>1, BoundAssumption DEF Limit
  <2>2. ~(\A i \in 1 .. explored - 1 : ~world[i].feasible)
    BY <1>1, <1>2, <2>1, CountIsZero DEF SearchInv
  <2>3. PICK i \in 1 .. explored - 1 : world[i].feasible
    BY <2>2
  <2>4. explored - 1 <= Limit
    BY <1>1
  <2>5. i \in Promise!Searched(MaxCases)
    BY <1>1, <1>2, <2>3, <2>4, ExecutedIsSearched DEF SearchInv
  <2> QED BY <2>5
<1> QED BY <1>5, <1>7, <1>8, <1>9

LEMMA AnswerInit == Init => AnswerInv /\ Promise!Init
BY LimitIsNat DEF Init, AnswerInv, FailuresSurviveDeeperSearch, Promise!Init

\* Until an answer is returned, the promise has not answered either.
LEMMA Unanswered ==
    ASSUME SearchInv, world' = world, verdict' = verdict, pc' # "done"
    PROVE  FailuresSurviveDeeperSearch' /\ UNCHANGED <<world, verdict>>
BY DEF FailuresSurviveDeeperSearch

LEMMA AnswerStep ==
    SearchInv /\ AnswerInv /\ [Next]_vars
        => AnswerInv' /\ [Promise!Next]_<<world, verdict>>
<1> SUFFICES ASSUME SearchInv, AnswerInv, [Next]_vars
             PROVE  AnswerInv' /\ [Promise!Next]_<<world, verdict>>
  OBVIOUS
<1> DEFINE Goal == AnswerInv' /\ [Promise!Next]_<<world, verdict>>
<1>s. world' = world
  BY DEF Next, vars, Reject, Admit, Explore, ExploreLimit, Exhausted, Skip, CaseLimit,
         Execute, ExecuteRaises,
         BeginPath, EndPath, EndCase, ContractHolds, ContractViolated, ContractError, Conclude
<1>u. UncertainSearched' <=> UncertainSearched
  BY <1>s, UncertainStays
<1>l. Limit' = Limit /\ Limit \in Nat
  BY LimitIsNat DEF Limit
<1>p. /\ Promise!Searched(MaxCases)' = Promise!Searched(MaxCases)
      /\ Promise!Troubles(MaxCases)' = Promise!Troubles(MaxCases)
      /\ Promise!Doubtful(MaxCases)' = Promise!Doubtful(MaxCases)
  BY <1>s, PromiseStays
\* A step of the search itself.
<1>g. ASSUME verdict' = verdict, pc' # "done",
             pc' \in {"start", "explore", "assume", "path", "contract"} =>
                explored' <= Limit /\ (doubtful' => UncertainSearched),
             pc' = "conclude" =>
                /\ Promise!Troubles(MaxCases) = {}
                /\ checked' = 0 <=> Promise!Searched(MaxCases) = {}
                /\ doubtful' <=> Promise!Doubtful(MaxCases)
      PROVE  Goal
  <2>1. FailuresSurviveDeeperSearch' /\ UNCHANGED <<world, verdict>>
    BY <1>s, <1>g, Unanswered
  <2>2. AnswerInv'
    BY <1>u, <1>l, <1>p, <1>g, <2>1 DEF AnswerInv
  <2> QED BY <2>1, <2>2
\* A step that returns an answer.
<1>r. ASSUME pc' = "done", NEW v, verdict' = v, verdict = NoVerdict,
             v = Promise!Expected(MaxCases),
             v.level = "FAILED" => \A m \in MaxCases .. Len(world) : Promise!Expected(m) = v
      PROVE  Goal
  <2>1. Promise!Conclude
    BY <1>s, <1>r DEF Promise!Conclude
  <2>2. \A m : Promise!Expected(m)' = Promise!Expected(m)
    BY <1>s, PromiseStays
  <2>3. FailuresSurviveDeeperSearch'
    BY <1>s, <1>r, <2>2 DEF FailuresSurviveDeeperSearch
  <2>4. AnswerInv'
    BY <1>r, <2>3 DEF AnswerInv
  <2> QED BY <2>1, <2>4 DEF Promise!Next
<1>v. pc # "done" => verdict = NoVerdict
  BY DEF SearchInv, Returned
<1>1. ASSUME NEW code \in Rejections, Reject(code) PROVE Goal
  <2>1. Promise!Reject(code)
    BY <1>1, <1>s, <1>v
       DEF Reject, Return, Promise!Reject, Answer, Promise!Answer, Nowhere, Promise!Nowhere
  <2>2. AnswerInv'
    BY <1>1 DEF Reject, Return, Answer, AnswerInv, FailuresSurviveDeeperSearch
  <2> QED BY <2>1, <2>2 DEF Promise!Next
<1>2. CASE Admit
  BY <1>2, <1>g DEF Admit, loopVars, AnswerInv
<1>3. CASE Explore
  <2>1. explored' <= Limit
    BY <1>3, <1>l DEF Explore, Limit, SearchInv, TypeOK
  <2> QED BY <1>3, <1>g, <2>1 DEF Explore, AnswerInv
<1>4. CASE ExploreLimit
  BY <1>4, <1>g, LimitConcludes DEF ExploreLimit, Limit
<1>5. CASE Exhausted
  BY <1>5, <1>g, ExhaustedConcludes DEF Exhausted, loopVars
<1>6. CASE Skip
  BY <1>6, <1>g DEF Skip, AnswerInv
<1>7. CASE CaseLimit
  <2>1. checked' # 0
    BY <1>7 DEF CaseLimit, SearchInv, TypeOK
  <2> QED BY <1>7, <1>g, <2>1, CaseLimitConcludes DEF CaseLimit
<1>8. CASE Execute
  BY <1>8, <1>g DEF Execute, AnswerInv
<1>9. CASE BeginPath
  <2>1. ASSUME Path.notes = "uncertain" PROVE UncertainSearched
    <3>1. PICK i \in 1 .. Len(world) : i = explored
      BY <1>9 DEF BeginPath, SearchInv, AtCase
    <3>2. /\ i <= Limit /\ i \in 0 .. Len(world) /\ i \in 1 .. i /\ world[i].feasible
          /\ Cardinality(FeasibleUpTo(world, i)) <= MaxCases
      BY <1>9, <3>1 DEF BeginPath, SearchInv, AtCase, AnswerInv, Case, TypeOK
    <3>3. i \in Promise!Searched(MaxCases)
      BY <3>2, ExecutedIsSearched DEF SearchInv
    <3>4. path \in DOMAIN world[i].paths
      BY <1>9, <3>1, CaseShape DEF BeginPath, SearchInv, TypeOK, Case
    <3> QED BY <2>1, <3>1, <3>3, <3>4 DEF UncertainSearched, Path, Case
  <2>2. doubtful' => UncertainSearched
    BY <1>9, <2>1 DEF BeginPath, AnswerInv
  <2> QED BY <1>9, <1>g, <2>2 DEF BeginPath, loopVars, AnswerInv
<1>10. CASE EndPath
  BY <1>10, <1>g DEF EndPath, loopVars, AnswerInv
<1>11. CASE EndCase
  BY <1>11, <1>g DEF EndCase, loopVars, AnswerInv
<1>12. CASE ContractHolds
  BY <1>12, <1>g DEF ContractHolds, loopVars, AnswerInv
<1>13. CASE ContractViolated
  <2> DEFINE level == Level(Contracts[contract])
             v == Answer(level, IF level = "FAILED" THEN "CONTRACT_VIOLATED"
                                ELSE "POTENTIAL_FAILURE",
                         <<explored, path, contract>>)
  <2>1. verdict' = v /\ pc' = "done" /\ pc = "contract" /\ contract <= Len(Contracts)
        /\ Outcome = "violated"
    BY <1>13 DEF ContractViolated, Return
  <2>2. Promise!Explanation(<<explored, path, contract>>) = v
    BY <2>1, StopExplained
  <2>3. \A m \in Nat : MaxCases <= m => Promise!Expected(m) = v
    BY <2>1, <2>2, StopIsFirstTrouble
  <2>4. MaxCases \in Nat /\ MaxCases <= MaxCases /\ MaxCases .. Len(world) \subseteq Nat
    BY BoundAssumption DEF SearchInv, TypeOK
  <2> HIDE DEF v
  <2> QED BY <1>r, <1>v, <2>1, <2>3, <2>4
<1>14. CASE ContractError
  <2> DEFINE v == Answer("UNKNOWN", "EVAL_ERROR", <<explored, path, contract>>)
  <2>1. verdict' = v /\ pc' = "done" /\ pc = "contract" /\ contract <= Len(Contracts)
        /\ Outcome = "error"
    BY <1>14 DEF ContractError, Return
  <2>2. Promise!Explanation(<<explored, path, contract>>) = v
    BY <2>1, StopExplained
  <2>3. MaxCases \in Nat /\ MaxCases <= MaxCases /\ v.level = "UNKNOWN"
    BY BoundAssumption DEF Answer
  <2>4. Promise!Expected(MaxCases) = v
    BY <2>1, <2>2, <2>3, StopIsFirstTrouble
  <2> HIDE DEF v
  <2> QED BY <1>r, <1>v, <2>1, <2>3, <2>4
<1>15. CASE Conclude
  <2>1. /\ Promise!Troubles(MaxCases) = {}
        /\ checked = 0 <=> Promise!Searched(MaxCases) = {}
        /\ doubtful <=> Promise!Doubtful(MaxCases)
        /\ pc = "conclude"
    BY <1>15 DEF Conclude, AnswerInv
  <2>2. verdict' = Promise!Expected(MaxCases)
    BY <1>15, <2>1
       DEF Conclude, Return, Promise!Expected, Answer, Promise!Answer, Nowhere, Promise!Nowhere
  <2>3. pc' = "done" /\ verdict'.level # "FAILED"
    BY <1>15 DEF Conclude, Return, Answer
  <2> QED BY <1>r, <1>v, <2>1, <2>2, <2>3
<1>16. CASE ExecuteRaises
  <2> DEFINE v == Answer("NONE", "RAISED", <<explored, 0, 0>>)
  <2>1. /\ verdict' = v /\ pc' = "done" /\ pc = "assume"
        /\ Case.feasible /\ Case.paths = <<>> /\ checked + 1 <= MaxCases
    BY <1>16 DEF ExecuteRaises, Return
  <2>2. Promise!Expected(MaxCases) = v
    BY <2>1, RaiseIsFirstTrouble
  <2>3. v.level # "FAILED"
    BY DEF Answer
  <2> HIDE DEF v
  <2> QED BY <1>r, <1>v, <2>1, <2>2, <2>3
<1>17. CASE UNCHANGED vars
  <2>1. UNCHANGED <<world, pc, explored, checked, doubtful, verdict>>
    BY <1>17 DEF vars
  <2>2. FailuresSurviveDeeperSearch'
    <3>1. \A m : Promise!Expected(m)' = Promise!Expected(m)
      BY <1>s, PromiseStays
    <3> QED BY <2>1, <3>1 DEF AnswerInv, FailuresSurviveDeeperSearch
  <2> QED BY <1>u, <1>l, <1>p, <2>1, <2>2 DEF AnswerInv
<1> QED
  BY <1>1, <1>2, <1>3, <1>4, <1>5, <1>6, <1>7, <1>8, <1>9, <1>10, <1>11, <1>12, <1>13,
     <1>14, <1>15, <1>16, <1>17 DEF Next

\* Searching further never withdraws a failure of verify_method: with any larger
\* max_cases it stops in the same state, path and contract.
THEOREM FailuresSurvive == Spec => []FailuresSurviveDeeperSearch
<1>1. AnswerInv => FailuresSurviveDeeperSearch
  BY DEF AnswerInv
<1>2. Init => AnswerInv
  BY AnswerInit
<1>3. SearchInv /\ AnswerInv /\ [Next]_vars => AnswerInv'
  BY AnswerStep
<1> QED BY <1>1, <1>2, <1>3, SearchInit, SearchStep, PTL DEF Spec

\* The loop of verify_method, with its counters, its limits and its early returns,
\* answers what BoundedVerdict says at once, for any bodies, contracts and limits.
THEOREM SearchImplementsVerdict == Spec => RefinesBoundedVerdict
<1>1. Init => AnswerInv /\ Promise!Init
  BY AnswerInit
<1>2. SearchInv /\ AnswerInv /\ [Next]_vars => AnswerInv' /\ [Promise!Next]_<<world, verdict>>
  BY AnswerStep
<1> QED
  BY <1>1, <1>2, SearchInit, SearchStep, PTL DEF Spec, RefinesBoundedVerdict, Promise!Spec

-----------------------------------------------------------------------------
(* The inductive invariant of the interpreter, on tame bodies.             *)

Runs == [at : Nat, x : Int, result : Int \cup {NoResult}, done : BOOLEAN]
PathSet == [x : Int, result : Int \cup {NoResult},
            notes : {"none", "plain", "uncertain"}, done : BOOLEAN]
Calls == [from : Nat, to : Nat, up : Nat, at : Nat, paths : Seq(PathSet), next : Seq(PathSet)]

\* The recorded run is one that C++ makes.
Recorded(src, tr) ==
    /\ tr \in Seq(Runs) /\ tr # <<>>
    /\ \A t \in DOMAIN tr : tr[t].at > 0
    /\ \A t \in 1 .. Len(tr) - 1 : ~Ended(src, tr[t]) /\ tr[t + 1] \in RealStep(src, tr[t])

\* A call's loop is at the start of a node of its text, or at its end.
Placed(src, c) ==
    /\ c.from >= 1 /\ c.from <= c.at /\ c.at <= c.to + 1 /\ c.to <= Len(src)
    /\ Text(src, c.at, c.to)
    /\ c.next # <<>> => c.at <= c.to

\* The text of a call is a branch of the `if` that its caller is at.
BranchOf(src, c, m) ==
    \/ c.from = m + 1 /\ c.to = src[m].close - 1
    \/ c.from = src[m].close + 1 /\ c.to = ElseEnd(src, m)

Called(src, cs, k) ==
    IF k = 1 THEN cs[k].from = 1 /\ cs[k].to = Len(src) /\ cs[k].up = 0
    ELSE /\ cs[k].up \in 1 .. k - 1
         /\ LET u == cs[cs[k].up] IN
            u.at <= u.to /\ IsIf(src, u.at) /\ BranchOf(src, cs[k], u.at)

\* No call is without a path of its own or a branch that will return some.
Occupied(cs, k) ==
    \/ cs[k].paths # <<>> \/ cs[k].next # <<>>
    \/ \E j \in DOMAIN cs : cs[j].up = k

Stacked(src, cs) ==
    /\ cs \in Seq(Calls) /\ cs # <<>>
    /\ \A k \in DOMAIN cs : Placed(src, cs[k]) /\ Called(src, cs, k) /\ Occupied(cs, k)

\* Every path carries the note of an uncertainty.
DoubtfulPaths(ps) == \A i \in DOMAIN ps : ps[i].notes = "uncertain"
AllDoubtful(cs) ==
    \A k \in DOMAIN cs : DoubtfulPaths(cs[k].paths) /\ DoubtfulPaths(cs[k].next)

\* Place i is in every part of the call's text that control only leaves by returning.
Closed(src, S) == \A i \in S : Follows(src, i) \subseteq S
Trapped(src, c, i) ==
    \A S \in SUBSET (c.from .. c.to) : c.from \in S /\ Closed(src, S) => i \in S

After(src, i) == IF IsIf(src, i) THEN LastOf(src, i) + 1 ELSE i + 1

\* Path p, in the topmost call, stands for the moment r of the run, at place i.
Tracks(src, cs, r, p, i) ==
    /\ p.x = r.x /\ p.result = r.result /\ p.done = r.done
    /\ p.done => MentionsReturn(src, cs[Len(cs)].from, cs[Len(cs)].to)
    /\ ~p.done => r.at = i /\ \A k \in DOMAIN cs : Trapped(src, cs[k], i)

\* There is one path, and it is where the run has been.
OnlyPath(src, tr, cs, t, p) ==
    LET top == cs[Len(cs)] IN
    \/ top.paths = <<p>> /\ top.next = <<>> /\ Tracks(src, cs, tr[t], p, top.at)
    \/ top.paths = <<>> /\ top.next = <<p>> /\ Tracks(src, cs, tr[t], p, After(src, top.at))

Chained(cs) ==
    \A k \in 1 .. Len(cs) - 1 : cs[k].paths = <<>> /\ cs[k].next = <<>> /\ cs[k + 1].up = k

OneSure(src, tr, cs) ==
    /\ Chained(cs)
    /\ \E t \in DOMAIN tr : \E p \in PathSet : OnlyPath(src, tr, cs, t, p)

InterpInv ==
    /\ body \in Bodies
    /\ Recorded(body, trace)
    /\ Tame(body) /\ Understood(body, trace) =>
          /\ Stacked(body, calls)
          /\ AllDoubtful(calls) \/ OneSure(body, trace, calls)

-----------------------------------------------------------------------------
(* Bodies.                                                                 *)

\* What a token of a body can be.
LEMMA TokenShape ==
  ASSUME NEW src \in Bodies, NEW i \in DOMAIN src
  PROVE  /\ src \in Seq(Tokens) /\ WellFormed(src) /\ i \in 1 .. Len(src)
         /\ IsStmt(src, i) \/ IsIf(src, i) \/ IsClosing(src, i)
         /\ IsStmt(src, i) => ~IsIf(src, i) /\ ~IsClosing(src, i) /\ src[i].op \in Operations
         /\ IsIf(src, i) => /\ ~IsClosing(src, i) /\ src[i].cond \in Conditions
                            /\ src[i].close \in Nat
         /\ IsElse(src, i) => IsClosing(src, i) /\ src[i].end \in Nat /\ src[i].braced \in BOOLEAN
         /\ IsClosing(src, i) => src[i].open \in Nat
<1>1. src \in Seq(Tokens) /\ WellFormed(src)
  BY BodiesAssumption
<1>2. src[i] \in Tokens /\ i \in 1 .. Len(src)
  BY <1>1
<1>3. CASE src[i] \in [kind : {"stmt"}, op : Operations]
  BY <1>1, <1>2, <1>3 DEF IsStmt, IsIf, IsElse, IsClosing
<1>4. CASE src[i] \in [kind : {"if"}, cond : Conditions, close : Nat]
  BY <1>1, <1>2, <1>4 DEF IsStmt, IsIf, IsElse, IsClosing
<1>5. CASE src[i] \in [kind : {"else"}, open : Nat, braced : BOOLEAN, end : Nat]
  BY <1>1, <1>2, <1>5 DEF IsStmt, IsIf, IsElse, IsClosing
<1>6. CASE src[i] \in [kind : {"brace"}, open : Nat]
  BY <1>1, <1>2, <1>6 DEF IsStmt, IsIf, IsElse, IsClosing
<1> QED
  BY <1>2, <1>3, <1>4, <1>5, <1>6 DEF Tokens

\* Where the tokens of an `if` are.
LEMMA IfShape ==
  ASSUME NEW src \in Bodies, NEW m \in DOMAIN src, IsIf(src, m)
  PROVE  /\ m \in Nat /\ src[m].close \in m + 1 .. Len(src) /\ IsClosing(src, src[m].close)
         /\ LastOf(src, m) \in src[m].close .. Len(src)
         /\ ElseEnd(src, m) \in src[m].close .. LastOf(src, m)
         /\ Text(src, m + 1, src[m].close - 1)
         /\ Text(src, src[m].close + 1, ElseEnd(src, m))
         /\ \/ /\ IsElse(src, src[m].close) /\ src[src[m].close].braced
               /\ src[src[m].close].end = LastOf(src, m)
               /\ ElseEnd(src, m) = LastOf(src, m) - 1
               /\ src[LastOf(src, m)].kind = "brace"
            \/ /\ IsElse(src, src[m].close) /\ ~src[src[m].close].braced
               /\ src[src[m].close].end = LastOf(src, m)
               /\ ElseEnd(src, m) = LastOf(src, m)
               /\ IsIf(src, src[m].close + 1)
               /\ LastOf(src, src[m].close + 1) = LastOf(src, m)
               /\ src[m].close + 1 <= LastOf(src, m)
               /\ src[LastOf(src, m)].kind = "brace"
            \/ /\ ~IsElse(src, src[m].close)
               /\ src[src[m].close].kind = "brace"
               /\ LastOf(src, m) = src[m].close
               /\ ElseEnd(src, m) = LastOf(src, m)
<1> DEFINE j == src[m].close
<1>1. WellFormed(src) /\ m \in 1 .. Len(src) /\ j \in Nat
  BY TokenShape
<1>2. /\ j \in m + 1 .. Len(src) /\ IsClosing(src, j)
      /\ Text(src, m + 1, j - 1)
      /\ IsElse(src, j) =>
            /\ src[j].end \in j + 1 .. Len(src) /\ src[src[j].end].kind = "brace"
            /\ src[j].braced \/ (IsIf(src, j + 1) /\ LastOf(src, j + 1) = src[j].end)
            /\ Text(src, j + 1, ElseEnd(src, m))
  <2>1. m \in DOMAIN src /\ \A n \in DOMAIN src : IsIf(src, n) =>
          LET k == src[n].close IN
          /\ k \in n + 1 .. Len(src) /\ IsClosing(src, k)
          /\ Text(src, n + 1, k - 1)
          /\ IsElse(src, k) =>
                /\ src[k].end \in k + 1 .. Len(src) /\ src[src[k].end].kind = "brace"
                /\ src[k].braced \/ (IsIf(src, k + 1) /\ LastOf(src, k + 1) = src[k].end)
                /\ Text(src, k + 1, ElseEnd(src, n))
    BY <1>1 DEF WellFormed
  <2> QED
    BY <2>1, Zenon
<1>3. j \in DOMAIN src
  <2>1. src \in Seq(Tokens)
    BY TokenShape
  <2> QED
    BY <1>1, <1>2, <2>1
<1>4. CASE IsElse(src, j) /\ src[j].braced
  <2>1. LastOf(src, m) = src[j].end /\ ElseEnd(src, m) = src[j].end - 1
    BY <1>4 DEF LastOf, ElseEnd
  <2> QED
    BY <1>1, <1>2, <1>4, <2>1
<1>5. CASE IsElse(src, j) /\ ~src[j].braced
  <2>1. LastOf(src, m) = src[j].end /\ ElseEnd(src, m) = src[j].end
    BY <1>5 DEF LastOf, ElseEnd
  <2> QED
    BY <1>1, <1>2, <1>5, <2>1
<1>6. CASE ~IsElse(src, j)
  <2>1. LastOf(src, m) = j /\ ElseEnd(src, m) = j
    BY <1>6 DEF LastOf, ElseEnd
  <2>2. Text(src, j + 1, j)
    BY <1>1 DEF Text
  <2>3. src[j].kind = "brace"
    BY <1>2, <1>6 DEF IsClosing, IsElse
  <2> QED
    BY <1>1, <1>2, <1>6, <2>1, <2>2, <2>3
<1> QED
  BY <1>4, <1>5, <1>6

\* An `if` inside another ends inside it.
LEMMA Nested ==
  ASSUME NEW src \in Bodies, NEW m \in DOMAIN src, IsIf(src, m),
         NEW i \in m + 1 .. LastOf(src, m), IsIf(src, i)
  PROVE  i \in DOMAIN src /\ LastOf(src, i) <= LastOf(src, m)
<1> DEFINE j == src[m].close
<1>1. /\ m \in Nat /\ j \in m + 1 .. Len(src) /\ IsClosing(src, j)
      /\ LastOf(src, m) \in j .. Len(src)
      /\ ElseEnd(src, m) \in j .. LastOf(src, m)
      /\ Text(src, m + 1, j - 1)
      /\ Text(src, j + 1, ElseEnd(src, m))
      /\ ElseEnd(src, m) = LastOf(src, m)
         \/ (ElseEnd(src, m) = LastOf(src, m) - 1 /\ src[LastOf(src, m)].kind = "brace")
  BY IfShape
<1>2. i \in DOMAIN src /\ j \in DOMAIN src /\ i \in Nat
  <2>1. src \in Seq(Tokens)
    BY TokenShape
  <2> QED
    BY <1>1, <2>1
<1>7. LastOf(src, i) \in Nat
  <2>1. src[i].close \in i + 1 .. Len(src) /\ LastOf(src, i) \in src[i].close .. Len(src)
    BY <1>2, IfShape
  <2> QED
    BY <1>2, <2>1
<1>3. CASE i \in m + 1 .. j - 1
  <2>1. LastOf(src, i) <= j - 1
    BY <1>1, <1>3 DEF Text
  <2> QED
    BY <1>1, <1>2, <1>7, <2>1
<1>4. CASE i = j
  BY <1>1, <1>2, <1>4, TokenShape
<1>5. CASE i \in j + 1 .. ElseEnd(src, m)
  <2>1. LastOf(src, i) <= ElseEnd(src, m)
    BY <1>1, <1>5 DEF Text
  <2> QED
    BY <1>1, <1>2, <1>7, <2>1
<1>6. CASE i = LastOf(src, m) /\ src[LastOf(src, m)].kind = "brace"
  BY <1>6 DEF IsIf
<1> QED
  BY <1>1, <1>2, <1>3, <1>4, <1>5, <1>6

\* A text begins with a node, and behind the node is a text.
LEMMA TextAfter ==
  ASSUME NEW src \in Bodies, NEW a \in Nat, NEW b \in Nat,
         1 <= a, a <= b, b <= Len(src), Text(src, a, b)
  PROVE  /\ a \in DOMAIN src
         /\ IsStmt(src, a) \/ IsIf(src, a)
         /\ IsIf(src, a) => LastOf(src, a) \in a .. b
         /\ After(src, a) \in a + 1 .. b + 1
         /\ Text(src, After(src, a), b)
<1>1. src \in Seq(Tokens) /\ WellFormed(src) /\ a \in DOMAIN src
  <2>1. src \in Seq(Tokens) /\ WellFormed(src)
    BY BodiesAssumption
  <2> QED
    BY <2>1
<1>2. \A k \in a .. b : k \in DOMAIN src /\ (IsClosing(src, k) =>
          /\ src[k].open \in 1 .. k - 1 /\ IsIf(src, src[k].open)
          /\ k \in {src[src[k].open].close, LastOf(src, src[k].open)})
  <2>1. \A k \in a .. b : k \in DOMAIN src
    BY <1>1
  <2> QED
    BY <1>1, <2>1 DEF WellFormed
<1>3. ~IsClosing(src, a)
  BY <1>2 DEF Text
<1>4. IsStmt(src, a) \/ IsIf(src, a)
  BY <1>1, <1>3, TokenShape
<1>5. IsIf(src, a) => /\ LastOf(src, a) \in a .. b /\ src[a].close <= LastOf(src, a)
                      /\ src[a].close \in Nat
  <2> HAVE IsIf(src, a)
  <2>1. src[a].close \in a + 1 .. Len(src) /\ LastOf(src, a) \in src[a].close .. Len(src)
    BY <1>1, IfShape
  <2>2. LastOf(src, a) <= b
    BY DEF Text
  <2> QED
    BY <1>1, <2>1, <2>2
<1>6. After(src, a) \in a + 1 .. b + 1
  BY <1>4, <1>5 DEF After
<1>7. Text(src, After(src, a), b)
  <2> SUFFICES ASSUME NEW i \in After(src, a) .. b
               PROVE  /\ IsIf(src, i) => LastOf(src, i) <= b
                      /\ IsClosing(src, i) => After(src, a) <= src[i].open
    BY DEF Text
  <2>1. i \in a .. b /\ i > a
    BY <1>6
  <2>2. IsIf(src, i) => LastOf(src, i) <= b
    BY <2>1 DEF Text
  <2>3. ASSUME IsClosing(src, i), src[i].open < After(src, a)
        PROVE  FALSE
    <3> DEFINE m == src[i].open
    <3>1. /\ m \in 1 .. i - 1 /\ IsIf(src, m) /\ a <= m
          /\ i \in {src[m].close, LastOf(src, m)}
      BY <1>2, <2>1, <2>3 DEF Text
    <3>2. m \in DOMAIN src
      BY <1>1, <1>2, <2>1, <3>1
    <3>3. IsIf(src, a)
      <4> SUFFICES ASSUME ~IsIf(src, a) PROVE FALSE
        OBVIOUS
      <4>1. After(src, a) = a + 1
        BY DEF After
      <4> QED
        BY <2>3, <3>1, <4>1
    <3>4. After(src, a) = LastOf(src, a) + 1
      BY <3>3 DEF After
    <3>5. LastOf(src, m) <= LastOf(src, a)
      <4>1. CASE m = a
        BY <4>1, <1>5, <3>3
      <4>2. CASE m # a
        <5>1. m \in a + 1 .. LastOf(src, a)
          BY <4>2, <2>3, <3>1, <3>4, <1>5, <3>3
        <5> QED
          BY <1>1, <3>1, <3>3, <5>1, Nested
      <4> QED
        BY <4>1, <4>2
    <3>6. src[m].close <= LastOf(src, m) /\ LastOf(src, m) \in Nat /\ src[m].close \in Nat
      <4>1. src[m].close \in m + 1 .. Len(src) /\ LastOf(src, m) \in src[m].close .. Len(src)
        BY <3>1, <3>2, IfShape
      <4> QED
        BY <4>1, <3>1
    <3>7. i <= LastOf(src, a)
      BY <3>1, <3>5, <3>6, <1>5, <3>3
    <3> QED
      BY <3>4, <3>7, <1>5, <3>3, <2>1
  <2>4. IsClosing(src, i) => src[i].open \in Int
    BY <1>2, <2>1
  <2> QED
    BY <2>2, <2>3, <2>4, <1>6
<1> QED
  BY <1>1, <1>4, <1>5, <1>6, <1>7

\* On tame bodies _scan_exec_nodes finds the nodes that are there.
LEMMA NodeEnds ==
  ASSUME NEW src \in Bodies, Tame(src), NEW a \in Nat, NEW b \in Nat,
         1 <= a, a <= b, b <= Len(src), Text(src, a, b)
  PROVE  /\ NodeEnd(src, a, b) + 1 = After(src, a)
         /\ IsIf(src, a) => ScannedElse(src, a, b) = ElseEnd(src, a)
<1>1. /\ src \in Seq(Tokens) /\ a \in DOMAIN src
      /\ IsStmt(src, a) \/ IsIf(src, a)
      /\ IsIf(src, a) => LastOf(src, a) \in a .. b
      /\ Text(src, After(src, a), b)
      /\ After(src, a) \in a + 1 .. b + 1
      /\ IsStmt(src, a) => ~IsIf(src, a)
  BY TextAfter, TokenShape
<1>2. CASE IsStmt(src, a)
  BY <1>1, <1>2 DEF NodeEnd, After
<1>3. CASE IsIf(src, a)
  <2> DEFINE j == src[a].close
             e == LastOf(src, a)
  <2>1. /\ j \in a + 1 .. Len(src) /\ e \in j .. b /\ j \in DOMAIN src /\ e \in Nat
        /\ After(src, a) = e + 1 /\ ~IsStmt(src, a)
    <3>1. j \in a + 1 .. Len(src) /\ e \in j .. Len(src)
      BY <1>1, <1>3, IfShape
    <3> QED
      BY <1>1, <1>3, <3>1 DEF After
  <2>2. CASE IsElse(src, j) /\ ~src[j].braced
    <3>1. /\ src[j].end = e /\ ElseEnd(src, a) = e
          /\ IsIf(src, j + 1) /\ LastOf(src, j + 1) = e /\ j + 1 <= e
      BY <1>1, <1>3, <2>2, IfShape
    <3>2. e = Len(src) \/ IsClosing(src, e + 1)
      <4>1. src[j].end = Len(src) \/ IsClosing(src, src[j].end + 1)
        BY <2>1, <2>2 DEF Tame
      <4> QED
        BY <3>1, <4>1
    <3>3. b = e
      <4> SUFFICES ASSUME e < b PROVE FALSE
        BY <2>1
      <4>1. e + 1 \in Nat /\ 1 <= e + 1 /\ e + 1 <= b /\ Text(src, e + 1, b)
        BY <1>1, <2>1
      <4>2. e + 1 \in DOMAIN src /\ (IsStmt(src, e + 1) \/ IsIf(src, e + 1))
        BY <4>1, TextAfter
      <4>3. ~IsClosing(src, e + 1)
        BY <4>2, TokenShape
      <4> QED
        BY <3>2, <4>3, <2>1
    <3>4. StatementEnd(src, j + 1, b) = b
      <4>1. \A k \in j + 1 .. b :
                ~(IsStmt(src, k) /\ \A m \in j + 1 .. k : IsIf(src, m) => LastOf(src, m) < k)
        BY <2>1, <3>1, <3>3
      <4>2. {k \in j + 1 .. b : IsStmt(src, k) /\
                \A m \in j + 1 .. k : IsIf(src, m) => LastOf(src, m) < k} = {}
        BY <4>1
      <4> QED
        BY <4>2 DEF StatementEnd
    <3>5. NodeEnd(src, a, b) = StatementEnd(src, j + 1, b)
      BY <2>1, <2>2 DEF NodeEnd
    <3>6. ScannedElse(src, a, b) = StatementEnd(src, j + 1, b)
      BY <2>2 DEF ScannedElse
    <3> QED
      BY <2>1, <3>1, <3>3, <3>4, <3>5, <3>6
  <2>3. CASE ~(IsElse(src, j) /\ ~src[j].braced)
    <3>1. NodeEnd(src, a, b) = LastOf(src, a)
      BY <2>1, <2>3 DEF NodeEnd
    <3>2. ScannedElse(src, a, b) = ElseEnd(src, a)
      BY <2>3 DEF ScannedElse
    <3> QED
      BY <2>1, <3>1, <3>2
  <2> QED
    BY <2>2, <2>3
<1> QED
  BY <1>1, <1>2, <1>3

-----------------------------------------------------------------------------
(* What C++ does.                                                          *)

\* Where a token leads to.
LEMMA FollowsShape ==
  ASSUME NEW src \in Bodies, NEW i \in DOMAIN src
  PROVE  /\ IsStmt(src, i) => \/ Follows(src, i) = {i + 1}
                              \/ src[i].op \in Returns
         /\ IsIf(src, i) => Follows(src, i) = {i + 1, src[i].close + 1}
         /\ IsElse(src, i) => Follows(src, i) = {src[i].end + 1}
         /\ src[i].kind = "brace" => Follows(src, i) = {i + 1}
         /\ \A j \in Follows(src, i) : j \in Nat /\ j > 0
<1>1. /\ src \in Seq(Tokens) /\ i \in 1 .. Len(src) /\ i \in Nat /\ i > 0
      /\ IsStmt(src, i) \/ IsIf(src, i) \/ IsClosing(src, i)
      /\ IsStmt(src, i) => ~IsIf(src, i) /\ ~IsClosing(src, i)
      /\ IsIf(src, i) => ~IsClosing(src, i) /\ src[i].close \in Nat
      /\ IsElse(src, i) => IsClosing(src, i) /\ src[i].end \in Nat
  BY TokenShape
<1>2. CASE IsStmt(src, i)
  BY <1>1, <1>2 DEF Follows, IsStmt, IsElse, IsIf
<1>3. CASE IsIf(src, i)
  <2>1. ~IsStmt(src, i) /\ ~IsElse(src, i) /\ src[i].kind # "brace"
    BY <1>3 DEF IsStmt, IsIf, IsElse
  <2>2. Follows(src, i) = {i + 1, src[i].close + 1}
    BY <1>3, <2>1 DEF Follows
  <2> QED
    BY <1>1, <1>3, <2>1, <2>2
<1>4. CASE IsElse(src, i)
  <2>1. ~IsStmt(src, i) /\ ~IsIf(src, i) /\ src[i].kind # "brace"
    BY <1>4 DEF IsStmt, IsIf, IsElse
  <2>2. Follows(src, i) = {src[i].end + 1}
    BY <1>4, <2>1 DEF Follows
  <2> QED
    BY <1>1, <1>4, <2>1, <2>2
<1>5. CASE src[i].kind = "brace"
  <2>1. ~IsStmt(src, i) /\ ~IsIf(src, i) /\ ~IsElse(src, i)
    BY <1>5 DEF IsStmt, IsIf, IsElse
  <2>2. Follows(src, i) = {i + 1}
    BY <2>1 DEF Follows
  <2> QED
    BY <1>1, <2>1, <2>2
<1> QED
  BY <1>1, <1>2, <1>3, <1>4, <1>5 DEF IsClosing, IsElse

\* A step of C++ goes where the token leads, or returns.
LEMMA RealStepShape ==
  ASSUME NEW src \in Bodies, NEW r \in Runs, r.at > 0, ~Ended(src, r),
         NEW s \in RealStep(src, r)
  PROVE  /\ s \in Runs /\ s.at > 0
         /\ r.at \in DOMAIN src
         /\ ~s.done => s.at \in Follows(src, r.at)
         /\ IsIf(src, r.at) \/ IsClosing(src, r.at) =>
                s.x = r.x /\ s.result = r.result /\ ~s.done
         /\ IsIf(src, r.at) /\ src[r.at].cond = "zero" =>
                s.at = IF Holds("zero", r.x) THEN r.at + 1 ELSE src[r.at].close + 1
         /\ IsStmt(src, r.at) /\ src[r.at].op = "x++" =>
                s.x = r.x + 1 /\ s.result = r.result /\ ~s.done /\ s.at = r.at + 1
         /\ IsStmt(src, r.at) /\ src[r.at].op = "return_x" =>
                s.x = r.x /\ s.result = r.x /\ s.done
<1> DEFINE i == r.at
<1>1. /\ src \in Seq(Tokens) /\ i \in DOMAIN src /\ i \in Nat /\ ~r.done /\ r.done \in BOOLEAN
      /\ r.x \in Int
  <2>1. src \in Seq(Tokens)
    BY BodiesAssumption
  <2> QED
    BY <2>1 DEF Ended, Runs
<1>2. /\ IsStmt(src, i) \/ IsIf(src, i) \/ IsClosing(src, i)
      /\ IsStmt(src, i) => ~IsIf(src, i) /\ ~IsClosing(src, i) /\ src[i].op \in Operations
      /\ IsIf(src, i) => /\ ~IsClosing(src, i) /\ src[i].cond \in Conditions
                         /\ src[i].close \in Nat
  BY <1>1, TokenShape
<1>3. CASE IsStmt(src, i)
  <2>1. s \in RealStmt(src[i].op, r)
    <3>1. RealStep(src, r) = RealStmt(src[r.at].op, r)
      BY <1>2, <1>3 DEF RealStep
    <3> QED
      BY <3>1
  <2>2. CASE src[i].op = "x++"
    <3>1. s = [r EXCEPT !.at = @ + 1, !.x = @ + 1]
      BY <2>1, <2>2 DEF RealStmt
    <3>2. Follows(src, i) = {i + 1}
      BY <1>1, <1>3, <2>2, FollowsShape DEF Returns
    <3>3. s = [at |-> i + 1, x |-> r.x + 1, result |-> r.result, done |-> r.done]
      BY <3>1 DEF Runs
    <3>4. r.result \in Int \cup {NoResult}
      BY DEF Runs
    <3>5. s \in Runs
      BY <1>1, <3>3, <3>4 DEF Runs
    <3> QED
      BY <1>1, <1>2, <1>3, <2>2, <3>2, <3>3, <3>5
  <2>3. CASE src[i].op \in {"x=opaque", "x=call", "call"}
    <3>1. PICK v \in Values : s = [r EXCEPT !.at = @ + 1, !.x = v]
      BY <2>1, <2>3 DEF RealStmt
    <3>2. Follows(src, i) = {i + 1}
      BY <1>1, <1>3, <2>3, FollowsShape DEF Returns
    <3>3. s = [at |-> i + 1, x |-> v, result |-> r.result, done |-> r.done]
      BY <3>1 DEF Runs
    <3>4. r.result \in Int \cup {NoResult} /\ v \in Int
      BY InterpAssumption DEF Runs
    <3>5. s \in Runs
      BY <1>1, <3>3, <3>4 DEF Runs
    <3> QED
      BY <1>1, <1>2, <1>3, <2>3, <3>2, <3>3, <3>5
  <2>4. CASE src[i].op = "return_x"
    <3>1. s = [r EXCEPT !.result = r.x, !.done = TRUE]
      BY <2>1, <2>4 DEF RealStmt
    <3> QED
      BY <1>1, <1>2, <1>3, <2>4, <3>1 DEF Runs
  <2>5. CASE src[i].op \in {"return_opaque", "return_call"}
    <3>1. PICK v \in Values : s = [r EXCEPT !.result = v, !.done = TRUE]
      BY <2>1, <2>5 DEF RealStmt
    <3> QED
      BY <1>1, <1>2, <1>3, <2>5, <3>1, InterpAssumption DEF Runs
  <2>6. CASE src[i].op = "return"
    <3>1. s = [r EXCEPT !.done = TRUE]
      BY <2>1, <2>6 DEF RealStmt
    <3> QED
      BY <1>1, <1>2, <1>3, <2>6, <3>1 DEF Runs
  <2>7. CASE src[i].op = "o.x++"
    <3>1. s = [r EXCEPT !.at = @ + 1]
      BY <2>1, <2>7 DEF RealStmt
    <3>2. Follows(src, i) = {i + 1}
      BY <1>1, <1>3, <2>7, FollowsShape DEF Returns
    <3>3. s = [at |-> i + 1, x |-> r.x, result |-> r.result, done |-> r.done]
      BY <3>1 DEF Runs
    <3>4. r.result \in Int \cup {NoResult}
      BY DEF Runs
    <3>5. s \in Runs
      BY <1>1, <3>3, <3>4 DEF Runs
    <3> QED
      BY <1>1, <1>2, <1>3, <2>7, <3>2, <3>3, <3>5
  <2> QED
    BY <1>2, <1>3, <2>2, <2>3, <2>4, <2>5, <2>6, <2>7 DEF Operations
<1>4. CASE IsIf(src, i) /\ src[i].cond = "zero"
  <2>1. s = [r EXCEPT !.at = IF Holds(src[i].cond, r.x) THEN @ + 1 ELSE src[@].close + 1]
    BY <1>2, <1>4 DEF RealStep
  <2>2. /\ s.at = (IF Holds("zero", r.x) THEN i + 1 ELSE src[i].close + 1)
        /\ s.x = r.x /\ s.result = r.result /\ s.done = r.done /\ s \in Runs
    BY <1>1, <1>2, <1>4, <2>1 DEF Runs
  <2>3. Follows(src, i) = {i + 1, src[i].close + 1}
    BY <1>1, <1>4, FollowsShape
  <2> QED
    BY <1>1, <1>2, <1>4, <2>2, <2>3
<1>5. CASE ~IsStmt(src, i) /\ ~(IsIf(src, i) /\ src[i].cond = "zero")
  <2>1. PICK j \in Follows(src, i) : s = [r EXCEPT !.at = j]
    BY <1>5 DEF RealStep
  <2>2. j \in Nat /\ j > 0
    BY <1>1, FollowsShape
  <2> QED
    BY <1>1, <1>2, <1>5, <2>1, <2>2 DEF Runs
<1> QED
  BY <1>3, <1>4, <1>5

-----------------------------------------------------------------------------
(* Traps: where control can be when a branch is left.                      *)

\* A step of control does not leave a closed part of a text.
LEMMA TrappedStep ==
  ASSUME NEW src, NEW c, NEW i, NEW j \in Follows(src, i), Trapped(src, c, i)
  PROVE  Trapped(src, c, j)
BY DEF Trapped, Closed

\* Control begins in every closed part of a text that has its beginning.
LEMMA TrappedFirst ==
  ASSUME NEW src, NEW c
  PROVE  Trapped(src, c, c.from)
BY DEF Trapped

\* A branch of a tame body that mentions a return is not left but by it.
LEMMA ReturnTraps ==
  ASSUME NEW src \in Bodies, Tame(src), NEW m \in DOMAIN src, IsIf(src, m),
         NEW c \in Calls, BranchOf(src, c, m), Trapped(src, c, c.to + 1)
  PROVE  ~MentionsReturn(src, c.from, c.to)
<1> SUFFICES ASSUME MentionsReturn(src, c.from, c.to) PROVE FALSE
  OBVIOUS
<1>1. AlwaysReturns(src, c.from, c.to)
  <2> DEFINE j == src[m].close
  <2>1. /\ MentionsReturn(src, m + 1, j - 1) => AlwaysReturns(src, m + 1, j - 1)
        /\ MentionsReturn(src, j + 1, ElseEnd(src, m)) => AlwaysReturns(src, j + 1, ElseEnd(src, m))
    BY DEF Tame
  <2> QED
    BY <2>1 DEF BranchOf
<1>2. PICK S \in SUBSET (c.from .. c.to) : c.from \in S /\ \A i \in S : Follows(src, i) \subseteq S
  BY <1>1 DEF AlwaysReturns
<1>3. c.to + 1 \in S
  BY <1>2 DEF Trapped, Closed
<1>4. c.from \in Nat /\ c.to \in Nat
  BY DEF Calls
<1> QED
  BY <1>2, <1>3, <1>4

\* What is returned in a branch is returned in the text around it.
LEMMA MentionsWider ==
  ASSUME NEW src, NEW a \in Nat, NEW b \in Nat, NEW e \in Nat, NEW f \in Nat,
         e <= a, b <= f, MentionsReturn(src, a, b)
  PROVE  MentionsReturn(src, e, f)
BY DEF MentionsReturn

-----------------------------------------------------------------------------
(* The stack of calls.                                                     *)

\* The first elements of a sequence, and one element replaced.
LEMMA FirstElements ==
  ASSUME NEW S, NEW s \in Seq(S), NEW m \in Nat, m <= Len(s)
  PROVE  /\ SubSeq(s, 1, m) \in Seq(S) /\ Len(SubSeq(s, 1, m)) = m
         /\ \A k \in 1 .. m : SubSeq(s, 1, m)[k] = s[k]
<1>1. \A i \in 1 .. m : s[i] \in S
  OBVIOUS
<1>2. /\ SubSeq(s, 1, m) \in Seq(S)
      /\ Len(SubSeq(s, 1, m)) = IF 1 <= m THEN m - 1 + 1 ELSE 0
      /\ \A i \in 1 .. m - 1 + 1 : SubSeq(s, 1, m)[i] = s[1 + i - 1]
  BY <1>1, SubSeqProperties, Z3
<1> QED
  BY <1>2

\* One call of the stack is replaced.
LEMMA OneReplaced ==
  ASSUME NEW S, NEW s \in Seq(S), NEW u \in 1 .. Len(s), NEW d \in S
  PROVE  /\ [s EXCEPT ![u] = d] \in Seq(S) /\ Len([s EXCEPT ![u] = d]) = Len(s)
         /\ [s EXCEPT ![u] = d][u] = d
         /\ \A k \in 1 .. Len(s) : k # u => [s EXCEPT ![u] = d][k] = s[k]
OBVIOUS

\* The stack without its topmost call.
LEMMA BelowShape ==
  ASSUME NEW S, NEW cs \in Seq(S), cs # <<>>
  PROVE  /\ Len(cs) \in Nat \ {0}
         /\ SubSeq(cs, 1, Len(cs) - 1) \in Seq(S)
         /\ Len(SubSeq(cs, 1, Len(cs) - 1)) = Len(cs) - 1
         /\ \A k \in 1 .. Len(cs) - 1 : SubSeq(cs, 1, Len(cs) - 1)[k] = cs[k]
<1>1. Len(cs) \in Nat \ {0} /\ Len(cs) - 1 \in Nat /\ Len(cs) - 1 <= Len(cs)
  OBVIOUS
<1> QED
  BY <1>1, FirstElements

\* The topmost call is replaced, and another is made.
LEMMA Replaced ==
  ASSUME NEW S, NEW cs \in Seq(S), cs # <<>>, NEW d \in S
  PROVE  LET ds == Append(SubSeq(cs, 1, Len(cs) - 1), d) IN
         /\ ds \in Seq(S) /\ ds # <<>> /\ Len(ds) = Len(cs)
         /\ \A k \in 1 .. Len(cs) - 1 : ds[k] = cs[k]
         /\ ds[Len(cs)] = d
<1> DEFINE bs == SubSeq(cs, 1, Len(cs) - 1)
<1>1. /\ Len(cs) \in Nat \ {0}
      /\ bs \in Seq(S) /\ Len(bs) = Len(cs) - 1
      /\ \A k \in 1 .. Len(cs) - 1 : bs[k] = cs[k]
  BY BelowShape
<1> HIDE DEF bs
<1>2. /\ Append(bs, d) \in Seq(S) /\ Append(bs, d) # <<>> /\ Len(Append(bs, d)) = Len(cs)
      /\ \A k \in 1 .. Len(cs) - 1 : Append(bs, d)[k] = cs[k]
      /\ Append(bs, d)[Len(cs)] = d
  BY <1>1
<1> QED
  BY <1>2 DEF bs

\* The paths of a branch are handed to call u.
HandedTo(bs, u, left) == [bs EXCEPT ![u].next = @ \o left]

\* Only the queue of call u changes.
LEMMA Handed ==
  ASSUME NEW bs \in Seq(Calls), NEW u \in 1 .. Len(bs), NEW left \in Seq(PathSet)
  PROVE  LET ds == HandedTo(bs, u, left)
         IN  /\ ds \in Seq(Calls) /\ Len(ds) = Len(bs)
             /\ ds[u].next = bs[u].next \o left /\ (left # <<>> => ds[u].next # <<>>)
             /\ ds[u].from = bs[u].from /\ ds[u].to = bs[u].to /\ ds[u].up = bs[u].up
             /\ ds[u].at = bs[u].at /\ ds[u].paths = bs[u].paths
             /\ \A k \in 1 .. Len(bs) : k # u => ds[k] = bs[k]
<1> DEFINE d == [bs[u] EXCEPT !.next = @ \o left]
<1>1. bs[u] \in Calls
  OBVIOUS
<1>2. bs[u].next \in Seq(PathSet)
  BY <1>1 DEF Calls
<1>3. bs[u].next \o left \in Seq(PathSet) /\ (left # <<>> => bs[u].next \o left # <<>>)
  BY <1>2
<1>4. /\ d \in Calls
      /\ d.next = bs[u].next \o left /\ (left # <<>> => d.next # <<>>)
      /\ d.from = bs[u].from /\ d.to = bs[u].to /\ d.up = bs[u].up
      /\ d.at = bs[u].at /\ d.paths = bs[u].paths
  BY <1>1, <1>3 DEF Calls
<1> HIDE DEF d
<1> DEFINE ds == HandedTo(bs, u, left)
<1>5. ds = [bs EXCEPT ![u] = d]
  BY DEF d, HandedTo
<1> HIDE DEF ds
<1>6. ds \in Seq(Calls) /\ Len(ds) = Len(bs) /\ ds[u] = d
  BY <1>4, <1>5, OneReplaced
<1>7. \A k \in 1 .. Len(bs) : k # u => ds[k] = bs[k]
  BY <1>4, <1>5, OneReplaced
<1> QED
  BY <1>4, <1>6, <1>7 DEF ds

\* A stack in which call m may wait for a branch that is not made yet.
Standing(src, cs, m) ==
    /\ cs \in Seq(Calls) /\ cs # <<>>
    /\ \A k \in DOMAIN cs : /\ Placed(src, cs[k]) /\ Called(src, cs, k)
                            /\ k # m => Occupied(cs, k)

\* The topmost call goes on in the same text.
LEMMA StandingReplaced ==
  ASSUME NEW src, NEW cs, Stacked(src, cs), NEW d \in Calls, Placed(src, d),
         d.from = cs[Len(cs)].from, d.to = cs[Len(cs)].to, d.up = cs[Len(cs)].up
  PROVE  Standing(src, Append(SubSeq(cs, 1, Len(cs) - 1), d), Len(cs))
<1> DEFINE n == Len(cs)
           ds == Append(SubSeq(cs, 1, n - 1), d)
<1>1. /\ cs \in Seq(Calls) /\ cs # <<>> /\ n \in Nat \ {0}
      /\ \A k \in 1 .. n : Placed(src, cs[k]) /\ Called(src, cs, k) /\ Occupied(cs, k)
  BY DEF Stacked
<1>2. /\ ds \in Seq(Calls) /\ ds # <<>> /\ Len(ds) = n /\ ds[n] = d
      /\ \A k \in 1 .. n - 1 : ds[k] = cs[k]
  BY <1>1, Replaced
<1> HIDE DEF ds
<1>3. DOMAIN ds = 1 .. n /\ DOMAIN cs = 1 .. n
  BY <1>1, <1>2
<1>4. \A k \in 1 .. n : ds[k].up = cs[k].up /\ ds[k].from = cs[k].from /\ ds[k].to = cs[k].to
  BY <1>1, <1>2
<1> HIDE DEF n
<1>5. ASSUME NEW k \in 1 .. n
      PROVE  Placed(src, ds[k]) /\ Called(src, ds, k) /\ (k # n => Occupied(ds, k))
  <2>1. Placed(src, ds[k])
    BY <1>1, <1>2
  <2>2. Called(src, ds, k)
    <3>1. CASE k = 1
      BY <1>1, <1>4, <3>1 DEF Called
    <3>2. CASE k # 1
      <4>1. cs[k].up \in 1 .. k - 1 /\ cs[k].up \in 1 .. n - 1
        BY <1>1, <3>2 DEF Called
      <4>2. ds[k].up = cs[k].up /\ ds[cs[k].up] = cs[cs[k].up]
        BY <1>2, <1>4, <4>1
      <4> QED
        BY <1>1, <1>4, <3>2, <4>1, <4>2 DEF Called, BranchOf
    <3> QED
      BY <3>1, <3>2
  <2>3. k # n => Occupied(ds, k)
    <3> SUFFICES ASSUME k # n PROVE Occupied(ds, k)
      OBVIOUS
    <3>1. ds[k] = cs[k]
      BY <1>1, <1>2
    <3>2. Occupied(cs, k)
      BY <1>1
    <3> QED
      BY <1>3, <1>4, <3>1, <3>2 DEF Occupied
  <2> QED
    BY <2>1, <2>2, <2>3
<1> QED
  BY <1>2, <1>3, <1>5 DEF Standing, ds, n

\* The same, when a path is in the queues of the call.
LEMMA StackedReplaced ==
  ASSUME NEW src, NEW cs, Stacked(src, cs), NEW d \in Calls, Placed(src, d),
         d.from = cs[Len(cs)].from, d.to = cs[Len(cs)].to, d.up = cs[Len(cs)].up,
         d.paths # <<>> \/ d.next # <<>>
  PROVE  Stacked(src, Append(SubSeq(cs, 1, Len(cs) - 1), d))
<1> DEFINE ds == Append(SubSeq(cs, 1, Len(cs) - 1), d)
<1>1. Standing(src, ds, Len(cs))
  BY StandingReplaced
<1>2. ds[Len(cs)] = d
  BY Replaced DEF Stacked
<1> HIDE DEF ds
<1>3. ASSUME NEW k \in DOMAIN ds PROVE Occupied(ds, k)
  BY <1>1, <1>2 DEF Standing, Occupied
<1> QED
  BY <1>1, <1>3 DEF Standing, Stacked, ds

\* The call that waits gets its branch.
LEMMA StackedPushed ==
  ASSUME NEW src, NEW cs, NEW m \in DOMAIN cs, Standing(src, cs, m),
         cs[m].at <= cs[m].to, IsIf(src, cs[m].at),
         NEW e \in Calls, Placed(src, e), e.up = m, BranchOf(src, e, cs[m].at), e.paths # <<>>
  PROVE  Stacked(src, Append(cs, e))
<1> DEFINE n == Len(cs)
           ds == Append(cs, e)
<1>1. /\ cs \in Seq(Calls) /\ cs # <<>> /\ n \in Nat \ {0} /\ m \in 1 .. n
      /\ \A k \in 1 .. n : /\ Placed(src, cs[k]) /\ Called(src, cs, k)
                           /\ k # m => Occupied(cs, k)
  BY DEF Standing
<1>2. /\ ds \in Seq(Calls) /\ ds # <<>> /\ Len(ds) = n + 1 /\ ds[n + 1] = e
      /\ \A k \in 1 .. n : ds[k] = cs[k]
  BY <1>1
<1> HIDE DEF ds
<1>3. DOMAIN ds = 1 .. n + 1 /\ DOMAIN cs = 1 .. n
  BY <1>1, <1>2
<1> HIDE DEF n
<1>4. ASSUME NEW k \in 1 .. n + 1
      PROVE  Placed(src, ds[k]) /\ Called(src, ds, k) /\ Occupied(ds, k)
  <2>1. CASE k = n + 1
    <3>1. Called(src, ds, k)
      BY <1>1, <1>2, <2>1 DEF Called
    <3> QED
      BY <1>2, <2>1, <3>1 DEF Occupied
  <2>2. CASE k \in 1 .. n
    <3>1. Called(src, ds, k)
      <4>1. CASE k = 1
        BY <1>1, <1>2, <4>1 DEF Called
      <4>2. CASE k # 1
        <5>1. cs[k].up \in 1 .. k - 1 /\ cs[k].up \in 1 .. n
          BY <1>1, <2>2, <4>2 DEF Called
        <5> QED
          BY <1>1, <1>2, <2>2, <4>2, <5>1 DEF Called
      <4> QED
        BY <4>1, <4>2
    <3>2. Occupied(ds, k)
      <4>1. CASE k = m
        <5>1. n + 1 \in DOMAIN ds /\ ds[n + 1].up = k
          BY <1>1, <1>2, <1>3, <4>1
        <5> QED
          BY <5>1 DEF Occupied
      <4>2. CASE k # m
        <5>1. Occupied(cs, k) /\ ds[k] = cs[k]
          BY <1>1, <1>2, <2>2, <4>2
        <5>2. \A j \in DOMAIN cs : j \in DOMAIN ds /\ ds[j] = cs[j]
          BY <1>1, <1>2, <1>3
        <5> QED
          BY <5>1, <5>2 DEF Occupied
      <4> QED
        BY <4>1, <4>2
    <3> QED
      BY <1>1, <1>2, <2>2, <3>1, <3>2
  <2> QED
    BY <1>1, <2>1, <2>2
<1> QED
  BY <1>2, <1>3, <1>4 DEF Stacked, ds

\* The topmost call is left.
LEMMA StackedPopped ==
  ASSUME NEW src, NEW cs, Stacked(src, cs), Len(cs) > 1,
         NEW left \in Seq(PathSet), left # <<>>
  PROVE  Stacked(src, HandedTo(SubSeq(cs, 1, Len(cs) - 1), cs[Len(cs)].up, left))
<1> DEFINE n == Len(cs)
           u == cs[n].up
           bs == SubSeq(cs, 1, n - 1)
           ds == HandedTo(bs, u, left)
<1>1. /\ cs \in Seq(Calls) /\ cs # <<>> /\ n \in Nat \ {0} /\ n > 1 /\ DOMAIN cs = 1 .. n
      /\ \A k \in 1 .. n : Placed(src, cs[k]) /\ Called(src, cs, k) /\ Occupied(cs, k)
  BY DEF Stacked
<1>2. u \in 1 .. n - 1 /\ cs[u].at <= cs[u].to
  BY <1>1 DEF Called
<1>3. bs \in Seq(Calls) /\ Len(bs) = n - 1 /\ \A k \in 1 .. n - 1 : bs[k] = cs[k]
  BY <1>1, BelowShape
<1> HIDE DEF bs, n, u
<1>4. /\ ds \in Seq(Calls) /\ Len(ds) = n - 1
      /\ ds[u].from = cs[u].from /\ ds[u].to = cs[u].to /\ ds[u].up = cs[u].up
      /\ ds[u].at = cs[u].at /\ ds[u].next # <<>>
      /\ \A k \in 1 .. n - 1 : k # u => ds[k] = cs[k]
  <2>1. u \in 1 .. Len(bs)
    BY <1>2, <1>3
  <2>2. bs[u] = cs[u]
    BY <1>2, <1>3
  <2>3. /\ ds \in Seq(Calls) /\ Len(ds) = Len(bs)
        /\ ds[u].from = bs[u].from /\ ds[u].to = bs[u].to /\ ds[u].up = bs[u].up
        /\ ds[u].at = bs[u].at /\ ds[u].next # <<>>
        /\ \A k \in 1 .. Len(bs) : k # u => ds[k] = bs[k]
    BY <1>3, <2>1, Handed
  <2> QED
    BY <1>1, <1>3, <2>2, <2>3
<1> HIDE DEF ds
<1>5. /\ DOMAIN ds = 1 .. n - 1
      /\ \A k \in 1 .. n - 1 : /\ ds[k].up = cs[k].up /\ ds[k].from = cs[k].from
                               /\ ds[k].to = cs[k].to /\ ds[k].at = cs[k].at
  BY <1>1, <1>2, <1>4
<1>6. ASSUME NEW k \in 1 .. n - 1
      PROVE  Placed(src, ds[k]) /\ Called(src, ds, k) /\ Occupied(ds, k)
  <2>0. k \in 1 .. n /\ Placed(src, cs[k]) /\ Called(src, cs, k) /\ Occupied(cs, k)
    BY <1>1
  <2>1. Placed(src, ds[k])
    <3>1. CASE k = u
      BY <1>2, <1>5, <2>0, <3>1 DEF Placed
    <3>2. CASE k # u
      BY <1>4, <2>0, <3>2
    <3> QED
      BY <3>1, <3>2
  <2>2. Called(src, ds, k)
    <3>1. CASE k = 1
      BY <1>5, <2>0, <3>1 DEF Called
    <3>2. CASE k # 1
      <4>1. cs[k].up \in 1 .. k - 1 /\ cs[k].up \in 1 .. n - 1
        BY <1>1, <2>0, <3>2 DEF Called
      <4> QED
        BY <1>5, <2>0, <3>2, <4>1 DEF Called, BranchOf
    <3> QED
      BY <3>1, <3>2
  <2>3. Occupied(ds, k)
    <3>1. CASE k = u
      BY <1>4, <3>1 DEF Occupied
    <3>2. CASE k # u
      <4>1. ds[k] = cs[k]
        BY <1>4, <3>2
      <4>2. \A j \in 1 .. n : cs[j].up = k => j \in 1 .. n - 1
        BY <1>1, <3>2 DEF u
      <4> QED
        BY <1>1, <1>5, <2>0, <4>1, <4>2 DEF Occupied
    <3> QED
      BY <3>1, <3>2
  <2> QED
    BY <2>1, <2>2, <2>3
<1>7. ds # <<>>
  BY <1>1, <1>4
<1> QED
  BY <1>4, <1>5, <1>6, <1>7 DEF Stacked, ds, bs, u, n

-----------------------------------------------------------------------------
(* Paths and their notes.                                                  *)

\* A note only adds doubt.
LEMMA NotedShape ==
  ASSUME NEW p \in PathSet, NEW note \in {"plain", "uncertain"}
  PROVE  /\ Noted(p, note) \in PathSet
         /\ Noted(p, note).x = p.x /\ Noted(p, note).result = p.result
         /\ Noted(p, note).done = p.done
         /\ p.notes = "uncertain" \/ note = "uncertain" => Noted(p, note).notes = "uncertain"
<1>1. p.notes \in {"none", "plain", "uncertain"}
  BY DEF PathSet
<1>2. Stronger(p.notes, note) \in {"none", "plain", "uncertain"}
  BY <1>1 DEF Stronger
<1>3. p.notes = "uncertain" \/ note = "uncertain" => Stronger(p.notes, note) = "uncertain"
  BY <1>1 DEF Stronger, Strength
<1> QED
  BY <1>1, <1>2, <1>3 DEF Noted, PathSet

\* A statement that parse_expr rejects leaves doubt, and doubt stays.
LEMMA ExecuteShape ==
  ASSUME NEW op \in Operations, NEW p \in PathSet
  PROVE  /\ ExecuteStmt(op, p) \in PathSet
         /\ p.notes = "uncertain" \/ op \in {"x=opaque", "return_opaque"}
                => ExecuteStmt(op, p).notes = "uncertain"
         /\ op = "x++" => /\ ExecuteStmt(op, p).x = p.x + 1 /\ ExecuteStmt(op, p).done = p.done
                          /\ ExecuteStmt(op, p).result = p.result
         /\ op = "return_x" => /\ ExecuteStmt(op, p).x = p.x /\ ExecuteStmt(op, p).done
                               /\ ExecuteStmt(op, p).result = p.x
<1>0. /\ p.x \in Int /\ p.result \in Int \cup {NoResult} /\ p.done \in BOOLEAN
      /\ p.notes \in {"none", "plain", "uncertain"}
  BY DEF PathSet
<1>1. CASE op \in {"x++", "o.x++"}
  <2>1. ExecuteStmt(op, p) = [p EXCEPT !.x = @ + 1]
    BY <1>1 DEF ExecuteStmt
  <2> QED
    BY <1>0, <1>1, <2>1 DEF PathSet
<1>2. CASE op = "x=opaque"
  <2>1. ExecuteStmt(op, p) = Noted(p, "uncertain")
    BY <1>2 DEF ExecuteStmt
  <2> QED
    BY <1>2, <2>1, NotedShape
<1>3. ASSUME op \in {"return_x", "return_call"},
             NEW v \in Int, ExecuteStmt(op, p) = [p EXCEPT !.result = v, !.done = TRUE],
             op = "return_x" => v = p.x
      PROVE  /\ ExecuteStmt(op, p) \in PathSet
             /\ p.notes = "uncertain" => ExecuteStmt(op, p).notes = "uncertain"
             /\ op = "return_x" => /\ ExecuteStmt(op, p).x = p.x /\ ExecuteStmt(op, p).done
                                   /\ ExecuteStmt(op, p).result = p.x
  <2>1. ExecuteStmt(op, p) = [x |-> p.x, result |-> v, notes |-> p.notes, done |-> TRUE]
    BY <1>3 DEF PathSet
  <2>2. ExecuteStmt(op, p) \in PathSet
    BY <1>0, <1>3, <2>1 DEF PathSet
  <2> QED
    BY <1>3, <2>1, <2>2
<1>4. CASE op = "return_x"
  <2>1. ExecuteStmt(op, p) = [p EXCEPT !.result = p.x, !.done = TRUE]
    BY <1>4 DEF ExecuteStmt
  <2> QED
    BY <1>0, <1>3, <1>4, <2>1
<1>5. CASE op = "return_call"
  <2>1. ExecuteStmt(op, p) = [p EXCEPT !.result = 0, !.done = TRUE]
    BY <1>5 DEF ExecuteStmt
  <2>2. 0 \in Int
    OBVIOUS
  <2> QED
    BY <1>3, <1>5, <2>1, <2>2
<1>6. CASE op = "return_opaque"
  <2>1. ExecuteStmt(op, p) = [Noted(p, "uncertain") EXCEPT !.done = TRUE]
    BY <1>6 DEF ExecuteStmt
  <2>2. Noted(p, "uncertain") \in PathSet /\ Noted(p, "uncertain").notes = "uncertain"
    BY NotedShape
  <2> QED
    BY <1>6, <2>1, <2>2 DEF PathSet
<1>7. CASE op \in {"return", "call"}
  <2>1. ExecuteStmt(op, p) = p
    BY <1>7 DEF ExecuteStmt
  <2> QED
    BY <1>7, <2>1
<1>8. CASE op = "x=call"
  <2>1. ExecuteStmt(op, p) = [p EXCEPT !.x = 0]
    BY <1>8 DEF ExecuteStmt
  <2> QED
    BY <1>0, <1>8, <2>1 DEF PathSet
<1> QED
  BY <1>1, <1>2, <1>4, <1>5, <1>6, <1>7, <1>8 DEF Operations

\* The limit on paths keeps a path, and one path passes it as it is.
LEMMA CappedShape ==
  ASSUME NEW ps \in Seq(PathSet), ps # <<>>
  PROVE  /\ Capped(ps) \in Seq(PathSet) /\ Capped(ps) # <<>>
         /\ DoubtfulPaths(ps) => DoubtfulPaths(Capped(ps))
         /\ Len(ps) = 1 => Capped(ps) = ps
<1>1. Len(ps) \in Nat \ {0} /\ MaxPaths \in Nat \ {0}
  BY InterpAssumption
<1>2. CASE Len(ps) <= MaxPaths
  BY <1>2 DEF Capped
<1>3. CASE Len(ps) > MaxPaths
  <2> DEFINE qs == SubSeq(ps, 1, MaxPaths)
             q == Noted(ps[MaxPaths], "uncertain")
  <2>1. Capped(ps) = qs \o <<q>>
    BY <1>1, <1>3 DEF Capped
  <2>2. /\ qs \in Seq(PathSet) /\ Len(qs) = MaxPaths
        /\ \A k \in 1 .. MaxPaths : qs[k] = ps[k]
    BY <1>1, <1>3, FirstElements
  <2>3. q \in PathSet /\ q.notes = "uncertain"
    <3>1. ps[MaxPaths] \in PathSet
      BY <1>1, <1>3
    <3> QED
      BY <3>1, NotedShape
  <2> HIDE DEF qs, q
  <2> DEFINE kept == Append(qs, q)
  <2>4. Capped(ps) = kept
    BY <2>1, <2>2, <2>3, AppendIsConcat
  <2>5. /\ kept \in Seq(PathSet) /\ kept # <<>>
        /\ DoubtfulPaths(ps) => DoubtfulPaths(kept)
    BY <1>1, <1>3, <2>2, <2>3 DEF DoubtfulPaths
  <2> HIDE DEF kept
  <2>6. ~(Len(ps) = 1)
    <3> DEFINE n == Len(ps)
    <3>1. MaxPaths \in Nat /\ MaxPaths >= 1 /\ n \in Nat /\ n > MaxPaths
      BY <1>1, <1>3
    <3> HIDE DEF n
    <3>2. ~(n = 1)
      BY <3>1
    <3> QED
      BY <3>2 DEF n
  <2> QED
    BY <2>4, <2>5, <2>6
<1> QED
  BY <1>1, <1>2, <1>3

\* A path goes from one queue of a call to the other.
LEMMA MovedPaths ==
  ASSUME NEW ps \in Seq(PathSet), NEW p \in PathSet
  PROVE  /\ ps # <<>> => /\ ps[1] \in PathSet /\ Tail(ps) \in Seq(PathSet)
                         /\ DoubtfulPaths(ps) => /\ DoubtfulPaths(Tail(ps))
                                                 /\ ps[1].notes = "uncertain"
                         /\ Len(ps) = 1 => Tail(ps) = <<>>
         /\ Append(ps, p) \in Seq(PathSet) /\ Append(ps, p) # <<>>
         /\ DoubtfulPaths(ps) /\ p.notes = "uncertain" => DoubtfulPaths(Append(ps, p))
         /\ ps = <<>> => Append(ps, p) = <<p>>
<1>1. ASSUME ps # <<>>
      PROVE  /\ ps[1] \in PathSet /\ Tail(ps) \in Seq(PathSet)
             /\ DoubtfulPaths(ps) => DoubtfulPaths(Tail(ps)) /\ ps[1].notes = "uncertain"
             /\ Len(ps) = 1 => Tail(ps) = <<>>
  <2>1. /\ ps[1] \in PathSet /\ Tail(ps) \in Seq(PathSet) /\ Len(Tail(ps)) = Len(ps) - 1
        /\ Len(ps) \in Nat \ {0}
        /\ \A i \in 1 .. Len(ps) - 1 : Tail(ps)[i] = ps[i + 1]
    BY <1>1
  <2>2. Len(ps) = 1 => Tail(ps) = <<>>
    <3> DEFINE rest == Tail(ps)
    <3>1. rest \in Seq(PathSet) /\ (Len(ps) = 1 => Len(rest) = 0)
      BY <2>1
    <3> HIDE DEF rest
    <3>2. Len(ps) = 1 => rest = <<>>
      BY <3>1
    <3> QED
      BY <3>2 DEF rest
  <2>3. ASSUME DoubtfulPaths(ps), NEW i \in DOMAIN Tail(ps)
        PROVE  Tail(ps)[i].notes = "uncertain"
    <3>1. i \in 1 .. Len(ps) - 1 /\ i + 1 \in DOMAIN ps
      BY <2>1
    <3> QED
      BY <2>1, <2>3, <3>1 DEF DoubtfulPaths
  <2>4. DoubtfulPaths(ps) => ps[1].notes = "uncertain"
    BY <2>1 DEF DoubtfulPaths
  <2> QED
    BY <2>1, <2>2, <2>3, <2>4 DEF DoubtfulPaths
<1>2. /\ Append(ps, p) \in Seq(PathSet) /\ Append(ps, p) # <<>>
      /\ ps = <<>> => Append(ps, p) = <<p>>
  <2>1. Append(ps, p) \in Seq(PathSet) /\ Append(ps, p) # <<>>
    BY AppendProperties
  <2>2. Append(ps, p) = ps \o <<p>>
    BY AppendIsConcat
  <2>3. ps = <<>> => ps \o <<p>> = <<p>>
    BY ConcatEmptySeq
  <2> QED
    BY <2>1, <2>2, <2>3
<1>3. DoubtfulPaths(ps) /\ p.notes = "uncertain" => DoubtfulPaths(Append(ps, p))
  BY DEF DoubtfulPaths
<1> QED
  BY <1>1, <1>2, <1>3

\* Queues of no path and of one.
LEMMA DoubtfulPath ==
  ASSUME NEW p \in PathSet
  PROVE  DoubtfulPaths(<<>>) /\ (DoubtfulPaths(<<p>>) <=> p.notes = "uncertain")
BY DEF DoubtfulPaths

\* Two queues in one.
LEMMA DoubtfulTogether ==
  ASSUME NEW s \in Seq(PathSet), NEW t \in Seq(PathSet)
  PROVE  /\ DoubtfulPaths(s) /\ DoubtfulPaths(t) => DoubtfulPaths(s \o t)
         /\ s = <<>> => s \o t = t
<1>1. /\ s \o t \in Seq(PathSet) /\ Len(s \o t) = Len(s) + Len(t)
      /\ \A i \in 1 .. Len(s) + Len(t) :
            (s \o t)[i] = IF i <= Len(s) THEN s[i] ELSE t[i - Len(s)]
  BY ConcatProperties
<1>2. ASSUME DoubtfulPaths(s), DoubtfulPaths(t), NEW i \in DOMAIN (s \o t)
      PROVE  (s \o t)[i].notes = "uncertain"
  <2>1. i \in 1 .. Len(s) + Len(t) /\ Len(s) \in Nat /\ Len(t) \in Nat
    BY <1>1
  <2>2. CASE i <= Len(s)
    <3>1. i \in DOMAIN s /\ (s \o t)[i] = s[i]
      BY <1>1, <2>1, <2>2
    <3> QED
      BY <1>2, <3>1 DEF DoubtfulPaths
  <2>3. CASE i > Len(s)
    <3>1. i - Len(s) \in DOMAIN t /\ (s \o t)[i] = t[i - Len(s)]
      BY <1>1, <2>1, <2>3
    <3> QED
      BY <1>2, <3>1 DEF DoubtfulPaths
  <2> QED
    BY <2>1, <2>2, <2>3
<1>3. s = <<>> => s \o t = t
  BY ConcatEmptySeq
<1> QED
  BY <1>2, <1>3 DEF DoubtfulPaths

\* Doubt everywhere below the topmost call.
DoubtfulBelow(cs) ==
    \A k \in 1 .. Len(cs) - 1 : DoubtfulPaths(cs[k].paths) /\ DoubtfulPaths(cs[k].next)

\* Below the topmost call are paths in doubt, or none.
LEMMA DoubtBelow ==
  ASSUME NEW cs \in Seq(Calls), cs # <<>>, AllDoubtful(cs) \/ Chained(cs)
  PROVE  DoubtfulBelow(cs)
BY DEF AllDoubtful, Chained, DoubtfulBelow, DoubtfulPaths

\* Doubt stays when the topmost call is replaced,
LEMMA DoubtfulReplaced ==
  ASSUME NEW cs \in Seq(Calls), cs # <<>>, DoubtfulBelow(cs),
         NEW d \in Calls, DoubtfulPaths(d.paths), DoubtfulPaths(d.next)
  PROVE  AllDoubtful(Append(SubSeq(cs, 1, Len(cs) - 1), d))
<1> DEFINE ds == Append(SubSeq(cs, 1, Len(cs) - 1), d)
           n == Len(cs)
<1>1. /\ ds \in Seq(Calls) /\ Len(ds) = n /\ n \in Nat \ {0}
      /\ \A k \in 1 .. n - 1 : ds[k] = cs[k]
      /\ ds[n] = d
  BY Replaced
<1> HIDE DEF ds, n
<1>2. ASSUME NEW k \in 1 .. n PROVE DoubtfulPaths(ds[k].paths) /\ DoubtfulPaths(ds[k].next)
  <2>1. k = n \/ k \in 1 .. n - 1
    BY <1>1
  <2> QED
    BY <1>1, <2>1 DEF DoubtfulBelow, n
<1> QED
  BY <1>1, <1>2 DEF AllDoubtful, ds

\* when a call is made,
LEMMA DoubtfulPushed ==
  ASSUME NEW cs \in Seq(Calls), AllDoubtful(cs),
         NEW d \in Calls, DoubtfulPaths(d.paths), DoubtfulPaths(d.next)
  PROVE  AllDoubtful(Append(cs, d))
BY DEF AllDoubtful

\* and when the paths of a branch are handed to its caller.
LEMMA DoubtfulPopped ==
  ASSUME NEW cs \in Seq(Calls), Len(cs) > 1, DoubtfulBelow(cs), NEW u \in 1 .. Len(cs) - 1,
         NEW left \in Seq(PathSet), DoubtfulPaths(left)
  PROVE  AllDoubtful(HandedTo(SubSeq(cs, 1, Len(cs) - 1), u, left))
<1> DEFINE n == Len(cs)
           bs == SubSeq(cs, 1, n - 1)
           ds == HandedTo(bs, u, left)
<1>1. bs \in Seq(Calls) /\ Len(bs) = n - 1 /\ \A k \in 1 .. n - 1 : bs[k] = cs[k]
  BY BelowShape
<1> HIDE DEF bs
<1>2. u \in 1 .. Len(bs) /\ DOMAIN bs = 1 .. Len(bs)
  BY <1>1
<1>3. /\ ds \in Seq(Calls) /\ Len(ds) = Len(bs)
      /\ ds[u].next = bs[u].next \o left /\ ds[u].paths = bs[u].paths
      /\ \A k \in 1 .. Len(bs) : k # u => ds[k] = bs[k]
  BY <1>1, <1>2, Handed
<1>4. \A k \in 1 .. Len(bs) : DoubtfulPaths(bs[k].paths) /\ DoubtfulPaths(bs[k].next)
  BY <1>1 DEF DoubtfulBelow
<1>5. DoubtfulPaths(ds[u].next)
  <2>1. bs[u].next \in Seq(PathSet)
    <3>1. bs[u] \in Calls
      BY <1>1, <1>2
    <3> QED
      BY <3>1 DEF Calls
  <2> QED
    BY <1>2, <1>3, <1>4, <2>1, DoubtfulTogether
<1> HIDE DEF ds, n
<1>6. ASSUME NEW k \in DOMAIN ds PROVE DoubtfulPaths(ds[k].paths) /\ DoubtfulPaths(ds[k].next)
  <2>1. k \in 1 .. Len(bs)
    BY <1>3
  <2> QED
    BY <1>2, <1>3, <1>4, <1>5, <2>1
<1> QED
  BY <1>6 DEF AllDoubtful, ds, bs, n

-----------------------------------------------------------------------------
(* One path, next to the run.                                              *)

\* The run goes on as long as it has not ended.
LEMMA RunGoesOn ==
  ASSUME NEW src \in Bodies, NEW tr, Recorded(src, tr), Ended(src, tr[Len(tr)]),
         NEW t \in DOMAIN tr
  PROVE  /\ tr[t] \in Runs /\ tr[t].at > 0
         /\ ~Ended(src, tr[t]) => t + 1 \in DOMAIN tr /\ tr[t + 1] \in RealStep(src, tr[t])
         /\ Ended(src, tr[t]) => tr[t] = tr[Len(tr)]
<1>1. /\ tr \in Seq(Runs) /\ Len(tr) \in Nat \ {0} /\ t \in 1 .. Len(tr)
      /\ tr[t].at > 0
      /\ \A i \in 1 .. Len(tr) - 1 : ~Ended(src, tr[i]) /\ tr[i + 1] \in RealStep(src, tr[i])
  BY DEF Recorded
<1>2. CASE t = Len(tr)
  BY <1>1, <1>2
<1>3. CASE t \in 1 .. Len(tr) - 1
  <2>1. ~Ended(src, tr[t]) /\ tr[t + 1] \in RealStep(src, tr[t])
    BY <1>1, <1>3
  <2> QED
    BY <1>1, <1>3, <2>1
<1> QED
  BY <1>1, <1>2, <1>3

\* What is said of a path depends on the stack's texts only.
LEMMA TracksSame ==
  ASSUME NEW src, NEW cs \in Seq(Calls), NEW ds \in Seq(Calls), cs # <<>>, Len(ds) = Len(cs),
         \A k \in DOMAIN cs : ds[k].from = cs[k].from /\ ds[k].to = cs[k].to,
         NEW r, NEW p, NEW i, Tracks(src, cs, r, p, i)
  PROVE  Tracks(src, ds, r, p, i)
<1>1. DOMAIN ds = DOMAIN cs /\ Len(cs) \in DOMAIN cs
  OBVIOUS
<1>2. ASSUME ~p.done, NEW k \in DOMAIN ds PROVE Trapped(src, ds[k], i)
  <2>1. Trapped(src, cs[k], i)
    BY <1>1, <1>2 DEF Tracks
  <2> QED
    BY <1>1, <2>1 DEF Trapped
<1>3. /\ p.done => MentionsReturn(src, ds[Len(ds)].from, ds[Len(ds)].to)
      /\ ~p.done => r.at = i
      /\ p.x = r.x /\ p.result = r.result /\ p.done = r.done
  BY <1>1 DEF Tracks
<1> QED
  BY <1>2, <1>3 DEF Tracks

\* The topmost call goes on with its one path.
LEMMA OneSureReplaced ==
  ASSUME NEW src, NEW tr, NEW cs \in Seq(Calls), cs # <<>>, Chained(cs),
         NEW d \in Calls, d.from = cs[Len(cs)].from, d.to = cs[Len(cs)].to, d.up = cs[Len(cs)].up,
         NEW t \in DOMAIN tr, NEW p \in PathSet,
         \/ d.paths = <<p>> /\ d.next = <<>> /\ Tracks(src, cs, tr[t], p, d.at)
         \/ d.paths = <<>> /\ d.next = <<p>> /\ Tracks(src, cs, tr[t], p, After(src, d.at))
  PROVE  OneSure(src, tr, Append(SubSeq(cs, 1, Len(cs) - 1), d))
<1> DEFINE n == Len(cs)
           ds == Append(SubSeq(cs, 1, n - 1), d)
<1>1. /\ ds \in Seq(Calls) /\ ds # <<>> /\ Len(ds) = n /\ n \in Nat \ {0}
      /\ \A k \in 1 .. n - 1 : ds[k] = cs[k]
      /\ ds[n] = d
  BY Replaced
<1> HIDE DEF ds
<1>2. \A k \in DOMAIN cs : ds[k].from = cs[k].from /\ ds[k].to = cs[k].to /\ ds[k].up = cs[k].up
  BY <1>1
<1>3. Chained(ds)
  BY <1>1, <1>2 DEF Chained
<1>4. \A i : Tracks(src, cs, tr[t], p, i) => Tracks(src, ds, tr[t], p, i)
  BY <1>1, <1>2, TracksSame
<1>5. OnlyPath(src, tr, ds, t, p)
  BY <1>1, <1>4 DEF OnlyPath
<1> QED
  BY <1>3, <1>5 DEF OneSure, ds, n

\* The one path is taken into a branch.
LEMMA OneSurePushed ==
  ASSUME NEW src, NEW tr, NEW cs \in Seq(Calls), cs # <<>>, Chained(cs),
         NEW d \in Calls, d.from = cs[Len(cs)].from, d.to = cs[Len(cs)].to, d.up = cs[Len(cs)].up,
         d.paths = <<>>, d.next = <<>>,
         NEW e \in Calls, e.up = Len(cs), e.at = e.from, e.next = <<>>,
         NEW t \in DOMAIN tr, NEW p \in PathSet, e.paths = <<p>>,
         tr[t].x = p.x, tr[t].result = p.result, tr[t].done = p.done, ~p.done, tr[t].at = e.from,
         \A k \in DOMAIN cs : Trapped(src, cs[k], e.from)
  PROVE  OneSure(src, tr, Append(Append(SubSeq(cs, 1, Len(cs) - 1), d), e))
<1> DEFINE n == Len(cs)
           ds == Append(SubSeq(cs, 1, n - 1), d)
           es == Append(ds, e)
<1>1. /\ ds \in Seq(Calls) /\ ds # <<>> /\ Len(ds) = n /\ n \in Nat \ {0}
      /\ \A k \in 1 .. n - 1 : ds[k] = cs[k]
      /\ ds[n] = d
  BY Replaced
<1> HIDE DEF ds
<1>2. /\ es \in Seq(Calls) /\ Len(es) = n + 1 /\ es[n + 1] = e /\ es[n] = d
      /\ \A k \in 1 .. n - 1 : es[k] = cs[k]
  BY <1>1
<1> HIDE DEF es, n
<1>3. Chained(es)
  <2> SUFFICES ASSUME NEW k \in 1 .. n
               PROVE  es[k].paths = <<>> /\ es[k].next = <<>> /\ es[k + 1].up = k
    BY <1>1, <1>2 DEF Chained
  <2>1. CASE k = n
    BY <1>1, <1>2, <2>1 DEF n
  <2>2. CASE k = n - 1
    <3>1. k \in 1 .. n - 1 /\ k + 1 = n /\ cs[k].paths = <<>> /\ cs[k].next = <<>> /\ cs[n].up = k
      BY <1>1, <2>2 DEF Chained, n
    <3> QED
      BY <1>2, <3>1 DEF n
  <2>3. CASE k \in 1 .. n - 2
    <3>1. /\ k \in 1 .. n - 1 /\ k + 1 \in 1 .. n - 1
          /\ cs[k].paths = <<>> /\ cs[k].next = <<>> /\ cs[k + 1].up = k
      BY <1>1, <2>3 DEF Chained, n
    <3> QED
      BY <1>2, <3>1
  <2> QED
    BY <1>1, <2>1, <2>2, <2>3
<1>4. ASSUME NEW k \in DOMAIN es PROVE Trapped(src, es[k], e.from)
  <2>1. CASE k = n + 1
    BY <1>2, <2>1, TrappedFirst
  <2>2. CASE k \in 1 .. n
    <3>1. Trapped(src, cs[k], e.from) /\ es[k].from = cs[k].from /\ es[k].to = cs[k].to
      BY <1>1, <1>2, <2>2 DEF n
    <3> QED
      BY <3>1 DEF Trapped
  <2> QED
    BY <1>1, <1>2, <2>1, <2>2
<1>5. Tracks(src, es, tr[t], p, e.from)
  BY <1>4 DEF Tracks
<1>6. OnlyPath(src, tr, es, t, p)
  BY <1>2, <1>5 DEF OnlyPath
<1> QED
  BY <1>3, <1>6 DEF OneSure, es, ds, n

\* A topmost call that is not at the end of its text is at a node.
LEMMA AtNode ==
  ASSUME NEW src \in Bodies, NEW cs, Stacked(src, cs), NEW c, c = cs[Len(cs)], c.at <= c.to
  PROVE  /\ c \in Calls /\ Placed(src, c) /\ cs \in Seq(Calls) /\ cs # <<>>
         /\ Len(cs) \in Nat \ {0} /\ Len(cs) \in DOMAIN cs
         /\ c.at \in Nat /\ c.at >= 1 /\ c.to \in Nat /\ c.to <= Len(src)
         /\ c.from \in Nat /\ c.from <= c.at /\ c.from >= 1
         /\ Text(src, c.at, c.to)
         /\ c.at \in DOMAIN src
         /\ IsStmt(src, c.at) \/ IsIf(src, c.at)
         /\ IsIf(src, c.at) => LastOf(src, c.at) \in c.at .. c.to
         /\ After(src, c.at) \in c.at + 1 .. c.to + 1
         /\ Text(src, After(src, c.at), c.to)
<1>1. /\ c \in Calls /\ Placed(src, c) /\ cs \in Seq(Calls) /\ cs # <<>>
      /\ Len(cs) \in Nat \ {0} /\ Len(cs) \in DOMAIN cs
  BY DEF Stacked
<1>2. /\ c.at \in Nat /\ c.at >= 1 /\ c.to \in Nat /\ c.to <= Len(src)
      /\ c.from \in Nat /\ c.from <= c.at /\ c.from >= 1
      /\ Text(src, c.at, c.to)
  BY <1>1 DEF Calls, Placed
<1> QED
  BY <1>1, <1>2, TextAfter

\* The paths are all in doubt, or there is one and it is where the run has been.
Guided(src, tr, cs) == AllDoubtful(cs) \/ OneSure(src, tr, cs)

\* A path in the queue of a call with one path is that path.
LEMMA TheOnlyPath ==
  ASSUME NEW src, NEW tr, NEW cs, NEW t, NEW q, NEW c, c = cs[Len(cs)], c.paths # <<>>,
         OnlyPath(src, tr, cs, t, q)
  PROVE  c.paths = <<q>> /\ c.next = <<>> /\ c.paths[1] = q /\ Len(c.paths) = 1
<1>1. c.paths = <<q>> /\ c.next = <<>>
  BY DEF OnlyPath
<1> QED
  BY <1>1

\* In either case what is below the topmost call is in doubt.
LEMMA GuidedBelow ==
  ASSUME NEW src, NEW tr, NEW cs \in Seq(Calls), cs # <<>>, Guided(src, tr, cs)
  PROVE  DoubtfulBelow(cs)
BY DoubtBelow DEF Guided, OneSure

-----------------------------------------------------------------------------
(* The actions.                                                            *)

\* The first path of the topmost call passes the node as p.
TakenCall(c, p) == [c EXCEPT !.paths = Tail(@), !.next = Append(@, p)]

\* What the call is then.
LEMMA TakenCallShape ==
  ASSUME NEW c \in Calls, c.paths # <<>>, NEW p \in PathSet
  PROVE  /\ TakenCall(c, p) \in Calls
         /\ TakenCall(c, p).from = c.from /\ TakenCall(c, p).to = c.to
         /\ TakenCall(c, p).up = c.up /\ TakenCall(c, p).at = c.at
         /\ TakenCall(c, p).paths = Tail(c.paths) /\ TakenCall(c, p).next = Append(c.next, p)
         /\ TakenCall(c, p).next # <<>>
         /\ c.paths[1] \in PathSet /\ c.next \in Seq(PathSet) /\ c.paths \in Seq(PathSet)
<1>1. c.paths \in Seq(PathSet) /\ c.next \in Seq(PathSet)
  BY DEF Calls
<1>2. /\ Tail(c.paths) \in Seq(PathSet) /\ c.paths[1] \in PathSet
      /\ Append(c.next, p) \in Seq(PathSet) /\ Append(c.next, p) # <<>>
  BY <1>1
<1> QED
  BY <1>1, <1>2 DEF TakenCall, Calls

\* A path may pass a node as p if p is where the run is behind it, or is in doubt.
LEMMA TakenGuided ==
  ASSUME NEW src \in Bodies, NEW tr, NEW cs, Stacked(src, cs), Guided(src, tr, cs),
         NEW c, c = cs[Len(cs)], c.at <= c.to, c.paths # <<>>,
         NEW p \in PathSet, c.paths[1].notes = "uncertain" => p.notes = "uncertain",
         \A t \in DOMAIN tr : OnlyPath(src, tr, cs, t, c.paths[1]) =>
             \/ p.notes = "uncertain"
             \/ \E s \in DOMAIN tr : Tracks(src, cs, tr[s], p, After(src, c.at))
  PROVE  LET ds == Append(SubSeq(cs, 1, Len(cs) - 1), TakenCall(c, p))
         IN  Stacked(src, ds) /\ Guided(src, tr, ds)
<1> DEFINE d == TakenCall(c, p)
           ds == Append(SubSeq(cs, 1, Len(cs) - 1), d)
<1>1. c \in Calls /\ Placed(src, c) /\ cs \in Seq(Calls) /\ cs # <<>> /\ Len(cs) \in DOMAIN cs
  BY AtNode
<1>2. /\ d \in Calls /\ d.from = c.from /\ d.to = c.to /\ d.up = c.up /\ d.at = c.at
      /\ d.paths = Tail(c.paths) /\ d.next = Append(c.next, p) /\ d.next # <<>>
      /\ c.paths[1] \in PathSet /\ c.next \in Seq(PathSet) /\ c.paths \in Seq(PathSet)
  BY <1>1, TakenCallShape
<1> HIDE DEF d
<1>3. Placed(src, d)
  BY <1>1, <1>2 DEF Placed
<1>4. Stacked(src, ds)
  BY <1>2, <1>3, StackedReplaced
<1>5. /\ DoubtfulPaths(c.paths) => DoubtfulPaths(d.paths) /\ c.paths[1].notes = "uncertain"
      /\ DoubtfulPaths(c.next) /\ p.notes = "uncertain" => DoubtfulPaths(d.next)
      /\ c.next = <<>> => d.next = <<p>>
      /\ Len(c.paths) = 1 => d.paths = <<>>
  BY <1>2, MovedPaths
<1>6. DoubtfulBelow(cs)
  BY <1>1, GuidedBelow
<1>7. ASSUME DoubtfulPaths(d.paths), DoubtfulPaths(d.next) PROVE Guided(src, tr, ds)
  BY <1>1, <1>2, <1>6, <1>7, DoubtfulReplaced DEF Guided
<1>8. CASE AllDoubtful(cs)
  <2>1. DoubtfulPaths(c.paths) /\ DoubtfulPaths(c.next)
    BY <1>1, <1>8 DEF AllDoubtful
  <2>2. DoubtfulPaths(d.paths) /\ DoubtfulPaths(d.next)
    BY <1>5, <2>1
  <2> QED
    BY <1>4, <1>7, <2>2 DEF d
<1>9. CASE OneSure(src, tr, cs)
  <2>1. PICK t \in DOMAIN tr, q \in PathSet : Chained(cs) /\ OnlyPath(src, tr, cs, t, q)
    BY <1>9 DEF OneSure
  <2>2. c.next = <<>>
    BY <2>1, TheOnlyPath
  <2>3. c.paths[1] = q /\ Len(c.paths) = 1
    BY <2>1, TheOnlyPath
  <2>4. d.paths = <<>> /\ d.next = <<p>>
    BY <1>5, <2>2, <2>3
  <2>5. CASE p.notes = "uncertain"
    <3>1. DoubtfulPaths(d.paths) /\ DoubtfulPaths(d.next)
      BY <2>4, <2>5 DEF DoubtfulPaths
    <3> QED
      BY <1>4, <1>7, <3>1 DEF d
  <2>6. CASE \E s \in DOMAIN tr : Tracks(src, cs, tr[s], p, After(src, c.at))
    <3>1. OneSure(src, tr, ds)
      BY <1>1, <1>2, <2>1, <2>4, <2>6, OneSureReplaced
    <3> QED
      BY <1>4, <3>1 DEF Guided, d
  <2> QED
    BY <2>1, <2>3, <2>5, <2>6
<1> QED
  BY <1>8, <1>9 DEF Guided, d

\* The run at the node that the one path is at.
LEMMA RunAtNode ==
  ASSUME NEW src \in Bodies, NEW tr, Recorded(src, tr), Ended(src, tr[Len(tr)]),
         NEW cs, Stacked(src, cs), NEW c, c = cs[Len(cs)], c.at <= c.to, c.paths # <<>>,
         NEW t \in DOMAIN tr, NEW p \in PathSet, p = c.paths[1], ~p.done,
         OnlyPath(src, tr, cs, t, p)
  PROVE  /\ tr[t] \in Runs /\ tr[t].at = c.at /\ tr[t].x = p.x /\ tr[t].result = p.result
         /\ ~tr[t].done /\ ~Ended(src, tr[t])
         /\ t + 1 \in DOMAIN tr /\ tr[t + 1] \in RealStep(src, tr[t])
         /\ tr[t + 1] \in Runs
         /\ tr[t].at > 0
         /\ ~tr[t + 1].done => \A k \in DOMAIN cs : Trapped(src, cs[k], tr[t + 1].at)
<1>1. Tracks(src, cs, tr[t], p, c.at)
  BY DEF OnlyPath
<1>2. /\ tr[t].x = p.x /\ tr[t].result = p.result /\ ~tr[t].done /\ tr[t].at = c.at
      /\ \A k \in DOMAIN cs : Trapped(src, cs[k], c.at)
  BY <1>1 DEF Tracks
<1>3. ~Ended(src, tr[t])
  <2>1. c.at \in Nat /\ c.to \in Nat /\ c.to <= Len(src) /\ Len(src) \in Nat
    BY AtNode, BodiesAssumption
  <2> QED
    BY <1>2, <2>1 DEF Ended
<1>4. /\ tr[t] \in Runs /\ tr[t].at > 0
      /\ t + 1 \in DOMAIN tr /\ tr[t + 1] \in RealStep(src, tr[t])
  BY <1>3, RunGoesOn
<1>5. tr[t + 1] \in Runs /\ (~tr[t + 1].done => tr[t + 1].at \in Follows(src, tr[t].at))
  BY <1>3, <1>4, RealStepShape
<1>6. ~tr[t + 1].done => \A k \in DOMAIN cs : Trapped(src, cs[k], tr[t + 1].at)
  BY <1>2, <1>5, TrappedStep
<1> QED
  BY <1>1, <1>2, <1>3, <1>4, <1>5, <1>6

\* The one path is not at a node that is misread.
LEMMA NotMisread ==
  ASSUME NEW src \in Bodies, NEW tr, Recorded(src, tr), Ended(src, tr[Len(tr)]),
         Understood(src, tr),
         NEW cs, Stacked(src, cs), NEW c, c = cs[Len(cs)], c.at <= c.to, c.paths # <<>>,
         NEW t \in DOMAIN tr, NEW p \in PathSet, p = c.paths[1], ~p.done,
         OnlyPath(src, tr, cs, t, p)
  PROVE  ~Misread(src, c.at)
<1>1. tr[t].at = c.at
  BY RunAtNode
<1>2. c.at \in DOMAIN src
  BY AtNode
<1> QED
  BY <1>1, <1>2 DEF Understood

\* A path that has returned passes the node.
LEMMA SkipReturnedKeeps ==
  ASSUME NEW src \in Bodies, NEW tr, NEW cs, Stacked(src, cs), Guided(src, tr, cs),
         NEW c, c = cs[Len(cs)], c.at <= c.to, c.paths # <<>>, c.paths[1].done
  PROVE  LET ds == Append(SubSeq(cs, 1, Len(cs) - 1), TakenCall(c, c.paths[1]))
         IN  Stacked(src, ds) /\ Guided(src, tr, ds)
<1>1. c \in Calls
  BY AtNode
<1>2. c.paths[1] \in PathSet
  BY <1>1 DEF Calls
<1>3. ASSUME NEW t \in DOMAIN tr, OnlyPath(src, tr, cs, t, c.paths[1])
      PROVE  Tracks(src, cs, tr[t], c.paths[1], After(src, c.at))
  BY <1>3 DEF OnlyPath, Tracks
<1> QED
  BY <1>2, <1>3, TakenGuided

\* A statement moves the path as it moves the run, or leaves doubt.
LEMMA ExecuteStatementKeeps ==
  ASSUME NEW src \in Bodies, Tame(src), NEW tr, Recorded(src, tr), Ended(src, tr[Len(tr)]),
         Understood(src, tr), NEW cs, Stacked(src, cs), Guided(src, tr, cs),
         NEW c, c = cs[Len(cs)], c.at <= c.to, c.paths # <<>>, ~c.paths[1].done,
         IsStmt(src, c.at)
  PROVE  LET ds == Append(SubSeq(cs, 1, Len(cs) - 1),
                          TakenCall(c, ExecuteStmt(src[c.at].op, c.paths[1])))
         IN  Stacked(src, ds) /\ Guided(src, tr, ds)
<1> DEFINE q == c.paths[1]
           op == src[c.at].op
           p == ExecuteStmt(op, q)
<1>1. /\ c \in Calls /\ c.at \in DOMAIN src /\ c.at \in Nat /\ c.from \in Nat /\ c.to \in Nat
      /\ c.from <= c.at
  BY AtNode
<1>2. q \in PathSet
  BY <1>1 DEF Calls
<1>3. op \in Operations /\ op # "return"
  BY <1>1, TokenShape DEF Tame
<1>4. /\ p \in PathSet
      /\ q.notes = "uncertain" \/ op \in {"x=opaque", "return_opaque"} => p.notes = "uncertain"
      /\ op = "x++" => p.x = q.x + 1 /\ p.done = q.done /\ p.result = q.result
      /\ op = "return_x" => p.x = q.x /\ p.done /\ p.result = q.x
  BY <1>2, <1>3, ExecuteShape
<1>5. ASSUME NEW t \in DOMAIN tr, OnlyPath(src, tr, cs, t, q)
      PROVE  p.notes = "uncertain" \/ Tracks(src, cs, tr[t + 1], p, After(src, c.at))
  <2>1. /\ tr[t] \in Runs /\ tr[t].at = c.at /\ tr[t].x = q.x /\ tr[t].result = q.result
        /\ ~tr[t].done /\ ~Ended(src, tr[t]) /\ tr[t].at > 0
        /\ t + 1 \in DOMAIN tr /\ tr[t + 1] \in RealStep(src, tr[t])
        /\ tr[t + 1] \in Runs
        /\ ~tr[t + 1].done => \A k \in DOMAIN cs : Trapped(src, cs[k], tr[t + 1].at)
    BY <1>2, <1>5, RunAtNode
  <2>2. CASE op = "x++"
    <3>1. /\ tr[t + 1].x = tr[t].x + 1 /\ tr[t + 1].result = tr[t].result /\ ~tr[t + 1].done
          /\ tr[t + 1].at = c.at + 1
      BY <2>1, <2>2, RealStepShape
    <3>2. After(src, c.at) = c.at + 1
      BY <1>1, TokenShape DEF After
    <3>3. p.done = tr[t + 1].done
      BY <1>4, <2>1, <2>2, <3>1 DEF PathSet, Runs
    <3>4. p.x = tr[t + 1].x /\ p.result = tr[t + 1].result /\ ~p.done
      BY <1>4, <2>1, <2>2, <3>1, <3>3
    <3> QED
      BY <2>1, <3>1, <3>2, <3>3, <3>4 DEF Tracks
  <2>3. CASE op = "return_x"
    <3>1. tr[t + 1].x = tr[t].x /\ tr[t + 1].result = tr[t].x /\ tr[t + 1].done
      BY <2>1, <2>3, RealStepShape
    <3>2. MentionsReturn(src, c.from, c.to)
      BY <1>1, <2>3 DEF MentionsReturn, Returns
    <3>3. p.done = tr[t + 1].done
      BY <1>4, <2>1, <2>3, <3>1 DEF PathSet, Runs
    <3>4. p.x = tr[t + 1].x /\ p.result = tr[t + 1].result /\ p.done
      BY <1>4, <2>1, <2>3, <3>1
    <3>5. c = cs[Len(cs)]
      OBVIOUS
    <3> QED
      BY <3>2, <3>3, <3>4, <3>5 DEF Tracks
  <2>4. op \notin {"x=call", "call", "o.x++", "return_call"}
    BY <1>1, <2>1 DEF Understood, Misread
  <2> QED
    BY <1>3, <1>4, <2>2, <2>3, <2>4 DEF Operations
<1>6. ASSUME NEW t \in DOMAIN tr, OnlyPath(src, tr, cs, t, q)
      PROVE  t + 1 \in DOMAIN tr
  BY <1>2, <1>6, RunAtNode
<1> QED
  BY <1>4, <1>5, <1>6, TakenGuided

\* The first path is out of the queue, and the call waits for its branches.
WaitingCall(c) == [c EXCEPT !.paths = Tail(@)]

\* What the call is then.
LEMMA WaitingCallShape ==
  ASSUME NEW c \in Calls, c.paths # <<>>
  PROVE  /\ WaitingCall(c) \in Calls
         /\ WaitingCall(c).from = c.from /\ WaitingCall(c).to = c.to
         /\ WaitingCall(c).up = c.up /\ WaitingCall(c).at = c.at
         /\ WaitingCall(c).paths = Tail(c.paths) /\ WaitingCall(c).next = c.next
         /\ c.paths[1] \in PathSet /\ c.next \in Seq(PathSet) /\ c.paths \in Seq(PathSet)
<1>1. c.paths \in Seq(PathSet) /\ c.next \in Seq(PathSet)
  BY DEF Calls
<1>2. Tail(c.paths) \in Seq(PathSet) /\ c.paths[1] \in PathSet
  BY <1>1
<1> QED
  BY <1>1, <1>2 DEF WaitingCall, Calls

\* The calls on the branches of the `if` at m, made by call up.
LEMMA BranchCall ==
  ASSUME NEW src \in Bodies, NEW m \in DOMAIN src, IsIf(src, m), NEW up \in Nat, NEW p \in PathSet,
         NEW e, \/ e = Call(m + 1, src[m].close - 1, up, p)
                \/ e = Call(src[m].close + 1, ElseEnd(src, m), up, p)
  PROVE  /\ e \in Calls /\ Placed(src, e) /\ e.up = up /\ BranchOf(src, e, m)
         /\ e.paths = <<p>> /\ e.paths # <<>> /\ e.next = <<>> /\ e.at = e.from
<1>1. /\ m \in Nat /\ m >= 1 /\ src[m].close \in m + 1 .. Len(src) /\ Len(src) \in Nat
      /\ ElseEnd(src, m) \in src[m].close .. LastOf(src, m)
      /\ LastOf(src, m) \in src[m].close .. Len(src)
      /\ Text(src, m + 1, src[m].close - 1)
      /\ Text(src, src[m].close + 1, ElseEnd(src, m))
  BY IfShape, TokenShape
<1>2. <<p>> \in Seq(PathSet) /\ <<>> \in Seq(PathSet) /\ <<p>> # <<>>
  OBVIOUS
<1>3. CASE e = Call(m + 1, src[m].close - 1, up, p)
  <2>1. /\ e.from = m + 1 /\ e.to = src[m].close - 1 /\ e.up = up /\ e.at = m + 1
        /\ e.paths = <<p>> /\ e.next = <<>>
    BY <1>3 DEF Call
  <2>2. e \in Calls
    BY <1>1, <1>2, <1>3 DEF Call, Calls
  <2> QED
    BY <1>1, <1>2, <2>1, <2>2 DEF Placed, BranchOf
<1>4. CASE e = Call(src[m].close + 1, ElseEnd(src, m), up, p)
  <2>1. /\ e.from = src[m].close + 1 /\ e.to = ElseEnd(src, m) /\ e.up = up
        /\ e.at = src[m].close + 1 /\ e.paths = <<p>> /\ e.next = <<>>
    BY <1>4 DEF Call
  <2>2. e \in Calls
    BY <1>1, <1>2, <1>4 DEF Call, Calls
  <2> QED
    BY <1>1, <1>2, <2>1, <2>2 DEF Placed, BranchOf
<1> QED
  BY <1>3, <1>4

\* At moment t of the run, path q goes into a branch of the `if` at m.
Branches(src, tr, cs, t, q, m) ==
    /\ t \in DOMAIN tr
    /\ tr[t].x = q.x /\ tr[t].result = q.result /\ tr[t].done = q.done
    /\ tr[t].at = IF Holds("zero", q.x) THEN m + 1 ELSE src[m].close + 1
    /\ \A k \in DOMAIN cs : Trapped(src, cs[k], tr[t].at)

\* The run at an `if` that the one path is at.
LEMMA RunAtBranch ==
  ASSUME NEW src \in Bodies, NEW tr, Recorded(src, tr), Ended(src, tr[Len(tr)]),
         NEW cs, Stacked(src, cs), NEW c, c = cs[Len(cs)], c.at <= c.to, c.paths # <<>>,
         ~c.paths[1].done, IsIf(src, c.at), src[c.at].cond = "zero",
         NEW t \in DOMAIN tr, NEW q \in PathSet, q = c.paths[1], OnlyPath(src, tr, cs, t, q)
  PROVE  Branches(src, tr, cs, t + 1, q, c.at)
<1>1. ~q.done
  OBVIOUS
<1>2. /\ tr[t] \in Runs /\ tr[t].at = c.at /\ tr[t].x = q.x /\ tr[t].result = q.result
      /\ ~tr[t].done /\ ~Ended(src, tr[t]) /\ tr[t].at > 0
      /\ t + 1 \in DOMAIN tr /\ tr[t + 1] \in RealStep(src, tr[t])
      /\ ~tr[t + 1].done => \A k \in DOMAIN cs : Trapped(src, cs[k], tr[t + 1].at)
  BY <1>1, RunAtNode
<1>3. /\ tr[t + 1].x = tr[t].x /\ tr[t + 1].result = tr[t].result /\ ~tr[t + 1].done
      /\ tr[t + 1].at = IF Holds("zero", tr[t].x) THEN c.at + 1 ELSE src[c.at].close + 1
      /\ tr[t + 1] \in Runs
  BY <1>2, RealStepShape
<1>4. tr[t + 1].done = q.done
  BY <1>1, <1>3 DEF Runs, PathSet
<1> QED
  BY <1>1, <1>2, <1>3, <1>4 DEF Branches

\* The path goes into the branch that the run goes into, if the condition is
\* understood.
EnteredCall(src, m, up, q) ==
    IF Holds(src[m].cond, q.x) THEN Call(m + 1, src[m].close - 1, up, Noted(q, "plain"))
    ELSE Call(src[m].close + 1, ElseEnd(src, m), up, Noted(q, "plain"))

\* A condition that parse_expr evaluates sends the path where it sends the run, or
\* the path was in doubt before.
LEMMA EnterKeeps ==
  ASSUME NEW src \in Bodies, NEW tr, Recorded(src, tr), Ended(src, tr[Len(tr)]),
         Understood(src, tr), NEW cs, Stacked(src, cs), Guided(src, tr, cs),
         NEW c, c = cs[Len(cs)], c.at <= c.to, c.paths # <<>>, ~c.paths[1].done,
         IsIf(src, c.at), src[c.at].cond \in {"zero", "call"}
  PROVE  LET e == EnteredCall(src, c.at, Len(cs), c.paths[1])
             ds == Append(Append(SubSeq(cs, 1, Len(cs) - 1), WaitingCall(c)), e)
         IN  Stacked(src, ds) /\ Guided(src, tr, ds)
<1> DEFINE q == c.paths[1]
           d == WaitingCall(c)
           bs == Append(SubSeq(cs, 1, Len(cs) - 1), d)
           n == Len(cs)
           p == Noted(q, "plain")
           e == EnteredCall(src, c.at, n, q)
<1>1. /\ c \in Calls /\ Placed(src, c) /\ cs \in Seq(Calls) /\ cs # <<>>
      /\ n \in Nat \ {0} /\ n \in DOMAIN cs /\ c.at \in DOMAIN src /\ c.at \in Nat
  BY AtNode
<1>2. /\ d \in Calls /\ d.from = c.from /\ d.to = c.to /\ d.up = c.up /\ d.at = c.at
      /\ d.paths = Tail(c.paths) /\ d.next = c.next
      /\ q \in PathSet /\ c.next \in Seq(PathSet) /\ c.paths \in Seq(PathSet)
  BY <1>1, WaitingCallShape
<1>3. /\ p \in PathSet /\ p.x = q.x /\ p.result = q.result /\ p.done = q.done
      /\ q.notes = "uncertain" => p.notes = "uncertain"
  BY <1>2, NotedShape
<1>0. e.from = IF Holds(src[c.at].cond, q.x) THEN c.at + 1 ELSE src[c.at].close + 1
  BY DEF EnteredCall, Call
<1> HIDE DEF d, q, p
<1>4. /\ e \in Calls /\ Placed(src, e) /\ e.up = n /\ BranchOf(src, e, c.at)
      /\ e.paths = <<p>> /\ e.paths # <<>> /\ e.next = <<>> /\ e.at = e.from
  <2>1. \/ e = Call(c.at + 1, src[c.at].close - 1, n, p)
        \/ e = Call(src[c.at].close + 1, ElseEnd(src, c.at), n, p)
    BY DEF EnteredCall, p
  <2> HIDE DEF e, n
  <2> QED
    BY <1>1, <1>3, <2>1, BranchCall
<1> HIDE DEF e
<1>5. bs \in Seq(Calls) /\ bs # <<>> /\ Len(bs) = n /\ bs[n] = d /\ n \in DOMAIN bs
  BY <1>1, <1>2, Replaced
<1>6. Standing(src, bs, n)
  <2>1. Placed(src, d)
    <3>1. c.next # <<>> => c.at <= c.to
      OBVIOUS
    <3> QED
      BY <1>1, <1>2 DEF Placed
  <2> QED
    BY <1>2, <2>1, StandingReplaced
<1>7. Stacked(src, Append(bs, e))
  <2>1. bs[n].at <= bs[n].to /\ IsIf(src, bs[n].at) /\ BranchOf(src, e, bs[n].at)
    BY <1>2, <1>4, <1>5
  <2> HIDE DEF bs, n
  <2> QED
    BY <1>4, <1>5, <1>6, <2>1, StackedPushed
<1>8. CASE AllDoubtful(cs)
  <2>1. DoubtfulPaths(c.paths) /\ DoubtfulPaths(c.next)
    BY <1>1, <1>8 DEF AllDoubtful
  <2>2. DoubtfulPaths(d.paths) /\ DoubtfulPaths(d.next) /\ q.notes = "uncertain"
    BY <1>2, <2>1, MovedPaths DEF q
  <2>3. DoubtfulPaths(e.paths) /\ DoubtfulPaths(e.next)
    BY <1>3, <1>4, <2>2, DoubtfulPath
  <2>4. AllDoubtful(bs)
    BY <1>1, <1>2, <2>2, <1>8, DoubtBelow, DoubtfulReplaced
  <2> HIDE DEF bs
  <2>5. AllDoubtful(Append(bs, e))
    BY <1>4, <1>5, <2>3, <2>4, DoubtfulPushed
  <2> QED
    BY <1>7, <2>5 DEF Guided, bs, d, e, q
<1>9. CASE OneSure(src, tr, cs)
  <2>1. PICK t \in DOMAIN tr, r \in PathSet : Chained(cs) /\ OnlyPath(src, tr, cs, t, r)
    BY <1>9 DEF OneSure
  <2>3. q = r /\ ~q.done
    BY <2>1, TheOnlyPath DEF q
  <2>4. src[c.at].cond = "zero"
    <3>1. q = c.paths[1] /\ OnlyPath(src, tr, cs, t, q)
      BY <2>1, <2>3 DEF q
    <3>2. ~q.done /\ q \in PathSet /\ t \in DOMAIN tr
      BY <1>2, <2>3
    <3>3. ~Misread(src, c.at)
      BY <3>1, <3>2, NotMisread
    <3> QED
      BY <3>3 DEF Misread
  <2>2. /\ t + 1 \in DOMAIN tr
        /\ tr[t + 1].x = q.x /\ tr[t + 1].result = q.result /\ tr[t + 1].done = q.done
        /\ tr[t + 1].at = IF Holds("zero", q.x) THEN c.at + 1 ELSE src[c.at].close + 1
        /\ \A k \in DOMAIN cs : Trapped(src, cs[k], tr[t + 1].at)
    <3>1. q = c.paths[1] /\ OnlyPath(src, tr, cs, t, q) /\ src[c.at].cond = "zero"
      BY <2>1, <2>3, <2>4 DEF q
    <3>2. Branches(src, tr, cs, t + 1, q, c.at)
      BY <1>2, <2>3, <3>1, RunAtBranch
    <3> QED
      BY <3>2 DEF Branches
  <2>6. d.paths = <<>> /\ d.next = <<>>
    <3>1. c.next = <<>> /\ Len(c.paths) = 1
      BY <2>1, TheOnlyPath
    <3> QED
      BY <1>2, <3>1, MovedPaths
  <2>7. \A k \in DOMAIN cs : Trapped(src, cs[k], e.from)
    BY <1>0, <2>2, <2>3, <2>4
  <2>8. /\ tr[t + 1].x = p.x /\ tr[t + 1].result = p.result /\ tr[t + 1].at = e.from
        /\ tr[t + 1].done = p.done /\ ~p.done
    BY <1>0, <1>3, <2>2, <2>3, <2>4
  <2>9. OneSure(src, tr, Append(bs, e))
    BY <1>1, <1>2, <1>3, <1>4, <2>1, <2>2, <2>6, <2>7, <2>8, OneSurePushed
  <2> QED
    BY <1>7, <2>9 DEF Guided, d, e, q
<1> QED
  BY <1>8, <1>9 DEF Guided

\* What is taken from a queue without doubt is the one path.
LEMMA WaitingDoubt ==
  ASSUME NEW src, NEW tr, NEW cs \in Seq(Calls), cs # <<>>, Guided(src, tr, cs),
         NEW c \in Calls, c = cs[Len(cs)], c.paths # <<>>
  PROVE  DoubtfulPaths(WaitingCall(c).paths) /\ DoubtfulPaths(WaitingCall(c).next)
<1> DEFINE d == WaitingCall(c)
<1>1. /\ d.paths = Tail(c.paths) /\ d.next = c.next
      /\ c.paths[1] \in PathSet /\ c.next \in Seq(PathSet) /\ c.paths \in Seq(PathSet)
  BY WaitingCallShape
<1>2. CASE AllDoubtful(cs)
  <2>1. DoubtfulPaths(c.paths) /\ DoubtfulPaths(c.next)
    BY <1>2 DEF AllDoubtful
  <2> QED
    BY <1>1, <2>1, MovedPaths
<1>3. CASE OneSure(src, tr, cs)
  <2>1. PICK t \in DOMAIN tr, r \in PathSet : OnlyPath(src, tr, cs, t, r)
    BY <1>3 DEF OneSure
  <2>2. c.next = <<>> /\ Len(c.paths) = 1
    BY <2>1, TheOnlyPath
  <2>3. d.paths = <<>> /\ d.next = <<>>
    BY <1>1, <2>2, MovedPaths
  <2> QED
    BY <2>3 DEF DoubtfulPaths
<1> QED
  BY <1>2, <1>3 DEF Guided

\* Where the condition cannot be evaluated, what goes into the branches is in doubt.
LEMMA EnterBothKeeps ==
  ASSUME NEW src \in Bodies, NEW tr, NEW cs, Stacked(src, cs), Guided(src, tr, cs),
         NEW c, c = cs[Len(cs)], c.at <= c.to, c.paths # <<>>, IsIf(src, c.at),
         NEW e, e = Call(c.at + 1, src[c.at].close - 1, Len(cs), Noted(c.paths[1], "uncertain")),
         NEW f, f = Call(src[c.at].close + 1, ElseEnd(src, c.at), Len(cs),
                         Noted(c.paths[1], "uncertain"))
  PROVE  LET ds == Append(Append(Append(SubSeq(cs, 1, Len(cs) - 1), WaitingCall(c)), f), e)
         IN  Stacked(src, ds) /\ AllDoubtful(ds)
<1> DEFINE n == Len(cs)
           d == WaitingCall(c)
           p == Noted(c.paths[1], "uncertain")
           bs == Append(SubSeq(cs, 1, n - 1), d)
<1>1. /\ c \in Calls /\ Placed(src, c) /\ cs \in Seq(Calls) /\ cs # <<>>
      /\ n \in Nat \ {0} /\ n \in DOMAIN cs /\ c.at \in DOMAIN src /\ c.at \in Nat
  BY AtNode
<1>2. /\ d \in Calls /\ d.from = c.from /\ d.to = c.to /\ d.up = c.up /\ d.at = c.at
      /\ d.next = c.next /\ c.paths[1] \in PathSet
  BY <1>1, WaitingCallShape
<1>3. p \in PathSet /\ p.notes = "uncertain"
  BY <1>2, NotedShape
<1>4. /\ e \in Calls /\ Placed(src, e) /\ e.up = n /\ BranchOf(src, e, c.at)
      /\ e.paths = <<p>> /\ e.paths # <<>> /\ e.next = <<>>
  BY <1>1, <1>3, BranchCall
<1>5. /\ f \in Calls /\ Placed(src, f) /\ f.up = n /\ BranchOf(src, f, c.at)
      /\ f.paths = <<p>> /\ f.paths # <<>> /\ f.next = <<>>
  BY <1>1, <1>3, BranchCall
<1>6. DoubtfulPaths(d.paths) /\ DoubtfulPaths(d.next)
  BY <1>1, WaitingDoubt
<1>7. DoubtfulBelow(cs)
  BY <1>1, GuidedBelow
<1>8. /\ DoubtfulPaths(e.paths) /\ DoubtfulPaths(e.next)
      /\ DoubtfulPaths(f.paths) /\ DoubtfulPaths(f.next)
  BY <1>3, <1>4, <1>5, DoubtfulPath
<1>9. Standing(src, bs, n)
  <2>1. Placed(src, d)
    BY <1>1, <1>2 DEF Placed
  <2> QED
    BY <1>2, <2>1, StandingReplaced
<1>10. AllDoubtful(bs)
  BY <1>1, <1>2, <1>6, <1>7, DoubtfulReplaced
<1>11. bs \in Seq(Calls) /\ Len(bs) = n /\ bs[n] = d /\ n \in DOMAIN bs
  BY <1>1, <1>2, Replaced
<1> HIDE DEF d, p, bs, n
<1> DEFINE fs == Append(bs, f)
<1>12. bs[n].at <= bs[n].to /\ IsIf(src, bs[n].at) /\ bs[n].at = c.at
  BY <1>2, <1>11
<1>13. Stacked(src, fs) /\ AllDoubtful(fs)
  <2>1. Stacked(src, fs)
    BY <1>5, <1>9, <1>11, <1>12, StackedPushed
  <2>2. AllDoubtful(fs)
    BY <1>5, <1>8, <1>10, <1>11, DoubtfulPushed
  <2> QED
    BY <2>1, <2>2
<1>14. fs \in Seq(Calls) /\ fs[n] = bs[n] /\ n \in DOMAIN fs
  BY <1>5, <1>11
<1> HIDE DEF fs
<1>15. Standing(src, fs, n)
  BY <1>13 DEF Stacked, Standing
<1>16. Stacked(src, Append(fs, e))
  BY <1>4, <1>12, <1>14, <1>15, StackedPushed
<1>17. AllDoubtful(Append(fs, e))
  BY <1>4, <1>8, <1>13, <1>14, DoubtfulPushed
<1> QED
  BY <1>16, <1>17 DEF fs, bs, d, n

\* The topmost call has a path of its own.
LEMMA TopOccupied ==
  ASSUME NEW src, NEW cs, Stacked(src, cs)
  PROVE  cs[Len(cs)].paths # <<>> \/ cs[Len(cs)].next # <<>>
<1> DEFINE n == Len(cs)
<1>1. cs \in Seq(Calls) /\ n \in Nat \ {0} /\ DOMAIN cs = 1 .. n /\ Occupied(cs, n)
  BY DEF Stacked
<1>2. ASSUME NEW j \in 1 .. n PROVE cs[j].up # n
  <2>1. Called(src, cs, j)
    BY <1>1 DEF Stacked
  <2> HIDE DEF n
  <2> QED
    BY <1>1, <2>1 DEF Called
<1> HIDE DEF n
<1> QED
  BY <1>1, <1>2 DEF Occupied, n

\* The paths that have passed a node are kept, up to the limit, for the next one.
NextCall(src, c) ==
    [c EXCEPT !.at = NodeEnd(src, @, c.to) + 1, !.paths = Capped(c.next), !.next = <<>>]

\* The loop of the topmost call comes to the next node.
LEMMA NextNodeKeeps ==
  ASSUME NEW src \in Bodies, Tame(src), NEW tr, NEW cs, Stacked(src, cs), Guided(src, tr, cs),
         NEW c, c = cs[Len(cs)], c.at <= c.to, c.paths = <<>>
  PROVE  LET ds == Append(SubSeq(cs, 1, Len(cs) - 1), NextCall(src, c))
         IN  Stacked(src, ds) /\ Guided(src, tr, ds)
<1> DEFINE n == Len(cs)
           d == NextCall(src, c)
           ds == Append(SubSeq(cs, 1, n - 1), d)
<1>1. /\ c \in Calls /\ Placed(src, c) /\ cs \in Seq(Calls) /\ cs # <<>>
      /\ n \in Nat \ {0} /\ n \in DOMAIN cs /\ c.at \in Nat /\ c.from \in Nat /\ c.to \in Nat
      /\ c.from <= c.at /\ c.from >= 1 /\ c.at >= 1 /\ c.to <= Len(src) /\ Text(src, c.at, c.to)
      /\ After(src, c.at) \in c.at + 1 .. c.to + 1
      /\ Text(src, After(src, c.at), c.to)
  BY AtNode
<1>2. NodeEnd(src, c.at, c.to) + 1 = After(src, c.at)
  BY <1>1, NodeEnds
<1>3. c.next \in Seq(PathSet) /\ c.next # <<>>
  <2>1. c.next \in Seq(PathSet)
    BY <1>1 DEF Calls
  <2>2. c.next # <<>>
    BY TopOccupied
  <2> QED
    BY <2>1, <2>2
<1>4. /\ Capped(c.next) \in Seq(PathSet) /\ Capped(c.next) # <<>>
      /\ DoubtfulPaths(c.next) => DoubtfulPaths(Capped(c.next))
      /\ Len(c.next) = 1 => Capped(c.next) = c.next
  BY <1>3, CappedShape
<1>5. /\ d.at = After(src, c.at) /\ d.paths = Capped(c.next) /\ d.next = <<>>
      /\ d.from = c.from /\ d.to = c.to /\ d.up = c.up
      /\ d \in Calls
  <2>1. d = [c EXCEPT !.at = After(src, c.at), !.paths = Capped(c.next), !.next = <<>>]
    BY <1>2 DEF NextCall
  <2>2. After(src, c.at) \in Nat /\ <<>> \in Seq(PathSet)
    BY <1>1
  <2> QED
    BY <1>1, <1>4, <2>1, <2>2 DEF Calls
<1> HIDE DEF d
<1>6. Placed(src, d)
  BY <1>1, <1>5 DEF Placed
<1>7. Stacked(src, ds)
  BY <1>4, <1>5, <1>6, StackedReplaced
<1>8. CASE AllDoubtful(cs)
  <2>1. DoubtfulPaths(d.paths) /\ DoubtfulPaths(d.next)
    <3>1. DoubtfulPaths(c.next)
      BY <1>1, <1>8 DEF AllDoubtful
    <3> QED
      BY <1>4, <1>5, <3>1 DEF DoubtfulPaths
  <2>2. DoubtfulBelow(cs)
    BY <1>1, GuidedBelow
  <2>3. AllDoubtful(ds)
    BY <1>1, <1>5, <2>1, <2>2, DoubtfulReplaced
  <2> QED
    BY <1>7, <2>3 DEF Guided, d
<1>9. CASE OneSure(src, tr, cs)
  <2>1. PICK t \in DOMAIN tr, p \in PathSet : Chained(cs) /\ OnlyPath(src, tr, cs, t, p)
    BY <1>9 DEF OneSure
  <2>2. c.next = <<p>> /\ Tracks(src, cs, tr[t], p, After(src, c.at))
    BY <2>1 DEF OnlyPath
  <2>3. d.paths = <<p>> /\ d.next = <<>> /\ Tracks(src, cs, tr[t], p, d.at)
    <3>1. Len(c.next) = 1
      BY <2>2
    <3> QED
      BY <1>4, <1>5, <2>2, <3>1
  <2>4. OneSure(src, tr, ds)
    BY <1>1, <1>5, <2>1, <2>3, OneSureReplaced
  <2> QED
    BY <1>7, <2>4 DEF Guided, d
<1> QED
  BY <1>8, <1>9 DEF Guided

\* Behind a branch is the end of its `if`, or a token that leads there.
LEMMA BehindBranch ==
  ASSUME NEW src \in Bodies, NEW m \in DOMAIN src, IsIf(src, m),
         NEW c \in Calls, BranchOf(src, c, m)
  PROVE  \/ c.to + 1 = After(src, m)
         \/ /\ c.to + 1 \in DOMAIN src /\ IsClosing(src, c.to + 1)
            /\ Follows(src, c.to + 1) = {After(src, m)}
<1> DEFINE j == src[m].close
           e == LastOf(src, m)
<1>1. /\ j \in m + 1 .. Len(src) /\ e \in j .. Len(src) /\ m \in Nat /\ IsClosing(src, j)
      /\ After(src, m) = e + 1 /\ j \in Nat /\ e \in Nat /\ src \in Seq(Tokens) /\ m >= 1
  <2>1. src \in Seq(Tokens) /\ m \in 1 .. Len(src)
    BY TokenShape
  <2> QED
    BY <2>1, IfShape DEF After
<1>2. j \in DOMAIN src /\ e \in DOMAIN src
  BY <1>1
<1>3. ASSUME src[e].kind = "brace" PROVE Follows(src, e) = {e + 1} /\ IsClosing(src, e)
  BY <1>2, <1>3, FollowsShape DEF IsClosing
<1>4. CASE c.to = j - 1
  <2>1. c.to + 1 = j
    BY <1>1, <1>4
  <2>2. CASE IsElse(src, j)
    <3>1. src[j].end = e
      BY <2>2 DEF LastOf
    <3>2. Follows(src, j) = {e + 1}
      BY <1>2, <2>2, <3>1, FollowsShape
    <3> QED
      BY <1>1, <1>2, <2>1, <3>2
  <2>3. CASE ~IsElse(src, j)
    <3>1. j = e /\ src[e].kind = "brace"
      BY <2>3, IfShape
    <3> QED
      BY <1>1, <1>2, <1>3, <2>1, <3>1
  <2> QED
    BY <2>2, <2>3
<1>5. CASE c.to = ElseEnd(src, m)
  <2>1. \/ ElseEnd(src, m) = e
        \/ ElseEnd(src, m) = e - 1 /\ src[e].kind = "brace"
    BY IfShape
  <2>2. CASE ElseEnd(src, m) = e
    BY <1>1, <1>5, <2>2
  <2>3. CASE ElseEnd(src, m) = e - 1 /\ src[e].kind = "brace"
    <3>1. c.to + 1 = e
      BY <1>1, <1>5, <2>3
    <3> QED
      BY <1>1, <1>2, <1>3, <2>3, <3>1
  <2> QED
    BY <2>1, <2>2, <2>3
<1> QED
  BY <1>4, <1>5 DEF BranchOf

\* At some moment the run, which has not returned, is at place i as it was in state r.
Arrives(src, tr, cs, r, i) ==
    \E s \in DOMAIN tr :
        /\ tr[s].x = r.x /\ tr[s].result = r.result /\ ~tr[s].done /\ tr[s].at = i
        /\ \A k \in DOMAIN cs : Trapped(src, cs[k], i)

\* A run at the end of a branch comes to the end of the `if`.
LEMMA RunLeavesBranch ==
  ASSUME NEW src \in Bodies, NEW tr, Recorded(src, tr), Ended(src, tr[Len(tr)]),
         NEW cs, NEW t \in DOMAIN tr, NEW m \in DOMAIN src, IsIf(src, m),
         NEW c \in Calls, BranchOf(src, c, m), ~tr[t].done, tr[t].at = c.to + 1,
         \A k \in DOMAIN cs : Trapped(src, cs[k], c.to + 1)
  PROVE  Arrives(src, tr, cs, tr[t], After(src, m))
<1>1. CASE c.to + 1 = After(src, m)
  BY <1>1 DEF Arrives
<1>2. CASE /\ c.to + 1 \in DOMAIN src /\ IsClosing(src, c.to + 1)
           /\ Follows(src, c.to + 1) = {After(src, m)}
  <2>1. ~Ended(src, tr[t])
    <3>1. src \in Seq(Tokens)
      BY BodiesAssumption
    <3> QED
      BY <1>2, <3>1 DEF Ended
  <2>2. /\ tr[t] \in Runs /\ tr[t].at > 0
        /\ t + 1 \in DOMAIN tr /\ tr[t + 1] \in RealStep(src, tr[t])
    BY <2>1, RunGoesOn
  <2>3. /\ tr[t + 1].x = tr[t].x /\ tr[t + 1].result = tr[t].result /\ ~tr[t + 1].done
        /\ tr[t + 1].at \in Follows(src, c.to + 1)
    <3>1. IsClosing(src, tr[t].at)
      BY <1>2
    <3>2. /\ tr[t + 1].x = tr[t].x /\ tr[t + 1].result = tr[t].result /\ ~tr[t + 1].done
      BY <2>1, <2>2, <3>1, RealStepShape
    <3>3. ~tr[t + 1].done => tr[t + 1].at \in Follows(src, tr[t].at)
      BY <2>1, <2>2, RealStepShape
    <3> QED
      BY <3>2, <3>3
  <2>4. tr[t + 1].at = After(src, m) /\ After(src, m) \in Follows(src, c.to + 1)
    BY <1>2, <2>3
  <2>5. \A k \in DOMAIN cs : Trapped(src, cs[k], After(src, m))
    BY <2>4, TrappedStep
  <2> QED
    BY <2>2, <2>3, <2>4, <2>5 DEF Arrives
<1> QED
  BY <1>1, <1>2, BehindBranch

\* The paths out of a branch.
LeftPaths(src, c) ==
    [i \in DOMAIN c.paths |-> [c.paths[i] EXCEPT !.done = BranchReturned(src, c.from, c.to)]]

\* No path is lost, and doubt stays.
LEMMA LeftShape ==
  ASSUME NEW src, NEW c \in Calls, c.paths # <<>>
  PROVE  /\ LeftPaths(src, c) \in Seq(PathSet) /\ LeftPaths(src, c) # <<>>
         /\ DoubtfulPaths(c.paths) => DoubtfulPaths(LeftPaths(src, c))
<1> DEFINE returned == BranchReturned(src, c.from, c.to)
<1>1. c.paths \in Seq(PathSet) /\ returned \in BOOLEAN
  BY DEF Calls, BranchReturned, MentionsReturn
<1> HIDE DEF returned
<1>2. \A p \in PathSet : /\ [p EXCEPT !.done = returned] \in PathSet
                         /\ [p EXCEPT !.done = returned].notes = p.notes
  BY <1>1 DEF PathSet
<1> DEFINE left == [i \in 1 .. Len(c.paths) |-> [c.paths[i] EXCEPT !.done = returned]]
<1>3. left \in Seq(PathSet) /\ left # <<>>
  BY <1>1, <1>2
<1>4. DoubtfulPaths(c.paths) => DoubtfulPaths(left)
  BY <1>1, <1>2 DEF DoubtfulPaths
<1>5. LeftPaths(src, c) = left
  BY <1>1 DEF LeftPaths, returned
<1> QED
  BY <1>3, <1>4, <1>5

\* The one path out of a branch has returned if the branch's text says so.
LEMMA LeftOne ==
  ASSUME NEW src, NEW c \in Calls, NEW p \in PathSet, c.paths = <<p>>
  PROVE  \E q \in PathSet : /\ LeftPaths(src, c) = <<q>>
                            /\ q.x = p.x /\ q.result = p.result
                            /\ q.done = BranchReturned(src, c.from, c.to)
<1> DEFINE returned == BranchReturned(src, c.from, c.to)
           q == [p EXCEPT !.done = returned]
<1>1. returned \in BOOLEAN
  BY DEF BranchReturned, MentionsReturn
<1>2. LeftPaths(src, c) = [i \in DOMAIN c.paths |-> [c.paths[i] EXCEPT !.done = returned]]
  BY DEF LeftPaths
<1> HIDE DEF returned
<1>3. q \in PathSet /\ q.x = p.x /\ q.result = p.result /\ q.done = returned
  BY <1>1 DEF PathSet
<1>4. LeftPaths(src, c) = <<q>>
  <2>1. DOMAIN c.paths = {1} /\ c.paths[1] = p
    OBVIOUS
  <2>2. LeftPaths(src, c) = [i \in {1} |-> q]
    BY <1>2, <2>1
  <2> HIDE DEF q
  <2>3. <<q>> = [i \in {1} |-> q]
    OBVIOUS
  <2> QED
    BY <2>2, <2>3
<1> QED
  BY <1>3, <1>4 DEF returned

\* What is known of a call at its place.
LEMMA PlacedShape ==
  ASSUME NEW src, NEW c \in Calls, Placed(src, c)
  PROVE  /\ c.from \in Nat /\ c.to \in Nat /\ c.at \in Nat /\ c.up \in Nat
         /\ 1 <= c.from /\ 1 <= c.at /\ c.from <= c.at /\ c.to <= Len(src) /\ Text(src, c.at, c.to)
         /\ c.at > c.to => c.at = c.to + 1 /\ c.next = <<>>
<1>1. c.from \in Nat /\ c.to \in Nat /\ c.at \in Nat /\ c.up \in Nat
  BY DEF Calls
<1>2. /\ 1 <= c.from /\ c.from <= c.at /\ c.to <= Len(src) /\ Text(src, c.at, c.to)
      /\ c.at <= c.to + 1 /\ (c.next # <<>> => c.at <= c.to)
  BY DEF Placed
<1> QED
  BY <1>1, <1>2

\* The branches of an `if` are inside it.
LEMMA BranchInside ==
  ASSUME NEW src \in Bodies, NEW m \in DOMAIN src, IsIf(src, m),
         NEW c \in Calls, BranchOf(src, c, m)
  PROVE  m < c.from /\ c.to <= LastOf(src, m)
<1>1. /\ m \in Nat /\ src[m].close \in m + 1 .. Len(src)
      /\ LastOf(src, m) \in src[m].close .. Len(src)
      /\ ElseEnd(src, m) \in src[m].close .. LastOf(src, m)
  BY IfShape
<1> QED
  BY <1>1 DEF BranchOf

\* The stack ds has the texts of cs, without the topmost.
TextsBelow(ds, cs) ==
    /\ ds \in Seq(Calls) /\ Len(ds) = Len(cs) - 1
    /\ \A k \in 1 .. Len(cs) - 1 : ds[k].from = cs[k].from /\ ds[k].to = cs[k].to

\* Path q, in the topmost call of ds, stands for some moment of the run.
Tracked(src, tr, ds, q, i) == \E s \in DOMAIN tr : Tracks(src, ds, tr[s], q, i)

\* A path that has returned in a branch has returned in the text of the caller; one
\* that has not is at the end of the `if`, and the branch's text has no return.
LEMMA TracksLeft ==
  ASSUME NEW src \in Bodies, Tame(src), NEW tr, Recorded(src, tr), Ended(src, tr[Len(tr)]),
         NEW cs, Stacked(src, cs), Len(cs) > 1, NEW c, c = cs[Len(cs)], c.at > c.to,
         c.up = Len(cs) - 1,
         NEW m, m = cs[Len(cs) - 1].at,
         NEW t \in DOMAIN tr, NEW p \in PathSet, Tracks(src, cs, tr[t], p, c.at),
         NEW q \in PathSet, q.x = p.x, q.result = p.result,
         q.done = BranchReturned(src, c.from, c.to),
         NEW ds, TextsBelow(ds, cs)
  PROVE  Tracked(src, tr, ds, q, After(src, m))
<1> DEFINE n == Len(cs)
           u == n - 1
<1>1. /\ cs \in Seq(Calls) /\ n \in Nat /\ u \in 1 .. n - 1 /\ u \in Nat /\ u >= 1
      /\ Placed(src, c) /\ Called(src, cs, n) /\ Placed(src, cs[u])
      /\ c \in Calls /\ cs[u] \in Calls /\ n # 1 /\ DOMAIN cs = 1 .. n /\ DOMAIN ds = 1 .. u
      /\ Len(ds) = u
      /\ \A k \in 1 .. u : ds[k].from = cs[k].from /\ ds[k].to = cs[k].to
  BY DEF Stacked, TextsBelow
<1>2. /\ cs[u].at <= cs[u].to /\ IsIf(src, m) /\ BranchOf(src, c, m)
  BY <1>1 DEF Called
<1>3. c.at = c.to + 1 /\ c.from \in Nat /\ c.to \in Nat
  BY <1>1, PlacedShape
<1>4. /\ cs[u].from \in Nat /\ cs[u].to \in Nat /\ m \in Nat /\ cs[u].from <= m
      /\ m \in DOMAIN src /\ LastOf(src, m) \in m .. cs[u].to
  <2>1. /\ cs[u].from \in Nat /\ cs[u].to \in Nat /\ m \in Nat /\ cs[u].from <= m
        /\ 1 <= m /\ m <= cs[u].to /\ cs[u].to <= Len(src) /\ Text(src, m, cs[u].to)
    <3>1. /\ cs[u].from \in Nat /\ cs[u].to \in Nat /\ cs[u].at \in Nat /\ cs[u].from <= cs[u].at
          /\ 1 <= cs[u].at /\ cs[u].to <= Len(src) /\ Text(src, cs[u].at, cs[u].to)
      BY <1>1, PlacedShape
    <3> QED
      BY <1>2, <3>1
  <2> QED
    BY <1>2, <2>1, TextAfter
<1>5. m < c.from /\ c.to <= LastOf(src, m)
  BY <1>1, <1>2, <1>4, BranchInside
<1>8. cs[u].from <= c.from /\ c.to <= cs[u].to
  BY <1>3, <1>4, <1>5
<1> HIDE DEF n, u
<1>6. CASE p.done
  <2>1. MentionsReturn(src, c.from, c.to)
    BY <1>6 DEF Tracks, n
  <2>2. MentionsReturn(src, cs[u].from, cs[u].to)
    BY <1>3, <1>4, <1>8, <2>1, MentionsWider
  <2>3. q.done = TRUE /\ p.done = TRUE
    BY <1>6, <2>1 DEF BranchReturned, MentionsReturn, PathSet
  <2>4. tr[t].x = q.x /\ tr[t].result = q.result /\ tr[t].done = q.done
    BY <2>3 DEF Tracks
  <2>5. MentionsReturn(src, ds[Len(ds)].from, ds[Len(ds)].to)
    BY <1>1, <2>2 DEF n
  <2>6. Tracks(src, ds, tr[t], q, After(src, m))
    BY <2>3, <2>4, <2>5 DEF Tracks
  <2> QED
    BY <2>6 DEF Tracked
<1>7. CASE ~p.done
  <2>1. /\ tr[t].x = p.x /\ tr[t].result = p.result /\ tr[t].done = p.done /\ tr[t].at = c.to + 1
        /\ \A k \in DOMAIN cs : Trapped(src, cs[k], c.to + 1)
    BY <1>3, <1>7 DEF Tracks
  <2>2. ~MentionsReturn(src, c.from, c.to)
    <3>1. Trapped(src, c, c.to + 1)
      BY <1>1, <2>1 DEF n
    <3> QED
      BY <1>1, <1>2, <1>4, <3>1, ReturnTraps
  <2>3. ~q.done
    BY <2>2 DEF BranchReturned
  <2>4. Arrives(src, tr, cs, tr[t], After(src, m))
    BY <1>1, <1>2, <1>4, <1>7, <2>1, RunLeavesBranch
  <2>5. PICK s \in DOMAIN tr :
           /\ tr[s].x = p.x /\ tr[s].result = p.result /\ ~tr[s].done /\ tr[s].at = After(src, m)
           /\ \A k \in DOMAIN cs : Trapped(src, cs[k], After(src, m))
    BY <2>1, <2>4 DEF Arrives
  <2>6. ASSUME NEW k \in DOMAIN ds PROVE Trapped(src, ds[k], After(src, m))
    <3>1. k \in DOMAIN cs /\ ds[k].from = cs[k].from /\ ds[k].to = cs[k].to
      BY <1>1 DEF u, n
    <3>2. Trapped(src, cs[k], After(src, m))
      BY <2>5, <3>1
    <3> QED
      BY <3>1, <3>2 DEF Trapped
  <2>7. tr[s].done = q.done
    <3>1. tr[s] \in Runs
      BY RunGoesOn
    <3> QED
      BY <2>3, <2>5, <3>1 DEF Runs, PathSet
  <2>8. Tracks(src, ds, tr[s], q, After(src, m))
    BY <2>3, <2>5, <2>6, <2>7 DEF Tracks
  <2> QED
    BY <2>8 DEF Tracked
<1> QED
  BY <1>6, <1>7

\* The paths out of a branch go on behind the `if`, as the run does.
LEMMA LeaveBranchKeeps ==
  ASSUME NEW src \in Bodies, Tame(src), NEW tr, Recorded(src, tr), Ended(src, tr[Len(tr)]),
         NEW cs, Stacked(src, cs), Guided(src, tr, cs), Len(cs) > 1,
         NEW c, c = cs[Len(cs)], c.at > c.to
  PROVE  LET ds == HandedTo(SubSeq(cs, 1, Len(cs) - 1), c.up, LeftPaths(src, c))
         IN  Stacked(src, ds) /\ Guided(src, tr, ds)
<1> DEFINE n == Len(cs)
           bs == SubSeq(cs, 1, n - 1)
           left == LeftPaths(src, c)
           ds == HandedTo(bs, c.up, left)
<1>1. /\ cs \in Seq(Calls) /\ cs # <<>> /\ n \in Nat /\ n - 1 \in 1 .. n /\ n # 1
      /\ c \in Calls /\ Placed(src, c) /\ Called(src, cs, n) /\ n \in DOMAIN cs
  BY DEF Stacked
<1>2. c.next = <<>> /\ c.paths # <<>>
  <2>1. c.next = <<>>
    BY <1>1, PlacedShape
  <2> QED
    BY <2>1, TopOccupied
<1>3. /\ left \in Seq(PathSet) /\ left # <<>>
      /\ DoubtfulPaths(c.paths) => DoubtfulPaths(left)
  BY <1>1, <1>2, LeftShape
<1>4. c.up \in 1 .. n - 1
  BY <1>1 DEF Called
<1> HIDE DEF left
<1>5. Stacked(src, ds)
  BY <1>3, StackedPopped
<1>6. CASE AllDoubtful(cs)
  <2>1. DoubtfulPaths(left)
    BY <1>1, <1>3, <1>6 DEF AllDoubtful
  <2>2. DoubtfulBelow(cs)
    BY <1>1, GuidedBelow
  <2>3. AllDoubtful(ds)
    BY <1>1, <1>3, <1>4, <2>1, <2>2, DoubtfulPopped
  <2> QED
    BY <1>5, <2>3 DEF Guided, left
<1>7. CASE OneSure(src, tr, cs)
  <2>1. PICK t \in DOMAIN tr, p \in PathSet : Chained(cs) /\ OnlyPath(src, tr, cs, t, p)
    BY <1>7 DEF OneSure
  <2>2. c.paths = <<p>> /\ Tracks(src, cs, tr[t], p, c.at)
    BY <1>2, <2>1 DEF OnlyPath
  <2>3. PICK q \in PathSet : /\ left = <<q>> /\ q.x = p.x /\ q.result = p.result
                             /\ q.done = BranchReturned(src, c.from, c.to)
    BY <1>1, <2>2, LeftOne DEF left
  <2>4. /\ c.up = n - 1
        /\ \A k \in 1 .. n - 1 : cs[k].paths = <<>> /\ cs[k].next = <<>> /\ cs[k + 1].up = k
    <3>1. \A k \in 1 .. n - 1 : cs[k].paths = <<>> /\ cs[k].next = <<>> /\ cs[k + 1].up = k
      BY <2>1 DEF Chained
    <3>2. cs[n - 1 + 1] = c /\ n - 1 \in 1 .. n - 1
      BY <1>1
    <3> QED
      BY <3>1, <3>2
  <2>5. bs \in Seq(Calls) /\ Len(bs) = n - 1 /\ \A k \in 1 .. n - 1 : bs[k] = cs[k]
    BY <1>1, BelowShape
  <2> HIDE DEF bs
  <2>6. /\ ds \in Seq(Calls) /\ Len(ds) = n - 1
        /\ ds[n - 1].next = bs[n - 1].next \o left
        /\ ds[n - 1].from = cs[n - 1].from /\ ds[n - 1].to = cs[n - 1].to
        /\ ds[n - 1].up = cs[n - 1].up /\ ds[n - 1].at = cs[n - 1].at
        /\ ds[n - 1].paths = <<>>
        /\ \A k \in 1 .. n - 1 : k # n - 1 => ds[k] = cs[k]
    <3> DEFINE u == c.up
    <3>1. u \in 1 .. Len(bs) /\ bs[u] = cs[u]
      BY <1>4, <2>4, <2>5
    <3>2. /\ ds \in Seq(Calls) /\ Len(ds) = Len(bs)
          /\ ds[u].next = bs[u].next \o left
          /\ ds[u].from = bs[u].from /\ ds[u].to = bs[u].to
          /\ ds[u].up = bs[u].up /\ ds[u].at = bs[u].at /\ ds[u].paths = bs[u].paths
          /\ \A k \in 1 .. Len(bs) : k # u => ds[k] = bs[k]
      BY <1>3, <2>5, <3>1, Handed
    <3> HIDE DEF ds, n
    <3>3. u = n - 1
      BY <2>4
    <3> HIDE DEF u
    <3> QED
      BY <1>1, <1>4, <2>4, <2>5, <3>1, <3>2, <3>3
  <2>7. ds[n - 1].next = <<q>>
    <3>1. bs[n - 1].next = <<>>
      BY <1>4, <2>4, <2>5
    <3>2. <<>> \in Seq(PathSet)
      OBVIOUS
    <3>3. bs[n - 1].next \o left = left
      BY <1>3, <3>1, <3>2, DoubtfulTogether
    <3> QED
      BY <2>3, <2>6, <3>3
  <2> HIDE DEF ds, n
  <2>8. \A k \in 1 .. n - 1 : ds[k].from = cs[k].from /\ ds[k].to = cs[k].to /\ ds[k].up = cs[k].up
    BY <2>6
  <2>9. PICK s \in DOMAIN tr : Tracks(src, ds, tr[s], q, After(src, ds[n - 1].at))
    <3> DEFINE m == cs[n - 1].at
    <3>1. TextsBelow(ds, cs)
      BY <2>6, <2>8 DEF TextsBelow, n
    <3>2. c.up = Len(cs) - 1 /\ m = cs[Len(cs) - 1].at
      BY <2>4 DEF n
    <3> HIDE DEF m
    <3>3. Tracked(src, tr, ds, q, After(src, m))
      BY <2>2, <2>3, <3>1, <3>2, TracksLeft
    <3> QED
      BY <2>6, <3>3 DEF Tracked, m
  <2>10. OnlyPath(src, tr, ds, s, q)
    BY <2>6, <2>7, <2>9 DEF OnlyPath
  <2>11. Chained(ds)
    <3> SUFFICES ASSUME NEW k \in 1 .. n - 2
                 PROVE  ds[k].paths = <<>> /\ ds[k].next = <<>> /\ ds[k + 1].up = k
      BY <1>1, <2>6 DEF Chained
    <3>1. k \in 1 .. n - 1 /\ k # n - 1 /\ k + 1 \in 1 .. n - 1
      BY <1>1
    <3> QED
      BY <2>4, <2>6, <2>8, <3>1
  <2>12. OneSure(src, tr, ds)
    BY <2>10, <2>11 DEF OneSure
  <2> QED
    BY <1>5, <2>12 DEF Guided, ds, bs, n, left
<1> QED
  BY <1>6, <1>7 DEF Guided

\* A step of the run is recorded,
LEMMA RunRecorded ==
  ASSUME NEW src \in Bodies, NEW tr, Recorded(src, tr), ~Ended(src, tr[Len(tr)]),
         NEW r \in RealStep(src, tr[Len(tr)])
  PROVE  Recorded(src, Append(tr, r)) /\ tr \in Seq(Runs) /\ r \in Runs
<1> DEFINE n == Len(tr)
           us == Append(tr, r)
<1>1. /\ tr \in Seq(Runs) /\ n \in Nat \ {0}
      /\ \A t \in 1 .. n : tr[t] \in Runs /\ tr[t].at > 0
      /\ \A t \in 1 .. n - 1 : ~Ended(src, tr[t]) /\ tr[t + 1] \in RealStep(src, tr[t])
  BY DEF Recorded
<1>2. r \in Runs /\ r.at > 0
  <2>1. tr[n] \in Runs /\ tr[n].at > 0
    BY <1>1
  <2> QED
    BY <2>1, RealStepShape
<1>3. /\ us \in Seq(Runs) /\ us # <<>> /\ Len(us) = n + 1 /\ us[n + 1] = r
      /\ \A t \in 1 .. n : us[t] = tr[t]
  BY <1>1, <1>2
<1> HIDE DEF us, n
<1>4. Recorded(src, us)
  <2>1. ASSUME NEW t \in 1 .. n + 1 PROVE us[t].at > 0
    BY <1>1, <1>2, <1>3
  <2>2. ASSUME NEW t \in 1 .. n PROVE ~Ended(src, us[t]) /\ us[t + 1] \in RealStep(src, us[t])
    <3>1. CASE t = n
      BY <1>1, <1>3, <3>1 DEF n
    <3>2. CASE t \in 1 .. n - 1
      <4>1. us[t] = tr[t] /\ us[t + 1] = tr[t + 1]
        BY <1>1, <1>3, <3>2
      <4> QED
        BY <1>1, <3>2, <4>1
    <3> QED
      BY <1>1, <3>1, <3>2
  <2>3. DOMAIN us = 1 .. n + 1 /\ Len(us) - 1 = n
    BY <1>1, <1>3
  <2> QED
    BY <1>3, <2>1, <2>2, <2>3 DEF Recorded
<1> QED
  BY <1>1, <1>2, <1>4 DEF us

\* and what was before it stays.
LEMMA RunStepKeeps ==
  ASSUME NEW src \in Bodies, NEW tr \in Seq(Runs), NEW r \in Runs, NEW cs, Guided(src, tr, cs)
  PROVE  Guided(src, Append(tr, r), cs)
<1> DEFINE us == Append(tr, r)
<1>1. /\ us \in Seq(Runs)
      /\ \A t \in DOMAIN tr : t \in DOMAIN us /\ us[t] = tr[t]
  OBVIOUS
<1> HIDE DEF us
<1>5. Guided(src, us, cs)
  <2>1. CASE AllDoubtful(cs)
    BY <2>1 DEF Guided
  <2>2. CASE OneSure(src, tr, cs)
    <3>1. PICK t \in DOMAIN tr, p \in PathSet : Chained(cs) /\ OnlyPath(src, tr, cs, t, p)
      BY <2>2 DEF OneSure
    <3>2. t \in DOMAIN us /\ us[t] = tr[t]
      BY <1>1
    <3>3. OnlyPath(src, us, cs, t, p)
      BY <3>1, <3>2 DEF OnlyPath
    <3> QED
      BY <3>1, <3>2, <3>3 DEF Guided, OneSure
  <2> QED
    BY <2>1, <2>2 DEF Guided
<1> QED
  BY <1>5 DEF us

\* What is understood to the end was understood before.
LEMMA UnderstoodBefore ==
  ASSUME NEW src, NEW tr \in Seq(Runs), NEW r \in Runs, Understood(src, Append(tr, r))
  PROVE  Understood(src, tr)
<1>1. \A t \in DOMAIN tr : t \in DOMAIN Append(tr, r) /\ Append(tr, r)[t] = tr[t]
  OBVIOUS
<1> QED
  BY <1>1 DEF Understood

\* A sequence of one element.
LEMMA Single ==
  ASSUME NEW S, NEW e \in S, NEW s, s = <<e>>
  PROVE  s \in Seq(S) /\ s # <<>> /\ Len(s) = 1 /\ DOMAIN s = {1} /\ s[1] = e
OBVIOUS

\* The call of execute_body_paths, before the first node.
LEMMA FirstCall ==
  ASSUME NEW src \in Bodies, NEW x \in Values, NEW tr, tr = <<Run(1, x, NoResult, FALSE)>>,
         NEW p, p = [x |-> x, result |-> NoResult, notes |-> "none", done |-> FALSE],
         NEW cs, cs = <<Call(1, Len(src), 0, p)>>
  PROVE  Recorded(src, tr) /\ Stacked(src, cs) /\ Guided(src, tr, cs)
<1> DEFINE c == Call(1, Len(src), 0, p)
           r == Run(1, x, NoResult, FALSE)
<1>1. x \in Int /\ src \in Seq(Tokens) /\ Len(src) \in Nat /\ Text(src, 1, Len(src))
  BY InterpAssumption, BodiesAssumption DEF WellFormed
<1>2. p \in PathSet /\ p.x = x /\ p.result = NoResult /\ p.done = FALSE
  BY <1>1 DEF PathSet
<1>3. r \in Runs /\ r.at = 1 /\ r.x = x /\ r.result = NoResult /\ r.done = FALSE
  BY <1>1 DEF Run, Runs
<1>4. /\ c.from = 1 /\ c.to = Len(src) /\ c.up = 0 /\ c.at = 1 /\ c.paths = <<p>> /\ c.next = <<>>
  BY DEF Call
<1>5. c \in Calls
  <2>1. <<p>> \in Seq(PathSet) /\ <<>> \in Seq(PathSet)
    BY <1>2
  <2> QED
    BY <1>1, <2>1 DEF Call, Calls
<1>12. tr = <<r>> /\ cs = <<c>>
  OBVIOUS
<1> HIDE DEF c, r
<1>6. tr \in Seq(Runs) /\ tr # <<>> /\ Len(tr) = 1 /\ DOMAIN tr = {1} /\ tr[1] = r
  BY <1>3, <1>12, Single
<1>7. cs \in Seq(Calls) /\ cs # <<>> /\ Len(cs) = 1 /\ DOMAIN cs = {1} /\ cs[1] = c
  BY <1>5, <1>12, Single
<1>8. Recorded(src, tr)
  <2>1. 1 .. Len(tr) - 1 = {}
    BY <1>6
  <2>2. ASSUME NEW t \in DOMAIN tr PROVE tr[t].at > 0
    <3>1. t = 1
      BY <1>6
    <3>2. tr[t] = r
      BY <1>6, <3>1
    <3>3. r.at > 0
      BY <1>3
    <3> QED
      BY <3>2, <3>3
  <2> QED
    BY <1>6, <2>1, <2>2, Zenon DEF Recorded
<1>9. Stacked(src, cs)
  <2>1. Placed(src, c)
    BY <1>1, <1>4 DEF Placed
  <2>2. Called(src, cs, 1)
    BY <1>4, <1>7 DEF Called
  <2>3. Occupied(cs, 1)
    BY <1>4, <1>7 DEF Occupied
  <2> QED
    BY <1>7, <2>1, <2>2, <2>3 DEF Stacked
<1>10. OnlyPath(src, tr, cs, 1, p)
  <2>1. Trapped(src, c, 1)
    BY <1>4, TrappedFirst
  <2>2. Tracks(src, cs, tr[1], p, 1)
    BY <1>2, <1>3, <1>6, <1>7, <2>1 DEF Tracks
  <2> QED
    BY <1>4, <1>7, <2>2 DEF OnlyPath
<1>11. Chained(cs)
  BY <1>7 DEF Chained
<1> QED
  BY <1>2, <1>6, <1>8, <1>9, <1>10, <1>11 DEF Guided, OneSure

-----------------------------------------------------------------------------
(* The interpreter on tame bodies.                                         *)

\* The invariant holds before the first node,
LEMMA InterpInitInv == InterpInit => InterpInv
<1> SUFFICES ASSUME InterpInit
             PROVE  /\ body \in Bodies /\ Recorded(body, trace) /\ Stacked(body, calls)
                    /\ Guided(body, trace, calls)
  BY DEF InterpInv, Guided
<1>1. body \in Bodies
  BY DEF InterpInit
<1>2. PICK x \in Values :
         /\ trace = <<Run(1, x, NoResult, FALSE)>>
         /\ calls = <<Call(1, Len(body), 0,
                           [x |-> x, result |-> NoResult, notes |-> "none", done |-> FALSE])>>
  BY DEF InterpInit
<1> QED
  BY <1>1, <1>2, FirstCall

\* and every step keeps it.
LEMMA InterpNextInv ==
  ASSUME InterpInv, [InterpNext]_interpVars
  PROVE  InterpInv'
<1>0. CASE UNCHANGED interpVars
  BY <1>0 DEF InterpInv, interpVars
<1> SUFFICES ASSUME InterpNext PROVE InterpInv'
  BY <1>0
<1>1. body' = body /\ body \in Bodies /\ Recorded(body, trace)
  BY DEF InterpInv, InterpNext, RunStep, SkipReturned, ExecuteStatement, EnterThen, EnterElse,
         EnterBoth, AtBranching, AtPath, NextNode, LeaveBranch
<1>r. \/ trace' = trace
      \/ \E r \in Runs : trace \in Seq(Runs) /\ trace' = Append(trace, r) /\ Recorded(body, trace')
  <2>1. CASE RunStep
    <3>1. PICK r \in RealStep(body, trace[Len(trace)]) :
             trace' = Append(trace, r) /\ ~Ended(body, trace[Len(trace)])
      BY <2>1 DEF RunStep
    <3> QED BY <1>1, <3>1, RunRecorded
  <2>2. CASE ~RunStep
    BY <2>2 DEF InterpNext, SkipReturned, ExecuteStatement, EnterThen, EnterElse, EnterBoth,
                AtBranching, AtPath, NextNode, LeaveBranch
  <2> QED BY <2>1, <2>2
<1>k. Recorded(body, trace')
  BY <1>1, <1>r
<1> SUFFICES ASSUME Tame(body), Understood(body, trace')
             PROVE  Stacked(body, calls') /\ Guided(body, trace', calls')
  BY <1>1, <1>k DEF InterpInv, Guided
<1>u. Understood(body, trace)
  BY <1>r, UnderstoodBefore
<1>2. /\ Tame(body) /\ Understood(body, trace)
      /\ body \in Bodies /\ Recorded(body, trace) /\ Stacked(body, calls)
      /\ Guided(body, trace, calls)
  BY <1>1, <1>u DEF InterpInv, Guided
<1> DEFINE c == calls[Len(calls)]
<1>3. CASE RunStep
  <2>1. calls' = calls
    BY <1>3 DEF RunStep
  <2> QED
    BY <1>2, <1>r, <2>1, RunStepKeeps
<1>4. CASE SkipReturned
  <2>1. /\ trace' = trace
        /\ c.at <= c.to /\ c.paths # <<>> /\ c.paths[1].done
        /\ calls' = Append(SubSeq(calls, 1, Len(calls) - 1), TakenCall(c, c.paths[1]))
    BY <1>4 DEF SkipReturned, AtPath, Taken, Continue, TakenCall, Top, Depth, Below, ThisPath
  <2> HIDE DEF c
  <2>2. c = calls[Len(calls)]
    BY DEF c
  <2>3. Stacked(body, calls') /\ Guided(body, trace, calls')
    BY <1>2, <2>1, <2>2, SkipReturnedKeeps
  <2> QED
    BY <1>1, <1>2, <2>1, <2>3
<1>5. CASE ExecuteStatement
  <2>1. /\ trace' = trace /\ Ended(body, trace[Len(trace)])
        /\ c.at <= c.to /\ c.paths # <<>> /\ ~c.paths[1].done /\ IsStmt(body, c.at)
        /\ calls' = Append(SubSeq(calls, 1, Len(calls) - 1),
                           TakenCall(c, ExecuteStmt(body[c.at].op, c.paths[1])))
    BY <1>5 DEF ExecuteStatement, AtPath, Taken, Continue, TakenCall, Top, Depth, Below, ThisPath
  <2> HIDE DEF c
  <2>2. c = calls[Len(calls)]
    BY DEF c
  <2>3. Stacked(body, calls') /\ Guided(body, trace, calls')
    BY <1>2, <2>1, <2>2, ExecuteStatementKeeps
  <2> QED
    BY <1>1, <1>2, <2>1, <2>3
<1>6. ASSUME c.at <= c.to, IsIf(body, c.at)
      PROVE  ScannedElse(body, c.at, c.to) = ElseEnd(body, c.at)
  <2> HIDE DEF c
  <2>2. c = calls[Len(calls)]
    BY DEF c
  <2>3. /\ c.at \in Nat /\ c.at >= 1 /\ c.to \in Nat /\ c.to <= Len(body)
        /\ Text(body, c.at, c.to)
    BY <1>2, <1>6, <2>2, AtNode
  <2> QED
    BY <1>2, <1>6, <2>3, NodeEnds
<1>7. CASE EnterThen \/ \E cond \in {"zero", "call"} : EnterElse(cond)
  <2>1. /\ trace' = trace /\ Ended(body, trace[Len(trace)])
        /\ c.at <= c.to /\ c.paths # <<>> /\ ~c.paths[1].done
        /\ IsIf(body, c.at) /\ body[c.at].cond \in {"zero", "call"}
    BY <1>7 DEF EnterThen, EnterElse, AtBranching, AtPath, Top, Depth, ThisPath
  <2>2. calls' = Append(Append(SubSeq(calls, 1, Len(calls) - 1), WaitingCall(c)),
                        EnteredCall(body, c.at, Len(calls), c.paths[1]))
    <3>1. CASE EnterThen
      BY <3>1 DEF EnterThen, AtBranching, Waiting, WaitingCall, EnteredCall, ThenCall, Top, Depth,
                  Below, ThisPath
    <3>2. CASE \E cond \in {"zero", "call"} : EnterElse(cond)
      <4>1. ScannedElse(body, c.at, c.to) = ElseEnd(body, c.at)
        BY <1>6, <2>1
      <4>2. calls' = Append(Append(SubSeq(calls, 1, Len(calls) - 1), WaitingCall(c)),
                            Call(body[c.at].close + 1, ScannedElse(body, c.at, c.to),
                                 Len(calls), Noted(c.paths[1], "plain")))
        BY <3>2 DEF EnterElse, Waiting, WaitingCall, ElseCall, Top, Depth, Below, ThisPath
      <4>3. ~Holds(body[c.at].cond, c.paths[1].x)
        BY <3>2 DEF EnterElse, AtBranching, Top, Depth, ThisPath
      <4> QED
        BY <4>1, <4>2, <4>3 DEF EnteredCall
    <3> QED
      BY <1>7, <3>1, <3>2
  <2> HIDE DEF c
  <2>3. c = calls[Len(calls)]
    BY DEF c
  <2>4. Stacked(body, calls') /\ Guided(body, trace, calls')
    BY <1>2, <2>1, <2>2, <2>3, EnterKeeps
  <2> QED
    BY <1>1, <1>2, <2>1, <2>4
<1>8. CASE EnterBoth
  <2> DEFINE e == Call(c.at + 1, body[c.at].close - 1, Len(calls), Noted(c.paths[1], "uncertain"))
             f == Call(body[c.at].close + 1, ElseEnd(body, c.at), Len(calls),
                       Noted(c.paths[1], "uncertain"))
  <2>1. /\ trace' = trace
        /\ c.at <= c.to /\ c.paths # <<>> /\ IsIf(body, c.at)
    BY <1>8 DEF EnterBoth, AtBranching, AtPath, Top, Depth, ThisPath
  <2>2. calls' = Append(Append(Append(SubSeq(calls, 1, Len(calls) - 1), WaitingCall(c)), f), e)
    <3>1. ScannedElse(body, c.at, c.to) = ElseEnd(body, c.at)
      BY <1>6, <2>1
    <3> QED
      BY <1>8, <3>1 DEF EnterBoth, Waiting, WaitingCall, ThenCall, ElseCall, Top, Depth, Below,
                        ThisPath
  <2> HIDE DEF c
  <2>3. c = calls[Len(calls)]
    BY DEF c
  <2>4. Stacked(body, calls') /\ AllDoubtful(calls')
    BY <1>2, <2>1, <2>2, <2>3, EnterBothKeeps
  <2> QED
    BY <1>1, <1>2, <2>1, <2>4 DEF Guided
<1>9. CASE NextNode
  <2>1. /\ trace' = trace
        /\ c.at <= c.to /\ c.paths = <<>>
        /\ calls' = Append(SubSeq(calls, 1, Len(calls) - 1), NextCall(body, c))
    BY <1>9 DEF NextNode, Continue, NextCall, Top, Depth, Below
  <2> HIDE DEF c
  <2>2. c = calls[Len(calls)]
    BY DEF c
  <2>3. Stacked(body, calls') /\ Guided(body, trace, calls')
    BY <1>2, <2>1, <2>2, NextNodeKeeps
  <2> QED
    BY <1>1, <1>2, <2>1, <2>3
<1>10. CASE LeaveBranch
  <2>1. /\ trace' = trace /\ Ended(body, trace[Len(trace)])
        /\ c.at > c.to /\ Len(calls) > 1
        /\ calls' = HandedTo(SubSeq(calls, 1, Len(calls) - 1), c.up, LeftPaths(body, c))
    BY <1>10 DEF LeaveBranch, HandedTo, LeftPaths, Top, Depth, Below
  <2> HIDE DEF c
  <2>2. c = calls[Len(calls)]
    BY DEF c
  <2>3. Stacked(body, calls') /\ Guided(body, trace, calls')
    BY <1>2, <2>1, <2>2, LeaveBranchKeeps
  <2> QED
    BY <1>1, <1>2, <2>1, <2>3
<1> QED
  BY <1>3, <1>4, <1>5, <1>7, <1>8, <1>9, <1>10 DEF InterpNext

\* When the call of execute_body_paths ends, its paths are in doubt or there is one,
\* and it ends as the run does.
LEMMA EndOfBody ==
  ASSUME InterpInv, Executed, Tame(body), Understood(body, trace)
  PROVE  MissesNothing /\ InventsNothing
<1> DEFINE c == calls[Len(calls)]
<1>1. /\ body \in Bodies /\ Recorded(body, trace) /\ Stacked(body, calls)
      /\ Guided(body, trace, calls)
  BY DEF InterpInv, Guided
<1>2. Ended(body, trace[Len(trace)]) /\ Len(calls) = 1 /\ c.at > c.to
  BY DEF Executed, Depth, Top
<1>3. /\ calls \in Seq(Calls) /\ c \in Calls /\ Placed(body, c) /\ Len(calls) \in DOMAIN calls
      /\ Called(body, calls, 1)
  BY <1>1 DEF Stacked
<1>4. c.next = <<>> /\ c.at = c.to + 1
  BY <1>3, <1>2, PlacedShape
<1>5. c.paths # <<>>
  BY <1>1, <1>4, TopOccupied
<1>6. c.paths \in Seq(PathSet)
  BY <1>3 DEF Calls
<1>7. Top = c
  BY DEF Top, Depth
<1> HIDE DEF c
<1>8. CASE AllDoubtful(calls)
  <2>1. DoubtfulPaths(c.paths)
    BY <1>3, <1>8 DEF AllDoubtful, c
  <2>2. 1 \in DOMAIN c.paths
    BY <1>5, <1>6
  <2> QED
    BY <1>7, <2>1, <2>2 DEF DoubtfulPaths, MissesNothing, InventsNothing
<1>9. CASE OneSure(body, trace, calls)
  <2>1. PICK t \in DOMAIN trace, p \in PathSet : OnlyPath(body, trace, calls, t, p)
    BY <1>9 DEF OneSure
  <2>2. c.paths = <<p>> /\ Tracks(body, calls, trace[t], p, c.at)
    BY <1>5, <2>1 DEF OnlyPath, c
  <2>3. DOMAIN c.paths = {1} /\ c.paths[1] = p
    BY <2>2, Single
  <2>4. Ended(body, trace[t])
    <3>1. CASE p.done
      BY <2>2, <3>1 DEF Tracks, Ended
    <3>2. CASE ~p.done
      <4>1. trace[t].at = c.to + 1
        BY <1>4, <2>2, <3>2 DEF Tracks
      <4>2. c.to = Len(body)
        BY <1>2, <1>3 DEF Called, c
      <4>3. Len(body) \in Nat
        BY <1>1, BodiesAssumption
      <4> QED
        BY <4>1, <4>2, <4>3 DEF Ended
    <3> QED
      BY <3>1, <3>2
  <2>5. trace[t] = trace[Len(trace)]
    BY <1>1, <1>2, <2>4, RunGoesOn
  <2>6. SameEnd(p, trace[Len(trace)])
    BY <2>2, <2>5 DEF Tracks, SameEnd
  <2> QED
    BY <1>7, <2>3, <2>6 DEF MissesNothing, InventsNothing
<1> QED
  BY <1>1, <1>8, <1>9 DEF Guided

\* While a tame body is interpreted, next to a run that meets nothing misread and
\* whatever the stack of calls and the limit on paths: every path carries an
\* uncertainty note, or there is one path and it is where the C++ run has been.
THEOREM InterpInvariant == InterpSpec => []InterpInv
<1>1. InterpInit => InterpInv
  BY InterpInitInv
<1>2. InterpInv /\ [InterpNext]_interpVars => InterpInv'
  BY InterpNextInv
<1> QED
  BY <1>1, <1>2, PTL DEF InterpSpec

\* execute_body_paths leaves out no run of a tame body that meets nothing misread
\* without saying so, for any set of well-formed bodies, any values and any limit on
\* paths.
THEOREM InterpreterMissesNothing == InterpSpec => []TameBodiesMissNothing
<1>1. InterpInv => TameBodiesMissNothing
  BY EndOfBody DEF TameBodiesMissNothing
<1> QED
  BY <1>1, InterpInvariant, PTL

\* A path that execute_body_paths returns for a tame body without an uncertainty
\* note ends as the C++ run does, if that meets nothing misread, so a counterexample
\* built on it is real.
THEOREM InterpreterInventsNothing == InterpSpec => []TameBodiesInventNothing
<1>1. InterpInv => TameBodiesInventNothing
  BY EndOfBody DEF TameBodiesInventNothing
<1> QED
  BY <1>1, InterpInvariant, PTL
==============================================================================
