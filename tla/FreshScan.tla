------------------------------ MODULE FreshScan ------------------------------
(***************************************************************************)
(* What a scan promises, whatever sits under it: for every file of the     *)
(* project at its root it publishes the diagnostics of an analysis of that *)
(* file as it is at one instant of the scan, under the contracts of that   *)
(* instant and the options of the scan.  There is no cache here, no pass,  *)
(* no key: ScanCache is shown to implement this module.                    *)
(***************************************************************************)
EXTENDS Naturals

CONSTANTS
    Procs,          \* scan processes
    Roots, RootOf,  \* projects; RootOf[p]: the one that p scans
    NFiles,         \* files of a project, numbered in scanning order
    Contents,       \* versions a source file can have
    HashedContracts,    \* states of the contracts the fingerprint hashes
    UnhashedContracts,  \* states of the contracts loaded but never hashed
    Options,        \* presets and flags a scan can be started with
    NoReport        \* a file the scan has not reported yet

VARIABLES
    sources,        \* sources[r][f]: the content on disk of file f of root r
    contracts,      \* the contract files on disk
    stage,          \* stage[p]: "idle", "scanning" or "done"
    opts,           \* opts[p]: the options of p's scan
    published       \* published[p][f]: the diagnostics p reports for f

vars == <<sources, contracts, stage, opts, published>>

Files == 1 .. NFiles

Contracts == [hashed : HashedContracts, unhashed : UnhashedContracts]

\* The diagnostics of a file are represented by all they depend on: the
\* file, the options and the inputs that the passes have read.
AnalysisOf(r, f, content, c, o) ==
    [root |-> r, file |-> f, opts |-> o, seen |-> {[content |-> content, contracts |-> c]}]

Init ==
    /\ sources \in [Roots -> [Files -> Contents]]
    /\ contracts \in Contracts
    /\ stage = [p \in Procs |-> "idle"]
    /\ opts \in [Procs -> Options]
    /\ published = [p \in Procs |-> [f \in Files |-> NoReport]]

Begin(p) ==
    /\ stage[p] # "scanning"
    /\ stage' = [stage EXCEPT ![p] = "scanning"]
    /\ \E o \in Options : opts' = [opts EXCEPT ![p] = o]
    /\ published' = [published EXCEPT ![p] = [f \in Files |-> NoReport]]
    /\ UNCHANGED <<sources, contracts>>

Publish(p, f) ==
    /\ stage[p] = "scanning"
    /\ published[p][f] = NoReport
    /\ published' = [published EXCEPT ![p][f] =
                        AnalysisOf(RootOf[p], f, sources[RootOf[p]][f], contracts, opts[p])]
    /\ UNCHANGED <<sources, contracts, stage, opts>>

End(p) ==
    /\ stage[p] = "scanning"
    /\ \A f \in Files : published[p][f] # NoReport
    /\ stage' = [stage EXCEPT ![p] = "done"]
    /\ UNCHANGED <<sources, contracts, opts, published>>

Abort(p) ==
    /\ stage[p] = "scanning"
    /\ stage' = [stage EXCEPT ![p] = "idle"]
    /\ published' = [published EXCEPT ![p] = [f \in Files |-> NoReport]]
    /\ UNCHANGED <<sources, contracts, opts>>

Edit ==
    /\ sources' \in [Roots -> [Files -> Contents]]
    /\ contracts' \in Contracts
    /\ UNCHANGED <<stage, opts, published>>

Next ==
    \/ \E p \in Procs :
        \/ Begin(p) \/ End(p) \/ Abort(p)
        \/ \E f \in Files : Publish(p, f)
    \/ Edit

Spec == Init /\ [][Next]_vars
==============================================================================
