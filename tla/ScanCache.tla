------------------------------ MODULE ScanCache ------------------------------
(***************************************************************************)
(* `structguard scan --cache`: several scan processes share one directory  *)
(* of JSON records.  A scan fingerprints each file, looks the key up,      *)
(* and on a miss runs the passes over the file and stores the record.      *)
(*                                                                         *)
(* Nothing is locked.  Every access to a file that another process can     *)
(* observe is a step of its own: hashing the source, hashing the           *)
(* contracts, exists(), read_text(), each pass of the engine, the          *)
(* truncating open() and the write of write_text(), each unlink().         *)
(*                                                                         *)
(* Abstractions: a record's diagnostics are represented by what they were  *)
(* computed from (the root, the file, the options and the inputs each pass *)
(* read); a SHA-256 key by the tuple it digests; a JSON text that does not *)
(* parse by Torn.  A project has at least one cacheable file, and none is  *)
(* deleted.  The default directory is relative to the working directory,   *)
(* so that scans of several roots may share it; the roots have files of    *)
(* the same names, and their scans are given the same contracts.  A        *)
(* process stands for all the scans of one root that do not overlap.       *)
(***************************************************************************)
EXTENDS Naturals, FiniteSets

CONSTANTS
    Procs,              \* scan processes sharing the cache directory
    Roots, RootOf,      \* projects; RootOf[p]: the one that p scans
    NFiles,             \* cacheable files, numbered in scanning order
    Contents,           \* versions a source file can have
    HashedContracts,    \* states of the contracts that _contract_hashes reads
    UnhashedContracts,  \* states of the contracts it does not read
    Options,            \* presets and flags a scan can be started with
    NumPasses,          \* passes of the engine that read the project
    Clearers,           \* the processes run with --cache-clear
    EditsRace,          \* may a file be edited while a scan is working on it?
    MaxEdits,           \* bound: edits of sources or contracts
    MaxCrashes,         \* bound: scans killed or dying of an exception
    Absent, Torn,       \* a key with no file; a file that is not a record
    NoReport            \* a file the scan has not reported yet

ASSUME SizeAssumption == /\ NFiles \in Nat \ {0}
                         /\ NumPasses \in Nat \ {0}
                         /\ MaxEdits \in Nat
                         /\ MaxCrashes \in Nat
                         /\ EditsRace \in BOOLEAN
                         /\ Clearers \subseteq Procs
                         /\ RootOf \in [Procs -> Roots]
                         /\ Contents # {} /\ HashedContracts # {}
                         /\ UnhashedContracts # {} /\ Options # {}

VARIABLES
    sources,    \* sources[r][f]: the content on disk of file f of root r
    contracts,  \* the contract files on disk
    disk,       \* disk[k]: what cache_dir/<k>.json holds
    pc,         \* pc[p]: the call p is about to make
    opts,       \* opts[p]: the options of p's scan
    clearing,   \* clearing[p]: keys that clear() has listed and not unlinked
    idx,        \* idx[p]: the file p is working on
    key,        \* key[p]: the fingerprint of that file
    pass,       \* pass[p]: passes done on it
    seen,       \* seen[p]: the inputs those passes read
    fd,         \* fd[p]: p's open cache file: "none", "linked" or "orphan"
    report,     \* report[p][f]: the diagnostics of f and where they come from
    forecast,   \* history: the hits p's scan should have, see Forecast
    edits, crashes  \* how much of the bounds has been used

envVars == <<sources, contracts, edits, crashes>>
vars == <<sources, contracts, disk, pc, opts, clearing, idx, key, pass, seen,
           fd, report, forecast, edits, crashes>>

Files == 1 .. NFiles
Contracts == [hashed : HashedContracts, unhashed : UnhashedContracts]
Inputs == [content : Contents, contracts : Contracts]

\* The tuple that build_analysis_fingerprint digests: the path relative to
\* the root, the hash of the file, the contract hashes and the flags.  The
\* root itself is not among them.
Keys == [file : Files, content : Contents, hashed : HashedContracts, opts : Options]

Diagnostics == [root : Roots, file : Files, opts : Options, seen : SUBSET Inputs]
Origins == {"cached", "fresh"}
Reports == [origin : Origins, diags : Diagnostics]

\* A fresh list of hits is only predicted for a scan that runs alone.
NoForecast == [known |-> FALSE, hits |-> {}]

ASSUME MarkerAssumption == /\ Absent # Torn
                           /\ Absent \notin Diagnostics
                           /\ Torn \notin Diagnostics
                           /\ NoReport \notin Reports
                           /\ NoReport \notin Diagnostics

Resting == {"idle", "done", "failed"}
Running(p) == pc[p] \notin Resting

IsRecord(entry) == entry \notin {Absent, Torn}

AnalysisOf(r, f, inputs, o) == [root |-> r, file |-> f, opts |-> o, seen |-> inputs]

\* Variants of KeyOf that forget one of its parts.
KeyWithoutContent(f, content, h, o) ==
    [file |-> f, content |-> CHOOSE c \in Contents : TRUE, hashed |-> h, opts |-> o]
KeyWithoutFlags(f, content, h, o) ==
    [file |-> f, content |-> content, hashed |-> h, opts |-> CHOOSE x \in Options : TRUE]
KeyWithoutPath(f, content, h, o) ==
    [file |-> 1, content |-> content, hashed |-> h, opts |-> o]

KeyOf(f, content, h, o) ==
    [file |-> f, content |-> content, hashed |-> h, opts |-> o]

Source(p, f) == sources[RootOf[p]][f]
KeyNow(p, f, o) == KeyOf(f, Source(p, f), contracts.hashed, o)
InputNow(p, f) == [content |-> Source(p, f), contracts |-> contracts]

\* The value of an unused key.
AnyKey == CHOOSE k \in Keys : TRUE

Init ==
    /\ sources \in [Roots -> [Files -> Contents]]
    /\ contracts \in Contracts
    /\ disk = [k \in Keys |-> Absent]
    /\ pc = [p \in Procs |-> "idle"]
    /\ opts = [p \in Procs |-> CHOOSE o \in Options : TRUE]
    /\ clearing = [p \in Procs |-> {}]
    /\ idx = [p \in Procs |-> 1]
    /\ key = [p \in Procs |-> AnyKey]
    /\ pass = [p \in Procs |-> 0]
    /\ seen = [p \in Procs |-> {}]
    /\ fd = [p \in Procs |-> "none"]
    /\ report = [p \in Procs |-> [f \in Files |-> NoReport]]
    /\ forecast = [p \in Procs |-> NoForecast]
    /\ edits = 0
    /\ crashes = 0

-----------------------------------------------------------------------------
(* The scan: run_cached_scan and JsonCacheStore, one step per access.      *)

\* The keys that glob("*.json") lists for clear().
Listed == {k \in Keys : disk[k] # Absent}

\* The hits that a scan has if it runs alone and nothing is edited under it.
\* A scan that starts beside another one leaves neither with a forecast.
Forecast(p, o, clear) ==
    [q \in Procs |->
        IF q # p THEN NoForecast
        ELSE IF \E r \in Procs \ {p} : Running(r) THEN NoForecast
        ELSE [known |-> TRUE,
              hits |-> {f \in Files : ~clear /\ IsRecord(disk[KeyNow(p, f, o)])}]]

Start(p, o, clear) ==
    /\ ~Running(p)
    /\ clear => p \in Clearers
    /\ pc' = [pc EXCEPT ![p] = "clear"]
    /\ opts' = [opts EXCEPT ![p] = o]
    /\ clearing' = [clearing EXCEPT ![p] = IF clear THEN Listed ELSE {}]
    /\ idx' = [idx EXCEPT ![p] = 1]
    /\ report' = [report EXCEPT ![p] = [f \in Files |-> NoReport]]
    /\ forecast' = Forecast(p, o, clear)
    /\ UNCHANGED <<envVars, disk, key, pass, seen, fd>>

\* Everything local to the scan is gone; the disk stays as it is.
Dies(p, end) ==
    /\ pc' = [pc EXCEPT ![p] = end]
    /\ clearing' = [clearing EXCEPT ![p] = {}]
    /\ idx' = [idx EXCEPT ![p] = 1]
    /\ key' = [key EXCEPT ![p] = AnyKey]
    /\ pass' = [pass EXCEPT ![p] = 0]
    /\ seen' = [seen EXCEPT ![p] = {}]
    /\ fd' = [fd EXCEPT ![p] = "none"]
    /\ report' = [report EXCEPT ![p] = [f \in Files |-> NoReport]]
    /\ forecast' = [forecast EXCEPT ![p] = NoForecast]
    /\ UNCHANGED opts

\* An unlinked file lives on for the writers that hold it open.
Unlink(p, k) ==
    /\ pc[p] = "clear"
    /\ k \in clearing[p]
    /\ disk[k] # Absent
    /\ disk' = [disk EXCEPT ![k] = Absent]
    /\ clearing' = [clearing EXCEPT ![p] = @ \ {k}]
    /\ fd' = [q \in Procs |-> IF fd[q] = "linked" /\ key[q] = k THEN "orphan" ELSE fd[q]]
    /\ UNCHANGED <<envVars, pc, opts, idx, key, pass, seen, report, forecast>>

\* unlink() of a listed file that is gone raises FileNotFoundError, which
\* nothing catches.
UnlinkMissing(p, k) ==
    /\ pc[p] = "clear"
    /\ k \in clearing[p]
    /\ disk[k] = Absent
    /\ Dies(p, "failed")
    /\ UNCHANGED <<envVars, disk>>

BeginFiles(p) ==
    /\ pc[p] = "clear"
    /\ clearing[p] = {}
    /\ pc' = [pc EXCEPT ![p] = "hash_source"]
    /\ UNCHANGED <<envVars, disk, opts, clearing, idx, key, pass, seen, fd, report, forecast>>

\* The fingerprint takes the hash of the source first; the contract hashes
\* of the key are provisional until they are read.
HashSource(p) ==
    /\ pc[p] = "hash_source"
    /\ key' = [key EXCEPT ![p] = KeyNow(p, idx[p], opts[p])]
    /\ pc' = [pc EXCEPT ![p] = "hash_contracts"]
    /\ UNCHANGED <<envVars, disk, opts, clearing, idx, pass, seen, fd, report, forecast>>

HashContracts(p) ==
    /\ pc[p] = "hash_contracts"
    /\ key' = [key EXCEPT ![p].hashed = contracts.hashed]
    /\ pc' = [pc EXCEPT ![p] = "exists"]
    /\ UNCHANGED <<envVars, disk, opts, clearing, idx, pass, seen, fd, report, forecast>>

Exists(p) ==
    /\ pc[p] = "exists"
    /\ pc' = [pc EXCEPT ![p] = IF disk[key[p]] = Absent THEN "analyze" ELSE "read"]
    /\ UNCHANGED <<envVars, disk, opts, clearing, idx, key, pass, seen, fd, report, forecast>>

\* Variant: one file too many.
NextFilePastEnd(p) ==
    /\ pc' = [pc EXCEPT ![p] = IF idx[p] > NFiles THEN "summary" ELSE "hash_source"]
    /\ idx' = [idx EXCEPT ![p] = @ + 1]
    /\ key' = [key EXCEPT ![p] = AnyKey]

NextFile(p) ==
    /\ pc' = [pc EXCEPT ![p] = IF idx[p] = NFiles THEN "summary" ELSE "hash_source"]
    /\ idx' = [idx EXCEPT ![p] = IF @ = NFiles THEN 1 ELSE @ + 1]
    /\ key' = [key EXCEPT ![p] = AnyKey]

\* get() returns the record: a hit.
ReadHit(p) ==
    /\ pc[p] = "read"
    /\ IsRecord(disk[key[p]])
    /\ report' = [report EXCEPT ![p][idx[p]] =
                    [origin |-> "cached", diags |-> disk[key[p]]]]
    /\ NextFile(p)
    /\ UNCHANGED <<envVars, disk, opts, clearing, pass, seen, fd, forecast>>

\* Variant: get() also deletes the entry it cannot read.
ReadMissDeletes(p) ==
    /\ pc[p] = "read"
    /\ ~IsRecord(disk[key[p]])
    /\ disk' = [disk EXCEPT ![key[p]] = Absent]
    /\ pc' = [pc EXCEPT ![p] = "analyze"]
    /\ UNCHANGED <<envVars, opts, clearing, idx, key, pass, seen, fd, report, forecast>>

\* get() returns None: the file is gone again (OSError) or does not parse.
ReadMiss(p) ==
    /\ pc[p] = "read"
    /\ ~IsRecord(disk[key[p]])
    /\ pc' = [pc EXCEPT ![p] = "analyze"]
    /\ UNCHANGED <<envVars, disk, opts, clearing, idx, key, pass, seen, fd, report, forecast>>

\* One pass of _run_single_file: it reads the source and the contracts anew.
AnalyzePass(p) ==
    /\ pc[p] = "analyze"
    /\ pass[p] < NumPasses
    /\ pass' = [pass EXCEPT ![p] = @ + 1]
    /\ seen' = [seen EXCEPT ![p] = @ \cup {InputNow(p, idx[p])}]
    /\ IF pass'[p] = NumPasses
       THEN /\ pc' = [pc EXCEPT ![p] = "open"]
            /\ report' = [report EXCEPT ![p][idx[p]] =
                            [origin |-> "fresh",
                             diags |-> AnalysisOf(RootOf[p], idx[p], seen'[p], opts[p])]]
       ELSE UNCHANGED <<pc, report>>
    /\ UNCHANGED <<envVars, disk, opts, clearing, idx, key, fd, forecast>>

\* Variants: put() takes the fingerprint again; put() keeps an entry that exists.
OpenForWriteRekeyed(p) ==
    LET k == KeyNow(p, idx[p], opts[p]) IN
    /\ pc[p] = "open"
    /\ disk' = [disk EXCEPT ![k] = Torn]
    /\ key' = [key EXCEPT ![p] = k]
    /\ fd' = [fd EXCEPT ![p] = "linked"]
    /\ pc' = [pc EXCEPT ![p] = "write"]
    /\ UNCHANGED <<envVars, opts, clearing, idx, pass, seen, report, forecast>>
OpenForWriteExclusive(p) ==
    /\ pc[p] = "open"
    /\ disk' = [disk EXCEPT ![key[p]] = IF @ = Absent THEN Torn ELSE @]
    /\ fd' = [fd EXCEPT ![p] = IF disk[key[p]] = Absent THEN "linked" ELSE "orphan"]
    /\ pc' = [pc EXCEPT ![p] = "write"]
    /\ UNCHANGED <<envVars, opts, clearing, idx, key, pass, seen, report, forecast>>

\* put(): write_text opens the file for writing, which truncates it.
OpenForWrite(p) ==
    /\ pc[p] = "open"
    /\ disk' = [disk EXCEPT ![key[p]] = Torn]
    /\ fd' = [fd EXCEPT ![p] = "linked"]
    /\ pc' = [pc EXCEPT ![p] = "write"]
    /\ UNCHANGED <<envVars, opts, clearing, idx, key, pass, seen, report, forecast>>

\* What the file holds after the text of record r is written from offset 0
\* over `found`, the text another writer has completed since the truncation:
\* a longer one leaves its tail behind, and the result does not parse.
Overlaid(found, r) == IF found \in {Torn, r} THEN {r} ELSE {r, Torn}

Write(p) ==
    LET mine == report[p][idx[p]].diags IN
    /\ pc[p] = "write"
    /\ \/ /\ fd[p] = "linked"
          /\ \E after \in Overlaid(disk[key[p]], mine) :
                disk' = [disk EXCEPT ![key[p]] = after]
       \/ /\ fd[p] = "orphan"
          /\ UNCHANGED disk
    /\ fd' = [fd EXCEPT ![p] = "none"]
    /\ pass' = [pass EXCEPT ![p] = 0]
    /\ seen' = [seen EXCEPT ![p] = {}]
    /\ NextFile(p)
    /\ UNCHANGED <<envVars, opts, clearing, report, forecast>>

\* After the loop: the summary and the report are built.
Finish(p) ==
    /\ pc[p] = "summary"
    /\ pc' = [pc EXCEPT ![p] = "done"]
    /\ UNCHANGED <<envVars, disk, opts, clearing, idx, key, pass, seen, fd, report, forecast>>

Proceed(p) ==
    \/ \E k \in Keys : Unlink(p, k) \/ UnlinkMissing(p, k)
    \/ BeginFiles(p)
    \/ HashSource(p)
    \/ HashContracts(p)
    \/ Exists(p)
    \/ ReadHit(p)
    \/ ReadMiss(p)
    \/ AnalyzePass(p)
    \/ OpenForWrite(p)
    \/ Write(p)
    \/ Finish(p)

ScanStep(p) ==
    \/ \E o \in Options, clear \in BOOLEAN : Start(p, o, clear)
    \/ Proceed(p)

-----------------------------------------------------------------------------
(* What happens to a scan: it is killed, a pass raises, the user edits.    *)

Crash(p) ==
    /\ Running(p)
    /\ crashes < MaxCrashes
    /\ crashes' = crashes + 1
    /\ Dies(p, "idle")
    /\ UNCHANGED <<sources, contracts, edits, disk>>

\* p has begun to fingerprint its file and has not finished with its content.
Reading(p) == pc[p] \in {"hash_contracts", "exists", "read", "analyze"}

EditSource(r, f, c) ==
    /\ edits < MaxEdits
    /\ sources[r][f] # c
    /\ EditsRace \/ \A p \in Procs : ~(Reading(p) /\ RootOf[p] = r /\ idx[p] = f)
    /\ sources' = [sources EXCEPT ![r][f] = c]
    /\ edits' = edits + 1
    /\ forecast' = [p \in Procs |-> NoForecast]
    /\ UNCHANGED <<contracts, crashes, disk, pc, opts, clearing, idx, key, pass, seen, fd, report>>

EditContracts(c) ==
    /\ edits < MaxEdits
    /\ contracts # c
    /\ EditsRace \/ \A p \in Procs : ~Reading(p)
    /\ contracts' = c
    /\ edits' = edits + 1
    /\ forecast' = [p \in Procs |-> NoForecast]
    /\ UNCHANGED <<sources, crashes, disk, pc, opts, clearing, idx, key, pass, seen, fd, report>>

Next ==
    \/ \E p \in Procs : ScanStep(p) \/ Crash(p)
    \/ \E r \in Roots, f \in Files, c \in Contents : EditSource(r, f, c)
    \/ \E c \in Contracts : EditContracts(c)

Spec == Init /\ [][Next]_vars

\* A scan waits for nobody, so it goes on while it is not killed.  Nobody has
\* to start one, to edit or to crash.
FairSpec == Spec /\ \A p \in Procs : WF_vars(Proceed(p))

-----------------------------------------------------------------------------
(* Properties.                                                             *)

Fingerprinted(p) ==
    pc[p] \in {"hash_contracts", "exists", "read", "analyze", "open", "write"}
Storing(p) == pc[p] \in {"open", "write"}

\* The input i is what the key k digests.
Matches(i, k) == i.content = k.content /\ i.contracts.hashed = k.hashed

TypeOK ==
    /\ sources \in [Roots -> [Files -> Contents]]
    /\ contracts \in Contracts
    /\ disk \in [Keys -> Diagnostics \cup {Absent, Torn}]
    /\ pc \in [Procs -> Resting \cup {"clear", "hash_source", "hash_contracts", "exists",
                                      "read", "analyze", "open", "write", "summary"}]
    /\ opts \in [Procs -> Options]
    /\ clearing \in [Procs -> SUBSET Keys]
    /\ idx \in [Procs -> Files]
    /\ key \in [Procs -> Keys]
    /\ pass \in [Procs -> 0 .. NumPasses]
    /\ seen \in [Procs -> SUBSET Inputs]
    /\ fd \in [Procs -> {"none", "linked", "orphan"}]
    /\ report \in [Procs -> [Files -> Reports \cup {NoReport}]]
    /\ forecast \in [Procs -> [known : BOOLEAN, hits : SUBSET Files]]
    /\ edits \in 0 .. MaxEdits
    /\ crashes \in 0 .. MaxCrashes

\* However scans, edits, crashes and --cache-clear interleave, an entry only
\* ever holds diagnostics of the relative name and the options that its key
\* names: no hit shows one file of a project for another of its files, or what
\* another preset found.  Which project it was is not told apart: that is
\* HitsAreOfThisRoot.
KeyIsolation ==
    \A k \in Keys : IsRecord(disk[k]) => disk[k].file = k.file /\ disk[k].opts = k.opts

\* A scan reports on the files of its own root.  It does not hold where roots
\* share a directory: a file of the same relative name and content, analysed
\* for another root, answers for this one.
HitsAreOfThisRoot ==
    \A p \in Procs, f \in Files :
        report[p][f] # NoReport => report[p][f].diags.root = RootOf[p]

\* CACHE_MODEL.md, "Entradas de la clave": when an input of the key changes,
\* the key changes and the file is analysed again.  So a record found under a
\* key was computed from the inputs that the key was computed from, and from
\* nothing else.
RecordsMatchKeys ==
    \A k \in Keys : IsRecord(disk[k]) => \A i \in disk[k].seen : Matches(i, k)

\* CACHE_MODEL.md, "Comportamiento esperado": run alone, a scan takes from the
\* cache exactly the files whose records it found there when it started; so a
\* second scan with no change has no miss, and one with one file edited has one.
HitsAreForecast ==
    \A p \in Procs : pc[p] = "done" /\ forecast[p].known =>
        {f \in Files : report[p][f].origin = "cached"} = forecast[p].hits

\* A scan ends in an exception of the store only when two of them clear the
\* same directory: while at most one process is run with --cache-clear, every
\* file that clear() lists is still there when it is unlinked.
OneClearerNeverFails ==
    (\A p, q \in Clearers : p = q) => \A p \in Procs : pc[p] # "failed"

\* CACHE_MODEL.md: "Si cualquiera de esas entradas cambia, la clave cambia y el
\* archivo se recalcula".  So a scan that runs alone, with nothing edited since
\* it started, reports what an analysis of the project as it is would report.
CalmScanIsCurrent ==
    \A p \in Procs : pc[p] = "done" /\ forecast[p].known =>
        \A f \in Files : report[p][f].diags = AnalysisOf(RootOf[p], f, {InputNow(p, f)}, opts[p])

\* store.py: a corrupt entry is ignored and the analysis is done again.  So a
\* killed or colliding write never leaves an entry unusable for good: it heals
\* if scans of the root with the same options keep being run.
TornEntriesHeal ==
    \A p \in Procs, f \in Files, o \in Options :
        []<>(pc[p] = "clear" /\ opts[p] = o) => []<>(disk[KeyNow(p, f, o)] # Torn)

\* While no file is edited under the scan that works on it, and one root uses
\* the directory, a cached scan is a scan: it publishes for every file an analysis of that file at one instant.
Fresh == INSTANCE FreshScan WITH
    stage <- [p \in Procs |-> CASE Running(p) -> "scanning"
                                [] pc[p] = "done" -> "done"
                                [] OTHER -> "idle"],
    published <- [p \in Procs |-> [f \in Files |->
                    IF report[p][f] = NoReport THEN NoReport ELSE report[p][f].diags]]

RefinesFreshScan == Fresh!Spec
==============================================================================
